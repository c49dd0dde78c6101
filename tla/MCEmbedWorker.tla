---------------------------- MODULE MCEmbedWorker ----------------------------
(***************************************************************************)
(* EmbedWorker with one or two processes.  In the exclusive runs two jobs   *)
(* of different profiles meet runs of either profile, which is what         *)
(* `embed --profile <new-key>' does beside the scheduled profile.           *)
(***************************************************************************)
EXTENDS EmbedWorker, TLC

CONSTANTS j1, j2, p1, p2

OneProfile  == [j \in Jobs |-> p1]
TwoProfiles == (j1 :> p1) @@ (j2 :> p2)
=============================================================================

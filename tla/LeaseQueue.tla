----------------------------- MODULE LeaseQueue ------------------------------
(***************************************************************************)
(* What the job queue promises its users, with no processes, transactions   *)
(* or clocks: a submitted job is leased at most MaxAttempts times, each     *)
(* lease ends in one verdict, and only a job with a verdict can be          *)
(* submitted again.  A reap or an enqueue pass moves several jobs at once.  *)
(***************************************************************************)
EXTENDS Naturals

CONSTANTS Jobs, MaxAttempts

VARIABLES phase,   \* where each job is
          tries    \* leases since its last submission

Phases == {"idle", "queued", "leased", "done", "dead"}

Init == phase = [j \in Jobs |-> "idle"] /\ tries = [j \in Jobs |-> 0]

Submit(j) ==
    /\ phase[j] \in {"idle", "done", "dead"}
    /\ phase'[j] = "queued" /\ tries'[j] = 0

Lease(j) ==
    /\ phase[j] = "queued" /\ tries[j] < MaxAttempts
    /\ phase'[j] = "leased" /\ tries'[j] = tries[j] + 1

\* Back to the queue while attempts are left, given up when they are not.
Release(j) ==
    /\ phase[j] = "leased"
    /\ phase'[j] = IF tries[j] < MaxAttempts THEN "queued" ELSE "dead"
    /\ tries'[j] = tries[j]

Finish(j) ==
    /\ phase[j] = "leased"
    /\ phase'[j] = "done" /\ tries'[j] = tries[j]

Stay(j) == phase'[j] = phase[j] /\ tries'[j] = tries[j]

Next ==
    /\ phase' \in [Jobs -> Phases] /\ tries' \in [Jobs -> 0 .. MaxAttempts]
    /\ \/ \A j \in Jobs : Submit(j) \/ Stay(j)
       \/ \A j \in Jobs : Release(j) \/ Stay(j)
       \/ \E j \in Jobs : /\ Lease(j) \/ Finish(j)
                          /\ \A k \in Jobs \ {j} : Stay(k)

Spec == Init /\ [][Next]_<<phase, tries>>
=============================================================================

---------------------------- MODULE MCMaintenance ----------------------------
(***************************************************************************)
(* Two papers, two records, pages of one row: a page, the next one, and what *)
(* is committed between them.                                                *)
(***************************************************************************)
EXTENDS Maintenance

MCSourceOf == [r \in Records |-> IF r = 1 THEN "openalex" ELSE "europepmc"]

\* A work refused at first may come to vouch for a paper, when its payload changes.
MCSends == [r \in Records |-> IF r = 1 THEN {"refused", "vouched"} ELSE {"deposit"}]

\* A paper of before the derived columns and the horizon.
MCLegacy == {[said |-> 1, fields |-> 0, key |-> 0, far |-> TRUE]}
=============================================================================

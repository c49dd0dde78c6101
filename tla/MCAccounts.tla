---------------------------- MODULE MCAccounts ----------------------------
EXTENDS Accounts, TLC

CONSTANTS u1, p1, p2, f1, f2, s1, e1, e2, e3

MCFeedOf == s1 :> u1
MCEventOf ==
    e1 :> [user |-> u1, type |-> "save", paper |-> p1, session |-> s1]
 @@ e2 :> [user |-> u1, type |-> "more_like_this", paper |-> p2, session |-> s1]
 @@ e3 :> [user |-> u1, type |-> "open", paper |-> p1, session |-> None]
MCBatches == {<<e1, e2>>, <<e2, e1>>, <<e3, e1>>}
MCDirection == f1 :> 1 @@ f2 :> -1
MCSnapshots == {f1 :> 1 @@ f2 :> 1}
===========================================================================

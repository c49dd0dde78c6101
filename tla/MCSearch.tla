------------------------------ MODULE MCSearch ------------------------------
(***************************************************************************)
(* One connection and one permit for two handlers, four papers of which a   *)
(* page shows two.  The first query has papers in one ranking and in both,  *)
(* the second finds none with all its terms and is filtered.               *)
(***************************************************************************)
EXTENDS Search, TLC

CONSTANTS h1, h2

MCAsks == (h1 :> {"search"}) @@ (h2 :> {"search", "preview", "feed", "browse"})

MCQueries ==
    {[any |-> <<2, 1, 3>>, all |-> {1, 2, 3}, relaxable |-> TRUE, near |-> <<4, 2, 3>>,
      keep |-> {1, 2, 3, 4}],
     [any |-> <<4, 1>>,    all |-> {},        relaxable |-> TRUE, near |-> <<1, 2, 3>>,
      keep |-> {2, 3, 4}]}

MCNewestFirst == <<3, 1, 4, 2>>
=============================================================================

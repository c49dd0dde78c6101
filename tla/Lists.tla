--------------------------------- MODULE Lists ---------------------------------
(***************************************************************************)
(* Sorting and filtering of lists, as the statements and comprehensions of  *)
(* retrieval/ and personalise/ do it.  In this form, without recursion,     *)
(* they can be proved about (ListsProofs).                                  *)
(***************************************************************************)
EXTENDS Integers, Sequences, FiniteSets

Least(a, b)    == IF a < b THEN a ELSE b
Greatest(a, b) == IF a > b THEN a ELSE b

\* The elements of S in the order of R, and those of s at the given places, in
\* their order.
Sorted(S, R)  == [n \in 1 .. Cardinality(S) |->
                     CHOOSE x \in S : Cardinality({y \in S : <<y, x>> \in R}) = n - 1]
Picked(s, at) == [n \in 1 .. Cardinality(at) |->
                     s[CHOOSE i \in at : Cardinality({j \in at : j < i}) = n - 1]]
Among(s, set) == Picked(s, {i \in DOMAIN s : s[i] \in set})
Prefix(s, n)  == SubSeq(s, 1, Least(n, Len(s)))

\* By descending measure, ties by ascending rank.
Precedes(measure, rank) ==
    {x \in (DOMAIN measure) \X (DOMAIN measure) :
        \/ measure[x[1]] > measure[x[2]]
        \/ measure[x[1]] = measure[x[2]] /\ rank[x[1]] < rank[x[2]]}
Ordered(measure, rank) == Sorted(DOMAIN measure, Precedes(measure, rank))
=============================================================================

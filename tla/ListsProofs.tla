----------------------------- MODULE ListsProofs -----------------------------
(***************************************************************************)
(* What sorting and filtering a list returns (Lists), for the proofs about  *)
(* the answers of a search and about the feed.                              *)
(***************************************************************************)
EXTENDS Lists, SequencesExt, FiniteSetTheorems, SequenceTheorems, TLAPS

StrictlyOrders(R, S) ==
    /\ \A x \in S : <<x, x>> \notin R
    /\ \A x, y \in S : x # y => <<x, y>> \in R \/ <<y, x>> \in R
    /\ \A x, y, z \in S : <<x, y>> \in R /\ <<y, z>> \in R => <<x, z>> \in R

\* The number of predecessors is a bijection with an interval, so that the n-th
\* element exists and is unique.
LEMMA SortedIsAListing ==
    ASSUME NEW S, IsFiniteSet(S), NEW R, StrictlyOrders(R, S)
    PROVE  /\ Cardinality(S) \in Nat
           /\ Sorted(S, R) \in [1 .. Cardinality(S) -> S]
           /\ \A i, j \in 1 .. Cardinality(S) :
                 i < j => <<Sorted(S, R)[i], Sorted(S, R)[j]>> \in R
           /\ \A x \in S : \E i \in 1 .. Cardinality(S) : Sorted(S, R)[i] = x
<1> DEFINE
    Before(x) == {y \in S : <<y, x>> \in R}
    place == [x \in S |-> Cardinality(Before(x)) + 1]
    size == Cardinality(S)
<1>1. size \in Nat /\ IsFiniteSet(1 .. size) /\ Cardinality(1 .. size) = size
  BY FS_CardinalityType, FS_Interval
<1>2. ASSUME NEW x \in S PROVE /\ IsFiniteSet(Before(x)) /\ Cardinality(Before(x)) \in Nat
                               /\ Cardinality(Before(x)) < size
  <2>1. Before(x) \in SUBSET S /\ x \notin Before(x)
    BY DEF StrictlyOrders
  <2>2. Cardinality(Before(x)) # size
    BY <2>1, FS_Subset
  <2>3. IsFiniteSet(Before(x)) /\ Cardinality(Before(x)) <= size
    BY <2>1, FS_Subset
  <2>4. Cardinality(Before(x)) \in Nat
    BY <2>3, FS_CardinalityType
  <2> QED
    BY <1>1, <2>2, <2>3, <2>4
<1>3. ASSUME NEW x \in S, NEW y \in S, <<x, y>> \in R PROVE place[x] < place[y]
  <2>1. Before(x) \in SUBSET Before(y) /\ x \in Before(y) /\ x \notin Before(x)
    BY <1>3 DEF StrictlyOrders
  <2>2. Before(x) # Before(y)
    BY <2>1
  <2>3. Cardinality(Before(x)) <= Cardinality(Before(y)) /\ Cardinality(Before(x)) # Cardinality(Before(y))
    BY <1>2, <2>1, <2>2, FS_Subset
  <2> QED
    BY <1>2, <2>3
<1>4. /\ place \in [S -> 1 .. size]
      /\ \A x \in S, n \in 1 .. size : place[x] = n <=> Cardinality(Before(x)) = n - 1
  <2>1. \A x \in S : place[x] = Cardinality(Before(x)) + 1
    OBVIOUS
  <2>2. place = [x \in S |-> place[x]]
    OBVIOUS
  <2> HIDE DEF place, Before, size
  <2>3. \A x \in S : Cardinality(Before(x)) \in Nat /\ Cardinality(Before(x)) < size
    BY <1>2
  <2>4. \A x \in S : place[x] \in 1 .. size
    BY <1>1, <2>1, <2>3
  <2> QED
    BY <1>1, <2>1, <2>2, <2>3, <2>4
<1> HIDE DEF place, size
<1>5. ASSUME NEW x \in S, NEW y \in S, place[x] = place[y] PROVE x = y
  <2>1. place[x] \in Nat /\ place[y] \in Nat
    BY <1>1, <1>4
  <2>2. <<x, y>> \notin R /\ <<y, x>> \notin R
    BY <1>3, <1>5, <2>1
  <2> QED
    BY <2>2 DEF StrictlyOrders
<1>6. place \in Injection(S, 1 .. size)
  BY <1>4, <1>5 DEF Injection, IsInjective
<1>7. place \in Surjection(S, 1 .. size)
  BY <1>1, <1>6, FS_Injection DEF size
<1>8. \A n \in 1 .. size : \E x \in S : place[x] = n
  BY <1>7 DEF Surjection
<1>9. ASSUME NEW n \in 1 .. size
      PROVE Sorted(S, R)[n] \in S /\ place[Sorted(S, R)[n]] = n
  <2>1. Sorted(S, R)[n] = CHOOSE x \in S : Cardinality(Before(x)) = n - 1
    BY DEF Sorted, size
  <2>2. \E x \in S : Cardinality(Before(x)) = n - 1
    <3>1. PICK x \in S : place[x] = n
      BY <1>8
    <3> QED
      BY <1>4, <3>1
  <2>3. Sorted(S, R)[n] \in S /\ Cardinality(Before(Sorted(S, R)[n])) = n - 1
    BY <2>1, <2>2
  <2> QED
    BY <1>4, <2>3
<1>10. Sorted(S, R) \in [1 .. size -> S]
  BY <1>9 DEF Sorted, size
<1>11. ASSUME NEW i \in 1 .. size, NEW j \in 1 .. size, i < j
       PROVE  <<Sorted(S, R)[i], Sorted(S, R)[j]>> \in R
  <2>1. ~ (<<Sorted(S, R)[j], Sorted(S, R)[i]>> \in R)
    <3>1. ~ (place[Sorted(S, R)[j]] < place[Sorted(S, R)[i]])
      BY <1>1, <1>9, <1>11
    <3> QED
      BY <1>3, <1>9, <3>1
  <2>2. Sorted(S, R)[i] # Sorted(S, R)[j]
    BY <1>1, <1>9, <1>11
  <2> QED
    BY <1>9, <2>1, <2>2 DEF StrictlyOrders
<1>12. ASSUME NEW x \in S PROVE \E i \in 1 .. size : Sorted(S, R)[i] = x
  <2>1. place[x] \in 1 .. size
    BY <1>4
  <2>2. Sorted(S, R)[place[x]] \in S /\ place[Sorted(S, R)[place[x]]] = place[x]
    BY <1>9, <2>1
  <2> QED
    BY <1>5, <2>1, <2>2
<1> QED
  BY <1>1, <1>10, <1>11, <1>12 DEF size

\* part consists of the elements of s at the given places, in their order.
PickedFrom(part, s, at) ==
    \E place \in [DOMAIN part -> at] :
       /\ \A n \in DOMAIN part : part[n] = s[place[n]]
       /\ \A m, n \in DOMAIN part : m < n => place[m] < place[n]
       /\ \A i \in at : \E n \in DOMAIN part : place[n] = i

LEMMA PickedIsASublist ==
    ASSUME NEW T, NEW s \in Seq(T), NEW at \in SUBSET DOMAIN s
    PROVE  /\ Picked(s, at) \in Seq(T) /\ Len(Picked(s, at)) = Cardinality(at)
           /\ PickedFrom(Picked(s, at), s, at)
<1> DEFINE
    R == {x \in at \X at : x[1] < x[2]}
    place == Sorted(at, R)
<1>1. DOMAIN s = 1 .. Len(s) /\ Len(s) \in Nat /\ IsFiniteSet(1 .. Len(s))
  BY FS_Interval
<1>2. IsFiniteSet(at) /\ at \subseteq Nat
  BY <1>1, FS_Subset
<1>3. \A x, y \in at : <<x, y>> \in R <=> x < y
  OBVIOUS
<1>4. StrictlyOrders(R, at)
  BY <1>2, <1>3 DEF StrictlyOrders
<1> HIDE DEF R
<1>5. /\ Cardinality(at) \in Nat /\ place \in [1 .. Cardinality(at) -> at]
      /\ \A i, j \in 1 .. Cardinality(at) : i < j => <<place[i], place[j]>> \in R
      /\ \A i \in at : \E n \in 1 .. Cardinality(at) : place[n] = i
  BY <1>2, <1>4, SortedIsAListing DEF place
<1> HIDE DEF place
<1>6. ASSUME NEW n \in 1 .. Cardinality(at) PROVE Picked(s, at)[n] = s[place[n]]
  <2>1. \A i \in at : {j \in at : <<j, i>> \in R} = {j \in at : j < i}
    BY <1>3
  <2>2. place[n] = CHOOSE i \in at : Cardinality({j \in at : <<j, i>> \in R}) = n - 1
    BY DEF Sorted, place
  <2>3. place[n] = CHOOSE i \in at : Cardinality({j \in at : j < i}) = n - 1
    BY <2>1, <2>2
  <2> QED
    BY <2>3 DEF Picked
<1>7. /\ Picked(s, at) \in Seq(T) /\ Len(Picked(s, at)) = Cardinality(at)
      /\ DOMAIN Picked(s, at) = 1 .. Cardinality(at)
  <2>1. \A n \in 1 .. Cardinality(at) : Picked(s, at)[n] \in T
    BY <1>1, <1>5, <1>6
  <2>2. Picked(s, at) = [n \in 1 .. Cardinality(at) |-> Picked(s, at)[n]]
    BY DEF Picked
  <2> QED
    BY <1>5, <2>1, <2>2, IsASeq
<1>8. \A m, n \in 1 .. Cardinality(at) : m < n => place[m] < place[n]
  BY <1>3, <1>5
<1>9. /\ \A n \in DOMAIN Picked(s, at) : Picked(s, at)[n] = s[place[n]]
      /\ \A m, n \in DOMAIN Picked(s, at) : m < n => place[m] < place[n]
      /\ \A i \in at : \E n \in DOMAIN Picked(s, at) : place[n] = i
      /\ place \in [DOMAIN Picked(s, at) -> at]
  BY <1>5, <1>6, <1>7, <1>8
<1> QED
  BY <1>7, <1>9 DEF PickedFrom

LEMMA PrefixIsAPrefix ==
    ASSUME NEW T, NEW s \in Seq(T), NEW n \in Nat
    PROVE  /\ Prefix(s, n) \in Seq(T) /\ Len(Prefix(s, n)) = Least(n, Len(s))
           /\ DOMAIN Prefix(s, n) = 1 .. Least(n, Len(s)) /\ DOMAIN Prefix(s, n) \subseteq DOMAIN s
           /\ \A i \in DOMAIN Prefix(s, n) : Prefix(s, n)[i] = s[i]
<1> DEFINE m == Least(n, Len(s))
<1>1. m \in Nat /\ m <= Len(s) /\ Len(s) \in Nat
  BY DEF Least
<1> HIDE DEF m
<1>2. \A i \in 1 .. m : s[i] \in T
  BY <1>1
<1>3. /\ SubSeq(s, 1, m) \in Seq(T) /\ Len(SubSeq(s, 1, m)) = m
      /\ \A i \in 1 .. m : SubSeq(s, 1, m)[i] = s[i]
  <2>1. /\ SubSeq(s, 1, m) \in Seq(T)
        /\ Len(SubSeq(s, 1, m)) = IF 1 <= m THEN m - 1 + 1 ELSE 0
        /\ \A i \in 1 .. m - 1 + 1 : SubSeq(s, 1, m)[i] = s[1 + i - 1]
    BY <1>1, <1>2, SubSeqProperties
  <2> QED
    BY <1>1, <2>1
<1> QED
  BY <1>1, <1>3 DEF Prefix, m

\* Distinct elements: as many as the list is long.
LEMMA InjectiveLists ==
    ASSUME NEW T, NEW s \in Seq(T)
    PROVE  /\ IsFiniteSet(ToSet(s)) /\ Cardinality(ToSet(s)) \in Nat /\ Cardinality(ToSet(s)) <= Len(s)
           /\ IsInjective(s) => Cardinality(ToSet(s)) = Len(s)
<1>1. DOMAIN s = 1 .. Len(s) /\ Len(s) \in Nat /\ s = [i \in 1 .. Len(s) |-> s[i]]
  OBVIOUS
<1>2. IsFiniteSet(1 .. Len(s)) /\ Cardinality(1 .. Len(s)) = Len(s)
  <2> DEFINE n == Len(s)
  <2>1. n \in Nat
    OBVIOUS
  <2> HIDE DEF n
  <2>2. IsFiniteSet(1 .. n) /\ Cardinality(1 .. n) = n
    BY <2>1, FS_Interval
  <2> QED
    BY <2>2 DEF n
<1>3. s \in Surjection(1 .. Len(s), ToSet(s))
  BY <1>1 DEF Surjection, ToSet
<1>4. IsInjective(s) => s \in Injection(1 .. Len(s), ToSet(s))
  BY <1>1, <1>3 DEF Injection, Surjection, IsInjective
<1>5. /\ IsFiniteSet(ToSet(s)) /\ Cardinality(ToSet(s)) <= Len(s)
      /\ IsInjective(s) => Cardinality(ToSet(s)) = Len(s)
  BY <1>2, <1>3, <1>4, FS_Surjection
<1> QED
  BY <1>5, FS_CardinalityType

LEMMA AmongIsASublist ==
    ASSUME NEW T, NEW s \in Seq(T), NEW set
    PROVE  /\ Among(s, set) \in Seq(T) /\ ToSet(Among(s, set)) = ToSet(s) \cap set
           /\ IsInjective(s) => IsInjective(Among(s, set))
           /\ \A m, n \in DOMAIN Among(s, set) : m < n =>
                 \E i, j \in DOMAIN s : i < j /\ Among(s, set)[m] = s[i] /\ Among(s, set)[n] = s[j]
<1> DEFINE at == {i \in DOMAIN s : s[i] \in set}
           part == Among(s, set)
<1>1. at \in SUBSET DOMAIN s /\ DOMAIN s \subseteq Nat
  OBVIOUS
<1>2. part \in Seq(T) /\ DOMAIN part \subseteq Nat
  <2>1. Picked(s, at) \in Seq(T)
    BY <1>1, PickedIsASublist
  <2> QED
    BY <2>1 DEF Among
<1>3. PICK place \in [DOMAIN part -> at] :
         /\ \A n \in DOMAIN part : part[n] = s[place[n]]
         /\ \A m, n \in DOMAIN part : m < n => place[m] < place[n]
         /\ \A i \in at : \E n \in DOMAIN part : place[n] = i
  <2> HIDE DEF at
  <2> HIDE DEF part
  <2>1. PickedFrom(Picked(s, at), s, at)
    BY <1>1, PickedIsASublist
  <2>2. part = Picked(s, at)
    BY DEF Among, at, part
  <2> QED
    BY <2>1, <2>2 DEF PickedFrom
<1> HIDE DEF part
<1>4. ToSet(part) = ToSet(s) \cap set
  BY <1>3 DEF ToSet
<1>5. ASSUME IsInjective(s) PROVE IsInjective(part)
  <2> SUFFICES ASSUME NEW m \in DOMAIN part, NEW n \in DOMAIN part, part[m] = part[n] PROVE m = n
    BY DEF IsInjective
  <2>1. place[m] = place[n]
    BY <1>3, <1>5 DEF IsInjective
  <2>2. ~ (m < n) /\ ~ (n < m)
    BY <1>1, <1>3, <2>1
  <2> QED
    BY <1>2, <2>2
<1>6. ASSUME NEW m \in DOMAIN part, NEW n \in DOMAIN part, m < n
      PROVE  \E i, j \in DOMAIN s : i < j /\ part[m] = s[i] /\ part[n] = s[j]
  BY <1>3, <1>6
<1> QED
  BY <1>2, <1>4, <1>5, <1>6 DEF part

LEMMA AnOrderHasAFirst ==
    ASSUME NEW S, IsFiniteSet(S), S # {}, NEW R, StrictlyOrders(R, S)
    PROVE  \E x \in S : \A y \in S \ {x} : <<x, y>> \in R
<1>1. Cardinality(S) \in Nat /\ Cardinality(S) # 0
  BY FS_CardinalityType, FS_EmptySet
<1>2. /\ Sorted(S, R) \in [1 .. Cardinality(S) -> S]
      /\ \A i, j \in 1 .. Cardinality(S) :
            i < j => <<Sorted(S, R)[i], Sorted(S, R)[j]>> \in R
      /\ \A x \in S : \E i \in 1 .. Cardinality(S) : Sorted(S, R)[i] = x
  BY SortedIsAListing
<1>3. 1 \in 1 .. Cardinality(S)
  BY <1>1
<1>4. Sorted(S, R)[1] \in S
  BY <1>2, <1>3
<1>5. ASSUME NEW y \in S \ {Sorted(S, R)[1]} PROVE <<Sorted(S, R)[1], y>> \in R
  <2>1. PICK i \in 1 .. Cardinality(S) : Sorted(S, R)[i] = y
    BY <1>2
  <2>2. 1 < i
    BY <1>1, <2>1
  <2> QED
    BY <1>2, <1>3, <2>1, <2>2
<1> QED
  BY <1>4, <1>5

\* The elements of S by descending measure, which is greatest at the first.
LEMMA OrderedIsAListing ==
    ASSUME NEW S, IsFiniteSet(S), NEW measure \in [S -> Int], NEW rank,
           \A x \in S : rank[x] \in Int,
           \A x, y \in S : rank[x] = rank[y] => x = y
    PROVE  /\ Ordered(measure, rank) \in Seq(S) /\ Len(Ordered(measure, rank)) = Cardinality(S)
           /\ ToSet(Ordered(measure, rank)) = S /\ IsInjective(Ordered(measure, rank))
           /\ \A n \in DOMAIN Ordered(measure, rank) :
                 measure[Ordered(measure, rank)[n]] <= measure[Ordered(measure, rank)[1]]
<1> DEFINE R == Precedes(measure, rank)
           list == Ordered(measure, rank)
<1>1. \A x, y \in S : <<x, y>> \in R <=> \/ measure[x] > measure[y]
                                         \/ measure[x] = measure[y] /\ rank[x] < rank[y]
  BY DEF Precedes
<1>2. StrictlyOrders(R, S)
  <2> HIDE DEF R
  <2> QED
    BY <1>1 DEF StrictlyOrders
<1>3. list = Sorted(S, R)
  BY DEF Ordered
<1> HIDE DEF R, list
<1>4. /\ Cardinality(S) \in Nat /\ list \in [1 .. Cardinality(S) -> S]
      /\ \A i, j \in 1 .. Cardinality(S) : i < j => <<list[i], list[j]>> \in R
      /\ \A x \in S : \E i \in 1 .. Cardinality(S) : list[i] = x
  BY <1>2, <1>3, SortedIsAListing
<1> DEFINE size == Cardinality(S)
<1>5. size \in Nat /\ list \in [1 .. size -> S] /\ DOMAIN list = 1 .. size
  BY <1>4
<1> HIDE DEF size
<1>6. list \in Seq(S) /\ Len(list) = size
  BY <1>5
<1>7. ToSet(list) = S
  BY <1>4, <1>5 DEF ToSet, size
<1>8. IsInjective(list)
  <2> SUFFICES ASSUME NEW i \in 1 .. size, NEW j \in 1 .. size, i < j PROVE list[i] # list[j]
    BY <1>5 DEF IsInjective
  <2>1. <<list[i], list[j]>> \in R
    BY <1>4 DEF size
  <2> QED
    BY <1>2, <1>5, <2>1 DEF StrictlyOrders
<1>9. ASSUME NEW n \in 1 .. size PROVE measure[list[n]] <= measure[list[1]]
  <2>1. 1 \in 1 .. size /\ measure[list[1]] \in Int /\ measure[list[n]] \in Int
    BY <1>5
  <2>2. CASE n = 1
    BY <2>1, <2>2
  <2>3. CASE n # 1
    <3>1. <<list[1], list[n]>> \in R
      BY <1>4, <2>1, <2>3 DEF size
    <3> QED
      BY <1>1, <1>5, <2>1, <3>1
  <2> QED
    BY <2>2, <2>3
<1> QED
  BY <1>5, <1>6, <1>7, <1>8, <1>9 DEF size, list

LEMMA FiniteImage ==
    ASSUME NEW f, IsFiniteSet(DOMAIN f)
    PROVE  IsFiniteSet({f[x] : x \in DOMAIN f})
<1> DEFINE T == {f[x] : x \in DOMAIN f}
           g == [x \in DOMAIN f |-> f[x]]
<1>1. g \in Surjection(DOMAIN f, T)
  BY DEF Surjection
<1> QED
  BY <1>1, FS_Surjection

\* A finite set of numbers has a least and a greatest.
LEMMA FiniteSetsHaveBounds ==
    ASSUME NEW S \in SUBSET Int, IsFiniteSet(S), S # {}
    PROVE  /\ \E x \in S : \A y \in S : x <= y
           /\ \E x \in S : \A y \in S : y <= x
<1> DEFINE up == {x \in S \X S : x[1] < x[2]}
           down == {x \in S \X S : x[1] > x[2]}
<1>1. \A x, y \in S : (<<x, y>> \in up <=> x < y) /\ (<<x, y>> \in down <=> x > y)
  OBVIOUS
<1> HIDE DEF up, down
<1>2. StrictlyOrders(up, S) /\ StrictlyOrders(down, S)
  BY <1>1 DEF StrictlyOrders
<1>3. \E x \in S : \A y \in S \ {x} : <<x, y>> \in up
  BY <1>2, AnOrderHasAFirst
<1>4. \E x \in S : \A y \in S \ {x} : <<x, y>> \in down
  BY <1>2, AnOrderHasAFirst
<1>5. \E x \in S : \A y \in S : x <= y
  <2>1. PICK low \in S : \A y \in S \ {low} : <<low, y>> \in up
    BY <1>3
  <2>2. ASSUME NEW y \in S PROVE low <= y
    <3>1. CASE y = low
      BY <3>1
    <3>2. CASE y # low
      <4>1. <<low, y>> \in up /\ low \in Int /\ y \in Int
        BY <2>1, <3>2
      <4> QED
        BY <1>1, <4>1
    <3> QED
      BY <3>1, <3>2
  <2> QED
    BY <2>2
<1>6. \E x \in S : \A y \in S : y <= x
  <2>1. PICK high \in S : \A y \in S \ {high} : <<high, y>> \in down
    BY <1>4
  <2>2. ASSUME NEW y \in S PROVE y <= high
    <3>1. CASE y = high
      BY <3>1
    <3>2. CASE y # high
      <4>1. <<high, y>> \in down /\ high \in Int /\ y \in Int
        BY <2>1, <3>2
      <4> QED
        BY <1>1, <4>1
    <3> QED
      BY <3>1, <3>2
  <2> QED
    BY <2>2
<1> QED
  BY <1>5, <1>6

LEMMA PrefixOfAListing ==
    ASSUME NEW T, NEW s \in Seq(T), NEW n \in Nat
    PROVE  /\ Prefix(s, n) \in Seq(T) /\ Len(Prefix(s, n)) <= n
           /\ ToSet(Prefix(s, n)) \subseteq ToSet(s)
           /\ IsInjective(s) => IsInjective(Prefix(s, n))
<1>1. /\ Prefix(s, n) \in Seq(T) /\ Len(Prefix(s, n)) = Least(n, Len(s))
      /\ DOMAIN Prefix(s, n) \subseteq DOMAIN s
      /\ \A i \in DOMAIN Prefix(s, n) : Prefix(s, n)[i] = s[i]
  BY PrefixIsAPrefix
<1> DEFINE part == Prefix(s, n)
<1> HIDE DEF part
<1>2. Len(part) <= n
  <2>1. Len(s) \in Nat /\ Len(part) = Least(n, Len(s))
    BY <1>1 DEF part
  <2> QED
    BY <2>1 DEF Least
<1>3. part \in Seq(T) /\ \A i \in DOMAIN part : i \in DOMAIN s /\ part[i] = s[i]
  BY <1>1 DEF part
<1>4. ToSet(part) \subseteq ToSet(s)
  BY <1>3 DEF ToSet
<1>5. IsInjective(s) => IsInjective(part)
  BY <1>3 DEF IsInjective
<1> QED
  BY <1>2, <1>3, <1>4, <1>5 DEF part
=============================================================================

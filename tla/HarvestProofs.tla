---------------------------- MODULE HarvestProofs ----------------------------
(***************************************************************************)
(* The sources.  For any records, queries, page sizes and days: bioRxiv and *)
(* Europe PMC pass over no record.  The first part counts pages in listings *)
(* ordered by date; it speaks of the definitions of Harvest with the source *)
(* and the dates as arguments.  The second follows a run.                   *)
(*                                                                         *)
(* The last part is about the requests themselves (SourceHttp): for any     *)
(* limits, callers and delays the contractual rate of a source and the      *)
(* latest Retry-After hold.  The argument is an account of tokens: what a   *)
(* bucket can hold now and what was taken since some grant never exceed a   *)
(* full bucket and the refills of the time since.                           *)
(***************************************************************************)
EXTENDS Harvest, SourceHttp, FiniteSetTheorems, SequenceTheorems, TLAPS

Size == Cardinality(Records)

Dates == [Records -> Days \cup {None}]

SeenOf(d)       == {r \in Records : d[r] # None}
Pos(d, r)       == d[r] * (Size + 1) + r
ListingOf(d, q) == {r \in SeenOf(d) : QueryOf[r] = q.query /\ d[r] \in q.from .. q.to}
RankOf(d, r, S) == Cardinality({s \in S : Pos(d, s) <= Pos(d, r)})

PlaceOf(src, d, r, q) == IF src = "biorxiv" THEN RankOf(d, r, ListingOf(d, q)) ELSE Pos(d, r)

RemainingOf(src, d, q) == {r \in ListingOf(d, q) : PlaceOf(src, d, r, q) > q.after}
PassedOf(src, d, q)    == ListingOf(d, q) \ RemainingOf(src, d, q)

\* The first n of a set in the order of the listing; a page is one.
FirstOf(d, S, n)  == {r \in S : RankOf(d, r, S) <= n}
PageOf(src, d, q) == FirstOf(d, RemainingOf(src, d, q), PageSize)

AdvancedOf(src, d, q) ==
    IF PageOf(src, d, q) = {} THEN q
    ELSE LET end == CHOOSE r \in PageOf(src, d, q) :
                        \A s \in PageOf(src, d, q) : Pos(d, s) <= Pos(d, r)
         IN [q EXCEPT !.after = IF src = "biorxiv" THEN q.after + Cardinality(PageOf(src, d, q))
                                ELSE Pos(d, end)]

-----------------------------------------------------------------------------
(***************************************************************************)
(* The order of a listing.                                                  *)
(***************************************************************************)
LEMMA Numbers ==
    /\ Size \in Nat /\ Records = 1 .. Size /\ IsFiniteSet(Records)
    /\ PageSize \in Nat /\ PageSize >= 1 /\ MaxPages \in Nat /\ MaxPages >= 1
    /\ Backfill \in Nat /\ Outage \in Nat /\ MaxDay \in Nat
<1>1. IsFiniteSet(Records)
  BY RecordsAreNumbered
<1>2. Size \in Nat
  BY <1>1, FS_CardinalityType DEF Size
<1> QED
  BY <1>1, <1>2, RecordsAreNumbered, BoundsArePositive DEF Size

LEMMA SeenDates ==
    ASSUME NEW d \in Dates, NEW r \in SeenOf(d)
    PROVE  d[r] \in Nat /\ r \in 1 .. Size /\ Size \in Nat
  BY Numbers DEF Dates, SeenOf, Days

\* By date, then as numbered.
LEMMA Order ==
    ASSUME NEW d \in Dates, NEW r \in SeenOf(d), NEW s \in SeenOf(d)
    PROVE  /\ Pos(d, r) \in Nat /\ Pos(d, r) >= 1
           /\ d[r] < d[s] => Pos(d, r) < Pos(d, s)
           /\ Pos(d, r) = Pos(d, s) => r = s
<1> DEFINE a == d[r]  b == d[s]  n == Size + 1
<1>1. a \in Nat /\ b \in Nat /\ n \in Nat /\ n >= 1 /\ r \in 1 .. (n - 1) /\ s \in 1 .. (n - 1)
  BY SeenDates
<1>2. Pos(d, r) = a * n + r /\ Pos(d, s) = b * n + s
  BY DEF Pos
<1> HIDE DEF a, b, n
<1>3. a * n \in Nat /\ b * n \in Nat
  BY <1>1
<1>4. a < b => a * n + n <= b * n
  <2> SUFFICES ASSUME a < b PROVE a * n + n <= b * n
    OBVIOUS
  <2>1. (a + 1) * n <= b * n
    BY <1>1
  <2>2. (a + 1) * n = a * n + n
    BY <1>1
  <2> QED
    BY <2>1, <2>2
<1>5. b < a => b * n + n <= a * n
  <2> SUFFICES ASSUME b < a PROVE b * n + n <= a * n
    OBVIOUS
  <2>1. (b + 1) * n <= a * n
    BY <1>1
  <2>2. (b + 1) * n = b * n + n
    BY <1>1
  <2> QED
    BY <2>1, <2>2
<1>6. a < b => Pos(d, r) < Pos(d, s)
  BY <1>1, <1>2, <1>3, <1>4
<1>7. Pos(d, r) = Pos(d, s) => r = s
  <2>1. CASE a = b
    BY <1>1, <1>2, <1>3, <2>1
  <2>2. CASE a < b
    BY <1>1, <1>2, <1>3, <1>4, <2>2
  <2>3. CASE b < a
    BY <1>1, <1>2, <1>3, <1>5, <2>3
  <2> QED
    BY <1>1, <2>1, <2>2, <2>3
<1>8. Pos(d, r) \in Nat /\ Pos(d, r) >= 1
  BY <1>1, <1>2, <1>3
<1> QED
  BY <1>6, <1>7, <1>8 DEF a, b

LEMMA SeenIsFinite ==
    ASSUME NEW d, NEW S \in SUBSET SeenOf(d)
    PROVE  IsFiniteSet(S) /\ Cardinality(S) \in Nat
<1>1. S \in SUBSET Records
  BY DEF SeenOf
<1>2. IsFiniteSet(S)
  BY <1>1, Numbers, FS_Subset
<1> QED
  BY <1>2, FS_CardinalityType

LEMMA Ranks ==
    ASSUME NEW d \in Dates, NEW S \in SUBSET SeenOf(d), NEW r \in S, NEW s \in S
    PROVE  /\ RankOf(d, r, S) \in 1 .. Cardinality(S)
           /\ Pos(d, r) <= Pos(d, s) => RankOf(d, r, S) <= RankOf(d, s, S)
           /\ Pos(d, r) < Pos(d, s) => RankOf(d, r, S) < RankOf(d, s, S)
<1> DEFINE A == {x \in S : Pos(d, x) <= Pos(d, r)}
           B == {x \in S : Pos(d, x) <= Pos(d, s)}
<1>1. Pos(d, r) \in Nat /\ Pos(d, s) \in Nat /\ \A x \in S : Pos(d, x) \in Nat
  BY Order
<1>2. RankOf(d, r, S) = Cardinality(A) /\ RankOf(d, s, S) = Cardinality(B)
  BY DEF RankOf
<1>3. r \in A /\ A \in SUBSET S /\ s \in B /\ B \in SUBSET S
  BY <1>1
<1>4. Pos(d, r) <= Pos(d, s) => A \subseteq B
  BY <1>1
<1>5. Pos(d, r) < Pos(d, s) => s \notin A
  BY <1>1
<1>6. A \in SUBSET SeenOf(d) /\ B \in SUBSET SeenOf(d)
  BY <1>3
<1>7. Pos(d, r) < Pos(d, s) => Pos(d, r) <= Pos(d, s)
  BY <1>1
<1> HIDE DEF A, B
<1>8. /\ IsFiniteSet(S) /\ Cardinality(S) \in Nat /\ IsFiniteSet(A) /\ Cardinality(A) \in Nat
      /\ IsFiniteSet(B) /\ Cardinality(B) \in Nat
  BY <1>6, SeenIsFinite
<1>9. Cardinality(A) <= Cardinality(S) /\ Cardinality(A) # 0
  BY <1>3, <1>8, FS_Subset, FS_EmptySet
<1>10. A \subseteq B => Cardinality(A) <= Cardinality(B) /\ (Cardinality(A) = Cardinality(B) => A = B)
  BY <1>8, FS_Subset
<1> QED
  BY <1>2, <1>3, <1>4, <1>5, <1>7, <1>8, <1>9, <1>10

\* The ranks of a listing have no gaps.
LEMMA FirstAreMany ==
    ASSUME NEW d \in Dates, NEW S \in SUBSET SeenOf(d), NEW n \in Nat, n <= Cardinality(S)
    PROVE  /\ IsFiniteSet(FirstOf(d, S, n)) /\ FirstOf(d, S, n) \subseteq S
           /\ Cardinality(FirstOf(d, S, n)) = n
<1> DEFINE A == FirstOf(d, S, n)
           B == S \ A
           c == Cardinality(S)
           f == [r \in B |-> RankOf(d, r, S)]
           g == [r \in A |-> RankOf(d, r, S)]
<1>1. IsFiniteSet(S) /\ c \in Nat
  BY SeenIsFinite
<1>2. A \in SUBSET S /\ B \in SUBSET S /\ A \in SUBSET SeenOf(d) /\ B \in SUBSET SeenOf(d)
  BY DEF FirstOf
<1>3. IsFiniteSet(A) /\ Cardinality(A) \in Nat /\ IsFiniteSet(B) /\ Cardinality(B) \in Nat
  BY <1>2, SeenIsFinite
<1>4. \A r \in S : RankOf(d, r, S) \in 1 .. c
  BY Ranks
<1>5. \A r, s \in S : RankOf(d, r, S) = RankOf(d, s, S) => r = s
  <2> SUFFICES ASSUME NEW r \in S, NEW s \in S, RankOf(d, r, S) = RankOf(d, s, S) PROVE r = s
    OBVIOUS
  <2>1. RankOf(d, r, S) \in Nat /\ RankOf(d, s, S) \in Nat
    BY <1>1, <1>4
  <2>2. ~ (Pos(d, r) < Pos(d, s)) /\ ~ (Pos(d, s) < Pos(d, r))
    BY <2>1, Ranks
  <2> QED
    BY <2>2, Order
<1>6. (\A r \in A : RankOf(d, r, S) <= n) /\ (\A r \in B : ~ (RankOf(d, r, S) <= n))
  BY DEF FirstOf
<1>7. f \in Injection(B, (n + 1) .. c) /\ g \in Injection(A, 1 .. n)
  <2>1. \A r \in B : RankOf(d, r, S) \in (n + 1) .. c
    BY <1>1, <1>2, <1>4, <1>6
  <2>2. \A r \in A : RankOf(d, r, S) \in 1 .. n
    BY <1>1, <1>2, <1>4, <1>6
  <2> QED
    <3>1. f \in [B -> (n + 1) .. c] /\ g \in [A -> 1 .. n]
      BY <2>1, <2>2
    <3>2. \A r, s \in B : f[r] = f[s] => r = s
      BY <1>2, <1>5
    <3>3. \A r, s \in A : g[r] = g[s] => r = s
      BY <1>2, <1>5
    <3> HIDE DEF f, g
    <3> QED
      BY <3>1, <3>2, <3>3 DEF Injection, IsInjective
<1> HIDE DEF A, B, f, g, c
<1>8. /\ IsFiniteSet((n + 1) .. c) /\ Cardinality((n + 1) .. c) = c - n
      /\ IsFiniteSet(1 .. n) /\ Cardinality(1 .. n) = n
  <2>1. n + 1 \in Int /\ c \in Int /\ n <= c /\ 1 \in Int /\ n \in Int
    BY <1>1 DEF c
  <2>2. /\ Cardinality((n + 1) .. c) = IF n + 1 > c THEN 0 ELSE c - (n + 1) + 1
        /\ IsFiniteSet((n + 1) .. c)
    BY <2>1, FS_Interval
  <2>3. IsFiniteSet(1 .. n) /\ Cardinality(1 .. n) = IF 1 > n THEN 0 ELSE n - 1 + 1
    BY <2>1, FS_Interval
  <2> QED
    BY <2>1, <2>2, <2>3
<1>9. Cardinality(B) <= c - n /\ Cardinality(A) <= n
  BY <1>7, <1>8, FS_Injection
<1>10. Cardinality(B) = c - Cardinality(A)
  <2>1. S \cap A = A
    BY <1>2
  <2> QED
    BY <1>1, <2>1, FS_Difference DEF B, c
<1>11. c \in Nat
  BY <1>1
<1> QED
  BY <1>2, <1>3, <1>9, <1>10, <1>11 DEF A

LEMMA LastExists ==
    ASSUME NEW d \in Dates, NEW S \in SUBSET SeenOf(d), S # {}
    PROVE  \E e \in S : \A s \in S : Pos(d, s) <= Pos(d, e)
<1> DEFINE n == Cardinality(S) - 1
<1>1. IsFiniteSet(S) /\ Cardinality(S) \in Nat /\ Cardinality(S) # 0
  BY SeenIsFinite, FS_EmptySet
<1>2. n \in Nat /\ n <= Cardinality(S) /\ Cardinality(S) = n + 1
  BY <1>1
<1> HIDE DEF n
<1>3. FirstOf(d, S, n) \subseteq S /\ Cardinality(FirstOf(d, S, n)) = n
  BY <1>2, FirstAreMany
<1>4. PICK e \in S : e \notin FirstOf(d, S, n)
  BY <1>2, <1>3
<1>5. ASSUME NEW s \in S PROVE Pos(d, s) <= Pos(d, e)
  <2>1. RankOf(d, e, S) \in 1 .. Cardinality(S) /\ RankOf(d, s, S) \in 1 .. Cardinality(S)
    BY Ranks
  <2>2. RankOf(d, e, S) >= RankOf(d, s, S)
    BY <1>2, <1>4, <2>1 DEF FirstOf
  <2>3. ~ (Pos(d, e) < Pos(d, s))
    BY <1>1, <2>1, <2>2, Ranks
  <2> QED
    BY <2>3, Order
<1> QED
  BY <1>5

-----------------------------------------------------------------------------
(***************************************************************************)
(* Pages.                                                                   *)
(***************************************************************************)
LEMMA Subsets ==
    ASSUME NEW src, NEW d, NEW q
    PROVE  /\ ListingOf(d, q) \in SUBSET SeenOf(d)
           /\ RemainingOf(src, d, q) \in SUBSET SeenOf(d)
           /\ PassedOf(src, d, q) \in SUBSET SeenOf(d)
           /\ PageOf(src, d, q) \in SUBSET SeenOf(d)
           /\ RemainingOf(src, d, q) \subseteq ListingOf(d, q)
           /\ PageOf(src, d, q) \subseteq RemainingOf(src, d, q)
           /\ PassedOf(src, d, q) \subseteq ListingOf(d, q)
           /\ PassedOf(src, d, q) \cap RemainingOf(src, d, q) = {}
           /\ PassedOf(src, d, q) \cup RemainingOf(src, d, q) = ListingOf(d, q)
  BY DEF ListingOf, RemainingOf, PassedOf, PageOf, FirstOf

\* A page is full or the last; what remains after it is behind it.
LEMMA Pages ==
    ASSUME NEW src, NEW d \in Dates, NEW q
    PROVE  /\ PageOf(src, d, q) = RemainingOf(src, d, q)
              \/ Cardinality(PageOf(src, d, q)) = PageSize
           /\ RemainingOf(src, d, q) # {} => PageOf(src, d, q) # {}
           /\ \A r \in RemainingOf(src, d, q) \ PageOf(src, d, q) : \A s \in PageOf(src, d, q) :
                Pos(d, s) < Pos(d, r)
<1> DEFINE R == RemainingOf(src, d, q)
           P == PageOf(src, d, q)
<1>1. R \in SUBSET SeenOf(d) /\ P = FirstOf(d, R, PageSize) /\ PageSize \in Nat /\ PageSize >= 1
  BY Subsets, Numbers DEF PageOf
<1> HIDE DEF R, P
<1>2. IsFiniteSet(R) /\ Cardinality(R) \in Nat
  BY <1>1, SeenIsFinite
<1>3. \A r, s \in R : /\ RankOf(d, r, R) \in 1 .. Cardinality(R)
                      /\ Pos(d, r) <= Pos(d, s) => RankOf(d, r, R) <= RankOf(d, s, R)
                      /\ Pos(d, r) \in Nat
  BY <1>1, Ranks, Order
<1>4. P = R \/ Cardinality(P) = PageSize
  <2>1. CASE PageSize <= Cardinality(R)
    BY <1>1, <2>1, FirstAreMany
  <2>2. CASE Cardinality(R) < PageSize
    <3>1. \A r \in R : RankOf(d, r, R) <= PageSize
      BY <1>1, <1>2, <1>3, <2>2
    <3> QED
      BY <1>1, <3>1 DEF FirstOf
  <2> QED
    BY <1>1, <1>2, <2>1, <2>2
<1>5. R # {} => P # {}
  BY <1>1, <1>4, FS_EmptySet
<1>6. ASSUME NEW r \in R \ P, NEW s \in P PROVE Pos(d, s) < Pos(d, r)
  <2>1. s \in R /\ RankOf(d, s, R) <= PageSize /\ ~ (RankOf(d, r, R) <= PageSize)
    BY <1>1 DEF FirstOf
  <2>2. ~ (Pos(d, r) <= Pos(d, s))
    BY <1>1, <1>2, <1>3, <2>1
  <2> QED
    BY <1>3, <2>1, <2>2
<1> QED
  BY <1>4, <1>5, <1>6 DEF R, P

\* What was passed lies before what remains; bioRxiv's offset counts it.
LEMMA PassedBefore ==
    ASSUME NEW src, NEW d \in Dates, NEW q \in Request
    PROVE  /\ \A s \in PassedOf(src, d, q) : \A r \in RemainingOf(src, d, q) :
                Pos(d, s) < Pos(d, r)
           /\ src = "biorxiv" /\ q.after <= Cardinality(ListingOf(d, q))
                => Cardinality(PassedOf(src, d, q)) = q.after
<1> DEFINE L == ListingOf(d, q)
<1>1. L \in SUBSET SeenOf(d) /\ q.after \in Nat
  BY Subsets DEF Request
<1>2. \A r, s \in L : /\ RankOf(d, r, L) \in 1 .. Cardinality(L)
                      /\ Pos(d, r) <= Pos(d, s) => RankOf(d, r, L) <= RankOf(d, s, L)
                      /\ Pos(d, r) \in Nat
  BY <1>1, Ranks, Order
<1>3. IsFiniteSet(L) /\ Cardinality(L) \in Nat
  BY <1>1, SeenIsFinite
<1>4. ASSUME NEW s \in PassedOf(src, d, q), NEW r \in RemainingOf(src, d, q)
      PROVE  Pos(d, s) < Pos(d, r)
  <2>1. s \in L /\ r \in L /\ ~ (PlaceOf(src, d, s, q) > q.after) /\ PlaceOf(src, d, r, q) > q.after
    BY DEF PassedOf, RemainingOf
  <2> HIDE DEF L
  <2>2. CASE src = "biorxiv"
    <3>1. PlaceOf(src, d, s, q) = RankOf(d, s, L) /\ PlaceOf(src, d, r, q) = RankOf(d, r, L)
      BY <2>2 DEF PlaceOf, L
    <3>2. ~ (RankOf(d, r, L) <= RankOf(d, s, L))
      BY <1>1, <1>2, <1>3, <2>1, <3>1
    <3> QED
      BY <1>2, <2>1, <3>2
  <2>3. CASE src # "biorxiv"
    <3>1. PlaceOf(src, d, s, q) = Pos(d, s) /\ PlaceOf(src, d, r, q) = Pos(d, r)
      BY <2>3 DEF PlaceOf
    <3> QED
      BY <1>1, <1>2, <2>1, <3>1
  <2> QED
    BY <2>2, <2>3
<1>5. ASSUME src = "biorxiv", q.after <= Cardinality(L)
      PROVE  Cardinality(PassedOf(src, d, q)) = q.after
  <2>1. Cardinality(FirstOf(d, L, q.after)) = q.after
    BY <1>1, <1>5, FirstAreMany
  <2>2. \A r \in L : PlaceOf(src, d, r, q) = RankOf(d, r, L)
    BY <1>5 DEF PlaceOf
  <2>3. \A r \in L : RankOf(d, r, L) <= q.after <=> ~ (PlaceOf(src, d, r, q) > q.after)
    <3> HIDE DEF L
    <3> QED
      BY <1>1, <1>2, <1>3, <2>2
  <2>4. PassedOf(src, d, q) = FirstOf(d, L, q.after)
    BY <2>3 DEF PassedOf, RemainingOf, FirstOf
  <2> QED
    BY <2>1, <2>4
<1> QED
  BY <1>4, <1>5

\* A cursor moved to another place.
LEMMA Moved ==
    ASSUME NEW q \in Request, NEW n \in Nat
    PROVE  LET a == [q EXCEPT !.after = n]
           IN /\ a \in Request /\ a.query = q.query /\ a.from = q.from /\ a.to = q.to
              /\ a.done = q.done /\ a.after = n
  BY DEF Request

LEMMA SameListing ==
    ASSUME NEW d, NEW a, NEW q, a.query = q.query, a.from = q.from, a.to = q.to
    PROVE  ListingOf(d, a) = ListingOf(d, q)
  BY DEF ListingOf

\* The next request goes on where the page ended.
LEMMA Advance ==
    ASSUME NEW src, NEW d \in Dates, NEW q \in Request, PageOf(src, d, q) # {},
           src = "biorxiv" => q.after <= Cardinality(ListingOf(d, q))
    PROVE  LET a == AdvancedOf(src, d, q)
               P == PageOf(src, d, q)
           IN /\ a \in Request /\ a.query = q.query /\ a.to = q.to /\ a.done = q.done
              /\ ListingOf(d, a) = ListingOf(d, q)
              /\ RemainingOf(src, d, q) \subseteq P \cup RemainingOf(src, d, a)
              /\ src = "biorxiv" => /\ a.after = q.after + Cardinality(P)
                                    /\ a.after <= Cardinality(ListingOf(d, q))
              /\ src = "europepmc" =>
                    /\ RemainingOf(src, d, a) \subseteq RemainingOf(src, d, q) \ P
                    /\ Cardinality(PassedOf(src, d, a)) >= Cardinality(PassedOf(src, d, q)) + Cardinality(P)
<1> DEFINE P == PageOf(src, d, q)
           R == RemainingOf(src, d, q)
           B == PassedOf(src, d, q)
           L == ListingOf(d, q)
           end == CHOOSE r \in P : \A s \in P : Pos(d, s) <= Pos(d, r)
           n == IF src = "biorxiv" THEN q.after + Cardinality(P) ELSE Pos(d, end)
           a == AdvancedOf(src, d, q)
<1>1. a = [q EXCEPT !.after = n]
  BY DEF AdvancedOf
<1>2. /\ L \in SUBSET SeenOf(d) /\ R \in SUBSET SeenOf(d) /\ B \in SUBSET SeenOf(d)
      /\ P \in SUBSET SeenOf(d) /\ P \subseteq R /\ B \cap R = {} /\ B \cup R = L
  BY Subsets
<1>3. P # {} /\ q.after \in Nat
  BY DEF Request
<1>4. end \in P /\ \A s \in P : Pos(d, s) <= Pos(d, end)
  <2> HIDE DEF P
  <2> QED
    BY <1>2, <1>3, LastExists
<1>5. \A r \in R \ P : \A s \in P : Pos(d, s) < Pos(d, r)
  BY Pages
<1>6. \A s \in B : \A r \in R : Pos(d, s) < Pos(d, r)
  BY PassedBefore
<1>7. src = "biorxiv" => q.after <= Cardinality(L) /\ Cardinality(B) = q.after
  BY PassedBefore
<1>8. \A r \in L : PlaceOf(src, d, r, q) = IF src = "biorxiv" THEN RankOf(d, r, L) ELSE Pos(d, r)
  BY DEF PlaceOf
<1>9. R = {r \in L : PlaceOf(src, d, r, q) > q.after}
  BY DEF RemainingOf
<1> HIDE DEF P, R, B, L, end
<1>10. \A r \in SeenOf(d) : Pos(d, r) \in Nat
  BY Order
<1>11. Cardinality(P) \in Nat /\ Cardinality(B) \in Nat /\ Cardinality(L) \in Nat /\ IsFiniteSet(P)
       /\ IsFiniteSet(B) /\ IsFiniteSet(L)
  BY <1>2, SeenIsFinite
<1>12. n \in Nat
  <2>1. Pos(d, end) \in Nat
    BY <1>2, <1>4, <1>10
  <2> QED
    BY <1>3, <1>11, <2>1
<1>13. Cardinality(B \cup P) = Cardinality(B) + Cardinality(P) /\ IsFiniteSet(B \cup P)
  <2>1. B \cap P = {}
    BY <1>2
  <2>2. Cardinality(B \cap P) = 0
    BY <2>1, FS_EmptySet
  <2>3. /\ IsFiniteSet(B \cup P)
        /\ Cardinality(B \cup P) = Cardinality(B) + Cardinality(P) - Cardinality(B \cap P)
    BY <1>11, FS_Union
  <2> QED
    BY <1>11, <2>2, <2>3
<1> HIDE DEF n, a
<1>14. /\ a \in Request /\ a.query = q.query /\ a.from = q.from /\ a.to = q.to
       /\ a.done = q.done /\ a.after = n
  BY <1>1, <1>12, Moved
<1>15. ListingOf(d, a) = L
  BY <1>14, SameListing DEF L
<1>16. RemainingOf(src, d, a) = {r \in L : PlaceOf(src, d, r, a) > n}
  BY <1>14, <1>15 DEF RemainingOf
<1>17. \A r \in L : PlaceOf(src, d, r, a) = IF src = "biorxiv" THEN RankOf(d, r, L) ELSE Pos(d, r)
  BY <1>15 DEF PlaceOf
<1>18. src = "biorxiv" => n = Cardinality(B \cup P) /\ n = q.after + Cardinality(P) /\ n <= Cardinality(L)
  <2> SUFFICES ASSUME src = "biorxiv"
               PROVE n = Cardinality(B \cup P) /\ n = q.after + Cardinality(P) /\ n <= Cardinality(L)
    OBVIOUS
  <2>1. n = q.after + Cardinality(P)
    BY DEF n
  <2>2. B \cup P \subseteq L
    BY <1>2
  <2>3. Cardinality(B \cup P) <= Cardinality(L)
    BY <1>11, <2>2, FS_Subset
  <2>4. n = Cardinality(B \cup P)
    BY <1>7, <1>13, <2>1
  <2> QED
    BY <2>1, <2>3, <2>4
<1>19. ASSUME NEW r \in R, r \notin P PROVE r \in RemainingOf(src, d, a)
  <2>1. r \in L
    BY <1>2
  <2>2. CASE src = "biorxiv"
    <3> DEFINE C == {s \in L : Pos(d, s) <= Pos(d, r)}
    <3>1. C \in SUBSET SeenOf(d) /\ r \in C
      BY <1>2, <1>10, <2>1
    <3>2. \A s \in B \cup P : Pos(d, s) < Pos(d, r)
      BY <1>5, <1>6, <1>19
    <3>3. B \cup P \subseteq C /\ r \notin B \cup P
      BY <1>2, <1>10, <1>19, <3>2
    <3>4. RankOf(d, r, L) = Cardinality(C)
      BY DEF RankOf
    <3> HIDE DEF C
    <3>5. IsFiniteSet(C) /\ Cardinality(C) \in Nat
      BY <3>1, SeenIsFinite
    <3>6. Cardinality(B \cup P) <= Cardinality(C) /\ (Cardinality(B \cup P) = Cardinality(C) => B \cup P = C)
      BY <3>3, <3>5, FS_Subset
    <3>7. RankOf(d, r, L) > n
      BY <1>11, <1>13, <1>18, <2>2, <3>1, <3>3, <3>4, <3>5, <3>6
    <3> QED
      BY <1>16, <1>17, <2>1, <2>2, <3>7
  <2>3. CASE src # "biorxiv"
    <3>1. Pos(d, end) < Pos(d, r) /\ n = Pos(d, end)
      BY <1>4, <1>5, <1>19, <2>3 DEF n
    <3>2. PlaceOf(src, d, r, a) > n
      BY <1>2, <1>10, <1>12, <1>17, <2>1, <2>3, <3>1
    <3> QED
      BY <1>16, <2>1, <3>2
  <2> QED
    BY <2>2, <2>3
<1>20. ASSUME src = "europepmc", NEW r \in RemainingOf(src, d, a) PROVE r \in R \ P
  <2>1. n = Pos(d, end) /\ r \in L /\ Pos(d, r) > n
    BY <1>16, <1>17, <1>20 DEF n
  <2>2. end \in R /\ Pos(d, end) > q.after
    BY <1>2, <1>4, <1>8, <1>9, <1>20
  <2>3. Pos(d, r) \in Nat /\ Pos(d, end) \in Nat
    BY <1>2, <1>4, <1>10, <2>1
  <2>4. Pos(d, r) > q.after
    BY <1>3, <2>1, <2>2, <2>3
  <2>5. r \in R
    BY <1>8, <1>9, <1>20, <2>1, <2>4
  <2>6. ~ (Pos(d, r) <= Pos(d, end))
    BY <2>1, <2>3
  <2> QED
    BY <1>4, <2>5, <2>6
<1>21. ASSUME src = "europepmc"
       PROVE  Cardinality(PassedOf(src, d, a)) >= Cardinality(B) + Cardinality(P)
  <2>1. PassedOf(src, d, a) = L \ RemainingOf(src, d, a)
    BY <1>15 DEF PassedOf
  <2>2. B \cup P \subseteq PassedOf(src, d, a)
    BY <1>2, <1>20, <1>21, <2>1
  <2>3. IsFiniteSet(PassedOf(src, d, a)) /\ Cardinality(PassedOf(src, d, a)) \in Nat
    BY Subsets, SeenIsFinite
  <2>4. Cardinality(B \cup P) <= Cardinality(PassedOf(src, d, a))
    BY <2>2, <2>3, FS_Subset
  <2> QED
    BY <1>11, <1>13, <2>3, <2>4
<1> QED
  BY <1>14, <1>15, <1>18, <1>19, <1>20, <1>21 DEF a, P, R, B, L

\* A record listed today is behind those of the days before.
LEMMA Growth ==
    ASSUME NEW src, NEW d \in Dates, NEW n \in Records, d[n] = None, NEW t \in Days,
           \A r \in SeenOf(d) : d[r] <= t, NEW q \in Request
    PROVE  LET e == [d EXCEPT ![n] = t]
           IN /\ Cardinality(ListingOf(d, q)) <= Cardinality(ListingOf(e, q))
              /\ \A r \in RemainingOf(src, d, q) :
                    (src = "biorxiv" => d[r] < t) => r \in RemainingOf(src, e, q)
              /\ src = "europepmc" =>
                    /\ RemainingOf(src, e, q) \subseteq RemainingOf(src, d, q) \cup {n}
                    /\ Cardinality(PassedOf(src, d, q)) <= Cardinality(PassedOf(src, e, q))
<1> DEFINE e == [d EXCEPT ![n] = t]
           L == ListingOf(d, q)
           M == ListingOf(e, q)
<1>1. /\ \A r \in Records : r # n => e[r] = d[r]
      /\ SeenOf(e) = SeenOf(d) \cup {n} /\ n \notin SeenOf(d)
  BY NoneIsNothing DEF Dates, SeenOf
<1> HIDE DEF e
<1>3. \A r \in SeenOf(d) : e[r] = d[r] /\ Pos(e, r) = Pos(d, r)
  BY <1>1 DEF Pos, SeenOf
<1>4. L \subseteq M /\ M \subseteq L \cup {n} /\ L \in SUBSET SeenOf(d) /\ M \in SUBSET SeenOf(e)
  BY <1>1, <1>3 DEF ListingOf
<1>5. IsFiniteSet(L) /\ IsFiniteSet(M) /\ Cardinality(L) \in Nat /\ Cardinality(M) \in Nat
  <2> HIDE DEF L, M
  <2> QED
    BY <1>4, SeenIsFinite
<1>6. Cardinality(L) <= Cardinality(M)
  <2> HIDE DEF L, M
  <2> QED
    BY <1>4, <1>5, FS_Subset
<1>7. q.after \in Nat
  BY DEF Request
<1>8. RemainingOf(src, d, q) = {r \in L : PlaceOf(src, d, r, q) > q.after}
      /\ RemainingOf(src, e, q) = {r \in M : PlaceOf(src, e, r, q) > q.after}
  BY DEF RemainingOf
<1>9. \A r \in L : PlaceOf(src, d, r, q) = IF src = "biorxiv" THEN RankOf(d, r, L) ELSE Pos(d, r)
  BY DEF PlaceOf
<1>10. \A r \in M : PlaceOf(src, e, r, q) = IF src = "biorxiv" THEN RankOf(e, r, M) ELSE Pos(e, r)
  BY DEF PlaceOf
<1> HIDE DEF L, M
<1>11. ASSUME NEW r \in RemainingOf(src, d, q), src = "biorxiv" => d[r] < t
       PROVE  r \in RemainingOf(src, e, q)
  <2>1. r \in L /\ r \in M /\ r \in SeenOf(d) /\ PlaceOf(src, d, r, q) > q.after
    BY <1>4, <1>8
  <2>2. CASE src = "biorxiv"
    <3> DEFINE A == {s \in L : Pos(d, s) <= Pos(d, r)}
               C == {s \in M : Pos(e, s) <= Pos(e, r)}
    <3>1. A \subseteq C /\ A \in SUBSET SeenOf(d) /\ C \in SUBSET SeenOf(e)
      BY <1>3, <1>4, <2>1
    <3>2. RankOf(d, r, L) = Cardinality(A) /\ RankOf(e, r, M) = Cardinality(C)
      BY DEF RankOf
    <3> HIDE DEF A, C
    <3>3. IsFiniteSet(C) /\ Cardinality(C) \in Nat /\ Cardinality(A) \in Nat
      BY <3>1, SeenIsFinite
    <3>4. Cardinality(A) <= Cardinality(C)
      BY <3>1, <3>3, FS_Subset
    <3>5. PlaceOf(src, e, r, q) > q.after
      BY <1>7, <1>9, <1>10, <2>1, <2>2, <3>2, <3>3, <3>4
    <3> QED
      BY <1>8, <2>1, <3>5
  <2>3. CASE src # "biorxiv"
    BY <1>3, <1>8, <1>9, <1>10, <2>1, <2>3
  <2> QED
    BY <2>2, <2>3
<1>12. ASSUME src = "europepmc"
       PROVE  /\ RemainingOf(src, e, q) \subseteq RemainingOf(src, d, q) \cup {n}
              /\ Cardinality(PassedOf(src, d, q)) <= Cardinality(PassedOf(src, e, q))
  <2>1. \A r \in L : PlaceOf(src, d, r, q) = Pos(d, r) /\ PlaceOf(src, e, r, q) = Pos(d, r)
    BY <1>3, <1>4, <1>9, <1>10, <1>12
  <2>2. RemainingOf(src, e, q) \subseteq RemainingOf(src, d, q) \cup {n}
    BY <1>4, <1>8, <2>1
  <2>3. PassedOf(src, d, q) = L \ RemainingOf(src, d, q) /\ PassedOf(src, e, q) = M \ RemainingOf(src, e, q)
    BY DEF PassedOf, L, M
  <2>4. n \notin L
    BY <1>1, <1>4
  <2>5. PassedOf(src, d, q) \subseteq PassedOf(src, e, q)
    BY <1>4, <2>2, <2>3, <2>4
  <2>6. IsFiniteSet(PassedOf(src, e, q)) /\ Cardinality(PassedOf(src, e, q)) \in Nat
    BY Subsets, SeenIsFinite
  <2> QED
    BY <2>2, <2>5, <2>6, FS_Subset
<1> QED
  BY <1>6, <1>11, <1>12 DEF e, L, M

-----------------------------------------------------------------------------
(***************************************************************************)
(* The invariant.                                                           *)
(***************************************************************************)
\* The windows overlap: no window is longer than the source has been without
\* a run, and a run of bioRxiv sees one day only.
InTime == Sources \subseteq Windowed /\ Outage <= Backfill /\ "biorxiv" \notin Overnight

SingleOf(src, qs) == src = "europepmc" /\ Len(qs) = 1

ResumesOf(src, qs, c) ==
    src = "europepmc" /\ c # None /\ c.query = qs[1] /\ ~ c.done

\* What a window lists is within the pages of one run, except the window of a
\* single expression of Europe PMC, which the next run resumes.
Fits ==
    phase = "paging" /\ ~ SingleOf(source, queries)
        => Cardinality(ListingOf(date, request)) <= MaxPages * PageSize

World ==
    /\ source \in Sources /\ queries \in Configurations[source]
    /\ today \in Days /\ good \in Days /\ good <= today /\ today <= good + Outage
    /\ date \in Dates
    /\ \A r \in SeenOf(date) : QueryOf[r] \in Range(queries) /\ date[r] <= today

\* What was listed before the last successful run is stored, or in the window
\* that the next run resumes.
Marked ==
    /\ cursor \in Request \cup {None}
    /\ cursor # None => cursor.query = queries[Len(queries)]
    /\ source = "biorxiv" /\ cursor # None => cursor.to <= good
    /\ \A r \in SeenOf(date) :
          \/ r \in stored \/ date[r] >= good
          \/ ResumesOf(source, queries, cursor) /\ r \in RemainingOf(source, date, cursor)

Clock ==
    /\ since \in Days /\ began \in Days
    /\ since <= good /\ good <= began /\ began <= today
    /\ source = "biorxiv" => began = today
    /\ ResumesOf(source, queries, cursor) => began = good

\* The queries already harvested have been read up to the run's first day, or
\* the mark says where to read on.
Harvested ==
    /\ at \in 1 .. Len(queries) + 1
    /\ last \in Request \cup {None}
    /\ \A r \in SeenOf(date) : \A j \in 1 .. at - 1 :
          QueryOf[r] = queries[j] /\ date[r] < began =>
            \/ r \in stored \cup got
            \/ /\ SingleOf(source, queries) /\ last # None /\ ~ last.done
               /\ r \in RemainingOf(source, date, last)

\* The mark that will be stored is the last query's.
Marks ==
    phase = "next" =>
        IF at = 1 THEN last = cursor
        ELSE /\ last \in Request /\ last.query = queries[at - 1]
             /\ source = "biorxiv" => last.to = today

Reading ==
    /\ at \in 1 .. Len(queries)
    /\ request \in Request /\ request.query = queries[at]
    /\ source = "biorxiv" => request.to = today
    /\ pages \in Nat /\ pages + 1 <= MaxPages
    /\ \A r \in SeenOf(date) :
          QueryOf[r] = queries[at] /\ date[r] < began =>
            r \in stored \cup got \cup RemainingOf(source, date, request)

\* The first p pages of a window were full, or nothing is left of it but records
\* of the run's own days.
FilledOf(src, d, q, p, day) ==
    /\ src = "biorxiv" =>
          /\ p * PageSize <= q.after
          /\ q.after <= Cardinality(ListingOf(d, q))
    /\ src = "europepmc" =>
          \/ p * PageSize <= Cardinality(PassedOf(src, d, q))
          \/ \A r \in RemainingOf(src, d, q) : d[r] >= day

Filled == FilledOf(source, date, request, pages, began)

IInv ==
    /\ World /\ Marked
    /\ phase \in {"idle", "next", "paging"}
    /\ phase # "idle" => Clock /\ Harvested /\ Marks
    /\ phase = "paging" => Reading
    /\ phase = "paging" /\ ~ SingleOf(source, queries) => Filled

-----------------------------------------------------------------------------
(***************************************************************************)
(* What the invariant rests on.                                             *)
(***************************************************************************)
LEMMA Configured ==
    ASSUME NEW s \in Sources, NEW c \in Configurations[s]
    PROVE  /\ Len(c) \in Nat /\ Len(c) >= 1 /\ DOMAIN c = 1 .. Len(c)
           /\ \A i \in 1 .. Len(c) : c[i] \in Range(QueryOf)
           /\ \A i, j \in 1 .. Len(c) : c[i] = c[j] => i = j
           /\ \A v \in Range(c) : \E i \in 1 .. Len(c) : v = c[i]
<1>1. c \in Seq(Range(QueryOf)) /\ IsInjective(c) /\ c # <<>>
  BY QueriesAreConfigured
<1>2. Len(c) \in Nat /\ DOMAIN c = 1 .. Len(c) /\ Len(c) # 0
  BY <1>1
<1>3. \A i \in 1 .. Len(c) : c[i] \in Range(QueryOf)
  BY <1>1
<1>4. \A i, j \in 1 .. Len(c) : c[i] = c[j] => i = j
  BY <1>1, <1>2 DEF IsInjective
<1>5. \A v \in Range(c) : \E i \in 1 .. Len(c) : v = c[i]
  BY <1>2 DEF Range
<1> QED
  BY <1>2, <1>3, <1>4, <1>5

\* The definitions of Harvest are those above in its state.
LEMMA Here ==
    ASSUME NEW q
    PROVE  /\ Listing(q) = ListingOf(date, q) /\ Remaining(q) = RemainingOf(source, date, q)
           /\ Page(q) = PageOf(source, date, q) /\ Advanced(q) = AdvancedOf(source, date, q)
           /\ Listed = SeenOf(date)
           /\ Resumes = ResumesOf(source, queries, cursor)
<1>1. Listed = SeenOf(date) /\ \A r : Position(r) = Pos(date, r)
  BY DEF Listed, SeenOf, Position, Pos, Size
<1>2. Listing(q) = ListingOf(date, q)
  BY <1>1 DEF Listing, ListingOf
<1>3. \A r, S : Rank(r, S) = RankOf(date, r, S)
  BY <1>1 DEF Rank, RankOf
<1>4. Remaining(q) = RemainingOf(source, date, q)
  BY <1>1, <1>2, <1>3 DEF Remaining, RemainingOf, PlaceOf
<1>5. Page(q) = PageOf(source, date, q)
  BY <1>3, <1>4 DEF Page, PageOf, FirstOf
<1>6. Advanced(q) = AdvancedOf(source, date, q)
  BY DEF Advanced, AdvancedOf, Page, PageOf, FirstOf, Remaining, RemainingOf, PlaceOf, Listing,
         ListingOf, Listed, SeenOf, Rank, RankOf, Position, Pos, Size
<1> QED
  BY <1>1, <1>2, <1>4, <1>5, <1>6 DEF Resumes, ResumesOf

LEMMA SameRemaining ==
    ASSUME NEW src, NEW d, NEW a, NEW q,
           a.query = q.query, a.from = q.from, a.to = q.to, a.after = q.after
    PROVE  RemainingOf(src, d, a) = RemainingOf(src, d, q)
<1>1. ListingOf(d, a) = ListingOf(d, q)
  BY SameListing
<1> QED
  BY <1>1 DEF RemainingOf, PlaceOf

\* After a page that was not the last, the pages so far were full.
LEMMA FilledOn ==
    ASSUME NEW src, NEW d \in Dates, NEW q \in Request, NEW p \in Nat, NEW day \in Nat,
           FilledOf(src, d, q, p, day), PageOf(src, d, q) # {},
           src = "biorxiv" => RemainingOf(src, d, q) # PageOf(src, d, q)
    PROVE  FilledOf(src, d, AdvancedOf(src, d, q), p + 1, day)
<1> DEFINE a == AdvancedOf(src, d, q)
           P == PageOf(src, d, q)
           R == RemainingOf(src, d, q)
           L == ListingOf(d, q)
           b == Cardinality(PassedOf(src, d, q))
           c == Cardinality(PassedOf(src, d, a))
           k == Cardinality(P)
           m == p * PageSize
<1>1. src = "biorxiv" => q.after <= Cardinality(L)
  BY DEF FilledOf
<1>2. /\ ListingOf(d, a) = L
      /\ src = "biorxiv" => a.after = q.after + k /\ a.after <= Cardinality(L)
      /\ src = "europepmc" => RemainingOf(src, d, a) \subseteq R \ P /\ c >= b + k
  BY <1>1, Advance
<1>3. P = R \/ k = PageSize
  BY Pages
<1>4. (p + 1) * PageSize = m + PageSize /\ m \in Nat /\ PageSize \in Nat
  BY Numbers
<1>5. b \in Nat /\ c \in Nat /\ k \in Nat /\ q.after \in Nat
  BY Subsets, SeenIsFinite DEF Request
<1>6. /\ src = "biorxiv" => m <= q.after /\ P # R
      /\ src = "europepmc" => m <= b \/ \A r \in R : d[r] >= day
  BY DEF FilledOf
<1> HIDE DEF a, P, R, L, b, c, k, m
<1>7. src = "biorxiv" => (p + 1) * PageSize <= a.after /\ a.after <= Cardinality(ListingOf(d, a))
  BY <1>2, <1>3, <1>4, <1>5, <1>6
<1>8. src = "europepmc" => \/ (p + 1) * PageSize <= c
                           \/ \A r \in RemainingOf(src, d, a) : d[r] >= day
  <2> SUFFICES ASSUME src = "europepmc"
               PROVE  (p + 1) * PageSize <= c \/ \A r \in RemainingOf(src, d, a) : d[r] >= day
    OBVIOUS
  <2>1. CASE P = R
    BY <1>2, <2>1
  <2>2. CASE k = PageSize /\ m <= b
    BY <1>2, <1>4, <1>5, <2>2
  <2>3. CASE \A r \in R : d[r] >= day
    BY <1>2, <2>3
  <2> QED
    BY <1>3, <1>6, <2>1, <2>2, <2>3
<1> QED
  BY <1>7, <1>8 DEF FilledOf, a, c

\* A run's pages reach the end of a window that fits in them.
LEMMA PagesSuffice ==
    ASSUME NEW src \in Windowed, NEW d \in Dates, NEW q \in Request, NEW p \in Nat, NEW day \in Nat,
           FilledOf(src, d, q, p, day), p + 1 = MaxPages,
           Cardinality(ListingOf(d, q)) <= MaxPages * PageSize,
           NEW r \in RemainingOf(src, d, q), d[r] < day
    PROVE  r \in PageOf(src, d, q)
<1> DEFINE P == PageOf(src, d, q)
           R == RemainingOf(src, d, q)
           B == PassedOf(src, d, q)
           L == ListingOf(d, q)
           m == p * PageSize
<1>1. P = R \/ Cardinality(P) = PageSize
  BY Pages
<1>2. MaxPages * PageSize = m + PageSize /\ m \in Nat /\ PageSize \in Nat
  <2>1. MaxPages * PageSize = (p + 1) * PageSize
    OBVIOUS
  <2>2. (p + 1) * PageSize = p * PageSize + PageSize /\ p * PageSize \in Nat
    BY Numbers
  <2> QED
    BY <2>1, <2>2, Numbers
<1>3. /\ P \subseteq R /\ B \cap R = {} /\ B \cup R = L /\ P \in SUBSET SeenOf(d)
      /\ B \in SUBSET SeenOf(d) /\ L \in SUBSET SeenOf(d)
  BY Subsets
<1>4. src = "biorxiv" => m <= Cardinality(B)
  BY PassedBefore DEF FilledOf
<1>5. d[r] \in Nat
  <2>1. r \in SeenOf(d)
    BY Subsets
  <2> QED
    BY <2>1, SeenDates
<1>6. src = "europepmc" => m <= Cardinality(B)
  BY <1>5 DEF FilledOf
<1>7. src = "biorxiv" \/ src = "europepmc"
  BY DEF Windowed
<1>8. Cardinality(L) <= m + PageSize /\ r \in R
  BY <1>2
<1> HIDE DEF P, R, B, L, m
<1>9. /\ IsFiniteSet(P) /\ Cardinality(P) \in Nat /\ IsFiniteSet(B) /\ Cardinality(B) \in Nat
      /\ IsFiniteSet(L) /\ Cardinality(L) \in Nat
  BY <1>3, SeenIsFinite
<1>10. Cardinality(B \cup P) = Cardinality(B) + Cardinality(P) /\ IsFiniteSet(B \cup P)
  <2>1. Cardinality(B \cap P) = 0
    <3>1. B \cap P = {}
      BY <1>3
    <3> QED
      BY <3>1, FS_EmptySet
  <2>2. /\ IsFiniteSet(B \cup P)
        /\ Cardinality(B \cup P) = Cardinality(B) + Cardinality(P) - Cardinality(B \cap P)
    BY <1>9, FS_Union
  <2> QED
    BY <1>9, <2>1, <2>2
<1>11. CASE Cardinality(P) = PageSize
  <2>1. B \cup P \subseteq L
    BY <1>3
  <2>2. Cardinality(B \cup P) <= Cardinality(L) /\ (Cardinality(B \cup P) = Cardinality(L) => B \cup P = L)
    BY <1>9, <2>1, FS_Subset
  <2>3. Cardinality(B) >= m
    BY <1>4, <1>6, <1>7
  <2>4. B \cup P = L
    BY <1>2, <1>8, <1>9, <1>10, <1>11, <2>2, <2>3
  <2> QED
    BY <1>3, <1>8, <2>4 DEF P
<1>12. CASE P = R
  BY <1>8, <1>12 DEF P
<1> QED
  BY <1>1, <1>11, <1>12

LEMMA Started ==
    ASSUME InTime, World
    PROVE  /\ DaysAgo(Backfill) \in Days /\ DaysAgo(Backfill) <= good
           /\ source = "biorxiv" \/ source = "europepmc"
<1>1. source \in Windowed /\ Outage <= Backfill
  BY DEF InTime, World
<1>2. /\ today \in 0 .. MaxDay /\ good \in 0 .. MaxDay /\ good <= today /\ today <= good + Outage
      /\ MaxDay \in Nat /\ Backfill \in Nat /\ Outage \in Nat
  BY Numbers DEF World, Days
<1>3. DaysAgo(Backfill) \in 0 .. MaxDay /\ DaysAgo(Backfill) <= good
  BY <1>1, <1>2 DEF DaysAgo
<1> QED
  BY <1>1, <1>3 DEF Windowed, Days

\* Only a single expression is resumed: the mark is the last query's.
LEMMA ResumesAlone ==
    ASSUME World, Marked, ResumesOf(source, queries, cursor)
    PROVE  Len(queries) = 1 /\ cursor \in Request /\ source = "europepmc"
<1>1. source \in Sources /\ queries \in Configurations[source]
  BY DEF World
<1>2. /\ Len(queries) \in Nat /\ Len(queries) >= 1
      /\ \A i, j \in 1 .. Len(queries) : queries[i] = queries[j] => i = j
  BY <1>1, Configured
<1>3. cursor # None /\ cursor.query = queries[1] /\ cursor.query = queries[Len(queries)]
  BY DEF ResumesOf, Marked
<1>4. 1 = Len(queries)
  <2>1. 1 \in 1 .. Len(queries) /\ Len(queries) \in 1 .. Len(queries)
    BY <1>2
  <2>2. queries[1] = queries[Len(queries)]
    BY <1>3
  <2> QED
    BY <1>2, <2>1, <2>2
<1> QED
  BY <1>3, <1>4 DEF Marked, ResumesOf

\* A window opened now begins no later than the last successful run.
LEMMA Opening ==
    ASSUME InTime, World, Marked, NEW k \in 1 .. Len(queries), NEW start \in Days, start <= good
    PROVE  LET o == Opened(k, start)
           IN /\ o \in Request /\ o.query = queries[k]
              /\ source = "biorxiv" => o.to = today /\ o.after = 0
              /\ ResumesOf(source, queries, cursor) => k = 1 /\ o = cursor
              /\ ~ ResumesOf(source, queries, cursor) =>
                    \A r \in SeenOf(date) : QueryOf[r] = queries[k] /\ date[r] >= good
                        => r \in RemainingOf(source, date, o)
<1> DEFINE o == Opened(k, start)
           f == Fresh(k, start)
           g == [f EXCEPT !.from = cursor.to]
<1>1. source \in Windowed /\ source \in Sources /\ queries \in Configurations[source]
  BY DEF World, InTime
<1>2. source = "biorxiv" \/ source = "europepmc"
  BY <1>1 DEF Windowed
<1>3. queries[k] \in Range(QueryOf)
  BY <1>1, Configured
<1>4. today \in Days /\ good \in Days /\ today \in Nat /\ good \in Nat
  BY Numbers DEF World, Days
<1>5. f = [query |-> queries[k], from |-> start, after |-> 0, done |-> FALSE, to |-> today]
  BY <1>1 DEF Fresh
<1>6. /\ f \in Request /\ f.query = queries[k] /\ f.from = start /\ f.to = today /\ f.after = 0
  <2>1. /\ queries[k] \in Range(QueryOf) /\ start \in Days /\ today \in Days /\ 0 \in Nat
        /\ FALSE \in BOOLEAN
    BY <1>3, <1>4
  <2> HIDE DEF f
  <2> QED
    BY <1>5, <2>1 DEF Request
<1>7. cursor # None => cursor \in Request /\ cursor.to \in Days
  BY DEF Marked, Request
<1>8. cursor # None => /\ g \in Request /\ g.query = queries[k] /\ g.from = cursor.to
                       /\ g.to = today /\ g.after = 0
  <2> HIDE DEF f
  <2> QED
    BY <1>6, <1>7 DEF Request
<1>9. ResumesOf(source, queries, cursor) => k = 1 /\ cursor # None /\ source = "europepmc"
  <2> SUFFICES ASSUME ResumesOf(source, queries, cursor)
               PROVE  k = 1 /\ cursor # None /\ source = "europepmc"
    OBVIOUS
  <2>1. Len(queries) = 1
    BY ResumesAlone
  <2>2. cursor # None /\ source = "europepmc"
    BY DEF ResumesOf
  <2> QED
    BY <2>1, <2>2
<1>10. Resumes <=> ResumesOf(source, queries, cursor)
  BY Here
<1>11. o = IF k = 1 /\ cursor # None
           THEN IF source = "biorxiv" THEN g ELSE IF Resumes THEN cursor ELSE f
           ELSE f
  <2>1. CASE source = "biorxiv"
    BY <2>1 DEF Opened, Resumed
  <2>2. CASE source = "europepmc"
    BY <2>2 DEF Opened, Resumed
  <2> QED
    BY <1>2, <2>1, <2>2
<1> HIDE DEF o, f, g
<1>12. ResumesOf(source, queries, cursor) => k = 1 /\ o = cursor /\ o \in Request /\ o.query = queries[k]
                                             /\ source # "biorxiv"
  BY <1>7, <1>9, <1>10, <1>11 DEF ResumesOf
<1>13. ASSUME ~ ResumesOf(source, queries, cursor)
       PROVE  o \in Request /\ o.query = queries[k] /\ o.to = today /\ o.after = 0 /\ o.from <= good
  <2>1. o = f \/ (o = g /\ cursor # None /\ source = "biorxiv")
    BY <1>2, <1>10, <1>11, <1>13
  <2>2. source = "biorxiv" /\ cursor # None => cursor.to <= good
    BY DEF Marked
  <2> QED
    BY <1>6, <1>8, <2>1, <2>2
<1>14. ASSUME ~ ResumesOf(source, queries, cursor), NEW r \in SeenOf(date),
              QueryOf[r] = queries[k], date[r] >= good
       PROVE  r \in RemainingOf(source, date, o)
  <2>1. date \in Dates /\ date[r] <= today /\ date[r] \in Nat
    BY SeenDates DEF World
  <2>2. o.from \in Nat
    BY <1>13, <1>14, Numbers DEF Request, Days
  <2>3. date[r] \in o.from .. o.to
    BY <1>4, <1>13, <1>14, <2>1, <2>2
  <2>4. r \in ListingOf(date, o)
    BY <1>13, <1>14, <2>3 DEF ListingOf
  <2>5. ListingOf(date, o) \in SUBSET SeenOf(date)
    BY Subsets
  <2>6. RankOf(date, r, ListingOf(date, o)) \in Nat /\ RankOf(date, r, ListingOf(date, o)) >= 1
    <3> DEFINE L == ListingOf(date, o)
    <3>1. r \in L /\ L \in SUBSET SeenOf(date) /\ date \in Dates
      BY <2>1, <2>4, <2>5
    <3> HIDE DEF L
    <3>2. Cardinality(L) \in Nat /\ RankOf(date, r, L) \in 1 .. Cardinality(L)
      BY <3>1, Ranks, SeenIsFinite
    <3> QED
      BY <3>2 DEF L
  <2>7. Pos(date, r) \in Nat /\ Pos(date, r) >= 1
    BY <2>1, Order
  <2>8. PlaceOf(source, date, r, o) > 0
    BY <2>6, <2>7 DEF PlaceOf
  <2> QED
    BY <1>13, <1>14, <2>4, <2>8 DEF RemainingOf
<1> QED
  BY <1>12, <1>13, <1>14 DEF o

-----------------------------------------------------------------------------
(***************************************************************************)
(* The steps.                                                               *)
(***************************************************************************)
LEMMA InitIsFine == Init => IInv
<1> SUFFICES ASSUME Init PROVE IInv
  OBVIOUS
<1>1. SeenOf(date) = {}
  BY DEF Init, SeenOf
<1>2. date \in Dates
  BY DEF Init, Dates
<1>3. 0 \in Days /\ 0 <= 0 /\ 0 <= 0 + Outage
  BY Numbers DEF Days
<1>4. World
  BY <1>1, <1>2, <1>3 DEF Init, World
<1>5. Marked
  BY <1>1 DEF Init, Marked
<1> QED
  BY <1>4, <1>5 DEF Init, IInv

LEMMA BeginKeeps == ASSUME InTime, IInv, Begin PROVE IInv'
<1>1. World /\ Marked /\ phase' = "next"
  BY DEF IInv, Begin
<1>2. World' /\ Marked'
  BY <1>1 DEF Begin, world, World, Marked
<1>3. DaysAgo(Backfill) \in Days /\ DaysAgo(Backfill) <= good
  BY <1>1, Started
<1>4. /\ today \in Days /\ good \in Days /\ today \in Nat /\ good \in Nat /\ good <= today
      /\ source \in Sources /\ queries \in Configurations[source]
  BY <1>1, Numbers DEF World, Days
<1>5. Resumes <=> ResumesOf(source, queries, cursor)
  BY Here
<1>6. /\ since' = DaysAgo(Backfill) /\ began' = IF Resumes THEN good ELSE today
      /\ UNCHANGED <<source, queries, date, today, good, cursor>>
  BY DEF Begin, world
<1>7. source = "biorxiv" => ~ Resumes
  BY DEF Resumes
<1>8. Clock'
  <2>1. began' \in Days /\ good <= began' /\ began' <= today
    BY <1>4, <1>6
  <2> QED
    BY <1>3, <1>5, <1>6, <1>7, <2>1 DEF Clock
<1>9. Harvested' /\ Marks'
  <2>1. Len(queries) \in Nat /\ Len(queries) >= 1
    BY <1>4, Configured
  <2>2. at' = 1 /\ last' = cursor /\ queries' = queries /\ cursor' = cursor
    BY DEF Begin, world
  <2>3. 1 .. at' - 1 = {}
    BY <2>2
  <2>4. last' \in Request \cup {None}
    BY <1>1, <2>2 DEF Marked
  <2>5. Marks'
    BY <2>2 DEF Marks
  <2> QED
    BY <2>1, <2>2, <2>3, <2>4, <2>5 DEF Harvested
<1> QED
  BY <1>1, <1>2, <1>8, <1>9 DEF IInv

LEMMA OpenKeeps == ASSUME InTime, IInv, Open PROVE IInv'
<1>1. /\ World /\ Marked /\ Clock /\ Harvested
      /\ phase = "next" /\ phase' = "paging" /\ pages' = 0 /\ request' = Opened(at, since)
  BY DEF IInv, Open
<1>2. /\ UNCHANGED <<source, queries, today, date, stored, cursor, good, began, since, at, got, last>>
      /\ at \in DOMAIN queries
  BY DEF Open, world
<1>3. World' /\ Marked' /\ Clock' /\ Harvested'
  BY <1>1, <1>2 DEF World, Marked, Clock, Harvested
<1>4. Marks'
  BY <1>1 DEF Marks
<1>5. source \in Sources /\ queries \in Configurations[source] /\ date \in Dates
  BY <1>1 DEF World
<1>6. at \in 1 .. Len(queries)
  BY <1>2, <1>5, Configured
<1>7. since \in Days /\ since <= good /\ good \in Nat /\ began \in Nat /\ good <= began
      /\ (ResumesOf(source, queries, cursor) => began = good)
  BY <1>1, Numbers DEF World, Clock, Days
<1> DEFINE o == Opened(at, since)
<1>8. /\ o \in Request /\ o.query = queries[at]
      /\ source = "biorxiv" => o.to = today /\ o.after = 0
      /\ ResumesOf(source, queries, cursor) => at = 1 /\ o = cursor
      /\ ~ ResumesOf(source, queries, cursor) =>
            \A r \in SeenOf(date) : QueryOf[r] = queries[at] /\ date[r] >= good
                => r \in RemainingOf(source, date, o)
  BY <1>1, <1>6, <1>7, Opening
<1> HIDE DEF o
<1>9. request' = o
  BY <1>1 DEF o
<1>10. ASSUME NEW r \in SeenOf(date), QueryOf[r] = queries[at], date[r] < began
       PROVE  r \in stored \cup got \cup RemainingOf(source, date, o)
  <2>1. \/ r \in stored \/ date[r] >= good
        \/ ResumesOf(source, queries, cursor) /\ r \in RemainingOf(source, date, cursor)
    BY <1>1 DEF Marked
  <2>2. date[r] \in Nat
    BY <1>5, SeenDates
  <2>3. CASE ResumesOf(source, queries, cursor)
    BY <1>7, <1>8, <1>10, <2>1, <2>2, <2>3
  <2>4. CASE ~ ResumesOf(source, queries, cursor)
    BY <1>8, <1>10, <2>1, <2>4
  <2> QED
    BY <2>3, <2>4
<1>11. Reading'
  <2>1. pages' \in Nat /\ pages' + 1 <= MaxPages
    BY <1>1, Numbers
  <2> QED
    BY <1>2, <1>6, <1>8, <1>9, <1>10, <2>1 DEF Reading
<1>12. Filled'
  <2>1. pages' * PageSize = 0
    BY <1>1, Numbers
  <2>2. Cardinality(ListingOf(date, o)) \in Nat /\ Cardinality(PassedOf(source, date, o)) \in Nat
    BY Subsets, SeenIsFinite
  <2>3. o.after \in Nat
    BY <1>8 DEF Request
  <2>4. source = "biorxiv" => pages' * PageSize <= o.after /\ o.after <= Cardinality(ListingOf(date, o))
    BY <1>8, <2>1, <2>2
  <2>5. source = "europepmc" => pages' * PageSize <= Cardinality(PassedOf(source, date, o))
    BY <2>1, <2>2
  <2> QED
    BY <1>2, <1>9, <2>4, <2>5 DEF Filled, FilledOf
<1> QED
  BY <1>1, <1>3, <1>4, <1>11, <1>12 DEF IInv

LEMMA FinishKeeps == ASSUME InTime, IInv, Finish PROVE IInv'
<1>1. /\ World /\ Marked /\ Clock /\ Harvested /\ Marks /\ phase = "next" /\ at = Len(queries) + 1
  BY DEF IInv, Finish
<1>2. /\ stored' = stored \cup got /\ cursor' = last /\ good' = began /\ phase' = "idle"
      /\ UNCHANGED <<source, queries, today, date>>
  BY DEF Finish, Stop, world
<1>3. source \in Sources /\ queries \in Configurations[source] /\ date \in Dates
      /\ \A r \in SeenOf(date) : QueryOf[r] \in Range(queries)
  BY <1>1 DEF World
<1>4. /\ Len(queries) \in Nat /\ Len(queries) >= 1
      /\ \A v \in Range(queries) : \E i \in 1 .. Len(queries) : v = queries[i]
  BY <1>3, Configured
<1>5. /\ today \in Nat /\ good \in Nat /\ began \in Nat /\ Outage \in Nat /\ began \in Days
      /\ good <= began /\ began <= today /\ today <= good + Outage
      /\ (source = "biorxiv" => began = today)
  BY <1>1, Numbers DEF World, Clock, Days
<1>6. World'
  <2>1. good' \in Days /\ good' <= today /\ today <= good' + Outage
    BY <1>2, <1>5
  <2> QED
    BY <1>1, <1>2, <2>1 DEF World
<1>7. last \in Request /\ last.query = queries[Len(queries)] /\ (source = "biorxiv" => last.to = today)
  <2>1. at # 1 /\ at - 1 = Len(queries)
    BY <1>1, <1>4
  <2> QED
    BY <1>1, <2>1 DEF Marks
<1>8. ASSUME NEW r \in SeenOf(date), ~ (date[r] >= began), r \notin stored \cup got
      PROVE  ResumesOf(source, queries, last) /\ r \in RemainingOf(source, date, last)
  <2>1. date[r] < began
    BY <1>3, <1>5, <1>8, SeenDates
  <2>2. PICK j \in 1 .. Len(queries) : QueryOf[r] = queries[j]
    BY <1>3, <1>4
  <2>3. j \in 1 .. at - 1
    BY <1>1, <1>4
  <2>4. /\ SingleOf(source, queries) /\ last # None /\ ~ last.done
        /\ r \in RemainingOf(source, date, last)
    BY <1>1, <1>8, <2>1, <2>2, <2>3 DEF Harvested
  <2> QED
    BY <1>7, <2>4 DEF SingleOf, ResumesOf
<1>9. source = "biorxiv" => last.to <= began
  BY <1>5, <1>7
<1>10. Marked'
  BY <1>2, <1>7, <1>8, <1>9 DEF Marked
<1> QED
  BY <1>2, <1>6, <1>10 DEF IInv

\* A run that fails or is killed leaves the mark.
LEMMA StopKeeps == ASSUME IInv, Fail \/ Kill PROVE IInv'
<1>1. World /\ Marked
  BY DEF IInv
<1>2. /\ phase' = "idle" /\ stored \subseteq stored'
      /\ UNCHANGED <<source, queries, today, date, cursor, good>>
  BY DEF Fail, Kill, Stop, world
<1>3. World'
  BY <1>1, <1>2 DEF World
<1>4. Marked'
  BY <1>1, <1>2 DEF Marked
<1> QED
  BY <1>2, <1>3, <1>4 DEF IInv

LEMMA TickKeeps == ASSUME InTime, IInv, Tick PROVE IInv'
<1>1. /\ World /\ Marked /\ phase \in {"idle", "next", "paging"}
      /\ phase # "idle" => Clock /\ Harvested /\ Marks
      /\ phase = "paging" => Reading
      /\ phase = "paging" /\ ~ SingleOf(source, queries) => Filled
  BY DEF IInv
<1>2. /\ today < MaxDay /\ today < good + Outage /\ today' = today + 1
      /\ phase # "idle" => source # "biorxiv"
      /\ UNCHANGED <<source, queries, date, stored, cursor, good, phase, began, since, at, request, pages, got, last>>
  BY DEF Tick, InTime, run
<1>3. today \in Nat /\ good \in Nat /\ MaxDay \in Nat /\ Outage \in Nat
  BY <1>1, Numbers DEF World, Days
<1>4. World'
  <2>1. today' \in Days /\ good <= today' /\ today' <= good + Outage
    <3>1. good <= today
      BY <1>1 DEF World
    <3> QED
      BY <1>2, <1>3, <3>1 DEF Days
  <2>2. \A r \in SeenOf(date) : date[r] <= today'
    <3> TAKE r \in SeenOf(date)
    <3>1. date[r] \in Nat /\ date[r] <= today
      BY <1>1, SeenDates DEF World
    <3> QED
      BY <1>2, <1>3, <3>1
  <2> QED
    BY <1>1, <1>2, <2>1, <2>2 DEF World
<1>5. Marked'
  BY <1>1, <1>2 DEF Marked
<1>6. phase # "idle" => Clock' /\ Harvested' /\ Marks'
  <2> SUFFICES ASSUME phase # "idle" PROVE Clock' /\ Harvested' /\ Marks'
    OBVIOUS
  <2>1. Clock /\ Harvested /\ Marks /\ source # "biorxiv"
    BY <1>1, <1>2
  <2>2. began <= today'
    <3>1. began \in Nat /\ began <= today
      BY <2>1, Numbers DEF Clock, Days
    <3> QED
      BY <1>2, <1>3, <3>1
  <2>3. Clock'
    BY <1>2, <2>1, <2>2 DEF Clock
  <2>4. Harvested'
    BY <1>2, <2>1 DEF Harvested
  <2>5. Marks'
    BY <1>2, <2>1 DEF Marks
  <2> QED
    BY <2>3, <2>4, <2>5
<1>7. phase = "paging" => Reading'
  BY <1>1, <1>2 DEF Reading
<1>8. phase = "paging" /\ ~ SingleOf(source, queries) => Filled'
  BY <1>1, <1>2 DEF Filled
<1> QED
  BY <1>1, <1>2, <1>4, <1>5, <1>6, <1>7, <1>8 DEF IInv

\* The mark a page leaves.
LEMMA NextMark ==
    ASSUME InTime, World, NEW q \in Request,
           source = "biorxiv" => q.after <= Cardinality(ListingOf(date, q))
    PROVE  LET m == NextCursor(q)
           IN /\ m \in Request /\ m # None /\ m.query = q.query
              /\ source = "biorxiv" => m.to = q.to
              /\ source = "europepmc" /\ PageOf(source, date, q) # {} =>
                    /\ ~ m.done
                    /\ RemainingOf(source, date, m) = RemainingOf(source, date, AdvancedOf(source, date, q))
<1> DEFINE m == NextCursor(q)
           P == PageOf(source, date, q)
           a == AdvancedOf(source, date, q)
<1>1. source = "biorxiv" \/ source = "europepmc"
  BY Started
<1>2. date \in Dates /\ None \notin Request
  BY NoneIsNothing DEF World
<1>3. CASE source = "biorxiv"
  <2>1. m = q
    BY <1>3 DEF NextCursor
  <2> QED
    BY <1>2, <1>3, <2>1
<1>4. CASE source = "europepmc"
  <2>1. Page(q) = P /\ Advanced(q) = a
    BY Here
  <2>2. m = [a EXCEPT !.done = (P = {})]
    BY <1>4, <2>1 DEF NextCursor
  <2>3. a \in Request /\ a.query = q.query
    <3>1. P = {} => a = q
      BY DEF AdvancedOf
    <3>2. P # {} => a \in Request /\ a.query = q.query
      BY <1>2, <1>4, Advance
    <3> QED
      BY <3>1, <3>2
  <2> HIDE DEF m, a, P
  <2>4. /\ m \in Request /\ m.query = a.query /\ m.from = a.from /\ m.to = a.to /\ m.after = a.after
    BY <2>2, <2>3 DEF Request
  <2>5. P # {} => ~ m.done
    <3>1. m.done = (P = {})
      BY <2>2, <2>3 DEF Request
    <3> QED
      BY <3>1
  <2>6. RemainingOf(source, date, m) = RemainingOf(source, date, a)
    BY <2>4, SameRemaining
  <2> QED
    BY <1>2, <1>4, <2>3, <2>4, <2>5, <2>6 DEF m, a, P
<1> QED
  BY <1>1, <1>3, <1>4

LEMMA FetchKeeps == ASSUME InTime, IInv, Fits, Fetch PROVE IInv'
<1> DEFINE P == PageOf(source, date, request)
           R == RemainingOf(source, date, request)
           a == AdvancedOf(source, date, request)
           m == NextCursor(request)
<1>1. /\ World /\ Marked /\ Clock /\ Harvested /\ Reading /\ phase = "paging"
      /\ ~ SingleOf(source, queries) => Filled
  BY DEF IInv, Fetch
<1>2. /\ source \in Sources /\ queries \in Configurations[source] /\ date \in Dates
      /\ at \in 1 .. Len(queries) /\ request \in Request /\ request.query = queries[at]
      /\ (source = "biorxiv" => request.to = today) /\ pages \in Nat /\ pages + 1 <= MaxPages
      /\ \A r \in SeenOf(date) : QueryOf[r] = queries[at] /\ date[r] < began
            => r \in stored \cup got \cup R
  BY <1>1 DEF World, Reading
<1>3. Len(queries) \in Nat /\ Len(queries) >= 1
      /\ \A i, j \in 1 .. Len(queries) : queries[i] = queries[j] => i = j
  BY <1>2, Configured
<1>4. source = "biorxiv" \/ source = "europepmc"
  BY <1>1, Started
<1>5. source = "biorxiv" => request.after <= Cardinality(ListingOf(date, request))
  BY <1>1 DEF SingleOf, Filled, FilledOf
<1>6. Page(request) = P /\ Remaining(request) = R /\ Advanced(request) = a
  BY Here
<1>7. /\ m \in Request /\ m # None /\ m.query = queries[at]
      /\ source = "biorxiv" => m.to = today
      /\ source = "europepmc" /\ P # {} => ~ m.done /\ RemainingOf(source, date, m) = RemainingOf(source, date, a)
  BY <1>1, <1>2, <1>5, NextMark
<1>8. began \in Nat /\ MaxPages \in Nat
  BY <1>1, Numbers DEF Clock, Days
<1>9. P # {} => /\ a \in Request /\ a.query = queries[at] /\ (source = "biorxiv" => a.to = today)
                /\ R \subseteq P \cup RemainingOf(source, date, a)
  BY <1>2, <1>5, Advance
<1>10. P \subseteq R /\ (R # {} => P # {}) /\ R \subseteq SeenOf(date)
  BY <1>2, Subsets, Pages
<1>11. /\ got' = got \cup P /\ last' = m
       /\ UNCHANGED <<source, queries, today, date, stored, cursor, good, began, since>>
       /\ \/ More(request) /\ request' = a /\ pages' = pages + 1 /\ phase' = "paging" /\ at' = at
          \/ ~ More(request) /\ phase' = "next" /\ at' = at + 1
  BY <1>1, <1>6, <1>7 DEF Fetch, world
<1>12. More(request) <=> pages + 1 < MaxPages /\ IF source = "biorxiv" THEN R # P ELSE P # {}
  BY <1>4, <1>6 DEF More
<1>13. ~ SingleOf(source, queries) => /\ FilledOf(source, date, request, pages, began)
                                      /\ Cardinality(ListingOf(date, request)) <= MaxPages * PageSize
  BY <1>1 DEF Filled, Fits
\* The queries before this one: there are none when there is one query only.
<1>14. ASSUME NEW r \in SeenOf(date), NEW j \in 1 .. at - 1, QueryOf[r] = queries[j], date[r] < began
       PROVE  r \in stored \cup got
  <2>1. ~ SingleOf(source, queries)
    BY <1>2, <1>3 DEF SingleOf
  <2> QED
    BY <1>1, <1>14, <2>1 DEF Harvested
<1>15. World' /\ Marked' /\ Clock'
  BY <1>1, <1>11 DEF World, Marked, Clock
<1> HIDE DEF P, R, a, m
<1>16. CASE More(request)
  <2>1. P # {} /\ pages + 1 < MaxPages /\ (source = "biorxiv" => R # P)
    BY <1>4, <1>10, <1>12, <1>16
  <2>2. request' = a /\ pages' = pages + 1 /\ phase' = "paging" /\ at' = at
    BY <1>11, <1>16
  <2>3. Harvested'
    <3>1. at' \in 1 .. Len(queries') + 1 /\ last' \in Request \cup {None}
      BY <1>2, <1>3, <1>7, <1>11, <2>2
    <3>2. \A r \in SeenOf(date) : \A j \in 1 .. at - 1 :
             QueryOf[r] = queries[j] /\ date[r] < began => r \in stored \cup got'
      BY <1>11, <1>14
    <3> QED
      BY <1>11, <2>2, <3>1, <3>2 DEF Harvested
  <2>4. Marks'
    BY <2>2 DEF Marks
  <2>5. Reading'
    <3>1. \A r \in SeenOf(date) : QueryOf[r] = queries[at] /\ date[r] < began
             => r \in stored \cup got' \cup RemainingOf(source, date, a)
      BY <1>2, <1>9, <1>11, <2>1
    <3>2. pages' \in Nat /\ pages' + 1 <= MaxPages
      BY <1>2, <1>8, <2>1, <2>2
    <3> QED
      BY <1>2, <1>9, <1>11, <2>1, <2>2, <3>1, <3>2 DEF Reading
  <2>6. ~ SingleOf(source, queries) => Filled'
    <3> SUFFICES ASSUME ~ SingleOf(source, queries) PROVE Filled'
      OBVIOUS
    <3>1. FilledOf(source, date, a, pages + 1, began)
      BY <1>2, <1>8, <1>13, <2>1, FilledOn DEF P, R, a
    <3> QED
      BY <1>11, <2>2, <3>1 DEF Filled
  <2> QED
    BY <1>11, <1>15, <2>2, <2>3, <2>4, <2>5, <2>6 DEF IInv
<1>17. CASE ~ More(request)
  <2>1. phase' = "next" /\ at' = at + 1
    BY <1>11, <1>17
  <2>2. ASSUME NEW r \in SeenOf(date), QueryOf[r] = queries[at], date[r] < began, r \notin stored \cup got'
        PROVE  /\ SingleOf(source, queries) /\ m # None /\ ~ m.done
               /\ r \in RemainingOf(source, date, m)
    <3>1. r \in R /\ r \notin P
      BY <1>2, <1>11, <2>2
    <3>2. P # {} /\ R # P
      BY <1>10, <3>1
    <3>3. pages + 1 = MaxPages
      BY <1>2, <1>8, <1>12, <1>17, <3>2
    <3>4. SingleOf(source, queries)
      <4> SUFFICES ASSUME ~ SingleOf(source, queries) PROVE FALSE
        OBVIOUS
      <4>1. source \in Windowed
        BY <1>4 DEF Windowed
      <4>2. r \in P
        BY <1>2, <1>8, <1>13, <2>2, <3>1, <3>3, <4>1, PagesSuffice DEF P, R
      <4> QED
        BY <3>1, <4>2
    <3>5. source = "europepmc" /\ r \in RemainingOf(source, date, a)
      BY <1>9, <3>1, <3>2, <3>4 DEF SingleOf
    <3> QED
      BY <1>7, <3>2, <3>4, <3>5
  <2>3. Harvested'
    <3>1. at' \in 1 .. Len(queries') + 1 /\ last' \in Request \cup {None} /\ at' - 1 = at
      BY <1>2, <1>3, <1>7, <1>11, <2>1
    <3>2. ASSUME NEW r \in SeenOf(date), NEW j \in 1 .. at, QueryOf[r] = queries[j], date[r] < began,
                 r \notin stored \cup got'
          PROVE  /\ SingleOf(source, queries) /\ m # None /\ ~ m.done
                 /\ r \in RemainingOf(source, date, m)
      <4>1. CASE j = at
        BY <2>2, <3>2, <4>1
      <4>2. CASE j # at
        <5>1. j \in 1 .. at - 1
          BY <1>2, <4>2
        <5> QED
          BY <1>11, <1>14, <3>2, <5>1
      <4> QED
        BY <4>1, <4>2
    <3> QED
      BY <1>11, <2>1, <3>1, <3>2 DEF Harvested
  <2>4. Marks'
    <3>1. at' # 1 /\ at' - 1 = at
      BY <1>2, <2>1
    <3> QED
      BY <1>7, <1>11, <3>1 DEF Marks
  <2> QED
    BY <1>15, <2>1, <2>3, <2>4 DEF IInv
<1> QED
  BY <1>16, <1>17

LEMMA ListKeeps ==
    ASSUME InTime, IInv, NEW n \in Records, NEW t \in Days, List(n, t)
    PROVE  IInv'
<1>1. /\ World /\ Marked /\ phase \in {"idle", "next", "paging"}
      /\ phase # "idle" => Clock /\ Harvested /\ Marks
      /\ phase = "paging" => Reading
      /\ phase = "paging" /\ ~ SingleOf(source, queries) => Filled
  BY DEF IInv
<1>2. source = "biorxiv" \/ source = "europepmc"
  BY <1>1, Started
<1>3. /\ date[n] = None /\ QueryOf[n] \in Range(queries) /\ date' = [date EXCEPT ![n] = today]
      /\ UNCHANGED <<source, queries, today, stored, cursor, good, phase, began, since, at, request,
                     pages, got, last>>
  BY <1>2 DEF List, run
<1>4. /\ date \in Dates /\ today \in Days /\ today \in Nat /\ good \in Nat /\ good <= today
      /\ \A r \in SeenOf(date) : date[r] <= today /\ date[r] \in Nat
  BY <1>1, SeenDates, Numbers DEF World, Days
<1>5. /\ date' \in Dates /\ date'[n] = today /\ \A r \in Records : r # n => date'[r] = date[r]
      /\ SeenOf(date') = SeenOf(date) \cup {n} /\ n \notin SeenOf(date)
  <2>1. /\ n \in Records /\ date[n] = None /\ today \in Days /\ date \in Dates
        /\ date' = [date EXCEPT ![n] = today]
    BY <1>3, <1>4
  <2> QED
    BY ONLY <2>1, NoneIsNothing DEF Dates, SeenOf
<1>6. ASSUME NEW q \in Request
      PROVE  /\ Cardinality(ListingOf(date, q)) <= Cardinality(ListingOf(date', q))
             /\ \A r \in RemainingOf(source, date, q) :
                  (source = "biorxiv" => date[r] < today) => r \in RemainingOf(source, date', q)
             /\ source = "europepmc" =>
                  /\ RemainingOf(source, date', q) \subseteq RemainingOf(source, date, q) \cup {n}
                  /\ Cardinality(PassedOf(source, date, q)) <= Cardinality(PassedOf(source, date', q))
  BY <1>3, <1>4, Growth
<1>7. \A r \in SeenOf(date) : r # n /\ date'[r] = date[r]
  BY <1>5 DEF SeenOf
<1>8. World'
  <2>1. ASSUME NEW r \in SeenOf(date') PROVE QueryOf[r] \in Range(queries) /\ date'[r] <= today
    <3>1. CASE r = n
      BY <1>3, <1>4, <1>5, <3>1
    <3>2. CASE r # n
      BY <1>1, <1>4, <1>5, <1>7, <3>2 DEF World
    <3> QED
      BY <3>1, <3>2
  <2> QED
    BY <1>1, <1>3, <1>5, <2>1 DEF World
<1>9. Marked'
  <2>1. ASSUME NEW r \in SeenOf(date')
        PROVE  \/ r \in stored \/ date'[r] >= good
               \/ ResumesOf(source, queries, cursor) /\ r \in RemainingOf(source, date', cursor)
    <3>1. CASE r = n
      BY <1>4, <1>5, <3>1
    <3>2. CASE r # n
      <4>1. r \in SeenOf(date) /\ date'[r] = date[r]
        BY <1>5, <1>7, <3>2
      <4>2. \/ r \in stored \/ date[r] >= good
            \/ ResumesOf(source, queries, cursor) /\ r \in RemainingOf(source, date, cursor)
        BY <1>1, <4>1 DEF Marked
      <4>3. CASE ResumesOf(source, queries, cursor) /\ r \in RemainingOf(source, date, cursor)
        <5>1. cursor \in Request /\ source = "europepmc"
          BY <1>1, <4>3, ResumesAlone
        <5> QED
          BY <1>6, <4>3, <5>1
      <4> QED
        BY <4>1, <4>2, <4>3
    <3> QED
      BY <3>1, <3>2
  <2> QED
    BY <1>1, <1>3, <2>1 DEF Marked
<1>10. phase # "idle" => Clock' /\ Harvested' /\ Marks'
  <2> SUFFICES ASSUME phase # "idle" PROVE Clock' /\ Harvested' /\ Marks'
    OBVIOUS
  <2>1. Clock /\ Harvested /\ Marks
    BY <1>1
  <2>2. began \in Nat /\ began <= today
    BY <2>1, Numbers DEF Clock, Days
  <2>3. Clock' /\ Marks'
    BY <1>3, <2>1 DEF Clock, Marks
  <2>4. ASSUME NEW r \in SeenOf(date'), NEW j \in 1 .. at - 1, QueryOf[r] = queries[j], date'[r] < began
        PROVE  \/ r \in stored \cup got
               \/ /\ SingleOf(source, queries) /\ last # None /\ ~ last.done
                  /\ r \in RemainingOf(source, date', last)
    <3>1. r # n
      BY <1>4, <1>5, <2>2, <2>4
    <3>2. r \in SeenOf(date) /\ date[r] < began
      BY <1>5, <1>7, <2>4, <3>1
    <3>3. \/ r \in stored \cup got
          \/ /\ SingleOf(source, queries) /\ last # None /\ ~ last.done
             /\ r \in RemainingOf(source, date, last)
      BY <2>1, <2>4, <3>2 DEF Harvested
    <3>4. last # None => last \in Request
      BY <2>1 DEF Harvested
    <3> QED
      BY <1>6, <3>3, <3>4 DEF SingleOf
  <2>5. Harvested'
    BY <1>3, <2>1, <2>4 DEF Harvested
  <2> QED
    BY <2>3, <2>5
<1>11. phase = "paging" => Reading'
  <2> SUFFICES ASSUME phase = "paging" PROVE Reading'
    OBVIOUS
  <2>1. Clock /\ Reading /\ request \in Request
    BY <1>1 DEF Reading
  <2>2. began \in Nat /\ began <= today /\ (source = "biorxiv" => began = today)
    BY <2>1, Numbers DEF Clock, Days
  <2>3. ASSUME NEW r \in SeenOf(date'), QueryOf[r] = queries[at], date'[r] < began
        PROVE  r \in stored \cup got \cup RemainingOf(source, date', request)
    <3>1. r # n
      BY <1>4, <1>5, <2>2, <2>3
    <3>2. r \in SeenOf(date) /\ date[r] < began
      BY <1>5, <1>7, <2>3, <3>1
    <3>3. r \in stored \cup got \cup RemainingOf(source, date, request)
      BY <2>1, <2>3, <3>2 DEF Reading
    <3> QED
      BY <1>6, <2>1, <2>2, <3>2, <3>3
  <2> QED
    BY <1>3, <2>1, <2>3 DEF Reading
<1>12. phase = "paging" /\ ~ SingleOf(source, queries) => Filled'
  <2> SUFFICES ASSUME phase = "paging", ~ SingleOf(source, queries) PROVE Filled'
    OBVIOUS
  <2>1. Clock /\ request \in Request /\ FilledOf(source, date, request, pages, began) /\ pages \in Nat
    BY <1>1 DEF Reading, Filled
  <2>2. began \in Nat /\ began <= today
    BY <2>1, Numbers DEF Clock, Days
  <2> DEFINE k == pages * PageSize
             c1 == Cardinality(ListingOf(date, request))
             c2 == Cardinality(ListingOf(date', request))
             b1 == Cardinality(PassedOf(source, date, request))
             b2 == Cardinality(PassedOf(source, date', request))
  <2>3. /\ c1 \in Nat /\ c2 \in Nat /\ b1 \in Nat /\ b2 \in Nat /\ k \in Nat /\ request.after \in Nat
    <3>1. c1 \in Nat /\ c2 \in Nat /\ b1 \in Nat /\ b2 \in Nat
      BY Subsets, SeenIsFinite
    <3>2. k \in Nat
      BY <2>1, Numbers
    <3>3. request.after \in Nat
      BY <2>1 DEF Request
    <3> QED
      BY <3>1, <3>2, <3>3
  <2>4. c1 <= c2 /\ (source = "europepmc" => b1 <= b2)
    BY <1>6, <2>1
  <2>5. /\ source = "biorxiv" => k <= request.after /\ request.after <= c1
        /\ source = "europepmc" => k <= b1 \/ \A r \in RemainingOf(source, date, request) : date[r] >= began
    BY <2>1 DEF FilledOf
  <2>6. ASSUME source = "europepmc", \A r \in RemainingOf(source, date, request) : date[r] >= began
        PROVE  \A r \in RemainingOf(source, date', request) : date'[r] >= began
    <3> TAKE r \in RemainingOf(source, date', request)
    <3>1. r \in RemainingOf(source, date, request) \/ r = n
      BY <1>6, <2>1, <2>6
    <3>2. RemainingOf(source, date, request) \in SUBSET SeenOf(date)
      BY Subsets
    <3> QED
      BY <1>4, <1>5, <1>7, <2>2, <2>6, <3>1, <3>2
  <2> HIDE DEF k, c1, c2, b1, b2
  <2>7. /\ source = "biorxiv" => k <= request.after /\ request.after <= c2
        /\ source = "europepmc" => k <= b2 \/ \A r \in RemainingOf(source, date', request) : date'[r] >= began
    BY <2>3, <2>4, <2>5, <2>6
  <2>8. FilledOf(source, date', request, pages, began)
    BY <2>7 DEF FilledOf, k, c2, b2
  <2> QED
    BY <1>3, <2>8 DEF Filled
<1> QED
  BY <1>1, <1>3, <1>8, <1>9, <1>10, <1>11, <1>12 DEF IInv

LEMMA StutterKeeps == ASSUME IInv, UNCHANGED vars PROVE IInv'
  BY DEF IInv, World, Marked, Clock, Harvested, Marks, Reading, Filled, vars, world, run

\* Between two runs the invariant says what the next one will find.
LEMMA NothingPassed == ASSUME InTime, IInv PROVE NothingIsPassedOver
<1> SUFFICES ASSUME phase = "idle", NEW r \in Listed, r \notin stored,
                    ~ (Resumes /\ r \in Younger)
             PROVE  r \in Ahead
  BY DEF NothingIsPassedOver
<1>1. World /\ Marked
  BY DEF IInv
<1> DEFINE start == DaysAgo(Backfill)
<1>2. start \in Days /\ start <= good
  BY <1>1, Started
<1>3. /\ source \in Sources /\ queries \in Configurations[source] /\ date \in Dates
      /\ r \in SeenOf(date) /\ QueryOf[r] \in Range(queries)
  BY <1>1, Here DEF World
<1>4. /\ DOMAIN queries = 1 .. Len(queries) /\ Len(queries) \in Nat
      /\ \A v \in Range(queries) : \E i \in 1 .. Len(queries) : v = queries[i]
  BY <1>3, Configured
<1>5. PICK k \in 1 .. Len(queries) : QueryOf[r] = queries[k]
  BY <1>3, <1>4
<1>6. \/ date[r] >= good
      \/ ResumesOf(source, queries, cursor) /\ r \in RemainingOf(source, date, cursor)
  BY <1>1, <1>3 DEF Marked
<1>7. Resumes <=> ResumesOf(source, queries, cursor)
  BY Here
<1>8. good \in Nat /\ start \in Nat
  BY <1>1, <1>2, Numbers DEF World, Days
<1>9. Resumes => ~ (date[r] >= good)
  BY <1>2, <1>8 DEF Younger
<1> DEFINE o == Opened(k, start)
<1>10. /\ ResumesOf(source, queries, cursor) => k = 1 /\ o = cursor
       /\ ~ ResumesOf(source, queries, cursor) =>
             \A x \in SeenOf(date) : QueryOf[x] = queries[k] /\ date[x] >= good
                 => x \in RemainingOf(source, date, o)
  BY <1>1, <1>2, Opening
<1>11. r \in RemainingOf(source, date, o)
  BY <1>3, <1>5, <1>6, <1>7, <1>9, <1>10
<1>12. r \in Remaining(o)
  BY <1>11, Here
<1> QED
  BY <1>4, <1>5, <1>12 DEF Ahead

-----------------------------------------------------------------------------
LEMMA NextKeeps == ASSUME InTime, IInv, Fits, [Next]_vars PROVE IInv'
<1>1. CASE Begin
  BY <1>1, BeginKeeps
<1>2. CASE Open
  BY <1>2, OpenKeeps
<1>3. CASE Fetch
  BY <1>3, FetchKeeps
<1>4. CASE Finish
  BY <1>4, FinishKeeps
<1>5. CASE Fail \/ Kill
  BY <1>5, StopKeeps
<1>6. CASE Tick
  BY <1>6, TickKeeps
<1>7. CASE \E n \in Records, t \in Days : List(n, t)
  <2>1. PICK n \in Records, t \in Days : List(n, t)
    BY <1>7
  <2> QED
    BY <2>1, ListKeeps
<1>8. CASE UNCHANGED vars
  BY <1>8, StutterKeeps
<1> QED
  BY <1>1, <1>2, <1>3, <1>4, <1>5, <1>6, <1>7, <1>8 DEF Next, Step

\* The account of a run: what was listed before the last successful run is
\* stored or in the window the next one resumes, and what a run has not read of
\* the days before it began is still ahead of its requests.
THEOREM Invariance == ASSUME InTime PROVE Spec /\ []Fits => []IInv
<1>1. Init => IInv
  BY InitIsFine
<1>2. IInv /\ Fits /\ [Next]_vars => IInv'
  BY NextKeeps
<1> QED
  BY <1>1, <1>2, PTL DEF Spec

\* bioRxiv and Europe PMC pass over nothing, for any records, queries, page
\* sizes, and days: while every window is as long as the source was without a
\* run, the pages of a run reach the end of it (Europe PMC's single expression
\* needs no such bound, its window is resumed), and a run of bioRxiv, whose
\* offsets count from the start of its window, lasts one day.
THEOREM NothingGoesMissing ==
    ASSUME InTime PROVE Spec /\ []Fits => []NothingIsPassedOver
<1>1. IInv => NothingIsPassedOver
  BY NothingPassed
<1> QED
  BY <1>1, Invariance, PTL

-----------------------------------------------------------------------------
(***************************************************************************)
(* Requests: SourceHttp.                                                    *)
(***************************************************************************)
Ages == {a \in Int : a <= Full}

CallerRecord == [pc : {"idle", "acquire", "send", "backoff"}, attempt : 1..MaxAttempts, sleep : Nat]
BucketRecord == [tokens : 0..Capacity, age : Ages]

TypeInv ==
    /\ bucket \in [Servers -> BucketRecord]
    /\ caller \in [Callers -> CallerRecord]
    /\ grants \in [Servers -> Seq(0..Full)]
    /\ barred \in [Servers -> Nat]
    /\ \A s \in Servers : Len(grants[s]) <= Burst + 1
    /\ \A c \in Callers : caller[c].pc = "backoff" => caller[c].attempt < MaxAttempts

\* What the bucket can hold now.
Room(b) == b.tokens + Greatest(b.age, 0) * Rate

\* The i-th of the latest grants: since it, i tokens were taken.
Accounted(b, log) ==
    \A i \in 1..Len(log) : log[i] = Full \/ Room(b) + i * Cost <= Capacity + log[i] * Rate

HttpInv ==
    /\ TypeInv
    /\ \A s \in Servers : Accounted(bucket[s], grants[s])
    /\ \A s \in Servers : barred[s] = 0 \/ bucket[s].age = -barred[s]

-----------------------------------------------------------------------------
(***************************************************************************)
(* Arithmetic of the account.                                               *)
(***************************************************************************)
LEMMA Division ==
    ASSUME NEW n \in Nat, NEW b \in Nat \ {0}
    PROVE  n \div b \in Nat /\ (n \div b) * b <= n /\ n < (n \div b) * b + b
<1>1. n \div b \in Int /\ n \div b >= 0
  OBVIOUS
<1>2. (n \div b) * b <= n
  OBVIOUS
<1>3. n < (n \div b) * b + b
  OBVIOUS
<1> QED
  BY <1>1, <1>2, <1>3

LEMMA CeilDivCovers ==
    ASSUME NEW a \in Nat, NEW b \in Nat \ {0}
    PROVE  CeilDiv(a, b) \in Nat /\ CeilDiv(a, b) * b >= a
<1> DEFINE n == a + b - 1
           d == n \div b
<1>1. n \in Nat
  OBVIOUS
<1> HIDE DEF n
<1>2. d \in Nat /\ n < d * b + b
  BY <1>1, Division
<1>3. n = a + b - 1 /\ CeilDiv(a, b) = d
  BY DEF n, CeilDiv
<1> HIDE DEF d
<1>4. d * b \in Nat
  BY <1>2
<1> QED
  BY <1>2, <1>3, <1>4

LEMMA CeilDivLeast ==
    ASSUME NEW a \in Nat, NEW b \in Nat \ {0}, NEW k \in Nat, a <= k * b
    PROVE  CeilDiv(a, b) <= k
<1> DEFINE n == a + b - 1
           d == n \div b
<1>1. n \in Nat
  OBVIOUS
<1> HIDE DEF n
<1>2. d \in Nat /\ d * b <= n
  BY <1>1, Division
<1>3. n = a + b - 1 /\ CeilDiv(a, b) = d
  BY DEF n, CeilDiv
<1> HIDE DEF d
<1>4. d * b \in Nat /\ k * b \in Nat /\ (k + 1) * b = k * b + b
  BY <1>2
<1>5. SUFFICES ASSUME d >= k + 1 PROVE FALSE
  BY <1>2, <1>3
<1>6. d * b >= (k + 1) * b
  BY <1>2, <1>5
<1> QED
  BY <1>2, <1>3, <1>4, <1>6

LEMMA Limits ==
    /\ Rate \in Nat /\ Cost \in Nat /\ Burst \in Nat /\ MaxAttempts \in Nat
    /\ Rate >= 1 /\ Cost >= 1 /\ Burst >= 1 /\ MaxAttempts >= 1
    /\ Capacity \in Nat /\ Capacity >= Cost
    /\ Full \in Nat /\ Full >= 1 /\ Spacing \in Nat /\ Spacing <= Full
<1>1. /\ Rate \in Nat \ {0} /\ Cost \in Nat \ {0} /\ Burst \in Nat \ {0} /\ MaxAttempts \in Nat \ {0}
  BY LimitsArePositive
<1>2. Capacity \in Nat /\ Capacity >= Cost
  BY <1>1 DEF Capacity
<1>3. Full \in Nat /\ Full * Rate >= Capacity
  BY <1>1, <1>2, CeilDivCovers DEF Full
<1>4. Full >= 1
  <2>1. Full # 0
    BY <1>1, <1>2, <1>3
  <2> QED
    BY <2>1, <1>3
<1>5. Spacing \in Nat
  BY <1>1, CeilDivCovers DEF Spacing
<1>6. Spacing <= Full
  <2>1. Cost <= Full * Rate
    BY <1>1, <1>2, <1>3
  <2> QED
    BY <1>1, <1>3, <2>1, CeilDivLeast DEF Spacing
<1> QED
  BY <1>1, <1>2, <1>3, <1>4, <1>5, <1>6

\* Products with the limits are numbers, and grow by one limit per unit.
LEMMA Products ==
    ASSUME NEW n \in Int
    PROVE  /\ n * Rate \in Int /\ (n + 1) * Rate = n * Rate + Rate
           /\ n * Cost \in Int /\ (n + 1) * Cost = n * Cost + Cost
           /\ n >= 0 => n * Rate >= 0 /\ n * Cost >= 0
  BY Limits

-----------------------------------------------------------------------------
(***************************************************************************)
(* The bucket.                                                              *)
(***************************************************************************)
LEMMA BucketFields ==
    ASSUME NEW b \in BucketRecord
    PROVE  /\ b = [tokens |-> b.tokens, age |-> b.age]
           /\ b.tokens \in Nat /\ b.tokens <= Capacity /\ b.age \in Int /\ b.age <= Full
  BY Limits DEF BucketRecord, Ages

LEMMA RoomIs ==
    ASSUME NEW b \in BucketRecord
    PROVE  /\ Room(b) \in Nat
           /\ b.age < 0 => Room(b) = b.tokens
           /\ b.age >= 0 => Room(b) = b.tokens + b.age * Rate
<1>1. b.tokens \in Nat /\ b.age \in Int
  BY BucketFields
<1>2. CASE b.age < 0
  <2>1. Greatest(b.age, 0) = 0
    BY <1>1, <1>2 DEF Greatest
  <2> QED
    BY <1>1, <1>2, <2>1, Limits DEF Room
<1>3. CASE b.age >= 0
  <2>1. Greatest(b.age, 0) = b.age
    BY <1>1, <1>3 DEF Greatest
  <2> QED
    BY <1>1, <1>3, <2>1, Products DEF Room
<1> QED
  BY <1>1, <1>2, <1>3

LEMMA RefilledIs ==
    ASSUME NEW b \in BucketRecord
    PROVE  /\ Refilled(b) \in BucketRecord
           /\ b.age < 0 => Refilled(b) = b
           /\ b.age >= 0 => Refilled(b).age = 0
           /\ Room(Refilled(b)) <= Room(b)
<1>1. b.tokens \in Nat /\ b.tokens <= Capacity /\ b.age \in Int /\ b.age <= Full
  BY BucketFields
<1>2. CASE b.age < 0
  BY <1>1, <1>2, RoomIs DEF Refilled
<1>3. CASE b.age >= 0
  <2> DEFINE n == b.tokens + b.age * Rate
  <2>1. n \in Nat /\ Room(b) = n
    BY <1>1, <1>3, Products, RoomIs
  <2>2. Refilled(b) = [tokens |-> Least(Capacity, n), age |-> 0]
    BY <1>1, <1>3 DEF Refilled
  <2> HIDE DEF n
  <2>3. Least(Capacity, n) \in 0..Capacity /\ Least(Capacity, n) <= n
    BY <2>1, Limits DEF Least
  <2>4. Refilled(b) \in BucketRecord
    BY <2>2, <2>3, Limits DEF BucketRecord, Ages
  <2>5. Room(Refilled(b)) = Least(Capacity, n) + 0 * Rate
    BY <2>2, <2>4, RoomIs
  <2> QED
    BY <1>1, <1>3, <2>1, <2>2, <2>3, <2>4, <2>5, Limits
<1> QED
  BY <1>1, <1>2, <1>3

LEMMA WaitIs ==
    ASSUME NEW b \in BucketRecord
    PROVE  /\ Wait(b) \in Nat
           /\ Wait(b) = 0 => b.age >= 0 /\ Refilled(b).tokens >= Cost
<1>1. b.age \in Int
  BY BucketFields
<1>2. CASE b.age < 0
  BY <1>1, <1>2 DEF Wait
<1>3. CASE b.age >= 0
  <2>1. Refilled(b).tokens \in Nat
    BY RefilledIs, BucketFields
  <2>2. CASE Refilled(b).tokens >= Cost
    BY <1>1, <1>3, <2>2 DEF Wait
  <2>3. CASE Refilled(b).tokens < Cost
    <3> DEFINE n == Cost - Refilled(b).tokens
    <3>1. n \in Nat /\ n > 0
      BY <2>1, <2>3, Limits
    <3>2. Wait(b) = CeilDiv(n, Rate)
      BY <1>1, <1>3, <2>1, <2>3, Limits DEF Wait
    <3> HIDE DEF n
    <3>3. CeilDiv(n, Rate) \in Nat /\ CeilDiv(n, Rate) * Rate >= n
      BY <3>1, CeilDivCovers, Limits
    <3>4. CeilDiv(n, Rate) # 0
      BY <3>1, <3>3, Limits
    <3> QED
      BY <3>2, <3>3, <3>4
  <2> QED
    BY <2>1, <2>2, <2>3, Limits
<1> QED
  BY <1>1, <1>2, <1>3

\* The log of the latest grants: a new one in front, the oldest falls out.
LEMMA Remembered ==
    ASSUME NEW log \in Seq(0..Full), Len(log) <= Burst + 1
    PROVE  /\ Remember(log) \in Seq(0..Full)
           /\ Len(Remember(log)) <= Burst + 1
           /\ Len(Remember(log)) <= Len(log) + 1
           /\ \A i \in 1..Len(Remember(log)) :
                Remember(log)[i] = IF i = 1 THEN 0 ELSE log[i - 1]
<1> DEFINE all == <<0>> \o log
           n == Least(Len(log) + 1, Burst + 1)
<1>1. Len(log) \in Nat /\ <<0>> \in Seq(0..Full) /\ Len(<<0>>) = 1
  BY Limits
<1>2. /\ all \in Seq(0..Full) /\ Len(all) = Len(log) + 1
      /\ \A i \in 1..Len(all) : all[i] = IF i = 1 THEN 0 ELSE log[i - 1]
  BY <1>1, ConcatProperties, Limits
<1>3. n \in 1..Len(all) /\ n <= Burst + 1
  BY <1>1, <1>2, Limits DEF Least
<1> HIDE DEF all, n
<1>4. /\ SubSeq(all, 1, n) \in Seq(0..Full) /\ Len(SubSeq(all, 1, n)) = n
      /\ \A i \in 1..n : SubSeq(all, 1, n)[i] = all[i]
  <2>0. Len(all) \in Nat
    BY <1>1, <1>2
  <2>1. n \in Int /\ 1 <= n /\ n - 1 + 1 = n /\ \A i \in 1..n : all[i] \in 0..Full
    <3>1. n \in Int /\ 1 <= n /\ n <= Len(all)
      BY <1>3, <2>0
    <3>2. \A i \in 1..Len(all) : all[i] \in 0..Full
      BY <1>2, ElementOfSeq
    <3> QED
      BY <2>0, <3>1, <3>2
  <2>2. /\ SubSeq(all, 1, n) \in Seq(0..Full)
        /\ Len(SubSeq(all, 1, n)) = IF 1 <= n THEN n - 1 + 1 ELSE 0
        /\ \A i \in 1..(n - 1 + 1) : SubSeq(all, 1, n)[i] = all[1 + i - 1]
    BY <2>1, SubSeqProperties
  <2>3. \A i \in 1..n : 1 + i - 1 = i
    BY <2>1
  <2> QED
    BY <2>1, <2>2, <2>3
<1>5. Remember(log) = SubSeq(all, 1, n)
  BY DEF Remember, all, n
<1> QED
  BY <1>2, <1>3, <1>4, <1>5

-----------------------------------------------------------------------------
(***************************************************************************)
(* The account of a bucket.                                                 *)
(***************************************************************************)
\* It holds of a bucket that can hold less.
LEMMA AccountOfLess ==
    ASSUME NEW b \in BucketRecord, NEW c \in BucketRecord, NEW log \in Seq(0..Full),
           Accounted(b, log), Room(c) <= Room(b)
    PROVE  Accounted(c, log)
<1>1. Room(b) \in Nat /\ Room(c) \in Nat
  BY RoomIs
<1> SUFFICES ASSUME NEW i \in 1..Len(log), log[i] # Full
             PROVE  Room(c) + i * Cost <= Capacity + log[i] * Rate
  BY DEF Accounted
<1>2. log[i] \in Int /\ i \in Int
  BY Limits
<1>3. log[i] * Rate \in Int /\ i * Cost \in Int
  BY <1>2, Products
<1>4. Room(b) + i * Cost <= Capacity + log[i] * Rate /\ Capacity \in Int
  BY Limits DEF Accounted
<1> DEFINE x == i * Cost
           y == log[i] * Rate
<1> HIDE DEF x, y
<1>5. x \in Int /\ y \in Int /\ Room(b) + x <= Capacity + y /\ Room(c) <= Room(b)
  BY <1>3, <1>4 DEF x, y
<1>6. Room(c) + x <= Capacity + y
  BY ONLY <1>1, <1>4, <1>5
<1> QED
  BY <1>6 DEF x, y

\* A token is taken, and the grant remembered.
LEMMA AccountOfGrant ==
    ASSUME NEW b \in BucketRecord, NEW log \in Seq(0..Full), Len(log) <= Burst + 1,
           Accounted(b, log), b.age = 0, b.tokens >= Cost
    PROVE  /\ [b EXCEPT !.tokens = @ - Cost] \in BucketRecord
           /\ Accounted([b EXCEPT !.tokens = @ - Cost], Remember(log))
<1> DEFINE c == [b EXCEPT !.tokens = @ - Cost]
           new == Remember(log)
<1>1. c = [tokens |-> b.tokens - Cost, age |-> 0]
  BY BucketFields
<1>2. c \in BucketRecord
  BY <1>1, BucketFields, Limits DEF BucketRecord, Ages
<1>3. Room(b) = b.tokens /\ Room(c) = b.tokens - Cost /\ b.tokens \in Nat /\ b.tokens <= Capacity
  <2>1. c.age = 0 /\ c.tokens = b.tokens - Cost
    BY <1>1
  <2> HIDE DEF c
  <2>2. Room(b) = b.tokens + 0 * Rate /\ Room(c) = c.tokens + 0 * Rate
    BY <1>2, <2>1, RoomIs
  <2> QED
    BY <2>1, <2>2, BucketFields, Limits
<1> HIDE DEF c
<1>4. ASSUME NEW i \in 1..Len(new), new[i] # Full
      PROVE  Room(c) + i * Cost <= Capacity + new[i] * Rate
  <2>1. CASE i = 1
    <3>1. new[i] = 0
      BY <2>1, Remembered
    <3> QED
      BY <1>3, <2>1, <3>1, Limits
  <2>2. CASE i > 1
    <3>1. i - 1 \in 1..Len(log) /\ new[i] = log[i - 1]
      BY <2>2, Remembered
    <3>2. Room(b) + (i - 1) * Cost <= Capacity + new[i] * Rate
      BY <1>4, <3>1 DEF Accounted
    <3>3. new[i] \in Int
      BY <3>1, Limits
    <3>4. (i - 1) * Cost \in Int /\ i * Cost = (i - 1) * Cost + Cost /\ new[i] * Rate \in Int
      <4>1. i - 1 \in Int /\ (i - 1) + 1 = i
        BY <3>1
      <4>2. (i - 1) * Cost \in Int /\ ((i - 1) + 1) * Cost = (i - 1) * Cost + Cost
        BY <4>1, Products
      <4> QED
        BY <3>3, <4>1, <4>2, Products
    <3> QED
      BY <1>3, <3>2, <3>4, Limits
  <2> QED
    BY <2>1, <2>2
<1>5. Accounted(c, new)
  BY <1>4 DEF Accounted
<1> QED
  BY <1>2, <1>5 DEF c

\* Time passes: what the bucket gains, each grant gains in age.
LEMMA AccountOfTick ==
    ASSUME NEW b \in BucketRecord, NEW log \in Seq(0..Full), Accounted(b, log)
    PROVE  /\ [b EXCEPT !.age = Least(Full, @ + 1)] \in BucketRecord
           /\ Accounted([b EXCEPT !.age = Least(Full, @ + 1)],
                        [i \in DOMAIN log |-> Least(Full, log[i] + 1)])
<1> DEFINE c == [b EXCEPT !.age = Least(Full, @ + 1)]
           new == [i \in DOMAIN log |-> Least(Full, log[i] + 1)]
<1>0. b.tokens \in Nat /\ b.tokens <= Capacity /\ b.age \in Int /\ b.age <= Full
  BY BucketFields
<1>1. c = [tokens |-> b.tokens, age |-> Least(Full, b.age + 1)]
  BY BucketFields
<1>2. c \in BucketRecord
  BY <1>0, <1>1, Limits DEF BucketRecord, Ages, Least
<1> HIDE DEF c
<1>3. Room(c) <= Room(b) + Rate
  <2>1. CASE c.age < 0
    <3>1. c.age = Least(Full, b.age + 1) /\ c.tokens = b.tokens
      BY <1>1
    <3>2. b.age < 0
      BY <1>0, <2>1, <3>1, Limits DEF Least
    <3>3. Room(c) = b.tokens /\ Room(b) = b.tokens
      BY <1>2, <2>1, <3>1, <3>2, RoomIs
    <3> QED
      BY <1>0, <3>3, Limits
  <2>2. CASE c.age >= 0 /\ b.age < 0
    <3>1. c.age = 0
      BY <1>0, <1>1, <2>2, Limits DEF Least
    <3>2. Room(c) = b.tokens + 0 * Rate /\ Room(b) = b.tokens
      BY <1>1, <1>2, <2>2, <3>1, RoomIs
    <3> QED
      BY <1>0, <3>2, Limits
  <2>3. CASE b.age >= 0
    <3>1. Room(b) = b.tokens + b.age * Rate
      BY <2>3, RoomIs
    <3>2. b.age * Rate \in Int /\ (b.age + 1) * Rate = b.age * Rate + Rate
      BY <1>0, Products
    <3>3. c.age = b.age \/ c.age = b.age + 1
      BY <1>0, <1>1, Limits DEF Least
    <3>4. Room(c) = b.tokens + c.age * Rate
      BY <1>0, <1>1, <1>2, <2>3, <3>3, RoomIs
    <3> DEFINE t == b.tokens
               x == b.age * Rate
               y == c.age * Rate
    <3>5. y = x \/ y = x + Rate
      <4>1. CASE c.age = b.age
        BY <4>1
      <4>2. CASE c.age = b.age + 1
        BY <3>2, <4>2
      <4> QED
        BY <3>3, <4>1, <4>2
    <3>6. Room(b) = t + x /\ Room(c) = t + y /\ t \in Int /\ x \in Int
      BY <1>0, <3>1, <3>2, <3>4
    <3>7. Rate \in Int /\ Rate >= 0
      BY Limits
    <3> HIDE DEF t, x, y
    <3> QED
      BY ONLY <3>5, <3>6, <3>7
  <2> QED
    BY <1>0, <1>2, <2>1, <2>2, <2>3, BucketFields
<1>4. ASSUME NEW i \in 1..Len(new), new[i] # Full
      PROVE  Room(c) + i * Cost <= Capacity + new[i] * Rate
  <2>1. Len(new) = Len(log) /\ new[i] = Least(Full, log[i] + 1) /\ log[i] \in 0..Full
    BY Limits
  <2>2. new[i] = log[i] + 1 /\ log[i] # Full
    BY <1>4, <2>1, Limits DEF Least
  <2>3. Room(b) + i * Cost <= Capacity + log[i] * Rate
    BY <2>1, <2>2 DEF Accounted
  <2>4. /\ log[i] * Rate \in Int /\ (log[i] + 1) * Rate = log[i] * Rate + Rate
        /\ i * Cost \in Int
    BY <2>1, Products, Limits
  <2>5. Room(b) \in Nat /\ Room(c) \in Nat
    BY <1>2, RoomIs
  <2> DEFINE x == log[i] * Rate
             y == new[i] * Rate
             z == i * Cost
  <2>6. y = x + Rate
    BY <2>2, <2>4
  <2>7. Room(b) + z <= Capacity + x /\ x \in Int /\ z \in Int
    BY <2>3, <2>4
  <2>8. Rate \in Int /\ Capacity \in Int
    BY Limits
  <2> HIDE DEF new, x, y, z
  <2>9. Room(c) + z <= Capacity + y
    BY ONLY <1>3, <2>5, <2>6, <2>7, <2>8
  <2> QED
    BY <2>9 DEF y, z
<1>5. Accounted(c, new)
  BY <1>4 DEF Accounted
<1> QED
  BY <1>2, <1>5 DEF c

-----------------------------------------------------------------------------
(***************************************************************************)
(* The steps.                                                               *)
(***************************************************************************)
CallerInv ==
    /\ caller \in [Callers -> CallerRecord]
    /\ \A c \in Callers : caller[c].pc = "backoff" => caller[c].attempt < MaxAttempts

\* A step of a caller that touches nothing else of the state.
LEMMA CallerStep ==
    ASSUME HttpInv, NEW c \in Callers, NEW t \in CallerRecord,
           t.pc = "backoff" => t.attempt < MaxAttempts,
           caller' = [caller EXCEPT ![c] = t]
    PROVE  CallerInv'
<1>1. caller' \in [Callers -> CallerRecord]
  BY DEF HttpInv, TypeInv
<1>2. \A d \in Callers : caller'[d] = IF d = c THEN t ELSE caller[d]
  BY DEF HttpInv, TypeInv
<1> QED
  BY <1>1, <1>2 DEF CallerInv, HttpInv, TypeInv

LEMMA FromCallers ==
    ASSUME HttpInv, CallerInv', UNCHANGED <<bucket, grants, barred>>
    PROVE  HttpInv'
  BY DEF HttpInv, TypeInv, CallerInv

LEMMA CallerFields ==
    ASSUME HttpInv, NEW c \in Callers
    PROVE  /\ caller[c] \in CallerRecord
           /\ caller[c] = [pc |-> caller[c].pc, attempt |-> caller[c].attempt,
                           sleep |-> caller[c].sleep]
           /\ caller[c].attempt \in 1..MaxAttempts /\ caller[c].sleep \in Nat
           /\ caller[c].pc \in {"idle", "acquire", "send", "backoff"}
           /\ caller[c].pc = "backoff" => caller[c].attempt < MaxAttempts
  BY DEF HttpInv, TypeInv, CallerRecord

LEMMA CallerExcept ==
    ASSUME NEW p \in CallerRecord
    PROVE  /\ \A pc \in {"idle", "acquire", "send", "backoff"} :
                 [p EXCEPT !.pc = pc] \in CallerRecord /\ [p EXCEPT !.pc = pc].pc = pc
                 /\ [p EXCEPT !.pc = pc].attempt = p.attempt
           /\ \A d \in Nat : [p EXCEPT !.sleep = d] \in CallerRecord
                 /\ [p EXCEPT !.sleep = d].pc = p.pc /\ [p EXCEPT !.sleep = d].attempt = p.attempt
           /\ \A n \in 1..MaxAttempts : [p EXCEPT !.attempt = n] \in CallerRecord
                 /\ [p EXCEPT !.attempt = n].pc = p.pc
  BY DEF CallerRecord

LEMMA RestingIs ==
    /\ Resting \in CallerRecord /\ Resting.pc = "idle"
    /\ [Resting EXCEPT !.pc = "acquire"] \in CallerRecord
    /\ [Resting EXCEPT !.pc = "acquire"].pc = "acquire"
  BY Limits DEF Resting, CallerRecord

LEMMA RetryStep ==
    ASSUME HttpInv, NEW c \in Callers, NEW delays \in SUBSET Nat, Retry(c, delays)
    PROVE  CallerInv'
<1>1. CASE caller[c].attempt < MaxAttempts
  <2>1. PICK d \in delays :
            caller' = [caller EXCEPT ![c].pc = "backoff", ![c].sleep = d]
    BY <1>1 DEF Retry
  <2> DEFINE p == caller[c]
             u == [p EXCEPT !.pc = "backoff"]
             t == [u EXCEPT !.sleep = d]
  <2>2. p \in CallerRecord /\ d \in Nat
    BY <2>1, CallerFields
  <2>3. t \in CallerRecord /\ t.attempt = caller[c].attempt
    <3> HIDE DEF p
    <3>1. u \in CallerRecord /\ u.attempt = p.attempt
      BY ONLY <2>2 DEF CallerRecord
    <3> HIDE DEF u
    <3>2. t \in CallerRecord /\ t.attempt = p.attempt
      BY ONLY <2>2, <3>1 DEF CallerRecord
    <3> HIDE DEF t
    <3> QED
      BY <3>2 DEF p
  <2>4. caller' = [caller EXCEPT ![c] = t]
    BY <2>1 DEF HttpInv, TypeInv
  <2> HIDE DEF t
  <2> QED
    BY <1>1, <2>3, <2>4, CallerStep
<1>2. CASE ~(caller[c].attempt < MaxAttempts)
  <2>1. caller' = [caller EXCEPT ![c] = Resting]
    BY <1>2 DEF Retry
  <2> QED
    BY <2>1, RestingIs, CallerStep
<1> QED
  BY <1>1, <1>2

LEMMA DelaysAreNumbers ==
    /\ \A n : Backoffs(n) \in SUBSET Nat
    /\ \A r \in RetryAfters \cup {Null} : Penalty(r) \in Nat
    /\ \A r \in RetryAfters \cup {Null} : r \notin {Null, 0} => {r} \in SUBSET Nat
<1>1. \A n : Backoffs(n) \in SUBSET Nat
  BY DEF Backoffs
<1> QED
  BY <1>1, DelaysAreNatural DEF Penalty

LEMMA RequestStep ==
    ASSUME HttpInv, NEW c \in Callers, Perform(c) \/ Answer(c)
    PROVE  HttpInv'
<1>1. PICK t \in {Resting, [Resting EXCEPT !.pc = "acquire"]} :
          caller' = [caller EXCEPT ![c] = t]
  BY DEF Perform, Answer
<1>2. t \in CallerRecord /\ t.pc # "backoff"
  BY RestingIs
<1>3. CallerInv'
  BY <1>1, <1>2, CallerStep
<1> QED
  BY <1>3, FromCallers DEF Perform, Answer

LEMMA TransientStep ==
    ASSUME HttpInv, NEW c \in Callers, Transient(c)
    PROVE  HttpInv'
<1>1. CallerInv'
  BY RetryStep, DelaysAreNumbers DEF Transient
<1> QED
  BY <1>1, FromCallers DEF Transient

LEMMA NextAttemptStep ==
    ASSUME HttpInv, NEW c \in Callers, NextAttempt(c)
    PROVE  HttpInv'
<1> DEFINE p == caller[c]
           u == [p EXCEPT !.pc = "acquire"]
           t == [u EXCEPT !.attempt = p.attempt + 1]
<1>1. p \in CallerRecord /\ p.attempt \in 1..MaxAttempts /\ p.attempt < MaxAttempts
  BY CallerFields DEF NextAttempt
<1>2. p.attempt + 1 \in 1..MaxAttempts
  BY <1>1, Limits
<1>3. t \in CallerRecord /\ t.pc = "acquire"
  <2> HIDE DEF p
  <2>1. u \in CallerRecord /\ u.pc = "acquire"
    BY ONLY <1>1 DEF CallerRecord
  <2> HIDE DEF u
  <2> QED
    BY ONLY <1>2, <2>1 DEF CallerRecord
<1>4. caller' = [caller EXCEPT ![c] = t]
  BY DEF NextAttempt, HttpInv, TypeInv
<1> HIDE DEF t
<1>5. CallerInv'
  BY <1>3, <1>4, CallerStep
<1> QED
  BY <1>5, FromCallers DEF NextAttempt

LEMMA BucketOf ==
    ASSUME HttpInv, NEW s \in Servers
    PROVE  /\ bucket[s] \in BucketRecord /\ grants[s] \in Seq(0..Full)
           /\ Len(grants[s]) <= Burst + 1 /\ barred[s] \in Nat
           /\ Accounted(bucket[s], grants[s])
           /\ barred[s] = 0 \/ bucket[s].age = -barred[s]
  BY DEF HttpInv, TypeInv

\* What a step that touches one bucket has to keep.
LEMMA BucketStep ==
    ASSUME HttpInv, CallerInv', NEW s \in Servers, NEW b \in BucketRecord,
           NEW log \in Seq(0..Full), Len(log) <= Burst + 1, NEW n \in Nat,
           Accounted(b, log), n = 0 \/ b.age = -n,
           bucket' = [bucket EXCEPT ![s] = b],
           grants' = [grants EXCEPT ![s] = log],
           barred' = [barred EXCEPT ![s] = n]
    PROVE  HttpInv'
<1>1. /\ bucket' \in [Servers -> BucketRecord] /\ grants' \in [Servers -> Seq(0..Full)]
      /\ barred' \in [Servers -> Nat]
  BY DEF HttpInv, TypeInv
<1>2. \A x \in Servers : /\ bucket'[x] = IF x = s THEN b ELSE bucket[x]
                         /\ grants'[x] = IF x = s THEN log ELSE grants[x]
                         /\ barred'[x] = IF x = s THEN n ELSE barred[x]
  BY DEF HttpInv, TypeInv
<1>3. ASSUME NEW x \in Servers
      PROVE  /\ Len(grants'[x]) <= Burst + 1
             /\ Accounted(bucket'[x], grants'[x])
             /\ barred'[x] = 0 \/ bucket'[x].age = -barred'[x]
  BY <1>2, BucketOf
<1> QED
  BY <1>1, <1>3 DEF HttpInv, TypeInv, CallerInv

\* A grant: the caller finds a token in the refilled bucket.
LEMMA GrantStep ==
    ASSUME HttpInv, NEW c \in Callers, Acquire(c), Wait(bucket[SourceOf[c]]) = 0
    PROVE  HttpInv' /\ barred[SourceOf[c]] = 0
<1> DEFINE s == SourceOf[c]
           b == Refilled(bucket[s])
           log == Remember(grants[s])
           taken == [b EXCEPT !.tokens = @ - Cost]
<1>0. s \in Servers
  BY CallersAreBound
<1>1. /\ bucket' = [bucket EXCEPT ![s] = taken]
      /\ caller' = [caller EXCEPT ![c].pc = "send"]
      /\ grants' = [grants EXCEPT ![s] = log]
      /\ barred' = barred
  BY DEF Acquire
<1>2. bucket[s].age \in Int /\ bucket[s].age >= 0 /\ b.tokens >= Cost
  BY <1>0, BucketOf, WaitIs, BucketFields
<1>3. barred[s] = 0
  BY <1>0, <1>2, BucketOf
<1>4. b \in BucketRecord /\ b.age = 0 /\ Room(b) <= Room(bucket[s])
  BY <1>0, <1>2, BucketOf, RefilledIs
<1>5. Accounted(b, grants[s])
  BY <1>0, <1>4, BucketOf, AccountOfLess
<1>6. taken \in BucketRecord /\ Accounted(taken, log)
  BY <1>0, <1>2, <1>4, <1>5, BucketOf, AccountOfGrant
<1>7. log \in Seq(0..Full) /\ Len(log) <= Burst + 1
  BY <1>0, BucketOf, Remembered
<1>8. CallerInv'
  <2> DEFINE t == [caller[c] EXCEPT !.pc = "send"]
  <2>1. t \in CallerRecord /\ t.pc = "send"
    BY CallerFields, CallerExcept
  <2>2. caller' = [caller EXCEPT ![c] = t]
    BY <1>1
  <2> HIDE DEF t
  <2> QED
    BY <2>1, <2>2, CallerStep
<1>9. barred' = [barred EXCEPT ![s] = barred[s]]
  BY <1>0, <1>1 DEF HttpInv, TypeInv
<1> HIDE DEF taken, log, b
<1>10. HttpInv'
  <2>1. barred[s] \in Nat /\ (barred[s] = 0 \/ taken.age = -barred[s])
    BY <1>0, <1>3, BucketOf
  <2> HIDE DEF s
  <2> QED
    BY <1>0, <1>1, <1>6, <1>7, <1>8, <1>9, <2>1, BucketStep
<1> QED
  BY <1>3, <1>10

\* No token: the bucket is refilled and the caller sleeps.
LEMMA WaitStep ==
    ASSUME HttpInv, NEW c \in Callers, Acquire(c), Wait(bucket[SourceOf[c]]) # 0
    PROVE  HttpInv' /\ grants' = grants
<1> DEFINE s == SourceOf[c]
           b == Refilled(bucket[s])
<1>0. s \in Servers
  BY CallersAreBound
<1>1. /\ bucket' = [bucket EXCEPT ![s] = b]
      /\ caller' = [caller EXCEPT ![c].sleep = Wait(bucket[s])]
      /\ grants' = grants /\ barred' = barred
  BY DEF Acquire
<1>2. b \in BucketRecord /\ Room(b) <= Room(bucket[s])
  BY <1>0, BucketOf, RefilledIs
<1>3. Accounted(b, grants[s])
  BY <1>0, <1>2, BucketOf, AccountOfLess
<1>4. barred[s] = 0 \/ b.age = -barred[s]
  <2>1. CASE barred[s] = 0
    BY <2>1
  <2>2. CASE barred[s] # 0
    <3>1. bucket[s].age < 0 /\ bucket[s].age = -barred[s]
      BY <1>0, <2>2, BucketOf
    <3>2. b = bucket[s]
      BY <1>0, <3>1, BucketOf, RefilledIs
    <3> QED
      BY <3>1, <3>2
  <2> QED
    BY <2>1, <2>2
<1>5. CallerInv'
  <2> DEFINE n == Wait(bucket[s])
             t == [caller[c] EXCEPT !.sleep = n]
  <2>0. n \in Nat
    BY <1>0, BucketOf, WaitIs
  <2>1. caller' = [caller EXCEPT ![c] = t]
    BY <1>1
  <2> HIDE DEF n
  <2>2. t \in CallerRecord /\ t.pc = caller[c].pc /\ t.attempt = caller[c].attempt
    <3> DEFINE p == caller[c]
    <3>1. p \in CallerRecord
      BY CallerFields
    <3> HIDE DEF p
    <3>2. [p EXCEPT !.sleep = n] \in CallerRecord /\ [p EXCEPT !.sleep = n].pc = p.pc
          /\ [p EXCEPT !.sleep = n].attempt = p.attempt
      BY ONLY <2>0, <3>1 DEF CallerRecord
    <3> QED
      BY <3>2 DEF p
  <2> HIDE DEF t
  <2> QED
    BY <2>1, <2>2, CallerStep, CallerFields
<1>6. grants' = [grants EXCEPT ![s] = grants[s]] /\ barred' = [barred EXCEPT ![s] = barred[s]]
  BY <1>0, <1>1 DEF HttpInv, TypeInv
<1> HIDE DEF b
<1>7. HttpInv'
  <2>1. grants[s] \in Seq(0..Full) /\ Len(grants[s]) <= Burst + 1 /\ barred[s] \in Nat
    BY <1>0, BucketOf
  <2> HIDE DEF s
  <2> QED
    BY <1>0, <1>1, <1>2, <1>3, <1>4, <1>5, <1>6, <2>1, BucketStep
<1> QED
  BY <1>1, <1>7

\* A 429: the bucket is drained, and the next refill put ahead.
LEMMA PenaltyStep ==
    ASSUME HttpInv, NEW c \in Callers, TooManyRequests(c)
    PROVE  HttpInv' /\ grants' = grants
<1> DEFINE s == SourceOf[c]
<1>0. s \in Servers
  BY CallersAreBound
<1>1. PICK r \in RetryAfters \cup {Null} :
         /\ bucket' = [bucket EXCEPT ![s] = Penalised(Refilled(bucket[s]), Penalty(r))]
         /\ barred' = [barred EXCEPT ![s] = Penalty(r)]
         /\ Retry(c, IF r \in {Null, 0} THEN Backoffs(caller[c].attempt) ELSE {r})
  BY DEF TooManyRequests
<1> DEFINE n == Penalty(r)
           b == [tokens |-> 0, age |-> -n]
           delays == IF r \in {Null, 0} THEN Backoffs(caller[c].attempt) ELSE {r}
<1>2. n \in Nat
  BY DelaysAreNumbers
<1>3. delays \in SUBSET Nat
  BY DelaysAreNumbers
<1>4. CallerInv'
  <2> HIDE DEF delays
  <2>1. Retry(c, delays)
    BY <1>1 DEF delays
  <2> QED
    BY <1>3, <2>1, RetryStep
<1>5. bucket' = [bucket EXCEPT ![s] = b] /\ barred' = [barred EXCEPT ![s] = n]
  BY <1>1 DEF Penalised
<1>6. grants' = grants /\ grants' = [grants EXCEPT ![s] = grants[s]]
  BY <1>0 DEF TooManyRequests, HttpInv, TypeInv
<1> HIDE DEF n
<1>7. b \in BucketRecord
  BY <1>2, Limits DEF BucketRecord, Ages
<1>8. Room(b) = 0
  <2>1. Greatest(-n, 0) = 0
    BY <1>2 DEF Greatest
  <2> QED
    BY <2>1, Limits DEF Room
<1>9. Room(b) <= Room(bucket[s])
  BY <1>0, <1>8, BucketOf, RoomIs
<1>10. Accounted(b, grants[s]) /\ b.age = -n
  BY <1>0, <1>7, <1>9, BucketOf, AccountOfLess
<1> HIDE DEF b
<1> QED
  BY <1>0, <1>2, <1>4, <1>5, <1>6, <1>7, <1>10, BucketOf, BucketStep

\* Time passes for every bucket and every caller.
LEMMA TickStep ==
    ASSUME HttpInv, Elapse
    PROVE  HttpInv' /\ \A s \in Servers : \A i \in DOMAIN grants'[s] : grants'[s][i] # 0
<1>1. ASSUME NEW s \in Servers
      PROVE  /\ bucket'[s] = [bucket[s] EXCEPT !.age = Least(Full, @ + 1)]
             /\ grants'[s] = [i \in DOMAIN grants[s] |-> Least(Full, grants[s][i] + 1)]
             /\ barred'[s] = Greatest(0, barred[s] - 1)
  BY DEF Elapse
<1>2. ASSUME NEW s \in Servers
      PROVE  bucket'[s] \in BucketRecord /\ Accounted(bucket'[s], grants'[s])
  <2> DEFINE b == bucket[s]
             log == grants[s]
  <2>1. b \in BucketRecord /\ log \in Seq(0..Full) /\ Accounted(b, log)
    BY BucketOf
  <2>2. /\ bucket'[s] = [b EXCEPT !.age = Least(Full, @ + 1)]
        /\ grants'[s] = [i \in DOMAIN log |-> Least(Full, log[i] + 1)]
    BY <1>1
  <2> HIDE DEF b, log
  <2> QED
    BY <2>1, <2>2, AccountOfTick
<1>3. ASSUME NEW s \in Servers
      PROVE  /\ grants'[s] \in Seq(0..Full) /\ Len(grants'[s]) <= Burst + 1
             /\ \A i \in DOMAIN grants'[s] : grants'[s][i] # 0
  <2> DEFINE n == Len(grants[s])
             age == [i \in 1..n |-> Least(Full, grants[s][i] + 1)]
  <2>1. n \in Nat /\ DOMAIN grants[s] = 1..n /\ n <= Burst + 1
    BY BucketOf, LenProperties
  <2>2. \A i \in 1..n : age[i] \in 0..Full /\ age[i] # 0
    <3> SUFFICES ASSUME NEW i \in 1..n PROVE age[i] \in 0..Full /\ age[i] # 0
      OBVIOUS
    <3>1. grants[s][i] \in 0..Full
      BY BucketOf, ElementOfSeq
    <3> QED
      BY <3>1, Limits DEF Least
  <2>3. grants'[s] = age
    BY <1>1, <2>1
  <2> HIDE DEF n
  <2>4. age = [i \in 1..n |-> age[i]] /\ DOMAIN age = 1..n
    OBVIOUS
  <2> HIDE DEF age
  <2>5. age \in Seq(0..Full) /\ Len(age) = n
    <3>1. age \in [1..n -> 0..Full]
      BY <2>2, <2>4
    <3>2. age \in Seq(0..Full)
      BY <2>1, <3>1, SeqDef
    <3> QED
      BY <2>1, <2>4, <3>2, LenProperties
  <2> QED
    BY <2>1, <2>2, <2>3, <2>4, <2>5
<1>4. ASSUME NEW s \in Servers
      PROVE  barred'[s] \in Nat /\ (barred'[s] = 0 \/ bucket'[s].age = -barred'[s])
  <2>1. barred[s] \in Nat /\ bucket[s] \in BucketRecord
        /\ (barred[s] = 0 \/ bucket[s].age = -barred[s])
    BY BucketOf
  <2>2. barred'[s] = Greatest(0, barred[s] - 1)
    BY <1>1
  <2>3. CASE barred[s] = 0
    <3>1. Greatest(0, 0 - 1) = 0
      BY DEF Greatest
    <3> QED
      BY <2>2, <2>3, <3>1
  <2>4. CASE barred[s] > 0
    <3> DEFINE n == barred[s]
               age == bucket[s].age
    <3>1. n \in Nat /\ n > 0 /\ age = -n
      BY <2>1, <2>4
    <3>2. bucket'[s].age = Least(Full, age + 1)
      BY <1>1, <2>1 DEF BucketRecord
    <3> HIDE DEF n, age
    <3>3. Least(Full, age + 1) = age + 1
      BY <3>1, Limits DEF Least
    <3>4. Greatest(0, n - 1) = n - 1
      BY <3>1 DEF Greatest
    <3> QED
      BY <2>2, <3>1, <3>2, <3>3, <3>4 DEF n
  <2> QED
    BY <2>1, <2>3, <2>4
<1>5. /\ bucket' \in [Servers -> BucketRecord] /\ grants' \in [Servers -> Seq(0..Full)]
      /\ barred' \in [Servers -> Nat]
  <2>1. /\ bucket' = [s \in Servers |-> bucket'[s]] /\ grants' = [s \in Servers |-> grants'[s]]
        /\ barred' = [s \in Servers |-> barred'[s]]
    BY DEF Elapse
  <2> QED
    BY <1>2, <1>3, <1>4, <2>1
<1>6. CallerInv'
  <2>1. ASSUME NEW c \in Callers
        PROVE  /\ caller'[c] \in CallerRecord /\ caller'[c].pc = caller[c].pc
               /\ caller'[c].attempt = caller[c].attempt
    <3> DEFINE n == Greatest(0, caller[c].sleep - 1)
               t == [caller[c] EXCEPT !.sleep = n]
    <3>0. caller[c].sleep \in Nat
      BY CallerFields
    <3>1. n \in Nat
      BY <3>0 DEF Greatest
    <3>2. caller'[c] = t
      BY CallerFields DEF Elapse, CallerRecord
    <3> HIDE DEF n
    <3>3. t \in CallerRecord /\ t.pc = caller[c].pc /\ t.attempt = caller[c].attempt
      <4> DEFINE p == caller[c]
      <4>1. p \in CallerRecord
        BY CallerFields
      <4> HIDE DEF p
      <4>2. [p EXCEPT !.sleep = n] \in CallerRecord /\ [p EXCEPT !.sleep = n].pc = p.pc
            /\ [p EXCEPT !.sleep = n].attempt = p.attempt
        BY ONLY <3>1, <4>1 DEF CallerRecord
      <4> QED
        BY <4>2 DEF p
    <3> QED
      BY <3>2, <3>3
  <2>2. caller' = [c \in Callers |-> caller'[c]]
    BY DEF Elapse
  <2>3. caller' \in [Callers -> CallerRecord]
    BY <2>1, <2>2
  <2> QED
    BY <2>1, <2>3, CallerFields DEF CallerInv
<1>7. HttpInv'
  BY <1>2, <1>3, <1>4, <1>5, <1>6 DEF HttpInv, TypeInv, CallerInv
<1> QED
  BY <1>3, <1>7

LEMMA InitHolds == HttpInit => HttpInv
<1> SUFFICES ASSUME HttpInit PROVE HttpInv
  OBVIOUS
<1> DEFINE b == [tokens |-> Capacity, age |-> 0]
<1>1. b \in BucketRecord
  BY Limits DEF BucketRecord, Ages
<1>2. << >> \in Seq(0..Full) /\ Len(<< >>) = 0 /\ 0 \in Nat
  OBVIOUS
<1>3. /\ bucket \in [Servers -> BucketRecord] /\ grants \in [Servers -> Seq(0..Full)]
      /\ barred \in [Servers -> Nat] /\ caller \in [Callers -> CallerRecord]
  <2> HIDE DEF b
  <2>1. bucket = [s \in Servers |-> b]
    BY DEF HttpInit, b
  <2> QED
    BY <1>1, <1>2, <2>1, RestingIs DEF HttpInit
<1>4. ASSUME NEW s \in Servers
      PROVE  Len(grants[s]) <= Burst + 1 /\ Accounted(bucket[s], grants[s]) /\ barred[s] = 0
  <2>1. grants[s] = << >> /\ barred[s] = 0
    BY DEF HttpInit
  <2> QED
    BY <1>2, <2>1, Limits DEF Accounted
<1>5. ASSUME NEW c \in Callers PROVE caller[c].pc # "backoff"
  BY RestingIs DEF HttpInit
<1> QED
  BY <1>3, <1>4, <1>5 DEF HttpInv, TypeInv

LEMMA NextPreserves == HttpInv /\ [HttpNext]_httpVars => HttpInv'
<1> SUFFICES ASSUME HttpInv, [HttpNext]_httpVars PROVE HttpInv'
  OBVIOUS
<1>1. ASSUME NEW c \in Callers, Perform(c) \/ Answer(c) PROVE HttpInv'
  BY <1>1, RequestStep
<1>2. ASSUME NEW c \in Callers, Acquire(c) PROVE HttpInv'
  BY <1>2, GrantStep, WaitStep
<1>3. ASSUME NEW c \in Callers, Transient(c) PROVE HttpInv'
  BY <1>3, TransientStep
<1>4. ASSUME NEW c \in Callers, TooManyRequests(c) PROVE HttpInv'
  BY <1>4, PenaltyStep
<1>5. ASSUME NEW c \in Callers, NextAttempt(c) PROVE HttpInv'
  BY <1>5, NextAttemptStep
<1>6. CASE Elapse
  BY <1>6, TickStep
<1>7. CASE UNCHANGED httpVars
  BY <1>7 DEF httpVars, HttpInv, TypeInv
<1> QED
  BY <1>1, <1>2, <1>3, <1>4, <1>5, <1>6, <1>7 DEF HttpNext

\* The account of every bucket and the penalties that are in force, which make
\* the two limits inductive.
THEOREM HttpInvariance == HttpSpec => []HttpInv
  BY InitHolds, NextPreserves, PTL DEF HttpSpec

\* The types of buckets, callers and their histories.
THEOREM TypeCorrect == HttpSpec => []HttpTypeOK
<1>1. HttpInv => HttpTypeOK
  <2> SUFFICES ASSUME HttpInv PROVE HttpTypeOK
    OBVIOUS
  <2>1. ASSUME NEW s \in Servers
        PROVE  /\ bucket[s].tokens \in 0..Capacity /\ bucket[s].age \in Int
               /\ bucket[s].age <= Full /\ Len(grants[s]) <= Burst + 1 /\ barred[s] \in Nat
    BY BucketOf, BucketFields, Limits
  <2> QED
    BY <2>1, CallerFields DEF HttpTypeOK
<1> QED
  BY <1>1, HttpInvariance, PTL

\* Whatever the limits of a source, however many threads call it and whenever
\* they do: Burst + 1 tokens are never taken within less than the time in which
\* one is refilled (TokenBucket.acquire).
THEOREM RateIsHonoured == HttpSpec => []RateHonoured
<1>1. HttpInv => RateHonoured
  <2> SUFFICES ASSUME HttpInv, NEW s \in Servers, Len(grants[s]) = Burst + 1
               PROVE  grants[s][Burst + 1] >= Spacing
    BY DEF RateHonoured
  <2> DEFINE a == grants[s][Burst + 1]
  <2>1. a \in 0..Full /\ Burst + 1 \in 1..Len(grants[s])
    BY BucketOf, Limits
  <2>2. CASE a = Full
    BY <2>2, Limits
  <2>3. CASE a # Full
    <3>1. Room(bucket[s]) + (Burst + 1) * Cost <= Capacity + a * Rate
      BY <2>1, <2>3, BucketOf DEF Accounted
    <3>2. Room(bucket[s]) \in Nat
      BY BucketOf, RoomIs
    <3>3. (Burst + 1) * Cost = Capacity + Cost
      BY Products, Limits DEF Capacity
    <3> HIDE DEF a
    <3>4. a \in Nat /\ a * Rate \in Nat
      BY <2>1, Products, Limits
    <3>5. Cost <= a * Rate
      BY <3>1, <3>2, <3>3, <3>4, Limits
    <3>6. Spacing <= a
      BY <3>4, <3>5, CeilDivLeast, Limits DEF Spacing
    <3> QED
      BY <3>4, <3>6, Limits DEF a
  <2> QED
    BY <2>2, <2>3
<1> QED
  BY <1>1, HttpInvariance, PTL

\* No caller of a source gets a token before the Retry-After of its latest 429
\* is over, whoever received that 429 (TokenBucket.penalise).
THEOREM RetryAfterIsHonoured == HttpSpec => RetryAfterHonoured
<1> DEFINE A == \A s \in Servers :
                   grants'[s] # grants[s] /\ grants'[s][1] = 0 => barred[s] = 0
<1>1. HttpInv /\ [HttpNext]_httpVars => A
  <2> SUFFICES ASSUME HttpInv, [HttpNext]_httpVars, NEW s \in Servers,
                      grants'[s] # grants[s], grants'[s][1] = 0
               PROVE  barred[s] = 0
    OBVIOUS
  <2>1. ASSUME NEW c \in Callers, Acquire(c) PROVE barred[s] = 0
    <3>1. Wait(bucket[SourceOf[c]]) = 0 /\ barred[SourceOf[c]] = 0
      BY <2>1, GrantStep, WaitStep
    <3>2. s = SourceOf[c]
      BY <2>1, <3>1 DEF Acquire, HttpInv, TypeInv
    <3> QED
      BY <3>1, <3>2
  <2>2. ASSUME NEW c \in Callers, TooManyRequests(c) PROVE FALSE
    BY <2>2, PenaltyStep
  <2>3. ASSUME NEW c \in Callers,
               Perform(c) \/ Answer(c) \/ Transient(c) \/ NextAttempt(c)
        PROVE  FALSE
    BY <2>3 DEF Perform, Answer, Transient, NextAttempt
  <2>4. CASE Elapse
    <3>1. \A i \in DOMAIN grants'[s] : grants'[s][i] # 0
      BY <2>4, TickStep
    <3>2. grants'[s] = [i \in DOMAIN grants[s] |-> Least(Full, grants[s][i] + 1)]
      BY <2>4 DEF Elapse
    <3>3. grants[s] # << >>
      BY <3>2
    <3>4. 1 \in DOMAIN grants[s]
      BY <3>3, BucketOf, LenProperties, EmptySeq
    <3> QED
      BY <3>1, <3>2, <3>4
  <2>5. CASE UNCHANGED httpVars
    BY <2>5 DEF httpVars
  <2> QED
    BY <2>1, <2>2, <2>3, <2>4, <2>5 DEF HttpNext
<1> QED
  BY <1>1, HttpInvariance, PTL DEF HttpSpec, RetryAfterHonoured
=============================================================================

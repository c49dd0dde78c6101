--------------------------- MODULE MaintenanceProofs ---------------------------
(***************************************************************************)
(* For any tables, any page size and any harvest beside the pass: a pass     *)
(* that ends left no row it has not been through, and no prune removes a     *)
(* paper that a record speaks for, if what it judged of it is still so.      *)
(***************************************************************************)
EXTENDS Maintenance, FiniteSetTheorems, WellFoundedInduction, TLAPS

\* What a pass of job j leaves to do for paper p is nothing.
Done(T, j, p) ==
    CASE j.kind = "fields" -> T.paper[p].fields = T.paper[p].said
      [] j.kind = "titles" -> T.paper[p].key = T.paper[p].said
      [] j.kind = "dates"  -> ~ T.paper[p].far
      [] j.kind = "uncorroborated" -> ~ IsUncorroborated(T, p)
      [] j.kind = "scope"  ->
            \A r \in RecordsOf(T, p) : SourceOf[r] \in j.scanned =>
                \E x \in RecordsOf(T, p) : SourceOf[x] \in j.scanned /\ T.says[x] # "refused"
      [] j.kind = "enrich" -> IsCandidate(T, p) => p \in j.asked \cup Unfilterable

\* The papers that are there and that the harvest has not written.
Untouched == Alive(db) \ touched.papers

\* How many of S come before x: where x is when S is read in order.
Place(S, x) == Cardinality({y \in S : y < x})

\* The tables say the same of p.
SameOf(T, U, p) ==
    /\ T.paper[p] = U.paper[p]
    /\ RecordsOf(T, p) = RecordsOf(U, p)
    /\ \A r \in RecordsOf(T, p) : T.says[r] = U.says[r]

\* The tables are typed, no record is attached to a paper that is gone, and
\* what is stored says something.
Good(T) ==
    /\ T \in Tables
    /\ \A r \in Records : T.record[r] \in Papers => T.paper[T.record[r]] \in Row
    /\ \A r \in Records : T.says[r] = Absent <=> T.record[r] = Absent

\* What is stored stays stored.
Stays(T, U) == \A r \in Records : T.record[r] # Absent => U.record[r] # Absent

\* A pass that runs is the only one; between passes no page is open.
OneAtATime ==
    /\ job # None => last = None
    /\ job = None => read = None

\* What was read of a paper is still so, unless the harvest wrote it.
PageIsCurrent ==
    read # None =>
        /\ Page(read) # {}
        /\ \A p \in Untouched : SameOf(read, db, p)
        /\ touched.records = {} => db.record = read.record /\ db.says = read.says
        /\ Good(read) /\ Stays(read, db)

\* Behind its place, a pass has left nothing to do.
NothingLeftBehind ==
    job # None =>
        CASE job.kind = "scope" -> job.seen # 0 => \A p \in Untouched : Done(db, job, p)
          [] job.kind = "readmit" ->
                ~ job.readmitted /\ touched.records = {}
                    => \A r \in Orphans(db) : Place(Orphans(db), r) < job.seen => db.says[r] # "vouched"
          [] OTHER -> \A p \in Untouched : p <= job.after => Done(db, job, p)

IInv == TypeOK /\ OneAtATime /\ PageIsCurrent /\ NothingLeftBehind /\ PassIsComplete

-----------------------------------------------------------------------------
(***************************************************************************)
(* Numbers, and places in a set of them.                                    *)
(***************************************************************************)
LEMMA LeastOfAll ==
    ASSUME NEW S \in SUBSET Nat, S # {}
    PROVE  \E x \in S : \A y \in S : x <= y
<1>1. PICK x \in S : \A y \in S : ~ (<<y, x>> \in OpToRel(<, Nat))
  BY NatLessThanWellFounded, WFMin
<1>2. ASSUME NEW y \in S PROVE x <= y
  <2>1. <<y, x>> \in Nat \X Nat
    OBVIOUS
  <2>2. ~ (y < x)
    BY <1>1, <2>1 DEF OpToRel
  <2> QED
    BY <2>2
<1> QED
  BY <1>2

\* The finite sets of numbers of a given size that have no greatest member.
Unbounded(n) == {S \in SUBSET Nat : IsFiniteSet(S) /\ Cardinality(S) = n /\ S # {}
                                     /\ \A x \in S : \E y \in S : y > x}

LEMMA GreatestOfAll ==
    ASSUME NEW S \in SUBSET Nat, S # {}, IsFiniteSet(S)
    PROVE  Max(S) \in S /\ \A y \in S : y <= Max(S)
<1>1. \E x \in S : \A y \in S : x >= y
  <2> SUFFICES ASSUME \A x \in S : \E y \in S : y > x PROVE FALSE
    OBVIOUS
  <2> DEFINE N == {n \in Nat : Unbounded(n) # {}}
  <2>1. Cardinality(S) \in N
    <3>1. Cardinality(S) \in Nat
      BY FS_CardinalityType
    <3>2. S \in Unbounded(Cardinality(S))
      BY DEF Unbounded
    <3> QED
      BY <3>1, <3>2
  <2>2. PICK n \in N : \A m \in N : n <= m
    BY <2>1, LeastOfAll
  <2>3. PICK U : U \in Unbounded(n)
    BY <2>2
  <2>4. /\ U \in SUBSET Nat /\ IsFiniteSet(U) /\ Cardinality(U) = n
        /\ \A x \in U : \E y \in U : y > x
    BY <2>3 DEF Unbounded
  <2>5. PICK u \in U : TRUE
    BY <2>3 DEF Unbounded
  <2> DEFINE V == U \ {u}
  <2>6. IsFiniteSet(V) /\ Cardinality(V) = n - 1
    BY <2>4, <2>5, FS_RemoveElement
  <2>7. Cardinality(V) \in Nat
    BY <2>6, FS_CardinalityType
  <2>8. PICK v \in U : v > u
    BY <2>4, <2>5
  <2>9. v \in V
    BY <2>4, <2>5, <2>8
  <2>10. \A x \in V : \E y \in V : y > x
    <3>1. ASSUME NEW x \in V PROVE \E y \in V : y > x
      <4>1. PICK y \in U : y > x
        BY <2>4
      <4>2. CASE y # u
        BY <4>1, <4>2
      <4>3. CASE y = u
        BY <4>1, <4>3, <2>4, <2>8, <2>9
      <4> QED
        BY <4>2, <4>3
    <3> QED
      BY <3>1
  <2>11. V \in Unbounded(n - 1)
    BY <2>4, <2>6, <2>9, <2>10 DEF Unbounded
  <2>12. n - 1 \in N
    BY <2>6, <2>7, <2>11
  <2> QED
    BY <2>2, <2>12
<1> QED
  BY <1>1 DEF Max

\* The place of a member is a number below the size of the set; the place of
\* a greater member is greater.
LEMMA PlaceIsBelow ==
    ASSUME NEW S \in SUBSET Nat, IsFiniteSet(S), NEW x
    PROVE  /\ Place(S, x) \in Nat /\ Cardinality(S) \in Nat
           /\ x \in S => Place(S, x) < Cardinality(S)
<1> DEFINE B == {y \in S : y < x}
<1>1. B \in SUBSET S
  OBVIOUS
<1> HIDE DEF B
<1>2. IsFiniteSet(B) /\ Cardinality(B) <= Cardinality(S) /\ (Cardinality(S) = Cardinality(B) => S = B)
  BY <1>1, FS_Subset
<1>3. Cardinality(B) \in Nat /\ Cardinality(S) \in Nat
  BY <1>2, FS_CardinalityType
<1>4. x \in S => S # B
  <2> SUFFICES ASSUME x \in S, S = B PROVE FALSE
    OBVIOUS
  <2>1. x < x
    BY DEF B
  <2> QED
    BY <2>1
<1>5. Place(S, x) = Cardinality(B)
  BY DEF Place, B
<1> QED
  BY <1>2, <1>3, <1>4, <1>5

LEMMA PlacesAreOrdered ==
    ASSUME NEW S \in SUBSET Nat, IsFiniteSet(S), NEW x \in S, NEW y \in S, x < y
    PROVE  Place(S, x) < Place(S, y)
<1> DEFINE B == {z \in S : z < x}
           C == {z \in S : z < y}
<1>0. \A z \in S : z < x => z < y
  OBVIOUS
<1>1. B \in SUBSET C /\ C \in SUBSET S
  BY <1>0
<1>2. x \in C /\ x \notin B
  OBVIOUS
<1>3. Place(S, x) = Cardinality(B) /\ Place(S, y) = Cardinality(C)
  BY DEF Place
<1> HIDE DEF B, C
<1>4. IsFiniteSet(C)
  BY <1>1, FS_Subset
<1>5. IsFiniteSet(B) /\ Cardinality(B) <= Cardinality(C) /\ (Cardinality(C) = Cardinality(B) => C = B)
  BY <1>1, <1>4, FS_Subset
<1>6. Cardinality(B) \in Nat /\ Cardinality(C) \in Nat
  BY <1>4, <1>5, FS_CardinalityType
<1> QED
  BY <1>2, <1>3, <1>5, <1>6

LEMMA PlacesDiffer ==
    ASSUME NEW S \in SUBSET Nat, IsFiniteSet(S), NEW x \in S, NEW y \in S, Place(S, x) = Place(S, y)
    PROVE  x = y
<1>1. Place(S, x) \in Nat /\ Place(S, y) \in Nat
  BY PlaceIsBelow
<1>2. ~ (x < y)
  BY <1>1, PlacesAreOrdered
<1>3. ~ (y < x)
  BY <1>1, PlacesAreOrdered
<1> QED
  BY <1>2, <1>3

\* As many members as there are places for, at most.
LEMMA PlacesBound ==
    ASSUME NEW S \in SUBSET Nat, IsFiniteSet(S), NEW A \in SUBSET S, NEW from \in Nat, NEW n \in Nat,
           \A x \in A : from <= Place(S, x) /\ Place(S, x) < from + n
    PROVE  IsFiniteSet(A) /\ Cardinality(A) \in Nat /\ Cardinality(A) <= n
<1>1. IsFiniteSet(A) /\ Cardinality(A) \in Nat
  BY FS_Subset, FS_CardinalityType
<1> DEFINE B == 1 .. n
           f == [x \in A |-> Place(S, x) - from + 1]
<1>2. IsFiniteSet(B) /\ Cardinality(B) = n
  BY FS_Interval
<1>3. \A x \in A : Place(S, x) \in Nat
  BY PlaceIsBelow
<1>4. f \in [A -> B]
  BY <1>3
<1>5. ASSUME NEW x \in A, NEW y \in A, f[x] = f[y] PROVE x = y
  <2>1. Place(S, x) = Place(S, y)
    BY <1>3, <1>5
  <2> QED
    BY <2>1, PlacesDiffer
<1> HIDE DEF f, B
<1>6. SUFFICES ASSUME ~ (Cardinality(A) <= n) PROVE FALSE
  BY <1>1
<1>7. Cardinality(B) < Cardinality(A)
  BY <1>1, <1>2, <1>6
<1>8. \E x, y \in A : x # y /\ f[x] = f[y]
  BY <1>1, <1>2, <1>4, <1>7, FS_PigeonHole
<1> QED
  BY <1>5, <1>8

-----------------------------------------------------------------------------
(***************************************************************************)
(* Pages.                                                                   *)
(***************************************************************************)
LEMMA SliceIsSmall ==
    ASSUME NEW S \in SUBSET Nat, IsFiniteSet(S), NEW from \in Nat, NEW n \in Nat
    PROVE  /\ Slice(S, from, n) \subseteq S /\ IsFiniteSet(Slice(S, from, n))
           /\ Cardinality(Slice(S, from, n)) \in Nat /\ Cardinality(Slice(S, from, n)) <= n
<1>1. Slice(S, from, n) \in SUBSET S
  BY DEF Slice
<1>2. \A x \in Slice(S, from, n) : from <= Place(S, x) /\ Place(S, x) < from + n
  BY DEF Slice, Place
<1> QED
  BY <1>1, <1>2, PlacesBound

LEMMA InSlice ==
    ASSUME NEW S, NEW from, NEW n, NEW x
    PROVE  x \in Slice(S, from, n) <=> x \in S /\ from <= Place(S, x) /\ Place(S, x) < from + n
  BY DEF Slice, Place

\* An empty page means that nobody is left at its place or after it.
LEMMA EmptySliceIsTheEnd ==
    ASSUME NEW S \in SUBSET Nat, IsFiniteSet(S), NEW from \in Nat, NEW n \in Nat \ {0},
           Slice(S, from, n) = {}
    PROVE  \A x \in S : Place(S, x) < from
<1> DEFINE L == {x \in S : from <= Place(S, x)}
<1>0. \A x \in S : Place(S, x) \in Nat
  BY PlaceIsBelow
<1>1. SUFFICES ASSUME L # {} PROVE FALSE
  BY <1>0
<1>2. PICK x \in L : \A y \in L : x <= y
  BY <1>1, LeastOfAll
<1> DEFINE B == {y \in S : y < x}
<1>3. B \in SUBSET S /\ Place(S, x) = Cardinality(B)
  BY DEF Place
<1>4. ASSUME NEW y \in B PROVE 0 <= Place(S, y) /\ Place(S, y) < 0 + from
  <2>1. y \notin L
    BY <1>2
  <2> QED
    BY <2>1, <1>0
<1> HIDE DEF B
<1>5. Cardinality(B) <= from
  BY <1>3, <1>4, PlacesBound
<1>6. x \in Slice(S, from, n)
  BY <1>0, <1>2, <1>3, <1>5, InSlice
<1> QED
  BY <1>6

\* The first page of S is the members of S up to the greatest of the page.
LEMMA FirstSlice ==
    ASSUME NEW S \in SUBSET Nat, IsFiniteSet(S), NEW n \in Nat \ {0}, Slice(S, 0, n) # {}
    PROVE  /\ Max(Slice(S, 0, n)) \in S
           /\ \A x \in S : x <= Max(Slice(S, 0, n)) => x \in Slice(S, 0, n)
<1> DEFINE P == Slice(S, 0, n)
<1>1. P \in SUBSET S /\ IsFiniteSet(P)
  BY SliceIsSmall
<1>2. Max(P) \in P
  <2> HIDE DEF P
  <2> QED
    BY <1>1, GreatestOfAll DEF P
<1>3. ASSUME NEW x \in S, x <= Max(P) PROVE x \in P
  <2>1. Place(S, x) \in Nat /\ Place(S, Max(P)) \in Nat /\ Place(S, Max(P)) < 0 + n
    BY <1>1, <1>2, PlaceIsBelow, InSlice
  <2>2. x = Max(P) \/ Place(S, x) < Place(S, Max(P))
    <3> DEFINE m == Max(P)
    <3>1. m \in S /\ x <= m
      BY <1>1, <1>2, <1>3
    <3> HIDE DEF m, P
    <3>2. x = m \/ x < m
      BY <3>1
    <3>3. ASSUME x < m PROVE Place(S, x) < Place(S, m)
      BY <3>1, <3>3, PlacesAreOrdered
    <3> QED
      BY <3>2, <3>3 DEF m
  <2> QED
    BY <1>2, <2>1, <2>2, InSlice
<1> QED
  BY <1>1, <1>2, <1>3

LEMMA FirstSliceEmpty ==
    ASSUME NEW S \in SUBSET Nat, IsFiniteSet(S), NEW n \in Nat \ {0}, Slice(S, 0, n) = {}
    PROVE  S = {}
<1>1. \A x \in S : Place(S, x) < 0 /\ Place(S, x) \in Nat
  BY EmptySliceIsTheEnd, PlaceIsBelow
<1> QED
  BY <1>1

-----------------------------------------------------------------------------
(***************************************************************************)
(* What ingesting a record makes of the tables.                             *)
(***************************************************************************)
LEMMA NoneIsApart ==
    /\ None \notin Row /\ Absent \notin Row /\ None \notin Papers /\ Absent \notin Papers
    /\ None # Absent /\ None \notin Tables /\ Absent \notin Verdicts
  BY NoneIsNoValue

LEMMA PartsOfTables ==
    ASSUME NEW T \in Tables
    PROVE  /\ T.paper \in [Papers -> Row \cup {None, Absent}]
           /\ T.record \in [Records -> Papers \cup {None, Absent}]
           /\ T.says \in [Records -> Verdicts \cup {Absent}]
           /\ T = [paper |-> T.paper, record |-> T.record, says |-> T.says]
           /\ Alive(T) \subseteq Papers /\ Orphans(T) \subseteq Records
           /\ \A p \in Papers : RecordsOf(T, p) \subseteq Records
  BY DEF Tables, Alive, Orphans, RecordsOf

LEMMA MergedIsARow ==
    ASSUME NEW row \in Row, NEW new
    PROVE  Merged(row, new) \in Row
<1>1. CASE new /\ row.said < MaxVersion
  BY <1>1, VersionBound DEF Merged, Row
<1>2. CASE ~ (new /\ row.said < MaxVersion)
  BY <1>2, VersionBound DEF Merged, Row
<1> QED
  BY <1>1, <1>2

LEMMA FoundedIsARow ==
    ASSUME NEW new
    PROVE  Founded(new) \in Row
<1>1. CASE new
  BY <1>1, VersionBound DEF Founded, Row
<1>2. CASE ~ new
  BY <1>2, VersionBound DEF Founded, Row
<1> QED
  BY <1>1, <1>2

LEMMA WhatAttachingDoes ==
    ASSUME NEW T \in Tables, NEW r \in Records, NEW v \in Verdicts, NEW p \in Papers, NEW new
    PROVE  LET A == Attached(T, r, v, p, new) IN
           /\ A \in Tables
           /\ A.paper[p] \in Row
           /\ \A q \in Papers : q # p => A.paper[q] = T.paper[q]
           /\ A.record[r] = p /\ A.says[r] = v
           /\ \A x \in Records : x # r => A.record[x] = T.record[x] /\ A.says[x] = T.says[x]
<1> DEFINE row == IF p \in Alive(T) THEN Merged(T.paper[p], new) ELSE Founded(new)
<1>1. row \in Row
  BY MergedIsARow, FoundedIsARow DEF Alive
<1>2. Attached(T, r, v, p, new) = [paper  |-> [T.paper EXCEPT ![p] = row],
                                   record |-> [T.record EXCEPT ![r] = p],
                                   says   |-> [T.says EXCEPT ![r] = v]]
  BY DEF Attached
<1> HIDE DEF row
<1> QED
  BY <1>1, <1>2, PartsOfTables DEF Tables

LEMMA WhatRemovingDoes ==
    ASSUME NEW T \in Tables, NEW gone
    PROVE  /\ Without(T, gone) \in Tables
           /\ \A p \in Papers : Without(T, gone).paper[p] = IF p \in gone THEN None ELSE T.paper[p]
           /\ \A x \in Records : Without(T, gone).record[x] = IF T.record[x] \in gone THEN None ELSE T.record[x]
           /\ Without(T, gone).says = T.says
<1> DEFINE paper == [p \in Papers |-> IF p \in gone THEN None ELSE T.paper[p]]
           record == [r \in Records |-> IF T.record[r] \in gone THEN None ELSE T.record[r]]
<1>1. /\ paper \in [Papers -> Row \cup {None, Absent}]
      /\ record \in [Records -> Papers \cup {None, Absent}]
      /\ T.says \in [Records -> Verdicts \cup {Absent}]
  BY PartsOfTables
<1>2. Without(T, gone) = [paper |-> paper, record |-> record, says |-> T.says]
  BY DEF Without
<1>3. /\ \A p \in Papers : paper[p] = IF p \in gone THEN None ELSE T.paper[p]
      /\ \A x \in Records : record[x] = IF T.record[x] \in gone THEN None ELSE T.record[x]
  OBVIOUS
<1> HIDE DEF paper, record
<1> QED
  BY <1>1, <1>2, <1>3 DEF Tables

LEMMA WhatDecliningDoes ==
    ASSUME NEW T \in Tables, NEW r \in Records, NEW v \in Verdicts
    PROVE  LET D == Declined(T, r, v) IN
           /\ D \in Tables
           /\ D.paper = T.paper
           /\ T.record[r] # Absent => D = T
           /\ T.record[r] = Absent => D.record[r] = None /\ D.says[r] = v
           /\ \A x \in Records : x # r => D.record[x] = T.record[x] /\ D.says[x] = T.says[x]
<1>1. CASE T.record[r] # Absent
  BY <1>1 DEF Declined
<1>2. CASE T.record[r] = Absent
  <2>1. Declined(T, r, v) = [paper  |-> T.paper,
                             record |-> [T.record EXCEPT ![r] = None],
                             says   |-> [T.says EXCEPT ![r] = v]]
    BY <1>2 DEF Tables, Declined
  <2> QED
    BY <1>2, <2>1, PartsOfTables DEF Tables
<1> QED
  BY <1>1, <1>2

\* What ingesting may do: r goes to p, and the papers of gone with it, or it is
\* declined.
Folds(T, r, v, p, gone, U) ==
    p \notin gone /\ \E new \in BOOLEAN : U = Without(Attached(T, r, v, p, new), gone)

LEMMA WhatFoldingDoes ==
    ASSUME NEW T \in Tables, NEW r \in Records, NEW v \in Verdicts, NEW p \in Papers,
           NEW gone, NEW U, Folds(T, r, v, p, gone, U)
    PROVE  /\ U \in Tables
           /\ U.paper[p] \in Row
           /\ \A x \in Papers : x # p => U.paper[x] = IF x \in gone THEN None ELSE T.paper[x]
           /\ U.record[r] = p /\ U.says[r] = v
           /\ \A x \in Records : x # r =>
                 /\ U.record[x] = IF T.record[x] \in gone THEN None ELSE T.record[x]
                 /\ U.says[x] = T.says[x]
<1>0. PICK new \in BOOLEAN : p \notin gone /\ U = Without(Attached(T, r, v, p, new), gone)
  BY DEF Folds
<1> DEFINE A == Attached(T, r, v, p, new)
<1>1. /\ A \in Tables /\ A.paper[p] \in Row
      /\ \A x \in Papers : x # p => A.paper[x] = T.paper[x]
      /\ A.record[r] = p /\ A.says[r] = v
      /\ \A x \in Records : x # r => A.record[x] = T.record[x] /\ A.says[x] = T.says[x]
  BY WhatAttachingDoes
<1>2. U = Without(A, gone) /\ p \notin gone
  BY <1>0
<1> HIDE DEF A
<1>3. /\ U \in Tables /\ U.says = A.says
      /\ \A x \in Papers : U.paper[x] = IF x \in gone THEN None ELSE A.paper[x]
      /\ \A x \in Records : U.record[x] = IF A.record[x] \in gone THEN None ELSE A.record[x]
  BY <1>1, <1>2, WhatRemovingDoes
<1> QED
  BY <1>1, <1>2, <1>3

Ingests(T, r, v, U) ==
    \/ \E p \in Papers, gone \in SUBSET Papers : Folds(T, r, v, p, gone, U)
    \/ U = Declined(T, r, v)

\* A record stays stored once it is, and one that is ingested is.
LEMMA IngestingKeepsTables ==
    ASSUME NEW T, Good(T), NEW r \in Records, NEW v \in Verdicts, NEW U, Ingests(T, r, v, U)
    PROVE  /\ Good(U)
           /\ U.record[r] # Absent
           /\ \A x \in Records : x # r => (U.record[x] = Absent <=> T.record[x] = Absent)
<1>1. T \in Tables
  BY DEF Good
<1> DEFINE Stored == /\ U.record[r] # Absent
                     /\ \A x \in Records : x # r => (U.record[x] = Absent <=> T.record[x] = Absent)
<1>2. ASSUME NEW p \in Papers, NEW gone \in SUBSET Papers, Folds(T, r, v, p, gone, U) PROVE Good(U) /\ Stored
  <2>1. /\ U \in Tables
        /\ U.paper[p] \in Row
        /\ \A x \in Papers : x # p => U.paper[x] = IF x \in gone THEN None ELSE T.paper[x]
        /\ U.record[r] = p /\ U.says[r] = v
        /\ \A x \in Records : x # r =>
              /\ U.record[x] = IF T.record[x] \in gone THEN None ELSE T.record[x]
              /\ U.says[x] = T.says[x]
    BY <1>1, <1>2, WhatFoldingDoes
  <2>2. ASSUME NEW x \in Records, U.record[x] \in Papers PROVE U.paper[U.record[x]] \in Row
    <3>1. CASE x = r
      BY <2>1, <3>1
    <3>2. CASE x # r
      <4>1. U.record[x] = T.record[x] /\ T.record[x] \notin gone
        BY <2>1, <2>2, <3>2, NoneIsApart
      <4>2. T.paper[T.record[x]] \in Row
        BY <2>2, <4>1 DEF Good
      <4> QED
        BY <2>1, <2>2, <4>1, <4>2
    <3> QED
      BY <3>1, <3>2
  <2>3. Stored
    <3>1. U.record[r] # Absent
      BY <2>1, NoneIsApart
    <3>2. ASSUME NEW x \in Records, x # r PROVE U.record[x] = Absent <=> T.record[x] = Absent
      <4>1. U.record[x] = IF T.record[x] \in gone THEN None ELSE T.record[x]
        BY <2>1, <3>2
      <4>2. T.record[x] \in gone => T.record[x] # Absent
        BY NoneIsApart
      <4> QED
        BY <4>1, <4>2, NoneIsApart
    <3> QED
      BY <3>1, <3>2
  <2>4. \A x \in Records : U.says[x] = Absent <=> U.record[x] = Absent
    <3>1. U.says[r] # Absent /\ U.record[r] # Absent
      BY <2>1, <2>3, NoneIsApart
    <3>2. ASSUME NEW x \in Records, x # r PROVE U.says[x] = Absent <=> U.record[x] = Absent
      BY <2>1, <2>3, <3>2 DEF Good
    <3> QED
      BY <3>1, <3>2
  <2> HIDE DEF Stored
  <2> QED
    BY <2>1, <2>2, <2>3, <2>4 DEF Good
<1>3. ASSUME U = Declined(T, r, v) PROVE Good(U) /\ Stored
  <2>1. /\ U \in Tables /\ U.paper = T.paper
        /\ T.record[r] # Absent => U = T
        /\ T.record[r] = Absent => U.record[r] = None /\ U.says[r] = v
        /\ \A x \in Records : x # r => U.record[x] = T.record[x] /\ U.says[x] = T.says[x]
    BY <1>1, <1>3, WhatDecliningDoes
  <2>2. CASE T.record[r] # Absent
    BY <2>1, <2>2
  <2>3. CASE T.record[r] = Absent
    <3>1. Stored
      BY <2>1, <2>3, NoneIsApart
    <3>2. ASSUME NEW x \in Records PROVE U.says[x] = Absent <=> U.record[x] = Absent
      BY <2>1, <2>3, NoneIsApart DEF Good
    <3>3. ASSUME NEW x \in Records, U.record[x] \in Papers PROVE U.paper[U.record[x]] \in Row
      BY <2>1, <2>3, <3>3, NoneIsApart DEF Good
    <3> HIDE DEF Stored
    <3> QED
      BY <2>1, <3>1, <3>2, <3>3 DEF Good
  <2> QED
    BY <2>2, <2>3
<1> QED
  BY <1>2, <1>3 DEF Ingests

\* An ingested record is attached, unless it is declined and vouches for none.
LEMMA IngestedIngests ==
    ASSUME NEW T \in Tables, NEW r \in Records, NEW v \in Verdicts, NEW U \in Ingested(T, r, v)
    PROVE  /\ Ingests(T, r, v, U)
           /\ U.record[r] \in Papers \/ (U = Declined(T, r, v) /\ v # "vouched")
<1> DEFINE homes == CASE v = "vouched" -> {p \in Papers : T.paper[p] # None}
                      [] v = "deposit" -> Alive(T)
                      [] v = "refused" -> {}
           folds == {fold \in homes \X SUBSET Alive(T) :
                        fold[1] \notin fold[2] /\ (fold[2] # {} => fold[1] \in Alive(T))}
           A == {Without(Attached(T, r, v, fold[1], new), fold[2]) : fold \in folds, new \in BOOLEAN}
<1>1. homes \subseteq Papers
  <2>1. v \in {"vouched", "deposit", "refused"}
    BY DEF Verdicts
  <2> QED
    BY <2>1 DEF Alive
<1>2. Ingested(T, r, v) = A \cup IF v = "vouched" THEN {} ELSE {Declined(T, r, v)}
  BY DEF Ingested
<1> HIDE DEF homes
<1>3. \A fold \in folds : fold[1] \in Papers /\ fold[2] \in SUBSET Papers /\ fold[1] \notin fold[2]
  BY <1>1 DEF Alive
<1> HIDE DEF folds
<1>4. CASE U \in A
  <2>1. PICK fold \in folds, new \in BOOLEAN : U = Without(Attached(T, r, v, fold[1], new), fold[2])
    BY <1>4
  <2>2. fold[1] \in Papers /\ fold[2] \in SUBSET Papers /\ Folds(T, r, v, fold[1], fold[2], U)
    BY <1>3, <2>1 DEF Folds
  <2>3. U.record[r] \in Papers
    BY <2>2, WhatFoldingDoes
  <2> QED
    BY <2>2, <2>3 DEF Ingests
<1>5. CASE U = Declined(T, r, v) /\ v # "vouched"
  BY <1>5 DEF Ingests
<1> HIDE DEF A
<1>6. U \in A \/ (U = Declined(T, r, v) /\ v # "vouched")
  BY <1>2
<1> QED
  BY <1>4, <1>5, <1>6

-----------------------------------------------------------------------------
(***************************************************************************)
(* One record after another.                                                *)
(***************************************************************************)
Step(says, X, S, n) == UNION {Ingested(U, r, says[r]) : U \in X, r \in Slice(S, n - 1, 1)}

\* f[n] is what the first n of S may make of T.
IsFold(says, f, k, T, S) ==
    f = [n \in 0 .. k |-> IF n = 0 THEN {T} ELSE Step(says, f[n - 1], S, n)]

LEMMA StepOfOne ==
    ASSUME NEW says, NEW X, NEW S, NEW n, NEW V \in Step(says, X, S, n)
    PROVE  \E U \in X : V \in Step(says, {U}, S, n)
<1>1. PICK U \in X : \E r \in Slice(S, n - 1, 1) : V \in Ingested(U, r, says[r])
  BY DEF Step
<1>2. V \in Step(says, {U}, S, n)
  BY <1>1 DEF Step
<1> QED
  BY <1>2

LEMMA FoldsExist ==
    ASSUME NEW says, NEW T, NEW S, NEW k \in Nat
    PROVE  \E f : IsFold(says, f, k, T, S)
<1> DEFINE N == {j \in Nat : ~ \E f : IsFold(says, f, j, T, S)}
<1>1. SUFFICES ASSUME N # {} PROVE FALSE
  OBVIOUS
<1>2. PICK j \in N : \A i \in N : j <= i
  BY <1>1, LeastOfAll
<1>3. ~ \E f : IsFold(says, f, j, T, S)
  BY <1>2
<1>4. CASE j = 0
  <2> DEFINE f == [n \in 0 .. 0 |-> {T}]
  <2>1. f = [n \in 0 .. 0 |-> IF n = 0 THEN {T} ELSE Step(says, f[n - 1], S, n)]
    OBVIOUS
  <2> HIDE DEF f
  <2>2. IsFold(says, f, 0, T, S)
    BY <2>1 DEF IsFold
  <2> QED
    BY <1>3, <1>4, <2>2
<1>5. CASE j # 0
  <2>1. j - 1 \in Nat /\ j - 1 \notin N
    BY <1>2, <1>5
  <2>2. PICK f : IsFold(says, f, j - 1, T, S)
    BY <2>1
  <2>3. \A n \in 0 .. j - 1 : f[n] = IF n = 0 THEN {T} ELSE Step(says, f[n - 1], S, n)
    BY <2>2 DEF IsFold
  <2> DEFINE g == [n \in 0 .. j |-> IF n = j THEN Step(says, f[j - 1], S, j) ELSE f[n]]
  <2>4. ASSUME NEW n \in 0 .. j PROVE g[n] = IF n = 0 THEN {T} ELSE Step(says, g[n - 1], S, n)
    <3>1. n # 0 => n - 1 \in 0 .. j /\ n - 1 # j
      BY <1>2
    <3>2. n # 0 => g[n - 1] = f[n - 1]
      BY <3>1
    <3>3. CASE n = j
      BY <1>5, <3>2, <3>3
    <3>4. CASE n # j
      <4>1. n \in 0 .. j - 1
        BY <1>2, <3>4
      <4>2. g[n] = f[n]
        BY <3>4
      <4> QED
        BY <2>3, <3>2, <4>1, <4>2
    <3> QED
      BY <3>3, <3>4
  <2>5. g = [n \in 0 .. j |-> g[n]]
    OBVIOUS
  <2> HIDE DEF g
  <2>6. IsFold(says, g, j, T, S)
    BY <2>4, <2>5 DEF IsFold
  <2> QED
    BY <1>3, <2>6
<1> QED
  BY <1>4, <1>5

\* I holds after one more step, if it held before.
IsKept(says, k, S, I) ==
    \A n \in 1 .. k : \A U : <<n - 1, U>> \in I => \A V \in Step(says, {U}, S, n) : <<n, V>> \in I

\* What holds of the first tables, and of each after one more step, holds of
\* the last.
LEMMA FoldPrinciple ==
    ASSUME NEW says, NEW f, NEW k \in Nat, NEW T, NEW S, IsFold(says, f, k, T, S),
           NEW I, <<0, T>> \in I, IsKept(says, k, S, I)
    PROVE  \A U \in f[k] : <<k, U>> \in I
<1>0. \A n \in 0 .. k : f[n] = IF n = 0 THEN {T} ELSE Step(says, f[n - 1], S, n)
  BY DEF IsFold
<1> DEFINE N == {n \in 0 .. k : \E V \in f[n] : <<n, V>> \notin I}
<1>1. SUFFICES ASSUME N # {} PROVE FALSE
  OBVIOUS
<1>2. N \in SUBSET Nat
  OBVIOUS
<1>3. PICK n \in N : \A i \in N : n <= i
  <2> HIDE DEF N
  <2> QED
    BY <1>1, <1>2, LeastOfAll
<1>4. PICK V \in f[n] : <<n, V>> \notin I
  BY <1>3
<1>5. n # 0
  BY <1>0, <1>3, <1>4
<1>6. n \in 1 .. k /\ n - 1 \in 0 .. k /\ n - 1 \notin N
  <2>1. n \in 0 .. k
    BY <1>3
  <2> HIDE DEF N
  <2> QED
    BY <2>1, <1>3, <1>5
<1>7. V \in Step(says, f[n - 1], S, n)
  BY <1>0, <1>4, <1>5, <1>6
<1>8. PICK U \in f[n - 1] : V \in Step(says, {U}, S, n)
  BY <1>7, StepOfOne
<1>9. <<n - 1, U>> \in I
  BY <1>6, <1>8
<1>10. \A W \in Step(says, {U}, S, n) : <<n, W>> \in I
  BY <1>6, <1>9 DEF IsKept
<1> QED
  BY <1>4, <1>8, <1>10

LEMMA IngestedAllIsAFold ==
    ASSUME NEW T, NEW S, IsFiniteSet(S), NEW says
    PROVE  \E f : IsFold(says, f, Cardinality(S), T, S) /\ IngestedAll(T, S, says) = f[Cardinality(S)]
<1> DEFINE K == Cardinality(S)
           Is(f) == f = [n \in 0 .. K |-> IF n = 0 THEN {T}
                                 ELSE UNION {Ingested(U, r, says[r]) : U \in f[n - 1], r \in Slice(S, n - 1, 1)}]
           after == CHOOSE f : Is(f)
<1>1. IngestedAll(T, S, says) = after[K]
  BY DEF IngestedAll
<1>2. PICK f : IsFold(says, f, K, T, S)
  BY FS_CardinalityType, FoldsExist
<1> DEFINE a(g, n) == IF n = 0 THEN {T} ELSE UNION {Ingested(U, r, says[r]) : U \in g[n - 1], r \in Slice(S, n - 1, 1)}
           b(g, n) == IF n = 0 THEN {T} ELSE Step(says, g[n - 1], S, n)
<1>3. ASSUME NEW n \in 0 .. K, NEW g PROVE a(g, n) = b(g, n)
  BY DEF Step
<1>4. ASSUME NEW g PROVE Is(g) <=> IsFold(says, g, K, T, S)
  <2>1. Is(g) <=> g = [n \in 0 .. K |-> a(g, n)]
    OBVIOUS
  <2>2. IsFold(says, g, K, T, S) <=> g = [n \in 0 .. K |-> b(g, n)]
    BY DEF IsFold
  <2> HIDE DEF a, b, Is
  <2>3. [n \in 0 .. K |-> a(g, n)] = [n \in 0 .. K |-> b(g, n)]
    BY <1>3
  <2> QED
    BY <2>1, <2>2, <2>3
<1> HIDE DEF Is
<1>5. Is(f)
  BY <1>2, <1>4
<1>6. Is(after)
  BY <1>5
<1>7. IsFold(says, after, K, T, S)
  BY <1>4, <1>6
<1> HIDE DEF after
<1> QED
  BY <1>1, <1>7

\* Records ingested one after another leave the tables good, and what was
\* stored and what was not, but for their own.
LEMMA IngestingAllKeepsTables ==
    ASSUME NEW T, Good(T), NEW S \in SUBSET Records, NEW says, \A r \in S : says[r] \in Verdicts,
           NEW U \in IngestedAll(T, S, says)
    PROVE  /\ Good(U)
           /\ \A x \in Records : U.record[x] = Absent => T.record[x] = Absent
           /\ \A x \in Records \ S : T.record[x] = Absent => U.record[x] = Absent
<1> DEFINE Kept(V) == /\ \A x \in Records : V.record[x] = Absent => T.record[x] = Absent
                      /\ \A x \in Records \ S : T.record[x] = Absent => V.record[x] = Absent
           I == {w \in Nat \X Tables : Good(w[2]) /\ Kept(w[2])}
<1>0. IsFiniteSet(S) /\ T \in Tables /\ Cardinality(S) \in Nat
  BY TablesAreFinite, FS_Subset, FS_CardinalityType DEF Good
<1>1. PICK f : IsFold(says, f, Cardinality(S), T, S) /\ IngestedAll(T, S, says) = f[Cardinality(S)]
  BY <1>0, IngestedAllIsAFold
<1>2. <<0, T>> \in I
  BY <1>0
<1>3. ASSUME NEW n \in 1 .. Cardinality(S), NEW V, <<n - 1, V>> \in I, NEW W \in Step(says, {V}, S, n)
      PROVE  <<n, W>> \in I
  <2>2. PICK r \in Slice(S, n - 1, 1) : W \in Ingested(V, r, says[r])
    BY <1>3 DEF Step
  <2>3. r \in S /\ r \in Records /\ says[r] \in Verdicts
    BY <2>2, InSlice
  <2>4. V \in Tables /\ Good(V) /\ Kept(V) /\ n \in Nat
    BY <1>0, <1>3
  <2>5. Ingests(V, r, says[r], W)
    BY <2>2, <2>3, <2>4, IngestedIngests
  <2>6. /\ Good(W) /\ W \in Tables /\ W.record[r] # Absent
        /\ \A x \in Records : x # r => (W.record[x] = Absent <=> V.record[x] = Absent)
    BY <2>3, <2>4, <2>5, IngestingKeepsTables DEF Good
  <2>7. Kept(W)
    BY <2>3, <2>4, <2>6
  <2> HIDE DEF Kept
  <2> QED
    BY <2>4, <2>6, <2>7
<1> HIDE DEF I, Kept
<1>4. IsKept(says, Cardinality(S), S, I)
  BY <1>3 DEF IsKept
<1>5. \A V \in f[Cardinality(S)] : <<Cardinality(S), V>> \in I
  BY <1>0, <1>1, <1>2, <1>4, FoldPrinciple
<1>6. <<Cardinality(S), U>> \in I
  BY <1>1, <1>5
<1> QED
  BY <1>6 DEF I, Kept

\* Of orphans ingested one after another, one at least is readmitted, or none
\* was vouched and none has moved.
LEMMA WhatReadmittingLeaves ==
    ASSUME NEW T, Good(T), NEW S \in SUBSET Records, \A r \in S : T.record[r] = None,
           NEW says, \A r \in S : says[r] \in Verdicts, NEW U \in IngestedAll(T, S, says)
    PROVE  \/ \E r \in S : U.record[r] # None
           \/ U.record = T.record /\ \A r \in S : says[r] # "vouched"
<1> DEFINE Readmitted(n, V) == \E r \in S : Place(S, r) < n /\ V.record[r] # None
           Unmoved(n, V) == V.record = T.record /\ \A r \in S : Place(S, r) < n => says[r] # "vouched"
           I == {w \in Nat \X Tables : Good(w[2]) /\ (Readmitted(w[1], w[2]) \/ Unmoved(w[1], w[2]))}
<1>0. IsFiniteSet(S) /\ S \in SUBSET Nat /\ T \in Tables /\ Cardinality(S) \in Nat
  BY TablesAreFinite, IdsAreOrdered, FS_Subset, FS_CardinalityType DEF Good
<1>1. \A r \in S : Place(S, r) \in Nat /\ Place(S, r) < Cardinality(S)
  BY <1>0, PlaceIsBelow
<1>2. PICK f : IsFold(says, f, Cardinality(S), T, S) /\ IngestedAll(T, S, says) = f[Cardinality(S)]
  BY <1>0, IngestedAllIsAFold
<1>3. <<0, T>> \in I
  BY <1>0, <1>1
<1>4. ASSUME NEW n \in 1 .. Cardinality(S), NEW V, <<n - 1, V>> \in I, NEW W \in Step(says, {V}, S, n)
      PROVE  <<n, W>> \in I
  <2>2. PICK r \in Slice(S, n - 1, 1) : W \in Ingested(V, r, says[r])
    BY <1>4 DEF Step
  <2>3. r \in S /\ r \in Records /\ Place(S, r) = n - 1 /\ says[r] \in Verdicts
    BY <1>1, <2>2, InSlice
  <2>4. /\ V \in Tables /\ Good(V) /\ n - 1 \in Nat /\ n \in Nat
        /\ Readmitted(n - 1, V) \/ Unmoved(n - 1, V)
    BY <1>0, <1>4
  <2>5. /\ Ingests(V, r, says[r], W)
        /\ W.record[r] \in Papers \/ (W = Declined(V, r, says[r]) /\ says[r] # "vouched")
    BY <2>2, <2>3, <2>4, IngestedIngests
  <2>6. Good(W) /\ W \in Tables
    BY <2>3, <2>4, <2>5, IngestingKeepsTables DEF Good
  <2>7. CASE W.record[r] \in Papers
    <3>1. Readmitted(n, W)
      BY <2>3, <2>4, <2>7, NoneIsApart
    <3> QED
      BY <2>4, <2>6, <3>1
  <2>8. CASE W = Declined(V, r, says[r]) /\ says[r] # "vouched"
    <3>1. /\ V.record[r] # Absent => W.record[r] = V.record[r]
          /\ \A x \in Records : x # r => W.record[x] = V.record[x]
      BY <2>3, <2>4, <2>8, WhatDecliningDoes
    <3>2. ASSUME Readmitted(n - 1, V) PROVE Readmitted(n, W)
      <4>1. PICK x \in S : Place(S, x) < n - 1 /\ V.record[x] # None
        BY <3>2
      <4>2. x # r /\ x \in Records
        BY <2>3, <2>4, <4>1
      <4> QED
        BY <1>1, <2>4, <3>1, <4>1, <4>2
    <3>3. ASSUME Unmoved(n - 1, V) PROVE Unmoved(n, W)
      <4>1. \A x \in Records : W.record[x] = T.record[x]
        BY <2>3, <3>1, <3>3, NoneIsApart
      <4>2. W.record = T.record
        BY <1>0, <2>6, <4>1, PartsOfTables
      <4>3. ASSUME NEW x \in S, Place(S, x) < n PROVE says[x] # "vouched"
        <5>1. CASE Place(S, x) < n - 1
          BY <3>3, <5>1
        <5>2. CASE ~ (Place(S, x) < n - 1)
          <6>1. Place(S, x) = Place(S, r)
            BY <1>1, <2>3, <2>4, <4>3, <5>2
          <6>2. x = r
            BY <1>0, <2>3, <6>1, PlacesDiffer
          <6> QED
            BY <2>8, <6>2
        <5> QED
          BY <5>1, <5>2
      <4> QED
        BY <4>2, <4>3
    <3> HIDE DEF Readmitted, Unmoved
    <3>4. Readmitted(n, W) \/ Unmoved(n, W)
      BY <2>4, <3>2, <3>3
    <3> QED
      BY <2>4, <2>6, <3>4
  <2> QED
    BY <2>5, <2>7, <2>8
<1> HIDE DEF I, Readmitted, Unmoved
<1>5. IsKept(says, Cardinality(S), S, I)
  BY <1>4 DEF IsKept
<1>6. \A V \in f[Cardinality(S)] : <<Cardinality(S), V>> \in I
  BY <1>0, <1>2, <1>3, <1>5, FoldPrinciple
<1>7. <<Cardinality(S), U>> \in I
  BY <1>2, <1>6
<1>8. Readmitted(Cardinality(S), U) \/ Unmoved(Cardinality(S), U)
  BY <1>7 DEF I
<1> QED
  BY <1>1, <1>8 DEF Readmitted, Unmoved

\* An ingested record makes a candidate of no paper but one that it is taken
\* from, if it is of OpenAlex.
LEMMA AnOpenAlexRecordEndsIt ==
    ASSUME NEW T \in Tables, NEW U, NEW r \in Records, SourceOf[r] = "openalex",
           NEW v \in Verdicts, Ingests(T, r, v, U), NEW p \in Papers, IsCandidate(U, p)
    PROVE  IsCandidate(T, p) \/ T.record[r] = p
<1>1. /\ p \notin NoDoi /\ U.paper[p] \in Row /\ U.paper[p].fields = 0
      /\ \A x \in Records : U.record[x] = p => SourceOf[x] # "openalex"
  BY DEF IsCandidate, Alive, RecordsOf
<1>2. U.record[r] # p
  BY <1>1
<1>3. SUFFICES ASSUME T.record[r] # p
               PROVE  T.paper[p] = U.paper[p] /\ \A x \in Records : T.record[x] = p => U.record[x] = p
  BY <1>1 DEF IsCandidate, Alive, RecordsOf
<1>4. ASSUME NEW q \in Papers, NEW gone \in SUBSET Papers, Folds(T, r, v, q, gone, U)
      PROVE  T.paper[p] = U.paper[p] /\ \A x \in Records : T.record[x] = p => U.record[x] = p
  <2>1. /\ \A x \in Papers : x # q => U.paper[x] = IF x \in gone THEN None ELSE T.paper[x]
        /\ U.record[r] = q
        /\ \A x \in Records : x # r => U.record[x] = IF T.record[x] \in gone THEN None ELSE T.record[x]
    BY <1>4, WhatFoldingDoes
  <2>2. p # q /\ p \notin gone
    BY <1>1, <1>2, <2>1, NoneIsApart
  <2> QED
    BY <1>3, <2>1, <2>2
<1>5. ASSUME U = Declined(T, r, v)
      PROVE  T.paper[p] = U.paper[p] /\ \A x \in Records : T.record[x] = p => U.record[x] = p
  BY <1>3, <1>5, WhatDecliningDoes
<1> QED
  BY <1>4, <1>5 DEF Ingests

\* A record that is not ingested stays where it is, or becomes an orphan.
LEMMA OthersStay ==
    ASSUME NEW T \in Tables, NEW U, NEW r \in Records, NEW v \in Verdicts, Ingests(T, r, v, U),
           NEW x \in Records, x # r
    PROVE  U.record[x] \in {T.record[x], None}
<1>1. ASSUME NEW q \in Papers, NEW gone \in SUBSET Papers, Folds(T, r, v, q, gone, U)
      PROVE  U.record[x] \in {T.record[x], None}
  BY <1>1, WhatFoldingDoes
<1>2. ASSUME U = Declined(T, r, v)
      PROVE  U.record[x] \in {T.record[x], None}
  BY <1>2, WhatDecliningDoes
<1> QED
  BY <1>1, <1>2 DEF Ingests

\* The answers make a candidate of no paper but one they robbed.
LEMMA WhatAnswersDo ==
    ASSUME NEW T, Good(T), NEW S \in SUBSET {r \in Records : SourceOf[r] = "openalex"},
           NEW says, \A r \in S : says[r] \in Verdicts, NEW U \in IngestedAll(T, S, says),
           NEW p \in Papers, IsCandidate(U, p)
    PROVE  IsCandidate(T, p) \/ p \in Robbed(T, U)
<1> DEFINE Fair(n, V) == IsCandidate(V, p) => IsCandidate(T, p) \/ \E r \in S : Place(S, r) < n /\ T.record[r] = p
           Ahead(n, V) == \A r \in S : n <= Place(S, r) => V.record[r] \in {T.record[r], None}
           I == {w \in Nat \X Tables : Good(w[2]) /\ Fair(w[1], w[2]) /\ Ahead(w[1], w[2])}
<1>0. IsFiniteSet(S) /\ S \in SUBSET Nat /\ S \in SUBSET Records /\ T \in Tables /\ Cardinality(S) \in Nat
  <2>1. S \in SUBSET Records
    OBVIOUS
  <2> QED
    BY <2>1, TablesAreFinite, IdsAreOrdered, FS_Subset, FS_CardinalityType DEF Good
<1>1. \A r \in S : Place(S, r) \in Nat /\ SourceOf[r] = "openalex"
  BY <1>0, PlaceIsBelow
<1>2. PICK f : IsFold(says, f, Cardinality(S), T, S) /\ IngestedAll(T, S, says) = f[Cardinality(S)]
  BY <1>0, IngestedAllIsAFold
<1>3. <<0, T>> \in I
  BY <1>0
<1>4. ASSUME NEW n \in 1 .. Cardinality(S), NEW V, <<n - 1, V>> \in I, NEW W \in Step(says, {V}, S, n)
      PROVE  <<n, W>> \in I
  <2>1. PICK r \in Slice(S, n - 1, 1) : W \in Ingested(V, r, says[r])
    BY <1>4 DEF Step
  <2>2. r \in S /\ r \in Records /\ Place(S, r) = n - 1 /\ says[r] \in Verdicts
    <3>1. r \in S /\ n - 1 <= Place(S, r) /\ Place(S, r) < n - 1 + 1
      BY <2>1, InSlice
    <3> QED
      BY <1>0, <1>1, <3>1
  <2>3. V \in Tables /\ Good(V) /\ Fair(n - 1, V) /\ Ahead(n - 1, V) /\ n - 1 \in Nat /\ n \in Nat
    BY <1>0, <1>4
  <2>4. Ingests(V, r, says[r], W)
    BY <2>1, <2>2, <2>3, IngestedIngests
  <2>5. Good(W) /\ W \in Tables
    BY <2>2, <2>3, <2>4, IngestingKeepsTables DEF Good
  <2>6. Fair(n, W)
    <3> SUFFICES ASSUME IsCandidate(W, p)
                 PROVE  IsCandidate(T, p) \/ \E x \in S : Place(S, x) < n /\ T.record[x] = p
      OBVIOUS
    <3>1. IsCandidate(V, p) \/ V.record[r] = p
      BY <1>1, <2>2, <2>3, <2>4, AnOpenAlexRecordEndsIt
    <3>2. CASE IsCandidate(V, p)
      <4>1. CASE IsCandidate(T, p)
        BY <4>1
      <4>2. CASE ~ IsCandidate(T, p)
        <5>1. PICK x \in S : Place(S, x) < n - 1 /\ T.record[x] = p
          BY <2>3, <3>2, <4>2
        <5> QED
          BY <1>1, <2>3, <5>1
      <4> QED
        BY <4>1, <4>2
    <3>3. CASE V.record[r] = p
      <4>1. V.record[r] \in {T.record[r], None}
        BY <2>2, <2>3
      <4>2. T.record[r] = p
        BY <3>3, <4>1, NoneIsApart
      <4> QED
        BY <2>2, <2>3, <4>2
    <3> QED
      BY <3>1, <3>2, <3>3
  <2>7. Ahead(n, W)
    <3> SUFFICES ASSUME NEW x \in S, n <= Place(S, x) PROVE W.record[x] \in {T.record[x], None}
      OBVIOUS
    <3>1. x # r /\ x \in Records /\ n - 1 <= Place(S, x)
      BY <1>0, <1>1, <2>2, <2>3
    <3>2. V.record[x] \in {T.record[x], None}
      BY <2>3, <3>1
    <3>3. W.record[x] \in {V.record[x], None}
      BY <2>2, <2>3, <2>4, <3>1, OthersStay
    <3> QED
      BY <3>2, <3>3
  <2> HIDE DEF Fair, Ahead
  <2> QED
    BY <2>3, <2>5, <2>6, <2>7
<1> HIDE DEF I, Fair, Ahead
<1>5. IsKept(says, Cardinality(S), S, I)
  BY <1>4 DEF IsKept
<1>6. \A V \in f[Cardinality(S)] : <<Cardinality(S), V>> \in I
  BY <1>0, <1>2, <1>3, <1>5, FoldPrinciple
<1>7. <<Cardinality(S), U>> \in I
  BY <1>2, <1>6
<1>8. IsCandidate(T, p) \/ \E r \in S : T.record[r] = p
  BY <1>7 DEF I, Fair
<1>9. ASSUME NEW r \in S, T.record[r] = p PROVE p \in Robbed(T, U)
  <2>1. r \in RecordsOf(T, p) /\ r \notin RecordsOf(U, p)
    BY <1>0, <1>1, <1>9 DEF RecordsOf, IsCandidate
  <2> QED
    BY <2>1 DEF Robbed
<1> QED
  BY <1>8, <1>9

LEMMA SameCandidate ==
    ASSUME NEW T, NEW U, NEW p \in Papers, SameOf(T, U, p)
    PROVE  IsCandidate(T, p) <=> IsCandidate(U, p)
  BY DEF SameOf, IsCandidate, Alive

\* What is not recorded as written is the same.
LEMMA WrittenIsWhatChanged ==
    ASSUME NEW T, NEW U
    PROVE  /\ \A p \in Papers \ Written(T, U).papers : SameOf(T, U, p)
           /\ \A r \in Records \ Written(T, U).records : T.record[r] = U.record[r] /\ T.says[r] = U.says[r]
<1>1. ASSUME NEW p \in Papers, Of(T, p) = Of(U, p) PROVE SameOf(T, U, p)
  <2> DEFINE f == [r \in RecordsOf(T, p) |-> T.says[r]]
             g == [r \in RecordsOf(U, p) |-> U.says[r]]
  <2>1. T.paper[p] = U.paper[p] /\ f = g
    BY <1>1 DEF Of
  <2>2. DOMAIN f = RecordsOf(T, p) /\ DOMAIN g = RecordsOf(U, p)
    OBVIOUS
  <2>3. RecordsOf(T, p) = RecordsOf(U, p)
    BY <2>1, <2>2
  <2>4. ASSUME NEW r \in RecordsOf(T, p) PROVE T.says[r] = U.says[r]
    <3>1. f[r] = T.says[r] /\ g[r] = U.says[r]
      BY <2>3
    <3> QED
      BY <2>1, <3>1
  <2> QED
    BY <2>1, <2>3, <2>4 DEF SameOf
<1>2. ASSUME NEW p \in Papers \ Written(T, U).papers PROVE SameOf(T, U, p)
  BY <1>1 DEF Written
<1>3. ASSUME NEW r \in Records \ Written(T, U).records PROVE T.record[r] = U.record[r] /\ T.says[r] = U.says[r]
  BY DEF Written
<1> QED
  BY <1>2, <1>3

-----------------------------------------------------------------------------
(***************************************************************************)
(* What a pass reads, and what it leaves behind.                            *)
(***************************************************************************)
ByKey == {"fields", "titles", "dates", "uncorroborated", "enrich"}

LEMMA KindsOfJobs ==
    ASSUME NEW j \in Job
    PROVE  j.kind \in ByKey \cup {"scope", "readmit"}
  BY PassesAreKnown DEF Job, ByKey

LEMMA SetsAreFinite ==
    /\ Papers \in SUBSET Nat /\ Records \in SUBSET Nat
    /\ \A S \in SUBSET Papers : IsFiniteSet(S) /\ S \in SUBSET Nat
    /\ \A S \in SUBSET Records : IsFiniteSet(S) /\ S \in SUBSET Nat
  BY TablesAreFinite, IdsAreOrdered, FS_Subset

LEMMA PlacesAreNumbers ==
    /\ \A p \in {0} \cup Papers : p \in Nat
    /\ BatchSize \in Nat \ {0}
  BY IdsAreOrdered

\* What the tables say of a paper decides whether it is done.
LEMMA DoneBySame ==
    ASSUME NEW T, NEW U, NEW p \in Papers, SameOf(T, U, p), NEW j, NEW k,
           j.kind \in ByKey \cup {"scope"}, k.kind = j.kind, k.scanned = j.scanned,
           j.asked \subseteq k.asked, Done(T, j, p)
    PROVE  Done(U, k, p)
<1>1. /\ T.paper[p] = U.paper[p] /\ RecordsOf(T, p) = RecordsOf(U, p)
      /\ \A r \in RecordsOf(T, p) : T.says[r] = U.says[r]
  BY DEF SameOf
<1>2. CASE j.kind = "enrich"
  BY <1>2, SameCandidate DEF Done
<1>3. CASE j.kind = "uncorroborated"
  BY <1>1, <1>3 DEF Done, IsUncorroborated
<1>4. CASE j.kind \in {"fields", "titles", "dates", "scope"}
  BY <1>1, <1>4 DEF Done
<1> QED
  BY <1>2, <1>3, <1>4 DEF ByKey

\* A page by key: the selected papers after the place, up to its last one.
LEMMA PageByKey ==
    ASSUME NEW T \in Tables, job \in Job, job.kind \in ByKey
    PROVE  /\ Page(T) \subseteq Selected(T) /\ Selected(T) \subseteq Alive(T) /\ Selected(T) \subseteq Papers
           /\ Page(T) = {} => \A p \in Selected(T) : p <= job.after
           /\ Page(T) # {} =>
                 /\ Max(Page(T)) \in Papers
                 /\ \A p \in Selected(T) : p > job.after /\ p <= Max(Page(T)) => p \in Page(T)
<1> DEFINE ahead == {p \in Selected(T) : p > job.after}
<1>1. Selected(T) \subseteq Alive(T) /\ Selected(T) \subseteq Papers
  BY DEF Selected, Alive, IsCandidate
<1>2. Page(T) = Slice(ahead, 0, BatchSize)
  BY DEF Page, ByKey
<1>3. ahead \in SUBSET Papers /\ job.after \in Nat /\ BatchSize \in Nat \ {0}
  <2>1. ahead \in SUBSET Papers
    BY <1>1
  <2>2. job.after \in {0} \cup Papers
    BY DEF Job
  <2>3. job.after \in Nat
    BY <2>2, PlacesAreNumbers
  <2>4. BatchSize \in Nat \ {0}
    BY PlacesAreNumbers
  <2> HIDE DEF ahead
  <2> QED
    BY <2>1, <2>3, <2>4
<1>4. IsFiniteSet(ahead) /\ ahead \in SUBSET Nat
  <2> HIDE DEF ahead
  <2> QED
    BY <1>3, SetsAreFinite
<1>5. ASSUME NEW p \in Selected(T) PROVE p \in ahead <=> ~ (p <= job.after)
  <2>1. p \in Nat
    BY <1>1, IdsAreOrdered
  <2> QED
    BY <1>3, <2>1
<1>6. \A p \in Selected(T) : p \in ahead <=> p > job.after
  OBVIOUS
<1>7. ahead \subseteq Selected(T)
  OBVIOUS
<1> HIDE DEF ahead
<1>8. Slice(ahead, 0, BatchSize) \subseteq ahead
  BY <1>3, <1>4, SliceIsSmall
<1>9. Slice(ahead, 0, BatchSize) = {} => ahead = {}
  BY <1>3, <1>4, FirstSliceEmpty
<1>10. Slice(ahead, 0, BatchSize) # {} =>
           /\ Max(Slice(ahead, 0, BatchSize)) \in ahead
           /\ \A p \in ahead : p <= Max(Slice(ahead, 0, BatchSize)) => p \in Slice(ahead, 0, BatchSize)
  BY <1>3, <1>4, FirstSlice
<1>11. Page(T) = {} => \A p \in Selected(T) : p <= job.after
  BY <1>2, <1>5, <1>9
<1>12. Page(T) # {} => /\ Max(Page(T)) \in Papers
                       /\ \A p \in Selected(T) : p > job.after /\ p <= Max(Page(T)) => p \in Page(T)
  BY <1>2, <1>3, <1>6, <1>10
<1> QED
  BY <1>1, <1>2, <1>7, <1>8, <1>11, <1>12

\* A page of orphans, and what comes before and after it.
LEMMA PageOfOrphans ==
    ASSUME NEW T \in Tables, job \in Job, job.kind = "readmit"
    PROVE  /\ Page(T) \subseteq Orphans(T) /\ Cardinality(Page(T)) \in Nat
           /\ Page(T) = {} => \A r \in Orphans(T) : Place(Orphans(T), r) < job.seen
           /\ \A r \in Orphans(T) : Place(Orphans(T), r) < job.seen + Cardinality(Page(T))
                                      => r \in Page(T) \/ Place(Orphans(T), r) < job.seen
<1> DEFINE O == Orphans(T)
           P == Slice(O, job.seen, BatchSize)
<1>1. Page(T) = P
  BY DEF Page
<1>2. O \in SUBSET Nat /\ IsFiniteSet(O)
  BY SetsAreFinite, PartsOfTables
<1>3. job.seen \in Nat /\ BatchSize \in Nat \ {0} /\ BatchSize \in Nat
  BY IdsAreOrdered DEF Job
<1> HIDE DEF O
<1>4. P \subseteq O /\ Cardinality(P) \in Nat /\ Cardinality(P) <= BatchSize
  BY <1>2, <1>3, SliceIsSmall
<1>5. P = {} => \A r \in O : Place(O, r) < job.seen
  BY <1>2, <1>3, EmptySliceIsTheEnd
<1>6. ASSUME NEW r \in O, Place(O, r) < job.seen + Cardinality(P), r \notin P PROVE Place(O, r) < job.seen
  <2>1. Place(O, r) \in Nat
    BY <1>2, PlaceIsBelow
  <2>2. ~ (job.seen <= Place(O, r) /\ Place(O, r) < job.seen + BatchSize)
    BY <1>6, InSlice
  <2>3. Cardinality(P) \in Nat /\ Cardinality(P) <= BatchSize /\ Place(O, r) < job.seen + Cardinality(P)
    BY <1>4, <1>6
  <2> DEFINE c == Cardinality(P)
             n == Place(O, r)
  <2> HIDE DEF c, n
  <2>4. c \in Nat /\ n \in Nat /\ c <= BatchSize /\ n < job.seen + c /\ ~ (job.seen <= n /\ n < job.seen + BatchSize)
    BY <2>1, <2>2, <2>3 DEF c, n
  <2>5. n < job.seen
    BY <1>3, <2>4
  <2> QED
    BY <2>5 DEF n
<1> HIDE DEF P
<1> QED
  BY <1>1, <1>4, <1>5, <1>6 DEF O

LEMMA JobsAreTyped == TypeOK /\ job # None => job \in Job
  BY DEF TypeOK

LEMMA TablesAreGood == TypeOK => Good(db) /\ db \in Tables
  BY DEF TypeOK, Good

\* Up to the end of the page read, a paper is done, on the page, or was not
\* selected.
LEMMA WithinReach ==
    ASSUME IInv, read # None, job.kind \in ByKey, NEW p \in Untouched, p <= Max(Page(read))
    PROVE  Done(db, job, p) \/ p \in Page(read) \/ p \notin Selected(read)
<1>1. job # None /\ job \in Job /\ read \in Tables /\ Page(read) # {}
  BY JobsAreTyped DEF IInv, TypeOK, PageIsCurrent, OneAtATime
<1>2. p \in Papers /\ p \in Nat /\ job.after \in Nat
  BY <1>1, IdsAreOrdered DEF Untouched, Alive, Job
<1>3. CASE p <= job.after
  BY <1>1, <1>3, KindsOfJobs DEF IInv, NothingLeftBehind, ByKey
<1>4. CASE p > job.after
  BY <1>1, <1>4, PageByKey
<1> QED
  BY <1>2, <1>3, <1>4

-----------------------------------------------------------------------------
(***************************************************************************)
(* The invariant, action by action.                                         *)
(***************************************************************************)
\* What a commit leaves true of all but the place of the pass.
LEMMA AfterACommit ==
    ASSUME IInv, read # None, NEW T, Good(T), Commit(T), job' \in Job,
           touched' \in [papers : SUBSET Papers, records : SUBSET Records]
    PROVE  TypeOK' /\ OneAtATime' /\ PageIsCurrent' /\ PassIsComplete'
<1>1. job # None /\ last = None
  BY DEF IInv, PageIsCurrent, OneAtATime
<1>2. db' = T /\ read' = None /\ last' = None
  BY <1>1 DEF Commit
<1>3. TypeOK'
  BY <1>2 DEF IInv, TypeOK, Good
<1> QED
  BY <1>2, <1>3 DEF OneAtATime, PageIsCurrent, PassIsComplete

\* The place after a page by key is one of its papers.
LEMMA NextPlaceByKey ==
    ASSUME IInv, read # None, job.kind \in ByKey
    PROVE  /\ Advanced = [job EXCEPT !.after = Max(Page(read))]
           /\ Max(Page(read)) \in Papers
           /\ Page(read) \subseteq Alive(read) /\ Page(read) \subseteq Selected(read)
           /\ job \in Job /\ read \in Tables
<1>1. job # None /\ job \in Job /\ read \in Tables /\ Page(read) # {}
  BY JobsAreTyped DEF IInv, TypeOK, PageIsCurrent, OneAtATime
<1>2. Max(Page(read)) \in Papers /\ Page(read) \subseteq Alive(read) /\ Page(read) \subseteq Selected(read)
  BY <1>1, PageByKey
<1> QED
  BY <1>1, <1>2 DEF Advanced, ByKey

LEMMA RewrittenIsARow ==
    ASSUME NEW row \in Row, NEW seen \in Row, job.kind \in {"fields", "titles", "dates"}
    PROVE  Rewritten(row, seen) \in Row
  BY DEF Rewritten, Row

LEMMA RewritingADone ==
    ASSUME NEW row \in Row, job.kind \in {"fields", "titles", "dates"}
    PROVE  LET new == Rewritten(row, row) IN
           /\ job.kind = "fields" => new.fields = new.said
           /\ job.kind = "titles" => new.key = new.said
           /\ job.kind = "dates" => ~ new.far
  BY DEF Rewritten, Row

LEMMA RewriteKeeps ==
    ASSUME IInv, Rewrite
    PROVE  IInv'
<1> DEFINE stale == {p \in Page(read) : Stale(read.paper[p])}
           T == [db EXCEPT !.paper = [p \in Papers |->
                     IF p \in stale THEN Rewritten(db.paper[p], read.paper[p]) ELSE db.paper[p]]]
<1>1. /\ read # None /\ job.kind \in {"fields", "titles", "dates"} /\ job.kind \in ByKey
      /\ stale \subseteq Alive(db) /\ Commit(T) /\ job' = Advanced /\ touched' = touched
  BY DEF Rewrite, ByKey
<1>2. /\ job' = [job EXCEPT !.after = Max(Page(read))] /\ Max(Page(read)) \in Papers
      /\ Page(read) \subseteq Alive(read)
      /\ job \in Job /\ read \in Tables
  BY <1>1, NextPlaceByKey
<1>3. Good(db) /\ db \in Tables
  BY TablesAreGood DEF IInv
<1>4. \A p \in stale : p \in Page(read) /\ Stale(read.paper[p])
  OBVIOUS
<1>5. \A p \in Page(read) \ stale : ~ Stale(read.paper[p])
  OBVIOUS
<1> HIDE DEF stale
<1>6. \A p \in stale : Rewritten(db.paper[p], read.paper[p]) \in Row
  BY <1>1, <1>2, <1>4, RewrittenIsARow DEF Alive
<1>7. /\ T.record = db.record /\ T.says = db.says
      /\ \A p \in Papers : T.paper[p] = IF p \in stale THEN Rewritten(db.paper[p], read.paper[p]) ELSE db.paper[p]
      /\ T \in Tables
  BY <1>3, <1>6, PartsOfTables DEF Tables
<1> HIDE DEF T
<1>8. Good(T)
  BY <1>3, <1>6, <1>7 DEF Good
<1>9. job' \in Job /\ job'.kind = job.kind /\ job'.after = Max(Page(read))
  BY <1>2 DEF Job
<1>10. TypeOK' /\ OneAtATime' /\ PageIsCurrent' /\ PassIsComplete'
  BY <1>1, <1>8, <1>9, AfterACommit DEF IInv, TypeOK
<1>11. db' = T /\ touched' = touched
  BY <1>1 DEF Commit
<1>12. ASSUME NEW p \in Untouched', p <= Max(Page(read))
       PROVE  Done(db', job', p)
  <2>1. p \in Papers /\ T.paper[p] \in Row /\ p \notin touched.papers
    BY <1>11, <1>12 DEF Untouched, Alive
  <2>2. p \in Untouched
    BY <1>1, <1>7, <2>1 DEF Untouched, Alive
  <2>3. read.paper[p] = db.paper[p] /\ db.paper[p] \in Row
    BY <1>1, <2>2 DEF IInv, PageIsCurrent, SameOf, Untouched, Alive
  <2>4. p \in Selected(read)
    BY <1>1, <2>1, <2>3 DEF Selected, Alive
  <2>5. Done(db, job, p) \/ p \in Page(read)
    BY <1>1, <1>12, <2>2, <2>4, WithinReach
  <2>6. CASE p \in stale
    <3>1. T.paper[p] = Rewritten(db.paper[p], db.paper[p])
      BY <1>7, <2>1, <2>3, <2>6
    <3> QED
      BY <1>1, <1>9, <1>11, <2>3, <3>1, RewritingADone DEF Done
  <2>7. CASE p \notin stale
    <3>1. T.paper[p] = db.paper[p]
      BY <1>7, <2>1, <2>7
    <3>2. Done(db, job, p) \/ ~ Stale(db.paper[p])
      BY <1>5, <2>3, <2>5, <2>7
    <3> QED
      BY <1>1, <1>9, <1>11, <3>1, <3>2 DEF Done, Stale
  <2> QED
    BY <2>6, <2>7
<1>13. NothingLeftBehind'
  BY <1>1, <1>9, <1>12 DEF NothingLeftBehind
<1> QED
  BY <1>10, <1>13 DEF IInv

\* A prune changes nothing of a paper that stays, but that it loses records.
LEMMA PruningKeepsTables ==
    ASSUME Good(db), NEW gone \in SUBSET Papers, NEW rs, \A r \in rs : db.record[r] # Absent
    PROVE  LET U == Pruned(gone, rs) IN
           /\ Good(U) /\ U.says = db.says
           /\ \A p \in Alive(U) : /\ p \in Alive(db) \ gone /\ U.paper[p] = db.paper[p]
                                   /\ RecordsOf(U, p) = RecordsOf(db, p) \ rs
           /\ \A p \in Alive(db) : p \notin gone => p \in Alive(U)
<1> DEFINE rest == Without(db, gone)
           U == Pruned(gone, rs)
<1>1. /\ rest \in Tables
      /\ \A p \in Papers : rest.paper[p] = IF p \in gone THEN None ELSE db.paper[p]
      /\ \A x \in Records : rest.record[x] = IF db.record[x] \in gone THEN None ELSE db.record[x]
      /\ rest.says = db.says
  BY WhatRemovingDoes DEF Good
<1>2. U = [rest EXCEPT !.record = [r \in Records |-> IF r \in rs THEN None ELSE rest.record[r]]]
  BY DEF Pruned
<1> HIDE DEF rest, U
<1>3. /\ U \in Tables /\ U.paper = rest.paper /\ U.says = rest.says
      /\ \A x \in Records : U.record[x] = IF x \in rs THEN None ELSE rest.record[x]
  BY <1>1, <1>2, PartsOfTables DEF Tables
<1>4. \A x \in Records : U.record[x] = IF x \in rs \/ db.record[x] \in gone THEN None ELSE db.record[x]
  BY <1>1, <1>3
<1>5. \A p \in Papers : U.paper[p] = IF p \in gone THEN None ELSE db.paper[p]
  BY <1>1, <1>3
<1>6. ASSUME NEW x \in Records, U.record[x] \in Papers PROVE U.paper[U.record[x]] \in Row
  <2>1. U.record[x] = db.record[x] /\ db.record[x] \notin gone
    BY <1>4, <1>6, NoneIsApart
  <2> QED
    BY <1>5, <1>6, <2>1 DEF Good
<1>7. ASSUME NEW x \in Records PROVE U.says[x] = Absent <=> U.record[x] = Absent
  <2>1. U.says[x] = Absent <=> db.record[x] = Absent
    BY <1>1, <1>3 DEF Good
  <2>2. CASE x \in rs \/ db.record[x] \in gone
    <3>1. db.record[x] # Absent
      BY <2>2, NoneIsApart
    <3> QED
      BY <1>4, <2>1, <2>2, <3>1, NoneIsApart
  <2>3. CASE ~ (x \in rs \/ db.record[x] \in gone)
    BY <1>4, <2>1, <2>3
  <2> QED
    BY <2>2, <2>3
<1>8. Good(U)
  BY <1>3, <1>6, <1>7 DEF Good
<1>9. ASSUME NEW p \in Alive(U)
      PROVE  /\ p \in Alive(db) \ gone /\ U.paper[p] = db.paper[p]
             /\ RecordsOf(U, p) = RecordsOf(db, p) \ rs
  <2>1. p \in Papers /\ p \notin gone /\ db.paper[p] = U.paper[p] /\ db.paper[p] \in Row
    BY <1>5, NoneIsApart DEF Alive
  <2>2. \A x \in Records : U.record[x] = p <=> db.record[x] = p /\ x \notin rs
    BY <1>4, <2>1, NoneIsApart
  <2> QED
    BY <2>1, <2>2 DEF RecordsOf, Alive
<1>10. \A p \in Alive(db) : p \notin gone => p \in Alive(U)
  BY <1>5 DEF Alive
<1> QED
  BY <1>1, <1>3, <1>8, <1>9, <1>10 DEF U

LEMMA PruneUncorroboratedKeeps ==
    ASSUME IInv, PruneUncorroborated
    PROVE  IInv'
<1> DEFINE gone == {p \in Page(read) : IsUncorroborated(read, p)}
           rs == UNION {RecordsOf(read, p) : p \in gone}
<1>1. /\ read # None /\ job.kind = "uncorroborated" /\ job.kind \in ByKey
      /\ Commit(Pruned(gone, rs)) /\ job' = Advanced /\ touched' = touched
  BY DEF PruneUncorroborated, ByKey
<1>2. /\ job' = [job EXCEPT !.after = Max(Page(read))] /\ Max(Page(read)) \in Papers
      /\ Page(read) \subseteq Alive(read)
      /\ job \in Job /\ read \in Tables
  BY <1>1, NextPlaceByKey
<1>3. Good(db) /\ Good(read) /\ Stays(read, db)
  BY <1>1, TablesAreGood DEF IInv, PageIsCurrent
<1>4. gone \in SUBSET Papers
  BY <1>2 DEF Alive
<1>5. \A p \in Page(read) \ gone : ~ IsUncorroborated(read, p)
  OBVIOUS
<1> HIDE DEF gone
<1>6. \A r \in rs : r \in Records /\ read.record[r] \in gone
  BY DEF RecordsOf
<1>7. \A r \in rs : db.record[r] # Absent
  BY <1>3, <1>4, <1>6, NoneIsApart DEF Stays
<1> HIDE DEF rs
<1> DEFINE T == Pruned(gone, rs)
<1>8. /\ Good(T) /\ T.says = db.says
      /\ \A p \in Alive(T) : /\ p \in Alive(db) \ gone /\ T.paper[p] = db.paper[p]
                              /\ RecordsOf(T, p) = RecordsOf(db, p) \ rs
  BY <1>3, <1>4, <1>7, PruningKeepsTables
<1> HIDE DEF T
<1>9. /\ job' \in Job /\ job'.kind = job.kind /\ job'.after = Max(Page(read))
      /\ job'.scanned = job.scanned /\ job'.asked = job.asked
  BY <1>2 DEF Job
<1>10. Commit(T)
  BY <1>1 DEF T
<1>11. TypeOK' /\ OneAtATime' /\ PageIsCurrent' /\ PassIsComplete'
  BY <1>1, <1>8, <1>9, <1>10, AfterACommit DEF IInv, TypeOK
<1>12. db' = T
  BY <1>10 DEF Commit
<1>13. ASSUME NEW p \in Untouched', p <= Max(Page(read))
       PROVE  Done(db', job', p)
  <2>1. p \in Alive(T) /\ p \in Papers /\ p \notin touched.papers
    BY <1>1, <1>12, <1>13 DEF Untouched, Alive
  <2>2. p \in Untouched /\ p \notin gone /\ T.paper[p] = db.paper[p] /\ RecordsOf(T, p) = RecordsOf(db, p) \ rs
    BY <1>8, <2>1 DEF Untouched
  <2>3. SameOf(read, db, p)
    BY <1>1, <2>2 DEF IInv, PageIsCurrent
  <2>4. RecordsOf(db, p) \cap rs = {}
    BY <1>6, <2>2, <2>3 DEF SameOf, RecordsOf
  <2>5. SameOf(db, T, p)
    BY <1>8, <2>2, <2>4 DEF SameOf
  <2>6. p \in Selected(read)
    BY <1>1, <2>1, <2>2, <2>3 DEF Selected, Alive, SameOf, Untouched
  <2>7. Done(db, job, p) \/ p \in Page(read)
    BY <1>1, <1>13, <2>2, <2>6, WithinReach
  <2>8. Done(db, job, p)
    <3>1. p \in Page(read) => ~ IsUncorroborated(read, p)
      BY <1>5, <2>2
    <3> QED
      BY <1>1, <2>3, <2>7, <3>1 DEF Done, SameOf, IsUncorroborated
  <2> QED
    BY <1>1, <1>9, <1>12, <2>1, <2>5, <2>8, DoneBySame
<1>14. NothingLeftBehind'
  BY <1>1, <1>9, <1>13 DEF NothingLeftBehind
<1> QED
  BY <1>11, <1>14 DEF IInv

LEMMA PruneOutOfScopeKeeps ==
    ASSUME IInv, PruneOutOfScope
    PROVE  IInv'
<1> DEFINE refused == {p \in Alive(read) \cap Alive(db) : Inadmissible(p)}
           removed == {p \in refused : OnlyScanned(p)}
           rs == UNION {ScannedOf(p) : p \in refused}
<1>1. read # None /\ job.kind = "scope" /\ Commit(Pruned(removed, rs)) /\ job' = Advanced /\ touched' = touched
  BY DEF PruneOutOfScope
<1>2. job # None /\ job \in Job /\ read \in Tables
  BY <1>1, JobsAreTyped DEF IInv, TypeOK, PageIsCurrent, OneAtATime
<1>3. Good(db) /\ Good(read) /\ Stays(read, db)
  BY <1>1, TablesAreGood DEF IInv, PageIsCurrent
<1>4. removed \in SUBSET Papers /\ removed \subseteq refused
  BY DEF Alive
<1>5. \A p \in Papers : p \in refused <=> p \in Alive(read) /\ p \in Alive(db) /\ Inadmissible(p)
  OBVIOUS
<1> HIDE DEF removed
<1>6. \A p \in refused : p \in Papers
  BY DEF Alive
<1> HIDE DEF refused
<1>7. \A r : r \in rs <=> \E q \in refused : r \in Records /\ read.record[r] = q /\ SourceOf[r] \in job.scanned
  BY DEF ScannedOf, RecordsOf
<1> HIDE DEF rs
<1>8. \A r \in rs : db.record[r] # Absent
  BY <1>3, <1>6, <1>7, NoneIsApart DEF Stays
<1> DEFINE T == Pruned(removed, rs)
<1>9. /\ Good(T) /\ T.says = db.says
      /\ \A p \in Alive(T) : /\ p \in Alive(db) \ removed /\ T.paper[p] = db.paper[p]
                              /\ RecordsOf(T, p) = RecordsOf(db, p) \ rs
  BY <1>3, <1>4, <1>8, PruningKeepsTables
<1>10. Commit(T)
  BY <1>1
<1> HIDE DEF T
<1>11. /\ job' \in Job /\ job'.kind = "scope"
       /\ job'.scanned = job.scanned /\ job'.asked = job.asked
  <2>1. IsFiniteSet(Page(read))
    <3>1. Page(read) \in SUBSET Papers
      BY <1>1 DEF Page, Alive
    <3> QED
      BY <3>1, SetsAreFinite
  <2>2. Cardinality(Page(read)) \in Nat
    BY <2>1, FS_CardinalityType
  <2>3. job' = [job EXCEPT !.seen = job.seen + Cardinality(Page(read))]
    BY <1>1 DEF Advanced
  <2>4. job.seen + Cardinality(Page(read)) \in Nat
    BY <1>2, <2>2 DEF Job
  <2> QED
    BY <1>1, <1>2, <2>3, <2>4 DEF Job
<1>12. TypeOK' /\ OneAtATime' /\ PageIsCurrent' /\ PassIsComplete'
  BY <1>1, <1>9, <1>10, <1>11, AfterACommit DEF IInv, TypeOK
<1>13. db' = T
  BY <1>10 DEF Commit
<1>14. ASSUME NEW p \in Untouched' PROVE Done(db', job', p)
  <2>1. p \in Alive(T) /\ p \in Papers /\ p \notin touched.papers
    BY <1>1, <1>13, <1>14 DEF Untouched, Alive
  <2>2. p \in Alive(db) /\ p \in Untouched /\ RecordsOf(T, p) = RecordsOf(db, p) \ rs
    BY <1>9, <2>1 DEF Untouched
  <2>3. SameOf(read, db, p)
    BY <1>1, <2>2 DEF IInv, PageIsCurrent
  <2>4. /\ p \in Alive(read) /\ RecordsOf(read, p) = RecordsOf(db, p)
        /\ \A r \in RecordsOf(read, p) : read.says[r] = db.says[r]
    BY <2>2, <2>3 DEF SameOf, Alive
  <2>5. CASE p \in refused
    <3>1. \A r \in RecordsOf(T, p) : SourceOf[r] \notin job.scanned
      BY <1>7, <2>2, <2>4, <2>5 DEF RecordsOf
    <3> QED
      BY <1>11, <1>13, <3>1 DEF Done
  <2>6. CASE p \notin refused
    <3>1. RecordsOf(T, p) = RecordsOf(read, p)
      <4>1. RecordsOf(read, p) \cap rs = {}
        BY <1>7, <2>6 DEF RecordsOf
      <4> QED
        BY <2>2, <2>4, <4>1
    <3>2. ~ Inadmissible(p)
      BY <1>5, <2>1, <2>2, <2>4, <2>6
    <3>3. ASSUME NEW r \in RecordsOf(T, p), SourceOf[r] \in job.scanned
          PROVE  \E x \in RecordsOf(T, p) : SourceOf[x] \in job.scanned /\ T.says[x] # "refused"
      <4>1. r \in ScannedOf(p)
        BY <3>1, <3>3 DEF ScannedOf
      <4>2. PICK x \in ScannedOf(p) : read.says[x] # "refused"
        BY <3>2, <4>1 DEF Inadmissible
      <4>3. x \in RecordsOf(read, p) /\ SourceOf[x] \in job.scanned
        BY DEF ScannedOf
      <4> QED
        BY <1>9, <2>4, <3>1, <4>2, <4>3
    <3> QED
      BY <1>11, <1>13, <3>3 DEF Done
  <2> QED
    BY <2>5, <2>6
<1>15. NothingLeftBehind'
  BY <1>11, <1>14 DEF NothingLeftBehind
<1> QED
  BY <1>12, <1>15 DEF IInv

LEMMA ReadmitKeeps ==
    ASSUME IInv, Readmit
    PROVE  IInv'
<1>1. read # None /\ job.kind = "readmit"
  BY DEF Readmit
<1>2. PICK V \in IngestedAll(db, Page(read), read.says) :
         /\ Commit([V EXCEPT !.says = db.says])
         /\ job' = [Advanced EXCEPT
               !.readmitted = job.readmitted \/ \E r \in Page(read) : V.record[r] # None]
         /\ touched' = touched
  BY DEF Readmit
<1>3. job # None /\ job \in Job /\ read \in Tables
  BY <1>1, JobsAreTyped DEF IInv, TypeOK, PageIsCurrent, OneAtATime
<1>4. Good(db) /\ db \in Tables /\ Good(read) /\ Stays(read, db)
  BY <1>1, TablesAreGood DEF IInv, PageIsCurrent
<1>5. /\ Page(read) \subseteq Orphans(read) /\ Cardinality(Page(read)) \in Nat
      /\ \A r \in Orphans(read) : Place(Orphans(read), r) < job.seen + Cardinality(Page(read))
                                    => r \in Page(read) \/ Place(Orphans(read), r) < job.seen
  BY <1>1, <1>3, PageOfOrphans
<1>6. Page(read) \in SUBSET Records
  BY <1>5 DEF Orphans
<1> DEFINE P == Page(read)
           again == job.readmitted \/ \E r \in P : V.record[r] # None
           T == [V EXCEPT !.says = db.says]
<1>7. \A r \in P : read.record[r] = None /\ db.record[r] # Absent /\ read.says[r] \in Verdicts
  <2> SUFFICES ASSUME NEW r \in P
               PROVE  read.record[r] = None /\ db.record[r] # Absent /\ read.says[r] \in Verdicts
    OBVIOUS
  <2>1. r \in Records /\ read.record[r] = None
    BY <1>5 DEF Orphans
  <2>2. db.record[r] # Absent /\ read.says[r] # Absent
    BY <1>4, <2>1, NoneIsApart DEF Stays, Good
  <2>3. read.says[r] \in Verdicts
    BY <1>3, <2>1, <2>2, PartsOfTables
  <2> QED
    BY <2>1, <2>2, <2>3
<1>8. Good(T) /\ T.record = V.record /\ T.says = db.says
  <2> HIDE DEF P
  <2>0. P \in SUBSET Records /\ V \in IngestedAll(db, P, read.says) /\ \A r \in P : read.says[r] \in Verdicts
    BY <1>2, <1>6, <1>7 DEF P
  <2>1. /\ Good(V)
        /\ \A x \in Records : V.record[x] = Absent => db.record[x] = Absent
        /\ \A x \in Records \ P : db.record[x] = Absent => V.record[x] = Absent
    BY <1>4, <2>0, IngestingAllKeepsTables
  <2>2. V \in Tables /\ db.says \in [Records -> Verdicts \cup {Absent}]
    BY <1>4, <2>1, PartsOfTables DEF Good
  <2>3. T \in Tables /\ T.record = V.record /\ T.says = db.says /\ T.paper = V.paper
    BY <2>2 DEF Tables
  <2>4. ASSUME NEW x \in Records PROVE db.says[x] = Absent <=> V.record[x] = Absent
    <3>1. V.record[x] = Absent <=> db.record[x] = Absent
      BY <1>7, <2>1
    <3> QED
      BY <1>4, <3>1 DEF Good
  <2> QED
    BY <2>1, <2>3, <2>4 DEF Good
<1>9. job' = [job EXCEPT !.seen = job.seen + Cardinality(P), !.readmitted = again]
  BY <1>1, <1>2, <1>3 DEF Advanced, Job
<1>10. Commit(T)
  BY <1>2
<1> HIDE DEF again, T
<1>11. job' \in Job /\ job'.kind = "readmit" /\ job'.seen = job.seen + Cardinality(P) /\ job'.readmitted = again
  <2>1. again \in BOOLEAN
    BY DEF again
  <2>2. job.seen + Cardinality(P) \in Nat
    BY <1>3, <1>5 DEF Job
  <2> HIDE DEF P
  <2> QED
    BY <1>1, <1>3, <1>9, <2>1, <2>2 DEF Job
<1>12. TypeOK' /\ OneAtATime' /\ PageIsCurrent' /\ PassIsComplete'
  BY <1>1, <1>2, <1>8, <1>10, <1>11, AfterACommit DEF IInv, TypeOK
<1>13. db' = T /\ touched' = touched
  BY <1>2, <1>10 DEF Commit
<1>14. ASSUME ~ again, touched.records = {},
              NEW r \in Orphans(T), Place(Orphans(T), r) < job.seen + Cardinality(P)
       PROVE  T.says[r] # "vouched"
  <2>1. ~ job.readmitted /\ \A x \in P : V.record[x] = None
    BY <1>14 DEF again
  <2>2. db.record = read.record /\ db.says = read.says
    BY <1>1, <1>14 DEF IInv, PageIsCurrent
  <2>3. Orphans(db) = Orphans(read)
    BY <2>2 DEF Orphans
  <2>4. \A x \in P : db.record[x] = None
    BY <1>5, <2>2 DEF Orphans
  <2> HIDE DEF P
  <2>5. P \in SUBSET Records /\ V \in IngestedAll(db, P, read.says) /\ \A x \in P : read.says[x] \in Verdicts
    BY <1>2, <1>6, <1>7 DEF P
  <2>6. V.record = db.record /\ \A x \in P : read.says[x] # "vouched"
    BY <1>4, <2>1, <2>4, <2>5, WhatReadmittingLeaves
  <2>7. Orphans(T) = Orphans(db)
    BY <1>8, <2>6 DEF Orphans
  <2>8. r \in P \/ Place(Orphans(db), r) < job.seen
    BY <1>5, <1>14, <2>3, <2>7 DEF P
  <2>9. Place(Orphans(db), r) < job.seen => db.says[r] # "vouched"
    BY <1>1, <1>3, <1>14, <2>1, <2>7 DEF IInv, NothingLeftBehind
  <2> QED
    BY <1>8, <2>2, <2>6, <2>8, <2>9
<1>15. NothingLeftBehind'
  <2> HIDE DEF P
  <2> QED
    BY <1>11, <1>13, <1>14 DEF NothingLeftBehind
<1> QED
  BY <1>12, <1>15 DEF IInv

LEMMA EnrichKeeps ==
    ASSUME IInv, Enrich
    PROVE  IInv'
<1>1. read # None /\ job.kind = "enrich" /\ job.kind \in ByKey
  BY DEF Enrich, ByKey
<1> DEFINE P == Page(read) \ Unfilterable
<1>2. PICK works \in Answers(P) : \E says \in [works -> Verdicts] : \E T \in IngestedAll(db, works, says) :
         Commit(T) /\ touched' = [touched EXCEPT !.papers = touched.papers \cup Robbed(db, T)]
  BY DEF Enrich
<1>3. PICK says \in [works -> Verdicts] : \E T \in IngestedAll(db, works, says) :
         Commit(T) /\ touched' = [touched EXCEPT !.papers = touched.papers \cup Robbed(db, T)]
  BY <1>2
<1>4. PICK T \in IngestedAll(db, works, says) :
         Commit(T) /\ touched' = [touched EXCEPT !.papers = touched.papers \cup Robbed(db, T)]
  BY <1>3
<1>5. works \in SUBSET {r \in Records : SourceOf[r] = "openalex"}
  BY DEF Answers
<1>6. job' = [Advanced EXCEPT !.asked = job.asked \cup P]
  BY DEF Enrich
<1>7. /\ Advanced = [job EXCEPT !.after = Max(Page(read))] /\ Max(Page(read)) \in Papers
      /\ Page(read) \subseteq Alive(read)
      /\ job \in Job /\ read \in Tables
  BY <1>1, NextPlaceByKey
<1>8. Good(db)
  BY TablesAreGood DEF IInv
<1>9. P \in SUBSET Papers
  BY <1>7 DEF Alive
<1>10. P \cup Unfilterable = Page(read) \cup Unfilterable
  OBVIOUS
<1> HIDE DEF P
<1>11. Good(T)
  <2>1. works \in SUBSET Records
    BY <1>5
  <2>2. \A r \in works : says[r] \in Verdicts
    OBVIOUS
  <2> QED
    BY <1>4, <1>8, <2>1, <2>2, IngestingAllKeepsTables
<1>12. ASSUME NEW p \in Papers, IsCandidate(T, p) PROVE IsCandidate(db, p) \/ p \in Robbed(db, T)
  <2>1. \A r \in works : says[r] \in Verdicts
    OBVIOUS
  <2> QED
    BY <1>4, <1>5, <1>8, <1>12, <2>1, WhatAnswersDo
<1>13. /\ touched'.papers = touched.papers \cup Robbed(db, T)
       /\ touched' \in [papers : SUBSET Papers, records : SUBSET Records]
  <2>1. touched \in [papers : SUBSET Papers, records : SUBSET Records] /\ Robbed(db, T) \in SUBSET Papers
    BY DEF IInv, TypeOK, Robbed
  <2> QED
    BY <1>4, <2>1
<1>14. /\ job' \in Job /\ job'.kind = "enrich" /\ job'.after = Max(Page(read))
      /\ job'.asked = job.asked \cup P
  <2>1. job' = [job EXCEPT !.after = Max(Page(read)), !.asked = job.asked \cup P]
    BY <1>6, <1>7
  <2>2. job.asked \cup P \in SUBSET Papers
    BY <1>7, <1>9 DEF Job
  <2> QED
    BY <1>1, <1>7, <2>1, <2>2 DEF Job
<1>15. TypeOK' /\ OneAtATime' /\ PageIsCurrent' /\ PassIsComplete'
  BY <1>1, <1>4, <1>11, <1>13, <1>14, AfterACommit
<1>16. db' = T
  BY <1>4 DEF Commit
<1>17. ASSUME NEW p \in Untouched', p <= Max(Page(read))
       PROVE  Done(db', job', p)
  <2>1. SUFFICES ASSUME IsCandidate(T, p) PROVE p \in job.asked \cup P \cup Unfilterable
    BY <1>14, <1>16 DEF Done
  <2>2. p \in Papers /\ p \notin touched.papers /\ p \notin Robbed(db, T)
    BY <1>13, <1>17 DEF Untouched, Alive
  <2>3. IsCandidate(db, p)
    BY <1>12, <2>1, <2>2
  <2>4. p \in Untouched
    BY <2>2, <2>3 DEF Untouched, IsCandidate
  <2>5. SameOf(read, db, p)
    BY <1>1, <2>4 DEF IInv, PageIsCurrent
  <2>6. p \in Selected(read)
    BY <1>1, <2>2, <2>3, <2>5, SameCandidate DEF Selected
  <2>7. Done(db, job, p) \/ p \in Page(read)
    BY <1>1, <1>17, <2>4, <2>6, WithinReach
  <2>8. Done(db, job, p) => p \in job.asked \cup Unfilterable
    BY <1>1, <2>3 DEF Done
  <2> QED
    BY <1>10, <2>7, <2>8
<1>18. NothingLeftBehind'
  BY <1>14, <1>17 DEF NothingLeftBehind
<1> QED
  BY <1>15, <1>18 DEF IInv

\* The harvest changes nothing of what it is not recorded to have written.
LEMMA HarvestKeeps ==
    ASSUME IInv, NEW r \in Records, Harvest(r)
    PROVE  IInv'
<1>1. PICK v \in Sends[r] : db' \in Ingested(db, r, v)
  BY DEF Harvest
<1>2. last' = None /\ read' = read /\ job' = job
  BY DEF Harvest
<1>3. Good(db) /\ db \in Tables
  BY TablesAreGood DEF IInv
<1>4. v \in Verdicts
  BY RecordsAreJudged
<1>5. Ingests(db, r, v, db')
  BY <1>1, <1>3, <1>4, IngestedIngests
<1>6. /\ Good(db') /\ db' \in Tables /\ db'.record[r] # Absent
      /\ \A x \in Records : x # r => (db'.record[x] = Absent <=> db.record[x] = Absent)
  BY <1>3, <1>4, <1>5, IngestingKeepsTables DEF Good
<1>7. Stays(db, db')
  BY <1>6 DEF Stays
<1>8. PassIsComplete' /\ OneAtATime'
  BY <1>2 DEF PassIsComplete, OneAtATime, IInv
<1>9. CASE job = None
  <2>1. touched' = Nothing /\ read = None
    BY <1>9 DEF Harvest, IInv, OneAtATime
  <2>2. TypeOK'
    BY <1>2, <1>6, <2>1 DEF IInv, TypeOK, Good, Nothing
  <2> QED
    BY <1>2, <1>8, <1>9, <2>1, <2>2 DEF IInv, PageIsCurrent, NothingLeftBehind
<1>10. CASE job # None
  <2> DEFINE W == Written(db, db')
  <2>1. touched' = [papers  |-> touched.papers \cup W.papers, records |-> touched.records \cup W.records]
    BY <1>10 DEF Harvest
  <2>2. /\ touched \in [papers : SUBSET Papers, records : SUBSET Records]
        /\ W.papers \in SUBSET Papers /\ W.records \in SUBSET Records
    BY DEF IInv, TypeOK, Written
  <2>3. /\ touched'.papers = touched.papers \cup W.papers
        /\ touched'.records = touched.records \cup W.records
        /\ touched' \in [papers : SUBSET Papers, records : SUBSET Records]
    BY <2>1, <2>2
  <2>4. TypeOK'
    BY <1>2, <1>6, <2>3 DEF IInv, TypeOK, Good
  <2>5. ASSUME NEW p \in Untouched' PROVE p \in Untouched /\ SameOf(db, db', p)
    <3>1. p \in Alive(db') /\ p \in Papers /\ p \notin touched.papers /\ p \notin W.papers
      BY <2>3, <2>5 DEF Untouched, Alive
    <3>2. SameOf(db, db', p)
      BY <3>1, WrittenIsWhatChanged
    <3> QED
      BY <3>1, <3>2 DEF Untouched, Alive, SameOf
  <2>6. ASSUME touched'.records = {}
        PROVE  touched.records = {} /\ db'.record = db.record /\ db'.says = db.says
    <3>1. touched.records = {} /\ W.records = {}
      BY <2>3, <2>6
    <3>2. \A x \in Records : db'.record[x] = db.record[x] /\ db'.says[x] = db.says[x]
      BY <3>1, WrittenIsWhatChanged
    <3>3. /\ db.record \in [Records -> Papers \cup {None, Absent}] /\ db'.record \in [Records -> Papers \cup {None, Absent}]
          /\ db.says \in [Records -> Verdicts \cup {Absent}] /\ db'.says \in [Records -> Verdicts \cup {Absent}]
      BY <1>3, <1>6, PartsOfTables
    <3> QED
      BY <3>1, <3>2, <3>3
  <2> HIDE DEF W
  <2>7. Page(read)' = Page(read)
    BY <1>2 DEF Page, Selected
  <2>8. PageIsCurrent'
    <3> SUFFICES ASSUME read # None
                 PROVE  /\ Page(read) # {}
                        /\ \A p \in Untouched' : SameOf(read, db', p)
                        /\ touched'.records = {} => db'.record = read.record /\ db'.says = read.says
                        /\ Good(read) /\ Stays(read, db')
      BY <1>2, <2>7 DEF PageIsCurrent
    <3>1. /\ Page(read) # {} /\ \A p \in Untouched : SameOf(read, db, p)
          /\ touched.records = {} => db.record = read.record /\ db.says = read.says
          /\ Good(read) /\ Stays(read, db)
      BY DEF IInv, PageIsCurrent
    <3>2. \A p \in Untouched' : SameOf(read, db', p)
      BY <2>5, <3>1 DEF SameOf
    <3>3. Stays(read, db')
      BY <1>7, <3>1 DEF Stays
    <3> QED
      BY <2>6, <3>1, <3>2, <3>3
  <2>9. job \in Job /\ job.kind \in ByKey \cup {"scope", "readmit"}
    BY <1>10, JobsAreTyped, KindsOfJobs DEF IInv
  <2>10. ASSUME NEW p \in Untouched', job.kind \in ByKey \cup {"scope"}, Done(db, job, p)
         PROVE  Done(db', job', p)
    <3>1. p \in Papers
      BY DEF Untouched, Alive
    <3> QED
      BY <1>2, <2>5, <2>10, <3>1, DoneBySame
  <2>11. NothingLeftBehind'
    <3>1. CASE job.kind \in ByKey
      <4>1. \A p \in Untouched : p <= job.after => Done(db, job, p)
        BY <1>10, <3>1 DEF IInv, NothingLeftBehind, ByKey
      <4>2. \A p \in Untouched' : p <= job.after => Done(db', job', p)
        BY <2>5, <2>10, <3>1, <4>1
      <4> QED
        BY <1>2, <3>1, <4>2 DEF NothingLeftBehind, ByKey
    <3>2. CASE job.kind = "scope"
      <4>1. job.seen # 0 => \A p \in Untouched : Done(db, job, p)
        BY <1>10, <3>2 DEF IInv, NothingLeftBehind
      <4>2. job.seen # 0 => \A p \in Untouched' : Done(db', job', p)
        BY <2>5, <2>10, <3>2, <4>1
      <4> QED
        BY <1>2, <3>2, <4>2 DEF NothingLeftBehind
    <3>3. CASE job.kind = "readmit"
      <4>1. ~ job.readmitted /\ touched.records = {}
              => \A x \in Orphans(db) : Place(Orphans(db), x) < job.seen => db.says[x] # "vouched"
        BY <1>10, <3>3 DEF IInv, NothingLeftBehind
      <4>2. touched'.records = {} => touched.records = {} /\ Orphans(db') = Orphans(db) /\ db'.says = db.says
        BY <2>6 DEF Orphans
      <4> QED
        BY <1>2, <3>3, <4>1, <4>2 DEF NothingLeftBehind
    <3> QED
      BY <2>9, <3>1, <3>2, <3>3
  <2> QED
    BY <1>8, <2>4, <2>8, <2>11 DEF IInv
<1> QED
  BY <1>9, <1>10

LEMMA BeginKeeps ==
    ASSUME IInv, NEW kind \in Kinds, NEW scanned \in SUBSET Sources, Begin(kind, scanned)
    PROVE  IInv'
<1>1. /\ job' = [kind |-> kind, after |-> 0, seen |-> 0, scanned |-> scanned, asked |-> {}, readmitted |-> FALSE]
      /\ last' = None /\ touched' = Nothing
      /\ db' = db /\ read' = read /\ job = None
  BY DEF Begin
<1>2. read = None
  BY <1>1 DEF IInv, OneAtATime
<1>3. /\ job' \in Job /\ job'.kind = kind /\ job'.after = 0 /\ job'.seen = 0
  BY <1>1 DEF Job
<1>4. TypeOK'
  BY <1>1, <1>3 DEF IInv, TypeOK, Nothing
<1>5. \A p \in Papers : ~ (p <= 0)
  <2>1. \A p \in Papers : p \in Nat /\ p # 0
    BY IdsAreOrdered
  <2> QED
    BY <2>1
<1>6. \A r \in Orphans(db) : ~ (Place(Orphans(db), r) < 0)
  <2> DEFINE O == Orphans(db)
  <2>1. O \in SUBSET Nat /\ IsFiniteSet(O)
    BY SetsAreFinite, PartsOfTables, TablesAreGood DEF IInv
  <2> HIDE DEF O
  <2>2. \A r \in O : Place(O, r) \in Nat
    BY <2>1, PlaceIsBelow
  <2>3. \A r \in O : ~ (Place(O, r) < 0)
    BY <2>2
  <2> QED
    BY <2>3 DEF O
<1>7. NothingLeftBehind'
  BY <1>1, <1>3, <1>5, <1>6 DEF NothingLeftBehind, Untouched, Alive
<1> QED
  BY <1>1, <1>2, <1>4, <1>7 DEF IInv, OneAtATime, PageIsCurrent, PassIsComplete

LEMMA FetchKeeps ==
    ASSUME IInv, Fetch
    PROVE  IInv'
<1>1. /\ job # None /\ read = None /\ Page(db) # {} /\ read' = db
      /\ db' = db /\ job' = job /\ last' = last /\ touched' = touched
  BY DEF Fetch
<1>2. TypeOK'
  BY <1>1 DEF IInv, TypeOK
<1>3. Page(read)' = Page(db)
  BY <1>1 DEF Page, Selected
<1>4. Untouched' = Untouched
  BY <1>1 DEF Untouched
<1>5. PageIsCurrent'
  <2>1. Good(db)
    BY TablesAreGood DEF IInv
  <2> QED
    BY <1>1, <1>3, <1>4, <2>1 DEF PageIsCurrent, SameOf, Stays
<1>6. NothingLeftBehind'
  BY <1>1, <1>4 DEF IInv, NothingLeftBehind
<1>7. PassIsComplete'
  BY <1>1 DEF IInv, OneAtATime, PassIsComplete
<1> QED
  BY <1>1, <1>2, <1>5, <1>6, <1>7 DEF IInv, OneAtATime

\* An empty page: what is left behind is everything.
LEMMA EndKeeps ==
    ASSUME IInv, End
    PROVE  IInv'
<1>1. /\ job # None /\ read = None /\ Page(db) = {}
      /\ last' = [job EXCEPT !.after = 0, !.seen = 0] /\ job' = None
      /\ db' = db /\ read' = read /\ touched' = touched
  BY DEF End
<1>2. job \in Job /\ job.kind \in ByKey \cup {"scope", "readmit"} /\ db \in Tables
  BY <1>1, JobsAreTyped, KindsOfJobs, TablesAreGood DEF IInv
<1>3. /\ last' \in Job /\ last'.kind = job.kind /\ last'.scanned = job.scanned
      /\ last'.asked = job.asked /\ last'.readmitted = job.readmitted
  BY <1>1, <1>2 DEF Job
<1>4. TypeOK'
  BY <1>1, <1>3 DEF IInv, TypeOK
<1>5. CASE job.kind \in ByKey
  <2>1. \A p \in Selected(db) : p <= job.after
    BY <1>1, <1>2, <1>5, PageByKey
  <2>2. \A p \in Untouched : p <= job.after => Done(db, job, p)
    BY <1>1, <1>5 DEF IInv, NothingLeftBehind, ByKey
  <2>3. ASSUME NEW p \in Untouched PROVE Done(db, job, p)
    <3>1. CASE p \in Selected(db)
      BY <2>1, <2>2, <3>1
    <3>2. CASE p \notin Selected(db)
      <4>1. job.kind = "enrich" /\ ~ IsCandidate(db, p)
        BY <3>2 DEF Selected, Untouched, Alive
      <4> QED
        BY <4>1 DEF Done
    <3> QED
      BY <3>1, <3>2
  <2>4. PassIsComplete'
    BY <1>1, <1>3, <1>5, <2>3 DEF PassIsComplete, Done, Untouched, ByKey
  <2> QED
    BY <1>1, <1>4, <2>4 DEF IInv, OneAtATime, PageIsCurrent, NothingLeftBehind
<1>6. CASE job.kind = "scope"
  <2>1. job.seen # 0 \/ Alive(db) = {}
    BY <1>1, <1>6 DEF Page
  <2>2. \A p \in Untouched : Done(db, job, p)
    BY <1>1, <1>6, <2>1 DEF IInv, NothingLeftBehind, Untouched
  <2>3. PassIsComplete'
    BY <1>1, <1>3, <1>6, <2>2 DEF PassIsComplete, Done, Untouched
  <2> QED
    BY <1>1, <1>4, <2>3 DEF IInv, OneAtATime, PageIsCurrent, NothingLeftBehind
<1>7. CASE job.kind = "readmit"
  <2>1. \A r \in Orphans(db) : Place(Orphans(db), r) < job.seen
    BY <1>1, <1>2, <1>7, PageOfOrphans
  <2>2. ~ job.readmitted /\ touched.records = {} => \A r \in Orphans(db) : db.says[r] # "vouched"
    BY <1>1, <1>7, <2>1 DEF IInv, NothingLeftBehind
  <2>3. PassIsComplete'
    BY <1>1, <1>3, <1>7, <2>2 DEF PassIsComplete
  <2> QED
    BY <1>1, <1>4, <2>3 DEF IInv, OneAtATime, PageIsCurrent, NothingLeftBehind
<1> QED
  BY <1>2, <1>5, <1>6, <1>7

LEMMA FailKeeps ==
    ASSUME IInv, Fail
    PROVE  IInv'
<1>1. /\ job # None /\ job' = None /\ read' = None /\ touched' = Nothing
      /\ db' = db /\ last' = last
  BY DEF Fail
<1>2. TypeOK' /\ last' = None
  BY <1>1 DEF IInv, TypeOK, OneAtATime, Nothing
<1> QED
  BY <1>1, <1>2 DEF IInv, OneAtATime, PageIsCurrent, NothingLeftBehind, PassIsComplete

LEMMA InitIsInvariant == Init => IInv
<1> SUFFICES ASSUME Init PROVE IInv
  OBVIOUS
<1>1. /\ db \in [paper : [Papers -> Legacy \cup {Absent}],
                  record : [Records -> Papers \cup {None, Absent}], says : [Records -> Verdicts \cup {Absent}]]
      /\ read = None /\ job = None /\ last = None /\ touched = Nothing
  BY DEF Init
<1>2. db \in Tables
  BY <1>1, LegacyRows DEF Tables
<1>3. \A r \in Records : db.record[r] \in Papers => db.paper[db.record[r]] \in Row
  BY DEF Init, Alive
<1>4. ASSUME NEW r \in Records PROVE db.says[r] = Absent <=> db.record[r] = Absent
  <2>1. db.says[r] \in IF db.record[r] = Absent THEN {Absent} ELSE Sends[r]
    BY DEF Init
  <2>2. Sends[r] \subseteq Verdicts
    BY RecordsAreJudged
  <2> QED
    BY <2>1, <2>2, NoneIsApart
<1> QED
  BY <1>1, <1>2, <1>3, <1>4 DEF IInv, TypeOK, OneAtATime, PageIsCurrent, NothingLeftBehind, PassIsComplete, Nothing

LEMMA NextKeeps == IInv /\ [Next]_vars => IInv'
<1> SUFFICES ASSUME IInv, [Next]_vars PROVE IInv'
  OBVIOUS
<1>1. ASSUME NEW kind \in Kinds, NEW scanned \in SUBSET Sources, Begin(kind, scanned) PROVE IInv'
  BY <1>1, BeginKeeps
<1>2. CASE Fetch
  BY <1>2, FetchKeeps
<1>3. CASE Rewrite
  BY <1>3, RewriteKeeps
<1>4. CASE PruneUncorroborated
  BY <1>4, PruneUncorroboratedKeeps
<1>5. CASE PruneOutOfScope
  BY <1>5, PruneOutOfScopeKeeps
<1>6. CASE Readmit
  BY <1>6, ReadmitKeeps
<1>7. CASE Enrich
  BY <1>7, EnrichKeeps
<1>8. CASE End
  BY <1>8, EndKeeps
<1>9. CASE Fail
  BY <1>9, FailKeeps
<1>10. ASSUME NEW r \in Records, Harvest(r) PROVE IInv'
  BY <1>10, HarvestKeeps
<1>11. CASE UNCHANGED vars
  BY <1>11 DEF vars, IInv, TypeOK, OneAtATime, PageIsCurrent, NothingLeftBehind, PassIsComplete,
     Page, Selected, Untouched
<1> QED
  BY <1>1, <1>2, <1>3, <1>4, <1>5, <1>6, <1>7, <1>8, <1>9, <1>10, <1>11 DEF Next, Pass

LEMMA Invariance == Spec => []IInv
  BY InitIsInvariant, NextKeeps, PTL DEF Spec

-----------------------------------------------------------------------------
\* No record is attached to a paper that was pruned or merged away, and every
\* page, job and mark is what the code can make of it.
THEOREM TypeCorrect == Spec => []TypeOK
<1>1. IInv => TypeOK
  BY DEF IInv
<1> QED
  BY <1>1, Invariance, PTL

\* A pass that has ended left no row it has not been through, of any corpus and
\* however the pages fall, but for what the harvest has written since it began:
\* nothing to rewrite or to remove, no candidate that enrich did not ask about
\* and could have asked about, and, when it readmitted none, no orphan that
\* vouches.  It does not say that enrich would find nothing: a paper whose DOI is
\* not known to OpenAlex is a candidate still.
THEOREM PassesAreComplete == Spec => []PassIsComplete
<1>1. IInv => PassIsComplete
  BY DEF IInv
<1> QED
  BY <1>1, Invariance, PTL

\* Neither prune removes a paper that a record speaks for by the time of the
\* removal, whatever its source, if the records judged are still those read and
\* still say what was read: a record that is ingested again, and a work that an
\* unscanned source attached after the page was read, included.
THEOREM PrunesKeepTheVouched == Spec => PruneKeepsVouched
<1>1. ASSUME NEW p \in Alive(db), AsJudged(p), NEW r \in RecordsOf(db, p), Speaks(r), PruneUncorroborated
      PROVE  p \in Alive(db')
  <2> DEFINE gone == {q \in Page(read) : IsUncorroborated(read, q)}
  <2>1. db'.paper = Without(db, gone).paper /\ job.kind = "uncorroborated"
    BY <1>1 DEF PruneUncorroborated, Commit, Pruned, Without
  <2>2. r \in RecordsOf(read, p) /\ read.says[r] = "vouched"
    BY <1>1, <2>1 DEF AsJudged, JudgedOf, Speaks
  <2>3. ~ IsUncorroborated(read, p)
    BY <2>2 DEF IsUncorroborated
  <2>4. p \notin gone
    BY <2>3
  <2> HIDE DEF gone
  <2> QED
    BY <2>1, <2>4 DEF Without, Alive
<1>2. ASSUME NEW p \in Alive(db), AsJudged(p), NEW r \in RecordsOf(db, p), Speaks(r), PruneOutOfScope
      PROVE  p \in Alive(db')
  <2> DEFINE refused == {q \in Alive(read) \cap Alive(db) : Inadmissible(q)}
             removed == {q \in refused : OnlyScanned(q)}
  <2>1. db'.paper = Without(db, removed).paper /\ job.kind = "scope"
    BY <1>2 DEF PruneOutOfScope, Commit, Pruned, Without
  <2>2. p \notin removed
    <3> SUFFICES ASSUME Inadmissible(p), OnlyScanned(p) PROVE FALSE
      OBVIOUS
    <3>1. r \in JudgedOf(db, p)
      BY <1>2, <2>1 DEF OnlyScanned, JudgedOf
    <3>2. r \in ScannedOf(p) /\ read.says[r] = db.says[r]
      BY <1>2, <2>1, <3>1 DEF AsJudged, JudgedOf, ScannedOf
    <3> QED
      BY <1>2, <2>1, <3>2 DEF Speaks, Inadmissible
  <2> HIDE DEF removed
  <2> QED
    BY <2>1, <2>2 DEF Without, Alive
<1>3. [Next]_vars =>
        [(PruneUncorroborated \/ PruneOutOfScope) =>
            \A p \in Alive(db) :
                AsJudged(p) /\ (\E r \in RecordsOf(db, p) : Speaks(r)) => p \in Alive(db')]_vars
  BY <1>1, <1>2
<1> QED
  BY <1>3, PTL DEF Spec, PruneKeepsVouched
================================================================================

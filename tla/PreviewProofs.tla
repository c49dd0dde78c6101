---------------------------- MODULE PreviewProofs ----------------------------
(***************************************************************************)
(* For any drafts, corpus, histories and sizes: what a feed shows passes    *)
(* the reader's filters and names an interest that can be corrected; within *)
(* it, exploration keeps to its share, nothing is said twice and the caps   *)
(* give way last, while papers change and vanish between its statements.    *)
(***************************************************************************)
EXTENDS Preview, ListsProofs

FeedFields  == DOMAIN NoFeed
OriginNames == {"semantic_interest", "field", "sequential", "collaborative", "exploration"}
SourceNames == {"semantic", "field", "sequential", "collaborative", "adjacent"}

IsList(s) == s \in Seq(ToSet(s))

CorpusInv ==
    /\ corpus = [p \in DOMAIN corpus |-> corpus[p]]
    /\ DOMAIN corpus \subseteq Papers
    /\ \A p \in DOMAIN corpus : corpus[p] \in SUBSET Topics

\* A feed is computed for the profile of the draft that goes back with it.
RequestInv ==
    /\ feed = [x \in FeedFields |-> feed[x]]
    /\ feed.pc \in {"idle", "gather", "rank", "pick", "shown"}
    /\ feed.limit \in Nat
    /\ feed.pc # "idle" =>
          /\ draft \in Draft /\ IsProfile(feed.profile)
          /\ \E usable \in SUBSET Papers : feed.profile = ProfileOf(draft, usable)
          /\ feed.account = None \/ feed.account \in Accounts

\* The sources that read the reader's history run for a reader who has one.
Historical == {"sequential", "collaborative"}
HaveHistory(sources, account) ==
    \A n \in DOMAIN sources : sources[n] \in Historical => account # None

\* The lists of the scan and of the pool propose a paper once; the sources that
\* are left have a slot each.
Distinct(list) == \A m, n \in DOMAIN list : list[m][1] = list[n][1] => m = n
IsCandidate(c) == c[1] \in Papers /\ \A r \in c[2] : r.origin \in OriginNames
IsPool(list)   == IsList(list) /\ Distinct(list) /\ \A n \in DOMAIN list : IsCandidate(list[n])

IsScanned(list) == list \in Seq(Papers) /\ IsInjective(list)

PoolInv ==
    /\ IsScanned(feed.scan.top) /\ IsScanned(feed.scan.band)
    /\ IsPool(feed.pool)
    /\ feed.sources \in Seq(SourceNames) /\ Len(feed.sources) <= 5
    /\ HaveHistory(feed.sources, feed.account)
    /\ Len(feed.pool) + Len(feed.sources) <= CandidateTotal

\* What was loaded is as it was: only of a paper that changed is it not as it is.
CacheInv ==
    /\ DOMAIN feed.cache \subseteq Papers
    /\ \A p \in DOMAIN feed.cache :
          /\ feed.cache[p] \in SUBSET Topics
          /\ p \notin feed.touched => p \in DOMAIN corpus /\ feed.cache[p] = corpus[p]

\* A candidate that the filter could not judge is not in the corpus any more.
FilterInv ==
    feed.pc = "rank" =>
        \A n \in DOMAIN feed.pool :
           LET p == feed.pool[n][1]
           IN  /\ p \in DOMAIN feed.cache => Passes(feed.profile, p, feed.cache[p])
               /\ p \notin DOMAIN feed.cache /\ Filters(feed.profile) => p \notin DOMAIN corpus

IsItem(i) ==
    /\ i.paper \in Papers /\ i.topics \in SUBSET Topics /\ i.exploration \in BOOLEAN
    /\ i.score \in 0..1000 /\ i.values \in [Features -> 0..1000]
    /\ i.matched # None => \E j \in ToSet(Semantic(feed.profile, "positive")) : i.matched = j.key
    /\ Passes(feed.profile, i.paper, i.topics)
    /\ i.paper \notin feed.touched => i.paper \in DOMAIN corpus /\ i.topics = corpus[i.paper]

RankedInv ==
    /\ IsList(feed.ranked)
    /\ \A i, j \in ToSet(feed.ranked) : i.paper = j.paper => i = j
    /\ \A i \in ToSet(feed.ranked) : IsItem(i) /\ i.score <= feed.ranked[1].score

\* The running maximum knows every repetition of a chosen paper.
RedundancyInv ==
    /\ DOMAIN feed.redundancy = {i.paper : i \in ToSet(feed.ranked)}
    /\ \A i \in ToSet(feed.ranked) :
          /\ feed.redundancy[i.paper] \in Int
          /\ feed.redundancy[i.paper] < NearDuplicate <=> ~ Repeats(i, feed.chosen)

ChosenInv ==
    /\ feed.chosen \in Seq(ToSet(feed.ranked)) /\ IsInjective(feed.chosen)
    /\ Len(feed.chosen) <= feed.limit
    /\ feed.chosen # << >> => feed.pc \in {"pick", "shown"}
    /\ feed.chosen # << >> => Explored(feed.chosen) <= ExplorationCap(feed.profile, feed.limit)
    /\ \A n \in DOMAIN feed.chosen : feed.chosen[n].exploration =>
          feed.chosen[n].score * 100 >= feed.ranked[1].score * ExplorationFloor

ShownInv ==
    /\ IsList(feed.shown) /\ ToSet(feed.shown) \subseteq ToSet(feed.chosen)
    /\ feed.pc \in {"idle", "gather", "rank"} => feed.ranked = << >>
    /\ feed.pc # "shown" => feed.shown = << >>

IInv == /\ answer \in {"none", "refused", "failed", "built"}
        /\ CorpusInv /\ RequestInv /\ PoolInv /\ CacheInv /\ FilterInv
        /\ RankedInv /\ RedundancyInv /\ ChosenInv /\ CapsGiveWayLast /\ ShownInv

-----------------------------------------------------------------------------
(***************************************************************************)
(* Papers and lists of candidates.                                          *)
(***************************************************************************)
LEMMA PapersAreOrdered ==
    /\ IsFiniteSet(Papers)
    /\ \A S \in SUBSET Papers : IsFiniteSet(S) /\ Cardinality(S) \in Nat
    /\ \A p \in Papers : Place(p) \in Int /\ IdUp[p] \in Int /\ IdDown[p] \in Int
    /\ \A p, q \in Papers : Place(p) = Place(q) => p = q
    /\ \A p, q \in Papers : (IdUp[p] = IdUp[q] => p = q) /\ (IdDown[p] = IdDown[q] => p = q)
<1>1. IsFiniteSet(Papers)
  BY IdOrdersPapers, InjectiveLists
<1>2. ASSUME NEW p \in Papers PROVE Place(p) \in DOMAIN Id /\ Id[Place(p)] = p
  <2>1. \E n \in DOMAIN Id : Id[n] = p
    BY IdOrdersPapers DEF ToSet
  <2> QED
    BY <2>1 DEF Place
<1>3. DOMAIN Id \subseteq Int
  BY IdOrdersPapers
<1>4. \A p \in Papers : Place(p) \in Int
  BY <1>2, <1>3
<1>5. \A p, q \in Papers : Place(p) = Place(q) => p = q
  BY <1>2
<1>6. \A p \in Papers : IdUp[p] = Place(p) /\ IdDown[p] = - Place(p)
  BY DEF IdUp, IdDown
<1>7. /\ \A p \in Papers : IdUp[p] \in Int /\ IdDown[p] \in Int
      /\ \A p, q \in Papers : (IdUp[p] = IdUp[q] => p = q) /\ (IdDown[p] = IdDown[q] => p = q)
  BY <1>4, <1>5, <1>6
<1> QED
  BY <1>1, <1>4, <1>5, <1>7, FS_Subset, FS_CardinalityType

LEMMA ListsOfTheirElements ==
    ASSUME NEW T, NEW s \in Seq(T)
    PROVE  IsList(s) /\ ToSet(s) \subseteq T /\ DOMAIN s = 1 .. Len(s) /\ Len(s) \in Nat
<1>1. DOMAIN s = 1 .. Len(s) /\ Len(s) \in Nat /\ s = [n \in 1 .. Len(s) |-> s[n]]
  OBVIOUS
<1>2. \A n \in 1 .. Len(s) : s[n] \in ToSet(s) /\ s[n] \in T
  BY <1>1 DEF ToSet
<1>3. ToSet(s) \subseteq T
  BY <1>1, <1>2 DEF ToSet
<1>4. s \in Seq(ToSet(s))
  <2> DEFINE S == ToSet(s)
  <2>1. s \in [1 .. Len(s) -> S]
    BY <1>1, <1>2
  <2> HIDE DEF S
  <2>2. s \in Seq(S)
    BY <1>1, <2>1
  <2> QED
    BY <2>2 DEF S
<1> QED
  BY <1>1, <1>3, <1>4 DEF IsList

LEMMA CandidatesAreCounted ==
    ASSUME NEW list, IsPool(list)
    PROVE  Cardinality(CandidateIds(list)) = Len(list) /\ CandidateIds(list) \subseteq Papers
<1>1. DOMAIN list = 1 .. Len(list) /\ Len(list) \in Nat
  BY ListsOfTheirElements DEF IsPool, IsList
<1> DEFINE ids == [n \in 1 .. Len(list) |-> list[n][1]]
<1>2. \A n \in 1 .. Len(list) : ids[n] = list[n][1] /\ ids[n] \in Papers
  BY <1>1 DEF IsPool, IsCandidate
<1>3. ids \in Seq(Papers)
  <2>1. ids \in [1 .. Len(list) -> Papers]
    BY <1>2
  <2> HIDE DEF ids
  <2> QED
    BY <1>1, <2>1
<1>4. Len(ids) = Len(list) /\ DOMAIN ids = 1 .. Len(list)
  BY <1>1
<1> HIDE DEF ids
<1>5. IsInjective(ids)
  BY <1>1, <1>2, <1>4 DEF IsInjective, IsPool, Distinct
<1>6. ToSet(ids) = CandidateIds(list)
  BY <1>1, <1>2, <1>4 DEF ToSet, CandidateIds
<1>7. Cardinality(ToSet(ids)) = Len(ids)
  BY <1>3, <1>5, InjectiveLists
<1>8. ToSet(ids) \subseteq Papers
  BY <1>3, ListsOfTheirElements
<1> QED
  BY <1>4, <1>6, <1>7, <1>8

\* A source that orders its papers and gives a reason for each proposes a paper
\* once, and no more than it may.
LEMMA CandidatesAreAPool ==
    ASSUME NEW list, IsScanned(list), NEW budget \in Nat, NEW reasons,
           \A p \in DOMAIN reasons : \A r \in reasons[p] : r.origin \in OriginNames
    PROVE  LET produced == Candidates(Prefix(list, budget), reasons)
           IN  IsPool(produced) /\ Len(produced) <= budget
<1> DEFINE cut  == Prefix(list, budget)
           given == {p \in DOMAIN reasons : reasons[p] # {}}
           kept == Among(cut, given)
           produced == [n \in DOMAIN kept |-> <<kept[n], reasons[kept[n]]>>]
<1>1. cut \in Seq(Papers) /\ Len(cut) <= budget /\ IsInjective(cut)
  BY PrefixOfAListing DEF IsScanned
<1>2. kept \in Seq(Papers) /\ ToSet(kept) = ToSet(cut) \cap given /\ IsInjective(kept)
  <2> HIDE DEF cut, given
  <2> QED
    BY <1>1, AmongIsASublist
<1>3. Len(kept) <= Len(cut) /\ Len(cut) \in Nat
  <2> HIDE DEF cut, given
  <2>1. Cardinality(ToSet(kept)) = Len(kept) /\ Cardinality(ToSet(cut)) = Len(cut)
    <3> HIDE DEF kept
    <3> QED
      BY <1>1, <1>2, InjectiveLists
  <2>2. IsFiniteSet(ToSet(cut)) /\ ToSet(kept) \in SUBSET ToSet(cut)
    BY <1>1, <1>2, InjectiveLists
  <2>3. Cardinality(ToSet(kept)) <= Cardinality(ToSet(cut))
    BY <2>2, FS_Subset
  <2> QED
    BY <1>1, <2>1, <2>3
<1> HIDE DEF cut
<1> HIDE DEF kept
<1>4. DOMAIN kept = 1 .. Len(kept) /\ Len(kept) \in Nat
  BY <1>2
<1>5. \A n \in DOMAIN kept : kept[n] \in Papers /\ kept[n] \in given
  BY <1>2 DEF ToSet
<1>6. DOMAIN produced = 1 .. Len(kept) /\ Len(produced) = Len(kept)
  BY <1>4
<1>7. IsList(produced)
  <2> DEFINE T == ToSet(produced)
  <2>1. produced \in [1 .. Len(kept) -> T]
    BY <1>4 DEF ToSet
  <2> HIDE DEF T, produced
  <2>2. produced \in Seq(T)
    BY <1>4, <2>1
  <2> QED
    BY <2>2 DEF T, IsList
<1>8. \A n \in DOMAIN produced : produced[n][1] = kept[n] /\ produced[n][2] = reasons[kept[n]]
  BY <1>4, <1>6
<1> HIDE DEF produced
<1>9. Distinct(produced)
  BY <1>2, <1>4, <1>6, <1>8 DEF Distinct, IsInjective
<1>10. \A n \in DOMAIN produced : IsCandidate(produced[n])
  BY <1>4, <1>5, <1>6, <1>8 DEF IsCandidate
<1>11. Len(produced) <= budget
  BY <1>1, <1>3, <1>4, <1>6
<1>12. produced = Candidates(Prefix(list, budget), reasons)
  BY DEF Candidates, produced, kept, given, cut
<1> QED
  BY <1>7, <1>9, <1>10, <1>11, <1>12 DEF IsPool

\* A paper that the pool has keeps its place, the others come after.
LEMMA PooledIsAPool ==
    ASSUME NEW pool, NEW produced, IsPool(pool), IsPool(produced)
    PROVE  /\ IsPool(Pooled(pool, produced))
           /\ Len(Pooled(pool, produced)) <= Len(pool) + Len(produced)
<1> DEFINE
    alike(n) == {e \in ToSet(produced) : e[1] = pool[n][1]}
    old == [n \in DOMAIN pool |-> <<pool[n][1], pool[n][2] \cup UNION {c[2] : c \in alike(n)}>>]
    fresh == {c \in ToSet(produced) : c[1] \notin CandidateIds(pool)}
    new == Among(produced, fresh)
    all == old \o new
<1>1. /\ DOMAIN pool = 1 .. Len(pool) /\ Len(pool) \in Nat
      /\ produced \in Seq(ToSet(produced)) /\ Len(produced) \in Nat
      /\ DOMAIN produced = 1 .. Len(produced)
  BY ListsOfTheirElements DEF IsPool, IsList
<1>2. /\ \A n \in DOMAIN pool : IsCandidate(pool[n])
      /\ \A c \in ToSet(produced) : IsCandidate(c)
  BY DEF IsPool, ToSet
<1>3. \A n \in DOMAIN pool : old[n][1] = pool[n][1] /\ IsCandidate(old[n])
  <2> SUFFICES ASSUME NEW n \in DOMAIN pool PROVE old[n][1] = pool[n][1] /\ IsCandidate(old[n])
    OBVIOUS
  <2>1. old[n][1] = pool[n][1] /\ old[n][2] = pool[n][2] \cup UNION {c[2] : c \in alike(n)}
    OBVIOUS
  <2>2. \A c \in alike(n) : IsCandidate(c)
    BY <1>2
  <2> HIDE DEF alike, old
  <2>3. \A reason \in old[n][2] : reason.origin \in OriginNames
    BY <1>2, <2>1, <2>2 DEF IsCandidate
  <2> QED
    BY <1>2, <2>1, <2>3 DEF IsCandidate
<1>4. /\ new \in Seq(ToSet(produced)) /\ ToSet(new) = ToSet(produced) \cap fresh
      /\ \A m, n \in DOMAIN new : m < n =>
            \E i, j \in DOMAIN produced : i < j /\ new[m] = produced[i] /\ new[n] = produced[j]
  <2> DEFINE T == ToSet(produced)
  <2>1. produced \in Seq(T)
    BY <1>1
  <2> HIDE DEF T, fresh
  <2>2. /\ Among(produced, fresh) \in Seq(T) /\ ToSet(Among(produced, fresh)) = ToSet(produced) \cap fresh
        /\ \A m, n \in DOMAIN Among(produced, fresh) : m < n =>
              \E i, j \in DOMAIN produced : i < j /\ Among(produced, fresh)[m] = produced[i]
                                                  /\ Among(produced, fresh)[n] = produced[j]
    BY <2>1, AmongIsASublist
  <2> QED
    BY <2>2 DEF T
<1>5. IsInjective(produced)
  BY <1>1 DEF IsPool, Distinct, IsInjective
<1>6. Len(new) <= Len(produced) /\ Len(new) \in Nat /\ DOMAIN new = 1 .. Len(new)
  <2> DEFINE T == ToSet(produced)
  <2>1. produced \in Seq(T)
    BY <1>1
  <2> HIDE DEF fresh
  <2>2. IsInjective(new) /\ new \in Seq(T)
    <3> HIDE DEF T
    <3> QED
      BY <1>5, <2>1, AmongIsASublist
  <2> HIDE DEF new
  <2>3. /\ IsFiniteSet(ToSet(produced)) /\ Cardinality(ToSet(produced)) = Len(produced)
        /\ Cardinality(ToSet(new)) = Len(new)
    <3> HIDE DEF T
    <3> QED
      BY <1>5, <2>1, <2>2, InjectiveLists
  <2>4. ToSet(new) \in SUBSET ToSet(produced)
    BY <2>2, ListsOfTheirElements
  <2>5. Cardinality(ToSet(new)) <= Cardinality(ToSet(produced))
    BY <2>3, <2>4, FS_Subset
  <2> QED
    BY <2>2, <2>3, <2>5
<1>7. /\ DOMAIN old = 1 .. Len(pool) /\ Len(old) = Len(pool)
      /\ old = [n \in 1 .. Len(pool) |-> old[n]]
  BY <1>1
<1> HIDE DEF old, new
<1> DEFINE T == {old[n] : n \in 1 .. Len(pool)} \cup ToSet(new)
<1>8. old \in Seq(T) /\ new \in Seq(T)
  <2>1. old \in [1 .. Len(pool) -> T]
    BY <1>7
  <2>2. new \in [1 .. Len(new) -> T]
    BY <1>4, <1>6 DEF ToSet
  <2> HIDE DEF T
  <2> QED
    BY SMTT(30), <1>1, <1>6, <2>1, <2>2
<1>9. /\ all \in Seq(T) /\ Len(all) = Len(pool) + Len(new)
      /\ \A n \in 1 .. Len(pool) : all[n] = old[n]
      /\ \A n \in DOMAIN all : n \in 1 .. Len(pool) \/ (n - Len(pool) \in DOMAIN new /\ all[n] = new[n - Len(pool)])
  <2> HIDE DEF T
  <2> QED
    BY <1>1, <1>6, <1>7, <1>8
<1> HIDE DEF all
<1>10. IsList(all) /\ DOMAIN all = 1 .. Len(all) /\ Len(all) \in Nat
  <2> HIDE DEF T
  <2> QED
    BY <1>9, ListsOfTheirElements
<1> HIDE DEF T
<1>11. \A n \in DOMAIN new : new[n] \in ToSet(produced) /\ new[n] \in fresh
  BY <1>4, <1>6 DEF ToSet
<1>12. \A n \in DOMAIN all : IsCandidate(all[n])
  BY <1>1, <1>2, <1>3, <1>9, <1>11
<1>13. \A n \in 1 .. Len(pool) : all[n][1] = pool[n][1] /\ all[n][1] \in CandidateIds(pool)
  BY <1>1, <1>3, <1>9 DEF CandidateIds, ToSet
<1>14. \A n \in DOMAIN new : new[n][1] \notin CandidateIds(pool)
  BY <1>11
<1>15. \A m, n \in DOMAIN new : new[m][1] = new[n][1] => m = n
  <2> SUFFICES ASSUME NEW m \in DOMAIN new, NEW n \in DOMAIN new, m < n PROVE new[m][1] # new[n][1]
    BY <1>6
  <2>1. PICK i \in DOMAIN produced, j \in DOMAIN produced :
           i < j /\ new[m] = produced[i] /\ new[n] = produced[j]
    BY <1>4
  <2> QED
    BY <1>1, <2>1 DEF IsPool, Distinct
<1>16. Distinct(all)
  <2> SUFFICES ASSUME NEW m \in DOMAIN all, NEW n \in DOMAIN all, all[m][1] = all[n][1] PROVE m = n
    BY DEF Distinct
  <2>1. m \in Int /\ n \in Int
    BY <1>10
  <2>2. CASE m \in 1 .. Len(pool) /\ n \in 1 .. Len(pool)
    BY <1>1, <1>13, <2>2 DEF IsPool, Distinct
  <2>3. CASE m \in 1 .. Len(pool) /\ n \notin 1 .. Len(pool)
    BY <1>9, <1>13, <1>14, <2>3
  <2>4. CASE m \notin 1 .. Len(pool) /\ n \in 1 .. Len(pool)
    BY <1>9, <1>13, <1>14, <2>4
  <2>5. CASE m \notin 1 .. Len(pool) /\ n \notin 1 .. Len(pool)
    <3>1. m - Len(pool) = n - Len(pool)
      BY <1>9, <1>15, <2>5
    <3> QED
      BY <1>1, <2>1, <3>1
  <2> QED
    BY <2>2, <2>3, <2>4, <2>5
<1>17. Len(all) <= Len(pool) + Len(produced)
  BY <1>1, <1>6, <1>9
<1>18. all = Pooled(pool, produced)
  BY DEF Pooled, all, old, new, fresh, alike
<1> QED
  BY <1>10, <1>12, <1>16, <1>17, <1>18 DEF IsPool

-----------------------------------------------------------------------------
(***************************************************************************)
(* The sources.                                                             *)
(***************************************************************************)
LEMMA BestIsTheBest ==
    ASSUME NEW S \in SUBSET Int, IsFiniteSet(S), S # {}
    PROVE  Best(S) \in S /\ Best(S) \in Int /\ \A v \in S : v <= Best(S)
<1>1. \E v \in S : \A w \in S : w <= v
  BY FiniteSetsHaveBounds
<1>2. Best(S) \in S /\ \A v \in S : v <= Best(S)
  BY <1>1 DEF Best
<1> QED
  BY <1>2

\* A profile with lists of interests, each encoded by a text or a paper.
IsRankable(r) ==
    \A polarity \in Polarity :
       /\ IsList(Semantic(r, polarity))
       /\ \A i \in ToSet(Semantic(r, polarity)) :
             i.vector \in Texts \cup Papers /\ i.weight \in 0..MaxWeight

LEMMA CosinesOfInterests ==
    ASSUME NEW r, IsRankable(r), NEW polarity \in Polarity, NEW p \in Papers
    PROVE  LET cosines == {Cosine(i.vector, p) : i \in ToSet(Semantic(r, polarity))}
           IN  /\ cosines \in SUBSET Int /\ IsFiniteSet(cosines)
               /\ Semantic(r, polarity) # << >> => cosines # {}
<1> DEFINE list == Semantic(r, polarity)
           interests == ToSet(list)
           cosine == [i \in interests |-> Cosine(i.vector, p)]
<1>1. list \in Seq(interests) /\ \A i \in interests : i.vector \in Texts \cup Papers
  BY DEF IsRankable, IsList
<1> HIDE DEF list
<1>2. IsFiniteSet(interests) /\ DOMAIN list = 1 .. Len(list) /\ Len(list) \in Nat
  <2> DEFINE T == interests
  <2>1. list \in Seq(T)
    BY <1>1
  <2> HIDE DEF T
  <2>2. IsFiniteSet(ToSet(list))
    BY <2>1, InjectiveLists
  <2> QED
    BY <2>1, <2>2
<1>3. list # << >> => interests # {}
  <2>1. list # << >> => 1 \in DOMAIN list
    BY <1>1, <1>2
  <2> QED
    BY <2>1 DEF ToSet
<1> HIDE DEF interests
<1>4. \A i \in interests : cosine[i] = Cosine(i.vector, p) /\ cosine[i] \in Int
  BY <1>1, CosinesAreNumbers
<1>5. DOMAIN cosine = interests
  OBVIOUS
<1> HIDE DEF cosine
<1>6. IsFiniteSet({cosine[i] : i \in DOMAIN cosine})
  BY <1>2, <1>5, FiniteImage
<1>7. {cosine[i] : i \in DOMAIN cosine} = {Cosine(i.vector, p) : i \in interests}
  BY <1>4, <1>5
<1>8. {Cosine(i.vector, p) : i \in interests} \in SUBSET Int
  BY <1>4
<1>9. interests # {} => {Cosine(i.vector, p) : i \in interests} # {}
  OBVIOUS
<1> QED
  BY <1>3, <1>6, <1>7, <1>8, <1>9 DEF interests, list

LEMMA MatchesAreNumbers ==
    ASSUME NEW r, IsRankable(r), Semantic(r, "positive") # << >>, NEW p \in Papers
    PROVE  BestMatch(r, p) \in Int
<1> DEFINE cosines == {Cosine(i.vector, p) : i \in ToSet(Semantic(r, "positive"))}
<1>1. cosines \in SUBSET Int /\ IsFiniteSet(cosines) /\ cosines # {}
  BY CosinesOfInterests DEF Polarity
<1> HIDE DEF cosines
<1>2. Best(cosines) \in Int
  BY <1>1, BestIsTheBest
<1> QED
  BY <1>2 DEF BestMatch, cosines

LEMMA OrderedPapers ==
    ASSUME NEW S \in SUBSET Papers, NEW measure \in [S -> Int], NEW rank \in {IdUp, IdDown}
    PROVE  IsScanned(Ordered(measure, rank))
<1>1. /\ \A x \in S : rank[x] \in Int
      /\ \A x, y \in S : rank[x] = rank[y] => x = y
      /\ IsFiniteSet(S)
  BY PapersAreOrdered
<1>2. Ordered(measure, rank) \in Seq(S) /\ IsInjective(Ordered(measure, rank))
  BY <1>1, OrderedIsAListing
<1> QED
  BY <1>2 DEF IsScanned

LEMMA PrefixesAreScanned ==
    ASSUME NEW list, IsScanned(list), NEW n \in Nat PROVE IsScanned(Prefix(list, n))
  BY PrefixOfAListing DEF IsScanned

LEMMA EmptyIsScanned == IsScanned(<< >>)
  BY DEF IsScanned, IsInjective

LEMMA NewnessIsANumber ==
    ASSUME NEW p \in Papers PROVE Newness(p) \in Int
<1>1. Row[p].age \in Nat \cup {None}
  BY RowsAreRows
<1> QED
  BY <1>1 DEF Newness

LEMMA ScansAreScanned ==
    ASSUME CorpusInv, NEW r, IsRankable(r), Semantic(r, "positive") # << >>
    PROVE  IsScanned(Scan(r).top) /\ IsScanned(Scan(r).band)
<1> DEFINE
    embedded == {p \in Scannable(r) : Embedded(p)}
    match == [p \in embedded |-> BestMatch(r, p)]
    band  == {p \in embedded : match[p] \in AdjacencyFloor..AdjacencyCeiling}
    near  == [p \in band |-> match[p]]
<1>1. embedded \in SUBSET Papers /\ band \in SUBSET Papers /\ band \subseteq embedded
  BY DEF Scannable, CorpusInv
<1>2. match \in [embedded -> Int]
  BY <1>1, MatchesAreNumbers
<1>3. near \in [band -> Int]
  BY <1>1, <1>2
<1>4. Scan(r).top = Prefix(Ordered(match, IdUp), CandidateTotal)
  BY DEF Scan
<1>5. Scan(r).band = Prefix(Ordered(near, IdUp), CandidateTotal)
  BY DEF Scan
<1> HIDE DEF embedded, match, band, near
<1>6. IsScanned(Ordered(match, IdUp)) /\ IsScanned(Ordered(near, IdUp))
  BY <1>1, <1>2, <1>3, OrderedPapers
<1> QED
  BY <1>4, <1>5, <1>6, PrefixesAreScanned, EverySourceHasASlot

LEMMA SemanticSourceIsAPool ==
    ASSUME NEW r, NEW scan, IsScanned(scan.top), NEW budget \in Nat
    PROVE  LET produced == SemanticSource(r, scan, budget)
           IN  IsPool(produced) /\ Len(produced) <= budget
<1> DEFINE
    reasons == [p \in Papers |-> {Reason("semantic_interest", i.key, Cosine(i.vector, p)) :
                  i \in {j \in ToSet(Semantic(r, "positive")) : Cosine(j.vector, p) > 0}}]
    list == scan.top
<1>1. \A p \in DOMAIN reasons : \A x \in reasons[p] : x.origin \in OriginNames
  BY DEF Reason, OriginNames
<1>2. SemanticSource(r, scan, budget) = Candidates(Prefix(list, budget), reasons)
  BY DEF SemanticSource
<1> HIDE DEF reasons, list
<1>3. IsScanned(list)
  BY DEF list
<1> QED
  BY <1>1, <1>2, <1>3, CandidatesAreAPool

LEMMA FieldSourceIsAPool ==
    ASSUME CorpusInv, NEW r, NEW budget \in Nat
    PROVE  LET produced == FieldSource(r, budget)
           IN  IsPool(produced) /\ Len(produced) <= budget
<1> DEFINE
    followed == ValuesOf(r, "field", "positive")
    found == {q \in Scannable(r) : Row[q].fields \cap followed # {}}
    newness == [p \in found |-> Newness(p)]
    reasons == [p \in Papers |-> {Reason("field", f, 100) : f \in Row[p].fields \cap followed}]
    list == Ordered(newness, IdDown)
<1>1. \A p \in DOMAIN reasons : \A x \in reasons[p] : x.origin \in OriginNames
  BY DEF Reason, OriginNames
<1>2. FieldSource(r, budget) = Candidates(Prefix(list, budget), reasons)
  BY DEF FieldSource
<1>3. found \in SUBSET Papers
  BY DEF Scannable, CorpusInv
<1>4. newness \in [found -> Int]
  BY <1>3, NewnessIsANumber
<1> HIDE DEF reasons, found, newness
<1>5. IsScanned(list)
  BY <1>3, <1>4, OrderedPapers
<1> HIDE DEF list
<1> QED
  BY <1>1, <1>2, <1>5, CandidatesAreAPool

LEMMA SequentialSourceIsAPool ==
    ASSUME CorpusInv, NEW opened, NEW budget \in Nat
    PROVE  LET produced == SequentialSource(opened, budget)
           IN  IsPool(produced) /\ Len(produced) <= budget
<1> DEFINE
    recent == ToSet(Prefix(opened, RecentEvents))
    fields == UNION {Row[p].fields : p \in recent \cap DOMAIN corpus}
    found  == {p \in DOMAIN corpus \ recent : Row[p].fields \cap fields # {}}
    newness == [p \in found |-> Newness(p)]
    reasons == [p \in found |-> {Reason("sequential", None,
               (Cardinality(Row[p].fields \cap fields) * 100) \div Cardinality(fields))}]
    list == Ordered(newness, IdDown)
<1>1. \A p \in DOMAIN reasons : \A x \in reasons[p] : x.origin \in OriginNames
  BY DEF Reason, OriginNames
<1>2. SequentialSource(opened, budget) = Candidates(Prefix(list, budget), reasons)
  BY DEF SequentialSource
<1>3. found \in SUBSET Papers
  BY DEF CorpusInv
<1>4. newness \in [found -> Int]
  BY <1>3, NewnessIsANumber
<1> HIDE DEF reasons, found, newness
<1>5. IsScanned(list)
  BY <1>3, <1>4, OrderedPapers
<1> HIDE DEF list
<1> QED
  BY <1>1, <1>2, <1>5, CandidatesAreAPool

LEMMA CollaborativeSourceIsAPool ==
    ASSUME CorpusInv, NEW opened, NEW peers, IsFiniteSet(peers), NEW budget \in Nat
    PROVE  LET produced == CollaborativeSource(opened, peers, budget)
           IN  IsPool(produced) /\ Len(produced) <= budget
<1> DEFINE
    anchors == ToSet(opened)
    alike   == {e[1] : e \in {f \in peers : f[2] \in anchors}}
    Support(p) == Cardinality({e[1] : e \in {f \in peers : f[2] = p /\ f[1] \in alike}})
    found   == {q \in DOMAIN corpus \ anchors : Support(q) >= PrivacyFloor}
    support == [p \in found |-> Support(p)]
    reasons == [p \in DOMAIN support |-> {Reason("collaborative", None, Least(100, support[p] * 20))}]
    list == Ordered(support, IdUp)
<1>1. \A p \in DOMAIN reasons : \A x \in reasons[p] : x.origin \in OriginNames
  BY DEF Reason, OriginNames
<1>2. CollaborativeSource(opened, peers, budget) = Candidates(Prefix(list, budget), reasons)
  BY DEF CollaborativeSource
<1>3. found \in SUBSET Papers
  BY DEF CorpusInv
<1>4. ASSUME NEW p \in Papers PROVE Support(p) \in Int
  <2> DEFINE some == {f \in peers : f[2] = p /\ f[1] \in alike}
             reader == [e \in some |-> e[1]]
  <2>1. IsFiniteSet(some) /\ DOMAIN reader = some
    BY FS_Subset
  <2>2. {reader[e] : e \in DOMAIN reader} = {e[1] : e \in some}
    OBVIOUS
  <2> HIDE DEF some, reader
  <2>3. IsFiniteSet({reader[e] : e \in DOMAIN reader})
    BY <2>1, FiniteImage
  <2>4. IsFiniteSet({e[1] : e \in some})
    BY <2>2, <2>3
  <2> QED
    BY <2>4, FS_CardinalityType DEF some
<1> HIDE DEF Support
<1>5. support \in [found -> Int]
  BY <1>3, <1>4
<1> HIDE DEF reasons, found, support
<1>6. IsScanned(list)
  BY <1>3, <1>5, OrderedPapers
<1> HIDE DEF list
<1> QED
  BY <1>1, <1>2, <1>6, CandidatesAreAPool

LEMMA AdjacentSourceIsAPool ==
    ASSUME NEW r, NEW scan, IsScanned(scan.band), NEW budget \in Nat
    PROVE  LET produced == AdjacentSource(r, scan, budget)
           IN  IsPool(produced) /\ Len(produced) <= budget
<1> DEFINE
    list == scan.band
    reasons == [p \in ToSet(list) |-> {Reason("exploration", None, BestMatch(r, p))}]
<1>1. \A p \in DOMAIN reasons : \A x \in reasons[p] : x.origin \in OriginNames
  BY DEF Reason, OriginNames
<1>2. AdjacentSource(r, scan, budget) = Candidates(Prefix(list, budget), reasons)
  BY DEF AdjacentSource
<1> HIDE DEF reasons, list
<1>3. IsScanned(list)
  BY DEF list
<1> QED
  BY <1>1, <1>2, <1>3, CandidatesAreAPool

\* Every source that is left keeps a slot: `left' is at least `remaining'.
LEMMA AllocationsFit ==
    ASSUME NEW remaining \in 1 .. 5, NEW taken \in Nat, taken + remaining <= CandidateTotal
    PROVE  /\ Allocate(remaining, taken) \in Nat
           /\ taken + Allocate(remaining, taken) + (remaining - 1) <= CandidateTotal
<1> DEFINE left == CandidateTotal - taken
<1>1. left \in Nat /\ left >= remaining /\ Greatest(0, left) = left
  BY EverySourceHasASlot DEF Greatest
<1>2. Allocate(remaining, taken) = IF remaining <= 1 THEN left ELSE Greatest(1, left \div remaining)
  BY <1>1 DEF Allocate
<1> HIDE DEF left
<1>3. CASE remaining = 1
  BY <1>1, <1>2, <1>3, EverySourceHasASlot DEF left
<1>4. ASSUME remaining # 1
      PROVE  Allocate(remaining, taken) \in Nat /\ Allocate(remaining, taken) + remaining - 1 <= left
  <2> DEFINE share == left \div remaining
  <2>1. share \in Nat /\ share >= 1 /\ share + remaining - 1 <= left
    <3>1. CASE remaining = 2
      BY <1>1, <3>1
    <3>2. CASE remaining = 3
      BY <1>1, <3>2
    <3>3. CASE remaining = 4
      BY <1>1, <3>3
    <3>4. CASE remaining = 5
      BY <1>1, <3>4
    <3> QED
      BY <1>4, <3>1, <3>2, <3>3, <3>4
  <2> HIDE DEF share
  <2>2. Allocate(remaining, taken) = share
    BY <1>2, <1>4, <2>1 DEF share, Greatest
  <2> QED
    BY <2>1, <2>2
<1> QED
  BY <1>1, <1>3, <1>4, EverySourceHasASlot DEF left

LEMMA ProducedIsAPool ==
    ASSUME CorpusInv, NEW source \in SourceNames, NEW r, NEW account, NEW scan,
           IsScanned(scan.top), IsScanned(scan.band), NEW budget \in Nat,
           source = "collaborative" => IsFiniteSet(account.peers)
    PROVE  LET produced == Produced(source, r, account, scan, budget)
           IN  IsPool(produced) /\ Len(produced) <= budget
<1>1. CASE source = "semantic"
  BY <1>1, SemanticSourceIsAPool DEF Produced
<1>2. CASE source = "field"
  BY <1>2, FieldSourceIsAPool DEF Produced
<1>3. CASE source = "sequential"
  BY <1>3, SequentialSourceIsAPool DEF Produced
<1>4. CASE source = "collaborative"
  BY <1>4, CollaborativeSourceIsAPool DEF Produced
<1>5. CASE source = "adjacent"
  BY <1>5, AdjacentSourceIsAPool DEF Produced
<1> QED
  BY <1>1, <1>2, <1>3, <1>4, <1>5 DEF SourceNames

-----------------------------------------------------------------------------
(***************************************************************************)
(* The interests of a profile, and the draft they come from.                *)
(***************************************************************************)
LEMMA MappedLists ==
    ASSUME NEW s, IsList(s), NEW f, DOMAIN f = ToSet(s)
    PROVE  LET mapped == [n \in DOMAIN s |-> f[s[n]]]
           IN  IsList(mapped) /\ ToSet(mapped) = {f[e] : e \in ToSet(s)}
<1> DEFINE mapped == [n \in DOMAIN s |-> f[s[n]]]
           T == ToSet(mapped)
<1>1. DOMAIN s = 1 .. Len(s) /\ Len(s) \in Nat
  BY ListsOfTheirElements DEF IsList
<1>2. ToSet(mapped) = {f[e] : e \in ToSet(s)}
  BY DEF ToSet
<1>3. mapped \in [1 .. Len(s) -> T]
  BY <1>1 DEF ToSet
<1> HIDE DEF mapped, T
<1>4. mapped \in Seq(T)
  BY <1>1, <1>3
<1> QED
  BY <1>2, <1>4 DEF T, IsList, mapped

LEMMA JoinedLists ==
    ASSUME NEW a, IsList(a), NEW b, IsList(b)
    PROVE  IsList(a \o b) /\ ToSet(a \o b) = ToSet(a) \cup ToSet(b)
<1> DEFINE T == ToSet(a) \cup ToSet(b)
           all == a \o b
<1>1. /\ DOMAIN a = 1 .. Len(a) /\ Len(a) \in Nat /\ DOMAIN b = 1 .. Len(b) /\ Len(b) \in Nat
      /\ a = [n \in 1 .. Len(a) |-> a[n]] /\ b = [n \in 1 .. Len(b) |-> b[n]]
  BY ListsOfTheirElements DEF IsList
<1>2. a \in [1 .. Len(a) -> T] /\ b \in [1 .. Len(b) -> T]
  BY <1>1 DEF ToSet
<1> HIDE DEF T
<1>3. a \in Seq(T) /\ b \in Seq(T)
  BY <1>1, <1>2
<1>4. /\ all \in Seq(T) /\ DOMAIN all = 1 .. Len(a) + Len(b)
      /\ \A n \in 1 .. Len(a) + Len(b) : all[n] = IF n <= Len(a) THEN a[n] ELSE b[n - Len(a)]
  BY <1>1, <1>3
<1> HIDE DEF all
<1>5. \A n \in 1 .. Len(a) : n \in DOMAIN all /\ all[n] = a[n]
  BY <1>1, <1>4
<1>6. \A n \in 1 .. Len(b) : n + Len(a) \in DOMAIN all /\ all[n + Len(a)] = b[n]
  <2> SUFFICES ASSUME NEW n \in 1 .. Len(b)
               PROVE  n + Len(a) \in DOMAIN all /\ all[n + Len(a)] = b[n]
    OBVIOUS
  <2>1. n + Len(a) \in 1 .. Len(a) + Len(b) /\ ~ (n + Len(a) <= Len(a)) /\ n + Len(a) - Len(a) = n
    BY <1>1
  <2> QED
    BY <1>4, <2>1
<1>7. T \subseteq ToSet(all)
  BY <1>1, <1>5, <1>6 DEF T, ToSet
<1>8. IsList(all) /\ ToSet(all) \subseteq T
  BY <1>3, <1>4, ListsOfTheirElements
<1> QED
  BY <1>7, <1>8 DEF T, all

LEMMA EntriesAmong ==
    ASSUME NEW s, IsList(s), NEW set
    PROVE  IsList(Among(s, set)) /\ ToSet(Among(s, set)) = ToSet(s) \cap set
<1> DEFINE T == ToSet(s)
<1>1. s \in Seq(T)
  BY DEF IsList
<1> HIDE DEF T
<1>2. Among(s, set) \in Seq(T) /\ ToSet(Among(s, set)) = ToSet(s) \cap set
  BY <1>1, AmongIsASublist
<1> QED
  BY <1>2, ListsOfTheirElements

Followed(d) == {Interest(FieldKey(s), "field", s, None, 100, "long", "positive") : s \in ToSet(d.fields)}
Stated(d) == {Interest(InterestKey(e.text), "stated", None, e.text,
                       ImportanceWeight[e.importance], e.horizon, "positive") : e \in ToSet(d.interests)}
Disliked(d) == {Interest(NegativeInterestKey(e.text), "stated", None, e.text,
                         AvoidanceWeight[e.strength], "long", "negative") : e \in ToSet(d.negatives)}
Exemplary(d, usable) ==
    {Interest(ExamplePaperKey(e.paper), "paper", None, e.paper,
              ImportanceWeight[e.importance], e.horizon, "positive") :
       e \in {x \in ToSet(d.examples) : x.paper \in usable}}
Unwanted(d, usable) ==
    {Interest(NegativePaperKey(e.paper), "paper", None, e.paper,
              AvoidanceWeight[e.strength], "long", "negative") :
       e \in {x \in ToSet(d.negativePapers) : x.paper \in usable}}

LEMMA DraftsAreLists ==
    ASSUME NEW d \in Draft
    PROVE  /\ IsList(d.fields) /\ IsList(d.interests) /\ IsList(d.examples)
           /\ IsList(d.negatives) /\ IsList(d.negativePapers) /\ IsList(d.blocked)
           /\ ToSet(d.fields) \subseteq Fields /\ ToSet(d.blocked) \subseteq Topics
           /\ ToSet(d.interests) \subseteq [text : Texts, importance : Importance, horizon : Horizon]
           /\ ToSet(d.examples) \subseteq [paper : Papers, importance : Importance, horizon : Horizon]
           /\ ToSet(d.negatives) \subseteq [text : Texts, strength : DOMAIN AvoidanceWeight]
           /\ ToSet(d.negativePapers) \subseteq [paper : Papers, strength : DOMAIN AvoidanceWeight]
<1>1. /\ d.fields \in Seq(Fields) /\ d.blocked \in Seq(Topics)
      /\ d.interests \in Seq([text : Texts, importance : Importance, horizon : Horizon])
      /\ d.examples \in Seq([paper : Papers, importance : Importance, horizon : Horizon])
      /\ d.negatives \in Seq([text : Texts, strength : DOMAIN AvoidanceWeight])
      /\ d.negativePapers \in Seq([paper : Papers, strength : DOMAIN AvoidanceWeight])
  BY DEF Draft
<1> QED
  BY <1>1, ListsOfTheirElements

LEMMA InterestsOfADraft ==
    ASSUME NEW d, IsList(d.fields), IsList(d.interests), IsList(d.negatives),
           IsList(d.examples), IsList(d.negativePapers), NEW usable
    PROVE  /\ IsList(ProfileOf(d, usable).interests)
           /\ ToSet(ProfileOf(d, usable).interests) =
                 Followed(d) \cup Stated(d) \cup Disliked(d) \cup Exemplary(d, usable) \cup Unwanted(d, usable)
<1>1. IsList(FieldInterests(d)) /\ ToSet(FieldInterests(d)) = Followed(d)
  <2> DEFINE f == [s \in ToSet(d.fields) |-> Interest(FieldKey(s), "field", s, None, 100, "long", "positive")]
             mapped == [n \in DOMAIN d.fields |-> f[d.fields[n]]]
  <2>1. \A s \in ToSet(d.fields) : f[s] = Interest(FieldKey(s), "field", s, None, 100, "long", "positive")
    OBVIOUS
  <2>2. DOMAIN f = ToSet(d.fields) /\ \A n \in DOMAIN d.fields : d.fields[n] \in ToSet(d.fields)
    BY DEF ToSet
  <2> HIDE DEF f
  <2>3. mapped = FieldInterests(d)
    BY <2>1, <2>2 DEF FieldInterests
  <2>4. IsList(mapped) /\ ToSet(mapped) = {f[e] : e \in ToSet(d.fields)}
    BY <2>2, MappedLists
  <2>5. {f[e] : e \in ToSet(d.fields)} = Followed(d)
    BY <2>1 DEF Followed
  <2> QED
    BY <2>3, <2>4, <2>5
<1>2. IsList(TextInterests(d)) /\ ToSet(TextInterests(d)) = Stated(d) \cup Disliked(d)
  <2> DEFINE
      f == [e \in ToSet(d.interests) |-> Interest(InterestKey(e.text), "stated", None, e.text,
                       ImportanceWeight[e.importance], e.horizon, "positive")]
      g == [e \in ToSet(d.negatives) |-> Interest(NegativeInterestKey(e.text), "stated", None, e.text,
                         AvoidanceWeight[e.strength], "long", "negative")]
      stated == [n \in DOMAIN d.interests |-> f[d.interests[n]]]
      disliked == [n \in DOMAIN d.negatives |-> g[d.negatives[n]]]
  <2>1. /\ \A e \in ToSet(d.interests) : f[e] = Interest(InterestKey(e.text), "stated", None, e.text,
                       ImportanceWeight[e.importance], e.horizon, "positive")
        /\ \A e \in ToSet(d.negatives) : g[e] = Interest(NegativeInterestKey(e.text), "stated", None, e.text,
                         AvoidanceWeight[e.strength], "long", "negative")
    OBVIOUS
  <2>2. /\ DOMAIN f = ToSet(d.interests) /\ \A n \in DOMAIN d.interests : d.interests[n] \in ToSet(d.interests)
        /\ DOMAIN g = ToSet(d.negatives) /\ \A n \in DOMAIN d.negatives : d.negatives[n] \in ToSet(d.negatives)
    BY DEF ToSet
  <2> HIDE DEF f, g
  <2>3. stated \o disliked = TextInterests(d)
    <3>1. stated = [n \in DOMAIN d.interests |->
                      LET e == d.interests[n]
                      IN  Interest(InterestKey(e.text), "stated", None, e.text,
                                   ImportanceWeight[e.importance], e.horizon, "positive")]
      BY <2>1, <2>2
    <3>2. disliked = [n \in DOMAIN d.negatives |->
                        LET e == d.negatives[n]
                        IN  Interest(NegativeInterestKey(e.text), "stated", None, e.text,
                                     AvoidanceWeight[e.strength], "long", "negative")]
      BY <2>1, <2>2
    <3> QED
      BY <3>1, <3>2 DEF TextInterests
  <2>4. IsList(stated) /\ ToSet(stated) = {f[e] : e \in ToSet(d.interests)}
    BY <2>2, MappedLists
  <2>5. IsList(disliked) /\ ToSet(disliked) = {g[e] : e \in ToSet(d.negatives)}
    BY <2>2, MappedLists
  <2>6. {f[e] : e \in ToSet(d.interests)} = Stated(d) /\ {g[e] : e \in ToSet(d.negatives)} = Disliked(d)
    BY <2>1 DEF Stated, Disliked
  <2> HIDE DEF stated, disliked
  <2>7. IsList(stated \o disliked) /\ ToSet(stated \o disliked) = ToSet(stated) \cup ToSet(disliked)
    BY <2>4, <2>5, JoinedLists
  <2> QED
    BY <2>3, <2>4, <2>5, <2>6, <2>7
<1>3. IsList(PaperInterests(d, usable))
      /\ ToSet(PaperInterests(d, usable)) = Exemplary(d, usable) \cup Unwanted(d, usable)
  <2> DEFINE
      likedEntries == {e \in ToSet(d.examples) : e.paper \in usable}
      unlikedEntries == {e \in ToSet(d.negativePapers) : e.paper \in usable}
      examples == Among(d.examples, likedEntries)
      unwanted == Among(d.negativePapers, unlikedEntries)
      f == [e \in ToSet(examples) |-> Interest(ExamplePaperKey(e.paper), "paper", None, e.paper,
                       ImportanceWeight[e.importance], e.horizon, "positive")]
      g == [e \in ToSet(unwanted) |-> Interest(NegativePaperKey(e.paper), "paper", None, e.paper,
                         AvoidanceWeight[e.strength], "long", "negative")]
      liked == [n \in DOMAIN examples |-> f[examples[n]]]
      disliked == [n \in DOMAIN unwanted |-> g[unwanted[n]]]
  <2>0. /\ IsList(examples) /\ ToSet(examples) = likedEntries
        /\ IsList(unwanted) /\ ToSet(unwanted) = unlikedEntries
    <3>1. likedEntries \subseteq ToSet(d.examples) /\ unlikedEntries \subseteq ToSet(d.negativePapers)
      OBVIOUS
    <3> HIDE DEF likedEntries, unlikedEntries
    <3>2. IsList(examples) /\ ToSet(examples) = ToSet(d.examples) \cap likedEntries
      BY EntriesAmong
    <3>3. IsList(unwanted) /\ ToSet(unwanted) = ToSet(d.negativePapers) \cap unlikedEntries
      BY EntriesAmong
    <3> HIDE DEF examples, unwanted
    <3> QED
      BY <3>1, <3>2, <3>3
  <2>3a. PaperInterests(d, usable) =
            [n \in DOMAIN examples |->
               LET e == examples[n]
               IN  Interest(ExamplePaperKey(e.paper), "paper", None, e.paper,
                            ImportanceWeight[e.importance], e.horizon, "positive")]
            \o
            [n \in DOMAIN unwanted |->
               LET e == unwanted[n]
               IN  Interest(NegativePaperKey(e.paper), "paper", None, e.paper,
                            AvoidanceWeight[e.strength], "long", "negative")]
    BY DEF PaperInterests
  <2> HIDE DEF examples, unwanted
  <2>1. /\ \A e \in ToSet(examples) : f[e] = Interest(ExamplePaperKey(e.paper), "paper", None, e.paper,
                       ImportanceWeight[e.importance], e.horizon, "positive")
        /\ \A e \in ToSet(unwanted) : g[e] = Interest(NegativePaperKey(e.paper), "paper", None, e.paper,
                         AvoidanceWeight[e.strength], "long", "negative")
    OBVIOUS
  <2>2. /\ DOMAIN f = ToSet(examples) /\ \A n \in DOMAIN examples : examples[n] \in ToSet(examples)
        /\ DOMAIN g = ToSet(unwanted) /\ \A n \in DOMAIN unwanted : unwanted[n] \in ToSet(unwanted)
    BY DEF ToSet
  <2> HIDE DEF f, g
  <2>3. liked \o disliked = PaperInterests(d, usable)
    <3>1. liked = [n \in DOMAIN examples |->
               LET e == examples[n]
               IN  Interest(ExamplePaperKey(e.paper), "paper", None, e.paper,
                            ImportanceWeight[e.importance], e.horizon, "positive")]
      BY <2>1, <2>2
    <3>2. disliked = [n \in DOMAIN unwanted |->
               LET e == unwanted[n]
               IN  Interest(NegativePaperKey(e.paper), "paper", None, e.paper,
                            AvoidanceWeight[e.strength], "long", "negative")]
      BY <2>1, <2>2
    <3> QED
      BY <2>3a, <3>1, <3>2
  <2>4. IsList(liked) /\ ToSet(liked) = {f[e] : e \in ToSet(examples)}
    <3>1. IsList(examples) /\ DOMAIN f = ToSet(examples)
      BY <2>0, <2>2
    <3> QED
      BY <3>1, MappedLists
  <2>5. IsList(disliked) /\ ToSet(disliked) = {g[e] : e \in ToSet(unwanted)}
    <3>1. IsList(unwanted) /\ DOMAIN g = ToSet(unwanted)
      BY <2>0, <2>2
    <3> QED
      BY <3>1, MappedLists
  <2>6. {f[e] : e \in ToSet(examples)} = Exemplary(d, usable) /\ {g[e] : e \in ToSet(unwanted)} = Unwanted(d, usable)
    BY <2>0, <2>1 DEF Exemplary, Unwanted
  <2> HIDE DEF liked, disliked
  <2>7. IsList(liked \o disliked) /\ ToSet(liked \o disliked) = ToSet(liked) \cup ToSet(disliked)
    BY <2>4, <2>5, JoinedLists
  <2> QED
    BY <2>3, <2>4, <2>5, <2>6, <2>7
<1>4. /\ ProfileOf(d, usable).interests = (FieldInterests(d) \o TextInterests(d)) \o PaperInterests(d, usable)
  BY DEF ProfileOf
<1>5. /\ IsList(FieldInterests(d) \o TextInterests(d))
      /\ ToSet(FieldInterests(d) \o TextInterests(d)) = Followed(d) \cup Stated(d) \cup Disliked(d)
  BY <1>1, <1>2, JoinedLists
<1> QED
  BY <1>3, <1>4, <1>5, JoinedLists

\* The vectors and the keys of the interests that are matched.
LEMMA ProfilesAreRankable ==
    ASSUME NEW d \in Draft, NEW usable \in SUBSET Papers, IsProfile(ProfileOf(d, usable))
    PROVE  /\ IsRankable(ProfileOf(d, usable))
           /\ \A i \in ToSet(Semantic(ProfileOf(d, usable), "positive")) :
                 \/ \E s \in Texts : i.key = InterestKey(s)
                 \/ \E p \in Papers : i.key = ExamplePaperKey(p)
<1> DEFINE r == ProfileOf(d, usable)
           all == ToSet(r.interests)
<1>1. /\ IsList(r.interests)
      /\ all = Followed(d) \cup Stated(d) \cup Disliked(d) \cup Exemplary(d, usable) \cup Unwanted(d, usable)
  BY DraftsAreLists, InterestsOfADraft
<1>2. \A i \in all : i.weight \in 0..MaxWeight
  BY DEF IsProfile
<1>3. ASSUME NEW i \in Followed(d) PROVE i.kind = "field"
  BY DEF Followed, Interest
<1>4. ASSUME NEW i \in Stated(d)
      PROVE  i.vector \in Texts /\ i.polarity = "positive" /\ \E s \in Texts : i.key = InterestKey(s)
  <2>1. PICK e \in ToSet(d.interests) :
           i = Interest(InterestKey(e.text), "stated", None, e.text,
                        ImportanceWeight[e.importance], e.horizon, "positive")
    BY DEF Stated
  <2>2. e.text \in Texts
    BY DraftsAreLists
  <2> QED
    BY <2>1, <2>2 DEF Interest
<1>5. ASSUME NEW i \in Disliked(d) PROVE i.vector \in Texts /\ i.polarity = "negative"
  <2>1. PICK e \in ToSet(d.negatives) :
           i = Interest(NegativeInterestKey(e.text), "stated", None, e.text,
                        AvoidanceWeight[e.strength], "long", "negative")
    BY DEF Disliked
  <2>2. e.text \in Texts
    BY DraftsAreLists
  <2> QED
    BY <2>1, <2>2 DEF Interest
<1>6. ASSUME NEW i \in Exemplary(d, usable)
      PROVE  i.vector \in Papers /\ i.polarity = "positive" /\ \E p \in Papers : i.key = ExamplePaperKey(p)
  <2>1. PICK e \in {x \in ToSet(d.examples) : x.paper \in usable} :
           i = Interest(ExamplePaperKey(e.paper), "paper", None, e.paper,
                        ImportanceWeight[e.importance], e.horizon, "positive")
    BY DEF Exemplary
  <2> QED
    BY <2>1 DEF Interest
<1>7. ASSUME NEW i \in Unwanted(d, usable) PROVE i.vector \in Papers /\ i.polarity = "negative"
  <2>1. PICK e \in {x \in ToSet(d.negativePapers) : x.paper \in usable} :
           i = Interest(NegativePaperKey(e.paper), "paper", None, e.paper,
                        AvoidanceWeight[e.strength], "long", "negative")
    BY DEF Unwanted
  <2> QED
    BY <2>1 DEF Interest
<1> HIDE DEF r
<1>8. ASSUME NEW polarity
      PROVE  /\ IsList(Semantic(r, polarity))
             /\ ToSet(Semantic(r, polarity)) = {i \in all : i.polarity = polarity /\ IsSemantic(i)}
  <2> DEFINE set == {i \in all : i.polarity = polarity /\ IsSemantic(i)}
  <2>1. Semantic(r, polarity) = Among(r.interests, set)
    BY DEF Semantic
  <2>2. set \subseteq ToSet(r.interests)
    OBVIOUS
  <2> HIDE DEF set
  <2>3. IsList(Among(r.interests, set)) /\ ToSet(Among(r.interests, set)) = ToSet(r.interests) \cap set
    BY <1>1, EntriesAmong
  <2>4. ToSet(Among(r.interests, set)) = set
    BY <2>2, <2>3
  <2> QED
    BY <2>1, <2>3, <2>4 DEF set
<1> HIDE DEF all
<1>9. ASSUME NEW i \in all, IsSemantic(i)
      PROVE  /\ i.vector \in Texts \cup Papers
             /\ i.polarity = "positive" => \/ \E s \in Texts : i.key = InterestKey(s)
                                           \/ \E p \in Papers : i.key = ExamplePaperKey(p)
  <2>1. i \notin Followed(d)
    BY <1>3, <1>9 DEF IsSemantic, SemanticKinds
  <2> QED
    BY <1>1, <1>4, <1>5, <1>6, <1>7, <2>1
<1>10. IsRankable(r)
  BY <1>2, <1>8, <1>9 DEF IsRankable
<1>11. \A i \in ToSet(Semantic(r, "positive")) :
          \/ \E s \in Texts : i.key = InterestKey(s)
          \/ \E p \in Papers : i.key = ExamplePaperKey(p)
  BY <1>8, <1>9
<1> QED
  BY <1>10, <1>11 DEF r

\* The keys of a draft, each the reader's own choice under the mark of its kind.
DraftKeys(d) ==
    {FieldKey(s) : s \in ToSet(d.fields)}
    \cup {InterestKey(e.text) : e \in ToSet(d.interests)}
    \cup {NegativeInterestKey(e.text) : e \in ToSet(d.negatives)}
    \cup {ExamplePaperKey(e.paper) : e \in {x \in ToSet(d.examples) : x.paper \in Papers}}
    \cup {NegativePaperKey(e.paper) : e \in {x \in ToSet(d.negativePapers) : x.paper \in Papers}}

LEMMA KeysOfADraft ==
    ASSUME NEW d, IsList(d.fields), IsList(d.interests), IsList(d.negatives),
           IsList(d.examples), IsList(d.negativePapers)
    PROVE  Keys(ProfileOf(d, Papers)) = DraftKeys(d)
<1>0. \A key, kind, value, vector, weight, horizon, polarity :
        Interest(key, kind, value, vector, weight, horizon, polarity).key = key
  BY DEF Interest
<1>1. ToSet(ProfileOf(d, Papers).interests) =
         Followed(d) \cup Stated(d) \cup Disliked(d) \cup Exemplary(d, Papers) \cup Unwanted(d, Papers)
  BY InterestsOfADraft
<1>2. {i.key : i \in Followed(d)} = {FieldKey(s) : s \in ToSet(d.fields)}
  <2> DEFINE made(e) == Interest(FieldKey(e), "field", e, None, 100, "long", "positive")
  <2>1. \A e : made(e).key = FieldKey(e)
    BY <1>0
  <2>2. Followed(d) = {made(e) : e \in ToSet(d.fields)}
    BY DEF Followed
  <2> HIDE DEF made
  <2> QED
    BY <2>1, <2>2
<1>3. {i.key : i \in Stated(d)} = {InterestKey(e.text) : e \in ToSet(d.interests)}
  <2> DEFINE made(e) == Interest(InterestKey(e.text), "stated", None, e.text,
                          ImportanceWeight[e.importance], e.horizon, "positive")
  <2>1. \A e : made(e).key = InterestKey(e.text)
    BY <1>0
  <2>2. Stated(d) = {made(e) : e \in ToSet(d.interests)}
    BY DEF Stated
  <2> HIDE DEF made
  <2> QED
    BY <2>1, <2>2
<1>4. {i.key : i \in Disliked(d)} = {NegativeInterestKey(e.text) : e \in ToSet(d.negatives)}
  <2> DEFINE made(e) == Interest(NegativeInterestKey(e.text), "stated", None, e.text,
                          AvoidanceWeight[e.strength], "long", "negative")
  <2>1. \A e : made(e).key = NegativeInterestKey(e.text)
    BY <1>0
  <2>2. Disliked(d) = {made(e) : e \in ToSet(d.negatives)}
    BY DEF Disliked
  <2> HIDE DEF made
  <2> QED
    BY <2>1, <2>2
<1>5. {i.key : i \in Exemplary(d, Papers)} =
         {ExamplePaperKey(e.paper) : e \in {x \in ToSet(d.examples) : x.paper \in Papers}}
  <2> DEFINE made(e) == Interest(ExamplePaperKey(e.paper), "paper", None, e.paper,
                          ImportanceWeight[e.importance], e.horizon, "positive")
  <2>1. \A e : made(e).key = ExamplePaperKey(e.paper)
    BY <1>0
  <2>2. Exemplary(d, Papers) = {made(e) : e \in {x \in ToSet(d.examples) : x.paper \in Papers}}
    BY DEF Exemplary
  <2> HIDE DEF made
  <2> QED
    BY <2>1, <2>2
<1>6. {i.key : i \in Unwanted(d, Papers)} =
         {NegativePaperKey(e.paper) : e \in {x \in ToSet(d.negativePapers) : x.paper \in Papers}}
  <2> DEFINE made(e) == Interest(NegativePaperKey(e.paper), "paper", None, e.paper,
                          AvoidanceWeight[e.strength], "long", "negative")
  <2>1. \A e : made(e).key = NegativePaperKey(e.paper)
    BY <1>0
  <2>2. Unwanted(d, Papers) = {made(e) : e \in {x \in ToSet(d.negativePapers) : x.paper \in Papers}}
    BY DEF Unwanted
  <2> HIDE DEF made
  <2> QED
    BY <2>1, <2>2
<1>7. Keys(ProfileOf(d, Papers)) =
         {i.key : i \in Followed(d)} \cup {i.key : i \in Stated(d)} \cup {i.key : i \in Disliked(d)}
         \cup {i.key : i \in Exemplary(d, Papers)} \cup {i.key : i \in Unwanted(d, Papers)}
  BY <1>1 DEF Keys
<1> QED
  BY <1>2, <1>3, <1>4, <1>5, <1>6, <1>7 DEF DraftKeys

\* A key is marked by its kind, so that only the choice it was made from is
\* taken out.
LEMMA RemovalTakesOneInterest ==
    ASSUME NEW d \in Draft, NEW key,
           \/ \E s \in Texts : key = InterestKey(s)
           \/ \E p \in Papers : key = ExamplePaperKey(p)
    PROVE  Keys(ProfileOf(RemoveInterest(d, key), Papers)) = Keys(ProfileOf(d, Papers)) \ {key}
<1> DEFINE
    c == RemoveInterest(d, key)
    interests == {e \in ToSet(d.interests) : InterestKey(e.text) # key}
    negatives == {e \in ToSet(d.negatives) : NegativeInterestKey(e.text) # key}
    examples  == {e \in ToSet(d.examples) : ExamplePaperKey(e.paper) # key}
    fields    == {s \in ToSet(d.fields) : FieldKey(s) # key}
<1>1. /\ c.interests = Among(d.interests, interests) /\ c.negatives = Among(d.negatives, negatives)
      /\ c.examples = Among(d.examples, examples) /\ c.fields = Among(d.fields, fields)
      /\ c.negativePapers = d.negativePapers
  BY DEF Draft, RemoveInterest
<1>2. /\ IsList(d.fields) /\ IsList(d.interests) /\ IsList(d.negatives)
      /\ IsList(d.examples) /\ IsList(d.negativePapers)
  BY DraftsAreLists
<1>3. /\ interests \subseteq ToSet(d.interests) /\ negatives \subseteq ToSet(d.negatives)
      /\ examples \subseteq ToSet(d.examples) /\ fields \subseteq ToSet(d.fields)
  OBVIOUS
<1>4. /\ IsList(c.interests) /\ ToSet(c.interests) = interests
      /\ IsList(c.negatives) /\ ToSet(c.negatives) = negatives
      /\ IsList(c.examples) /\ ToSet(c.examples) = examples
      /\ IsList(c.fields) /\ ToSet(c.fields) = fields
  <2> HIDE DEF c, interests, negatives, examples, fields
  <2>1. IsList(c.interests) /\ ToSet(c.interests) = ToSet(d.interests) \cap interests
    BY <1>1, <1>2, EntriesAmong
  <2>2. IsList(c.negatives) /\ ToSet(c.negatives) = ToSet(d.negatives) \cap negatives
    BY <1>1, <1>2, EntriesAmong
  <2>3. IsList(c.examples) /\ ToSet(c.examples) = ToSet(d.examples) \cap examples
    BY <1>1, <1>2, EntriesAmong
  <2>4. IsList(c.fields) /\ ToSet(c.fields) = ToSet(d.fields) \cap fields
    BY <1>1, <1>2, EntriesAmong
  <2> QED
    BY <1>3, <2>1, <2>2, <2>3, <2>4
<1>5. Keys(ProfileOf(d, Papers)) = DraftKeys(d)
  BY <1>2, KeysOfADraft
<1>6. Keys(ProfileOf(c, Papers)) = DraftKeys(c)
  <2> HIDE DEF c
  <2> QED
    BY <1>1, <1>2, <1>4, KeysOfADraft
<1>7. \A p \in Papers : NegativePaperKey(p) # key
  BY DEF NegativePaperKey, InterestKey, ExamplePaperKey
<1> HIDE DEF c
<1>8. /\ {FieldKey(s) : s \in fields} = {FieldKey(s) : s \in ToSet(d.fields)} \ {key}
      /\ {InterestKey(e.text) : e \in interests} = {InterestKey(e.text) : e \in ToSet(d.interests)} \ {key}
      /\ {NegativeInterestKey(e.text) : e \in negatives} =
            {NegativeInterestKey(e.text) : e \in ToSet(d.negatives)} \ {key}
      /\ {ExamplePaperKey(e.paper) : e \in {x \in examples : x.paper \in Papers}} =
            {ExamplePaperKey(e.paper) : e \in {x \in ToSet(d.examples) : x.paper \in Papers}} \ {key}
      /\ {NegativePaperKey(e.paper) : e \in {x \in ToSet(d.negativePapers) : x.paper \in Papers}} =
            {NegativePaperKey(e.paper) : e \in {x \in ToSet(d.negativePapers) : x.paper \in Papers}} \ {key}
  BY <1>7
<1>9. DraftKeys(c) = DraftKeys(d) \ {key}
  <2>1. DraftKeys(c) =
           {FieldKey(s) : s \in fields}
           \cup {InterestKey(e.text) : e \in interests}
           \cup {NegativeInterestKey(e.text) : e \in negatives}
           \cup {ExamplePaperKey(e.paper) : e \in {x \in examples : x.paper \in Papers}}
           \cup {NegativePaperKey(e.paper) : e \in {x \in ToSet(d.negativePapers) : x.paper \in Papers}}
    <3> HIDE DEF interests, negatives, examples, fields
    <3> QED
      BY <1>1, <1>4 DEF DraftKeys
  <2> HIDE DEF interests, negatives, examples, fields
  <2>2. DraftKeys(c) =
           ({FieldKey(s) : s \in ToSet(d.fields)} \ {key})
           \cup ({InterestKey(e.text) : e \in ToSet(d.interests)} \ {key})
           \cup ({NegativeInterestKey(e.text) : e \in ToSet(d.negatives)} \ {key})
           \cup ({ExamplePaperKey(e.paper) : e \in {x \in ToSet(d.examples) : x.paper \in Papers}} \ {key})
           \cup ({NegativePaperKey(e.paper) : e \in {x \in ToSet(d.negativePapers) : x.paper \in Papers}} \ {key})
    BY <1>8, <2>1
  <2> QED
    BY <2>2 DEF DraftKeys
<1> QED
  BY <1>5, <1>6, <1>9 DEF c

LEMMA EarliestAndLatest ==
    ASSUME NEW S \in SUBSET Int, IsFiniteSet(S), S # {}
    PROVE  Earliest(S) \in S /\ Latest(S) \in S
<1>1. (\E n \in S : \A m \in S : n <= m) /\ (\E n \in S : \A m \in S : m <= n)
  BY FiniteSetsHaveBounds
<1> QED
  BY <1>1 DEF Earliest, Latest

LEMMA PlacesOfAKey ==
    ASSUME NEW size \in Nat, NEW key, DOMAIN key = 1 .. size, NEW n \in DOMAIN key
    PROVE  /\ n \in Alike(key, n) /\ Alike(key, n) \in SUBSET DOMAIN key
           /\ \A S \in SUBSET Alike(key, n) : S # {} => Earliest(S) \in S /\ Latest(S) \in S
<1>1. n \in Alike(key, n) /\ Alike(key, n) \in SUBSET DOMAIN key
  BY DEF Alike
<1>2. IsFiniteSet(1 .. size)
  BY FS_Interval
<1>3. ASSUME NEW S \in SUBSET Alike(key, n), S # {} PROVE Earliest(S) \in S /\ Latest(S) \in S
  <2>1. S \in SUBSET (1 .. size)
    BY <1>1
  <2>2. IsFiniteSet(S)
    BY <1>2, <2>1, FS_Subset
  <2>3. S \in SUBSET Int
    BY <2>1
  <2> QED
    BY <1>3, <2>2, <2>3, EarliestAndLatest
<1> QED
  BY <1>1, <1>3

LEMMA FirstsAndLastsStand ==
    ASSUME NEW size \in Nat, NEW key, DOMAIN key = 1 .. size
    PROVE  Firsts(key) \in [DOMAIN key -> DOMAIN key] /\ Lasts(key) \in [DOMAIN key -> DOMAIN key]
<1>1. \A n \in DOMAIN key : Earliest(Alike(key, n)) \in DOMAIN key /\ Latest(Alike(key, n)) \in DOMAIN key
  <2> SUFFICES ASSUME NEW n \in DOMAIN key
               PROVE  Earliest(Alike(key, n)) \in DOMAIN key /\ Latest(Alike(key, n)) \in DOMAIN key
    OBVIOUS
  <2>1. /\ n \in Alike(key, n) /\ Alike(key, n) \in SUBSET DOMAIN key
        /\ \A S \in SUBSET Alike(key, n) : S # {} => Earliest(S) \in S /\ Latest(S) \in S
    BY PlacesOfAKey
  <2>2. Earliest(Alike(key, n)) \in Alike(key, n) /\ Latest(Alike(key, n)) \in Alike(key, n)
    BY <2>1
  <2> QED
    BY <2>1, <2>2
<1> QED
  BY <1>1 DEF Firsts, Lasts

LEMMA ImportanceIsALevel ==
    /\ \A level \in Importance : ImportanceRank(level) \in 1 .. 3
    /\ Importance = {"occasional", "interested", "core"}
    /\ \A level \in Importance, delta \in {-1, 0, 1} : StepImportance(level, delta) \in Importance
<1>1. /\ DOMAIN ImportanceOrder = 1 .. 3 /\ Len(ImportanceOrder) = 3
      /\ ImportanceOrder[1] = "occasional" /\ ImportanceOrder[2] = "interested" /\ ImportanceOrder[3] = "core"
  BY DEF ImportanceOrder
<1>2. Importance = {"occasional", "interested", "core"}
  <2>1. Importance = {ImportanceOrder[n] : n \in 1 .. 3}
    BY <1>1 DEF Importance, ToSet
  <2> QED
    BY <1>1, <2>1
<1>3. ASSUME NEW level \in Importance PROVE ImportanceRank(level) \in 1 .. 3
  <2>1. \E n \in DOMAIN ImportanceOrder : ImportanceOrder[n] = level
    BY <1>1, <1>2
  <2> QED
    BY <1>1, <2>1 DEF ImportanceRank
<1>4. ASSUME NEW level \in Importance, NEW delta \in {-1, 0, 1}
      PROVE  StepImportance(level, delta) \in Importance
  <2> DEFINE moved == ImportanceRank(level) + delta
             place == IF moved < 1 THEN 1 ELSE IF moved > Len(ImportanceOrder) THEN Len(ImportanceOrder) ELSE moved
  <2>1. moved \in Int
    BY <1>3
  <2>2. place \in 1 .. 3
    BY <1>1, <2>1
  <2>3. StepImportance(level, delta) = ImportanceOrder[place]
    BY DEF StepImportance
  <2> HIDE DEF place
  <2> QED
    BY <1>1, <1>2, <2>2, <2>3
<1> QED
  BY <1>2, <1>3, <1>4

LEMMA StrongestStands ==
    ASSUME NEW size \in Nat, NEW list, NEW key, DOMAIN key = 1 .. size,
           \A n \in 1 .. size : list[n].importance \in Importance
    PROVE  Strongest(list, key) \in [DOMAIN key -> DOMAIN key]
<1> DEFINE heaviest(n) == {m \in Alike(key, n) : \A k \in Alike(key, n) : Level(list, k) <= Level(list, m)}
<1>1. \A n \in 1 .. size : Level(list, n) \in Int
  BY ImportanceIsALevel DEF Level
<1>2. ASSUME NEW n \in DOMAIN key PROVE Earliest(heaviest(n)) \in DOMAIN key
  <2> DEFINE places == Alike(key, n)
             level == [k \in places |-> Level(list, k)]
             levels == {level[k] : k \in DOMAIN level}
  <2>1. /\ n \in places /\ places \in SUBSET (1 .. size)
        /\ \A S \in SUBSET places : S # {} => Earliest(S) \in S
    BY PlacesOfAKey
  <2> HIDE DEF places
  <2>2. IsFiniteSet(places)
    <3>1. IsFiniteSet(1 .. size)
      BY FS_Interval
    <3> QED
      BY <2>1, <3>1, FS_Subset
  <2>3. DOMAIN level = places /\ \A k \in places : level[k] = Level(list, k) /\ level[k] \in Int
    BY <1>1, <2>1
  <2> HIDE DEF level
  <2>4. IsFiniteSet(levels)
    BY <2>2, <2>3, FiniteImage
  <2>5. levels \in SUBSET Int /\ levels # {}
    BY <2>1, <2>3
  <2>6. \E v \in levels : \A w \in levels : w <= v
    BY <2>4, <2>5, FiniteSetsHaveBounds
  <2>7. \E m \in places : \A k \in places : Level(list, k) <= Level(list, m)
    BY <2>3, <2>6
  <2>8. heaviest(n) \in SUBSET places /\ heaviest(n) # {}
    BY <2>7 DEF places
  <2> HIDE DEF heaviest
  <2>9. Earliest(heaviest(n)) \in heaviest(n)
    BY <2>1, <2>8
  <2> QED
    BY <2>1, <2>8, <2>9
<1>3. Strongest(list, key) = [n \in DOMAIN key |-> Earliest(heaviest(n))]
  BY DEF Strongest
<1> HIDE DEF heaviest
<1> QED
  BY <1>2, <1>3

LEMMA AvoidedStands ==
    ASSUME NEW size \in Nat, NEW list, NEW key, DOMAIN key = 1 .. size
    PROVE  Avoided(list, key) \in [DOMAIN key -> DOMAIN key]
<1> DEFINE avoid(n) == {m \in Alike(key, n) : list[m].strength = "avoid"}
           place(n) == IF avoid(n) = {} THEN Earliest(Alike(key, n)) ELSE Latest(avoid(n))
<1>1. ASSUME NEW n \in DOMAIN key PROVE place(n) \in DOMAIN key
  <2>1. /\ n \in Alike(key, n) /\ Alike(key, n) \in SUBSET DOMAIN key
        /\ \A S \in SUBSET Alike(key, n) : S # {} => Earliest(S) \in S /\ Latest(S) \in S
    BY PlacesOfAKey
  <2>2. avoid(n) \in SUBSET Alike(key, n)
    OBVIOUS
  <2> HIDE DEF avoid
  <2>3. CASE avoid(n) = {}
    <3>1. Earliest(Alike(key, n)) \in Alike(key, n)
      BY <2>1
    <3> QED
      BY <2>1, <2>3, <3>1
  <2>4. CASE avoid(n) # {}
    <3>1. Latest(avoid(n)) \in avoid(n)
      BY <2>1, <2>2, <2>4
    <3> QED
      BY <2>1, <2>2, <2>4, <3>1
  <2> QED
    BY <2>3, <2>4
<1>2. Avoided(list, key) = [n \in DOMAIN key |-> place(n)]
  BY DEF Avoided
<1> HIDE DEF place
<1> QED
  BY <1>1, <1>2

LEMMA MergedIsAList ==
    ASSUME NEW T, NEW list \in Seq(T), NEW key, NEW stands \in [DOMAIN list -> DOMAIN list]
    PROVE  Merged(list, key, stands) \in Seq(T)
<1> DEFINE s == [n \in DOMAIN list |-> list[stands[n]]]
           at == {n \in DOMAIN list : n = Earliest(Alike(key, n))}
<1>1. DOMAIN list = 1 .. Len(list) /\ Len(list) \in Nat
  OBVIOUS
<1>2. s \in Seq(T) /\ DOMAIN s = DOMAIN list
  <2>1. s \in [1 .. Len(list) -> T]
    BY <1>1
  <2> HIDE DEF s
  <2> QED
    BY <1>1, <2>1
<1>3. at \in SUBSET DOMAIN s
  OBVIOUS
<1> HIDE DEF s, at
<1>4. Picked(s, at) \in Seq(T)
  BY <1>2, <1>3, PickedIsASublist
<1> QED
  BY <1>4 DEF Merged, s, at

TextEntries   == [text : Texts, importance : Importance, horizon : Horizon]
PaperEntries  == [paper : Papers, importance : Importance, horizon : Horizon]
AvoidedTexts  == [text : Texts, strength : DOMAIN AvoidanceWeight]
AvoidedPapers == [paper : Papers, strength : DOMAIN AvoidanceWeight]

LEMMA ListsHaveLengths ==
    ASSUME NEW T, NEW list \in Seq(T)
    PROVE  Len(list) \in Nat /\ DOMAIN list = 1 .. Len(list) /\ \A n \in DOMAIN list : list[n] \in T
  OBVIOUS

LEMMA DescribedIsAList ==
    ASSUME NEW T \in {TextEntries, AvoidedTexts}, NEW list \in Seq(T)
    PROVE  Described(list) \in Seq(T)
<1> DEFINE usable == {e \in ToSet(list) : Tidied(e.text) \in Describable}
           kept == Among(list, usable)
           tidied == [n \in DOMAIN kept |-> [kept[n] EXCEPT !.text = Tidied(@)]]
<1>1. kept \in Seq(T) /\ ToSet(kept) = ToSet(list) \cap usable
  <2> HIDE DEF usable
  <2> QED
    BY AmongIsASublist
<1>2. Described(list) = tidied
  BY DEF Described
<1> HIDE DEF kept
<1>3. DOMAIN kept = 1 .. Len(kept) /\ Len(kept) \in Nat
  BY <1>1
<1>4. ASSUME NEW n \in 1 .. Len(kept) PROVE tidied[n] \in T
  <2>1. kept[n] \in T /\ kept[n] \in usable
    <3>1. kept[n] \in T /\ kept[n] \in ToSet(kept)
      BY <1>1, <1>3 DEF ToSet
    <3> HIDE DEF usable
    <3> QED
      BY <1>1, <3>1
  <2>2. Tidied(kept[n].text) \in Texts
    BY <2>1, DescribableAreTexts
  <2>3. tidied[n] = [kept[n] EXCEPT !.text = Tidied(kept[n].text)]
    BY <1>3
  <2>4. CASE T = TextEntries
    BY <2>1, <2>2, <2>3, <2>4 DEF TextEntries
  <2>5. CASE T = AvoidedTexts
    BY <2>1, <2>2, <2>3, <2>5 DEF AvoidedTexts
  <2> QED
    BY <2>4, <2>5
<1>5. tidied \in [1 .. Len(kept) -> T]
  BY <1>3, <1>4
<1> HIDE DEF tidied
<1> QED
  BY <1>2, <1>3, <1>5

LEMMA CleanedIsADraft ==
    ASSUME NEW d \in Draft
    PROVE  Cleaned(d) \in Draft
<1>1. /\ d.fields \in Seq(Fields) /\ d.blocked \in Seq(Topics)
      /\ d.interests \in Seq(TextEntries) /\ d.examples \in Seq(PaperEntries)
      /\ d.negatives \in Seq(AvoidedTexts) /\ d.negativePapers \in Seq(AvoidedPapers)
  BY DEF Draft, TextEntries, PaperEntries, AvoidedTexts, AvoidedPapers
<1>2. CleanFields(d.fields) \in Seq(Fields)
  <2> DEFINE list == d.fields
             merged == Merged(list, list, Firsts(list))
  <2>1. list \in Seq(Fields) /\ Len(list) \in Nat /\ DOMAIN list = 1 .. Len(list)
    BY <1>1, ListsHaveLengths
  <2> HIDE DEF list
  <2>2. Firsts(list) \in [DOMAIN list -> DOMAIN list]
    BY <2>1, FirstsAndLastsStand
  <2>3. merged \in Seq(Fields)
    BY <2>1, <2>2, MergedIsAList
  <2> HIDE DEF merged
  <2>4. Among(merged, KnownFields) \in Seq(Fields)
    BY <2>3, AmongIsASublist
  <2> QED
    BY <2>4 DEF CleanFields, merged, list
<1>3. CleanBlocked(d.blocked) \in Seq(Topics)
  <2> DEFINE list == d.blocked
  <2>1. list \in Seq(Topics) /\ Len(list) \in Nat /\ DOMAIN list = 1 .. Len(list)
    BY <1>1, ListsHaveLengths
  <2> HIDE DEF list
  <2>2. Firsts(list) \in [DOMAIN list -> DOMAIN list]
    BY <2>1, FirstsAndLastsStand
  <2>3. Merged(list, list, Firsts(list)) \in Seq(Topics)
    BY <2>1, <2>2, MergedIsAList
  <2> QED
    BY <2>3 DEF CleanBlocked, list
<1>4. CleanInterests(d.interests) \in Seq(TextEntries)
  <2> DEFINE kept == Described(d.interests)
             key == TextKeys(kept)
  <2>1. kept \in Seq(TextEntries)
    BY <1>1, DescribedIsAList
  <2>2. Len(kept) \in Nat /\ DOMAIN kept = 1 .. Len(kept) /\ \A n \in DOMAIN kept : kept[n] \in TextEntries
    BY <2>1, ListsHaveLengths
  <2> HIDE DEF kept
  <2>3. DOMAIN key = 1 .. Len(kept)
    BY <2>2 DEF TextKeys
  <2> HIDE DEF key
  <2>4. \A n \in 1 .. Len(kept) : kept[n].importance \in Importance
    BY <2>2 DEF TextEntries
  <2>5. Strongest(kept, key) \in [DOMAIN kept -> DOMAIN kept]
    BY <2>2, <2>3, <2>4, StrongestStands
  <2>6. Merged(kept, key, Strongest(kept, key)) \in Seq(TextEntries)
    BY <2>1, <2>5, MergedIsAList
  <2> QED
    BY <2>6 DEF CleanInterests, key, kept
<1>5. CleanNegatives(d.negatives) \in Seq(AvoidedTexts)
  <2> DEFINE kept == Described(d.negatives)
             key == TextKeys(kept)
  <2>1. kept \in Seq(AvoidedTexts)
    BY <1>1, DescribedIsAList
  <2>2. Len(kept) \in Nat /\ DOMAIN kept = 1 .. Len(kept)
    BY <2>1, ListsHaveLengths
  <2> HIDE DEF kept
  <2>3. DOMAIN key = 1 .. Len(kept)
    BY <2>2 DEF TextKeys
  <2> HIDE DEF key
  <2>4. Avoided(kept, key) \in [DOMAIN kept -> DOMAIN kept]
    BY <2>2, <2>3, AvoidedStands
  <2>5. Merged(kept, key, Avoided(kept, key)) \in Seq(AvoidedTexts)
    BY <2>1, <2>4, MergedIsAList
  <2> QED
    BY <2>5 DEF CleanNegatives, key, kept
<1>6. CleanPapers(d.examples) \in Seq(PaperEntries)
  <2> DEFINE list == d.examples
             key == PaperKeys(list)
  <2>1. /\ list \in Seq(PaperEntries) /\ Len(list) \in Nat /\ DOMAIN list = 1 .. Len(list)
        /\ \A n \in DOMAIN list : list[n] \in PaperEntries
    BY <1>1, ListsHaveLengths
  <2> HIDE DEF list
  <2>2. DOMAIN key = 1 .. Len(list)
    BY <2>1 DEF PaperKeys
  <2> HIDE DEF key
  <2>3. \A n \in 1 .. Len(list) : list[n].importance \in Importance
    BY <2>1 DEF PaperEntries
  <2>4. Strongest(list, key) \in [DOMAIN list -> DOMAIN list]
    BY <2>1, <2>2, <2>3, StrongestStands
  <2>5. Merged(list, key, Strongest(list, key)) \in Seq(PaperEntries)
    BY <2>1, <2>4, MergedIsAList
  <2> QED
    BY <2>5 DEF CleanPapers, key, list
<1>7. CleanNegativePapers(d.negativePapers, CleanPapers(d.examples)) \in Seq(AvoidedPapers)
  <2> DEFINE examples == CleanPapers(d.examples)
             others == {e \in ToSet(d.negativePapers) : \A x \in ToSet(examples) : x.paper # e.paper}
             kept == Among(d.negativePapers, others)
             key == PaperKeys(kept)
  <2>1. kept \in Seq(AvoidedPapers)
    <3> HIDE DEF others
    <3> QED
      BY <1>1, AmongIsASublist
  <2>2. CleanNegativePapers(d.negativePapers, examples) = Merged(kept, key, Lasts(key))
    BY DEF CleanNegativePapers
  <2> HIDE DEF kept
  <2>3. Len(kept) \in Nat /\ DOMAIN kept = 1 .. Len(kept)
    BY <2>1, ListsHaveLengths
  <2>4. DOMAIN key = 1 .. Len(kept)
    BY <2>3 DEF PaperKeys
  <2> HIDE DEF key
  <2>5. Lasts(key) \in [DOMAIN kept -> DOMAIN kept]
    BY <2>3, <2>4, FirstsAndLastsStand
  <2>6. Merged(kept, key, Lasts(key)) \in Seq(AvoidedPapers)
    BY <2>1, <2>5, MergedIsAList
  <2> QED
    BY <2>2, <2>6
<1>8. Cleaned(d) = [fields |-> CleanFields(d.fields), interests |-> CleanInterests(d.interests),
                    examples |-> CleanPapers(d.examples), negatives |-> CleanNegatives(d.negatives),
                    negativePapers |-> CleanNegativePapers(d.negativePapers, CleanPapers(d.examples)),
                    blocked |-> CleanBlocked(d.blocked), discovery |-> d.discovery]
  <2> DEFINE fields == CleanFields(d.fields)
             interests == CleanInterests(d.interests)
             examples == CleanPapers(d.examples)
             negatives == CleanNegatives(d.negatives)
             negativePapers == CleanNegativePapers(d.negativePapers, CleanPapers(d.examples))
             blocked == CleanBlocked(d.blocked)
  <2>1. Cleaned(d) = [d EXCEPT !.fields = fields, !.interests = interests, !.negatives = negatives,
                               !.examples = examples, !.negativePapers = negativePapers,
                               !.blocked = blocked]
    BY DEF Cleaned
  <2>2. d = [fields |-> d.fields, interests |-> d.interests, examples |-> d.examples,
             negatives |-> d.negatives, negativePapers |-> d.negativePapers,
             blocked |-> d.blocked, discovery |-> d.discovery]
    BY DEF Draft
  <2> HIDE DEF fields, interests, examples, negatives, negativePapers, blocked
  <2>3. Cleaned(d) = [fields |-> fields, interests |-> interests, examples |-> examples,
                      negatives |-> negatives, negativePapers |-> negativePapers,
                      blocked |-> blocked, discovery |-> d.discovery]
    BY <2>1, <2>2
  <2> QED
    BY <2>3 DEF fields, interests, examples, negatives, negativePapers, blocked
<1>9. d.discovery \in [freshness : DOMAIN FreshnessAppetite, exploration : DOMAIN ExplorationShare,
                       publication : DOMAIN PreprintAppetite]
  BY DEF Draft
<1> QED
  BY <1>2, <1>3, <1>4, <1>5, <1>6, <1>7, <1>8, <1>9
  DEF Draft, TextEntries, PaperEntries, AvoidedTexts, AvoidedPapers

LEMMA SteppedIsADraft ==
    ASSUME NEW d \in Draft, NEW key, NEW delta \in {-1, 0, 1}
    PROVE  StepInterest(d, key, delta) \in Draft
<1> DEFINE
    interests == [n \in DOMAIN d.interests |->
                    IF InterestKey(d.interests[n].text) = key
                    THEN [d.interests[n] EXCEPT !.importance = StepImportance(@, delta)] ELSE d.interests[n]]
    examples == [n \in DOMAIN d.examples |->
                   IF ExamplePaperKey(d.examples[n].paper) = key
                   THEN [d.examples[n] EXCEPT !.importance = StepImportance(@, delta)] ELSE d.examples[n]]
<1>1. d.interests \in Seq(TextEntries) /\ d.examples \in Seq(PaperEntries)
  BY DEF Draft, TextEntries, PaperEntries
<1>2. \A level \in Importance : StepImportance(level, delta) \in Importance
  BY ImportanceIsALevel
<1>3. interests \in Seq(TextEntries)
  <2>1. /\ Len(d.interests) \in Nat /\ DOMAIN d.interests = 1 .. Len(d.interests)
        /\ \A n \in DOMAIN d.interests : d.interests[n] \in TextEntries
    BY <1>1, ListsHaveLengths
  <2>2. \A n \in 1 .. Len(d.interests) :
           [d.interests[n] EXCEPT !.importance = StepImportance(@, delta)] \in TextEntries
    BY <1>2, <2>1 DEF TextEntries
  <2>3. \A n \in 1 .. Len(d.interests) : interests[n] \in TextEntries
    BY <2>1, <2>2
  <2>4. interests \in [1 .. Len(d.interests) -> TextEntries]
    BY <2>1, <2>3
  <2> HIDE DEF interests
  <2> QED
    BY <2>1, <2>4
<1>4. examples \in Seq(PaperEntries)
  <2>1. /\ Len(d.examples) \in Nat /\ DOMAIN d.examples = 1 .. Len(d.examples)
        /\ \A n \in DOMAIN d.examples : d.examples[n] \in PaperEntries
    BY <1>1, ListsHaveLengths
  <2>2. \A n \in 1 .. Len(d.examples) :
           [d.examples[n] EXCEPT !.importance = StepImportance(@, delta)] \in PaperEntries
    BY <1>2, <2>1 DEF PaperEntries
  <2>3. \A n \in 1 .. Len(d.examples) : examples[n] \in PaperEntries
    BY <2>1, <2>2
  <2>4. examples \in [1 .. Len(d.examples) -> PaperEntries]
    BY <2>1, <2>3
  <2> HIDE DEF examples
  <2> QED
    BY <2>1, <2>4
<1>5. StepInterest(d, key, delta) = [d EXCEPT !.interests = interests, !.examples = examples]
  BY DEF StepInterest, Draft
<1> HIDE DEF interests, examples
<1> QED
  BY <1>3, <1>4, <1>5 DEF Draft, TextEntries, PaperEntries

LEMMA LikedIsADraft ==
    ASSUME NEW d \in Draft, NEW paper \in Papers
    PROVE  MoreLikeThis(d, paper) \in Draft
<1> DEFINE liked == [paper |-> paper, importance |-> "interested", horizon |-> "short"]
<1>1. CASE paper \in Papered(d.examples)
  BY <1>1, SteppedIsADraft DEF MoreLikeThis
<1>2. CASE paper \notin Papered(d.examples)
  <2>1. liked \in PaperEntries
    BY ImportanceIsALevel DEF PaperEntries, Horizon
  <2>2. d.examples \in Seq(PaperEntries)
    BY DEF Draft, PaperEntries
  <2>3. Append(d.examples, liked) \in Seq(PaperEntries)
    BY <2>1, <2>2
  <2>4. MoreLikeThis(d, paper) = [d EXCEPT !.examples = Append(d.examples, liked)]
    BY <1>2 DEF MoreLikeThis
  <2> HIDE DEF liked
  <2> QED
    BY <2>3, <2>4 DEF Draft, PaperEntries
<1> QED
  BY <1>1, <1>2

LEMMA DislikedIsADraft ==
    ASSUME NEW d \in Draft, NEW paper \in Papers, NEW key, NEW strength \in DOMAIN AvoidanceWeight,
           NEW step \in {-1, 0, 1}
    PROVE  LessLikeThis(d, paper, key, strength, step) \in Draft
<1> DEFINE
    dislike == [paper |-> paper, strength |-> strength]
    replaced == [n \in DOMAIN d.negativePapers |->
                   IF d.negativePapers[n].paper = paper THEN dislike ELSE d.negativePapers[n]]
    negativePapers == IF paper \in Papered(d.negativePapers) THEN replaced
                      ELSE Append(d.negativePapers, dislike)
    others == {e \in ToSet(d.examples) : e.paper # paper}
    examples == Among(d.examples, others)
    pushed == [d EXCEPT !.negativePapers = negativePapers, !.examples = examples]
<1>1. d.negativePapers \in Seq(AvoidedPapers) /\ d.examples \in Seq(PaperEntries)
  BY DEF Draft, AvoidedPapers, PaperEntries
<1>2. dislike \in AvoidedPapers
  BY DEF AvoidedPapers
<1>3. /\ Len(d.negativePapers) \in Nat /\ DOMAIN d.negativePapers = 1 .. Len(d.negativePapers)
      /\ \A n \in DOMAIN d.negativePapers : d.negativePapers[n] \in AvoidedPapers
  BY <1>1, ListsHaveLengths
<1>4. LessLikeThis(d, paper, key, strength, step) =
         IF step # 0 /\ key # None THEN StepInterest(pushed, key, step) ELSE pushed
  BY DEF LessLikeThis, Draft
<1> HIDE DEF dislike
<1>5. replaced \in Seq(AvoidedPapers)
  <2>1. replaced \in [1 .. Len(d.negativePapers) -> AvoidedPapers]
    BY <1>2, <1>3
  <2> HIDE DEF replaced
  <2> QED
    BY <1>3, <2>1
<1>6. Append(d.negativePapers, dislike) \in Seq(AvoidedPapers)
  BY <1>1, <1>2
<1> HIDE DEF replaced
<1>7. negativePapers \in Seq(AvoidedPapers)
  BY <1>5, <1>6
<1>8. examples \in Seq(PaperEntries)
  <2> HIDE DEF others
  <2> QED
    BY <1>1, AmongIsASublist
<1> HIDE DEF negativePapers, examples
<1>9. pushed \in Draft
  BY <1>7, <1>8 DEF Draft, AvoidedPapers, PaperEntries
<1> HIDE DEF pushed
<1> QED
  BY <1>4, <1>9, SteppedIsADraft

LEMMA RemovedIsADraft ==
    ASSUME NEW d \in Draft, NEW key
    PROVE  RemoveInterest(d, key) \in Draft
<1> DEFINE
    interests == Among(d.interests, {e \in ToSet(d.interests) : InterestKey(e.text) # key})
    negatives == Among(d.negatives, {e \in ToSet(d.negatives) : NegativeInterestKey(e.text) # key})
    examples  == Among(d.examples, {e \in ToSet(d.examples) : ExamplePaperKey(e.paper) # key})
    fields    == Among(d.fields, {s \in ToSet(d.fields) : FieldKey(s) # key})
<1>1. /\ d.fields \in Seq(Fields) /\ d.interests \in Seq(TextEntries)
      /\ d.examples \in Seq(PaperEntries) /\ d.negatives \in Seq(AvoidedTexts)
  BY DEF Draft, TextEntries, PaperEntries, AvoidedTexts
<1>2. \A T : \A s \in Seq(T) : \A set : Among(s, set) \in Seq(T)
  BY AmongIsASublist
<1>3. /\ interests \in Seq(TextEntries) /\ negatives \in Seq(AvoidedTexts)
      /\ examples \in Seq(PaperEntries) /\ fields \in Seq(Fields)
  BY <1>1, <1>2
<1>4. RemoveInterest(d, key) = [d EXCEPT !.interests = interests, !.negatives = negatives,
                                         !.examples = examples, !.fields = fields]
  BY DEF RemoveInterest, Draft
<1> HIDE DEF interests, negatives, examples, fields
<1> QED
  BY <1>3, <1>4 DEF Draft, TextEntries, PaperEntries, AvoidedTexts

LEMMA BlockedIsADraft ==
    ASSUME NEW d \in Draft, NEW topic \in Topics
    PROVE  BlockTopic(d, topic) \in Draft
<1>1. d.blocked \in Seq(Topics)
  BY DEF Draft
<1> DEFINE blocked == Append(d.blocked, topic)
<1>2. blocked \in Seq(Topics)
  BY <1>1
<1>3. BlockTopic(d, topic) = d \/ BlockTopic(d, topic) = [d EXCEPT !.blocked = blocked]
  BY DEF BlockTopic
<1> HIDE DEF blocked
<1> QED
  BY <1>2, <1>3 DEF Draft

LEMMA CorrectedIsADraft ==
    ASSUME NEW d \in Draft, NEW r, r.action \in RefinementAction,
           r.action \in PaperActions => r.paper \in Papers,
           r.action = "block_topic" => r.topic \in Topics
    PROVE  ApplyAll(d, <<r>>) \in Draft
<1> DEFINE
    step(n, before) == IF n = 0 THEN d ELSE ApplyRefinement(before, <<r>>[n])
    once == [n \in 0 .. 1 |-> IF n = 0 THEN d ELSE ApplyRefinement(d, r)]
    after == CHOOSE f : f = [n \in 0 .. 1 |-> IF n = 0 THEN d ELSE ApplyRefinement(f[n - 1], <<r>>[n])]
<1>1. once = [n \in 0 .. 1 |-> IF n = 0 THEN d ELSE ApplyRefinement(once[n - 1], <<r>>[n])]
  <2>1. once[0] = d
    OBVIOUS
  <2>2. \A n \in 0 .. 1 : n # 0 => n = 1 /\ once[n - 1] = d /\ <<r>>[n] = r
    OBVIOUS
  <2> QED
    BY <2>2
<1>2. after = [n \in 0 .. 1 |-> IF n = 0 THEN d ELSE ApplyRefinement(after[n - 1], <<r>>[n])]
  <2> HIDE DEF once
  <2> QED
    BY <1>1
<1>3. ApplyAll(d, <<r>>) = after[1]
  BY DEF ApplyAll
<1> HIDE DEF after, once
<1>4. after[1] = ApplyRefinement(d, r)
  <2>1. after[0] = d
    BY <1>2
  <2>2. after[1] = ApplyRefinement(after[0], <<r>>[1])
    BY <1>2
  <2> QED
    BY <2>1, <2>2
<1>5. "less" \in DOMAIN AvoidanceWeight /\ "avoid" \in DOMAIN AvoidanceWeight
  BY DEF AvoidanceWeight
<1>6. ApplyRefinement(d, r) \in Draft
  <2>1. CASE r.action = "fits"
    BY <2>1 DEF ApplyRefinement
  <2>2. CASE r.action = "more_like_this"
    BY <2>2, LikedIsADraft DEF ApplyRefinement, PaperActions
  <2>3. CASE r.action = "less_like_this"
    BY <1>5, <2>3, DislikedIsADraft DEF ApplyRefinement, PaperActions
  <2>4. CASE r.action = "not_interested"
    BY <1>5, <2>4, DislikedIsADraft DEF ApplyRefinement, PaperActions
  <2>5. CASE r.action = "less_from_interest"
    BY <2>5, SteppedIsADraft DEF ApplyRefinement
  <2>6. CASE r.action = "more_from_interest"
    BY <2>6, SteppedIsADraft DEF ApplyRefinement
  <2>7. CASE r.action = "remove_interest"
    BY <2>7, RemovedIsADraft DEF ApplyRefinement
  <2>8. CASE r.action = "block_topic"
    BY <2>8, BlockedIsADraft DEF ApplyRefinement
  <2> QED
    BY <2>1, <2>2, <2>3, <2>4, <2>5, <2>6, <2>7, <2>8
    DEF RefinementAction, PaperActions, InterestActions
<1> QED
  BY <1>3, <1>4, <1>6

-----------------------------------------------------------------------------
(***************************************************************************)
(* Features and scores.                                                     *)
(***************************************************************************)
LEMMA ClampIsAFraction == ASSUME NEW v \in Int PROVE Clamp(v) \in 0..1000
  BY DEF Clamp, Greatest, Least

LEMMA RescaledIsAFraction == ASSUME NEW v \in Int PROVE Rescaled(v) \in 0..1000
<1>1. ((v - CosineFloor) * 1000) \div (CosineCeiling - CosineFloor) \in Int
  BY DEF CosineFloor, CosineCeiling
<1> QED
  BY SMTT(30), <1>1, ClampIsAFraction DEF Rescaled

LEMMA QuotientsAreBounded ==
    ASSUME NEW t \in Int, NEW m \in Nat \ {0}, t <= 1000 * m
    PROVE  t \div m \in Int /\ t \div m <= 1000 /\ (t >= 0 => t \div m >= 0)
<1> DEFINE q == t \div m
<1>1. q \in Int /\ m * q <= t /\ t < m * q + m
  OBVIOUS
<1> HIDE DEF q
<1>2. q <= 1000
  <2> SUFFICES ASSUME q >= 1001 PROVE FALSE
    BY <1>1
  <2> DEFINE e == q - 1001
  <2>1. e \in Nat /\ q = 1001 + e
    BY <1>1
  <2> HIDE DEF e
  <2>2. m * q = 1001 * m + m * e /\ m * e >= 0
    BY <2>1
  <2> QED
    BY <1>1, <2>1, <2>2
<1>3. ASSUME t >= 0 PROVE q >= 0
  <2> SUFFICES ASSUME q <= -1 PROVE FALSE
    BY <1>1
  <2> DEFINE e == -1 - q
  <2>1. e \in Nat /\ q = -1 - e
    BY <1>1
  <2> HIDE DEF e
  <2>2. m * q = - m - m * e /\ m * e >= 0
    BY <2>1
  <2> QED
    BY <1>1, <1>3, <2>1, <2>2
<1> QED
  BY <1>1, <1>2, <1>3 DEF q

LEMMA ShareIsAFraction ==
    ASSUME NEW present, NEW followed, IsFiniteSet(followed)
    PROVE  Share(present, followed) \in 0..1000
<1>1. CASE followed = {}
  BY <1>1 DEF Share
<1>2. CASE followed # {}
  <2> DEFINE a == Cardinality(present \cap followed)
             b == Cardinality(followed)
  <2>1. b \in Nat /\ b # 0
    BY <1>2, FS_CardinalityType, FS_EmptySet
  <2>2. a \in Nat /\ a <= b
    <3>1. present \cap followed \in SUBSET followed
      OBVIOUS
    <3>2. IsFiniteSet(present \cap followed) /\ a <= b
      BY <3>1, FS_Subset
    <3> QED
      BY <3>2, FS_CardinalityType
  <2>3. Share(present, followed) = (a * 1000) \div b
    BY <1>2 DEF Share
  <2> HIDE DEF a, b
  <2>4. a * 1000 \in Int /\ a * 1000 <= 1000 * b /\ a * 1000 >= 0 /\ b \in Nat \ {0}
    BY <2>1, <2>2
  <2>5. (a * 1000) \div b \in Int /\ (a * 1000) \div b <= 1000 /\ (a * 1000) \div b >= 0
    BY <2>4, QuotientsAreBounded
  <2> QED
    BY <2>3, <2>5
<1> QED
  BY <1>1, <1>2

\* What a profile built from a draft is scored with.
IsServed(r) ==
    /\ IsRankable(r) /\ IsList(r.interests)
    /\ r.preferences.recency_of_interest = 50
    /\ r.preferences.preprint_appetite \in 0..100
    /\ r.preferences.freshness_appetite \in 0..100
    /\ r.preferences.exploration \in Nat

LEMMA ProfilesAreServed ==
    ASSUME NEW d \in Draft, NEW usable \in SUBSET Papers, IsProfile(ProfileOf(d, usable))
    PROVE  IsServed(ProfileOf(d, usable))
<1>1. IsRankable(ProfileOf(d, usable))
  BY ProfilesAreRankable
<1>2. IsList(ProfileOf(d, usable).interests)
  BY DraftsAreLists, InterestsOfADraft
<1>3. /\ d.discovery.freshness \in {"newest_first", "balanced", "relevance_first"}
      /\ d.discovery.exploration \in {"focused", "balanced", "adventurous"}
      /\ d.discovery.publication \in {"include_preprints", "prefer_peer_reviewed", "peer_reviewed_only"}
  BY DEF Draft, FreshnessAppetite, ExplorationShare, PreprintAppetite
<1>4. /\ FreshnessAppetite[d.discovery.freshness] \in 0..100
      /\ ExplorationShare[d.discovery.exploration] \in Nat
      /\ PreprintAppetite[d.discovery.publication] \in 0..100
  BY <1>3 DEF FreshnessAppetite, ExplorationShare, PreprintAppetite
<1>5. ProfileOf(d, usable).preferences = Preferences(d.discovery)
  BY DEF ProfileOf
<1> QED
  BY <1>1, <1>2, <1>4, <1>5 DEF IsServed, Preferences

LEMMA WeightsAreNumbers ==
    ASSUME NEW r, IsServed(r), NEW learned, \A f \in DOMAIN learned : learned[f] \in Int
    PROVE  /\ DOMAIN WeightsFor(r, learned) = Features
           /\ \A f \in Features : WeightsFor(r, learned)[f] \in Nat
<1> DEFINE
    base(f) == IF f = "freshness" THEN FreshnessWeight(r.preferences.freshness_appetite)
                                  ELSE DefaultWeights[f]
<1>1. FreshnessWeight(r.preferences.freshness_appetite) \in Nat
  BY DEF FreshnessWeight, IsServed
<1>2. \A f \in Features : DefaultWeights[f] \in Nat
  BY DEF Features, DefaultWeights
<1>3. \A f \in Features : base(f) \in Nat
  BY <1>1, <1>2
<1>4. WeightsFor(r, learned) = [f \in Features |-> IF f \in DOMAIN learned
                                 THEN Least(200, Greatest(0, base(f) + learned[f])) ELSE base(f)]
  BY DEF WeightsFor
<1> HIDE DEF base
<1> QED
  BY <1>3, <1>4 DEF Least, Greatest

LEMMA PartsOfAWeight ==
    ASSUME NEW w \in Nat, NEW v \in 0..1000
    PROVE  /\ w * v \in Nat /\ w * v <= 1000 * w
           /\ (-1) * w * v = - (w * v) /\ 1 * w * v = w * v
<1> DEFINE e == 1000 - v
<1>1. e \in Nat /\ v = 1000 - e
  OBVIOUS
<1> HIDE DEF e
<1>2. w * v = 1000 * w - w * e /\ w * e \in Nat
  BY <1>1
<1>3. w * v \in Nat /\ (-1) * w * v = - (w * v) /\ 1 * w * v = w * v
  OBVIOUS
<1> QED
  BY <1>2, <1>3

LEMMA TotalsAreBounded ==
    ASSUME NEW part, NEW bound,
           \A f \in Features : part[f] \in Int /\ bound[f] \in Nat /\ part[f] <= 1000 * bound[f]
    PROVE  Total(part) \in Int /\ Total(bound) \in Nat /\ Total(part) <= 1000 * Total(bound)
<1> DEFINE P(f) == part[f] \in Int /\ bound[f] \in Nat /\ part[f] <= 1000 * bound[f]
<1>1. Features = {"semantic_affinity", "affinity_long", "affinity_short", "interest_emphasis",
       "negative_affinity", "topic_affinity", "field_affinity", "author_affinity",
       "venue_affinity", "lexical_affinity", "freshness", "novelty", "source_agreement",
       "quality_prior", "preprint_fit", "seen_fatigue", "retracted"}
  BY DEF Features, DefaultWeights
<1>2. \A f \in Features : P(f)
  OBVIOUS
<1> HIDE DEF P
<1>3. /\ P("semantic_affinity") /\ P("affinity_long") /\ P("affinity_short")
      /\ P("interest_emphasis") /\ P("negative_affinity") /\ P("topic_affinity")
      /\ P("field_affinity") /\ P("author_affinity") /\ P("venue_affinity")
      /\ P("lexical_affinity") /\ P("freshness") /\ P("novelty") /\ P("source_agreement")
      /\ P("quality_prior") /\ P("preprint_fit") /\ P("seen_fatigue") /\ P("retracted")
  BY <1>1, <1>2
<1> QED
  <2> DEFINE
    s1 == part["semantic_affinity"] + part["affinity_long"] + part["affinity_short"]
          + part["interest_emphasis"] + part["negative_affinity"] + part["topic_affinity"]
    s2 == s1 + part["field_affinity"] + part["author_affinity"] + part["venue_affinity"]
             + part["lexical_affinity"] + part["freshness"] + part["novelty"]
    t1 == bound["semantic_affinity"] + bound["affinity_long"] + bound["affinity_short"]
          + bound["interest_emphasis"] + bound["negative_affinity"] + bound["topic_affinity"]
    t2 == t1 + bound["field_affinity"] + bound["author_affinity"] + bound["venue_affinity"]
             + bound["lexical_affinity"] + bound["freshness"] + bound["novelty"]
  <2>1. /\ Total(part) = s2 + part["source_agreement"] + part["quality_prior"]
                         + part["preprint_fit"] + part["seen_fatigue"] + part["retracted"]
        /\ Total(bound) = t2 + bound["source_agreement"] + bound["quality_prior"]
                         + bound["preprint_fit"] + bound["seen_fatigue"] + bound["retracted"]
    BY Zenon DEF Total
  <2>2. s1 \in Int /\ t1 \in Nat /\ s1 <= 1000 * t1
    BY <1>3 DEF P
  <2> HIDE DEF s1, t1
  <2>3. s2 \in Int /\ t2 \in Nat /\ s2 <= 1000 * t2
    BY <1>3, <2>2 DEF P
  <2> HIDE DEF s2, t2
  <2> QED
    BY <1>3, <2>1, <2>3 DEF P

LEMMA ScoreIsAFraction ==
    ASSUME NEW values, NEW weights,
           \A f \in Features : values[f] \in 0..1000 /\ weights[f] \in Nat
    PROVE  Score(values, weights) \in 0..1000
<1> DEFINE
    gain == [f \in Features |-> Direction(f) * weights[f] * values[f]]
    heft == [f \in Features |-> IF f \in Penalties THEN 0 ELSE weights[f]]
<1>1. ASSUME NEW f \in Features
      PROVE  gain[f] \in Int /\ heft[f] \in Nat /\ gain[f] <= 1000 * heft[f]
  <2>1. weights[f] \in Nat /\ values[f] \in 0..1000
    OBVIOUS
  <2>2. /\ gain[f] = Direction(f) * weights[f] * values[f]
        /\ heft[f] = IF f \in Penalties THEN 0 ELSE weights[f]
    OBVIOUS
  <2>3. Direction(f) = IF f \in Penalties THEN -1 ELSE 1
    BY DEF Direction
  <2> HIDE DEF gain, heft
  <2>4. /\ weights[f] * values[f] \in Nat /\ weights[f] * values[f] <= 1000 * weights[f]
        /\ (-1) * weights[f] * values[f] = - (weights[f] * values[f])
        /\ 1 * weights[f] * values[f] = weights[f] * values[f]
    <3> DEFINE w == weights[f]
               v == values[f]
    <3>1. w \in Nat /\ v \in 0..1000
      BY <2>1
    <3> HIDE DEF w, v
    <3>2. w * v \in Nat /\ w * v <= 1000 * w /\ (-1) * w * v = - (w * v) /\ 1 * w * v = w * v
      BY <3>1, PartsOfAWeight
    <3> QED
      BY <3>2 DEF w, v
  <2> QED
    BY <2>1, <2>2, <2>3, <2>4
<1>2. Score(values, weights) = Greatest(0, Total(gain) \div Greatest(1, Total(heft)))
  BY DEF Score
<1> HIDE DEF gain, heft
<1>4. Total(gain) \in Int /\ Total(heft) \in Nat /\ Total(gain) <= 1000 * Total(heft)
  BY <1>1, TotalsAreBounded
<1> DEFINE m == Greatest(1, Total(heft))
<1>5. m \in Nat \ {0} /\ Total(gain) <= 1000 * m
  BY <1>4 DEF Greatest
<1> HIDE DEF m
<1>6. Total(gain) \div m \in Int /\ Total(gain) \div m <= 1000
  BY <1>4, <1>5, QuotientsAreBounded
<1> QED
  BY <1>2, <1>6 DEF m, Greatest

LEMMA ListsAreFinite ==
    ASSUME NEW s, IsList(s)
    PROVE  /\ IsFiniteSet(ToSet(s)) /\ DOMAIN s = 1 .. Len(s) /\ Len(s) \in Nat
           /\ \A n \in DOMAIN s : s[n] \in ToSet(s)
           /\ s # << >> => 1 \in DOMAIN s
<1> DEFINE T == ToSet(s)
<1>1. s \in Seq(T)
  BY DEF IsList
<1>2. \A n \in DOMAIN s : s[n] \in ToSet(s)
  BY DEF ToSet
<1> HIDE DEF T
<1>3. IsFiniteSet(ToSet(s))
  BY <1>1, InjectiveLists
<1> QED
  BY <1>1, <1>2, <1>3

LEMMA ValuesAreFinite ==
    ASSUME NEW r, IsList(r.interests), NEW kind, NEW polarity
    PROVE  IsFiniteSet(ValuesOf(r, kind, polarity))
<1> DEFINE some == {j \in ToSet(r.interests) : j.kind = kind /\ j.polarity = polarity}
           value == [i \in some |-> i.value]
<1>1. IsFiniteSet(some) /\ DOMAIN value = some
  BY ListsAreFinite, FS_Subset
<1>2. {value[i] : i \in DOMAIN value} = {i.value : i \in some}
  OBVIOUS
<1>3. ValuesOf(r, kind, polarity) \in SUBSET {i.value : i \in some}
  BY DEF ValuesOf
<1> HIDE DEF some, value
<1>4. IsFiniteSet({i.value : i \in some})
  BY <1>1, <1>2, FiniteImage
<1> QED
  BY <1>3, <1>4, FS_Subset

LEMMA WeightsAreIntegers == \A w \in 0..MaxWeight : w \in Int
  BY DEF MaxWeight

LEMMA MatchedIsAnInterest ==
    ASSUME NEW r, IsRankable(r), Semantic(r, "positive") # << >>, NEW p \in Papers
    PROVE  MatchedInterest(r, p) \in ToSet(Semantic(r, "positive"))
<1> DEFINE
    list == Semantic(r, "positive")
    pull == [n \in DOMAIN list |-> Cosine(list[n].vector, p) * list[n].weight]
    winners == {n \in DOMAIN list : \A m \in DOMAIN list : pull[m] <= pull[n]}
<1>1. /\ IsList(list) /\ list # << >>
      /\ \A i \in ToSet(list) : i.vector \in Texts \cup Papers /\ i.weight \in 0..MaxWeight
  BY DEF IsRankable, Polarity
<1>2. MatchedInterest(r, p) =
        LET best == {n \in DOMAIN list : \A m \in DOMAIN list :
                       Cosine(list[m].vector, p) * list[m].weight
                         <= Cosine(list[n].vector, p) * list[n].weight}
        IN  list[CHOOSE n \in best : \A m \in best : n <= m]
  BY DEF MatchedInterest
<1>3. winners = {n \in DOMAIN list : \A m \in DOMAIN list :
                    Cosine(list[m].vector, p) * list[m].weight
                      <= Cosine(list[n].vector, p) * list[n].weight}
  OBVIOUS
<1> HIDE DEF list
<1>4. /\ DOMAIN list = 1 .. Len(list) /\ Len(list) \in Nat /\ 1 \in DOMAIN list
      /\ \A n \in DOMAIN list : list[n] \in ToSet(list)
  BY <1>1, ListsAreFinite
<1>5. \A n \in DOMAIN list : Cosine(list[n].vector, p) \in Int /\ list[n].weight \in Int
  <2> SUFFICES ASSUME NEW n \in DOMAIN list
               PROVE  Cosine(list[n].vector, p) \in Int /\ list[n].weight \in Int
    OBVIOUS
  <2>1. list[n].vector \in Texts \cup Papers /\ list[n].weight \in 0..MaxWeight
    BY <1>1, <1>4
  <2>2. list[n].weight \in Int
    BY <2>1, WeightsAreIntegers
  <2> DEFINE v == list[n].vector
  <2>3. v \in Texts \cup Papers
    BY <2>1
  <2> HIDE DEF v
  <2>4. Cosine(v, p) \in Int
    BY <2>3, CosinesAreNumbers
  <2> QED
    BY <2>2, <2>4 DEF v
<1>6. \A n \in DOMAIN pull : pull[n] \in Int
  BY <1>5
<1>7. DOMAIN pull = DOMAIN list
  OBVIOUS
<1> DEFINE pulls == {pull[n] : n \in DOMAIN pull}
<1>8. IsFiniteSet(DOMAIN list)
  <2> DEFINE size == Len(list)
  <2>1. size \in Nat /\ DOMAIN list = 1 .. size
    BY <1>4
  <2> HIDE DEF size
  <2> QED
    BY <2>1, FS_Interval
<1> HIDE DEF pull
<1>9. IsFiniteSet(pulls)
  BY <1>7, <1>8, FiniteImage
<1>10. pulls \in SUBSET Int /\ pulls # {}
  BY <1>4, <1>6, <1>7
<1>11. \E v \in pulls : \A w \in pulls : w <= v
  <2> HIDE DEF pulls
  <2> QED
    BY <1>9, <1>10, FiniteSetsHaveBounds
<1>12. winners # {}
  <2>1. PICK v \in pulls : \A w \in pulls : w <= v
    BY <1>11
  <2>2. PICK n \in DOMAIN pull : v = pull[n]
    BY <2>1
  <2> QED
    BY <1>7, <2>1, <2>2
<1>13. winners \in SUBSET DOMAIN list /\ winners \in SUBSET Int
  BY <1>4
<1> HIDE DEF winners
<1>14. \E n \in winners : \A m \in winners : n <= m
  <2>1. IsFiniteSet(winners)
    BY <1>8, <1>13, FS_Subset
  <2> QED
    BY <1>12, <1>13, <2>1, FiniteSetsHaveBounds
<1>15. MatchedInterest(r, p) = list[CHOOSE n \in winners : \A m \in winners : n <= m]
  BY <1>2, <1>3
<1>16. (CHOOSE n \in winners : \A m \in winners : n <= m) \in winners
  BY <1>14
<1>17. MatchedInterest(r, p) \in ToSet(list)
  BY <1>4, <1>13, <1>15, <1>16
<1> QED
  BY <1>17 DEF list

LEMMA AffinityIsAFraction ==
    ASSUME NEW r, IsRankable(r), NEW p \in Papers, NEW horizon
    PROVE  Affinity(r, p, horizon) \in 0..1000
<1> DEFINE
    some == {j \in ToSet(Semantic(r, "positive")) : j.horizon = horizon}
    near == [i \in some |-> Rescaled(Cosine(i.vector, p))]
    all  == {near[i] : i \in DOMAIN near}
<1>1. IsFiniteSet(some) /\ \A i \in some : i.vector \in Texts \cup Papers
  <2>1. /\ IsList(Semantic(r, "positive"))
        /\ \A i \in ToSet(Semantic(r, "positive")) : i.vector \in Texts \cup Papers
    BY DEF IsRankable, Polarity
  <2> QED
    BY <2>1, ListsAreFinite, FS_Subset
<1>2. Affinity(r, p, horizon) = Best({0} \cup all)
  <2>1. all = {Rescaled(Cosine(i.vector, p)) : i \in some}
    OBVIOUS
  <2>2. Affinity(r, p, horizon) = Best({0} \cup {Rescaled(Cosine(i.vector, p)) : i \in some})
    BY DEF Affinity
  <2> HIDE DEF all, some
  <2> QED
    BY <2>1, <2>2
<1>3. \A i \in some : near[i] \in 0..1000
  BY SMTT(30), <1>1, RescaledIsAFraction, CosinesAreNumbers
<1>4. DOMAIN near = some
  OBVIOUS
<1> HIDE DEF near, some
<1>5. IsFiniteSet(all)
  BY <1>1, <1>4, FiniteImage
<1>6. all \in SUBSET (0..1000)
  BY <1>3, <1>4
<1> HIDE DEF all
<1> DEFINE S == {0} \cup all
<1>7. IsFiniteSet(S) /\ S \in SUBSET (0..1000) /\ S \in SUBSET Int /\ S # {}
  BY <1>5, <1>6, FS_AddElement
<1> HIDE DEF S
<1>8. Best(S) \in S
  BY <1>7, BestIsTheBest
<1> QED
  BY <1>2, <1>7, <1>8 DEF S

LEMMA OriginsAreFinite ==
    ASSUME NEW c, IsCandidate(c)
    PROVE  Cardinality(Origins(c)) \in Nat /\ Strength(c, "lexical") = 0
<1>1. Origins(c) \in SUBSET OriginNames
  BY DEF Origins, IsCandidate
<1>2. IsFiniteSet(OriginNames)
  <2>1. OriginNames = {"semantic_interest"} \cup ({"field"} \cup ({"sequential"}
                        \cup ({"collaborative"} \cup ({"exploration"} \cup {}))))
    BY DEF OriginNames
  <2> QED
    BY <2>1, FS_EmptySet, FS_AddElement, FS_Union, FS_Singleton
<1>3. Cardinality(Origins(c)) \in Nat
  BY <1>1, <1>2, FS_Subset, FS_CardinalityType
<1>4. {r.strength : r \in {x \in c[2] : x.origin = "lexical"}} = {}
  BY DEF IsCandidate, OriginNames
<1>5. Strength(c, "lexical") = Best({0})
  BY <1>4 DEF Strength
<1>6. Best({0}) \in {0}
  <2> DEFINE S == {0}
  <2>1. S \in SUBSET Int /\ IsFiniteSet(S) /\ S # {}
    BY FS_Singleton
  <2> HIDE DEF S
  <2>2. Best(S) \in S
    BY <2>1, BestIsTheBest
  <2> QED
    BY <2>2 DEF S
<1> QED
  BY <1>3, <1>5, <1>6

\* The features that are read off a row.
LEMMA FreshnessIsAFraction ==
    ASSUME NEW p \in Papers
    PROVE  (IF Row[p].age = None THEN 0 ELSE Decay(Row[p].age)) \in 0..1000
<1>1. CASE Row[p].age = None
  BY <1>1
<1>2. CASE Row[p].age # None
  <2>1. Decay(Row[p].age) \in 0..1000
    BY <1>2, DecayIsAFraction
  <2> QED
    BY <1>2, <2>1
<1> QED
  BY <1>1, <1>2

Quality(p) ==
    ((IF Row[p].peer THEN 1000 ELSE 0) + (IF Row[p].abstract THEN 1000 ELSE 0)
      + Clamp(Row[p].citedness * 100)) \div 3
Fit(preprint, lean) == Clamp(IF preprint THEN 500 + lean ELSE 500 - lean)

LEMMA QualityIsAFraction == ASSUME NEW p \in Papers PROVE Quality(p) \in 0..1000
<1> DEFINE a == IF Row[p].peer THEN 1000 ELSE 0
           b == IF Row[p].abstract THEN 1000 ELSE 0
           v == Row[p].citedness * 100
           k == Clamp(v)
           s == a + b + k
<1>1. a \in 0..1000 /\ b \in 0..1000
  OBVIOUS
<1>2. v \in Int
  BY RowsAreRows
<1>3. Quality(p) = s \div 3
  BY DEF Quality
<1> HIDE DEF a, b, v
<1>4. k \in 0..1000
  BY <1>2, ClampIsAFraction
<1> HIDE DEF k
<1>5. s \in 0..3000
  BY <1>1, <1>4
<1> HIDE DEF s
<1>6. s \div 3 \in 0..1000
  BY <1>5
<1> QED
  BY <1>3, <1>6

LEMMA FitIsAFraction ==
    ASSUME NEW preprint, NEW lean \in Int
    PROVE  Fit(preprint, lean) \in 0..1000
<1> DEFINE fit == IF preprint THEN 500 + lean ELSE 500 - lean
<1>1. fit \in Int
  OBVIOUS
<1> HIDE DEF fit
<1>2. Clamp(fit) \in 0..1000
  BY <1>1, ClampIsAFraction
<1> QED
  BY <1>2 DEF fit, Fit

LEMMA FatigueIsAFraction ==
    ASSUME NEW seen, seen = None \/ seen \in Nat
    PROVE  (IF seen = None THEN 0 ELSE Clamp(1000 - (seen * 1000) \div 7)) \in 0..1000
<1>1. CASE seen = None
  BY <1>1
<1>2. CASE seen # None
  <2> DEFINE left == 1000 - (seen * 1000) \div 7
  <2>1. left \in Int
    BY <1>2
  <2> HIDE DEF left
  <2>2. Clamp(left) \in 0..1000
    BY <2>1, ClampIsAFraction
  <2> QED
    BY <1>2, <2>2 DEF left
<1> QED
  BY <1>1, <1>2

IsRated(values) == values \in [Features -> 0..1000]

LEMMA ExtractIsInRange ==
    ASSUME NEW r, IsServed(r), NEW c, IsCandidate(c), NEW has \in SUBSET Topics,
           NEW seen, seen = None \/ seen \in Nat
    PROVE  IsRated(Extract(r, c, has, seen))
<1> DEFINE
    p       == c[1]
    row     == Row[p]
    match   == IsMatchable(r, p)
    long    == IF match THEN Affinity(r, p, "long") ELSE 0
    short   == IF match THEN Affinity(r, p, "short") ELSE 0
    recency == r.preferences.recency_of_interest
    current == \E i \in ToSet(Semantic(r, "positive")) : i.horizon = "short"
    against == {Cosine(i.vector, p) : i \in ToSet(Semantic(r, "negative"))}
    heaviest == Best({i.weight : i \in ToSet(Semantic(r, "positive"))})
    topics  == ValuesOf(r, "topic", "positive")
    lean    == 5 * (r.preferences.preprint_appetite - 100)
    semantic == IF current THEN ((100 - recency) * long + recency * short) \div 100 ELSE long
    emphasis == IF match /\ heaviest > 0
                THEN Clamp((MatchedInterest(r, p).weight * 1000) \div heaviest) ELSE 1000
    negative == IF Embedded(p) /\ against # {} THEN Rescaled(Best(against)) ELSE 0
    topical  == Share(has, topics)
    field    == Hit(row.fields, ValuesOf(r, "field", "positive"))
    venue    == Hit({row.venue} \ {None}, ValuesOf(r, "venue", "positive"))
    lexical  == Clamp(10 * Strength(c, "lexical"))
    fresh    == IF row.age = None THEN 0 ELSE Decay(row.age)
    novel    == IF topics = {} THEN 500 ELSE 1000 - Hit(has, topics)
    agreement == Clamp((Cardinality(Origins(c)) * 1000) \div 3)
    quality  == ((IF row.peer THEN 1000 ELSE 0) + (IF row.abstract THEN 1000 ELSE 0)
                  + Clamp(row.citedness * 100)) \div 3
    preprint == Clamp(IF row.preprint THEN 500 + lean ELSE 500 - lean)
    fatigue  == IF seen = None THEN 0 ELSE Clamp(1000 - (seen * 1000) \div 7)
    gone     == IF row.retracted THEN 1000 ELSE 0
<1>1. Extract(r, c, has, seen) =
        [semantic_affinity |-> semantic, affinity_long |-> long, affinity_short |-> short,
         interest_emphasis |-> emphasis, negative_affinity |-> negative,
         topic_affinity |-> topical, field_affinity |-> field, author_affinity |-> 0,
         venue_affinity |-> venue, lexical_affinity |-> lexical, freshness |-> fresh,
         novelty |-> novel, source_agreement |-> agreement, quality_prior |-> quality,
         preprint_fit |-> preprint, seen_fatigue |-> fatigue, retracted |-> gone]
  BY DEF Extract
<1>2. /\ p \in Papers /\ IsRankable(r) /\ recency = 50
      /\ r.preferences.preprint_appetite \in 0..100
  BY DEF IsServed, IsCandidate
<1> DEFINE columns == [age : Nat \cup {None}, fields : SUBSET Fields, venue : Venues \cup {None},
                       citedness : Nat, preprint : BOOLEAN, peer : BOOLEAN,
                       abstract : BOOLEAN, retracted : BOOLEAN, embedded : BOOLEAN]
<1>3. row \in columns
  BY <1>2, RowsAreRows
<1>4. row.age \in Nat \cup {None} /\ row.citedness \in Nat
  BY <1>3
<1>5. long \in 0..1000 /\ short \in 0..1000
  BY <1>2, AffinityIsAFraction
<1>6. fresh \in 0..1000
  BY <1>2, FreshnessIsAFraction
<1> HIDE DEF long, short, columns
<1>7. semantic \in 0..1000
  <2>1. ((100 - 50) * long + 50 * short) \div 100 \in 0..1000
    BY <1>5
  <2>2. semantic = IF current THEN ((100 - 50) * long + 50 * short) \div 100 ELSE long
    BY <1>2
  <2> HIDE DEF semantic, current
  <2> QED
    BY <1>5, <2>1, <2>2
<1>8. emphasis \in 0..1000
  <2> DEFINE share == (MatchedInterest(r, p).weight * 1000) \div heaviest
  <2>0. emphasis = IF match /\ heaviest > 0 THEN Clamp(share) ELSE 1000
    OBVIOUS
  <2>a. ASSUME match, heaviest > 0 PROVE share \in Int
    <3>1. Semantic(r, "positive") # << >>
      BY <2>a DEF IsMatchable
    <3>2. /\ IsList(Semantic(r, "positive"))
          /\ \A i \in ToSet(Semantic(r, "positive")) : i.weight \in 0..MaxWeight
      BY <1>2 DEF IsRankable, Polarity
    <3> DEFINE some == ToSet(Semantic(r, "positive"))
               weight == [i \in some |-> i.weight]
               weights == {i.weight : i \in some}
    <3>3. IsFiniteSet(some) /\ some # {}
      BY <3>1, <3>2, ListsAreFinite
    <3>4. MatchedInterest(r, p) \in some
      BY <1>2, <3>1, MatchedIsAnInterest
    <3>5. weights = {weight[i] : i \in DOMAIN weight} /\ DOMAIN weight = some
      OBVIOUS
    <3>6. weights \in SUBSET Int /\ weights # {}
      BY <3>2, <3>3 DEF MaxWeight
    <3>7. MatchedInterest(r, p).weight \in Int
      BY <3>2, <3>4, WeightsAreIntegers
    <3>8. heaviest = Best(weights)
      OBVIOUS
    <3>9. IsFiniteSet(weights)
      <4> HIDE DEF some, weight, weights
      <4> QED
        BY <3>3, <3>5, FiniteImage
    <3> HIDE DEF weights
    <3>10. heaviest \in Int
      BY <3>6, <3>8, <3>9, BestIsTheBest
    <3> HIDE DEF heaviest
    <3> QED
      BY <2>a, <3>7, <3>10
  <2>2. (match /\ heaviest > 0) => share \in Int
    BY <2>a
  <2> HIDE DEF share
  <2>1. share \in Int => Clamp(share) \in 0..1000
    BY SMTT(30), ClampIsAFraction
  <2> HIDE DEF emphasis, match, heaviest
  <2> QED
    BY <2>0, <2>1, <2>2
<1>9. negative \in 0..1000
  <2>1. against \in SUBSET Int /\ IsFiniteSet(against)
    BY ZenonT(60), <1>2, CosinesOfInterests DEF Polarity
  <2> HIDE DEF against
  <2>2. against # {} => Best(against) \in Int
    BY <2>1, BestIsTheBest
  <2> QED
    BY SMTT(30), <2>2, RescaledIsAFraction
<1>10. topical \in 0..1000
  BY ValuesAreFinite, ShareIsAFraction DEF IsServed
<1>11. field \in 0..1000 /\ venue \in 0..1000 /\ novel \in 0..1000
  BY DEF Hit
<1>12. lexical \in 0..1000 /\ agreement \in 0..1000
  <2>1. Cardinality(Origins(c)) \in Nat /\ Strength(c, "lexical") = 0
    BY OriginsAreFinite
  <2>2. 10 * Strength(c, "lexical") \in Int /\ (Cardinality(Origins(c)) * 1000) \div 3 \in Int
    BY <2>1
  <2> QED
    BY SMTT(30), <2>2, ClampIsAFraction
<1>13. quality \in 0..1000
  <2>1. quality = Quality(p)
    BY DEF Quality
  <2> HIDE DEF quality
  <2> QED
    BY <1>2, <2>1, QualityIsAFraction
<1>14. preprint \in 0..1000
  <2>1. lean \in Int
    BY <1>2
  <2>2. preprint = Fit(row.preprint, lean)
    BY DEF Fit
  <2> HIDE DEF preprint, lean
  <2> QED
    BY <2>1, <2>2, FitIsAFraction
<1>15. fatigue \in 0..1000
  BY FatigueIsAFraction
<1>16. gone \in 0..1000
  OBVIOUS
<1> HIDE DEF semantic, emphasis, negative, topical, field, venue, lexical, fresh, novel,
             agreement, quality, preprint, fatigue, gone
<1>17. Features = {"semantic_affinity", "affinity_long", "affinity_short", "interest_emphasis",
       "negative_affinity", "topic_affinity", "field_affinity", "author_affinity",
       "venue_affinity", "lexical_affinity", "freshness", "novelty", "source_agreement",
       "quality_prior", "preprint_fit", "seen_fatigue", "retracted"}
  BY DEF Features, DefaultWeights
<1> DEFINE e == Extract(r, c, has, seen)
<1>18. /\ e = [f \in Features |-> e[f]]
       /\ e["semantic_affinity"] = semantic /\ e["affinity_long"] = long
       /\ e["affinity_short"] = short /\ e["interest_emphasis"] = emphasis
       /\ e["negative_affinity"] = negative /\ e["topic_affinity"] = topical
       /\ e["field_affinity"] = field /\ e["author_affinity"] = 0
       /\ e["venue_affinity"] = venue /\ e["lexical_affinity"] = lexical
       /\ e["freshness"] = fresh /\ e["novelty"] = novel
       /\ e["source_agreement"] = agreement /\ e["quality_prior"] = quality
       /\ e["preprint_fit"] = preprint /\ e["seen_fatigue"] = fatigue /\ e["retracted"] = gone
  BY <1>1, <1>17
<1> HIDE DEF e
<1>19. \A f \in Features : e[f] \in 0..1000
  BY SMTT(30), <1>5, <1>6, <1>7, <1>8, <1>9, <1>10, <1>11, <1>12, <1>13, <1>14, <1>15, <1>16, <1>17, <1>18
<1>20. e \in [Features -> 0..1000]
  BY <1>18, <1>19
<1> QED
  BY <1>20 DEF e, IsRated

\* What a candidate is ranked as, whatever the state.
LEMMA ScoredIsRated ==
    ASSUME NEW r, IsServed(r), NEW c, IsCandidate(c), NEW topics \in SUBSET Topics,
           NEW seen, seen = None \/ seen \in Nat,
           NEW weights, \A f \in Features : weights[f] \in Nat
    PROVE  LET i == Scored(r, c, topics, seen, weights)
           IN  /\ i.paper = c[1] /\ i.topics = topics /\ i.exploration \in BOOLEAN
               /\ i.score \in 0..1000 /\ IsRated(i.values)
               /\ i.matched # None =>
                     \E j \in ToSet(Semantic(r, "positive")) : i.matched = j.key
<1> DEFINE values == Extract(r, c, topics, seen)
           matched == IF IsMatchable(r, c[1]) THEN MatchedInterest(r, c[1]).key ELSE None
           i == Scored(r, c, topics, seen, weights)
<1>1. i = [paper |-> c[1], values |-> values, score |-> Score(values, weights),
           exploration |-> IsExploration(c), topics |-> topics, matched |-> matched]
  BY DEF Scored
<1>2. IsRated(values)
  BY ExtractIsInRange
<1>3. matched # None => \E j \in ToSet(Semantic(r, "positive")) : matched = j.key
  <2> SUFFICES ASSUME IsMatchable(r, c[1])
               PROVE  \E j \in ToSet(Semantic(r, "positive")) : matched = j.key
    OBVIOUS
  <2>1. c[1] \in Papers /\ Semantic(r, "positive") # << >> /\ IsRankable(r)
    BY DEF IsCandidate, IsMatchable, IsServed
  <2>2. MatchedInterest(r, c[1]) \in ToSet(Semantic(r, "positive"))
    BY <2>1, MatchedIsAnInterest
  <2> QED
    BY <2>2
<1> HIDE DEF values, matched, i
<1>4. Score(values, weights) \in 0..1000
  <2>1. \A f \in Features : values[f] \in 0..1000 /\ weights[f] \in Nat
    BY <1>2 DEF IsRated
  <2> QED
    BY <2>1, ScoreIsAFraction
<1>5. IsExploration(c) \in BOOLEAN
  BY DEF IsExploration
<1>6. /\ i.paper = c[1] /\ i.topics = topics /\ i.exploration = IsExploration(c)
      /\ i.score = Score(values, weights) /\ i.values = values /\ i.matched = matched
  BY <1>1
<1> QED
  BY <1>2, <1>3, <1>4, <1>5, <1>6 DEF i

LEMMA RankedIsAListing ==
    ASSUME NEW items, IsFiniteSet(items),
           \A i \in items : i.paper \in Papers /\ i.score \in 0..1000,
           \A i, j \in items : i.paper = j.paper => i = j
    PROVE  /\ Ranked(items) \in Seq(items) /\ ToSet(Ranked(items)) = items
           /\ \A i \in items : i.score <= Ranked(items)[1].score
<1> DEFINE measure == [i \in items |-> i.score]
           rank == [i \in items |-> Place(i.paper)]
           list == Ordered(measure, rank)
<1>1. measure \in [items -> Int]
  BY SMTT(30)
<1>2. \A i \in items : rank[i] \in Int /\ measure[i] = i.score
  BY PapersAreOrdered
<1>3. \A i, j \in items : rank[i] = rank[j] => i = j
  BY PapersAreOrdered
<1>4. Ranked(items) = list
  BY DEF Ranked
<1> HIDE DEF measure, rank
<1>5. /\ list \in Seq(items) /\ ToSet(list) = items
      /\ \A n \in DOMAIN list : measure[list[n]] <= measure[list[1]]
  BY ZenonT(60), <1>1, <1>2, <1>3, OrderedIsAListing
<1> HIDE DEF list
<1>6. ASSUME NEW i \in items PROVE i.score <= list[1].score
  <2>1. PICK n \in DOMAIN list : list[n] = i
    BY <1>5 DEF ToSet
  <2>2. 1 \in DOMAIN list
    BY <1>5
  <2>3. list[1] \in items
    BY <1>5, <2>2
  <2>4. measure[list[n]] <= measure[list[1]]
    BY <1>5
  <2> QED
    BY <1>2, <2>1, <2>3, <2>4
<1> QED
  BY <1>4, <1>5, <1>6

LEMMA SimilarityIsANumber ==
    ASSUME NEW items, NEW a, NEW b, a.paper \in Papers, b.paper \in Papers,
           a.topics \in SUBSET Topics, b.topics \in SUBSET Topics
    PROVE  Similarity(items, a, b) \in Int
<1>1. Clamp(Cosine(a.paper, b.paper) * 10) \in Int
  <2>1. Cosine(a.paper, b.paper) * 10 \in Int
    BY CosinesAreNumbers
  <2> QED
    BY SMTT(30), <2>1, ClampIsAFraction
<1>2. ASSUME a.topics # {}
      PROVE  (Cardinality(a.topics \cap b.topics) * 1000) \div Cardinality(a.topics \cup b.topics) \in Int
  <2> DEFINE both == Cardinality(a.topics \cap b.topics)
             any  == Cardinality(a.topics \cup b.topics)
  <2>1. IsFiniteSet(a.topics \cap b.topics) /\ IsFiniteSet(a.topics \cup b.topics)
    <3>1. a.topics \cap b.topics \in SUBSET Topics /\ a.topics \cup b.topics \in SUBSET Topics
      OBVIOUS
    <3> QED
      BY <3>1, TopicsAreTopics, FS_Subset
  <2>2. a.topics \cup b.topics # {}
    BY <1>2
  <2>3. both \in Nat /\ any \in Nat /\ any # 0
    BY <2>1, <2>2, FS_CardinalityType, FS_EmptySet
  <2> HIDE DEF both, any
  <2>4. (both * 1000) \div any \in Int
    BY <2>3
  <2> QED
    BY <2>4 DEF both, any
<1> QED
  BY <1>1, <1>2 DEF Similarity

LEMMA NextPickIsOneOf ==
    ASSUME NEW f, NEW from, IsFiniteSet(from), from # {},
           \A i \in from : i.paper \in Papers /\ Value(f, i) \in Int,
           \A i, j \in from : i.paper = j.paper => i = j
    PROVE  NextPick(f, from) \in from
<1> DEFINE R == {x \in from \X from :
                   \/ Value(f, x[1]) > Value(f, x[2])
                   \/ Value(f, x[1]) = Value(f, x[2]) /\ Place(x[1].paper) < Place(x[2].paper)}
<1>1. \A x, y \in from : <<x, y>> \in R <=>
                   \/ Value(f, x) > Value(f, y)
                   \/ Value(f, x) = Value(f, y) /\ Place(x.paper) < Place(y.paper)
  OBVIOUS
<1>2. /\ \A i \in from : Place(i.paper) \in Int
      /\ \A i, j \in from : Place(i.paper) = Place(j.paper) => i = j
  BY PapersAreOrdered
<1> HIDE DEF R
<1>3. StrictlyOrders(R, from)
  BY <1>1, <1>2 DEF StrictlyOrders
<1>4. \E x \in from : \A y \in from \ {x} : <<x, y>> \in R
  BY <1>3, AnOrderHasAFirst
<1>5. \E i \in from : \A j \in from \ {i} :
         \/ Value(f, i) > Value(f, j)
         \/ Value(f, i) = Value(f, j) /\ Place(i.paper) < Place(j.paper)
  BY <1>1, <1>4
<1> QED
  BY <1>5 DEF NextPick

\* The running maximum stays below the bound while every term does.
LEMMA RedundanciesAreKept ==
    ASSUME RankedInv, RedundancyInv, NEW pick \in ToSet(feed.ranked)
    PROVE  /\ DOMAIN Redundancies(feed, pick) = {i.paper : i \in ToSet(feed.ranked)}
           /\ \A i \in ToSet(feed.ranked) :
                 /\ Redundancies(feed, pick)[i.paper] \in Int
                 /\ Redundancies(feed, pick)[i.paper] < NearDuplicate <=>
                       /\ feed.redundancy[i.paper] < NearDuplicate
                       /\ Similarity(feed.ranked, i, pick) < NearDuplicate
<1> DEFINE after == Redundancies(feed, pick)
           Of(p) == CHOOSE i \in ToSet(feed.ranked) : i.paper = p
<1>1. after = [p \in DOMAIN feed.redundancy |->
                 Greatest(feed.redundancy[p], Similarity(feed.ranked, Of(p), pick))]
  BY DEF Redundancies
<1>2. \A i \in ToSet(feed.ranked) : Of(i.paper) = i
  BY DEF RankedInv
<1> HIDE DEF after, Of
<1>3. DOMAIN after = {i.paper : i \in ToSet(feed.ranked)}
  BY <1>1 DEF RedundancyInv
<1>4. ASSUME NEW i \in ToSet(feed.ranked)
      PROVE  /\ after[i.paper] \in Int
             /\ after[i.paper] < NearDuplicate <=>
                   /\ feed.redundancy[i.paper] < NearDuplicate
                   /\ Similarity(feed.ranked, i, pick) < NearDuplicate
  <2>1. after[i.paper] = Greatest(feed.redundancy[i.paper], Similarity(feed.ranked, i, pick))
    BY <1>1, <1>2, <1>3
  <2>2. Similarity(feed.ranked, i, pick) \in Int
    <3>1. IsItem(i) /\ IsItem(pick)
      BY DEF RankedInv
    <3> QED
      BY SMTT(30), <3>1, SimilarityIsANumber DEF IsItem
  <2>3. feed.redundancy[i.paper] \in Int
    BY DEF RedundancyInv
  <2> QED
    BY <2>1, <2>2, <2>3 DEF Greatest, NearDuplicate
<1> QED
  BY <1>3, <1>4 DEF after

-----------------------------------------------------------------------------
(***************************************************************************)
(* Requests, up to the ranking.                                             *)
(***************************************************************************)
NothingRanked ==
    /\ feed.ranked = << >> /\ feed.chosen = << >> /\ feed.shown = << >>
    /\ DOMAIN feed.redundancy = {} /\ feed.limit \in Nat
    /\ feed.pc \in {"idle", "gather", "rank"}

LEMMA NothingRankedIsSound ==
    NothingRanked => RankedInv /\ RedundancyInv /\ ChosenInv /\ CapsGiveWayLast /\ ShownInv
<1> SUFFICES ASSUME NothingRanked
             PROVE  RankedInv /\ RedundancyInv /\ ChosenInv /\ CapsGiveWayLast /\ ShownInv
  OBVIOUS
<1> USE DEF NothingRanked
<1>1. ToSet(<< >>) = {} /\ IsList(<< >>) /\ << >> \in Seq({}) /\ DOMAIN << >> = {} /\ Len(<< >>) = 0
  BY DEF ToSet, IsList
<1>2. RankedInv
  BY <1>1 DEF RankedInv
<1>3. RedundancyInv
  BY <1>1 DEF RedundancyInv
<1>4. ChosenInv
  BY <1>1 DEF ChosenInv, IsInjective
<1>5. CapsGiveWayLast
  BY <1>1 DEF CapsGiveWayLast
<1>6. ShownInv
  BY <1>1 DEF ShownInv
<1> QED
  BY <1>2, <1>3, <1>4, <1>5, <1>6

FreshFeed ==
    /\ NothingRanked /\ feed.pc # "rank"
    /\ feed.scan = NoScan /\ feed.pool = << >> /\ feed.cache = << >>
    /\ feed.sources \in Seq(SourceNames) /\ Len(feed.sources) <= 5
    /\ HaveHistory(feed.sources, feed.account)

LEMMA EmptyIsAPool == IsPool(<< >>)
  BY DEF IsPool, IsList, Distinct, ToSet

LEMMA FreshFeedsAreSound ==
    FreshFeed => PoolInv /\ CacheInv /\ FilterInv
<1> SUFFICES ASSUME FreshFeed PROVE PoolInv /\ CacheInv /\ FilterInv
  OBVIOUS
<1>1. PoolInv
  <2>1. feed.scan.top = << >> /\ feed.scan.band = << >>
    BY DEF FreshFeed, NoScan
  <2>2. feed.pool = << >> /\ Len(<< >>) = 0 /\ Len(feed.sources) <= 5 /\ Len(feed.sources) \in Nat
        /\ feed.sources \in Seq(SourceNames) /\ HaveHistory(feed.sources, feed.account)
    BY DEF FreshFeed
  <2>3. Len(feed.pool) + Len(feed.sources) <= CandidateTotal
    BY <2>2, EverySourceHasASlot
  <2> QED
    BY <2>1, <2>2, <2>3, EmptyIsScanned, EmptyIsAPool DEF PoolInv
<1>2. CacheInv
  BY DEF FreshFeed, CacheInv
<1>3. FilterInv
  BY DEF FreshFeed, FilterInv
<1> QED
  BY <1>1, <1>2, <1>3

LEMMA OneAfterTheOther ==
    ASSUME NEW T, NEW a \in Seq(T), NEW b \in Seq(T)
    PROVE  /\ a \o b \in Seq(T) /\ Len(a \o b) = Len(a) + Len(b) /\ a \o << >> = a
           /\ \A n \in DOMAIN (a \o b) :
                 \/ n \in DOMAIN a /\ (a \o b)[n] = a[n]
                 \/ n - Len(a) \in DOMAIN b /\ (a \o b)[n] = b[n - Len(a)]
  OBVIOUS

LEMMA HeadAndTail ==
    ASSUME NEW T, NEW s \in Seq(T), s # << >>, Len(s) <= 5
    PROVE  Head(s) \in T /\ Tail(s) \in Seq(T) /\ Len(s) \in 1 .. 5 /\ Len(Tail(s)) = Len(s) - 1
<1>1. Len(s) \in Nat /\ Len(s) # 0
  OBVIOUS
<1>2. Head(s) \in T /\ Tail(s) \in Seq(T) /\ Len(Tail(s)) = Len(s) - 1
  OBVIOUS
<1>3. Len(s) \in 1 .. 5
  <2> DEFINE n == Len(s)
  <2>1. n \in Nat /\ n # 0 /\ n <= 5
    BY <1>1
  <2> HIDE DEF n
  <2>2. n \in 1 .. 5
    BY <2>1
  <2> QED
    BY <2>2 DEF n
<1> QED
  BY <1>2, <1>3

LEMMA SourcesHaveSlots ==
    ASSUME NEW account
    PROVE  /\ Sources(account) \in Seq(SourceNames) /\ Len(Sources(account)) <= 5
           /\ HaveHistory(Sources(account), account)
<1> DEFINE always == <<"semantic", "field">>
           history == IF account # None THEN <<"sequential", "collaborative">> ELSE << >>
           last == <<"adjacent">>
           first == always \o history
<1>1. /\ always \in Seq(SourceNames) /\ history \in Seq(SourceNames) /\ last \in Seq(SourceNames)
      /\ Len(always) = 2 /\ Len(history) <= 2 /\ Len(last) = 1
  <2>1. always \in Seq(SourceNames) /\ Len(always) = 2
    BY DEF SourceNames
  <2>2. last \in Seq(SourceNames) /\ Len(last) = 1
    BY DEF SourceNames
  <2>3. CASE account # None
    <3>1. history = <<"sequential", "collaborative">>
      BY <2>3
    <3> HIDE DEF always, last, history
    <3> QED
      BY <2>1, <2>2, <3>1 DEF SourceNames
  <2>4. CASE account = None
    <3>1. history = << >>
      BY <2>4
    <3> HIDE DEF always, last, history
    <3> QED
      BY <2>1, <2>2, <3>1
  <2> QED
    BY <2>3, <2>4
<1>2. /\ \A n \in DOMAIN always : always[n] \notin Historical
      /\ \A n \in DOMAIN last : last[n] \notin Historical
      /\ account = None => history = << >>
  BY DEF Historical
<1>3. Sources(account) = first \o last
  BY DEF Sources
<1> HIDE DEF always, history, last
<1>4. first \in Seq(SourceNames) /\ Len(first) = Len(always) + Len(history)
  BY <1>1, OneAfterTheOther
<1>5. account = None => \A n \in DOMAIN first : first[n] \notin Historical
  <2>1. account = None => first = always
    BY <1>1, <1>2, OneAfterTheOther
  <2> QED
    BY <1>2, <2>1
<1> HIDE DEF first
<1>6. /\ first \o last \in Seq(SourceNames) /\ Len(first \o last) = Len(first) + Len(last)
      /\ \A n \in DOMAIN (first \o last) :
            \/ n \in DOMAIN first /\ (first \o last)[n] = first[n]
            \/ n - Len(first) \in DOMAIN last /\ (first \o last)[n] = last[n - Len(first)]
  <2>1. first \in Seq(SourceNames) /\ last \in Seq(SourceNames)
    BY <1>1, <1>4
  <2>2. first \o last \in Seq(SourceNames) /\ Len(first \o last) = Len(first) + Len(last)
    BY <2>1, OneAfterTheOther
  <2>3. \A n \in DOMAIN (first \o last) :
            \/ n \in DOMAIN first /\ (first \o last)[n] = first[n]
            \/ n - Len(first) \in DOMAIN last /\ (first \o last)[n] = last[n - Len(first)]
    BY <2>1, OneAfterTheOther
  <2> QED
    BY <2>2, <2>3
<1> DEFINE all == first \o last
<1> HIDE DEF all
<1>7. all \in Seq(SourceNames) /\ Len(all) <= 5
  <2>1. Len(always) \in Nat /\ Len(history) \in Nat /\ Len(last) \in Nat /\ Len(first) \in Nat
    BY <1>1, <1>4
  <2> QED
    BY <1>1, <1>4, <1>6, <2>1 DEF all
<1>8. HaveHistory(all, account)
  BY <1>2, <1>5, <1>6 DEF HaveHistory, all
<1> QED
  BY <1>3, <1>7, <1>8 DEF all

LEMMA NoFeedIsFresh ==
    ASSUME feed = NoFeed
    PROVE  FreshFeed /\ RequestInv
<1>1. feed = [x \in FeedFields |-> feed[x]]
  BY DEF NoFeed, FeedFields
<1>2. feed.pc = "idle" /\ feed.limit = 0 /\ feed.sources = << >> /\ feed.scan = NoScan
      /\ feed.pool = << >> /\ feed.cache = << >> /\ feed.ranked = << >> /\ feed.redundancy = << >>
      /\ feed.chosen = << >> /\ feed.shown = << >>
  BY DEF NoFeed
<1> QED
  <2>1. << >> \in Seq(SourceNames) /\ Len(<< >>) = 0 /\ DOMAIN << >> = {}
    OBVIOUS
  <2>2. FreshFeed
    BY <1>2, <2>1 DEF FreshFeed, NothingRanked, HaveHistory
  <2>3. RequestInv
    BY <1>1, <1>2 DEF RequestInv
  <2> QED
    BY <2>2, <2>3

LEMMA InitIsSound == Init => IInv
<1> SUFFICES ASSUME Init PROVE IInv
  OBVIOUS
<1>1. FreshFeed /\ RequestInv
  BY NoFeedIsFresh DEF Init, FeedInit
<1>2. CorpusInv
  <2>1. corpus = InitialTopics /\ InitialTopics \in [Papers -> SUBSET Topics]
    BY TopicsAreTopics DEF Init, FeedInit
  <2>2. DOMAIN corpus = Papers /\ corpus = [p \in Papers |-> corpus[p]]
        /\ \A p \in Papers : corpus[p] \in SUBSET Topics
    BY <2>1
  <2> QED
    BY <2>2 DEF CorpusInv
<1>3. answer \in {"none", "refused", "failed", "built"}
  BY DEF Init
<1>4. NothingRanked
  BY <1>1 DEF FreshFeed
<1> QED
  BY <1>1, <1>2, <1>3, <1>4, FreshFeedsAreSound, NothingRankedIsSound DEF IInv

\* An answered request starts from an empty feed for the draft it goes back with.
LEMMA RespondIsSound ==
    ASSUME IInv, NEW d \in Draft, NEW limit \in Nat,
           NEW account, account = None \/ account \in Accounts,
           Respond(d, limit, account)
    PROVE  IInv'
<1> DEFINE built == Build(d, Usable)
           c == Cleaned(d)
           profile == ProfileOf(c, Usable)
<1>1. corpus' = corpus /\ answer' = built.kind
  BY DEF Respond
<1>2. CorpusInv'
  BY <1>1 DEF IInv, CorpusInv
<1>3. Usable \in SUBSET Papers
  BY DEF Usable, IInv, CorpusInv
<1>4. /\ built.kind \in {"refused", "failed", "built"}
      /\ built.kind = "built" => IsProfile(profile) /\ built.draft = c /\ built.profile = profile
  BY DEF Build
<1>5. FreshFeed' /\ RequestInv'
  <2>1. CASE built.kind = "built"
    <3>1. draft' = c /\ Serve(profile, limit, account)
      BY <1>4, <2>1 DEF Respond
    <3>2. c \in Draft
      BY CleanedIsADraft
    <3>3. IsProfile(profile)
      BY <1>4, <2>1
    <3> HIDE DEF built, c
    <3> DEFINE P == profile
    <3>4. \E usable \in SUBSET Papers : P = ProfileOf(c, usable)
      BY <1>3
    <3>5. feed' = [NoFeed EXCEPT !.pc = "gather", !.profile = P, !.limit = limit,
                                 !.account = account, !.sources = Sources(account)]
      BY <3>1 DEF Serve
    <3>6. IsProfile(P)
      BY <3>3
    <3> HIDE DEF P
    <3>7. /\ feed' = [x \in FeedFields |-> feed'[x]]
          /\ feed'.pc = "gather" /\ feed'.profile = P /\ feed'.limit = limit /\ feed'.account = account
          /\ feed'.sources = Sources(account) /\ feed'.scan = NoScan
          /\ feed'.pool = << >> /\ feed'.cache = << >> /\ feed'.ranked = << >>
          /\ feed'.redundancy = << >> /\ feed'.chosen = << >> /\ feed'.shown = << >>
      BY <3>5 DEF NoFeed, FeedFields
    <3>8. FreshFeed'
      BY <3>7, SourcesHaveSlots DEF FreshFeed, NothingRanked
    <3>9. RequestInv'
      BY <3>1, <3>2, <3>4, <3>6, <3>7 DEF RequestInv
    <3> QED
      BY <3>8, <3>9
  <2>2. CASE built.kind # "built"
    <3>1. feed' = NoFeed
      BY <2>2 DEF Respond
    <3>2. (feed = NoFeed => FreshFeed /\ RequestInv)'
      BY NoFeedIsFresh, PTL
    <3> QED
      BY <3>1, <3>2
  <2> QED
    BY <2>1, <2>2
<1>6. (FreshFeed => PoolInv /\ CacheInv /\ FilterInv)'
  BY FreshFeedsAreSound, PTL
<1>7. (NothingRanked => RankedInv /\ RedundancyInv /\ ChosenInv /\ CapsGiveWayLast /\ ShownInv)'
  BY NothingRankedIsSound, PTL
<1>8. NothingRanked'
  BY <1>5 DEF FreshFeed
<1> HIDE DEF built, c, profile
<1>9. answer' \in {"none", "refused", "failed", "built"}
  BY <1>1, <1>4
<1> QED
  BY <1>2, <1>5, <1>6, <1>7, <1>8, <1>9 DEF IInv

\* The feed's other fields stay as they are.
SameRequest ==
    /\ feed'.profile = feed.profile /\ feed'.limit = feed.limit /\ feed'.account = feed.account
    /\ UNCHANGED <<draft, answer>>

LEMMA SameRequestIsSound ==
    ASSUME RequestInv, SameRequest, feed' = [x \in FeedFields |-> feed'[x]],
           feed.pc # "idle", feed'.pc \in {"gather", "rank", "pick", "shown"}
    PROVE  RequestInv'
  BY DEF RequestInv, SameRequest

LEMMA GatherIsSound ==
    ASSUME IInv, Gather, UNCHANGED <<draft, answer>>
    PROVE  IInv'
<1> DEFINE
    source == Head(feed.sources)
    left   == Len(feed.sources)
    budget == Allocate(left, Len(feed.pool))
    scan   == IF source = "semantic" /\ Semantic(feed.profile, "positive") # << >>
              THEN Scan(feed.profile) ELSE feed.scan
    produced == IF budget <= 0 THEN << >>
                ELSE Produced(source, feed.profile, feed.account, scan, budget)
    pool   == Pooled(feed.pool, produced)
<1>1. feed' = [feed EXCEPT !.sources = Tail(feed.sources), !.scan = scan, !.pool = pool]
  BY DEF Gather
<1>2. feed.pc = "gather" /\ feed.sources # << >> /\ corpus' = corpus
  BY DEF Gather
<1>3. CorpusInv /\ RequestInv /\ PoolInv /\ CacheInv /\ ChosenInv /\ ShownInv /\ RedundancyInv
  BY DEF IInv
<1>4. /\ source \in SourceNames /\ Tail(feed.sources) \in Seq(SourceNames)
      /\ left \in 1 .. 5 /\ Len(Tail(feed.sources)) = left - 1
      /\ source = "collaborative" => feed.account # None
      /\ HaveHistory(Tail(feed.sources), feed.account)
  <2>1. /\ feed.sources \in Seq(SourceNames) /\ Len(feed.sources) <= 5
        /\ HaveHistory(feed.sources, feed.account)
    BY <1>3 DEF PoolInv
  <2>2. /\ source = feed.sources[1] /\ 1 \in DOMAIN feed.sources
        /\ \A n \in DOMAIN Tail(feed.sources) :
              n + 1 \in DOMAIN feed.sources /\ Tail(feed.sources)[n] = feed.sources[n + 1]
    BY <1>2, <2>1
  <2>3. source \in SourceNames /\ Tail(feed.sources) \in Seq(SourceNames)
        /\ left \in 1 .. 5 /\ Len(Tail(feed.sources)) = left - 1
    BY <1>2, <2>1, HeadAndTail
  <2> QED
    BY <2>1, <2>2, <2>3 DEF HaveHistory, Historical
<1>5. IsRankable(feed.profile) /\ (feed.account = None \/ IsFiniteSet(feed.account.peers))
  <2>1. /\ draft \in Draft /\ IsProfile(feed.profile)
        /\ \E usable \in SUBSET Papers : feed.profile = ProfileOf(draft, usable)
        /\ feed.account = None \/ feed.account \in Accounts
    BY <1>2, <1>3 DEF RequestInv
  <2> QED
    BY <2>1, ProfilesAreRankable, AccountsAreHistories
<1>6. IsScanned(scan.top) /\ IsScanned(scan.band)
  BY <1>3, <1>5, ScansAreScanned DEF PoolInv
<1>7. /\ IsPool(feed.pool) /\ Len(feed.pool) \in Nat /\ Len(feed.pool) + left <= CandidateTotal
  <2>1. IsPool(feed.pool) /\ Len(feed.pool) + left <= CandidateTotal
    BY <1>3 DEF PoolInv
  <2>2. Len(feed.pool) \in Nat
    BY <2>1, ListsAreFinite DEF IsPool
  <2> QED
    BY <2>1, <2>2
<1> HIDE DEF scan
<1>8. budget \in Nat /\ Len(feed.pool) + budget + (left - 1) <= CandidateTotal
  <2> DEFINE taken == Len(feed.pool)
  <2>1. taken \in Nat /\ taken + left <= CandidateTotal /\ left \in 1 .. 5
    BY <1>4, <1>7
  <2> HIDE DEF taken, left
  <2>2. Allocate(left, taken) \in Nat /\ taken + Allocate(left, taken) + (left - 1) <= CandidateTotal
    BY <2>1, AllocationsFit
  <2> QED
    BY <2>2 DEF taken
<1>9. IsPool(produced) /\ Len(produced) <= budget
  <2>1. CASE budget <= 0
    <3>1. produced = << >> /\ Len(<< >>) = 0
      BY <2>1
    <3> QED
      BY <1>8, <3>1, EmptyIsAPool
  <2>2. CASE ~ (budget <= 0)
    <3>1. source = "collaborative" => IsFiniteSet(feed.account.peers)
      BY <1>2, <1>4, <1>5
    <3>2. produced = Produced(source, feed.profile, feed.account, scan, budget)
      BY <2>2
    <3> HIDE DEF source, budget, produced
    <3> QED
      BY <1>3, <1>4, <1>6, <1>8, <3>1, <3>2, ProducedIsAPool
  <2> QED
    BY <2>1, <2>2
<1> HIDE DEF produced
<1>10. IsPool(pool) /\ Len(pool) <= Len(feed.pool) + Len(produced)
  BY <1>7, <1>9, PooledIsAPool
<1>11. Len(pool) \in Nat /\ Len(produced) \in Nat
  BY <1>9, <1>10, ListsAreFinite DEF IsPool
<1> HIDE DEF pool
<1>12. Len(pool) + (left - 1) <= CandidateTotal
  <2> DEFINE taken == Len(feed.pool)
             added == Len(produced)
             size  == Len(pool)
  <2>1. /\ taken \in Nat /\ added \in Nat /\ size \in Nat /\ left \in Int /\ budget \in Nat
        /\ size <= taken + added /\ added <= budget
        /\ taken + budget + (left - 1) <= CandidateTotal /\ CandidateTotal \in Nat
    BY <1>4, <1>7, <1>8, <1>9, <1>10, <1>11, EverySourceHasASlot
  <2> HIDE DEF taken, added, size, budget, left
  <2>2. size + (left - 1) <= CandidateTotal
    BY <2>1
  <2> QED
    BY <2>2 DEF size
<1>13. feed = [x \in FeedFields |-> feed[x]]
  BY <1>3 DEF RequestInv
<1> DEFINE rest == Tail(feed.sources)
<1> HIDE DEF source, budget, left, rest
<1>14. feed' = [feed EXCEPT !.sources = rest, !.scan = scan, !.pool = pool]
  BY <1>1 DEF rest
<1>15. /\ feed' = [x \in FeedFields |-> feed'[x]]
       /\ feed'.pc = feed.pc /\ feed'.profile = feed.profile /\ feed'.limit = feed.limit
       /\ feed'.account = feed.account /\ feed'.sources = rest /\ feed'.scan = scan
       /\ feed'.pool = pool /\ feed'.cache = feed.cache /\ feed'.ranked = feed.ranked
       /\ feed'.redundancy = feed.redundancy /\ feed'.chosen = feed.chosen
       /\ feed'.shown = feed.shown /\ feed'.touched = feed.touched
  BY <1>13, <1>14 DEF NoFeed, FeedFields
<1>16. CorpusInv' /\ CacheInv'
  BY <1>2, <1>3, <1>15 DEF CorpusInv, CacheInv
<1>17. RequestInv'
  BY <1>2, <1>3, <1>15, SameRequestIsSound DEF SameRequest
<1>18. PoolInv'
  <2>1. /\ rest \in Seq(SourceNames) /\ Len(rest) = left - 1 /\ left \in 1 .. 5
        /\ HaveHistory(rest, feed.account)
    BY <1>4 DEF rest
  <2>2. Len(rest) <= 5 /\ Len(pool) + Len(rest) <= CandidateTotal
    BY <1>12, <2>1
  <2> QED
    BY <1>6, <1>10, <1>15, <2>1, <2>2 DEF PoolInv
<1>19. FilterInv'
  BY <1>2, <1>15 DEF FilterInv
<1>20. NothingRanked'
  <2>1. feed.ranked = << >> /\ feed.shown = << >> /\ feed.chosen = << >> /\ feed.limit \in Nat
        /\ DOMAIN feed.redundancy = {}
    <3>1. feed.ranked = << >> /\ feed.shown = << >>
      BY <1>2, <1>3 DEF ShownInv
    <3>2. feed.chosen = << >> /\ feed.limit \in Nat
      BY <1>2, <1>3 DEF ChosenInv, RequestInv
    <3>3. ToSet(<< >>) = {}
      BY DEF ToSet
    <3>4. DOMAIN feed.redundancy = {}
      BY <1>3, <3>1, <3>3 DEF RedundancyInv
    <3> QED
      BY <3>1, <3>2, <3>4
  <2> QED
    BY <1>2, <1>15, <2>1 DEF NothingRanked
<1>21. (NothingRanked => RankedInv /\ RedundancyInv /\ ChosenInv /\ CapsGiveWayLast /\ ShownInv)'
  BY NothingRankedIsSound, PTL
<1>22. answer' = answer /\ answer \in {"none", "refused", "failed", "built"}
  BY DEF IInv
<1> QED
  BY <1>16, <1>17, <1>18, <1>19, <1>20, <1>21, <1>22 DEF IInv

LEMMA AmongAPool ==
    ASSUME NEW pool, IsPool(pool), NEW some
    PROVE  /\ IsPool(Among(pool, some)) /\ ToSet(Among(pool, some)) = ToSet(pool) \cap some
           /\ Len(Among(pool, some)) \in Nat /\ Len(Among(pool, some)) <= Len(pool)
<1> DEFINE part == Among(pool, some)
           T == ToSet(pool)
<1>1. pool \in Seq(T) /\ Distinct(pool) /\ \A n \in DOMAIN pool : IsCandidate(pool[n])
  BY DEF IsPool, IsList
<1>2. IsInjective(pool)
  BY <1>1 DEF Distinct, IsInjective
<1> HIDE DEF T
<1>3. /\ part \in Seq(T) /\ ToSet(part) = ToSet(pool) \cap some /\ IsInjective(part)
      /\ \A m, n \in DOMAIN part : m < n =>
            \E i, j \in DOMAIN pool : i < j /\ part[m] = pool[i] /\ part[n] = pool[j]
  BY <1>1, <1>2, AmongIsASublist
<1> HIDE DEF part
<1>4. DOMAIN part = 1 .. Len(part) /\ Len(part) \in Nat /\ IsList(part)
  BY <1>3, ListsOfTheirElements
<1>5. \A n \in DOMAIN part : IsCandidate(part[n])
  <2>1. \A n \in DOMAIN part : part[n] \in ToSet(pool)
    BY <1>3 DEF ToSet
  <2> QED
    BY <1>1, <2>1 DEF ToSet
<1>6. Distinct(part)
  <2> SUFFICES ASSUME NEW m \in DOMAIN part, NEW n \in DOMAIN part, part[m][1] = part[n][1]
               PROVE  m = n
    BY DEF Distinct
  <2>0. \A k \in DOMAIN part : part[k] \in ToSet(pool)
    BY <1>3 DEF ToSet
  <2>1. PICK i \in DOMAIN pool : pool[i] = part[m]
    BY <2>0 DEF ToSet
  <2>2. PICK j \in DOMAIN pool : pool[j] = part[n]
    BY <2>0 DEF ToSet
  <2>3. i = j
    BY <1>1, <2>1, <2>2 DEF Distinct
  <2> QED
    BY <1>3, <2>1, <2>2, <2>3 DEF IsInjective
<1>7. Len(part) <= Len(pool)
  <2>1. Cardinality(ToSet(part)) = Len(part) /\ Cardinality(ToSet(pool)) = Len(pool)
        /\ IsFiniteSet(ToSet(pool))
    BY <1>1, <1>2, <1>3, InjectiveLists
  <2>2. ToSet(part) \in SUBSET ToSet(pool)
    BY <1>3
  <2>3. Cardinality(ToSet(part)) <= Cardinality(ToSet(pool))
    BY <2>1, <2>2, FS_Subset
  <2> QED
    BY <2>1, <2>3
<1> QED
  BY <1>3, <1>4, <1>5, <1>6, <1>7 DEF IsPool, part

\* Rows that were loaded are not read again, the others are read as they are.
LEMMA LoadedIsSound ==
    ASSUME CorpusInv, CacheInv, NEW ids
    PROVE  LET cache == Loaded(feed.cache, ids)
           IN  /\ DOMAIN cache \subseteq Papers
               /\ \A p \in DOMAIN cache :
                     /\ cache[p] \in SUBSET Topics
                     /\ p \notin feed.touched => p \in DOMAIN corpus /\ cache[p] = corpus[p]
                     /\ p \in DOMAIN feed.cache \/ p \in DOMAIN corpus
               /\ \A p \in DOMAIN feed.cache : p \in DOMAIN cache /\ cache[p] = feed.cache[p]
               /\ \A p \in ids \cap DOMAIN corpus : p \in DOMAIN cache
<1> DEFINE cache == Loaded(feed.cache, ids)
<1>1. cache = [p \in DOMAIN feed.cache \cup (ids \cap DOMAIN corpus) |->
                 IF p \in DOMAIN feed.cache THEN feed.cache[p] ELSE corpus[p]]
  BY DEF Loaded
<1>2. DOMAIN cache = DOMAIN feed.cache \cup (ids \cap DOMAIN corpus)
      /\ \A p \in DOMAIN cache :
            cache[p] = IF p \in DOMAIN feed.cache THEN feed.cache[p] ELSE corpus[p]
  BY <1>1
<1> HIDE DEF cache
<1>3. DOMAIN cache \subseteq Papers
  BY <1>2 DEF CorpusInv, CacheInv
<1>4. \A p \in DOMAIN cache :
         /\ cache[p] \in SUBSET Topics
         /\ p \notin feed.touched => p \in DOMAIN corpus /\ cache[p] = corpus[p]
         /\ p \in DOMAIN feed.cache \/ p \in DOMAIN corpus
  BY <1>2 DEF CorpusInv, CacheInv
<1> QED
  BY <1>2, <1>3, <1>4 DEF cache

LEMMA FilterIsSound ==
    ASSUME IInv, Filter, UNCHANGED <<draft, answer>>
    PROVE  IInv'
<1> DEFINE ids   == CandidateIds(feed.pool)
           cache == IF Filters(feed.profile) THEN Loaded(feed.cache, ids) ELSE feed.cache
           fit   == {c \in ToSet(feed.pool) : c[1] \in DOMAIN cache =>
                                                 Passes(feed.profile, c[1], cache[c[1]])}
           pool  == Among(feed.pool, fit)
<1>1. feed' = [feed EXCEPT !.pc = "rank", !.cache = cache, !.pool = pool]
  BY DEF Filter, Allowed
<1>2. feed.pc = "gather" /\ feed.sources = << >> /\ corpus' = corpus
  BY DEF Filter
<1>3. CorpusInv /\ RequestInv /\ PoolInv /\ CacheInv /\ ChosenInv /\ ShownInv /\ RedundancyInv
  BY DEF IInv
<1>4. /\ DOMAIN cache \subseteq Papers
      /\ \A p \in DOMAIN cache :
            /\ cache[p] \in SUBSET Topics
            /\ p \notin feed.touched => p \in DOMAIN corpus /\ cache[p] = corpus[p]
      /\ Filters(feed.profile) => \A p \in ids \cap DOMAIN corpus : p \in DOMAIN cache
  <2>1. CASE Filters(feed.profile)
    <3>1. cache = Loaded(feed.cache, ids)
      BY <2>1
    <3> HIDE DEF ids, cache
    <3> QED
      BY <1>3, <3>1, LoadedIsSound
  <2>2. CASE ~ Filters(feed.profile)
    <3>1. cache = feed.cache
      BY <2>2
    <3> HIDE DEF cache
    <3> QED
      BY <1>3, <2>2, <3>1 DEF CacheInv
  <2> QED
    BY <2>1, <2>2
<1> HIDE DEF cache
<1>5. /\ IsPool(pool) /\ Len(pool) \in Nat /\ Len(pool) <= Len(feed.pool)
      /\ ToSet(pool) = ToSet(feed.pool) \cap fit
  <2> HIDE DEF fit
  <2> QED
    BY <1>3, AmongAPool DEF PoolInv
<1>6. ASSUME NEW n \in DOMAIN pool
      PROVE  /\ pool[n][1] \in DOMAIN cache => Passes(feed.profile, pool[n][1], cache[pool[n][1]])
             /\ pool[n][1] \in ids
  <2>1. pool[n] \in ToSet(feed.pool) /\ pool[n] \in fit
    <3> HIDE DEF fit, pool
    <3>1. pool[n] \in ToSet(pool)
      BY DEF ToSet
    <3> QED
      BY <1>5, <3>1
  <2> HIDE DEF pool
  <2> QED
    BY <2>1 DEF CandidateIds
<1> HIDE DEF pool, ids, fit
<1>7. feed = [x \in FeedFields |-> feed[x]]
  BY <1>3 DEF RequestInv
<1>8. /\ feed' = [x \in FeedFields |-> feed'[x]]
      /\ feed'.pc = "rank" /\ feed'.profile = feed.profile /\ feed'.limit = feed.limit
      /\ feed'.account = feed.account /\ feed'.sources = feed.sources /\ feed'.scan = feed.scan
      /\ feed'.pool = pool /\ feed'.cache = cache /\ feed'.ranked = feed.ranked
      /\ feed'.redundancy = feed.redundancy /\ feed'.chosen = feed.chosen
      /\ feed'.shown = feed.shown /\ feed'.touched = feed.touched
  BY <1>1, <1>7 DEF NoFeed, FeedFields
<1>9. CorpusInv' /\ CacheInv'
  BY <1>2, <1>3, <1>4, <1>8 DEF CorpusInv, CacheInv
<1>10. RequestInv'
  BY <1>2, <1>3, <1>8, SameRequestIsSound DEF SameRequest
<1>11. PoolInv'
  <2>1. /\ IsPool(feed.pool) /\ feed.sources \in Seq(SourceNames)
        /\ Len(feed.pool) + Len(feed.sources) <= CandidateTotal
    BY <1>3 DEF PoolInv
  <2>2. Len(feed.pool) \in Nat /\ Len(feed.sources) \in Nat /\ CandidateTotal \in Nat
    BY <2>1, ListsAreFinite, EverySourceHasASlot DEF IsPool
  <2>3. Len(pool) + Len(feed.sources) <= CandidateTotal
    <3> DEFINE now == Len(pool)
               was == Len(feed.pool)
               left == Len(feed.sources)
    <3>1. /\ now \in Nat /\ now <= was /\ was \in Nat /\ left \in Nat /\ CandidateTotal \in Nat
          /\ was + left <= CandidateTotal
      BY <1>5, <2>1, <2>2
    <3> HIDE DEF now, was, left
    <3>2. now + left <= CandidateTotal
      BY <3>1
    <3> QED
      BY <3>2 DEF now, left
  <2> QED
    BY <1>3, <1>5, <1>8, <2>3 DEF PoolInv
<1>12. FilterInv'
  BY <1>2, <1>4, <1>6, <1>8 DEF FilterInv
<1>13. NothingRanked'
  <2>1. feed.ranked = << >> /\ feed.shown = << >> /\ feed.chosen = << >> /\ feed.limit \in Nat
        /\ DOMAIN feed.redundancy = {}
    <3>1. feed.ranked = << >> /\ feed.shown = << >>
      BY <1>2, <1>3 DEF ShownInv
    <3>2. feed.chosen = << >> /\ feed.limit \in Nat
      BY <1>2, <1>3 DEF ChosenInv, RequestInv
    <3>3. ToSet(<< >>) = {}
      BY DEF ToSet
    <3>4. DOMAIN feed.redundancy = {}
      BY <1>3, <3>1, <3>3 DEF RedundancyInv
    <3> QED
      BY <3>1, <3>2, <3>4
  <2> QED
    BY <1>8, <2>1 DEF NothingRanked
<1>14. (NothingRanked => RankedInv /\ RedundancyInv /\ ChosenInv /\ CapsGiveWayLast /\ ShownInv)'
  BY NothingRankedIsSound, PTL
<1>15. answer' = answer /\ answer \in {"none", "refused", "failed", "built"}
  BY DEF IInv
<1> QED
  BY <1>9, <1>10, <1>11, <1>12, <1>13, <1>14, <1>15 DEF IInv

LEMMA RankIsSound ==
    ASSUME IInv, Rank, UNCHANGED <<draft, answer>>
    PROVE  IInv'
<1> DEFINE
    r       == feed.profile
    cache   == Loaded(feed.cache, CandidateIds(feed.pool))
    known   == {c \in ToSet(feed.pool) : c[1] \in DOMAIN cache}
    learned == IF feed.account = None THEN << >> ELSE feed.account.learned
    weights == WeightsFor(r, learned)
    seen(p) == SeenDaysAgo(feed.account, p)
    scored  == [c \in known |-> Scored(r, c, cache[c[1]], seen(c[1]), weights)]
    items   == {scored[c] : c \in DOMAIN scored}
    ranked  == Ranked(items)
    redundancy == [p \in {c[1] : c \in known} |-> 0]
<1>1. feed' = [feed EXCEPT !.pc = "pick", !.cache = cache, !.ranked = ranked,
                           !.redundancy = redundancy]
  <2>1. items = {Scored(r, c, cache[c[1]], seen(c[1]), weights) : c \in known}
    OBVIOUS
  <2>2. feed' = [feed EXCEPT !.pc = "pick", !.cache = cache,
                   !.ranked = Ranked({Scored(r, c, cache[c[1]], seen(c[1]), weights) : c \in known}),
                   !.redundancy = redundancy]
    BY DEF Rank
  <2> HIDE DEF items, cache, known, weights, redundancy, seen, r
  <2> QED
    BY <2>1, <2>2
<1>2. feed.pc = "rank" /\ corpus' = corpus
  BY DEF Rank
<1>3. /\ CorpusInv /\ RequestInv /\ PoolInv /\ CacheInv /\ FilterInv
      /\ ChosenInv /\ ShownInv /\ RedundancyInv
  BY DEF IInv
<1>4. /\ draft \in Draft /\ IsProfile(r)
      /\ \E usable \in SUBSET Papers : r = ProfileOf(draft, usable)
      /\ feed.account = None \/ feed.account \in Accounts
  BY <1>2, <1>3 DEF RequestInv
<1> HIDE DEF r
<1>5. IsServed(r)
  BY <1>4, ProfilesAreServed
<1>6. /\ DOMAIN cache \subseteq Papers
      /\ \A p \in DOMAIN cache :
            /\ cache[p] \in SUBSET Topics
            /\ p \notin feed.touched => p \in DOMAIN corpus /\ cache[p] = corpus[p]
            /\ p \in DOMAIN feed.cache \/ p \in DOMAIN corpus
      /\ \A p \in DOMAIN feed.cache : p \in DOMAIN cache /\ cache[p] = feed.cache[p]
  <2> DEFINE ids == CandidateIds(feed.pool)
  <2> HIDE DEF ids
  <2>1. LET c == Loaded(feed.cache, ids)
        IN  /\ DOMAIN c \subseteq Papers
            /\ \A p \in DOMAIN c :
                  /\ c[p] \in SUBSET Topics
                  /\ p \notin feed.touched => p \in DOMAIN corpus /\ c[p] = corpus[p]
                  /\ p \in DOMAIN feed.cache \/ p \in DOMAIN corpus
            /\ \A p \in DOMAIN feed.cache : p \in DOMAIN c /\ c[p] = feed.cache[p]
    BY <1>3, LoadedIsSound
  <2> QED
    BY <2>1 DEF ids
<1> HIDE DEF cache
<1>7. \A f \in Features : weights[f] \in Nat
  <2>1. \A f \in DOMAIN learned : learned[f] \in Int
    BY <1>4, AccountsAreHistories
  <2> HIDE DEF learned
  <2> QED
    BY <1>5, <2>1, WeightsAreNumbers
<1> HIDE DEF weights, learned
<1>8. \A p : seen(p) = None \/ seen(p) \in Nat
  BY <1>4, AccountsAreHistories DEF SeenDaysAgo
<1> HIDE DEF seen
<1>9. ASSUME NEW c \in known
      PROVE  /\ IsCandidate(c) /\ c[1] \in DOMAIN cache /\ cache[c[1]] \in SUBSET Topics
             /\ \A e \in known : e[1] = c[1] => e = c
             /\ Passes(r, c[1], cache[c[1]])
  <2>1. c \in ToSet(feed.pool) /\ c[1] \in DOMAIN cache
    OBVIOUS
  <2>2. PICK n \in DOMAIN feed.pool : feed.pool[n] = c
    BY <2>1 DEF ToSet
  <2>3. IsCandidate(c)
    BY <1>3, <2>2 DEF PoolInv, IsPool
  <2>4. ASSUME NEW e \in known, e[1] = c[1] PROVE e = c
    <3>1. PICK m \in DOMAIN feed.pool : feed.pool[m] = e
      BY DEF ToSet
    <3>2. m = n
      BY <1>3, <2>2, <2>4, <3>1 DEF PoolInv, IsPool, Distinct
    <3> QED
      BY <2>2, <3>1, <3>2
  <2>5. Passes(r, c[1], cache[c[1]])
    <3>1. CASE c[1] \in DOMAIN feed.cache
      BY <1>2, <1>3, <1>6, <2>2, <3>1 DEF FilterInv, r
    <3>2. CASE c[1] \notin DOMAIN feed.cache
      <4>1. c[1] \in DOMAIN corpus
        BY <1>6, <2>1, <3>2
      <4>2. ~ Filters(r)
        BY <1>2, <1>3, <2>2, <3>2, <4>1 DEF FilterInv, r
      <4> QED
        BY <4>2 DEF Filters, Passes
    <3> QED
      BY <3>1, <3>2
  <2> QED
    BY <1>6, <2>1, <2>3, <2>4, <2>5
<1>10. IsFiniteSet(known)
  <2>1. IsFiniteSet(ToSet(feed.pool))
    BY <1>3, ListsAreFinite DEF PoolInv, IsPool
  <2> QED
    BY <2>1, FS_Subset
<1>11. ASSUME NEW c \in known
       PROVE  /\ scored[c].paper = c[1] /\ scored[c].topics = cache[c[1]]
              /\ scored[c].exploration \in BOOLEAN /\ scored[c].score \in 0..1000
              /\ IsRated(scored[c].values)
              /\ scored[c].matched # None =>
                    \E j \in ToSet(Semantic(r, "positive")) : scored[c].matched = j.key
  <2> DEFINE topics == cache[c[1]]
             ago == seen(c[1])
  <2>1. scored[c] = Scored(r, c, topics, ago, weights)
    OBVIOUS
  <2>2. IsCandidate(c) /\ topics \in SUBSET Topics /\ (ago = None \/ ago \in Nat)
    BY <1>8, <1>9
  <2> HIDE DEF topics, ago, scored, known
  <2>3. LET i == Scored(r, c, topics, ago, weights)
        IN  /\ i.paper = c[1] /\ i.topics = topics /\ i.exploration \in BOOLEAN
            /\ i.score \in 0..1000 /\ IsRated(i.values)
            /\ i.matched # None =>
                  \E j \in ToSet(Semantic(r, "positive")) : i.matched = j.key
    BY <1>5, <1>7, <2>2, ScoredIsRated
  <2> QED
    BY ZenonT(60), <2>1, <2>3 DEF topics
<1>12. DOMAIN scored = known
  OBVIOUS
<1> HIDE DEF scored
<1>13. IsFiniteSet(items)
  BY <1>10, <1>12, FiniteImage
<1>14. \A i \in items : \E c \in known : i = scored[c]
  BY <1>12
<1>15. ASSUME NEW i \in items
       PROVE  /\ i.paper \in Papers /\ i.topics \in SUBSET Topics /\ i.exploration \in BOOLEAN
              /\ i.score \in 0..1000 /\ IsRated(i.values)
              /\ i.matched # None => \E j \in ToSet(Semantic(r, "positive")) : i.matched = j.key
              /\ Passes(r, i.paper, i.topics)
              /\ i.paper \notin feed.touched => i.paper \in DOMAIN corpus /\ i.topics = corpus[i.paper]
  <2>1. PICK c \in known : i = scored[c]
    BY <1>14
  <2>2. c[1] \in Papers
    BY <1>9 DEF IsCandidate
  <2>3. c[1] \notin feed.touched => c[1] \in DOMAIN corpus /\ cache[c[1]] = corpus[c[1]]
    BY <1>6, <1>9
  <2> QED
    BY SMTT(30), <1>9, <1>11, <2>1, <2>2, <2>3
<1>16. \A i, j \in items : i.paper = j.paper => i = j
  <2> SUFFICES ASSUME NEW i \in items, NEW j \in items, i.paper = j.paper PROVE i = j
    OBVIOUS
  <2>1. PICK c \in known : i = scored[c]
    BY <1>14
  <2>2. PICK e \in known : j = scored[e]
    BY <1>14
  <2>3. e[1] = c[1]
    BY <1>11, <2>1, <2>2
  <2>4. e = c
    BY <1>9, <2>3
  <2> QED
    BY <2>1, <2>2, <2>4
<1>17. {i.paper : i \in items} = {c[1] : c \in known}
  BY <1>11, <1>12
<1> HIDE DEF items, known
<1>18. /\ ranked \in Seq(items) /\ ToSet(ranked) = items
       /\ \A i \in items : i.score <= ranked[1].score
  BY <1>13, <1>15, <1>16, RankedIsAListing
<1>19. DOMAIN redundancy = {i.paper : i \in items} /\ \A i \in items : redundancy[i.paper] = 0
  BY <1>17
<1> HIDE DEF ranked, redundancy
<1>20. feed = [x \in FeedFields |-> feed[x]]
  BY <1>3 DEF RequestInv
<1>21. /\ feed' = [x \in FeedFields |-> feed'[x]]
       /\ feed'.pc = "pick" /\ feed'.profile = feed.profile /\ feed'.limit = feed.limit
       /\ feed'.account = feed.account /\ feed'.sources = feed.sources /\ feed'.scan = feed.scan
       /\ feed'.pool = feed.pool /\ feed'.cache = cache /\ feed'.ranked = ranked
       /\ feed'.redundancy = redundancy /\ feed'.chosen = feed.chosen
       /\ feed'.shown = feed.shown /\ feed'.touched = feed.touched
  BY <1>1, <1>20 DEF NoFeed, FeedFields
<1>22. feed.chosen = << >> /\ feed.shown = << >> /\ feed.limit \in Nat
  BY <1>2, <1>3 DEF ChosenInv, ShownInv, RequestInv
<1>23. CorpusInv' /\ CacheInv'
  BY <1>2, <1>3, <1>6, <1>21 DEF CorpusInv, CacheInv
<1>24. RequestInv'
  BY <1>2, <1>3, <1>21, SameRequestIsSound DEF SameRequest
<1>25. PoolInv' /\ FilterInv'
  BY <1>3, <1>21 DEF PoolInv, FilterInv
<1>26. RankedInv'
  <2>1. IsList(ranked)
    BY <1>18, ListsOfTheirElements
  <2>2. \A i \in items : IsItem(i)'
    BY SMTT(30), <1>2, <1>15, <1>21 DEF IsItem, IsRated, r
  <2> QED
    BY <1>16, <1>18, <1>21, <2>1, <2>2 DEF RankedInv
<1>27. RedundancyInv'
  <2>1. DOMAIN << >> = {}
    OBVIOUS
  <2>2. \A i \in items : ~ Repeats(i, feed.chosen)'
    BY <1>21, <1>22, <2>1 DEF Repeats
  <2> QED
    BY <1>18, <1>19, <1>21, <1>22, <2>1 DEF RedundancyInv, Repeats, NearDuplicate
<1>28. ChosenInv'
  BY <1>21, <1>22 DEF ChosenInv, IsInjective
<1>29. CapsGiveWayLast'
  BY <1>21, <1>22 DEF CapsGiveWayLast
<1>30. ShownInv'
  BY <1>21, <1>22 DEF ShownInv, IsList, ToSet
<1>31. answer' = answer /\ answer \in {"none", "refused", "failed", "built"}
  BY DEF IInv
<1> QED
  BY <1>23, <1>24, <1>25, <1>26, <1>27, <1>28, <1>29, <1>30, <1>31 DEF IInv

-----------------------------------------------------------------------------
(***************************************************************************)
(* The selection.  What was chosen is judged within the feed it is chosen   *)
(* for, which these name as f.                                              *)
(***************************************************************************)
RepeatsIn(f, item, chosen) ==
    \E n \in DOMAIN chosen : Similarity(f.ranked, item, chosen[n]) >= NearDuplicate
UnfitIn(f, item, chosen) == RepeatsIn(f, item, chosen) \/ ~ MayExplore(f, item, chosen)

ChosenWell(f, item, before) ==
    /\ ~ RepeatsIn(f, item, before)
    /\ ~ WithinCaps(item, before) =>
          \A i \in ToSet(f.ranked) \ ToSet(before) : WithinCaps(i, before) => UnfitIn(f, i, before)

GivesWay(f, chosen) ==
    \A n \in DOMAIN chosen : ChosenWell(f, chosen[n], SubSeq(chosen, 1, n - 1))

EndsShort(f) ==
    Len(f.chosen) < f.limit => \A i \in Remaining(f) : UnfitIn(f, i, f.chosen)

LEMMA CapsInTheFeed ==
    CapsGiveWayLast <=> GivesWay(feed, feed.chosen) /\ (feed.pc = "shown" => EndsShort(feed))
<1>1. \A n \in DOMAIN feed.chosen :
         {i \in ToSet(feed.ranked) : i \notin ToSet(Before(n))} = ToSet(feed.ranked) \ ToSet(Before(n))
  OBVIOUS
<1>2. \A item, chosen : Repeats(item, chosen) <=> RepeatsIn(feed, item, chosen)
  BY DEF Repeats, RepeatsIn
<1>3. \A item, chosen : Unfit(item, chosen) <=> UnfitIn(feed, item, chosen)
  BY <1>2 DEF Unfit, UnfitIn
<1>4. (\A n \in DOMAIN feed.chosen :
         LET item == feed.chosen[n]
             rest == {i \in ToSet(feed.ranked) : i \notin ToSet(Before(n))}
         IN  /\ ~ Repeats(item, Before(n))
             /\ ~ WithinCaps(item, Before(n)) =>
                   \A i \in rest : WithinCaps(i, Before(n)) => Unfit(i, Before(n)))
      <=> GivesWay(feed, feed.chosen)
  BY <1>1, <1>2, <1>3 DEF GivesWay, ChosenWell, Before
<1>5. (feed.pc = "shown" /\ Len(feed.chosen) < feed.limit =>
         \A i \in Remaining(feed) : Unfit(i, feed.chosen))
      <=> (feed.pc = "shown" => EndsShort(feed))
  BY <1>3 DEF EndsShort
<1> QED
  BY <1>4, <1>5 DEF CapsGiveWayLast

\* Only the list, the profile and the size of a feed tell what fits it.
LEMMA FitnessIsOfTheRequest ==
    ASSUME NEW f, NEW g, g.ranked = f.ranked, g.profile = f.profile, g.limit = f.limit
    PROVE  /\ \A chosen : GivesWay(g, chosen) <=> GivesWay(f, chosen)
           /\ g.chosen = f.chosen => (EndsShort(g) <=> EndsShort(f))
<1>1. \A item, chosen : MayExplore(g, item, chosen) <=> MayExplore(f, item, chosen)
  BY DEF MayExplore
<1>2. \A item, chosen : RepeatsIn(g, item, chosen) <=> RepeatsIn(f, item, chosen)
  BY DEF RepeatsIn
<1>3. \A item, chosen : UnfitIn(g, item, chosen) <=> UnfitIn(f, item, chosen)
  BY <1>1, <1>2 DEF UnfitIn
<1>4. \A item, chosen : ChosenWell(g, item, chosen) <=> ChosenWell(f, item, chosen)
  BY <1>2, <1>3 DEF ChosenWell
<1>5. \A chosen : GivesWay(g, chosen) <=> GivesWay(f, chosen)
  BY <1>4 DEF GivesWay
<1>6. g.chosen = f.chosen => Remaining(g) = Remaining(f)
  BY DEF Remaining
<1>7. g.chosen = f.chosen => (EndsShort(g) <=> EndsShort(f))
  BY <1>3, <1>6 DEF EndsShort
<1> QED
  BY <1>5, <1>7

\* A list that was ranked stays one while papers that it was not ranked with change.
LEMMA RankedStays ==
    ASSUME RankedInv, feed'.ranked = feed.ranked, feed'.profile = feed.profile,
           \A p : p \in feed.touched => p \in feed'.touched,
           \A p \in DOMAIN corpus : p \notin feed'.touched =>
               p \notin feed.touched /\ p \in DOMAIN corpus' /\ corpus'[p] = corpus[p]
    PROVE  RankedInv'
<1>1. ASSUME NEW i \in ToSet(feed.ranked) PROVE IsItem(i)'
  <2>1. IsItem(i)
    BY DEF RankedInv
  <2> DEFINE known(profile) == \E j \in ToSet(Semantic(profile, "positive")) : i.matched = j.key
             fit(profile)   == Passes(profile, i.paper, i.topics)
  <2>2. /\ i.paper \in Papers /\ i.topics \in SUBSET Topics /\ i.exploration \in BOOLEAN
        /\ i.score \in 0..1000 /\ i.values \in [Features -> 0..1000]
        /\ i.matched # None => known(feed.profile)
        /\ fit(feed.profile)
        /\ i.paper \notin feed.touched => i.paper \in DOMAIN corpus /\ i.topics = corpus[i.paper]
    BY <2>1 DEF IsItem
  <2>3. i.paper \notin feed'.touched => i.paper \in DOMAIN corpus' /\ i.topics = corpus'[i.paper]
    BY <2>2
  <2> HIDE DEF known, fit
  <2>4. (i.matched # None => known(feed'.profile)) /\ fit(feed'.profile)
    BY <2>2
  <2> QED
    BY SMTT(30), <2>2, <2>3, <2>4 DEF IsItem, known, fit
<1> QED
  BY <1>1 DEF RankedInv

LEMMA AppendedLists ==
    ASSUME NEW T, NEW s \in Seq(T), NEW e \in T
    PROVE  LET t == Append(s, e)
           IN  /\ t \in Seq(T) /\ Len(t) = Len(s) + 1 /\ DOMAIN t = 1 .. Len(s) + 1
               /\ DOMAIN s = 1 .. Len(s) /\ Len(s) \in Nat
               /\ \A n \in DOMAIN s : t[n] = s[n] /\ SubSeq(t, 1, n - 1) = SubSeq(s, 1, n - 1)
               /\ t[Len(s) + 1] = e /\ SubSeq(t, 1, Len(s)) = s
<1> DEFINE t == Append(s, e)
           size == Len(s)
<1>1. size \in Nat /\ DOMAIN s = 1 .. size
  OBVIOUS
<1>2. /\ t \in Seq(T) /\ Len(t) = size + 1 /\ DOMAIN t = 1 .. size + 1
      /\ t[size + 1] = e /\ \A n \in 1 .. size : t[n] = s[n]
  OBVIOUS
<1> HIDE DEF t
<1>3. s \in Seq(T) /\ Len(s) = size
  OBVIOUS
<1> HIDE DEF size
<1>4. ASSUME NEW m \in 0 .. size PROVE SubSeq(t, 1, m) = SubSeq(s, 1, m)
  <2>1. SubSeq(t, 1, m) = [i \in 1 .. m |-> t[i]]
    BY <1>1, <1>2
  <2>2. SubSeq(s, 1, m) = [i \in 1 .. m |-> s[i]]
    BY <1>1, <1>3
  <2>3. \A i \in 1 .. m : t[i] = s[i]
    BY <1>1, <1>2
  <2> QED
    BY <2>1, <2>2, <2>3
<1>5. SubSeq(s, 1, size) = s
  <2>1. SubSeq(s, 1, size) = [i \in 1 .. size |-> s[i]]
    BY <1>1, <1>3
  <2>2. s = [i \in 1 .. size |-> s[i]]
    BY <1>1, <1>3
  <2> QED
    BY <2>1, <2>2
<1>6. \A n \in DOMAIN s : t[n] = s[n] /\ SubSeq(t, 1, n - 1) = SubSeq(s, 1, n - 1)
  <2> SUFFICES ASSUME NEW n \in 1 .. size
               PROVE  t[n] = s[n] /\ SubSeq(t, 1, n - 1) = SubSeq(s, 1, n - 1)
    BY <1>1
  <2>1. n - 1 \in 0 .. size
    BY <1>1
  <2> QED
    BY <1>2, <1>4, <2>1
<1>7. SubSeq(t, 1, size) = s
  <2>1. size \in 0 .. size
    BY <1>1
  <2> QED
    BY <1>4, <1>5, <2>1
<1> QED
  BY <1>1, <1>2, <1>3, <1>6, <1>7 DEF t, size

LEMMA AnotherChoiceGivesWay ==
    ASSUME NEW f, NEW T, NEW chosen \in Seq(T), NEW pick \in T,
           GivesWay(f, chosen), ChosenWell(f, pick, chosen)
    PROVE  GivesWay(f, Append(chosen, pick))
<1> DEFINE t == Append(chosen, pick)
           size == Len(chosen)
<1>1. /\ DOMAIN t = 1 .. size + 1 /\ DOMAIN chosen = 1 .. size /\ size \in Nat
      /\ \A n \in DOMAIN chosen : t[n] = chosen[n] /\ SubSeq(t, 1, n - 1) = SubSeq(chosen, 1, n - 1)
      /\ t[size + 1] = pick /\ SubSeq(t, 1, size) = chosen
  BY AppendedLists
<1> HIDE DEF t, size
<1>2. ASSUME NEW n \in DOMAIN t PROVE ChosenWell(f, t[n], SubSeq(t, 1, n - 1))
  <2>1. CASE n \in DOMAIN chosen
    BY <1>1, <2>1 DEF GivesWay
  <2>2. CASE n \notin DOMAIN chosen
    <3>1. n = size + 1 /\ n - 1 = size
      BY <1>1, <2>2
    <3> QED
      BY <1>1, <3>1
  <2> QED
    BY <2>1, <2>2
<1> QED
  BY <1>2 DEF GivesWay, t

LEMMA ExploredGrows ==
    ASSUME NEW T, NEW chosen \in Seq(T), NEW pick \in T, pick.exploration \in BOOLEAN
    PROVE  /\ Explored(chosen) \in Nat /\ Explored(<< >>) = 0
           /\ Explored(Append(chosen, pick)) =
                 IF pick.exploration THEN Explored(chosen) + 1 ELSE Explored(chosen)
<1> DEFINE t == Append(chosen, pick)
           size == Len(chosen)
           was == {n \in DOMAIN chosen : chosen[n].exploration}
           now == {n \in DOMAIN t : t[n].exploration}
<1>1. /\ DOMAIN t = 1 .. size + 1 /\ DOMAIN chosen = 1 .. size /\ size \in Nat
      /\ \A n \in DOMAIN chosen : t[n] = chosen[n]
      /\ t[size + 1] = pick
  BY AppendedLists
<1> HIDE DEF t, size
<1>2. was \in SUBSET (1 .. size) /\ IsFiniteSet(1 .. size)
  BY <1>1, FS_Interval
<1>3. IsFiniteSet(was) /\ Cardinality(was) \in Nat
  BY <1>2, FS_Subset, FS_CardinalityType
<1>4. DOMAIN t = DOMAIN chosen \cup {size + 1} /\ size + 1 \notin DOMAIN chosen
  BY <1>1
<1>5. now = IF pick.exploration THEN was \cup {size + 1} ELSE was
  <2>1. CASE pick.exploration
    BY <1>1, <1>4, <2>1
  <2>2. CASE ~ pick.exploration
    BY <1>1, <1>4, <2>2
  <2> QED
    BY <2>1, <2>2
<1>6. size + 1 \notin was
  BY <1>4
<1>7. Explored(chosen) = Cardinality(was) /\ Explored(t) = Cardinality(now)
  BY DEF Explored
<1> HIDE DEF was, now
<1>8. Cardinality(was \cup {size + 1}) = Cardinality(was) + 1
  BY <1>3, <1>6, FS_AddElement
<1>9. Explored(<< >>) = 0
  <2>1. {n \in DOMAIN << >> : << >>[n].exploration} = {}
    OBVIOUS
  <2> QED
    BY <2>1, FS_EmptySet DEF Explored
<1>10. Explored(t) = IF pick.exploration THEN Explored(chosen) + 1 ELSE Explored(chosen)
  BY <1>5, <1>7, <1>8
<1> QED
  BY <1>3, <1>7, <1>9, <1>10 DEF t

LEMMA SharesOfALimit ==
    ASSUME NEW limit \in Nat, NEW share \in Nat
    PROVE  /\ (limit * share) \div 100 \in Nat
           /\ ((limit * share) \div 100) * 100 <= limit * share
<1> DEFINE n == limit * share
<1>1. n \in Nat
  OBVIOUS
<1> HIDE DEF n
<1>2. n \div 100 \in Nat /\ (n \div 100) * 100 <= n
  BY <1>1
<1> QED
  BY <1>2 DEF n

\* What the invariant says of any item that is left, and of the next one.
LEMMA PicksAreFit ==
    ASSUME IInv, feed.pc = "pick", Candidate(feed) # {}
    PROVE  LET pick == NextPick(feed, Candidate(feed))
           IN  /\ pick \in ToSet(feed.ranked) /\ pick \notin ToSet(feed.chosen)
               /\ MayExplore(feed, pick, feed.chosen)
               /\ ChosenWell(feed, pick, feed.chosen)
<1> DEFINE pick == NextPick(feed, Candidate(feed))
<1>1. RankedInv /\ RedundancyInv
  BY DEF IInv
<1>2. Candidate(feed) \in SUBSET ToSet(feed.ranked)
  BY DEF Candidate, Eligible, Remaining
<1>3. IsFiniteSet(Candidate(feed))
  <2>1. IsFiniteSet(ToSet(feed.ranked))
    BY <1>1, ListsAreFinite DEF RankedInv
  <2> QED
    BY <1>2, <2>1, FS_Subset
<1>4. ASSUME NEW i \in Candidate(feed) PROVE i.paper \in Papers /\ Value(feed, i) \in Int
  <2>1. i \in ToSet(feed.ranked)
    BY <1>2
  <2>2. i.paper \in Papers /\ i.score \in 0..1000
    BY <1>1, <2>1 DEF RankedInv, IsItem
  <2>3. feed.redundancy[i.paper] \in Int
    BY <1>1, <2>1 DEF RedundancyInv
  <2> DEFINE score == i.score
             again == feed.redundancy[i.paper]
  <2>4. Value(feed, i) = RelevanceLambda * score - (100 - RelevanceLambda) * again
    BY DEF Value
  <2>5. score \in Int /\ again \in Int
    BY <2>2, <2>3
  <2> HIDE DEF score, again
  <2>6. Value(feed, i) \in Int
    BY <2>4, <2>5 DEF RelevanceLambda
  <2> QED
    BY <2>2, <2>6
<1>5. \A i, j \in Candidate(feed) : i.paper = j.paper => i = j
  BY <1>1, <1>2 DEF RankedInv
<1>6. pick \in Candidate(feed)
  BY <1>3, <1>4, <1>5, NextPickIsOneOf
<1> HIDE DEF pick
<1>7. /\ pick \in Eligible(feed, TRUE) \/ pick \in Eligible(feed, FALSE)
      /\ ~ WithinCaps(pick, feed.chosen) => Eligible(feed, TRUE) = {}
  BY <1>6 DEF Candidate, Eligible
<1>8. /\ pick \in ToSet(feed.ranked) /\ pick \notin ToSet(feed.chosen)
      /\ MayExplore(feed, pick, feed.chosen)
      /\ feed.chosen # << >> => feed.redundancy[pick.paper] < NearDuplicate
  BY <1>7 DEF Eligible, Remaining
<1>9. ASSUME NEW i \in ToSet(feed.ranked)
      PROVE  (feed.chosen # << >> => feed.redundancy[i.paper] < NearDuplicate)
                <=> ~ RepeatsIn(feed, i, feed.chosen)
  <2>1. feed.redundancy[i.paper] < NearDuplicate <=> ~ Repeats(i, feed.chosen)
    BY <1>1 DEF RedundancyInv
  <2>2. Repeats(i, feed.chosen) <=> RepeatsIn(feed, i, feed.chosen)
    BY DEF Repeats, RepeatsIn
  <2>3. feed.chosen = << >> => ~ RepeatsIn(feed, i, feed.chosen)
    BY DEF RepeatsIn
  <2> QED
    BY <2>1, <2>2, <2>3
<1>10. ASSUME NEW i \in ToSet(feed.ranked) \ ToSet(feed.chosen),
              WithinCaps(i, feed.chosen), Eligible(feed, TRUE) = {}
       PROVE  UnfitIn(feed, i, feed.chosen)
  <2>1. i \in Remaining(feed)
    BY DEF Remaining
  <2>2. ~ MayExplore(feed, i, feed.chosen)
        \/ ~ (feed.chosen # << >> => feed.redundancy[i.paper] < NearDuplicate)
    BY <1>10, <2>1 DEF Eligible
  <2> QED
    BY <1>9, <2>2 DEF UnfitIn
<1>11. ChosenWell(feed, pick, feed.chosen)
  BY <1>7, <1>8, <1>9, <1>10 DEF ChosenWell
<1> QED
  BY <1>8, <1>11 DEF pick

LEMMA PickIsSound ==
    ASSUME IInv, Pick, UNCHANGED <<draft, answer>>
    PROVE  IInv'
<1> DEFINE pick == NextPick(feed, Candidate(feed))
           chosen == Append(feed.chosen, pick)
           redundancy == Redundancies(feed, pick)
           T == ToSet(feed.ranked)
<1>1. feed' = [feed EXCEPT !.chosen = chosen, !.redundancy = redundancy]
  BY DEF Pick
<1>2. /\ feed.pc = "pick" /\ Len(feed.chosen) < feed.limit /\ Candidate(feed) # {}
      /\ corpus' = corpus
  BY DEF Pick
<1>3. /\ CorpusInv /\ RequestInv /\ PoolInv /\ CacheInv /\ FilterInv
      /\ RankedInv /\ RedundancyInv /\ ChosenInv /\ CapsGiveWayLast /\ ShownInv
  BY DEF IInv
<1>4. /\ pick \in T /\ pick \notin ToSet(feed.chosen)
      /\ MayExplore(feed, pick, feed.chosen) /\ ChosenWell(feed, pick, feed.chosen)
  BY <1>2, PicksAreFit
<1>5. /\ DOMAIN redundancy = {i.paper : i \in T}
      /\ \A i \in T :
            /\ redundancy[i.paper] \in Int
            /\ redundancy[i.paper] < NearDuplicate <=>
                  /\ feed.redundancy[i.paper] < NearDuplicate
                  /\ Similarity(feed.ranked, i, pick) < NearDuplicate
  <2> HIDE DEF pick
  <2> QED
    BY <1>3, <1>4, RedundanciesAreKept
<1> HIDE DEF pick, redundancy
<1>6. feed.chosen \in Seq(T) /\ IsInjective(feed.chosen)
  BY <1>3 DEF ChosenInv
<1> HIDE DEF T
<1> DEFINE size == Len(feed.chosen)
<1>7. /\ chosen \in Seq(T) /\ Len(chosen) = size + 1 /\ DOMAIN chosen = 1 .. size + 1
      /\ DOMAIN feed.chosen = 1 .. size /\ size \in Nat
      /\ \A n \in DOMAIN feed.chosen : chosen[n] = feed.chosen[n]
      /\ chosen[size + 1] = pick
  BY <1>4, <1>6, AppendedLists
<1>8. pick.exploration \in BOOLEAN /\ feed.limit \in Nat
  BY SMTT(30), <1>3, <1>4 DEF RankedInv, IsItem, RequestInv, T
<1>9. /\ Explored(feed.chosen) \in Nat /\ Explored(<< >>) = 0
      /\ Explored(chosen) = IF pick.exploration THEN Explored(feed.chosen) + 1 ELSE Explored(feed.chosen)
  BY <1>4, <1>6, <1>8, ExploredGrows
<1>10. GivesWay(feed, chosen)
  <2>1. GivesWay(feed, feed.chosen)
    BY <1>3, CapsInTheFeed
  <2> QED
    BY <1>4, <1>6, <2>1, AnotherChoiceGivesWay
<1> HIDE DEF chosen
<1>11. feed = [x \in FeedFields |-> feed[x]]
  BY <1>3 DEF RequestInv
<1>12. /\ feed' = [x \in FeedFields |-> feed'[x]]
       /\ feed'.pc = feed.pc /\ feed'.profile = feed.profile /\ feed'.limit = feed.limit
       /\ feed'.account = feed.account /\ feed'.sources = feed.sources /\ feed'.scan = feed.scan
       /\ feed'.pool = feed.pool /\ feed'.cache = feed.cache /\ feed'.ranked = feed.ranked
       /\ feed'.redundancy = redundancy /\ feed'.chosen = chosen
       /\ feed'.shown = feed.shown /\ feed'.touched = feed.touched
  BY <1>1, <1>11 DEF NoFeed, FeedFields
<1>13. CorpusInv' /\ CacheInv'
  BY <1>2, <1>3, <1>12 DEF CorpusInv, CacheInv
<1>14. RequestInv'
  BY <1>2, <1>3, <1>12, SameRequestIsSound DEF SameRequest
<1>15. PoolInv' /\ FilterInv'
  BY <1>2, <1>3, <1>12 DEF PoolInv, FilterInv
<1>16. RankedInv'
  <2>1. \A p \in DOMAIN corpus : p \notin feed'.touched =>
           p \notin feed.touched /\ p \in DOMAIN corpus' /\ corpus'[p] = corpus[p]
    BY <1>2, <1>12
  <2> QED
    BY <1>3, <1>12, <2>1, RankedStays
<1>17. RedundancyInv'
  <2>1. ASSUME NEW i \in T
        PROVE  redundancy[i.paper] < NearDuplicate
                  <=> ~ \E n \in DOMAIN chosen : Similarity(feed.ranked, i, chosen[n]) >= NearDuplicate
    <3>1. feed.redundancy[i.paper] < NearDuplicate
             <=> ~ \E n \in DOMAIN feed.chosen : Similarity(feed.ranked, i, feed.chosen[n]) >= NearDuplicate
      BY <1>3 DEF RedundancyInv, Repeats, T
    <3>2. Similarity(feed.ranked, i, pick) \in Int
      <4>1. IsItem(i) /\ IsItem(pick)
        BY <1>3, <1>4 DEF RankedInv, T
      <4> QED
        BY <4>1, SimilarityIsANumber DEF IsItem
    <3>3. Similarity(feed.ranked, i, pick) < NearDuplicate
             <=> ~ (Similarity(feed.ranked, i, pick) >= NearDuplicate)
      BY <3>2 DEF NearDuplicate
    <3>4. (\E n \in DOMAIN chosen : Similarity(feed.ranked, i, chosen[n]) >= NearDuplicate)
             <=> \/ \E n \in DOMAIN feed.chosen : Similarity(feed.ranked, i, feed.chosen[n]) >= NearDuplicate
                 \/ Similarity(feed.ranked, i, pick) >= NearDuplicate
      <4>1. DOMAIN chosen = DOMAIN feed.chosen \cup {size + 1}
        BY <1>7
      <4> HIDE DEF size
      <4> QED
        BY <1>7, <4>1
    <3> QED
      BY <1>5, <3>1, <3>3, <3>4
  <2> QED
    BY <1>5, <1>12, <2>1 DEF RedundancyInv, Repeats, T
<1>18. ChosenInv'
  <2>1. IsInjective(chosen)
    <3>1. \A n \in DOMAIN feed.chosen : feed.chosen[n] # pick
      BY <1>4 DEF ToSet
    <3> QED
      BY SMTT(30), <1>6, <1>7, <3>1 DEF IsInjective
  <2>2. Len(chosen) <= feed.limit
    BY <1>2, <1>7, <1>8
  <2>3. Explored(chosen) <= ExplorationCap(feed.profile, feed.limit)
    <3>1. ExplorationCap(feed.profile, feed.limit) \in Nat
      <4>1. draft \in Draft /\ IsProfile(feed.profile)
            /\ \E usable \in SUBSET Papers : feed.profile = ProfileOf(draft, usable)
        BY <1>2, <1>3 DEF RequestInv
      <4>2. feed.profile.preferences.exploration \in Nat
        BY <4>1, ProfilesAreServed DEF IsServed
      <4> QED
        BY <1>8, <4>2, SharesOfALimit DEF ExplorationCap
    <3>2. pick.exploration => Explored(feed.chosen) < ExplorationCap(feed.profile, feed.limit)
      BY <1>4 DEF MayExplore
    <3>3. Explored(feed.chosen) <= ExplorationCap(feed.profile, feed.limit)
      BY <1>3, <1>9, <3>1 DEF ChosenInv
    <3> QED
      BY <1>9, <3>1, <3>2, <3>3
  <2>4. \A n \in DOMAIN chosen : chosen[n].exploration =>
           chosen[n].score * 100 >= feed.ranked[1].score * ExplorationFloor
    <3> SUFFICES ASSUME NEW n \in DOMAIN chosen, chosen[n].exploration
                 PROVE  chosen[n].score * 100 >= feed.ranked[1].score * ExplorationFloor
      OBVIOUS
    <3>1. CASE n \in DOMAIN feed.chosen
      BY <1>3, <1>7, <3>1 DEF ChosenInv
    <3>2. CASE n \notin DOMAIN feed.chosen
      <4>1. chosen[n] = pick
        BY <1>7, <3>2
      <4> QED
        BY <1>4, <4>1 DEF MayExplore
    <3> QED
      BY <3>1, <3>2
  <2> QED
    BY <1>2, <1>7, <1>12, <2>1, <2>2, <2>3, <2>4 DEF ChosenInv, T
<1>19. CapsGiveWayLast'
  <2>1. GivesWay(feed', chosen)
    BY <1>10, <1>12, FitnessIsOfTheRequest
  <2>2. (CapsGiveWayLast <=> GivesWay(feed, feed.chosen) /\ (feed.pc = "shown" => EndsShort(feed)))'
    BY CapsInTheFeed, PTL
  <2>3. feed'.pc # "shown"
    BY <1>2, <1>12
  <2> QED
    BY <1>12, <2>1, <2>2, <2>3
<1>20. ShownInv'
  BY <1>2, <1>3, <1>12 DEF ShownInv, ToSet
<1>21. answer' = answer /\ answer \in {"none", "refused", "failed", "built"}
  BY DEF IInv
<1> QED
  BY <1>13, <1>14, <1>15, <1>16, <1>17, <1>18, <1>19, <1>20, <1>21 DEF IInv

LEMMA ProjectIsSound ==
    ASSUME IInv, Project, UNCHANGED <<draft, answer>>
    PROVE  IInv'
<1> DEFINE present == {i \in ToSet(feed.chosen) : i.paper \in DOMAIN corpus}
           shown == Among(feed.chosen, present)
           T == ToSet(feed.ranked)
<1>1. feed' = [feed EXCEPT !.pc = "shown", !.shown = shown]
  BY DEF Project
<1>2. /\ feed.pc = "pick" /\ corpus' = corpus
      /\ Len(feed.chosen) >= feed.limit \/ Candidate(feed) = {}
  BY DEF Project
<1>3. /\ CorpusInv /\ RequestInv /\ PoolInv /\ CacheInv /\ FilterInv
      /\ RankedInv /\ RedundancyInv /\ ChosenInv /\ CapsGiveWayLast /\ ShownInv
  BY DEF IInv
<1>4. feed.chosen \in Seq(T)
  BY <1>3 DEF ChosenInv
<1>5. IsList(shown) /\ ToSet(shown) \subseteq ToSet(feed.chosen)
  <2> HIDE DEF T, present
  <2>1. shown \in Seq(T) /\ ToSet(shown) = ToSet(feed.chosen) \cap present
    BY <1>4, AmongIsASublist
  <2> HIDE DEF shown
  <2> QED
    BY <2>1, ListsOfTheirElements
<1> HIDE DEF shown, present, T
<1>6. EndsShort(feed)
  <2> SUFFICES ASSUME Len(feed.chosen) < feed.limit, NEW i \in Remaining(feed)
               PROVE  UnfitIn(feed, i, feed.chosen)
    BY DEF EndsShort
  <2>1. Len(feed.chosen) \in Nat /\ feed.limit \in Nat
    BY <1>3, <1>4 DEF RequestInv
  <2>2. Candidate(feed) = {}
    BY <1>2, <2>1
  <2>3. Eligible(feed, FALSE) = {}
    BY <2>2 DEF Candidate
  <2>4. ~ MayExplore(feed, i, feed.chosen)
        \/ (feed.chosen # << >> /\ ~ (feed.redundancy[i.paper] < NearDuplicate))
    BY <2>3 DEF Eligible
  <2>5. feed.redundancy[i.paper] < NearDuplicate <=> ~ Repeats(i, feed.chosen)
    BY <1>3 DEF RedundancyInv, Remaining
  <2>6. Repeats(i, feed.chosen) <=> RepeatsIn(feed, i, feed.chosen)
    BY DEF Repeats, RepeatsIn
  <2> QED
    BY <2>4, <2>5, <2>6 DEF UnfitIn
<1>7. feed = [x \in FeedFields |-> feed[x]]
  BY <1>3 DEF RequestInv
<1>8. /\ feed' = [x \in FeedFields |-> feed'[x]]
      /\ feed'.pc = "shown" /\ feed'.profile = feed.profile /\ feed'.limit = feed.limit
      /\ feed'.account = feed.account /\ feed'.sources = feed.sources /\ feed'.scan = feed.scan
      /\ feed'.pool = feed.pool /\ feed'.cache = feed.cache /\ feed'.ranked = feed.ranked
      /\ feed'.redundancy = feed.redundancy /\ feed'.chosen = feed.chosen
      /\ feed'.shown = shown /\ feed'.touched = feed.touched
  BY <1>1, <1>7 DEF NoFeed, FeedFields
<1>9. CorpusInv' /\ CacheInv'
  BY <1>2, <1>3, <1>8 DEF CorpusInv, CacheInv
<1>10. RequestInv'
  BY <1>2, <1>3, <1>8, SameRequestIsSound DEF SameRequest
<1>11. PoolInv' /\ FilterInv'
  BY <1>3, <1>8 DEF PoolInv, FilterInv
<1>12. RankedInv'
  BY <1>2, <1>3, <1>8, RankedStays
<1>13. RedundancyInv'
  BY <1>3, <1>8 DEF RedundancyInv, Repeats
<1>14. ChosenInv'
  BY <1>3, <1>8 DEF ChosenInv
<1>15. CapsGiveWayLast'
  <2>1. GivesWay(feed, feed.chosen)
    BY <1>3, CapsInTheFeed
  <2>2. GivesWay(feed', feed'.chosen) /\ EndsShort(feed')
    BY <1>6, <1>8, <2>1, FitnessIsOfTheRequest
  <2>3. (CapsGiveWayLast <=> GivesWay(feed, feed.chosen) /\ (feed.pc = "shown" => EndsShort(feed)))'
    BY CapsInTheFeed, PTL
  <2> QED
    BY <2>2, <2>3
<1>16. ShownInv'
  BY <1>5, <1>8 DEF ShownInv
<1>17. answer' = answer /\ answer \in {"none", "refused", "failed", "built"}
  BY DEF IInv
<1> QED
  BY <1>9, <1>10, <1>11, <1>12, <1>13, <1>14, <1>15, <1>16, <1>17 DEF IInv

-----------------------------------------------------------------------------
(***************************************************************************)
(* The rest of the system, and every step.                                  *)
(***************************************************************************)
\* A change of a paper marks it, and leaves the others as they are.
LEMMA ChangesAreSound ==
    ASSUME IInv, Changes
    PROVE  IInv'
<1>1. PICK p \in DOMAIN corpus : RemovePaper(p) \/ \E t \in Topics : AddTopic(p, t)
  BY DEF Changes
<1>2. /\ feed.pc \in {"gather", "rank", "pick"} /\ feed.chosen = << >>
      /\ UNCHANGED <<draft, answer>>
  BY DEF Changes
<1>3. /\ CorpusInv /\ RequestInv /\ PoolInv /\ CacheInv /\ FilterInv
      /\ RankedInv /\ RedundancyInv /\ ChosenInv /\ CapsGiveWayLast /\ ShownInv
  BY DEF IInv
<1>4. /\ corpus' = [q \in DOMAIN corpus' |-> corpus'[q]]
      /\ DOMAIN corpus' \subseteq DOMAIN corpus
      /\ \A q \in DOMAIN corpus' : corpus'[q] \in SUBSET Topics
      /\ \A q \in DOMAIN corpus \ {p} : q \in DOMAIN corpus' /\ corpus'[q] = corpus[q]
  <2>1. CASE RemovePaper(p)
    <3>1. corpus' = [q \in DOMAIN corpus \ {p} |-> corpus[q]]
      BY <2>1 DEF RemovePaper, Restrict
    <3> QED
      BY <1>3, <3>1 DEF CorpusInv
  <2>2. ASSUME NEW t \in Topics, AddTopic(p, t)
        PROVE  /\ corpus' = [q \in DOMAIN corpus' |-> corpus'[q]]
               /\ DOMAIN corpus' \subseteq DOMAIN corpus
               /\ \A q \in DOMAIN corpus' : corpus'[q] \in SUBSET Topics
               /\ \A q \in DOMAIN corpus \ {p} : q \in DOMAIN corpus' /\ corpus'[q] = corpus[q]
    <3>1. corpus' = [corpus EXCEPT ![p] = corpus[p] \cup {t}]
      BY <2>2 DEF AddTopic
    <3>2. corpus' = [q \in DOMAIN corpus |-> IF q = p THEN corpus[p] \cup {t} ELSE corpus[q]]
      BY <1>3, <3>1 DEF CorpusInv
    <3> QED
      BY <1>3, <3>2 DEF CorpusInv
  <2> QED
    BY <1>1, <2>1, <2>2
<1>5. feed' = [feed EXCEPT !.touched = feed.touched \cup {p}]
  BY <1>1 DEF RemovePaper, AddTopic, Touched
<1>6. feed = [x \in FeedFields |-> feed[x]]
  BY <1>3 DEF RequestInv
<1>7. /\ feed' = [x \in FeedFields |-> feed'[x]]
      /\ feed'.pc = feed.pc /\ feed'.profile = feed.profile /\ feed'.limit = feed.limit
      /\ feed'.account = feed.account /\ feed'.sources = feed.sources /\ feed'.scan = feed.scan
      /\ feed'.pool = feed.pool /\ feed'.cache = feed.cache /\ feed'.ranked = feed.ranked
      /\ feed'.redundancy = feed.redundancy /\ feed'.chosen = feed.chosen
      /\ feed'.shown = feed.shown /\ feed'.touched = feed.touched \cup {p}
  BY <1>5, <1>6 DEF NoFeed, FeedFields
<1>8. \A q \in DOMAIN corpus : q \notin feed'.touched =>
         q \notin feed.touched /\ q \in DOMAIN corpus' /\ corpus'[q] = corpus[q]
  BY <1>4, <1>7
<1>9. CorpusInv'
  BY <1>3, <1>4 DEF CorpusInv
<1>10. CacheInv'
  BY <1>3, <1>7, <1>8 DEF CacheInv
<1>11. RequestInv'
  BY <1>2, <1>3, <1>7, SameRequestIsSound DEF SameRequest
<1>12. PoolInv'
  BY <1>3, <1>7 DEF PoolInv
<1>13. FilterInv'
  BY <1>3, <1>4, <1>7 DEF FilterInv
<1>14. RankedInv'
  BY <1>3, <1>7, <1>8, RankedStays
<1>15. RedundancyInv'
  BY <1>3, <1>7 DEF RedundancyInv, Repeats
<1>16. ChosenInv'
  BY <1>3, <1>7 DEF ChosenInv
<1>17. CapsGiveWayLast'
  BY <1>2, <1>7 DEF CapsGiveWayLast
<1>18. ShownInv'
  BY <1>3, <1>7 DEF ShownInv
<1>19. answer' = answer /\ answer \in {"none", "refused", "failed", "built"}
  BY <1>2 DEF IInv
<1> QED
  BY <1>9, <1>10, <1>11, <1>12, <1>13, <1>14, <1>15, <1>16, <1>17, <1>18, <1>19 DEF IInv

LEMMA ShownIsRanked ==
    ASSUME IInv
    PROVE  ToSet(feed.shown) \subseteq ToSet(feed.ranked)
<1>1. ToSet(feed.shown) \subseteq ToSet(feed.chosen) /\ feed.chosen \in Seq(ToSet(feed.ranked))
  BY DEF IInv, ShownInv, ChosenInv
<1>2. ToSet(feed.chosen) \subseteq ToSet(feed.ranked)
  BY <1>1, ListsOfTheirElements
<1> QED
  BY <1>1, <1>2

\* The reactions a reader has name papers and topics that were shown.
LEMMA ReactionsAreCorrections ==
    ASSUME IInv, NEW r \in Reactions
    PROVE  /\ r.action \in RefinementAction
           /\ r.action \in PaperActions => r.paper \in Papers
           /\ r.action = "block_topic" => r.topic \in Topics
<1>1. \A item \in ToSet(feed.shown) : item.paper \in Papers /\ item.topics \in SUBSET Topics
  <2>2. ToSet(feed.shown) \subseteq ToSet(feed.ranked)
    BY ShownIsRanked
  <2>3. \A i \in ToSet(feed.ranked) : i.paper \in Papers /\ i.topics \in SUBSET Topics
    BY DEF IInv, RankedInv, IsItem
  <2> QED
    BY <2>2, <2>3
<1>2. CASE \E a \in PaperActions, item \in ToSet(feed.shown) :
             r = [action |-> a, paper |-> item.paper, key |-> item.matched, topic |-> None]
  BY <1>1, <1>2 DEF RefinementAction, PaperActions
<1>3. CASE \E a \in InterestActions, k \in Keys(feed.profile) :
             r = [action |-> a, paper |-> None, key |-> k, topic |-> None]
  BY <1>3 DEF RefinementAction, PaperActions, InterestActions
<1>4. CASE \E t \in UNION {item.topics : item \in ToSet(feed.shown)} :
             r = [action |-> "block_topic", paper |-> None, key |-> None, topic |-> t]
  BY <1>1, <1>4 DEF RefinementAction, PaperActions
<1> QED
  BY <1>2, <1>3, <1>4 DEF Reactions

LEMMA Unchanged == IInv /\ UNCHANGED vars => IInv'
<1> SUFFICES ASSUME IInv, UNCHANGED vars PROVE IInv'
  OBVIOUS
<1>1. /\ CorpusInv /\ RequestInv /\ PoolInv /\ CacheInv /\ FilterInv
      /\ RankedInv /\ RedundancyInv /\ ChosenInv /\ CapsGiveWayLast /\ ShownInv
  BY DEF IInv
<1>2. corpus' = corpus /\ feed' = feed /\ draft' = draft /\ answer' = answer
  BY DEF vars
<1>3. CorpusInv' /\ RequestInv' /\ PoolInv' /\ CacheInv' /\ FilterInv'
  BY ZenonT(60), <1>1, <1>2 DEF CorpusInv, RequestInv, PoolInv, CacheInv, FilterInv
<1>4. RankedInv'
  BY <1>1, <1>2, RankedStays
<1>5. RedundancyInv' /\ ChosenInv' /\ ShownInv'
  BY <1>1, <1>2 DEF RedundancyInv, Repeats, ChosenInv, ShownInv
<1>6. CapsGiveWayLast'
  <2>1. (CapsGiveWayLast <=> GivesWay(feed, feed.chosen) /\ (feed.pc = "shown" => EndsShort(feed)))'
    BY CapsInTheFeed, PTL
  <2> QED
    BY <1>1, <1>2, <2>1, CapsInTheFeed
<1> QED
  BY <1>1, <1>2, <1>3, <1>4, <1>5, <1>6 DEF IInv

LEMMA NextIsSound == IInv /\ [Next]_vars => IInv'
<1> SUFFICES ASSUME IInv, [Next]_vars PROVE IInv'
  OBVIOUS
<1>1. ASSUME NEW d \in Drafts, NEW l \in Limits, RequestPreview(d, l) PROVE IInv'
  BY <1>1, DraftsAreDrafts, RespondIsSound DEF RequestPreview
<1>2. ASSUME NEW d \in Drafts, NEW l \in Limits, NEW a \in Accounts, RequestFeed(d, l, a)
      PROVE  IInv'
  BY <1>2, DraftsAreDrafts, RespondIsSound DEF RequestFeed
<1>3. ASSUME feed.pc = "shown", NEW r \in Reactions, RequestRefine(r) PROVE IInv'
  <2>1. draft \in Draft /\ feed.limit \in Nat
    BY <1>3 DEF IInv, RequestInv
  <2>2. ApplyAll(draft, <<r>>) \in Draft
    BY <2>1, ReactionsAreCorrections, CorrectedIsADraft
  <2> QED
    BY <1>3, <2>1, <2>2, RespondIsSound DEF RequestRefine
<1>4. ASSUME Serving PROVE IInv'
  BY <1>4, GatherIsSound, FilterIsSound, RankIsSound, PickIsSound, ProjectIsSound
  DEF Serving, FeedNext
<1>5. CASE Changes
  BY <1>5, ChangesAreSound
<1>6. CASE Finished
  BY <1>6, Unchanged DEF Finished
<1>7. CASE UNCHANGED vars
  BY <1>7, Unchanged
<1> QED
  BY <1>1, <1>2, <1>3, <1>4, <1>5, <1>6, <1>7 DEF Next

\* Every reachable state of the endpoints, with papers changing under a request.
THEOREM Invariance == Spec => []IInv
<1> QED
  BY InitIsSound, NextIsSound, PTL DEF Spec

-----------------------------------------------------------------------------
(***************************************************************************)
(* What it says of a feed.                                                  *)
(***************************************************************************)
\* Features and scores stay in [0, 1], the pool in its budget and the feed in
\* its limit, a paper once (features.FeatureVector, candidates.py, rerank.py).
THEOREM TypeCorrect == Spec => []TypeOK
<1>1. IInv => TypeOK
  <2> SUFFICES ASSUME IInv PROVE TypeOK
    OBVIOUS
  <2>1. CorpusInv /\ PoolInv /\ RankedInv /\ ChosenInv
        /\ answer \in {"none", "refused", "failed", "built"}
    BY DEF IInv
  <2>2. DOMAIN corpus \subseteq Papers /\ \A p \in DOMAIN corpus : corpus[p] \subseteq Topics
    BY <2>1 DEF CorpusInv
  <2>3. Len(feed.pool) <= CandidateTotal
    <3>1. Len(feed.pool) + Len(feed.sources) <= CandidateTotal /\ IsPool(feed.pool)
          /\ feed.sources \in Seq(SourceNames)
      BY <2>1 DEF PoolInv
    <3>2. Len(feed.pool) \in Nat /\ Len(feed.sources) \in Nat
      BY <3>1, ListsAreFinite DEF IsPool
    <3>3. \A a, b, c \in Nat : a + b <= c => a <= c
      OBVIOUS
    <3>4. CandidateTotal \in Nat
      BY EverySourceHasASlot
    <3> QED
      BY <3>1, <3>2, <3>3, <3>4
  <2>4. Cardinality(CandidateIds(feed.pool)) = Len(feed.pool)
    BY <2>1, CandidatesAreCounted DEF PoolInv
  <2>5. \A item \in ToSet(feed.ranked) :
           item.score \in 0..1000 /\ item.values \in [Features -> 0..1000]
    BY SMTT(30), <2>1 DEF RankedInv, IsItem
  <2>6. Len(feed.chosen) <= feed.limit
    BY <2>1 DEF ChosenInv
  <2>7. IsInjective([n \in DOMAIN feed.chosen |-> feed.chosen[n].paper])
    <3>1. \A n \in DOMAIN feed.chosen : feed.chosen[n] \in ToSet(feed.ranked)
      BY <2>1 DEF ChosenInv
    <3>2. \A m, n \in DOMAIN feed.chosen :
             feed.chosen[m].paper = feed.chosen[n].paper => m = n
      BY <2>1, <3>1 DEF RankedInv, ChosenInv, IsInjective
    <3> QED
      BY <3>2 DEF IsInjective
  <2> QED
    BY <2>1, <2>2, <2>3, <2>4, <2>5, <2>6, <2>7 DEF TypeOK
<1> QED
  BY <1>1, Invariance, PTL

\* Whatever proposed it and whatever it scores, a blocked paper is not shown
\* (feed._apply_hard_filters).
THEOREM BlockedStayOut == Spec => []BlockedIsNeverShown
<1>1. IInv => BlockedIsNeverShown
  <2> SUFFICES ASSUME IInv, feed.pc = "shown", NEW item \in ToSet(feed.shown),
                      item.paper \notin feed.touched
               PROVE  /\ corpus[item.paper] \cap ToSet(draft.blocked) = {}
                      /\ draft.discovery.publication = "peer_reviewed_only" => Row[item.paper].peer
    BY DEF BlockedIsNeverShown
  <2>1. item \in ToSet(feed.ranked)
    BY ShownIsRanked
  <2>2. Passes(feed.profile, item.paper, item.topics) /\ item.topics = corpus[item.paper]
    BY <2>1 DEF IInv, RankedInv, IsItem
  <2>3. \E usable \in SUBSET Papers : feed.profile = ProfileOf(draft, usable)
    BY DEF IInv, RequestInv
  <2>4. /\ feed.profile.blocked_topics = ToSet(draft.blocked)
        /\ feed.profile.require_peer_reviewed = RequiresPeerReview(draft.discovery.publication)
    BY <2>3 DEF ProfileOf
  <2> QED
    BY <2>2, <2>4 DEF Passes, BlockedTopics, RequiresPeerReview
<1> QED
  BY <1>1, Invariance, PTL

LEMMA ItemsAreScored ==
    ASSUME RankedInv, NEW i \in ToSet(feed.ranked)
    PROVE  i.score \in 0..1000
<1>1. IsItem(i)
  BY DEF RankedInv
<1> QED
  BY <1>1 DEF IsItem

\* Exploration stays within its share and near the best score, also when the
\* caps have given way (rerank.py).
THEOREM ExplorationKeepsToItsShare == Spec => []ExplorationIsACeiling
<1>1. IInv => ExplorationIsACeiling
  <2> DEFINE explored == {n \in DOMAIN feed.chosen : feed.chosen[n].exploration}
             share == ExplorationShare[draft.discovery.exploration]
  <2> SUFFICES ASSUME IInv, feed.chosen # << >>
               PROVE  /\ Cardinality(explored) * 100 <= feed.limit * share
                      /\ \A n \in explored, item \in ToSet(feed.ranked) :
                            feed.chosen[n].score * 2 >= item.score
    BY DEF ExplorationIsACeiling
  <2>1. RequestInv /\ ChosenInv /\ RankedInv
    BY DEF IInv
  <2>2. feed.pc \in {"pick", "shown"} /\ feed.limit \in Nat
    BY <2>1 DEF ChosenInv, RequestInv
  <2>3. /\ draft \in Draft /\ IsProfile(feed.profile)
        /\ \E usable \in SUBSET Papers : feed.profile = ProfileOf(draft, usable)
    BY <2>1, <2>2 DEF RequestInv
  <2>4. feed.profile.preferences.exploration = share
    BY <2>3 DEF ProfileOf, Preferences
  <2>5. share \in Nat
    BY <2>3, <2>4, ProfilesAreServed DEF IsServed
  <2>6. Cardinality(explored) * 100 <= feed.limit * share
    <3>1. Explored(feed.chosen) <= ExplorationCap(feed.profile, feed.limit)
      BY <2>1 DEF ChosenInv
    <3>2. Cardinality(explored) <= (feed.limit * share) \div 100
      BY <2>4, <3>1 DEF Explored, ExplorationCap
    <3> DEFINE size == Cardinality(explored)
               part == (feed.limit * share) \div 100
               all  == feed.limit * share
    <3>3. part \in Nat /\ part * 100 <= all /\ all \in Nat
      BY SMTT(30), <2>2, <2>5, SharesOfALimit
    <3>4. size \in Nat
      <4>1. DOMAIN feed.chosen = 1 .. Len(feed.chosen) /\ Len(feed.chosen) \in Nat
        BY <2>1 DEF ChosenInv
      <4>2. IsFiniteSet(DOMAIN feed.chosen)
        BY <4>1, FS_Interval
      <4> QED
        BY <4>2, FS_Subset, FS_CardinalityType
    <3>5. size <= part
      BY <3>2
    <3> HIDE DEF size, part, all
    <3>6. size * 100 <= all
      BY <3>3, <3>4, <3>5
    <3> QED
      BY <3>6 DEF size, all
  <2>7. ASSUME NEW n \in explored, NEW item \in ToSet(feed.ranked)
        PROVE  feed.chosen[n].score * 2 >= item.score
    <3>1. feed.chosen[n].score * 100 >= feed.ranked[1].score * ExplorationFloor
      BY <2>1 DEF ChosenInv
    <3>2. feed.chosen[n] \in ToSet(feed.ranked)
      BY <2>1 DEF ChosenInv
    <3>3. feed.ranked[1] \in ToSet(feed.ranked)
      <4>1. IsList(feed.ranked) /\ feed.ranked # << >>
        BY <2>1 DEF RankedInv, ToSet
      <4> QED
        BY <4>1, ListsAreFinite
    <3>4. item.score <= feed.ranked[1].score
      BY <2>1 DEF RankedInv
    <3>5. feed.chosen[n].score \in 0..1000 /\ item.score \in 0..1000
          /\ feed.ranked[1].score \in 0..1000
      <4>1. \A i \in ToSet(feed.ranked) : i.score \in 0..1000
        BY <2>1, ItemsAreScored
      <4>2. feed.chosen[n].score \in 0..1000
        BY ZenonT(60), <3>2, <4>1
      <4>3. item.score \in 0..1000
        BY <4>1
      <4>4. feed.ranked[1].score \in 0..1000
        BY ZenonT(60), <3>3, <4>1
      <4> QED
        BY ZenonT(60), <4>2, <4>3, <4>4
    <3> DEFINE mine == feed.chosen[n].score
               its  == item.score
               best == feed.ranked[1].score
    <3>6. /\ mine \in 0..1000 /\ its \in 0..1000 /\ best \in 0..1000
          /\ mine * 100 >= best * ExplorationFloor /\ its <= best
      BY ZenonT(60), <3>1, <3>4, <3>5
    <3> HIDE DEF mine, its, best
    <3>7. mine * 2 >= its
      BY <3>6 DEF ExplorationFloor
    <3> QED
      BY <3>7 DEF mine, its
  <2> QED
    BY <2>6, <2>7
<1> QED
  BY <1>1, Invariance, PTL

\* No two chosen papers say the same, and a cap gives way last (rerank.py).
THEOREM CapsGiveWayOnlyThen == Spec => []CapsGiveWayLast
<1>1. IInv => CapsGiveWayLast
  BY DEF IInv
<1> QED
  BY <1>1, Invariance, PTL

\* The key of a shown paper leads back to the one interest of the draft that it
\* names (onboarding/builder.py, refine.py).
THEOREM AttributionIsCorrectable == Spec => []AttributionLeadsBack
<1>1. IInv => AttributionLeadsBack
  <2> SUFFICES ASSUME IInv, feed.pc = "shown", NEW item \in ToSet(feed.shown), item.matched # None
               PROVE  Keys(ProfileOf(RemoveInterest(draft, item.matched), Papers)) =
                         Keys(ProfileOf(draft, Papers)) \ {item.matched}
    BY DEF AttributionLeadsBack
  <2>1. item \in ToSet(feed.ranked)
    BY ShownIsRanked
  <2>2. PICK j \in ToSet(Semantic(feed.profile, "positive")) : item.matched = j.key
    BY <2>1 DEF IInv, RankedInv, IsItem
  <2>3. /\ draft \in Draft /\ IsProfile(feed.profile)
        /\ \E usable \in SUBSET Papers : feed.profile = ProfileOf(draft, usable)
    BY DEF IInv, RequestInv
  <2>4. \/ \E s \in Texts : item.matched = InterestKey(s)
        \/ \E p \in Papers : item.matched = ExamplePaperKey(p)
    BY <2>2, <2>3, ProfilesAreRankable
  <2> QED
    BY <2>3, <2>4, RemovalTakesOneInterest
<1> QED
  BY <1>1, Invariance, PTL
=============================================================================

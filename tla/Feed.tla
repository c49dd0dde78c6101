-------------------------------- MODULE Feed --------------------------------
(***************************************************************************)
(* The personalised feed (personalise/): candidate sources under one        *)
(* budget, the hard filter, features, the weighted ranking and the          *)
(* diversifying selection.  feed.build_feed is one request; each statement  *)
(* it sends reads the database as it is then, so papers may change or       *)
(* vanish between two of them.                                              *)
(*                                                                         *)
(* Scales: a cosine is in hundredths, a feature value, a score and a        *)
(* similarity between papers in thousandths, a weight in hundredths.        *)
(***************************************************************************)
EXTENDS Profile, Functions

CONSTANTS Venues,
          Id,              \* the order of paper ids, a sequence of all Papers
          Row,             \* the columns of each paper that no step changes
          InitialTopics,   \* the topic ids of each paper at the start
          Cosine(_, _),    \* of the vectors of a text or paper and of a paper
          Decay(_),        \* exp(-age / 14), in thousandths
          WindowDays,      \* DEFAULT_WINDOW_DAYS
          CandidateTotal,  \* PREVIEW_BUDGET
          MaxPerInterest, MaxPerTopic

ASSUME IdOrdersPapers == Id \in Seq(Papers) /\ ToSet(Id) = Papers /\ IsInjective(Id)
ASSUME RowsAreRows ==
    Row \in [Papers -> [age : Nat \cup {None}, fields : SUBSET Fields, venue : Venues \cup {None},
                        citedness : Nat, preprint : BOOLEAN, peer : BOOLEAN,
                        abstract : BOOLEAN, retracted : BOOLEAN, embedded : BOOLEAN]]
ASSUME EverySourceHasASlot == CandidateTotal \in Nat /\ CandidateTotal >= 5
ASSUME TopicsAreTopics == IsFiniteSet(Topics) /\ InitialTopics \in [Papers -> SUBSET Topics]
ASSUME CosinesAreNumbers == \A p \in Papers, v \in Texts \cup Papers : Cosine(v, p) \in Int
ASSUME DecayIsAFraction ==
    \A p \in Papers : Row[p].age # None => Decay(Row[p].age) \in 0..1000

VARIABLES corpus,   \* the papers there are, and the topics of each
          feed      \* the request being served

Embedded(p) == Row[p].embedded
Place(p)    == CHOOSE n \in DOMAIN Id : Id[n] = p
ClampedBelow(v) == Greatest(0, v)
Clamp(v)       == Greatest(0, Least(1000, v))
Best(values)   == CHOOSE v \in values : \A w \in values : w <= v
IdUp   == [p \in Papers |-> Place(p)]
IdDown == [p \in Papers |-> - Place(p)]

\* feed_date DESC NULLS LAST
Newness(p) == IF Row[p].age = None THEN -1000000 ELSE - Row[p].age

-----------------------------------------------------------------------------
(***************************************************************************)
(* Candidate sources (pgvector.py, account_sources.py).  Each proposes a    *)
(* sequence of <<paper, reasons>>.                                          *)
(***************************************************************************)
Reason(origin, key, strength) == [origin |-> origin, key |-> key, strength |-> strength]

InWindow(p) == Row[p].age # None /\ Row[p].age <= WindowDays

\* What a statement over the corpus may return for profile r.
Scannable(r) == {p \in DOMAIN corpus : InWindow(p) /\ (r.require_peer_reviewed => Row[p].peer)}

BestMatch(r, p) == Best({Cosine(i.vector, p) : i \in ToSet(Semantic(r, "positive"))})

AdjacencyFloor == 60
AdjacencyCeiling == 80

\* InterestScan._ensure : one statement fills both lists.
Scan(r) ==
    LET embedded == {p \in Scannable(r) : Embedded(p)}
        match == [p \in embedded |-> BestMatch(r, p)]
        band  == {p \in embedded : match[p] \in AdjacencyFloor..AdjacencyCeiling}
    IN  [top  |-> Prefix(Ordered(match, IdUp), CandidateTotal),
         band |-> Prefix(Ordered([p \in band |-> match[p]], IdUp), CandidateTotal)]

Candidates(list, reasons) ==
    LET kept == Among(list, {p \in DOMAIN reasons : reasons[p] # {}})
    IN  [n \in DOMAIN kept |-> <<kept[n], reasons[kept[n]]>>]

SemanticSource(r, scan, budget) ==
    Candidates(Prefix(scan.top, budget),
       [p \in Papers |-> {Reason("semantic_interest", i.key, Cosine(i.vector, p)) :
          i \in {j \in ToSet(Semantic(r, "positive")) : Cosine(j.vector, p) > 0}}])

FieldSource(r, budget) ==
    LET followed == ValuesOf(r, "field", "positive")
        newness  == [p \in {q \in Scannable(r) : Row[q].fields \cap followed # {}} |-> Newness(p)]
    IN  Candidates(Prefix(Ordered(newness, IdDown), budget),
           [p \in Papers |-> {Reason("field", f, 100) : f \in Row[p].fields \cap followed}])

\* opened : the papers of the reader's positive events, latest first.
RecentEvents == 12

SequentialSource(opened, budget) ==
    LET recent == ToSet(Prefix(opened, RecentEvents))
        fields == UNION {Row[p].fields : p \in recent \cap DOMAIN corpus}
        found  == {p \in DOMAIN corpus \ recent : Row[p].fields \cap fields # {}}
    IN  Candidates(Prefix(Ordered([p \in found |-> Newness(p)], IdDown), budget),
           [p \in found |-> {Reason("sequential", None,
               (Cardinality(Row[p].fields \cap fields) * 100) \div Cardinality(fields))}])

\* peers : the positive events of the other readers, pairs of reader and paper.
PrivacyFloor == 3

CollaborativeSource(opened, peers, budget) ==
    LET anchors == ToSet(opened)
        alike   == {e[1] : e \in {f \in peers : f[2] \in anchors}}
        Support(p) == Cardinality({e[1] : e \in {f \in peers : f[2] = p /\ f[1] \in alike}})
        support == [p \in {q \in DOMAIN corpus \ anchors : Support(q) >= PrivacyFloor} |-> Support(p)]
    IN  Candidates(Prefix(Ordered(support, IdUp), budget),
           [p \in DOMAIN support |-> {Reason("collaborative", None, Least(100, support[p] * 20))}])

AdjacentSource(r, scan, budget) ==
    Candidates(Prefix(scan.band, budget),
       [p \in ToSet(scan.band) |-> {Reason("exploration", None, BestMatch(r, p))}])

-----------------------------------------------------------------------------
(***************************************************************************)
(* The pool (candidates.py): sources run in order, a paper two of them      *)
(* propose keeps its place and collects the reasons of both.                *)
(***************************************************************************)
Sources(account) ==
    <<"semantic", "field">> \o (IF account # None THEN <<"sequential", "collaborative">>
                                                  ELSE << >>) \o <<"adjacent">>

Allocate(remaining, taken) ==
    LET left == Greatest(0, CandidateTotal - taken)
    IN  IF remaining <= 1 THEN left ELSE Greatest(1, left \div remaining)

Produced(source, r, account, scan, budget) ==
    CASE source = "semantic"      -> SemanticSource(r, scan, budget)
      [] source = "field"         -> FieldSource(r, budget)
      [] source = "sequential"    -> SequentialSource(account.opened, budget)
      [] source = "collaborative" -> CollaborativeSource(account.opened, account.peers, budget)
      [] source = "adjacent"      -> AdjacentSource(r, scan, budget)

CandidateIds(list) == {c[1] : c \in ToSet(list)}

\* A source proposes a paper once.
Pooled(pool, produced) ==
    [n \in DOMAIN pool |->
       <<pool[n][1], pool[n][2] \cup UNION {c[2] : c \in {e \in ToSet(produced) : e[1] = pool[n][1]}}>>]
    \o Among(produced, {c \in ToSet(produced) : c[1] \notin CandidateIds(pool)})

Origins(c)       == {reason.origin : reason \in c[2]}
IsExploration(c) == Origins(c) = {"exploration"}
Strength(c, origin) == Best({0} \cup {r.strength : r \in {x \in c[2] : x.origin = origin}})

-----------------------------------------------------------------------------
(***************************************************************************)
(* Facts (DatabaseFacts, AccountFacts): rows already loaded for this        *)
(* request are not read again; when the reader was last shown a paper is.   *)
(* Of a row, only the topics change: the cache keeps them, by paper.        *)
(***************************************************************************)
Loaded(cache, ids) ==
    [p \in DOMAIN cache \cup (ids \cap DOMAIN corpus) |->
       IF p \in DOMAIN cache THEN cache[p] ELSE corpus[p]]

\* feed._apply_hard_filters : a paper without facts passes.
BlockedTopics(r)  == r.blocked_topics \cup ValuesOf(r, "topic", "negative")
FiltersTopicsOnly(r) == BlockedTopics(r) # {}
Filters(r)        == BlockedTopics(r) # {} \/ r.require_peer_reviewed
Passes(r, p, topics) == /\ topics \cap BlockedTopics(r) = {}
                        /\ r.require_peer_reviewed => Row[p].peer

Allowed(r, pool, cache) ==
    Among(pool, {c \in ToSet(pool) : c[1] \in DOMAIN cache => Passes(r, c[1], cache[c[1]])})

-----------------------------------------------------------------------------
(***************************************************************************)
(* Features (features.py) and weights (ranking.py).                         *)
(***************************************************************************)
DefaultWeights ==
    [semantic_affinity |-> 35, affinity_long |-> 0, affinity_short |-> 0,
     interest_emphasis |-> 12, negative_affinity |-> 30, topic_affinity |-> 15,
     field_affinity |-> 5, author_affinity |-> 10, venue_affinity |-> 5,
     lexical_affinity |-> 5, freshness |-> 15, novelty |-> 3, source_agreement |-> 5,
     quality_prior |-> 5, preprint_fit |-> 4, seen_fatigue |-> 20, retracted |-> 60]

Features     == DOMAIN DefaultWeights
Penalties    == {"negative_affinity", "seen_fatigue", "retracted"}
Direction(f) == IF f \in Penalties THEN -1 ELSE 1

FreshnessWeight(appetite) ==
    IF appetite >= 50 THEN 15 + (15 * (appetite - 50) * 2) \div 100
                      ELSE 5 + (10 * appetite * 2) \div 100

\* weights_for, and the reader's learned deltas on top of it (profiles._feed).
WeightsFor(r, learned) ==
    [f \in Features |->
       LET base == IF f = "freshness" THEN FreshnessWeight(r.preferences.freshness_appetite)
                                      ELSE DefaultWeights[f]
       IN  IF f \in DOMAIN learned THEN Least(200, Greatest(0, base + learned[f])) ELSE base]

CosineFloor == 55
CosineCeiling == 92
Rescaled(cosine) == Clamp(((cosine - CosineFloor) * 1000) \div (CosineCeiling - CosineFloor))

\* features._affinities : the weight picks the interest, the first on a tie, and
\* does not make the paper any closer.
MatchedInterest(r, p) ==
    LET interests == Semantic(r, "positive")
        Pull(n)   == Cosine(interests[n].vector, p) * interests[n].weight
        winners   == {n \in DOMAIN interests :
                        \A m \in DOMAIN interests : Pull(m) <= Pull(n)}
    IN  interests[CHOOSE n \in winners : \A m \in winners : n <= m]

IsMatchable(r, p) == Embedded(p) /\ Semantic(r, "positive") # << >>

Affinity(r, p, horizon) ==
    Best({0} \cup {Rescaled(Cosine(i.vector, p)) :
                    i \in {j \in ToSet(Semantic(r, "positive")) : j.horizon = horizon}})

Hit(present, followed) == IF present \cap followed # {} THEN 1000 ELSE 0
Share(present, followed) ==
    IF followed = {} THEN 0
    ELSE (Cardinality(present \cap followed) * 1000) \div Cardinality(followed)

Extract(r, c, has, seenDaysAgo) ==
    LET p       == c[1]
        row     == Row[p]
        match   == IsMatchable(r, p)
        long    == IF match THEN Affinity(r, p, "long") ELSE 0
        short   == IF match THEN Affinity(r, p, "short") ELSE 0
        recency == r.preferences.recency_of_interest
        current == \E i \in ToSet(Semantic(r, "positive")) : i.horizon = "short"
        against == {Cosine(i.vector, p) : i \in ToSet(Semantic(r, "negative"))}
        heaviest == Best({i.weight : i \in ToSet(Semantic(r, "positive"))})
        topics  == ValuesOf(r, "topic", "positive")
        lean    == 5 * (r.preferences.preprint_appetite - 100)
    IN  [semantic_affinity |->
            IF current THEN ((100 - recency) * long + recency * short) \div 100 ELSE long,
         affinity_long     |-> long,
         affinity_short    |-> short,
         interest_emphasis |->
            IF match /\ heaviest > 0
            THEN Clamp((MatchedInterest(r, p).weight * 1000) \div heaviest) ELSE 1000,
         negative_affinity |->
            IF Embedded(p) /\ against # {} THEN Rescaled(Best(against)) ELSE 0,
         topic_affinity    |-> Share(has, topics),
         field_affinity    |-> Hit(row.fields, ValuesOf(r, "field", "positive")),
         author_affinity   |-> 0,
         venue_affinity    |-> Hit({row.venue} \ {None}, ValuesOf(r, "venue", "positive")),
         lexical_affinity  |-> Clamp(10 * Strength(c, "lexical")),
         freshness         |-> IF row.age = None THEN 0 ELSE Decay(row.age),
         novelty           |-> IF topics = {} THEN 500 ELSE 1000 - Hit(has, topics),
         source_agreement  |-> Clamp((Cardinality(Origins(c)) * 1000) \div 3),
         quality_prior     |-> ((IF row.peer THEN 1000 ELSE 0)
                                + (IF row.abstract THEN 1000 ELSE 0)
                                + Clamp(row.citedness * 100)) \div 3,
         preprint_fit      |-> Clamp(IF row.preprint THEN 500 + lean ELSE 500 - lean),
         seen_fatigue      |-> IF seenDaysAgo = None THEN 0
                               ELSE Clamp(1000 - (seenDaysAgo * 1000) \div 7),
         retracted         |-> IF row.retracted THEN 1000 ELSE 0]

\* DeterministicRanker.score : over the weight that can raise a score.
Total(part) ==
    part["semantic_affinity"] + part["affinity_long"] + part["affinity_short"]
    + part["interest_emphasis"] + part["negative_affinity"] + part["topic_affinity"]
    + part["field_affinity"] + part["author_affinity"] + part["venue_affinity"]
    + part["lexical_affinity"] + part["freshness"] + part["novelty"]
    + part["source_agreement"] + part["quality_prior"] + part["preprint_fit"]
    + part["seen_fatigue"] + part["retracted"]

Score(values, weights) ==
    LET mass  == Total([f \in Features |-> IF f \in Penalties THEN 0 ELSE weights[f]])
        total == Total([f \in Features |-> Direction(f) * weights[f] * values[f]])
    IN  Greatest(0, total \div Greatest(1, mass))

Scored(r, c, topics, seenDaysAgo, weights) ==
    LET values == Extract(r, c, topics, seenDaysAgo)
    IN  [paper |-> c[1], values |-> values, score |-> Score(values, weights),
         exploration |-> IsExploration(c), topics |-> topics,
         matched |-> IF IsMatchable(r, c[1]) THEN MatchedInterest(r, c[1]).key ELSE None]

Ranked(items) == Ordered([i \in items |-> i.score], [i \in items |-> Place(i.paper)])

-----------------------------------------------------------------------------
(***************************************************************************)
(* Diversity (rerank.py): marginal relevance under caps that give way and   *)
(* two rules that do not, near-duplicates and exploration.                  *)
(***************************************************************************)
NearDuplicate   == 950
RelevanceLambda == 75

ExplorationCap(r, limit) == (limit * r.preferences.exploration) \div 100
ExplorationFloor == 50

\* Between two ranked items: the cosine of the stored vectors, or the overlap of
\* the topics when no paper of this feed has a vector.
Similarity(items, a, b) ==
    IF \E i \in ToSet(items) : Embedded(i.paper)
    THEN IF Embedded(a.paper) /\ Embedded(b.paper)
         THEN Clamp(Cosine(a.paper, b.paper) * 10) ELSE 0
    ELSE IF a.topics = {} \/ b.topics = {} THEN 0
         ELSE (Cardinality(a.topics \cap b.topics) * 1000)
                 \div Cardinality(a.topics \cup b.topics)

Explored(chosen) == Cardinality({n \in DOMAIN chosen : chosen[n].exploration})

MayExplore(f, item, chosen) ==
    item.exploration => /\ Explored(chosen) < ExplorationCap(f.profile, f.limit)
                        /\ item.score * 100 >= f.ranked[1].score * ExplorationFloor

WithinCaps(item, chosen) ==
    /\ item.matched # None =>
          Cardinality({n \in DOMAIN chosen : chosen[n].matched = item.matched}) < MaxPerInterest
    /\ \A t \in item.topics :
          Cardinality({n \in DOMAIN chosen : t \in chosen[n].topics}) < MaxPerTopic

Remaining(f) == {i \in ToSet(f.ranked) : i \notin ToSet(f.chosen)}

EligibleRelaxingAll(f, strict) ==
    {i \in Remaining(f) :
        /\ f.chosen # << >> => f.redundancy[i.paper] < NearDuplicate
        /\ strict => MayExplore(f, i, f.chosen) /\ WithinCaps(i, f.chosen)}

Eligible(f, strict) ==
    {i \in Remaining(f) :
        /\ MayExplore(f, i, f.chosen)
        /\ f.chosen # << >> => f.redundancy[i.paper] < NearDuplicate
        /\ strict => WithinCaps(i, f.chosen)}

Value(f, item) ==
    RelevanceLambda * item.score - (100 - RelevanceLambda) * f.redundancy[item.paper]

NextPick(f, from) ==
    CHOOSE i \in from : \A j \in from \ {i} :
        \/ Value(f, i) > Value(f, j)
        \/ Value(f, i) = Value(f, j) /\ Place(i.paper) < Place(j.paper)

RedundanciesOfTheLast(f, pick) ==
    [p \in DOMAIN f.redundancy |->
       LET item == CHOOSE i \in ToSet(f.ranked) : i.paper = p
       IN  Similarity(f.ranked, item, pick)]

\* The running maximum of the similarity to what is chosen already.
Redundancies(f, pick) ==
    [p \in DOMAIN f.redundancy |->
       LET item == CHOOSE i \in ToSet(f.ranked) : i.paper = p
       IN  Greatest(f.redundancy[p], Similarity(f.ranked, item, pick))]

-----------------------------------------------------------------------------
(***************************************************************************)
(* One request.                                                             *)
(***************************************************************************)
NoAccount == None
NoScan    == [top |-> << >>, band |-> << >>]
NoFeed    == [pc |-> "idle", profile |-> None, limit |-> 0, account |-> None,
              sources |-> << >>, scan |-> NoScan, pool |-> << >>, cache |-> << >>,
              ranked |-> << >>, redundancy |-> << >>, chosen |-> << >>,
              shown |-> << >>, touched |-> {}]

FeedInit ==
    /\ corpus = InitialTopics
    /\ feed = NoFeed

\* account : None for an anonymous preview, else [opened, peers, seen, learned].
Serve(profile, limit, account) ==
    feed' = [NoFeed EXCEPT !.pc = "gather", !.profile = profile, !.limit = limit,
                           !.account = account, !.sources = Sources(account)]

Gather ==
    /\ feed.pc = "gather" /\ feed.sources # << >>
    /\ LET source == Head(feed.sources)
           budget == Allocate(Len(feed.sources), Len(feed.pool))
           scan   == IF source = "semantic" /\ Semantic(feed.profile, "positive") # << >>
                     THEN Scan(feed.profile) ELSE feed.scan
           produced == IF budget <= 0 THEN << >>
                       ELSE Produced(source, feed.profile, feed.account, scan, budget)
       IN  feed' = [feed EXCEPT !.sources = Tail(@), !.scan = scan,
                                !.pool = Pooled(@, produced)]
    /\ UNCHANGED corpus

Filter ==
    /\ feed.pc = "gather" /\ feed.sources = << >>
    /\ LET cache == IF Filters(feed.profile)
                    THEN Loaded(feed.cache, CandidateIds(feed.pool)) ELSE feed.cache
       IN  feed' = [feed EXCEPT !.pc = "rank", !.cache = cache,
                                !.pool = Allowed(feed.profile, @, cache)]
    /\ UNCHANGED corpus

SeenDaysAgo(account, p) ==
    IF account = None THEN None
    ELSE IF p \in DOMAIN account.seen THEN account.seen[p] ELSE None

Rank ==
    /\ feed.pc = "rank"
    /\ LET cache   == Loaded(feed.cache, CandidateIds(feed.pool))
           known   == {c \in ToSet(feed.pool) : c[1] \in DOMAIN cache}
           learned == IF feed.account = None THEN << >> ELSE feed.account.learned
           weights == WeightsFor(feed.profile, learned)
           ranked  == Ranked({Scored(feed.profile, c, cache[c[1]],
                                     SeenDaysAgo(feed.account, c[1]), weights) : c \in known})
       IN  feed' = [feed EXCEPT !.pc = "pick", !.cache = cache, !.ranked = ranked,
                                !.redundancy = [p \in {c[1] : c \in known} |-> 0]]
    /\ UNCHANGED corpus

Candidate(f) == IF Eligible(f, TRUE) # {} THEN Eligible(f, TRUE) ELSE Eligible(f, FALSE)

Pick ==
    /\ feed.pc = "pick" /\ Len(feed.chosen) < feed.limit /\ Candidate(feed) # {}
    /\ LET pick == NextPick(feed, Candidate(feed))
       IN  feed' = [feed EXCEPT !.chosen = Append(@, pick),
                                !.redundancy = Redundancies(feed, pick)]
    /\ UNCHANGED corpus

\* profiles._items : a paper that vanished since is dropped.
Project ==
    /\ feed.pc = "pick"
    /\ Len(feed.chosen) >= feed.limit \/ Candidate(feed) = {}
    /\ LET present == {i \in ToSet(feed.chosen) : i.paper \in DOMAIN corpus}
       IN  feed' = [feed EXCEPT !.pc = "shown", !.shown = Among(feed.chosen, present)]
    /\ UNCHANGED corpus

FeedNext == Gather \/ Filter \/ Rank \/ Pick \/ Project

-----------------------------------------------------------------------------
(***************************************************************************)
(* The rest of the system, meanwhile.                                       *)
(***************************************************************************)
Touched(p) == [feed EXCEPT !.touched = @ \cup {p}]

\* A merge takes the paper away (ingest/canonicalise.merge_papers).
RemovePaper(p) ==
    /\ p \in DOMAIN corpus
    /\ corpus' = Restrict(corpus, DOMAIN corpus \ {p})
    /\ feed' = Touched(p)

\* A harvest adds a topic to it (ingest/merge.merge_topics).
AddTopic(p, t) ==
    /\ p \in DOMAIN corpus /\ t \notin corpus[p]
    /\ corpus' = [corpus EXCEPT ![p] = @ \cup {t}]
    /\ feed' = Touched(p)
=============================================================================

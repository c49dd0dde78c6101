------------------------------- MODULE Search -------------------------------
(***************************************************************************)
(* Requests of the public API that read the corpus: search                  *)
(* (api/routers/search.py over retrieval/), browsing (routers/papers.py),   *)
(* and what the preview and the account feed do to the resources they share *)
(* with it: the gate (api/concurrency.py), the connections of the engine    *)
(* (db/session.py) and the encoder built on first use (api/dependencies.py).*)
(*                                                                         *)
(* A request takes a connection with its first statement and gives it back  *)
(* at its end.  Each statement reads the corpus as it is then; papers are   *)
(* retracted, reinstated, deleted and created between two of them.          *)
(***************************************************************************)
EXTENDS Integers, Sequences, FiniteSets, SequencesExt, Lists

CONSTANTS Papers,        \* ids, in their order
          Handlers,      \* threads that serve requests
          Asks,          \* the kinds of requests each of them is sent
          Queries,       \* what the tokeniser and the vectors make of a query
          NewestFirst,   \* the order of browsing, a sequence of all Papers
          Offsets,       \* of the pages asked for
          Limit,         \* papers on a page
          Methods,       \* values of retrieval_default_method
          PoolMultiplier, MinPool,
          RrfK,          \* DEFAULT_RRF_K
          Capacity,      \* search_max_concurrency
          PoolSize,      \* pool_size + max_overflow of the engine
          MaxChanges,    \* bound on the changes of papers
          None

Kinds    == {"search", "preview", "feed", "browse"}
Filtered == {"search", "browse"}

ASSUME LimitsArePositive ==
    {Limit, Capacity, PoolSize, RrfK, PoolMultiplier} \subseteq Nat \ {0} /\ MinPool \in Nat
ASSUME HandlersAreAsked ==
    Asks \in [Handlers -> SUBSET Kinds] /\ None \notin Handlers \cup Nat
ASSUME MethodsAreKnown == Methods \subseteq {"lexical", "semantic", "hybrid"}
ASSUME PapersAreOrdered ==
    Papers \subseteq Nat /\ NewestFirst \in Seq(Papers) /\ ToSet(NewestFirst) = Papers
\* `any': papers with some term, best first; `all': those with every term;
\* `relaxable': there is a conjunction and no negation; `near': papers with a
\* vector, nearest first; `keep': those that pass the reader's filters.
ASSUME QueriesAreRankings ==
    /\ Queries \subseteq [any : Seq(Papers), all : SUBSET Papers, relaxable : BOOLEAN,
                          near : Seq(Papers), keep : SUBSET Papers]
    /\ \A q \in Queries : IsInjective(q.any) /\ IsInjective(q.near) /\ q.all \subseteq ToSet(q.any)

VARIABLES method,    \* retrieval_default_method, of the process
          paper,     \* "listed", "retracted" or "gone"
          gate,      \* permits of search_gate
          pool,      \* connections left
          service,   \* whether the retrieval service has been built
          lock,      \* who holds _service_lock
          req,       \* the request each handler serves
          changes

vars == <<method, paper, gate, pool, service, lock, req, changes>>

Resting == [pc |-> "idle", kind |-> None, query |-> None, offset |-> 0,
            conn |-> FALSE, permit |-> FALSE,
            lexical |-> << >>, semantic |-> << >>,    \* hits of the components
            page |-> << >>, more |-> FALSE,           \* what is answered
            steady |-> {}, lost |-> {}]               \* history: papers listed all along, deleted

Listed  == {p \in Papers : paper[p] = "listed"}
Present == {p \in Papers : paper[p] # "gone"}

\* filters.build_conditions : retracted papers are hidden whatever is asked for.
Passing(q) == Listed \cap q.keep

Statements == {"strict", "relaxed", "lexical hits", "scan", "semantic hits", "fuse", "project",
               "build", "recommend", "rows", "total"}
Locations  == Statements \cup {"idle", "service", "lock", "load", "gate", "encode", "draft", "answered"}

Hit == [paper : Papers, rank : 1 .. Cardinality(Papers)]

TypeOK ==
    /\ method \in Methods
    /\ paper \in [Papers -> {"listed", "retracted", "gone"}]
    /\ gate \in 0 .. Capacity /\ pool \in 0 .. PoolSize
    /\ service \in BOOLEAN /\ lock \in Handlers \cup {None}
    /\ \A h \in Handlers :
         /\ req[h].pc \in Locations /\ req[h].kind \in Kinds \cup {None}
         /\ req[h].lexical \in Seq(Hit) /\ req[h].semantic \in Seq(Hit)
         /\ req[h].page \in Seq(Papers)
    /\ changes \in 0 .. MaxChanges

Init ==
    /\ method \in Methods
    /\ paper = [p \in Papers |-> "listed"]
    /\ gate = Capacity /\ pool = PoolSize
    /\ service = FALSE /\ lock = None
    /\ req = [h \in Handlers |-> Resting]
    /\ changes = 0

-----------------------------------------------------------------------------
(***************************************************************************)
(* Rankings.                                                                *)
(***************************************************************************)
PoolDepth == Greatest(Limit * PoolMultiplier, MinPool)
Depth     == IF method = "hybrid" THEN PoolDepth ELSE Limit

\* Mutant: the filter is applied to the page, not before it is cut.
TopFilteredLast(order, set, n) == Among(Prefix(order, n), set)

\* ORDER BY ... LIMIT n over the rows that pass the filter.
Top(order, set, n) == Prefix(Among(order, set), n)

Ranked(rows) == [i \in DOMAIN rows |-> [paper |-> rows[i], rank |-> i]]
\* A row deleted since keeps its rank from the others.
Hydrated(hits) == Picked(hits, {i \in DOMAIN hits : hits[i].paper \in Present})
PapersOf(hits) == [i \in DOMAIN hits |-> hits[i].paper]

RankIn(hits, p) == LET at == {i \in DOMAIN hits : hits[i].paper = p}
                   IN  IF at = {} THEN None ELSE hits[CHOOSE i \in at : TRUE].rank

Fraction(n, d) == [num |-> n, den |-> d]
Plus(x, y)     == Fraction(x.num * y.den + y.num * x.den, x.den * y.den)
Contribution(hits, p) ==
    IF RankIn(hits, p) = None THEN Fraction(0, 1) ELSE Fraction(1, RrfK + RankIn(hits, p))

\* Mutant: a contribution replaces what another method gave.
ScoreOfTheLast(r, p) ==
    IF RankIn(r.semantic, p) = None THEN Contribution(r.lexical, p) ELSE Contribution(r.semantic, p)

Score(r, p) == Plus(Contribution(r.lexical, p), Contribution(r.semantic, p))

\* A higher score, and the id where scores are equal.
Better(r, p, q) ==
    LET s == Score(r, p) t == Score(r, q)
    IN  \/ s.num * t.den > t.num * s.den
        \/ s.num * t.den = t.num * s.den /\ p < q

Fused(r) ==
    LET found == ToSet(PapersOf(r.lexical)) \cup ToSet(PapersOf(r.semantic))
    IN  Prefix(Sorted(found, {x \in found \X found : Better(r, x[1], x[2])}), Limit)

-----------------------------------------------------------------------------
(***************************************************************************)
(* A request comes, takes what it needs and ends.                           *)
(***************************************************************************)
At(h, pc) == req[h].pc = pc
Goto(h, pc) == req' = [req EXCEPT ![h].pc = pc]
Resources == <<method, gate, pool, service, lock>>

\* search, profiles.preview and refine, account.feed, list_papers : the
\* dependencies of browsing do not include the service.
Ask(h) ==
    /\ At(h, "idle")
    /\ \E k \in Asks[h], q \in Queries, o \in Offsets :
         /\ (k \notin Filtered => q = CHOOSE x \in Queries : TRUE)
         /\ (k # "browse" => o = 0)
         /\ req' = [req EXCEPT ![h] =
              [Resting EXCEPT !.pc = IF k = "browse" THEN "rows" ELSE "service",
                              !.kind = k, !.offset = o,
                              !.query = IF k \in Filtered THEN q ELSE None,
                              !.steady = IF k \in Filtered THEN Passing(q) ELSE {}]]
    /\ UNCHANGED <<paper, changes, Resources>>

AfterService(h) == CASE req[h].kind = "search"  -> "gate"
                     [] req[h].kind = "preview" -> "draft"
                     [] OTHER                   -> "build"

\* get_retrieval_service : looked up without the lock, and again with it.
FindService(h) ==
    /\ At(h, "service")
    /\ Goto(h, IF service THEN AfterService(h) ELSE "lock")
    /\ UNCHANGED <<paper, changes, Resources>>

EnterLock(h) ==
    /\ At(h, "lock") /\ lock = None
    /\ lock' = h
    /\ Goto(h, "load")
    /\ UNCHANGED <<method, paper, changes, gate, pool, service>>

Load(h) ==
    /\ At(h, "load")
    /\ service' = TRUE /\ lock' = None
    /\ Goto(h, AfterService(h))
    /\ UNCHANGED <<method, paper, changes, gate, pool>>

\* Engine.connect, by the first statement of the session.
Connect(h) ==
    /\ req[h].pc \in Statements /\ ~req[h].conn
    /\ pool > 0
    /\ pool' = pool - 1
    /\ req' = [req EXCEPT ![h].conn = TRUE]
    /\ UNCHANGED <<method, paper, changes, gate, service, lock>>

\* ConcurrencyGate.acquire
Acquire(h) ==
    /\ At(h, "gate") /\ gate > 0
    /\ gate' = gate - 1
    /\ req' = [req EXCEPT ![h].permit = TRUE,
                          ![h].pc = IF req[h].kind = "preview" THEN "recommend"
                                    ELSE IF method = "semantic" THEN "encode" ELSE "strict"]
    /\ UNCHANGED <<method, paper, changes, pool, service, lock>>

\* Mutant: the permit comes back with a normal return only.
ReturnedByValue(h) ==
    /\ gate' = gate
    /\ pool' = IF req[h].conn THEN pool + 1 ELSE pool
    /\ lock' = IF lock = h THEN None ELSE lock
    /\ req' = [req EXCEPT ![h] = Resting]

\* Mutant: an encoder that cannot be loaded leaves the lock taken.
ReturnedWithoutUnlock(h) ==
    /\ gate' = IF req[h].permit THEN gate + 1 ELSE gate
    /\ pool' = IF req[h].conn THEN pool + 1 ELSE pool
    /\ lock' = lock
    /\ req' = [req EXCEPT ![h] = Resting]

\* An exception leaves the blocks it is raised in: the permit and the lock are
\* released, the session is rolled back and closed.
Unwound(h) ==
    /\ gate' = IF req[h].permit THEN gate + 1 ELSE gate
    /\ pool' = IF req[h].conn THEN pool + 1 ELSE pool
    /\ lock' = IF lock = h THEN None ELSE lock
    /\ req' = [req EXCEPT ![h] = Resting]

\* CapacityExceededError, answered with 503.
GateTimeout(h) ==
    /\ At(h, "gate") /\ gate = 0
    /\ Unwound(h)
    /\ UNCHANGED <<method, paper, changes, service>>

\* No connection within pool_timeout, answered with 500.
PoolTimeout(h) ==
    /\ req[h].pc \in Statements /\ ~req[h].conn /\ pool = 0
    /\ Unwound(h)
    /\ UNCHANGED <<method, paper, changes, service>>

\* Any call may raise: a statement, the encoder, the builder.
Raise(h) ==
    /\ req[h].pc \notin {"idle", "lock", "gate", "answered"}
    /\ Unwound(h)
    /\ UNCHANGED <<method, paper, changes, service>>

\* session_scope : the commit of a request and its end.
Close(h) ==
    /\ At(h, "answered")
    /\ Unwound(h)
    /\ UNCHANGED <<method, paper, changes, service>>

-----------------------------------------------------------------------------
(***************************************************************************)
(* RetrievalService.search_by_interest, one statement at a time.            *)
(***************************************************************************)
Executes(h, pc) == At(h, pc) /\ req[h].conn

\* The last statement behind the gate: the permit comes back.
Leave(h, page) ==
    /\ gate' = gate + 1
    /\ req' = [req EXCEPT ![h].permit = FALSE, ![h].page = page, ![h].pc = "project"]
    /\ UNCHANGED <<method, paper, changes, pool, service, lock>>

\* All terms, and if no paper has them, any.
StrictScan(h) ==
    LET q == req[h].query
        rows == Top(q.any, q.all \cap Passing(q), Depth) IN
    /\ Executes(h, "strict")
    /\ req' = [req EXCEPT ![h].lexical = Ranked(rows),
                          ![h].pc = IF rows = << >> /\ q.relaxable THEN "relaxed" ELSE "lexical hits"]
    /\ UNCHANGED <<paper, changes, Resources>>

RelaxedScan(h) ==
    /\ Executes(h, "relaxed")
    /\ req' = [req EXCEPT ![h].lexical = Ranked(Top(req[h].query.any, Passing(req[h].query), Depth)),
                          ![h].pc = "lexical hits"]
    /\ UNCHANGED <<paper, changes, Resources>>

\* common.hits_from_ranked : the columns of the ranked papers, one query.
LexicalHits(h) ==
    /\ Executes(h, "lexical hits")
    /\ IF method = "hybrid"
       THEN /\ req' = [req EXCEPT ![h].lexical = Hydrated(@), ![h].pc = "encode"]
            /\ UNCHANGED <<paper, changes, Resources>>
       ELSE Leave(h, PapersOf(Hydrated(req[h].lexical)))

Encode(h) ==
    /\ At(h, "encode")
    /\ Goto(h, "scan")
    /\ UNCHANGED <<paper, changes, Resources>>

SemanticScan(h) ==
    /\ Executes(h, "scan")
    /\ req' = [req EXCEPT ![h].semantic = Ranked(Top(req[h].query.near, Passing(req[h].query), Depth)),
                          ![h].pc = "semantic hits"]
    /\ UNCHANGED <<paper, changes, Resources>>

SemanticHits(h) ==
    /\ Executes(h, "semantic hits")
    /\ IF method = "hybrid"
       THEN /\ req' = [req EXCEPT ![h].semantic = Hydrated(@), ![h].pc = "fuse"]
            /\ UNCHANGED <<paper, changes, Resources>>
       ELSE Leave(h, PapersOf(Hydrated(req[h].semantic)))

Fuse(h) ==
    /\ Executes(h, "fuse")
    /\ \E fused \in {Fused(req[h])} : Leave(h, Among(fused, Present))

-----------------------------------------------------------------------------
(***************************************************************************)
(* What the other handlers do.  Draft and Build are ProfileBuilder.build,   *)
(* without and with example papers to look up; it encodes the interests, and *)
(* no permit is asked for.  Preview is the module about what they compute.  *)
(***************************************************************************)
Draft(h) ==
    /\ At(h, "draft")
    /\ \E pc \in {"build", "gate"} : Goto(h, pc)
    /\ UNCHANGED <<paper, changes, Resources>>

Build(h) ==
    /\ Executes(h, "build")
    /\ Goto(h, IF req[h].kind = "preview" THEN "gate" ELSE "recommend")
    /\ UNCHANGED <<paper, changes, Resources>>

Recommend(h) ==
    /\ Executes(h, "recommend")
    /\ IF req[h].permit THEN Leave(h, << >>)
       ELSE Goto(h, "project") /\ UNCHANGED <<paper, changes, Resources>>

\* repository.summaries_for_ids, and the ranks counted anew.
Project(h) ==
    /\ Executes(h, "project")
    /\ req' = [req EXCEPT ![h].page = Among(@, Present), ![h].pc = "answered"]
    /\ UNCHANGED <<paper, changes, Resources>>

\* repository.list_papers : the page, then how many papers match.
Rows(h) ==
    LET all == Among(NewestFirst, Passing(req[h].query))
        from == req[h].offset IN
    /\ Executes(h, "rows")
    /\ req' = [req EXCEPT ![h].page = SubSeq(all, from + 1, Least(from + Limit, Len(all))),
                          ![h].pc = "total"]
    /\ UNCHANGED <<paper, changes, Resources>>

Total(h) ==
    /\ Executes(h, "total")
    /\ req' = [req EXCEPT ![h].more = req[h].offset + Len(req[h].page) <
                                          Cardinality(Passing(req[h].query)),
                          ![h].pc = "answered"]
    /\ UNCHANGED <<paper, changes, Resources>>

-----------------------------------------------------------------------------
\* Retraction notices, merges, prunes and the harvest.
Change(p) ==
    /\ changes < MaxChanges
    /\ \E to \in {"listed", "retracted", "gone"} \ {paper[p]} :
         /\ paper' = [paper EXCEPT ![p] = to]
         /\ req' = [h \in Handlers |->
              [req[h] EXCEPT !.steady = IF At(h, "answered") THEN @ ELSE @ \ {p},
                             !.lost = IF to = "gone" /\ req[h].kind \in Filtered /\ ~At(h, "answered")
                                      THEN @ \cup {p} ELSE @]]
    /\ changes' = changes + 1
    /\ UNCHANGED Resources

Step(h) ==
    \/ FindService(h) \/ EnterLock(h) \/ Load(h)
    \/ Connect(h) \/ PoolTimeout(h) \/ Acquire(h) \/ GateTimeout(h)
    \/ StrictScan(h) \/ RelaxedScan(h) \/ LexicalHits(h) \/ Encode(h)
    \/ SemanticScan(h) \/ SemanticHits(h) \/ Fuse(h)
    \/ Draft(h) \/ Build(h) \/ Recommend(h) \/ Project(h)
    \/ Rows(h) \/ Total(h) \/ Close(h)

Next ==
    \/ \E h \in Handlers : Ask(h) \/ Step(h) \/ Raise(h)
    \/ \E p \in Papers : Change(p)

Spec == Init /\ [][Next]_vars

\* Threads go on, a wait ends when its time is over, and a lock that is free
\* again and again is got.
FairSpec ==
    Spec /\ \A h \in Handlers : WF_vars(Step(h)) /\ SF_vars(EnterLock(h))

-----------------------------------------------------------------------------
(***************************************************************************)
(* Properties.                                                              *)
(***************************************************************************)
\* Every permit and connection that is missing is held by a request that will
\* return it, and a request at rest holds nothing: errors and timeouts while
\* one resource is held and the other awaited lose neither ("a leaked permit
\* would shrink capacity permanently and silently", ConcurrencyGate.acquire).
NothingIsLeaked ==
    /\ gate = Capacity - Cardinality({h \in Handlers : req[h].permit})
    /\ pool = PoolSize - Cardinality({h \in Handlers : req[h].conn})
    /\ lock # None => req[lock].pc = "load"

\* p is not in the ranking, or after q.
Behind(hits, p, q) ==
    \/ RankIn(hits, p) = None
    \/ RankIn(hits, q) # None /\ RankIn(hits, q) < RankIn(hits, p)

\* Of two papers on a page, the first is not behind the second in every ranking
\* it occurs in (hybrid.fuse), whatever was deleted between the component
\* queries, the fusion and the projection.
UnanimousOrder ==
    \A h \in Handlers : At(h, "answered") /\ req[h].kind = "search" =>
        \A i, j \in DOMAIN req[h].page : i < j =>
            \E hits \in {req[h].lexical, req[h].semantic} :
                ~ Behind(hits, req[h].page[i], req[h].page[j])

\* The papers a search cannot miss: those that match under the method and were
\* listed from its beginning to its end.
Certain(r) ==
    LET strict == r.query.all \cap r.steady
        near == ToSet(r.query.near) \cap r.steady
    IN  CASE method = "lexical"  -> strict
          [] method = "semantic" -> near
          [] method = "hybrid"   -> strict \cup near

\* A search answers a full page as long as papers match: only a paper deleted
\* while it ran leaves a gap, a retraction or a filter never does
\* (retrieval/filters.py: filtering happens before ranking).
PageIsFull ==
    \A h \in Handlers : At(h, "answered") /\ req[h].kind = "search" =>
        Len(req[h].page) + Cardinality(req[h].lost) >= Least(Limit, Cardinality(Certain(req[h])))

\* Every request gets an answer and returns to rest: what a preview and a
\* search take in opposite orders, the connection and the permit, is given up
\* when a wait times out.
EveryRequestIsAnswered == \A h \in Handlers : []<>(At(h, "idle"))

-----------------------------------------------------------------------------
(***************************************************************************)
(* Claims of the code that fail; no run lists them (README, Observations).  *)
(***************************************************************************)
\* "The model path runs behind a counting semaphore" (api/concurrency.py): the
\* interests of a profile are encoded by its builder, before the gate.
EncodesAreGated ==
    Cardinality({h \in Handlers : req[h].pc \in {"encode", "draft", "build"}}) <= Capacity

\* "Paging never repeats or skips a row" (routers/papers.py): a first page that
\* announces no more shows every paper that was listed throughout.
NoMoreMeansNone ==
    \A h \in Handlers :
        At(h, "answered") /\ req[h].kind = "browse" /\ req[h].offset = 0 /\ ~req[h].more
            => req[h].steady \subseteq ToSet(req[h].page)
=============================================================================

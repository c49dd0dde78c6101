------------------------------- MODULE Preview -------------------------------
(***************************************************************************)
(* The profile endpoints (api/routers/profiles.py) and the account feed      *)
(* (api/routers/account.feed): a draft comes in with every request, is       *)
(* corrected, built into a profile and served a feed, and goes back to the  *)
(* client with it.  While a feed is computed papers change and vanish.      *)
(***************************************************************************)
EXTENDS Onboarding, Feed

CONSTANTS Drafts,       \* drafts a client fills in
          Accounts,     \* histories of signed-in readers
          Limits,       \* feed sizes asked for
          MaxInputs     \* bound on refinements and changes of papers together

ASSUME DraftsAreDrafts == Drafts \subseteq Draft /\ Limits \subseteq Nat /\ MaxInputs \in Nat
ASSUME AccountsAreHistories ==
    \A a \in Accounts : /\ a.opened \in Seq(Papers) /\ IsFiniteSet(a.peers)
                        /\ \A p \in DOMAIN a.seen : a.seen[p] \in Nat
                        /\ \A f \in DOMAIN a.learned : a.learned[f] \in Int

VARIABLES draft,      \* the client's draft, None before the first
          answer,     \* "none", or how the last build ended
          submitted,  \* history: the draft the last request handed to the builder
          inputs      \* refinements and changes of papers so far

vars == <<corpus, feed, draft, answer, submitted, inputs>>

Init ==
    /\ FeedInit
    /\ draft = None /\ answer = "none" /\ submitted = None
    /\ inputs = 0

Usable == {p \in DOMAIN corpus : Embedded(p)}

\* profiles._respond, account.feed : refused drafts are answered with 422 and
\* the client keeps the draft it had.
Respond(d, limit, account) ==
    LET built == Build(d, Usable)
    IN  /\ submitted' = d
        /\ answer' = built.kind
        /\ IF built.kind = "built"
           THEN draft' = built.draft /\ Serve(built.profile, limit, account)
           ELSE draft' = draft /\ feed' = NoFeed
        /\ UNCHANGED corpus

RequestPreview(d, limit) ==
    /\ feed.pc = "idle" /\ draft = None
    /\ Respond(d, limit, None)
    /\ UNCHANGED inputs

RequestFeed(d, limit, account) ==
    /\ feed.pc = "idle" /\ draft = None
    /\ Respond(d, limit, account)
    /\ UNCHANGED inputs

\* What the reader can say about the feed in front of them.
Reactions ==
    {[action |-> a, paper |-> item.paper, key |-> item.matched, topic |-> None] :
        a \in PaperActions, item \in ToSet(feed.shown)}
    \cup
    {[action |-> a, paper |-> None, key |-> k, topic |-> None] :
        a \in InterestActions, k \in Keys(feed.profile)}
    \cup
    {[action |-> "block_topic", paper |-> None, key |-> None, topic |-> t] :
        t \in UNION {item.topics : item \in ToSet(feed.shown)}}

RequestRefine(r) ==
    /\ feed.pc = "shown" /\ inputs < MaxInputs
    /\ Respond(ApplyAll(draft, <<r>>), feed.limit, None)
    /\ inputs' = inputs + 1

Serving == FeedNext /\ UNCHANGED <<draft, answer, submitted, inputs>>

\* Selection reads nothing from the database, so that a change during it is one
\* just before the projection.
Changes ==
    /\ feed.pc \in {"gather", "rank", "pick"} /\ feed.chosen = << >>
    /\ inputs < MaxInputs
    /\ \E p \in DOMAIN corpus : RemovePaper(p) \/ \E t \in Topics : AddTopic(p, t)
    /\ inputs' = inputs + 1
    /\ UNCHANGED <<draft, answer, submitted>>

Finished ==
    /\ feed.pc = "shown" \/ answer \in {"refused", "failed"}
    /\ feed.pc = "shown" => inputs = MaxInputs
    /\ UNCHANGED vars

Next ==
    \/ \E d \in Drafts, l \in Limits : RequestPreview(d, l)
    \/ \E d \in Drafts, l \in Limits, a \in Accounts : RequestFeed(d, l, a)
    \/ feed.pc = "shown" /\ \E r \in Reactions : RequestRefine(r)
    \/ Serving
    \/ Changes
    \/ Finished

Spec == Init /\ [][Next]_vars

-----------------------------------------------------------------------------
(***************************************************************************)
(* What is true of it.                                                      *)
(***************************************************************************)
\* Every feature of a ranked paper, and its score, is in [0, 1]
\* (features.FeatureVector, ranking.DeterministicRanker), the pool stays within
\* its budget and the feed within its limit, one entry for each paper.
TypeOK ==
    /\ DOMAIN corpus \subseteq Papers /\ \A p \in DOMAIN corpus : corpus[p] \subseteq Topics
    /\ answer \in {"none", "refused", "failed", "built"}
    /\ Len(feed.pool) <= CandidateTotal
    /\ Cardinality(CandidateIds(feed.pool)) = Len(feed.pool)
    /\ \A item \in ToSet(feed.ranked) :
          item.score \in 0..1000 /\ item.values \in [Features -> 0..1000]
    /\ Len(feed.chosen) <= feed.limit
    /\ IsInjective([n \in DOMAIN feed.chosen |-> feed.chosen[n].paper])

\* A paper that carries a topic the reader blocked, or that is not peer reviewed
\* when the reader asked for peer-reviewed work only, is not shown, whichever
\* source proposed it and whatever it scored.  A paper that changed while the
\* feed was computed may be shown as it was before.
BlockedIsNeverShown ==
    feed.pc = "shown" =>
        \A item \in ToSet(feed.shown) : item.paper \notin feed.touched =>
            /\ corpus[item.paper] \cap ToSet(draft.blocked) = {}
            /\ draft.discovery.publication = "peer_reviewed_only" => Row[item.paper].peer

\* Papers that only exploration proposed take no more than their share of the
\* feed and reach half of the best score, also when the caps have given way.
ExplorationIsACeiling ==
    feed.chosen # << >> =>
    LET explored == {n \in DOMAIN feed.chosen : feed.chosen[n].exploration}
    IN  /\ Cardinality(explored) * 100 <= feed.limit * ExplorationShare[draft.discovery.exploration]
        /\ \A n \in explored, item \in ToSet(feed.ranked) :
              feed.chosen[n].score * 2 >= item.score

\* Two papers that say the same thing are not both chosen.  A cap gives way only
\* when no paper within the caps could take the slot, and the feed ends short
\* only when whatever is left repeats a chosen paper or is exploration.
Repeats(item, chosen) ==
    \E n \in DOMAIN chosen : Similarity(feed.ranked, item, chosen[n]) >= NearDuplicate
Unfit(item, chosen) == Repeats(item, chosen) \/ ~ MayExplore(feed, item, chosen)
Before(n) == SubSeq(feed.chosen, 1, n - 1)

CapsGiveWayLast ==
    /\ \A n \in DOMAIN feed.chosen :
         LET item == feed.chosen[n]
             rest == {i \in ToSet(feed.ranked) : i \notin ToSet(Before(n))}
         IN  /\ ~ Repeats(item, Before(n))
             /\ ~ WithinCaps(item, Before(n)) =>
                   \A i \in rest : WithinCaps(i, Before(n)) => Unfit(i, Before(n))
    /\ feed.pc = "shown" /\ Len(feed.chosen) < feed.limit =>
         \A i \in Remaining(feed) : Unfit(i, feed.chosen)

\* The interest a feed item names is one the returned draft can be corrected at:
\* removing it takes that interest, and no other, out of the profile.
AttributionLeadsBack ==
    feed.pc = "shown" =>
        \A item \in ToSet(feed.shown) : item.matched # None =>
            LET corrected == RemoveInterest(draft, item.matched)
            IN  Keys(ProfileOf(corrected, Papers)) =
                    Keys(ProfileOf(draft, Papers)) \ {item.matched}

-----------------------------------------------------------------------------
(***************************************************************************)
(* What the code says of itself and does not keep.                          *)
(***************************************************************************)
\* refine.py:195 : a correction leaves no draft that "says both things at once",
\* one paper as an example to follow and as one to avoid.
CorrectionsDoNotContradict ==
    submitted # None => Papered(submitted.examples) \cap Papered(submitted.negativePapers) = {}

\* schemas_profiles.py:168 : the key of an interest in the response is a "stable
\* identity; send it back to refine this interest".
EveryKeyCanBeSentBack ==
    feed.profile # None =>
        \A k \in Keys(feed.profile) :
            \E a \in InterestActions :
                ApplyRefinement(draft, [action |-> a, paper |-> None, key |-> k,
                                        topic |-> None]) # draft

\* candidates.py:150 : exploration "may spend up to its share" of the pool.
ExplorationSpendsItsShare ==
    feed.pool # << >> => Cardinality({c \in ToSet(feed.pool) : IsExploration(c)}) * 100
        <= CandidateTotal * ExplorationShare[draft.discovery.exploration]
=============================================================================

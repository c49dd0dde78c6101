------------------------------ MODULE Accounts ------------------------------
(***************************************************************************)
(* Reader-owned state (api/routers/account.py): the profile, the feeds that *)
(* were issued, the interactions a client reports about them, the papers    *)
(* saved and the ranker weights learned.                                    *)
(*                                                                         *)
(* A request is one transaction (dependencies.get_session): its writes are  *)
(* its own until the commit, and the rows it has written are locked until   *)
(* then.  A batch of interactions takes one step per statement that can     *)
(* wait for another transaction.  A client may send a batch again whenever  *)
(* it likes, in another order or in two requests at once, and the process   *)
(* may stop at any time.                                                    *)
(***************************************************************************)
EXTENDS Integers, Sequences, FiniteSets

CONSTANTS Users, Papers, Features,
          Feeds,        \* feed_session_id values, each drawn once
          Events,       \* event_id values
          Handlers,     \* requests served at the same time
          FeedOf,       \* the reader each feed is for
          EventOf,      \* the body of each event: user, type, paper, session_id
          Batches,      \* the batches clients send, sequences of Events
          Skewed,       \* events whose occurred_at may be outside the window
          Snapshots,    \* the feature values the ranker may record for a paper
          Direction,    \* FEATURE_SPECS[f].direction
          MaxValue,     \* a feature value of 1.0, in units of LEARNING_RATE
          MaxWeight,    \* a weight of 1.0, in the same units
          None

StrongPositive == {"save", "follow_from_item", "more_like_this"}
StrongNegative == {"dismiss", "not_relevant", "less_like_this", "block_topic"}
Weak           == {"impression", "open", "abstract_expand", "outbound_click"}
EventType      == StrongPositive \cup StrongNegative \cup Weak
Strong         == StrongPositive \cup StrongNegative

Snapshot == [Features -> 0..MaxValue]

ASSUME ValuesAreBounded == MaxValue \in Nat /\ MaxWeight \in Nat /\ MaxValue <= MaxWeight
ASSUME SnapshotsAreVectors == Snapshots \subseteq Snapshot /\ None \notin Snapshot
ASSUME DirectionIsASign == Direction \in [Features -> {-1, 1}]
ASSUME FeedsHaveReaders == FeedOf \in [Feeds -> Users]
ASSUME EventsHaveBodies ==
    EventOf \in [Events -> [user : Users, type : EventType, paper : Papers,
                            session : Feeds \cup {None}]]
ASSUME BatchesAreOfOneReader ==
    \A b \in Batches : /\ b \in Seq(Events) /\ b # << >>
                       /\ \A i, j \in DOMAIN b : EventOf[b[i]].user = EventOf[b[j]].user

VARIABLES account,       \* "none", "unverified" or "verified"
          profile,       \* readers with a user_research_profile row
          papers,        \* the paper table
          issued,        \* recommendation_event rows of type "issued"
          events,        \* the other recommendation_event rows
          saved,         \* saved_paper rows
          weight,        \* ranker_weight.weight, 0 where there is no row
          observations,  \* ranker_weight.observations, 0 where there is no row
          known,         \* feeds whose response reached the client
          tx,            \* the request each handler serves
          learnt         \* history: per reader, strong events with a snapshot
                         \* whose transaction committed

vars == <<account, profile, papers, issued, events, saved, weight,
          observations, known, tx, learnt>>
tables == <<account, profile, papers, issued, events, saved, weight,
            observations, learnt>>

IssuedRow == [user : Users, feed : Feeds, paper : Papers, snapshot : Snapshot]
EventRow  == [id : Events, snapshot : Snapshot \cup {None}]

Idle == [pc |-> "idle", user |-> None, batch |-> << >>, rows |-> {}, issues |-> {},
         saves |-> {}, learning |-> FALSE, weight |-> None, observations |-> None,
         answered |-> FALSE, committed |-> FALSE]

Steps == {"idle", "insert", "learn", "save", "next", "put", "done"}

TypeOK ==
    /\ account \in [Users -> {"none", "unverified", "verified"}]
    /\ profile \subseteq Users
    /\ papers \subseteq Papers
    /\ issued \subseteq IssuedRow
    /\ events \subseteq EventRow
    /\ saved \in [Users -> SUBSET Papers]
    /\ weight \in [Users -> [Features -> (-MaxWeight)..MaxWeight]]
    /\ observations \in [Users -> [Features -> Nat]]
    /\ known \subseteq Feeds
    /\ tx \in [Handlers -> [
                 pc : Steps, user : Users \cup {None}, batch : Seq(Events),
                 rows : SUBSET EventRow, issues : SUBSET IssuedRow,
                 saves : SUBSET Papers, learning : BOOLEAN,
                 weight : [Features -> (-MaxWeight)..MaxWeight] \cup {None},
                 observations : [Features -> Nat] \cup {None},
                 answered : BOOLEAN, committed : BOOLEAN]]
    /\ learnt \in [Users -> SUBSET Events]

Init ==
    /\ account = [u \in Users |-> "none"]
    /\ profile = {}
    /\ papers = Papers
    /\ issued = {} /\ events = {}
    /\ saved = [u \in Users |-> {}]
    /\ weight = [u \in Users |-> [f \in Features |-> 0]]
    /\ observations = [u \in Users |-> [f \in Features |-> 0]]
    /\ known = {}
    /\ tx = [h \in Handlers |-> Idle]
    /\ learnt = [u \in Users |-> {}]

-----------------------------------------------------------------------------
(***************************************************************************)
(* Locks.  An uncommitted row keeps every other transaction from writing    *)
(* the same key, and its foreign keys keep the reader and the paper.        *)
(***************************************************************************)
Written(h) == {r.id : r \in tx[h].rows}
Now(h)     == Head(tx[h].batch)          \* the event the loop is at
Body(h)    == EventOf[Now(h)]

HoldsEvent(h, e)    == e \in Written(h) /\ ~tx[h].committed
HoldsWeights(h, u)  == tx[h].learning /\ tx[h].user = u /\ ~tx[h].committed
HoldsSaved(h, u, p) == p \in tx[h].saves /\ tx[h].user = u /\ ~tx[h].committed
HoldsPaper(h, p) ==
    ~tx[h].committed /\ \/ \E r \in tx[h].rows : EventOf[r.id].paper = p
                        \/ \E r \in tx[h].issues : r.paper = p
\* Mutant: user_id is a column without a foreign key.
HoldsUserWithoutKey(h, u) == FALSE

HoldsUser(h, u) ==
    tx[h].user = u /\ ~tx[h].committed /\ (tx[h].rows # {} \/ tx[h].issues # {})

\* The handlers that h waits for at its current statement.
WaitsFor(h) ==
    {g \in Handlers \ {h} :
        \/ tx[h].pc = "insert" /\ HoldsEvent(g, Now(h))
        \/ tx[h].pc = "learn" /\ HoldsWeights(g, tx[h].user)
        \/ tx[h].pc = "save" /\ HoldsSaved(g, tx[h].user, Body(h).paper)}

Deadlocked(h) ==
    \E S \in SUBSET Handlers : h \in S /\ \A g \in S : WaitsFor(g) \cap S # {}

-----------------------------------------------------------------------------
(***************************************************************************)
(* POST /me/interactions.                                                   *)
(***************************************************************************)
Begin(h, r)  == tx[h].pc = "idle" /\ tx' = [tx EXCEPT ![h] = r]
Goto(h, pc)  == tx' = [tx EXCEPT ![h].pc = pc]
\* The error response: nothing of the transaction is kept.
Fail(h)      == tx' = [tx EXCEPT ![h] = Idle] /\ UNCHANGED <<tables, known>>

SentBy(b) == EventOf[b[1]].user

\* current_verified_user and the look-up of the papers: one missing paper
\* refuses the whole batch, which leaves nothing behind.
Receive(h, b) ==
    LET u == SentBy(b) IN
    /\ account[u] = "verified"
    /\ \A i \in DOMAIN b : /\ EventOf[b[i]].session \in known \cup {None}
                           /\ EventOf[b[i]].paper \in papers
    /\ Begin(h, [Idle EXCEPT !.pc = "insert", !.user = u, !.batch = b])
    /\ UNCHANGED <<tables, known>>

\* The clock check comes inside the loop, after earlier events were written.
OutsideWindow(h) ==
    /\ tx[h].pc = "insert" /\ Now(h) \in Skewed
    /\ Fail(h)

\* What the ranker recorded when it put this paper into that feed.
IssuedSnapshot(u, p, s) ==
    LET rows == {r \in issued : r.user = u /\ r.paper = p /\ r.feed = s}
    IN  IF rows = {} THEN None ELSE (CHOOSE r \in rows : TRUE).snapshot

\* Mutant: the server draws the id, so a redelivery is a new row.
DuplicateUnseen(e) == FALSE

Duplicate(e) == \E r \in events : r.id = e
InThisBatch(h, e) == e \in Written(h)

\* Mutant: a duplicate is only kept from learning, not from saving.
InsertEventSavingAgain(h) ==
    /\ tx[h].pc = "insert" /\ WaitsFor(h) = {}
    /\ IF Duplicate(Now(h)) \/ InThisBatch(h, Now(h))
       THEN Goto(h, "save")
       ELSE /\ account[tx[h].user] # "none" /\ Body(h).paper \in papers
            /\ LET snap == IssuedSnapshot(tx[h].user, Body(h).paper, Body(h).session)
                   row  == [id |-> Now(h), snapshot |-> snap]
               IN  tx' = [tx EXCEPT ![h].pc = "learn", ![h].rows = tx[h].rows \cup {row}]
    /\ UNCHANGED <<tables, known>>

\* INSERT ... ON CONFLICT DO NOTHING, once no other transaction holds the key.
InsertEvent(h) ==
    /\ tx[h].pc = "insert" /\ WaitsFor(h) = {}
    /\ IF Duplicate(Now(h)) \/ InThisBatch(h, Now(h))
       THEN Goto(h, "next")
       ELSE /\ account[tx[h].user] # "none" /\ Body(h).paper \in papers
            /\ LET snap == IssuedSnapshot(tx[h].user, Body(h).paper, Body(h).session)
                   row  == [id |-> Now(h), snapshot |-> snap]
               IN  tx' = [tx EXCEPT ![h].pc = "learn", ![h].rows = tx[h].rows \cup {row}]
    /\ UNCHANGED <<tables, known>>

\* The reader or the paper went away while the batch was being served.
ForeignKeyFails(h) ==
    /\ tx[h].pc = "insert" /\ ~Duplicate(Now(h)) /\ ~InThisBatch(h, Now(h))
    /\ account[tx[h].user] = "none" \/ Body(h).paper \notin papers
    /\ Fail(h)

SnapshotOf(h) == (CHOOSE r \in tx[h].rows : r.id = Now(h)).snapshot
Teaches(h)    == Body(h).type \in Strong /\ SnapshotOf(h) # None

Least(a, b)    == IF a < b THEN a ELSE b
Greatest(a, b) == IF a > b THEN a ELSE b

Delta(type, f, value) ==
    (IF type \in StrongPositive THEN 1 ELSE -1) * Direction[f] * value

\* Mutant: the first value is added without the bounds of the update.
LearnedUnbounded(w, n, type, snap) ==
    [f \in Features |-> w[f] + Delta(type, f, snap[f])]

\* The upsert of one ranker_weight row: the first value is stored as it is.
Learned(w, n, type, snap) ==
    [f \in Features |->
        IF n[f] = 0 THEN Delta(type, f, snap[f])
        ELSE Least(MaxWeight, Greatest(-MaxWeight, w[f] + Delta(type, f, snap[f])))]

Learn(h) ==
    LET u == tx[h].user
        w == IF tx[h].learning THEN tx[h].weight ELSE weight[u]
        n == IF tx[h].learning THEN tx[h].observations ELSE observations[u]
    IN
    /\ tx[h].pc = "learn"
    /\ IF Teaches(h)
       THEN /\ WaitsFor(h) = {}
            /\ tx' = [tx EXCEPT
                 ![h].pc = "save", ![h].learning = TRUE,
                 ![h].weight = Learned(w, n, Body(h).type, SnapshotOf(h)),
                 ![h].observations = [f \in Features |-> n[f] + 1]]
       ELSE Goto(h, "save")
    /\ UNCHANGED <<tables, known>>

Save(h) ==
    /\ tx[h].pc = "save"
    /\ IF Body(h).type = "save"
       THEN /\ WaitsFor(h) = {}
            /\ tx' = [tx EXCEPT ![h].pc = "next",
                        ![h].saves = tx[h].saves \cup ({Body(h).paper} \ saved[tx[h].user])]
       ELSE Goto(h, "next")
    /\ UNCHANGED <<tables, known>>

\* Mutant: an event that was a duplicate is queued again.
NextEventRequeue(h) ==
    /\ tx[h].pc = "next"
    /\ LET rest == IF InThisBatch(h, Now(h)) THEN Tail(tx[h].batch)
                   ELSE Append(Tail(tx[h].batch), Now(h))
       IN  tx' = [tx EXCEPT ![h].batch = rest,
                            ![h].pc = IF rest = << >> THEN "done" ELSE "insert"]
    /\ UNCHANGED <<tables, known>>

NextEvent(h) ==
    /\ tx[h].pc = "next"
    /\ tx' = [tx EXCEPT ![h].batch = Tail(tx[h].batch),
                        ![h].pc = IF Tail(tx[h].batch) = << >> THEN "done" ELSE "insert"]
    /\ UNCHANGED <<tables, known>>

-----------------------------------------------------------------------------
(***************************************************************************)
(* POST /me/feed: the ranked papers are recorded with their features.  What *)
(* is ranked is Feed's business; here it is any set of papers.              *)
(***************************************************************************)
IssueFeed(h, s) ==
    LET u == FeedOf[s] IN
    /\ account[u] = "verified" /\ u \in profile
    /\ s \notin {r.feed : r \in issued} \cup known
    /\ \A g \in Handlers : s \notin {r.feed : r \in tx[g].issues}
    /\ \E shown \in SUBSET papers, snap \in Snapshots :
         Begin(h, [Idle EXCEPT !.pc = "done", !.user = u,
                     !.issues = {[user |-> u, feed |-> s, paper |-> p, snapshot |-> snap] :
                                 p \in shown}])
    /\ UNCHANGED <<tables, known>>

\* PUT /me/profile: the row is looked for, then added or overwritten.  The
\* draft's content is left out.
PutProfile(h, u) ==
    /\ account[u] = "verified"
    /\ Begin(h, [Idle EXCEPT !.pc = "put", !.user = u])
    /\ UNCHANGED <<tables, known>>

\* The second of two first PUTs violates the primary key, and a PUT of a
\* reader who went away the foreign key; neither changes the table.
WriteProfile(h) ==
    LET u == tx[h].user IN
    /\ tx[h].pc = "put"
    /\ tx' = [tx EXCEPT ![h] = Idle]
    /\ profile' = IF account[u] = "none" THEN profile ELSE profile \cup {u}
    /\ UNCHANGED <<account, papers, issued, events, saved, weight, observations,
                   learnt, known>>

-----------------------------------------------------------------------------
(***************************************************************************)
(* The end of a request.  The response and the commit of the session        *)
(* dependency come in either order (it changed between FastAPI releases).   *)
(***************************************************************************)
SessionOf(h) == {r.feed : r \in tx[h].issues}

Answer(h) ==
    /\ tx[h].pc = "done" /\ ~tx[h].answered
    /\ known' = known \cup SessionOf(h)
    /\ tx' = [tx EXCEPT ![h] = IF tx[h].committed THEN Idle
                               ELSE [tx[h] EXCEPT !.answered = TRUE]]
    /\ UNCHANGED tables

TaughtBy(h) == {r.id : r \in {q \in tx[h].rows : EventOf[q.id].type \in Strong /\ q.snapshot # None}}

Commit(h) ==
    LET u == tx[h].user IN
    /\ tx[h].pc = "done" /\ ~tx[h].committed
    /\ events' = events \cup tx[h].rows
    /\ issued' = issued \cup tx[h].issues
    /\ saved' = [saved EXCEPT ![u] = saved[u] \cup tx[h].saves]
    /\ weight' = [weight EXCEPT ![u] = IF tx[h].learning THEN tx[h].weight ELSE weight[u]]
    /\ observations' = [observations EXCEPT
                          ![u] = IF tx[h].learning THEN tx[h].observations ELSE observations[u]]
    /\ learnt' = [learnt EXCEPT ![u] = learnt[u] \cup TaughtBy(h)]
    /\ tx' = [tx EXCEPT ![h] = IF tx[h].answered THEN Idle
                               ELSE [tx[h] EXCEPT !.committed = TRUE]]
    /\ UNCHANGED <<account, profile, papers, known>>

\* PostgreSQL ends one transaction of a cycle of waits.
AbortDeadlock(h) == Deadlocked(h) /\ Fail(h)

\* The API process stops: no open transaction survives.
Crash ==
    /\ \E h \in Handlers : tx[h].pc # "idle"
    /\ tx' = [h \in Handlers |-> Idle]
    /\ UNCHANGED <<tables, known>>

-----------------------------------------------------------------------------
(***************************************************************************)
(* Requests of one statement, and what happens around the accounts.         *)
(***************************************************************************)
\* A new account has an id of its own: requests of an earlier account of the
\* same reader are over before the name is used again.
Register(u) ==
    /\ account[u] = "none"
    /\ \A h \in Handlers : tx[h].user # u
    /\ account' = [account EXCEPT ![u] = "unverified"]
    /\ UNCHANGED <<profile, papers, issued, events, saved, weight, observations,
                   known, tx, learnt>>

Verify(u) ==
    /\ account[u] = "unverified"
    /\ account' = [account EXCEPT ![u] = "verified"]
    /\ UNCHANGED <<profile, papers, issued, events, saved, weight, observations,
                   known, tx, learnt>>

RemoveSavedPaper(u, p) ==
    /\ account[u] = "verified" /\ p \in saved[u]
    /\ saved' = [saved EXCEPT ![u] = saved[u] \ {p}]
    /\ UNCHANGED <<account, profile, papers, issued, events, weight, observations,
                   known, tx, learnt>>

\* DELETE /me/account cascades; it waits for rows that reference the reader.
DeleteAccount(u) ==
    /\ account[u] # "none"
    /\ \A h \in Handlers : ~HoldsUser(h, u)
    /\ account' = [account EXCEPT ![u] = "none"]
    /\ profile' = profile \ {u}
    /\ issued' = {r \in issued : r.user # u}
    /\ events' = {r \in events : EventOf[r.id].user # u}
    /\ saved' = [saved EXCEPT ![u] = {}]
    /\ weight' = [weight EXCEPT ![u] = [f \in Features |-> 0]]
    /\ observations' = [observations EXCEPT ![u] = [f \in Features |-> 0]]
    /\ learnt' = [learnt EXCEPT ![u] = {}]
    /\ UNCHANGED <<papers, known, tx>>

\* canonicalise.merge_papers deletes the loser, and the cascade takes every
\* reader's rows about it: nothing moves them to the winner.
MergeAway(p) ==
    /\ p \in papers /\ papers # {p}
    /\ \A h \in Handlers : ~HoldsPaper(h, p)
    /\ papers' = papers \ {p}
    /\ issued' = {r \in issued : r.paper # p}
    /\ events' = {r \in events : EventOf[r.id].paper # p}
    /\ saved' = [u \in Users |-> saved[u] \ {p}]
    /\ UNCHANGED <<account, profile, weight, observations, known, tx, learnt>>

-----------------------------------------------------------------------------
Step(h) ==
    \/ OutsideWindow(h) \/ InsertEvent(h) \/ ForeignKeyFails(h)
    \/ Learn(h) \/ Save(h) \/ NextEvent(h)
    \/ WriteProfile(h) \/ Answer(h) \/ Commit(h) \/ AbortDeadlock(h)

Request(h) ==
    \/ \E b \in Batches : Receive(h, b)
    \/ \E s \in Feeds : IssueFeed(h, s)
    \/ \E u \in Users : PutProfile(h, u)

Next ==
    \/ \E h \in Handlers : Step(h) \/ Request(h)
    \/ Crash
    \/ \E u \in Users : Register(u) \/ Verify(u) \/ DeleteAccount(u)
    \/ \E u \in Users, p \in Papers : RemoveSavedPaper(u, p)
    \/ \E p \in Papers : MergeAway(p)

Spec == Init /\ [][Next]_vars

\* The threads of the API and PostgreSQL go on; a request that waits for a
\* lock gets it when the holder ends.
FairSpec == Spec /\ \A h \in Handlers : SF_vars(Step(h))

-----------------------------------------------------------------------------
(***************************************************************************)
(* Properties.                                                              *)
(***************************************************************************)
\* However often, in whatever order and in however many requests at once an
\* event is delivered, it moves the reader's weights once: the observations
\* of a feature are the reader's attributed explicit events (account._learn
\* behind ON CONFLICT DO NOTHING).
LearnedOnce ==
    \A u \in Users, f \in Features : observations[u][f] = Cardinality(learnt[u])

\* A paper enters a reader's list only together with a save event that was
\* not known before: a save delivered again after the reader removed the
\* paper does not bring it back (account.interactions).
SavedByANewEventOnly ==
    [][\A u \in Users : \A p \in saved'[u] \ saved[u] :
          \E r \in events' \ events :
             EventOf[r.id].user = u /\ EventOf[r.id].paper = p /\ EventOf[r.id].type = "save"]_vars

\* Nothing of a deleted reader is left, and no request that was admitted
\* before the deletion writes any of it again (account.delete_account, the
\* foreign keys of db/models/account.py).
DeletedLeavesNothing ==
    \A u \in Users : account[u] = "none" =>
        /\ u \notin profile /\ saved[u] = {}
        /\ \A r \in issued : r.user # u
        /\ \A r \in events : EventOf[r.id].user # u
        /\ \A f \in Features : observations[u][f] = 0

\* Two transactions that write the same keys in opposite orders do not hang:
\* every request is answered, fails or dies with the process.
EveryRequestEnds == \A h \in Handlers : tx[h].pc # "idle" ~> tx[h].pc = "idle"
=============================================================================

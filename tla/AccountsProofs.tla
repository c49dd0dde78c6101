--------------------------- MODULE AccountsProofs ---------------------------
(***************************************************************************)
(* For any number of readers, papers, events and handlers: an event counts  *)
(* once, a paper is saved by a new event only, and nothing of a deleted     *)
(* reader is left.                                                          *)
(***************************************************************************)
EXTENDS Accounts, FiniteSetTheorems, SequenceTheorems, TLAPS

EventIds == {r.id : r \in events}

\* What a request is like at each of its statements.
RequestIsFormed(h) ==
    /\ tx[h].pc # "idle" => tx[h].user \in Users
    /\ tx[h].pc \in {"insert", "learn", "save", "next"} => tx[h].batch # << >>
    /\ \A i \in DOMAIN tx[h].batch : EventOf[tx[h].batch[i]].user = tx[h].user
    /\ tx[h].pc \in {"learn", "save"} => Now(h) \in Written(h)
    /\ tx[h].committed => tx[h].pc = "done"
    /\ tx[h].learning => /\ tx[h].weight \in [Features -> (-MaxWeight)..MaxWeight]
                         /\ tx[h].observations \in [Features -> Nat]
                         /\ tx[h].rows # {}

\* What it has written is about its reader, one row for an event, and a paper
\* is saved by the row of its event.
WritesAreOwn(h) ==
    /\ IsFiniteSet(Written(h))
    /\ \A r \in tx[h].rows : EventOf[r.id].user = tx[h].user
    /\ \A r, s \in tx[h].rows : r.id = s.id => r = s
    /\ \A r \in tx[h].issues : r.user = tx[h].user
    /\ \A p \in tx[h].saves : \E r \in tx[h].rows :
          EventOf[r.id].paper = p /\ EventOf[r.id].type = "save"

\* Until the commit its rows are new, and its foreign keys keep the reader.
WritesAreNew(h) ==
    ~tx[h].committed =>
        /\ \A r \in tx[h].rows : r.id \notin EventIds /\ \A u \in Users : r.id \notin learnt[u]
        /\ tx[h].rows # {} \/ tx[h].issues # {} => account[tx[h].user] # "none"

\* The events it has learned from.
Learns(h) == TaughtBy(h) \ (IF tx[h].pc = "learn" THEN {Now(h)} ELSE {})

\* What it has learned is what the committed events and its own teach.
CountsOwn(h) ==
    ~tx[h].committed =>
        IF tx[h].learning
        THEN \A f \in Features :
                tx[h].observations[f] = Cardinality(learnt[tx[h].user] \cup Learns(h))
        ELSE Learns(h) = {}

RequestInv(h) == RequestIsFormed(h) /\ WritesAreOwn(h) /\ WritesAreNew(h) /\ CountsOwn(h)

\* Two open requests have written different events, and do not both learn for
\* one reader: what the row locks are for.
LocksExclude ==
    \A g, h \in Handlers : g # h /\ ~tx[g].committed /\ ~tx[h].committed =>
        /\ Written(g) \cap Written(h) = {}
        /\ tx[g].learning /\ tx[h].learning => tx[g].user # tx[h].user

\* An event learned from is a row, or its paper has been merged away for good.
LearntIsKept ==
    \A u \in Users :
        /\ IsFiniteSet(learnt[u])
        /\ \A e \in learnt[u] : /\ EventOf[e].user = u
                                /\ e \in EventIds \/ EventOf[e].paper \notin papers

IInv ==
    /\ \A h \in Handlers : RequestInv(h)
    /\ LocksExclude
    /\ LearntIsKept
    /\ LearnedOnce
    /\ DeletedLeavesNothing

-----------------------------------------------------------------------------
Tx == [pc : Steps, user : Users \cup {None}, batch : Seq(Events),
       rows : SUBSET EventRow, issues : SUBSET IssuedRow,
       saves : SUBSET Papers, learning : BOOLEAN,
       weight : [Features -> (-MaxWeight)..MaxWeight] \cup {None},
       observations : [Features -> Nat] \cup {None},
       answered : BOOLEAN, committed : BOOLEAN]

LEMMA IdleIsARequest == Idle \in Tx
  BY EmptySeq DEF Idle, Tx, Steps

\* A request at rest has written nothing.
LEMMA IdleKeepsInv ==
    ASSUME NEW h \in Handlers, tx'[h] = Idle
    PROVE  RequestInv(h)' /\ Written(h)' = {} /\ ~tx'[h].learning
<1>1. /\ tx'[h].pc = "idle" /\ tx'[h].batch = << >> /\ tx'[h].rows = {} /\ tx'[h].issues = {}
      /\ tx'[h].saves = {} /\ tx'[h].learning = FALSE /\ tx'[h].committed = FALSE
  BY DEF Idle
<1>2. Written(h)' = {}
  BY <1>1 DEF Written
<1>3. RequestIsFormed(h)'
  BY <1>1 DEF RequestIsFormed
<1>4. WritesAreOwn(h)'
  BY <1>1, <1>2, FS_EmptySet DEF WritesAreOwn
<1>5. WritesAreNew(h)'
  BY <1>1 DEF WritesAreNew
<1>6. CountsOwn(h)'
  BY <1>1 DEF CountsOwn, Learns, TaughtBy
<1> QED
  BY <1>1, <1>2, <1>3, <1>4, <1>5, <1>6 DEF RequestInv

\* A request that stands still keeps its invariant while nothing is committed.
LEMMA StandingStill ==
    ASSUME NEW g \in Handlers, RequestInv(g), tx'[g] = tx[g],
           events' = events, learnt' = learnt, account' = account
    PROVE  RequestInv(g)' /\ Written(g)' = Written(g)
<1>1. RequestIsFormed(g)'
  BY DEF RequestInv, RequestIsFormed, Now, Written
<1>2. WritesAreOwn(g)'
  BY DEF RequestInv, WritesAreOwn, Written
<1>3. WritesAreNew(g)'
  BY DEF RequestInv, WritesAreNew, EventIds
<1>4. CountsOwn(g)'
  BY DEF RequestInv, CountsOwn, Learns, TaughtBy, Now
<1> QED
  BY <1>1, <1>2, <1>3, <1>4 DEF RequestInv, Written

\* A step of one request that commits nothing.
LEMMA StepOfOne ==
    ASSUME TypeOK, IInv, NEW h \in Handlers, NEW t \in Tx, tx' = [tx EXCEPT ![h] = t],
           UNCHANGED <<account, papers, issued, events, saved, weight, observations, learnt>>,
           profile' \subseteq Users, \A u \in Users : account[u] = "none" => u \notin profile',
           known' \subseteq Feeds, RequestInv(h)',
           \A g \in Handlers \ {h} : ~tx[g].committed /\ ~t.committed =>
              /\ Written(g) \cap Written(h)' = {}
              /\ tx[g].learning /\ t.learning => tx[g].user # t.user
    PROVE  TypeOK' /\ IInv'
<1>1. /\ tx'[h] = t /\ \A g \in Handlers \ {h} : tx'[g] = tx[g]
      /\ tx' \in [Handlers -> Tx]
  BY DEF TypeOK, Tx
<1>2. TypeOK'
  BY <1>1 DEF TypeOK, Tx
<1>3. ASSUME NEW g \in Handlers \ {h} PROVE RequestInv(g)' /\ Written(g)' = Written(g)
  BY <1>1, StandingStill DEF IInv
<1>4. \A g \in Handlers : RequestInv(g)'
  BY <1>3
<1>5. LocksExclude'
  <2> SUFFICES ASSUME NEW f \in Handlers, NEW g \in Handlers, f # g,
                      ~tx'[f].committed, ~tx'[g].committed
               PROVE  /\ Written(f)' \cap Written(g)' = {}
                      /\ tx'[f].learning /\ tx'[g].learning => tx'[f].user # tx'[g].user
    BY DEF LocksExclude
  <2>1. CASE f = h
    BY <2>1, <1>1, <1>3
  <2>2. CASE g = h
    BY <2>2, <1>1, <1>3
  <2>3. CASE f # h /\ g # h
    BY <2>3, <1>1, <1>3 DEF IInv, LocksExclude
  <2> QED
    BY <2>1, <2>2, <2>3
<1>6. LearntIsKept' /\ LearnedOnce' /\ DeletedLeavesNothing'
  BY DEF IInv, LearntIsKept, EventIds, LearnedOnce, DeletedLeavesNothing
<1> QED
  BY <1>2, <1>4, <1>5, <1>6 DEF IInv

-----------------------------------------------------------------------------
\* A step that fails leaves the request at rest.
LEMMA FailKeepsInv ==
    ASSUME TypeOK, IInv, NEW h \in Handlers, Fail(h)
    PROVE  TypeOK' /\ IInv'
<1>1. /\ tx' = [tx EXCEPT ![h] = Idle] /\ UNCHANGED <<tables, known>>
      /\ tx'[h] = Idle
  BY DEF Fail, TypeOK
<1>2. profile' \subseteq Users /\ known' \subseteq Feeds
  BY <1>1 DEF TypeOK, tables
<1>3. \A u \in Users : account[u] = "none" => u \notin profile'
  BY <1>1 DEF IInv, DeletedLeavesNothing, tables
<1>4. RequestInv(h)' /\ Written(h)' = {} /\ ~Idle.learning
  BY <1>1, IdleKeepsInv
<1>5. UNCHANGED <<account, papers, issued, events, saved, weight, observations, learnt>>
  BY <1>1 DEF tables
<1> HIDE DEF TypeOK, IInv
<1> QED
  BY <1>1, <1>2, <1>3, <1>4, <1>5, IdleIsARequest, StepOfOne

\* A request begins: nothing is written yet, or the rows of a feed.
LEMMA ReceiveKeepsInv ==
    ASSUME TypeOK, IInv, NEW h \in Handlers, NEW b \in Batches, Receive(h, b)
    PROVE  TypeOK' /\ IInv'
<1> DEFINE t == [Idle EXCEPT !.pc = "insert", !.user = SentBy(b), !.batch = b]
<1>1. /\ tx' = [tx EXCEPT ![h] = t] /\ UNCHANGED <<tables, known>> /\ tx'[h] = t
  BY DEF Receive, Begin, TypeOK
<1>2. /\ b \in Seq(Events) /\ b # << >> /\ SentBy(b) \in Users
      /\ \A i \in DOMAIN b : EventOf[b[i]].user = SentBy(b)
  <2>1. b \in Seq(Events) /\ b # << >>
    BY BatchesAreOfOneReader
  <2>2. 1 \in DOMAIN b /\ b[1] \in Events
    BY <2>1, EmptySeq, LenProperties
  <2> QED
    BY <2>1, <2>2, BatchesAreOfOneReader, EventsHaveBodies DEF SentBy
<1>3. /\ t.pc = "insert" /\ t.user = SentBy(b) /\ t.batch = b /\ t.rows = {} /\ t.issues = {}
      /\ t.saves = {} /\ t.learning = FALSE /\ t.committed = FALSE
  BY DEF Idle
<1>4. t \in Tx
  BY <1>2 DEF Idle, Tx, Steps
<1> HIDE DEF t
<1>5. RequestInv(h)' /\ Written(h)' = {}
  <2>1. Written(h)' = {}
    BY <1>1, <1>3 DEF Written
  <2>2. RequestIsFormed(h)'
    BY <1>1, <1>2, <1>3 DEF RequestIsFormed
  <2>3. WritesAreOwn(h)'
    BY <1>1, <1>3, <2>1, FS_EmptySet DEF WritesAreOwn
  <2>4. WritesAreNew(h)' /\ CountsOwn(h)'
    BY <1>1, <1>3 DEF WritesAreNew, CountsOwn, Learns, TaughtBy
  <2> QED
    BY <2>1, <2>2, <2>3, <2>4 DEF RequestInv
<1>6. /\ profile' \subseteq Users /\ known' \subseteq Feeds
      /\ \A u \in Users : account[u] = "none" => u \notin profile'
      /\ UNCHANGED <<account, papers, issued, events, saved, weight, observations, learnt>>
  BY <1>1 DEF TypeOK, IInv, DeletedLeavesNothing, tables
<1> QED
  BY <1>1, <1>3, <1>4, <1>5, <1>6, StepOfOne

LEMMA IssueFeedKeepsInv ==
    ASSUME TypeOK, IInv, NEW h \in Handlers, NEW s \in Feeds, IssueFeed(h, s)
    PROVE  TypeOK' /\ IInv'
<1> DEFINE u == FeedOf[s]
<1>0. u \in Users /\ account[u] = "verified" /\ UNCHANGED <<tables, known>>
  BY FeedsHaveReaders DEF IssueFeed
<1>1. PICK shown \in SUBSET papers, snap \in Snapshots :
         Begin(h, [Idle EXCEPT !.pc = "done", !.user = u,
                     !.issues = {[user |-> u, feed |-> s, paper |-> p, snapshot |-> snap] :
                                 p \in shown}])
  BY DEF IssueFeed
<1> DEFINE rows == {[user |-> u, feed |-> s, paper |-> p, snapshot |-> snap] : p \in shown}
           t == [Idle EXCEPT !.pc = "done", !.user = u, !.issues = rows]
<1>2. tx' = [tx EXCEPT ![h] = t] /\ tx'[h] = t
  BY <1>1 DEF Begin, TypeOK
<1>3. rows \subseteq IssuedRow /\ \A r \in rows : r.user = u
  BY <1>0, SnapshotsAreVectors DEF TypeOK, IssuedRow
<1> HIDE DEF rows
<1>4. /\ t.pc = "done" /\ t.user = u /\ t.batch = << >> /\ t.rows = {} /\ t.issues = rows
      /\ t.saves = {} /\ t.learning = FALSE /\ t.committed = FALSE
  BY DEF Idle
<1>5. t \in Tx
  BY <1>0, <1>3, EmptySeq DEF Idle, Tx, Steps
<1> HIDE DEF t
<1>6. RequestInv(h)' /\ Written(h)' = {}
  <2>1. Written(h)' = {}
    BY <1>2, <1>4 DEF Written
  <2>2. RequestIsFormed(h)'
    BY <1>0, <1>2, <1>4 DEF RequestIsFormed
  <2>3. WritesAreOwn(h)'
    BY <1>2, <1>3, <1>4, <2>1, FS_EmptySet DEF WritesAreOwn
  <2>4. WritesAreNew(h)' /\ CountsOwn(h)'
    BY <1>0, <1>2, <1>4 DEF WritesAreNew, CountsOwn, Learns, TaughtBy, tables
  <2> QED
    BY <2>1, <2>2, <2>3, <2>4 DEF RequestInv
<1>7. /\ profile' \subseteq Users /\ known' \subseteq Feeds
      /\ \A v \in Users : account[v] = "none" => v \notin profile'
      /\ UNCHANGED <<account, papers, issued, events, saved, weight, observations, learnt>>
  BY <1>0 DEF TypeOK, IInv, DeletedLeavesNothing, tables
<1> QED
  BY <1>2, <1>4, <1>5, <1>6, <1>7, StepOfOne

LEMMA PutProfileKeepsInv ==
    ASSUME TypeOK, IInv, NEW h \in Handlers, NEW u \in Users, PutProfile(h, u)
    PROVE  TypeOK' /\ IInv'
<1> DEFINE t == [Idle EXCEPT !.pc = "put", !.user = u]
<1>1. /\ tx' = [tx EXCEPT ![h] = t] /\ UNCHANGED <<tables, known>> /\ tx'[h] = t
  BY DEF PutProfile, Begin, TypeOK
<1>2. /\ t.pc = "put" /\ t.user = u /\ t.batch = << >> /\ t.rows = {} /\ t.issues = {}
      /\ t.saves = {} /\ t.learning = FALSE /\ t.committed = FALSE
  BY DEF Idle
<1>3. t \in Tx
  BY EmptySeq DEF Idle, Tx, Steps
<1> HIDE DEF t
<1>4. RequestInv(h)' /\ Written(h)' = {}
  <2>1. Written(h)' = {}
    BY <1>1, <1>2 DEF Written
  <2>2. RequestIsFormed(h)'
    BY <1>1, <1>2 DEF RequestIsFormed
  <2>3. WritesAreOwn(h)'
    BY <1>1, <1>2, <2>1, FS_EmptySet DEF WritesAreOwn
  <2>4. WritesAreNew(h)' /\ CountsOwn(h)'
    BY <1>1, <1>2 DEF WritesAreNew, CountsOwn, Learns, TaughtBy
  <2> QED
    BY <2>1, <2>2, <2>3, <2>4 DEF RequestInv
<1>5. /\ profile' \subseteq Users /\ known' \subseteq Feeds
      /\ \A v \in Users : account[v] = "none" => v \notin profile'
      /\ UNCHANGED <<account, papers, issued, events, saved, weight, observations, learnt>>
  BY <1>1 DEF TypeOK, IInv, DeletedLeavesNothing, tables
<1> QED
  BY <1>1, <1>2, <1>3, <1>4, <1>5, StepOfOne

\* PUT writes its one row and is over.
LEMMA WriteProfileKeepsInv ==
    ASSUME TypeOK, IInv, NEW h \in Handlers, WriteProfile(h)
    PROVE  TypeOK' /\ IInv'
<1>1. /\ tx' = [tx EXCEPT ![h] = Idle] /\ tx'[h] = Idle
      /\ UNCHANGED <<account, papers, issued, events, saved, weight, observations, learnt, known>>
  BY DEF WriteProfile, TypeOK
<1>2. tx[h].user \in Users
  BY DEF WriteProfile, IInv, RequestInv, RequestIsFormed
<1>3. /\ profile' \subseteq Users /\ known' \subseteq Feeds
      /\ \A u \in Users : account[u] = "none" => u \notin profile'
  BY <1>2 DEF WriteProfile, TypeOK, IInv, DeletedLeavesNothing
<1>4. RequestInv(h)' /\ Written(h)' = {} /\ ~Idle.learning
  BY <1>1, IdleKeepsInv
<1> QED
  BY <1>1, <1>3, <1>4, IdleIsARequest, StepOfOne

-----------------------------------------------------------------------------
\* Moving on from a statement that wrote nothing.
LEMMA MovingOn ==
    ASSUME TypeOK, IInv, NEW h \in Handlers, NEW q \in {"next", "save"},
           tx' = [tx EXCEPT ![h].pc = q], UNCHANGED <<tables, known>>,
           tx[h].pc \in {"insert", "learn", "save"},
           q = "save" => tx[h].pc = "learn",
           tx[h].pc = "learn" => Now(h) \notin TaughtBy(h)
    PROVE  TypeOK' /\ IInv'
<1> DEFINE t == [tx[h] EXCEPT !.pc = q]
<1>1. /\ tx[h] \in Tx /\ tx' = [tx EXCEPT ![h] = t] /\ tx'[h] = t
  BY DEF TypeOK, Tx
<1>2. /\ t.pc = q /\ t.user = tx[h].user /\ t.batch = tx[h].batch /\ t.rows = tx[h].rows
      /\ t.issues = tx[h].issues /\ t.saves = tx[h].saves /\ t.learning = tx[h].learning
      /\ t.weight = tx[h].weight /\ t.observations = tx[h].observations
      /\ t.committed = tx[h].committed
  BY <1>1 DEF Tx
<1>3. t \in Tx
  BY <1>1 DEF Tx, Steps
<1> HIDE DEF t
<1>4. Written(h)' = Written(h) /\ Now(h)' = Now(h) /\ TaughtBy(h)' = TaughtBy(h)
  BY <1>1, <1>2 DEF Written, Now, TaughtBy
<1>5. RequestInv(h) /\ UNCHANGED <<events, learnt, account>>
  BY DEF IInv, tables
<1>6. RequestInv(h)'
  <2>1. RequestIsFormed(h)'
    BY <1>1, <1>2, <1>4, <1>5 DEF RequestInv, RequestIsFormed
  <2>2. WritesAreOwn(h)'
    BY <1>1, <1>2, <1>4, <1>5 DEF RequestInv, WritesAreOwn
  <2>3. WritesAreNew(h)'
    <3>1. WritesAreNew(h)
      BY <1>5 DEF RequestInv
    <3>2. /\ tx'[h].rows = tx[h].rows /\ tx'[h].issues = tx[h].issues
          /\ tx'[h].user = tx[h].user /\ tx'[h].committed = tx[h].committed
      BY <1>1, <1>2
    <3>3. EventIds' = EventIds
      BY <1>5 DEF EventIds
    <3> QED
      BY <1>5, <3>1, <3>2, <3>3 DEF WritesAreNew
  <2>4. Learns(h)' = Learns(h)
    BY <1>1, <1>2, <1>4 DEF Learns
  <2>5. CountsOwn(h)'
    <3>1. CountsOwn(h)
      BY <1>5 DEF RequestInv
    <3>2. /\ tx'[h].committed = tx[h].committed /\ tx'[h].learning = tx[h].learning
          /\ tx'[h].user = tx[h].user /\ tx'[h].weight = tx[h].weight
          /\ tx'[h].observations = tx[h].observations
      BY <1>1, <1>2
    <3> QED
      BY <1>5, <2>4, <3>1, <3>2 DEF CountsOwn
  <2> QED
    BY <2>1, <2>2, <2>3, <2>5 DEF RequestInv
<1>7. /\ profile' \subseteq Users /\ known' \subseteq Feeds
      /\ \A u \in Users : account[u] = "none" => u \notin profile'
      /\ UNCHANGED <<account, papers, issued, events, saved, weight, observations, learnt>>
  BY DEF TypeOK, IInv, DeletedLeavesNothing, tables
<1>8. ASSUME NEW g \in Handlers \ {h}, ~tx[g].committed, ~t.committed
      PROVE  /\ Written(g) \cap Written(h)' = {}
             /\ tx[g].learning /\ t.learning => tx[g].user # t.user
  BY <1>2, <1>4, <1>8 DEF IInv, LocksExclude
<1> QED
  BY <1>1, <1>3, <1>6, <1>7, <1>8, StepOfOne

LEMMA BatchStep ==
    ASSUME TypeOK, IInv, NEW h \in Handlers, tx[h].pc \in {"insert", "learn", "save", "next"}
    PROVE  /\ tx[h].user \in Users /\ Now(h) \in Events
           /\ Tail(tx[h].batch) \in Seq(Events)
           /\ EventOf[Now(h)].user = tx[h].user /\ EventOf[Now(h)].paper \in Papers
           /\ EventOf[Now(h)].type \in EventType
           /\ \A i \in DOMAIN Tail(tx[h].batch) :
                 EventOf[Tail(tx[h].batch)[i]].user = tx[h].user
           /\ ~tx[h].committed
<1>1. /\ tx[h].batch \in Seq(Events) /\ tx[h].batch # << >> /\ tx[h].user \in Users
      /\ \A i \in DOMAIN tx[h].batch : EventOf[tx[h].batch[i]].user = tx[h].user
      /\ ~tx[h].committed
  BY DEF TypeOK, IInv, RequestInv, RequestIsFormed
<1> DEFINE b == tx[h].batch
<1> HIDE DEF b
<1>2. /\ Head(b) \in Events /\ Tail(b) \in Seq(Events) /\ Head(b) = b[1] /\ 1 \in DOMAIN b
      /\ \A i \in DOMAIN Tail(b) : Tail(b)[i] = b[i + 1] /\ i + 1 \in DOMAIN b
  <2>1. b \in Seq(Events) /\ b # << >>
    BY <1>1 DEF b
  <2>2. Len(b) \in Nat \ {0} /\ DOMAIN b = 1 .. Len(b)
    BY <2>1, EmptySeq, LenProperties
  <2>3. /\ Head(b) \in Events /\ Tail(b) \in Seq(Events) /\ Len(Tail(b)) = Len(b) - 1
        /\ \A i \in 1 .. Len(Tail(b)) : Tail(b)[i] = b[i + 1]
    BY <2>1, HeadTailProperties
  <2>4. DOMAIN Tail(b) = 1 .. Len(Tail(b))
    BY <2>3, LenProperties
  <2>5. Head(b) = b[1]
    BY <2>1
  <2> QED
    BY <2>2, <2>3, <2>4, <2>5
<1> QED
  BY <1>1, <1>2, EventsHaveBodies DEF b, Now

\* What the ranker recorded is a snapshot or nothing.
LEMMA SnapshotsAreTyped ==
    ASSUME TypeOK, NEW u, NEW p, NEW s
    PROVE  IssuedSnapshot(u, p, s) \in Snapshot \cup {None}
<1> DEFINE rows == {r \in issued : r.user = u /\ r.paper = p /\ r.feed = s}
<1>1. CASE rows = {}
  BY <1>1 DEF IssuedSnapshot
<1>2. CASE rows # {}
  <2>1. (CHOOSE r \in rows : TRUE) \in rows
    BY <1>2
  <2>2. (CHOOSE r \in rows : TRUE) \in IssuedRow
    BY <2>1 DEF TypeOK
  <2>3. (CHOOSE r \in rows : TRUE).snapshot \in Snapshot
    BY <2>2 DEF IssuedRow
  <2> QED
    BY <1>2, <2>3 DEF IssuedSnapshot
<1> QED
  BY <1>1, <1>2

\* ON CONFLICT DO NOTHING: the event is skipped, or its row is a new one that no
\* open transaction has written and that nobody has learned from.
LEMMA InsertEventKeepsInv ==
    ASSUME TypeOK, IInv, NEW h \in Handlers, InsertEvent(h)
    PROVE  TypeOK' /\ IInv'
<1>0. tx[h].pc = "insert" /\ WaitsFor(h) = {} /\ UNCHANGED <<tables, known>>
  BY DEF InsertEvent
<1>1. CASE Duplicate(Now(h)) \/ InThisBatch(h, Now(h))
  <2>1. tx' = [tx EXCEPT ![h].pc = "next"]
    BY <1>1 DEF InsertEvent, Goto
  <2> QED
    BY <1>0, <2>1, MovingOn
<1>2. CASE ~(Duplicate(Now(h)) \/ InThisBatch(h, Now(h)))
  <2> DEFINE snap == IssuedSnapshot(tx[h].user, Body(h).paper, Body(h).session)
             row  == [id |-> Now(h), snapshot |-> snap]
             t    == [tx[h] EXCEPT !.pc = "learn", !.rows = tx[h].rows \cup {row}]
  <2>1. account[tx[h].user] # "none" /\ Body(h).paper \in papers
    BY <1>2 DEF InsertEvent
  <2>2. tx[h] \in Tx /\ tx' = [tx EXCEPT ![h] = t] /\ tx'[h] = t
    BY <1>2 DEF InsertEvent, TypeOK, Tx
  <2>3. /\ tx[h].user \in Users /\ Now(h) \in Events /\ ~tx[h].committed
        /\ EventOf[Now(h)].user = tx[h].user
    BY <1>0, BatchStep
  <2>4. row \in EventRow /\ row.id = Now(h)
    BY <2>3, SnapshotsAreTyped DEF EventRow
  <2> HIDE DEF row
  <2>5. /\ t.pc = "learn" /\ t.user = tx[h].user /\ t.batch = tx[h].batch
        /\ t.rows = tx[h].rows \cup {row}
        /\ t.issues = tx[h].issues /\ t.saves = tx[h].saves /\ t.learning = tx[h].learning
        /\ t.weight = tx[h].weight /\ t.observations = tx[h].observations
        /\ t.committed = tx[h].committed
    BY <2>2 DEF Tx
  <2>6. t \in Tx
    BY <2>2, <2>4 DEF Tx, Steps
  <2> HIDE DEF t
  <2>7. Now(h)' = Now(h) /\ Written(h)' = Written(h) \cup {Now(h)}
    BY <2>2, <2>4, <2>5 DEF Now, Written
  <2>8. /\ RequestInv(h) /\ UNCHANGED <<events, learnt, account, papers>>
        /\ Now(h) \notin Written(h) /\ Now(h) \notin EventIds
        /\ \A u \in Users : Now(h) \notin learnt[u]
    <3>1. RequestInv(h) /\ UNCHANGED <<events, learnt, account, papers>>
      BY DEF IInv, InsertEvent, tables
    <3>2. Now(h) \notin Written(h) /\ Now(h) \notin EventIds
      BY <1>2 DEF Duplicate, InThisBatch, EventIds
    <3>3. \A u \in Users : Now(h) \notin learnt[u]
      BY <2>1, <3>2 DEF IInv, LearntIsKept, Body
    <3> QED
      BY <3>1, <3>2, <3>3
  <2>9. Learns(h)' = TaughtBy(h) /\ Learns(h) = TaughtBy(h)
    <3>1. TaughtBy(h)' \ {Now(h)} = TaughtBy(h) \ {Now(h)}
      BY <2>2, <2>4, <2>5 DEF TaughtBy
    <3>2. Now(h) \notin TaughtBy(h)
      BY <2>8 DEF TaughtBy, Written
    <3> QED
      BY <1>0, <2>2, <2>5, <2>7, <3>1, <3>2 DEF Learns
  <2>10. RequestInv(h)'
    <3>1. RequestIsFormed(h)'
      BY <1>0, <2>2, <2>3, <2>5, <2>7, <2>8 DEF RequestInv, RequestIsFormed
    <3>2. WritesAreOwn(h)'
      <4>1. IsFiniteSet(Written(h)')
        BY <2>7, <2>8, FS_AddElement DEF RequestInv, WritesAreOwn
      <4>2. \A r \in t.rows : EventOf[r.id].user = t.user
        BY <2>3, <2>4, <2>5, <2>8 DEF RequestInv, WritesAreOwn
      <4>3. \A r, s \in t.rows : r.id = s.id => r = s
        <5>1. \A r \in tx[h].rows : r.id # Now(h)
          BY <2>8 DEF Written
        <5> QED
          BY <2>4, <2>5, <2>8, <5>1 DEF RequestInv, WritesAreOwn
      <4> QED
        BY <2>2, <2>5, <2>8, <4>1, <4>2, <4>3 DEF RequestInv, WritesAreOwn
    <3>3. WritesAreNew(h)'
      BY <2>1, <2>2, <2>4, <2>5, <2>8 DEF RequestInv, WritesAreNew, EventIds
    <3>4. CountsOwn(h)'
      BY <2>2, <2>5, <2>8, <2>9 DEF RequestInv, CountsOwn
    <3> QED
      BY <3>1, <3>2, <3>3, <3>4 DEF RequestInv
  <2>11. /\ profile' \subseteq Users /\ known' \subseteq Feeds
         /\ \A u \in Users : account[u] = "none" => u \notin profile'
         /\ UNCHANGED <<account, papers, issued, events, saved, weight, observations, learnt>>
    BY <1>0 DEF TypeOK, IInv, DeletedLeavesNothing, tables
  <2>12. ASSUME NEW g \in Handlers \ {h}, ~tx[g].committed, ~t.committed
         PROVE  /\ Written(g) \cap Written(h)' = {}
                /\ tx[g].learning /\ t.learning => tx[g].user # t.user
    <3>1. Now(h) \notin Written(g)
      BY <1>0, <2>12 DEF WaitsFor, HoldsEvent
    <3> QED
      BY <2>3, <2>5, <2>7, <2>12, <3>1 DEF IInv, LocksExclude
  <2> QED
    BY <2>2, <2>6, <2>10, <2>11, <2>12, StepOfOne
<1> QED
  BY <1>1, <1>2

-----------------------------------------------------------------------------
\* The row of the event the loop is at.
LEMMA RowOfNow ==
    ASSUME TypeOK, IInv, NEW h \in Handlers, tx[h].pc \in {"learn", "save"}
    PROVE  \E row \in tx[h].rows : /\ row.id = Now(h) /\ row.snapshot = SnapshotOf(h)
                                   /\ SnapshotOf(h) \in Snapshot \cup {None}
                                   /\ \A r \in tx[h].rows : r.id = Now(h) => r = row
<1> DEFINE row == CHOOSE r \in tx[h].rows : r.id = Now(h)
<1>1. Now(h) \in Written(h) /\ \A r, s \in tx[h].rows : r.id = s.id => r = s
  BY DEF IInv, RequestInv, RequestIsFormed, WritesAreOwn
<1>2. \E r \in tx[h].rows : r.id = Now(h)
  BY <1>1 DEF Written
<1>3. row \in tx[h].rows /\ row.id = Now(h)
  BY <1>2
<1>4. row \in EventRow
  BY <1>3 DEF TypeOK
<1>5. row.snapshot = SnapshotOf(h)
  BY DEF SnapshotOf
<1> QED
  BY <1>1, <1>3, <1>4, <1>5 DEF EventRow

\* An event is among those that taught exactly if it teaches.
LEMMA TaughtIfTeaches ==
    ASSUME TypeOK, IInv, NEW h \in Handlers, tx[h].pc \in {"learn", "save"}
    PROVE  Now(h) \in TaughtBy(h) <=> Teaches(h)
<1>1. PICK row \in tx[h].rows : /\ row.id = Now(h) /\ row.snapshot = SnapshotOf(h)
                                /\ \A r \in tx[h].rows : r.id = Now(h) => r = row
  BY RowOfNow
<1>2. Now(h) \in TaughtBy(h) => Teaches(h)
  BY <1>1 DEF TaughtBy, Teaches, Body
<1>3. Teaches(h) => Now(h) \in TaughtBy(h)
  BY <1>1 DEF TaughtBy, Teaches, Body
<1> QED
  BY <1>2, <1>3

\* A step of learning moves a weight by no more than a feature value, and the
\* bounds hold from the first value on.
LEMMA LearnedIsBounded ==
    ASSUME NEW w \in [Features -> (-MaxWeight)..MaxWeight], NEW n, NEW type,
           NEW snap \in Snapshot
    PROVE  Learned(w, n, type, snap) \in [Features -> (-MaxWeight)..MaxWeight]
<1>1. ASSUME NEW f \in Features
      PROVE  Delta(type, f, snap[f]) \in (-MaxWeight)..MaxWeight
  <2>1. snap[f] \in 0..MaxValue /\ MaxValue <= MaxWeight /\ MaxValue \in Nat /\ MaxWeight \in Nat
    BY ValuesAreBounded DEF Snapshot
  <2>2. Direction[f] = 1 \/ Direction[f] = -1
    BY DirectionIsASign
  <2>3. Delta(type, f, snap[f]) = snap[f] \/ Delta(type, f, snap[f]) = -snap[f]
    <3>1. CASE Direction[f] = 1
      BY <2>1, <3>1 DEF Delta
    <3>2. CASE Direction[f] = -1
      BY <2>1, <3>2 DEF Delta
    <3> QED
      BY <2>2, <3>1, <3>2
  <2> QED
    BY <2>1, <2>3
<1>2. ASSUME NEW f \in Features
      PROVE  (IF n[f] = 0 THEN Delta(type, f, snap[f])
              ELSE Least(MaxWeight, Greatest(-MaxWeight, w[f] + Delta(type, f, snap[f]))))
                \in (-MaxWeight)..MaxWeight
  <2>1. w[f] + Delta(type, f, snap[f]) \in Int /\ MaxWeight \in Nat
    BY <1>1, ValuesAreBounded
  <2> QED
    BY <1>1, <2>1 DEF Least, Greatest
<1> QED
  BY <1>2 DEF Learned

LEMMA LearnKeepsInv ==
    ASSUME TypeOK, IInv, NEW h \in Handlers, Learn(h)
    PROVE  TypeOK' /\ IInv'
<1>0. tx[h].pc = "learn" /\ UNCHANGED <<tables, known>>
  BY DEF Learn
<1>1. CASE ~Teaches(h)
  <2>1. tx' = [tx EXCEPT ![h].pc = "save"]
    BY <1>1 DEF Learn, Goto
  <2>2. Now(h) \notin TaughtBy(h)
    BY <1>0, <1>1, TaughtIfTeaches
  <2> QED
    BY <1>0, <2>1, <2>2, MovingOn
<1>2. CASE Teaches(h)
  <2> DEFINE u == tx[h].user
             w == IF tx[h].learning THEN tx[h].weight ELSE weight[u]
             n == IF tx[h].learning THEN tx[h].observations ELSE observations[u]
             learned == Learned(w, n, Body(h).type, SnapshotOf(h))
             counted == [f \in Features |-> n[f] + 1]
             t == [tx[h] EXCEPT !.pc = "save", !.learning = TRUE, !.weight = learned,
                                !.observations = counted]
  <2>1. /\ tx[h] \in Tx /\ tx' = [tx EXCEPT ![h] = t] /\ tx'[h] = t
        /\ WaitsFor(h) = {}
    BY <1>2 DEF Learn, TypeOK, Tx
  <2>2. RequestInv(h) /\ u \in Users /\ ~tx[h].committed /\ Now(h) \in Events
    BY <1>0, BatchStep DEF IInv
  <2>3. w \in [Features -> (-MaxWeight)..MaxWeight] /\ n \in [Features -> Nat]
    BY <2>2 DEF RequestInv, RequestIsFormed, TypeOK
  <2>4. SnapshotOf(h) \in Snapshot
    BY <1>0, <1>2, RowOfNow DEF Teaches
  <2>5. learned \in [Features -> (-MaxWeight)..MaxWeight] /\ counted \in [Features -> Nat]
    BY <2>3, <2>4, LearnedIsBounded
  <2>6. \A f \in Features : counted[f] = n[f] + 1
    OBVIOUS
  <2> HIDE DEF w, learned, counted
  <2>7. /\ t.pc = "save" /\ t.user = u /\ t.batch = tx[h].batch /\ t.rows = tx[h].rows
        /\ t.issues = tx[h].issues /\ t.saves = tx[h].saves /\ t.learning = TRUE
        /\ t.weight = learned /\ t.observations = counted /\ t.committed = tx[h].committed
    BY <2>1 DEF Tx
  <2>8. t \in Tx
    BY <2>1, <2>5 DEF Tx, Steps
  <2> HIDE DEF t
  <2>9. Written(h)' = Written(h) /\ Now(h)' = Now(h) /\ TaughtBy(h)' = TaughtBy(h)
    BY <2>1, <2>7 DEF Written, Now, TaughtBy
  <2>10. UNCHANGED <<events, learnt, account>>
    BY <1>0 DEF tables
  <2>11. Learns(h)' = Learns(h) \cup {Now(h)} /\ Now(h) \notin Learns(h) /\ Now(h) \notin learnt[u]
    <3>1. Learns(h)' = TaughtBy(h) /\ Learns(h) = TaughtBy(h) \ {Now(h)}
      BY <1>0, <2>1, <2>7, <2>9 DEF Learns
    <3>2. Now(h) \in TaughtBy(h)
      BY <1>0, <1>2, TaughtIfTeaches
    <3>3. Now(h) \notin learnt[u]
      <4>1. PICK row \in tx[h].rows : row.id = Now(h)
        BY <1>0, RowOfNow
      <4> QED
        BY <2>2, <4>1 DEF RequestInv, WritesAreNew
    <3> QED
      BY <3>1, <3>2, <3>3
  <2>12. \A f \in Features : counted[f] = Cardinality(learnt[u] \cup Learns(h)')
    <3> DEFINE before == learnt[u] \cup Learns(h)
    <3>1. IsFiniteSet(before)
      <4>1. IsFiniteSet(learnt[u]) /\ IsFiniteSet(Written(h))
        BY <2>2 DEF IInv, LearntIsKept, RequestInv, WritesAreOwn
      <4>2. Learns(h) \subseteq Written(h)
        BY DEF Learns, TaughtBy, Written
      <4> QED
        BY <4>1, <4>2, FS_Subset, FS_Union
    <3>2. Cardinality(before \cup {Now(h)}) = Cardinality(before) + 1
      BY <2>11, <3>1, FS_AddElement
    <3>3. before \cup {Now(h)} = learnt[u] \cup Learns(h)'
      BY <2>11
    <3>4. \A f \in Features : n[f] = Cardinality(before)
      <4>1. CASE tx[h].learning
        BY <2>2, <4>1 DEF RequestInv, CountsOwn
      <4>2. CASE ~tx[h].learning
        <5>1. Learns(h) = {}
          BY <2>2, <4>2 DEF RequestInv, CountsOwn
        <5>2. before = learnt[u]
          BY <5>1
        <5>3. \A f \in Features : n[f] = Cardinality(learnt[u])
          BY <2>2, <4>2 DEF IInv, LearnedOnce
        <5> QED
          BY <5>2, <5>3
      <4> QED
        BY <4>1, <4>2
    <3> QED
      BY <2>6, <3>2, <3>3, <3>4
  <2>13. RequestInv(h)'
    <3>1. RequestIsFormed(h)'
      <4>1. tx[h].rows # {}
        BY <1>0, RowOfNow
      <4> QED
        BY <1>0, <2>1, <2>2, <2>5, <2>7, <2>9, <4>1 DEF RequestInv, RequestIsFormed
    <3>2. WritesAreOwn(h)'
      BY <2>1, <2>2, <2>7, <2>9 DEF RequestInv, WritesAreOwn
    <3>3. WritesAreNew(h)'
      BY <2>1, <2>2, <2>7, <2>10 DEF RequestInv, WritesAreNew, EventIds
    <3>4. CountsOwn(h)'
      BY <2>1, <2>7, <2>10, <2>12 DEF CountsOwn
    <3> QED
      BY <3>1, <3>2, <3>3, <3>4 DEF RequestInv
  <2>14. /\ profile' \subseteq Users /\ known' \subseteq Feeds
         /\ \A v \in Users : account[v] = "none" => v \notin profile'
         /\ UNCHANGED <<account, papers, issued, events, saved, weight, observations, learnt>>
    BY <1>0 DEF TypeOK, IInv, DeletedLeavesNothing, tables
  <2>15. ASSUME NEW g \in Handlers \ {h}, ~tx[g].committed, ~t.committed
         PROVE  /\ Written(g) \cap Written(h)' = {}
                /\ tx[g].learning /\ t.learning => tx[g].user # t.user
    <3>1. tx[g].learning => tx[g].user # u
      BY <1>0, <2>1, <2>15 DEF WaitsFor, HoldsWeights
    <3> QED
      BY <2>2, <2>7, <2>9, <2>15, <3>1 DEF IInv, LocksExclude
  <2> QED
    BY <2>1, <2>8, <2>13, <2>14, <2>15, StepOfOne
<1> QED
  BY <1>1, <1>2

LEMMA SaveKeepsInv ==
    ASSUME TypeOK, IInv, NEW h \in Handlers, Save(h)
    PROVE  TypeOK' /\ IInv'
<1>0. tx[h].pc = "save" /\ UNCHANGED <<tables, known>>
  BY DEF Save
<1>1. CASE Body(h).type # "save"
  <2>1. tx' = [tx EXCEPT ![h].pc = "next"]
    BY <1>1 DEF Save, Goto
  <2> QED
    BY <1>0, <2>1, MovingOn
<1>2. CASE Body(h).type = "save"
  <2> DEFINE more == {Body(h).paper} \ saved[tx[h].user]
             t == [tx[h] EXCEPT !.pc = "next", !.saves = tx[h].saves \cup more]
  <2>1. tx[h] \in Tx /\ tx' = [tx EXCEPT ![h] = t] /\ tx'[h] = t
    BY <1>2 DEF Save, TypeOK, Tx
  <2>2. RequestInv(h) /\ Body(h).paper \in Papers /\ UNCHANGED <<events, learnt, account>>
    BY <1>0, BatchStep DEF IInv, Body, tables
  <2>3. more \subseteq {Body(h).paper}
    OBVIOUS
  <2> HIDE DEF more
  <2>4. /\ t.pc = "next" /\ t.user = tx[h].user /\ t.batch = tx[h].batch /\ t.rows = tx[h].rows
        /\ t.issues = tx[h].issues /\ t.saves = tx[h].saves \cup more
        /\ t.learning = tx[h].learning /\ t.weight = tx[h].weight
        /\ t.observations = tx[h].observations /\ t.committed = tx[h].committed
    BY <2>1 DEF Tx
  <2>5. t \in Tx
    BY <2>1, <2>2, <2>3 DEF Tx, Steps
  <2> HIDE DEF t
  <2>6. Written(h)' = Written(h) /\ Now(h)' = Now(h) /\ TaughtBy(h)' = TaughtBy(h)
    BY <2>1, <2>4 DEF Written, Now, TaughtBy
  <2>7. RequestInv(h)'
    <3>1. RequestIsFormed(h)'
      BY <1>0, <2>1, <2>2, <2>4, <2>6 DEF RequestInv, RequestIsFormed
    <3>2. WritesAreOwn(h)'
      <4>1. PICK row \in tx[h].rows : row.id = Now(h)
        BY <1>0, RowOfNow
      <4>2. \A p \in t.saves : \E r \in tx[h].rows :
               EventOf[r.id].paper = p /\ EventOf[r.id].type = "save"
        BY <1>2, <2>2, <2>3, <2>4, <4>1 DEF RequestInv, WritesAreOwn, Body
      <4> QED
        BY <2>1, <2>2, <2>4, <2>6, <4>2 DEF RequestInv, WritesAreOwn
    <3>3. WritesAreNew(h)'
      BY <2>1, <2>2, <2>4 DEF RequestInv, WritesAreNew, EventIds
    <3>4. CountsOwn(h)'
      <4>1. Learns(h)' = Learns(h)
        BY <1>0, <2>1, <2>4, <2>6 DEF Learns
      <4> QED
        BY <2>1, <2>2, <2>4, <4>1 DEF RequestInv, CountsOwn
    <3> QED
      BY <3>1, <3>2, <3>3, <3>4 DEF RequestInv
  <2>8. /\ profile' \subseteq Users /\ known' \subseteq Feeds
        /\ \A v \in Users : account[v] = "none" => v \notin profile'
        /\ UNCHANGED <<account, papers, issued, events, saved, weight, observations, learnt>>
    BY <1>0 DEF TypeOK, IInv, DeletedLeavesNothing, tables
  <2>9. ASSUME NEW g \in Handlers \ {h}, ~tx[g].committed, ~t.committed
        PROVE  /\ Written(g) \cap Written(h)' = {}
               /\ tx[g].learning /\ t.learning => tx[g].user # t.user
    BY <2>4, <2>6, <2>9 DEF IInv, LocksExclude
  <2> QED
    BY <2>1, <2>5, <2>7, <2>8, <2>9, StepOfOne
<1> QED
  BY <1>1, <1>2

LEMMA NextEventKeepsInv ==
    ASSUME TypeOK, IInv, NEW h \in Handlers, NextEvent(h)
    PROVE  TypeOK' /\ IInv'
<1> DEFINE rest == Tail(tx[h].batch)
           t == [tx[h] EXCEPT !.batch = rest, !.pc = IF rest = << >> THEN "done" ELSE "insert"]
<1>1. /\ tx[h] \in Tx /\ tx' = [tx EXCEPT ![h] = t] /\ tx'[h] = t /\ tx[h].pc = "next"
      /\ UNCHANGED <<tables, known>>
  BY DEF NextEvent, TypeOK, Tx
<1>2. /\ RequestInv(h) /\ rest \in Seq(Events) /\ ~tx[h].committed /\ tx[h].user \in Users
      /\ \A i \in DOMAIN rest : EventOf[rest[i]].user = tx[h].user
      /\ UNCHANGED <<events, learnt, account>>
  BY <1>1, BatchStep DEF IInv, tables
<1> HIDE DEF rest
<1>3. /\ t.pc = (IF rest = << >> THEN "done" ELSE "insert") /\ t.user = tx[h].user /\ t.batch = rest
      /\ t.rows = tx[h].rows
      /\ t.issues = tx[h].issues /\ t.saves = tx[h].saves
      /\ t.learning = tx[h].learning /\ t.weight = tx[h].weight
      /\ t.observations = tx[h].observations /\ t.committed = tx[h].committed
  BY <1>1 DEF Tx
<1>4. t \in Tx
  BY <1>1, <1>2 DEF Tx, Steps
<1> HIDE DEF t
<1>5. Written(h)' = Written(h) /\ TaughtBy(h)' = TaughtBy(h)
  BY <1>1, <1>3 DEF Written, TaughtBy
<1>6. RequestInv(h)'
  <2>1. RequestIsFormed(h)'
    BY <1>1, <1>2, <1>3 DEF RequestInv, RequestIsFormed
  <2>2. WritesAreOwn(h)'
    BY <1>1, <1>2, <1>3, <1>5 DEF RequestInv, WritesAreOwn
  <2>3. WritesAreNew(h)'
    BY <1>1, <1>2, <1>3 DEF RequestInv, WritesAreNew, EventIds
  <2>4. CountsOwn(h)'
    <3>1. Learns(h)' = Learns(h)
      BY <1>1, <1>3, <1>5 DEF Learns
    <3> QED
      BY <1>1, <1>2, <1>3, <3>1 DEF RequestInv, CountsOwn
  <2> QED
    BY <2>1, <2>2, <2>3, <2>4 DEF RequestInv
<1>7. /\ profile' \subseteq Users /\ known' \subseteq Feeds
      /\ \A v \in Users : account[v] = "none" => v \notin profile'
      /\ UNCHANGED <<account, papers, issued, events, saved, weight, observations, learnt>>
  BY <1>1 DEF TypeOK, IInv, DeletedLeavesNothing, tables
<1>8. ASSUME NEW g \in Handlers \ {h}, ~tx[g].committed, ~t.committed
      PROVE  /\ Written(g) \cap Written(h)' = {}
             /\ tx[g].learning /\ t.learning => tx[g].user # t.user
  BY <1>3, <1>5, <1>8 DEF IInv, LocksExclude
<1> QED
  BY <1>1, <1>4, <1>6, <1>7, <1>8, StepOfOne

-----------------------------------------------------------------------------
LEMMA AnswerKeepsInv ==
    ASSUME TypeOK, IInv, NEW h \in Handlers, Answer(h)
    PROVE  TypeOK' /\ IInv'
<1> DEFINE t == IF tx[h].committed THEN Idle ELSE [tx[h] EXCEPT !.answered = TRUE]
<1>1. /\ tx[h] \in Tx /\ tx' = [tx EXCEPT ![h] = t] /\ tx'[h] = t /\ tx[h].pc = "done"
      /\ UNCHANGED tables
  BY DEF Answer, TypeOK, Tx
<1>2. known' \subseteq Feeds
  <2>1. \A r \in tx[h].issues : r.feed \in Feeds
    BY <1>1 DEF Tx, IssuedRow
  <2> QED
    BY <2>1 DEF Answer, SessionOf, TypeOK
<1>3. RequestInv(h) /\ UNCHANGED <<events, learnt, account>>
  BY <1>1 DEF IInv, tables
<1>4. /\ profile' \subseteq Users
      /\ \A v \in Users : account[v] = "none" => v \notin profile'
      /\ UNCHANGED <<account, papers, issued, events, saved, weight, observations, learnt>>
  BY <1>1 DEF TypeOK, IInv, DeletedLeavesNothing, tables
<1>5. CASE tx[h].committed
  <2>1. t = Idle
    BY <1>5
  <2> HIDE DEF t
  <2>2. RequestInv(h)' /\ Written(h)' = {} /\ ~t.learning
    BY <1>1, <2>1, IdleKeepsInv
  <2> QED
    BY <1>1, <1>2, <1>4, <2>1, <2>2, IdleIsARequest, StepOfOne
<1>6. CASE ~tx[h].committed
  <2>1. /\ t.pc = "done" /\ t.user = tx[h].user /\ t.batch = tx[h].batch /\ t.rows = tx[h].rows
        /\ t.issues = tx[h].issues /\ t.saves = tx[h].saves /\ t.learning = tx[h].learning
        /\ t.weight = tx[h].weight /\ t.observations = tx[h].observations
        /\ t.committed = tx[h].committed
    BY <1>1, <1>6 DEF Tx
  <2>2. t \in Tx
    BY <1>1, <1>6 DEF Tx
  <2> HIDE DEF t
  <2>3. Written(h)' = Written(h) /\ TaughtBy(h)' = TaughtBy(h)
    BY <1>1, <2>1 DEF Written, TaughtBy
  <2>4. RequestInv(h)'
    <3>1. RequestIsFormed(h)'
      BY <1>1, <1>3, <2>1 DEF RequestInv, RequestIsFormed
    <3>2. WritesAreOwn(h)'
      BY <1>1, <1>3, <2>1, <2>3 DEF RequestInv, WritesAreOwn
    <3>3. WritesAreNew(h)'
      BY <1>1, <1>3, <2>1 DEF RequestInv, WritesAreNew, EventIds
    <3>4. Learns(h)' = Learns(h)
      BY <1>1, <2>1, <2>3 DEF Learns
    <3>5. CountsOwn(h)'
      BY <1>1, <1>3, <2>1, <3>4 DEF RequestInv, CountsOwn
    <3> QED
      BY <3>1, <3>2, <3>3, <3>5 DEF RequestInv
  <2>5. ASSUME NEW g \in Handlers \ {h}, ~tx[g].committed, ~t.committed
        PROVE  /\ Written(g) \cap Written(h)' = {}
               /\ tx[g].learning /\ t.learning => tx[g].user # t.user
    BY <2>1, <2>3, <2>5 DEF IInv, LocksExclude
  <2> QED
    BY <1>1, <1>2, <1>4, <2>2, <2>4, <2>5, StepOfOne
<1> QED
  BY <1>5, <1>6

-----------------------------------------------------------------------------
\* What a request that is done has learned from is what its rows taught.
LEMMA DoneHasLearned ==
    ASSUME IInv, NEW h \in Handlers, tx[h].pc = "done", ~tx[h].committed
    PROVE  /\ IF tx[h].learning
              THEN \A f \in Features : tx[h].observations[f]
                                       = Cardinality(learnt[tx[h].user] \cup TaughtBy(h))
              ELSE TaughtBy(h) = {}
           /\ TaughtBy(h) \subseteq Written(h)
<1>1. Learns(h) = TaughtBy(h)
  BY DEF Learns
<1>2. TaughtBy(h) \subseteq Written(h)
  BY DEF TaughtBy, Written
<1> QED
  BY <1>1, <1>2 DEF IInv, RequestInv, CountsOwn

LEMMA LearnerIsAReader ==
    ASSUME TypeOK, IInv, NEW g \in Handlers, tx[g].learning
    PROVE  tx[g].user \in Users /\ tx[g].rows # {}
<1>1. PICK r \in tx[g].rows : TRUE
  BY DEF IInv, RequestInv, RequestIsFormed
<1>2. r.id \in Events
  BY <1>1 DEF TypeOK, EventRow
<1>3. EventOf[r.id].user \in Users
  BY <1>2, EventsHaveBodies
<1> QED
  BY <1>1, <1>3 DEF IInv, RequestInv, WritesAreOwn

LEMMA CommitIsTyped ==
    ASSUME TypeOK, IInv, NEW h \in Handlers, Commit(h)
    PROVE  TypeOK'
<1> DEFINE u == tx[h].user
           t == IF tx[h].answered THEN Idle ELSE [tx[h] EXCEPT !.committed = TRUE]
<1>1. /\ tx[h] \in Tx /\ tx' = [tx EXCEPT ![h] = t] /\ u \in Users
      /\ UNCHANGED <<account, profile, papers, known>>
  BY DEF Commit, TypeOK, Tx, IInv, RequestInv, RequestIsFormed
<1>2. t \in Tx
  BY <1>1, IdleIsARequest DEF Tx
<1>3. tx' \in [Handlers -> Tx]
  BY <1>1, <1>2 DEF TypeOK, Tx
<1>4. events' \subseteq EventRow /\ issued' \subseteq IssuedRow
  BY <1>1 DEF Commit, TypeOK, Tx
<1>5. saved' \in [Users -> SUBSET Papers]
  BY <1>1 DEF Commit, TypeOK, Tx
<1>6. /\ weight' \in [Users -> [Features -> (-MaxWeight)..MaxWeight]]
      /\ observations' \in [Users -> [Features -> Nat]]
  <2>1. tx[h].learning => /\ tx[h].weight \in [Features -> (-MaxWeight)..MaxWeight]
                          /\ tx[h].observations \in [Features -> Nat]
    BY DEF IInv, RequestInv, RequestIsFormed
  <2> QED
    BY <1>1, <2>1 DEF Commit, TypeOK
<1>7. learnt' \in [Users -> SUBSET Events]
  <2>1. TaughtBy(h) \subseteq Events
    BY <1>1 DEF TaughtBy, Tx, EventRow
  <2> QED
    BY <1>1, <2>1 DEF Commit, TypeOK
<1> QED
  BY <1>1, <1>3, <1>4, <1>5, <1>6, <1>7 DEF TypeOK, Tx

\* The commit makes the rows of one request everybody's: what the locks kept
\* apart stays apart.
LEMMA CommitKeepsInv ==
    ASSUME TypeOK, IInv, NEW h \in Handlers, Commit(h)
    PROVE  TypeOK' /\ IInv'
<1> DEFINE u == tx[h].user
           t == IF tx[h].answered THEN Idle ELSE [tx[h] EXCEPT !.committed = TRUE]
<1>1. /\ tx[h] \in Tx /\ tx' = [tx EXCEPT ![h] = t] /\ tx'[h] = t /\ tx[h].pc = "done"
      /\ ~tx[h].committed /\ UNCHANGED <<account, profile, papers, known>>
      /\ \A g \in Handlers \ {h} : tx'[g] = tx[g]
  BY DEF Commit, TypeOK, Tx
<1>2. RequestInv(h) /\ u \in Users
  BY <1>1 DEF IInv, RequestInv, RequestIsFormed
<1>3. /\ IF tx[h].learning
         THEN \A f \in Features : tx[h].observations[f] = Cardinality(learnt[u] \cup TaughtBy(h))
         ELSE TaughtBy(h) = {}
      /\ TaughtBy(h) \subseteq Written(h)
  BY <1>1, DoneHasLearned
<1>4. /\ EventIds' = EventIds \cup Written(h)
      /\ learnt'[u] = learnt[u] \cup TaughtBy(h)
      /\ \A v \in Users \ {u} : learnt'[v] = learnt[v]
  BY <1>2 DEF Commit, EventIds, Written, TypeOK
<1>5. t.committed \/ t = Idle
  BY <1>1 DEF Tx
<1>6. RequestInv(h)' /\ ((~t.committed) => Written(h)' = {} /\ ~t.learning)
  <2>1. CASE tx[h].answered
    BY <1>1, <2>1, IdleKeepsInv
  <2>2. CASE ~tx[h].answered
    <3>1. /\ t.pc = "done" /\ t.user = tx[h].user /\ t.batch = tx[h].batch
          /\ t.rows = tx[h].rows /\ t.issues = tx[h].issues /\ t.saves = tx[h].saves
          /\ t.learning = tx[h].learning /\ t.weight = tx[h].weight
          /\ t.observations = tx[h].observations /\ t.committed = TRUE
      BY <1>1, <2>2 DEF Tx
    <3> HIDE DEF t
    <3>2. Written(h)' = Written(h)
      BY <1>1, <3>1 DEF Written
    <3>3. RequestIsFormed(h)'
      BY <1>1, <1>2, <3>1 DEF RequestInv, RequestIsFormed
    <3>4. WritesAreOwn(h)'
      BY <1>1, <1>2, <3>1, <3>2 DEF RequestInv, WritesAreOwn
    <3>5. WritesAreNew(h)' /\ CountsOwn(h)'
      BY <1>1, <3>1 DEF WritesAreNew, CountsOwn
    <3> QED
      BY <3>1, <3>3, <3>4, <3>5 DEF RequestInv
  <2> QED
    BY <2>1, <2>2
<1> HIDE DEF t
<1>7. ASSUME NEW g \in Handlers \ {h}
      PROVE  RequestInv(g)' /\ Written(g)' = Written(g)
  <2>1. RequestInv(g) /\ tx'[g] = tx[g]
    BY <1>1 DEF IInv
  <2>2. /\ Written(g)' = Written(g) /\ Now(g)' = Now(g) /\ TaughtBy(g)' = TaughtBy(g)
        /\ Learns(g)' = Learns(g)
    BY <2>1 DEF Written, Now, TaughtBy, Learns
  <2>3. RequestIsFormed(g)' /\ WritesAreOwn(g)'
    BY <2>1, <2>2 DEF RequestInv, RequestIsFormed, WritesAreOwn
  <2>4. ~tx[g].committed => Written(g) \cap Written(h) = {}
    BY <1>1 DEF IInv, LocksExclude
  <2>5. WritesAreNew(g)'
    <3> SUFFICES ASSUME ~tx[g].committed
                 PROVE  /\ \A r \in tx[g].rows : /\ r.id \notin EventIds'
                                                 /\ \A v \in Users : r.id \notin learnt'[v]
                        /\ tx[g].rows # {} \/ tx[g].issues # {} => account'[tx[g].user] # "none"
      BY <2>1 DEF WritesAreNew
    <3>1. \A r \in tx[g].rows : r.id \in Written(g)
      BY DEF Written
    <3>2. \A r \in tx[g].rows : r.id \notin EventIds'
      BY <1>4, <2>1, <2>4, <3>1 DEF RequestInv, WritesAreNew
    <3>3. \A r \in tx[g].rows, v \in Users : r.id \notin learnt'[v]
      BY <1>3, <1>4, <2>1, <2>4, <3>1 DEF RequestInv, WritesAreNew
    <3> QED
      BY <1>1, <2>1, <3>2, <3>3 DEF RequestInv, WritesAreNew
  <2>6. CountsOwn(g)'
    <3> SUFFICES ASSUME ~tx[g].committed
                 PROVE  IF tx[g].learning
                        THEN \A f \in Features :
                                tx[g].observations[f] = Cardinality(learnt'[tx[g].user] \cup Learns(g))
                        ELSE Learns(g) = {}
      BY <2>1, <2>2 DEF CountsOwn
    <3>1. CASE ~tx[g].learning
      BY <2>1, <3>1 DEF RequestInv, CountsOwn
    <3>2. CASE tx[g].learning
      <4>1. tx[g].user \in Users
        BY <3>2, LearnerIsAReader
      <4>2. learnt'[tx[g].user] = learnt[tx[g].user]
        <5>1. CASE tx[g].user # u
          BY <1>4, <4>1, <5>1
        <5>2. CASE tx[g].user = u
          <6>1. ~tx[h].learning
            BY <1>1, <3>2, <5>2 DEF IInv, LocksExclude
          <6> QED
            BY <1>3, <1>4, <5>2, <6>1
        <5> QED
          BY <5>1, <5>2
      <4> QED
        BY <2>1, <3>2, <4>2 DEF RequestInv, CountsOwn
    <3> QED
      BY <3>1, <3>2
  <2> QED
    BY <2>2, <2>3, <2>5, <2>6 DEF RequestInv
<1>8. \A g \in Handlers : RequestInv(g)'
  BY <1>6, <1>7
<1>9. LocksExclude'
  <2> SUFFICES ASSUME NEW f \in Handlers, NEW g \in Handlers, f # g,
                      ~tx'[f].committed, ~tx'[g].committed
               PROVE  /\ Written(f)' \cap Written(g)' = {}
                      /\ tx'[f].learning /\ tx'[g].learning => tx'[f].user # tx'[g].user
    BY DEF LocksExclude
  <2>1. CASE f = h
    BY <2>1, <1>1, <1>6
  <2>2. CASE g = h
    BY <2>2, <1>1, <1>6
  <2>3. CASE f # h /\ g # h
    BY <2>3, <1>1, <1>7 DEF IInv, LocksExclude
  <2> QED
    BY <2>1, <2>2, <2>3
<1>10. LearntIsKept'
  <2>1. IsFiniteSet(learnt[u] \cup TaughtBy(h))
    <3>1. IsFiniteSet(learnt[u]) /\ IsFiniteSet(Written(h))
      BY <1>2 DEF IInv, LearntIsKept, RequestInv, WritesAreOwn
    <3> QED
      BY <1>3, <3>1, FS_Subset, FS_Union
  <2>2. \A e \in Written(h) : EventOf[e].user = u /\ e \in EventIds'
    BY <1>2, <1>4 DEF RequestInv, WritesAreOwn, Written
  <2>3. ASSUME NEW v \in Users
        PROVE  /\ IsFiniteSet(learnt'[v])
               /\ \A e \in learnt'[v] : /\ EventOf[e].user = v
                                        /\ e \in EventIds' \/ EventOf[e].paper \notin papers'
    <3>1. CASE v = u
      BY <1>1, <1>2, <1>3, <1>4, <2>1, <2>2, <3>1 DEF IInv, LearntIsKept
    <3>2. CASE v # u
      BY <1>1, <1>4, <3>2 DEF IInv, LearntIsKept
    <3> QED
      BY <3>1, <3>2
  <2> QED
    BY <2>3 DEF LearntIsKept
<1>11. LearnedOnce'
  <2>1. ASSUME NEW v \in Users, NEW f \in Features
        PROVE  observations'[v][f] = Cardinality(learnt'[v])
    <3>1. observations[v][f] = Cardinality(learnt[v])
      BY DEF IInv, LearnedOnce
    <3>2. CASE v # u
      BY <1>2, <1>4, <3>1, <3>2 DEF Commit, TypeOK
    <3>3. CASE v = u /\ tx[h].learning
      <4>1. observations'[u] = tx[h].observations
        BY <1>2, <3>3 DEF Commit, TypeOK
      <4> QED
        BY <1>3, <1>4, <3>3, <4>1
    <3>4. CASE v = u /\ ~tx[h].learning
      <4>1. observations'[u] = observations[u]
        BY <1>2, <3>4 DEF Commit, TypeOK
      <4>2. learnt'[u] = learnt[u]
        BY <1>3, <1>4, <3>4
      <4> QED
        BY <3>1, <3>4, <4>1, <4>2
    <3> QED
      BY <3>2, <3>3, <3>4
  <2> QED
    BY <2>1 DEF LearnedOnce
<1>12. DeletedLeavesNothing'
  <2> SUFFICES ASSUME NEW v \in Users, account'[v] = "none"
               PROVE  /\ v \notin profile' /\ saved'[v] = {}
                      /\ \A r \in issued' : r.user # v
                      /\ \A r \in events' : EventOf[r.id].user # v
                      /\ \A f \in Features : observations'[v][f] = 0
    BY DEF DeletedLeavesNothing
  <2>1. /\ v \notin profile /\ saved[v] = {}
        /\ \A r \in issued : r.user # v
        /\ \A r \in events : EventOf[r.id].user # v
        /\ \A f \in Features : observations[v][f] = 0
    BY <1>1 DEF IInv, DeletedLeavesNothing
  <2>2. CASE v # u
    <3>1. saved'[v] = saved[v] /\ observations'[v] = observations[v]
      BY <1>2, <2>2 DEF Commit, TypeOK
    <3>2. \A r \in tx[h].rows : EventOf[r.id].user # v
      BY <1>2, <2>2 DEF RequestInv, WritesAreOwn
    <3>3. \A r \in tx[h].issues : r.user # v
      BY <1>2, <2>2 DEF RequestInv, WritesAreOwn
    <3> QED
      BY <1>1, <2>1, <3>1, <3>2, <3>3 DEF Commit
  <2>3. CASE v = u
    <3>1. tx[h].rows = {} /\ tx[h].issues = {}
      BY <1>1, <1>2, <2>3 DEF RequestInv, WritesAreNew
    <3>2. tx[h].saves = {} /\ ~tx[h].learning
      BY <1>2, <3>1 DEF RequestInv, WritesAreOwn, RequestIsFormed
    <3>3. saved'[v] = saved[v] /\ observations'[v] = observations[v]
      BY <1>2, <2>3, <3>2 DEF Commit, TypeOK
    <3> QED
      BY <1>1, <2>1, <3>1, <3>3 DEF Commit
  <2> QED
    BY <2>2, <2>3
<1> QED
  BY <1>8, <1>9, <1>10, <1>11, <1>12, CommitIsTyped DEF IInv

-----------------------------------------------------------------------------
\* The process stops: every request is at rest.
LEMMA CrashKeepsInv ==
    ASSUME TypeOK, IInv, Crash
    PROVE  TypeOK' /\ IInv'
<1>1. /\ tx' = [h \in Handlers |-> Idle] /\ UNCHANGED <<tables, known>>
      /\ \A h \in Handlers : tx'[h] = Idle
  BY DEF Crash
<1>2. tx' \in [Handlers -> Tx]
  BY <1>1, IdleIsARequest
<1>3. TypeOK'
  BY <1>1, <1>2 DEF TypeOK, Tx, tables
<1>4. \A h \in Handlers : RequestInv(h)' /\ Written(h)' = {} /\ ~tx'[h].learning
  BY <1>1, IdleKeepsInv
<1>5. LocksExclude'
  BY <1>4 DEF LocksExclude
<1>6. LearntIsKept' /\ LearnedOnce' /\ DeletedLeavesNothing'
  BY <1>1 DEF IInv, LearntIsKept, EventIds, LearnedOnce, DeletedLeavesNothing, tables
<1> QED
  BY <1>3, <1>4, <1>5, <1>6 DEF IInv

\* Registering and verifying: an account comes into being, or stays.
LEMMA AccountStays ==
    ASSUME TypeOK, IInv, NEW u \in Users, NEW a \in {"unverified", "verified"},
           account' = [account EXCEPT ![u] = a],
           UNCHANGED <<profile, papers, issued, events, saved, weight, observations,
                       known, tx, learnt>>
    PROVE  TypeOK' /\ IInv'
<1>1. TypeOK'
  BY DEF TypeOK
<1>2. \A v \in Users : account'[v] = "none" => account[v] = "none"
  BY DEF TypeOK
<1>3. ASSUME NEW g \in Handlers PROVE RequestInv(g)'
  <2>1. RequestInv(g)
    BY DEF IInv
  <2>2. RequestIsFormed(g)' /\ WritesAreOwn(g)'
    BY <2>1 DEF RequestInv, RequestIsFormed, WritesAreOwn, Now, Written
  <2>3. WritesAreNew(g)'
    <3>1. ASSUME NEW x, account[x] # "none" PROVE account'[x] # "none"
      BY <3>1 DEF TypeOK
    <3> QED
      BY <2>1, <3>1 DEF RequestInv, WritesAreNew, EventIds
  <2>4. CountsOwn(g)'
    BY <2>1 DEF RequestInv, CountsOwn, Learns, TaughtBy, Now
  <2> QED
    BY <2>2, <2>3, <2>4 DEF RequestInv
<1>4. LocksExclude'
  BY DEF IInv, LocksExclude, Written
<1>5. LearntIsKept' /\ LearnedOnce'
  BY DEF IInv, LearntIsKept, EventIds, LearnedOnce
<1>6. DeletedLeavesNothing'
  BY <1>2 DEF IInv, DeletedLeavesNothing
<1> QED
  BY <1>1, <1>3, <1>4, <1>5, <1>6 DEF IInv

LEMMA RemoveSavedPaperKeepsInv ==
    ASSUME TypeOK, IInv, NEW u \in Users, NEW p \in Papers, RemoveSavedPaper(u, p)
    PROVE  TypeOK' /\ IInv'
<1>1. UNCHANGED <<account, profile, papers, issued, events, weight, observations,
                  known, tx, learnt>>
  BY DEF RemoveSavedPaper
<1>2. /\ saved' \in [Users -> SUBSET Papers]
      /\ \A v \in Users : saved'[v] \subseteq saved[v]
  BY DEF RemoveSavedPaper, TypeOK
<1>3. TypeOK'
  BY <1>1, <1>2 DEF TypeOK
<1>4. ASSUME NEW g \in Handlers PROVE RequestInv(g)'
  BY <1>1, StandingStill DEF IInv
<1>5. LocksExclude'
  BY <1>1 DEF IInv, LocksExclude, Written
<1>6. LearntIsKept' /\ LearnedOnce'
  BY <1>1 DEF IInv, LearntIsKept, EventIds, LearnedOnce
<1>7. DeletedLeavesNothing'
  BY <1>1, <1>2 DEF IInv, DeletedLeavesNothing
<1> QED
  BY <1>3, <1>4, <1>5, <1>6, <1>7 DEF IInv

\* The cascade of a deletion waits for the rows that reference the reader:
\* no open request has written anything about a reader who goes.
LEMMA DeleteAccountKeepsInv ==
    ASSUME TypeOK, IInv, NEW u \in Users, DeleteAccount(u)
    PROVE  TypeOK' /\ IInv'
<1>1. UNCHANGED <<papers, known, tx>> /\ \A h \in Handlers : ~HoldsUser(h, u)
  BY DEF DeleteAccount
<1>2. /\ account' = [account EXCEPT ![u] = "none"]
      /\ profile' = profile \ {u}
      /\ issued' = {r \in issued : r.user # u}
      /\ events' = {r \in events : EventOf[r.id].user # u}
      /\ saved' = [saved EXCEPT ![u] = {}]
      /\ weight' = [weight EXCEPT ![u] = [f \in Features |-> 0]]
      /\ observations' = [observations EXCEPT ![u] = [f \in Features |-> 0]]
      /\ learnt' = [learnt EXCEPT ![u] = {}]
  BY DEF DeleteAccount
<1>3. 0 \in (-MaxWeight)..MaxWeight
  BY ValuesAreBounded
<1>4. TypeOK'
  <2>1. /\ account' \in [Users -> {"none", "unverified", "verified"}]
        /\ saved' \in [Users -> SUBSET Papers] /\ learnt' \in [Users -> SUBSET Events]
    BY <1>2 DEF TypeOK
  <2>2. /\ weight' \in [Users -> [Features -> (-MaxWeight)..MaxWeight]]
        /\ observations' \in [Users -> [Features -> Nat]]
    BY <1>2, <1>3 DEF TypeOK
  <2> QED
    BY <1>1, <1>2, <2>1, <2>2 DEF TypeOK
<1>5. EventIds' = {e \in EventIds : EventOf[e].user # u}
  BY <1>2 DEF EventIds
<1>6. /\ learnt'[u] = {} /\ \A v \in Users \ {u} : learnt'[v] = learnt[v]
      /\ \A v \in Users : learnt'[v] \subseteq learnt[v]
  BY <1>2 DEF TypeOK
<1>7. ASSUME NEW g \in Handlers PROVE RequestInv(g)'
  <2>1. RequestInv(g)
    BY DEF IInv
  <2>2. RequestIsFormed(g)' /\ WritesAreOwn(g)'
    BY <1>1, <2>1 DEF RequestInv, RequestIsFormed, WritesAreOwn, Now, Written
  <2>3. ~tx[g].committed /\ (tx[g].rows # {} \/ tx[g].issues # {}) => tx[g].user # u
    BY <1>1 DEF HoldsUser
  <2>4. WritesAreNew(g)'
    <3>1. ASSUME NEW x, x # u, account[x] # "none" PROVE account'[x] # "none"
      BY <1>2, <3>1 DEF TypeOK
    <3>2. EventIds' \subseteq EventIds
      BY <1>5
    <3> QED
      BY <1>1, <1>6, <2>1, <2>3, <3>1, <3>2 DEF RequestInv, WritesAreNew
  <2>5. CountsOwn(g)'
    <3>1. Learns(g)' = Learns(g)
      BY <1>1 DEF Learns, TaughtBy, Now
    <3>2. ~tx[g].committed /\ tx[g].learning => learnt'[tx[g].user] = learnt[tx[g].user]
      BY <1>6, <2>3, LearnerIsAReader
    <3> QED
      BY <1>1, <2>1, <3>1, <3>2 DEF RequestInv, CountsOwn
  <2> QED
    BY <2>2, <2>4, <2>5 DEF RequestInv
<1>8. LocksExclude'
  BY <1>1 DEF IInv, LocksExclude, Written
<1>9. LearntIsKept'
  <2>1. ASSUME NEW v \in Users
        PROVE  /\ IsFiniteSet(learnt'[v])
               /\ \A e \in learnt'[v] : /\ EventOf[e].user = v
                                        /\ e \in EventIds' \/ EventOf[e].paper \notin papers'
    <3>1. CASE v = u
      BY <1>6, <3>1, FS_EmptySet
    <3>2. CASE v # u
      BY <1>1, <1>5, <1>6, <3>2 DEF IInv, LearntIsKept
    <3> QED
      BY <3>1, <3>2
  <2> QED
    BY <2>1 DEF LearntIsKept
<1>10. LearnedOnce'
  <2>1. ASSUME NEW v \in Users, NEW f \in Features
        PROVE  observations'[v][f] = Cardinality(learnt'[v])
    <3>1. CASE v = u
      BY <1>2, <1>6, <3>1, FS_EmptySet DEF TypeOK
    <3>2. CASE v # u
      BY <1>2, <1>6, <3>2 DEF IInv, LearnedOnce, TypeOK
    <3> QED
      BY <3>1, <3>2
  <2> QED
    BY <2>1 DEF LearnedOnce
<1>11. DeletedLeavesNothing'
  <2> SUFFICES ASSUME NEW v \in Users, account'[v] = "none"
               PROVE  /\ v \notin profile' /\ saved'[v] = {}
                      /\ \A r \in issued' : r.user # v
                      /\ \A r \in events' : EventOf[r.id].user # v
                      /\ \A f \in Features : observations'[v][f] = 0
    BY DEF DeletedLeavesNothing
  <2>1. CASE v = u
    BY <1>2, <2>1 DEF TypeOK
  <2>2. CASE v # u
    <3>1. /\ account[v] = "none" /\ saved'[v] = saved[v] /\ observations'[v] = observations[v]
      BY <1>2, <2>2 DEF TypeOK
    <3> QED
      BY <1>2, <3>1 DEF IInv, DeletedLeavesNothing
  <2> QED
    BY <2>1, <2>2
<1> QED
  BY <1>4, <1>7, <1>8, <1>9, <1>10, <1>11 DEF IInv

\* The cascade of a merge takes rows about the loser; what was learned stays.
LEMMA MergeAwayKeepsInv ==
    ASSUME TypeOK, IInv, NEW p \in Papers, MergeAway(p)
    PROVE  TypeOK' /\ IInv'
<1>1. /\ UNCHANGED <<account, profile, weight, observations, known, tx, learnt>>
      /\ papers' = papers \ {p}
      /\ issued' = {r \in issued : r.paper # p}
      /\ events' = {r \in events : EventOf[r.id].paper # p}
      /\ saved' = [u \in Users |-> saved[u] \ {p}]
  BY DEF MergeAway
<1>2. TypeOK'
  BY <1>1 DEF TypeOK
<1>3. EventIds' = {e \in EventIds : EventOf[e].paper # p}
  BY <1>1 DEF EventIds
<1>4. ASSUME NEW g \in Handlers PROVE RequestInv(g)'
  <2>1. RequestInv(g)
    BY DEF IInv
  <2>2. RequestIsFormed(g)' /\ WritesAreOwn(g)'
    BY <1>1, <2>1 DEF RequestInv, RequestIsFormed, WritesAreOwn, Now, Written
  <2>3. EventIds' \subseteq EventIds
    BY <1>3
  <2>4. WritesAreNew(g)'
    BY <1>1, <2>1, <2>3 DEF RequestInv, WritesAreNew
  <2>5. CountsOwn(g)'
    BY <1>1, <2>1 DEF RequestInv, CountsOwn, Learns, TaughtBy, Now
  <2> QED
    BY <2>2, <2>4, <2>5 DEF RequestInv
<1>5. LocksExclude'
  BY <1>1 DEF IInv, LocksExclude, Written
<1>6. LearntIsKept' /\ LearnedOnce'
  BY <1>1, <1>3 DEF IInv, LearntIsKept, LearnedOnce
<1>7. DeletedLeavesNothing'
  BY <1>1 DEF IInv, DeletedLeavesNothing
<1> QED
  BY <1>2, <1>4, <1>5, <1>6, <1>7 DEF IInv

-----------------------------------------------------------------------------
LEMMA InitIsTyped == Init => TypeOK
<1> SUFFICES ASSUME Init PROVE TypeOK
  OBVIOUS
<1>1. tx \in [Handlers -> Tx]
  BY IdleIsARequest DEF Init
<1>2. 0 \in (-MaxWeight)..MaxWeight
  BY ValuesAreBounded
<1> QED
  BY <1>1, <1>2 DEF Init, TypeOK, Tx

LEMMA InitIsSafe == Init => IInv
<1> SUFFICES ASSUME Init PROVE IInv
  OBVIOUS
<1>1. ASSUME NEW h \in Handlers PROVE RequestInv(h) /\ Written(h) = {}
  <2>1. /\ tx[h].pc = "idle" /\ tx[h].batch = << >> /\ tx[h].rows = {} /\ tx[h].issues = {}
        /\ tx[h].saves = {} /\ tx[h].learning = FALSE /\ tx[h].committed = FALSE
    BY DEF Init, Idle
  <2>2. Written(h) = {}
    BY <2>1 DEF Written
  <2>3. RequestIsFormed(h) /\ WritesAreNew(h)
    BY <2>1 DEF RequestIsFormed, WritesAreNew
  <2>4. WritesAreOwn(h)
    BY <2>1, <2>2, FS_EmptySet DEF WritesAreOwn
  <2>5. CountsOwn(h)
    BY <2>1 DEF CountsOwn, Learns, TaughtBy
  <2> QED
    BY <2>2, <2>3, <2>4, <2>5 DEF RequestInv
<1>2. LocksExclude
  <2>1. \A h \in Handlers : ~tx[h].learning
    BY DEF Init, Idle
  <2> QED
    BY <1>1, <2>1 DEF LocksExclude
<1>3. LearntIsKept /\ LearnedOnce
  BY FS_EmptySet DEF Init, LearntIsKept, LearnedOnce
<1>4. DeletedLeavesNothing
  BY DEF Init, DeletedLeavesNothing
<1> QED
  BY <1>1, <1>2, <1>3, <1>4 DEF IInv

LEMMA NextKeepsInv == TypeOK /\ IInv /\ [Next]_vars => TypeOK' /\ IInv'
<1> SUFFICES ASSUME TypeOK, IInv, [Next]_vars PROVE TypeOK' /\ IInv'
  OBVIOUS
<1>1. ASSUME NEW h \in Handlers, Step(h) PROVE TypeOK' /\ IInv'
  <2>1. CASE OutsideWindow(h) \/ ForeignKeyFails(h) \/ AbortDeadlock(h)
    BY <2>1, FailKeepsInv DEF OutsideWindow, ForeignKeyFails, AbortDeadlock
  <2>2. CASE InsertEvent(h)
    BY <2>2, InsertEventKeepsInv
  <2>3. CASE Learn(h)
    BY <2>3, LearnKeepsInv
  <2>4. CASE Save(h)
    BY <2>4, SaveKeepsInv
  <2>5. CASE NextEvent(h)
    BY <2>5, NextEventKeepsInv
  <2>6. CASE WriteProfile(h)
    BY <2>6, WriteProfileKeepsInv
  <2>7. CASE Answer(h)
    BY <2>7, AnswerKeepsInv
  <2>8. CASE Commit(h)
    BY <2>8, CommitKeepsInv
  <2> QED
    BY <1>1, <2>1, <2>2, <2>3, <2>4, <2>5, <2>6, <2>7, <2>8 DEF Step
<1>2. ASSUME NEW h \in Handlers, Request(h) PROVE TypeOK' /\ IInv'
  BY <1>2, ReceiveKeepsInv, IssueFeedKeepsInv, PutProfileKeepsInv DEF Request
<1>3. CASE Crash
  BY <1>3, CrashKeepsInv
<1>4. ASSUME NEW u \in Users, Register(u) \/ Verify(u) PROVE TypeOK' /\ IInv'
  <2>1. CASE Register(u)
    BY <2>1, AccountStays DEF Register
  <2>2. CASE Verify(u)
    BY <2>2, AccountStays DEF Verify
  <2> QED
    BY <1>4, <2>1, <2>2
<1>5. ASSUME NEW u \in Users, DeleteAccount(u) PROVE TypeOK' /\ IInv'
  BY <1>5, DeleteAccountKeepsInv
<1>6. ASSUME NEW u \in Users, NEW p \in Papers, RemoveSavedPaper(u, p)
      PROVE  TypeOK' /\ IInv'
  BY <1>6, RemoveSavedPaperKeepsInv
<1>7. ASSUME NEW p \in Papers, MergeAway(p) PROVE TypeOK' /\ IInv'
  BY <1>7, MergeAwayKeepsInv
<1>8. CASE UNCHANGED vars
  <2>1. TypeOK'
    BY <1>8 DEF TypeOK, vars
  <2>2. \A g \in Handlers : RequestInv(g)' /\ Written(g)' = Written(g)
    BY <1>8, StandingStill DEF IInv, vars
  <2>3. LocksExclude'
    BY <1>8, <2>2 DEF IInv, LocksExclude, vars
  <2>4. LearntIsKept' /\ LearnedOnce' /\ DeletedLeavesNothing'
    BY <1>8 DEF IInv, LearntIsKept, EventIds, LearnedOnce, DeletedLeavesNothing, vars
  <2> QED
    BY <2>1, <2>2, <2>3, <2>4 DEF IInv
<1> QED
  BY <1>1, <1>2, <1>3, <1>4, <1>5, <1>6, <1>7, <1>8 DEF Next

-----------------------------------------------------------------------------
\* The tables, the open requests and the weights keep their types; a learned
\* weight stays within its bounds (account._learn).
THEOREM TypeCorrect == Spec => []TypeOK
<1>1. Init => TypeOK /\ IInv
  BY InitIsTyped, InitIsSafe
<1> QED
  BY <1>1, NextKeepsInv, PTL DEF Spec

\* The invariant the row locks and the foreign keys maintain.
THEOREM Invariance == Spec => []IInv
<1>1. Init => TypeOK /\ IInv
  BY InitIsTyped, InitIsSafe
<1> QED
  BY <1>1, NextKeepsInv, PTL DEF Spec

\* An event moves the weights of its reader once, however often, in whatever
\* order and in however many requests at once it is delivered
\* (account.interactions, account._learn).
THEOREM EventsCountOnce == Spec => []LearnedOnce
<1>1. IInv => LearnedOnce
  BY DEF IInv
<1> QED
  BY <1>1, Invariance, PTL

\* A deleted reader leaves nothing behind, and no request admitted before the
\* deletion brings anything back (account.delete_account).
THEOREM NothingOfTheDeleted == Spec => []DeletedLeavesNothing
<1>1. IInv => DeletedLeavesNothing
  BY DEF IInv
<1> QED
  BY <1>1, Invariance, PTL

\* The papers a step adds to a reader's list.
SavedByTheStep ==
    \A u \in Users : \A p \in saved'[u] \ saved[u] :
       \E r \in events' \ events :
          EventOf[r.id].user = u /\ EventOf[r.id].paper = p /\ EventOf[r.id].type = "save"

LEMMA NoneIsSaved ==
    ASSUME \A u \in Users : saved'[u] \subseteq saved[u]
    PROVE  SavedByTheStep
  BY DEF SavedByTheStep

LEMMA CommitSavesByEvents ==
    ASSUME TypeOK, IInv, NEW h \in Handlers, Commit(h)
    PROVE  SavedByTheStep
<1> SUFFICES ASSUME NEW u \in Users, NEW p \in saved'[u] \ saved[u]
             PROVE  \E r \in events' \ events : /\ EventOf[r.id].user = u
                                                /\ EventOf[r.id].paper = p
                                                /\ EventOf[r.id].type = "save"
  BY DEF SavedByTheStep
<1>1. RequestInv(h) /\ tx[h].user \in Users /\ ~tx[h].committed
  BY DEF Commit, IInv, RequestInv, RequestIsFormed
<1>2. u = tx[h].user /\ p \in tx[h].saves
  BY <1>1 DEF Commit, TypeOK
<1>3. PICK r \in tx[h].rows : EventOf[r.id].paper = p /\ EventOf[r.id].type = "save"
  BY <1>1, <1>2 DEF RequestInv, WritesAreOwn
<1>4. EventOf[r.id].user = u /\ r.id \notin EventIds
  BY <1>1, <1>2 DEF RequestInv, WritesAreOwn, WritesAreNew
<1>5. r \in events' /\ r \notin events
  BY <1>4 DEF Commit, EventIds
<1> QED
  BY <1>3, <1>4, <1>5

LEMMA StepSavesByEvents == TypeOK /\ IInv /\ [Next]_vars => SavedByTheStep
<1> SUFFICES ASSUME TypeOK, IInv, [Next]_vars PROVE SavedByTheStep
  OBVIOUS
<1>1. ASSUME NEW h \in Handlers, Step(h) PROVE SavedByTheStep
  <2>1. CASE Commit(h)
    BY <2>1, CommitSavesByEvents
  <2>2. CASE ~Commit(h)
    <3>1. saved' = saved
      BY <1>1, <2>2 DEF Step, OutsideWindow, InsertEvent, ForeignKeyFails, Learn, Save,
                        NextEvent, WriteProfile, Answer, AbortDeadlock, Fail, tables
    <3> QED
      BY <3>1, NoneIsSaved
  <2> QED
    BY <2>1, <2>2
<1>2. ASSUME NEW h \in Handlers, Request(h) PROVE SavedByTheStep
  <2>1. saved' = saved
    BY <1>2 DEF Request, Receive, IssueFeed, PutProfile, tables
  <2> QED
    BY <2>1, NoneIsSaved
<1>3. CASE Crash \/ UNCHANGED vars
  <2>1. saved' = saved
    BY <1>3 DEF Crash, tables, vars
  <2> QED
    BY <2>1, NoneIsSaved
<1>4. ASSUME NEW u \in Users, Register(u) \/ Verify(u) PROVE SavedByTheStep
  BY <1>4, NoneIsSaved DEF Register, Verify
<1>5. ASSUME NEW u \in Users, DeleteAccount(u) PROVE SavedByTheStep
  <2>1. \A v \in Users : saved'[v] \subseteq saved[v]
    BY <1>5 DEF DeleteAccount, TypeOK
  <2> QED
    BY <2>1, NoneIsSaved
<1>6. ASSUME NEW u \in Users, NEW p \in Papers, RemoveSavedPaper(u, p) PROVE SavedByTheStep
  <2>1. \A v \in Users : saved'[v] \subseteq saved[v]
    BY <1>6 DEF RemoveSavedPaper, TypeOK
  <2> QED
    BY <2>1, NoneIsSaved
<1>7. ASSUME NEW p \in Papers, MergeAway(p) PROVE SavedByTheStep
  <2>1. \A v \in Users : saved'[v] \subseteq saved[v]
    BY <1>7 DEF MergeAway
  <2> QED
    BY <2>1, NoneIsSaved
<1> QED
  BY <1>1, <1>2, <1>3, <1>4, <1>5, <1>6, <1>7 DEF Next

\* A paper enters a reader's list only with a save event that was new: a save
\* delivered again does not undo a removal (account.interactions).
THEOREM SavedOnlyByNewEvents == Spec => SavedByANewEventOnly
<1>1. TypeOK /\ IInv /\ [Next]_vars => SavedByTheStep
  BY StepSavesByEvents
<1> QED
  BY <1>1, TypeCorrect, Invariance, PTL DEF Spec, SavedByTheStep, SavedByANewEventOnly
=============================================================================

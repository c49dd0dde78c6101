---------------------------- MODULE SearchProofs ----------------------------
(***************************************************************************)
(* For any number of handlers, permits and connections: no permit and no    *)
(* connection is lost, however waits time out and statements raise.  For    *)
(* any queries and corpus: the page a search answers is in an order that    *)
(* the rankings support, and it is full while papers match, whatever is     *)
(* retracted and deleted between its statements.                            *)
(***************************************************************************)
EXTENDS Search, ListsProofs

\* The statements of a search behind the gate.
Gated == {"strict", "relaxed", "lexical hits", "encode", "scan", "semantic hits", "fuse"}

RequestFields == DOMAIN Resting

\* A permit is held behind the gate and nowhere else but in the recommendation
\* of a preview; a request at rest holds nothing; who loads holds the lock.
RequestInv(h) ==
    /\ DOMAIN req[h] = RequestFields
    /\ req[h].permit \in BOOLEAN /\ req[h].conn \in BOOLEAN
    /\ req[h].pc \in Gated => req[h].permit
    /\ req[h].permit => req[h].pc \in Gated \cup {"recommend"}
    /\ req[h].pc = "idle" => ~req[h].conn
    /\ req[h].pc = "load" => lock = h

\* What is left of a resource that the requests in S hold.
Left(total, S) == total - Cardinality(S)

Permitted == {h \in Handlers : req[h].permit}
Connected == {h \in Handlers : req[h].conn}

IInv ==
    /\ DOMAIN req = Handlers
    /\ \A h \in Handlers : RequestInv(h)
    /\ IsFiniteSet(Permitted) /\ IsFiniteSet(Connected)
    /\ gate = Left(Capacity, Permitted)
    /\ pool = Left(PoolSize, Connected)
    /\ lock # None => lock \in Handlers /\ req[lock].pc = "load"

LEMMA Fields ==
    RequestFields = {"pc", "kind", "query", "offset", "conn", "permit", "lexical", "semantic",
                     "page", "more", "steady", "lost"}
  BY DEF RequestFields, Resting

\* Taking one of a counted resource, and giving it back.
LEMMA Taken ==
    ASSUME NEW S, NEW h, h \notin S, NEW total \in Nat, IsFiniteSet(S)
    PROVE  IsFiniteSet(S \cup {h}) /\ Left(total, S \cup {h}) = Left(total, S) - 1
<1>1. Cardinality(S) \in Nat
  BY FS_CardinalityType
<1>2. IsFiniteSet(S \cup {h}) /\ Cardinality(S \cup {h}) = Cardinality(S) + 1
  BY FS_AddElement
<1> QED
  BY <1>1, <1>2 DEF Left

LEMMA GivenBack ==
    ASSUME NEW S, NEW h \in S, NEW total \in Nat, IsFiniteSet(S)
    PROVE  IsFiniteSet(S \ {h}) /\ Left(total, S \ {h}) = Left(total, S) + 1
<1>1. Cardinality(S) \in Nat
  BY FS_CardinalityType
<1>2. IsFiniteSet(S \ {h}) /\ Cardinality(S \ {h}) = Cardinality(S) - 1
  BY FS_RemoveElement
<1> QED
  BY <1>1, <1>2 DEF Left

\* A step of one request: what it holds and what is left change together.
LEMMA StepOfOne ==
    ASSUME IInv, NEW h \in Handlers, NEW t, req' = [req EXCEPT ![h] = t],
           DOMAIN t = RequestFields, t.permit \in BOOLEAN, t.conn \in BOOLEAN,
           t.pc \in Gated => t.permit,
           t.permit => t.pc \in Gated \cup {"recommend"},
           t.pc = "idle" => ~t.conn,
           gate' = IF req[h].permit = t.permit THEN gate ELSE IF t.permit THEN gate - 1 ELSE gate + 1,
           pool' = IF req[h].conn = t.conn THEN pool ELSE IF t.conn THEN pool - 1 ELSE pool + 1,
           \/ lock' = lock /\ (t.pc = "load" <=> req[h].pc = "load")
           \/ lock = None /\ lock' = h /\ t.pc = "load"
           \/ lock = h /\ lock' = None /\ t.pc # "load"
    PROVE  IInv'
<1>1. /\ req'[h] = t /\ DOMAIN req' = Handlers
      /\ \A g \in Handlers \ {h} : req'[g] = req[g]
  BY DEF IInv
<1>2. RequestInv(h) /\ (lock = h => req[h].pc = "load") /\ (lock # None => lock \in Handlers)
  BY HandlersAreAsked DEF IInv
<1>3. Permitted' = (IF t.permit THEN Permitted \cup {h} ELSE Permitted \ {h})
  BY <1>1 DEF Permitted
<1>4. Connected' = (IF t.conn THEN Connected \cup {h} ELSE Connected \ {h})
  BY <1>1 DEF Connected
<1>5. /\ (h \in Permitted) = req[h].permit /\ (h \in Connected) = req[h].conn
  BY <1>2 DEF Permitted, Connected, RequestInv
<1>6. Capacity \in Nat /\ PoolSize \in Nat
  BY LimitsArePositive
<1>7. IsFiniteSet(Permitted') /\ gate' = Left(Capacity, Permitted')
  <2>1. \/ h \notin Permitted /\ Permitted' = Permitted \cup {h} /\ gate' = gate - 1
        \/ h \in Permitted /\ Permitted' = Permitted \ {h} /\ gate' = gate + 1
        \/ Permitted' = Permitted /\ gate' = gate
    BY <1>3, <1>5
  <2>2. IsFiniteSet(Permitted) /\ gate = Left(Capacity, Permitted)
    BY DEF IInv
  <2> HIDE DEF Permitted
  <2> QED
    BY <1>6, <2>1, <2>2, Taken, GivenBack
<1>8. IsFiniteSet(Connected') /\ pool' = Left(PoolSize, Connected')
  <2>1. \/ h \notin Connected /\ Connected' = Connected \cup {h} /\ pool' = pool - 1
        \/ h \in Connected /\ Connected' = Connected \ {h} /\ pool' = pool + 1
        \/ Connected' = Connected /\ pool' = pool
    BY <1>4, <1>5
  <2>2. IsFiniteSet(Connected) /\ pool = Left(PoolSize, Connected)
    BY DEF IInv
  <2> HIDE DEF Connected
  <2>3. CASE h \notin Connected /\ Connected' = Connected \cup {h} /\ pool' = pool - 1
    BY <1>6, <2>2, <2>3, Taken
  <2>4. CASE h \in Connected /\ Connected' = Connected \ {h} /\ pool' = pool + 1
    BY <1>6, <2>2, <2>4, GivenBack
  <2>5. CASE Connected' = Connected /\ pool' = pool
    BY <2>2, <2>5
  <2> QED
    BY <2>1, <2>3, <2>4, <2>5
<1>9. t.pc = "load" => lock' = h
  BY <1>2 DEF RequestInv
<1>10. RequestInv(h)'
  BY <1>1, <1>9 DEF RequestInv
<1>11. ASSUME NEW g \in Handlers \ {h} PROVE RequestInv(g)'
  <2>1. RequestInv(g) /\ req'[g] = req[g]
    BY <1>1 DEF IInv
  <2>2. req[g].pc = "load" => lock' = g
    BY <2>1, HandlersAreAsked DEF RequestInv
  <2> QED
    BY <2>1, <2>2 DEF RequestInv
<1>12. lock' # None => lock' \in Handlers /\ req'[lock'].pc = "load"
  BY <1>1, <1>2 DEF IInv
<1> QED
  BY <1>1, <1>7, <1>8, <1>10, <1>11, <1>12 DEF IInv

\* A step that takes and returns nothing.
LEMMA StepWithin ==
    ASSUME IInv, NEW h \in Handlers, NEW t, req' = [req EXCEPT ![h] = t],
           UNCHANGED <<gate, pool, lock>>,
           DOMAIN t = RequestFields, t.permit = req[h].permit, t.conn = req[h].conn,
           t.pc \in Gated => req[h].pc \in Gated,
           t.permit => t.pc \in Gated \cup {"recommend"},
           t.pc # "idle", t.pc # "load", req[h].pc # "load"
    PROVE  IInv'
<1>1. RequestInv(h)
  BY DEF IInv
<1> QED
  BY <1>1, StepOfOne DEF RequestInv

-----------------------------------------------------------------------------
LEMMA AskStep ==
    ASSUME IInv, NEW h \in Handlers, Ask(h)
    PROVE  IInv'
<1>1. PICK k \in Asks[h], q \in Queries, o \in Offsets :
         req' = [req EXCEPT ![h] =
              [Resting EXCEPT !.pc = IF k = "browse" THEN "rows" ELSE "service",
                              !.kind = k, !.offset = o,
                              !.query = IF k \in Filtered THEN q ELSE None,
                              !.steady = IF k \in Filtered THEN Passing(q) ELSE {}]]
  BY DEF Ask
<1> DEFINE t == [Resting EXCEPT !.pc = IF k = "browse" THEN "rows" ELSE "service",
                                !.kind = k, !.offset = o,
                                !.query = IF k \in Filtered THEN q ELSE None,
                                !.steady = IF k \in Filtered THEN Passing(q) ELSE {}]
<1>2. /\ DOMAIN t = RequestFields /\ t.permit = FALSE /\ t.conn = FALSE
      /\ t.pc \in {"rows", "service"}
  BY DEF RequestFields, Resting
<1>3. req' = [req EXCEPT ![h] = t]
  BY <1>1
<1>4. RequestInv(h) /\ At(h, "idle") /\ UNCHANGED <<gate, pool, lock>>
  BY DEF IInv, Ask, Resources
<1> HIDE DEF t
<1> QED
  BY <1>2, <1>3, <1>4, StepWithin DEF RequestInv, At, Gated

\* A request that ends returns what it holds, and nothing else.
LEMMA UnwoundStep ==
    ASSUME IInv, NEW h \in Handlers, Unwound(h)
    PROVE  IInv'
<1>1. RequestInv(h) /\ (lock = h => req[h].pc = "load")
  BY HandlersAreAsked DEF IInv
<1>2. /\ DOMAIN Resting = RequestFields /\ Resting.permit = FALSE /\ Resting.conn = FALSE
      /\ Resting.pc = "idle"
  BY DEF RequestFields, Resting
<1>3. /\ req' = [req EXCEPT ![h] = Resting]
      /\ gate' = IF req[h].permit = Resting.permit THEN gate
                  ELSE IF Resting.permit THEN gate - 1 ELSE gate + 1
      /\ pool' = IF req[h].conn = Resting.conn THEN pool
                  ELSE IF Resting.conn THEN pool - 1 ELSE pool + 1
  BY <1>1, <1>2 DEF Unwound, RequestInv
<1>4. \/ lock' = lock /\ (Resting.pc = "load" <=> req[h].pc = "load")
      \/ lock = h /\ lock' = None /\ Resting.pc # "load"
  BY <1>1, <1>2 DEF Unwound, RequestInv
<1> HIDE DEF Resting
<1> QED
  BY <1>2, <1>3, <1>4, StepOfOne DEF Gated

\* The service and its lock.
LEMMA ServiceStep ==
    ASSUME IInv, NEW h \in Handlers, FindService(h) \/ EnterLock(h) \/ Load(h)
    PROVE  IInv'
<1>1. RequestInv(h)
  BY DEF IInv
<1>2. AfterService(h) \in {"gate", "draft", "build"}
  BY DEF AfterService
<1>3. CASE FindService(h)
  <2> DEFINE t == [req[h] EXCEPT !.pc = IF service THEN AfterService(h) ELSE "lock"]
  <2>1. /\ DOMAIN t = RequestFields /\ t.permit = req[h].permit /\ t.conn = req[h].conn
        /\ t.pc \in {"gate", "draft", "build", "lock"}
    BY <1>1, <1>2, Fields DEF RequestInv
  <2>2. req' = [req EXCEPT ![h] = t] /\ UNCHANGED <<gate, pool, lock>> /\ req[h].pc = "service"
    BY <1>3 DEF FindService, Goto, Resources, At
  <2> HIDE DEF t
  <2> QED
    BY <1>1, <2>1, <2>2, StepWithin DEF RequestInv, Gated
<1>4. CASE EnterLock(h)
  <2> DEFINE t == [req[h] EXCEPT !.pc = "load"]
  <2>1. /\ DOMAIN t = RequestFields /\ t.permit = req[h].permit /\ t.conn = req[h].conn
        /\ t.pc = "load"
    BY <1>1, Fields DEF RequestInv
  <2>2. /\ req' = [req EXCEPT ![h] = t] /\ UNCHANGED <<gate, pool>> /\ req[h].pc = "lock"
        /\ lock = None /\ lock' = h
    BY <1>4 DEF EnterLock, Goto, At
  <2> HIDE DEF t
  <2> QED
    BY <1>1, <2>1, <2>2, StepOfOne DEF RequestInv, Gated
<1>5. CASE Load(h)
  <2> DEFINE t == [req[h] EXCEPT !.pc = AfterService(h)]
  <2>1. /\ DOMAIN t = RequestFields /\ t.permit = req[h].permit /\ t.conn = req[h].conn
        /\ t.pc \in {"gate", "draft", "build"}
    BY <1>1, <1>2, Fields DEF RequestInv
  <2>2. /\ req' = [req EXCEPT ![h] = t] /\ UNCHANGED <<gate, pool>> /\ req[h].pc = "load"
        /\ lock' = None
    BY <1>5 DEF Load, Goto, At
  <2> HIDE DEF t
  <2> QED
    BY <1>1, <2>1, <2>2, StepOfOne DEF RequestInv, Gated
<1> QED
  BY <1>3, <1>4, <1>5

\* A connection, and a permit.
LEMMA TakeStep ==
    ASSUME IInv, NEW h \in Handlers, Connect(h) \/ Acquire(h)
    PROVE  IInv'
<1>0. RequestInv(h)
  BY DEF IInv
<1>1. CASE Connect(h)
  <2> DEFINE t == [req[h] EXCEPT !.conn = TRUE]
  <2>1. /\ DOMAIN t = RequestFields /\ t.permit = req[h].permit /\ t.conn = TRUE
        /\ t.pc = req[h].pc
    BY <1>0, Fields DEF RequestInv
  <2>2. /\ req' = [req EXCEPT ![h] = t] /\ UNCHANGED <<gate, lock>> /\ pool' = pool - 1
        /\ req[h].pc # "idle" /\ ~req[h].conn
    BY <1>1 DEF Connect, Statements
  <2> HIDE DEF t
  <2> QED
    BY <1>0, <2>1, <2>2, StepOfOne DEF RequestInv
<1>2. CASE Acquire(h)
  <2> DEFINE t == [req[h] EXCEPT !.permit = TRUE,
                                 !.pc = IF req[h].kind = "preview" THEN "recommend"
                                        ELSE IF method = "semantic" THEN "encode" ELSE "strict"]
  <2>1. /\ DOMAIN t = RequestFields /\ t.permit = TRUE /\ t.conn = req[h].conn
        /\ t.pc \in {"recommend", "encode", "strict"}
    BY <1>0, Fields DEF RequestInv
  <2>2. req' = [req EXCEPT ![h] = t]
    BY <1>2, <1>0 DEF Acquire, IInv
  <2>3. UNCHANGED <<pool, lock>> /\ gate' = gate - 1 /\ req[h].pc = "gate"
    BY <1>2 DEF Acquire, At
  <2>4. ~req[h].permit
    BY <1>0, <2>3 DEF RequestInv, Gated
  <2> HIDE DEF t
  <2> QED
    BY <1>0, <2>1, <2>2, <2>3, <2>4, StepOfOne DEF RequestInv, Gated
<1> QED
  BY <1>1, <1>2

\* The permit comes back with the last statement behind the gate.
LEMMA LeaveStep ==
    ASSUME IInv, NEW h \in Handlers, NEW page, Leave(h, page), req[h].permit
    PROVE  IInv'
<1> DEFINE t == [req[h] EXCEPT !.permit = FALSE, !.page = page, !.pc = "project"]
<1>0. RequestInv(h)
  BY DEF IInv
<1>1. /\ DOMAIN t = RequestFields /\ t.permit = FALSE /\ t.conn = req[h].conn /\ t.pc = "project"
  BY <1>0, Fields DEF RequestInv
<1>2. req' = [req EXCEPT ![h] = t] /\ UNCHANGED <<pool, lock>> /\ gate' = gate + 1
  BY DEF Leave, IInv
<1>3. req[h].pc # "load"
  BY <1>0 DEF RequestInv, Gated
<1> HIDE DEF t
<1> QED
  BY <1>0, <1>1, <1>2, <1>3, StepOfOne DEF RequestInv, Gated

\* The statements of a search, behind the gate all the time.
LEMMA ScanStep ==
    ASSUME IInv, NEW h \in Handlers,
           StrictScan(h) \/ RelaxedScan(h) \/ Encode(h) \/ SemanticScan(h)
    PROVE  IInv'
<1>0. RequestInv(h)
  BY DEF IInv
<1> DEFINE q == req[h].query
           rows == Top(q.any, q.all \cap Passing(q), Depth)
<1>1. CASE StrictScan(h)
  <2> DEFINE t == [req[h] EXCEPT !.lexical = Ranked(rows),
                                 !.pc = IF rows = << >> /\ q.relaxable THEN "relaxed" ELSE "lexical hits"]
  <2>1. /\ DOMAIN t = RequestFields /\ t.permit = req[h].permit /\ t.conn = req[h].conn
        /\ t.pc \in {"relaxed", "lexical hits"}
    BY <1>0, Fields DEF RequestInv
  <2>2. req' = [req EXCEPT ![h] = t]
    BY <1>1, <1>0 DEF StrictScan, IInv, RequestInv, Executes, At
  <2>3. UNCHANGED <<gate, pool, lock>> /\ req[h].pc = "strict"
    BY <1>1 DEF StrictScan, Executes, At, Resources
  <2> HIDE DEF t
  <2> QED
    BY <1>0, <2>1, <2>2, <2>3, StepWithin DEF RequestInv, Gated
<1>2. CASE RelaxedScan(h)
  <2> DEFINE t == [req[h] EXCEPT !.lexical = Ranked(Top(req[h].query.any, Passing(req[h].query), Depth)),
                                 !.pc = "lexical hits"]
  <2>1. /\ DOMAIN t = RequestFields /\ t.permit = req[h].permit /\ t.conn = req[h].conn
        /\ t.pc \in {"lexical hits"}
    BY <1>0, Fields DEF RequestInv
  <2>2. req' = [req EXCEPT ![h] = t]
    BY <1>2, <1>0 DEF RelaxedScan, IInv, RequestInv, Executes, At
  <2>3. UNCHANGED <<gate, pool, lock>> /\ req[h].pc = "relaxed"
    BY <1>2 DEF RelaxedScan, Executes, At, Resources
  <2> HIDE DEF t
  <2> QED
    BY <1>0, <2>1, <2>2, <2>3, StepWithin DEF RequestInv, Gated
<1>3. CASE Encode(h)
  <2> DEFINE t == [req[h] EXCEPT !.pc = "scan"]
  <2>1. /\ DOMAIN t = RequestFields /\ t.permit = req[h].permit /\ t.conn = req[h].conn
        /\ t.pc \in {"scan"}
    BY <1>0, Fields DEF RequestInv
  <2>2. req' = [req EXCEPT ![h] = t]
    BY <1>3, <1>0 DEF Encode, IInv, RequestInv, Executes, At, Goto
  <2>3. UNCHANGED <<gate, pool, lock>> /\ req[h].pc = "encode"
    BY <1>3 DEF Encode, Executes, At, Resources
  <2> HIDE DEF t
  <2> QED
    BY <1>0, <2>1, <2>2, <2>3, StepWithin DEF RequestInv, Gated
<1>4. CASE SemanticScan(h)
  <2> DEFINE t == [req[h] EXCEPT !.semantic = Ranked(Top(req[h].query.near, Passing(req[h].query), Depth)),
                                 !.pc = "semantic hits"]
  <2>1. /\ DOMAIN t = RequestFields /\ t.permit = req[h].permit /\ t.conn = req[h].conn
        /\ t.pc \in {"semantic hits"}
    BY <1>0, Fields DEF RequestInv
  <2>2. req' = [req EXCEPT ![h] = t]
    BY <1>4, <1>0 DEF SemanticScan, IInv, RequestInv, Executes, At
  <2>3. UNCHANGED <<gate, pool, lock>> /\ req[h].pc = "scan"
    BY <1>4 DEF SemanticScan, Executes, At, Resources
  <2> HIDE DEF t
  <2> QED
    BY <1>0, <2>1, <2>2, <2>3, StepWithin DEF RequestInv, Gated
<1> QED
  BY <1>1, <1>2, <1>3, <1>4

LEMMA HitsStep ==
    ASSUME IInv, NEW h \in Handlers, LexicalHits(h) \/ SemanticHits(h) \/ Fuse(h)
    PROVE  IInv'
<1>0. RequestInv(h)
  BY DEF IInv
<1>1. CASE LexicalHits(h) /\ method = "hybrid"
  <2> DEFINE t == [req[h] EXCEPT !.lexical = Hydrated(req[h].lexical), !.pc = "encode"]
  <2>1. /\ DOMAIN t = RequestFields /\ t.permit = req[h].permit /\ t.conn = req[h].conn
        /\ t.pc \in {"encode"}
    BY <1>0, Fields DEF RequestInv
  <2>2. req' = [req EXCEPT ![h] = t]
    BY <1>1, <1>0 DEF LexicalHits, IInv, RequestInv, Executes, At
  <2>3. UNCHANGED <<gate, pool, lock>> /\ req[h].pc = "lexical hits"
    BY <1>1 DEF LexicalHits, Executes, At, Resources
  <2> HIDE DEF t
  <2> QED
    BY <1>0, <2>1, <2>2, <2>3, StepWithin DEF RequestInv, Gated
<1>2. CASE LexicalHits(h) /\ method # "hybrid"
  <2>1. Leave(h, PapersOf(Hydrated(req[h].lexical))) /\ req[h].permit
    BY <1>0, <1>2 DEF LexicalHits, Executes, At, RequestInv, Gated
  <2> QED
    BY <2>1, LeaveStep
<1>3. CASE SemanticHits(h) /\ method = "hybrid"
  <2> DEFINE t == [req[h] EXCEPT !.semantic = Hydrated(req[h].semantic), !.pc = "fuse"]
  <2>1. /\ DOMAIN t = RequestFields /\ t.permit = req[h].permit /\ t.conn = req[h].conn
        /\ t.pc \in {"fuse"}
    BY <1>0, Fields DEF RequestInv
  <2>2. req' = [req EXCEPT ![h] = t]
    BY <1>3, <1>0 DEF SemanticHits, IInv, RequestInv, Executes, At
  <2>3. UNCHANGED <<gate, pool, lock>> /\ req[h].pc = "semantic hits"
    BY <1>3 DEF SemanticHits, Executes, At, Resources
  <2> HIDE DEF t
  <2> QED
    BY <1>0, <2>1, <2>2, <2>3, StepWithin DEF RequestInv, Gated
<1>4. CASE SemanticHits(h) /\ method # "hybrid"
  <2>1. Leave(h, PapersOf(Hydrated(req[h].semantic))) /\ req[h].permit
    BY <1>0, <1>4 DEF SemanticHits, Executes, At, RequestInv, Gated
  <2> QED
    BY <2>1, LeaveStep
<1>5. CASE Fuse(h)
  <2>1. /\ Leave(h, Among(Fused(req[h]), Present))
        /\ req[h].permit
    BY <1>0, <1>5 DEF Fuse, Executes, At, RequestInv, Gated
  <2> QED
    BY <2>1, LeaveStep
<1> QED
  BY <1>1, <1>2, <1>3, <1>4, <1>5

\* What the other handlers do.
LEMMA OtherStep ==
    ASSUME IInv, NEW h \in Handlers,
           Draft(h) \/ Build(h) \/ Recommend(h) \/ Project(h) \/ Rows(h) \/ Total(h)
    PROVE  IInv'
<1>0. RequestInv(h)
  BY DEF IInv
<1>1. CASE Draft(h)
  <2>0. PICK pc \in {"build", "gate"} : Goto(h, pc)
    BY <1>1 DEF Draft
  <2> DEFINE t == [req[h] EXCEPT !.pc = pc]
  <2>1. /\ DOMAIN t = RequestFields /\ t.permit = req[h].permit /\ t.conn = req[h].conn
        /\ t.pc \in {"build", "gate"}
    BY <1>0, Fields DEF RequestInv
  <2>2. req' = [req EXCEPT ![h] = t]
    BY <2>0 DEF Goto
  <2>3. UNCHANGED <<gate, pool, lock>> /\ req[h].pc = "draft"
    BY <1>1 DEF Draft, At, Resources
  <2> HIDE DEF t
  <2> QED
    BY <1>0, <2>1, <2>2, <2>3, StepWithin DEF RequestInv, Gated
<1>2. CASE Build(h)
  <2> DEFINE t == [req[h] EXCEPT !.pc = IF req[h].kind = "preview" THEN "gate" ELSE "recommend"]
  <2>1. /\ DOMAIN t = RequestFields /\ t.permit = req[h].permit /\ t.conn = req[h].conn
        /\ t.pc \in {"gate", "recommend"}
    BY <1>0, Fields DEF RequestInv
  <2>2. req' = [req EXCEPT ![h] = t]
    BY <1>2, <1>0 DEF Build, IInv, RequestInv, Executes, At, Goto
  <2>3. UNCHANGED <<gate, pool, lock>> /\ req[h].pc = "build"
    BY <1>2 DEF Build, Executes, At, Resources
  <2> HIDE DEF t
  <2> QED
    BY <1>0, <2>1, <2>2, <2>3, StepWithin DEF RequestInv, Gated
<1>3. CASE Recommend(h) /\ req[h].permit
  <2>1. Leave(h, << >>) /\ req[h].permit
    BY <1>3 DEF Recommend
  <2> QED
    BY <2>1, LeaveStep
<1>4. CASE Recommend(h) /\ ~req[h].permit
  <2> DEFINE t == [req[h] EXCEPT !.pc = "project"]
  <2>1. /\ DOMAIN t = RequestFields /\ t.permit = req[h].permit /\ t.conn = req[h].conn
        /\ t.pc \in {"project"}
    BY <1>0, Fields DEF RequestInv
  <2>2. req' = [req EXCEPT ![h] = t]
    BY <1>4, <1>0 DEF Recommend, IInv, RequestInv, Executes, At, Goto
  <2>3. UNCHANGED <<gate, pool, lock>> /\ req[h].pc = "recommend"
    BY <1>4 DEF Recommend, Executes, At, Resources
  <2> HIDE DEF t
  <2> QED
    BY <1>0, <1>4, <2>1, <2>2, <2>3, StepWithin DEF RequestInv, Gated
<1>5. CASE Project(h)
  <2> DEFINE t == [req[h] EXCEPT !.page = Among(req[h].page, Present), !.pc = "answered"]
  <2>1. /\ DOMAIN t = RequestFields /\ t.permit = req[h].permit /\ t.conn = req[h].conn
        /\ t.pc \in {"answered"}
    BY <1>0, Fields DEF RequestInv
  <2>2. req' = [req EXCEPT ![h] = t]
    BY <1>5, <1>0 DEF Project, IInv, RequestInv, Executes, At
  <2>3. UNCHANGED <<gate, pool, lock>> /\ req[h].pc = "project"
    BY <1>5 DEF Project, Executes, At, Resources
  <2> HIDE DEF t
  <2> QED
    BY <1>0, <2>1, <2>2, <2>3, StepWithin DEF RequestInv, Gated
<1>6. CASE Rows(h)
  <2> DEFINE all == Among(NewestFirst, Passing(req[h].query))
             from == req[h].offset
             t == [req[h] EXCEPT !.page = SubSeq(all, from + 1, Least(from + Limit, Len(all))),
                                 !.pc = "total"]
  <2>1. /\ DOMAIN t = RequestFields /\ t.permit = req[h].permit /\ t.conn = req[h].conn
        /\ t.pc = "total"
    BY <1>0, Fields DEF RequestInv
  <2>2. req' = [req EXCEPT ![h] = t]
    BY <1>6, <1>0 DEF Rows, IInv, RequestInv
  <2>3. UNCHANGED <<gate, pool, lock>> /\ req[h].pc = "rows"
    BY <1>6 DEF Rows, Executes, At, Resources
  <2> HIDE DEF t
  <2> QED
    BY <1>0, <2>1, <2>2, <2>3, StepWithin DEF RequestInv, Gated
<1>7. CASE Total(h)
  <2> DEFINE t == [req[h] EXCEPT !.more = req[h].offset + Len(req[h].page) <
                                           Cardinality(Passing(req[h].query)),
                                 !.pc = "answered"]
  <2>1. /\ DOMAIN t = RequestFields /\ t.permit = req[h].permit /\ t.conn = req[h].conn
        /\ t.pc \in {"answered"}
    BY <1>0, Fields DEF RequestInv
  <2>2. req' = [req EXCEPT ![h] = t]
    BY <1>7, <1>0 DEF Total, IInv, RequestInv, Executes, At
  <2>3. UNCHANGED <<gate, pool, lock>> /\ req[h].pc = "total"
    BY <1>7 DEF Total, Executes, At, Resources
  <2> HIDE DEF t
  <2> QED
    BY <1>0, <2>1, <2>2, <2>3, StepWithin DEF RequestInv, Gated
<1> QED
  BY <1>1, <1>2, <1>3, <1>4, <1>5, <1>6, <1>7

\* A change of a paper touches nothing but the histories.
LEMMA ChangeStep ==
    ASSUME IInv, NEW p \in Papers, Change(p)
    PROVE  IInv'
<1>1. PICK to \in {"listed", "retracted", "gone"} \ {paper[p]} :
         req' = [h \in Handlers |->
              [req[h] EXCEPT !.steady = IF At(h, "answered") THEN @ ELSE @ \ {p},
                             !.lost = IF to = "gone" /\ req[h].kind \in Filtered /\ ~At(h, "answered")
                                      THEN @ \cup {p} ELSE @]]
  BY DEF Change
<1>2. UNCHANGED <<gate, pool, lock>>
  BY DEF Change, Resources
<1>3. ASSUME NEW h \in Handlers
      PROVE  /\ DOMAIN req'[h] = RequestFields /\ req'[h].pc = req[h].pc
             /\ req'[h].permit = req[h].permit /\ req'[h].conn = req[h].conn
  BY <1>1, Fields DEF IInv, RequestInv
<1>4. DOMAIN req' = Handlers
  BY <1>1
<1>5. Permitted' = Permitted /\ Connected' = Connected
  BY <1>3 DEF Permitted, Connected
<1>6. ASSUME NEW h \in Handlers PROVE RequestInv(h)'
  BY <1>2, <1>3 DEF IInv, RequestInv
<1>7. lock' # None => lock' \in Handlers /\ req'[lock'].pc = "load"
  BY <1>2, <1>3 DEF IInv
<1> QED
  BY <1>2, <1>4, <1>5, <1>6, <1>7 DEF IInv

-----------------------------------------------------------------------------
LEMMA InitHolds == Init => IInv
<1> SUFFICES ASSUME Init PROVE IInv
  OBVIOUS
<1>1. /\ DOMAIN Resting = RequestFields /\ Resting.permit = FALSE /\ Resting.conn = FALSE
      /\ Resting.pc = "idle"
  BY DEF RequestFields, Resting
<1>2. DOMAIN req = Handlers /\ \A h \in Handlers : req[h] = Resting
  BY DEF Init
<1>3. ASSUME NEW h \in Handlers PROVE RequestInv(h)
  BY <1>1, <1>2 DEF RequestInv, Gated
<1>4. Permitted = {} /\ Connected = {}
  BY <1>1, <1>2 DEF Permitted, Connected
<1>5. IsFiniteSet({}) /\ Cardinality({}) = 0
  BY FS_EmptySet
<1>6. Left(Capacity, {}) = Capacity /\ Left(PoolSize, {}) = PoolSize
  BY <1>5, LimitsArePositive DEF Left
<1> QED
  BY <1>2, <1>3, <1>4, <1>5, <1>6 DEF IInv, Init

LEMMA NextPreserves == IInv /\ [Next]_vars => IInv'
<1> SUFFICES ASSUME IInv, [Next]_vars PROVE IInv'
  OBVIOUS
<1>1. ASSUME NEW h \in Handlers, Ask(h) PROVE IInv'
  BY <1>1, AskStep
<1>2. ASSUME NEW h \in Handlers, Step(h) PROVE IInv'
  <2>1. CASE FindService(h) \/ EnterLock(h) \/ Load(h)
    BY <2>1, ServiceStep
  <2>2. CASE Connect(h) \/ Acquire(h)
    BY <2>2, TakeStep
  <2>3. CASE PoolTimeout(h) \/ GateTimeout(h) \/ Close(h)
    <3>1. Unwound(h)
      BY <2>3 DEF PoolTimeout, GateTimeout, Close
    <3> QED
      BY <3>1, UnwoundStep
  <2>4. CASE StrictScan(h) \/ RelaxedScan(h) \/ Encode(h) \/ SemanticScan(h)
    BY <2>4, ScanStep
  <2>5. CASE LexicalHits(h) \/ SemanticHits(h) \/ Fuse(h)
    BY <2>5, HitsStep
  <2>6. CASE Draft(h) \/ Build(h) \/ Recommend(h) \/ Project(h) \/ Rows(h) \/ Total(h)
    BY <2>6, OtherStep
  <2> QED
    BY <1>2, <2>1, <2>2, <2>3, <2>4, <2>5, <2>6 DEF Step
<1>3. ASSUME NEW h \in Handlers, Raise(h) PROVE IInv'
  <2>1. Unwound(h)
    BY <1>3 DEF Raise
  <2> QED
    BY <2>1, UnwoundStep
<1>4. ASSUME NEW p \in Papers, Change(p) PROVE IInv'
  BY <1>4, ChangeStep
<1>5. CASE UNCHANGED vars
  <2>1. UNCHANGED <<req, gate, pool, lock>>
    BY <1>5 DEF vars
  <2> QED
    BY <2>1 DEF IInv, RequestInv, Permitted, Connected
<1> QED
  BY <1>1, <1>2, <1>3, <1>4, <1>5 DEF Next

\* The invariant of the gate, the connections and the lock, which the four
\* resources of a request and the place where it stands make inductive.
THEOREM Invariance == Spec => []IInv
  BY InitHolds, NextPreserves, PTL DEF Spec

\* However many requests, permits and connections there are, what is missing of
\* the gate (ConcurrencyGate.acquire) and of the pool (session_scope) is held by
\* requests that stand where they will return it.
THEOREM NothingLeaks == Spec => []NothingIsLeaked
<1>1. IInv => NothingIsLeaked
  BY DEF IInv, NothingIsLeaked, Permitted, Connected, Left
<1> QED
  BY <1>1, Invariance, PTL

\* A request never gives back a permit it does not hold: the semaphore never
\* counts beyond search_max_concurrency, nor the pool beyond its size.
THEOREM NothingIsReturnedTwice == Spec => [](gate <= Capacity /\ pool <= PoolSize)
<1>1. IInv => gate <= Capacity /\ pool <= PoolSize
  <2> SUFFICES ASSUME IInv PROVE gate <= Capacity /\ pool <= PoolSize
    OBVIOUS
  <2>1. Cardinality(Permitted) \in Nat /\ Cardinality(Connected) \in Nat
    BY FS_CardinalityType DEF IInv
  <2> QED
    BY <2>1, LimitsArePositive DEF IInv, Left
<1> QED
  BY <1>1, Invariance, PTL

-----------------------------------------------------------------------------
(***************************************************************************)
(* Rankings.                                                                *)
(***************************************************************************)
\* Every paper of a set is among those given, or these fill a page.
Covers(found, set) == set \subseteq found \/ Cardinality(found) >= Limit

LEMMA PapersAreFinite == /\ IsFiniteSet(Papers)
                         /\ \A S \in SUBSET Papers : IsFiniteSet(S) /\ Cardinality(S) \in Nat
<1>1. IsFiniteSet(Papers)
  BY InjectiveLists, PapersAreOrdered
<1> QED
  BY <1>1, FS_Subset, FS_CardinalityType

LEMMA CoversMore ==
    ASSUME NEW A \in SUBSET Papers, NEW B \in SUBSET Papers, A \subseteq B,
           NEW C, NEW D, D \subseteq C, Covers(A, C)
    PROVE  Covers(B, D)
<1>1. Cardinality(A) \in Nat /\ Cardinality(B) \in Nat /\ Cardinality(A) <= Cardinality(B)
  BY PapersAreFinite, FS_Subset
<1> QED
  BY <1>1, LimitsArePositive DEF Covers

LEMMA TopCovers ==
    ASSUME NEW order \in Seq(Papers), IsInjective(order), NEW set, NEW n \in Nat, n >= Limit
    PROVE  /\ Top(order, set, n) \in Seq(Papers) /\ IsInjective(Top(order, set, n))
           /\ ToSet(Top(order, set, n)) \subseteq set \cap Papers
           /\ Covers(ToSet(Top(order, set, n)), ToSet(order) \cap set)
           /\ Top(order, set, n) = << >> => ToSet(order) \cap set = {}
<1> DEFINE rows == Among(order, set)
           top == Prefix(rows, n)
<1>1. rows \in Seq(Papers) /\ IsInjective(rows) /\ ToSet(rows) = ToSet(order) \cap set
  BY AmongIsASublist
<1> HIDE DEF rows
<1>2. /\ top \in Seq(Papers) /\ Len(top) = Least(n, Len(rows)) /\ DOMAIN top \subseteq DOMAIN rows
      /\ \A i \in DOMAIN top : top[i] = rows[i]
  BY <1>1, PrefixIsAPrefix
<1> HIDE DEF top
<1>3. IsInjective(top)
  BY <1>1, <1>2 DEF IsInjective
<1>4. ToSet(top) \subseteq ToSet(rows) /\ ToSet(top) \subseteq Papers
  BY <1>2 DEF ToSet
<1>5. CASE Len(rows) <= n
  <2>1. Len(top) = Len(rows)
    BY <1>1, <1>2, <1>5 DEF Least
  <2>2. DOMAIN top = DOMAIN rows
    BY <1>1, <1>2, <2>1
  <2>3. ToSet(top) = ToSet(rows)
    BY <1>2, <2>2 DEF ToSet
  <2>4. top = << >> => ToSet(rows) = {}
    BY <2>3 DEF ToSet
  <2> QED
    BY <1>1, <1>2, <1>3, <1>4, <2>3, <2>4 DEF Covers, Top, top, rows
<1>6. CASE Len(rows) > n
  <2>1. Len(top) = n
    BY <1>1, <1>2, <1>6 DEF Least
  <2>2. Cardinality(ToSet(top)) = n
    BY <1>2, <1>3, <2>1, InjectiveLists
  <2>3. top # << >>
    BY <2>1, LimitsArePositive
  <2> QED
    BY <1>1, <1>2, <1>3, <1>4, <2>2, <2>3 DEF Covers, Top, top, rows
<1> QED
  BY <1>1, <1>5, <1>6

\* What the rankings of a search are: distinct papers, best first.
RankedHit == [paper : Papers, rank : Nat \ {0}]
Hits == {hits \in Seq(RankedHit) :
            \A i, j \in DOMAIN hits : i < j => /\ hits[i].rank < hits[j].rank
                                               /\ hits[i].paper # hits[j].paper}
Found(hits) == {hits[i].paper : i \in DOMAIN hits}

LEMMA FoundArePapers ==
    ASSUME NEW hits \in Hits
    PROVE  ToSet(PapersOf(hits)) = Found(hits) /\ Found(hits) \subseteq Papers
           /\ PapersOf(hits) \in Seq(Papers)
<1>1. hits \in Seq(RankedHit)
  BY DEF Hits
<1>2. \A i \in DOMAIN hits : hits[i].paper \in Papers
  <2>1. \A i \in DOMAIN hits : hits[i] \in RankedHit
    BY <1>1
  <2> QED
    BY <2>1 DEF RankedHit
<1>3. PapersOf(hits) = [i \in 1 .. Len(hits) |-> hits[i].paper] /\ DOMAIN hits = 1 .. Len(hits)
  BY <1>1 DEF PapersOf
<1> QED
  BY <1>1, <1>2, <1>3, IsASeq DEF ToSet, Found

LEMMA RankedAreHits ==
    ASSUME NEW rows \in Seq(Papers), IsInjective(rows)
    PROVE  Ranked(rows) \in Hits /\ Found(Ranked(rows)) = ToSet(rows)
<1>1. DOMAIN rows = 1 .. Len(rows) /\ Len(rows) \in Nat
  OBVIOUS
<1>2. Ranked(rows) = [i \in 1 .. Len(rows) |-> [paper |-> rows[i], rank |-> i]]
  BY <1>1 DEF Ranked
<1>3. \A i \in 1 .. Len(rows) : [paper |-> rows[i], rank |-> i] \in RankedHit
  BY <1>1 DEF RankedHit
<1>4. Ranked(rows) \in Seq(RankedHit)
  BY <1>1, <1>2, <1>3, IsASeq
<1>5. /\ DOMAIN Ranked(rows) = DOMAIN rows
      /\ \A i \in DOMAIN rows : Ranked(rows)[i].paper = rows[i] /\ Ranked(rows)[i].rank = i
  BY <1>1, <1>2
<1> QED
  BY <1>1, <1>4, <1>5 DEF Hits, Found, ToSet, IsInjective

LEMMA HydratedAreHits ==
    ASSUME NEW hits \in Hits
    PROVE  /\ Hydrated(hits) \in Hits /\ Found(Hydrated(hits)) = Found(hits) \cap Present
           /\ \A m, n \in DOMAIN Hydrated(hits) : m < n =>
                 \E i, j \in DOMAIN hits :
                    i < j /\ Hydrated(hits)[m] = hits[i] /\ Hydrated(hits)[n] = hits[j]
<1> DEFINE at == {i \in DOMAIN hits : hits[i].paper \in Present}
           left == Hydrated(hits)
<1>1. hits \in Seq(RankedHit) /\ at \in SUBSET DOMAIN hits
  BY DEF Hits
<1>2. left \in Seq(RankedHit)
  BY <1>1, PickedIsASublist DEF Hydrated
<1>3. PICK place \in [DOMAIN left -> at] :
         /\ \A n \in DOMAIN left : left[n] = hits[place[n]]
         /\ \A m, n \in DOMAIN left : m < n => place[m] < place[n]
         /\ \A i \in at : \E n \in DOMAIN left : place[n] = i
  <2> HIDE DEF at
  <2> HIDE DEF left
  <2>1. PickedFrom(Picked(hits, at), hits, at)
    BY <1>1, PickedIsASublist
  <2>2. left = Picked(hits, at)
    BY DEF Hydrated, at, left
  <2> QED
    BY <2>1, <2>2 DEF PickedFrom
<1> HIDE DEF left
<1>4. ASSUME NEW m \in DOMAIN left, NEW n \in DOMAIN left, m < n
      PROVE  \E i, j \in DOMAIN hits : i < j /\ left[m] = hits[i] /\ left[n] = hits[j]
  BY <1>3, <1>4
<1>5. left \in Hits
  BY <1>2, <1>4 DEF Hits
<1>6. Found(left) = Found(hits) \cap Present
  BY <1>3 DEF Found
<1> QED
  BY <1>4, <1>5, <1>6 DEF left

LEMMA Ranks ==
    ASSUME NEW hits \in Hits
    PROVE  /\ \A i \in DOMAIN hits : RankIn(hits, hits[i].paper) = hits[i].rank /\ hits[i].rank \in Nat \ {0}
           /\ \A p : p \in Found(hits) => RankIn(hits, p) \in Nat \ {0} /\ RankIn(hits, p) # None
           /\ \A p : p \notin Found(hits) => RankIn(hits, p) = None
<1>1. \A i \in DOMAIN hits : hits[i].rank \in Nat \ {0} /\ i \in Nat
  <2>1. hits \in Seq(RankedHit)
    BY DEF Hits
  <2>2. \A i \in DOMAIN hits : hits[i] \in RankedHit /\ i \in Nat
    BY <2>1
  <2> QED
    BY <2>2 DEF RankedHit
<1>2. \A i, j \in DOMAIN hits : hits[i].paper = hits[j].paper => i = j
  BY <1>1 DEF Hits
<1>3. ASSUME NEW i \in DOMAIN hits PROVE RankIn(hits, hits[i].paper) = hits[i].rank
  <2>1. {j \in DOMAIN hits : hits[j].paper = hits[i].paper} = {i}
    BY <1>2
  <2> QED
    BY <2>1 DEF RankIn
<1>4. ASSUME NEW p, p \notin Found(hits) PROVE RankIn(hits, p) = None
  <2>1. {j \in DOMAIN hits : hits[j].paper = p} = {}
    BY <1>4 DEF Found
  <2> QED
    BY <2>1 DEF RankIn
<1>5. ASSUME NEW p, p \in Found(hits) PROVE RankIn(hits, p) \in Nat \ {0} /\ RankIn(hits, p) # None
  <2>1. PICK i \in DOMAIN hits : hits[i].paper = p
    BY <1>5 DEF Found
  <2> QED
    BY <1>1, <1>3, <2>1, HandlersAreAsked
<1> QED
  BY <1>1, <1>3, <1>4, <1>5

-----------------------------------------------------------------------------
(***************************************************************************)
(* The order of the fusion.                                                 *)
(***************************************************************************)
LEMMA Scaling ==
    ASSUME NEW m \in Nat, NEW n \in Nat, NEW k \in Nat \ {0}
    PROVE  m < n <=> m * k < n * k
<1>1. m < n => m * k < n * k
  <2> SUFFICES ASSUME m < n PROVE m * k < n * k
    OBVIOUS
  <2>1. PICK d \in Nat \ {0} : n = m + d
    <3>1. n - m \in Nat \ {0} /\ n = m + (n - m)
      OBVIOUS
    <3> QED
      BY <3>1
  <2>2. n * k = m * k + d * k
    BY <2>1
  <2>3. d * k > 0 /\ d * k \in Nat /\ m * k \in Nat
    OBVIOUS
  <2> QED
    BY <2>2, <2>3
<1>2. n < m => n * k < m * k
  <2> SUFFICES ASSUME n < m PROVE n * k < m * k
    OBVIOUS
  <2>1. PICK d \in Nat \ {0} : m = n + d
    <3>1. m - n \in Nat \ {0} /\ m = n + (m - n)
      OBVIOUS
    <3> QED
      BY <3>1
  <2>2. m * k = n * k + d * k
    BY <2>1
  <2>3. d * k > 0 /\ d * k \in Nat /\ n * k \in Nat
    OBVIOUS
  <2> QED
    BY <2>2, <2>3
<1>3. m = n => m * k = n * k
  OBVIOUS
<1>4. m * k \in Nat /\ n * k \in Nat
  OBVIOUS
<1> QED
  BY <1>1, <1>2, <1>3, <1>4

\* Fractions compared by cross-multiplication, a / x and b / y and c / z.
LEMMA CrossMultiplied ==
    ASSUME NEW a \in Nat, NEW b \in Nat, NEW c \in Nat,
           NEW x \in Nat \ {0}, NEW y \in Nat \ {0}, NEW z \in Nat \ {0},
           b * x <= a * y, c * y <= b * z
    PROVE  /\ c * x <= a * z
           /\ b * x < a * y \/ c * y < b * z => c * x < a * z
<1> DEFINE ay == a * y bx == b * x bz == b * z cy == c * y az == a * z cx == c * x
<1>1. ay \in Nat /\ bx \in Nat /\ bz \in Nat /\ cy \in Nat /\ az \in Nat /\ cx \in Nat
  OBVIOUS
<1>2. ay * z = az * y /\ bx * z = bz * x /\ cy * x = cx * y
  OBVIOUS
<1>3. bx <= ay /\ cy <= bz
  OBVIOUS
<1> HIDE DEF ay, bx, bz, cy, az, cx
<1>4. /\ bx * z <= ay * z /\ (bx < ay => bx * z < ay * z)
      /\ cy * x <= bz * x /\ (cy < bz => cy * x < bz * x)
  <2>1. (ay < bx <=> ay * z < bx * z) /\ (bx < ay <=> bx * z < ay * z)
    BY <1>1, Scaling
  <2>2. (bz < cy <=> bz * x < cy * x) /\ (cy < bz <=> cy * x < bz * x)
    BY <1>1, Scaling
  <2>3. ay * z \in Nat /\ bx * z \in Nat /\ bz * x \in Nat /\ cy * x \in Nat
    BY <1>1
  <2> QED
    BY <1>1, <1>3, <2>1, <2>2, <2>3
<1>5. (az < cx <=> az * y < cx * y) /\ (cx < az <=> cx * y < az * y)
  BY <1>1, Scaling
<1>6. ay * z \in Nat /\ bx * z \in Nat /\ bz * x \in Nat /\ cy * x \in Nat /\ az * y \in Nat /\ cx * y \in Nat
  BY <1>1
<1>7. cx <= az /\ (bx < ay \/ cy < bz => cx < az)
  BY <1>1, <1>2, <1>4, <1>5, <1>6
<1> QED
  BY <1>7 DEF ay, bx, bz, cy, az, cx

\* Sums of fractions, k / u + l / v against m / x + n / y.
LEMMA Summed ==
    ASSUME NEW k \in Nat, NEW l \in Nat, NEW m \in Nat, NEW n \in Nat,
           NEW u \in Nat \ {0}, NEW v \in Nat \ {0}, NEW x \in Nat \ {0}, NEW y \in Nat \ {0},
           k * x <= m * u, l * y <= n * v, k * x < m * u \/ l * y < n * v
    PROVE  (k * v + l * u) * (x * y) < (m * y + n * x) * (u * v)
<1> DEFINE kx == k * x mu == m * u ly == l * y nv == n * v vy == v * y ux == u * x
<1>1. kx \in Nat /\ mu \in Nat /\ ly \in Nat /\ nv \in Nat /\ vy \in Nat \ {0} /\ ux \in Nat \ {0}
  <2>1. v * y > 0 /\ u * x > 0
    OBVIOUS
  <2> QED
    BY <2>1
<1>2. /\ (k * v + l * u) * (x * y) = kx * vy + ly * ux
      /\ (m * y + n * x) * (u * v) = mu * vy + nv * ux
  OBVIOUS
<1>3. kx <= mu /\ ly <= nv /\ (kx < mu \/ ly < nv)
  OBVIOUS
<1> HIDE DEF kx, mu, ly, nv, vy, ux
<1>4. (kx < mu <=> kx * vy < mu * vy) /\ (ly < nv <=> ly * ux < nv * ux)
  BY <1>1, Scaling
<1>5. kx * vy \in Nat /\ mu * vy \in Nat /\ ly * ux \in Nat /\ nv * ux \in Nat
  BY <1>1
<1>6. (kx = mu => kx * vy = mu * vy) /\ (ly = nv => ly * ux = nv * ux)
  OBVIOUS
<1>7. kx * vy + ly * ux < mu * vy + nv * ux
  BY <1>1, <1>3, <1>4, <1>5, <1>6
<1> QED
  BY <1>2, <1>7

\* A ranking gives a paper a fraction, a smaller one to a paper further down.
LEMMA Contributions ==
    ASSUME NEW hits \in Hits, NEW p, NEW q
    PROVE  /\ Contribution(hits, p).num \in Nat /\ Contribution(hits, p).den \in Nat \ {0}
           /\ Contribution(hits, q).num \in Nat /\ Contribution(hits, q).den \in Nat \ {0}
           /\ Behind(hits, p, q) =>
                /\ Contribution(hits, p).num * Contribution(hits, q).den
                     <= Contribution(hits, q).num * Contribution(hits, p).den
                /\ p \in Found(hits) =>
                     Contribution(hits, p).num * Contribution(hits, q).den
                       < Contribution(hits, q).num * Contribution(hits, p).den
<1>1. ASSUME NEW x
      PROVE  \/ /\ RankIn(hits, x) = None
                /\ Contribution(hits, x).num = 0 /\ Contribution(hits, x).den = 1
             \/ /\ RankIn(hits, x) # None /\ RankIn(hits, x) \in Nat \ {0}
                /\ Contribution(hits, x).num = 1 /\ Contribution(hits, x).den = RrfK + RankIn(hits, x)
  <2>1. CASE x \in Found(hits)
    <3>1. RankIn(hits, x) # None /\ RankIn(hits, x) \in Nat \ {0}
      BY <2>1, Ranks
    <3> QED
      BY <3>1 DEF Contribution, Fraction
  <2>2. CASE x \notin Found(hits)
    <3>1. RankIn(hits, x) = None
      BY <2>2, Ranks
    <3> QED
      BY <3>1 DEF Contribution, Fraction
  <2> QED
    BY <2>1, <2>2
<1> DEFINE pn == Contribution(hits, p).num pd == Contribution(hits, p).den
           qn == Contribution(hits, q).num qd == Contribution(hits, q).den
           pr == RankIn(hits, p) qr == RankIn(hits, q)
<1>2. \/ pr = None /\ pn = 0 /\ pd = 1
      \/ pr # None /\ pr \in Nat \ {0} /\ pn = 1 /\ pd = RrfK + pr
  BY <1>1
<1>3. \/ qr = None /\ qn = 0 /\ qd = 1
      \/ qr # None /\ qr \in Nat \ {0} /\ qn = 1 /\ qd = RrfK + qr
  BY <1>1
<1>4. RrfK \in Nat \ {0}
  BY LimitsArePositive
<1>5. p \in Found(hits) => pr # None
  BY Ranks
<1>6. Behind(hits, p, q) => pr = None \/ (qr # None /\ qr < pr)
  BY DEF Behind
<1> HIDE DEF pn, pd, qn, qd, pr, qr
<1>7. pn \in Nat /\ pd \in Nat \ {0} /\ qn \in Nat /\ qd \in Nat \ {0}
  BY <1>2, <1>3, <1>4
<1>8. pr = None => pn * qd <= qn * pd
  <2>1. qn * pd \in Nat
    BY <1>7
  <2> QED
    BY <1>2, <1>7, <2>1
<1>9. ASSUME pr # None, qr # None, qr < pr PROVE pn * qd < qn * pd
  BY <1>2, <1>3, <1>4, <1>9
<1>10. ASSUME pr # None, qr # None, qr < pr PROVE pn * qd <= qn * pd
  <2>1. pn * qd < qn * pd /\ pn * qd \in Nat /\ qn * pd \in Nat
    BY <1>7, <1>9, <1>10
  <2> QED
    BY <2>1
<1> QED
  BY <1>5, <1>6, <1>7, <1>8, <1>9, <1>10 DEF pn, pd, qn, qd, pr, qr

LEMMA Scores ==
    ASSUME NEW r, r.lexical \in Hits, r.semantic \in Hits, NEW p
    PROVE  Score(r, p).num \in Nat /\ Score(r, p).den \in Nat \ {0}
<1> DEFINE a == Contribution(r.lexical, p).num b == Contribution(r.lexical, p).den
           c == Contribution(r.semantic, p).num d == Contribution(r.semantic, p).den
<1>1. a \in Nat /\ b \in Nat \ {0} /\ c \in Nat /\ d \in Nat \ {0}
  BY Contributions
<1>2. Score(r, p).num = a * d + c * b /\ Score(r, p).den = b * d
  BY DEF Score, Plus, Fraction
<1> HIDE DEF a, b, c, d
<1>3. a * d + c * b \in Nat /\ b * d \in Nat /\ b * d > 0
  BY <1>1
<1> QED
  BY <1>2, <1>3

\* A paper behind another one in both rankings is not before it in the fusion.
LEMMA BehindIsNotBetter ==
    ASSUME NEW r, r.lexical \in Hits, r.semantic \in Hits,
           NEW p \in Found(r.lexical) \cup Found(r.semantic), NEW q,
           Behind(r.lexical, p, q), Behind(r.semantic, p, q)
    PROVE  ~ Better(r, p, q)
<1> DEFINE k == Contribution(r.lexical, p).num u == Contribution(r.lexical, p).den
           l == Contribution(r.semantic, p).num v == Contribution(r.semantic, p).den
           m == Contribution(r.lexical, q).num x == Contribution(r.lexical, q).den
           n == Contribution(r.semantic, q).num y == Contribution(r.semantic, q).den
<1>1. /\ k \in Nat /\ l \in Nat /\ m \in Nat /\ n \in Nat
      /\ u \in Nat \ {0} /\ v \in Nat \ {0} /\ x \in Nat \ {0} /\ y \in Nat \ {0}
  BY Contributions
<1>2. k * x <= m * u /\ l * y <= n * v
  BY Contributions
<1>3. k * x < m * u \/ l * y < n * v
  BY Contributions
<1>4. /\ Score(r, p).num = k * v + l * u /\ Score(r, p).den = u * v
      /\ Score(r, q).num = m * y + n * x /\ Score(r, q).den = x * y
  BY DEF Score, Plus, Fraction
<1>5. /\ Score(r, p).num \in Nat /\ Score(r, p).den \in Nat \ {0}
      /\ Score(r, q).num \in Nat /\ Score(r, q).den \in Nat \ {0}
  BY Scores
<1> HIDE DEF k, l, m, n, u, v, x, y
<1>6. (k * v + l * u) * (x * y) < (m * y + n * x) * (u * v)
  BY <1>1, <1>2, <1>3, Summed
<1>7. Score(r, p).num * Score(r, q).den < Score(r, q).num * Score(r, p).den
  BY <1>4, <1>6
<1> DEFINE a == Score(r, p).num * Score(r, q).den b == Score(r, q).num * Score(r, p).den
<1>8. a \in Nat /\ b \in Nat /\ a < b
  BY <1>5, <1>7
<1>9. Better(r, p, q) <=> a > b \/ (a = b /\ p < q)
  BY DEF Better
<1> HIDE DEF a, b
<1> QED
  BY <1>8, <1>9

LEMMA BetterOrders ==
    ASSUME NEW r, r.lexical \in Hits, r.semantic \in Hits, NEW S \in SUBSET Papers
    PROVE  StrictlyOrders({x \in S \X S : Better(r, x[1], x[2])}, S)
<1> DEFINE num(p) == Score(r, p).num den(p) == Score(r, p).den
<1>1. \A p \in S : num(p) \in Nat /\ den(p) \in Nat \ {0} /\ p \in Nat
  BY Scores, PapersAreOrdered
<1>2. \A p, q \in S : Better(r, p, q) <=> \/ num(p) * den(q) > num(q) * den(p)
                                          \/ num(p) * den(q) = num(q) * den(p) /\ p < q
  BY DEF Better
<1> HIDE DEF num, den
<1>3. \A p \in S : ~ Better(r, p, p)
  <2> TAKE p \in S
  <2>1. num(p) * den(p) \in Nat /\ p \in Nat
    BY <1>1
  <2> QED
    BY <1>2, <2>1
<1>4. \A p, q \in S : p # q => Better(r, p, q) \/ Better(r, q, p)
  <2> TAKE p \in S, q \in S
  <2>1. num(p) * den(q) \in Nat /\ num(q) * den(p) \in Nat /\ p \in Nat /\ q \in Nat
    BY <1>1
  <2>2. \/ num(p) * den(q) > num(q) * den(p) \/ num(p) * den(q) < num(q) * den(p)
        \/ num(p) * den(q) = num(q) * den(p)
    BY <2>1
  <2> QED
    BY <1>2, <2>1, <2>2
<1>5. \A p, q, s \in S : Better(r, p, q) /\ Better(r, q, s) => Better(r, p, s)
  <2> SUFFICES ASSUME NEW p \in S, NEW q \in S, NEW s \in S, Better(r, p, q), Better(r, q, s)
               PROVE  Better(r, p, s)
    OBVIOUS
  <2> DEFINE a == num(p) b == num(q) c == num(s) x == den(p) y == den(q) z == den(s)
  <2>1. /\ a \in Nat /\ b \in Nat /\ c \in Nat /\ p \in Nat /\ q \in Nat /\ s \in Nat
        /\ x \in Nat \ {0} /\ y \in Nat \ {0} /\ z \in Nat \ {0}
    BY <1>1
  <2>2. (a * y > b * x) \/ (a * y = b * x /\ p < q)
    BY <1>2
  <2>3. (b * z > c * y) \/ (b * z = c * y /\ q < s)
    BY <1>2
  <2>4. Better(r, p, s) <=> (a * z > c * x) \/ (a * z = c * x /\ p < s)
    BY <1>2
  <2> HIDE DEF a, b, c, x, y, z
  <2>5. a * y \in Nat /\ b * x \in Nat /\ b * z \in Nat /\ c * y \in Nat /\ a * z \in Nat /\ c * x \in Nat
    BY <2>1
  <2>6. b * x <= a * y /\ c * y <= b * z
    BY <2>2, <2>3, <2>5
  <2>7. c * x <= a * z /\ (b * x < a * y \/ c * y < b * z => c * x < a * z)
    BY <2>1, <2>6, CrossMultiplied
  <2>8. CASE b * x < a * y \/ c * y < b * z
    BY <2>4, <2>5, <2>7, <2>8
  <2>9. CASE ~ (b * x < a * y \/ c * y < b * z)
    <3>1. p < s
      BY <2>1, <2>2, <2>3, <2>5, <2>9
    <3> QED
      BY <2>4, <2>5, <2>7, <3>1
  <2> QED
    BY <2>8, <2>9
<1> QED
  BY <1>3, <1>4, <1>5 DEF StrictlyOrders

-----------------------------------------------------------------------------
(***************************************************************************)
(* The invariant of a search.                                               *)
(***************************************************************************)
Searching == Gated \cup {"service", "lock", "load", "gate", "project", "answered"}

\* Of two papers of a list the first is not behind the second in every ranking.
InOrder(lexical, semantic, page) ==
    \A i, j \in DOMAIN page : i < j =>
        \E hits \in {lexical, semantic} : ~ Behind(hits, page[i], page[j])

Strict(r) == r.query.all \cap r.steady
Near(r)   == ToSet(r.query.near) \cap r.steady
CertainUnder(m, r) == CASE m = "lexical"  -> Strict(r)
                        [] m = "semantic" -> Near(r)
                        [] m = "hybrid"   -> Strict(r) \cup Near(r)

\* A search under the method m, where `listed' and `present' are the papers of
\* that status: what it has found is there or has been deleted meanwhile, and
\* with what has been deleted covers what its rankings cannot miss.
Typed(m, r) ==
    /\ r.query \in Queries /\ r.steady \in SUBSET Papers /\ r.lost \in SUBSET Papers
    /\ r.lexical \in Hits /\ r.semantic \in Hits /\ r.page \in Seq(Papers)
    /\ r.pc \in Searching
    /\ r.pc \in {"strict", "relaxed", "lexical hits"} => m # "semantic"
    /\ r.pc \in {"encode", "scan", "semantic hits"} => m # "lexical"
    /\ r.pc = "fuse" => m = "hybrid"

UpToDate(r, listed, present) ==
    /\ r.steady \subseteq listed \cap r.query.keep
    /\ Found(r.lexical) \cup Found(r.semantic) \cup ToSet(r.page) \subseteq present \cup r.lost

Covering(m, r) ==
    /\ r.pc = "relaxed" => Strict(r) = {}
    /\ r.pc \in {"lexical hits", "encode", "scan", "semantic hits", "fuse"} /\ m # "semantic" =>
          Covers(Found(r.lexical) \cup r.lost, Strict(r))
    /\ r.pc \in {"semantic hits", "fuse"} => Covers(Found(r.semantic) \cup r.lost, Near(r))
    /\ r.pc \in {"project", "answered"} => Covers(ToSet(r.page) \cup r.lost, CertainUnder(m, r))

Sound(m, r, listed, present) ==
    /\ Typed(m, r)
    /\ r.pc # "answered" => UpToDate(r, listed, present)
    /\ Covering(m, r)
    /\ r.pc \in {"project", "answered"} => InOrder(r.lexical, r.semantic, r.page)

SearchInv ==
    /\ method \in Methods /\ DOMAIN paper = Papers
    /\ \A h \in Handlers : req[h].kind = "search" /\ req[h].pc # "idle" =>
                            Sound(method, req[h], Listed, Present)

\* What the fusion lists, in which order.
LEMMA FusedIsInOrder ==
    ASSUME NEW r, r.lexical \in Hits, r.semantic \in Hits
    PROVE  /\ Fused(r) \in Seq(Papers)
           /\ ToSet(Fused(r)) \subseteq Found(r.lexical) \cup Found(r.semantic)
           /\ Covers(ToSet(Fused(r)), Found(r.lexical) \cup Found(r.semantic))
           /\ InOrder(r.lexical, r.semantic, Fused(r))
<1> DEFINE found == Found(r.lexical) \cup Found(r.semantic)
           R == {x \in found \X found : Better(r, x[1], x[2])}
           all == Sorted(found, R)
           list == Prefix(all, Limit)
<1>1. found \in SUBSET Papers
  BY FoundArePapers
<1>2. IsFiniteSet(found) /\ Cardinality(found) \in Nat
  BY <1>1, PapersAreFinite
<1>3. StrictlyOrders(R, found)
  BY <1>1, BetterOrders
<1>4. Fused(r) = list
  BY FoundArePapers DEF Fused
<1>5. \A p, q \in found : <<p, q>> \in R => Better(r, p, q)
  OBVIOUS
<1> DEFINE size == Cardinality(found)
<1> HIDE DEF R, found
<1>6. /\ all \in [1 .. size -> found]
      /\ \A i, j \in 1 .. size : i < j => <<all[i], all[j]>> \in R
      /\ \A x \in found : \E i \in 1 .. size : all[i] = x
  BY <1>2, <1>3, SortedIsAListing
<1> HIDE DEF all, size
<1>7. size \in Nat
  BY <1>2 DEF size
<1>8. all \in Seq(found) /\ Len(all) = size /\ DOMAIN all = 1 .. size
  BY <1>6, <1>7
<1>9. IsInjective(all)
  <2> SUFFICES ASSUME NEW i \in 1 .. size, NEW j \in 1 .. size, all[i] = all[j], i < j PROVE FALSE
    BY <1>7, <1>8 DEF IsInjective
  <2>1. <<all[i], all[j]>> \in R /\ all[i] \in found
    BY <1>6
  <2> QED
    BY <1>3, <2>1 DEF StrictlyOrders
<1>10. Limit \in Nat
  BY LimitsArePositive
<1>11. /\ list \in Seq(found) /\ Len(list) = Least(Limit, size) /\ DOMAIN list \subseteq 1 .. size
       /\ \A i \in DOMAIN list : list[i] = all[i]
       /\ DOMAIN list = 1 .. Least(Limit, size)
  BY <1>8, <1>10, PrefixIsAPrefix
<1> HIDE DEF list
<1>12. IsInjective(list)
  BY <1>8, <1>9, <1>11 DEF IsInjective
<1>13. ToSet(list) \subseteq found
  BY <1>11 DEF ToSet
<1>14. Covers(ToSet(list), found)
  <2>1. CASE size <= Limit
    <3>1. DOMAIN list = 1 .. size
      BY <1>7, <1>10, <1>11, <2>1 DEF Least
    <3>2. found \subseteq ToSet(list)
      BY <1>6, <1>11, <3>1 DEF ToSet
    <3> QED
      BY <3>2 DEF Covers
  <2>2. CASE size > Limit
    <3>1. Len(list) = Limit
      BY <1>7, <1>10, <1>11, <2>2 DEF Least
    <3>2. Cardinality(ToSet(list)) = Limit
      BY <1>11, <1>12, <3>1, InjectiveLists
    <3> QED
      BY <1>10, <3>2 DEF Covers
  <2> QED
    BY <1>7, <1>10, <2>1, <2>2
<1>15. InOrder(r.lexical, r.semantic, list)
  <2> SUFFICES ASSUME NEW i \in DOMAIN list, NEW j \in DOMAIN list, i < j,
                      Behind(r.lexical, list[i], list[j]), Behind(r.semantic, list[i], list[j])
               PROVE  FALSE
    BY DEF InOrder
  <2>1. list[i] \in found /\ list[j] \in found /\ <<list[i], list[j]>> \in R
    BY <1>6, <1>11
  <2>2. Better(r, list[i], list[j])
    BY <1>5, <2>1
  <2>3. ~ Better(r, list[i], list[j])
    BY <2>1, BehindIsNotBetter DEF found
  <2> QED
    BY <2>2, <2>3
<1>16. list \in Seq(Papers)
  <2>1. \A i \in 1 .. Len(list) : list[i] \in Papers
    BY <1>1, <1>11
  <2>2. list = [i \in 1 .. Len(list) |-> list[i]] /\ Len(list) \in Nat
    BY <1>11
  <2> QED
    BY <2>1, <2>2, IsASeq
<1> QED
  BY <1>4, <1>13, <1>14, <1>15, <1>16 DEF found

\* What is left of a list is in order when the list is.
LEMMA AmongInOrder ==
    ASSUME NEW page \in Seq(Papers), NEW set, NEW lexical, NEW semantic,
           InOrder(lexical, semantic, page)
    PROVE  InOrder(lexical, semantic, Among(page, set))
<1> DEFINE part == Among(page, set)
<1>1. \A m, n \in DOMAIN part : m < n =>
         \E i, j \in DOMAIN page : i < j /\ part[m] = page[i] /\ part[n] = page[j]
  BY AmongIsASublist
<1> HIDE DEF part
<1> SUFFICES ASSUME NEW m \in DOMAIN part, NEW n \in DOMAIN part, m < n
             PROVE  \E hits \in {lexical, semantic} : ~ Behind(hits, part[m], part[n])
  BY DEF InOrder, part
<1>2. PICK i \in DOMAIN page, j \in DOMAIN page : i < j /\ part[m] = page[i] /\ part[n] = page[j]
  BY <1>1
<1> QED
  BY <1>2 DEF InOrder

\* A ranking is in its own order, and so is what is left of it.
LEMMA RankingInOrder ==
    ASSUME NEW hits \in Hits, NEW other
    PROVE  /\ InOrder(hits, other, PapersOf(Hydrated(hits)))
           /\ InOrder(other, hits, PapersOf(Hydrated(hits)))
<1> DEFINE left == Hydrated(hits)
<1>1. \A m, n \in DOMAIN left : m < n =>
         \E i, j \in DOMAIN hits : i < j /\ left[m] = hits[i] /\ left[n] = hits[j]
  BY HydratedAreHits
<1> HIDE DEF left
<1>2. /\ DOMAIN PapersOf(left) = DOMAIN left
      /\ \A i \in DOMAIN left : PapersOf(left)[i] = left[i].paper
  BY DEF PapersOf
<1>3. ASSUME NEW m \in DOMAIN left, NEW n \in DOMAIN left, m < n
      PROVE  ~ Behind(hits, left[m].paper, left[n].paper)
  <2>1. PICK i \in DOMAIN hits, j \in DOMAIN hits : i < j /\ left[m] = hits[i] /\ left[n] = hits[j]
    BY <1>1, <1>3
  <2>2. /\ RankIn(hits, hits[i].paper) = hits[i].rank /\ hits[i].rank \in Nat \ {0}
        /\ RankIn(hits, hits[j].paper) = hits[j].rank /\ hits[j].rank \in Nat \ {0}
    BY Ranks
  <2>3. hits[i].rank < hits[j].rank
    BY <2>1 DEF Hits
  <2> QED
    BY <2>1, <2>2, <2>3, HandlersAreAsked DEF Behind
<1> QED
  BY <1>2, <1>3 DEF InOrder, left

-----------------------------------------------------------------------------
LEMMA OneSearch ==
    ASSUME IInv, SearchInv, NEW h \in Handlers, NEW t, req' = [req EXCEPT ![h] = t],
           UNCHANGED <<method, paper>>,
           t.kind = "search" /\ t.pc # "idle" => Sound(method, t, Listed, Present)
    PROVE  SearchInv'
<1>1. Listed' = Listed /\ Present' = Present
  BY DEF Listed, Present
<1>2. DOMAIN req = Handlers /\ req'[h] = t /\ \A g \in Handlers \ {h} : req'[g] = req[g]
  BY DEF IInv
<1> HIDE DEF Listed, Present
<1>3. ASSUME NEW g \in Handlers, req'[g].kind = "search", req'[g].pc # "idle"
      PROVE  Sound(method, req'[g], Listed, Present)
  BY <1>2, <1>3 DEF SearchInv
<1> QED
  BY <1>1, <1>3 DEF SearchInv

\* The fields a search is judged by.
Same(t, r) == /\ t.kind = r.kind /\ t.query = r.query /\ t.steady = r.steady /\ t.lost = r.lost
              /\ t.lexical = r.lexical /\ t.semantic = r.semantic /\ t.page = r.page

\* A step that reads no paper.
LEMMA OnwardStep ==
    ASSUME IInv, SearchInv, NEW h \in Handlers, NEW t, req' = [req EXCEPT ![h] = t],
           UNCHANGED <<method, paper>>, Same(t, req[h]), req[h].pc # "idle",
           \/ t.pc = req[h].pc
           \/ req[h].pc \in {"service", "lock", "load"} /\ t.pc \in {"lock", "load", "gate"}
           \/ req[h].pc = "gate" /\ t.pc = IF method = "semantic" THEN "encode" ELSE "strict"
           \/ req[h].pc = "encode" /\ t.pc = "scan"
           \/ req[h].kind # "search"
    PROVE  SearchInv'
<1> SUFFICES ASSUME t.kind = "search" PROVE Sound(method, t, Listed, Present)
  BY OneSearch
<1>1. Sound(method, req[h], Listed, Present) /\ req[h].kind = "search"
  BY DEF SearchInv, Same
<1>2. Strict(t) = Strict(req[h]) /\ Near(t) = Near(req[h]) /\ CertainUnder(method, t) = CertainUnder(method, req[h])
  BY DEF Same, Strict, Near, CertainUnder
<1>3. CASE t.pc = req[h].pc
  BY <1>1, <1>2, <1>3 DEF Same, Sound, Typed, UpToDate, Covering
<1>4. CASE t.pc # req[h].pc
  <2>1. /\ req[h].pc \in {"service", "lock", "load", "gate", "encode"}
        /\ t.pc \in {"lock", "load", "gate", "encode", "strict", "scan"}
        /\ t.pc = "strict" => method # "semantic"
        /\ t.pc \in {"encode", "scan"} => method # "lexical"
        /\ t.pc \in {"encode", "scan"} /\ method # "semantic" => req[h].pc = "encode"
    <3>1. req[h].pc = "encode" => method # "lexical"
      BY <1>1 DEF Sound, Typed
    <3> QED
      BY <1>1, <1>4, <3>1
  <2>2. Typed(method, t)
    BY <1>1, <2>1 DEF Same, Sound, Typed, Searching, Gated
  <2>3. UpToDate(t, Listed, Present)
    BY <1>1, <2>1 DEF Same, Sound, UpToDate
  <2>4. Covering(method, t)
    BY <1>1, <1>2, <2>1 DEF Same, Sound, Covering
  <2> QED
    BY <2>1, <2>2, <2>3, <2>4 DEF Sound
<1> QED
  BY <1>3, <1>4

LEMMA AskedSearch ==
    ASSUME IInv, SearchInv, NEW h \in Handlers, Ask(h)
    PROVE  SearchInv'
<1>1. PICK k \in Asks[h], q \in Queries, o \in Offsets :
         req' = [req EXCEPT ![h] =
              [Resting EXCEPT !.pc = IF k = "browse" THEN "rows" ELSE "service",
                              !.kind = k, !.offset = o,
                              !.query = IF k \in Filtered THEN q ELSE None,
                              !.steady = IF k \in Filtered THEN Passing(q) ELSE {}]]
  BY DEF Ask
<1> DEFINE t == [Resting EXCEPT !.pc = IF k = "browse" THEN "rows" ELSE "service",
                                !.kind = k, !.offset = o,
                                !.query = IF k \in Filtered THEN q ELSE None,
                                !.steady = IF k \in Filtered THEN Passing(q) ELSE {}]
<1>2. /\ t.kind = k /\ t.pc = (IF k = "browse" THEN "rows" ELSE "service")
      /\ t.query = (IF k \in Filtered THEN q ELSE None)
      /\ t.steady = (IF k \in Filtered THEN Passing(q) ELSE {})
      /\ t.lexical = << >> /\ t.semantic = << >> /\ t.page = << >> /\ t.lost = {}
  BY DEF Resting
<1>3. req' = [req EXCEPT ![h] = t] /\ UNCHANGED <<method, paper>>
  BY <1>1 DEF Ask, Resources
<1> HIDE DEF t
<1>4. ASSUME t.kind = "search" PROVE Sound(method, t, Listed, Present)
  <2>1. /\ t.pc = "service" /\ t.query = q /\ t.steady = Passing(q)
    BY <1>2, <1>4 DEF Filtered
  <2>2. << >> \in Hits /\ Found(<< >>) = {} /\ ToSet(<< >>) = {} /\ << >> \in Seq(Papers)
    BY DEF Hits, Found, ToSet
  <2>3. Passing(q) \subseteq Listed \cap q.keep /\ Passing(q) \subseteq Papers
    BY DEF Passing, Listed
  <2>4. Typed(method, t)
    BY <1>2, <2>1, <2>2, <2>3 DEF Typed, Searching
  <2>5. UpToDate(t, Listed, Present)
    BY <1>2, <2>1, <2>2, <2>3 DEF UpToDate
  <2> QED
    BY <2>1, <2>4, <2>5 DEF Sound, Covering
<1> QED
  BY <1>3, <1>4, OneSearch

LEMMA EndedSearch ==
    ASSUME IInv, SearchInv, NEW h \in Handlers, Unwound(h), UNCHANGED <<method, paper>>
    PROVE  SearchInv'
<1>1. Resting.pc = "idle"
  BY DEF Resting
<1>2. req' = [req EXCEPT ![h] = Resting]
  BY DEF Unwound
<1> QED
  BY <1>1, <1>2, OneSearch

\* What waits, connects or encodes.
LEMMA OnwardActions ==
    ASSUME IInv, SearchInv, NEW h \in Handlers,
           \/ FindService(h) \/ EnterLock(h) \/ Load(h) \/ Connect(h) \/ Acquire(h) \/ Encode(h)
    PROVE  SearchInv'
<1>0. DOMAIN req[h] = RequestFields
  BY DEF IInv, RequestInv
<1>a. req[h].kind = "search" => AfterService(h) = "gate"
  BY DEF AfterService
<1>1. CASE FindService(h)
  <2> DEFINE t == [req[h] EXCEPT !.pc = IF service THEN AfterService(h) ELSE "lock"]
  <2>1. Same(t, req[h]) /\ t.pc = IF service THEN AfterService(h) ELSE "lock"
    BY <1>0, Fields DEF Same
  <2>2. req' = [req EXCEPT ![h] = t] /\ UNCHANGED <<method, paper>> /\ req[h].pc = "service"
    BY <1>1 DEF FindService, Goto, Resources, At
  <2> HIDE DEF t
  <2> QED
    BY <1>a, <2>1, <2>2, OnwardStep
<1>2. CASE EnterLock(h)
  <2> DEFINE t == [req[h] EXCEPT !.pc = "load"]
  <2>1. Same(t, req[h]) /\ t.pc = "load"
    BY <1>0, Fields DEF Same
  <2>2. req' = [req EXCEPT ![h] = t] /\ UNCHANGED <<method, paper>> /\ req[h].pc = "lock"
    BY <1>2 DEF EnterLock, Goto, At
  <2> HIDE DEF t
  <2> QED
    BY <2>1, <2>2, OnwardStep
<1>3. CASE Load(h)
  <2> DEFINE t == [req[h] EXCEPT !.pc = AfterService(h)]
  <2>1. Same(t, req[h]) /\ t.pc = AfterService(h)
    BY <1>0, Fields DEF Same
  <2>2. req' = [req EXCEPT ![h] = t] /\ UNCHANGED <<method, paper>> /\ req[h].pc = "load"
    BY <1>3 DEF Load, Goto, At
  <2> HIDE DEF t
  <2> QED
    BY <1>a, <2>1, <2>2, OnwardStep
<1>4. CASE Connect(h)
  <2> DEFINE t == [req[h] EXCEPT !.conn = TRUE]
  <2>1. Same(t, req[h]) /\ t.pc = req[h].pc
    BY <1>0, Fields DEF Same
  <2>2. req' = [req EXCEPT ![h] = t] /\ UNCHANGED <<method, paper>> /\ req[h].pc # "idle"
    BY <1>4 DEF Connect, Statements
  <2> HIDE DEF t
  <2> QED
    BY <2>1, <2>2, OnwardStep
<1>5. CASE Acquire(h)
  <2> DEFINE t == [req[h] EXCEPT !.permit = TRUE,
                                 !.pc = IF req[h].kind = "preview" THEN "recommend"
                                        ELSE IF method = "semantic" THEN "encode" ELSE "strict"]
  <2>1. /\ Same(t, req[h])
        /\ t.pc = IF req[h].kind = "preview" THEN "recommend"
                  ELSE IF method = "semantic" THEN "encode" ELSE "strict"
    BY <1>0, Fields DEF Same
  <2>2. req' = [req EXCEPT ![h] = t]
    BY <1>5, <1>0 DEF Acquire, IInv
  <2>3. UNCHANGED <<method, paper>> /\ req[h].pc = "gate"
    BY <1>5 DEF Acquire, At
  <2> HIDE DEF t
  <2> QED
    BY <2>1, <2>2, <2>3, OnwardStep
<1>6. CASE Encode(h)
  <2> DEFINE t == [req[h] EXCEPT !.pc = "scan"]
  <2>1. Same(t, req[h]) /\ t.pc = "scan"
    BY <1>0, Fields DEF Same
  <2>2. req' = [req EXCEPT ![h] = t] /\ UNCHANGED <<method, paper>> /\ req[h].pc = "encode"
    BY <1>6 DEF Encode, Goto, At, Resources
  <2> HIDE DEF t
  <2> QED
    BY <2>1, <2>2, OnwardStep
<1> QED
  BY <1>1, <1>2, <1>3, <1>4, <1>5, <1>6

-----------------------------------------------------------------------------
LEMMA Depths == Depth \in Nat /\ Depth >= Limit
<1>1. Limit \in Nat /\ Limit * PoolMultiplier \in Nat /\ Limit * PoolMultiplier >= Limit /\ MinPool \in Nat
  <2>1. Limit \in Nat \ {0} /\ PoolMultiplier \in Nat \ {0} /\ MinPool \in Nat
    BY LimitsArePositive
  <2>2. PICK k \in Nat : PoolMultiplier = k + 1
    <3>1. PoolMultiplier - 1 \in Nat /\ PoolMultiplier = (PoolMultiplier - 1) + 1
      BY <2>1
    <3> QED
      BY <3>1
  <2>3. Limit * PoolMultiplier = Limit * k + Limit /\ Limit * k \in Nat
    BY <2>1, <2>2
  <2> QED
    BY <2>1, <2>3
<1> QED
  BY <1>1 DEF Depth, PoolDepth, Greatest

\* What a scan ranks: papers that pass, all that match or enough for a page.
LEMMA Scanned ==
    ASSUME NEW q \in Queries, NEW order \in {q.any, q.near}, NEW set, set \subseteq Passing(q)
    PROVE  LET rows == Top(order, set, Depth) hits == Ranked(rows)
           IN  /\ hits \in Hits /\ Found(hits) \subseteq Present /\ Found(hits) \in SUBSET Papers
               /\ Covers(Found(hits), ToSet(order) \cap set)
               /\ rows = << >> => ToSet(order) \cap set = {}
<1>1. order \in Seq(Papers) /\ IsInjective(order)
  BY QueriesAreRankings
<1>2. set \subseteq Present
  BY DEF Passing, Listed, Present
<1> DEFINE rows == Top(order, set, Depth)
<1>3. /\ rows \in Seq(Papers) /\ IsInjective(rows) /\ ToSet(rows) \subseteq set \cap Papers
      /\ Covers(ToSet(rows), ToSet(order) \cap set)
      /\ rows = << >> => ToSet(order) \cap set = {}
  BY <1>1, Depths, TopCovers
<1> HIDE DEF rows
<1>4. Ranked(rows) \in Hits /\ Found(Ranked(rows)) = ToSet(rows)
  BY <1>3, RankedAreHits
<1>5. /\ Ranked(rows) \in Hits /\ Found(Ranked(rows)) \subseteq Present
      /\ Found(Ranked(rows)) \in SUBSET Papers
      /\ Covers(Found(Ranked(rows)), ToSet(order) \cap set)
      /\ rows = << >> => ToSet(order) \cap set = {}
  BY <1>2, <1>3, <1>4
<1> QED
  BY <1>5 DEF rows

LEMMA StrictSearch ==
    ASSUME IInv, SearchInv, NEW h \in Handlers, StrictScan(h)
    PROVE  SearchInv'
<1> DEFINE r == req[h]
           q == r.query
           rows == Top(q.any, q.all \cap Passing(q), Depth)
           t == [r EXCEPT !.lexical = Ranked(rows),
                          !.pc = IF rows = << >> /\ q.relaxable THEN "relaxed" ELSE "lexical hits"]
<1>0. DOMAIN r = RequestFields
  BY DEF IInv, RequestInv
<1>1. /\ t.kind = r.kind /\ t.query = r.query /\ t.steady = r.steady /\ t.lost = r.lost
      /\ t.semantic = r.semantic /\ t.page = r.page /\ t.lexical = Ranked(rows)
      /\ t.pc = IF rows = << >> /\ q.relaxable THEN "relaxed" ELSE "lexical hits"
  BY <1>0, Fields
<1>2. req' = [req EXCEPT ![h] = t]
  BY <1>0 DEF StrictScan, IInv, RequestInv, Executes, At
<1>3. UNCHANGED <<method, paper>> /\ r.pc = "strict"
  BY DEF StrictScan, Executes, At, Resources
<1>4. ASSUME t.kind = "search" PROVE Sound(method, t, Listed, Present)
  <2>1. Sound(method, r, Listed, Present)
    BY <1>1, <1>3, <1>4 DEF SearchInv
  <2>2. q \in Queries /\ r.steady \subseteq Listed \cap q.keep /\ r.steady \in SUBSET Papers
        /\ r.lost \in SUBSET Papers
    BY <1>3, <2>1 DEF Sound, Typed, UpToDate
  <2>3. /\ Ranked(rows) \in Hits /\ Found(Ranked(rows)) \subseteq Present
        /\ Found(Ranked(rows)) \in SUBSET Papers
        /\ Covers(Found(Ranked(rows)), ToSet(q.any) \cap (q.all \cap Passing(q)))
        /\ rows = << >> => ToSet(q.any) \cap (q.all \cap Passing(q)) = {}
    <3> DEFINE set == q.all \cap Passing(q)
    <3>1. q.any \in {q.any, q.near} /\ set \subseteq Passing(q)
      OBVIOUS
    <3> HIDE DEF set, q
    <3>2. /\ Ranked(Top(q.any, set, Depth)) \in Hits
          /\ Found(Ranked(Top(q.any, set, Depth))) \subseteq Present
          /\ Found(Ranked(Top(q.any, set, Depth))) \in SUBSET Papers
          /\ Covers(Found(Ranked(Top(q.any, set, Depth))), ToSet(q.any) \cap set)
          /\ Top(q.any, set, Depth) = << >> => ToSet(q.any) \cap set = {}
      BY <2>2, <3>1, Scanned
    <3> QED
      BY <3>2 DEF set, q
  <2> HIDE DEF rows, t
  <2>4. q.all \subseteq ToSet(q.any)
    BY <2>2, QueriesAreRankings
  <2>5. Strict(t) \subseteq ToSet(q.any) \cap (q.all \cap Passing(q)) /\ Strict(t) = Strict(r)
    BY <1>1, <2>2, <2>4 DEF Strict, Passing
  <2>6. rows = << >> => Strict(t) = {}
    BY <2>3, <2>5
  <2>7. Covers(Found(t.lexical) \cup t.lost, Strict(t))
    <3> DEFINE A == Found(Ranked(rows)) B == A \cup r.lost
               C == ToSet(q.any) \cap (q.all \cap Passing(q)) D == Strict(t)
    <3>1. A \in SUBSET Papers /\ B \in SUBSET Papers /\ A \subseteq B
      BY <2>2, <2>3
    <3>2. Covers(A, C) /\ D \subseteq C
      BY <2>3, <2>5
    <3>3. Covers(Found(t.lexical) \cup t.lost, Strict(t)) <=> Covers(B, D)
      BY <1>1
    <3> HIDE DEF A, B, C, D
    <3> QED
      BY <3>1, <3>2, <3>3, CoversMore
  <2>8. Typed(method, t)
    BY <1>1, <1>3, <2>1, <2>3 DEF Sound, Typed, Searching, Gated
  <2>9. UpToDate(t, Listed, Present)
    BY <1>1, <1>3, <2>1, <2>3 DEF Sound, UpToDate
  <2> QED
    BY <1>1, <2>6, <2>7, <2>8, <2>9 DEF Sound, Covering
<1> HIDE DEF t
<1> QED
  BY <1>2, <1>3, <1>4, OneSearch

LEMMA RelaxedSearch ==
    ASSUME IInv, SearchInv, NEW h \in Handlers, RelaxedScan(h)
    PROVE  SearchInv'
<1> DEFINE r == req[h]
           q == r.query
           hits == Ranked(Top(q.any, Passing(q), Depth))
           t == [r EXCEPT !.lexical = hits, !.pc = "lexical hits"]
<1>0. DOMAIN r = RequestFields
  BY DEF IInv, RequestInv
<1>1. /\ t.kind = r.kind /\ t.query = r.query /\ t.steady = r.steady /\ t.lost = r.lost
      /\ t.semantic = r.semantic /\ t.page = r.page /\ t.lexical = hits /\ t.pc = "lexical hits"
  BY <1>0, Fields
<1>2. req' = [req EXCEPT ![h] = t]
  BY <1>0 DEF RelaxedScan, IInv, RequestInv, Executes, At
<1>3. UNCHANGED <<method, paper>> /\ r.pc = "relaxed"
  BY DEF RelaxedScan, Executes, At, Resources
<1>4. ASSUME t.kind = "search" PROVE Sound(method, t, Listed, Present)
  <2>1. Sound(method, r, Listed, Present)
    BY <1>1, <1>3, <1>4 DEF SearchInv
  <2>2. q \in Queries
    BY <2>1 DEF Sound, Typed
  <2>3. hits \in Hits /\ Found(hits) \subseteq Present
    <3> DEFINE set == Passing(q)
    <3>1. q.any \in {q.any, q.near} /\ set \subseteq Passing(q)
      OBVIOUS
    <3> HIDE DEF set, q
    <3>2. /\ Ranked(Top(q.any, set, Depth)) \in Hits
          /\ Found(Ranked(Top(q.any, set, Depth))) \subseteq Present
      BY <2>2, <3>1, Scanned
    <3> QED
      BY <3>2 DEF set, q
  <2> HIDE DEF hits, t
  <2>4. Strict(t) = {}
    BY <1>1, <1>3, <2>1 DEF Sound, Covering, Strict
  <2>5. Typed(method, t)
    BY <1>1, <1>3, <2>1, <2>3 DEF Sound, Typed, Searching, Gated
  <2>6. UpToDate(t, Listed, Present)
    BY <1>1, <1>3, <2>1, <2>3 DEF Sound, UpToDate
  <2>7. Covering(method, t)
    BY <1>1, <2>4 DEF Covering, Covers
  <2> QED
    BY <1>1, <2>5, <2>6, <2>7 DEF Sound
<1> HIDE DEF t
<1> QED
  BY <1>2, <1>3, <1>4, OneSearch

LEMMA SemanticSearch ==
    ASSUME IInv, SearchInv, NEW h \in Handlers, SemanticScan(h)
    PROVE  SearchInv'
<1> DEFINE r == req[h]
           q == r.query
           hits == Ranked(Top(q.near, Passing(q), Depth))
           t == [r EXCEPT !.semantic = hits, !.pc = "semantic hits"]
<1>0. DOMAIN r = RequestFields
  BY DEF IInv, RequestInv
<1>1. /\ t.kind = r.kind /\ t.query = r.query /\ t.steady = r.steady /\ t.lost = r.lost
      /\ t.lexical = r.lexical /\ t.page = r.page /\ t.semantic = hits /\ t.pc = "semantic hits"
  BY <1>0, Fields
<1>2. req' = [req EXCEPT ![h] = t]
  BY <1>0 DEF SemanticScan, IInv, RequestInv, Executes, At
<1>3. UNCHANGED <<method, paper>> /\ r.pc = "scan"
  BY DEF SemanticScan, Executes, At, Resources
<1>4. ASSUME t.kind = "search" PROVE Sound(method, t, Listed, Present)
  <2>1. Sound(method, r, Listed, Present)
    BY <1>1, <1>3, <1>4 DEF SearchInv
  <2>2. q \in Queries /\ r.steady \subseteq Listed \cap q.keep /\ r.lost \in SUBSET Papers
    BY <1>3, <2>1 DEF Sound, Typed, UpToDate
  <2>3. /\ hits \in Hits /\ Found(hits) \subseteq Present /\ Found(hits) \in SUBSET Papers
        /\ Covers(Found(hits), ToSet(q.near) \cap Passing(q))
    <3> DEFINE set == Passing(q)
    <3>1. q.near \in {q.any, q.near} /\ set \subseteq Passing(q)
      OBVIOUS
    <3> HIDE DEF set, q
    <3>2. /\ Ranked(Top(q.near, set, Depth)) \in Hits
          /\ Found(Ranked(Top(q.near, set, Depth))) \subseteq Present
          /\ Found(Ranked(Top(q.near, set, Depth))) \in SUBSET Papers
          /\ Covers(Found(Ranked(Top(q.near, set, Depth))), ToSet(q.near) \cap set)
      BY <2>2, <3>1, Scanned
    <3> QED
      BY <3>2 DEF set, q
  <2> HIDE DEF hits, t
  <2>4. Near(t) \subseteq ToSet(q.near) \cap Passing(q) /\ Strict(t) = Strict(r)
    BY <1>1, <2>2 DEF Near, Strict, Passing
  <2>5. Covers(Found(t.semantic) \cup t.lost, Near(t))
    <3> DEFINE A == Found(hits) B == A \cup r.lost
               C == ToSet(q.near) \cap Passing(q) D == Near(t)
    <3>1. A \in SUBSET Papers /\ B \in SUBSET Papers /\ A \subseteq B
      BY <2>2, <2>3
    <3>2. Covers(A, C) /\ D \subseteq C
      BY <2>3, <2>4
    <3>3. Covers(Found(t.semantic) \cup t.lost, Near(t)) <=> Covers(B, D)
      BY <1>1
    <3> HIDE DEF A, B, C, D
    <3> QED
      BY <3>1, <3>2, <3>3, CoversMore
  <2>6. Typed(method, t)
    BY <1>1, <1>3, <2>1, <2>3 DEF Sound, Typed, Searching, Gated
  <2>7. UpToDate(t, Listed, Present)
    BY <1>1, <1>3, <2>1, <2>3 DEF Sound, UpToDate
  <2>8. Covering(method, t)
    BY <1>1, <1>3, <2>1, <2>4, <2>5 DEF Sound, Covering
  <2> QED
    BY <1>1, <2>6, <2>7, <2>8 DEF Sound
<1> HIDE DEF t
<1> QED
  BY <1>2, <1>3, <1>4, OneSearch

\* A search leaves the gate with a page.
LEMMA LeftSearch ==
    ASSUME IInv, SearchInv, NEW h \in Handlers, NEW page, Leave(h, page),
           req[h].pc \notin {"idle", "answered"},
           req[h].kind = "search" =>
              /\ page \in Seq(Papers) /\ ToSet(page) \subseteq Present \cup req[h].lost
              /\ Covers(ToSet(page) \cup req[h].lost, CertainUnder(method, req[h]))
              /\ InOrder(req[h].lexical, req[h].semantic, page)
    PROVE  SearchInv'
<1> DEFINE r == req[h]
           t == [r EXCEPT !.permit = FALSE, !.page = page, !.pc = "project"]
<1>0. DOMAIN r = RequestFields
  BY DEF IInv, RequestInv
<1>1. /\ t.kind = r.kind /\ t.query = r.query /\ t.steady = r.steady /\ t.lost = r.lost
      /\ t.lexical = r.lexical /\ t.semantic = r.semantic /\ t.page = page /\ t.pc = "project"
  BY <1>0, Fields
<1>2. req' = [req EXCEPT ![h] = t] /\ UNCHANGED <<method, paper>>
  BY DEF Leave, IInv
<1> HIDE DEF t
<1>3. ASSUME t.kind = "search" PROVE Sound(method, t, Listed, Present)
  <2>1. Sound(method, r, Listed, Present)
    BY <1>1, <1>3 DEF SearchInv
  <2>2. Typed(method, t)
    BY <1>1, <1>3, <2>1 DEF Sound, Typed, Searching
  <2>3. UpToDate(t, Listed, Present)
    BY <1>1, <1>3, <2>1 DEF Sound, UpToDate
  <2>4. CertainUnder(method, t) = CertainUnder(method, r)
    BY <1>1 DEF CertainUnder, Strict, Near
  <2>5. Covering(method, t)
    BY <1>1, <1>3, <2>4 DEF Covering
  <2> QED
    BY <1>1, <1>3, <2>2, <2>3, <2>5 DEF Sound
<1> QED
  BY <1>2, <1>3, OneSearch

\* What a ranking has lost with its rows has been deleted since.
LEMMA HydratedCovers ==
    ASSUME NEW hits \in Hits, NEW lost, Found(hits) \subseteq Present \cup lost
    PROVE  /\ Hydrated(hits) \in Hits /\ Found(Hydrated(hits)) \subseteq Present \cup lost
           /\ Found(Hydrated(hits)) \cup lost = Found(hits) \cup lost
           /\ PapersOf(Hydrated(hits)) \in Seq(Papers)
           /\ ToSet(PapersOf(Hydrated(hits))) = Found(Hydrated(hits))
<1>1. Hydrated(hits) \in Hits /\ Found(Hydrated(hits)) = Found(hits) \cap Present
  BY HydratedAreHits
<1>2. /\ PapersOf(Hydrated(hits)) \in Seq(Papers)
      /\ ToSet(PapersOf(Hydrated(hits))) = Found(Hydrated(hits))
  BY <1>1, FoundArePapers
<1> HIDE DEF Present
<1> QED
  BY <1>1, <1>2

LEMMA LexicalHitsSearch ==
    ASSUME IInv, SearchInv, NEW h \in Handlers, LexicalHits(h)
    PROVE  SearchInv'
<1> DEFINE r == req[h]
<1>0. DOMAIN r = RequestFields /\ r.pc = "lexical hits"
  BY DEF IInv, RequestInv, LexicalHits, Executes, At
<1>1. ASSUME r.kind = "search"
      PROVE  /\ Sound(method, r, Listed, Present) /\ r.lexical \in Hits
             /\ Hydrated(r.lexical) \in Hits /\ Found(Hydrated(r.lexical)) \subseteq Present \cup r.lost
             /\ Found(Hydrated(r.lexical)) \cup r.lost = Found(r.lexical) \cup r.lost
             /\ PapersOf(Hydrated(r.lexical)) \in Seq(Papers)
             /\ ToSet(PapersOf(Hydrated(r.lexical))) = Found(Hydrated(r.lexical))
             /\ Covers(Found(r.lexical) \cup r.lost, Strict(r)) /\ method # "semantic"
  <2>1. Sound(method, r, Listed, Present)
    BY <1>0, <1>1 DEF SearchInv
  <2>2. /\ r.lexical \in Hits /\ Found(r.lexical) \subseteq Present \cup r.lost
        /\ method # "semantic" /\ Covers(Found(r.lexical) \cup r.lost, Strict(r))
    BY <1>0, <2>1 DEF Sound, Typed, UpToDate, Covering
  <2> QED
    BY <2>1, <2>2, HydratedCovers
<1>2. CASE method = "hybrid"
  <2> DEFINE t == [r EXCEPT !.lexical = Hydrated(r.lexical), !.pc = "encode"]
  <2>1. /\ t.kind = r.kind /\ t.query = r.query /\ t.steady = r.steady /\ t.lost = r.lost
        /\ t.lexical = Hydrated(r.lexical) /\ t.semantic = r.semantic /\ t.page = r.page
        /\ t.pc = "encode"
    BY <1>0, Fields
  <2>2. UNCHANGED <<method, paper>>
    BY <1>2 DEF LexicalHits, Resources
  <2>3. req' = [req EXCEPT ![h] = t]
    BY <1>2, <1>0 DEF LexicalHits, IInv
  <2> HIDE DEF t
  <2>4. ASSUME t.kind = "search" PROVE Sound(method, t, Listed, Present)
    <3>1. Strict(t) = Strict(r)
      BY <2>1 DEF Strict
    <3>2. Typed(method, t)
      BY <1>1, <1>2, <2>1, <2>4 DEF Sound, Typed, Searching, Gated
    <3>3. UpToDate(t, Listed, Present)
      BY <1>0, <1>1, <2>1, <2>4 DEF Sound, UpToDate
    <3>4. Covers(Found(t.lexical) \cup t.lost, Strict(t))
      BY <1>1, <2>1, <2>4, <3>1
    <3> QED
      BY <2>1, <3>2, <3>3, <3>4 DEF Sound, Covering
  <2> QED
    BY <2>2, <2>3, <2>4, OneSearch
<1>3. CASE method # "hybrid"
  <2> DEFINE page == PapersOf(Hydrated(r.lexical))
  <2>1. Leave(h, page)
    BY <1>3 DEF LexicalHits
  <2>2. ASSUME r.kind = "search"
        PROVE  /\ page \in Seq(Papers) /\ ToSet(page) \subseteq Present \cup r.lost
               /\ Covers(ToSet(page) \cup r.lost, CertainUnder(method, r))
               /\ InOrder(r.lexical, r.semantic, page)
    <3>1. method = "lexical"
      BY <1>1, <1>3, <2>2, MethodsAreKnown DEF SearchInv
    <3>2. CertainUnder(method, r) = Strict(r)
      BY <3>1 DEF CertainUnder
    <3>3. InOrder(r.lexical, r.semantic, page)
      BY <1>1, <2>2, RankingInOrder
    <3> QED
      BY <1>1, <2>2, <3>2, <3>3
  <2> HIDE DEF page
  <2> QED
    BY <1>0, <2>1, <2>2, LeftSearch
<1> QED
  BY <1>2, <1>3

LEMMA SemanticHitsSearch ==
    ASSUME IInv, SearchInv, NEW h \in Handlers, SemanticHits(h)
    PROVE  SearchInv'
<1> DEFINE r == req[h]
<1>0. DOMAIN r = RequestFields /\ r.pc = "semantic hits"
  BY DEF IInv, RequestInv, SemanticHits, Executes, At
<1>1. ASSUME r.kind = "search"
      PROVE  /\ Sound(method, r, Listed, Present) /\ r.semantic \in Hits
             /\ Hydrated(r.semantic) \in Hits /\ Found(Hydrated(r.semantic)) \subseteq Present \cup r.lost
             /\ Found(Hydrated(r.semantic)) \cup r.lost = Found(r.semantic) \cup r.lost
             /\ PapersOf(Hydrated(r.semantic)) \in Seq(Papers)
             /\ ToSet(PapersOf(Hydrated(r.semantic))) = Found(Hydrated(r.semantic))
             /\ Covers(Found(r.semantic) \cup r.lost, Near(r)) /\ method # "lexical"
  <2>1. Sound(method, r, Listed, Present)
    BY <1>0, <1>1 DEF SearchInv
  <2>2. /\ r.semantic \in Hits /\ Found(r.semantic) \subseteq Present \cup r.lost
        /\ method # "lexical" /\ Covers(Found(r.semantic) \cup r.lost, Near(r))
    BY <1>0, <2>1 DEF Sound, Typed, UpToDate, Covering
  <2> QED
    BY <2>1, <2>2, HydratedCovers
<1>2. CASE method = "hybrid"
  <2> DEFINE t == [r EXCEPT !.semantic = Hydrated(r.semantic), !.pc = "fuse"]
  <2>1. /\ t.kind = r.kind /\ t.query = r.query /\ t.steady = r.steady /\ t.lost = r.lost
        /\ t.semantic = Hydrated(r.semantic) /\ t.lexical = r.lexical /\ t.page = r.page
        /\ t.pc = "fuse"
    BY <1>0, Fields
  <2>2. UNCHANGED <<method, paper>>
    BY <1>2 DEF SemanticHits, Resources
  <2>3. req' = [req EXCEPT ![h] = t]
    BY <1>2, <1>0 DEF SemanticHits, IInv
  <2> HIDE DEF t
  <2>4. ASSUME t.kind = "search" PROVE Sound(method, t, Listed, Present)
    <3>1. Strict(t) = Strict(r) /\ Near(t) = Near(r)
      BY <2>1 DEF Strict, Near
    <3>2. Typed(method, t)
      BY <1>1, <1>2, <2>1, <2>4 DEF Sound, Typed, Searching, Gated
    <3>3. UpToDate(t, Listed, Present)
      BY <1>0, <1>1, <2>1, <2>4 DEF Sound, UpToDate
    <3>4. Covers(Found(t.semantic) \cup t.lost, Near(t))
      BY <1>1, <2>1, <2>4, <3>1
    <3>5. Covers(Found(t.lexical) \cup t.lost, Strict(t))
      BY <1>0, <1>1, <1>2, <2>1, <2>4, <3>1 DEF Sound, Covering
    <3> QED
      BY <2>1, <3>2, <3>3, <3>4, <3>5 DEF Sound, Covering
  <2> QED
    BY <2>2, <2>3, <2>4, OneSearch
<1>3. CASE method # "hybrid"
  <2> DEFINE page == PapersOf(Hydrated(r.semantic))
  <2>1. Leave(h, page)
    BY <1>3 DEF SemanticHits
  <2>2. ASSUME r.kind = "search"
        PROVE  /\ page \in Seq(Papers) /\ ToSet(page) \subseteq Present \cup r.lost
               /\ Covers(ToSet(page) \cup r.lost, CertainUnder(method, r))
               /\ InOrder(r.lexical, r.semantic, page)
    <3>1. method = "semantic"
      BY <1>1, <1>3, <2>2, MethodsAreKnown DEF SearchInv
    <3>2. CertainUnder(method, r) = Near(r)
      BY <3>1 DEF CertainUnder
    <3>3. InOrder(r.lexical, r.semantic, page)
      BY <1>1, <2>2, RankingInOrder
    <3> QED
      BY <1>1, <2>2, <3>2, <3>3
  <2> HIDE DEF page
  <2> QED
    BY <1>0, <2>1, <2>2, LeftSearch
<1> QED
  BY <1>2, <1>3

LEMMA FuseSearch ==
    ASSUME IInv, SearchInv, NEW h \in Handlers, Fuse(h)
    PROVE  SearchInv'
<1> DEFINE r == req[h]
           fused == Fused(r)
           page == Among(fused, Present)
<1>0. r.pc = "fuse" /\ Leave(h, page)
  BY DEF Fuse, Executes, At
<1>1. ASSUME r.kind = "search"
      PROVE  /\ page \in Seq(Papers) /\ ToSet(page) \subseteq Present \cup r.lost
             /\ Covers(ToSet(page) \cup r.lost, CertainUnder(method, r))
             /\ InOrder(r.lexical, r.semantic, page)
  <2> DEFINE found == Found(r.lexical) \cup Found(r.semantic)
  <2>1. Sound(method, r, Listed, Present)
    BY <1>0, <1>1 DEF SearchInv
  <2>2. /\ r.lexical \in Hits /\ r.semantic \in Hits /\ r.lost \in SUBSET Papers
        /\ found \subseteq Present \cup r.lost /\ method = "hybrid"
        /\ Covers(Found(r.lexical) \cup r.lost, Strict(r))
        /\ Covers(Found(r.semantic) \cup r.lost, Near(r))
    BY <1>0, <2>1 DEF Sound, Typed, UpToDate, Covering
  <2>3. found \in SUBSET Papers
    BY <2>2, FoundArePapers
  <2>4. /\ fused \in Seq(Papers) /\ ToSet(fused) \subseteq found /\ Covers(ToSet(fused), found)
        /\ InOrder(r.lexical, r.semantic, fused)
    BY <2>2, FusedIsInOrder
  <2> HIDE DEF fused, found
  <2>5. /\ page \in Seq(Papers) /\ ToSet(page) = ToSet(fused) \cap Present
        /\ InOrder(r.lexical, r.semantic, page)
    BY <2>4, AmongIsASublist, AmongInOrder
  <2> HIDE DEF page, Present
  <2>6. ToSet(page) \cup r.lost = ToSet(fused) \cup r.lost /\ ToSet(page) \subseteq Present
    BY <2>2, <2>4, <2>5
  <2>7. Covers(ToSet(fused) \cup r.lost, Strict(r) \cup Near(r))
    <3> DEFINE A == Found(r.lexical) \cup r.lost B == Found(r.semantic) \cup r.lost
               F == ToSet(fused) G == F \cup r.lost
    <3>0. /\ A \subseteq found \cup r.lost /\ B \subseteq found \cup r.lost
          /\ A \in SUBSET Papers /\ B \in SUBSET Papers
          /\ F \in SUBSET Papers /\ G \in SUBSET Papers /\ F \subseteq G
      BY <2>2, <2>3, <2>4 DEF found
    <3>1. /\ Cardinality(A) \in Nat /\ Cardinality(B) \in Nat /\ Cardinality(F) \in Nat
          /\ Cardinality(G) \in Nat /\ Cardinality(F) <= Cardinality(G) /\ Limit \in Nat
      BY <3>0, PapersAreFinite, FS_Subset, LimitsArePositive
    <3>2. CASE Cardinality(F) >= Limit
      BY <3>1, <3>2 DEF Covers
    <3>3. CASE found \subseteq F
      <4>1. A \subseteq G /\ B \subseteq G
        BY <3>0, <3>3
      <4>2. Cardinality(A) <= Cardinality(G) /\ Cardinality(B) <= Cardinality(G)
        BY <3>0, <4>1, PapersAreFinite, FS_Subset
      <4>3. CASE Cardinality(A) >= Limit \/ Cardinality(B) >= Limit
        BY <3>1, <4>2, <4>3 DEF Covers
      <4>4. CASE Strict(r) \subseteq A /\ Near(r) \subseteq B
        BY <4>1, <4>4 DEF Covers
      <4> QED
        BY <2>2, <4>3, <4>4 DEF Covers
    <3> QED
      BY <2>4, <3>2, <3>3 DEF Covers
  <2>8. CertainUnder(method, r) = Strict(r) \cup Near(r)
    BY <2>2 DEF CertainUnder
  <2> QED
    BY <2>5, <2>6, <2>7, <2>8
<1> HIDE DEF page
<1> QED
  BY <1>0, <1>1, LeftSearch

LEMMA ProjectSearch ==
    ASSUME IInv, SearchInv, NEW h \in Handlers, Project(h)
    PROVE  SearchInv'
<1> DEFINE r == req[h]
           page == Among(r.page, Present)
           t == [r EXCEPT !.page = page, !.pc = "answered"]
<1>0. DOMAIN r = RequestFields /\ r.pc = "project"
  BY DEF IInv, RequestInv, Project, Executes, At
<1>1. /\ t.kind = r.kind /\ t.query = r.query /\ t.steady = r.steady /\ t.lost = r.lost
      /\ t.lexical = r.lexical /\ t.semantic = r.semantic /\ t.page = page /\ t.pc = "answered"
  BY <1>0, Fields
<1>2. req' = [req EXCEPT ![h] = t]
  BY <1>0 DEF Project, IInv
<1>3. UNCHANGED <<method, paper>>
  BY DEF Project, Resources
<1>4. ASSUME t.kind = "search" PROVE Sound(method, t, Listed, Present)
  <2> HIDE DEF t
  <2>1. Sound(method, r, Listed, Present)
    BY <1>0, <1>1, <1>4 DEF SearchInv
  <2>2. /\ r.page \in Seq(Papers) /\ InOrder(r.lexical, r.semantic, r.page)
        /\ Covers(ToSet(r.page) \cup r.lost, CertainUnder(method, r))
        /\ ToSet(r.page) \subseteq Present \cup r.lost
    BY <1>0, <2>1 DEF Sound, Typed, UpToDate, Covering
  <2>3. /\ page \in Seq(Papers) /\ ToSet(page) = ToSet(r.page) \cap Present
        /\ InOrder(r.lexical, r.semantic, page)
    BY <2>2, AmongIsASublist, AmongInOrder
  <2> HIDE DEF page, Present
  <2>4. ToSet(page) \cup r.lost = ToSet(r.page) \cup r.lost
    BY <2>2, <2>3
  <2>5. CertainUnder(method, t) = CertainUnder(method, r)
    BY <1>1 DEF CertainUnder, Strict, Near
  <2>6. Typed(method, t)
    BY <1>1, <2>1, <2>3 DEF Sound, Typed, Searching
  <2>7. Covers(ToSet(t.page) \cup t.lost, CertainUnder(method, t))
    BY <1>1, <2>2, <2>4, <2>5
  <2>8. Covering(method, t)
    BY <1>1, <2>7 DEF Covering
  <2>9. InOrder(t.lexical, t.semantic, t.page)
    BY <1>1, <2>3
  <2> QED
    BY <1>1, <2>6, <2>8, <2>9 DEF Sound
<1> HIDE DEF t
<1> QED
  BY <1>2, <1>3, <1>4, OneSearch

\* What the other handlers do is done for no search.
LEMMA OtherSearch ==
    ASSUME IInv, SearchInv, NEW h \in Handlers,
           Draft(h) \/ Build(h) \/ Recommend(h) \/ Rows(h) \/ Total(h)
    PROVE  SearchInv'
<1>0. DOMAIN req[h] = RequestFields /\ DOMAIN req = Handlers
  BY DEF IInv, RequestInv
<1>1. /\ req[h].pc \in {"draft", "build", "recommend", "rows", "total"}
      /\ UNCHANGED <<method, paper>>
  BY DEF Draft, Build, Recommend, Rows, Total, Leave, Executes, At, Resources
<1>2. req[h].kind # "search"
  <2>1. req[h].pc \notin Searching /\ req[h].pc # "idle"
    BY <1>1 DEF Searching, Gated
  <2> QED
    BY <2>1 DEF SearchInv, Sound, Typed
<1>3. /\ \A g \in Handlers \ {h} : req'[g] = req[g]
      /\ req'[h].kind = req[h].kind
  <2>1. CASE Draft(h)
    BY <1>0, <2>1, Fields DEF Draft, Goto
  <2>2. CASE Build(h)
    BY <1>0, <2>2, Fields DEF Build, Goto
  <2>3. CASE Recommend(h)
    BY <1>0, <2>3, Fields DEF Recommend, Goto, Leave
  <2>4. CASE Rows(h)
    <3>1. PICK x : req' = [req EXCEPT ![h].page = x, ![h].pc = "total"]
      BY <2>4 DEF Rows
    <3> QED
      BY <1>0, <3>1, Fields
  <2>5. CASE Total(h)
    <3>1. PICK x : req' = [req EXCEPT ![h].more = x, ![h].pc = "answered"]
      BY <2>5 DEF Total
    <3> QED
      BY <1>0, <3>1, Fields
  <2> QED
    BY <2>1, <2>2, <2>3, <2>4, <2>5
<1>4. Listed' = Listed /\ Present' = Present
  BY <1>1 DEF Listed, Present
<1> HIDE DEF Listed, Present
<1>5. ASSUME NEW g \in Handlers, req'[g].kind = "search", req'[g].pc # "idle"
      PROVE  Sound(method, req'[g], Listed, Present)
  BY <1>2, <1>3, <1>5 DEF SearchInv
<1> QED
  BY <1>1, <1>4, <1>5 DEF SearchInv

\* A paper changes while searches run: it is no longer certain, and where it is
\* deleted it is lost.
LEMMA ChangeSearch ==
    ASSUME IInv, SearchInv, NEW p \in Papers, Change(p)
    PROVE  SearchInv'
<1>1. PICK to \in {"listed", "retracted", "gone"} :
         /\ paper' = [paper EXCEPT ![p] = to]
         /\ req' = [h \in Handlers |->
              [req[h] EXCEPT !.steady = IF At(h, "answered") THEN @ ELSE @ \ {p},
                             !.lost = IF to = "gone" /\ req[h].kind \in Filtered /\ ~At(h, "answered")
                                      THEN @ \cup {p} ELSE @]]
  BY DEF Change
<1>2. method' = method /\ DOMAIN paper' = Papers /\ method' \in Methods
  BY <1>1 DEF Change, Resources, SearchInv
<1>3. /\ \A x \in Papers : paper'[x] = IF x = p THEN to ELSE paper[x]
      /\ Listed \subseteq Papers /\ Present \subseteq Papers
  BY <1>1 DEF SearchInv, Listed, Present
<1>4. /\ \A x \in Listed : x # p => x \in Listed'
      /\ \A x \in Present : x # p => x \in Present'
      /\ to # "gone" => p \in Present'
  BY <1>3 DEF Listed, Present
<1> HIDE DEF Listed, Present
<1>5. ASSUME NEW h \in Handlers, req'[h].kind = "search", req'[h].pc # "idle"
      PROVE  Sound(method, req'[h], Listed', Present')
  <2> DEFINE r == req[h] t == req'[h]
  <2>0. DOMAIN r = RequestFields
    BY DEF IInv, RequestInv
  <2>1. /\ t.kind = r.kind /\ t.pc = r.pc /\ t.query = r.query
        /\ t.lexical = r.lexical /\ t.semantic = r.semantic /\ t.page = r.page
        /\ t.steady = IF r.pc = "answered" THEN r.steady ELSE r.steady \ {p}
        /\ t.lost = IF to = "gone" /\ r.kind \in Filtered /\ r.pc # "answered"
                    THEN r.lost \cup {p} ELSE r.lost
    BY <1>1, <2>0, Fields DEF At
  <2>2. r.kind \in Filtered /\ Sound(method, r, Listed, Present)
    BY <1>5, <2>1 DEF SearchInv, Filtered
  <2> HIDE DEF t
  <2>3. ASSUME r.pc = "answered" PROVE Sound(method, t, Listed', Present')
    <3>1. t.steady = r.steady /\ t.lost = r.lost
      BY <2>1, <2>3
    <3>2. Strict(t) = Strict(r) /\ Near(t) = Near(r) /\ CertainUnder(method, t) = CertainUnder(method, r)
      BY <2>1, <3>1 DEF Strict, Near, CertainUnder
    <3> QED
      BY <2>1, <2>2, <2>3, <3>1, <3>2 DEF Sound, Typed, Covering
  <2>4. ASSUME r.pc # "answered" PROVE Sound(method, t, Listed', Present')
    <3>1. /\ t.steady = r.steady \ {p} /\ r.lost \subseteq t.lost /\ t.lost \subseteq r.lost \cup {p}
          /\ to = "gone" => p \in t.lost
      BY <2>1, <2>2, <2>4
    <3>2. /\ r.lexical \in Hits /\ r.semantic \in Hits /\ r.page \in Seq(Papers)
          /\ r.steady \in SUBSET Papers /\ r.lost \in SUBSET Papers
          /\ r.steady \subseteq Listed \cap r.query.keep
          /\ Found(r.lexical) \cup Found(r.semantic) \cup ToSet(r.page) \subseteq Present \cup r.lost
      BY <2>2, <2>4 DEF Sound, Typed, UpToDate
    <3>3. t.steady \in SUBSET Papers /\ t.lost \in SUBSET Papers
      BY <3>1, <3>2
    <3>4. Typed(method, t)
      BY <2>1, <2>2, <3>3 DEF Sound, Typed
    <3>5. \A x : x \in Present \cup r.lost => x \in Present' \cup t.lost
      BY <1>4, <3>1
    <3>6. t.steady \subseteq Listed' \cap t.query.keep
      BY <1>4, <2>1, <3>1, <3>2
    <3>7. Found(t.lexical) \cup Found(t.semantic) \cup ToSet(t.page) \subseteq Present' \cup t.lost
      BY <2>1, <3>2, <3>5
    <3>8. UpToDate(t, Listed', Present')
      BY <3>6, <3>7 DEF UpToDate
    <3>9. /\ Strict(t) \subseteq Strict(r) /\ Near(t) \subseteq Near(r)
      BY <2>1, <3>1 DEF Strict, Near
    <3>10. CertainUnder(method, t) \subseteq CertainUnder(method, r)
      <4>1. method \in {"lexical", "semantic", "hybrid"}
        BY MethodsAreKnown DEF SearchInv
      <4> QED
        BY <3>9, <4>1 DEF CertainUnder
    <3>11. ASSUME NEW F \in SUBSET Papers, NEW C, NEW D, D \subseteq C, Covers(F \cup r.lost, C)
           PROVE  Covers(F \cup t.lost, D)
      <4> DEFINE A == F \cup r.lost B == F \cup t.lost
      <4>1. A \in SUBSET Papers /\ B \in SUBSET Papers /\ A \subseteq B /\ Covers(A, C)
        BY <3>1, <3>2, <3>3, <3>11
      <4> HIDE DEF A, B
      <4>2. Covers(B, D)
        BY <3>11, <4>1, CoversMore
      <4> QED
        BY <4>2 DEF B
    <3>12. /\ Found(r.lexical) \in SUBSET Papers /\ Found(r.semantic) \in SUBSET Papers
           /\ ToSet(r.page) \in SUBSET Papers
      BY <3>2, FoundArePapers DEF ToSet
    <3>13. Covers(Found(r.lexical) \cup r.lost, Strict(r)) => Covers(Found(t.lexical) \cup t.lost, Strict(t))
      BY <2>1, <3>9, <3>11, <3>12
    <3>14. Covers(Found(r.semantic) \cup r.lost, Near(r)) => Covers(Found(t.semantic) \cup t.lost, Near(t))
      BY <2>1, <3>9, <3>11, <3>12
    <3>15. Covers(ToSet(r.page) \cup r.lost, CertainUnder(method, r))
             => Covers(ToSet(t.page) \cup t.lost, CertainUnder(method, t))
      BY <2>1, <3>10, <3>11, <3>12
    <3>16. Covering(method, t)
      BY <2>1, <2>2, <3>9, <3>13, <3>14, <3>15 DEF Sound, Covering
    <3>17. t.pc \in {"project", "answered"} => InOrder(t.lexical, t.semantic, t.page)
      BY <2>1, <2>2 DEF Sound
    <3> QED
      BY <3>4, <3>8, <3>16, <3>17 DEF Sound
  <2> QED
    BY <2>3, <2>4 DEF t
<1> QED
  BY <1>2, <1>5 DEF SearchInv

LEMMA NextKeepsSearches == IInv /\ SearchInv /\ [Next]_vars => SearchInv'
<1> SUFFICES ASSUME IInv, SearchInv, [Next]_vars PROVE SearchInv'
  OBVIOUS
<1>1. ASSUME NEW h \in Handlers, Ask(h) PROVE SearchInv'
  BY <1>1, AskedSearch
<1>2. ASSUME NEW h \in Handlers, Step(h) PROVE SearchInv'
  <2>1. CASE FindService(h) \/ EnterLock(h) \/ Load(h) \/ Connect(h) \/ Acquire(h) \/ Encode(h)
    BY <2>1, OnwardActions
  <2>2. CASE PoolTimeout(h) \/ GateTimeout(h) \/ Close(h)
    <3>1. Unwound(h) /\ UNCHANGED <<method, paper>>
      BY <2>2 DEF PoolTimeout, GateTimeout, Close
    <3> QED
      BY <3>1, EndedSearch
  <2>3. CASE StrictScan(h) \/ RelaxedScan(h) \/ SemanticScan(h)
    BY <2>3, StrictSearch, RelaxedSearch, SemanticSearch
  <2>4. CASE LexicalHits(h) \/ SemanticHits(h) \/ Fuse(h) \/ Project(h)
    BY <2>4, LexicalHitsSearch, SemanticHitsSearch, FuseSearch, ProjectSearch
  <2>5. CASE Draft(h) \/ Build(h) \/ Recommend(h) \/ Rows(h) \/ Total(h)
    BY <2>5, OtherSearch
  <2> QED
    BY <1>2, <2>1, <2>2, <2>3, <2>4, <2>5 DEF Step
<1>3. ASSUME NEW h \in Handlers, Raise(h) PROVE SearchInv'
  <2>1. Unwound(h) /\ UNCHANGED <<method, paper>>
    BY <1>3 DEF Raise
  <2> QED
    BY <2>1, EndedSearch
<1>4. ASSUME NEW p \in Papers, Change(p) PROVE SearchInv'
  BY <1>4, ChangeSearch
<1>5. CASE UNCHANGED vars
  <2>1. UNCHANGED <<req, paper, method>>
    BY <1>5 DEF vars
  <2>2. Listed' = Listed /\ Present' = Present
    BY <2>1 DEF Listed, Present
  <2> QED
    BY <2>1, <2>2 DEF SearchInv
<1> QED
  BY <1>1, <1>2, <1>3, <1>4, <1>5 DEF Next

\* The invariant of a search, whatever is retracted, reinstated or deleted
\* between two of its statements.
THEOREM SearchesAreSound == Spec => []SearchInv
<1>1. Init => SearchInv
  <2> SUFFICES ASSUME Init PROVE SearchInv
    OBVIOUS
  <2>1. \A h \in Handlers : req[h].pc = "idle"
    BY DEF Init, Resting
  <2> QED
    BY <2>1 DEF Init, SearchInv
<1> QED
  BY <1>1, NextKeepsSearches, Invariance, PTL DEF Spec

\* Two rankings fused (hybrid.fuse) never show a paper before one that is ahead
\* of it in every ranking it occurs in, for rankings and pages of any length and
\* with rows deleted between the component queries, the fusion and the projection.
THEOREM PagesAreUnanimous == Spec => []UnanimousOrder
<1>1. SearchInv => UnanimousOrder
  <2> SUFFICES ASSUME SearchInv, NEW h \in Handlers, At(h, "answered"), req[h].kind = "search"
               PROVE  InOrder(req[h].lexical, req[h].semantic, req[h].page)
    BY DEF UnanimousOrder, InOrder
  <2>1. req[h].pc = "answered"
    BY DEF At
  <2> QED
    BY <2>1 DEF SearchInv, Sound
<1> QED
  BY <1>1, SearchesAreSound, PTL

\* A search answers as many papers as it was asked for while so many match, but
\* for those deleted while it ran: the filters and retractions act before the
\* rankings are cut (retrieval/filters.py), under every method, with the relaxed
\* query and for every depth of the pool.
THEOREM PagesAreFull == Spec => []PageIsFull
<1>1. SearchInv => PageIsFull
  <2> SUFFICES ASSUME SearchInv, NEW h \in Handlers, At(h, "answered"), req[h].kind = "search"
               PROVE  Len(req[h].page) + Cardinality(req[h].lost)
                         >= Least(Limit, Cardinality(Certain(req[h])))
    BY DEF PageIsFull
  <2> DEFINE r == req[h] shown == ToSet(r.page) certain == CertainUnder(method, r)
  <2>1. r.pc = "answered"
    BY DEF At
  <2>2. /\ r.query \in Queries /\ r.page \in Seq(Papers) /\ r.lost \in SUBSET Papers
        /\ r.steady \in SUBSET Papers /\ Covers(shown \cup r.lost, certain)
    BY <2>1 DEF SearchInv, Sound, Typed, Covering
  <2>3. Certain(r) = certain
    BY DEF Certain, CertainUnder, Strict, Near
  <2>4. shown \in SUBSET Papers
    BY <2>2 DEF ToSet
  <2>5. certain \in SUBSET Papers
    <3>1. method \in {"lexical", "semantic", "hybrid"}
      BY MethodsAreKnown DEF SearchInv
    <3>2. Strict(r) \in SUBSET Papers /\ Near(r) \in SUBSET Papers
      BY <2>2 DEF Strict, Near
    <3> QED
      BY <3>1, <3>2 DEF CertainUnder
  <2>6. /\ Cardinality(shown) <= Len(r.page) /\ Len(r.page) \in Nat
    BY <2>2, InjectiveLists
  <2> HIDE DEF shown, certain
  <2>7. /\ Cardinality(shown) \in Nat /\ Cardinality(r.lost) \in Nat /\ Cardinality(certain) \in Nat
        /\ Cardinality(shown \cup r.lost) \in Nat
        /\ IsFiniteSet(shown) /\ IsFiniteSet(r.lost) /\ IsFiniteSet(shown \cup r.lost)
    <3>1. shown \cup r.lost \in SUBSET Papers
      BY <2>2, <2>4
    <3> QED
      BY <2>2, <2>4, <2>5, <3>1, PapersAreFinite
  <2>8. Cardinality(shown \cup r.lost) <= Cardinality(shown) + Cardinality(r.lost)
    <3>1. shown \cap r.lost \in SUBSET Papers
      BY <2>4
    <3>2. Cardinality(shown \cap r.lost) \in Nat
      BY <3>1, PapersAreFinite
    <3>3. Cardinality(shown \cup r.lost)
             = Cardinality(shown) + Cardinality(r.lost) - Cardinality(shown \cap r.lost)
      BY <2>7, FS_Union
    <3> QED
      BY <2>7, <3>2, <3>3
  <2>9. Limit \in Nat
    BY LimitsArePositive
  <2>10. CASE Cardinality(shown \cup r.lost) >= Limit
    BY <2>3, <2>6, <2>7, <2>8, <2>9, <2>10 DEF Least
  <2>11. CASE certain \subseteq shown \cup r.lost
    <3>1. Cardinality(certain) <= Cardinality(shown \cup r.lost)
      BY <2>7, <2>11, FS_Subset
    <3> QED
      BY <2>3, <2>6, <2>7, <2>8, <2>9, <3>1 DEF Least
  <2> QED
    BY <2>2, <2>10, <2>11 DEF Covers
<1> QED
  BY <1>1, SearchesAreSound, PTL
=============================================================================

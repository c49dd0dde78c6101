--------------------------- MODULE EmbeddingProofs ----------------------------
(***************************************************************************)
(* The job table and its worker (EmbedWorker), for any processes, jobs,     *)
(* profiles and number of attempts: the types hold however runs overlap; the *)
(* safety of the queue, and that the table implements LeaseQueue, while the *)
(* runs exclude one another.  Then the vectors they write (EmbeddingStore).  *)
(***************************************************************************)
EXTENDS EmbedWorker, EmbeddingStore, TLAPS

-----------------------------------------------------------------------------
(***************************************************************************)
(* What the flushes make of a row.                                          *)
(***************************************************************************)

\* A flush of typed rows is a typed row.
LEMMA FlushesAreTyped ==
    ASSUME NEW loaded \in Row, NEW current \in Row
    PROVE  /\ FlushComplete(loaded, current) \in Row
           /\ FlushFail(loaded, current) \in Row
           /\ FlushReap(loaded, current) \in Row
           /\ FlushEnqueue(loaded, current) \in Row
<1>1. /\ loaded.status \in Status /\ loaded.attempts \in Nat /\ loaded.locked \in Lock
      /\ loaded.due \in BOOLEAN
      /\ current.status \in Status /\ current.attempts \in Nat /\ current.locked \in Lock
      /\ current.due \in BOOLEAN
  BY DEF Row
<1>2. ASSUME NEW write \in Row, NEW moved \in BOOLEAN
      PROVE  Flushed(loaded, write, moved, current) \in Row
  <2>1. /\ write.status \in Status /\ write.attempts \in Nat /\ write.locked \in Lock
        /\ write.due \in BOOLEAN
    BY <1>2 DEF Row
  <2> QED
    BY <1>1, <2>1 DEF Flushed, Row
<1>3. Completed(loaded) \in Row /\ FailedOnce(loaded) \in Row /\ Reaped(loaded) \in Row
      /\ Enqueued(loaded) \in Row
  BY DEF Completed, FailedOnce, Reaped, Enqueued, Row, Status, Lock
<1>4. Exhausted(loaded) \in BOOLEAN
  BY DEF Exhausted
<1> QED
  BY <1>2, <1>3, <1>4 DEF FlushComplete, FlushFail, FlushReap, FlushEnqueue

LEMMA ClaimedRow ==
    ASSUME NEW row \in Row
    PROVE  /\ Claimed(row) \in Row
           /\ Claimed(row).status = "running" /\ Claimed(row).locked = "fresh"
           /\ Claimed(row).attempts = row.attempts + 1
<1>1. row.attempts + 1 \in Nat
  BY DEF Row
<1>2. Claimed(row) \in Row
  BY <1>1 DEF Claimed, Row, Status, Lock
<1>3. Claimed(row).status = "running" /\ Claimed(row).locked = "fresh"
  BY DEF Claimed, Row
<1>4. Claimed(row).attempts = row.attempts + 1
  BY DEF Claimed, Row
<1> QED
  BY <1>2, <1>3, <1>4

\* The row is as it was read, but for its lock and its run_after.
Follows(current, loaded) ==
    current.status = loaded.status /\ current.attempts = loaded.attempts

\* What a flush over an unchanged row leaves in the columns that matter.
LEMMA FlushesOfUnchangedRows ==
    ASSUME NEW loaded \in Row, NEW current \in Row, Follows(current, loaded)
    PROVE  /\ FlushComplete(loaded, current).status = "succeeded"
           /\ FlushComplete(loaded, current).attempts = current.attempts
           /\ FlushFail(loaded, current).status = IF Exhausted(current) THEN "failed" ELSE "pending"
           /\ FlushFail(loaded, current).attempts = current.attempts
           /\ FlushReap(loaded, current).status = IF Exhausted(current) THEN "failed" ELSE "pending"
           /\ FlushReap(loaded, current).attempts = current.attempts
           /\ InFlight(current) => FlushEnqueue(loaded, current) = current
           /\ ~ InFlight(current) => /\ FlushEnqueue(loaded, current).status = "pending"
                                     /\ FlushEnqueue(loaded, current).attempts = 0
<1> USE DEF Follows
<1>1. Completed(loaded).status = "succeeded" /\ Completed(loaded).attempts = loaded.attempts
  BY DEF Completed, Row
<1>2. /\ FailedOnce(loaded).status = IF Exhausted(loaded) THEN "failed" ELSE "pending"
      /\ FailedOnce(loaded).attempts = loaded.attempts
  BY DEF FailedOnce, Row
<1>3. /\ Reaped(loaded).status = IF Exhausted(loaded) THEN "failed" ELSE "pending"
      /\ Reaped(loaded).attempts = loaded.attempts
  BY DEF Reaped, Row
<1>4. Exhausted(loaded) <=> Exhausted(current)
  BY DEF Exhausted
<1>5. InFlight(loaded) <=> InFlight(current)
  BY DEF InFlight
<1>6. ~ InFlight(loaded) => Enqueued(loaded).status = "pending" /\ Enqueued(loaded).attempts = 0
  BY DEF Enqueued
<1>7. ASSUME NEW write, NEW moved
      PROVE  /\ Flushed(loaded, write, moved, current).status = write.status
             /\ Flushed(loaded, write, moved, current).attempts = write.attempts
  BY DEF Flushed
<1>8. /\ FlushComplete(loaded, current).status = "succeeded"
      /\ FlushComplete(loaded, current).attempts = current.attempts
  BY <1>1, <1>7 DEF FlushComplete
<1>9. /\ FlushFail(loaded, current).status = IF Exhausted(current) THEN "failed" ELSE "pending"
      /\ FlushFail(loaded, current).attempts = current.attempts
  BY <1>2, <1>4, <1>7 DEF FlushFail
<1>10. /\ FlushReap(loaded, current).status = IF Exhausted(current) THEN "failed" ELSE "pending"
       /\ FlushReap(loaded, current).attempts = current.attempts
  BY <1>3, <1>4, <1>7 DEF FlushReap
<1>11. InFlight(current) => FlushEnqueue(loaded, current) = current
  BY <1>5 DEF FlushEnqueue
<1>12. ~ InFlight(current) => /\ FlushEnqueue(loaded, current).status = "pending"
                              /\ FlushEnqueue(loaded, current).attempts = 0
  BY <1>5, <1>6, <1>7 DEF FlushEnqueue
<1> QED
  BY <1>8, <1>9, <1>10, <1>11, <1>12

-----------------------------------------------------------------------------
(***************************************************************************)
(* Types.  A verdict is written over the row of a job that is held.         *)
(***************************************************************************)
HoldsAJob ==
    \A w \in Workers :
        /\ pc[w] \in Executing => held[w] \in Jobs
        /\ pc[w] \in {"completing", "failing"} => seen[w][held[w]] \in Row

Typed == TypeOK /\ HoldsAJob

LEMMA InitIsTyped == Init => Typed
  BY DEF Init, Typed, TypeOK, HoldsAJob, NothingSeen, NoRow, Row, Status, Lock, Stages, Executing

LEMMA StepIsTyped ==
    ASSUME Typed, [Next]_vars
    PROVE  Typed'
<1> USE DEF Typed, TypeOK, HoldsAJob
<1>1. ASSUME NEW w \in Workers, Start(w) PROVE Typed'
  BY <1>1 DEF Start, Goto, Stages, Executing
<1>2. ASSUME NEW w \in Workers, NEW D \in SUBSET Jobs, NEW s \in Stages, Load(w, D, s),
             s \in Executing => held[w] \in Jobs,
             s \in {"completing", "failing"} => held[w] \in D
      PROVE  Typed'
  BY <1>2, NoneIsNoValue DEF Load, Goto
<1>3. ASSUME NEW w \in Workers, ReapCommit(w) PROVE Typed'
  <2>1. job' \in [Jobs -> Row]
    <3>1. \A j \in Loaded(w) : FlushReap(seen[w][j], job[j]) \in Row
      BY FlushesAreTyped DEF Loaded
    <3> QED
      BY <1>3, <3>1 DEF ReapCommit
  <2> QED
    BY <1>3, <2>1 DEF ReapCommit, Goto, Stages, NothingSeen, Executing
<1>4. ASSUME NEW w \in Workers, EnqueueRead(w) PROVE Typed'
  <2>1. PICK j \in Jobs : seen' = [seen EXCEPT ![w][j] = job[j]]
    BY <1>4 DEF EnqueueRead
  <2> QED
    BY <1>4, <2>1 DEF EnqueueRead, Executing
<1>5. ASSUME NEW w \in Workers, EnqueueCommit(w) PROVE Typed'
  <2>1. job' \in [Jobs -> Row]
    <3>1. \A j \in Loaded(w) : FlushEnqueue(seen[w][j], job[j]) \in Row
      BY FlushesAreTyped DEF Loaded
    <3> QED
      BY <1>5, <3>1 DEF EnqueueCommit
  <2> QED
    BY <1>5, <2>1 DEF EnqueueCommit, Goto, Stages, NothingSeen, Executing
<1>6. ASSUME NEW w \in Workers, NEW j \in Jobs, Claim(w, j) PROVE Typed'
  <2>1. Claimed(job[j]) \in Row
    BY ClaimedRow
  <2> QED
    BY <1>6, <2>1 DEF Claim, Goto, Stages, Executing
<1>7. ASSUME NEW w \in Workers, Execute(w) \/ ExecuteError(w) PROVE Typed'
  <2>1. CASE Execute(w)
    BY <1>7, <2>1 DEF Execute, Goto, Stages, Executing
  <2>2. CASE ExecuteError(w)
    BY <1>7, <2>2 DEF ExecuteError, Goto, Stages, NothingSeen, Executing
  <2> QED
    BY <1>7, <2>1, <2>2
<1>8. ASSUME NEW w \in Workers, NEW row \in Row, Finish(w, row) PROVE Typed'
  BY <1>8 DEF Finish, Goto, Stages, NothingSeen, Executing
<1>9. ASSUME NEW w \in Workers, Exit(w) PROVE Typed'
  BY <1>9 DEF Exit, Stages, NothingSeen, Executing
<1>10. ASSUME NEW j \in Jobs, StaleAfter(j) \/ BackoffOver(j) PROVE Typed'
  <2>1. job' \in [Jobs -> Row]
    <3>1. [job[j] EXCEPT !.locked = "stale"] \in Row /\ [job[j] EXCEPT !.due = TRUE] \in Row
      BY DEF Row, Lock
    <3> QED
      BY <1>10, <3>1 DEF StaleAfter, BackoffOver
  <2> QED
    BY <1>10, <2>1 DEF StaleAfter, BackoffOver
<1>11. CASE UNCHANGED vars
  BY <1>11 DEF vars
<1>12. ASSUME NEW w \in Workers, ReapRead(w) PROVE Typed'
  BY <1>2, <1>12 DEF ReapRead, Stages, Executing
<1>13. ASSUME NEW w \in Workers, CompleteRead(w) \/ FailRead(w) PROVE Typed'
  <2>1. held[w] \in Jobs
    BY <1>13 DEF CompleteRead, FailRead, Executing
  <2> QED
    BY <1>2, <1>13, <2>1 DEF CompleteRead, FailRead, Stages
<1>14. ASSUME NEW w \in Workers, CompleteCommit(w) \/ FailCommit(w) PROVE Typed'
  <2>1. seen[w][held[w]] \in Row /\ job[held[w]] \in Row
    BY <1>14 DEF CompleteCommit, FailCommit, Executing
  <2> QED
    BY <1>8, <1>14, <2>1, FlushesAreTyped DEF CompleteCommit, FailCommit
<1> QED
  BY <1>1, <1>3, <1>4, <1>5, <1>6, <1>7, <1>9, <1>10, <1>11, <1>12, <1>13, <1>14
  DEF Next, Reap, Enqueue, Work, Drained, Crash

LEMMA AlwaysTyped == Spec => []Typed
<1>1. Typed /\ [Next]_vars => Typed'
  BY StepIsTyped
<1> QED
  BY <1>1, InitIsTyped, PTL DEF Spec

\* The state is well-typed in every behaviour, overlapping runs or not.
THEOREM TypeCorrect == Spec => []TypeOK
<1>1. Typed => TypeOK
  BY DEF Typed
<1> QED
  BY <1>1, AlwaysTyped, PTL

-----------------------------------------------------------------------------
(***************************************************************************)
(* The inductive invariant of runs that exclude one another.                *)
(***************************************************************************)
Alone == \A v, w \in Workers : pc[v] # "down" /\ pc[w] # "down" => v = w

\* Rows are loaded only inside the transactions that write them back.
LoadedIsOpen ==
    \A w \in Workers, j \in Jobs :
        seen[w][j] # None => pc[w] \in {"reaping", "enqueue", "completing", "failing"}

\* Nobody else changes the status or the counter of a loaded row.
LoadedIsCurrent ==
    \A w \in Workers, j \in Jobs : seen[w][j] # None => Follows(job[j], seen[w][j])

ReapedWasRunning ==
    \A w \in Workers, j \in Jobs :
        pc[w] = "reaping" /\ seen[w][j] # None => job[j].status = "running"

SavedBeforeComplete ==
    \A w \in Workers : pc[w] \in {"complete", "completing"} => held[w] \in saved

IInv == /\ Alone /\ LoadedIsOpen /\ LoadedIsCurrent /\ ReapedWasRunning
        /\ SavedBeforeComplete
        /\ RunningIsReapable /\ AttemptsAreBounded
        /\ SucceededWasSaved /\ HolderOwnsItsJob

LEMMA InitEstablishesIInv == Init => IInv
<1> SUFFICES ASSUME Init PROVE IInv
  OBVIOUS
<1>1. \A j \in Jobs : job[j].status = "absent" /\ job[j].attempts = 0
  BY DEF Init, NoRow
<1>2. \A w \in Workers : pc[w] = "down" /\ \A j \in Jobs : seen[w][j] = None
  BY DEF Init, NothingSeen
<1> QED
  BY <1>1, <1>2, MaxAttemptsIsPositive
  DEF IInv, Alone, LoadedIsOpen, LoadedIsCurrent, ReapedWasRunning, SavedBeforeComplete,
      RunningIsReapable, AttemptsAreBounded, SucceededWasSaved, HolderOwnsItsJob, Executing

\* A step of a run that leaves the table alone.
LEMMA QuietStep ==
    ASSUME Typed, IInv, NEW w \in Workers,
           \A v \in Workers : v # w => pc[v] = "down" /\ pc'[v] = "down"
                                       /\ \A j \in Jobs : seen'[v][j] = seen[v][j],
           \A j \in Jobs : seen'[w][j] # None =>
               /\ pc'[w] \in {"reaping", "enqueue", "completing", "failing"}
               /\ Follows(job[j], seen'[w][j])
               /\ pc'[w] = "reaping" => job[j].status = "running",
           pc'[w] \in Executing => job[held'[w]].status = "running",
           pc'[w] \in {"complete", "completing"} => held'[w] \in saved',
           saved \subseteq saved', UNCHANGED job
    PROVE  IInv'
<1>1. Alone'
  BY DEF Alone
<1>2. LoadedIsOpen' /\ LoadedIsCurrent' /\ ReapedWasRunning'
  BY DEF IInv, LoadedIsOpen, LoadedIsCurrent, ReapedWasRunning, Follows
<1>3. SavedBeforeComplete' /\ HolderOwnsItsJob'
  BY DEF SavedBeforeComplete, HolderOwnsItsJob, Executing
<1>4. RunningIsReapable' /\ AttemptsAreBounded' /\ SucceededWasSaved'
  BY DEF IInv, RunningIsReapable, AttemptsAreBounded, SucceededWasSaved
<1> QED
  BY <1>1, <1>2, <1>3, <1>4 DEF IInv

\* A step of a run that writes the table and leaves no transaction open.
Sound(row, isSaved) ==
    /\ row.attempts <= MaxAttempts
    /\ row.status = "pending" => row.attempts < MaxAttempts
    /\ row.status = "running" => row.locked # "null"
    /\ row.status = "succeeded" => isSaved

LEMMA RowsAreSound == IInv <=> /\ \A j \in Jobs : Sound(job[j], j \in saved)
                               /\ Alone /\ LoadedIsOpen /\ LoadedIsCurrent /\ ReapedWasRunning
                               /\ SavedBeforeComplete /\ HolderOwnsItsJob
  BY DEF IInv, Sound, RunningIsReapable, AttemptsAreBounded, SucceededWasSaved

LEMMA WritingStep ==
    ASSUME Typed, IInv, NEW w \in Workers,
           \A v \in Workers : v # w => pc[v] = "down" /\ pc'[v] = "down"
                                       /\ \A j \in Jobs : seen'[v][j] = seen[v][j],
           \A j \in Jobs : seen'[w][j] = None,
           \A j \in Jobs : Sound(job[j], j \in saved) => Sound(job'[j], j \in saved'),
           pc'[w] \notin {"complete", "completing"},
           pc'[w] \in Executing => job'[held'[w]].status = "running"
    PROVE  IInv'
<1>1. \A j \in Jobs : Sound(job'[j], j \in saved')
  BY RowsAreSound
<1>2. Alone'
  BY DEF Alone
<1>3. \A v \in Workers, j \in Jobs : seen'[v][j] = None
  BY DEF IInv, LoadedIsOpen
<1>4. LoadedIsOpen' /\ LoadedIsCurrent' /\ ReapedWasRunning'
  BY <1>3 DEF LoadedIsOpen, LoadedIsCurrent, ReapedWasRunning
<1>5. SavedBeforeComplete' /\ HolderOwnsItsJob'
  BY DEF SavedBeforeComplete, HolderOwnsItsJob, Executing
<1>6. RunningIsReapable' /\ AttemptsAreBounded' /\ SucceededWasSaved'
  BY <1>1 DEF Sound, RunningIsReapable, AttemptsAreBounded, SucceededWasSaved
<1> QED
  BY <1>2, <1>4, <1>5, <1>6 DEF IInv

\* A running row given back is pending with an attempt left, or failed.
LEMMA GivenBackIsSound ==
    ASSUME NEW row \in Row, NEW new \in Row, row.attempts <= MaxAttempts,
           new.status = IF Exhausted(row) THEN "failed" ELSE "pending",
           new.attempts = row.attempts
    PROVE  /\ new.attempts <= MaxAttempts
           /\ new.status = "pending" => new.attempts < MaxAttempts
           /\ new.status \notin {"running", "succeeded"}
  BY MaxAttemptsIsPositive DEF Exhausted, Row

LEMMA StepPreservesIInv ==
    ASSUME Exclusive = TRUE, Typed, IInv, [Next]_vars
    PROVE  IInv'
<1> DEFINE Rest(w) ==
        \A v \in Workers : v # w => pc[v] = "down" /\ pc'[v] = "down"
                                    /\ \A j \in Jobs : seen'[v][j] = seen[v][j]
<1>0. \A v, w \in Workers : pc[w] # "down" /\ v # w => pc[v] = "down"
  BY DEF IInv, Alone
<1>1. ASSUME NEW w \in Workers, Start(w) PROVE IInv'
  <2>1. Rest(w) /\ pc'[w] = "reap" /\ UNCHANGED <<job, seen, saved>>
    BY <1>1 DEF Start, Goto, Typed, TypeOK
  <2>2. \A j \in Jobs : seen'[w][j] = None
    BY <1>1, <2>1 DEF Start, IInv, LoadedIsOpen
  <2> QED
    BY <2>1, <2>2, QuietStep DEF Executing
<1>2. ASSUME NEW w \in Workers, ReapRead(w) PROVE IInv'
  <2>1. Rest(w) /\ pc'[w] = "reaping" /\ UNCHANGED <<job, saved>>
    BY <1>0, <1>2 DEF ReapRead, Load, Goto, Typed, TypeOK
  <2>2. \A j \in Jobs : seen'[w][j] # None => Stale(job[j]) /\ seen'[w][j] = job[j]
    BY <1>2 DEF ReapRead, Load, Typed, TypeOK
  <2> QED
    BY <2>1, <2>2, QuietStep DEF Executing, Follows, Stale
<1>3. ASSUME NEW w \in Workers, ReapCommit(w) PROVE IInv'
  <2>1. /\ Rest(w) /\ pc'[w] = "enqueue" /\ pc[w] = "reaping" /\ UNCHANGED saved
        /\ \A j \in Jobs : seen'[w][j] = None
    BY <1>0, <1>3 DEF ReapCommit, Goto, NothingSeen, Typed, TypeOK
  <2>2. ASSUME NEW j \in Jobs, Sound(job[j], j \in saved) PROVE Sound(job'[j], j \in saved')
    <3>1. CASE j \in Loaded(w)
      <4>1. /\ seen[w][j] \in Row /\ job[j] \in Row /\ Follows(job[j], seen[w][j])
            /\ job'[j] = FlushReap(seen[w][j], job[j])
        BY <1>3, <3>1 DEF ReapCommit, Loaded, IInv, LoadedIsCurrent, Typed, TypeOK
      <4>2. /\ job'[j] \in Row
            /\ job'[j].status = IF Exhausted(job[j]) THEN "failed" ELSE "pending"
            /\ job'[j].attempts = job[j].attempts
        BY <4>1, FlushesAreTyped, FlushesOfUnchangedRows
      <4> QED
        BY <2>1, <2>2, <4>1, <4>2, GivenBackIsSound DEF Sound
    <3>2. CASE j \notin Loaded(w)
      BY <1>3, <2>1, <2>2, <3>2 DEF ReapCommit
    <3> QED
      BY <3>1, <3>2
  <2> QED
    BY <2>1, <2>2, WritingStep DEF Executing
<1>4. ASSUME NEW w \in Workers, EnqueueRead(w) PROVE IInv'
  <2>1. PICK k \in Jobs : seen' = [seen EXCEPT ![w][k] = job[k]]
    BY <1>4 DEF EnqueueRead
  <2>2. /\ Rest(w) /\ pc'[w] = "enqueue" /\ pc[w] = "enqueue" /\ UNCHANGED <<job, saved>>
        /\ \A j \in Jobs : seen'[w][j] = job[j] \/ seen'[w][j] = seen[w][j]
    BY <1>0, <1>4, <2>1 DEF EnqueueRead, Typed, TypeOK
  <2> QED
    BY <2>2, QuietStep DEF Executing, Follows, IInv, LoadedIsCurrent
<1>5. ASSUME NEW w \in Workers, EnqueueCommit(w) PROVE IInv'
  <2>1. /\ Rest(w) /\ pc'[w] = "drain"
        /\ \A j \in Jobs : seen'[w][j] = None
    BY <1>0, <1>5 DEF EnqueueCommit, Goto, NothingSeen, Typed, TypeOK
  <2>2. ASSUME NEW j \in Jobs, Sound(job[j], j \in saved) PROVE Sound(job'[j], j \in saved')
    <3>1. CASE j \in Loaded(w)
      <4>1. /\ seen[w][j] \in Row /\ job[j] \in Row /\ Follows(job[j], seen[w][j])
            /\ job'[j] = FlushEnqueue(seen[w][j], job[j])
            /\ InFlight(job[j]) => (j \in saved' <=> j \in saved)
        BY <1>5, <3>1 DEF EnqueueCommit, Loaded, IInv, LoadedIsCurrent, Typed, TypeOK,
                          Follows, InFlight
      <4>2. CASE InFlight(job[j])
        BY <2>2, <4>1, <4>2, FlushesOfUnchangedRows
      <4>3. CASE ~ InFlight(job[j])
        BY <4>1, <4>3, FlushesOfUnchangedRows, MaxAttemptsIsPositive DEF Sound
      <4> QED
        BY <4>2, <4>3
    <3>2. CASE j \notin Loaded(w)
      BY <1>5, <2>2, <3>2 DEF EnqueueCommit
    <3> QED
      BY <3>1, <3>2
  <2> QED
    BY <2>1, <2>2, WritingStep DEF Executing
<1>6. ASSUME NEW w \in Workers, NEW k \in Jobs, Claim(w, k) PROVE IInv'
  <2>1. /\ Rest(w) /\ pc'[w] = "execute" /\ UNCHANGED <<saved, seen>>
        /\ held'[w] = k /\ job'[k] = Claimed(job[k])
        /\ \A j \in Jobs : j # k => job'[j] = job[j]
    BY <1>0, <1>6 DEF Claim, Goto, Typed, TypeOK
  <2>2. \A j \in Jobs : seen'[w][j] = None
    BY <1>6, <2>1 DEF Claim, IInv, LoadedIsOpen
  <2>3. Sound(job[k], k \in saved) => Sound(job'[k], k \in saved')
    BY <1>6, <2>1, ClaimedRow, MaxAttemptsIsPositive DEF Claim, Claimable, Sound, Row, Typed, TypeOK
  <2>4. job'[k].status = "running"
    BY <2>1, ClaimedRow DEF Typed, TypeOK
  <2> QED
    BY <2>1, <2>2, <2>3, <2>4, WritingStep
<1>7. ASSUME NEW w \in Workers, Execute(w) PROVE IInv'
  <2>1. /\ Rest(w) /\ pc'[w] = "complete" /\ pc[w] = "execute" /\ UNCHANGED <<job, seen, held>>
        /\ saved \subseteq saved' /\ held[w] \in saved'
    BY <1>0, <1>7 DEF Execute, Goto, Typed, TypeOK
  <2>2. \A j \in Jobs : seen'[w][j] = None
    BY <2>1 DEF IInv, LoadedIsOpen
  <2>3. job[held[w]].status = "running"
    BY <2>1 DEF IInv, HolderOwnsItsJob, Executing
  <2> QED
    BY <2>1, <2>2, <2>3, QuietStep
<1>8. ASSUME NEW w \in Workers, ExecuteError(w) PROVE IInv'
  <2>1. /\ Rest(w) /\ pc'[w] = "fail" /\ UNCHANGED <<job, held, saved>>
        /\ \A j \in Jobs : seen'[w][j] = None
    BY <1>0, <1>8 DEF ExecuteError, Goto, NothingSeen, Typed, TypeOK
  <2>2. job[held[w]].status = "running"
    BY <1>8 DEF ExecuteError, IInv, HolderOwnsItsJob, Executing
  <2> QED
    BY <2>1, <2>2, QuietStep
<1>9. ASSUME NEW w \in Workers, CompleteRead(w) \/ FailRead(w) PROVE IInv'
  <2>1. /\ Rest(w) /\ pc'[w] \in {"completing", "failing"} /\ UNCHANGED <<job, held, saved>>
        /\ \A j \in Jobs : seen'[w][j] # None => seen'[w][j] = job[j]
        /\ pc'[w] = "completing" => pc[w] = "complete"
    BY <1>0, <1>9 DEF CompleteRead, FailRead, Load, Goto, Typed, TypeOK
  <2>2. job[held[w]].status = "running"
    BY <1>9 DEF CompleteRead, FailRead, IInv, HolderOwnsItsJob, Executing
  <2>3. pc[w] = "complete" => held[w] \in saved
    BY DEF IInv, SavedBeforeComplete
  <2> QED
    BY <2>1, <2>2, <2>3, QuietStep DEF Follows
<1>10. ASSUME NEW w \in Workers, CompleteCommit(w) \/ FailCommit(w) PROVE IInv'
  <2>1. held[w] \in Jobs /\ seen[w][held[w]] \in Row
    BY <1>10 DEF CompleteCommit, FailCommit, Typed, HoldsAJob, Executing
  <2>2. /\ Rest(w) /\ pc'[w] = "drain" /\ UNCHANGED saved
        /\ \A j \in Jobs : seen'[w][j] = None
        /\ \A j \in Jobs : j # held[w] => job'[j] = job[j]
    BY <1>0, <1>10 DEF CompleteCommit, FailCommit, Finish, Goto, NothingSeen, Typed, TypeOK
  <2>3. job[held[w]] \in Row /\ Follows(job[held[w]], seen[w][held[w]])
    BY <2>1, NoneIsNoValue DEF IInv, LoadedIsCurrent, Typed, TypeOK
  <2>4. Sound(job[held[w]], held[w] \in saved) => Sound(job'[held[w]], held[w] \in saved')
    <3>1. CASE CompleteCommit(w)
      <4>1. /\ job'[held[w]] = FlushComplete(seen[w][held[w]], job[held[w]])
            /\ held[w] \in saved
        BY <2>1, <3>1 DEF CompleteCommit, Finish, Typed, TypeOK, IInv, SavedBeforeComplete
      <4> QED
        BY <2>1, <2>2, <2>3, <4>1, FlushesOfUnchangedRows DEF Sound
    <3>2. CASE FailCommit(w)
      <4>1. job'[held[w]] = FlushFail(seen[w][held[w]], job[held[w]])
        BY <2>1, <3>2 DEF FailCommit, Finish, Typed, TypeOK
      <4>2. /\ job'[held[w]] \in Row
            /\ job'[held[w]].status = IF Exhausted(job[held[w]]) THEN "failed" ELSE "pending"
            /\ job'[held[w]].attempts = job[held[w]].attempts
        BY <2>1, <2>3, <4>1, FlushesAreTyped, FlushesOfUnchangedRows
      <4> QED
        BY <2>1, <2>2, <2>3, <4>2, GivenBackIsSound DEF Sound
    <3> QED
      BY <1>10, <3>1, <3>2
  <2> QED
    BY <2>2, <2>4, WritingStep DEF Executing
<1>11. ASSUME NEW w \in Workers, Exit(w), pc[w] # "down" PROVE IInv'
  <2>1. /\ Rest(w) /\ pc'[w] = "down" /\ UNCHANGED <<job, saved>>
        /\ \A j \in Jobs : seen'[w][j] = None
    BY <1>0, <1>11 DEF Exit, NothingSeen, Typed, TypeOK
  <2> QED
    BY <2>1, QuietStep DEF Executing
<1>12. ASSUME NEW k \in Jobs, StaleAfter(k) \/ BackoffOver(k) PROVE IInv'
  <2>1. \A j \in Jobs : /\ job'[j].status = job[j].status /\ job'[j].attempts = job[j].attempts
                        /\ job'[j].locked = "null" => job[j].locked = "null"
    BY <1>12 DEF StaleAfter, BackoffOver, Row, Typed, TypeOK
  <2>2. UNCHANGED <<pc, held, seen, saved>>
    BY <1>12 DEF StaleAfter, BackoffOver
  <2>3. \A j \in Jobs : Sound(job[j], j \in saved) => Sound(job'[j], j \in saved')
    BY <2>1, <2>2 DEF Sound
  <2>4. HolderOwnsItsJob'
    BY <2>1, <2>2 DEF IInv, HolderOwnsItsJob, Typed, HoldsAJob
  <2>5. RunningIsReapable' /\ AttemptsAreBounded' /\ SucceededWasSaved'
    BY <2>3, RowsAreSound DEF Sound, RunningIsReapable, AttemptsAreBounded, SucceededWasSaved
  <2>6. Alone' /\ LoadedIsOpen' /\ LoadedIsCurrent' /\ ReapedWasRunning' /\ SavedBeforeComplete'
    BY <2>1, <2>2 DEF IInv, Alone, LoadedIsOpen, LoadedIsCurrent, ReapedWasRunning,
                      SavedBeforeComplete, Follows
  <2> QED
    BY <2>4, <2>5, <2>6 DEF IInv
<1>13. CASE UNCHANGED vars
  BY <1>13 DEF vars, IInv, Alone, LoadedIsOpen, LoadedIsCurrent, ReapedWasRunning,
               SavedBeforeComplete, RunningIsReapable, AttemptsAreBounded,
               SucceededWasSaved, HolderOwnsItsJob
<1>14. ASSUME NEW w \in Workers, Drained(w) \/ Crash(w) PROVE IInv'
  BY <1>11, <1>14 DEF Drained, Crash
<1> QED
  BY <1>1, <1>2, <1>3, <1>4, <1>5, <1>6, <1>7, <1>8, <1>9, <1>10, <1>12, <1>13, <1>14
  DEF Next, Reap, Enqueue, Work

THEOREM Invariance == ASSUME Exclusive = TRUE PROVE Spec => []IInv
<1>1. Typed /\ IInv /\ [Next]_vars => IInv'
  BY StepPreservesIInv
<1> QED
  BY <1>1, InitEstablishesIInv, AlwaysTyped, PTL DEF Spec

\* While runs exclude one another, the reaper can see every running job.
THEOREM RunningJobsAreReapable == ASSUME Exclusive = TRUE PROVE Spec => []RunningIsReapable
<1>1. IInv => RunningIsReapable
  BY DEF IInv
<1> QED
  BY <1>1, Invariance, PTL

\* ... no job is attempted more than max_attempts times,
THEOREM NoAttemptTooMany == ASSUME Exclusive = TRUE PROVE Spec => []AttemptsAreBounded
<1>1. IInv => AttemptsAreBounded
  BY DEF IInv
<1> QED
  BY <1>1, Invariance, PTL

\* ... what is marked succeeded had its vectors committed since it was queued,
THEOREM SuccessIsDurable == ASSUME Exclusive = TRUE PROVE Spec => []SucceededWasSaved
<1>1. IInv => SucceededWasSaved
  BY DEF IInv
<1> QED
  BY <1>1, Invariance, PTL

\* ... and the job a run works on stays its own until the verdict.
THEOREM HoldersOwnTheirJobs == ASSUME Exclusive = TRUE PROVE Spec => []HolderOwnsItsJob
<1>1. IInv => HolderOwnsItsJob
  BY DEF IInv
<1> QED
  BY <1>1, Invariance, PTL

-----------------------------------------------------------------------------
(***************************************************************************)
(* The table implements the queue's promise.                                *)
(***************************************************************************)
Phase == [j \in Jobs |-> PhaseOf(job[j])]
Tries == [j \in Jobs |-> job[j].attempts]

LEMMA InitKeepsThePromise == Init => Promise!Init
<1> SUFFICES ASSUME Init PROVE Phase = [j \in Jobs |-> "idle"] /\ Tries = [j \in Jobs |-> 0]
  BY DEF Promise!Init, Phase, Tries
<1> QED
  BY DEF Init, NoRow, PhaseOf, Phase, Tries

\* The frame of every step: phases and counters stay in their domains.
InDomains == Phase \in [Jobs -> Promise!Phases] /\ Tries \in [Jobs -> 0 .. MaxAttempts]

LEMMA PromisedDomains == Typed /\ AttemptsAreBounded => InDomains
<1> SUFFICES ASSUME Typed, AttemptsAreBounded PROVE InDomains
  OBVIOUS
<1>1. \A j \in Jobs : PhaseOf(job[j]) \in Promise!Phases
  BY DEF Typed, TypeOK, Row, Status, PhaseOf, Promise!Phases
<1>2. \A j \in Jobs : job[j].attempts \in 0 .. MaxAttempts
  BY MaxAttemptsIsPositive DEF Typed, TypeOK, Row, AttemptsAreBounded
<1> QED
  BY <1>1, <1>2 DEF InDomains, Phase, Tries

LEMMA StepKeepsThePromise ==
    ASSUME Exclusive = TRUE, Typed, Typed', IInv, IInv', [Next]_vars
    PROVE  [Promise!Next]_<<Phase, Tries>>
<1>1. Phase' \in [Jobs -> Promise!Phases] /\ Tries' \in [Jobs -> 0 .. MaxAttempts]
  <2>1. Typed' /\ AttemptsAreBounded'
    BY DEF IInv
  <2>2. InDomains'
    BY <2>1, PromisedDomains, PTL
  <2> QED
    BY <2>2 DEF InDomains, Promise!Phases
<1> DEFINE
    Same(j)  == Phase'[j] = Phase[j] /\ Tries'[j] = Tries[j]
    Given(j) == /\ Phase[j] = "leased"
                /\ Phase'[j] = IF Tries[j] < MaxAttempts THEN "queued" ELSE "dead"
                /\ Tries'[j] = Tries[j]
    Asked(j) == /\ Phase[j] \in {"idle", "done", "dead"}
                /\ Phase'[j] = "queued" /\ Tries'[j] = 0
<1>2. ASSUME NEW j \in Jobs
      PROVE  /\ Phase[j] = PhaseOf(job[j]) /\ Phase'[j] = PhaseOf(job'[j])
             /\ Tries[j] = job[j].attempts /\ Tries'[j] = job'[j].attempts
             /\ job[j].attempts \in Nat
  BY DEF Phase, Tries, Typed, TypeOK, Row
<1>3. ASSUME UNCHANGED job PROVE UNCHANGED <<Phase, Tries>>
  BY <1>3 DEF Phase, Tries
<1>4. ASSUME NEW w \in Workers, ReapCommit(w) PROVE \A j \in Jobs : Given(j) \/ Same(j)
  <2> SUFFICES ASSUME NEW j \in Jobs PROVE Given(j) \/ Same(j)
    OBVIOUS
  <2>1. CASE j \in Loaded(w)
    <3>1. /\ seen[w][j] \in Row /\ job[j] \in Row /\ Follows(job[j], seen[w][j])
          /\ job'[j] = FlushReap(seen[w][j], job[j])
          /\ job[j].status = "running"
      BY <1>4, <2>1 DEF ReapCommit, Loaded, IInv, LoadedIsCurrent, ReapedWasRunning, Typed, TypeOK
    <3>2. /\ job'[j].status = IF Exhausted(job[j]) THEN "failed" ELSE "pending"
          /\ job'[j].attempts = job[j].attempts
      BY <3>1, FlushesOfUnchangedRows
    <3> QED
      BY <1>2, <3>1, <3>2, MaxAttemptsIsPositive DEF PhaseOf, Exhausted
  <2>2. CASE j \notin Loaded(w)
    BY <1>2, <1>4, <2>2 DEF ReapCommit
  <2> QED
    BY <2>1, <2>2
<1>5. ASSUME NEW w \in Workers, EnqueueCommit(w) PROVE \A j \in Jobs : Asked(j) \/ Same(j)
  <2> SUFFICES ASSUME NEW j \in Jobs PROVE Asked(j) \/ Same(j)
    OBVIOUS
  <2>1. CASE j \in Loaded(w)
    <3>1. /\ seen[w][j] \in Row /\ job[j] \in Row /\ Follows(job[j], seen[w][j])
          /\ job'[j] = FlushEnqueue(seen[w][j], job[j])
      BY <1>5, <2>1 DEF EnqueueCommit, Loaded, IInv, LoadedIsCurrent, Typed, TypeOK
    <3>2. CASE InFlight(job[j])
      BY <1>2, <3>1, <3>2, FlushesOfUnchangedRows
    <3>3. CASE ~ InFlight(job[j])
      <4>1. job'[j].status = "pending" /\ job'[j].attempts = 0
        BY <3>1, <3>3, FlushesOfUnchangedRows
      <4> QED
        BY <1>2, <3>1, <3>3, <4>1 DEF PhaseOf, InFlight, Row, Status
    <3> QED
      BY <3>2, <3>3
  <2>2. CASE j \notin Loaded(w)
    BY <1>2, <1>5, <2>2 DEF EnqueueCommit
  <2> QED
    BY <2>1, <2>2
<1>6. ASSUME NEW w \in Workers, NEW k \in Jobs, Claim(w, k)
      PROVE  /\ Phase[k] = "queued" /\ Tries[k] < MaxAttempts
             /\ Phase'[k] = "leased" /\ Tries'[k] = Tries[k] + 1
             /\ \A j \in Jobs \ {k} : Same(j)
  <2>1. /\ job'[k] = Claimed(job[k]) /\ job[k].status = "pending" /\ job[k] \in Row
        /\ \A j \in Jobs : j # k => job'[j] = job[j]
    BY <1>6 DEF Claim, Claimable, Typed, TypeOK
  <2>2. job[k].attempts < MaxAttempts
    BY <2>1 DEF IInv, AttemptsAreBounded
  <2>3. job'[k].status = "running" /\ job'[k].attempts = job[k].attempts + 1
    BY <2>1, ClaimedRow
  <2>4. \A j \in Jobs \ {k} : Same(j)
    BY <1>2, <2>1
  <2> QED
    BY <1>2, <2>1, <2>2, <2>3, <2>4 DEF PhaseOf
<1>7. ASSUME NEW w \in Workers, CompleteCommit(w) \/ FailCommit(w)
      PROVE  /\ held[w] \in Jobs /\ job[held[w]].status = "running"
             /\ job[held[w]] \in Row /\ seen[w][held[w]] \in Row
             /\ Follows(job[held[w]], seen[w][held[w]])
             /\ \A j \in Jobs \ {held[w]} : Same(j)
  <2>1. held[w] \in Jobs /\ job[held[w]].status = "running" /\ seen[w][held[w]] \in Row
    BY <1>7 DEF CompleteCommit, FailCommit, Typed, HoldsAJob, Executing, IInv, HolderOwnsItsJob
  <2>2. job[held[w]] \in Row /\ Follows(job[held[w]], seen[w][held[w]])
    BY <2>1, NoneIsNoValue DEF IInv, LoadedIsCurrent, Typed, TypeOK
  <2>3. \A j \in Jobs : j # held[w] => job'[j] = job[j]
    BY <1>7 DEF CompleteCommit, FailCommit, Finish, Typed, TypeOK
  <2> QED
    BY <1>2, <2>1, <2>2, <2>3
<1>8. ASSUME NEW w \in Workers, CompleteCommit(w)
      PROVE  Phase[held[w]] = "leased" /\ Phase'[held[w]] = "done"
             /\ Tries'[held[w]] = Tries[held[w]]
  <2>1. job'[held[w]] = FlushComplete(seen[w][held[w]], job[held[w]])
    BY <1>7, <1>8 DEF CompleteCommit, Finish, Typed, TypeOK
  <2>2. /\ job'[held[w]].status = "succeeded"
        /\ job'[held[w]].attempts = job[held[w]].attempts
    BY <1>7, <1>8, <2>1, FlushesOfUnchangedRows
  <2> QED
    BY <1>2, <1>7, <1>8, <2>2 DEF PhaseOf
<1>9. ASSUME NEW w \in Workers, FailCommit(w) PROVE Given(held[w])
  <2>1. job'[held[w]] = FlushFail(seen[w][held[w]], job[held[w]])
    BY <1>7, <1>9 DEF FailCommit, Finish, Typed, TypeOK
  <2>2. /\ job'[held[w]].status = IF Exhausted(job[held[w]]) THEN "failed" ELSE "pending"
        /\ job'[held[w]].attempts = job[held[w]].attempts
    BY <1>7, <1>9, <2>1, FlushesOfUnchangedRows
  <2>3. PhaseOf(job[held[w]]) = "leased"
    BY <1>7, <1>9 DEF PhaseOf
  <2>4. /\ Tries[held[w]] = job[held[w]].attempts /\ Tries[held[w]] \in Nat
        /\ Tries'[held[w]] = Tries[held[w]]
        /\ Phase[held[w]] = "leased" /\ Phase'[held[w]] = PhaseOf(job'[held[w]])
    BY <1>2, <1>7, <1>9, <2>2, <2>3
  <2>5. CASE Exhausted(job[held[w]])
    <3>1. PhaseOf(job'[held[w]]) = "dead"
      BY <2>2, <2>5 DEF PhaseOf
    <3>2. ~ (Tries[held[w]] < MaxAttempts)
      BY <2>4, <2>5, MaxAttemptsIsPositive DEF Exhausted
    <3> QED
      BY <2>4, <3>1, <3>2
  <2>6. CASE ~ Exhausted(job[held[w]])
    <3>1. PhaseOf(job'[held[w]]) = "queued"
      BY <2>2, <2>6 DEF PhaseOf
    <3>2. Tries[held[w]] < MaxAttempts
      BY <2>4, <2>6, MaxAttemptsIsPositive DEF Exhausted
    <3> QED
      BY <2>4, <3>1, <3>2
  <2> QED
    BY <2>5, <2>6
<1>10. ASSUME NEW k \in Jobs, StaleAfter(k) \/ BackoffOver(k) PROVE UNCHANGED <<Phase, Tries>>
  <2>1. \A j \in Jobs : job'[j].status = job[j].status /\ job'[j].attempts = job[j].attempts
    <3>1. job \in [Jobs -> Row]
      BY DEF Typed, TypeOK
    <3>2. CASE StaleAfter(k)
      BY <3>1, <3>2 DEF StaleAfter, Row
    <3>3. CASE BackoffOver(k)
      BY <3>1, <3>3 DEF BackoffOver, Row
    <3> QED
      BY <1>10, <3>2, <3>3
  <2>2. \A j \in Jobs : Same(j)
    <3> SUFFICES ASSUME NEW j \in Jobs PROVE Same(j)
      OBVIOUS
    <3>1. job[j].status \in Status
      BY DEF Typed, TypeOK, Row
    <3>2. PhaseOf(job'[j]) = PhaseOf(job[j])
      BY <2>1, <3>1 DEF PhaseOf, Status
    <3> QED
      BY <1>2, <2>1, <3>2
  <2> QED
    BY <2>2 DEF Phase, Tries
<1>11. CASE \E w \in Workers : ReapCommit(w) \/ EnqueueCommit(w) \/ CompleteCommit(w) \/ FailCommit(w)
  <2> USE DEF Promise!Next, Promise!Release, Promise!Submit, Promise!Stay, Promise!Finish,
              Phase, Tries
  <2>1. ASSUME NEW w \in Workers, ReapCommit(w) PROVE Promise!Next
    BY <1>1, <1>4, <2>1
  <2>2. ASSUME NEW w \in Workers, EnqueueCommit(w) PROVE Promise!Next
    BY <1>1, <1>5, <2>2
  <2>3. ASSUME NEW w \in Workers, CompleteCommit(w) PROVE Promise!Next
    BY <1>1, <1>7, <1>8, <2>3
  <2>4. ASSUME NEW w \in Workers, FailCommit(w) PROVE Promise!Next
    <3>1. held[w] \in Jobs /\ (\A j \in Jobs : j = held[w] \/ Same(j)) /\ Given(held[w])
      BY <1>7, <1>9, <2>4
    <3>2. \A j \in Jobs : Given(j) \/ Same(j)
      BY <3>1
    <3> QED
      BY <1>1, <3>2
  <2> QED
    BY <1>11, <2>1, <2>2, <2>3, <2>4
<1>12. CASE \E w \in Workers, k \in Jobs : Claim(w, k)
  BY <1>1, <1>6, <1>12 DEF Promise!Next, Promise!Lease, Promise!Stay, Phase, Tries
<1>13. CASE UNCHANGED job
  BY <1>3, <1>13
<1> QED
  BY <1>10, <1>11, <1>12, <1>13
  DEF Next, Reap, Enqueue, Work, Start, ReapRead, Load, EnqueueRead, Execute, ExecuteError,
      CompleteRead, FailRead, Drained, Crash, Exit, vars

\* While runs exclude one another, the job table behaves as LeaseQueue: leases
\* are counted and bounded, each has one verdict, and only a job with a verdict
\* is queued anew.
THEOREM TheTableIsALeaseQueue == ASSUME Exclusive = TRUE PROVE Spec => ImplementsLeaseQueue
<1>1. Typed /\ Typed' /\ IInv /\ IInv' /\ [Next]_vars => [Promise!Next]_<<Phase, Tries>>
  BY StepKeepsThePromise
<1> QED
  BY <1>1, InitKeepsThePromise, AlwaysTyped, Invariance, PTL
  DEF Spec, ImplementsLeaseQueue, Promise!Spec, Phase, Tries

-----------------------------------------------------------------------------
(***************************************************************************)
(* EmbeddingStore.  For any papers, texts, processes and number of edits:   *)
(* while embed transactions do not overlap (Serial), no vector is stranded. *)
(***************************************************************************)

\* The state is well-typed in every behaviour, overlapping transactions or not.
THEOREM StoreTypeCorrect == StoreSpec => []StoreTypeOK
<1>1. StoreInit => StoreTypeOK
  <2> SUFFICES ASSUME StoreInit PROVE StoreTypeOK
    OBVIOUS
  <2>1. paper \in [Papers -> Paper \cup {Missing}] /\ clock \in Version
    BY VersionBound DEF StoreInit, Paper, Version
  <2>2. vector \in [Papers -> Vector \cup {Missing}]
    BY DEF StoreInit, Vector
  <2> QED
    BY <2>1, <2>2 DEF StoreInit, StoreTypeOK, Nothing
<1>2. StoreTypeOK /\ [StoreNext]_storeVars => StoreTypeOK'
  <2> SUFFICES ASSUME StoreTypeOK, [StoreNext]_storeVars PROVE StoreTypeOK'
    OBVIOUS
  <2> USE DEF StoreTypeOK
  <2>1. ASSUME NEW p \in Papers, NEW t \in Texts, Edit(p, t) PROVE StoreTypeOK'
    <3>1. clock + 1 \in Version
      BY <2>1, VersionBound DEF Edit, Version
    <3>2. [text |-> t, version |-> clock + 1] \in Paper
      BY <3>1 DEF Paper
    <3> QED
      BY <2>1, <3>1, <3>2 DEF Edit
  <2>2. ASSUME NEW p \in Papers, Delete(p) PROVE StoreTypeOK'
    BY <2>2 DEF Delete
  <2>3. ASSUME NEW w \in Processes, NEW B \in SUBSET Papers, Begin(w, B) PROVE StoreTypeOK'
    BY <2>3 DEF Begin, tables
  <2>4. ASSUME NEW w \in Processes, ReadPapers(w) PROVE StoreTypeOK'
    BY <2>4 DEF ReadPapers, tables
  <2>5. ASSUME NEW w \in Processes, ReadVectors(w) PROVE StoreTypeOK'
    BY <2>5 DEF ReadVectors, tables
  <2>6. ASSUME NEW w \in Processes, Commit(w) PROVE StoreTypeOK'
    <3>1. \A p \in SameText(w) : Dismissed(w, p) \in Vector
      <4> SUFFICES ASSUME NEW p \in SameText(w) PROVE Dismissed(w, p) \in Vector
        OBVIOUS
      <4>1. p \in Papers /\ read[w][p] \in Paper /\ vector[p] \in Vector
        BY <2>6 DEF Commit, Writable, SameText, Embeddable
      <4> QED
        BY <4>1 DEF Dismissed, Vector, Paper
    <3>2. \A p \in ToEncode(w) : Encoded(w, p) \in Vector
      BY DEF ToEncode, Embeddable, Encoded, Vector, Paper
    <3>3. vector' \in [Papers -> Vector \cup {Missing}]
      BY <2>6, <3>1, <3>2 DEF Commit
    <3> QED
      BY <2>6, <3>3 DEF Commit, EndOf, Nothing
  <2>7. ASSUME NEW w \in Processes, Abort(w) PROVE StoreTypeOK'
    BY <2>7 DEF Abort, EndOf, Nothing, tables
  <2>8. CASE UNCHANGED storeVars
    BY <2>8 DEF storeVars
  <2> QED
    BY <2>1, <2>2, <2>3, <2>4, <2>5, <2>6, <2>7, <2>8 DEF StoreNext
<1> QED
  BY <1>1, <1>2, PTL DEF StoreSpec

-----------------------------------------------------------------------------
(***************************************************************************)
(* The inductive invariant.                                                 *)
(***************************************************************************)
Reading(w) == stage[w] \in {"vectors", "encode"}

StoreAlone == \A v, w \in Processes : stage[v] # "idle" /\ stage[w] # "idle" => v = w

\* Versions are handed out by the clock.
Bounded ==
    \A p \in Papers :
        /\ paper[p] # Missing => paper[p].version <= clock
        /\ vector[p] # Missing => vector[p].source <= clock
        /\ \A w \in Processes : Reading(w) /\ read[w][p] # Missing => read[w][p].version <= clock

\* A version has one text.
ReadTextIsItsVersions ==
    \A w \in Processes, p \in Papers :
        /\ Reading(w) /\ read[w][p] # Missing /\ paper[p] # Missing
        /\ read[w][p].version = paper[p].version
        => read[w][p].text = paper[p].text

\* Nobody else has written the rows this transaction has read.
FoundIsCurrent ==
    \A w \in Processes, p \in Papers :
        stage[w] = "encode" /\ found[w][p] # Missing /\ vector[p] # Missing
            => vector[p] = found[w][p]

\* A paper that was embedded when the transaction read it is unedited since.
EmbeddedIsAsRead ==
    \A w \in Processes, p \in Papers :
        /\ Reading(w) /\ read[w][p] # Missing /\ paper[p] # Missing
        /\ vector[p] # Missing /\ vector[p].source = paper[p].version
        => read[w][p].version = paper[p].version

StoreIInv == StoreAlone /\ Bounded /\ ReadTextIsItsVersions /\ FoundIsCurrent
        /\ EmbeddedIsAsRead /\ NoStrandedVector

\* What a commit writes is a paper's text at the version it records.
LEMMA CommitWritesWhatWasRead ==
    ASSUME StoreTypeOK, FoundIsCurrent, NEW w \in Processes, Commit(w), NEW p \in Papers
    PROVE  \/ vector'[p] = vector[p]
           \/ /\ read[w][p] # Missing /\ stage[w] = "encode"
              /\ vector'[p] = [hash |-> read[w][p].text, source |-> read[w][p].version]
<1>1. CASE p \in SameText(w)
  <2>1. /\ found[w][p] # Missing /\ found[w][p].hash = read[w][p].text
        /\ read[w][p] # Missing
    BY <1>1 DEF SameText, Embeddable
  <2>2. vector[p] # Missing /\ stage[w] = "encode" /\ vector'[p] = Dismissed(w, p)
    BY <1>1 DEF Commit, Writable
  <2>3. vector[p] = found[w][p] /\ vector[p] \in Vector
    BY <2>1, <2>2 DEF FoundIsCurrent, StoreTypeOK
  <2>4. CASE read[w][p].version = found[w][p].source
    BY <2>2, <2>4 DEF Dismissed
  <2>5. CASE read[w][p].version # found[w][p].source
    <3>1. vector'[p] = [vector[p] EXCEPT !.source = read[w][p].version]
      BY <2>2, <2>5 DEF Dismissed
    <3>2. vector'[p] = [hash |-> vector[p].hash, source |-> read[w][p].version]
      BY <2>3, <3>1 DEF Vector
    <3> QED
      BY <2>1, <2>2, <2>3, <3>2
  <2> QED
    BY <2>4, <2>5
<1>2. CASE p \in ToEncode(w)
  BY <1>2 DEF Commit, ToEncode, SameText, Embeddable, Encoded
<1>3. CASE p \notin SameText(w) /\ p \notin ToEncode(w)
  BY <1>3 DEF Commit
<1> QED
  BY <1>1, <1>2, <1>3

LEMMA StoreInitEstablishesIInv == StoreInit => StoreIInv
<1> SUFFICES ASSUME StoreInit PROVE StoreIInv
  OBVIOUS
<1>1. \A w \in Processes : ~ Reading(w) /\ stage[w] = "idle"
  BY DEF StoreInit, Reading
<1>2. \A p \in Papers : paper[p].version = 1 /\ clock = 1
  BY DEF StoreInit
<1>3. \A p \in Papers : vector[p] # Missing => vector[p].source = 0
  BY DEF StoreInit, NullVersion
<1> QED
  BY <1>1, <1>2, <1>3
  DEF StoreIInv, StoreAlone, Bounded, ReadTextIsItsVersions, FoundIsCurrent, EmbeddedIsAsRead, NoStrandedVector

\* Each action preserves the invariant.
LEMMA StoreStepPreservesIInv ==
    ASSUME Serial = TRUE, StoreTypeOK, StoreTypeOK', StoreIInv, [StoreNext]_storeVars
    PROVE  StoreIInv'
<1> USE DEF StoreIInv
<1>0. clock \in Nat /\ (\A p \in Papers : paper[p] # Missing => paper[p].version \in Nat)
      /\ (\A p \in Papers : vector[p] # Missing => vector[p].source \in Nat)
      /\ (\A w \in Processes, p \in Papers : read[w][p] # Missing => read[w][p].version \in Nat)
  BY VersionBound DEF StoreTypeOK, Paper, Vector, Version, NullVersion
<1>1. ASSUME NEW p \in Papers, NEW t \in Texts, Edit(p, t) PROVE StoreIInv'
  <2>1. /\ paper'[p] = [text |-> t, version |-> clock + 1] /\ clock' = clock + 1
        /\ \A q \in Papers : q # p => paper'[q] = paper[q]
        /\ UNCHANGED <<vector, stage, batch, read, found>>
    BY <1>1 DEF Edit, StoreTypeOK
  <2>2. \A q \in Papers, w \in Processes : Reading(w)' = Reading(w)
    BY <2>1 DEF Reading
  <2>3. StoreAlone' /\ FoundIsCurrent'
    BY <2>1 DEF StoreAlone, FoundIsCurrent
  <2>4. Bounded'
    <3> SUFFICES ASSUME NEW q \in Papers
                 PROVE /\ paper'[q] # Missing => paper'[q].version <= clock'
                       /\ vector'[q] # Missing => vector'[q].source <= clock'
                       /\ \A w \in Processes : Reading(w)' /\ read'[w][q] # Missing
                             => read'[w][q].version <= clock'
      BY DEF Bounded
    <3>1. paper'[q] # Missing => paper'[q].version <= clock'
      BY <1>0, <2>1 DEF Bounded
    <3>2. vector'[q] # Missing => vector'[q].source <= clock'
      BY <1>0, <2>1 DEF Bounded
    <3>3. \A w \in Processes : Reading(w)' /\ read'[w][q] # Missing => read'[w][q].version <= clock'
      BY <1>0, <2>1, <2>2 DEF Bounded
    <3> QED
      BY <3>1, <3>2, <3>3
  <2>5. \A w \in Processes : Reading(w) /\ read[w][p] # Missing => read[w][p].version # paper'[p].version
    BY <1>0, <2>1 DEF Bounded
  <2>6. vector[p] # Missing => vector[p].source # paper'[p].version
    BY <1>0, <2>1 DEF Bounded
  <2>7. ReadTextIsItsVersions'
    BY <2>1, <2>2, <2>5 DEF ReadTextIsItsVersions
  <2>8. EmbeddedIsAsRead' /\ NoStrandedVector'
    BY <2>1, <2>2, <2>6 DEF EmbeddedIsAsRead, NoStrandedVector
  <2> QED
    BY <2>3, <2>4, <2>7, <2>8
<1>2. ASSUME NEW p \in Papers, Delete(p) PROVE StoreIInv'
  <2>1. /\ paper'[p] = Missing /\ vector'[p] = Missing
        /\ \A q \in Papers : q # p => paper'[q] = paper[q] /\ vector'[q] = vector[q]
        /\ UNCHANGED <<clock, stage, batch, read, found>>
    BY <1>2 DEF Delete, StoreTypeOK
  <2> QED
    BY <2>1 DEF StoreAlone, Bounded, Reading, ReadTextIsItsVersions, FoundIsCurrent,
                EmbeddedIsAsRead, NoStrandedVector
<1>3. ASSUME NEW w \in Processes, NEW B \in SUBSET Papers, Begin(w, B) PROVE StoreIInv'
  <2>1. /\ \A v \in Processes : stage[v] = "idle" /\ stage'[v] \in {"idle", "papers"}
        /\ \A v \in Processes : stage'[v] # "idle" => v = w
        /\ UNCHANGED <<tables, read, found>>
    BY <1>3 DEF Begin, StoreTypeOK
  <2> QED
    BY <2>1 DEF StoreAlone, Bounded, Reading, ReadTextIsItsVersions, FoundIsCurrent,
                EmbeddedIsAsRead, NoStrandedVector, tables
<1>4. ASSUME NEW w \in Processes, ReadPapers(w) PROVE StoreIInv'
  <2>1. /\ \A v \in Processes : v # w => stage[v] = "idle" /\ stage'[v] = "idle"
        /\ stage'[w] = "vectors"
        /\ \A p \in Papers : read'[w][p] # Missing => read'[w][p] = paper[p]
        /\ UNCHANGED <<tables, found>>
    BY <1>4 DEF ReadPapers, StoreTypeOK, StoreAlone
  <2> QED
    BY <2>1 DEF StoreAlone, Bounded, Reading, ReadTextIsItsVersions, FoundIsCurrent,
                EmbeddedIsAsRead, NoStrandedVector, tables
<1>5. ASSUME NEW w \in Processes, ReadVectors(w) PROVE StoreIInv'
  <2>1. /\ \A v \in Processes : v # w => stage[v] = "idle" /\ stage'[v] = "idle"
        /\ stage[w] = "vectors" /\ stage'[w] = "encode"
        /\ \A p \in Papers : found'[w][p] # Missing => found'[w][p] = vector[p]
        /\ UNCHANGED <<tables, read>>
    BY <1>5 DEF ReadVectors, StoreTypeOK, StoreAlone
  <2> QED
    BY <2>1 DEF StoreAlone, Bounded, Reading, ReadTextIsItsVersions, FoundIsCurrent,
                EmbeddedIsAsRead, NoStrandedVector, tables
<1>6. ASSUME NEW w \in Processes, Commit(w) PROVE StoreIInv'
  <2>1. /\ \A v \in Processes : stage'[v] = "idle"
        /\ stage[w] = "encode"
        /\ UNCHANGED <<paper, clock>>
    BY <1>6 DEF Commit, EndOf, StoreTypeOK, StoreAlone
  <2>2. \A v \in Processes : ~ Reading(v)'
    BY <2>1 DEF Reading
  <2>3. StoreAlone' /\ ReadTextIsItsVersions' /\ FoundIsCurrent' /\ EmbeddedIsAsRead'
    BY <2>1, <2>2 DEF StoreAlone, ReadTextIsItsVersions, FoundIsCurrent, EmbeddedIsAsRead
  <2>4. ASSUME NEW p \in Papers
        PROVE  \/ vector'[p] = vector[p]
               \/ /\ read[w][p] # Missing /\ Reading(w)
                  /\ vector'[p].hash = read[w][p].text
                  /\ vector'[p].source = read[w][p].version
    <3>1. \/ vector'[p] = vector[p]
          \/ /\ read[w][p] # Missing /\ Reading(w)
             /\ vector'[p] = [hash |-> read[w][p].text, source |-> read[w][p].version]
      BY <1>6, CommitWritesWhatWasRead DEF Reading
    <3> QED
      BY <3>1
  <2>5. Bounded'
    <3>1. ASSUME NEW p \in Papers, vector'[p] # Missing PROVE vector'[p].source <= clock
      <4>1. CASE vector'[p] = vector[p]
        BY <3>1, <4>1 DEF Bounded
      <4>2. CASE vector'[p] # vector[p]
        <5>1. vector'[p].source = read[w][p].version
          BY <2>4, <4>2
        <5>2. read[w][p].version <= clock
          BY <2>4, <4>2 DEF Bounded
        <5> QED
          BY <5>1, <5>2
      <4> QED
        BY <4>1, <4>2
    <3> QED
      BY <2>1, <2>2, <3>1 DEF Bounded
  <2>6. NoStrandedVector'
    <3> SUFFICES ASSUME NEW p \in Papers, paper[p] # Missing, vector'[p] # Missing,
                        vector'[p].source = paper[p].version
                 PROVE  vector'[p].hash = paper[p].text
      BY <2>1 DEF NoStrandedVector
    <3>1. CASE vector'[p] = vector[p]
      BY <3>1 DEF NoStrandedVector
    <3>2. CASE vector'[p] # vector[p]
      <4>1. /\ vector'[p].source = read[w][p].version
            /\ vector'[p].hash = read[w][p].text
        BY <2>4, <3>2
      <4>2. Reading(w) /\ read[w][p] # Missing
        BY <2>4, <3>2
      <4> QED
        BY <4>1, <4>2 DEF ReadTextIsItsVersions
    <3> QED
      BY <3>1, <3>2
  <2> QED
    BY <2>3, <2>5, <2>6
<1>7. ASSUME NEW w \in Processes, Abort(w) PROVE StoreIInv'
  <2>1. /\ \A v \in Processes : stage'[v] = "idle" \/ (v # w /\ stage'[v] = stage[v])
        /\ \A v \in Processes : v # w => stage[v] = "idle"
        /\ UNCHANGED tables
    BY <1>7 DEF Abort, EndOf, StoreTypeOK, StoreAlone
  <2> QED
    BY <2>1 DEF StoreAlone, Bounded, Reading, ReadTextIsItsVersions, FoundIsCurrent,
                EmbeddedIsAsRead, NoStrandedVector, tables
<1>8. CASE UNCHANGED storeVars
  BY <1>8 DEF storeVars, StoreAlone, Bounded, Reading, ReadTextIsItsVersions, FoundIsCurrent,
              EmbeddedIsAsRead, NoStrandedVector
<1> QED
  BY <1>1, <1>2, <1>3, <1>4, <1>5, <1>6, <1>7, <1>8 DEF StoreNext

THEOREM StoreInvariance == ASSUME Serial = TRUE PROVE StoreSpec => []StoreIInv
<1>1. StoreTypeOK /\ StoreTypeOK' /\ StoreIInv /\ [StoreNext]_storeVars => StoreIInv'
  BY StoreStepPreservesIInv
<1> QED
  BY <1>1, StoreInitEstablishesIInv, StoreTypeCorrect, PTL DEF StoreSpec

\* While embed transactions do not overlap, a vector whose recorded version is
\* its paper's current one was built from its paper's current text.
THEOREM NoVectorIsStranded == ASSUME Serial = TRUE PROVE StoreSpec => []NoStrandedVector
<1>1. StoreIInv => NoStrandedVector
  BY DEF StoreIInv
<1> QED
  BY <1>1, StoreInvariance, PTL

\* ... and only an edit or a deletion makes an embedded paper pending again.
THEOREM EmbeddedStaysEmbedded == ASSUME Serial = TRUE PROVE StoreSpec => NeverBackToPending
<1> DEFINE Kept == \A p \in Papers : ~ Pending(p) /\ paper'[p] = paper[p] => ~ Pending(p)'
<1>1. ASSUME StoreTypeOK, StoreIInv, [StoreNext]_storeVars PROVE [Kept]_storeVars
  <2> SUFFICES ASSUME StoreNext, NEW p \in Papers, ~ Pending(p), paper'[p] = paper[p]
               PROVE  ~ Pending(p)'
    BY <1>1 DEF Kept
  <2>1. CASE \E w \in Processes : Commit(w)
    <3> PICK w \in Processes : Commit(w)
      BY <2>1
    <3>1. \/ vector'[p] = vector[p]
          \/ /\ read[w][p] # Missing /\ Reading(w)
             /\ vector'[p] = [hash |-> read[w][p].text, source |-> read[w][p].version]
      BY <1>1, CommitWritesWhatWasRead DEF Reading, StoreIInv
    <3>2. CASE vector'[p] = vector[p]
      BY <3>2 DEF Pending
    <3>3. CASE vector'[p] # vector[p]
      <4>1. vector'[p].source = read[w][p].version /\ vector'[p] \in Vector
        BY <3>1, <3>3, <1>1 DEF StoreTypeOK, Paper, Vector
      <4>2. paper[p] # Missing => read[w][p].version = paper[p].version
        BY <1>1, <3>1, <3>3 DEF StoreIInv, EmbeddedIsAsRead, Pending
      <4> QED
        BY <4>1, <4>2, MissingIsNoRow DEF Pending
    <3> QED
      BY <3>2, <3>3
  <2>2. CASE \E q \in Papers : Delete(q)
    BY <2>2, <1>1 DEF Delete, Pending, StoreTypeOK
  <2>3. CASE UNCHANGED vector
    BY <2>3 DEF Pending
  <2> QED
    BY <2>1, <2>2, <2>3 DEF StoreNext, Edit, Begin, ReadPapers, ReadVectors, Abort, tables
<1>2. [][Kept]_storeVars => NeverBackToPending
  BY DEF Kept, NeverBackToPending
<1> QED
  BY <1>1, <1>2, StoreTypeCorrect, StoreInvariance, PTL DEF StoreSpec
=============================================================================

----------------------------- MODULE EmbedWorker -----------------------------
(***************************************************************************)
(* The embedding worker (workers/embed.py) over the job table: one run     *)
(* reaps stale jobs, queues the pending batches and drains the queue, each  *)
(* step in a transaction of its own.  A run can be killed between any two   *)
(* database statements; cron starts another one.                            *)
(*                                                                         *)
(* A transaction that reads rows and writes them back is two steps, the     *)
(* read and the commit, because nothing locks the rows in between.  CLAIM   *)
(* takes its row with FOR UPDATE SKIP LOCKED and is one step.               *)
(*                                                                         *)
(* Exclusive says whether two runs can overlap.  deploy/crontab wraps every *)
(* run in flock -n; a run started by hand in another container does not     *)
(* see that lock.                                                           *)
(***************************************************************************)
EXTENDS JobQueue

CONSTANTS Workers,     \* processes that may run the worker
          Jobs,        \* batches, one dedup_key each
          Profiles,    \* embedding profiles (model keys)
          KeyOf,       \* the model_key in a batch's payload
          Exclusive,   \* TRUE: at most one run at a time
          QuickBatches, \* TRUE: no batch runs longer than the stale cutoff
          None         \* no job, no profile, no row loaded

ASSUME KeyOfIsAProfile  == KeyOf \in [Jobs -> Profiles]
ASSUME FlagsAreBoolean  == Exclusive \in BOOLEAN /\ QuickBatches \in BOOLEAN

ASSUME NoneIsNoValue    == None \notin Jobs \cup Profiles \cup Row

VARIABLES job,       \* the job table
          pc,        \* where each process is in its run
          profile,   \* the profile each run was started with
          held,      \* the job_id the drain loop is working on
          seen,      \* rows loaded by the open transaction, not written back yet
          saved      \* history: batches whose vectors were committed under their
                     \* model_key since they were last queued

vars == <<job, pc, profile, held, seen, saved>>

Stages == {"down", "reap", "reaping", "enqueue", "drain", "execute",
           "complete", "completing", "fail", "failing"}

NothingSeen == [j \in Jobs |-> None]

TypeOK ==
    /\ job \in [Jobs -> Row]
    /\ pc \in [Workers -> Stages]
    /\ profile \in [Workers -> Profiles \cup {None}]
    /\ held \in [Workers -> Jobs \cup {None}]
    /\ seen \in [Workers -> [Jobs -> Row \cup {None}]]
    /\ saved \in SUBSET Jobs

Init ==
    /\ job = [j \in Jobs |-> NoRow]
    /\ pc = [w \in Workers |-> "down"]
    /\ profile = [w \in Workers |-> None]
    /\ held = [w \in Workers |-> None]
    /\ seen = [w \in Workers |-> NothingSeen]
    /\ saved = {}

-----------------------------------------------------------------------------
(***************************************************************************)
(* Steps of a transaction.                                                  *)
(***************************************************************************)
Goto(w, stage) == pc' = [pc EXCEPT ![w] = stage]

\* SELECT the rows of D, then go on with the transaction.
Load(w, D, stage) ==
    /\ seen' = [seen EXCEPT ![w] = [j \in Jobs |-> IF j \in D THEN job[j] ELSE None]]
    /\ Goto(w, stage)
    /\ UNCHANGED <<job, profile, held, saved>>

Loaded(w) == {j \in Jobs : seen[w][j] # None}

-----------------------------------------------------------------------------
(***************************************************************************)
(* One run.                                                                 *)
(***************************************************************************)
\* Mutant: the cron entry lost its flock.
StartUnlocked(w) ==
    /\ pc[w] = "down"
    /\ \E p \in Profiles : profile' = [profile EXCEPT ![w] = p]
    /\ Goto(w, "reap")
    /\ UNCHANGED <<job, held, seen, saved>>

Start(w) ==
    /\ pc[w] = "down"
    /\ Exclusive => \A v \in Workers : pc[v] = "down"
    /\ \E p \in Profiles : profile' = [profile EXCEPT ![w] = p]
    /\ Goto(w, "reap")
    /\ UNCHANGED <<job, held, seen, saved>>

ReapRead(w) ==
    /\ pc[w] = "reap"
    /\ Load(w, {j \in Jobs : Stale(job[j])}, "reaping")

ReapCommit(w) ==
    /\ pc[w] = "reaping"
    /\ job' = [j \in Jobs |-> IF j \in Loaded(w) THEN FlushReap(seen[w][j], job[j]) ELSE job[j]]
    /\ seen' = [seen EXCEPT ![w] = NothingSeen]
    /\ Goto(w, "enqueue")
    /\ UNCHANGED <<profile, held, saved>>

\* enqueue_pending looks up the keys of its batches one after another.  Which
\* batches are pending is the embedding store's business: here, any of them.
EnqueueRead(w) ==
    /\ pc[w] = "enqueue"
    /\ \E j \in Jobs \ Loaded(w) :
          /\ KeyOf[j] = profile[w]
          /\ seen' = [seen EXCEPT ![w][j] = job[j]]
    /\ UNCHANGED <<job, pc, profile, held, saved>>

Collision(w) ==
    \E j \in Loaded(w) : seen[w][j].status = "absent" /\ job[j].status # "absent"

EnqueueCommit(w) ==
    /\ pc[w] = "enqueue"
    /\ ~ Collision(w)
    /\ job' = [j \in Jobs |-> IF j \in Loaded(w) THEN FlushEnqueue(seen[w][j], job[j]) ELSE job[j]]
    /\ saved' = saved \ {j \in Loaded(w) : ~ InFlight(seen[w][j])}
    /\ seen' = [seen EXCEPT ![w] = NothingSeen]
    /\ Goto(w, "drain")
    /\ UNCHANGED <<profile, held>>

\* The row is locked by the SELECT, so reading and writing it are one step.
\* ORDER BY priority, run_after is a choice among the claimable rows.
Claim(w, j) ==
    /\ pc[w] = "drain"
    /\ Claimable(job[j])
    /\ job' = [job EXCEPT ![j] = Claimed(@)]
    /\ held' = [held EXCEPT ![w] = j]
    /\ Goto(w, "execute")
    /\ UNCHANGED <<profile, seen, saved>>

\* embed_jobs.handle, committed: it refuses a batch of another profile.
Execute(w) ==
    /\ pc[w] = "execute"
    /\ KeyOf[held[w]] = profile[w]
    /\ saved' = saved \cup {held[w]}
    /\ Goto(w, "complete")
    /\ UNCHANGED <<job, profile, held, seen>>

\* Mutant: the exception is logged and the job completed all the same.
ErrorSwallowed(w) ==
    /\ pc[w] \in {"execute", "complete", "completing"}
    /\ seen' = [seen EXCEPT ![w] = NothingSeen]
    /\ Goto(w, "complete")
    /\ UNCHANGED <<job, profile, held, saved>>

\* Any exception while executing, the refusal included, or while completing.
ExecuteError(w) ==
    /\ pc[w] \in {"execute", "complete", "completing"}
    /\ seen' = [seen EXCEPT ![w] = NothingSeen]
    /\ Goto(w, "fail")
    /\ UNCHANGED <<job, profile, held, saved>>

CompleteRead(w) ==
    /\ pc[w] = "complete"
    /\ Load(w, {held[w]}, "completing")

FailRead(w) ==
    /\ pc[w] = "fail"
    /\ Load(w, {held[w]}, "failing")

\* Write the held job back and go round the drain loop.
Finish(w, row) ==
    /\ job' = [job EXCEPT ![held[w]] = row]
    /\ held' = [held EXCEPT ![w] = None]
    /\ seen' = [seen EXCEPT ![w] = NothingSeen]
    /\ Goto(w, "drain")
    /\ UNCHANGED <<profile, saved>>

CompleteCommit(w) ==
    /\ pc[w] = "completing"
    /\ Finish(w, FlushComplete(seen[w][held[w]], job[held[w]]))

FailCommit(w) ==
    /\ pc[w] = "failing"
    /\ Finish(w, FlushFail(seen[w][held[w]], job[held[w]]))

\* The process ends, its open transaction rolled back.
Exit(w) ==
    /\ pc' = [pc EXCEPT ![w] = "down"]
    /\ profile' = [profile EXCEPT ![w] = None]
    /\ held' = [held EXCEPT ![w] = None]
    /\ seen' = [seen EXCEPT ![w] = NothingSeen]
    /\ UNCHANGED <<job, saved>>

Drained(w) ==
    /\ pc[w] = "drain"
    /\ \A j \in Jobs : ~ Claimable(job[j])
    /\ Exit(w)

\* Killed, or stopped early by --enqueue-only or --max-jobs, or ended by an
\* error outside the loop's try (the IntegrityError of a Collision is one).
Crash(w) ==
    /\ pc[w] # "down"
    /\ Exit(w)

-----------------------------------------------------------------------------
(***************************************************************************)
(* The clock.                                                               *)
(***************************************************************************)
StaleAfter(j) ==
    /\ job[j].locked = "fresh"
    /\ QuickBatches => \A w \in Workers : held[w] # j
    /\ job' = [job EXCEPT ![j].locked = "stale"]
    /\ UNCHANGED <<pc, profile, held, seen, saved>>

BackoffOver(j) ==
    /\ job[j].status = "pending"
    /\ ~ job[j].due
    /\ job' = [job EXCEPT ![j].due = TRUE]
    /\ UNCHANGED <<pc, profile, held, seen, saved>>

-----------------------------------------------------------------------------
Reap(w)    == ReapRead(w) \/ ReapCommit(w)
Enqueue(w) == EnqueueRead(w) \/ EnqueueCommit(w)
Work(w)    ==
    \/ \E j \in Jobs : Claim(w, j)
    \/ Execute(w) \/ ExecuteError(w)
    \/ CompleteRead(w) \/ CompleteCommit(w)
    \/ FailRead(w) \/ FailCommit(w)
    \/ Drained(w)

Next ==
    \/ \E w \in Workers : Start(w) \/ Reap(w) \/ Enqueue(w) \/ Work(w) \/ Crash(w)
    \/ \E j \in Jobs : StaleAfter(j) \/ BackoffOver(j)

Spec == Init /\ [][Next]_vars

(***************************************************************************)
(* Fairness.  cron starts a run again and again, and time passes.  A run    *)
(* may be killed anywhere any number of times, but not at the same database *)
(* statement of every run for ever (SF); ORDER BY run_after, which a        *)
(* re-queued job gets anew, keeps a claimable job from being passed over    *)
(* for ever (SF for each job).  Nothing is assumed of Execute: a batch may  *)
(* raise, or kill its worker, every time.                                   *)
(***************************************************************************)
Fairness ==
    /\ WF_vars(\E w \in Workers : Start(w))
    /\ WF_vars(\E w \in Workers : Execute(w) \/ ExecuteError(w))
    /\ WF_vars(\E w \in Workers : Drained(w))
    /\ SF_vars(\E w \in Workers : ReapRead(w))
    /\ SF_vars(\E w \in Workers : ReapCommit(w))
    /\ SF_vars(\E w \in Workers : EnqueueCommit(w))
    /\ SF_vars(\E w \in Workers : CompleteRead(w))
    /\ SF_vars(\E w \in Workers : CompleteCommit(w))
    /\ SF_vars(\E w \in Workers : FailRead(w))
    /\ SF_vars(\E w \in Workers : FailCommit(w))
    /\ \A j \in Jobs : SF_vars(\E w \in Workers : Claim(w, j))
    /\ \A j \in Jobs : WF_vars(StaleAfter(j)) /\ WF_vars(BackoffOver(j))

FairSpec == Spec /\ Fairness

-----------------------------------------------------------------------------
(***************************************************************************)
(* Properties.                                                              *)
(***************************************************************************)

\* A running row carries the time it was locked at: the reaper's query needs
\* it, and only the reaper returns the job of a dead worker to the queue.
RunningIsReapable ==
    \A j \in Jobs : job[j].status = "running" => job[j].locked # "null"

\* No job is attempted more often than max_attempts, although the claim query
\* does not look at the counter: what is pending has an attempt left.
AttemptsAreBounded ==
    \A j \in Jobs : /\ job[j].attempts <= MaxAttempts
                    /\ job[j].status = "pending" => job[j].attempts < MaxAttempts

\* A job marked succeeded had its vectors committed, under its own model_key,
\* after it was last queued; crashes, retries and runs of another profile
\* between the three transactions do not change that.
SucceededWasSaved ==
    \A j \in Jobs : job[j].status = "succeeded" => j \in saved

\* The job a live run is working on stays `running' until that run writes the
\* verdict: it is neither reaped, queued again nor finished by someone else.
Executing == {"execute", "complete", "completing", "fail", "failing"}
HolderOwnsItsJob ==
    \A w \in Workers : pc[w] \in Executing => job[held[w]].status = "running"

\* Every queued job gets a verdict, also when its worker dies each time: the
\* attempts run out and it ends in failed.
EveryJobIsResolved ==
    \A j \in Jobs : InFlight(job[j]) ~> Finished(job[j])

\* The table implements the queue's promise.
PhaseOf(row) ==
    CASE row.status = "absent"    -> "idle"
      [] row.status = "pending"   -> "queued"
      [] row.status = "running"   -> "leased"
      [] row.status = "succeeded" -> "done"
      [] row.status = "failed"    -> "dead"

Promise == INSTANCE LeaseQueue WITH phase <- [j \in Jobs |-> PhaseOf(job[j])],
                                    tries <- [j \in Jobs |-> job[j].attempts]
ImplementsLeaseQueue == Promise!Spec
=============================================================================

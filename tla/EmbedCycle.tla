----------------------------- MODULE EmbedCycle ------------------------------
(***************************************************************************)
(* The whole embedding cycle: the worker runs of EmbedWorker over the job   *)
(* table, executing the transactions of EmbeddingStore over the papers.     *)
(* What ties the two together is what a job stands for - the batch of paper *)
(* ids in its payload, whose hash is its dedup_key - and the enqueue pass,   *)
(* which slices one snapshot of the pending papers into such batches.       *)
(***************************************************************************)
EXTENDS Sequences, FiniteSets, Naturals, SequencesExt

CONSTANTS Workers,
          NewestFirst,   \* the papers, in the order of _pending_select
          BatchSize,     \* settings.embedding_job_batch_size
          MaxScan,       \* MAX_PENDING_SCAN, ids per enqueue pass
          Texts, Blank, MaxVersion, MaxAttempts, Profile, None

VARIABLES job, pc, profile, held, seen, saved,                 \* EmbedWorker
          paper, vector, clock, stage, batch, read, found,     \* EmbeddingStore
          slices,               \* batches an enqueue pass has still to queue
          faulty                \* this run may be killed or meet an exception

Papers == ToSet(NewestFirst)
Jobs   == {B \in SUBSET Papers : Cardinality(B) \in 1 .. BatchSize}

Queue == INSTANCE EmbedWorker WITH Profiles <- {Profile}, KeyOf <- [j \in Jobs |-> Profile],
                                   Exclusive <- TRUE, QuickBatches <- FALSE
Store == INSTANCE EmbeddingStore WITH Serial <- TRUE, Processes <- Workers, Missing <- None

queueVars == <<job, pc, profile, held, seen, saved>>
storeVars == <<paper, vector, clock, stage, batch, read, found>>
vars == <<queueVars, storeVars, slices, faulty>>

TypeOK ==
    /\ Queue!TypeOK /\ Store!StoreTypeOK
    /\ slices \in [Workers -> Seq(Jobs)]
    /\ faulty \in [Workers -> BOOLEAN]

Init ==
    /\ Queue!Init /\ Store!StoreInit
    /\ slices = [w \in Workers |-> <<>>]
    /\ faulty = [w \in Workers |-> FALSE]

-----------------------------------------------------------------------------
\* iter_pending_batches: one bounded snapshot, cut into batches.
Slices ==
    LET all  == SelectSeq(NewestFirst, LAMBDA p : Store!Pending(p))
        scan == SubSeq(all, 1, IF Len(all) < MaxScan THEN Len(all) ELSE MaxScan)
        from(i) == (i - 1) * BatchSize + 1
        upto(i) == IF i * BatchSize < Len(scan) THEN i * BatchSize ELSE Len(scan)
    IN [i \in 1 .. (Len(scan) + BatchSize - 1) \div BatchSize |->
           ToSet(SubSeq(scan, from(i), upto(i)))]

Start(w) ==
    /\ Queue!Start(w)
    /\ \E f \in BOOLEAN : faulty' = [faulty EXCEPT ![w] = f]
    /\ UNCHANGED <<storeVars, slices>>

\* The enqueue pass opens with the snapshot, right after the reaper's commit.
ReapCommit(w) ==
    /\ Queue!ReapCommit(w)
    /\ slices' = [slices EXCEPT ![w] = Slices]
    /\ UNCHANGED <<storeVars, faulty>>

EnqueueRead(w) ==
    /\ slices[w] # <<>>
    /\ Queue!EnqueueRead(w)
    /\ seen'[w][Head(slices[w])] # seen[w][Head(slices[w])]
    /\ slices' = [slices EXCEPT ![w] = Tail(@)]
    /\ UNCHANGED <<storeVars, faulty>>

EnqueueCommit(w) ==
    /\ slices[w] = <<>>
    /\ Queue!EnqueueCommit(w)
    /\ UNCHANGED <<storeVars, slices, faulty>>

\* Claiming hands the payload's ids to embed_papers.
Claim(w) ==
    /\ \E j \in Jobs : Queue!Claim(w, j) /\ Store!Begin(w, j)
    /\ UNCHANGED <<slices, faulty>>

Read(w) ==
    /\ Store!ReadPapers(w) \/ Store!ReadVectors(w)
    /\ UNCHANGED <<queueVars, slices, faulty>>

Execute(w) ==
    /\ Queue!Execute(w)
    /\ Store!Commit(w)
    /\ UNCHANGED <<slices, faulty>>

Rollback(w) == IF stage[w] = "idle" THEN UNCHANGED storeVars ELSE Store!Abort(w)

\* A run that meets no fault still fails a batch whose rows went away.
ExecuteError(w) ==
    /\ faulty[w] \/ (stage[w] = "encode" /\ ~ Store!Writable(w))
    /\ Queue!ExecuteError(w)
    /\ Rollback(w)
    /\ UNCHANGED <<slices, faulty>>

Crash(w) ==
    /\ faulty[w]
    /\ Queue!Crash(w)
    /\ Rollback(w)
    /\ slices' = [slices EXCEPT ![w] = <<>>]
    /\ faulty' = [faulty EXCEPT ![w] = FALSE]

\* Steps on the job table alone.
Bookkeep(w) ==
    /\ \/ Queue!ReapRead(w)
       \/ Queue!CompleteRead(w) \/ Queue!CompleteCommit(w)
       \/ Queue!FailRead(w) \/ Queue!FailCommit(w)
    /\ UNCHANGED <<storeVars, slices, faulty>>

Drained(w) ==
    /\ Queue!Drained(w)
    /\ faulty' = [faulty EXCEPT ![w] = FALSE]
    /\ UNCHANGED <<storeVars, slices>>

Run(w) ==
    \/ ReapCommit(w) \/ EnqueueRead(w) \/ EnqueueCommit(w)
    \/ Claim(w) \/ Read(w) \/ Execute(w) \/ ExecuteError(w)
    \/ Bookkeep(w) \/ Drained(w)

Time(j) ==
    /\ Queue!StaleAfter(j) \/ Queue!BackoffOver(j)
    /\ UNCHANGED <<storeVars, slices, faulty>>

Corpus ==
    /\ \/ \E p \in Papers, t \in Texts : Store!Edit(p, t)
       \/ \E p \in Papers : Store!Delete(p)
    /\ UNCHANGED <<queueVars, slices, faulty>>

Next == (\E w \in Workers : Start(w) \/ Run(w) \/ Crash(w)) \/ (\E j \in Jobs : Time(j)) \/ Corpus

Spec == Init /\ [][Next]_vars

(***************************************************************************)
(* Fairness.  cron starts runs for ever; any number of them may be killed   *)
(* or fail anywhere.  It is not enough that infinitely many runs meet no    *)
(* fault: each of those could start while the lock a killed run left behind *)
(* is still fresh, or a failed batch is backing off, find the job not       *)
(* claimable and do nothing, before the next faulty run takes it.  Infinitely*)
(* many clean runs start when the locks have aged and the backoffs are over, *)
(* as the last of a few clean runs in a row does (stale after 30 minutes,    *)
(* backoff at most an hour).                                                 *)
(***************************************************************************)
CleanStart(w) ==
    /\ Start(w)
    /\ ~ faulty'[w]
    /\ \A j \in Jobs : job[j].locked # "fresh" /\ (job[j].status = "pending" => job[j].due)

Fairness ==
    /\ \A w \in Workers : ([]<><<CleanStart(w)>>_vars) /\ WF_vars(Run(w))
    /\ \A j \in Jobs : WF_vars(Time(j))

FairSpec == Spec /\ Fairness

-----------------------------------------------------------------------------
\* However often a run is killed and wherever, every paper with a text is
\* embedded in its current version at last, or edited away or deleted.
EveryPaperIsEmbedded ==
    \A p \in Papers :
        Store!Pending(p) ~> \/ ~ Store!Pending(p)
                            \/ paper[p].text = Blank
=============================================================================

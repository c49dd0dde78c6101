------------------------------ MODULE JobQueue ------------------------------
(***************************************************************************)
(* The rows of the job table and what each function of jobs/queue.py does  *)
(* to one of them.  The queue has no state of its own beside those rows, so *)
(* this module declares none; EmbedWorker holds the table and the worker    *)
(* processes that call these functions inside their transactions.           *)
(*                                                                         *)
(* Time is abstracted to what the code tests.  locked_at is NULL, younger   *)
(* than the stale cutoff ("fresh") or older ("stale"); run_after is in the  *)
(* past (due) or not.                                                       *)
(***************************************************************************)
EXTENDS Naturals

CONSTANTS MaxAttempts   \* max_attempts of every job (5 in the code)

ASSUME MaxAttemptsIsPositive == MaxAttempts \in Nat \ {0}

\* "absent": no row with this dedup_key has been inserted yet.
Status == {"absent", "pending", "running", "succeeded", "failed"}
Lock   == {"null", "fresh", "stale"}

Row == [status: Status, attempts: Nat, locked: Lock, due: BOOLEAN]

NoRow == [status |-> "absent", attempts |-> 0, locked |-> "null", due |-> FALSE]

\* Mutant: only a queued job counts as in flight.
QueuedOnly(row) == row.status = "pending"

InFlight(row) == row.status \in {"pending", "running"}
Finished(row) == row.status \in {"succeeded", "failed"}

-----------------------------------------------------------------------------
\* What one transaction does to a row it has loaded.

\* enqueue: insert a fresh row, or reset a finished one; a key in flight is
\* left alone (the function returns None).
Enqueued(row) ==
    IF InFlight(row) THEN row
    ELSE [status |-> "pending", attempts |-> 0, locked |-> "null", due |-> TRUE]

\* The predicate of CLAIM_SQL.
Claimable(row) == row.status = "pending" /\ row.due

\* Mutant: locked_at is not set.
ClaimedUnlocked(row) == [row EXCEPT !.status = "running", !.attempts = row.attempts + 1]

Claimed(row) == [row EXCEPT !.status = "running", !.attempts = row.attempts + 1, !.locked = "fresh"]

\* Mutant: a status outside JobStatus.
CompletedMisspelt(row) == [row EXCEPT !.status = "complete", !.locked = "null"]

Completed(row) == [row EXCEPT !.status = "succeeded", !.locked = "null"]

Exhausted(row) == row.attempts >= MaxAttempts

\* fail: the backoff puts run_after in the future, giving up does not touch it.
FailedOnce(row) ==
    IF Exhausted(row)
    THEN [row EXCEPT !.status = "failed",  !.locked = "null"]
    ELSE [row EXCEPT !.status = "pending", !.locked = "null", !.due = FALSE]

\* The predicate of reap_stale's SELECT.
Stale(row) == row.status = "running" /\ row.locked = "stale"

\* Mutants: the reaper gives a dead worker's attempt back; it never gives up.
ReapedRefunded(row) ==
    [row EXCEPT !.status = "pending", !.locked = "null", !.due = TRUE,
                !.attempts = row.attempts - 1]
ReapedForEver(row) == [row EXCEPT !.status = "pending", !.locked = "null", !.due = TRUE]

Reaped(row) ==
    IF Exhausted(row)
    THEN [row EXCEPT !.status = "failed",  !.locked = "null"]
    ELSE [row EXCEPT !.status = "pending", !.locked = "null", !.due = TRUE]

(***************************************************************************)
(* complete, fail, reap_stale and enqueue read a row with a plain SELECT    *)
(* and write it back when the session is flushed.  The UPDATE names only    *)
(* the columns whose value differs from the one that was read and selects   *)
(* the row by its id alone, so it lands on whatever the row has become.     *)
(* Every assignment to run_after (`moved') is a new moment, hence written.  *)
(***************************************************************************)
Flushed(read, write, moved, current) ==
    [status   |-> IF write.status   = read.status   THEN current.status   ELSE write.status,
     attempts |-> IF write.attempts = read.attempts THEN current.attempts ELSE write.attempts,
     locked   |-> IF write.locked   = read.locked   THEN current.locked   ELSE write.locked,
     due      |-> IF moved THEN write.due ELSE current.due]

FlushComplete(read, current) == Flushed(read, Completed(read), FALSE, current)
FlushFail(read, current)     == Flushed(read, FailedOnce(read), ~Exhausted(read), current)
FlushReap(read, current)     == Flushed(read, Reaped(read), ~Exhausted(read), current)
FlushEnqueue(read, current)  ==
    IF InFlight(read) THEN current ELSE Flushed(read, Enqueued(read), TRUE, current)
=============================================================================

------------------------------- MODULE Harvest -------------------------------
(***************************************************************************)
(* Which records a source's harvest sees: the pages and cursors of the four *)
(* clients (sources/*/client.py) inside the run transaction of              *)
(* ingest/pipeline.py and workers/harvest.py.                               *)
(*                                                                         *)
(* A source lists records under queries (arXiv sets, OpenAlex filters,      *)
(* bioRxiv servers, Europe PMC expressions), ordered by date.  A run walks   *)
(* the queries in turn, page by page, and stores one cursor for all of them. *)
(* A new version of a record counts as a record of its own; what ingestion   *)
(* makes of a record is module Corpus.                                       *)
(***************************************************************************)
EXTENDS Naturals, Sequences, FiniteSets, Functions

CONSTANTS Sources,    \* the kinds of source considered
          Configurations, \* sequences of queries that may be configured for each
          Records,    \* 1 .. N, in the order of records of equal date
          QueryOf,    \* the query each record is listed under
          PageSize,
          MaxPages,   \* MAX_PAGES_PER_RUN
          Backfill,   \* initial_backfill_days
          Outage,     \* days a source goes without a run that opens its windows
                      \* and succeeds, at most
          Overnight,  \* the sources whose runs may last past midnight
          MaxDay,     \* bound of the clock
          None

Windowed == {"biorxiv", "europepmc"}  \* their queries have an end date

ASSUME SourcesAreKnown == Sources \subseteq {"arxiv", "openalex"} \cup Windowed
ASSUME RecordsAreNumbered == IsFiniteSet(Records) /\ Records = 1 .. Cardinality(Records)
ASSUME RecordsAreListed == DOMAIN QueryOf = Records
ASSUME QueriesAreConfigured ==
    \A s \in Sources : \A c \in Configurations[s] : c \in Seq(Range(QueryOf)) /\ IsInjective(c) /\ c # <<>>
ASSUME BoundsArePositive == {PageSize, MaxPages, Backfill, Outage, MaxDay} \subseteq Nat \ {0}

VARIABLES source, queries, \* never change
          today,
          date,     \* of each record listed so far
          stored,   \* records whose ingestion is committed
          cursor,   \* source_cursor.cursor
          good,     \* history: the day the last successful run began
          phase,    \* of the run
          faulty,   \* this run may be killed or fail
          began,    \* the day it opened its windows
          since,    \* default_since() of the run
          at,       \* index of the query being harvested
          request,  \* the next request
          pages,    \* pages of this query so far
          got,      \* records ingested but not committed
          last      \* last_cursor

world == <<source, queries, today, date>>
run   == <<phase, faulty, began, since, at, request, pages, got, last>>
vars  == <<world, stored, cursor, good, run>>

Days    == 0 .. MaxDay
Request == [query : Range(QueryOf), from : Days, to : Days, after : Nat, done : BOOLEAN]

ASSUME NoneIsNothing == None \notin Days /\ None \notin Request

\* A cursor is what the client can read off the request it stands for: arXiv's
\* token all of it, OpenAlex's the position, bioRxiv's the end of the window.
TypeOK ==
    /\ source \in Sources /\ queries \in Configurations[source]
    /\ {today, good, began, since} \subseteq Days
    /\ date \in [Records -> Days \cup {None}]
    /\ stored \subseteq Records /\ got \subseteq Records
    /\ cursor \in Request \cup {None} /\ last \in Request \cup {None}
    /\ phase \in {"idle", "next", "paging"} /\ faulty \in BOOLEAN
    /\ at \in 1 .. Len(queries) + 1
    /\ request \in Request \cup {None}
    /\ pages \in 0 .. MaxPages - 1

Listed == {r \in Records : date[r] # None}

-----------------------------------------------------------------------------
(***************************************************************************)
(* What a source answers.                                                   *)
(***************************************************************************)
\* Ordered by date, then as numbered.
Position(r) == date[r] * (Cardinality(Records) + 1) + r

Listing(q) == {r \in Listed : QueryOf[r] = q.query /\ date[r] \in q.from .. q.to}

Rank(r, S) == Cardinality({s \in S : Position(s) <= Position(r)})

\* bioRxiv counts from the start of the listing, the others resume a position.
Remaining(q) ==
    {r \in Listing(q) :
        (IF source = "biorxiv" THEN Rank(r, Listing(q)) ELSE Position(r)) > q.after}

Page(q) == {r \in Remaining(q) : Rank(r, Remaining(q)) <= PageSize}

Advanced(q) ==
    IF Page(q) = {} THEN q
    ELSE LET end == CHOOSE r \in Page(q) : \A s \in Page(q) : Position(s) <= Position(r)
         IN [q EXCEPT !.after = IF source = "biorxiv" THEN q.after + Cardinality(Page(q))
                                ELSE Position(end)]

\* next_cursor of the page that answers q.
NextCursor(q) ==
    CASE source = "arxiv"     -> IF Remaining(q) = Page(q) THEN None ELSE Advanced(q)
      [] source = "openalex"  -> IF Page(q) = {} THEN None ELSE Advanced(q)
      [] source = "biorxiv"   -> q
      [] source = "europepmc" -> [Advanced(q) EXCEPT !.done = (Page(q) = {})]

\* The client asks for another page.
More(q) ==
    /\ pages + 1 < MaxPages
    /\ CASE source \in {"arxiv", "biorxiv"}      -> Remaining(q) # Page(q)
         [] source \in {"openalex", "europepmc"} -> Page(q) # {}

-----------------------------------------------------------------------------
(***************************************************************************)
(* What a client asks first for the k-th query.                             *)
(***************************************************************************)
DaysAgo(n) == IF today < n THEN 0 ELSE today - n

Fresh(k, start) ==
    [query |-> queries[k], from |-> start, after |-> 0, done |-> FALSE,
     to |-> IF source \in Windowed THEN today ELSE MaxDay]

\* Mutant: any unfinished mark is resumed, whichever query it belongs to.
ResumedBlindly(k, start) ==
    CASE source = "arxiv"     -> cursor
      [] source = "openalex"  -> [Fresh(k, start) EXCEPT !.after = cursor.after]
      [] source = "biorxiv"   -> [Fresh(k, start) EXCEPT !.from = cursor.to]
      [] source = "europepmc" -> [cursor EXCEPT !.query = queries[k], !.done = FALSE]

\* Europe PMC's mark is resumed only if it belongs to the query and its window
\* was not finished.
Resumes == source = "europepmc" /\ cursor # None /\ cursor.query = queries[1] /\ ~ cursor.done

\* arXiv's token is sent alone.
Resumed(k, start) ==
    CASE source = "arxiv"     -> cursor
      [] source = "openalex"  -> [Fresh(k, start) EXCEPT !.after = cursor.after]
      [] source = "biorxiv"   -> [Fresh(k, start) EXCEPT !.from = cursor.to]
      [] source = "europepmc" -> IF Resumes THEN cursor ELSE Fresh(k, start)

\* Only the first query is given the cursor.
Opened(k, start) == IF k = 1 /\ cursor # None THEN Resumed(k, start) ELSE Fresh(k, start)

-----------------------------------------------------------------------------
Init ==
    /\ source \in Sources /\ queries \in Configurations[source]
    /\ today = 0 /\ good = 0
    /\ date = [r \in Records |-> None]
    /\ stored = {} /\ cursor = None
    /\ phase = "idle" /\ faulty = FALSE /\ began = 0 /\ since = 0
    /\ at = 1 /\ request = None /\ pages = 0 /\ got = {} /\ last = None

Begin ==
    /\ phase = "idle"
    /\ phase' = "next"
    /\ faulty' \in BOOLEAN
    /\ since' = DaysAgo(Backfill)
    /\ began' = IF Resumes THEN good ELSE today
    /\ at' = 1 /\ got' = {} /\ last' = cursor
    /\ UNCHANGED <<world, stored, cursor, good, request, pages>>

Open ==
    /\ phase = "next" /\ at \in DOMAIN queries
    /\ phase' = "paging"
    /\ request' = Opened(at, since)
    /\ pages' = 0
    /\ UNCHANGED <<world, stored, cursor, good, faulty, began, since, at, got, last>>

\* One page, ingested; the next one, or the next query when this one is
\* exhausted or has used up its pages.
Fetch ==
    /\ phase = "paging"
    /\ got' = got \cup Page(request)
    /\ last' = IF NextCursor(request) # None THEN NextCursor(request) ELSE last
    /\ IF More(request)
       THEN request' = Advanced(request) /\ pages' = pages + 1 /\ UNCHANGED <<phase, at>>
       ELSE phase' = "next" /\ at' = at + 1 /\ request' = None /\ pages' = 0
    /\ UNCHANGED <<world, stored, cursor, good, faulty, began, since>>

Stop == /\ phase' = "idle" /\ faulty' = FALSE /\ began' = 0 /\ since' = 0
        /\ at' = 1 /\ request' = None /\ pages' = 0 /\ got' = {} /\ last' = None

\* SourceError while fetching: what was ingested is committed, the cursor stays.
Fail ==
    /\ phase = "paging" /\ faulty
    /\ stored' = stored \cup got
    /\ Stop
    /\ UNCHANGED <<world, cursor, good>>

\* Mutant: the transaction is closed without being committed.
FinishUncommitted ==
    /\ phase = "next" /\ at = Len(queries) + 1
    /\ Stop
    /\ UNCHANGED <<world, stored, cursor, good>>

\* The end of run() and of session_scope(): the only commit of a run.
Finish ==
    /\ phase = "next" /\ at = Len(queries) + 1
    /\ stored' = stored \cup got
    /\ cursor' = last
    /\ good' = began
    /\ Stop
    /\ UNCHANGED world

Kill ==
    /\ phase # "idle" /\ faulty
    /\ Stop
    /\ UNCHANGED <<world, stored, cursor, good>>

\* A source lists a record under the day it does so - but OpenAlex under the
\* day of publication (openalex_incremental_field), which may be any.
List(r, d) ==
    /\ date[r] = None /\ QueryOf[r] \in Range(queries)
    /\ source # "openalex" => d = today
    /\ date' = [date EXCEPT ![r] = d]
    /\ UNCHANGED <<source, queries, today, stored, cursor, good, run>>

Tick ==
    /\ today < MaxDay
    /\ today < good + Outage
    /\ phase = "idle" \/ source \in Overnight
    /\ today' = today + 1
    /\ UNCHANGED <<source, queries, date, stored, cursor, good, run>>

Step == Open \/ Fetch \/ Finish

Next == Begin \/ Step \/ Fail \/ Kill \/ Tick \/ \E r \in Records, d \in Days : List(r, d)

Spec == Init /\ [][Next]_vars

(***************************************************************************)
(* Fairness.  cron starts a run every hour, and the source answers all the  *)
(* requests of infinitely many of them.                                     *)
(***************************************************************************)
CleanBegin == Begin /\ ~ faulty'

Fairness == ([]<><<CleanBegin>>_vars) /\ WF_vars(Step)

FairSpec == Spec /\ Fairness

-----------------------------------------------------------------------------
\* Whatever the source lists, wherever runs fail or are killed and whatever is
\* listed between two pages: a record not ingested yet is still ahead of the
\* requests the next run would open, whose window and cursor moved on; or, while
\* that run only resumes a window, it is as young as that window's end, so that
\* the window opened after it will begin early enough.
Ahead == UNION {Remaining(Opened(k, DaysAgo(Backfill))) : k \in DOMAIN queries}

Younger == {r \in Listed : date[r] >= good /\ good >= DaysAgo(Backfill)}

NothingIsPassedOver ==
    phase = "idle" => Listed \subseteq stored \cup Ahead \cup (IF Resumes THEN Younger ELSE {})

\* Every record listed is ingested at last.
EveryRecordIsHarvested == \A r \in Records : r \in Listed ~> r \in stored
=============================================================================

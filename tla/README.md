# Academious: a verification companion

TLA+ modules, TLC configurations and TLAPS proofs for the parts of Academious
that keep state or decide: the corpus and what harvests, merges, corrects and
prunes it, the embedding queue and the vectors it maintains, the reader's account
and feed, and the requests that share the search capacity.  Every definition is
translated from the source; `PROJECT.json` names the lines.

## 1. Inventory

| Component | State it keeps | Operations | What is hard | What makes it correct |
|---|---|---|---|---|
| **Ingestion pipeline and canonical corpus** (`ingest/pipeline.py`, `canonicalise.py`, `relations.py`) | `paper`, `paper_identifier`, `source_record`, `paper_relation`, `paper_merge` | `process_record` (skip, reject, hold, create, match, merge, link), `run`, `link_publications` | chains of records that merge papers; a flush that fails inside one long transaction; cascades of a deleted loser | the identifier table, the canonical DOIs, the stored records and the links agree with one another |
| **Harvesting and cursors** (`workers/harvest.py`, `sources/*/client.py`) | `source_cursor`, one row per source | page through each query of a source, save the last cursor | one cursor for several queries; failures between pages; windows that slide; records that appear while a run pages | nothing listed by a source is passed over for ever |
| **HTTP client and rate limiting** (`core/http.py`, `core/ratelimit.py`) | tokens and the time of the next refill, per source | acquire, penalise, retry | callers that share a bucket; overlapping penalties; a sleep that ends in a drained bucket | the published rate and the latest Retry-After are respected by every caller |
| **Admission and field precedence** (`ingest/scope.py`, `dates.py`, `repositories.py`, `merge.py`, `oa.py`) | the columns of a paper, its copies, `abstract_source` | `apply_candidate`, `apply_locations`, `elect_best` | any order of sources, replays, a clock that moves | what must not depend on the order does not; the best abstract and copy win; no deposit founds a paper |
| **Retractions** (`ingest/retractions.py`) | notices, `paper.retraction_status` | import, apply | notices that change their nature; identifiers gained later | the severest notice that names a paper decides |
| **Enrichment and maintenance scripts** (`ingest/enrich.py`, `scripts/`) | none of their own | seven passes: derive fields, titles, dates; two prunes; readmit; enrich | pages over rows the pass itself removes; kills; a harvest beside it | a pass that ended has been through every row; a prune removes nothing that a record vouches for, if what it judged is still so |
| **Job queue** (`jobs/queue.py`) | `job` rows: status, attempts, run_at, locked_at, dedup_key | enqueue, claim, complete, fail, reap_stale | plain reads written back by primary key; worker death; retries | no attempt too many, no job lost, none executed twice at once |
| **Embedding worker** (`workers/embed.py`, `embeddings/jobs.py`) | position of each run | reap, enqueue, then claim / execute / verdict until drained | kills between any two commits; runs that overlap | a job marked succeeded had its vectors saved; every job ends |
| **Embedding service** (`embeddings/service.py`) | `paper.updated_at`, `paper_embedding.source_updated_at`, `text_hash`, the vector | select pending, embed a batch in one transaction of minutes | edits and deletions while a batch is encoded | no vector is stranded: a current version means a vector of the current text |
| **Accounts** (`api/routers/account.py`, `db/models/account.py`) | events, issued feeds, saved papers, ranker weights, the profile | deliver events, learn, save, remove, delete | duplicated, reordered and concurrent deliveries; deadlocks; deletion beside a write | each event counts once; nothing of a deleted reader is left |
| **Onboarding** (`onboarding/`) | none on the server: the draft travels with every request | validate, build, refine, summarise | keys cut and derived again by each request | what a feed item names can be corrected |
| **Personalised feed** (`personalise/`) | none between requests | gather, filter, rank, diversify, project | several statements over a corpus that changes; caps that give way | blocked papers are not shown; exploration is a ceiling |
| **Retrieval, search gate, encoder, connections** (`retrieval/`, `api/concurrency.py`, `dependencies.py`, `db/session.py`) | permits, connections, the lazily built service | search by three methods, browse, preview, account feed | two resources taken in two orders; timeouts and errors in between; papers deleted between two statements | nothing leaks, every request is answered, a page is full and in order |
| **Web application** (`web/src`) | the settled answer and its token; the session | request, retry, sign in and out | late answers | what is shown belongs to the request shown |
| **Database sessions** (`db/session.py`) | transactions, one advisory lock | `session_scope`, `exclusive_lock` | commit or rollback at every exit | part of every module above |
| **Normalisers, backends, evaluation, text helpers** | none | pure functions over payloads, texts, judgements | arithmetic and parsing | not modelled (section 8) |

How they interact: cron starts `harvest`, `embed`, `link-publications` and
`retractions` as separate processes that share only the database
(`deploy/crontab`), each under its own `flock`.  A harvest asks the sources
through the HTTP client, and commits papers; a changed `paper.updated_at` makes a
paper pending for the embedding worker, which never talks to the harvest in any
other way.  The scripts are run by hand beside all of these.  The API reads what
they leave: a search ranks it, a preview builds a profile from the draft in the
request and serves a feed, and the account adds what the reader did before.

## 2. Modules and plan

| Module | Models | Uses |
|---|---|---|
| `LeaseQueue` | what the job queue promises, without processes or clocks: the abstract specification | |
| `JobQueue` | one row of `job` and every update of it | |
| `EmbedWorker` | runs of `workers/embed.py` over the job table; implements `LeaseQueue` | `JobQueue` |
| `EmbeddingStore` | `embed_papers` over papers that are edited meanwhile | |
| `EmbedCycle` | both together, with the enqueue pass that slices the pending papers | `EmbedWorker`, `EmbeddingStore` (INSTANCE) |
| `Corpus` | the ingestion run and the tables it writes: which records are one paper | |
| `PaperFields` | one paper: admission, precedence of fields, copies, notices | |
| `Harvest` | runs, windows, pages and cursors of the four sources | |
| `SourceHttp` | callers of one process behind a token bucket | |
| `Maintenance` | the seven passes of an operator beside a harvest | |
| `Accounts` | transactions of the account router, with the locks of PostgreSQL | |
| `Lists` | sorting, filtering and cutting of lists, without recursion | |
| `Profile` | what a research profile is, and the levels of a draft | `Lists` |
| `Onboarding` | drafts: validated, built, refined, summarised | `Profile` |
| `Feed` | a feed: sources, budget, hard filters, features, ranking, diversification | `Profile` |
| `Preview` | the endpoints that put drafts and feeds together | `Onboarding`, `Feed` |
| `Search` | search and browsing, and everything that competes with them for permit, connection and encoder | `Lists` |
| `ListsProofs` | what the operators of `Lists` return, cited by the proofs of `Search` and `Preview` | `Lists` |
| `AccountsProofs`, `MaintenanceProofs`, `PreviewProofs`, `SearchProofs` | the theorems of the module each is named after | that module |
| `CorpusProofs` | the theorems of the ingestion run and of the row of one paper | `Corpus`, `PaperFields` |
| `HarvestProofs` | the theorems of the sources: what is harvested, and how fast they are asked | `Harvest`, `SourceHttp` |
| `EmbeddingProofs` | the theorems of the job table, its worker and the vectors | `EmbedWorker`, `EmbeddingStore` |
| `MC*` | values of the constants for TLC | |

What is left to do, in this order:

1. An abstract pacer that `SourceHttp` implements.
2. Two sessions that ingest at the same time (a harvest beside `enrich`), as a
   second writer of `Corpus`.
3. The request hook of the web application.

## 3. How the modules correspond to the code

**JobQueue, EmbedWorker.**  A transaction that reads rows and writes them back
by primary key is two steps (`ReapRead`/`ReapCommit`, `EnqueueRead`/
`EnqueueCommit`, `CompleteRead`/`CompleteCommit`, `FailRead`/`FailCommit`) with
the rows it loaded in `seen`, because SQLAlchemy locks nothing in between; the
claim is one statement with FOR UPDATE SKIP LOCKED and one step.  `pc` is the
position of a run in `workers/embed.py`, `held` the job of its drain loop.
Lock times are reduced to null, fresh and stale, due times to a Boolean;
`StaleAfter` and `BackoffOver` let them pass.  A reaped or re-queued job keeps
its attempts exactly as the code does.  The enqueue pass flushes at its commit,
which admits more interleavings than the code's autoflush.

**EmbeddingStore.**  A batch transaction reads the papers, reads their rows,
decides by hash and writes at its end.  Edits and deletions commit between any
two of these.  A version is `updated_at`; a text is the model input, compared by
equality, as the hash compares it.  Rows that predate migration 0003 are in the
initial states.

**EmbedCycle.**  A job is the set of papers of its payload, which is what its
`dedup_key` hashes.  The snapshot of `iter_pending_batches` is taken with the
commit of the reaper, the following statement; one run that may be killed or
raise anywhere is marked `faulty` when it starts, so that fairness can speak of
runs that are not.

**Corpus.**  `view` is what the session of the run sees, `db` what is committed;
a record is one step.  `FetchPage` begins a page, and is where `max_records` is
looked at: the run ends only between two pages, so that it may ingest up to a page
less one record beyond its cap.  `Skip` is every record that changes nothing.  `MatchExactly` is `resolve` with the merges it does
(`Winners`, `Losers`, `Folded`), `MatchFuzzily` the fuzzy match, `Create`,
`Hold` and `Reject` the other verdicts, `Choke` a flush that violates the unique
canonical DOI and leaves the session unusable.  A title is a class, equal when
similarity and author overlap are above the thresholds; which title wins is left
open here (it is `PaperFields`); the identifiers of a merged paper survive or not
(`Kept`) according to what the identity map remembers, which the model leaves
open where it depends on autoflush.

**PaperFields.**  A `Statement` is a `PaperCandidate` as a connector returns it
(`CorpusProofs` extends this module and `Corpus`, whose `Candidate` is another
view of the same class).  All records are of one work, so that only the order of what is
said about it matters.  `Declined` is the two early returns of `process_record`,
`Merge` the rest: dates sanitised, `ApplyCandidate` field by field, the copies
upserted and the best elected, the record stored and attached.  A text is its
length, a date a day; keywords and language behave as topics and work type.
`SyncRetractions` is an import and its application, `Replay` what
`readmit_orphaned` does with a record kept for it.  `LinkAsPublished` is
`link_preprint_to_published` as it acts on this paper: a record of a preprint that
names one of its DOIs, or `link_publications`, makes it peer reviewed and no
preprint, and nothing but a source takes that back; the edge goes with the preprint
(`LosePreprint`), what it wrote stays.  The record that brings the preprint is
another work's, so that the link is an action of its own.  When another paper is
merged into this one it brings no field: `merge_papers` deletes the loser, its
copies and status with it, and of its identifiers only those of the candidate end
here (`Kept` and `OwnerAfter` of `Corpus`), after which the candidate is applied as
any other.  So a merge of two papers is a `Merge` that attaches identifiers, any of
the candidate's.  `seen`, `everLinked` and `overdue` are
history.

**Harvest.**  A request is a record of query, window, position and whether it
is finished; a cursor is the request it stands for, and `Resumed` reads off it
what each client does: arXiv all of it, OpenAlex the position, bioRxiv the end of
the window, Europe PMC everything if query and mark fit.  `NextCursor` and `More`
are the ends of the four paging loops.  `Fail` is a SourceError (records
committed, cursor kept), `Kill` the end of the process, `Finish` the commit.
A new version of a record counts as a record of its own.  `Younger` is what a
run that only resumes a window may leave to the window after it.  Left out:
`max_records` (the crontab passes none), errors of single records, which the
docs say are skipped, and the lifetime of an arXiv token.

**SourceHttp.**  Each operation of the bucket is one step, as it holds the
bucket's lock; `Perform`, `Answer`, `Transient`, `TooManyRequests` and
`NextAttempt` are the loop of `request()`.  Times are relative and counted in
ticks, which keeps the state finite without a bound on the clock.  A random
jitter is any delay up to the backoff.

**Maintenance.**  `Fetch` is the query of a page, the action named for the pass
its decision and commit; whatever the harvest commits comes in between.  What
sources say of a paper is a version number, a derived column the version it was
computed from.  A record's stored payload is what today's rules say of it: that it
vouches for a paper, is a deposit, or is refused.  It changes when the source sends
another one: the harvest ingests a record again whether or not it is attached, and
an accepted payload replaces the stored one and may lead to another paper, while a
refused or held one leaves what is stored (`Declined`).  `Ingested` is every outcome
of `process_record` that changes the tables, which `Corpus` and `PaperFields`
detail; a work that answers `Enrich` is ingested in the same way, for the paper
asked about, another or a new one.  `touched` is history: what the harvest wrote
while the pass ran, and the papers an answer took a record from.

**Accounts.**  One handler is one request and one transaction.  Its writes are
in `tx` until `Commit`; what it wrote is locked (`Holds*`), and a statement that
meets a lock waits (`WaitsFor`).  A batch takes a step for each statement that
may wait: `InsertEvent` (ON CONFLICT DO NOTHING, with the duplicates and the
event's clock), `Learn`, `Save`.  `AbortDeadlock` is PostgreSQL's choice of a
victim, `Crash` the end of the process with every open transaction.

**Profile, Onboarding, Feed, Preview.**  `Cleaned` and `Errors` are
`draft.validate`, `Build` the builder, `ApplyRefinement` the eight corrections.
`Feed` takes one step per statement (each source, the facts, the projection) and
one per slot of the greedy selection; arithmetic is in thousandths.  Lists are
merged, sorted and filtered by positions: the n-th of a sorted list is the member
with n - 1 before it (`Ordered`), a merged list keeps the place a key first had
(`Firsts`) or the statement that stands for it (`Strongest`, `Avoided`).  A text is a
model value with a canonical form, a slug and a cosine to every paper, given by
the instance.  `Preview` carries the draft from request to request as the client
does.

**Search.**  A request is a position, the resources it holds and the rankings it
has read.  Each statement (`StrictScan`, `RelaxedScan`, `LexicalHits`,
`SemanticScan`, `SemanticHits`, `Fuse`, `Project`, `Rows`, `Total`) reads the
corpus as it is then (read committed).  `Connect` is the checkout that the first
statement of a session does, `Acquire` the gate, `EnterLock` the double-checked
construction of the service; `GateTimeout`, `PoolTimeout` and `Raise` unwind the
`with` blocks and the dependencies.  Reciprocal ranks are exact fractions.  The
vectors and the text search are a query's two orders of papers.

## 4. What the runs check

| Run | States | Shows |
|---|---|---|
| `embedding_queue` | 11 980 | safety of the queue, that it implements `LeaseQueue`, and that every queued job gets a verdict: two processes, two jobs of two profiles, two attempts, kills anywhere |
| `store_serial` | 58 718 | no vector is stranded, no commit makes a paper pending: two papers, three texts, three versions |
| `cycle_edits` | 153 786 | every paper with a text is embedded at last: edits, deletions, kills, exceptions |
| `corpus_ingest` | 219 700 | five consistency properties: two records of six shapes, three papers, four identifiers, pages of up to two records |
| `paper_fields` | 181 254 | six records of one work in every order, repeated, replayed, over two days, with two notices that change and a preprint linked and lost |
| `harvest_pass` | 56 567 | nothing is passed over and everything is ingested at last: bioRxiv and Europe PMC with two queries, Europe PMC with one that lists more than a run reads; three days, two pages a run |
| `source_http` | 60 952 | the rate and the Retry-After with two callers, bursts of two, three attempts |
| `maintenance` | 593 124 | each pass, pages of one row, two papers and two records, of which one comes to vouch, killed anywhere, beside a harvest |
| `enrich_asks_again` | violated | that a paper enrichment asked about is asked about again: a divergence from what the code says of itself (section 7) |
| `accounts` | 48 297 | three batches over three events, two requests at once, removals, merges, deletion, crashes |
| `preview` | 45 113 | six drafts, a feed of four from six papers, anonymous or signed in, two refinements or changes |
| `search` | 71 483 | two handlers, one permit, one connection, three methods, pages of two over four papers, one paper changed meanwhile |

Every property of a run has a mutant, an operator that changes one definition the
way a bug would, and fails with it.  The modules state a type invariant each; a
run lists it where an overflow or a leak could break it (bounds of attempts, of
weights, of scores, of a run's cap) and otherwise leaves it out, although it
holds on the same instance.

**Why the bounds are enough.**

* *Queue, store, cycle.*  Two processes and two jobs show every conflict
  of two transactions over one row, and a second row that stays behind; of two
  attempts one is the first and the other the last, and the safety properties are
  proved for any number.  One embed transaction against three versions
  lets an edit fall before, between and after its reads, and a text come back to
  what it was (three texts).
* *Corpus.*  Three papers and two DOIs are the least with which
  a merge can be followed by a merge of its winner while a third paper keeps its
  distinct DOI; two records are enough because each may be ingested many times
  with any candidate.  A cap of one with pages of up to two lets a run overshoot it
  by a record, and ingest two records before it commits.
* *PaperFields.*  The six candidates contain, for each field, a pair that
  disagrees: two abstracts of one source, a title from a better source with a
  worse abstract, a date that becomes plausible later, a copy whose licence
  arrives later, a deposit, a letter.
* *Harvest.*  A page of one record and a cap of two pages put every
  boundary of the paging loops within the three records of two queries; the
  three records of the single expression are one more than a run reads, so that
  a window is resumed while others are listed after it; three days let a window
  slide past a record by one day.
* *SourceHttp.*  A burst of two is the least with a full and a half-full bucket;
  a Retry-After longer than the refill and one shorter let penalties overlap both
  ways.
* *Maintenance.*  Pages of one row put a commit between any two rows, and two
  rows are a page and the next; two records, of a source scanned and of another, give
  a paper two sources.  One version of what is said is enough, since an old row has
  derived columns of none; one payload that is refused and then vouches shows a
  judgement that is out of date when it is acted on.
* *Accounts.*  Two transactions that write two keys in opposite orders are the
  smallest deadlock; a third event is one that neither saves nor teaches.
* *Preview.*  The papers are two versions of one work, one in the adjacency band,
  one close to a dislike, one without a vector and one plain, against caps of two
  and a feed of four: each cap gives way somewhere.
* *Search.*  One permit and one connection for two requests are the least with
  which each waits for the other.  With a change of one paper there is one that
  vanishes between any two statements; more changes enlarge the state space and
  nothing else, since the properties count the papers lost.

**Deadlock** is checked in every run.

## 5. Fairness

* `EmbedWorker`: cron starts runs again and again (WF of `Start`), time passes
  (WF of `StaleAfter`, `BackoffOver`), and not every run is killed at the same
  statement (SF of the bookkeeping steps, of whichever process).  Nothing is assumed of a
  batch: it may kill its worker each time it executes.  Claims are fair for each
  job because of ORDER BY run_after.
* `EmbedCycle`: infinitely many runs start that meet no fault, at a moment when
  locks have aged (30 minutes) and backoffs are over (an hour at most).  Without
  the second half each clean run could come too early and find nothing to claim.
* `Harvest`: infinitely many of the hourly runs meet no fault, and a run that has
  begun goes on.
* `Accounts`: SF of the next statement of each request.  The threads of the API
  and PostgreSQL go on, and one that waits for a lock gets it when the holder
  ends; nothing is assumed of clients, merges or crashes.
* `Search`: WF of the next step of each request, which includes the end of a wait
  by its timeout; SF of `EnterLock`, since `threading.Lock` wakes a waiter.  No
  request is assumed to succeed: a timeout is an answer.

## 6. What is proved

By TLAPS, for every value of the constants that satisfies the named
assumptions of the modules:

* `EmbeddingProofs`, of the queue: type correctness, overlapping runs included; for
  Exclusive = TRUE the four safety properties and the refinement of
  `LeaseQueue`.  The invariant adds that one run is up (`Alone`), a loaded row is
  of the open transaction (`LoadedIsOpen`) and equal to the table's
  (`LoadedIsCurrent`), what is being reaped was running (`ReapedWasRunning`) and
  a batch is saved before its verdict (`SavedBeforeComplete`).  The refinement
  is proved step by step: every action maps to an action of `LeaseQueue` or a
  stutter.
* `EmbeddingProofs`, of the vectors: type correctness; for Serial = TRUE (one embed
  transaction at a time, the `flock` of the crontab) `NoStrandedVector` and
  `NeverBackToPending`.  The inductive invariant adds to the former that at most
  one transaction is open (`StoreAlone`), versions are bounded by the clock
  (`Bounded`), a text read is the text of the version read
  (`ReadTextIsItsVersions`), the rows found are still the rows
  (`FoundIsCurrent`) and what was embedded is as it was read
  (`EmbeddedIsAsRead`): a stranded vector needs a version paired with the text of
  another one, and only these five exclude it at the moment of the commit.
* `CorpusProofs`, of the run: type correctness, with it that a run overshoots its
  cap by less than a page, and the four properties of `corpus_ingest`
  from `Consistent(db)`, `Consistent(view)` and `db.relation \subseteq
  view.relation`.  `Consistent` adds to the checked properties that identifiers
  belong to papers that exist (`OwnersLive`), that both ends of a link have
  canonical DOIs (`LinksHaveDois`; two papers with DOIs are never merged, which
  is why links survive) and that a record with a paper was admitted (`Admitted`).
  Everything rests on one lemma for each part: folding a candidate into a paper
  that `resolve` chose keeps it.
* `CorpusProofs`, of the row: type correctness and the four properties of
  `paper_fields`, for any candidates, notices, links and days.  The row is stated as a
  function of the set of candidates seen and of whether a preprint was ever linked: its topics are their union, its
  openness their maximum, its day online their minimum, its abstract the best
  (`FieldsInv`); a function of a set has no order.
* `AccountsProofs`: type correctness, `LearnedOnce`, `DeletedLeavesNothing` and the
  action property `SavedByANewEventOnly`, for any handlers, readers, events and
  papers.  The invariant says of each request what its transaction may hold:
  the rows it has written are of its own reader (`WritesAreOwn`) and not yet in
  the tables (`WritesAreNew`), the observations it has counted are those of its
  own events (`CountsOwn`), and no two requests have written the same key
  (`LocksExclude`); that an event is learned from once needs all four, since two
  requests that carry it meet only at the unique key.
* `SearchProofs`: `NothingIsLeaked`, and that nothing is returned twice, for any
  handlers, permits and connections.  The invariant ties each position of a
  request to the resources it holds there (`RequestInv`) and both counters to
  the number of holders.  Then `UnanimousOrder` and `PageIsFull`, for any queries,
  rankings, depths and corpus.  `SearchInv` says of each position what the
  request has so far: hits with increasing ranks, without repetition; a full
  pool of the papers that match and were listed all along, but for those lost
  (`lost`) since; a page that is part of the fused order.  What sorting and
  cutting compute is proved from positions: the n-th of a sorted set is the member
  with n - 1 before it, so that counting replaces induction.  A full page after
  the fusion needs that either component's pool is at least as deep as the page.
* `MaintenanceProofs`: type correctness, `PassIsComplete` and `PruneKeepsVouched`,
  for any tables, page size, pass and harvest, and records whose payloads come to
  say anything at any time.  The invariant says that a pass runs alone, that its page still says what the tables say of every paper that
  the harvest has not written (`PageIsCurrent`), and that nothing is left to do
  behind its place (`NothingLeftBehind`): behind the last key for the passes that
  page on the primary key, behind the count for readmit_orphaned.  A page is the
  stretch that comes next, so that the place moves over what the commit has just
  done and over nothing else.  The passes that ingest fold `process_record` over a
  page: what the fold keeps is proved once (`FoldPrinciple`), by the least number
  of records after which it would not be kept, and what one record may change once
  for the harvest, readmit_orphaned and enrich (`IngestingIsLocal`).
  Completeness
  means that the pass has been through every row: for the columns and the prunes,
  that nothing is left to do; for enrich, that the candidates left were asked about or
  cannot be; for readmit_orphaned it needs that none was readmitted, since the place
  in a set that shrinks says nothing (section 7).
* `HarvestProofs`, of the cursors: `NothingIsPassedOver` for any records, queries, pages and days,
  from two hypotheses.  `InTime`: bioRxiv and Europe PMC only, no source without
  a successful run for more days than `initial_backfill_days`, no run of bioRxiv
  past midnight.  `Fits`: a window lists no more than the pages of a run, except
  that of a single expression of Europe PMC.  Section 7 has the behaviours
  without them.  The first half of the module counts ranks and pages of a listing
  ordered by date, without induction: ranks are an injection into 1 .. n.  The
  second half is the account of a run: what was listed before the last
  successful run is stored or in the window the next one resumes (`Marked`), the
  queries already harvested are read up to the day the run began (`Harvested`),
  what is unread of the current one is ahead of the request (`Reading`) and the
  pages so far were full (`Filled`).  This proof found the property too strong as
  it had been stated: a record listed on the end day of a window that is resumed
  is ahead of no request of the run that resumes it, but of the window after it
  (`Younger`).  The run that checks it was enlarged to contain the case.
* `HarvestProofs`, of the HTTP client: type correctness, `RateHonoured` and the action property
  `RetryAfterHonoured`, for any sources, callers, bursts and spacings.  The
  invariant is an account of tokens (`Accounted`): the i-th last grant, the tokens
  left since and those that refilled in between never add up to more than the
  bucket holds.  The property at i = Burst + 1 is the contract.
* `PreviewProofs`: type correctness, `BlockedIsNeverShown`, `ExplorationIsACeiling`,
  `CapsGiveWayLast` and `AttributionLeadsBack`, for any drafts, readers, papers,
  cosines and limits, while papers change and vanish between the statements.  The
  invariant follows the feed through its steps: the profile is the one of the
  draft that goes back with it, although of the examples only those were usable
  whose vectors existed then (`RequestInv`); the pool names a paper once and leaves
  a slot to each source that is still to come (`PoolInv`); what was loaded is as it
  is now unless it was touched (`CacheInv`); what the filter could not judge has
  left the corpus (`FilterInv`); the ranked items passed the filter, and their keys
  are those of interests of the profile (`RankedInv`); the running maximum says
  exactly whether an item repeats a chosen one (`RedundancyInv`); the explored
  items stay within their share, at half the best score or more (`ChosenInv`).
  That a key leads back needs `RequestInv` and the lemmas on drafts: a key is of
  one interest, and removing it removes no other.  `PoolInv` alone is
  not inductive: it needs that a source that reads a history is planned for a
  reader who has one (`HaveHistory`), which the proof asked for.  The lemmas on
  drafts, pools, features and scores come first; that each feature is a fraction
  is where the arithmetic of `features.py` is proved to stay in its range, the
  divisions included.
* `ListsProofs`: a sorted set, a selection and a prefix as lists, without
  repetition and in order.  They are proved by counting what comes before a
  position, which replaces the induction that a recursive sort would need.

Only model-checked:

* the liveness properties, which are beyond the prover;
* the composition `EmbedCycle`, which has no safety property of its own.

## 7. Observations

What the code, a comment or a document says and the models contradict.  Each
modified configuration is named; put the property into it and TLC prints the
behaviour.

*Queue and vectors*

* Overlapping runs leave a running row without a lock time, which no reaper takes
  (`queue.py:118`, `:132`, `:152`): `RunningIsReapable` alone in
  `MCEmbedWorker.cfg` with SPECIFICATION Spec, Jobs = {j1}, Profiles = {p1}, KeyOf <- OneProfile, Exclusive = FALSE,
  QuickBatches = TRUE, MaxAttempts = 2.
* An overlapping run (started by hand, in a container that does not see the
  lock) can put a job that is being executed back to pending, and a slow embed
  transaction can dismiss a row that holds another text by then.  Both are why
  Exclusive and Serial are assumptions.
* The claim query does not look at the profile: a run of another profile claims a
  batch, refuses it and burns one of its attempts.
* A paper with neither title nor abstract stays pending and is queued again by
  every run; a paper that makes the model raise fails its whole batch, and the
  others wait for a batch cut differently.
* `docs/embeddings.md` still describes the prefilter `updated_at >`, which
  migration 0003 replaced.

*Corpus* (`MCCorpus.cfg` with Titles = {t1, t2, short}, Candidates <- Revisions)

* `canonicalise.py:183` says a merge keeps what the loser was known by; an
  identifier that the identity map had loaded is deleted with it
  (`paper.py:124`, `pipeline.py:97`): `IdentifiersAreKept`, a PROPERTY.
* Two distinct DOIs end on one paper through a record without one
  (`canonicalise.py:63`, `docs/data-model.md:121`): `DistinctDoisStayApart`.
* One record that fails in a flush loses the row of its run, which
  `pipeline.py:269` opens so that failures are seen: `EveryRunIsLogged`.
* `paper_merge.winner_id` cascades: the audit of a merge goes when its winner is
  merged away.

*Harvest* (`MCHarvest.cfg`)

* arXiv's resumption token and OpenAlex's cursor are replayed for the first query
  whichever query minted them (`pipeline.py:295`, `arxiv/client.py:141`,
  `openalex/client.py:145`), although `crontab:38` says that failed runs cost no
  data: `NothingIsPassedOver` with SPECIFICATION Spec, Sources = {"arxiv"} or
  {"openalex"}, MaxPages = 4, Overnight = {}.
* A bioRxiv run that passes midnight between its two servers stores the end of
  the second server's window, and the first server's next window starts there:
  Overnight = {"biorxiv"}.
* All windows but those a cursor opens start `initial_backfill_days` ago; a
  source that fails for longer leaves a gap: Outage = 2.
* A window of bioRxiv, or of one expression of Europe PMC among several, that
  lists more than MAX_PAGES_PER_RUN pages is not resumed (`biorxiv/client.py:78`,
  `europepmc/client.py:155`), and what was not read is passed over: MaxPages = 1.

*Sources*

* `penalise` sets the next refill to the end of the latest Retry-After
  (`ratelimit.py:98`): a second, shorter one moves it back before the end of an
  earlier penalty, although its comment says that a Retry-After is honoured by
  every caller.  `RetryAfterHonoured` speaks of the latest one.

*Fields, passes, feed, search*

* "Merges are idempotent" (`merge.py:75`): a candidate whose abstract wins changes
  the source that decides about the other fields, so that applying it again may
  overwrite what it left alone: `MergesAreIdempotent` in `MCPaperFields.cfg`.
* "The replay walks every orphaned record" (`readmit_orphaned.py:140`) by OFFSET
  over the query its commits shrink (`:68`), which `enrich.py:162` warns of:
  `EveryOrphanIsExamined` in `MCMaintenance.cfg`.
* "A paper that has been asked about carries an OpenAlex source record afterwards,
  whether or not the answer helped, so the next run skips it"
  (`enrich_from_openalex.py:26`; so `enrich.py:32` and `crontab:75`).  A DOI of which
  OpenAlex returns no work leaves no record (`enrich.py:237`), and its paper is asked
  about by every later pass: `AskedPapersAreNotAskedAgain`, the run
  `enrich_asks_again`.  What `PassIsComplete` says of enrich is therefore only that
  every candidate left has been asked about or cannot be.
* "A paper survives while any source still admits it" (`prune_out_of_scope.py`), and
  a record from elsewhere "corroborates the work" (`prune_uncorroborated.py`): both
  judge payloads they read before the harvest may attach another record or replace
  a payload, and delete a paper that a record vouches for by then:
  `PruneKeepsWhatVouchesNow`, a PROPERTY, in `MCMaintenance.cfg`.
* A correction may leave a paper both as an example and as one to avoid, which
  `refine.py:195` says never happens: `CorrectionsDoNotContradict` in `MCPreview.cfg`.
* A key the response calls a "stable identity; send it back"
  (`schemas_profiles.py:168`) may be refused for the negative papers and fields:
  `EveryKeyCanBeSentBack` in `MCPreview.cfg`.
* The pool gives exploration whatever the others left, not "up to its share"
  (`candidates.py:149`; `exploration_slots` is never called):
  `ExplorationSpendsItsShare` in `MCPreview.cfg`.
* "The model path runs behind a counting semaphore" (`concurrency.py:10`): the
  profile builder encodes before the gate and the account feed never takes it:
  `EncodesAreGated` in `MCSearch.cfg`.
* "Paging never repeats or skips a row" (`routers/papers.py:113`): the page and
  its total are two statements, and OFFSET counts rows that may have gone:
  `NoMoreMeansNone` in `MCSearch.cfg`.

*Read in the code, not checked here*

* Deleting the loser of a merge cascades to readers' saved papers and events,
  which `models/account.py` calls append-only.
* A retraction status is lost with a merged-away paper until the next sync.
* `merge.py:135` cannot be reached, since `is_preprint` is not nullable; a full-text
  licence is never replaced when a better copy is elected.
* The recorded `issued` position counts items that the response drops when their
  paper has gone; `author_ids` is always empty, so that a blocked author matches
  nothing; a source gets one slot of the pool even when the budget is spent.
* Two interests whose texts agree in their first 64 characters get one key, and
  the profile refuses them with an exception that becomes a 500.

## 8. Not modelled

* *Normalisers* (`sources/*/normalise.py`): pure parsing of one payload into one
  candidate; the models enumerate the shapes they return.
* *Embedding backends and the vector index*: numerical, without control state; a
  query is given its ranking.
* *Evaluation, benchmarks, demos*: offline measurements over fixed judgements, and
  with them the weighted fusion, `search_all_methods`, the in-memory candidate
  sources and `feedback.simulate`, which nothing else calls.
* *Text and identifier helpers, settings, schemas, logging*: string conversions;
  where one matters (a slug cut short, a canonical form) the instance says what
  it does.
* *Detail, field and health endpoints, middleware, rate limits per client*: single
  read-only statements, or state of external libraries (slowapi).
* *Registration, sign-in and sign-out*: fastapi-users; `Accounts` has the two
  effects the rest depends on.
* *Filters of a search but retraction*: conditions on one row, given as the set of
  papers a query keeps.
* *Two sessions that ingest at the same time* (a harvest beside `enrich`):
  `Corpus` has one writer, `Maintenance` lets them interleave by commits.
* *The web application*: rendering and browser storage; its request hook is on
  the plan.

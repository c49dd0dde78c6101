----------------------------- MODULE Maintenance -----------------------------
(***************************************************************************)
(* The passes an operator runs over the corpus (scripts/ and                *)
(* ingest/enrich.py), beside a harvest that nothing keeps out.               *)
(*                                                                         *)
(* A pass reads a page, decides, and commits what it decided: `read' is what *)
(* it saw, `db' is what is committed by then.  All but readmit_orphaned page *)
(* on the primary key.  Passes run with --apply; a dry run writes nothing.   *)
(*                                                                         *)
(* What the sources say of a paper is a version number, and so is the version *)
(* from which a derived column was computed.  A record is attached to a paper *)
(* (its id), an orphan (None) or not harvested yet (Absent); its stored payload *)
(* is what today's rules say of it: it vouches for a paper, it is a deposit in *)
(* a general repository, or it is refused.                                    *)
(***************************************************************************)
EXTENDS Integers, FiniteSets, FiniteSetsExt

CONSTANTS Papers,        \* ids, in the order of the primary key
          Records,       \* ids, in the order of the primary key
          SourceOf,      \* a record's source_key
          Sends,         \* what a record's payload may come to say
          Legacy,        \* rows that earlier rules may have left
          NoDoi,         \* papers without a DOI
          Unfilterable,  \* papers whose DOI cannot be asked for
          BatchSize,
          MaxVersion,    \* bound on what is said of a paper
          Kinds,         \* the passes run
          Absent, None

ASSUME IdsAreOrdered == Papers \subseteq Nat \ {0} /\ Records \subseteq Nat \ {0} /\ BatchSize \in Nat \ {0}
ASSUME TablesAreFinite == IsFiniteSet(Papers) /\ IsFiniteSet(Records)

Verdicts == {"vouched", "deposit", "refused"}

ASSUME RecordsAreJudged == Sends \in [Records -> SUBSET Verdicts]
ASSUME VersionBound == MaxVersion \in Nat \ {0}
ASSUME PassesAreKnown ==
    Kinds \subseteq {"fields", "titles", "dates", "uncorroborated", "scope", "readmit", "enrich"}

Row == [said : 0 .. MaxVersion,    \* topics and title, as merged; 0 has no topics
        fields : 0 .. MaxVersion,  \* the version paper.fields was derived from
        key : 0 .. MaxVersion,     \* the version title_norm was computed from
        far : BOOLEAN]             \* a date beyond the horizon

ASSUME LegacyRows == Legacy \subseteq Row

Tables == [paper : [Papers -> Row \cup {None, Absent}],
           record : [Records -> Papers \cup {None, Absent}],
           says : [Records -> Verdicts \cup {Absent}]]

Sources == {SourceOf[r] : r \in Records}

ASSUME NoneIsNoValue ==
    /\ None # Absent /\ {None, Absent} \cap (Row \cup Papers) = {} /\ Absent \notin Verdicts
    /\ None \notin Tables

VARIABLES db,
          read,     \* the tables as the pass read its page, None between pages
          job,      \* the pass that runs: its kind, its place, what it counted
          last,     \* the pass that has just ended
          touched   \* history: papers and records the harvest wrote meanwhile, and
                    \* papers that lost a record to an answer

vars == <<db, read, job, last, touched>>

Job == [kind : Kinds, after : {0} \cup Papers, seen : Nat,    \* where its next page begins
        scanned : SUBSET Sources, asked : SUBSET Papers, readmitted : BOOLEAN]

TypeOK ==
    /\ db \in Tables
    /\ read \in Tables \cup {None}
    /\ job \in Job \cup {None}
    /\ last \in Job \cup {None}
    /\ touched \in [papers : SUBSET Papers, records : SUBSET Records]
    /\ \A r \in Records : db.record[r] \in Papers => db.paper[db.record[r]] \in Row
    /\ \A r \in Records : db.says[r] = Absent <=> db.record[r] = Absent

Alive(T) == {p \in Papers : T.paper[p] \in Row}
Orphans(T) == {r \in Records : T.record[r] = None}
RecordsOf(T, p) == {r \in Records : T.record[r] = p}

Nothing == [papers |-> {}, records |-> {}]

Init ==
    /\ db \in [paper : [Papers -> Legacy \cup {Absent}],
               record : [Records -> Papers \cup {None, Absent}], says : [Records -> Verdicts \cup {Absent}]]
    /\ \A r \in Records : db.says[r] \in IF db.record[r] = Absent THEN {Absent} ELSE Sends[r]
    /\ \A r \in Records : db.record[r] \in Papers => db.record[r] \in Alive(db)
    /\ read = None /\ job = None /\ last = None
    /\ touched = Nothing

-----------------------------------------------------------------------------
(***************************************************************************)
(* process_record, of the harvest and of the passes that ingest.            *)
(***************************************************************************)
\* A work that brings no topics founds a paper without a field.
Founded(new) ==
    LET version == IF new THEN 1 ELSE 0
    IN  [said |-> version, fields |-> version, key |-> version, far |-> FALSE]

\* Merging recomputes the fields; a new title recomputes its key.
Merged(row, new) ==
    IF new /\ row.said < MaxVersion
    THEN [said |-> row.said + 1, fields |-> row.said + 1, key |-> row.said + 1, far |-> FALSE]
    ELSE [row EXCEPT !.fields = row.said]

\* r, whose payload now says v, is of the paper p.
Attached(T, r, v, p, new) ==
    [paper  |-> [T.paper EXCEPT ![p] = IF p \in Alive(T) THEN Merged(T.paper[p], new) ELSE Founded(new)],
     record |-> [T.record EXCEPT ![r] = p],
     says   |-> [T.says EXCEPT ![r] = v]]

\* A paper merged into another, or pruned: its records become orphans.
Without(T, gone) ==
    [paper  |-> [p \in Papers |-> IF p \in gone THEN None ELSE T.paper[p]],
     record |-> [r \in Records |-> IF T.record[r] \in gone THEN None ELSE T.record[r]],
     says   |-> T.says]

\* A payload that founds and enriches nothing is kept the first time; one that
\* is stored stays as it was, and where it was.
Declined(T, r, v) ==
    IF T.record[r] # Absent THEN T
    ELSE [T EXCEPT !.record = [T.record EXCEPT ![r] = None], !.says = [T.says EXCEPT ![r] = v]]

\* What ingesting r may make of the tables, when its payload says v: any paper
\* may be the one it describes, a deposit founds none, and identifiers may fold
\* other papers into the one they lead to.
Ingested(T, r, v) ==
    LET homes == CASE v = "vouched" -> {p \in Papers : T.paper[p] # None}
                   [] v = "deposit" -> Alive(T)
                   [] v = "refused" -> {}
        folds == {fold \in homes \X SUBSET Alive(T) :
                     fold[1] \notin fold[2] /\ (fold[2] # {} => fold[1] \in Alive(T))}
    IN  {Without(Attached(T, r, v, fold[1], new), fold[2]) : fold \in folds, new \in BOOLEAN}
        \cup IF v = "vouched" THEN {} ELSE {Declined(T, r, v)}

\* What is stored of p.
Of(T, p) == <<T.paper[p], [r \in RecordsOf(T, p) |-> T.says[r]]>>

\* The papers and the records of which something else is stored.
Written(T, U) ==
    [papers  |-> {p \in Papers : Of(T, p) # Of(U, p)},
     records |-> {r \in Records : <<T.record[r], T.says[r]>> # <<U.record[r], U.says[r]>>}]

\* A run of the harvest commits, with a record that is new or whose payload
\* changed.
Harvest(r) ==
    /\ \E v \in Sends[r] : \E T \in Ingested(db, r, v) :
          /\ T # db
          /\ db' = T
          /\ touched' = IF job = None THEN Nothing ELSE
                        [papers  |-> touched.papers \cup Written(db, T).papers,
                         records |-> touched.records \cup Written(db, T).records]
    /\ last' = None
    /\ UNCHANGED <<read, job>>

-----------------------------------------------------------------------------
(***************************************************************************)
(* Paging.                                                                  *)
(***************************************************************************)
\* Those of S from the given place on, in order, at most n.
Slice(S, from, n) ==
    {x \in S : LET place == Cardinality({y \in S : y < x}) IN from <= place /\ place < from + n}

\* enrich.candidates: a DOI, no field, and no OpenAlex record.
IsCandidate(T, p) ==
    /\ p \in Alive(T) \ NoDoi
    /\ T.paper[p].fields = 0
    /\ \A r \in RecordsOf(T, p) : SourceOf[r] # "openalex"

Selected(T) == IF job.kind = "enrich" THEN {p \in Papers : IsCandidate(T, p)} ELSE Alive(T)

\* Mutant: the page counts its places from the last one's end, as for orphans.
PageByOffset(T) ==
    IF job.kind = "readmit" THEN Slice(Orphans(T), job.seen, BatchSize)
    ELSE Slice(Selected(T), job.after, BatchSize)

\* Keyset, except for the orphans, which are counted off from the first; the
\* scope pass reads everything at once.
Page(T) ==
    CASE job.kind = "readmit" -> Slice(Orphans(T), job.seen, BatchSize)
      [] job.kind = "scope"   -> IF job.seen = 0 THEN Alive(T) ELSE {}
      [] OTHER                -> Slice({p \in Selected(T) : p > job.after}, 0, BatchSize)

Begin(kind, scanned) ==
    /\ job = None
    /\ job' = [kind |-> kind, after |-> 0, seen |-> 0, scanned |-> scanned, asked |-> {},
               readmitted |-> FALSE]
    /\ last' = None
    /\ touched' = Nothing
    /\ UNCHANGED <<db, read>>

Fetch ==
    /\ job # None /\ read = None
    /\ Page(db) # {}
    /\ read' = db
    /\ UNCHANGED <<db, job, last, touched>>

End ==
    /\ job # None /\ read = None
    /\ Page(db) = {}
    /\ last' = [job EXCEPT !.after = 0, !.seen = 0]
    /\ job' = None
    /\ UNCHANGED <<db, read, touched>>

\* The process is killed, or the commit finds a row of its page deleted: the
\* batches before this one stay.
Fail ==
    /\ job # None
    /\ job' = None /\ read' = None
    /\ touched' = Nothing
    /\ UNCHANGED <<db, last>>

Advanced ==
    IF job.kind \in {"readmit", "scope"} THEN [job EXCEPT !.seen = job.seen + Cardinality(Page(read))]
    ELSE [job EXCEPT !.after = Max(Page(read))]

Commit(T) == db' = T /\ read' = None /\ UNCHANGED last

-----------------------------------------------------------------------------
(***************************************************************************)
(* The passes that rewrite a column.  The values written are those computed *)
(* from the page as it was read.                                            *)
(***************************************************************************)
Stale(row) ==
    CASE job.kind = "fields" -> row.fields # row.said
      [] job.kind = "titles" -> row.key # row.said
      [] job.kind = "dates"  -> row.far

Rewritten(row, seen) ==
    CASE job.kind = "fields" -> [row EXCEPT !.fields = seen.said]
      [] job.kind = "titles" -> [row EXCEPT !.key = seen.said]
      [] job.kind = "dates"  -> [row EXCEPT !.far = FALSE]

Rewrite ==
    /\ read # None /\ job.kind \in {"fields", "titles", "dates"}
    /\ LET stale == {p \in Page(read) : Stale(read.paper[p])} IN
       /\ stale \subseteq Alive(db)
       /\ Commit([db EXCEPT !.paper = [p \in Papers |->
                     IF p \in stale THEN Rewritten(db.paper[p], read.paper[p]) ELSE db.paper[p]]])
    /\ job' = Advanced
    /\ UNCHANGED touched

-----------------------------------------------------------------------------
(***************************************************************************)
(* The prunes.                                                              *)
(***************************************************************************)
IsUncorroborated(T, p) ==
    RecordsOf(T, p) # {} /\ \A r \in RecordsOf(T, p) : T.says[r] \in {"deposit", "refused"}

\* The papers are gone, and the records rs, read as theirs, are detached
\* wherever they are by now.
Pruned(gone, rs) ==
    LET rest == Without(db, gone)
    IN  [rest EXCEPT !.record = [r \in Records |-> IF r \in rs THEN None ELSE rest.record[r]]]

PruneUncorroborated ==
    /\ read # None /\ job.kind = "uncorroborated"
    /\ LET removed == {p \in Page(read) : IsUncorroborated(read, p)}
       IN  Commit(Pruned(removed, UNION {RecordsOf(read, p) : p \in removed}))
    /\ job' = Advanced
    /\ UNCHANGED touched

\* Of the records of p read, those of the sources scanned.
ScannedOf(p) == {r \in RecordsOf(read, p) : SourceOf[r] \in job.scanned}

Inadmissible(p) == ScannedOf(p) # {} /\ \A r \in ScannedOf(p) : read.says[r] = "refused"

\* Mutant: the rest of the paper's provenance is not looked at.
NoOtherSource(p) == TRUE

\* Asked when the paper's turn comes, not when the page was read.
OnlyScanned(p) == \A r \in RecordsOf(db, p) : SourceOf[r] \in job.scanned

PruneOutOfScope ==
    /\ read # None /\ job.kind = "scope"
    /\ LET refused == {p \in Alive(read) \cap Alive(db) : Inadmissible(p)}
       IN  Commit(Pruned({p \in refused : OnlyScanned(p)}, UNION {ScannedOf(p) : p \in refused}))
    /\ job' = Advanced
    /\ UNCHANGED touched

-----------------------------------------------------------------------------
(***************************************************************************)
(* readmit_orphaned and enrich, which ingest.                               *)
(***************************************************************************)
\* One record after another, each on the tables the one before left; the payload
\* of r says says[r].
IngestedAll(T, rs, says) ==
    LET after[n \in 0 .. Cardinality(rs)] ==
          IF n = 0 THEN {T}
          ELSE UNION {Ingested(U, r, says[r]) : U \in after[n - 1], r \in Slice(rs, n - 1, 1)}
    IN  after[Cardinality(rs)]

\* What is replayed is the payload as it was read, and no payload is written.
Readmit ==
    /\ read # None /\ job.kind = "readmit"
    /\ \E T \in IngestedAll(db, Page(read), read.says) :
          /\ Commit([T EXCEPT !.says = db.says])
          /\ job' = [Advanced EXCEPT
                !.readmitted = job.readmitted \/ \E r \in Page(read) : T.record[r] # None]
    /\ UNCHANGED touched

\* The works that answer a request for so many papers, but for those stored as
\* they are, which are skipped.
Answers(requested) == {works \in SUBSET {r \in Records : SourceOf[r] = "openalex"} :
                          Cardinality(works) <= Cardinality(requested)}

\* The papers that lost a record between T and U.
Robbed(T, U) == {p \in Papers : ~ RecordsOf(T, p) \subseteq RecordsOf(U, p)}

\* Papers of the page whose DOI goes into the request, each answered or not; a
\* work is ingested as a harvest ingests it, for the paper asked about, another
\* one, or a new one.
Enrich ==
    /\ read # None /\ job.kind = "enrich"
    /\ LET requested == Page(read) \ Unfilterable IN
       /\ \E works \in Answers(requested) : \E says \in [works -> Verdicts] :
             /\ \A r \in works : says[r] \in Sends[r]
             /\ \E T \in IngestedAll(db, works, says) :
                   /\ Commit(T)
                   /\ touched' = [touched EXCEPT !.papers = touched.papers \cup Robbed(db, T)]
       /\ job' = [Advanced EXCEPT !.asked = job.asked \cup requested]

-----------------------------------------------------------------------------
Pass == Fetch \/ Rewrite \/ PruneUncorroborated \/ PruneOutOfScope \/ Readmit \/ Enrich \/ End \/ Fail

Next ==
    \/ \E kind \in Kinds, scanned \in SUBSET Sources :
          scanned # {} /\ (kind # "scope" => scanned = Sources) /\ Begin(kind, scanned)
    \/ Pass
    \/ \E r \in Records : Harvest(r)

Spec == Init /\ [][Next]_vars

-----------------------------------------------------------------------------
\* A pass that has ended left no row it has not been through: what it would
\* find if it ran again at once is, but for what the harvest has written
\* meanwhile, what it dealt with and could not change.  Each page was committed
\* before the next was read, and the passes that ingest take rows out of their
\* own selection.  Of the columns and the prunes that is nothing at all; of
\* enrich, papers it asked about or could not ask about, and papers that lost
\* their OpenAlex record to an answer (see AskedPapersAreNotAskedAgain); of the
\* orphans, which are counted off, it is nothing only when the pass readmitted
\* none (see EveryOrphanIsExamined).
PassIsComplete ==
    last # None =>
        LET left == Alive(db) \ touched.papers IN
        CASE last.kind = "fields" -> \A p \in left : db.paper[p].fields = db.paper[p].said
          [] last.kind = "titles" -> \A p \in left : db.paper[p].key = db.paper[p].said
          [] last.kind = "dates"  -> \A p \in left : ~ db.paper[p].far
          [] last.kind = "uncorroborated" -> \A p \in left : ~ IsUncorroborated(db, p)
          [] last.kind = "scope"  ->
                \A p \in left : \A r \in RecordsOf(db, p) :
                    SourceOf[r] \in last.scanned =>
                        \E x \in RecordsOf(db, p) : SourceOf[x] \in last.scanned /\ db.says[x] # "refused"
          [] last.kind = "enrich" -> \A p \in left : IsCandidate(db, p) => p \in last.asked \cup Unfilterable
          [] last.kind = "readmit" ->
                ~ last.readmitted /\ touched.records = {}
                    => \A r \in Orphans(db) : db.says[r] # "vouched"

Speaks(r) == IF job.kind = "scope" THEN db.says[r] # "refused" ELSE db.says[r] = "vouched"

\* The records of p that the prune judges by their payload.
JudgedOf(T, p) == {r \in RecordsOf(T, p) : job.kind = "scope" => SourceOf[r] \in job.scanned}

\* What the prune judged of p is what is committed by the time it writes.
AsJudged(p) ==
    /\ JudgedOf(db, p) = JudgedOf(read, p)
    /\ \A r \in JudgedOf(read, p) : db.says[r] = read.says[r]

\* prune_out_of_scope and prune_uncorroborated remove no paper that a record
\* speaks for, from whatever source and whenever it was attached, unless a record
\* they judge by its payload was attached to that paper, taken from it or
\* rewritten after the page was read (see PruneKeepsWhatVouchesNow).
PruneKeepsVouched ==
    [][(PruneUncorroborated \/ PruneOutOfScope) =>
        \A p \in Alive(db) :
            AsJudged(p) /\ (\E r \in RecordsOf(db, p) : Speaks(r)) => p \in Alive(db')]_vars

(***************************************************************************)
(* Properties the repository states and the code does not have.             *)
(***************************************************************************)

\* ingest/enrich.py: a DOI OpenAlex has never heard of, and one whose work
\* carries no topics, "are answered by the same exclusion: a paper that already
\* has an OpenAlex SourceRecord has been asked, so it is not asked again".
AskedPapersAreNotAskedAgain ==
    last # None /\ last.kind = "enrich"
        => \A p \in last.asked \ touched.papers : ~ IsCandidate(db, p)

\* prune_out_of_scope: "A paper survives while any source still admits it";
\* prune_uncorroborated: one record from elsewhere "corroborates the work and
\* the paper stays".
PruneKeepsWhatVouchesNow ==
    [][(PruneUncorroborated \/ PruneOutOfScope) =>
        \A p \in Alive(db) : (\E r \in RecordsOf(db, p) : Speaks(r)) => p \in Alive(db')]_vars

\* readmit_orphaned: "The replay walks every orphaned record".
EveryOrphanIsExamined ==
    last # None /\ last.kind = "readmit" /\ touched.records = {}
        => \A r \in Orphans(db) : db.says[r] # "vouched"
=============================================================================

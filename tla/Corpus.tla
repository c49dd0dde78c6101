------------------------------- MODULE Corpus --------------------------------
(***************************************************************************)
(* The canonical corpus and the ingestion run that writes it               *)
(* (ingest/pipeline.py over ingest/canonicalise.py and ingest/relations.py). *)
(*                                                                         *)
(* A run is one database session: it ingests records one after another and  *)
(* commits once, at its end.  `view' is what that session sees, `db' what is *)
(* committed.  Each record is one step, because only one session writes at a *)
(* time (deploy/crontab's harvest lock).                                     *)
(*                                                                         *)
(* A candidate is reduced to what reconciliation looks at: its identifiers, *)
(* a title class (equal titles stand for a title similarity and an author   *)
(* overlap above the thresholds), whether it is a deposit in a general       *)
(* repository, and the published DOI it says it is a preprint of.            *)
(***************************************************************************)
EXTENDS Naturals

CONSTANTS Papers,      \* paper ids; one is never used twice
          Dois,        \* identifiers of type doi
          OtherIds,    \* identifiers of the other types
          Strength,    \* IDENTIFIER_STRENGTH, the larger the stronger
          Records,     \* (source_key, source_id) pairs
          Titles,
          ShortTitle,  \* too short for the fuzzy match ("Errata")
          Candidates,  \* what normalise can return
          Rejected,    \* a payload normalise or the scope policy refuses
          MaxRecords,  \* max_records, the cap of a run
          PageSize,    \* records on a page of a source
          None,
          Gone         \* a paper that was deleted

Ids == Dois \cup OtherIds

Candidate == [ids : SUBSET Ids, title : Titles, deposit : BOOLEAN, published : Dois \cup {None}]

ASSUME IdsAreTyped == Dois \cap OtherIds = {} /\ None \notin Ids
ASSUME DoisAreStrongest ==
    /\ Strength \in [Ids -> Nat]
    /\ \A d \in Dois : \A i \in Ids : Strength[d] >= Strength[i]
    /\ \A d \in Dois : \A i \in OtherIds : Strength[d] > Strength[i]

\* Every connector attaches at least one identifier and at most one DOI.
ASSUME CandidatesAreWellFormed ==
    /\ Candidates \subseteq Candidate
    /\ \A c \in Candidates : c.ids # {}
    /\ \A c \in Candidates : \A d, e \in c.ids \cap Dois : d = e

Paper  == [doi : Dois \cup {None}, title : Titles]
Stored == [payload : Candidates \cup {Rejected}, paper : Papers \cup {None}]

ASSUME ValuesAreDistinct ==
    /\ None \notin Papers \cup Paper \cup Stored \cup Candidates
    /\ Gone \notin Paper \cup {None}
    /\ Rejected \notin Candidates

ASSUME BoundsArePositive == MaxRecords \in Nat \ {0} /\ PageSize \in Nat \ {0}

VARIABLES db,      \* the committed tables
          view,    \* the tables as the open session sees them
          phase,   \* of the run
          page,    \* records left on the page the run is going through
          fetched, \* records_fetched of the run
          logged   \* the last run's IngestionRun row is committed

vars == <<db, view, phase, page, fetched, logged>>

Tables ==
    [paper    : [Papers -> Paper \cup {None, Gone}],     \* paper
     owner    : [Ids -> Papers \cup {None}],             \* paper_identifier
     record   : [Records -> Stored \cup {None}],         \* source_record
     relation : SUBSET (Papers \X Papers)]               \* paper_relation, preprint_of

Empty ==
    [paper    |-> [p \in Papers |-> None],
     owner    |-> [i \in Ids |-> None],
     record   |-> [r \in Records |-> None],
     relation |-> {}]

TypeOK ==
    /\ db \in Tables
    /\ view \in Tables
    /\ phase \in {"idle", "open", "dead", "ended"}
    /\ page \in 0 .. PageSize
    /\ fetched \in Nat
    /\ fetched + page < MaxRecords + PageSize
    /\ logged \in BOOLEAN

Init ==
    /\ db = Empty /\ view = Empty
    /\ phase = "idle" /\ page = 0 /\ fetched = 0 /\ logged = FALSE

-----------------------------------------------------------------------------
(***************************************************************************)
(* Reconciliation of a candidate c against the tables D.                    *)
(***************************************************************************)
Alive(D) == {p \in Papers : D.paper[p] \in Paper}

DoiOf(c) == IF c.ids \cap Dois = {} THEN None ELSE CHOOSE d \in c.ids \cap Dois : TRUE

\* find_by_identifiers.
Matches(D, c) == {p \in Papers : \E i \in c.ids : D.owner[i] = p}

\* _identifier_rank: p is attached to c at least as strongly as q.
AsStrong(D, p, q, c) ==
    \A j \in c.ids : D.owner[j] = q => \E i \in c.ids : D.owner[i] = p /\ Strength[i] >= Strength[j]

Winners(D, c) == {p \in Matches(D, c) : \A q \in Matches(D, c) : AsStrong(D, p, q, c)}

Conflicting(D, p, q) ==
    /\ D.paper[p].doi # None
    /\ D.paper[q].doi # None
    /\ D.paper[p].doi # D.paper[q].doi

\* Mutant: papers with distinct DOIs are merged too.
LosersOfAnyDoi(D, w, c) == Matches(D, c) \ {w}

Losers(D, w, c) == {p \in Matches(D, c) \ {w} : ~ Conflicting(D, w, p)}

\* find_fuzzy.
Similar(D, c) ==
    {p \in Alive(D) : /\ D.paper[p].title = c.title
                      /\ c.title # ShortTitle
                      /\ DoiOf(c) = None \/ D.paper[p].doi \in {None, DoiOf(c)}}

(***************************************************************************)
(* merge_papers points the losers' identifiers at the winner and deletes    *)
(* the losers - whose loaded collections still hold those rows, so that the *)
(* delete cascades to them at the next flush.  Each merge flushes before it *)
(* deletes, so when _sync_identifiers looks at the candidate's identifiers   *)
(* the rows of all losers but the last are gone and are inserted anew.  A   *)
(* row of the last loser is still in the identity map and is skipped, unless *)
(* looking up an earlier identifier of the candidate has flushed: Kept.      *)
(***************************************************************************)
Moved(D, L, c) == {i \in c.ids : D.owner[i] \in L}

LastMerged(D, L, c) == {p \in L : \A q \in L : AsStrong(D, q, p, c)}

Kept(D, L, c) ==
    {K \in SUBSET Moved(D, L, c) :
        L = {} \/ \E last \in LastMerged(D, L, c) : Moved(D, L \ {last}, c) \subseteq K}

\* UNIQUE (canonical_doi).  The winner takes a loser's DOI while the loser's
\* row still holds it.
Clash(D, w, c, L) ==
    /\ w \in Alive(D) => D.paper[w].doi = None
    /\ \/ \E p \in L : D.paper[p].doi # None
       \/ \E p \in Alive(D) \ {w} : D.paper[p].doi # None /\ D.paper[p].doi = DoiOf(c)

\* link_preprint_to_published, both looked up by DOI.
Links(owner, d, e) ==
    IF d = None \/ e = None THEN {}
    ELSE {l \in Papers \X Papers : l = <<owner[d], owner[e]>> /\ l[1] # l[2]}

\* Mutant: _sync_identifiers takes an identifier another paper owns.
OwnerByForce(D, w, c, L, K) ==
    [i \in Ids |-> IF i \in c.ids THEN w ELSE IF D.owner[i] \in L THEN None ELSE D.owner[i]]

OwnerAfter(D, w, c, L, K) ==
    [i \in Ids |-> IF i \in K \/ (i \in c.ids /\ D.owner[i] = None) THEN w
                   ELSE IF D.owner[i] \in L THEN None
                   ELSE D.owner[i]]

RecordsAfter(D, r, w, c, L) ==
    [q \in Records |->
        IF q = r THEN [payload |-> c, paper |-> w]
        ELSE IF D.record[q] # None /\ D.record[q].paper \in L
             THEN [payload |-> D.record[q].payload, paper |-> None]
        ELSE D.record[q]]

\* Mutant: the losers stay.
FoldedUndeleted(D, r, c, w, row, L, K) ==
    LET owner == OwnerAfter(D, w, c, L, K) IN
    [paper    |-> [D.paper EXCEPT ![w] = row],
     owner    |-> owner,
     record   |-> RecordsAfter(D, r, w, c, L),
     relation |-> D.relation \cup Links(owner, DoiOf(c), c.published)]

\* The tables once record r is folded into paper w, whose row becomes `row',
\* and the papers L into w.  Deleting a loser cascades to its relations.
Folded(D, r, c, w, row, L, K) ==
    LET owner == OwnerAfter(D, w, c, L, K) IN
    [paper    |-> [p \in Papers |-> IF p = w THEN row ELSE IF p \in L THEN Gone ELSE D.paper[p]],
     owner    |-> owner,
     record   |-> RecordsAfter(D, r, w, c, L),
     relation |-> {l \in D.relation : l[1] \notin L /\ l[2] \notin L}
                    \cup Links(owner, DoiOf(c), c.published)]

\* Mutant: the DOI a candidate brings is not made canonical.
UpdatedLate(D, w, c, title) == [doi |-> D.paper[w].doi, title |-> title]

\* _sync_identifiers and apply_candidate on the row of w: which title stays is
\* a matter of source precedence.
Updated(D, w, c, title) ==
    [doi |-> IF D.paper[w].doi # None THEN D.paper[w].doi ELSE DoiOf(c), title |-> title]

-----------------------------------------------------------------------------
(***************************************************************************)
(* process_record.                                                          *)
(***************************************************************************)
\* Mutant: the cap is exceeded by one page more.
FetchPageAtTheCap ==
    /\ phase = "open"
    /\ page = 0
    /\ fetched <= MaxRecords
    /\ page' \in 1 .. PageSize
    /\ UNCHANGED <<db, view, phase, fetched, logged>>

\* The cap is looked at between two pages only: a run goes on to the end of the
\* page on which it reaches it.
FetchPage ==
    /\ phase = "open"
    /\ page = 0
    /\ fetched < MaxRecords
    /\ page' \in 1 .. PageSize
    /\ UNCHANGED <<db, view, phase, fetched, logged>>

Counted == page' = page - 1 /\ fetched' = fetched + 1

\* A record that changes nothing: its payload is that of its last fetch, its
\* connector cannot normalise it, or it is declined and there is a row of it.
Skip ==
    /\ phase = "open"
    /\ page > 0
    /\ Counted
    /\ UNCHANGED <<db, view, phase, logged>>

\* A payload that has not changed is skipped, except by readmit_orphaned, which
\* replays the records that have no paper.
Due(r, y) ==
    /\ phase = "open"
    /\ page > 0
    /\ ~ (view.record[r] # None /\ view.record[r].payload = y /\ view.record[r].paper # None)

Store(r, y) ==
    /\ view.record[r] = None
    /\ view' = [view EXCEPT !.record[r] = [payload |-> y, paper |-> None]]
    /\ Counted
    /\ UNCHANGED <<db, phase, logged>>

\* Out of scope.
Reject(r) == Due(r, Rejected) /\ Store(r, Rejected)

Unknown(c) == Matches(view, c) = {} /\ Similar(view, c) = {}

\* A deposit nothing corroborates does not found a paper.
Hold(r, c) == Due(r, c) /\ Unknown(c) /\ c.deposit /\ Store(r, c)

Create(r, c) ==
    /\ Due(r, c)
    /\ Unknown(c)
    /\ ~ c.deposit
    /\ \E p \in Papers :
          /\ view.paper[p] = None
          /\ ~ Clash(view, p, c, {})
          /\ view' = Folded(view, r, c, p, [doi |-> DoiOf(c), title |-> c.title], {}, {})
    /\ Counted
    /\ UNCHANGED <<db, phase, logged>>

Fold(r, c, w, L) ==
    /\ ~ Clash(view, w, c, L)
    /\ \E title \in {view.paper[w].title, c.title}, K \in Kept(view, L, c) :
          view' = Folded(view, r, c, w, Updated(view, w, c, title), L, K)
    /\ Counted
    /\ UNCHANGED <<db, phase, logged>>

MatchFuzzily(r, c) ==
    /\ Due(r, c)
    /\ Matches(view, c) = {}
    /\ \E w \in Similar(view, c) : Fold(r, c, w, {})

MatchExactly(r, c) ==
    /\ Due(r, c)
    /\ \E w \in Winners(view, c) : Fold(r, c, w, Losers(view, w, c))

\* The flush fails.  The session rolls everything back and refuses every later
\* statement, the run's own last ones included.
Choke(r, c) ==
    /\ Due(r, c)
    /\ \/ \E w \in Winners(view, c) : Clash(view, w, c, Losers(view, w, c))
       \/ Matches(view, c) = {} /\ \E w \in Similar(view, c) : Clash(view, w, c, {})
    /\ view' = db
    /\ phase' = "dead"
    /\ UNCHANGED <<db, page, fetched, logged>>

-----------------------------------------------------------------------------
(***************************************************************************)
(* The run.                                                                 *)
(***************************************************************************)
Begin ==
    /\ phase \in {"idle", "ended"}
    /\ phase' = "open"
    /\ logged' = FALSE
    /\ UNCHANGED <<db, view, page, fetched>>

\* The source is exhausted, the cap is reached or the source failed on its next
\* page: whatever was ingested is committed with the run's row.
Finish ==
    /\ phase = "open"
    /\ page = 0
    /\ db' = view
    /\ phase' = "ended"
    /\ logged' = TRUE
    /\ page' = 0 /\ fetched' = 0
    /\ UNCHANGED view

\* The run of a dead session: the remaining records are errors, and the commit
\* raises.
FinishDead ==
    /\ phase = "dead"
    /\ phase' = "ended"
    /\ page' = 0 /\ fetched' = 0
    /\ UNCHANGED <<db, view, logged>>

Kill ==
    /\ phase \in {"open", "dead"}
    /\ view' = db
    /\ phase' = "idle"
    /\ page' = 0 /\ fetched' = 0
    /\ UNCHANGED <<db, logged>>

\* The link-publications worker, in a session of its own.
LinkPublication(d, e) ==
    /\ phase \in {"idle", "ended"}
    /\ db' = [db EXCEPT !.relation = db.relation \cup Links(db.owner, d, e)]
    /\ view' = db'
    /\ UNCHANGED <<phase, page, fetched, logged>>

-----------------------------------------------------------------------------
Process(r, c) ==
    Hold(r, c) \/ Create(r, c) \/ MatchFuzzily(r, c) \/ MatchExactly(r, c) \/ Choke(r, c)

Next ==
    \/ \E r \in Records : Reject(r) \/ \E c \in Candidates : Process(r, c)
    \/ Begin \/ FetchPage \/ Skip \/ Finish \/ FinishDead \/ Kill
    \/ \E d, e \in Dois : LinkPublication(d, e)

Spec == Init /\ [][Next]_vars

-----------------------------------------------------------------------------
(***************************************************************************)
(* Properties that hold.                                                    *)
(***************************************************************************)

\* paper.canonical_doi and the identifier table agree: a paper's canonical DOI
\* is an identifier of that paper, and whoever owns a DOI has a canonical one.
\* find_by_doi and find_by_identifiers read the one, conflicting, find_fuzzy
\* and ingest/enrich.py the other.
DoisAgree(D) ==
    /\ \A p \in Alive(D) : D.paper[p].doi # None => D.owner[D.paper[p].doi] = p
    /\ \A d \in Dois : \A p \in Alive(D) : D.owner[d] = p => D.paper[p].doi # None

CanonicalDoisAgree == DoisAgree(db) /\ DoisAgree(view)

\* Every paper keeps an identifier, whatever merges it goes through: one without
\* could not be found again, and each later record of it would found a twin.
Findable(D) == \A p \in Alive(D) : \E i \in Ids : D.owner[i] = p

EveryPaperIsFindable == Findable(db) /\ Findable(view)

\* A stored record that still points at a paper shares an identifier with it, so
\* that replaying it resolves to that paper and not to a new one.
LedBack(D) ==
    \A r \in Records :
        D.record[r] # None /\ D.record[r].paper # None
            => /\ D.record[r].paper \in Alive(D)
               /\ \E i \in D.record[r].payload.ids : D.owner[i] = D.record[r].paper

RecordsLeadBack == LedBack(db) /\ LedBack(view)

\* A preprint and its published version, once linked, stay linked: neither is
\* ever merged away, which would take the relation with it.
LinksAreKept == [][db.relation \subseteq db'.relation]_vars

(***************************************************************************)
(* Properties the repository states and the code does not have.             *)
(***************************************************************************)

\* canonicalise.merge_papers: "Move the loser's identifiers onto the winner".
IdentifiersAreKept == [][\A i \in Ids : db.owner[i] # None => db'.owner[i] # None]_vars

\* docs/data-model.md: "Two distinct DOIs mean two distinct records, always."
DistinctDoisStayApart ==
    \A d, e \in Dois : db.owner[d] # None /\ db.owner[d] = db.owner[e] => d = e

\* IngestPipeline.run: "Always writes an IngestionRun row."
EveryRunIsLogged == phase = "ended" => logged
=============================================================================

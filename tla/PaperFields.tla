----------------------------- MODULE PaperFields -----------------------------
(***************************************************************************)
(* One paper and everything that several sources say about it: admission    *)
(* (ingest/scope.py, dates.py, repositories.py), the precedence of fields    *)
(* (ingest/merge.py), open-access copies (ingest/oa.py), the preprints that   *)
(* name it as their published version (ingest/relations.py) and retraction    *)
(* notices (ingest/retractions.py).                                          *)
(*                                                                         *)
(* Every candidate enumerated is a record of this one work; Corpus is the     *)
(* module about telling works apart, which papers are merged included.  A     *)
(* source has one stored record of it, whose payload may change.  A text is   *)
(* reduced to its length or to a name, a date to a day, and keywords and      *)
(* language behave as topics and work type.                                  *)
(***************************************************************************)
EXTENDS Integers, FiniteSets, FiniteSetsExt

CONSTANTS Statements,  \* what the connectors can say of the work
          Preprints,   \* other papers, which may be preprints of this one
          WorkDois,    \* the work's identifiers of type doi
          FieldOf,     \* taxonomy: a topic's subject field, or Null
          Notices,     \* Retraction Watch record ids, with the id each names
          Natures,     \* of a notice; an unknown one is read as a concern
          Horizon,     \* FUTURE_HORIZON_DAYS
          LastDay,     \* bound: the clock stops there
          Null

AbstractPriority == [pubmed |-> 50, europepmc |-> 40, openalex |-> 30, biorxiv |-> 20, arxiv |-> 10]
TitlePriority    == [openalex |-> 30, pubmed |-> 25, europepmc |-> 22, biorxiv |-> 20, arxiv |-> 10]
OaRank == [unknown |-> 0, closed |-> 1, bronze |-> 2, green |-> 3, hybrid |-> 4, gold |-> 5, diamond |-> 6]

Sources == DOMAIN AbstractPriority
CitationSources == {"openalex"}

DiscoveryTypes == {"article", "review", "preprint", "conference-paper", "dissertation", "report"}
TertiaryTypes  == {"book", "book-chapter", "reference-entry"}
NonSubstantiveTypes ==
    {"abstract", "editorial", "letter", "comment", "book-review", "correction", "retraction-notice",
     "peer-review", "dataset", "grant", "paratext"}

SelfVouchingSources == {"arxiv", "biorxiv", "europepmc", "pubmed"}
VouchingVenueTypes  == {"journal", "conference", "book series", "ebook platform"}

VersionRank(v) == CASE v = "publishedVersion" -> 3 [] v = "acceptedVersion" -> 2
                    [] v = "submittedVersion" -> 1 [] OTHER -> 0
HostRank(h)    == CASE h = "publisher" -> 3 [] h = "repository" -> 2 [] h = "preprint" -> 1 [] OTHER -> 0
LicenceRank(l) == CASE l = "cc0" -> 4 [] l = "cc-by" -> 3 [] l = "cc-by-sa" -> 2
                    [] l = "cc-by-nc" -> 1 [] OTHER -> 0

\* SEVERITY and NATURE_TO_STATUS.
StatusOf(nature) == CASE nature = "retraction"    -> "retracted"
                      [] nature = "correction"    -> "corrected"
                      [] nature = "reinstatement" -> "none"
                      [] OTHER                    -> "concern"
Severity == [none |-> 0, corrected |-> 1, concern |-> 2, retracted |-> 3]

FieldsFor(topics) == {FieldOf[t] : t \in topics} \ {Null}

\* What the connectors say in a field.
Values(f) == {c[f] : c \in Statements}

Topics   == DOMAIN FieldOf
WorkIds  == {n.names : n \in Notices} \cup UNION Values("ids")
Copies   == UNION Values("copies")
Urls     == {l.url : l \in Copies}
Licences == {l.licence : l \in Copies}

\* A copy is a url, what is published there, and under which licence.
Location ==
    [url : Urls, version : {l.version : l \in Copies}, host : {l.host : l \in Copies},
     licence : Licences]

\* The length of an abstract is 0 where there is none.
Statement ==
    [source : Sources, title : Values("title"), abstract : Nat, authors : Values("authors"),
     published : Nat \cup {Null}, online : Nat \cup {Null},
     preprint : BOOLEAN, peer : BOOLEAN, repositoryDoi : BOOLEAN,
     workType : Values("workType"), venue : Values("venue"), topics : SUBSET Topics,
     citations : Values("citations"), oa : DOMAIN OaRank, copies : SUBSET Location,
     ids : SUBSET WorkIds]

ASSUME DaysAreNatural == Horizon \in Nat /\ LastDay \in Nat
ASSUME StatementsAreWellFormed ==
    /\ Statements \subseteq Statement
    /\ \A c \in Statements : c.venue = Null \/ c.venue.general \in BOOLEAN
ASSUME NullIsNoValue == Null \notin Nat /\ Null \notin Sources

VARIABLES paper,      \* the paper's row, Null until a record founds it
          record,     \* source_record by source: its payload and whether it is attached
          seen,       \* history: the candidates folded into the paper, dates sanitised
          linked,     \* paper_relation: the preprints with an edge to the paper
          everLinked, \* history: there has been such an edge
          notice,     \* retraction_record: the nature last imported
          overdue,    \* history: the paper gained an identifier since the last sync
          today

rowVars == <<paper, record, seen, linked, everLinked, notice, overdue, today>>

Row ==
    [title : Values("title"), abstract : Nat, abstractSource : Sources \cup {Null},
     authors : Values("authors") \cup {Null}, published : Nat \cup {Null}, online : Nat \cup {Null},
     preprint : BOOLEAN, peer : BOOLEAN, workType : Values("workType") \cup {Null},
     venue : Values("venue") \cup {Null}, topics : SUBSET Topics, fields : SUBSET FieldsFor(Topics),
     citations : Values("citations") \cup {Null}, oa : DOMAIN OaRank,
     fulltext : {"none", "linked", "abstract_only"}, copies : SUBSET Location,
     best : Urls \cup {Null}, licence : Licences \cup {Null}, ids : SUBSET WorkIds,
     retraction : DOMAIN Severity]

ASSUME NullIsNoRow == Null \notin Row

RowTypeOK ==
    /\ paper = Null \/ paper \in Row
    /\ record \in [Sources -> {Null} \cup [payload : Statements, attached : BOOLEAN]]
    /\ linked \in SUBSET Preprints
    /\ everLinked \in BOOLEAN
    /\ seen # {} \/ everLinked => paper # Null
    /\ notice \in [Notices -> Natures \cup {Null}]
    /\ overdue \in BOOLEAN
    /\ today \in 0 .. LastDay

RowInit ==
    /\ paper = Null
    /\ record = [s \in Sources |-> Null]
    /\ seen = {}
    /\ linked = {}
    /\ everLinked = FALSE
    /\ notice = [n \in Notices |-> Null]
    /\ overdue = FALSE
    /\ today = 0

-----------------------------------------------------------------------------
(***************************************************************************)
(* Admission.                                                               *)
(***************************************************************************)
Classify(type) == CASE type \in TertiaryTypes -> "tertiary"
                    [] type \in NonSubstantiveTypes -> "non_substantive"
                    [] OTHER -> "admit"    \* Null and whatever is not recognised

IsDiscoveryEligible(c) == Classify(c.workType) = "admit"

IsPlausible(date) == date = Null \/ date <= today + Horizon

\* Mutant: the online date is believed.
SanitisedPublished(c) == [c EXCEPT !.published = IF IsPlausible(c.published) THEN c.published ELSE Null]

Sanitised(c) ==
    [c EXCEPT !.published = IF IsPlausible(c.published) THEN c.published ELSE Null,
              !.online    = IF IsPlausible(c.online) THEN c.online ELSE Null]

\* The source vouches, then the venue; the prefix of the DOI speaks last.
IsGeneralRepository(c) ==
    /\ c.source \notin SelfVouchingSources
    /\ c.venue = Null \/ c.venue.kind \notin VouchingVenueTypes
    /\ c.repositoryDoi \/ (c.venue # Null /\ c.venue.general)

-----------------------------------------------------------------------------
(***************************************************************************)
(* Precedence.                                                              *)
(***************************************************************************)
Rank(priority, source) == IF source = Null THEN 0 ELSE priority[source]

Earliest(d, e) == IF d = Null THEN e ELSE IF e = Null THEN d ELSE IF d <= e THEN d ELSE e

FirstOf(x, y) == IF x # Null THEN x ELSE y

Better(oa, new) == IF OaRank[new] > OaRank[oa] THEN new ELSE oa

\* Mutant: within a tie the text that came last stays.
AbstractTakesLast(p, c) ==
    /\ c.abstract > 0
    /\ \/ p.abstract = 0
       \/ Rank(AbstractPriority, c.source) >= Rank(AbstractPriority, p.abstractSource)

\* The better source, and the longer text of one source.
AbstractTakes(p, c) ==
    /\ c.abstract > 0
    /\ \/ p.abstract = 0
       \/ Rank(AbstractPriority, c.source) > Rank(AbstractPriority, p.abstractSource)
       \/ /\ Rank(AbstractPriority, c.source) = Rank(AbstractPriority, p.abstractSource)
          /\ c.abstract > p.abstract

NewPaper(c) ==
    [title |-> c.title, abstract |-> 0, abstractSource |-> Null, authors |-> Null,
     published |-> Null, online |-> Null, preprint |-> c.preprint, peer |-> c.peer,
     workType |-> Null, venue |-> Null, topics |-> {}, fields |-> {}, citations |-> Null,
     oa |-> "unknown", fulltext |-> "none", copies |-> {}, best |-> Null, licence |-> Null,
     ids |-> {}, retraction |-> "none"]

\* apply_candidate.  What may overwrite a title, authors or a date is decided by
\* the source of the abstract the paper has.
ApplyCandidate(p, c) ==
    LET outranks == Rank(TitlePriority, c.source) > Rank(TitlePriority, p.abstractSource)
        equals   == Rank(TitlePriority, c.source) >= Rank(TitlePriority, p.abstractSource)
        takes    == AbstractTakes(p, c)
        peer     == p.peer \/ c.peer
        topics   == p.topics \cup c.topics
        abstract == IF takes THEN c.abstract ELSE p.abstract
    IN  [p EXCEPT
            !.title          = IF outranks THEN c.title ELSE p.title,
            !.abstract       = abstract,
            !.abstractSource = IF takes THEN c.source ELSE p.abstractSource,
            !.authors        = IF c.authors # Null /\ (p.authors = Null \/ equals) THEN c.authors
                               ELSE p.authors,
            !.published      = IF c.published # Null /\ (p.published = Null \/ equals) THEN c.published
                               ELSE p.published,
            !.online         = Earliest(p.online, c.online),
            !.peer           = peer,
            !.preprint       = p.preprint /\ (c.preprint \/ ~ peer),
            !.workType       = FirstOf(p.workType, c.workType),
            !.topics         = topics,
            !.fields         = FieldsFor(topics),
            !.citations      = IF c.source \in CitationSources /\ c.citations # Null THEN c.citations
                               ELSE p.citations,
            !.oa             = Better(p.oa, c.oa),
            !.fulltext       = IF p.fulltext # "none" THEN p.fulltext
                               ELSE IF c.copies # {} THEN "linked"
                               ELSE IF abstract > 0 THEN "abstract_only" ELSE "none"]

\* The upsert of apply_locations: only a missing licence is filled in.
CopiesWith(p, c) ==
    {[k EXCEPT !.licence = IF \E l \in c.copies : k.licence = Null /\ l.url = k.url
                           THEN (CHOOSE l \in c.copies : l.url = k.url).licence ELSE k.licence]
        : k \in p.copies}
    \cup {l \in c.copies : \A k \in p.copies : k.url # l.url}

\* location_score, whose three ranks are compared one after the other.
LocationScore(l) == 25 * VersionRank(l.version) + 5 * HostRank(l.host) + LicenceRank(l.licence)

BestOf(copies) == {l \in copies : \A k \in copies : LocationScore(k) <= LocationScore(l)}

\* apply_locations and elect_best; which of two equal copies comes first is the
\* order of the rows.
WithCopies(p, c) ==
    IF c.copies = {} THEN {p}
    ELSE LET copies == CopiesWith(p, c)
         IN  {[p EXCEPT !.copies = copies, !.best = l.url, !.licence = FirstOf(p.licence, l.licence)]
                : l \in BestOf(copies)}

-----------------------------------------------------------------------------
(***************************************************************************)
(* process_record.                                                          *)
(***************************************************************************)
Put(c, attached) == record' = [record EXCEPT ![c.source] = [payload |-> c, attached |-> attached]]

\* A record declined is kept for a replay, unless the source's record already
\* holds another payload.
Decline(c) ==
    /\ IF record[c.source] = Null THEN Put(c, FALSE) ELSE UNCHANGED record
    /\ UNCHANGED <<paper, seen, overdue>>

\* Mutant: a deposit may found a paper.
DeclinedOutOfScope(c) == ~ IsDiscoveryEligible(c)

Declined(c) == ~ IsDiscoveryEligible(c) \/ (paper = Null /\ IsGeneralRepository(c))

\* Of the candidate's identifiers the paper takes those that no other paper owns.
Merge(c) ==
    LET said == Sanitised(c)
        old  == IF paper = Null THEN NewPaper(said) ELSE paper
    IN  \E attached \in SUBSET said.ids :
            LET row == ApplyCandidate([old EXCEPT !.ids = old.ids \cup attached,
                                                  !.venue = FirstOf(old.venue, said.venue)], said)
            IN  /\ paper' \in WithCopies(row, said)
                /\ Put(c, TRUE)
                /\ seen' = seen \cup {said}
                /\ overdue' = (overdue \/ old.ids # row.ids)

ProcessRecord(c) == IF Declined(c) THEN Decline(c) ELSE Merge(c)

\* A payload that is new to its source's record.
Harvest(c) ==
    /\ ~ (record[c.source] # Null /\ record[c.source].payload = c)
    /\ ProcessRecord(c)
    /\ UNCHANGED <<linked, everLinked, notice, today>>

\* readmit_orphaned: force=True on a record without a paper.
Replay(c) ==
    /\ record[c.source] = [payload |-> c, attached |-> FALSE]
    /\ ProcessRecord(c)
    /\ UNCHANGED <<linked, everLinked, notice, today>>

-----------------------------------------------------------------------------
(***************************************************************************)
(* link_preprint_to_published, called for a record of a preprint that names a *)
(* DOI of this paper as its published version, and by link_publications.     *)
(***************************************************************************)
\* Mutant: the published version stays what it was.
LinkOnly(x) ==
    /\ paper # Null
    /\ paper.ids \cap WorkDois # {}
    /\ x \notin linked
    /\ linked' = linked \cup {x}
    /\ everLinked' = TRUE
    /\ UNCHANGED <<paper, record, seen, notice, overdue, today>>

LinkAsPublished(x) ==
    /\ paper # Null
    /\ paper.ids \cap WorkDois # {}
    /\ x \notin linked
    /\ linked' = linked \cup {x}
    /\ everLinked' = TRUE
    /\ paper' = [paper EXCEPT !.peer = TRUE, !.preprint = FALSE]
    /\ UNCHANGED <<record, seen, notice, overdue, today>>

\* The preprint is deleted by a maintenance script, and its edges with it.
LosePreprint(x) ==
    /\ x \in linked
    /\ linked' = linked \ {x}
    /\ UNCHANGED <<paper, record, seen, everLinked, notice, overdue, today>>

-----------------------------------------------------------------------------
(***************************************************************************)
(* sync_retractions: import_notices, then apply_to_papers.                  *)
(***************************************************************************)
\* Statuses of the notices that name an identifier of the paper.
Noticed(p, natures) ==
    {StatusOf(natures[n]) : n \in {m \in Notices : natures[m] # Null /\ m.names \in p.ids}}

Severest(statuses) == CHOOSE s \in statuses : \A r \in statuses : Severity[r] <= Severity[s]

\* Mutant: the status only ever gets worse.
StatusKeptAtWorst(p, natures) ==
    IF Noticed(p, natures) = {} THEN p.retraction
    ELSE Severest(Noticed(p, natures) \cup {p.retraction})

StatusAfter(p, natures) ==
    IF Noticed(p, natures) = {} THEN p.retraction ELSE Severest(Noticed(p, natures))

SyncRetractions(n, nature) ==
    /\ notice' = [notice EXCEPT ![n] = nature]
    /\ paper' = IF paper = Null THEN Null ELSE [paper EXCEPT !.retraction = StatusAfter(paper, notice')]
    /\ overdue' = FALSE
    /\ UNCHANGED <<record, seen, linked, everLinked, today>>

Tick ==
    /\ today < LastDay
    /\ today' = today + 1
    /\ UNCHANGED <<paper, record, seen, linked, everLinked, notice, overdue>>

RowNext ==
    \/ \E c \in Statements : Harvest(c) \/ Replay(c)
    \/ \E x \in Preprints : LinkAsPublished(x) \/ LosePreprint(x)
    \/ \E n \in Notices, nature \in Natures : SyncRetractions(n, nature)
    \/ Tick

RowSpec == RowInit /\ [][RowNext]_rowVars

-----------------------------------------------------------------------------
\* What merge.py means by fields that do not depend on who spoke first: the row
\* holds the union of the topics, the earliest believable day online, the most
\* open status, subject fields that follow from the topics, and whether any
\* source reported peer review or any preprint was ever linked to it, whatever
\* the order, the repetitions and the clock were.
OrderDoesNotMatter ==
    paper # Null =>
        /\ paper.topics = UNION {c.topics : c \in seen}
        /\ paper.fields = FieldsFor(UNION {c.topics : c \in seen})
        /\ paper.peer <=> everLinked \/ \E c \in seen : c.peer
        /\ \A c \in seen : OaRank[c.oa] <= OaRank[paper.oa]
        /\ paper.oa \in {"unknown"} \cup {c.oa : c \in seen}
        /\ \A c \in seen : c.online # Null => paper.online # Null /\ paper.online <= c.online
        /\ paper.online # Null => paper.online \in {c.online : c \in seen}
        /\ paper.online # Null => paper.online <= today + Horizon

\* The abstract comes from the best source that has sent one, and is the longest
\* that source has sent, although neither is stored anywhere.
AbstractIsTheBest ==
    paper # Null =>
        \A c \in seen : c.abstract > 0 =>
            /\ paper.abstractSource # Null
            /\ Rank(AbstractPriority, c.source) <= Rank(AbstractPriority, paper.abstractSource)
            /\ c.source = paper.abstractSource => c.abstract <= paper.abstract

\* repositories.py: a deposit "may not found a new paper on its own".  Every
\* paper has been described by a source or a venue that vouches for it, and by
\* nothing out of scope.
PaperIsCorroborated ==
    paper # Null => /\ \E c \in seen : ~ IsGeneralRepository(c)
                    /\ \A c \in seen : IsDiscoveryEligible(c)

\* merge.py: "it is a preprint only while no source has reported a
\* peer-reviewed version".  Nor is it one once a preprint was linked to it, even
\* when the preprint is gone and a source calls the paper a preprint again.
PreprintUntilPublished ==
    paper # Null /\ paper.preprint => ~ everLinked /\ ~ \E c \in seen : c.peer /\ ~ c.preprint

\* oa.py: the elected copy is the best of all copies, although a licence may
\* have been filled in since another one was elected.
BestCopyIsElected ==
    paper # Null /\ paper.copies # {} => \E l \in BestOf(paper.copies) : l.url = paper.best

\* retractions.py: a paper's status is the severest of the notices that name it,
\* "never by whichever row was processed last", and no later merge hides it.
StatusIsSeverest ==
    paper # Null /\ ~ overdue /\ Noticed(paper, notice) # {} =>
        paper.retraction = Severest(Noticed(paper, notice))

RowIsConsistent == PreprintUntilPublished /\ BestCopyIsElected /\ PaperIsCorroborated

(***************************************************************************)
(* A property the repository states and the code does not have.             *)
(***************************************************************************)

\* merge.apply_candidate: "merges are idempotent".  A candidate whose abstract
\* wins changes the source that decides about the other fields, so that the same
\* candidate applied again may overwrite what it left alone.
MergesAreIdempotent ==
    paper # Null => \A c \in Statements :
        LET once == ApplyCandidate(paper, Sanitised(c)) IN ApplyCandidate(once, Sanitised(c)) = once
=============================================================================

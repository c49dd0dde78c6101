---------------------------- MODULE MCPaperFields ----------------------------
(***************************************************************************)
(* Six records of one work: a preprint and its later version, a repository *)
(* deposit, an aggregator's view of the article, the article as indexed with a*)
(* longer abstract and a copy, and a letter about it.                      *)
(***************************************************************************)
EXTENDS PaperFields

CONSTANTS doi, pmid

MCFieldOf == [t1 |-> "mathematics", t2 |-> "medicine", mesh |-> Null]

MCNotices == {[record |-> 1, names |-> doi], [record |-> 2, names |-> pmid]}

Copy(url, version, host, licence) == [url |-> url, version |-> version, host |-> host, licence |-> licence]

Said(source, type, title, abstract, authors, published, online) ==
    [source |-> source, workType |-> type, title |-> title, abstract |-> abstract, authors |-> authors,
     published |-> published, online |-> online, preprint |-> FALSE, peer |-> FALSE,
     repositoryDoi |-> FALSE, venue |-> Null, topics |-> {}, citations |-> Null, oa |-> "unknown",
     copies |-> {}, ids |-> {}]

Journal == [kind |-> "journal", general |-> FALSE]
Zenodo  == [kind |-> "repository", general |-> TRUE]

Eprint ==
    [Said("arxiv", "preprint", "draft", 2, "initials", 1, 1) EXCEPT
        !.preprint = TRUE, !.topics = {"t1"}, !.oa = "green",
        !.copies = {Copy("a", "submittedVersion", "preprint", Null)}]
EprintAgain == [Eprint EXCEPT !.abstract = 3, !.online = 0]
Deposit ==
    [Said("openalex", "report", "draft", 1, Null, 1, Null) EXCEPT
        !.venue = Zenodo, !.repositoryDoi = TRUE, !.ids = {doi},
        !.copies = {Copy("a", "submittedVersion", "preprint", "cc-by")}]
Aggregated ==
    [Said("openalex", Null, "final", 1, "full", 3, 3) EXCEPT
        !.peer = TRUE, !.venue = Journal, !.repositoryDoi = TRUE, !.topics = {"t2"}, !.citations = 5,
        !.oa = "bronze", !.ids = {doi}]
Indexed ==
    [Said("europepmc", "article", "final", 3, "full", 2, 2) EXCEPT
        !.peer = TRUE, !.topics = {"mesh"}, !.ids = {pmid, doi}, !.oa = "gold",
        !.copies = {Copy("b", "publishedVersion", "repository", Null)}]
Letter == Said("europepmc", "letter", "final", 0, Null, 2, Null)

MCStatements == {Eprint, EprintAgain, Deposit, Aggregated, Indexed, Letter}
=============================================================================

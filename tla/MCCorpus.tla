------------------------------ MODULE MCCorpus -------------------------------
(***************************************************************************)
(* Corpus over two DOIs, a PMID and an arXiv id.                            *)
(***************************************************************************)
EXTENDS Corpus, TLC

CONSTANTS d1, d2, pmid, arxiv, t1, t2, short

Ranks == (d1 :> 5) @@ (d2 :> 5) @@ (pmid :> 3) @@ (arxiv :> 2)

\* A journal article, a preprint of it and a deposit.
Record(ids, title) == [ids |-> ids, title |-> title, deposit |-> FALSE, published |-> None]
Deposit(ids, title) == [Record(ids, title) EXCEPT !.deposit = TRUE]
Preprint(ids, title, doi) == [Record(ids, title) EXCEPT !.published = doi]

\* What europepmc, openalex, arxiv and biorxiv say of an article, its preprint
\* and an erratum of it.
Feed ==
    {Record({pmid}, t1), Record({d1, pmid}, short), Record({pmid, arxiv}, short),
     Record({arxiv}, short), Preprint({d2, arxiv}, short, d1), Deposit({d1}, t1)}

\* The same with two revisions of the preprint, under one DOI and another.
Revisions ==
    {Record({pmid}, t1), Record({d1, pmid}, t1), Record({pmid, arxiv}, short),
     Record({arxiv}, t2), Record({d2, arxiv}, t2), Preprint({d2}, t1, d1),
     Deposit({d1}, short)}

Symmetry == Permutations(Papers) \cup Permutations(Records)
=============================================================================

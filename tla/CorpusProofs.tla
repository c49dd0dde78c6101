---------------------------- MODULE CorpusProofs -----------------------------
(***************************************************************************)
(* What ingestion does to the tables and to a row of them.  For any number  *)
(* of papers, identifiers, records and candidates the tables stay           *)
(* consistent through every creation, fold and merge (Corpus).  For any     *)
(* sources' records of a work, in any number, order and repetition, the     *)
(* fields that must not depend on the order do not, the abstract is the     *)
(* best that was sent, a status is the severest of the notices              *)
(* (PaperFields).                                                           *)
(***************************************************************************)
EXTENDS Corpus, PaperFields, TLAPS

\* An identifier belongs to a paper that exists.
OwnersLive(D) == \A i \in Ids : D.owner[i] # None => D.owner[i] \in Alive(D)

\* Both ends of a link have a canonical DOI.
LinksHaveDois(D) ==
    \A l \in D.relation :
        /\ l[1] \in Alive(D) /\ D.paper[l[1]].doi # None
        /\ l[2] \in Alive(D) /\ D.paper[l[2]].doi # None

\* A record that has a paper was admitted.
Admitted(D) ==
    \A r \in Records : D.record[r] # None /\ D.record[r].paper # None
                         => D.record[r].payload \in Candidates

Consistent(D) ==
    /\ DoisAgree(D) /\ Findable(D) /\ LedBack(D)
    /\ OwnersLive(D) /\ LinksHaveDois(D) /\ Admitted(D)

IInv == Consistent(db) /\ Consistent(view) /\ db.relation \subseteq view.relation

-----------------------------------------------------------------------------
\* A candidate has at most one DOI.
LEMMA DoiOfACandidate ==
    ASSUME NEW c \in Candidates
    PROVE  /\ DoiOf(c) \in Dois \cup {None}
           /\ DoiOf(c) # None => DoiOf(c) \in c.ids
           /\ \A d \in c.ids \cap Dois : DoiOf(c) = d
<1>1. CASE c.ids \cap Dois = {}
  BY <1>1 DEF DoiOf
<1>2. CASE c.ids \cap Dois # {}
  <2>1. DoiOf(c) \in c.ids \cap Dois
    BY <1>2 DEF DoiOf
  <2> QED
    BY <2>1, CandidatesAreWellFormed
<1> QED
  BY <1>1, <1>2

\* What resolve has established about a paper w, the papers L it merges into w
\* and the identifiers K that survive, when candidate c is folded into w.
Resolved(D, c, w, row, L, K) ==
    /\ w \notin L
    /\ K \subseteq Moved(D, L, c)
    /\ w \in Alive(D) \/ D.paper[w] = None
    /\ Matches(D, c) = {} \/ w \in Matches(D, c)
    /\ L \subseteq Matches(D, c)
    /\ \A p \in L : ~ Conflicting(D, w, p)
    /\ \A p \in Matches(D, c) \ L : p = w \/ Conflicting(D, w, p)
    /\ ~ Clash(D, w, c, L)
    /\ w \in Alive(D) /\ D.paper[w].doi # None => row.doi = D.paper[w].doi
    /\ ~ (w \in Alive(D) /\ D.paper[w].doi # None) => row.doi = DoiOf(c)

\* Folding a candidate in yields well-typed tables.
LEMMA FoldedIsTyped ==
    ASSUME NEW D \in Tables, NEW r \in Records, NEW c \in Candidates, NEW w \in Papers,
           NEW row \in Paper, NEW L \in SUBSET Papers, NEW K \in SUBSET Ids
    PROVE  Folded(D, r, c, w, row, L, K) \in Tables
<1> DEFINE E == Folded(D, r, c, w, row, L, K)
<1>1. /\ D.paper \in [Papers -> Paper \cup {None, Gone}]
      /\ D.owner \in [Ids -> Papers \cup {None}]
      /\ D.record \in [Records -> Stored \cup {None}]
      /\ D.relation \in SUBSET (Papers \X Papers)
  BY DEF Tables
<1>2. [p \in Papers |-> IF p = w THEN row ELSE IF p \in L THEN Gone ELSE D.paper[p]]
        \in [Papers -> Paper \cup {None, Gone}]
  BY <1>1
<1>3. OwnerAfter(D, w, c, L, K) \in [Ids -> Papers \cup {None}]
  BY <1>1 DEF OwnerAfter
<1>4. RecordsAfter(D, r, w, c, L) \in [Records -> Stored \cup {None}]
  <2> SUFFICES ASSUME NEW q \in Records
               PROVE  RecordsAfter(D, r, w, c, L)[q] \in Stored \cup {None}
    BY DEF RecordsAfter
  <2>1. CASE q = r
    BY <2>1 DEF RecordsAfter, Stored
  <2>2. CASE q # r
    BY <1>1, <2>2 DEF RecordsAfter, Stored
  <2> QED
    BY <2>1, <2>2
<1>5. \A o, d, e : Links(o, d, e) \in SUBSET (Papers \X Papers)
  BY DEF Links
<1>6. {l \in D.relation : l[1] \notin L /\ l[2] \notin L}
        \cup Links(OwnerAfter(D, w, c, L, K), DoiOf(c), c.published) \in SUBSET (Papers \X Papers)
  BY <1>1, <1>5
<1> QED
  BY <1>2, <1>3, <1>4, <1>6 DEF Folded, Tables

\* A loser of a merge has no link: it would have a canonical DOI, and so would
\* the winner, the same one.
LEMMA LosersHaveNoLinks ==
    ASSUME NEW D \in Tables, Consistent(D), NEW c \in Candidates, NEW w \in Papers, NEW row,
           NEW L \in SUBSET Papers, NEW K, Resolved(D, c, w, row, L, K), NEW l \in D.relation
    PROVE  l[1] \notin L /\ l[2] \notin L
<1> SUFFICES ASSUME NEW p \in L, p \in Alive(D), D.paper[p].doi # None PROVE FALSE
  BY DEF Consistent, LinksHaveDois
<1>1. w \in Alive(D)
  <2>1. w \in Matches(D, c)
    BY DEF Resolved
  <2>2. PICK i \in c.ids : D.owner[i] = w
    BY <2>1 DEF Matches
  <2>3. i \in Ids
    BY CandidatesAreWellFormed DEF Candidate
  <2> QED
    BY <2>2, <2>3, ValuesAreDistinct DEF Consistent, OwnersLive
<1>2. D.paper[w].doi # None
  BY <1>1 DEF Resolved, Clash
<1>3. D.paper[w].doi = D.paper[p].doi
  BY <1>2 DEF Resolved, Conflicting
<1>4. D.owner[D.paper[w].doi] = w /\ D.owner[D.paper[p].doi] = p
  BY <1>1, <1>2 DEF Consistent, DoisAgree
<1> QED
  BY <1>3, <1>4 DEF Resolved

\* The owner of every identifier once the candidate is folded in.
LEMMA OwnersAfterAFold ==
    ASSUME NEW D \in Tables, NEW c \in Candidates, NEW w \in Papers, NEW row,
           NEW L \in SUBSET Papers, NEW K, Resolved(D, c, w, row, L, K), NEW i \in Ids
    PROVE  LET o == OwnerAfter(D, w, c, L, K) IN
           /\ D.owner[i] # None /\ D.owner[i] \notin L => o[i] = D.owner[i]
           /\ o[i] # None /\ o[i] # w => o[i] = D.owner[i] /\ o[i] \notin L
           /\ o[i] = w => i \in c.ids \/ D.owner[i] = w
           /\ i \in c.ids /\ D.owner[i] = None => o[i] = w
BY ValuesAreDistinct DEF OwnerAfter, Resolved, Moved

\* Canonical DOIs and the identifier table still agree.
LEMMA FoldedDoisAgree ==
    ASSUME NEW D \in Tables, Consistent(D), NEW r \in Records, NEW c \in Candidates,
           NEW w \in Papers, NEW row \in Paper, NEW L \in SUBSET Papers, NEW K \in SUBSET Ids,
           Resolved(D, c, w, row, L, K)
    PROVE  DoisAgree(Folded(D, r, c, w, row, L, K))
<1> DEFINE E == Folded(D, r, c, w, row, L, K)
           o == OwnerAfter(D, w, c, L, K)
<1>1. /\ E.owner = o
      /\ \A p \in Papers : E.paper[p] = IF p = w THEN row ELSE IF p \in L THEN Gone ELSE D.paper[p]
  BY DEF Folded
<1>2. c.ids \subseteq Ids /\ Dois \subseteq Ids /\ D.owner \in [Ids -> Papers \cup {None}]
  BY CandidatesAreWellFormed DEF Candidate, Ids, Tables
<1>3. \A p \in Alive(E) \ {w} : p \in Alive(D) \ L /\ E.paper[p] = D.paper[p]
  BY <1>1, ValuesAreDistinct DEF Alive
<1>4. \A p \in Alive(D) : D.paper[p].doi \in Dois \cup {None}
  BY DEF Alive, Paper
<1>5. ASSUME NEW p \in Alive(E), E.paper[p].doi # None
      PROVE  E.owner[E.paper[p].doi] = p
  <2>1. CASE p # w
    <3>1. p \in Alive(D) \ L /\ E.paper[p] = D.paper[p]
      BY <1>3, <2>1
    <3>2. D.owner[D.paper[p].doi] = p /\ D.paper[p].doi \in Ids
      BY <1>2, <1>4, <1>5, <3>1 DEF Consistent, DoisAgree
    <3>3. p # None
      BY <3>1, ValuesAreDistinct DEF Alive
    <3>4. D.owner[D.paper[p].doi] # None /\ D.owner[D.paper[p].doi] \notin L
      BY <3>1, <3>2, <3>3
    <3>5. \A i \in Ids : D.owner[i] # None /\ D.owner[i] \notin L => o[i] = D.owner[i]
      BY OwnersAfterAFold
    <3> QED
      BY <1>1, <3>1, <3>2, <3>4, <3>5
  <2>2. CASE p = w /\ w \in Alive(D) /\ D.paper[w].doi # None
    <3>1. row.doi = D.paper[w].doi
      BY <2>2 DEF Resolved
    <3>2. D.owner[D.paper[w].doi] = w /\ D.paper[w].doi \in Ids
      BY <1>2, <1>4, <2>2 DEF Consistent, DoisAgree
    <3>3. w # None /\ w \notin L
      BY ValuesAreDistinct DEF Resolved
    <3> QED
      BY <1>1, <2>2, <3>1, <3>2, <3>3, OwnersAfterAFold
  <2>3. CASE p = w /\ ~ (w \in Alive(D) /\ D.paper[w].doi # None)
    <3> DEFINE d == row.doi
    <3>1. d = DoiOf(c) /\ E.paper[p].doi = d
      BY <1>1, <2>3 DEF Resolved
    <3>2. d \in c.ids /\ d \in Dois /\ d \in Ids
      BY <1>2, <1>5, <3>1, DoiOfACandidate
    <3>3. D.owner[d] = None
      <4> SUFFICES ASSUME D.owner[d] # None PROVE FALSE
        OBVIOUS
      <4> DEFINE q == D.owner[d]
      <4>1. q \in Alive(D) /\ q \in Matches(D, c)
        BY <1>2, <3>2 DEF Consistent, OwnersLive, Matches, Alive
      <4>2. D.paper[q].doi # None
        BY <3>2, <4>1 DEF Consistent, DoisAgree
      <4>3. q # w
        BY <2>3, <4>1, <4>2
      <4>4. w \in Alive(D)
        <5>1. w \in Matches(D, c)
          BY <4>1 DEF Resolved
        <5>2. PICK i \in c.ids : D.owner[i] = w
          BY <5>1 DEF Matches
        <5> QED
          BY <1>2, <5>2, ValuesAreDistinct DEF Consistent, OwnersLive
      <4>5. D.paper[w].doi = None
        BY <2>3, <4>4
      <4>6. q \in L
        BY <4>1, <4>3, <4>5 DEF Resolved, Conflicting
      <4> QED
        BY <4>2, <4>5, <4>6 DEF Resolved, Clash
    <3> QED
      BY <1>1, <2>3, <3>1, <3>2, <3>3, OwnersAfterAFold
  <2> QED
    BY <2>1, <2>2, <2>3
<1>6. ASSUME NEW d \in Dois, NEW p \in Alive(E), E.owner[d] = p
      PROVE  E.paper[p].doi # None
  <2>0. p \in Papers /\ p # None
    BY ValuesAreDistinct DEF Alive
  <2>1. CASE p # w
    <3>1. D.owner[d] = p
      BY <1>1, <1>2, <1>6, <2>0, <2>1, OwnersAfterAFold
    <3> QED
      BY <1>3, <2>1, <3>1 DEF Consistent, DoisAgree
  <2>2. CASE p = w /\ d \in c.ids
    <3>1. DoiOf(c) # None
      BY <2>2, DoiOfACandidate, IdsAreTyped DEF Ids
    <3> QED
      BY <1>1, <2>2, <3>1 DEF Resolved
  <2>3. CASE p = w /\ D.owner[d] = w
    <3>1. w \in Alive(D)
      BY <1>2, <2>0, <2>3 DEF Consistent, OwnersLive
    <3>2. D.paper[w].doi # None
      BY <2>3, <3>1 DEF Consistent, DoisAgree
    <3> QED
      BY <1>1, <2>3, <3>1, <3>2 DEF Resolved
  <2> QED
    BY <1>1, <1>2, <1>6, <2>1, <2>2, <2>3, OwnersAfterAFold
<1> QED
  BY <1>5, <1>6 DEF DoisAgree

\* Every paper keeps an identifier, every stored record one of its paper.
LEMMA FoldedIsConsistent ==
    ASSUME NEW D \in Tables, Consistent(D), NEW r \in Records, NEW c \in Candidates,
           NEW w \in Papers, NEW row \in Paper, NEW L \in SUBSET Papers, NEW K \in SUBSET Ids,
           Resolved(D, c, w, row, L, K)
    PROVE  /\ Consistent(Folded(D, r, c, w, row, L, K))
           /\ D.relation \subseteq Folded(D, r, c, w, row, L, K).relation
<1> DEFINE E == Folded(D, r, c, w, row, L, K)
           o == OwnerAfter(D, w, c, L, K)
           links == Links(o, DoiOf(c), c.published)
<1>1. /\ E.owner = o
      /\ \A p \in Papers : E.paper[p] = IF p = w THEN row ELSE IF p \in L THEN Gone ELSE D.paper[p]
      /\ E.record = RecordsAfter(D, r, w, c, L)
      /\ E.relation = {l \in D.relation : l[1] \notin L /\ l[2] \notin L} \cup links
  BY DEF Folded
<1>2. c.ids \subseteq Ids /\ Dois \subseteq Ids /\ D.owner \in [Ids -> Papers \cup {None}]
  BY CandidatesAreWellFormed DEF Candidate, Ids, Tables
<1>3. Alive(E) = (Alive(D) \ L) \cup {w}
  BY <1>1, ValuesAreDistinct DEF Alive, Resolved
<1>4. PICK k \in c.ids : o[k] = w
  <2>1. CASE Matches(D, c) = {}
    <3>1. PICK i \in c.ids : TRUE
      BY CandidatesAreWellFormed
    <3>2. D.owner[i] = None
      BY <1>2, <2>1 DEF Matches
    <3> QED
      BY <1>2, <3>2, OwnersAfterAFold
  <2>2. CASE w \in Matches(D, c)
    <3>1. PICK i \in c.ids : D.owner[i] = w
      BY <2>2 DEF Matches
    <3>2. w # None /\ w \notin L
      BY ValuesAreDistinct DEF Resolved
    <3> QED
      BY <1>2, <3>1, <3>2, OwnersAfterAFold
  <2> QED
    BY <2>1, <2>2 DEF Resolved
<1>5. \A p \in Alive(D) \ L, i \in Ids : D.owner[i] = p => o[i] = p
  BY OwnersAfterAFold, ValuesAreDistinct DEF Alive
<1>6. DoisAgree(E)
  BY FoldedDoisAgree
<1>7. Findable(E)
  BY <1>1, <1>2, <1>3, <1>4, <1>5 DEF Consistent, Findable
<1>8. LedBack(E)
  <2> SUFFICES ASSUME NEW q \in Records, E.record[q] # None, E.record[q].paper # None
               PROVE  /\ E.record[q].paper \in Alive(E)
                      /\ \E i \in E.record[q].payload.ids : E.owner[i] = E.record[q].paper
    BY DEF LedBack
  <2>1. CASE q = r
    BY <1>1, <1>3, <1>4, <2>1 DEF RecordsAfter
  <2>2. CASE q # r
    <3>1. D.record[q] # None /\ D.record[q].paper # None /\ E.record[q] = D.record[q]
          /\ D.record[q].paper \notin L
      BY <1>1, <2>2 DEF RecordsAfter
    <3>2. D.record[q].paper \in Alive(D)
          /\ \E i \in D.record[q].payload.ids : D.owner[i] = D.record[q].paper
      BY <3>1 DEF Consistent, LedBack
    <3>3. D.record[q].payload.ids \subseteq Ids
      BY <3>1, CandidatesAreWellFormed DEF Consistent, Admitted, Candidate
    <3>4. \E i \in D.record[q].payload.ids : o[i] = D.record[q].paper
      BY <1>5, <3>1, <3>2, <3>3
    <3> QED
      BY <1>1, <1>3, <3>1, <3>2, <3>4
  <2> QED
    BY <2>1, <2>2
<1>9. OwnersLive(E)
  <2> SUFFICES ASSUME NEW i \in Ids, o[i] # None, o[i] # w PROVE o[i] \in Alive(D) \ L
    BY <1>1, <1>3 DEF OwnersLive
  <2> QED
    BY OwnersAfterAFold DEF Consistent, OwnersLive
<1>10. LinksHaveDois(E)
  <2> SUFFICES ASSUME NEW l \in E.relation, NEW p \in {l[1], l[2]}
               PROVE  p \in Alive(E) /\ E.paper[p].doi # None
    BY DEF LinksHaveDois
  <2>1. CASE l \in D.relation
    <3>1. p \in Alive(D) /\ D.paper[p].doi # None /\ p \notin L
      BY <2>1, LosersHaveNoLinks DEF Consistent, LinksHaveDois
    <3> QED
      BY <1>1, <1>3, <3>1 DEF Resolved, Alive
  <2>2. CASE l \in links
    <3>1. PICK d \in Dois : p = o[d] /\ p \in Papers
      BY <2>2, DoiOfACandidate, CandidatesAreWellFormed DEF Links, Candidate
    <3>2. p \in Alive(E)
      BY <1>1, <1>2, <1>9, <3>1, ValuesAreDistinct DEF OwnersLive
    <3> QED
      BY <1>1, <1>6, <3>1, <3>2 DEF DoisAgree
  <2> QED
    BY <1>1, <2>1, <2>2
<1>11. Admitted(E)
  BY <1>1 DEF RecordsAfter, Consistent, Admitted
<1>12. D.relation \subseteq E.relation
  BY <1>1, LosersHaveNoLinks
<1> QED
  BY <1>6, <1>7, <1>8, <1>9, <1>10, <1>11, <1>12 DEF Consistent

-----------------------------------------------------------------------------
\* What resolve hands to the rest of process_record.
LEMMA ExactMatchIsResolved ==
    ASSUME NEW D \in Tables, Consistent(D), NEW c \in Candidates, NEW w \in Winners(D, c),
           NEW title, NEW K \in Kept(D, Losers(D, w, c), c), ~ Clash(D, w, c, Losers(D, w, c))
    PROVE  w \in Alive(D) /\ Resolved(D, c, w, Updated(D, w, c, title), Losers(D, w, c), K)
<1>1. w \in Alive(D)
  <2>1. PICK i \in c.ids : D.owner[i] = w
    BY DEF Winners, Matches
  <2>2. i \in Ids /\ w # None
    BY CandidatesAreWellFormed, ValuesAreDistinct DEF Candidate, Winners, Matches
  <2> QED
    BY <2>1, <2>2 DEF Consistent, OwnersLive
<1>2. w \in Matches(D, c)
  BY DEF Winners
<1>3. K \subseteq Moved(D, Losers(D, w, c), c)
  BY DEF Kept
<1> QED
  BY <1>1, <1>2, <1>3 DEF Resolved, Losers, Updated

LEMMA FuzzyMatchIsResolved ==
    ASSUME NEW D \in Tables, NEW c \in Candidates, Matches(D, c) = {}, NEW w \in Similar(D, c),
           NEW title, NEW K \in Kept(D, {}, c), ~ Clash(D, w, c, {})
    PROVE  w \in Alive(D) /\ Resolved(D, c, w, Updated(D, w, c, title), {}, K)
<1>1. w \in Alive(D) /\ K \subseteq Moved(D, {}, c)
  BY DEF Similar, Kept
<1> QED
  BY <1>1 DEF Resolved, Updated

LEMMA UpdatedIsTyped ==
    ASSUME NEW D \in Tables, NEW c \in Candidates, NEW w \in Alive(D),
           NEW title \in {D.paper[w].title, c.title}
    PROVE  Updated(D, w, c, title) \in Paper
<1>1. D.paper[w] \in Paper
  BY DEF Alive
<1>2. c.title \in Titles
  BY CandidatesAreWellFormed DEF Candidate
<1> QED
  BY <1>1, <1>2, DoiOfACandidate DEF Paper, Updated

\* One record leaves the session's tables well-typed and consistent, and takes
\* no link away.
Safe(D, E) == E \in Tables /\ Consistent(E) /\ D.relation \subseteq E.relation

LEMMA FoldIsSafe ==
    ASSUME view \in Tables, Consistent(view), NEW r \in Records, NEW c \in Candidates,
           MatchExactly(r, c) \/ MatchFuzzily(r, c)
    PROVE  Safe(view, view')
<1>1. CASE MatchExactly(r, c)
  <2>1. PICK w \in Winners(view, c) : Fold(r, c, w, Losers(view, w, c))
    BY <1>1 DEF MatchExactly
  <2> DEFINE L == Losers(view, w, c)
  <2>2. PICK title \in {view.paper[w].title, c.title}, K \in Kept(view, L, c) :
            view' = Folded(view, r, c, w, Updated(view, w, c, title), L, K)
    BY <2>1 DEF Fold
  <2>3. w \in Alive(view) /\ Resolved(view, c, w, Updated(view, w, c, title), L, K)
    BY <2>1, ExactMatchIsResolved DEF Fold
  <2>4. Updated(view, w, c, title) \in Paper
    BY <2>3, UpdatedIsTyped
  <2>5. w \in Papers /\ L \in SUBSET Papers /\ K \in SUBSET Ids
    BY CandidatesAreWellFormed DEF Winners, Matches, Losers, Kept, Moved, Candidate
  <2> QED
    BY <2>2, <2>3, <2>4, <2>5, FoldedIsTyped, FoldedIsConsistent DEF Safe
<1>2. CASE MatchFuzzily(r, c)
  <2>1. PICK w \in Similar(view, c) : Fold(r, c, w, {})
    BY <1>2 DEF MatchFuzzily
  <2>2. PICK title \in {view.paper[w].title, c.title}, K \in Kept(view, {}, c) :
            view' = Folded(view, r, c, w, Updated(view, w, c, title), {}, K)
    BY <2>1 DEF Fold
  <2>3. w \in Alive(view) /\ Resolved(view, c, w, Updated(view, w, c, title), {}, K)
    BY <1>2, <2>1, FuzzyMatchIsResolved DEF Fold, MatchFuzzily
  <2>4. Updated(view, w, c, title) \in Paper
    BY <2>3, UpdatedIsTyped
  <2>5. w \in Papers /\ {} \in SUBSET Papers /\ K \in SUBSET Ids
    BY CandidatesAreWellFormed DEF Similar, Alive, Kept, Moved, Candidate
  <2> QED
    BY <2>2, <2>3, <2>4, <2>5, FoldedIsTyped, FoldedIsConsistent DEF Safe
<1> QED
  BY <1>1, <1>2

LEMMA CreateIsSafe ==
    ASSUME view \in Tables, Consistent(view), NEW r \in Records, NEW c \in Candidates, Create(r, c)
    PROVE  Safe(view, view')
<1> DEFINE row == [doi |-> DoiOf(c), title |-> c.title]
<1>1. PICK p \in Papers : /\ view.paper[p] = None
                          /\ ~ Clash(view, p, c, {})
                          /\ view' = Folded(view, r, c, p, row, {}, {})
  BY DEF Create
<1>2. row \in Paper
  BY DoiOfACandidate, CandidatesAreWellFormed DEF Paper, Candidate
<1>3. p \notin Alive(view)
  BY <1>1, ValuesAreDistinct DEF Alive
<1>4. Matches(view, c) = {}
  BY DEF Create, Unknown
<1>5. Resolved(view, c, p, row, {}, {})
  BY <1>1, <1>3, <1>4 DEF Resolved
<1>6. {} \in SUBSET Papers /\ {} \in SUBSET Ids
  OBVIOUS
<1> QED
  BY <1>1, <1>2, <1>5, <1>6, FoldedIsTyped, FoldedIsConsistent DEF Safe

LEMMA StoreIsSafe ==
    ASSUME view \in Tables, Consistent(view), NEW r \in Records,
           NEW y \in Candidates \cup {Rejected}, Store(r, y)
    PROVE  Safe(view, view')
<1>1. /\ view'.paper = view.paper
      /\ view'.owner = view.owner
      /\ view'.relation = view.relation
      /\ view'.record = [view.record EXCEPT ![r] = [payload |-> y, paper |-> None]]
  BY DEF Store, Tables
<1>2. view' \in Tables
  <2>1. [payload |-> y, paper |-> None] \in Stored
    BY DEF Stored
  <2>2. view'.record \in [Records -> Stored \cup {None}]
    BY <1>1, <2>1 DEF Tables
  <2>3. view' = [view EXCEPT !.record = view'.record]
    BY <1>1 DEF Store, Tables
  <2> QED
    BY <2>2, <2>3 DEF Tables
<1>3. Alive(view') = Alive(view)
  BY <1>1 DEF Alive
<1>4. \A q \in Records : view'.record[q] # None /\ view'.record[q].paper # None
                            => q # r /\ view'.record[q] = view.record[q]
  BY <1>1 DEF Tables
<1>5. LedBack(view')
  BY <1>1, <1>3, <1>4 DEF LedBack, Consistent
<1>6. Admitted(view')
  BY <1>4 DEF Admitted, Consistent
<1>7. DoisAgree(view') /\ Findable(view') /\ OwnersLive(view') /\ LinksHaveDois(view')
  BY <1>1, <1>3 DEF Consistent, DoisAgree, Findable, OwnersLive, LinksHaveDois
<1> QED
  BY <1>1, <1>2, <1>5, <1>6, <1>7 DEF Safe, Consistent

\* A link between two papers found by their DOIs.
LEMMA LinkIsSafe ==
    ASSUME NEW D \in Tables, Consistent(D), NEW d \in Dois, NEW e \in Dois
    PROVE  Safe(D, [D EXCEPT !.relation = D.relation \cup Links(D.owner, d, e)])
<1> DEFINE E == [D EXCEPT !.relation = D.relation \cup Links(D.owner, d, e)]
<1>1. /\ E.paper = D.paper /\ E.owner = D.owner /\ E.record = D.record
      /\ E.relation = D.relation \cup Links(D.owner, d, e)
  BY DEF Tables
<1>2. Links(D.owner, d, e) \in SUBSET (Papers \X Papers)
  BY DEF Links
<1>3. E \in Tables
  BY <1>2 DEF Tables
<1>4. Alive(E) = Alive(D)
  BY <1>1 DEF Alive
<1>5. LinksHaveDois(E)
  <2> SUFFICES ASSUME NEW l \in Links(D.owner, d, e), NEW p \in {l[1], l[2]}
               PROVE  p \in Alive(D) /\ D.paper[p].doi # None
    BY <1>1, <1>4 DEF LinksHaveDois, Consistent
  <2>1. PICK f \in Dois : p = D.owner[f] /\ p \in Papers
    BY DEF Links
  <2>2. p \in Alive(D)
    BY <2>1, ValuesAreDistinct DEF Consistent, OwnersLive, Ids
  <2> QED
    BY <2>1, <2>2 DEF Consistent, DoisAgree
<1>6. DoisAgree(E) /\ Findable(E) /\ OwnersLive(E)
  <2> HIDE DEF E
  <2> QED
    BY <1>1, <1>4 DEF Consistent, DoisAgree, Findable, OwnersLive
<1>7. LedBack(E) /\ Admitted(E)
  <2> HIDE DEF E
  <2> QED
    BY <1>1, <1>4 DEF Consistent, LedBack, Admitted
<1> QED
  BY <1>1, <1>3, <1>5, <1>6, <1>7 DEF Safe, Consistent

-----------------------------------------------------------------------------
LEMMA InitIsConsistent == Init => TypeOK /\ IInv
<1> SUFFICES ASSUME Init PROVE TypeOK /\ IInv
  OBVIOUS
<1>1. Empty \in Tables
  BY DEF Empty, Tables
<1>2. Alive(Empty) = {}
  BY ValuesAreDistinct DEF Alive, Empty
<1>3. /\ \A i \in Ids : Empty.owner[i] = None
      /\ \A r \in Records : Empty.record[r] = None
      /\ Empty.relation = {}
  BY DEF Empty
<1>4. Consistent(Empty)
  BY <1>2, <1>3 DEF Consistent, DoisAgree, Findable, LedBack, OwnersLive, LinksHaveDois, Admitted
<1> QED
  <2>1. /\ db = Empty /\ view = Empty /\ page = 0 /\ fetched = 0
        /\ phase = "idle" /\ logged = FALSE
    BY DEF Init
  <2>2. IInv
    BY <1>4, <2>1 DEF IInv
  <2>3. TypeOK
    <3>1. 0 \in 0 .. PageSize /\ 0 + 0 < MaxRecords + PageSize
      BY BoundsArePositive
    <3>2. Empty \in Tables /\ "idle" \in {"idle", "open", "dead", "ended"}
      BY <1>1
    <3> HIDE DEF Empty
    <3> QED
      BY <2>1, <3>1, <3>2 DEF TypeOK
  <2> QED
    BY <2>2, <2>3

LEMMA StepIsConsistent ==
    ASSUME TypeOK, IInv, [Next]_vars
    PROVE  TypeOK' /\ IInv' /\ db.relation \subseteq db'.relation
<1> USE DEF TypeOK, IInv
<1>1. page > 0 /\ Counted => /\ page' \in 0 .. PageSize /\ fetched' \in Nat
                             /\ fetched' + page' < MaxRecords + PageSize
  BY BoundsArePositive DEF Counted
<1>2. ASSUME Safe(view, view'), UNCHANGED <<db, phase, logged>>, page > 0, Counted
      PROVE  TypeOK' /\ IInv' /\ db.relation \subseteq db'.relation
  BY <1>1, <1>2 DEF Safe
<1>3. \A m \in Nat, n \in 1 .. PageSize :
          m < MaxRecords => n \in 0 .. PageSize /\ m + n < MaxRecords + PageSize
  BY BoundsArePositive
<1>4. 0 \in 0 .. PageSize /\ 0 \in Nat /\ 0 + 0 < MaxRecords + PageSize
  BY BoundsArePositive
<1>5. ASSUME NEW r \in Records, Reject(r)
      PROVE  TypeOK' /\ IInv' /\ db.relation \subseteq db'.relation
  <2>1. Safe(view, view')
    BY <1>5, StoreIsSafe DEF Reject
  <2> QED
    BY <1>2, <1>5, <2>1 DEF Reject, Due, Store
<1>6. ASSUME NEW r \in Records, NEW c \in Candidates, Process(r, c)
      PROVE  TypeOK' /\ IInv' /\ db.relation \subseteq db'.relation
  <2>1. CASE Hold(r, c)
    <3>1. Safe(view, view')
      BY <2>1, StoreIsSafe DEF Hold
    <3> QED
      BY <1>2, <2>1, <3>1 DEF Hold, Due, Store
  <2>2. CASE Create(r, c)
    <3>1. Safe(view, view')
      BY <2>2, CreateIsSafe
    <3> QED
      BY <1>2, <2>2, <3>1 DEF Create, Due
  <2>3. CASE MatchFuzzily(r, c) \/ MatchExactly(r, c)
    <3>1. Safe(view, view')
      BY <2>3, FoldIsSafe
    <3>2. UNCHANGED <<db, phase, logged>> /\ page > 0 /\ Counted
      BY <2>3 DEF MatchFuzzily, MatchExactly, Fold, Due
    <3> QED
      BY <1>2, <3>1, <3>2
  <2>4. CASE Choke(r, c)
    BY <2>4 DEF Choke
  <2> QED
    BY <1>6, <2>1, <2>2, <2>3, <2>4 DEF Process
<1>7. CASE Begin
  BY <1>7 DEF Begin
<1>8. CASE Finish
  BY <1>4, <1>8 DEF Finish
<1>9. CASE FinishDead
  BY <1>4, <1>9 DEF FinishDead
<1>10. CASE Kill
  BY <1>4, <1>10 DEF Kill
<1>11. ASSUME NEW d \in Dois, NEW e \in Dois, LinkPublication(d, e)
      PROVE  TypeOK' /\ IInv' /\ db.relation \subseteq db'.relation
  <2>1. Safe(db, db') /\ view' = db'
    BY <1>11, LinkIsSafe DEF LinkPublication
  <2> QED
    BY <1>11, <2>1 DEF LinkPublication, Safe
<1>12. CASE FetchPage
  <2>1. fetched \in Nat /\ fetched < MaxRecords /\ page' \in 1 .. PageSize
    BY <1>12 DEF FetchPage
  <2>2. page' \in 0 .. PageSize /\ fetched + page' < MaxRecords + PageSize
    BY <1>3, <2>1
  <2> QED
    BY <1>12, <2>2 DEF FetchPage
<1>13. CASE Skip
  BY <1>1, <1>13 DEF Skip
<1>14. CASE UNCHANGED vars
  BY <1>14 DEF vars
<1> QED
  BY <1>5, <1>6, <1>7, <1>8, <1>9, <1>10, <1>11, <1>12, <1>13, <1>14 DEF Next

-----------------------------------------------------------------------------
\* The tables and the run keep their types, and a run never goes a page beyond
\* its cap (pipeline.run, which looks at max_records between two pages).
THEOREM TypeCorrect == Spec => []TypeOK
<1>1. TypeOK /\ IInv /\ [Next]_vars => TypeOK' /\ IInv'
  BY StepIsConsistent
<1> QED
  BY <1>1, InitIsConsistent, PTL DEF Spec

\* The inductive invariant.
THEOREM Invariance == Spec => [](TypeOK /\ IInv)
<1>1. TypeOK /\ IInv /\ [Next]_vars => TypeOK' /\ IInv'
  BY StepIsConsistent
<1> QED
  BY <1>1, InitIsConsistent, PTL DEF Spec

\* The canonical DOIs and the identifier table agree, in the committed tables and
\* in those the open session sees, through any chain of folds and merges.
THEOREM DoisAlwaysAgree == Spec => []CanonicalDoisAgree
<1>1. IInv => CanonicalDoisAgree
  BY DEF IInv, Consistent, CanonicalDoisAgree
<1> QED
  BY <1>1, Invariance, PTL

\* No paper is ever left without an identifier.
THEOREM PapersStayFindable == Spec => []EveryPaperIsFindable
<1>1. IInv => EveryPaperIsFindable
  BY DEF IInv, Consistent, EveryPaperIsFindable
<1> QED
  BY <1>1, Invariance, PTL

\* A stored record leads back to the paper it points at.
THEOREM RecordsAlwaysLeadBack == Spec => []RecordsLeadBack
<1>1. IInv => RecordsLeadBack
  BY DEF IInv, Consistent, RecordsLeadBack
<1> QED
  BY <1>1, Invariance, PTL

\* A link between a preprint and its published version is never lost.
THEOREM LinksAreNeverLost == Spec => LinksAreKept
<1>1. TypeOK /\ IInv /\ [Next]_vars => [db.relation \subseteq db'.relation]_vars
  BY StepIsConsistent
<1> QED
  BY <1>1, Invariance, PTL DEF Spec, LinksAreKept

-----------------------------------------------------------------------------
(***************************************************************************)
(* One row: PaperFields.                                                    *)
(***************************************************************************)
\* What the fields of the row are, in terms of what the sources have said.
TopicsAreAll ==
    /\ paper.topics = UNION {c.topics : c \in seen}
    /\ paper.fields = FieldsFor(paper.topics)

PeerIsAny == paper.peer <=> everLinked \/ \E c \in seen : c.peer

OaIsMostOpen ==
    /\ \A c \in seen : OaRank[c.oa] <= OaRank[paper.oa]
    /\ paper.oa \in {"unknown"} \cup {c.oa : c \in seen}

OnlineIsEarliest ==
    /\ \A c \in seen : c.online # Null => paper.online # Null /\ paper.online <= c.online
    /\ paper.online # Null => /\ paper.online \in {c.online : c \in seen}
                              /\ paper.online <= today + Horizon

\* Stronger than AbstractIsTheBest: nothing was sent while there is none.
AbstractIsBest ==
    /\ paper.abstract = 0 => \A c \in seen : c.abstract = 0
    /\ paper.abstract # 0 => paper.abstractSource \in Sources
    /\ \A c \in seen : c.abstract > 0 =>
          /\ Rank(AbstractPriority, c.source) <= Rank(AbstractPriority, paper.abstractSource)
          /\ c.source = paper.abstractSource => c.abstract <= paper.abstract

FieldsInv == TopicsAreAll /\ PeerIsAny /\ OaIsMostOpen /\ OnlineIsEarliest /\ AbstractIsBest

RowInv ==
    /\ seen \subseteq Statement
    /\ paper # Null => FieldsInv
    /\ StatusIsSeverest
    /\ RowIsConsistent

-----------------------------------------------------------------------------
\* The tables of ranks.
LEMMA Ranks ==
    /\ \A s \in Sources : AbstractPriority[s] \in Nat /\ AbstractPriority[s] > 0
    /\ \A s, t \in Sources : AbstractPriority[s] = AbstractPriority[t] => s = t
    /\ \A o \in DOMAIN OaRank : OaRank[o] \in Nat
    /\ "unknown" \in DOMAIN OaRank /\ OaRank["unknown"] = 0
<1>1. Sources = {"pubmed", "europepmc", "openalex", "biorxiv", "arxiv"}
  BY DEF Sources, AbstractPriority
<1>2. /\ AbstractPriority["pubmed"] = 50 /\ AbstractPriority["europepmc"] = 40
      /\ AbstractPriority["openalex"] = 30 /\ AbstractPriority["biorxiv"] = 20
      /\ AbstractPriority["arxiv"] = 10
  BY DEF AbstractPriority
<1>3. DOMAIN OaRank = {"unknown", "closed", "bronze", "green", "hybrid", "gold", "diamond"}
  BY DEF OaRank
<1>4. /\ OaRank["unknown"] = 0 /\ OaRank["closed"] = 1 /\ OaRank["bronze"] = 2
      /\ OaRank["green"] = 3 /\ OaRank["hybrid"] = 4 /\ OaRank["gold"] = 5 /\ OaRank["diamond"] = 6
  BY DEF OaRank
<1>5. \A o \in DOMAIN OaRank : OaRank[o] \in Nat
  BY <1>3, <1>4
<1>6. \A s \in Sources : AbstractPriority[s] \in Nat /\ AbstractPriority[s] > 0
  BY <1>1, <1>2
<1>7. \A s, t \in Sources : AbstractPriority[s] = AbstractPriority[t] => s = t
  BY <1>1, <1>2
<1> QED
  BY <1>3, <1>4, <1>5, <1>6, <1>7

\* The statuses are ranked without ties, so the severest of some is one of them.
LEMMA SeverestIsOneOf ==
    ASSUME NEW S \in SUBSET DOMAIN Severity, S # {}
    PROVE  Severest(S) \in S /\ \A r \in S : Severity[r] <= Severity[Severest(S)]
<1>1. DOMAIN Severity = {"none", "corrected", "concern", "retracted"}
  BY DEF Severity
<1>2. /\ Severity["none"] = 0 /\ Severity["corrected"] = 1
      /\ Severity["concern"] = 2 /\ Severity["retracted"] = 3
  BY DEF Severity
<1>3. \E s \in S : \A r \in S : Severity[r] <= Severity[s]
  <2>1. CASE "retracted" \in S
    BY <1>1, <1>2, <2>1
  <2>2. CASE "retracted" \notin S /\ "concern" \in S
    BY <1>1, <1>2, <2>2
  <2>3. CASE "retracted" \notin S /\ "concern" \notin S /\ "corrected" \in S
    BY <1>1, <1>2, <2>3
  <2>4. CASE S = {"none"}
    BY <1>1, <1>2, <2>4
  <2> QED
    BY <1>1, <2>1, <2>2, <2>3, <2>4
<1> QED
  BY <1>3 DEF Severest

LEMMA StatusesAreRanked == \A nature : StatusOf(nature) \in DOMAIN Severity
<1>1. DOMAIN Severity = {"none", "corrected", "concern", "retracted"}
  BY DEF Severity
<1> QED
  BY <1>1 DEF StatusOf

LEMMA SanitisedIsACandidate ==
    ASSUME NEW c \in Statement
    PROVE  /\ Sanitised(c) \in Statement
           /\ Sanitised(c).source = c.source /\ Sanitised(c).workType = c.workType
           /\ Sanitised(c).venue = c.venue /\ Sanitised(c).repositoryDoi = c.repositoryDoi
           /\ IsPlausible(Sanitised(c).online)
  BY DEF Sanitised, Statement, IsPlausible

\* A paper that a record founds.
LEMMA NewPaperIsARow ==
    ASSUME NEW c \in Statement
    PROVE  NewPaper(c) \in Row
<1>1. "unknown" \in DOMAIN OaRank /\ "none" \in DOMAIN Severity
  BY DEF OaRank, Severity
<1> QED
  BY <1>1 DEF NewPaper, Row, Statement

\* What applying a candidate leaves in the fields the properties speak of.
LEMMA ApplyCandidateFields ==
    ASSUME NEW p \in Row, NEW c \in Statement
    PROVE  LET q == ApplyCandidate(p, c) IN
           /\ q.topics = p.topics \cup c.topics
           /\ q.fields = FieldsFor(p.topics \cup c.topics)
           /\ q.peer = (p.peer \/ c.peer)
           /\ q.preprint = (p.preprint /\ (c.preprint \/ ~ (p.peer \/ c.peer)))
           /\ q.oa = Better(p.oa, c.oa)
           /\ q.online = Earliest(p.online, c.online)
           /\ q.abstract = IF AbstractTakes(p, c) THEN c.abstract ELSE p.abstract
           /\ q.abstractSource = IF AbstractTakes(p, c) THEN c.source ELSE p.abstractSource
           /\ q.copies = p.copies /\ q.best = p.best /\ q.licence = p.licence
           /\ q.ids = p.ids /\ q.retraction = p.retraction /\ q.venue = p.venue
<1> DEFINE q == ApplyCandidate(p, c)
<1>1. q.copies = p.copies /\ q.best = p.best /\ q.licence = p.licence
  BY DEF ApplyCandidate, Row
<1>2. q.ids = p.ids /\ q.retraction = p.retraction /\ q.venue = p.venue
  BY DEF ApplyCandidate, Row
<1>3. q.topics = p.topics \cup c.topics /\ q.fields = FieldsFor(p.topics \cup c.topics)
  BY DEF ApplyCandidate, Row
<1>4. q.oa = Better(p.oa, c.oa) /\ q.online = Earliest(p.online, c.online)
  BY DEF ApplyCandidate, Row
<1>5. /\ q.abstract = IF AbstractTakes(p, c) THEN c.abstract ELSE p.abstract
      /\ q.abstractSource = IF AbstractTakes(p, c) THEN c.source ELSE p.abstractSource
  BY DEF ApplyCandidate, Row
<1>6. q.peer = (p.peer \/ c.peer)
  BY DEF ApplyCandidate, Row, Statement
<1>7. q.preprint = (p.preprint /\ (c.preprint \/ ~ (p.peer \/ c.peer)))
  BY DEF ApplyCandidate, Row, Statement
<1> HIDE DEF q
<1>8. q = ApplyCandidate(p, c)
  BY DEF q
<1> QED
  BY <1>1, <1>2, <1>3, <1>4, <1>5, <1>6, <1>7, <1>8

LEMMA ApplyCandidateIsARow ==
    ASSUME NEW p \in Row, NEW c \in Statement
    PROVE  ApplyCandidate(p, c) \in Row
<1> DEFINE outranks == Rank(TitlePriority, c.source) > Rank(TitlePriority, p.abstractSource)
           equals   == Rank(TitlePriority, c.source) >= Rank(TitlePriority, p.abstractSource)
           takes    == AbstractTakes(p, c)
           peer     == p.peer \/ c.peer
           topics   == p.topics \cup c.topics
           abstract == IF takes THEN c.abstract ELSE p.abstract
           title    == IF outranks THEN c.title ELSE p.title
           source   == IF takes THEN c.source ELSE p.abstractSource
           authors  == IF c.authors # Null /\ (p.authors = Null \/ equals) THEN c.authors
                       ELSE p.authors
           published == IF c.published # Null /\ (p.published = Null \/ equals) THEN c.published
                        ELSE p.published
           online   == Earliest(p.online, c.online)
           preprint == p.preprint /\ (c.preprint \/ ~ peer)
           workType == FirstOf(p.workType, c.workType)
           fields   == FieldsFor(topics)
           citations == IF c.source \in CitationSources /\ c.citations # Null THEN c.citations
                        ELSE p.citations
           oa       == Better(p.oa, c.oa)
           fulltext == IF p.fulltext # "none" THEN p.fulltext
                       ELSE IF c.copies # {} THEN "linked"
                       ELSE IF abstract > 0 THEN "abstract_only" ELSE "none"
<1> DEFINE p1 == [p EXCEPT !.title = title]
           p2 == [p1 EXCEPT !.abstract = abstract]
           p3 == [p2 EXCEPT !.abstractSource = source]
           p4 == [p3 EXCEPT !.authors = authors]
           p5 == [p4 EXCEPT !.published = published]
           p6 == [p5 EXCEPT !.online = online]
           p7 == [p6 EXCEPT !.peer = peer]
           p8 == [p7 EXCEPT !.preprint = preprint]
           p9 == [p8 EXCEPT !.workType = workType]
           p10 == [p9 EXCEPT !.topics = topics]
           p11 == [p10 EXCEPT !.fields = fields]
           p12 == [p11 EXCEPT !.citations = citations]
           p13 == [p12 EXCEPT !.oa = oa]
           p14 == [p13 EXCEPT !.fulltext = fulltext]
<1>1. ApplyCandidate(p, c) = p14
  BY DEF ApplyCandidate
<1>2. /\ title \in Values("title")
      /\ authors \in Values("authors") \cup {Null}
      /\ published \in Nat \cup {Null}
  BY DEF Row, Statement
<1>3. abstract \in Nat /\ source \in Sources \cup {Null}
  BY DEF Row, Statement
<1>4. online \in Nat \cup {Null}
  BY DEF Row, Statement, Earliest
<1>5. peer \in BOOLEAN /\ preprint \in BOOLEAN
  OBVIOUS
<1>6. /\ workType \in Values("workType") \cup {Null}
      /\ citations \in Values("citations") \cup {Null}
  BY DEF Row, Statement, FirstOf
<1>7. topics \subseteq Topics
  BY DEF Row, Statement
<1>8. fields \subseteq FieldsFor(Topics)
  BY <1>7 DEF FieldsFor
<1>9. oa \in DOMAIN OaRank
  BY DEF Row, Statement, Better
<1>10. fulltext \in {"none", "linked", "abstract_only"}
  BY DEF Row
<1> HIDE DEF title, abstract, source, authors, published, online, peer, preprint, workType,
             topics, fields, citations, oa, fulltext
<1>11. p1 \in Row
  BY <1>2 DEF Row
<1> HIDE DEF p1
<1>12. p2 \in Row
  BY <1>3, <1>11 DEF Row
<1> HIDE DEF p2
<1>13. p3 \in Row
  BY <1>3, <1>12 DEF Row
<1> HIDE DEF p3
<1>14. p4 \in Row
  BY <1>2, <1>13 DEF Row
<1> HIDE DEF p4
<1>15. p5 \in Row
  BY <1>2, <1>14 DEF Row
<1> HIDE DEF p5
<1>16. p6 \in Row
  BY <1>4, <1>15 DEF Row
<1> HIDE DEF p6
<1>17. p7 \in Row
  BY <1>5, <1>16 DEF Row
<1> HIDE DEF p7
<1>18. p8 \in Row
  BY <1>5, <1>17 DEF Row
<1> HIDE DEF p8
<1>19. p9 \in Row
  BY <1>6, <1>18 DEF Row
<1> HIDE DEF p9
<1>20. p10 \in Row
  BY <1>7, <1>19 DEF Row
<1> HIDE DEF p10
<1>21. p11 \in Row
  BY <1>8, <1>20 DEF Row
<1> HIDE DEF p11
<1>22. p12 \in Row
  BY <1>6, <1>21 DEF Row
<1> HIDE DEF p12
<1>23. p13 \in Row
  BY <1>9, <1>22 DEF Row
<1> HIDE DEF p13
<1>24. p14 \in Row
  BY <1>10, <1>23 DEF Row
<1> QED
  BY <1>1, <1>24

LEMMA CopiesAreLocations ==
    ASSUME NEW p \in Row, NEW c \in Statement
    PROVE  CopiesWith(p, c) \subseteq Location
<1> SUFFICES ASSUME NEW m \in CopiesWith(p, c) PROVE m \in Location
  OBVIOUS
<1>1. p.copies \subseteq Location /\ c.copies \subseteq Location
  BY DEF Row, Statement
<1>2. CASE m \in c.copies
  BY <1>1, <1>2
<1>3. CASE m \notin c.copies
  <2>1. PICK k \in p.copies :
           m = [k EXCEPT !.licence = IF \E l \in c.copies : k.licence = Null /\ l.url = k.url
                                     THEN (CHOOSE l \in c.copies : l.url = k.url).licence
                                     ELSE k.licence]
    BY <1>3 DEF CopiesWith
  <2> DEFINE filled == IF \E l \in c.copies : k.licence = Null /\ l.url = k.url
                       THEN (CHOOSE l \in c.copies : l.url = k.url).licence ELSE k.licence
  <2>2. filled \in Licences
    <3>1. CASE \E l \in c.copies : k.licence = Null /\ l.url = k.url
      <4>1. (CHOOSE l \in c.copies : l.url = k.url) \in c.copies
        BY <3>1
      <4> QED
        BY <1>1, <3>1, <4>1 DEF Location
    <3>2. CASE ~ \E l \in c.copies : k.licence = Null /\ l.url = k.url
      BY <1>1, <3>2 DEF Location
    <3> QED
      BY <3>1, <3>2
  <2>3. m = [k EXCEPT !.licence = filled] /\ k \in Location
    BY <1>1, <2>1
  <2> HIDE DEF filled
  <2> QED
    BY <2>2, <2>3 DEF Location
<1> QED
  BY <1>2, <1>3

-----------------------------------------------------------------------------
\* The row a candidate is applied to.
Old(c) == IF paper = Null THEN NewPaper(c) ELSE paper

\* A merge, in terms of the row before it and of what the source says.
LEMMA MergedRow ==
    ASSUME RowTypeOK, NEW c \in Statements, Merge(c)
    PROVE  LET said == Sanitised(c)
               old  == Old(said)
           IN  /\ said \in Statement /\ old \in Row /\ paper' \in Row
               /\ seen' = seen \cup {said}
               /\ paper'.topics = old.topics \cup said.topics
               /\ paper'.fields = FieldsFor(old.topics \cup said.topics)
               /\ paper'.peer = (old.peer \/ said.peer)
               /\ paper'.preprint = (old.preprint /\ (said.preprint \/ ~ (old.peer \/ said.peer)))
               /\ paper'.oa = Better(old.oa, said.oa)
               /\ paper'.online = Earliest(old.online, said.online)
               /\ paper'.abstract = IF AbstractTakes(old, said) THEN said.abstract ELSE old.abstract
               /\ paper'.abstractSource = IF AbstractTakes(old, said) THEN said.source
                                          ELSE old.abstractSource
               /\ old.ids \subseteq paper'.ids /\ paper'.retraction = old.retraction
               /\ overdue' = (overdue \/ old.ids # paper'.ids)
               /\ IF said.copies = {} THEN paper'.copies = old.copies /\ paper'.best = old.best
                  ELSE \E l \in BestOf(paper'.copies) : l.url = paper'.best
<1> DEFINE said == Sanitised(c)
           old  == Old(said)
<1>1. said \in Statement
  BY SanitisedIsACandidate, StatementsAreWellFormed
<1>2. old \in Row
  BY <1>1, NewPaperIsARow DEF Old, RowTypeOK
<1>3. PICK attached \in SUBSET said.ids :
         LET row == ApplyCandidate([old EXCEPT !.ids = old.ids \cup attached,
                                               !.venue = FirstOf(old.venue, said.venue)], said)
         IN  /\ paper' \in WithCopies(row, said) /\ seen' = seen \cup {said}
             /\ overdue' = (overdue \/ old.ids # row.ids)
  BY DEF Merge, Old
<1> DEFINE base == [old EXCEPT !.ids = old.ids \cup attached,
                               !.venue = FirstOf(old.venue, said.venue)]
           row  == ApplyCandidate(base, said)
<1>4. /\ paper' \in WithCopies(row, said) /\ seen' = seen \cup {said}
      /\ overdue' = (overdue \/ old.ids # row.ids)
  BY <1>3
<1> HIDE DEF said, old
<1>5. base \in Row
  <2> DEFINE ids == old.ids \cup attached
             venue == FirstOf(old.venue, said.venue)
             p1 == [old EXCEPT !.ids = ids]
  <2>1. base = [p1 EXCEPT !.venue = venue]
    OBVIOUS
  <2>2. ids \subseteq WorkIds /\ venue \in Values("venue") \cup {Null}
    BY <1>1, <1>2 DEF Row, Statement, FirstOf
  <2> HIDE DEF ids, venue, base
  <2>3. p1 \in Row
    BY <1>2, <2>2 DEF Row
  <2> HIDE DEF p1
  <2> QED
    BY <2>1, <2>2, <2>3 DEF Row
<1>6. /\ base.topics = old.topics /\ base.peer = old.peer /\ base.preprint = old.preprint
      /\ base.oa = old.oa /\ base.online = old.online /\ base.abstract = old.abstract
      /\ base.abstractSource = old.abstractSource /\ base.ids = old.ids \cup attached
      /\ base.retraction = old.retraction /\ base.copies = old.copies /\ base.best = old.best
  BY <1>2 DEF Row
<1> HIDE DEF base
<1>7. AbstractTakes(base, said) = AbstractTakes(old, said)
  BY <1>6 DEF AbstractTakes
<1>8. /\ row \in Row
      /\ row.topics = base.topics \cup said.topics
      /\ row.fields = FieldsFor(base.topics \cup said.topics)
      /\ row.peer = (base.peer \/ said.peer)
      /\ row.preprint = (base.preprint /\ (said.preprint \/ ~ (base.peer \/ said.peer)))
      /\ row.oa = Better(base.oa, said.oa)
      /\ row.online = Earliest(base.online, said.online)
      /\ row.abstract = IF AbstractTakes(base, said) THEN said.abstract ELSE base.abstract
      /\ row.abstractSource = IF AbstractTakes(base, said) THEN said.source ELSE base.abstractSource
      /\ row.copies = base.copies /\ row.best = base.best
      /\ row.ids = base.ids /\ row.retraction = base.retraction
  BY <1>1, <1>5, ApplyCandidateFields, ApplyCandidateIsARow
<1> HIDE DEF row
<1>9. /\ paper' \in Row
      /\ paper'.topics = row.topics /\ paper'.fields = row.fields /\ paper'.peer = row.peer
      /\ paper'.preprint = row.preprint /\ paper'.oa = row.oa /\ paper'.online = row.online
      /\ paper'.abstract = row.abstract /\ paper'.abstractSource = row.abstractSource
      /\ paper'.ids = row.ids /\ paper'.retraction = row.retraction
      /\ IF said.copies = {} THEN paper'.copies = row.copies /\ paper'.best = row.best
         ELSE \E l \in BestOf(paper'.copies) : l.url = paper'.best
  <2>1. CASE said.copies = {}
    <3>1. paper' = row
      BY <1>4, <2>1 DEF WithCopies
    <3> QED
      BY <1>8, <2>1, <3>1
  <2>2. CASE said.copies # {}
    <3> DEFINE copies == CopiesWith(row, said)
    <3>1. PICK l \in BestOf(copies) :
             paper' = [row EXCEPT !.copies = copies, !.best = l.url,
                                  !.licence = FirstOf(row.licence, l.licence)]
      BY <1>4, <2>2 DEF WithCopies
    <3>2. copies \subseteq Location
      BY <1>1, <1>8, CopiesAreLocations
    <3> HIDE DEF copies
    <3>3. l \in copies
      BY DEF BestOf
    <3>4. l \in Location /\ l.url \in Urls /\ l.licence \in Licences
      BY <3>2, <3>3 DEF Location
    <3> DEFINE licence == FirstOf(row.licence, l.licence)
               p1 == [row EXCEPT !.copies = copies]
               p2 == [p1 EXCEPT !.best = l.url]
    <3>5. licence \in Licences \cup {Null}
      BY <1>8, <3>4 DEF Row, FirstOf
    <3>6. paper' = [p2 EXCEPT !.licence = licence]
      BY <3>1
    <3> HIDE DEF licence
    <3>7. p1 \in Row /\ p1.copies = copies
      BY <1>8, <3>2 DEF Row
    <3>8. /\ p1.topics = row.topics /\ p1.fields = row.fields /\ p1.peer = row.peer
          /\ p1.preprint = row.preprint /\ p1.oa = row.oa /\ p1.online = row.online
          /\ p1.abstract = row.abstract /\ p1.abstractSource = row.abstractSource
          /\ p1.ids = row.ids /\ p1.retraction = row.retraction
      BY <1>8 DEF Row
    <3> HIDE DEF p1
    <3>9. p2 \in Row /\ p2.copies = copies /\ p2.best = l.url
      BY <3>4, <3>7 DEF Row
    <3>10. /\ p2.topics = row.topics /\ p2.fields = row.fields /\ p2.peer = row.peer
           /\ p2.preprint = row.preprint /\ p2.oa = row.oa /\ p2.online = row.online
           /\ p2.abstract = row.abstract /\ p2.abstractSource = row.abstractSource
           /\ p2.ids = row.ids /\ p2.retraction = row.retraction
      BY <3>7, <3>8 DEF Row
    <3> HIDE DEF p2
    <3>11. paper' \in Row /\ paper'.copies = copies /\ paper'.best = l.url
      BY <3>5, <3>6, <3>9 DEF Row
    <3>12. /\ paper'.topics = row.topics /\ paper'.fields = row.fields /\ paper'.peer = row.peer
           /\ paper'.preprint = row.preprint /\ paper'.oa = row.oa /\ paper'.online = row.online
           /\ paper'.abstract = row.abstract /\ paper'.abstractSource = row.abstractSource
           /\ paper'.ids = row.ids /\ paper'.retraction = row.retraction
      BY <3>6, <3>9, <3>10 DEF Row
    <3> QED
      BY <2>2, <3>11, <3>12
  <2> QED
    BY <2>1, <2>2
<1>10. /\ paper'.topics = old.topics \cup said.topics
      /\ paper'.fields = FieldsFor(old.topics \cup said.topics)
      /\ paper'.peer = (old.peer \/ said.peer)
      /\ paper'.preprint = (old.preprint /\ (said.preprint \/ ~ (old.peer \/ said.peer)))
      /\ paper'.oa = Better(old.oa, said.oa) /\ paper'.online = Earliest(old.online, said.online)
  BY <1>6, <1>8, <1>9
<1>11. /\ paper'.abstract = IF AbstractTakes(old, said) THEN said.abstract ELSE old.abstract
       /\ paper'.abstractSource = IF AbstractTakes(old, said) THEN said.source
                                  ELSE old.abstractSource
       /\ old.ids \subseteq paper'.ids /\ paper'.retraction = old.retraction
       /\ overdue' = (overdue \/ old.ids # paper'.ids)
  BY <1>4, <1>6, <1>7, <1>8, <1>9
<1> QED
  BY <1>1, <1>2, <1>4, <1>6, <1>8, <1>9, <1>10, <1>11 DEF said, old

-----------------------------------------------------------------------------
\* Before a merge the old row holds what was said before; a new row, nothing.
LEMMA OldFields ==
    ASSUME RowTypeOK, RowInv, NEW c \in Statement
    PROVE  /\ Old(c).topics = UNION {d.topics : d \in seen}
           /\ Old(c).peer \/ c.peer <=> everLinked \/ \E d \in seen \cup {c} : d.peer
           /\ \A d \in seen : OaRank[d.oa] <= OaRank[Old(c).oa]
           /\ Old(c).oa \in {"unknown"} \cup {d.oa : d \in seen}
           /\ \A d \in seen : d.online # Null => Old(c).online # Null /\ Old(c).online <= d.online
           /\ Old(c).online # Null => /\ Old(c).online \in {d.online : d \in seen}
                                      /\ Old(c).online <= today + Horizon
           /\ Old(c).abstract = 0 => \A d \in seen : d.abstract = 0
           /\ Old(c).abstract # 0 => Old(c).abstractSource \in Sources
           /\ \A d \in seen : d.abstract > 0 =>
                 /\ Rank(AbstractPriority, d.source) <= Rank(AbstractPriority, Old(c).abstractSource)
                 /\ d.source = Old(c).abstractSource => d.abstract <= Old(c).abstract
<1>1. CASE paper = Null
  <2>1. seen = {} /\ ~ everLinked
    BY <1>1 DEF RowTypeOK
  <2>2. /\ Old(c).topics = {} /\ Old(c).peer = c.peer /\ Old(c).oa = "unknown"
        /\ Old(c).online = Null /\ Old(c).abstract = 0
    BY <1>1 DEF Old, NewPaper
  <2> QED
    BY <2>1, <2>2
<1>2. CASE paper # Null
  <2>1. Old(c) = paper
    BY <1>2 DEF Old
  <2>2. FieldsInv
    BY <1>2 DEF RowInv
  <2> QED
    BY <2>1, <2>2 DEF FieldsInv, TopicsAreAll, PeerIsAny, OaIsMostOpen, OnlineIsEarliest,
                      AbstractIsBest
<1> QED
  BY <1>1, <1>2

LEMMA MergeKeepsFields ==
    ASSUME RowTypeOK, RowInv, NEW c \in Statements, Merge(c), UNCHANGED <<everLinked, today>>
    PROVE  FieldsInv'
<1> DEFINE said == Sanitised(c)
           old  == Old(said)
<1>1. /\ said \in Statement /\ old \in Row /\ paper' \in Row
      /\ seen' = seen \cup {said}
      /\ paper'.topics = old.topics \cup said.topics
      /\ paper'.fields = FieldsFor(old.topics \cup said.topics)
      /\ paper'.peer = (old.peer \/ said.peer)
      /\ paper'.oa = Better(old.oa, said.oa)
      /\ paper'.online = Earliest(old.online, said.online)
      /\ paper'.abstract = IF AbstractTakes(old, said) THEN said.abstract ELSE old.abstract
      /\ paper'.abstractSource = IF AbstractTakes(old, said) THEN said.source
                                 ELSE old.abstractSource
  BY MergedRow
<1>2. IsPlausible(said.online)
  BY SanitisedIsACandidate, StatementsAreWellFormed
<1>3. seen \subseteq Statement
  BY DEF RowInv
<1>4. /\ old.topics = UNION {d.topics : d \in seen}
      /\ old.peer \/ said.peer <=> everLinked \/ \E d \in seen \cup {said} : d.peer
      /\ \A d \in seen : OaRank[d.oa] <= OaRank[old.oa]
      /\ old.oa \in {"unknown"} \cup {d.oa : d \in seen}
      /\ \A d \in seen : d.online # Null => old.online # Null /\ old.online <= d.online
      /\ old.online # Null => /\ old.online \in {d.online : d \in seen}
                              /\ old.online <= today + Horizon
      /\ old.abstract = 0 => \A d \in seen : d.abstract = 0
      /\ old.abstract # 0 => old.abstractSource \in Sources
      /\ \A d \in seen : d.abstract > 0 =>
            /\ Rank(AbstractPriority, d.source) <= Rank(AbstractPriority, old.abstractSource)
            /\ d.source = old.abstractSource => d.abstract <= old.abstract
  BY <1>1, OldFields
<1> HIDE DEF said, old
<1>5. TopicsAreAll'
  BY <1>1, <1>4 DEF TopicsAreAll, FieldsFor
<1>6. PeerIsAny'
  BY <1>1, <1>4 DEF PeerIsAny
<1>7. OaIsMostOpen'
  <2>1. /\ old.oa \in DOMAIN OaRank /\ said.oa \in DOMAIN OaRank
        /\ \A d \in seen : d.oa \in DOMAIN OaRank
    BY <1>1, <1>3 DEF Row, Statement
  <2>2. /\ OaRank[old.oa] \in Nat /\ OaRank[said.oa] \in Nat
        /\ \A d \in seen : OaRank[d.oa] \in Nat
    BY <2>1, Ranks
  <2>3. \A d \in seen' : OaRank[d.oa] <= OaRank[paper'.oa]
    BY <1>1, <1>4, <2>2 DEF Better
  <2>4. CASE OaRank[said.oa] > OaRank[old.oa]
    BY <1>1, <2>3, <2>4 DEF OaIsMostOpen, Better
  <2>5. CASE ~ (OaRank[said.oa] > OaRank[old.oa])
    BY <1>1, <1>4, <2>3, <2>5 DEF OaIsMostOpen, Better
  <2> QED
    BY <2>4, <2>5
<1>8. OnlineIsEarliest'
  <2>1. /\ old.online \in Nat \cup {Null} /\ said.online \in Nat \cup {Null} /\ Null \notin Nat
        /\ \A d \in seen : d.online \in Nat \cup {Null}
    BY <1>1, <1>3, NullIsNoValue DEF Row, Statement
  <2>2. said.online # Null => said.online <= today + Horizon
    BY <1>2 DEF IsPlausible
  <2>3. today \in Int /\ Horizon \in Int
    BY DaysAreNatural DEF RowTypeOK
  <2>4. \A d \in seen' : d.online # Null => paper'.online # Null /\ paper'.online <= d.online
    BY <1>1, <1>4, <2>1 DEF Earliest
  <2>5. paper'.online # Null => /\ paper'.online = said.online \/ paper'.online = old.online
                                /\ paper'.online <= today + Horizon
    BY <1>1, <1>4, <2>1, <2>2, <2>3 DEF Earliest
  <2>6. paper'.online # Null => paper'.online \in {d.online : d \in seen'}
    <3>1. CASE paper'.online = said.online
      BY <1>1, <3>1
    <3>2. CASE paper'.online = old.online
      BY <1>1, <1>4, <3>2
    <3> QED
      BY <2>5, <3>1, <3>2
  <2> QED
    BY <2>4, <2>5, <2>6 DEF OnlineIsEarliest
<1>9. AbstractIsBest'
  <2>1. /\ old.abstract \in Nat /\ said.abstract \in Nat
        /\ old.abstractSource \in Sources \cup {Null} /\ said.source \in Sources
        /\ \A d \in seen : d.abstract \in Nat /\ d.source \in Sources
    BY <1>1, <1>3 DEF Row, Statement
  <2>2. /\ \A s \in Sources : Rank(AbstractPriority, s) \in Nat /\ Rank(AbstractPriority, s) > 0
        /\ Rank(AbstractPriority, Null) = 0
        /\ \A s, t \in Sources :
              Rank(AbstractPriority, s) = Rank(AbstractPriority, t) => s = t
    BY Ranks, NullIsNoValue DEF Rank
  <2>3. CASE AbstractTakes(old, said)
    <3>1. paper'.abstract = said.abstract /\ paper'.abstractSource = said.source
          /\ said.abstract > 0
      BY <1>1, <2>3 DEF AbstractTakes
    <3>2. ASSUME NEW d \in seen, d.abstract > 0
          PROVE  /\ Rank(AbstractPriority, d.source) <= Rank(AbstractPriority, said.source)
                 /\ d.source = said.source => d.abstract <= said.abstract
      <4>1. old.abstract # 0 /\ old.abstractSource \in Sources
        BY <1>4, <2>1, <3>2
      <4>2. /\ Rank(AbstractPriority, d.source) <= Rank(AbstractPriority, old.abstractSource)
            /\ d.source = old.abstractSource => d.abstract <= old.abstract
        BY <1>4, <3>2
      <4>3. \/ Rank(AbstractPriority, said.source) > Rank(AbstractPriority, old.abstractSource)
            \/ /\ Rank(AbstractPriority, said.source) = Rank(AbstractPriority, old.abstractSource)
               /\ said.abstract > old.abstract
        BY <2>3, <4>1 DEF AbstractTakes
      <4> QED
        BY <2>1, <2>2, <4>1, <4>2, <4>3
    <3> QED
      BY <1>1, <2>1, <2>2, <3>1, <3>2 DEF AbstractIsBest
  <2>4. CASE ~ AbstractTakes(old, said)
    <3>1. paper'.abstract = old.abstract /\ paper'.abstractSource = old.abstractSource
      BY <1>1, <2>4
    <3>2. said.abstract > 0 =>
             /\ old.abstract # 0 /\ old.abstractSource \in Sources
             /\ Rank(AbstractPriority, said.source) <= Rank(AbstractPriority, old.abstractSource)
             /\ said.source = old.abstractSource => said.abstract <= old.abstract
      BY <1>4, <2>1, <2>2, <2>4 DEF AbstractTakes
    <3> QED
      BY <1>1, <1>4, <2>1, <3>1, <3>2 DEF AbstractIsBest
  <2> QED
    BY <2>3, <2>4
<1> QED
  BY <1>5, <1>6, <1>7, <1>8, <1>9 DEF FieldsInv

LEMMA MergeKeepsStatus ==
    ASSUME RowTypeOK, RowInv, NEW c \in Statements, Merge(c), notice' = notice
    PROVE  StatusIsSeverest'
<1> DEFINE said == Sanitised(c)
           old  == Old(said)
<1>1. /\ paper'.retraction = old.retraction
      /\ overdue' = (overdue \/ old.ids # paper'.ids)
  BY MergedRow
<1>2. SUFFICES ASSUME ~overdue', Noticed(paper', notice') # {}
               PROVE  paper'.retraction = Severest(Noticed(paper', notice'))
  BY DEF StatusIsSeverest
<1>3. ~overdue /\ paper'.ids = old.ids
  BY <1>1, <1>2
<1>4. old.ids # {}
  BY <1>2, <1>3 DEF Noticed
<1>5. old = paper /\ paper # Null
  BY <1>4 DEF Old, NewPaper
<1>6. Noticed(paper', notice') = Noticed(paper, notice)
  BY <1>3, <1>5 DEF Noticed
<1> QED
  BY <1>1, <1>2, <1>3, <1>5, <1>6 DEF RowInv, StatusIsSeverest

LEMMA MergeKeepsRow ==
    ASSUME RowTypeOK, RowInv, NEW c \in Statements, Merge(c), ~Declined(c), everLinked' = everLinked
    PROVE  RowIsConsistent'
<1> DEFINE said == Sanitised(c)
           old  == Old(said)
<1>1. /\ said \in Statement /\ old \in Row /\ paper' \in Row
      /\ seen' = seen \cup {said}
      /\ paper'.preprint = (old.preprint /\ (said.preprint \/ ~ (old.peer \/ said.peer)))
      /\ IF said.copies = {} THEN paper'.copies = old.copies /\ paper'.best = old.best
         ELSE \E l \in BestOf(paper'.copies) : l.url = paper'.best
  BY MergedRow
<1>2. PreprintUntilPublished'
  <2>1. old.preprint => ~ everLinked /\ \A d \in seen : ~ (d.peer /\ ~ d.preprint)
    BY DEF RowInv, RowIsConsistent, PreprintUntilPublished, Old, RowTypeOK
  <2> HIDE DEF said, old
  <2> QED
    BY <1>1, <2>1 DEF PreprintUntilPublished
<1>3. BestCopyIsElected'
  <2>1. old.copies # {} => \E l \in BestOf(old.copies) : l.url = old.best
    BY DEF RowInv, RowIsConsistent, BestCopyIsElected, Old, NewPaper
  <2> HIDE DEF said, old
  <2> QED
    BY <1>1, <2>1 DEF BestCopyIsElected
<1>4. PaperIsCorroborated'
  <2>1. /\ said.source = c.source /\ said.workType = c.workType
        /\ said.venue = c.venue /\ said.repositoryDoi = c.repositoryDoi
    BY SanitisedIsACandidate, StatementsAreWellFormed
  <2> HIDE DEF said, old
  <2>2. IsDiscoveryEligible(said) /\ (IsGeneralRepository(said) => IsGeneralRepository(c))
    BY <2>1 DEF Declined, IsDiscoveryEligible, IsGeneralRepository
  <2>3. CASE paper = Null
    <3>1. seen' = {said} /\ ~IsGeneralRepository(said)
      BY <1>1, <2>2, <2>3 DEF RowTypeOK, Declined
    <3> QED
      BY <2>2, <3>1 DEF PaperIsCorroborated
  <2>4. CASE paper # Null
    BY <1>1, <2>2, <2>4 DEF RowInv, RowIsConsistent, PaperIsCorroborated
  <2> QED
    BY <2>3, <2>4
<1> QED
  BY <1>2, <1>3, <1>4 DEF RowIsConsistent

-----------------------------------------------------------------------------
LEMMA ProcessRecordKeepsInv ==
    ASSUME RowTypeOK, RowInv, NEW c \in Statements, ProcessRecord(c),
           UNCHANGED <<linked, everLinked, notice, today>>
    PROVE  RowTypeOK' /\ RowInv'
<1>1. ASSUME NEW b \in BOOLEAN, Put(c, b)
      PROVE  record' \in [Sources -> {Null} \cup [payload : Statements, attached : BOOLEAN]]
  <2>1. c.source \in Sources
    BY StatementsAreWellFormed DEF Statement
  <2> QED
    BY <1>1, <2>1 DEF Put, RowTypeOK
<1>2. CASE Declined(c)
  <2>1. /\ UNCHANGED <<paper, seen, overdue>>
        /\ record' \in [Sources -> {Null} \cup [payload : Statements, attached : BOOLEAN]]
    BY <1>1, <1>2 DEF ProcessRecord, Decline, RowTypeOK
  <2>2. RowTypeOK'
    BY <2>1 DEF RowTypeOK
  <2>3. (paper # Null => FieldsInv)'
    BY <2>1 DEF RowInv, FieldsInv, TopicsAreAll, PeerIsAny, OaIsMostOpen, OnlineIsEarliest,
                AbstractIsBest
  <2>4. StatusIsSeverest' /\ RowIsConsistent'
    BY <2>1 DEF RowInv, StatusIsSeverest, Noticed, RowIsConsistent, PreprintUntilPublished,
                BestCopyIsElected, PaperIsCorroborated
  <2> QED
    BY <2>1, <2>2, <2>3, <2>4 DEF RowInv
<1>3. CASE ~Declined(c)
  <2>1. Merge(c)
    BY <1>3 DEF ProcessRecord
  <2>2. paper' \in Row /\ seen' = seen \cup {Sanitised(c)} /\ Sanitised(c) \in Statement
    BY <2>1, MergedRow
  <2>3. overdue' \in BOOLEAN
    BY <2>1 DEF Merge, RowTypeOK
  <2>4. RowTypeOK'
    BY <1>1, <2>1, <2>2, <2>3, NullIsNoRow DEF Merge, RowTypeOK
  <2>5. FieldsInv' /\ StatusIsSeverest' /\ RowIsConsistent'
    BY <1>3, <2>1, MergeKeepsFields, MergeKeepsStatus, MergeKeepsRow
  <2> QED
    BY <2>2, <2>4, <2>5 DEF RowInv
<1> QED
  BY <1>2, <1>3

LEMMA SyncKeepsInv ==
    ASSUME RowTypeOK, RowInv, NEW n \in Notices, NEW nature \in Natures, SyncRetractions(n, nature)
    PROVE  RowTypeOK' /\ RowInv'
<1>1. /\ notice' = [notice EXCEPT ![n] = nature] /\ overdue' = FALSE
      /\ paper' = IF paper = Null THEN Null
                  ELSE [paper EXCEPT !.retraction = StatusAfter(paper, notice')]
      /\ UNCHANGED <<record, seen, linked, everLinked, today>>
  BY DEF SyncRetractions
<1>2. notice' \in [Notices -> Natures \cup {Null}]
  BY <1>1 DEF RowTypeOK
<1>3. CASE paper = Null
  <2>1. paper' = Null
    BY <1>1, <1>3
  <2> QED
    BY <1>1, <1>2, <1>3, <2>1 DEF RowTypeOK, RowInv, StatusIsSeverest, RowIsConsistent,
       PreprintUntilPublished, BestCopyIsElected, PaperIsCorroborated
<1>4. CASE paper # Null
  <2> DEFINE status == StatusAfter(paper, notice')
  <2>1. paper \in Row /\ paper' = [paper EXCEPT !.retraction = status]
    BY <1>1, <1>4 DEF RowTypeOK
  <2>2. status \in DOMAIN Severity
    <3>1. CASE Noticed(paper, notice') = {}
      BY <2>1, <3>1 DEF StatusAfter, Row
    <3>2. CASE Noticed(paper, notice') # {}
      <4>1. Noticed(paper, notice') \subseteq DOMAIN Severity
        BY StatusesAreRanked DEF Noticed
      <4> QED
        BY <3>2, <4>1, SeverestIsOneOf DEF StatusAfter
    <3> QED
      BY <3>1, <3>2
  <2>3. Noticed(paper, notice') # {} => status = Severest(Noticed(paper, notice'))
    BY DEF StatusAfter
  <2> HIDE DEF status
  <2>4. paper' \in Row /\ paper'.retraction = status /\ paper'.ids = paper.ids
    BY <2>1, <2>2 DEF Row
  <2>5. /\ paper'.topics = paper.topics /\ paper'.fields = paper.fields /\ paper'.peer = paper.peer
        /\ paper'.oa = paper.oa /\ paper'.online = paper.online
        /\ paper'.abstract = paper.abstract /\ paper'.abstractSource = paper.abstractSource
        /\ paper'.preprint = paper.preprint /\ paper'.copies = paper.copies
        /\ paper'.best = paper.best
    BY <2>1 DEF Row
  <2>6. RowTypeOK'
    BY <1>1, <1>2, <2>4, NullIsNoRow DEF RowTypeOK
  <2>7. StatusIsSeverest'
    <3>1. Noticed(paper', notice') = Noticed(paper, notice')
      BY <2>4 DEF Noticed
    <3> QED
      BY <2>3, <2>4, <3>1 DEF StatusIsSeverest
  <2>8. RowIsConsistent'
    BY <1>1, <1>4, <2>5 DEF RowInv, RowIsConsistent, PreprintUntilPublished, BestCopyIsElected,
                            PaperIsCorroborated
  <2>9. FieldsInv'
    BY <1>1, <1>4, <2>5 DEF RowInv, FieldsInv, TopicsAreAll, PeerIsAny, OaIsMostOpen,
                            OnlineIsEarliest, AbstractIsBest
  <2> QED
    BY <1>1, <2>6, <2>7, <2>8, <2>9 DEF RowInv
<1> QED
  BY <1>3, <1>4

\* A preprint comes or goes.
LEMMA LinkKeepsInv ==
    ASSUME RowTypeOK, RowInv, NEW x \in Preprints, LinkAsPublished(x) \/ LosePreprint(x)
    PROVE  RowTypeOK' /\ RowInv'
<1>1. CASE LinkAsPublished(x)
  <2> DEFINE yes == TRUE
             no  == FALSE
             p1  == [paper EXCEPT !.peer = yes]
  <2>1. /\ paper # Null /\ paper \in Row /\ paper' = [p1 EXCEPT !.preprint = no]
        /\ linked' = linked \cup {x} /\ everLinked' = TRUE
        /\ UNCHANGED <<record, seen, notice, overdue, today>>
    BY <1>1 DEF LinkAsPublished, RowTypeOK
  <2>2. yes \in BOOLEAN /\ no \in BOOLEAN
    OBVIOUS
  <2> HIDE DEF yes, no
  <2>3. p1 \in Row /\ p1.peer = yes
    BY <2>1, <2>2 DEF Row
  <2>4. /\ p1.topics = paper.topics /\ p1.fields = paper.fields
        /\ p1.oa = paper.oa /\ p1.online = paper.online
        /\ p1.abstract = paper.abstract /\ p1.abstractSource = paper.abstractSource
        /\ p1.copies = paper.copies /\ p1.best = paper.best
        /\ p1.ids = paper.ids /\ p1.retraction = paper.retraction
    BY <2>1 DEF Row
  <2> HIDE DEF p1
  <2>5. paper' \in Row /\ paper'.peer = yes /\ paper'.preprint = no
    BY <2>1, <2>2, <2>3 DEF Row
  <2>6. /\ paper'.topics = p1.topics /\ paper'.fields = p1.fields
        /\ paper'.oa = p1.oa /\ paper'.online = p1.online
        /\ paper'.abstract = p1.abstract /\ paper'.abstractSource = p1.abstractSource
        /\ paper'.copies = p1.copies /\ paper'.best = p1.best
        /\ paper'.ids = p1.ids /\ paper'.retraction = p1.retraction
    BY <2>1, <2>3 DEF Row
  <2>7. /\ paper' \in Row /\ paper'.peer = TRUE /\ paper'.preprint = FALSE
        /\ paper'.topics = paper.topics /\ paper'.fields = paper.fields
        /\ paper'.oa = paper.oa /\ paper'.online = paper.online
        /\ paper'.abstract = paper.abstract /\ paper'.abstractSource = paper.abstractSource
        /\ paper'.copies = paper.copies /\ paper'.best = paper.best
        /\ paper'.ids = paper.ids /\ paper'.retraction = paper.retraction
    BY <2>4, <2>5, <2>6 DEF yes, no
  <2>8. RowTypeOK'
    <3>1. linked' \in SUBSET Preprints /\ everLinked' \in BOOLEAN /\ paper' # Null
      BY <2>1, <2>7, NullIsNoRow DEF RowTypeOK
    <3> QED
      BY <2>1, <2>7, <3>1 DEF RowTypeOK
  <2>9. StatusIsSeverest'
    BY <2>1, <2>7 DEF RowInv, StatusIsSeverest, Noticed
  <2>10. RowIsConsistent'
    BY <2>1, <2>7 DEF RowInv, RowIsConsistent, PreprintUntilPublished, BestCopyIsElected,
                      PaperIsCorroborated
  <2>11. FieldsInv'
    BY <2>1, <2>7 DEF RowInv, FieldsInv, TopicsAreAll, PeerIsAny, OaIsMostOpen,
                      OnlineIsEarliest, AbstractIsBest
  <2> QED
    BY <2>1, <2>8, <2>9, <2>10, <2>11 DEF RowInv
<1>2. CASE LosePreprint(x)
  <2>1. /\ linked' \in SUBSET Preprints
        /\ UNCHANGED <<paper, record, seen, everLinked, notice, overdue, today>>
    BY <1>2 DEF LosePreprint, RowTypeOK
  <2>2. RowTypeOK'
    BY <2>1 DEF RowTypeOK
  <2>3. (paper # Null => FieldsInv)'
    BY <2>1 DEF RowInv, FieldsInv, TopicsAreAll, PeerIsAny, OaIsMostOpen, OnlineIsEarliest,
                AbstractIsBest
  <2>4. StatusIsSeverest' /\ RowIsConsistent'
    BY <2>1 DEF RowInv, StatusIsSeverest, Noticed, RowIsConsistent, PreprintUntilPublished,
                BestCopyIsElected, PaperIsCorroborated
  <2> QED
    BY <2>1, <2>2, <2>3, <2>4 DEF RowInv
<1> QED
  BY <1>1, <1>2

\* Time moves on: a day that was believable stays so.
LEMMA TickKeepsInv ==
    ASSUME RowTypeOK, RowInv, Tick
    PROVE  RowTypeOK' /\ RowInv'
<1>1. /\ today < LastDay /\ today' = today + 1 /\ today \in Nat /\ Horizon \in Nat
      /\ UNCHANGED <<paper, record, seen, linked, everLinked, notice, overdue>>
  BY DaysAreNatural DEF Tick, RowTypeOK
<1>2. RowTypeOK'
  BY <1>1, DaysAreNatural DEF RowTypeOK
<1>3. paper # Null => OnlineIsEarliest'
  <2> SUFFICES ASSUME paper # Null PROVE OnlineIsEarliest'
    OBVIOUS
  <2>1. OnlineIsEarliest
    BY DEF RowInv, FieldsInv
  <2>2. paper.online # Null => paper.online \in Nat
    BY DEF RowTypeOK, Row
  <2> QED
    BY <1>1, <2>1, <2>2 DEF OnlineIsEarliest
<1>4. (paper # Null => FieldsInv)'
  BY <1>1, <1>3 DEF RowInv, FieldsInv, TopicsAreAll, PeerIsAny, OaIsMostOpen, AbstractIsBest
<1>5. StatusIsSeverest' /\ RowIsConsistent'
  BY <1>1 DEF RowInv, StatusIsSeverest, Noticed, RowIsConsistent, PreprintUntilPublished,
              BestCopyIsElected, PaperIsCorroborated
<1> QED
  BY <1>1, <1>2, <1>4, <1>5 DEF RowInv

LEMMA InitIsSafe == RowInit => RowTypeOK /\ RowInv
<1> SUFFICES ASSUME RowInit PROVE RowTypeOK /\ RowInv
  OBVIOUS
<1>1. today \in 0 .. LastDay
  BY DaysAreNatural DEF RowInit
<1>2. RowTypeOK
  BY <1>1 DEF RowInit, RowTypeOK
<1>3. StatusIsSeverest /\ RowIsConsistent
  BY DEF RowInit, StatusIsSeverest, RowIsConsistent, PreprintUntilPublished, BestCopyIsElected,
         PaperIsCorroborated
<1>4. seen \subseteq Statement /\ paper = Null
  BY DEF RowInit
<1> QED
  BY <1>2, <1>3, <1>4 DEF RowInv

LEMMA NextKeepsInv == RowTypeOK /\ RowInv /\ [RowNext]_rowVars => RowTypeOK' /\ RowInv'
<1> SUFFICES ASSUME RowTypeOK, RowInv, [RowNext]_rowVars PROVE RowTypeOK' /\ RowInv'
  OBVIOUS
<1>1. ASSUME NEW c \in Statements, Harvest(c) \/ Replay(c) PROVE RowTypeOK' /\ RowInv'
  BY <1>1, ProcessRecordKeepsInv DEF Harvest, Replay
<1>2. ASSUME NEW n \in Notices, NEW nature \in Natures, SyncRetractions(n, nature)
      PROVE  RowTypeOK' /\ RowInv'
  BY <1>2, SyncKeepsInv
<1>3. CASE Tick
  BY <1>3, TickKeepsInv
<1>4. ASSUME NEW x \in Preprints, LinkAsPublished(x) \/ LosePreprint(x)
      PROVE  RowTypeOK' /\ RowInv'
  BY <1>4, LinkKeepsInv
<1>5. CASE UNCHANGED rowVars
  <2>1. RowTypeOK'
    BY <1>5 DEF RowTypeOK, rowVars
  <2>2. (paper # Null => FieldsInv)'
    BY <1>5 DEF RowInv, FieldsInv, TopicsAreAll, PeerIsAny, OaIsMostOpen, OnlineIsEarliest,
                AbstractIsBest, rowVars
  <2>3. StatusIsSeverest' /\ RowIsConsistent'
    BY <1>5 DEF RowInv, StatusIsSeverest, Noticed, RowIsConsistent, PreprintUntilPublished,
                BestCopyIsElected, PaperIsCorroborated, rowVars
  <2> QED
    BY <1>5, <2>1, <2>2, <2>3 DEF RowInv, rowVars
<1> QED
  BY <1>1, <1>2, <1>3, <1>5, <1>4 DEF RowNext

-----------------------------------------------------------------------------
\* A paper's row and the records of it keep their types, whatever the sources
\* send (pipeline.process_record, merge.apply_candidate, oa.apply_locations).
THEOREM RowTypeCorrect == RowSpec => []RowTypeOK
  BY InitIsSafe, NextKeepsInv, PTL DEF RowSpec

\* The row in terms of everything the sources have ever said of the work.
THEOREM RowInvariance == RowSpec => []RowInv
  BY InitIsSafe, NextKeepsInv, PTL DEF RowSpec

\* The topics, the peer review, the openness and the day online do not depend
\* on which source spoke first, or how often (merge.apply_candidate).
THEOREM OrderIsNoMatter == RowSpec => []OrderDoesNotMatter
<1>1. RowInv => OrderDoesNotMatter
  BY DEF RowInv, OrderDoesNotMatter, FieldsInv, TopicsAreAll, PeerIsAny, OaIsMostOpen,
         OnlineIsEarliest
<1> QED
  BY <1>1, RowInvariance, PTL

\* The abstract is the longest of the best source that has sent one
\* (merge.ABSTRACT_PRIORITY).
THEOREM TheBestAbstractStays == RowSpec => []AbstractIsTheBest
<1>1. RowTypeOK /\ RowInv => AbstractIsTheBest
  <2> SUFFICES ASSUME RowTypeOK, RowInv, paper # Null, NEW c \in seen, c.abstract > 0
               PROVE  /\ paper.abstractSource # Null
                      /\ Rank(AbstractPriority, c.source)
                           <= Rank(AbstractPriority, paper.abstractSource)
                      /\ c.source = paper.abstractSource => c.abstract <= paper.abstract
    BY DEF AbstractIsTheBest
  <2>1. AbstractIsBest
    BY DEF RowInv, FieldsInv
  <2>2. paper.abstract # 0
    BY <2>1 DEF AbstractIsBest
  <2> QED
    BY <2>1, <2>2, NullIsNoValue DEF AbstractIsBest
<1> QED
  BY <1>1, RowTypeCorrect, RowInvariance, PTL

\* A retraction status is the severest of the notices that name the paper, and
\* no later merge hides it (retractions.apply_to_papers).
THEOREM TheSeverestNoticeCounts == RowSpec => []StatusIsSeverest
<1>1. RowInv => StatusIsSeverest
  BY DEF RowInv
<1> QED
  BY <1>1, RowInvariance, PTL

\* A preprint until a version is published, the best copy elected, and no
\* paper that only a deposit vouches for (merge.py, oa.py, repositories.py).
THEOREM TheRowIsConsistent == RowSpec => []RowIsConsistent
<1>1. RowInv => RowIsConsistent
  BY DEF RowInv
<1> QED
  BY <1>1, RowInvariance, PTL
=============================================================================

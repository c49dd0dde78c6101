------------------------------ MODULE MCPreview ------------------------------
(***************************************************************************)
(* Six papers: p2 is a version of p1, p4 lies in the adjacency band, p5 is  *)
(* a retracted preprint close to a disliked text, p6 has no vector.         *)
(***************************************************************************)
EXTENDS Preview

CONSTANTS p1, p2, p3, p4, p5, p6, x, xx, y, w, z, f1, f2, t1, t2, r1, r2, r3

MCId == <<p1, p2, p3, p4, p5, p6>>

\* xx is x written another way, with the same canonical form.
MCTidied(s)    == s
MCCanonical(s) == IF s = xx THEN x ELSE s

\* y and w are so long that their keys are cut to the same slug.
MCSlug(s) == IF s = w THEN y ELSE MCCanonical(s)

Paper(age, fields, peer, embedded) ==
    [age |-> age, fields |-> fields, venue |-> None, citedness |-> IF peer THEN 4 ELSE 0,
     preprint |-> ~ peer, peer |-> peer, abstract |-> embedded, retracted |-> FALSE,
     embedded |-> embedded]

MCRow == (p1 :> Paper(0, {f1}, TRUE, TRUE)) @@ (p2 :> Paper(7, {f1}, FALSE, TRUE))
      @@ (p3 :> Paper(7, {f2}, TRUE, TRUE)) @@ (p4 :> Paper(0, {}, FALSE, TRUE))
      @@ (p5 :> [Paper(30, {f1, f2}, FALSE, TRUE) EXCEPT !.retracted = TRUE])
      @@ (p6 :> Paper(0, {f1}, TRUE, FALSE))

MCTopics == (p1 :> {t1}) @@ (p2 :> {t1}) @@ (p3 :> {t1, t2}) @@ (p4 :> {t2})
         @@ (p5 :> {}) @@ (p6 :> {t2})

TextCosine ==
    (x :> (p1 :> 90 @@ p2 :> 88 @@ p3 :> 84 @@ p4 :> 70 @@ p5 :> 58 @@ p6 :> 0))
 @@ (y :> (p1 :> 82 @@ p2 :> 83 @@ p3 :> 89 @@ p4 :> 66 @@ p5 :> 62 @@ p6 :> 0))
 @@ (w :> (p1 :> 82 @@ p2 :> 83 @@ p3 :> 89 @@ p4 :> 66 @@ p5 :> 62 @@ p6 :> 0))
 @@ (z :> (p1 :> 50 @@ p2 :> 50 @@ p3 :> 56 @@ p4 :> 57 @@ p5 :> 90 @@ p6 :> 0))

Versions == {p1, p2}
MCCosine(v, p) ==
    IF v \in Papers
    THEN IF v = p THEN 100 ELSE IF {v, p} = Versions THEN 97
         ELSE IF p4 \in {v, p} THEN 72 ELSE IF p5 \in {v, p} THEN 60 ELSE 85
    ELSE TextCosine[MCCanonical(v)][p]

\* exp(-age / 14)
MCDecay(age) == IF age = 0 THEN 1000 ELSE IF age <= 7 THEN 607 ELSE 117

Text(s, importance) == [text |-> s, importance |-> importance, horizon |-> "long"]
Blank == [fields |-> << >>, interests |-> << >>, examples |-> << >>, negatives |-> << >>,
          negativePapers |-> << >>, blocked |-> << >>,
          discovery |-> [freshness |-> "balanced", exploration |-> "adventurous",
                         publication |-> "include_preprints"]]

Worded   == [Blank EXCEPT !.interests = <<Text(x, "interested"), Text(xx, "core"),
                                          Text(y, "occasional")>>,
                          !.negatives = <<[text |-> z, strength |-> "avoid"]>>]
Ticked   == [Blank EXCEPT !.fields = <<f1, f2>>, !.blocked = <<t2>>,
                          !.discovery.freshness = "newest_first"]
Chosen   == [Blank EXCEPT !.examples = <<[paper |-> p3, importance |-> "core", horizon |-> "long"]>>,
                          !.fields = <<f1>>,
                          !.discovery.exploration = "focused"]
Reviewed == [Blank EXCEPT !.interests = <<Text(y, "core")>>,
                          !.discovery.publication = "peer_reviewed_only"]
Long     == [Blank EXCEPT !.interests = <<Text(y, "core"), Text(w, "core")>>]
Torn     == [Blank EXCEPT !.interests = <<Text(x, "core")>>,
                          !.negatives = <<[text |-> xx, strength |-> "less"]>>]
MCDrafts == {Worded, Ticked, Chosen, Reviewed, Long, Torn}

\* A reader who opened p1 and was shown p3 three days ago, with three others who
\* read p1 and p5; their ranker learned that peer review does not matter.
MCAccounts == {[opened |-> <<p1>>, seen |-> (p3 :> 3),
                peers |-> {r1, r2, r3} \X {p1, p5} \cup {<<r1, p4>>},
                learned |-> [quality_prior |-> -20, novelty |-> 2]]}
=============================================================================

------------------------------- MODULE Profile -------------------------------
(***************************************************************************)
(* A reader's interests and preferences (personalise/profile.py), in the    *)
(* units the feed ranks with, and the reader-facing levels those units come *)
(* from (onboarding/levels.py).                                             *)
(*                                                                         *)
(* A weight or an appetite is in hundredths.  A vector is named by what it  *)
(* encodes, a text or a paper.  confidence is 1 in every interest that      *)
(* onboarding builds, so an effective weight is the weight.                 *)
(***************************************************************************)
EXTENDS Integers, Sequences, FiniteSets, SequencesExt, Lists

CONSTANTS Texts, Papers, Fields, Topics,
          MaxInterests,     \* MAX_INTERESTS
          None

ASSUME InterestsAreBounded == MaxInterests \in Nat \ {0}

InterestKind == {"stated", "paper", "topic", "field", "author", "venue", "derived"}
SemanticKinds == {"stated", "paper", "derived"}
Horizon  == {"long", "short"}
Polarity == {"positive", "negative"}
MaxWeight == 1000

-----------------------------------------------------------------------------
(***************************************************************************)
(* Views of the interests of a profile, in the order they were built.       *)
(***************************************************************************)
IsSemantic(i) == i.kind \in SemanticKinds

Semantic(p, polarity) ==
    Among(p.interests, {i \in ToSet(p.interests) : i.polarity = polarity /\ IsSemantic(i)})

ValuesOf(p, kind, polarity) ==
    {i.value : i \in {j \in ToSet(p.interests) : j.kind = kind /\ j.polarity = polarity}}
        \ {None}

Keys(p) == {i.key : i \in ToSet(p.interests)}

\* InterestProfile.__post_init__ : what cannot be scored against is refused.
IsProfile(p) ==
    LET positive == {i \in ToSet(p.interests) : i.polarity = "positive"}
    IN  /\ Len(p.interests) \in 1..MaxInterests
        /\ Cardinality(Keys(p)) = Len(p.interests)
        /\ \E i \in positive : i.weight > 0
        /\ \A i \in ToSet(p.interests) : i.weight \in 0..MaxWeight

-----------------------------------------------------------------------------
(***************************************************************************)
(* Levels: how much a reader wants something, and how discovery is done.    *)
(***************************************************************************)
ImportanceOrder == <<"occasional", "interested", "core">>
Importance      == ToSet(ImportanceOrder)
ImportanceRank(level) == CHOOSE n \in DOMAIN ImportanceOrder : ImportanceOrder[n] = level

StepImportance(level, delta) ==
    LET moved == ImportanceRank(level) + delta
    IN  ImportanceOrder[IF moved < 1 THEN 1
                        ELSE IF moved > Len(ImportanceOrder) THEN Len(ImportanceOrder)
                        ELSE moved]

ImportanceWeight  == [core |-> 100, interested |-> 70, occasional |-> 40]
AvoidanceWeight   == [less |-> 60, avoid |-> 100]
FreshnessAppetite == [newest_first |-> 100, balanced |-> 50, relevance_first |-> 0]
ExplorationShare  == [focused |-> 5, balanced |-> 15, adventurous |-> 30]
PreprintAppetite  == [include_preprints |-> 100, prefer_peer_reviewed |-> 40,
                      peer_reviewed_only |-> 0]

RequiresPeerReview(stage) == stage = "peer_reviewed_only"

Preferences(discovery) ==
    [exploration         |-> ExplorationShare[discovery.exploration],
     recency_of_interest |-> 50,
     preprint_appetite   |-> PreprintAppetite[discovery.publication],
     freshness_appetite  |-> FreshnessAppetite[discovery.freshness]]

\* _nearest : the level whose value is closest, the first of the table on a tie.
Nearest(value, table, order) ==
    LET Distance(l) == IF table[l] > value THEN table[l] - value ELSE value - table[l]
        closest     == {n \in DOMAIN order :
                            \A m \in DOMAIN order : Distance(order[n]) <= Distance(order[m])}
    IN  order[CHOOSE n \in closest : \A m \in closest : n <= m]

ImportanceForWeight(w) == Nearest(w, ImportanceWeight, Reverse(ImportanceOrder))
AvoidanceForWeight(w)  == Nearest(w, AvoidanceWeight, <<"less", "avoid">>)
FreshnessFor(appetite) ==
    Nearest(appetite, FreshnessAppetite, <<"newest_first", "balanced", "relevance_first">>)
ExplorationFor(share) ==
    Nearest(share, ExplorationShare, <<"focused", "balanced", "adventurous">>)

PublicationFor(appetite, peerReviewedOnly) ==
    IF peerReviewedOnly THEN "peer_reviewed_only"
    ELSE IF appetite >= 70 THEN "include_preprints" ELSE "prefer_peer_reviewed"

\* The discovery choices a built profile expresses, read back from its numbers.
DiscoveryOf(p) ==
    [freshness   |-> FreshnessFor(p.preferences.freshness_appetite),
     exploration |-> ExplorationFor(p.preferences.exploration),
     publication |-> PublicationFor(p.preferences.preprint_appetite,
                                    p.require_peer_reviewed)]
=============================================================================

------------------------------ MODULE Onboarding ------------------------------
(***************************************************************************)
(* What a reader chose, and what becomes of it: a draft is validated        *)
(* (onboarding/draft.py), built into a profile (builder.py), corrected from *)
(* its preview (refine.py) and described (summary.py).  All of it is a      *)
(* function of its input, the server keeps no draft.                        *)
(*                                                                         *)
(* Labels are left out: an interest is named by its key, an issue by its    *)
(* code.                                                                   *)
(***************************************************************************)
EXTENDS Profile

CONSTANTS Tidied(_),        \* a text with its white space collapsed
          Canonical(_),     \* draft.canonical : the form texts are compared in
          Slug(_),          \* the canonical form cut to the length of a key
          Describable,      \* tidied texts of an acceptable length
          KnownFields,      \* the slugs of the taxonomy
          MaxBroadFields, MaxTextInterests, MaxExamplePapers,
          MaxNegativeInterests, MaxBlockedTopics

ASSUME KnownFieldsAreFields == KnownFields \subseteq Fields
ASSUME SlugIsOfTheCanonical ==
    \A s, t \in Texts : Canonical(s) = Canonical(t) => Slug(s) = Slug(t)
ASSUME DescribableAreTexts == Describable \subseteq Texts

Draft ==
    [fields         : Seq(Fields),
     interests      : Seq([text : Texts, importance : Importance, horizon : Horizon]),
     examples       : Seq([paper : Papers, importance : Importance, horizon : Horizon]),
     negatives      : Seq([text : Texts, strength : DOMAIN AvoidanceWeight]),
     negativePapers : Seq([paper : Papers, strength : DOMAIN AvoidanceWeight]),
     blocked        : Seq(Topics),
     discovery      : [freshness : DOMAIN FreshnessAppetite, exploration : DOMAIN ExplorationShare,
                       publication : DOMAIN PreprintAppetite]]

-----------------------------------------------------------------------------
(***************************************************************************)
(* Validation.  A list is merged on the keys of its entries: the first of a *)
(* key keeps its place, and stands[n] is the place of the entry that stands *)
(* there for those alike.                                                   *)
(***************************************************************************)
Alike(key, n) == {m \in DOMAIN key : key[m] = key[n]}
Earliest(places) == CHOOSE n \in places : \A m \in places : n <= m
Latest(places)   == CHOOSE n \in places : \A m \in places : m <= n

Merged(list, key, stands) ==
    Picked([n \in DOMAIN list |-> list[stands[n]]],
           {n \in DOMAIN list : n = Earliest(Alike(key, n))})

Firsts(key) == [n \in DOMAIN key |-> Earliest(Alike(key, n))]
Lasts(key)  == [n \in DOMAIN key |-> Latest(Alike(key, n))]

Level(list, n) == ImportanceRank(list[n].importance)
Strongest(list, key) ==
    [n \in DOMAIN key |->
       Earliest({m \in Alike(key, n) : \A k \in Alike(key, n) : Level(list, k) <= Level(list, m)})]

Avoided(list, key) ==
    [n \in DOMAIN key |->
       LET avoid == {m \in Alike(key, n) : list[m].strength = "avoid"}
       IN  IF avoid = {} THEN Earliest(Alike(key, n)) ELSE Latest(avoid)]

Described(list) ==
    LET kept == Among(list, {e \in ToSet(list) : Tidied(e.text) \in Describable})
    IN  [n \in DOMAIN kept |-> [kept[n] EXCEPT !.text = Tidied(@)]]

TextKey(e)      == Canonical(e.text)
TextKeys(list)  == [n \in DOMAIN list |-> TextKey(list[n])]
PaperKeys(list) == [n \in DOMAIN list |-> list[n].paper]

CleanFields(slugs)   == Among(Merged(slugs, slugs, Firsts(slugs)), KnownFields)
CleanInterests(list) ==
    LET kept == Described(list)
    IN  Merged(kept, TextKeys(kept), Strongest(kept, TextKeys(kept)))
CleanNegatives(list) ==
    LET kept == Described(list)
    IN  Merged(kept, TextKeys(kept), Avoided(kept, TextKeys(kept)))
CleanPapers(list)    == Merged(list, PaperKeys(list), Strongest(list, PaperKeys(list)))
CleanNegativePapers(list, examples) ==
    LET kept == Among(list, {e \in ToSet(list) : \A x \in ToSet(examples) : x.paper # e.paper})
    IN  Merged(kept, PaperKeys(kept), Lasts(PaperKeys(kept)))
CleanBlocked(topics) == Merged(topics, topics, Firsts(topics))

Cleaned(d) ==
    [d EXCEPT !.fields         = CleanFields(@),
              !.interests      = CleanInterests(@),
              !.negatives      = CleanNegatives(@),
              !.examples       = CleanPapers(@),
              !.negativePapers = CleanNegativePapers(@, CleanPapers(d.examples)),
              !.blocked        = CleanBlocked(@)]

PositiveCount(d) == Len(d.fields) + Len(d.interests) + Len(d.examples)
TotalInterests(d) == PositiveCount(d) + Len(d.negatives) + Len(d.negativePapers)

\* validate : the codes of the issues that refuse draft d.
Errors(d) ==
    LET c == Cleaned(d)
        texts == ToSet(d.interests) \cup ToSet(d.negatives)
        Issue(code, holds) == IF holds THEN {code} ELSE {}
    IN  UNION {
          Issue("unknown_field", ~ (ToSet(d.fields) \subseteq KnownFields)),
          Issue("too_many_fields", Len(c.fields) > MaxBroadFields),
          Issue("interest_length", \E e \in texts : Tidied(e.text) \notin Describable),
          Issue("too_many_interests", Len(c.interests) > MaxTextInterests),
          Issue("too_many_negatives", Len(c.negatives) > MaxNegativeInterests),
          Issue("too_many_example_papers", Len(c.examples) > MaxExamplePapers),
          Issue("too_many_blocked_topics", Len(c.blocked) > MaxBlockedTopics),
          Issue("contradictory_example_paper",
                \E e \in ToSet(d.negativePapers), x \in ToSet(c.examples) : e.paper = x.paper),
          Issue("contradictory_interest",
                \E e \in ToSet(c.negatives), x \in ToSet(c.interests) :
                   TextKey(e) = TextKey(x)),
          Issue("no_positive_interest", PositiveCount(c) = 0),
          Issue("too_many_total_interests", TotalInterests(c) > MaxInterests)}

-----------------------------------------------------------------------------
(***************************************************************************)
(* Building.  The keys are functions of the reader's own choice, so that    *)
(* the key an item of the feed names leads back to the draft.               *)
(***************************************************************************)
FieldKey(slug)            == <<"f", slug>>
InterestKey(text)         == <<"i", Slug(text)>>
NegativeInterestKey(text) == <<"n", Slug(text)>>
ExamplePaperKey(paper)    == <<"p", paper>>
NegativePaperKey(paper)   == <<"np", paper>>

Interest(key, kind, value, vector, weight, horizon, polarity) ==
    [key |-> key, kind |-> kind, value |-> value, vector |-> vector,
     weight |-> weight, horizon |-> horizon, polarity |-> polarity]

FieldInterests(d) ==
    [n \in DOMAIN d.fields |->
       Interest(FieldKey(d.fields[n]), "field", d.fields[n], None, 100, "long", "positive")]

TextInterests(d) ==
    [n \in DOMAIN d.interests |->
       LET e == d.interests[n]
       IN  Interest(InterestKey(e.text), "stated", None, e.text,
                    ImportanceWeight[e.importance], e.horizon, "positive")]
    \o
    [n \in DOMAIN d.negatives |->
       LET e == d.negatives[n]
       IN  Interest(NegativeInterestKey(e.text), "stated", None, e.text,
                    AvoidanceWeight[e.strength], "long", "negative")]

\* A chosen paper that is not in the corpus, or that has no vector yet, is left
\* out of the profile and stays in the draft.
PaperInterests(d, usable) ==
    LET examples  == Among(d.examples, {e \in ToSet(d.examples) : e.paper \in usable})
        unwanted  == Among(d.negativePapers, {e \in ToSet(d.negativePapers) : e.paper \in usable})
    IN  [n \in DOMAIN examples |->
           LET e == examples[n]
           IN  Interest(ExamplePaperKey(e.paper), "paper", None, e.paper,
                        ImportanceWeight[e.importance], e.horizon, "positive")]
        \o
        [n \in DOMAIN unwanted |->
           LET e == unwanted[n]
           IN  Interest(NegativePaperKey(e.paper), "paper", None, e.paper,
                        AvoidanceWeight[e.strength], "long", "negative")]

ProfileOf(d, usable) ==
    [interests      |-> FieldInterests(d) \o TextInterests(d) \o PaperInterests(d, usable),
     preferences    |-> Preferences(d.discovery),
     blocked_topics |-> ToSet(d.blocked),
     require_peer_reviewed |-> RequiresPeerReview(d.discovery.publication)]

\* ProfileBuilder.build : "refused" answers 422.  "failed" is the ProfileError
\* that InterestProfile raises and nothing catches, an interest key used twice.
Build(d, usable) ==
    LET c == Cleaned(d)
        p == ProfileOf(c, usable)
        positive == \E i \in ToSet(p.interests) : i.polarity = "positive"
    IN  IF Errors(d) # {} \/ ~ positive
        THEN [kind |-> "refused", draft |-> d, profile |-> None]
        ELSE IF ~ IsProfile(p)
        THEN [kind |-> "failed", draft |-> d, profile |-> None]
        ELSE [kind |-> "built", draft |-> c, profile |-> p]

-----------------------------------------------------------------------------
(***************************************************************************)
(* Refinement.  Each correction is a rule on the draft.                     *)
(***************************************************************************)
PaperActions    == {"more_like_this", "less_like_this", "not_interested"}
InterestActions == {"less_from_interest", "more_from_interest", "remove_interest"}
RefinementAction == PaperActions \cup InterestActions \cup {"fits", "block_topic"}

Papered(list) == {e.paper : e \in ToSet(list)}

StepInterest(d, key, delta) ==
    LET Step(e) == [e EXCEPT !.importance = StepImportance(@, delta)]
    IN  [d EXCEPT
           !.interests = [n \in DOMAIN @ |->
              IF InterestKey(@[n].text) = key THEN Step(@[n]) ELSE @[n]],
           !.examples = [n \in DOMAIN @ |->
              IF ExamplePaperKey(@[n].paper) = key THEN Step(@[n]) ELSE @[n]]]

MoreLikeThis(d, paper) ==
    IF paper \in Papered(d.examples)
    THEN StepInterest(d, ExamplePaperKey(paper), 1)
    ELSE [d EXCEPT !.examples =
            Append(@, [paper |-> paper, importance |-> "interested", horizon |-> "short"])]

LessLikeThis(d, paper, key, strength, step) ==
    LET dislike == [paper |-> paper, strength |-> strength]
        pushed == [d EXCEPT
           !.negativePapers =
              IF paper \in Papered(@)
              THEN [n \in DOMAIN @ |-> IF @[n].paper = paper THEN dislike ELSE @[n]]
              ELSE Append(@, dislike),
           !.examples = Among(@, {e \in ToSet(@) : e.paper # paper})]
    IN  IF step # 0 /\ key # None THEN StepInterest(pushed, key, step) ELSE pushed

RemoveInterestInWords(d, key) ==
    [d EXCEPT !.interests = Among(@, {e \in ToSet(@) : InterestKey(e.text) # key}),
              !.negatives = Among(@, {e \in ToSet(@) : NegativeInterestKey(e.text) # key}),
              !.fields    = Among(@, {s \in ToSet(@) : FieldKey(s) # key})]

RemoveInterest(d, key) ==
    [d EXCEPT !.interests = Among(@, {e \in ToSet(@) : InterestKey(e.text) # key}),
              !.negatives = Among(@, {e \in ToSet(@) : NegativeInterestKey(e.text) # key}),
              !.examples  = Among(@, {e \in ToSet(@) : ExamplePaperKey(e.paper) # key}),
              !.fields    = Among(@, {s \in ToSet(@) : FieldKey(s) # key})]

BlockTopic(d, topic) ==
    IF topic \in ToSet(d.blocked) THEN d ELSE [d EXCEPT !.blocked = Append(@, topic)]

ApplyRefinement(d, r) ==
    CASE r.action = "fits"               -> d
      [] r.action = "more_like_this"     -> MoreLikeThis(d, r.paper)
      [] r.action = "less_like_this"     -> LessLikeThis(d, r.paper, r.key, "less", 0)
      [] r.action = "not_interested"     -> LessLikeThis(d, r.paper, r.key, "avoid", -1)
      [] r.action = "less_from_interest" -> StepInterest(d, r.key, -1)
      [] r.action = "more_from_interest" -> StepInterest(d, r.key, 1)
      [] r.action = "remove_interest"    -> RemoveInterest(d, r.key)
      [] r.action = "block_topic"        -> BlockTopic(d, r.topic)

ApplyAll(d, refinements) ==
    LET after[n \in 0 .. Len(refinements)] ==
          IF n = 0 THEN d ELSE ApplyRefinement(after[n - 1], refinements[n])
    IN  after[Len(refinements)]

-----------------------------------------------------------------------------
(***************************************************************************)
(* The summary: the keys under each heading.                                *)
(***************************************************************************)
Summary(p) ==
    LET all      == ToSet(p.interests)
        positive == {i \in all : i.polarity = "positive"}
        stated   == {i \in positive : i.kind = "stated"}
        papers   == {i \in positive : i.kind = "paper"}
        core     == {i \in stated : /\ i.horizon = "long"
                                    /\ ImportanceForWeight(i.weight) = "core"}
    IN  [core_interests  |-> core,
         other_interests |-> {i \in stated : i.horizon = "long"} \ core,
         exploring_now   |-> {i \in stated \cup papers : i.horizon = "short"},
         broad_areas     |-> {i \in positive : i.kind = "field"},
         example_papers  |-> {i \in papers : i.horizon = "long"},
         avoiding        |-> {i \in all : i.polarity = "negative"},
         blocked_topics  |-> p.blocked_topics,
         preferences     |-> DiscoveryOf(p)]
=============================================================================

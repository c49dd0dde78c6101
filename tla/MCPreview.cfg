SPECIFICATION Spec
CONSTANTS
    p1 = p1
    p2 = p2
    p3 = p3
    p4 = p4
    p5 = p5
    p6 = p6
    x = x
    xx = xx
    y = y
    w = w
    z = z
    f1 = f1
    f2 = f2
    t1 = t1
    t2 = t2
    r1 = r1
    r2 = r2
    r3 = r3
    None = None
    Texts = {x, xx, y, w, z}
    Papers = {p1, p2, p3, p4, p5, p6}
    Fields = {f1, f2}
    Topics = {t1, t2}
    Venues = {}
    MaxInterests = 5
    Tidied <- MCTidied
    Canonical <- MCCanonical
    Slug <- MCSlug
    Describable = {x, xx, y, w, z}
    KnownFields = {f1, f2}
    MaxBroadFields = 2
    MaxTextInterests = 2
    MaxExamplePapers = 2
    MaxNegativeInterests = 1
    MaxBlockedTopics = 2
    Id <- MCId
    Row <- MCRow
    InitialTopics <- MCTopics
    Cosine <- MCCosine
    Decay <- MCDecay
    WindowDays = 90
    CandidateTotal = 8
    MaxPerInterest = 2
    MaxPerTopic = 2
    Drafts <- MCDrafts
    Accounts <- MCAccounts
    Limits = {4}
    MaxInputs = 2
INVARIANTS TypeOK BlockedIsNeverShown ExplorationIsACeiling CapsGiveWayLast AttributionLeadsBack

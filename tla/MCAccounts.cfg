SPECIFICATION FairSpec
CONSTANTS
    u1 = u1
    p1 = p1
    p2 = p2
    f1 = f1
    f2 = f2
    s1 = s1
    e1 = e1
    e2 = e2
    e3 = e3
    None = None
    Users = {u1}
    Papers = {p1, p2}
    Features = {f1, f2}
    Feeds = {s1}
    Events = {e1, e2, e3}
    Handlers = {h1, h2}
    FeedOf <- MCFeedOf
    EventOf <- MCEventOf
    Batches <- MCBatches
    Skewed = {e2}
    Snapshots <- MCSnapshots
    Direction <- MCDirection
    MaxValue = 1
    MaxWeight = 1
INVARIANTS TypeOK LearnedOnce DeletedLeavesNothing
PROPERTIES EveryRequestEnds SavedByANewEventOnly

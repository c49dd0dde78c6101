\* One run at a time, as deploy/crontab schedules it, started again and again.
SPECIFICATION FairSpec
CONSTANTS
    j1 = j1
    j2 = j2
    p1 = p1
    p2 = p2
    None = None
    Workers = {w1, w2}
    Jobs = {j1, j2}
    Profiles = {p1, p2}
    KeyOf <- TwoProfiles
    Exclusive = TRUE
    QuickBatches = FALSE
    MaxAttempts = 2
INVARIANTS
    TypeOK
    RunningIsReapable
    AttemptsAreBounded
    SucceededWasSaved
    HolderOwnsItsJob
PROPERTIES
    ImplementsLeaseQueue
    EveryJobIsResolved

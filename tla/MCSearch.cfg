SPECIFICATION FairSpec
CONSTANTS
    h1 = h1
    h2 = h2
    None = None
    Papers = {1, 2, 3, 4}
    Handlers = {h1, h2}
    Asks <- MCAsks
    Queries <- MCQueries
    NewestFirst <- MCNewestFirst
    Offsets = {0, 2}
    Limit = 2
    Methods = {"lexical", "semantic", "hybrid"}
    PoolMultiplier = 5
    MinPool = 50
    RrfK = 60
    Capacity = 1
    PoolSize = 1
    MaxChanges = 1
INVARIANTS NothingIsLeaked UnanimousOrder PageIsFull
PROPERTY EveryRequestIsAnswered

\* An edit, deletions and faults anywhere, batches of one.
SPECIFICATION FairSpec
CONSTANTS
    p1 = p1
    p2 = p2
    Blank = blank
    None = None
    Workers = {w1}
    NewestFirst <- TwoPapers
    BatchSize = 1
    MaxScan = 2
    Texts = {blank, a}
    MaxVersion = 2
    MaxAttempts = 1
    Profile = k
PROPERTIES
    EveryPaperIsEmbedded

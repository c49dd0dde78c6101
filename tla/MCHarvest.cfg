SPECIFICATION FairSpec
CONSTANTS
    Sources = {"biorxiv", "europepmc"}
    Configurations <- Configured
    Records <- Six
    QueryOf <- Placed
    PageSize = 1
    MaxPages = 2
    Backfill = 1
    Outage = 1
    Overnight = {"europepmc"}
    MaxDay = 2
    None = None
INVARIANT NothingIsPassedOver
PROPERTY EveryRecordIsHarvested

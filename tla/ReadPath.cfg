CONSTANTS
    Engine = "engine"
    Clients = {"c1"}
    Keys = {1, 2, 3}
    Names = {"old", "new"}
    Zip <- MCZip
    Addresses0 <- MCAddresses0
    Filters <- MCFilters
    Batches <- MCBatches
    Lines = {1, 2}
    PoolSizes = {1, 2}
    Limit = 1
    MaxTotal = 3
    MaxId = 4
    MaxRuns = 2
    MaxSkipped = 2
SPECIFICATION MCSpec
INVARIANTS
    TypeOK
    WalkIsExact
    IdleStatusIsCurrent
PROPERTIES
    UntruncatedIsComplete
    RequestsEnd
    StartCompletes

CONSTANTS
    N = 3
    WordChunks = 2
    Cluster = 2
    Cow = TRUE
    Buffers = 3
    MaxInFlight = 2
    Writes = {2}
    MaxErrors = 1
    OnErrors = {"report", "ignore", "stop"}
    MaxDiscards = 1
    Partial = FALSE
SPECIFICATION FairSpec
INVARIANTS CompletedInSync NeverAborts OpsApart
PROPERTY JobEnds
CHECK_DEADLOCK FALSE

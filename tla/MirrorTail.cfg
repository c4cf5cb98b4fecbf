CONSTANTS
    N = 2
    WordChunks = 2
    Cluster = 2
    Cow = FALSE
    Buffers = 3
    MaxInFlight = 2
    Writes = {2}
    MaxErrors = 0
    OnErrors = {"report"}
    MaxDiscards = 0
    Partial = TRUE
SPECIFICATION FairSpec
PROPERTY CancelEnds
CHECK_DEADLOCK FALSE

CONSTANTS
    N = 3
    WordChunks = 2
    Cluster = 2
    Cow = TRUE
    Buffers = 3
    MaxInFlight = 2
    Writes = {2}
    MaxErrors = 0
    OnErrors = {"report"}
    MaxDiscards = 1
    Partial = FALSE
SPECIFICATION Spec
INVARIANT AssertionsHold
CHECK_DEADLOCK FALSE

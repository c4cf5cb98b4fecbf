CONSTANTS
    Requests = {r1, r2, r3}
    Size = 8
    Align = 2
    Cluster = 4
    NULL = NULL
    Workloads <- SmallWorkloads
SPECIFICATION FairSpec
INVARIANTS SerialisingAlone NoWaitCycle Asserted
PROPERTIES OthersKept Completed
CHECK_DEADLOCK FALSE

CONSTANTS
    L2Tables = {1, 2}
    RefBlocks = {3, 4}
    Clusters = {5, 6, 7}
    Guest = {1, 2}
    Requests = {r1, r2, r3, r4}
    r1 = r1  r2 = r2  r3 = r3  r4 = r4  r5 = r5
    L2Of <- TableInTurn
    RefOf <- BlockInTurn
    Writes <- FirstInPart
    Size <- OneEach
    MaxErrors = 1
    LazyRefcounts = {TRUE, FALSE}
    MaxCrashes = 1
SPECIFICATION Spec
INVARIANTS ClustersOwned CrashSafe CowSafe CacheConsistent
PROPERTY FlushDurable
CONSTRAINT OneFault
SYMMETRY Symmetry
CHECK_DEADLOCK FALSE

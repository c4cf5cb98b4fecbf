CONSTANTS
    L2Tables = {1}
    RefBlocks = {3}
    Clusters = {5, 6}
    Guest = {1, 2}
    Requests = {r1, r2, r3, r4, r5}
    r1 = r1  r2 = r2  r3 = r3  r4 = r4  r5 = r5
    L2Of <- TableInTurn
    RefOf <- BlockInTurn
    Writes <- FirstInPart
    Size <- OneEach
    MaxErrors = 1
    LazyRefcounts = {FALSE}
    MaxCrashes = 0
SPECIFICATION Spec
INVARIANT RefcountsFirst
SYMMETRY Symmetry
CHECK_DEADLOCK FALSE

CONSTANTS
    NBh = 2
    NNode = 3
    Fds = {A}
    Notifier = Notifier
    MaxDepth = 3
    MaxOps = 5
    VcpuPolls = FALSE
SPECIFICATION FairSpec
INVARIANTS WalkSafe MainLoopInterrupted
PROPERTY ScheduledRuns
CHECK_DEADLOCK FALSE

CONSTANTS
    NBh = 2
    NNode = 3
    Fds = {A}
    Notifier = Notifier
    MaxDepth = 1
    MaxOps = 3
    VcpuPolls = FALSE
SPECIFICATION FairSpec
PROPERTY IdlePolled
CHECK_DEADLOCK FALSE

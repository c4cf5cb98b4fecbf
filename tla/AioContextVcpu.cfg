CONSTANTS
    NBh = 2
    NNode = 3
    Fds = {A}
    Notifier = Notifier
    MaxDepth = 2
    MaxOps = 6
    VcpuPolls = TRUE
SPECIFICATION Spec
INVARIANT MainLoopInterrupted
CHECK_DEADLOCK FALSE

CONSTANTS
    NBh = 2
    NNode = 3
    Fds = {A}
    Notifier = Notifier
    MaxDepth = 2
    MaxOps = 6
    VcpuPolls = FALSE
SPECIFICATION Spec
INVARIANT SleepsIdle
CHECK_DEADLOCK FALSE

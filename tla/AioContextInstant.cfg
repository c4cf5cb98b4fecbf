CONSTANTS
    NBh = 2
    NNode = 3
    Fds = {A}
    Notifier = Notifier
    MaxDepth = 2
    MaxOps = 3
    VcpuPolls = FALSE
SPECIFICATION Spec
PROPERTY InstantlyInvoked
CHECK_DEADLOCK FALSE

CONSTANTS
    Co = {1, 2, 3}
    NanosPerSecond = 4
    SliceTime = 2
    SectorSize = 2
    Workloads <- MCWorkloads
    LimitSettings <- MCLimitSettings
    FreeTicks = 2
    TimerSlack = 1
    MaxCalls = 0
SPECIFICATION Spec
PROPERTY Fifo
CHECK_DEADLOCK FALSE

CONSTANTS
    Co = {1, 2, 3}
    NanosPerSecond = 4
    SliceTime = 2
    SectorSize = 2
    Workloads <- MCWorkloads
    LimitSettings <- MCLimitSettings
    FreeTicks = 2
    TimerSlack = 1
    MaxCalls = 1
SPECIFICATION Spec
INVARIANT NoNullTimer
CHECK_DEADLOCK FALSE

CONSTANTS
    Co = {1, 2}
    NanosPerSecond = 4
    SliceTime = 2
    SectorSize = 2
    Workloads <- MCWorkloads
    LimitSettings <- MCLimitSettings
    FreeTicks = 1
    TimerSlack = 1
    MaxCalls = 3
SPECIFICATION FairSpec
INVARIANTS LinkedOnce NoLostWakeup ThrottledHasMedium
PROPERTIES AllDrained Served DrainReturns
CHECK_DEADLOCK FALSE

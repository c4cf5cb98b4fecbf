CONSTANTS
    NanosPerSecond = 4
    SliceTime = 2
    Sizes = {1, 2}
    LimitSettings <- MCLimitSettings
    MaxNow = 5
    MaxEnd = 9
    MaxIos = 2
SPECIFICATION Spec
INVARIANTS RateBound WaitNotNegative
CHECK_DEADLOCK FALSE

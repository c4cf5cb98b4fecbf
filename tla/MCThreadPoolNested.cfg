CONSTANTS
    Elems = {e1, e2}
    Workers = {w1, w2}
    MaxThreads = 2
    Callbacks = {"drain"}
    NULL = NULL
SPECIFICATION FairSpec
PROPERTY DrainReturns
CHECK_DEADLOCK FALSE

CONSTANTS
    Elems = {e1, e2, e3, e4}
    Workers = {w1, w2}
    MaxThreads = 2
    Callbacks = {"submit", "cancel", "drain"}
    NULL = NULL
SPECIFICATION Spec
SYMMETRY Symmetric
INVARIANTS PoolAgrees TokenPerRequest CompletionNoticed FreedIsQuiet
PROPERTY CancelReleases
CHECK_DEADLOCK FALSE

CONSTANTS
    Elems = {e1, e2}
    Workers = {w1, w2}
    MaxThreads = 2
    Callbacks = {"cancel"}
    NULL = NULL
SPECIFICATION FairSpec
PROPERTIES Completed CallsReturn

SPECIFICATION Spec
CONSTANTS
    Threads = {t1, t2}
    Blocks = {b1, b2, b3}
    TickAttached = TRUE
    LateFailures = TRUE
    MaxHandles = 2
SYMMETRY Symmetry
INVARIANTS
    ReaderHasStream
CHECK_DEADLOCK FALSE

SPECIFICATION Spec
CONSTANTS
    Threads = {t1, t2, t3}
    Blocks = {b1, b2, b3, b4, b5}
    TickAttached = TRUE
    LateFailures = FALSE
    MaxHandles = 2
SYMMETRY Symmetry
INVARIANTS
    TypeOK
    OneStreamPerReader
    CountsMatch
    HandlesLead
    BlocksAccounted
PROPERTIES
    ImplementsStreams
CHECK_DEADLOCK FALSE

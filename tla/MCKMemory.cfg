SPECIFICATION Spec
CONSTANTS
    NBlocks = 6
    BlockSize = 4
    InfoSize = 1
    MaxTid = 255
    Threads = {8, 9}
    MemoryTypes = {0, 1, 8}
    Counts = {0, 1, 2, 5}
INVARIANTS
    TypeOK
    WellFormed
    OwnersAlive
PROPERTIES
    ImplementsPool
CHECK_DEADLOCK FALSE

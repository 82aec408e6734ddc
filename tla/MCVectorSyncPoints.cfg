SPECIFICATION Spec
CONSTANTS
    MaxEvents = 2
    MaxAttempts = 2
    Chunks = {c1}
    PointWorkers = {p1, p2}
    ErasureWorkers = {}
    Preparers = {}
    Prepared = TRUE
    FlagsMayChange = FALSE
    None = None
SYMMETRY Symmetry
INVARIANTS
    TypeOK
    DeletedChunkNotServed
    DeliveredIsServed
PROPERTIES
    OnlyAnsweredHolderAcks
    KeepsContract
CHECK_DEADLOCK FALSE

SPECIFICATION Spec
CONSTANTS
    MaxEvents = 3
    MaxAttempts = 2
    Chunks = {c1}
    PointWorkers = {p1}
    ErasureWorkers = {e1}
    Preparers = {a1}
    Prepared = FALSE
    FlagsMayChange = FALSE
    None = None
SYMMETRY Symmetry
INVARIANTS
    ErasureIsFinal
    ErasureIntentKept
PROPERTIES
    SettledIsFinal
CHECK_DEADLOCK FALSE

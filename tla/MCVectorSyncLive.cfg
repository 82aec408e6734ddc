SPECIFICATION LiveSpec
CONSTANTS
    MaxEvents = 2
    MaxAttempts = 2
    Chunks = {c1}
    PointWorkers = {p1}
    ErasureWorkers = {e1}
    Preparers = {}
    Prepared = TRUE
    FlagsMayChange = TRUE
    None = None
PROPERTIES
    ErasureSettles
    PointEventsSettle
CHECK_DEADLOCK FALSE

SPECIFICATION Spec
CONSTANTS
    Files = {f1}
    Contents = {x, y}
    Gone = Gone
    Workers = {w1}
    MaxMarks = 2
    MaxWrites = 2
    MaxDocs = 3
    MaxAttempts = 2
    FaultSets = {{"stop"}}
INVARIANTS
    CleanIsFresh
CHECK_DEADLOCK FALSE

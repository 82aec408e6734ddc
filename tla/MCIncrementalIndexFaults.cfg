SPECIFICATION Spec
CONSTANTS
    Files = {f1, f2}
    Contents = {x, y}
    Gone = Gone
    Workers = {w1, w2}
    MaxMarks = 2
    MaxWrites = 2
    MaxDocs = 3
    MaxAttempts = 2
    FaultSets = {{"embedding"},
                 {"crash", "embedding", "unembeddable", "leftover"}}
SYMMETRY MCSymmetry
INVARIANTS
    TypeOK
    CleanIsFresh
    LockIsExclusive
PROPERTIES
    LastGoodIsKept
CHECK_DEADLOCK FALSE

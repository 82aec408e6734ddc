SPECIFICATION LiveSpec
CONSTANTS
    Files = {f1}
    Contents = {x, y}
    Gone = Gone
    Workers = {w1}
    MaxMarks = 3
    MaxWrites = 3
    MaxDocs = 3
    MaxAttempts = 2
    FaultSets = {{"lostmark", "embedding"}, {"crash", "stop", "leftover"}}
PROPERTIES
    IndexConverges
CHECK_DEADLOCK FALSE

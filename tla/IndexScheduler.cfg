SPECIFICATION LiveSpec
CONSTANTS
    Users = {u1, u2, u3, u4}
    Returning = {u4}
    MaxConcurrent = 1
INVARIANTS
    TypeOK
    PassesAreBounded
    QueueHoldsWaiting
PROPERTIES
    PlaceIsKept
    DeadSlotsFreeUp

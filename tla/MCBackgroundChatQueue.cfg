SPECIFICATION Spec
CONSTANTS
    Users = {"u"}
    Items = {1, 2}
    UserOf <- MCOneUser
    Workers = {w1, w2}
    MaxItems = 2
    MaxAttempts = 2
    MaxClaims = 2
SYMMETRY MCSymmetry
INVARIANTS
    TypeOK
    ExclusiveRun
    ErasedStaysErased
PROPERTIES
    CompletedIsAnsweredOnce
    ExhaustedStaysFailed
CHECK_DEADLOCK FALSE

SPECIFICATION UnretriedSpec
CONSTANTS
    Users = {"u"}
    Items = {1, 2}
    UserOf <- MCOneUser
    Workers = {w1}
    MaxItems = 2
    MaxAttempts = 2
    MaxClaims = 2
PROPERTIES
    QueuedIsServed
CHECK_DEADLOCK FALSE

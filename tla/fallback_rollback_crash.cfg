SPECIFICATION Spec
CONSTANTS
    x = x
    y = y
    z = z
    old = old
    new = new
    other = other
    Empty = empty
    Key <- MCKey
    Value <- MCValue
    Writes <- MCWrites
    PutValues <- MCPutValues
    InitialStores <- OnlyNew
    MaxPuts = 0
    MaxCrashes = 1
    Configs <- Default
    MaxFailures = 0
    MaxAttempts = 1
CHECK_DEADLOCK FALSE
INVARIANTS
    RecoverySucceeds

SPECIFICATION Spec
CONSTANTS
    x = x
    y = y
    Key = {x, y}
    Char <- MCChar
    TaskCount = 2
    Batches <- MCBatches
    InitialStore <- MCInitialStore
    PutValues <- MCPutValues
    MaxCommits = 2
    MaxAborts = 1
    MaxCrashes = 2
    MaxPuts = 1
INVARIANTS
    TypeOK
    SuccessMeansRestored
    RecoveryIsRepeatable
    ReplayAgrees
CHECK_DEADLOCK FALSE

SPECIFICATION Spec
CONSTANTS
    x = x
    y = y
    t1 = t1
    t2 = t2
    a = a
    Key <- XY
    Text <- TextA
    SavepointId <- NoNames
    Score <- NoScore
    Txn <- T1
    BranchCount = 1
    Intents <- TwoKeys
    InitialStore <- FullStore
    PutValues <- OnePut
    AtomicBatch = FALSE
    MaxOps = 2
    MaxPuts = 1
CHECK_DEADLOCK FALSE
PROPERTIES
    NoWriteFromStaleRead

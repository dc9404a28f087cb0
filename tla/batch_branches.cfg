SPECIFICATION Spec
CONSTANTS
    x = x
    y = y
    t1 = t1
    t2 = t2
    a = a
    Key <- XY
    Text <- TextA
    SavepointId <- NoNames
    Score <- TwoScores
    Txn <- T1
    BranchCount = 2
    Intents <- WithRead
    InitialStore <- StoreWithGap
    PutValues <- OnePut
    AtomicBatch = TRUE
    MaxOps = 2
    MaxPuts = 1
CHECK_DEADLOCK FALSE
PROPERTIES
    CommitReplaysWinner

SPECIFICATION FairSpec
CONSTANTS
    x = x
    y = y
    t1 = t1
    t2 = t2
    a = a
    Key <- XY
    Text <- TextA
    SavepointId <- NoNames
    Score <- NoScore
    Txn <- T12
    BranchCount = 1
    Intents <- OneEach
    InitialStore <- StoreWithGap
    PutValues <- OnePut
    AtomicBatch = FALSE
    MaxOps = 2
    MaxPuts = 1
CHECK_DEADLOCK FALSE
INVARIANTS
    VersionsPinValues
    CandidateIsMarked
PROPERTIES
    UndoesOwnWritesOnly
    CommitEnds

SPECIFICATION Spec
CONSTANTS
    x = x
    y = y
    t1 = t1
    t2 = t2
    a = a
    Key <- XY
    Text <- TextA
    SavepointId <- NoNames
    Score <- NoScore
    Txn <- T12
    BranchCount = 1
    Intents <- AllKinds
    InitialStore <- StoreWithGap
    PutValues <- OnePut
    AtomicBatch = TRUE
    MaxOps = 2
    MaxPuts = 1
SYMMETRY Symmetry
CHECK_DEADLOCK FALSE
INVARIANTS
    TypeOK
    VersionsPinValues
PROPERTIES
    ReadsCurrentAtCommit
    NoLostUpdate
    CommitReplaysWinner
    CommitsAreAtomic

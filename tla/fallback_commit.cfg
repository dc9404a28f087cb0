SPECIFICATION FairSpec
CONSTANTS
    x = x
    y = y
    z = z
    old = old
    new = new
    other = other
    Empty = empty
    Key <- MCKey
    Value <- MCValue
    Writes <- MCWrites
    PutValues <- MCPutValues
    InitialStores <- OldOrNew
    Configs <- MCConfigs
    MaxPuts = 2
    MaxCrashes = 2
    MaxFailures = 1
    MaxAttempts = 2
CHECK_DEADLOCK FALSE
INVARIANTS
    TypeOK
    CommittedIsComplete
    VisibleIsLogged
    ProgressIsHonest
    ResolvedIsKept
PROPERTIES
    ChangesOwnWritesOnly
    ArtifactIsResolved

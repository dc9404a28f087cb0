SPECIFICATION Spec
CONSTANTS
    x = x
    m1 = m1
    a = a
    NoName = noname
    CutName = cutname
    Key <- X
    Text <- TextA
    SavepointId <- OneName
    Score <- OneScore
    ScoreUnit = 10
    BranchCount = 1
    Reads <- NoReads
    Writes <- OneWrite
    Managed <- BranchOne
    InitialStore <- FullStore
    Puts <- NoPuts
    MaxOps = 2
    MaxPuts = 0
    MaxCrashes = 1
CHECK_DEADLOCK FALSE
PROPERTIES
    CommittedIsSkipped

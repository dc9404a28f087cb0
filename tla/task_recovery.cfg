SPECIFICATION WorkloadSpec
CONSTANTS
    x = x
    y = y
    m1 = m1
    m2 = m2
    Seed = seed
    Draft = draft
    Mutated = mutated
    Result = result
    Tentative = tentative
    Recovered = recovered
    NoName = noname
    CutName = cutname
    Key <- XY
    Text <- Words
    SavepointId <- TwoNames
    Score <- OneScore
    ScoreUnit = 10
    BranchCount = 3
    Reads <- SomeReads
    Writes <- SomeWrites
    Managed <- BranchOne
    InitialStore <- FullStore
    Puts <- OnePut
    Input = x
    Output = y
    BeforeWrite = m1
    SyntheticTasks <- SomeTasks
    ConflictEvery = 3
    KvScripts <- SomeScripts
    Undirected <- TwoBranches
    MaxOps = 3
    MaxPuts = 1
    MaxCrashes = 1
CHECK_DEADLOCK FALSE
INVARIANTS
    TypeOK
    SkippedIsCommitted
    RebuildsWork
    ReadsSurviveRecovery
PROPERTIES
    ResumesAtSavepoint
    DriverCommitsBest
    ContinuationDecides

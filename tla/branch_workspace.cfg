SPECIFICATION Spec
CONSTANTS
    counter = counter
    note = note
    a = a
    Key <- MCKey
    Text <- MCText
    Score <- MCScore
    SavepointId <- MCSavepointId
    Intents <- MCIntents
    InitialStore <- MCInitialStore
    PutValues <- MCPutValues
    MaxIntents = 3
    MaxReads = 1
    MaxSavepoints = 2
    MaxPuts = 1
INVARIANTS
    TypeOK
    LogsInStep
    BufferIsReplay
    DiscardEmpties
PROPERTIES
    BaseNeverMoves
    ReadsSurvive
    SavepointsRestoreCopies

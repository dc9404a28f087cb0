SPECIFICATION Spec
CONSTANTS
    x = x
    y = y
    v1 = v1
    v2 = v2
    Empty = empty
    Key <- MCKey
    Value <- MCValue
    PutValues <- OneValue
    MaxVersion = 2
    MaxCrashes = 1
    MaxFailures = 1
SYMMETRY Symmetry
CHECK_DEADLOCK FALSE
INVARIANTS
    TypeOK
    SnapshotIsWhole
PROPERTIES
    RestoresAWrite
    KeepsAcknowledged

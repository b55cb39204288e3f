SPECIFICATION Spec
CONSTANTS
    MaxSchemas = 1
    MaxEvents = 12
    MayRunOut = TRUE
    Consumers = {"pyarrow", "dataprof"}
    Shapes <- MCShapes
    Scripts <- MCScripts
    Cells <- MCCells
    LimitTables <- MCLimitTables
INVARIANTS
    TypeOK
    CleanupExact
    CapsuleKeepsCase
    VerdictDeserved
    SinsSurface
    LateReleaseAnnounced
    HandedOver
CHECK_DEADLOCK FALSE

SPECIFICATION BrokenSpec
CONSTANTS
    Block = 8
    LengthBytes = 2
    BitsPerByte = 2
    MaxDepth = 2
    MaxNodes = 3
    MaxValues = 12
    LengthValues <- MCLengths
    OffsetValues <- MCOffsets
    Arrays <- MCArrays
    Int32Max = 5
    FarOffset = 9
    CaseClasses = {"A", "B1"}
INVARIANTS
    TypeOK
    LogicalExact
    PhysicalIsFiner
    ReadsInside
    HashedWhole
    CellsDistinct
    CasesSound
    OffsetVisible
    ManifestTrue
CHECK_DEADLOCK FALSE

SPECIFICATION Spec
CONSTANTS
    Word = 1
    MaxPeriod = 2
    MinChunk = 4
    ArenaUnit = 2
    AllocCount = 1
    AllocBytes = 6
    Alignments = {2}
    TreeDepth = 1
    TreeNodes = 2
    OpCount = 1
    TotalSize = 40
    Builds = {"A", "C"}
    Payloads <- MCPayloads
    Codes = {7}
    Spans <- MCSpans
    Declared = {2}
    MaxCalls = 5
INVARIANTS
    TypeOK
    Canonical
    RoundTrip
    Buildable
    ArenaSound
CHECK_DEADLOCK FALSE

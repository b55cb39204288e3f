SPECIFICATION Spec
CONSTANTS
    Word = 1
    MaxPeriod = 2
    MinChunk = 4
    ArenaUnit = 2
    AllocCount = 1
    AllocBytes = 6
    Alignments = {2}
    TreeDepth = 1
    TreeNodes = 2
    OpCount = 1
    TotalSize = 40
    Builds = {"C"}
    Payloads = {}
    Codes = {}
    Spans = {}
    Declared = {}
    MaxCalls = 6
INVARIANT EncoderNeverEmitsUnreadable
CHECK_DEADLOCK FALSE

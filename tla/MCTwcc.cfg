SPECIFICATION TwccSpec
CONSTANTS
    Period = 16
    StartNo = 10
    WrapLow = 3
    WrapHigh = 11
    MinCount = 2
    MaxCount = 5
    ReportDelta = 12
    MarkDelta = 18
    Int16 = 8
    Tick = 2
    RefUnit = 2
    Bits = 4
    ChunkRoom = 3
    DeltaRoom = 10
    SSRCs = {0, 1}
    Steps = {1, 6}
    MaxBehind = 2
    MaxLost = 1
    MaxPos = 8
INVARIANTS
    NothingBeyond
    OverflowNeedsLoss
PROPERTIES
    FeedbackIsTrue
    NumbersFollow
CHECK_DEADLOCK FALSE

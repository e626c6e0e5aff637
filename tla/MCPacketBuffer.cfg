SPECIFICATION BucketSpec
CONSTANTS
    Modulus = 12
    MaxNackTimes = 2
    MaxNackCache = 6
    PairSpan = 3
    MaxSteps = 4
    StartSN = 0
    MaxIndex = 14
    Leftover = {3, 8}
    MaxGap = 3
    MaxLate = 3
INVARIANTS
    RecentAreCached
    NeverAnotherPacket
    ArrivedIsNotAskedFor
    MissingIsAskedFor
CHECK_DEADLOCK FALSE

SPECIFICATION Spec
CONSTANTS
    Mod = 16
    Big = 2048
    Start = 4
    Probe = 3
    MinBitrate = 100000
    MaxBitrate = 1500000
    Bitrates = {80000, 400000}
    MaxReorder = 2
    MaxLoss = 2
    MaxPosition = 13
INVARIANTS
    NewestIsKnown
PROPERTIES
    TotalLostIsRight
    FractionIsRight
    RembFollowsLoss
CHECK_DEADLOCK FALSE

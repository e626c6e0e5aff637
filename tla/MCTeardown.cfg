SPECIFICATION FairSpec
CONSTANTS
    Buffers = {b1}
    None = None
    RtcpCap = 1
    ChanCap = 1
    MaxPending = 1
INVARIANTS
    TypeOK
    WriteIsSafe
    PanicNeedsEndingTrack
PROPERTIES
    CloseReturns
    JoinReturns
    EndedTracksAreDeleted
CHECK_DEADLOCK FALSE

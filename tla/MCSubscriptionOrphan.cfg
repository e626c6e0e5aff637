SPECIFICATION Spec
CONSTANTS
    p1 = p1
    p2 = p2
    p3 = p3
    t1 = t1
    Peers = {p1, p2}
    Tracks = {t1}
    Owner <- OnePublisher
    Fragile = {}
INVARIANT ClosedTracksAreRemoved
CHECK_DEADLOCK FALSE

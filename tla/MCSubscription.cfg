SPECIFICATION FairSpec
CONSTANTS
    p1 = p1
    p2 = p2
    p3 = p3
    t1 = t1
    Peers = {p1, p2, p3}
    Tracks = {t1}
    Owner <- OnePublisher
    Fragile = {p2}
INVARIANTS
    TypeOK
    AtMostOneDownTrack
    ListsAgree
    NobodyForgotten
PROPERTY EventuallyServed
CHECK_DEADLOCK FALSE

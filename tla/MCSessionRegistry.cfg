SPECIFICATION Spec
CONSTANTS
    Peers = {p1, p2, p3, p4}
    None = None
SYMMETRY AnyOrder
INVARIANTS
    ClosedIsUnregistered
    EmptyIsTransient
    SessionsAreReleased
CHECK_DEADLOCK FALSE

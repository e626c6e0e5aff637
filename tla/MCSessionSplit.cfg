SPECIFICATION Spec
CONSTANTS
    Peers = {p1, p2}
    None = None
INVARIANT InTheSessionOfItsId
CHECK_DEADLOCK FALSE

SPECIFICATION FairSpec
CONSTANTS
    Peers = {p1, p2, p3}
    Labels = {api, chat}
    Default = api
    None = None
    Openers = {p1, p2}
    Closers = {p1}
    Leavers = {p2}
    Fragile = {p3}
INVARIANTS
    NobodyForgotten
PROPERTY EventuallyReached
CHECK_DEADLOCK FALSE

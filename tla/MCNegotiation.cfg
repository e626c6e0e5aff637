SPECIFICATION FairSpec
CONSTANTS
    MaxRequests = 4
    MaxInvalid = 1
INVARIANTS
    PendingFlagMatchesSignaling
    OneExchangeAtATime
    NoLostRenegotiation
PROPERTIES
    ClientCatchesUp
    ImplementsOfferAnswer
CHECK_DEADLOCK FALSE

SPECIFICATION Spec
CONSTANTS
    Start <- StartOfLayers
    Modulus = 18
    History = 4
    None = None
    MaxIndex = 5
    MaxGap = 3
    MaxReorder = 2
INVARIANTS
    NumbersAreUnique
    SentIsFound
    SameAsBefore
CHECK_DEADLOCK FALSE

SPECIFICATION FairSpec
CONSTANTS
    Subs = {s1, s2}
    None = None
    BestQualityFirst = FALSE
    EarlyReports = FALSE
INVARIANTS
    NeverDetached
    OneSource
PROPERTIES
    SwitchesOnKeyFrame
    SwitchCompletes

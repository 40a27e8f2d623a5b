SPECIFICATION FairSpec
CONSTANTS
    Call = {k1, k2}
    Slot = {s1, s2}
    None = None
    Settings <- MCSettings
CHECK_DEADLOCK FALSE
INVARIANTS
    TypeOK
    OnceMeansOnce
    AsksKept
PROPERTIES
    NeverBackwards
    SafariFollows

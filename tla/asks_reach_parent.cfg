SPECIFICATION FairSpec
CONSTANTS
    Call = {k1, k2}
    Slot = {s1, s2}
    None = None
    Settings <- Release
CHECK_DEADLOCK FALSE
PROPERTY AsksReachParent

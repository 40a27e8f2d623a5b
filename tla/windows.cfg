SPECIFICATION FairSpec
CONSTANTS
    t1 = t1  t2 = t2
    Tab = {t1, t2}
    None = None
    Settings <- MCSettings
CHECK_DEADLOCK FALSE
INVARIANTS
    OnceMeansOnce
    AskedIsFiled
    TabsFollow
PROPERTIES
    FollowsItsChild

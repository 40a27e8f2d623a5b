SPECIFICATION FairSpec
CONSTANTS
    f1 = f1
    f2 = f2
    Family = {f1, f2, f3}
    Id <- MCId
    Session = {s1, s2}
    None = None
    Field <- MCField
    Settings <- Quick
CHECK_DEADLOCK FALSE
PROPERTY AsksArrive

SPECIFICATION Spec
CONSTANTS
    u1 = u1  u2 = u2  u3 = u3
    f1 = f1  f2 = f2
    m1 = m1  m2 = m2  m3 = m3  m4 = m4
    c1 = c1  c2 = c2
    d1 = d1
    User = {u1, u2, u3}
    Family = {f1, f2, f3}
    Member = {m1, m2, m3, m4, m5, m6}
    Child = {c1, c2, c3}
    Code = {k1, k2}
    Device = {d1, d2, d3}
    Handler = {h1, h2}
    None = None
    Builds = {TRUE, FALSE}
    Mixes <- MCMixes
SYMMETRY Symmetric
CHECK_DEADLOCK FALSE
INVARIANTS
    TypeOK
    EveryFamilyHasAnOwner
    CodeEnrolsOneDevice
    ErasedStaysErased
    NothingNamesTheGone

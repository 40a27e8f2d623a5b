SPECIFICATION Spec
CONSTANTS
    User = {u1, u2}
    Session = {s1, s2, s3}
    Link = {l1, l2}
    d1 = d1  d2 = d2
    Credential = {d1, d2}
    Challenge = {k1, k2}
    Handler = {h1, h2}
    None = None
    Mixes <- MCMixes
    Builds = {TRUE, FALSE}
    Overlap = FALSE
    MaxPasswords = 2
SYMMETRY Symmetric
CHECK_DEADLOCK FALSE
INVARIANTS
    TypeOK
    OldPasswordIsOut
    DeletedIsGone
    ChallengeSettlesOnce
    CounterHoldsItsGround
PROPERTIES
    SignedOutStaysOut
    AlwaysAPasskey

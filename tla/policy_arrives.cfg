SPECIFICATION FairSpec
CONSTANTS
    c1 = c1  c2 = c2  d1 = d1  d2 = d2
    r1 = r1  r2 = r2  g1 = g1  g2 = g2  gAll = gAll
    allow = allow  block = block
    None = None
    Child = {c1, c2}
    Device = {d1}
    ChildOf <- MCChildOf
    Rule = {}
    Grant = {gAll}
    Once = {gAll}
    ScopeOf <- MCScopeOf
    Asker <- MCAsker
    Posture = {allow}
    FirstPosture = allow
    Handler = {h1, h2}
    Editor = {e1}
    SyncStore = TRUE
    Claim = {}
    MaxEdits = 2
    MaxFailures = 1
    MaxKills = 0
    MaxLosses = 1
INVARIANTS
    UpToDateIsTrue
    VersionNamesPolicy
PROPERTIES
    RecordNeverRegresses
    PolicyArrives

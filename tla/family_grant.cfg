SPECIFICATION Spec
CONSTANTS
    c1 = c1  c2 = c2  d1 = d1  d2 = d2
    r1 = r1  r2 = r2  g1 = g1  g2 = g2  gAll = gAll
    allow = allow  block = block
    None = None
    Child = {c1, c2}
    Device = {d1, d2}
    ChildOf <- MCChildOf
    Rule = {}
    Grant = {gAll}
    Once = {}
    ScopeOf <- MCScopeOf
    Asker <- MCAsker
    Posture = {allow}
    FirstPosture = allow
    Handler = {h1}
    Editor = {e1}
    SyncStore = TRUE
    Claim = {}
    MaxEdits = 1
    MaxFailures = 0
    MaxKills = 0
    MaxLosses = 0
INVARIANT UpToDateIsTrue

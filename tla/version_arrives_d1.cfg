SPECIFICATION FairSpec
CONSTANTS
    c1 = c1  c2 = c2  d1 = d1  d2 = d2
    r1 = r1  r2 = r2  g1 = g1  g2 = g2  gAll = gAll
    allow = allow  block = block
    None = None
    Child = {c1}
    Device = {d1}
    ChildOf <- MCChildOf
    Rule = {r1}
    Grant = {}
    Once = {}
    ScopeOf <- MCScopeOf
    Asker <- MCAsker
    Posture = {allow}
    FirstPosture = allow
    Handler = {h1, h2}
    Editor = {e1}
    SyncStore = FALSE
    Claim = {}
    MaxEdits = 1
    MaxFailures = 0
    MaxKills = 1
    MaxLosses = 1
PROPERTIES
    VersionArrives
    HeldNeverRegresses

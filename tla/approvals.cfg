SPECIFICATION Spec
CONSTANTS
    a1 = a1  a2 = a2  owner = owner  guardian = guardian
    None = None
    Ask = {a1, a2}
    Row = {q1, q2}
    RuleId = {g1, g2}
    Parent = {owner, guardian}
    Manages = {owner}
    Assigned <- MCAssigned
    Handler = {h1, h2}
    Settings <- MCSettings
CHECK_DEADLOCK FALSE
SYMMETRY Symmetric
INVARIANTS
    TypeOK
    AnswersAreBacked
    SpendsAgree
    AnswersAgree
PROPERTIES
    ContextKept
    ImplementsAsks

SPECIFICATION Spec
CONSTANTS
    Word = {0, 1, 3, 4}
    Value = {0, 1}
    GlobalCap = 3
    ChildCap = 3
    HashMin = 2
    Slack = 1
    Garbage <- Stale
    Loaded <- Colliding
    MaxChain = 2
    MaxParams = 2
INVARIANTS
    TableIsSound
PROPERTIES
    ImplementsAbstractContexts
CHECK_DEADLOCK FALSE

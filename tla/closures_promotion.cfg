SPECIFICATION Spec
CONSTANTS
    Addr = {a1, a2, a3}
    Word = {x}
    Params <- UpToOne
    EnvId = {0, 1, 2, 3, 4, 5}
    MaxDepth = 2
    MaxData = 1
    SiteTags = {1, 7}
SYMMETRY Symmetry
INVARIANT PendingSurvives
CHECK_DEADLOCK FALSE

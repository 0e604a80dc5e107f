SPECIFICATION Spec
CONSTANTS
    Addr = {a1, a2, a3}
    Word = {x}
    Params <- UpToOne
    EnvId = {0, 1, 2, 3, 4}
    MaxDepth = 2
    MaxData = 2
    SiteTags = {1}
SYMMETRY Symmetry
INVARIANTS
    ReferencesAreSound
    NoStaleCopy
PROPERTIES
    ImplementsAbstractClosures
CHECK_DEADLOCK FALSE

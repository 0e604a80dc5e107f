SPECIFICATION Spec
CONSTANTS
    Site = {1, 2}
    Value = {1}
    Arity = {0, 2}
    HashMin = 2
    MaxDepth = 4
    MaxData = 4
INVARIANTS
    StacksAreSound
    DataStackIsOperands
PROPERTIES
    ReturnCarriesResult
CHECK_DEADLOCK FALSE

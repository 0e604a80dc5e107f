SPECIFICATION FairSpec
CONSTANTS
    HeapBase = 1
    HeapLimit = 12
    Seeds = 1
    Payloads = {1, 2, 4}
    Kinds = {user}
    SeedKind = user
INVARIANTS
    HeapIsWhole
    BlocksFitWorklist
PROPERTIES
    ImplementsAbstractHeap
    AllocTerminates
CHECK_DEADLOCK FALSE

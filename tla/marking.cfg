SPECIFICATION FairSpec
CONSTANTS
    o1 = o1
    o2 = o2
    o3 = o3
    s1 = s1
    int = int
    corrupt = corrupt
    Obj = {o1, o2, o3}
    StackCtx = {s1}
    Global = global
    Frame = {2, 3, 5}
    Scalar = {int}
    Bad = {corrupt}
    Root = root
    Graphs <- MCGraphs
    HeapUnits = 6
    WorklistSize = 3
INVARIANTS
    MarkPhaseIsSound
    MarksExactlyReachable
PROPERTIES
    MarkTerminates
CHECK_DEADLOCK FALSE

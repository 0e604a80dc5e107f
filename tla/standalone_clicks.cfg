SPECIFICATION Spec
CONSTANTS
    HEAP = 65536
    HEAP_LIMIT = 47000
    StartBytes = 1165
    StartCells = 40232
    MaxClicks = 4200
CHECK_DEADLOCK FALSE
INVARIANT EveryClickCounts

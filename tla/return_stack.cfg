SPECIFICATION StackSpec
CONSTANTS
    Bottom = 8
    StackTop = 208
    SavedCells = {0, 3, 4}
    MaxEntries = 5
INVARIANTS
    StackIsSound
CHECK_DEADLOCK FALSE

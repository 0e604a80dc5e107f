SPECIFICATION Spec
CONSTANTS
  NTasks = 2
  Objects = {o1}
  None = None
  RSCells = 2
  DSCells = 1
  MainOps = 4
  TaskOps = 3
  SchedulerLocals = FALSE
  BaseLocals = FALSE
INVARIANTS
    WorldsAreSound
    BoundedWaiting
PROPERTIES
    ImplementsAbstractTasks
    EveryTaskFinishes
CHECK_DEADLOCK FALSE

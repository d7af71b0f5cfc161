SPECIFICATION Spec
CONSTANTS
  Task = {t1, t2, b}
  Barrier = {b}
  Tick = tick
  Policy = {"drop", "reject"}
  Capacity = 2
  None = None
CONSTRAINT Load
INVARIANTS WaitIdleBarrier LateTicks
PROPERTIES AcceptedRuns StopEnds
CHECK_DEADLOCK FALSE

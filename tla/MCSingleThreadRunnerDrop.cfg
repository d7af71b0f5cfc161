SPECIFICATION Spec
CONSTANTS
  Task = {t1, t2}
  Barrier = {}
  Tick = tick
  Policy = {"drop"}
  Capacity = 1
  None = None
PROPERTY DropReturns
CHECK_DEADLOCK FALSE

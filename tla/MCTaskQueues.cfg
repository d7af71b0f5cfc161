SPECIFICATION Spec
CONSTANTS
  Priority = {0, 1, 2}
  MaxPushes = 8
  MaxSequence = 3
  DefaultCap = 2
  CompactMin = 4
  ShrinkFactor = 2
INVARIANTS FIFOContents
PROPERTIES PopsInOrder
CHECK_DEADLOCK FALSE

SPECIFICATION Spec
CONSTANTS
  MaxConcurrency = 2
  MaxCalls = 3
  Kinds = {"task", "wait"}
INVARIANTS
  TypeOK
  ConcurrencyBound
  BarrierAfterPrior
PROPERTIES
  QueuedItemEnds
  WaitIdleReturns
CHECK_DEADLOCK FALSE

SPECIFICATION Spec
CONSTANTS
  Posters = {p1, p2}
  Workers = {w1, w2}
  MaxCalls = 1
  NoTask = NoTask
INVARIANTS
  TypeOK
  OneRunLoop
  SanityCheckHolds
  NoStrandedTask
  WaitIdleBarrier
PROPERTIES
  StrandSafety
  WaitIdleReturns
  StrandSpec
CHECK_DEADLOCK FALSE

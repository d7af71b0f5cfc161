SPECIFICATION Safety
CONSTANTS
  MaxConcurrency = 2
  MaxCalls = 2
  Kinds = {"task", "flush"}
INVARIANT NoOvertaking
CHECK_DEADLOCK FALSE

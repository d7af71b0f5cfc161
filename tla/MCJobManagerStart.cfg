SPECIFICATION Spec
CONSTANTS
  Job = {j1, j2}
  OldRows = {"none", "PENDING"}
  Stores = {"sqlite"}
  EarlySubmit = TRUE
  MaxRetries = 0
  MaxCrashes = 0
  None = None
PROPERTIES StartReturns
CHECK_DEADLOCK FALSE

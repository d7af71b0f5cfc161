SPECIFICATION Spec
CONSTANTS
  Job = {j1}
  OldRows = {"none", "PENDING", "RUNNING"}
  Stores = {"sqlite", "memory", "legacy"}
  EarlySubmit = FALSE
  MaxRetries = 1
  MaxCrashes = 1
  None = None
INVARIANTS DurableAck
PROPERTIES FinalIsFinal StartsPending ShutdownSaves AckedEventuallyFinal SubmitReturns
CHECK_DEADLOCK FALSE

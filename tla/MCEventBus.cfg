SPECIFICATION Spec
CONSTANTS
  Type = {a, b}
  MaxCalls = 5
  MaxUnsubscribes = 2
CONSTRAINT Load
INVARIANTS
  LocatorsAgree
  ReachesAudience
  EventsInOrder
PROPERTY PublishDelivers
CHECK_DEADLOCK FALSE

SPECIFICATION Spec
CONSTANTS
  Item = {rep, w1}
  Repeating = rep
  Work = {w1}
  Delay = {1, 2}
  MaxTime = 2
  Kinds = {"sequenced", "parallel"}
  None = None
INVARIANTS NoOversleep ReplyAfterTask
PROPERTIES DueIsPosted ChainGoesOn
CHECK_DEADLOCK FALSE

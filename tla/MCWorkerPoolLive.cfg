SPECIFICATION Spec
CONSTANTS
  Posters = {dm, p1}
  DelayLoop = dm
  Workers = {w1}
  Stoppers = {s1, s2}
  MaxPosts = 2
  MaxStarts = 1
  NoTask = NoTask
PROPERTIES
  QueuedTaskRuns
  StopReturns
CONSTRAINT LiveLoad
CHECK_DEADLOCK FALSE

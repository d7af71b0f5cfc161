SPECIFICATION Safety
CONSTANTS
  Posters = {dm, p1}
  DelayLoop = dm
  Workers = {w1, w2}
  Stoppers = {s1, s2}
  MaxPosts = 2
  MaxStarts = 2
  NoTask = NoTask
SYMMETRY Symmetry
INVARIANTS
  TypeOK
  NoLostWakeup
  MetricsExact
  GracefulDrains
  StoppedPoolIsQuiet
CONSTRAINT SafetyLoad
CHECK_DEADLOCK FALSE

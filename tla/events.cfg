CONSTANTS
  a = a
  b = b
  c = c
  u = u
  v = v
  Paths <- ThreePaths
  Workers <- TwoWorkers
  MaxEvents = 5
  BatchSize = 1
  Scenarios <- Both
SPECIFICATION FairSpec
CHECK_DEADLOCK FALSE
INVARIANTS TypeOK CaughtUp
PROPERTIES ShutsDown

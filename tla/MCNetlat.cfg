SPECIFICATION NetFairSpec
CONSTANTS
  WARMUP = 1
  COUNT = 3
  MaxLost = 1
  MaxDuplicates = 1
  MaxOvertakings = 1
  MaxLate = 2
  MaxRefused = 1
INVARIANTS
  LagBounded
  Backlog
PROPERTIES
  Terminates
CHECK_DEADLOCK FALSE

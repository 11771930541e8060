SPECIFICATION NetFairSpec
CONSTANTS
  WARMUP = 1
  COUNT = 2
  MaxLost = 1
  MaxDuplicates = 1
  MaxOvertakings = 1
  MaxLate = 1
  MaxRefused = 1
INVARIANTS
  OnlyTimeoutsIgnored
CHECK_DEADLOCK FALSE

SPECIFICATION Spec
CONSTANTS
  W = 256
  Limit = 7
  CountOf <- MCCountOf
  Warmups <- MCWarmups
  Durations <- MCDurations
  Pages = 2
  Micro = 1000000
  Kilo = 1000
CHECK_DEADLOCK FALSE
INVARIANTS
  ResultsInRange
  TooFew

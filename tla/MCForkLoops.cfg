SPECIFICATION Spec
CONSTANTS
  RunsOf <- MCRunsOf
  Pid <- MCPid
  Root <- MCRoot
  MaxKills = 1
CHECK_DEADLOCK FALSE
INVARIANTS
  OneRuns
  ForksBounded
  SignalHitsChild
PROPERTIES
  EverythingEnds

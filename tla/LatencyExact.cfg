SPECIFICATION ExplainSpec
CHECK_DEADLOCK FALSE
CONSTANTS
  None = None  b1 = b1  b2 = b2
  MaxTs = 5
  Traces <- MCTraces
  Requests <- MCRequests
INVARIANTS
  SweepExact
  CriticalPathLongest
  SharesAddUp
  StructureIsSequential
  TailMatchesExplanation
PROPERTIES
  Terminates

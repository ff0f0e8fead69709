SPECIFICATION TailSpec
CHECK_DEADLOCK FALSE
CONSTANTS
  b1 = b1  b2 = b2  m1 = m1  m2 = m2
  None = None
  Pools <- Lives
  Fleets <- LiveFleets
INVARIANTS
  OrderIndependent
  AuthorityTransitionsShown
  CounterfactualBounded
  PercentileRank
  TailSeparates
  TalliesAgree
PROPERTIES
  CompletionDecides
  LateEvidenceWidens
  LateEvidenceOnlyAdds

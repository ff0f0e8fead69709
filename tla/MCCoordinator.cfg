SPECIFICATION Spec
CONSTANTS
  k1 = k1  k2 = k2  b1 = b1  b2 = b2
  i1 = i1  i2 = i2  i3 = i3  i4 = i4  r1 = r1  r2 = r2  t1 = t1
  None = None
  Keys = {k1, k2}
  Boots = {b1, b2}
  ObsIds = {i1, i2, i3, i4}
  Requests = {r1, r2}
  Timestamps = {t1}
  Hellos <- MCHellos
  Observations <- MCObservations
  Epochs = {2}
  U32 = 2
  MaxStale = 2
  MaxRestarts = 1
INVARIANTS
  TypeOK
  IndexExact
  CountersConserve
  AuthorityCovers
  SessionOrder
PROPERTIES
  EvidencePreserved
  SessionMonotone
  ImplementsStore

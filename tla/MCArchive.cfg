SPECIFICATION ArchiveSpec
CHECK_DEADLOCK FALSE
CONSTANTS
  k1 = k1  b1 = b1  b2 = b2  i1 = i1  i2 = i2  r1 = r1
  None = None
  Keys = {k1}
  Boots = {b1, b2}
  ObsIds = {i1, i2}
  Requests = {r1}
  Timestamps = {}
  Hellos <- MCHellos
  Observations <- MCObservations
  Epochs = {}
  U32 = 8
  MaxStale = 1
  MaxRestarts = 1
  LengthMod = 1000
  Unreadable = {}
  MaxSaves = 2
INVARIANTS
  SnapshotClosed
  SaveLoads
  LoadSound

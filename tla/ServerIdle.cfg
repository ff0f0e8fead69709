SPECIFICATION NetSpec
CONSTANTS
  k1 = k1  b1 = b1  b2 = b2  b3 = b3  p1 = p1  p2 = p2  p3 = p3  r1 = r1
  None = None
  Keys = {k1}
  Boots = {b1, b2, b3}
  ObsIds <- IdleObsIds
  Requests = {r1}
  Timestamps = {}
  Hellos <- MCHellos
  Observations <- IdleObservations
  Epochs = {1}
  U32 = 8
  MaxStale = 6
  MaxRestarts = 2
  Procs = {p1, p2}
  Config <- MCConfig
  Script <- IdleScript
  After <- MCAfter
  Fire = {p1}
  Cap = 1
  MaxTimeouts = 2
  Undecodable <- IdleUndecodable
  ServerTimeout = TRUE
  Crashes = TRUE
INVARIANTS
  NetTypeOK
  AcksBounded
  NoGaps
CHECK_DEADLOCK FALSE

SPECIFICATION FairNetSpec
CONSTANTS
  k1 = k1  b1 = b1  b2 = b2  b3 = b3  p1 = p1  p2 = p2  p3 = p3  r1 = r1
  None = None
  Keys = {k1}
  Boots = {b1, b2, b3}
  ObsIds <- FireObsIds
  Requests = {r1}
  Timestamps = {}
  Hellos <- MCHellos
  Observations <- FireObservations
  Epochs = {1}
  U32 = 8
  MaxStale = 6
  MaxRestarts = 4
  Procs = {p1}
  Config <- MCConfig
  Script <- FireScript
  After <- MCAfter
  Fire = {p1}
  Cap = 1
  MaxTimeouts = 0
  Undecodable = {}
  ServerTimeout = FALSE
  Crashes = FALSE
PROPERTIES
  ProcessesEnd
CHECK_DEADLOCK FALSE

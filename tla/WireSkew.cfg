SPECIFICATION WireSpec
CHECK_DEADLOCK FALSE
CONSTANTS
  N = 3
  Start <- Offsets
  Valid = {1, 3}
  Bye = {3}
  Misread <- Lengths
  MaxTimeouts = 1
  MaxCalls = 1
INVARIANTS
  TimeoutIsTransient

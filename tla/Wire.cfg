SPECIFICATION WireSpec
CHECK_DEADLOCK FALSE
CONSTANTS
  N = 3
  Start <- Offsets
  Valid = {1, 3}
  Bye = {3}
  Misread <- Lengths
  MaxTimeouts = 3
  MaxCalls = 2
INVARIANTS
  WireTypeOK
  FramesInOrder
  NoLossWithoutTimeout
PROPERTIES
  ImplementsChannel
  ReaderEnds

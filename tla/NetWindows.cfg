SPECIFICATION Spec
CONSTANTS
  WindowA = 2
  WindowB = 1
  Capacity = 2
  PerPacket = 2
  AckSpan = 1
  MaxFrames = 3
  MaxAcks = 1
INVARIANT
  NothingForgotten
CHECK_DEADLOCK FALSE

SPECIFICATION Spec
CONSTANTS
  WindowA = 3
  WindowB = 3
  Capacity = 2
  PerPacket = 2
  AckSpan = 2
  MaxFrames = 4
  MaxAcks = 1
INVARIANTS
  TypeOK
  NothingForgotten
  BuffersBounded
PROPERTIES
  KeepsPromise
  EverythingSettles
CHECK_DEADLOCK FALSE

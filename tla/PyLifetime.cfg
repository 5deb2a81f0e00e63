SPECIFICATION Spec
CONSTANTS
  Addrs = {a1, a2}
  Worlds = {w1, w2}
  Views = {v1, v2}
  Groups = {g1, g2}
  Frames = {f1}
  Program = program
  NULL = NULL
  MaxLease = 3
SYMMETRY Symmetry
INVARIANTS
  TypeOK
  SoleOwner
  ReferentsAlive
  ValidIffLent
  BuffersHeldByFrames
PROPERTIES
  NativeUseIsLive
  KeepsPromise

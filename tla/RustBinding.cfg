SPECIFICATION Spec
CONSTANTS
  Addrs = {a1, a2}
  Threads = {t1, t2}
  Worlds = {w1, w2}
  Worksets = {k1}
  Views = {v1, v2}
  Items = {i1, i2}
  NULL = NULL
  MaxLease = 4
SYMMETRY Symmetry
INVARIANTS
  TypeOK
  OneWriter
  BorrowsAreLent
  InUseIsAlive
PROPERTIES
  KeepsPromise

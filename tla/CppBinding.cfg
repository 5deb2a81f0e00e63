SPECIFICATION Spec
CONSTANTS
  Addrs = {a1, a2}
  Worlds = {w1, w2}
  States = {s1, s2, s3}
  Views = {v1, v2}
  NULL = NULL
  MaxLease = 4
SYMMETRY Symmetry
INVARIANTS
  TypeOK
  ValidIffLent
PROPERTIES
  NativeUseIsLive
  ViewsOutliveWorlds
  KeepsPromise

SPECIFICATION Spec
CONSTANTS
  Addrs = {a1}
  NULL = NULL
  MaxLease = 4
  Recipients = {r1}
  Entities = {e1, e2}
  Channels = {c1}
  Handles = {h1}
  Natives = {n1}
  Views = {v1}
SYMMETRY Symmetry
PROPERTIES
  SyncShowsItsWorld

SPECIFICATION Spec
CONSTANTS
  Addrs = {a1, a2}
  NULL = NULL
  MaxLease = 4
  Recipients = {r1}
  Entities = {e1}
  Channels = {c1}
  Handles = {h1}
  Natives = {n1}
  Views = {v1}
SYMMETRY Symmetry
PROPERTIES
  StillVisibleRetained

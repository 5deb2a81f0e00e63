SPECIFICATION Spec
CONSTANTS
  Addrs = {a1, a2}
  NULL = NULL
  MaxLease = 4
  Recipients = {r1}
  Entities = {e1, e2}
  Channels = {c1}
  Handles = {h1, h2}
  Natives = {n1, n2}
  Views = {v1}
SYMMETRY Symmetry
INVARIANTS
  TypeOK
  MembershipExact
  PendingAccounted
  ChangedMembershipRefused
PROPERTIES
  SameWorldRetained

SPECIFICATION Spec
CONSTANTS
  Commands = {c1}
  MaxTick = 3
  MaxFaults = 3
  NULL = NULL
INVARIANTS
  TypeOK
  RecoversWhole
  SafeSurvives
  Accounted
PROPERTIES
  KeepsPromise
  EveryTickCommits

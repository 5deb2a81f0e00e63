SPECIFICATION NestedSpec
CONSTANTS
  Commands = {c1}
  MaxTick = 3
  MaxFaults = 1
  NULL = NULL
INVARIANT
  SafeSurvives

SPECIFICATION Spec
CONSTANTS
  Abis = {cp311, cp312}
  Stray = Stray
  Rest = Rest
  None = None
  Torn = Torn
  MaxBuilds = 2
  MaxEdits = 1
SYMMETRY Symmetry
INVARIANTS
  TypeOK
  CompleteIsWhole
  AcceptedIsWhole

SPECIFICATION Spec
CONSTANTS
  Call = {c1, c2, c3, c4}
  Process = {p1, p2, p3}
  MaxTries = 2
  MaxGen = 5
  Reused = {p3}
  NONE = NONE
CHECK_DEADLOCK FALSE
SYMMETRY Symmetry
INVARIANTS
  MutualExclusion
  QuietIsFree

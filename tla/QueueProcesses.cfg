CONSTANTS
  NONE = NONE
  Job = {j1}
  Attempt = {a1, a2}
  Input = {i1}
  Proc = {p1, p2}
  Draining = {p1}
  MaxLease = 1
  MaxPosting = 1
  MaxGen = 1
  Tracking = {}
SPECIFICATION Spec
SYMMETRY Symmetry
PROPERTIES ImplementsSlot NothingStartsWhileHalted ClaimsAreRun

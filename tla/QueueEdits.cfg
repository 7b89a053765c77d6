CONSTANTS
  NONE = NONE
  Job = {j1}
  Attempt = {a1, a2}
  Input = {i1, i2}
  Proc = {p1}
  Draining = {p1}
  MaxLease = 1
  MaxPosting = 1
  MaxGen = 1
  Tracking = {"archive","restore"}
SPECIFICATION Spec
SYMMETRY Symmetry
INVARIANTS ReadyIsPublished ReadyIsNotMarkedStale ArchivedIsInert
PROPERTIES FitReturnsReady

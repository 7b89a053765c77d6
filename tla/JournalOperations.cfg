SPECIFICATION FairSpec
CONSTANTS
  d1 = d1
  o1 = o1
  Process = {p1, p2}
  Draft = {d1, d2, d3}
  Managed = {}
  Legacy = {d1}
  Op = {o1, o2}
  AdoptOp <- MCAdoptOp
  Edit = {e1}
  MaxReceipts = 1
  Touchable <- MCTouchable
  Mortal = {p1}
  MaxCrashes = 1
  MaxSaves = 1
  NONE = NONE
INVARIANTS
  OneDraftPerOperation
  PendingIsCurrent
  AppliedOnce
  RecordMatchesFiles
PROPERTIES
  NoUnseenOverwrite
  ImplementsStore
  OperationsSettle
CHECK_DEADLOCK FALSE

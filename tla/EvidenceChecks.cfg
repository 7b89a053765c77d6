SPECIFICATION FairSpec
CONSTANTS
  Service = {s1, s2}
  Passage = {a, b}
  Candidate = {{a, b}}
  Limit = 2
  MaxOps = 2
  MaxTasks = 3
  MaxEdits = 1
  MayFail = TRUE
CHECK_DEADLOCK FALSE
INVARIANTS
  CompleteIsChecked
  OpenCallIsLeased
  OneTaskAsks
  SpendsOnce
PROPERTIES
  ResultsAreCurrent
  ChecksEnd

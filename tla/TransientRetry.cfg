SPECIFICATION Spec
CONSTANTS
  Service = {s1}
  Passage = {a}
  Candidate = {{a}}
  Limit = 2
  MaxOps = 1
  MaxTasks = 1
  MaxEdits = 1
  MayFail = FALSE
CHECK_DEADLOCK FALSE
INVARIANTS
  TransientIsRetried

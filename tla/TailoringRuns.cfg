SPECIFICATION FairSpec
CONSTANTS
  Run = {r1}
  Call = {c1, c2}
  MaxEdits = 2
  MaxFaults = 1
  NONE = NONE
INVARIANTS OneFlight ReviewedIsCurrent
PROPERTIES CompletedIsApproved RunsEnd
CHECK_DEADLOCK FALSE

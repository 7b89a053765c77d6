CONSTANTS
  NONE = NONE
  Job = {j1}
  Attempt = {a1, a2}
  Input = {i1}
  Proc = {p1}
  Draining = {p1}
  MaxLease = 1
  MaxPosting = 1
  MaxGen = 1
  Tracking = {"applied", "unapply"}
SPECIFICATION FairSpec
PROPERTIES QueueDrains AttemptsEnd

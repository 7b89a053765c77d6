CONSTANTS
  t1 = t1
  t2 = t2
  Text = {t1, t2}
  Plain = {t1}
  MaxAttempts = 3
  MaxInputs = 2
  MaxRepairs = 1
  model = model
  Support = {model}
  NONE = NONE
SPECIFICATION Spec
INVARIANTS SameGround
PROPERTIES ReviewedIsPublished PublishedIsCurrent EditsGiveWay
CHECK_DEADLOCK FALSE

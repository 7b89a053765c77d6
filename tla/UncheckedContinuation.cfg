CONSTANTS
  t1 = t1
  t2 = t2
  Text = {t1, t2}
  Plain = {t1}
  MaxAttempts = 2
  MaxInputs = 1
  MaxRepairs = 1
  model = model
  Support = {model}
  NONE = NONE
SPECIFICATION Spec
INVARIANT PublishedIsChecked
CHECK_DEADLOCK FALSE

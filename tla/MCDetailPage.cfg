CONSTANTS
  t1 = t1
  t2 = t2
  Trackings = {t1, t2}
  Changing = {t1}
  Slots = {1, 2}
  Login = Login
  Elsewhere = Elsewhere
  None = None
SPECIFICATION DetailSpec
INVARIANTS
  DetailTypeOK
PROPERTIES
  DetailCatchesUp
  SpinnerStops
CHECK_DEADLOCK FALSE

CONSTANTS
  w1 = w1
  j1 = j1
  j2 = j2
  f1 = f1
  t1 = t1
  t2 = t2
  Workers = {w1}
  Jobs = {j1, j2}
  NoJob = NoJob
  Trackings = {t1, t2}
  TrackingOf <- MCTrackingOf
  Files = {f1}
  NullResults = FALSE
  ChannelCap = 1
  MasterCap = 1
  Cancellable = {t1}
SPECIFICATION ExecutorSafety
INVARIANTS
  CancelIsIsolated
CHECK_DEADLOCK FALSE

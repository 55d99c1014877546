CONSTANTS
  w1 = w1
  w2 = w2
  f1 = f1
  j1 = j1
  j2 = j2
  t1 = t1
  r1 = r1
  r2 = r2
  Workers = {w1, w2}
  Jobs = {j1, j2}
  NoJob = NoJob
  Trackings = {t1}
  TrackingOf <- MCTrackingOf
  WorkerRole <- MCTwoRoles
  RoleOf <- MCJobsOfTwoRoles
  HostOf <- MCOneHost
  Files = {f1}
  TextFiles = {f1}
  ReplayTo = 5
  MaxEvents = 6
  ChannelCap = 0
  MaxParallelism = 2
  Resends = TRUE
SPECIFICATION JournalSpec
VIEW MCView
INVARIANTS
  JournalReplays
  LiveIsRecovered
  TypeOK
  OneVerdictPerAcceptance
CHECK_DEADLOCK FALSE

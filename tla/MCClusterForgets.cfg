CONSTANTS
  w1 = w1
  w2 = w2
  j1 = j1
  j2 = j2
  f1 = f1
  t1 = t1
  r1 = r1
  Workers = {w1, w2}
  Jobs = {j1}
  NoJob = NoJob
  Trackings = {t1}
  TrackingOf <- MCTrackingOf
  WorkerRole <- MCWorkerRole
  RoleOf <- MCRoleOf
  HostOf <- MCHostOf
  Files = {}
  TextFiles = {}
  ReplayTo = 6
  MaxEvents = 6
  ChannelCap = 2
  MasterCap = 2
  MaxParallelism = 1
  Resends = FALSE
  NullResults = FALSE
  Cancellable = {}
  Faults = {}
  MaxFaults = 0
SPECIFICATION ClusterSpec

PROPERTIES
  AckedJobsSettle
CHECK_DEADLOCK FALSE

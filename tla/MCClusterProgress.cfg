CONSTANTS
  w1 = w1
  w2 = w2
  j1 = j1
  j2 = j2
  f1 = f1
  t1 = t1
  r1 = r1
  Workers = {w1}
  Jobs = {j1,j2}
  NoJob = NoJob
  Trackings = {t1}
  TrackingOf <- MCTrackingOf
  WorkerRole <- MCWorkerRole
  RoleOf <- MCRoleOf
  HostOf <- MCHostOf
  Files = {f1}
  TextFiles = {}
  ReplayTo = 16
  MaxEvents = 16
  ChannelCap = 2
  MasterCap = 2
  MaxParallelism = 0
  Resends = FALSE
  NullResults = FALSE
  Cancellable = {}
  Faults = {"crash","loss"}
  MaxFaults = 1
SPECIFICATION ClusterSpec

PROPERTIES
  QueuedJobsStart
  WaitingEnds
  FilesArrive
CHECK_DEADLOCK FALSE

CONSTANTS
  w1 = w1
  w2 = w2
  j1 = j1
  j2 = j2
  j3 = j3
  t1 = t1
  t2 = t2
  r1 = r1
  r2 = r2
  Workers = {w1, w2}
  Jobs = {j1, j2, j3}
  NoJob = NoJob
  Trackings = {t1, t2}
  TrackingOf <- MCTrackingOf
  WorkerRole <- MCTwoRoles
  RoleOf <- MCJobsOfTwoRoles
  HostOf <- MCHostOf
  Files = {}
  TextFiles = {}
  ReplayTo = 6
  MaxEvents = 6
  ChannelCap = 1
  MaxParallelism = 2
  Resends = FALSE
SPECIFICATION Spec
VIEW MCView
SYMMETRY MCSymmetry
INVARIANTS
  JobsConserved
  OneVerdictPerAcceptance
  BookedOnce
  AckedJobsKept
  SummaryFollowsJobs
  CompletedMeansFinished
  RunningMeansOpen
PROPERTIES
  DoneIsFinal
  CompletedIsKept
  ImplementsWorkPool
CHECK_DEADLOCK FALSE

CONSTANTS
  j1 = j1
  j2 = j2
  c1 = c1
  None = None
  Jobs = {j1, j2}
  Schedules <- AllKinds
  Clients = {c1}
  MaxTasks = 1
  MaxConcurrent = 1
  MaxRunHistory = 1
  Retries = 1
  Horizon = 2
  MaxCrashes = 1
  MaxChanges = 3
SPECIFICATION FairSpec
CHECK_DEADLOCK FALSE
INVARIANTS
  TypeOK
  RunsBelongToJobs
  SettledOnce
  ServedOnce
PROPERTIES
  RemovedStaysRemoved
  SchedulerKeepsPause
  DueIsWorkedOff

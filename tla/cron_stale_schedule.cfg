CONSTANTS
  j1 = j1
  j2 = j2
  c1 = c1
  None = None
  Jobs = {j1}
  Schedules <- ShortAndLong
  Clients = {c1}
  MaxTasks = 1
  MaxConcurrent = 1
  MaxRunHistory = 1
  Retries = 0
  Horizon = 2
  MaxCrashes = 0
  MaxChanges = 2
SPECIFICATION Spec
CHECK_DEADLOCK FALSE
INVARIANTS
  NextRunFollowsSchedule

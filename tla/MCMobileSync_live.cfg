SPECIFICATION FairSpec
CONSTANTS
  x1 = x1
  x2 = x2
  r1 = r1
  r2 = r2
  Records = {x1}
  RemoteRecords = {}
  MaxWrites = 2
  MaxBatch = 1
  Runs = {r1, r2}
  MaxRetries = 1
  MaxFaults = 2
  Triggers = {"scheduler"}
PROPERTY RowEventuallyResolved
PROPERTY BadgeEventuallyExact
INVARIANT SchedulerRunsAlone

SPECIFICATION Spec
CONSTANTS
  x1 = x1
  x2 = x2
  r1 = r1
  r2 = r2
  Records = {x1, x2}
  RemoteRecords = {}
  MaxWrites = 2
  MaxBatch = 2
  Runs = {r1}
  MaxRetries = 1
  MaxFaults = 3
  Triggers = {"scheduler"}

INVARIANT NothingMissed
CHECK_DEADLOCK FALSE

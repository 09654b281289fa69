SPECIFICATION Spec
CONSTANTS
  x1 = x1
  x2 = x2
  r1 = r1
  r2 = r2
  Records = {x1}
  RemoteRecords = {x1}
  MaxWrites = 2
  MaxBatch = 1
  Runs = {r1}
  MaxRetries = 2
  MaxFaults = 1
  Triggers = {"manual"}

INVARIANT ServerHoldsLatest
CHECK_DEADLOCK FALSE

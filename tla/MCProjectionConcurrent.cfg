SPECIFICATION MCSpec
CONSTANTS
  Id = {a}
  Writer = {w1, w2}
  MaxRetries = 10
  MaxEvents = 2
  MaxBatch = 1
  MaxBusy = 0
  MaxCrashes = 0
  MaxUnits = 6
  Width = 10
  Attempts = 10
  BaseDelay = 10
  MaxDelay = 1000
  Budget = 4270
  MaxDeploys = 0
INVARIANT ConcurrentIsFold
CHECK_DEADLOCK FALSE

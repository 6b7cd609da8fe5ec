SPECIFICATION MCSpec
CONSTANTS
  Id = {a}
  Writer = {w1, w2}
  MaxRetries = 1
  MaxEvents = 3
  MaxBatch = 2
  MaxBusy = 3
  MaxCrashes = 1
  MaxUnits = 6
  Width = 10
  Attempts = 10
  BaseDelay = 10
  MaxDelay = 1000
  Budget = 4270
  MaxDeploys = 1
INVARIANTS FallbackAfterFailure RetryBounded AcceptedApplies ViewIsFold SettledIsCurrent RecordedIsRebuilt HandledOnce
PROPERTY ViewCatchesUp
CHECK_DEADLOCK FALSE

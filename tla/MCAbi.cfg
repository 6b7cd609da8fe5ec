SPECIFICATION AbiSpec
CONSTANTS
  Stream = {s1}
  Sender = {w1}
  Cli = {}
  Job = {j1}
  NoJob = NoJob
  Caller = {c1}
  NativePolicy = {"Retain"}
  Registered <- OnRecord
  SnapshotSize = 2
  MaxEvents = 2
  MaxBatch = 2
  MaxDeploys = 1
  MaxPage = 1
  MaxResponse = 4
  MaxCommitEvents = 3
INVARIANTS LoadIsFold NeverSilentlyLost ListedIffCommitted OversizeIsResourceLimit PagedReadWhole ConflictNotBehind
PROPERTY ImplementsEntityStore
CHECK_DEADLOCK FALSE

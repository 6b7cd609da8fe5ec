SPECIFICATION Spec
CONSTANTS
  Stream = {s1}
  Sender = {w1, w2}
  Cli = {w2}
  Job = {j1}
  NoJob = NoJob
  NativePolicy = {"Retain", "CompactAfterSnapshot"}
  Registered <- OnRecord
  SnapshotSize = 1
  MaxEvents = 3
  MaxBatch = 2
  MaxDeploys = 1

PROPERTY SequencesNeverReused
CHECK_DEADLOCK FALSE

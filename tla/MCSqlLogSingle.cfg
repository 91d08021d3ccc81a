SPECIFICATION Spec
CONSTANTS
  n1 = n1
  c1 = c1
  c2 = c2
  c3 = c3
  Node = {n1}
  Writer = {n1}
  Command = {c1, c2, c3}
  MaxBatch = 2
  QueueDepth = 2
  FetchLimit = 1
  SnapshotEvery = 2
  MaxCrashes = 2
  MaxFlushErrors = 0
  MaxCycleErrors = 1
  MaxCorruptions = 1
SYMMETRY CommandSymmetry
INVARIANTS AckedDurable ReadYourWrites AppliedOnce
CHECK_DEADLOCK FALSE

SPECIFICATION Spec
CONSTANTS
  n1 = n1
  n2 = n2
  c1 = c1
  c2 = c2
  Node = {n1, n2}
  Writer = {n1, n2}
  Command = {c1, c2}
  MaxBatch = 1
  QueueDepth = 2
  FetchLimit = 2
  SnapshotEvery = 1
  MaxCrashes = 0
  MaxFlushErrors = 0
  MaxCycleErrors = 0
  MaxCorruptions = 0
INVARIANT Agreement
CHECK_DEADLOCK FALSE

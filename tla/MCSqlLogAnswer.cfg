SPECIFICATION Spec
CONSTANTS
  n1 = n1
  c1 = c1
  c2 = c2
  Node = {n1}
  Writer = {n1}
  Command = {c1, c2}
  MaxBatch = 1
  QueueDepth = 2
  FetchLimit = 2
  SnapshotEvery = 1
  MaxCrashes = 0
  MaxFlushErrors = 1
  MaxCycleErrors = 0
  MaxCorruptions = 0
INVARIANT AnsweredOwn
CHECK_DEADLOCK FALSE

SPECIFICATION Spec
CONSTANTS
  n1 = n1
  n2 = n2
  c1 = c1
  c2 = c2
  c3 = c3
  Node = {n1, n2}
  Writer = {n1, n2}
  Command = {c1, c2, c3}
  MaxBatch = 2
  QueueDepth = 2
  FetchLimit = 1
  SnapshotEvery = 0
  MaxCrashes = 1
  MaxFlushErrors = 1
  MaxCycleErrors = 0
  MaxCorruptions = 1
SYMMETRY CommandSymmetry
INVARIANTS TypeOK Agreement AnsweredOwn ReadYourWrites AppliedOnce
PROPERTY ImplementsLinearLog
CHECK_DEADLOCK FALSE

SPECIFICATION Spec
CONSTANTS
  n1 = n1
  n2 = n2
  c1 = c1
  c2 = c2
  c3 = c3
  Node = {n1, n2}
  Writer = {n1}
  Command = {c1, c2, c3}
  MaxBatch = 2
  QueueDepth = 2
  FetchLimit = 2
  SnapshotEvery = 1
  MaxCrashes = 0
  MaxFlushErrors = 0
  MaxCycleErrors = 1
  MaxCorruptions = 1
SYMMETRY CommandSymmetry
INVARIANTS Agreement AckedDurable Rebuildable
CHECK_DEADLOCK FALSE

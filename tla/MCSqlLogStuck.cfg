SPECIFICATION FairSpec
CONSTANTS
  n1 = n1
  n2 = n2
  c1 = c1
  Node = {n1, n2}
  Writer = {n1}
  Command = {c1}
  MaxBatch = 1
  QueueDepth = 2
  FetchLimit = 2
  SnapshotEvery = 1
  MaxCrashes = 0
  MaxFlushErrors = 0
  MaxCycleErrors = 0
  MaxCorruptions = 0
PROPERTY EveryProposalAnswered
CHECK_DEADLOCK FALSE

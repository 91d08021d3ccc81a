SPECIFICATION Spec
CONSTANTS
  Node = {1, 2}
  NodeEpoch = {1, 2}
  SlotCount = {0, 1}
  Address = {}
  StreamEpoch = {1, 2}
  Offset = {0}
  BatchSize = {1, 2}
  MaxStreams = 2
  LeaseCount = {1}
  Ttl = {1}
  Operation = {"Delete"}
  Now = {0}
  MaxObjects = 0
  MaxSeq = 0
  Key = {k}
  Value = {v}
  k = k
  v = v
INVARIANTS
  OwnershipIndexes
  EpochGrantedOnce
  TransferWellFormed
PROPERTY
  RowsMoveForward

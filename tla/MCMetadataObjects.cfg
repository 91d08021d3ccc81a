SPECIFICATION Spec
CONSTANTS
  Node = {1}
  NodeEpoch = {1}
  SlotCount = {1}
  Address = {}
  StreamEpoch = {1}
  Offset = {0, 1, 2}
  BatchSize = {1}
  MaxStreams = 1
  LeaseCount = {1}
  Ttl = {1}
  Operation = {"Delete"}
  Now = {0, 1}
  MaxObjects = 3
  MaxSeq = 4
  Key = {}
  Value = {}
INVARIANTS
  TypeOK
  ObjectIndexes
  ObjectIdentity
  RangesWithinStream
  NoDataLoss

SPECIFICATION Spec
CONSTANTS
  Node = {1}
  NodeEpoch = {1}
  SlotCount = {1}
  Address = {}
  StreamEpoch = {1}
  Offset = {0, 1}
  BatchSize = {1}
  MaxStreams = 2
  LeaseCount = {1}
  Ttl = {1}
  Operation = {"Delete"}
  Now = {0}
  MaxObjects = 3
  MaxSeq = 4
  Key = {}
  Value = {}
INVARIANTS
  ObjectIdentity
  RangesWithinStream
  NoDataLoss

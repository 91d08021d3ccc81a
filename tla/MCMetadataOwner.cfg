SPECIFICATION Spec
CONSTANTS
  Node = {1, 2}
  NodeEpoch = {1}
  SlotCount = {1}
  Address = {}
  StreamEpoch = {1}
  Offset = {0, 1}
  BatchSize = {1}
  MaxStreams = 1
  LeaseCount = {1}
  Ttl = {1}
  Operation = {"Delete"}
  Now = {0}
  MaxObjects = 1
  MaxSeq = 1
  Key = {}
  Value = {}
PROPERTY
  UploadsByOwner

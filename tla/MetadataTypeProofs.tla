------------------------- MODULE MetadataTypeProofs -------------------------
(***************************************************************************)
(* Type correctness of the metadata state machine, for every choice of     *)
(* nodes, epochs, offsets and bounds.                                      *)
(***************************************************************************)
EXTENDS Metadata, FiniteSetTheorems, TLAPS

(* Type correctness of the stream and node tables.                         *)

LEMMA ControlTypeInit == ControlInit => ControlTypeOK
BY DEF ControlInit, ControlTypeOK, EmptyMap

LEMMA ControlTypeNext == ControlTypeOK /\ ControlNext => ControlTypeOK'
<1> SUFFICES ASSUME ControlTypeOK, ControlNext PROVE ControlTypeOK'
  OBVIOUS
<1> USE StreamControlConstants
<1>1. ASSUME NEW n \in Node, NEW ne \in NodeEpoch, NEW a \in Address \cup {NoAddress},
             NEW slots \in SlotCount, RegisterNode(n, ne, a, slots)
      PROVE  ControlTypeOK'
  <2> DEFINE known == IF n \in DOMAIN nodes THEN nodes[n].http_address ELSE NoAddress
             kept  == IF a = NoAddress THEN known ELSE a
             row   == [epoch |-> ne, http_address |-> kept, slots |-> slots]
  <2>1. row \in NodeRow
    BY DEF ControlTypeOK, NodeRow
  <2>2. nodes' = Put(nodes, n, row)
    BY <1>1 DEF RegisterNode
  <2>3. DOMAIN nodes' \subseteq Node /\ nodes' \in [DOMAIN nodes' -> NodeRow]
    BY <2>1, <2>2 DEF ControlTypeOK, Put
  <2> QED
    BY <1>1, <2>3 DEF RegisterNode, ControlTypeOK, StreamIds
<1>2. ASSUME NEW n \in Node, NEW ne \in NodeEpoch, NEW count \in BatchSize,
             CreateStreams(n, ne, count)
      PROVE  ControlTypeOK'
  <2>1. NewStreamRow \in StreamRow
    BY DEF NewStreamRow, StreamRow
  <2>2. StreamIds \subseteq StreamIds'
    BY <1>2 DEF CreateStreams, StreamIds, ControlTypeOK
  <2>3. DOMAIN streams' \subseteq StreamIds' /\ streams' \in [DOMAIN streams' -> StreamRow]
    BY <1>2, <2>1, <2>2 DEF CreateStreams, StreamIds, ControlTypeOK
  <2>4. next_stream_id' \in Nat
    BY <1>2 DEF CreateStreams, ControlTypeOK
  <2> QED
    BY <1>2, <2>2, <2>3, <2>4 DEF CreateStreams, ControlTypeOK
<1>3. ASSUME NEW n \in Node, NEW ne \in NodeEpoch, NEW s \in DOMAIN streams,
             NEW e \in StreamEpoch, OpenStream(n, ne, s, e)
      PROVE  ControlTypeOK'
  BY <1>3 DEF OpenStream, EpochIsNewer, PlacementOf, ControlTypeOK, StreamIds, StreamRow
<1>4. ASSUME NEW n \in Node, NEW ne \in NodeEpoch, NEW s \in DOMAIN streams,
             NEW e \in StreamEpoch, CloseStream(n, ne, s, e)
      PROVE  ControlTypeOK'
  BY <1>4, SMTT(30) DEF CloseStream, RequireOpenedStream, ControlTypeOK, StreamIds, StreamRow
<1>5. ASSUME NEW n \in Node, NEW ne \in NodeEpoch, NEW s \in DOMAIN streams,
             NEW e \in StreamEpoch, NEW o \in Offset, TrimStream(n, ne, s, e, o)
      PROVE  ControlTypeOK'
  BY <1>5 DEF TrimStream, RequireOpenedStream, ControlTypeOK, StreamIds, StreamRow
<1>6. ASSUME NEW s \in DOMAIN streams, PlaceStream(s)
      PROVE  ControlTypeOK'
  <2> PICK winner \in Placeable :
        /\ streams' = [streams EXCEPT ![s].node_id = winner]
        /\ placed_by_node' = placed_by_node \cup {<<winner, s>>}
    BY <1>6, ZenonT(30) DEF PlaceStream
  <2>1. winner \in Node
    BY DEF Placeable, ControlTypeOK
  <2> QED
    BY <1>6, <2>1 DEF PlaceStream, ControlTypeOK, StreamIds, StreamRow
<1>7. ASSUME NEW s \in DOMAIN streams, NEW from \in Node, NEW to \in Node,
             TransferStream(s, from, to)
      PROVE  ControlTypeOK'
  <2>1. [from_node |-> from, to_node |-> to] \in PendingTransfer
    BY DEF PendingTransfer
  <2>2. s \in StreamIds
    BY DEF ControlTypeOK
  <2>3. /\ DOMAIN pending_transfers' \subseteq StreamIds
        /\ pending_transfers' \in [DOMAIN pending_transfers' -> PendingTransfer]
    BY <1>7, <2>1, <2>2 DEF TransferStream, ControlTypeOK, Put
  <2> QED
    BY <1>7, <2>3 DEF TransferStream, ControlTypeOK, StreamIds
<1>8. ASSUME NEW s \in DOMAIN streams, NEW e \in StreamEpoch, CompleteTransfer(s, e)
      PROVE  ControlTypeOK'
  <2>1. pending_transfers[s].to_node \in Node
    BY <1>8 DEF CompleteTransfer, ControlTypeOK, PendingTransfer
  <2>2. /\ DOMAIN pending_transfers' \subseteq StreamIds
        /\ pending_transfers' \in [DOMAIN pending_transfers' -> PendingTransfer]
    BY <1>8 DEF CompleteTransfer, ControlTypeOK, Remove, Restrict
  <2>3. DOMAIN streams' = DOMAIN streams /\ streams' \in [DOMAIN streams' -> StreamRow]
    BY <1>8, <2>1 DEF CompleteTransfer, ControlTypeOK, StreamRow
  <2> QED
    BY <1>8, <2>2, <2>3, ZenonT(30) DEF CompleteTransfer, ControlTypeOK, StreamIds
<1> QED
  BY <1>1, <1>2, <1>3, <1>4, <1>5, <1>6, <1>7, <1>8 DEF ControlNext

-----------------------------------------------------------------------------
(* The destruction queue.                                                  *)

\* Sets of object ids are finite, so their cardinalities are numbers.
LEMMA FiniteIds ==
  ASSUME ObjectTypeOK, NEW ids, ids \subseteq DOMAIN written
  PROVE  IsFiniteSet(ids) /\ Cardinality(ids) \in Nat
<1>1. IsFiniteSet(0 .. (next_object_id - 1))
  <2>1. next_object_id - 1 \in Int
    BY DEF ObjectTypeOK
  <2> QED
    BY <2>1, FS_Interval
<1>2. ids \subseteq 0 .. (next_object_id - 1)
  BY DEF ObjectTypeOK
<1>3. IsFiniteSet(ids)
  BY <1>1, <1>2, FS_Subset, ZenonT(30)
<1> QED
  BY <1>3, FS_CardinalityType

\* What mark_destroyed does to the queue: old positions stay, fresh ids get
\* distinct positions behind all earlier ones.
LEMMA MarkDestroyedFacts ==
  ASSUME ObjectTypeOK, NEW ids, ids \subseteq DOMAIN written, NEW ops, MarkDestroyed(ids, ops)
  PROVE  /\ next_destroyed_seq' \in Nat /\ next_destroyed_seq <= next_destroyed_seq'
         /\ DOMAIN destroyed_by_id' = DOMAIN destroyed_by_id \cup ids
         /\ \A i \in DOMAIN destroyed_by_id : destroyed_by_id'[i] = destroyed_by_id[i]
         /\ \A i \in ids \ DOMAIN destroyed_by_id :
              destroyed_by_id'[i] \in next_destroyed_seq .. (next_destroyed_seq' - 1)
         /\ \A i, j \in ids \ DOMAIN destroyed_by_id :
              destroyed_by_id'[i] = destroyed_by_id'[j] => i = j
         /\ destroyed_by_id' \in [DOMAIN destroyed_by_id' -> 0 .. (next_destroyed_seq' - 1)]
<1> DEFINE fresh == ids \ DOMAIN destroyed_by_id
           slots == next_destroyed_seq .. (next_destroyed_seq + Cardinality(fresh) - 1)
<1>1. Cardinality(fresh) \in Nat
  BY FiniteIds
<1>2. next_destroyed_seq' = next_destroyed_seq + Cardinality(fresh)
  BY DEF MarkDestroyed, SeqAfter
<1>3. next_destroyed_seq' \in Nat /\ next_destroyed_seq <= next_destroyed_seq'
  BY <1>1, <1>2 DEF ObjectTypeOK
<1>4. PICK seq \in Injection(fresh, slots) :
        destroyed_by_id' = [i \in DOMAIN destroyed_by_id \cup fresh |->
                              IF i \in fresh THEN seq[i] ELSE destroyed_by_id[i]]
  BY DEF MarkDestroyed, SeqAfter
<1>5. seq \in [fresh -> slots] /\ \A i, j \in fresh : seq[i] = seq[j] => i = j
  BY <1>4 DEF Injection, IsInjective
<1>6. slots = next_destroyed_seq .. (next_destroyed_seq' - 1)
  BY <1>1, <1>2 DEF ObjectTypeOK
<1> HIDE DEF slots
<1>7. \A i \in fresh : destroyed_by_id'[i] \in slots
  BY <1>4, <1>5
<1>8. \A i \in DOMAIN destroyed_by_id : destroyed_by_id'[i] = destroyed_by_id[i]
  BY <1>4
<1>9. DOMAIN destroyed_by_id' = DOMAIN destroyed_by_id \cup ids
  BY <1>4
<1>10. \A i, j \in fresh : destroyed_by_id'[i] = destroyed_by_id'[j] => i = j
  BY <1>4, <1>5
<1>11. \A i \in DOMAIN destroyed_by_id' : destroyed_by_id'[i] \in 0 .. (next_destroyed_seq' - 1)
  <2> TAKE i \in DOMAIN destroyed_by_id'
  <2>1. CASE i \in fresh
    BY <2>1, <1>3, <1>6, <1>7 DEF ObjectTypeOK
  <2>2. CASE i \in DOMAIN destroyed_by_id
    BY <2>2, <1>3, <1>8 DEF ObjectTypeOK
  <2> QED
    BY <2>1, <2>2, <1>9
<1>12. destroyed_by_id' \in [DOMAIN destroyed_by_id' -> 0 .. (next_destroyed_seq' - 1)]
  BY <1>4, <1>11, ZenonT(30)
<1> QED
  BY <1>3, <1>6, <1>7, <1>8, <1>9, <1>10, <1>12

\* The queue itself keeps its type.
LEMMA MarkDestroyedQueueType ==
  ASSUME ObjectTypeOK, NEW ids, ids \subseteq DOMAIN written,
         NEW ops, ops \in [ids -> Operation \cup {"Delete"}], MarkDestroyed(ids, ops)
  PROVE  /\ DOMAIN mark_destroyed' \subseteq 0 .. (next_destroyed_seq' - 1)
         /\ mark_destroyed' \in [DOMAIN mark_destroyed' ->
              [object_id : DOMAIN written, operation : Operation \cup {"Delete"}]]
<1> DEFINE Row == [object_id : DOMAIN written, operation : Operation \cup {"Delete"}]
           marked(q) == CHOOSE i \in ids : destroyed_by_id'[i] = q
           Dom == DOMAIN mark_destroyed \cup {destroyed_by_id'[i] : i \in ids}
           val(q) == IF \E i \in ids : destroyed_by_id'[i] = q
                     THEN [object_id |-> marked(q), operation |-> ops[marked(q)]]
                     ELSE mark_destroyed[q]
<1>1. mark_destroyed' = [q \in Dom |-> val(q)]
  BY DEF MarkDestroyed, SeqAfter
<1>2. \A q \in Dom : val(q) \in Row
  <2> TAKE q \in Dom
  <2>1. CASE \E i \in ids : destroyed_by_id'[i] = q
    <3>1. marked(q) \in ids
      BY <2>1
    <3> QED
      BY <2>1, <3>1
  <2>2. CASE ~ \E i \in ids : destroyed_by_id'[i] = q
    BY <2>2 DEF ObjectTypeOK
  <2> QED
    BY <2>1, <2>2
<1>0. /\ next_destroyed_seq' \in Nat /\ next_destroyed_seq <= next_destroyed_seq'
      /\ DOMAIN destroyed_by_id' = DOMAIN destroyed_by_id \cup ids
      /\ destroyed_by_id' \in [DOMAIN destroyed_by_id' -> 0 .. (next_destroyed_seq' - 1)]
  BY MarkDestroyedFacts, ZenonT(30)
<1>3. \A i \in ids : destroyed_by_id'[i] \in 0 .. (next_destroyed_seq' - 1)
  BY <1>0
<1>4. DOMAIN mark_destroyed \subseteq 0 .. (next_destroyed_seq' - 1)
  BY <1>0 DEF ObjectTypeOK
<1> HIDE DEF val, Dom, Row
<1>5. mark_destroyed' \in [Dom -> Row] /\ DOMAIN mark_destroyed' = Dom
  BY <1>1, <1>2
<1>6. Dom \subseteq 0 .. (next_destroyed_seq' - 1)
  BY <1>3, <1>4 DEF Dom
<1> QED
  BY <1>5, <1>6 DEF Row

\* Marking keeps the queue and its index inverse to each other.
LEMMA MarkDestroyedIndex ==
  ASSUME ObjectTypeOK, QueueIndex, NEW ids, ids \subseteq DOMAIN written,
         NEW ops, MarkDestroyed(ids, ops)
  PROVE  QueueIndex'
<1> DEFINE pos(i) == destroyed_by_id'[i]
<1>1. /\ DOMAIN destroyed_by_id' = DOMAIN destroyed_by_id \cup ids
      /\ \A i \in DOMAIN destroyed_by_id : pos(i) = destroyed_by_id[i]
      /\ \A i \in ids \ DOMAIN destroyed_by_id :
           pos(i) \in next_destroyed_seq .. (next_destroyed_seq' - 1)
      /\ \A i, j \in ids \ DOMAIN destroyed_by_id : pos(i) = pos(j) => i = j
      /\ next_destroyed_seq' \in Nat
  BY MarkDestroyedFacts, ZenonT(30)
<1>2. \A i, j \in DOMAIN destroyed_by_id : pos(i) = pos(j) => i = j
  BY <1>1 DEF QueueIndex
<1>3. \A i \in DOMAIN destroyed_by_id, j \in ids \ DOMAIN destroyed_by_id : pos(i) # pos(j)
  BY <1>1 DEF ObjectTypeOK
<1>4. \A i, j \in DOMAIN destroyed_by_id' : pos(i) = pos(j) => i = j
  BY <1>1, <1>2, <1>3
<1>5. mark_destroyed' =
        [q \in DOMAIN mark_destroyed \cup {pos(i) : i \in ids} |->
           IF \E i \in ids : pos(i) = q
           THEN LET i == CHOOSE i \in ids : pos(i) = q
                IN [object_id |-> i, operation |-> ops[i]]
           ELSE mark_destroyed[q]]
  BY DEF MarkDestroyed, SeqAfter
<1> HIDE DEF pos
<1>6. \A i \in ids : pos(i) \in DOMAIN mark_destroyed' /\ mark_destroyed'[pos(i)].object_id = i
  <2> TAKE i \in ids
  <2>1. (CHOOSE j \in ids : pos(j) = pos(i)) = i
    BY <1>1, <1>4
  <2> QED
    BY <1>5, <2>1
<1>7. \A q \in DOMAIN mark_destroyed' :
        (~ \E i \in ids : pos(i) = q) => q \in DOMAIN mark_destroyed /\ mark_destroyed'[q] = mark_destroyed[q]
  BY <1>5
<1>8. DOMAIN mark_destroyed \subseteq DOMAIN mark_destroyed'
  BY <1>5
<1>9. \A i \in DOMAIN destroyed_by_id' :
        pos(i) \in DOMAIN mark_destroyed' /\ mark_destroyed'[pos(i)].object_id = i
  <2> TAKE i \in DOMAIN destroyed_by_id'
  <2>1. CASE i \in ids
    BY <2>1, <1>6
  <2>2. CASE i \notin ids
    <3>1. i \in DOMAIN destroyed_by_id /\ pos(i) = destroyed_by_id[i]
      BY <2>2, <1>1
    <3>2. ~ \E j \in ids : pos(j) = pos(i)
      BY <2>2, <1>1, <1>4
    <3> QED
      BY <3>1, <3>2, <1>7, <1>8 DEF QueueIndex
  <2> QED
    BY <2>1, <2>2
<1>10. \A q \in DOMAIN mark_destroyed' :
        mark_destroyed'[q].object_id \in DOMAIN destroyed_by_id' /\ pos(mark_destroyed'[q].object_id) = q
  <2> TAKE q \in DOMAIN mark_destroyed'
  <2>1. CASE \E i \in ids : pos(i) = q
    BY <2>1, <1>1, <1>6
  <2>2. CASE ~ \E i \in ids : pos(i) = q
    BY <2>2, <1>1, <1>7 DEF QueueIndex
  <2> QED
    BY <2>1, <2>2
<1> QED
  BY <1>9, <1>10 DEF QueueIndex, pos

-----------------------------------------------------------------------------
(* Commit requests.                                                        *)

\* What a well-formed commit request carries, read off its construction.
LEMMA CommitRequestFacts ==
  ASSUME NEW outputs, NEW compacted, NEW request \in CommitRequests(outputs, compacted),
         ObjectTypeOK, WellFormedCommit(request)
  PROVE  /\ request.compacted_object_ids = compacted
         /\ DOMAIN CommittedSets(request) \subseteq FreshIds
         /\ \A i \in DOMAIN CommittedSets(request) : CommittedSets(request)[i] \subseteq outputs
         /\ DOMAIN request.stream_objects \subseteq FreshIds
         /\ request.stream_objects \in [DOMAIN request.stream_objects -> outputs]
         /\ DOMAIN CommittedSets(request) \cap DOMAIN request.stream_objects = {}
         /\ CommittedRanges(request) = outputs
<1>1. PICK id \in FreshIds \cup {NoopObjectId},
           split \in UNION {Injection(ids, outputs) : ids \in SUBSET FreshIds} :
        request = [object_id |-> id, stream_ranges |-> outputs \ Range(split),
                   stream_objects |-> split, compacted_object_ids |-> compacted]
  BY DEF CommitRequests
<1>2. PICK ids \in SUBSET FreshIds : split \in Injection(ids, outputs)
  BY <1>1
<1>3. split \in [ids -> outputs] /\ DOMAIN split = ids
  BY <1>2 DEF Injection
<1>4. Range(split) = {split[i] : i \in ids}
  BY <1>3 DEF Range
<1>5. CASE id = NoopObjectId
  <2>1. CommittedSets(request) = EmptyMap /\ DOMAIN CommittedSets(request) = {}
    BY <1>1, <1>5 DEF CommittedSets, EmptyMap
  <2>2. outputs \ Range(split) = {}
    BY <1>1, <1>5 DEF WellFormedCommit
  <2>3. CommittedRanges(request) = outputs
    BY <1>1, <1>3, <1>4, <1>5, <2>2, SMTT(30) DEF CommittedRanges
  <2> QED
    BY <1>1, <1>3, <2>1, <2>3, ZenonT(30)
<1>6. CASE id # NoopObjectId
  <2>1. /\ DOMAIN CommittedSets(request) = {id}
        /\ CommittedSets(request)[id] = outputs \ Range(split)
    BY <1>1, <1>6 DEF CommittedSets, EmptyMap, Put
  <2>2. CommittedRanges(request) = outputs
    BY <1>1, <1>3, <1>4, <1>6 DEF CommittedRanges
  <2>3. id \notin ids
    BY <1>1, <1>3 DEF WellFormedCommit
  <2> QED
    BY <1>1, <1>3, <1>6, <2>1, <2>2, <2>3, SMTT(30)
<1> QED
  BY <1>5, <1>6

-----------------------------------------------------------------------------
(* Type correctness of the object tables.                                  *)

LEMMA ObjectTypeInit == ObjectInit => ObjectTypeOK
BY DEF ObjectInit, ObjectTypeOK, EmptyMap

\* Handing out stream ids only widens the types of the object tables.
LEMMA ObjectTypeUnchanged ==
  ASSUME ObjectTypeOK, UNCHANGED objectVars, StreamIds \subseteq StreamIds'
  PROVE  ObjectTypeOK'
<1>1. Ranges \subseteq Ranges'
  BY DEF Ranges, OffsetRange
<1>2. written' \in [DOMAIN written' -> [object_type : {"Stream", "StreamSet"},
                                       offset_ranges : SUBSET Ranges']]
  BY <1>1 DEF ObjectTypeOK, objectVars
<1>3. stream_set_objects' \in [DOMAIN stream_set_objects' ->
                                 [node_id : Node, offset_ranges : SUBSET Ranges']]
  BY <1>1 DEF ObjectTypeOK, objectVars
<1>4. /\ DOMAIN sso_ranges' \subseteq StreamIds' \X Offset \X DOMAIN written'
      /\ DOMAIN stream_objects' \subseteq StreamIds' \X Offset \X DOMAIN written'
      /\ stream_object_ids' \in [DOMAIN stream_object_ids' ->
                                  StreamIds' \X Offset \X DOMAIN written']
  BY SMTT(30) DEF ObjectTypeOK, objectVars
<1> QED
  BY <1>2, <1>3, <1>4 DEF ObjectTypeOK, objectVars

LEMMA PrepareObjectType ==
  ASSUME ObjectTypeOK, NEW n \in Node, NEW ne \in NodeEpoch, NEW count \in LeaseCount,
         NEW ttl \in Ttl, NEW now \in Now, PrepareObject(n, ne, count, ttl, now)
  PROVE  ObjectTypeOK'
<1> USE ObjectControlConstants
<1> DEFINE leased   == next_object_id .. (next_object_id + count - 1)
           deadline == now + (IF ttl > 0 THEN ttl ELSE 0)
<1>1. deadline \in Int
  OBVIOUS
<1>2. /\ next_object_id' \in Nat
      /\ 0 .. (next_object_id - 1) \subseteq 0 .. (next_object_id' - 1)
      /\ leased \subseteq 0 .. (next_object_id' - 1)
  BY DEF PrepareObject, ObjectTypeOK
<1>3. /\ prepared' = [i \in DOMAIN prepared \cup leased |->
                         IF i \in leased THEN deadline ELSE prepared[i]]
      /\ prepared_by_deadline' = prepared_by_deadline \cup {<<deadline, i>> : i \in leased}
  BY DEF PrepareObject
<1> HIDE DEF leased, deadline
<1>4. DOMAIN prepared' \subseteq 0 .. (next_object_id' - 1) /\ prepared' \in [DOMAIN prepared' -> Int]
  BY <1>1, <1>2, <1>3 DEF ObjectTypeOK
<1>5. prepared_by_deadline' \subseteq Int \X (0 .. (next_object_id' - 1))
  BY <1>1, <1>2, <1>3 DEF ObjectTypeOK
<1>6. StreamIds' = StreamIds /\ Ranges' = Ranges
  BY DEF PrepareObject, controlVars, StreamIds, Ranges, OffsetRange
<1> QED
  BY <1>2, <1>4, <1>5, <1>6 DEF PrepareObject, ObjectTypeOK

LEMMA ExpirePreparedObjectsType ==
  ASSUME ObjectTypeOK, NEW now \in Now, ExpirePreparedObjects(now)
  PROVE  ObjectTypeOK'
<1>1. /\ DOMAIN prepared' \subseteq DOMAIN prepared
      /\ prepared' \in [DOMAIN prepared' -> Int]
  BY SMTT(30) DEF ExpirePreparedObjects, Remove, Restrict, ObjectTypeOK
<1>2. prepared_by_deadline' \subseteq prepared_by_deadline
  BY DEF ExpirePreparedObjects
<1>3. StreamIds' = StreamIds /\ Ranges' = Ranges
  BY DEF ExpirePreparedObjects, controlVars, StreamIds, Ranges, OffsetRange
<1> QED
  BY <1>1, <1>2, <1>3, ZenonT(30) DEF ExpirePreparedObjects, ObjectTypeOK

LEMMA CleanDestroyedObjectsType ==
  ASSUME ObjectTypeOK, NEW ids \in SUBSET DOMAIN destroyed_by_id, CleanDestroyedObjects(ids)
  PROVE  ObjectTypeOK'
<1>1. /\ DOMAIN mark_destroyed' \subseteq DOMAIN mark_destroyed
      /\ mark_destroyed' \in [DOMAIN mark_destroyed' ->
           [object_id : DOMAIN written, operation : Operation \cup {"Delete"}]]
  BY DEF CleanDestroyedObjects, Remove, Restrict, ObjectTypeOK
<1>2. /\ DOMAIN destroyed_by_id' \subseteq DOMAIN destroyed_by_id
      /\ destroyed_by_id' \in [DOMAIN destroyed_by_id' -> 0 .. (next_destroyed_seq - 1)]
  BY DEF CleanDestroyedObjects, Remove, Restrict, ObjectTypeOK
<1>3. StreamIds' = StreamIds /\ Ranges' = Ranges
  BY DEF CleanDestroyedObjects, controlVars, StreamIds, Ranges, OffsetRange
<1> QED
  BY <1>1, <1>2, <1>3, ZenonT(30) DEF CleanDestroyedObjects, ObjectTypeOK

\* Inserting new stream objects: the primary table and its id index.
LEMMA InsertType ==
  ASSUME ObjectTypeOK, NEW inserted, NEW W, DOMAIN written \subseteq W,
         DOMAIN inserted \subseteq W, inserted \in [DOMAIN inserted -> Ranges]
  PROVE  /\ DOMAIN InsertStreamObjects(inserted) \subseteq StreamIds \X Offset \X W
         /\ InsertStreamObjects(inserted) \in [DOMAIN InsertStreamObjects(inserted) -> Offset]
         /\ DOMAIN InsertStreamObjectIds(inserted) = DOMAIN stream_object_ids \cup DOMAIN inserted
         /\ InsertStreamObjectIds(inserted) \in
              [DOMAIN InsertStreamObjectIds(inserted) -> StreamIds \X Offset \X W]
<1>1. \A i \in DOMAIN inserted :
        /\ StreamOffsetKey(i, inserted[i]) \in StreamIds \X Offset \X W
        /\ inserted[i].end_offset \in Offset
  BY DEF StreamOffsetKey, Ranges, OffsetRange
<1>2. DOMAIN InsertStreamObjects(inserted) =
        DOMAIN stream_objects \cup {StreamOffsetKey(i, inserted[i]) : i \in DOMAIN inserted}
  BY DEF InsertStreamObjects
<1>3. DOMAIN InsertStreamObjects(inserted) \subseteq StreamIds \X Offset \X W
  BY <1>1, <1>2 DEF ObjectTypeOK
<1>4. \A k \in DOMAIN InsertStreamObjects(inserted) : InsertStreamObjects(inserted)[k] \in Offset
  <2> TAKE k \in DOMAIN InsertStreamObjects(inserted)
  <2>1. k \in StreamIds \X Offset \X W
    BY <1>3
  <2>2. CASE k[3] \in DOMAIN inserted /\ k = StreamOffsetKey(k[3], inserted[k[3]])
    BY <1>1, <1>2, <2>2, SMTT(30) DEF InsertStreamObjects
  <2>3. CASE ~(k[3] \in DOMAIN inserted /\ k = StreamOffsetKey(k[3], inserted[k[3]]))
    <3>1. k \in DOMAIN stream_objects
      BY <1>2, <2>3 DEF StreamOffsetKey
    <3> QED
      BY <1>2, <2>3, <3>1 DEF InsertStreamObjects, ObjectTypeOK
  <2> QED
    BY <2>2, <2>3
<1>5. InsertStreamObjects(inserted) \in [DOMAIN InsertStreamObjects(inserted) -> Offset]
  BY <1>4, ZenonT(30) DEF InsertStreamObjects
<1>6. /\ DOMAIN InsertStreamObjectIds(inserted) = DOMAIN stream_object_ids \cup DOMAIN inserted
      /\ InsertStreamObjectIds(inserted) \in
              [DOMAIN InsertStreamObjectIds(inserted) -> StreamIds \X Offset \X W]
  BY <1>1 DEF InsertStreamObjectIds, ObjectTypeOK
<1> QED
  BY <1>3, <1>5, <1>6

\* The history of written objects stays well typed and only grows.
LEMMA RecordWrittenType ==
  ASSUME ObjectTypeOK, NEW sets, NEW inserted, RecordWritten(sets, inserted),
         DOMAIN sets \subseteq FreshIds, \A i \in DOMAIN sets : sets[i] \subseteq Ranges,
         DOMAIN inserted \subseteq FreshIds, inserted \in [DOMAIN inserted -> Ranges]
  PROVE  /\ DOMAIN written' = DOMAIN written \cup DOMAIN sets \cup DOMAIN inserted
         /\ DOMAIN written' \subseteq 0 .. (next_object_id - 1)
         /\ written' \in [DOMAIN written' -> [object_type : {"Stream", "StreamSet"},
                                              offset_ranges : SUBSET Ranges]]
         /\ \A i \in DOMAIN written : written'[i] = written[i]
<1> DEFINE W == DOMAIN written \cup DOMAIN sets \cup DOMAIN inserted
           Row == [object_type : {"Stream", "StreamSet"}, offset_ranges : SUBSET Ranges]
           val(i) == CASE i \in DOMAIN inserted ->
                            [object_type |-> "Stream", offset_ranges |-> {inserted[i]}]
                       [] i \in DOMAIN sets ->
                            [object_type |-> "StreamSet", offset_ranges |-> sets[i]]
                       [] OTHER -> written[i]
<1>1. written' = [i \in W |-> val(i)]
  BY DEF RecordWritten
<1>2. DOMAIN sets \cap DOMAIN written = {} /\ DOMAIN inserted \cap DOMAIN written = {}
  BY DEF FreshIds
<1>3. \A i \in DOMAIN written : val(i) = written[i]
  <2> TAKE i \in DOMAIN written
  <2>1. i \notin DOMAIN inserted /\ i \notin DOMAIN sets
    BY <1>2
  <2> QED
    BY <2>1
<1>4. \A i \in W : val(i) \in Row
  <2> TAKE i \in W
  <2>1. CASE i \in DOMAIN inserted
    <3>1. val(i) = [object_type |-> "Stream", offset_ranges |-> {inserted[i]}] \/ i \in DOMAIN sets
      BY <2>1
    <3>2. [object_type |-> "Stream", offset_ranges |-> {inserted[i]}] \in Row
      BY <2>1
    <3>3. i \in DOMAIN sets => [object_type |-> "StreamSet", offset_ranges |-> sets[i]] \in Row
      OBVIOUS
    <3> QED
      BY <2>1, <3>1, <3>2, <3>3
  <2>2. CASE i \notin DOMAIN inserted /\ i \in DOMAIN sets
    <3>1. val(i) = [object_type |-> "StreamSet", offset_ranges |-> sets[i]]
      BY <2>2
    <3> QED
      BY <2>2, <3>1
  <2>3. CASE i \in DOMAIN written
    BY <1>3, <2>3 DEF ObjectTypeOK
  <2> QED
    BY <2>1, <2>2, <2>3
<1> HIDE DEF val, Row
<1>5. written' \in [W -> Row] /\ DOMAIN written' = W
  BY <1>1, <1>4
<1>6. W \subseteq 0 .. (next_object_id - 1)
  BY DEF ObjectTypeOK, FreshIds
<1>7. \A i \in DOMAIN written : written'[i] = written[i]
  BY <1>1, <1>3
<1> QED
  BY <1>5, <1>6, <1>7 DEF Row

LEMMA CommitPreparedType ==
  ASSUME ObjectTypeOK, NEW ids, CommitPrepared(ids)
  PROVE  /\ DOMAIN prepared' \subseteq 0 .. (next_object_id - 1)
         /\ prepared' \in [DOMAIN prepared' -> Int]
         /\ prepared_by_deadline' \subseteq Int \X (0 .. (next_object_id - 1))
BY DEF CommitPrepared, ObjectTypeOK, Remove, Restrict

\* The end offsets a commit sets are the requests' own.
LEMMA AdvanceEndOffsetType ==
  ASSUME ControlTypeOK, NEW ranges \in SUBSET Ranges, NEW compact,
         streams' = AdvanceEndOffset(ranges, compact)
  PROVE  DOMAIN streams' = DOMAIN streams /\ streams' \in [DOMAIN streams' -> StreamRow]
<1>1. DOMAIN streams' = DOMAIN streams
  BY DEF AdvanceEndOffset
<1>2. \A s \in DOMAIN streams : streams'[s] \in StreamRow
  <2> TAKE s \in DOMAIN streams
  <2>1. CASE ~compact /\ \E r \in ranges : r.stream_id = s
    <3> DEFINE r == CHOOSE r \in ranges : r.stream_id = s
    <3>1. r \in Ranges
      BY <2>1
    <3>2. r.end_offset \in Nat
      BY <3>1, StreamControlConstants, ZenonT(30) DEF Ranges, OffsetRange
    <3>3. streams'[s] = [streams[s] EXCEPT !.end_offset = r.end_offset]
      BY <2>1 DEF AdvanceEndOffset
    <3> QED
      BY <3>2, <3>3 DEF ControlTypeOK, StreamRow
  <2>2. CASE ~(~compact /\ \E r \in ranges : r.stream_id = s)
    BY <2>2 DEF AdvanceEndOffset, ControlTypeOK
  <2> QED
    BY <2>1, <2>2
<1> QED
  BY <1>1, <1>2 DEF AdvanceEndOffset

LEMMA CommitStreamSetObjectType ==
  ASSUME ControlTypeOK, ObjectTypeOK, NEW n \in Node, NEW ne \in NodeEpoch,
         NEW outputs \in SUBSET Ranges, NEW compacted \in SUBSET FormerStreamSets,
         NEW request \in CommitRequests(outputs, compacted),
         WellFormedCommit(request), CommitStreamSetObject(n, ne, request)
  PROVE  ControlTypeOK' /\ ObjectTypeOK'
<1> DEFINE sets == CommittedSets(request)
           inserted == request.stream_objects
           kept == DOMAIN stream_set_objects \ compacted
<1>1. /\ request.compacted_object_ids = compacted
      /\ DOMAIN sets \subseteq FreshIds
      /\ \A i \in DOMAIN sets : sets[i] \subseteq outputs
      /\ DOMAIN inserted \subseteq FreshIds
      /\ inserted \in [DOMAIN inserted -> outputs]
      /\ CommittedRanges(request) = outputs
  BY CommitRequestFacts
<1>2. /\ streams' = AdvanceEndOffset(outputs, compacted # {})
      /\ CommitPrepared(DOMAIN sets \cup DOMAIN inserted)
      /\ stream_set_objects' = [i \in kept \cup DOMAIN sets |->
           IF i \in DOMAIN sets THEN [node_id |-> n, offset_ranges |-> sets[i]]
           ELSE stream_set_objects[i]]
      /\ sso_ranges' =
           [k \in (DOMAIN sso_ranges \ SetRangeKeys(compacted)) \cup
                  UNION {{StreamOffsetKey(i, r) : r \in sets[i]} : i \in DOMAIN sets} |->
              IF k[3] \in DOMAIN sets
              THEN (CHOOSE r \in sets[k[3]] : k = StreamOffsetKey(k[3], r)).end_offset
              ELSE sso_ranges[k]]
      /\ sso_by_node' =
           (sso_by_node \ {<<stream_set_objects[i].node_id, i>> : i \in compacted})
             \cup {<<n, i>> : i \in DOMAIN sets}
      /\ stream_objects' = InsertStreamObjects(inserted)
      /\ stream_object_ids' = InsertStreamObjectIds(inserted)
      /\ MarkDestroyed(compacted, [i \in compacted |-> "Delete"])
      /\ RecordWritten(sets, inserted)
      /\ UNCHANGED <<next_object_id, next_stream_id, nodes, opening_by_node,
                     placed_by_node, pending_transfers, granted>>
  BY <1>1, ZenonT(30) DEF CommitStreamSetObject
<1>3. StreamIds' = StreamIds /\ Ranges' = Ranges
  BY <1>2 DEF StreamIds, Ranges, OffsetRange
<1> HIDE DEF sets, inserted
<1>4. ControlTypeOK'
  BY <1>2, <1>3, AdvanceEndOffsetType, ZenonT(30) DEF ControlTypeOK
<1>5. /\ DOMAIN written' = DOMAIN written \cup DOMAIN sets \cup DOMAIN inserted
      /\ DOMAIN written' \subseteq 0 .. (next_object_id - 1)
      /\ written' \in [DOMAIN written' -> [object_type : {"Stream", "StreamSet"},
                                           offset_ranges : SUBSET Ranges]]
  <2>1. /\ \A i \in DOMAIN sets : sets[i] \subseteq Ranges
        /\ inserted \in [DOMAIN inserted -> Ranges]
    BY <1>1, SMTT(30)
  <2> QED
    BY <1>1, <1>2, <2>1, RecordWrittenType, ZenonT(30)
<1>6. /\ DOMAIN stream_set_objects' \subseteq DOMAIN written'
      /\ stream_set_objects' \in [DOMAIN stream_set_objects' ->
                                    [node_id : Node, offset_ranges : SUBSET Ranges]]
  BY <1>1, <1>2, <1>5, SMTT(30) DEF ObjectTypeOK
<1>7. sso_by_node' \subseteq Node \X DOMAIN written'
  BY <1>2, <1>5, SMTT(30) DEF ObjectTypeOK
<1>8. /\ DOMAIN sso_ranges' \subseteq StreamIds \X Offset \X DOMAIN written'
      /\ sso_ranges' \in [DOMAIN sso_ranges' -> Offset]
  <2> DEFINE old == DOMAIN sso_ranges \ SetRangeKeys(compacted)
             new == UNION {{StreamOffsetKey(i, r) : r \in sets[i]} : i \in DOMAIN sets}
  <2>1. \A i \in DOMAIN sets : \A r \in sets[i] :
          /\ StreamOffsetKey(i, r) \in StreamIds \X Offset \X DOMAIN written'
          /\ r.end_offset \in Offset
    BY <1>1, <1>5 DEF StreamOffsetKey, Ranges, OffsetRange
  <2>2. new \subseteq StreamIds \X Offset \X DOMAIN written'
    BY <2>1
  <2>3. old \subseteq StreamIds \X Offset \X DOMAIN written'
    BY <1>5, SMTT(30) DEF ObjectTypeOK
  <2>4. DOMAIN sso_ranges' = old \cup new
    BY <1>2, ZenonT(30)
  <2>5. \A k \in old \cup new : sso_ranges'[k] \in Offset
    <3> TAKE k \in old \cup new
    <3>1. CASE k \in new
      <4>1. PICK i \in DOMAIN sets : \E r \in sets[i] : k = StreamOffsetKey(i, r)
        BY <3>1
      <4>2. k[3] = i
        BY <4>1 DEF StreamOffsetKey
      <4> DEFINE c == CHOOSE r \in sets[k[3]] : k = StreamOffsetKey(k[3], r)
      <4>3. c \in sets[k[3]]
        BY <4>1, <4>2, SMTT(30)
      <4>4. sso_ranges'[k] = c.end_offset
        BY <1>2, <2>4, <4>2, ZenonT(30)
      <4> QED
        BY <2>1, <4>2, <4>3, <4>4, SMTT(30)
    <3>2. CASE k \in old
      <4>1. k[3] \in DOMAIN written
        BY <3>2 DEF ObjectTypeOK
      <4>2. k[3] \notin DOMAIN sets
        BY <1>1, <4>1, SMTT(30) DEF FreshIds
      <4>3. sso_ranges'[k] = sso_ranges[k]
        BY <1>2, <2>4, <4>2, ZenonT(30)
      <4> QED
        BY <3>2, <4>3, SMTT(30) DEF ObjectTypeOK
    <3> QED
      BY <3>1, <3>2, SMTT(30)
  <2> QED
    BY <1>2, <2>2, <2>3, <2>4, <2>5, ZenonT(30)
<1>9. /\ DOMAIN stream_objects' \subseteq StreamIds \X Offset \X DOMAIN written'
      /\ stream_objects' \in [DOMAIN stream_objects' -> Offset]
      /\ DOMAIN stream_object_ids' \subseteq DOMAIN written'
      /\ stream_object_ids' \in [DOMAIN stream_object_ids' ->
                                  StreamIds \X Offset \X DOMAIN written']
  <2>1. inserted \in [DOMAIN inserted -> Ranges]
    BY <1>1
  <2>2. /\ DOMAIN stream_objects' \subseteq StreamIds \X Offset \X DOMAIN written'
        /\ stream_objects' \in [DOMAIN stream_objects' -> Offset]
        /\ DOMAIN stream_object_ids' = DOMAIN stream_object_ids \cup DOMAIN inserted
        /\ stream_object_ids' \in [DOMAIN stream_object_ids' ->
                                    StreamIds \X Offset \X DOMAIN written']
    BY <1>2, <1>5, <2>1, InsertType, ZenonT(30)
  <2> QED
    BY <1>5, <2>2 DEF ObjectTypeOK
<1>10. /\ DOMAIN prepared' \subseteq 0 .. (next_object_id - 1)
       /\ prepared' \in [DOMAIN prepared' -> Int]
       /\ prepared_by_deadline' \subseteq Int \X (0 .. (next_object_id - 1))
  BY <1>2, CommitPreparedType
<1>11. compacted \subseteq DOMAIN written
  BY DEF FormerStreamSets
<1>12. /\ next_destroyed_seq' \in Nat
       /\ DOMAIN destroyed_by_id' = DOMAIN destroyed_by_id \cup compacted
       /\ destroyed_by_id' \in [DOMAIN destroyed_by_id' -> 0 .. (next_destroyed_seq' - 1)]
  BY <1>2, <1>11, MarkDestroyedFacts, ZenonT(30)
<1>13. /\ DOMAIN mark_destroyed' \subseteq 0 .. (next_destroyed_seq' - 1)
       /\ mark_destroyed' \in [DOMAIN mark_destroyed' ->
              [object_id : DOMAIN written, operation : Operation \cup {"Delete"}]]
  BY <1>2, <1>11, MarkDestroyedQueueType, SMTT(30)
<1>14. /\ DOMAIN destroyed_by_id' \subseteq DOMAIN written'
       /\ mark_destroyed' \in [DOMAIN mark_destroyed' ->
              [object_id : DOMAIN written', operation : Operation \cup {"Delete"}]]
  BY <1>5, <1>11, <1>12, <1>13, SMTT(30) DEF ObjectTypeOK
<1>15. next_object_id' = next_object_id /\ next_object_id' \in Nat
  BY <1>2, SMTT(30) DEF ObjectTypeOK
<1>16. ObjectTypeOK'
  BY <1>3, <1>5, <1>6, <1>7, <1>8, <1>9, <1>10, <1>12, <1>13, <1>14, <1>15, SMTT(30)
     DEF ObjectTypeOK
<1> QED
  BY <1>4, <1>16, SMTT(30)

\* What a well-formed compaction request carries.
LEMMA CompactRequestFacts ==
  ASSUME NEW s \in StreamIds, NEW sources \in SUBSET FormerStreamObjects(s),
         NEW request \in CompactRequests(s, sources), WellFormedCompact(request),
         NEW inserted,
         inserted = IF request.object_id = NoopObjectId THEN EmptyMap
                    ELSE Put(EmptyMap, request.object_id,
                             [stream_id |-> s, start_offset |-> request.start_offset,
                              end_offset |-> request.end_offset])
  PROVE  /\ request.stream_id = s /\ request.source_object_ids = sources
         /\ request.operations \in [sources -> Operation]
         /\ sources \subseteq DOMAIN written
         /\ DOMAIN inserted \subseteq FreshIds
         /\ inserted \in [DOMAIN inserted -> Ranges]
         /\ \A r \in CompactOutput(request) : \E i \in DOMAIN inserted : r = inserted[i]
<1>1. /\ request.stream_id = s /\ request.source_object_ids = sources
      /\ request.operations \in [sources -> Operation]
      /\ request.object_id \in FreshIds \cup {NoopObjectId}
      /\ request.start_offset \in Offset /\ request.end_offset \in Offset
  BY SMTT(30) DEF CompactRequests
<1>2. sources \subseteq DOMAIN written
  BY SMTT(30) DEF FormerStreamObjects
<1>3. CASE request.object_id = NoopObjectId
  BY <1>1, <1>2, <1>3 DEF EmptyMap, CompactOutput
<1>4. CASE request.object_id # NoopObjectId
  <2> DEFINE r == [stream_id |-> s, start_offset |-> request.start_offset,
                   end_offset |-> request.end_offset]
  <2>1. r \in Ranges
    BY <1>1, <1>4 DEF WellFormedCompact, Ranges, OffsetRange
  <2>2. DOMAIN inserted = {request.object_id} /\ inserted[request.object_id] = r
    BY <1>4 DEF EmptyMap, Put
  <2>3. inserted \in [DOMAIN inserted -> Ranges]
    BY <1>4, <2>1, <2>2, SMTT(30) DEF EmptyMap, Put
  <2>4. CompactOutput(request) = {r}
    BY <1>1, <1>4, SMTT(30) DEF CompactOutput
  <2> QED
    BY <1>1, <1>2, <1>4, <2>2, <2>3, <2>4, SMTT(30)
<1> QED
  BY <1>3, <1>4

LEMMA CompactStreamObjectType ==
  ASSUME ObjectTypeOK, NEW n \in Node, NEW ne \in NodeEpoch,
         NEW s \in StreamIds, NEW sources \in SUBSET FormerStreamObjects(s),
         NEW request \in CompactRequests(s, sources), WellFormedCompact(request),
         CompactStreamObject(n, ne, request)
  PROVE  ObjectTypeOK'
<1> DEFINE inserted == IF request.object_id = NoopObjectId THEN EmptyMap
                       ELSE Put(EmptyMap, request.object_id,
                                [stream_id |-> s, start_offset |-> request.start_offset,
                                 end_offset |-> request.end_offset])
           dropped == DroppedSources(s, sources, DOMAIN inserted)
           added == InsertStreamObjects(inserted)
           ids == InsertStreamObjectIds(inserted)
<1>1. /\ request.stream_id = s /\ request.source_object_ids = sources
      /\ request.operations \in [sources -> Operation]
      /\ sources \subseteq DOMAIN written
      /\ DOMAIN inserted \subseteq FreshIds
      /\ inserted \in [DOMAIN inserted -> Ranges]
  BY CompactRequestFacts, SMTT(30)
<1>2. /\ CommitPrepared({request.object_id})
      /\ stream_objects' = Remove(added, {ids[i] : i \in dropped})
      /\ stream_object_ids' = Remove(ids, dropped)
      /\ MarkDestroyed(sources, request.operations)
      /\ RecordWritten(EmptyMap, inserted)
      /\ UNCHANGED <<next_object_id, stream_set_objects, sso_ranges, sso_by_node>>
      /\ UNCHANGED controlVars
  BY <1>1, SMTT(30) DEF CompactStreamObject
<1>3. StreamIds' = StreamIds /\ Ranges' = Ranges
  BY <1>2, ZenonT(30) DEF controlVars, StreamIds, Ranges, OffsetRange
<1> HIDE DEF inserted, dropped
<1>4. /\ DOMAIN written' = DOMAIN written \cup DOMAIN inserted
      /\ DOMAIN written' \subseteq 0 .. (next_object_id - 1)
      /\ written' \in [DOMAIN written' -> [object_type : {"Stream", "StreamSet"},
                                           offset_ranges : SUBSET Ranges]]
  <2>1. DOMAIN EmptyMap = {}
    BY DEF EmptyMap
  <2> QED
    BY <1>1, <1>2, <2>1, RecordWrittenType, ZenonT(30)
<1>5. /\ DOMAIN added \subseteq StreamIds \X Offset \X DOMAIN written'
      /\ added \in [DOMAIN added -> Offset]
      /\ DOMAIN ids = DOMAIN stream_object_ids \cup DOMAIN inserted
      /\ ids \in [DOMAIN ids -> StreamIds \X Offset \X DOMAIN written']
  BY <1>1, <1>4, InsertType, ZenonT(30)
<1> HIDE DEF added, ids
<1>6. /\ DOMAIN stream_objects' \subseteq StreamIds \X Offset \X DOMAIN written'
      /\ stream_objects' \in [DOMAIN stream_objects' -> Offset]
  BY <1>2, <1>5, SMTT(30) DEF Remove, Restrict
<1>7. /\ DOMAIN stream_object_ids' \subseteq DOMAIN written'
      /\ stream_object_ids' \in [DOMAIN stream_object_ids' ->
                                  StreamIds \X Offset \X DOMAIN written']
  BY <1>2, <1>4, <1>5 DEF Remove, Restrict, ObjectTypeOK
<1>8. /\ DOMAIN prepared' \subseteq 0 .. (next_object_id - 1)
      /\ prepared' \in [DOMAIN prepared' -> Int]
      /\ prepared_by_deadline' \subseteq Int \X (0 .. (next_object_id - 1))
  BY <1>2, CommitPreparedType
<1>9. /\ next_destroyed_seq' \in Nat
      /\ DOMAIN destroyed_by_id' = DOMAIN destroyed_by_id \cup sources
      /\ destroyed_by_id' \in [DOMAIN destroyed_by_id' -> 0 .. (next_destroyed_seq' - 1)]
  BY <1>1, <1>2, MarkDestroyedFacts, ZenonT(30)
<1>10. /\ DOMAIN mark_destroyed' \subseteq 0 .. (next_destroyed_seq' - 1)
       /\ mark_destroyed' \in [DOMAIN mark_destroyed' ->
              [object_id : DOMAIN written, operation : Operation \cup {"Delete"}]]
  <2>1. request.operations \in [sources -> Operation \cup {"Delete"}]
    BY <1>1, SMTT(30)
  <2> QED
    BY <1>1, <1>2, <2>1, MarkDestroyedQueueType
<1>11. /\ DOMAIN destroyed_by_id' \subseteq DOMAIN written'
       /\ mark_destroyed' \in [DOMAIN mark_destroyed' ->
              [object_id : DOMAIN written', operation : Operation \cup {"Delete"}]]
  BY <1>1, <1>4, <1>9, <1>10, SMTT(30) DEF ObjectTypeOK
<1>12. /\ DOMAIN stream_set_objects' \subseteq DOMAIN written'
       /\ stream_set_objects' \in [DOMAIN stream_set_objects' ->
                                    [node_id : Node, offset_ranges : SUBSET Ranges]]
       /\ DOMAIN sso_ranges' \subseteq StreamIds \X Offset \X DOMAIN written'
       /\ sso_ranges' \in [DOMAIN sso_ranges' -> Offset]
       /\ sso_by_node' \subseteq Node \X DOMAIN written'
       /\ next_object_id' = next_object_id /\ next_object_id' \in Nat
  BY <1>2, <1>4 DEF ObjectTypeOK
<1> QED
  BY <1>3, <1>4, <1>6, <1>7, <1>8, <1>9, <1>10, <1>11, <1>12, SMTT(30) DEF ObjectTypeOK

LEMMA DeleteStreamType ==
  ASSUME ControlTypeOK, ObjectTypeOK, NEW n \in Node, NEW ne \in NodeEpoch,
         NEW s \in DOMAIN streams, NEW e \in StreamEpoch, DeleteStream(n, ne, s, e)
  PROVE  ControlTypeOK' /\ ObjectTypeOK'
<1> DEFINE keys == {k \in DOMAIN stream_objects : k[1] = s}
           ids == {k[3] : k \in keys}
<1>1. /\ DropStreamRow(n, ne, s, e)
      /\ stream_objects' = Remove(stream_objects, keys)
      /\ stream_object_ids' = Remove(stream_object_ids, ids)
      /\ MarkDestroyed(ids, [i \in ids |-> "Delete"])
      /\ UNCHANGED <<next_object_id, prepared, prepared_by_deadline, stream_set_objects,
                     sso_ranges, sso_by_node, written>>
  BY DEF DeleteStream, StreamKeys
<1>2. StreamIds' = StreamIds /\ Ranges' = Ranges
  BY <1>1, SMTT(30) DEF DropStreamRow, StreamIds, Ranges, OffsetRange
<1>3. ControlTypeOK'
  BY <1>1, <1>2 DEF DropStreamRow, ControlTypeOK, Remove, Restrict
<1>4. ids \subseteq DOMAIN written
  BY SMTT(30) DEF ObjectTypeOK
<1>5. /\ DOMAIN stream_objects' \subseteq DOMAIN stream_objects
      /\ stream_objects' \in [DOMAIN stream_objects' -> Offset]
      /\ DOMAIN stream_object_ids' \subseteq DOMAIN stream_object_ids
      /\ stream_object_ids' \in [DOMAIN stream_object_ids' ->
                                  StreamIds \X Offset \X DOMAIN written]
  BY <1>1 DEF Remove, Restrict, ObjectTypeOK
<1> HIDE DEF ids, keys
<1>6. /\ next_destroyed_seq' \in Nat
      /\ DOMAIN destroyed_by_id' = DOMAIN destroyed_by_id \cup ids
      /\ destroyed_by_id' \in [DOMAIN destroyed_by_id' -> 0 .. (next_destroyed_seq' - 1)]
  BY <1>1, <1>4, MarkDestroyedFacts, ZenonT(30)
<1>7. /\ DOMAIN mark_destroyed' \subseteq 0 .. (next_destroyed_seq' - 1)
      /\ mark_destroyed' \in [DOMAIN mark_destroyed' ->
              [object_id : DOMAIN written, operation : Operation \cup {"Delete"}]]
  BY <1>1, <1>4, MarkDestroyedQueueType, SMTT(30)
<1>8. ObjectTypeOK'
  BY <1>1, <1>2, <1>4, <1>5, <1>6, <1>7, SMTT(30) DEF ObjectTypeOK
<1> QED
  BY <1>3, <1>8, SMTT(30)

-----------------------------------------------------------------------------
(* Type correctness of the whole state.                                    *)

\* Stream ids that were handed out stay handed out.
LEMMA StreamIdsGrow == ControlTypeOK /\ ControlNext => StreamIds \subseteq StreamIds'
<1> SUFFICES ASSUME ControlTypeOK, ControlNext PROVE StreamIds \subseteq StreamIds'
  OBVIOUS
<1>1. CASE next_stream_id' = next_stream_id
  BY <1>1 DEF StreamIds
<1>2. ASSUME NEW n \in Node, NEW ne \in NodeEpoch, NEW count \in BatchSize,
             CreateStreams(n, ne, count)
      PROVE  StreamIds \subseteq StreamIds'
  BY <1>2, StreamControlConstants, SMTT(30) DEF CreateStreams, StreamIds, ControlTypeOK
<1>3. /\ \A n, ne, a, slots : RegisterNode(n, ne, a, slots) => next_stream_id' = next_stream_id
      /\ \A n, ne, s, e : OpenStream(n, ne, s, e) => next_stream_id' = next_stream_id
      /\ \A n, ne, s, e : CloseStream(n, ne, s, e) => next_stream_id' = next_stream_id
      /\ \A n, ne, s, e, o : TrimStream(n, ne, s, e, o) => next_stream_id' = next_stream_id
  BY ZenonT(30) DEF RegisterNode, OpenStream, CloseStream, TrimStream
<1>4. /\ \A s : PlaceStream(s) => next_stream_id' = next_stream_id
      /\ \A s, from, to : TransferStream(s, from, to) => next_stream_id' = next_stream_id
      /\ \A s, e : CompleteTransfer(s, e) => next_stream_id' = next_stream_id
  BY DEF PlaceStream, TransferStream, CompleteTransfer
<1> QED
  BY <1>1, <1>2, <1>3, <1>4 DEF ControlNext

LEMMA ControlTypeUnchanged == ControlTypeOK /\ UNCHANGED controlVars => ControlTypeOK'
BY DEF ControlTypeOK, controlVars, StreamIds

LEMMA TypeNext == TypeOK /\ [Next]_vars => TypeOK'
<1> SUFFICES ASSUME TypeOK, [Next]_vars PROVE TypeOK'
  OBVIOUS
<1> USE DEF TypeOK
<1>1. CASE ControlNext /\ UNCHANGED <<objectVars, kv>>
  BY <1>1, ControlTypeNext, StreamIdsGrow, ObjectTypeUnchanged
<1>2. CASE ObjectNext /\ UNCHANGED kv
  <2>1. ASSUME NEW n \in Node, NEW ne \in NodeEpoch, NEW count \in LeaseCount,
               NEW ttl \in Ttl, NEW now \in Now, PrepareObject(n, ne, count, ttl, now)
        PROVE  ControlTypeOK' /\ ObjectTypeOK'
    BY <2>1, ControlTypeUnchanged, PrepareObjectType DEF PrepareObject
  <2>2. ASSUME NEW n \in Node, NEW ne \in NodeEpoch,
               NEW outputs \in SUBSET Ranges, NEW compacted \in SUBSET FormerStreamSets,
               NEW request \in CommitRequests(outputs, compacted),
               WellFormedCommit(request), CommitStreamSetObject(n, ne, request)
        PROVE  ControlTypeOK' /\ ObjectTypeOK'
    BY <2>2, CommitStreamSetObjectType, SMTT(30)
  <2>3. ASSUME NEW n \in Node, NEW ne \in NodeEpoch,
               NEW s \in StreamIds, NEW sources \in SUBSET FormerStreamObjects(s) \ {{}},
               NEW request \in CompactRequests(s, sources), WellFormedCompact(request),
               CompactStreamObject(n, ne, request)
        PROVE  ControlTypeOK' /\ ObjectTypeOK'
    BY <2>3, ControlTypeUnchanged, CompactStreamObjectType, ZenonT(30) DEF CompactStreamObject
  <2>4. ASSUME NEW n \in Node, NEW ne \in NodeEpoch, NEW s \in DOMAIN streams,
               NEW e \in StreamEpoch, DeleteStream(n, ne, s, e)
        PROVE  ControlTypeOK' /\ ObjectTypeOK'
    BY <2>4, DeleteStreamType
  <2>5. ASSUME NEW now \in Now, ExpirePreparedObjects(now)
        PROVE  ControlTypeOK' /\ ObjectTypeOK'
    BY <2>5, ControlTypeUnchanged, ExpirePreparedObjectsType DEF ExpirePreparedObjects
  <2>6. ASSUME NEW ids \in SUBSET DOMAIN destroyed_by_id, CleanDestroyedObjects(ids)
        PROVE  ControlTypeOK' /\ ObjectTypeOK'
    BY <2>6, ControlTypeUnchanged, CleanDestroyedObjectsType, SMTT(30) DEF CleanDestroyedObjects
  <2>7. ControlTypeOK' /\ ObjectTypeOK'
    BY <1>2, <2>1, <2>2, <2>3, <2>4, <2>5, <2>6 DEF ObjectNext
  <2> QED
    BY <1>2, <2>7, SMTT(30)
<1>3. CASE KvNext /\ UNCHANGED <<controlVars, objectVars>>
  <2>1. ControlTypeOK'
    BY <1>3, ControlTypeUnchanged
  <2>2. ObjectTypeOK'
    BY <1>3, ObjectTypeUnchanged DEF controlVars, StreamIds
  <2>3. DOMAIN kv' \subseteq Key /\ kv' \in [DOMAIN kv' -> Value]
    BY <1>3 DEF KvNext, PutKv, PutKvIfAbsent, DeleteKv, Put, Remove, Restrict
  <2> QED
    BY <2>1, <2>2, <2>3
<1>4. CASE UNCHANGED vars
  <2>1. UNCHANGED controlVars /\ UNCHANGED objectVars /\ kv' = kv
    BY <1>4 DEF vars
  <2>2. StreamIds' = StreamIds
    BY <2>1 DEF controlVars, StreamIds
  <2> QED
    BY <2>1, <2>2, ControlTypeUnchanged, ObjectTypeUnchanged
<1> QED
  BY <1>1, <1>2, <1>3, <1>4 DEF Next

\* The tables of the metadata state machine keep their types: whatever prefix
\* of the log a node has applied, for any nodes, epochs, offsets and bounds.
THEOREM TypeCorrect == Spec => []TypeOK
<1>1. Init => TypeOK
  BY ControlTypeInit, ObjectTypeInit DEF Init, TypeOK, EmptyMap
<1> QED
  BY <1>1, TypeNext, PTL DEF Spec
=============================================================================

------------------------ MODULE MetadataIndexProofs -------------------------
(***************************************************************************)
(* The secondary indexes of the object tables of Metadata are exact.       *)
(***************************************************************************)
EXTENDS MetadataLossProofs

(* The indexes of the leases, the stream-set objects and the queue.        *)

IndexInv == LeaseIndex /\ StreamSetIndexes /\ QueueIndex

LEMMA CommitPreparedIndex ==
  ASSUME LeaseIndex, NEW ids, CommitPrepared(ids)
  PROVE  LeaseIndex'
<1>1. /\ DOMAIN prepared' = DOMAIN prepared \ ids
      /\ \A i \in DOMAIN prepared' : prepared'[i] = prepared[i]
  BY DEF CommitPrepared, Remove, Restrict
<1>2. prepared_by_deadline' = {<<prepared[i], i>> : i \in DOMAIN prepared}
                                \ {<<prepared[i], i>> : i \in ids \cap DOMAIN prepared}
  BY DEF CommitPrepared, LeaseIndex
<1>3. \A p \in prepared_by_deadline' : \E i \in DOMAIN prepared' : p = <<prepared'[i], i>>
  BY <1>1, <1>2
<1>4. \A i \in DOMAIN prepared' : <<prepared'[i], i>> \in prepared_by_deadline'
  BY <1>1, <1>2
<1> QED
  BY <1>3, <1>4 DEF LeaseIndex

LEMMA PrepareIndex ==
  ASSUME ObjectTypeOK, LeaseIndex, NEW n, NEW ne, NEW count \in Nat, NEW ttl, NEW now,
         PrepareObject(n, ne, count, ttl, now)
  PROVE  LeaseIndex'
<1> DEFINE leased   == next_object_id .. (next_object_id + count - 1)
           deadline == now + (IF ttl > 0 THEN ttl ELSE 0)
<1>1. /\ prepared' = [i \in DOMAIN prepared \cup leased |->
                        IF i \in leased THEN deadline ELSE prepared[i]]
      /\ prepared_by_deadline' = prepared_by_deadline \cup {<<deadline, i>> : i \in leased}
  BY DEF PrepareObject
<1>2. \A i \in DOMAIN prepared : i \notin leased
  BY DEF ObjectTypeOK
<1> HIDE DEF leased, deadline
<1>3. \A p \in prepared_by_deadline' : \E i \in DOMAIN prepared' : p = <<prepared'[i], i>>
  BY <1>1, <1>2 DEF LeaseIndex
<1>4. \A i \in DOMAIN prepared' : <<prepared'[i], i>> \in prepared_by_deadline'
  BY <1>1, <1>2 DEF LeaseIndex
<1> QED
  BY <1>3, <1>4 DEF LeaseIndex

LEMMA ExpireIndex ==
  ASSUME LeaseIndex, NEW now, ExpirePreparedObjects(now)
  PROVE  LeaseIndex'
<1> DEFINE expired == {p \in prepared_by_deadline : p[1] <= now}
           ids == {p[2] : p \in expired}
<1>1. /\ prepared_by_deadline' = prepared_by_deadline \ expired
      /\ prepared' = Remove(prepared, ids)
  BY DEF ExpirePreparedObjects
<1>2. /\ DOMAIN prepared' = DOMAIN prepared \ ids
      /\ \A i \in DOMAIN prepared' : prepared'[i] = prepared[i]
  BY <1>1 DEF Remove, Restrict
<1>3. \A i \in DOMAIN prepared : <<prepared[i], i>> \in prepared_by_deadline
  BY DEF LeaseIndex
<1>4. \A p \in prepared_by_deadline : \E i \in DOMAIN prepared : p = <<prepared[i], i>>
  BY DEF LeaseIndex
<1>5. \A i \in DOMAIN prepared : i \in ids => <<prepared[i], i>> \in expired
  BY <1>4
<1>6. \A i \in DOMAIN prepared : <<prepared[i], i>> \in expired => i \in ids
  OBVIOUS
<1> HIDE DEF expired, ids
<1>7. \A p \in prepared_by_deadline' : \E i \in DOMAIN prepared' : p = <<prepared'[i], i>>
  BY <1>1, <1>2, <1>4, <1>5
<1>8. \A i \in DOMAIN prepared' : <<prepared'[i], i>> \in prepared_by_deadline'
  BY <1>1, <1>2, <1>3, <1>6
<1> QED
  BY <1>7, <1>8 DEF LeaseIndex

LEMMA CleanIndex ==
  ASSUME QueueIndex, NEW ids, ids \subseteq DOMAIN destroyed_by_id, CleanDestroyedObjects(ids)
  PROVE  QueueIndex'
<1> DEFINE seqs == {destroyed_by_id[i] : i \in ids \cap DOMAIN destroyed_by_id}
<1>1. mark_destroyed' = Remove(mark_destroyed, seqs) /\ destroyed_by_id' = Remove(destroyed_by_id, ids)
  BY DEF CleanDestroyedObjects
<1>2. /\ DOMAIN mark_destroyed' = DOMAIN mark_destroyed \ seqs
      /\ \A q \in DOMAIN mark_destroyed' : mark_destroyed'[q] = mark_destroyed[q]
      /\ DOMAIN destroyed_by_id' = DOMAIN destroyed_by_id \ ids
      /\ \A i \in DOMAIN destroyed_by_id' : destroyed_by_id'[i] = destroyed_by_id[i]
  BY <1>1 DEF Remove, Restrict
<1>3. \A i, j \in DOMAIN destroyed_by_id : destroyed_by_id[i] = destroyed_by_id[j] => i = j
  BY DEF QueueIndex
<1>4. \A i \in DOMAIN destroyed_by_id : destroyed_by_id[i] \in seqs <=> i \in ids
  BY <1>3
<1> HIDE DEF seqs
<1>5. \A i \in DOMAIN destroyed_by_id' :
        /\ destroyed_by_id'[i] \in DOMAIN mark_destroyed'
        /\ mark_destroyed'[destroyed_by_id'[i]].object_id = i
  BY <1>2, <1>4 DEF QueueIndex
<1>6. \A q \in DOMAIN mark_destroyed' :
        /\ mark_destroyed'[q].object_id \in DOMAIN destroyed_by_id'
        /\ destroyed_by_id'[mark_destroyed'[q].object_id] = q
  BY <1>2, <1>4 DEF QueueIndex
<1> QED
  BY <1>5, <1>6 DEF QueueIndex

LEMMA CommitSetIndexes ==
  ASSUME TypeOK, StreamSetIndexes, NEW n \in Node, NEW ne \in NodeEpoch,
         NEW outputs \in SUBSET Ranges, NEW compacted \in SUBSET FormerStreamSets,
         OutputRanges(outputs, compacted),
         NEW request \in CommitRequests(outputs, compacted),
         WellFormedCommit(request), CommitStreamSetObject(n, ne, request)
  PROVE  StreamSetIndexes'
<1> DEFINE sets == CommittedSets(request)
           inserted == request.stream_objects
           new == UNION {{StreamOffsetKey(i, r) : r \in sets[i]} : i \in DOMAIN sets}
           old == DOMAIN sso_ranges \ SetRangeKeys(compacted)
<1>0. ObjectTypeOK
  BY DEF TypeOK
<1>1. CommittedRows(n, outputs, compacted, sets, inserted)
  BY CommitEffects
<1>2. request.compacted_object_ids = compacted
  BY <1>0, CommitRequestFacts, SMTT(30)
<1>3. /\ sso_ranges' = [k \in old \cup new |->
           IF k[3] \in DOMAIN sets
           THEN (CHOOSE r \in sets[k[3]] : k = StreamOffsetKey(k[3], r)).end_offset
           ELSE sso_ranges[k]]
      /\ sso_by_node' =
           (sso_by_node \ {<<stream_set_objects[i].node_id, i>> : i \in compacted})
             \cup {<<n, i>> : i \in DOMAIN sets}
  BY <1>2 DEF CommitStreamSetObject
<1> HIDE DEF sets, inserted
<1>4. /\ DOMAIN stream_set_objects' = (DOMAIN stream_set_objects \ compacted) \cup DOMAIN sets
      /\ \A i \in DOMAIN sets :
           stream_set_objects'[i] = [node_id |-> n, offset_ranges |-> sets[i]]
      /\ \A i \in DOMAIN stream_set_objects \ compacted :
           stream_set_objects'[i] = stream_set_objects[i]
      /\ \A i \in DOMAIN sets : i \notin DOMAIN stream_set_objects /\ sets[i] \subseteq outputs
      /\ compacted \subseteq DOMAIN stream_set_objects
  BY <1>0, <1>1, SMTT(30) DEF CommittedRows, FreshIds, ObjectTypeOK
<1>5. sso_by_node' = {<<stream_set_objects'[i].node_id, i>> : i \in DOMAIN stream_set_objects'}
  <2>1. /\ \A p \in sso_by_node :
             \E i \in DOMAIN stream_set_objects : p = <<stream_set_objects[i].node_id, i>>
        /\ \A i \in DOMAIN stream_set_objects : <<stream_set_objects[i].node_id, i>> \in sso_by_node
    BY DEF StreamSetIndexes
  <2>2. ASSUME NEW p \in sso_by_node'
        PROVE  \E i \in DOMAIN stream_set_objects' : p = <<stream_set_objects'[i].node_id, i>>
    <3>1. CASE \E i \in DOMAIN sets : p = <<n, i>>
      <4>1. PICK i \in DOMAIN sets : p = <<n, i>>
        BY <3>1
      <4>2. i \in DOMAIN stream_set_objects' /\ stream_set_objects'[i].node_id = n
        BY <1>4
      <4> QED
        BY <4>1, <4>2
    <3>2. CASE p \in sso_by_node \ {<<stream_set_objects[i].node_id, i>> : i \in compacted}
      <4>1. PICK i \in DOMAIN stream_set_objects : p = <<stream_set_objects[i].node_id, i>>
        BY <3>2, <2>1
      <4>2. i \notin compacted
        BY <3>2, <4>1, SMTT(30)
      <4>3. i \in DOMAIN stream_set_objects' /\ stream_set_objects'[i] = stream_set_objects[i]
        BY <4>2, <1>4
      <4> QED
        BY <4>1, <4>3
    <3> QED
      BY <2>2, <3>1, <3>2, <1>3
  <2>3. ASSUME NEW i \in DOMAIN stream_set_objects'
        PROVE  <<stream_set_objects'[i].node_id, i>> \in sso_by_node'
    <3>1. CASE i \in DOMAIN sets
      <4>1. stream_set_objects'[i].node_id = n
        BY <3>1, <1>4, SMTT(30)
      <4> QED
        BY <3>1, <4>1, <1>3, SMTT(30)
    <3>2. CASE i \in DOMAIN stream_set_objects \ compacted
      BY <3>2, <2>1, <1>3, <1>4
    <3> QED
      BY <2>3, <3>1, <3>2, <1>4, SMTT(30)
  <2> QED
    BY <2>2, <2>3
<1>6. \A i, r : StreamOffsetKey(i, r)[3] = i
  BY DEF StreamOffsetKey
<1>7. \A i \in DOMAIN sets : \A q, r \in sets[i] :
        StreamOffsetKey(i, q) = StreamOffsetKey(i, r) => q = r
  <2> SUFFICES ASSUME NEW i \in DOMAIN sets, NEW q \in sets[i], NEW r \in sets[i],
                      StreamOffsetKey(i, q) = StreamOffsetKey(i, r)
               PROVE  q = r
    OBVIOUS
  <2>1. q \in outputs /\ r \in outputs
    BY <1>4
  <2>2. q.stream_id = r.stream_id /\ q.start_offset = r.start_offset
    BY DEF StreamOffsetKey
  <2>3. /\ q.start_offset \in Nat /\ q.end_offset \in Nat /\ q.start_offset < q.end_offset
        /\ r.start_offset \in Nat /\ r.end_offset \in Nat /\ r.start_offset < r.end_offset
    BY <2>1, RangeNumbers, SMTT(30)
  <2>4. \/ q = r \/ q.stream_id # r.stream_id
        \/ q.end_offset <= r.start_offset \/ r.end_offset <= q.start_offset
    BY <2>1, SMTT(30) DEF OutputRanges
  <2> QED
    BY <2>2, <2>3, <2>4
<1>8. ASSUME NEW i \in DOMAIN stream_set_objects', NEW r \in stream_set_objects'[i].offset_ranges
      PROVE  /\ StreamOffsetKey(i, r) \in DOMAIN sso_ranges'
             /\ sso_ranges'[StreamOffsetKey(i, r)] = r.end_offset
  <2> DEFINE k == StreamOffsetKey(i, r)
  <2>1. CASE i \in DOMAIN sets
    <3>1. r \in sets[i] /\ k \in new /\ k[3] = i
      BY <1>8, <2>1, <1>4, <1>6, SMTT(30)
    <3>2. (CHOOSE q \in sets[i] : k = StreamOffsetKey(i, q)) = r
      BY <2>1, <3>1, <1>7, SMTT(30)
    <3> HIDE DEF k
    <3> QED
      BY <2>1, <3>1, <3>2, <1>3, SMTT(30) DEF k
  <2>2. CASE i \in DOMAIN stream_set_objects \ compacted
    <3>1. r \in stream_set_objects[i].offset_ranges /\ i \notin DOMAIN sets
      BY <1>8, <2>2, <1>4, SMTT(30)
    <3>2. k \in DOMAIN sso_ranges /\ sso_ranges[k] = r.end_offset
      BY <2>2, <3>1 DEF StreamSetIndexes
    <3>3. k \notin SetRangeKeys(compacted)
      BY <2>2, <1>6 DEF SetRangeKeys
    <3>4. k[3] = i
      BY <1>6, SMTT(30)
    <3> QED
      BY <3>1, <3>2, <3>3, <3>4, <1>3, SMTT(30)
  <2> QED
    BY <1>8, <2>1, <2>2, <1>4, SMTT(30)
<1>9. ASSUME NEW k \in DOMAIN sso_ranges'
      PROVE  /\ k[3] \in DOMAIN stream_set_objects'
             /\ \E r \in stream_set_objects'[k[3]].offset_ranges : k = StreamOffsetKey(k[3], r)
  <2>1. CASE k \in new
    <3>1. PICK i \in DOMAIN sets : \E r \in sets[i] : k = StreamOffsetKey(i, r)
      BY <2>1, SMTT(30)
    <3>2. k[3] = i
      BY <3>1, <1>6, SMTT(30)
    <3>3. i \in DOMAIN stream_set_objects' /\ stream_set_objects'[i].offset_ranges = sets[i]
      BY <1>4, SMTT(30)
    <3> QED
      BY <3>1, <3>2, <3>3, SMTT(30)
  <2>2. CASE k \in old
    <3>1. k[3] \in DOMAIN stream_set_objects
      BY <2>2, SMTT(30) DEF StreamSetIndexes
    <3>2. PICK r \in stream_set_objects[k[3]].offset_ranges : k = StreamOffsetKey(k[3], r)
      BY <2>2 DEF StreamSetIndexes
    <3>3. k[3] \notin compacted
      <4>1. k \notin SetRangeKeys(compacted)
        BY <2>2
      <4>2. k \in {StreamOffsetKey(k[3], q) : q \in stream_set_objects[k[3]].offset_ranges}
        BY <3>2
      <4> QED
        BY <4>1, <4>2, SMTT(30) DEF SetRangeKeys
    <3> QED
      BY <3>1, <3>2, <3>3, <1>4, SMTT(30)
  <2> QED
    BY <1>9, <2>1, <2>2, <1>3, SMTT(30)
<1> QED
  BY <1>5, <1>8, <1>9 DEF StreamSetIndexes

LEMMA IndexInvStep == TypeOK /\ IndexInv /\ [Next]_vars => IndexInv'
<1> SUFFICES ASSUME TypeOK, IndexInv, [Next]_vars PROVE IndexInv'
  OBVIOUS
<1> USE ObjectControlConstants
<1>0. ObjectTypeOK /\ LeaseIndex /\ StreamSetIndexes /\ QueueIndex
  BY DEF TypeOK, IndexInv
<1>1. UNCHANGED <<prepared, prepared_by_deadline>> => LeaseIndex'
  BY <1>0 DEF LeaseIndex
<1>2. UNCHANGED <<stream_set_objects, sso_ranges, sso_by_node>> => StreamSetIndexes'
  BY <1>0 DEF StreamSetIndexes
<1>3. UNCHANGED <<mark_destroyed, destroyed_by_id>> => QueueIndex'
  BY <1>0, SMTT(30) DEF QueueIndex
<1>4. ASSUME NEW n \in Node, NEW ne \in NodeEpoch, NEW count \in LeaseCount,
             NEW ttl \in Ttl, NEW now \in Now, PrepareObject(n, ne, count, ttl, now)
      PROVE  IndexInv'
  <2>1. LeaseIndex'
    BY <1>0, <1>4, PrepareIndex
  <2> QED
    BY <1>2, <1>3, <1>4, <2>1, SMTT(30) DEF PrepareObject, IndexInv
<1>5. ASSUME NEW n \in Node, NEW ne \in NodeEpoch,
             NEW outputs \in SUBSET Ranges, NEW compacted \in SUBSET FormerStreamSets,
             OutputRanges(outputs, compacted), ReplacesAll(outputs, compacted),
             NEW request \in CommitRequests(outputs, compacted),
             WellFormedCommit(request), CommitStreamSetObject(n, ne, request)
      PROVE  IndexInv'
  <2> DEFINE sets == CommittedSets(request)
             inserted == request.stream_objects
  <2>1. CommittedRows(n, outputs, compacted, sets, inserted)
    BY <1>5, CommitEffects, SMTT(30)
  <2>2. /\ CommitPrepared(DOMAIN sets \cup DOMAIN inserted)
        /\ MarkDestroyed(compacted, [i \in compacted |-> "Delete"])
        /\ compacted \subseteq DOMAIN written
    BY <2>1, SMTT(30) DEF CommittedRows
  <2>3. LeaseIndex'
    BY <1>0, <2>2, CommitPreparedIndex, SMTT(30)
  <2>4. QueueIndex'
    BY <1>0, <2>2, MarkDestroyedIndex, SMTT(30)
  <2>5. StreamSetIndexes'
    BY <1>0, <1>5, CommitSetIndexes
  <2> QED
    BY <2>3, <2>4, <2>5, SMTT(30) DEF IndexInv
<1>6. ASSUME NEW n \in Node, NEW ne \in NodeEpoch, NEW s \in StreamIds,
             NEW sources \in SUBSET FormerStreamObjects(s),
             NEW request \in CompactRequests(s, sources),
             WellFormedCompact(request), CompactStreamObject(n, ne, request)
      PROVE  IndexInv'
  <2>1. request.source_object_ids = sources /\ sources \subseteq DOMAIN written
    BY SMTT(30) DEF CompactRequests, FormerStreamObjects
  <2>2. /\ CommitPrepared({request.object_id})
        /\ MarkDestroyed(sources, request.operations)
        /\ UNCHANGED <<stream_set_objects, sso_ranges, sso_by_node>>
    BY <1>6, <2>1, ZenonT(30) DEF CompactStreamObject
  <2>3. LeaseIndex'
    BY <1>0, <2>2, CommitPreparedIndex, SMTT(30)
  <2>4. QueueIndex'
    BY <1>0, <2>1, <2>2, MarkDestroyedIndex, SMTT(30)
  <2> QED
    BY <2>2, <2>3, <2>4, <1>2, SMTT(30) DEF IndexInv
<1>7. ASSUME NEW n \in Node, NEW ne \in NodeEpoch, NEW s \in DOMAIN streams,
             NEW e \in StreamEpoch, DeleteStream(n, ne, s, e)
      PROVE  IndexInv'
  <2> DEFINE ids == {k[3] : k \in {k \in DOMAIN stream_objects : k[1] = s}}
  <2>1. /\ MarkDestroyed(ids, [i \in ids |-> "Delete"])
        /\ UNCHANGED <<prepared, prepared_by_deadline, stream_set_objects, sso_ranges, sso_by_node>>
    BY <1>7, SMTT(30) DEF DeleteStream, StreamKeys
  <2>2. ids \subseteq DOMAIN written
    BY <1>0, KeyNumbers, SMTT(30)
  <2>3. QueueIndex'
    BY <1>0, <2>1, <2>2, MarkDestroyedIndex, SMTT(30)
  <2> QED
    BY <2>1, <2>3, <1>1, <1>2, SMTT(30) DEF IndexInv
<1>8. ASSUME NEW now \in Now, ExpirePreparedObjects(now)
      PROVE  IndexInv'
  <2>1. LeaseIndex'
    BY <1>0, <1>8, ExpireIndex, SMTT(30)
  <2> QED
    BY <2>1, <1>2, <1>3, <1>8, SMTT(30) DEF ExpirePreparedObjects, IndexInv
<1>9. ASSUME NEW ids \in SUBSET DOMAIN destroyed_by_id, CleanDestroyedObjects(ids)
      PROVE  IndexInv'
  <2>1. QueueIndex'
    BY <1>0, <1>9, CleanIndex, SMTT(30)
  <2> QED
    BY <2>1, <1>1, <1>2, <1>9 DEF CleanDestroyedObjects, IndexInv
<1>10. CASE ObjectNext
  BY <1>10, <1>4, <1>5, <1>6, <1>7, <1>8, <1>9, SMTT(30) DEF ObjectNext
<1>11. CASE UNCHANGED objectVars
  BY <1>11, <1>1, <1>2, <1>3 DEF objectVars, IndexInv
<1> QED
  BY <1>10, <1>11 DEF Next, vars

\* At every log position the secondary indexes of the object tables are exact.
THEOREM ObjectIndexesExact == Spec => []ObjectIndexes
<1>1. Init => IndexInv
  BY DEF Init, ObjectInit, IndexInv, LeaseIndex, StreamSetIndexes, QueueIndex, EmptyMap
<1>2. Spec => []IndexInv
  BY <1>1, TypeCorrect, IndexInvStep, PTL DEF Spec
<1>3. IndexInv /\ ObjectInv => ObjectIndexes
  BY DEF IndexInv, ObjectInv, ObjectIndexes
<1> QED
  BY <1>2, <1>3, ObjectInvInvariant, PTL
=============================================================================

------------------------- MODULE MetadataLossProofs -------------------------
(***************************************************************************)
(* Proofs about the object tables of Metadata: one fate per object id, and *)
(* no committed record lost.                                               *)
(***************************************************************************)
EXTENDS MetadataObjectProofs

(* CompactStreamObject.                                                    *)

\* The effect of a stream-object compaction: so and sid are the tables after
\* the insertion, from which the sources of the stream are then dropped.
CompactedRows(s, sources, inserted, so, sid) ==
  /\ DOMAIN inserted \subseteq FreshIds
  /\ inserted \in [DOMAIN inserted -> Ranges]
  /\ sources \subseteq DOMAIN written
  /\ InsertedRows(inserted, so, sid)
  /\ WrittenRows(EmptyMap, inserted)
  /\ \A i \in sources : \A r \in written[i].offset_ranges :
       r.stream_id \in DOMAIN streams =>
         \A o \in r.start_offset .. (r.end_offset - 1) :
           o >= streams[r.stream_id].start_offset =>
             \E j \in DOMAIN inserted : Holds(inserted[j], r.stream_id, o)
  /\ s \in DOMAIN streams
  /\ \A i \in DOMAIN inserted :
       inserted[i].stream_id = s /\ inserted[i].end_offset <= streams[s].end_offset
  /\ DOMAIN stream_object_ids' =
       DOMAIN sid \ DroppedSources(s, sources, DOMAIN inserted)
  /\ \A i \in DOMAIN stream_object_ids' : stream_object_ids'[i] = sid[i]
  /\ DOMAIN stream_objects' =
       DOMAIN so \ {sid[i] : i \in DroppedSources(s, sources, DOMAIN inserted)}
  /\ \A k \in DOMAIN stream_objects' : stream_objects'[k] = so[k]
  /\ DOMAIN destroyed_by_id' = DOMAIN destroyed_by_id \cup sources
  /\ DOMAIN prepared' \subseteq DOMAIN prepared
  /\ DOMAIN inserted \cap DOMAIN prepared' = {}
  /\ UNCHANGED <<streams, stream_set_objects>>

LEMMA CompactEffects ==
  ASSUME TypeOK, NEW n \in Node, NEW ne \in NodeEpoch,
         NEW s \in StreamIds, NEW sources \in SUBSET FormerStreamObjects(s),
         NEW request \in CompactRequests(s, sources), WellFormedCompact(request),
         CompactStreamObject(n, ne, request)
  PROVE  \E inserted, so, sid : CompactedRows(s, sources, inserted, so, sid)
<1>0. ControlTypeOK /\ ObjectTypeOK
  BY DEF TypeOK
<1> DEFINE inserted == IF request.object_id = NoopObjectId THEN EmptyMap
                       ELSE Put(EmptyMap, request.object_id,
                                [stream_id |-> s, start_offset |-> request.start_offset,
                                 end_offset |-> request.end_offset])
           so == InsertStreamObjects(inserted)
           sid == InsertStreamObjectIds(inserted)
<1>3. /\ request.stream_id = s /\ request.source_object_ids = sources
      /\ request.operations \in [sources -> Operation]
      /\ sources \subseteq DOMAIN written
      /\ DOMAIN inserted \subseteq FreshIds
      /\ inserted \in [DOMAIN inserted -> Ranges]
      /\ \A r \in CompactOutput(request) : \E i \in DOMAIN inserted : r = inserted[i]
  BY CompactRequestFacts, SMTT(30)
<1>4. /\ s \in DOMAIN streams /\ streams[s].end_offset >= request.end_offset
      /\ CommitPrepared({request.object_id})
      /\ stream_objects' =
           Remove(so, {sid[i] : i \in DroppedSources(s, sources, DOMAIN inserted)})
      /\ stream_object_ids' = Remove(sid, DroppedSources(s, sources, DOMAIN inserted))
      /\ MarkDestroyed(sources, request.operations)
      /\ RecordWritten(EmptyMap, inserted)
      /\ UNCHANGED <<next_object_id, stream_set_objects, sso_ranges, sso_by_node>>
      /\ UNCHANGED controlVars
  BY <1>3, SMTT(30) DEF CompactStreamObject
<1>5. InsertedRows(inserted, so, sid)
  BY <1>0, <1>3, InsertEffects, SMTT(30)
<1>6. WrittenRows(EmptyMap, inserted)
  <2>1. DOMAIN EmptyMap = {}
    BY DEF EmptyMap
  <2> QED
    BY <1>0, <1>3, <1>4, <2>1, WrittenEffects, SMTT(30)
<1>7. ASSUME NEW i \in sources, NEW r \in written[i].offset_ranges,
             r.stream_id \in DOMAIN streams,
             NEW o \in r.start_offset .. (r.end_offset - 1),
             o >= streams[r.stream_id].start_offset
      PROVE  \E j \in DOMAIN inserted : Holds(inserted[j], r.stream_id, o)
  <2>1. \E q \in CompactOutput(request) : Holds(q, r.stream_id, o)
    BY <1>3, <1>7, SMTT(30) DEF WellFormedCompact, ReplacesAll, Replaces
  <2> HIDE DEF inserted
  <2> QED
    BY <1>3, <2>1, SMTT(30)
<1>8. \A i \in DOMAIN inserted :
        /\ i = request.object_id
        /\ inserted[i].stream_id = s /\ inserted[i].end_offset = request.end_offset
  BY SMTT(30) DEF EmptyMap, Put
<1> HIDE DEF inserted, so, sid
<1>9. request.end_offset \in Nat /\ streams[s].end_offset \in Nat
  BY <1>0, <1>4, StreamNumbers, StreamControlConstants, ZenonT(30) DEF CompactRequests
<1>10. DOMAIN destroyed_by_id' = DOMAIN destroyed_by_id \cup sources
  BY <1>0, <1>3, <1>4, MarkDestroyedFacts, ZenonT(30)
<1>11. DOMAIN prepared' = DOMAIN prepared \ {request.object_id}
  BY <1>4, ZenonT(30) DEF CommitPrepared, Remove, Restrict
<1>12. /\ DOMAIN stream_object_ids' =
            DOMAIN sid \ DroppedSources(s, sources, DOMAIN inserted)
       /\ \A i \in DOMAIN stream_object_ids' : stream_object_ids'[i] = sid[i]
       /\ DOMAIN stream_objects' =
            DOMAIN so \ {sid[i] : i \in DroppedSources(s, sources, DOMAIN inserted)}
       /\ \A k \in DOMAIN stream_objects' : stream_objects'[k] = so[k]
  BY <1>4, ZenonT(30) DEF Remove, Restrict
<1>13. \A i \in DOMAIN inserted :
         inserted[i].stream_id = s /\ inserted[i].end_offset <= streams[s].end_offset
  BY <1>4, <1>8, <1>9, ZenonT(30)
<1>14. DOMAIN prepared' \subseteq DOMAIN prepared /\ DOMAIN inserted \cap DOMAIN prepared' = {}
  BY <1>8, <1>11, SMTT(30)
<1>15. UNCHANGED <<streams, stream_set_objects>>
  BY <1>4, ZenonT(30) DEF controlVars
<1>16. CompactedRows(s, sources, inserted, so, sid)
  BY <1>3, <1>4, <1>5, <1>6, <1>7, <1>10, <1>12, <1>13, <1>14, <1>15, SMTT(30) DEF CompactedRows
<1> QED
  BY <1>16

LEMMA ObjectInvCompact ==
  ASSUME TypeOK, ObjectInv, NEW s \in StreamIds, NEW sources \in SUBSET FormerStreamObjects(s),
         NEW inserted, NEW so, NEW sid, CompactedRows(s, sources, inserted, so, sid)
  PROVE  ObjectInv'
<1>0. ControlTypeOK /\ ObjectTypeOK
  BY SMTT(30) DEF TypeOK
<1> DEFINE dropped == DroppedSources(s, sources, DOMAIN inserted)
<1>1. /\ InsertedRows(inserted, so, sid)
      /\ WrittenRows(EmptyMap, inserted)
      /\ sources \subseteq DOMAIN written
      /\ \A i \in DOMAIN inserted : i \notin DOMAIN written
      /\ inserted \in [DOMAIN inserted -> Ranges]
      /\ DOMAIN stream_object_ids' = DOMAIN sid \ dropped
      /\ \A i \in DOMAIN stream_object_ids' : stream_object_ids'[i] = sid[i]
      /\ DOMAIN stream_objects' = DOMAIN so \ {sid[i] : i \in dropped}
      /\ \A k \in DOMAIN stream_objects' : stream_objects'[k] = so[k]
      /\ DOMAIN destroyed_by_id' = DOMAIN destroyed_by_id \cup sources
      /\ streams' = streams /\ stream_set_objects' = stream_set_objects
  BY DEF CompactedRows, FreshIds
<1>2. /\ \A i \in DOMAIN sid : sid[i] \in DOMAIN so /\ sid[i][3] = i
      /\ \A k \in DOMAIN so : k[3] \in DOMAIN sid /\ sid[k[3]] = k
  BY <1>0, <1>1, InsertedIndex, SMTT(30) DEF ObjectInv
<1>3. DOMAIN sid = DOMAIN stream_object_ids \cup DOMAIN inserted
  BY <1>1, SMTT(30) DEF InsertedRows
<1>4. /\ DOMAIN stream_set_objects \subseteq DOMAIN written
      /\ DOMAIN stream_object_ids \subseteq DOMAIN written
      /\ DOMAIN destroyed_by_id \subseteq DOMAIN written
  BY <1>0 DEF ObjectTypeOK
\* The sources that are live are all dropped, and nothing else is.
<1>5. dropped = sources \cap DOMAIN stream_object_ids
  <2>1. dropped \subseteq sources \cap DOMAIN stream_object_ids
    BY <1>1 DEF DroppedSources, StreamObjectCommitted
  <2>2. ASSUME NEW i \in sources, i \in DOMAIN stream_object_ids PROVE i \in dropped
    <3> DEFINE k == stream_object_ids[i]
    <3>1. k \in DOMAIN stream_objects /\ k[3] = i
      BY <2>2, SMTT(30) DEF ObjectInv, StreamObjectIndex
    <3>2. written[i].offset_ranges =
            {[stream_id |-> k[1], start_offset |-> k[2], end_offset |-> stream_objects[k]]}
      BY <3>1, ContentsRanges, SMTT(30) DEF ObjectInv
    <3>3. PICK r \in written[i].offset_ranges : r.stream_id = s
      BY <2>2 DEF FormerStreamObjects
    <3>4. k[1] = s
      BY <3>2, <3>3
    <3> QED
      BY <2>2, <3>4, SMTT(30) DEF DroppedSources, StreamObjectCommitted
  <2> QED
    BY <2>1, <2>2, SMTT(30)
<1> HIDE DEF dropped
<1>6. StreamObjectIndex'
  <2>1. \A i \in DOMAIN stream_object_ids' :
          stream_object_ids'[i] \in DOMAIN stream_objects' /\ stream_object_ids'[i][3] = i
    <3>1. \A i \in DOMAIN sid, j \in dropped : sid[i] = sid[j] => i = j
      BY <1>2, <1>3, <1>5
    <3> QED
      BY <3>1, <1>1, <1>2
  <2>2. \A k \in DOMAIN stream_objects' :
          k[3] \in DOMAIN stream_object_ids' /\ stream_object_ids'[k[3]] = k
    BY <1>1, <1>2
  <2> QED
    BY <2>1, <2>2 DEF StreamObjectIndex
<1>7. ObjectIdentity'
  <2>1. DOMAIN prepared' \cap DOMAIN written' = {}
    BY SMTT(30) DEF CompactedRows, WrittenRows, EmptyMap, ObjectInv, ObjectIdentity
  <2>2. \A i \in sources : i \notin DOMAIN stream_set_objects
    BY ContentsRanges DEF FormerStreamObjects, ObjectInv
  <2>3. DOMAIN stream_object_ids' \cap sources = {}
    BY <1>1, <1>3, <1>5, SMTT(30)
  <2> QED
    BY <2>1, <2>2, <2>3, <1>1, <1>3, <1>4, SMTT(30) DEF ObjectInv, ObjectIdentity
<1>8. Contents'
  <2>1. \A i \in DOMAIN stream_set_objects' :
          written'[i] = [object_type |-> "StreamSet",
                         offset_ranges |-> stream_set_objects'[i].offset_ranges]
    BY <1>1, <1>4, SMTT(30) DEF WrittenRows, ObjectInv, Contents
  <2>2. ASSUME NEW k \in DOMAIN stream_objects'
        PROVE  written'[k[3]] = [object_type |-> "Stream",
                                 offset_ranges |-> {[stream_id |-> k[1], start_offset |-> k[2],
                                                     end_offset |-> stream_objects'[k]]}]
    <3>0. k \in DOMAIN so /\ stream_objects'[k] = so[k]
      BY <2>2, <1>1, SMTT(30)
    <3>1. CASE k \in DOMAIN stream_objects
      <4>1. k[3] \in DOMAIN written /\ so[k] = stream_objects[k]
        BY <3>1, <1>0, <1>1, KeyNumbers, SMTT(30) DEF InsertedRows
      <4> QED
        BY <3>0, <3>1, <4>1, <1>1, SMTT(30) DEF WrittenRows, ObjectInv, Contents
    <3>2. CASE k[3] \in DOMAIN inserted /\ k = StreamOffsetKey(k[3], inserted[k[3]])
      <4> DEFINE r == inserted[k[3]]
      <4>1. r = [stream_id |-> r.stream_id, start_offset |-> r.start_offset,
                 end_offset |-> r.end_offset]
        BY <3>2, <1>1, RangeNumbers, SMTT(30)
      <4>2. k[1] = r.stream_id /\ k[2] = r.start_offset /\ stream_objects'[k] = r.end_offset
        BY <3>0, <3>2, <1>1 DEF InsertedRows, StreamOffsetKey
      <4>3. written'[k[3]] = [object_type |-> "Stream", offset_ranges |-> {r}]
        BY <3>2, <1>1, ZenonT(30) DEF WrittenRows
      <4> QED
        BY <4>1, <4>2, <4>3, SMTT(30)
    <3> QED
      BY <3>0, <3>1, <3>2, <1>1, SMTT(30) DEF InsertedRows
  <2> QED
    BY <2>1, <2>2, SMTT(30) DEF Contents
<1>9. RangesWithinStream'
  <2>1. ASSUME NEW k \in DOMAIN stream_objects'
        PROVE  k[1] \in DOMAIN streams /\ stream_objects'[k] <= streams[k[1]].end_offset
    <3>0. k \in DOMAIN so /\ stream_objects'[k] = so[k]
      BY <2>1, <1>1, SMTT(30)
    <3>1. CASE k \in DOMAIN stream_objects
      BY <3>0, <3>1, <1>1, SMTT(30) DEF InsertedRows, ObjectInv, RangesWithinStream
    <3>2. CASE k[3] \in DOMAIN inserted /\ k = StreamOffsetKey(k[3], inserted[k[3]])
      <4>1. k[1] = inserted[k[3]].stream_id /\ so[k] = inserted[k[3]].end_offset
        BY <3>2, <1>1, SMTT(30) DEF InsertedRows, StreamOffsetKey
      <4> QED
        BY <3>0, <3>2, <4>1, SMTT(30) DEF CompactedRows
    <3> QED
      BY <3>0, <3>1, <3>2, <1>1, SMTT(30) DEF InsertedRows
  <2> QED
    BY <2>1, <1>1, SMTT(30) DEF ObjectInv, RangesWithinStream
<1>10. ASSUME NEW t \in DOMAIN streams, NEW o \in Nat, streams[t].start_offset <= o, Stored(t, o)
       PROVE  Stored(t, o)'
  <2>1. CASE \E i \in DOMAIN stream_set_objects :
               \E r \in stream_set_objects[i].offset_ranges : Holds(r, t, o)
    BY <2>1, <1>1, SMTT(30) DEF Stored
  <2>2. ASSUME NEW k \in DOMAIN stream_objects, k[1] = t, k[2] <= o, o < stream_objects[k]
        PROVE  Stored(t, o)'
    <3>1. k \in DOMAIN so /\ so[k] = stream_objects[k]
      BY <1>1 DEF InsertedRows
    <3>2. CASE k \in DOMAIN stream_objects'
      BY <3>1, <3>2, <2>2, <1>1, SMTT(30) DEF Stored
    <3>3. CASE k \notin DOMAIN stream_objects'
      <4>1. k[3] \in sources
        BY <3>1, <3>3, <1>1, <1>2, <1>3, <1>5, SMTT(30)
      <4> DEFINE r == [stream_id |-> k[1], start_offset |-> k[2], end_offset |-> stream_objects[k]]
      <4>2. r \in written[k[3]].offset_ranges
        BY ContentsRanges, SMTT(30) DEF ObjectInv
      <4>4. o \in r.start_offset .. (r.end_offset - 1) /\ r.stream_id = t
        BY <2>2, <1>0, KeyNumbers, SMTT(30)
      <4> HIDE DEF r
      <4>5. PICK j \in DOMAIN inserted : Holds(inserted[j], t, o)
        BY <4>1, <4>2, <4>4, <1>10, SMTT(30) DEF CompactedRows
      <4>6. /\ sid[j] = StreamOffsetKey(j, inserted[j]) /\ sid[j] \in DOMAIN so
            /\ so[sid[j]] = inserted[j].end_offset /\ j \in DOMAIN sid
        BY <1>1, <1>3 DEF InsertedRows
      <4>7. j \notin dropped
        BY <1>1, <1>4, <1>5, SMTT(30)
      <4>8. sid[j] \in DOMAIN stream_objects'
        BY <4>6, <4>7, <1>1, <1>2, <1>3, <1>5, SMTT(30)
      <4>9. sid[j][1] = inserted[j].stream_id /\ sid[j][2] = inserted[j].start_offset
        BY <4>6 DEF StreamOffsetKey
      <4> QED
        BY <4>5, <4>6, <4>8, <4>9, <1>1, SMTT(30) DEF Holds, Stored
    <3> QED
      BY <3>2, <3>3
  <2> QED
    BY <1>10, <2>1, <2>2 DEF Stored
<1>11. NoDataLoss'
  <2>1. \A t \in DOMAIN streams : streams[t].start_offset \in Nat
    BY <1>0, StreamNumbers
  <2>2. ASSUME NEW t \in DOMAIN streams,
               NEW o \in streams[t].start_offset .. (streams[t].end_offset - 1)
        PROVE  Stored(t, o)'
    BY <2>1, <2>2, <1>10, SMTT(30) DEF ObjectInv, NoDataLoss
  <2> QED
    BY <2>2, <1>1, SMTT(30) DEF NoDataLoss
<1> QED
  BY <1>6, <1>7, <1>8, <1>9, <1>11, SMTT(30) DEF ObjectInv

-----------------------------------------------------------------------------
(* The other commands.                                                     *)

\* What a node or stream command may do to the offsets: trim, or add streams
\* under new ids.
OffsetsKept ==
  /\ \A s \in DOMAIN streams :
       /\ s \in DOMAIN streams'
       /\ streams[s].start_offset <= streams'[s].start_offset
       /\ streams'[s].end_offset = streams[s].end_offset
       /\ streams'[s].start_offset \in Nat
       /\ streams'[s].start_offset <= streams'[s].end_offset
  /\ \A s \in DOMAIN streams' \ DOMAIN streams :
       s \notin StreamIds /\ streams'[s].start_offset = 0 /\ streams'[s].end_offset = 0

LEMMA ControlOffsetsKept ==
  ASSUME TypeOK, RangesWithinStream, ControlNext
  PROVE  OffsetsKept
<1> USE StreamControlConstants
<1>0. /\ ControlTypeOK
      /\ \A s \in DOMAIN streams :
           /\ streams[s] \in StreamRow /\ s \in StreamIds
           /\ streams[s].start_offset \in Nat /\ streams[s].end_offset \in Nat
           /\ streams[s].start_offset <= streams[s].end_offset
  BY DEF TypeOK, ControlTypeOK, StreamRow, RangesWithinStream
<1>1. CASE streams' = streams
  BY <1>0, <1>1, SMTT(30) DEF OffsetsKept
<1>2. ASSUME NEW n \in Node, NEW ne \in NodeEpoch, NEW a \in Address \cup {NoAddress},
             NEW slots \in SlotCount, RegisterNode(n, ne, a, slots)
      PROVE  OffsetsKept
  BY <1>1, <1>2, SMTT(30) DEF RegisterNode
<1>3. ASSUME NEW n \in Node, NEW ne \in NodeEpoch, NEW count \in BatchSize,
             CreateStreams(n, ne, count)
      PROVE  OffsetsKept
  <2> DEFINE created == next_stream_id .. (next_stream_id + count - 1)
  <2>1. streams' = [s \in DOMAIN streams \cup created |->
                      IF s \in created THEN NewStreamRow ELSE streams[s]]
    BY <1>3 DEF CreateStreams
  <2>2. \A s \in StreamIds : s \notin created
    BY <1>0 DEF StreamIds, ControlTypeOK
  <2> HIDE DEF created
  <2> QED
    BY <1>0, <2>1, <2>2 DEF OffsetsKept, NewStreamRow
<1>4. ASSUME NEW n \in Node, NEW ne \in NodeEpoch, NEW s \in DOMAIN streams,
             NEW e \in StreamEpoch, OpenStream(n, ne, s, e)
      PROVE  OffsetsKept
  BY <1>0, <1>4 DEF OpenStream, OffsetsKept, StreamRow
<1>5. ASSUME NEW n \in Node, NEW ne \in NodeEpoch, NEW s \in DOMAIN streams,
             NEW e \in StreamEpoch, CloseStream(n, ne, s, e)
      PROVE  OffsetsKept
  BY <1>0, <1>5 DEF CloseStream, OffsetsKept, StreamRow
<1>6. ASSUME NEW n \in Node, NEW ne \in NodeEpoch, NEW s \in DOMAIN streams,
             NEW e \in StreamEpoch, NEW o \in Offset, TrimStream(n, ne, s, e, o)
      PROVE  OffsetsKept
  BY <1>0, <1>6 DEF TrimStream, OffsetsKept, StreamRow
<1>7. ASSUME NEW s \in DOMAIN streams, PlaceStream(s)
      PROVE  OffsetsKept
  BY <1>0, <1>7, SMTT(30) DEF PlaceStream, OffsetsKept, StreamRow
<1>8. ASSUME NEW s \in DOMAIN streams, NEW from \in Node, NEW to \in Node,
             TransferStream(s, from, to)
      PROVE  OffsetsKept
  BY <1>1, <1>8 DEF TransferStream
<1>9. ASSUME NEW s \in DOMAIN streams, NEW e \in StreamEpoch, CompleteTransfer(s, e)
      PROVE  OffsetsKept
  BY <1>0, <1>9 DEF CompleteTransfer, OffsetsKept, StreamRow
<1> QED
  BY <1>2, <1>3, <1>4, <1>5, <1>6, <1>7, <1>8, <1>9, SMTT(30) DEF ControlNext

\* The object rows that the invariant reads.
rowVars == <<stream_set_objects, stream_objects, stream_object_ids, written>>

LEMMA ObjectInvControl ==
  ASSUME TypeOK, ObjectInv, OffsetsKept, UNCHANGED objectVars
  PROVE  ObjectInv'
<1>0. ControlTypeOK /\ ObjectTypeOK /\ UNCHANGED rowVars
      /\ UNCHANGED <<prepared, destroyed_by_id>>
  BY SMTT(30) DEF TypeOK, objectVars, rowVars
<1>1. StreamObjectIndex' /\ ObjectIdentity' /\ Contents'
  BY <1>0 DEF rowVars, ObjectInv, StreamObjectIndex, ObjectIdentity, Contents
<1>2. \A s \in DOMAIN streams :
        streams[s].start_offset \in Nat /\ streams[s].end_offset \in Nat
  BY <1>0, StreamNumbers
<1>3. RangesWithinStream'
  <2>1. \A s \in DOMAIN streams' : streams'[s].start_offset <= streams'[s].end_offset
    BY DEF OffsetsKept
  <2>2. \A k \in DOMAIN stream_objects :
          k[1] \in DOMAIN streams' /\ stream_objects[k] <= streams'[k[1]].end_offset
    BY DEF OffsetsKept, ObjectInv, RangesWithinStream
  <2>3. ASSUME NEW i \in DOMAIN stream_set_objects,
               NEW r \in stream_set_objects[i].offset_ranges, r.stream_id \in DOMAIN streams'
        PROVE  r.end_offset <= streams'[r.stream_id].end_offset
    <3>1. r.stream_id \in StreamIds
      BY <1>0, SMTT(30) DEF ObjectTypeOK, Ranges, OffsetRange
    <3> QED
      BY <2>3, <3>1, SMTT(30) DEF OffsetsKept, ObjectInv, RangesWithinStream
  <2> QED
    BY <2>1, <2>2, <2>3, <1>0, SMTT(30) DEF RangesWithinStream, rowVars
<1>4. NoDataLoss'
  <2> SUFFICES ASSUME NEW s \in DOMAIN streams',
                      NEW o \in streams'[s].start_offset .. (streams'[s].end_offset - 1)
               PROVE  Stored(s, o)'
    BY DEF NoDataLoss
  <2>1. s \in DOMAIN streams
    BY DEF OffsetsKept
  <2>2. o \in streams[s].start_offset .. (streams[s].end_offset - 1)
    BY <1>2, <2>1, SMTT(30) DEF OffsetsKept
  <2>3. Stored(s, o)
    BY <2>1, <2>2 DEF ObjectInv, NoDataLoss
  <2> QED
    BY <2>3, <1>0 DEF Stored, rowVars
<1> QED
  BY <1>1, <1>3, <1>4 DEF ObjectInv

\* Leases and the queue do not touch the live rows.
LEMMA ObjectInvRowsKept ==
  ASSUME ObjectInv, UNCHANGED <<streams, rowVars>>, ObjectIdentity'
  PROVE  ObjectInv'
<1>1. UNCHANGED streams /\ UNCHANGED rowVars
  OBVIOUS
<1>2. StreamObjectIndex' /\ Contents'
  BY <1>1, SMTT(30) DEF rowVars, ObjectInv, StreamObjectIndex, Contents
<1>3. RangesWithinStream'
  BY <1>1, SMTT(30) DEF rowVars, ObjectInv, RangesWithinStream
<1>4. NoDataLoss'
  BY <1>1 DEF rowVars, ObjectInv, NoDataLoss, Stored
<1> QED
  BY <1>2, <1>3, <1>4 DEF ObjectInv

LEMMA ObjectInvDelete ==
  ASSUME TypeOK, ObjectInv, NEW n \in Node, NEW ne \in NodeEpoch,
         NEW s \in DOMAIN streams, NEW e \in StreamEpoch, DeleteStream(n, ne, s, e)
  PROVE  ObjectInv'
<1> DEFINE keys == {k \in DOMAIN stream_objects : k[1] = s}
           ids == {k[3] : k \in keys}
<1>0. ObjectTypeOK
  BY SMTT(30) DEF TypeOK
<1>1. /\ stream_objects' = Remove(stream_objects, keys)
      /\ stream_object_ids' = Remove(stream_object_ids, ids)
      /\ MarkDestroyed(ids, [i \in ids |-> "Delete"])
      /\ streams' = Remove(streams, {s})
      /\ UNCHANGED <<prepared, stream_set_objects, written>>
  BY ZenonT(30) DEF DeleteStream, StreamKeys, DropStreamRow
<1>2. ids \subseteq DOMAIN written
  BY <1>0, KeyNumbers
<1>3. DOMAIN destroyed_by_id' = DOMAIN destroyed_by_id \cup ids
  BY <1>0, <1>1, <1>2, MarkDestroyedFacts, ZenonT(30)
<1>4. /\ DOMAIN stream_objects' = DOMAIN stream_objects \ keys
      /\ \A k \in DOMAIN stream_objects' : stream_objects'[k] = stream_objects[k]
      /\ DOMAIN stream_object_ids' = DOMAIN stream_object_ids \ ids
      /\ \A i \in DOMAIN stream_object_ids' : stream_object_ids'[i] = stream_object_ids[i]
      /\ DOMAIN streams' = DOMAIN streams \ {s}
      /\ \A t \in DOMAIN streams' : streams'[t] = streams[t]
  BY <1>1, SMTT(30) DEF Remove, Restrict
<1>5. /\ \A i \in DOMAIN stream_object_ids :
           stream_object_ids[i] \in DOMAIN stream_objects /\ stream_object_ids[i][3] = i
      /\ \A k \in DOMAIN stream_objects :
           k[3] \in DOMAIN stream_object_ids /\ stream_object_ids[k[3]] = k
  BY SMTT(30) DEF ObjectInv, StreamObjectIndex
<1>6. ids \subseteq DOMAIN stream_object_ids
      /\ \A k \in DOMAIN stream_objects : k[3] \in ids => k \in keys
  BY <1>5, SMTT(30)
<1>7. StreamObjectIndex'
  <2>1. \A i \in DOMAIN stream_object_ids' :
          stream_object_ids'[i] \in DOMAIN stream_objects' /\ stream_object_ids'[i][3] = i
    BY <1>4, <1>5, SMTT(30)
  <2>2. \A k \in DOMAIN stream_objects' :
          k[3] \in DOMAIN stream_object_ids' /\ stream_object_ids'[k[3]] = k
    BY <1>4, <1>5, <1>6, SMTT(30)
  <2> QED
    BY <2>1, <2>2, SMTT(30) DEF StreamObjectIndex
<1> HIDE DEF keys, ids
<1>8. ObjectIdentity'
  BY <1>1, <1>3, <1>4, <1>6, SMTT(30) DEF ObjectInv, ObjectIdentity
<1>9. Contents'
  <2>1. UNCHANGED <<stream_set_objects, written>>
    BY <1>1, SMTT(30)
  <2> QED
    BY <2>1, <1>4 DEF ObjectInv, Contents
<1>10. RangesWithinStream'
  <2>1. \A k \in DOMAIN stream_objects' :
          k[1] \in DOMAIN streams' /\ stream_objects'[k] <= streams'[k[1]].end_offset
    BY <1>4, ZenonT(30) DEF keys, ObjectInv, RangesWithinStream
  <2> QED
    BY <2>1, <1>1, <1>4, ZenonT(30) DEF ObjectInv, RangesWithinStream
<1>11. NoDataLoss'
  <2> SUFFICES ASSUME NEW t \in DOMAIN streams',
                      NEW o \in streams'[t].start_offset .. (streams'[t].end_offset - 1)
               PROVE  Stored(t, o)'
    BY SMTT(30) DEF NoDataLoss
  <2>1. t \in DOMAIN streams /\ t # s /\ streams'[t] = streams[t]
    BY <1>4, SMTT(30)
  <2>2. Stored(t, o)
    BY <2>1, SMTT(30) DEF ObjectInv, NoDataLoss
  <2>3. CASE \E i \in DOMAIN stream_set_objects :
               \E r \in stream_set_objects[i].offset_ranges : Holds(r, t, o)
    BY <2>3, <1>1, ZenonT(30) DEF Stored
  <2>4. ASSUME NEW k \in DOMAIN stream_objects, k[1] = t, k[2] <= o, o < stream_objects[k]
        PROVE  Stored(t, o)'
    BY <2>1, <2>4, <1>4, ZenonT(30) DEF keys, Stored
  <2> QED
    BY <2>2, <2>3, <2>4, SMTT(30) DEF Stored
<1> QED
  BY <1>7, <1>8, <1>9, <1>10, <1>11 DEF ObjectInv

LEMMA ObjectInvStep == TypeOK /\ ObjectInv /\ [Next]_vars => ObjectInv'
<1> SUFFICES ASSUME TypeOK, ObjectInv, [Next]_vars PROVE ObjectInv'
  OBVIOUS
<1> USE ObjectControlConstants
<1>0. ObjectTypeOK /\ ObjectIdentity
  BY DEF TypeOK, ObjectInv
<1>1. CASE ControlNext /\ UNCHANGED <<objectVars, kv>>
  BY <1>1, ControlOffsetsKept, ObjectInvControl DEF ObjectInv
<1>2. ASSUME NEW n \in Node, NEW ne \in NodeEpoch, NEW count \in LeaseCount,
             NEW ttl \in Ttl, NEW now \in Now, PrepareObject(n, ne, count, ttl, now)
      PROVE  ObjectInv'
  <2>1. UNCHANGED <<streams, rowVars>>
    BY <1>2, SMTT(30) DEF PrepareObject, controlVars, rowVars
  <2>2. DOMAIN prepared' = DOMAIN prepared \cup next_object_id .. (next_object_id + count - 1)
    BY <1>2, SMTT(30) DEF PrepareObject
  <2>3. \A i \in next_object_id .. (next_object_id + count - 1) : i \notin DOMAIN written
    BY <1>0, SMTT(30) DEF ObjectTypeOK
  <2>4. ObjectIdentity'
    BY <1>0, <1>2, <2>2, <2>3, SMTT(30) DEF PrepareObject, ObjectIdentity
  <2> QED
    BY <2>1, <2>4, ObjectInvRowsKept, SMTT(30)
<1>3. ASSUME NEW n \in Node, NEW ne \in NodeEpoch,
             NEW outputs \in SUBSET Ranges, NEW compacted \in SUBSET FormerStreamSets,
             OutputRanges(outputs, compacted), ReplacesAll(outputs, compacted),
             NEW request \in CommitRequests(outputs, compacted),
             WellFormedCommit(request), CommitStreamSetObject(n, ne, request)
      PROVE  ObjectInv'
  BY <1>3, ObjectInvCommit, SMTT(30)
<1>4. ASSUME NEW n \in Node, NEW ne \in NodeEpoch, NEW s \in StreamIds,
             NEW sources \in SUBSET FormerStreamObjects(s),
             NEW request \in CompactRequests(s, sources),
             WellFormedCompact(request), CompactStreamObject(n, ne, request)
      PROVE  ObjectInv'
  <2>1. \E inserted, so, sid : CompactedRows(s, sources, inserted, so, sid)
    BY <1>4, CompactEffects, SMTT(30)
  <2> QED
    BY <2>1, ObjectInvCompact, SMTT(30)
<1>5. ASSUME NEW n \in Node, NEW ne \in NodeEpoch, NEW s \in DOMAIN streams,
             NEW e \in StreamEpoch, DeleteStream(n, ne, s, e)
      PROVE  ObjectInv'
  BY <1>5, ObjectInvDelete
<1>6. ASSUME NEW now \in Now, ExpirePreparedObjects(now)
      PROVE  ObjectInv'
  <2>1. UNCHANGED <<streams, rowVars>>
    BY <1>6, SMTT(30) DEF ExpirePreparedObjects, controlVars, rowVars
  <2>2. DOMAIN prepared' \subseteq DOMAIN prepared
    BY <1>6, SMTT(30) DEF ExpirePreparedObjects, Remove, Restrict
  <2>3. ObjectIdentity'
    BY <1>0, <1>6, <2>2, SMTT(30) DEF ExpirePreparedObjects, ObjectIdentity
  <2> QED
    BY <2>1, <2>3, ObjectInvRowsKept, SMTT(30)
<1>7. ASSUME NEW ids \in SUBSET DOMAIN destroyed_by_id, CleanDestroyedObjects(ids)
      PROVE  ObjectInv'
  <2>1. UNCHANGED <<streams, rowVars>>
    BY <1>7, SMTT(30) DEF CleanDestroyedObjects, controlVars, rowVars
  <2>2. DOMAIN destroyed_by_id' \subseteq DOMAIN destroyed_by_id
    BY <1>7, SMTT(30) DEF CleanDestroyedObjects, Remove, Restrict
  <2>3. ObjectIdentity'
    BY <1>0, <1>7, <2>2, SMTT(30) DEF CleanDestroyedObjects, ObjectIdentity
  <2> QED
    BY <2>1, <2>3, ObjectInvRowsKept, SMTT(30)
<1>8. CASE ObjectNext
  BY <1>8, <1>2, <1>3, <1>4, <1>5, <1>6, <1>7, SMTT(30) DEF ObjectNext
<1>9. CASE UNCHANGED <<controlVars, objectVars>>
  <2>1. UNCHANGED <<streams, rowVars>> /\ UNCHANGED <<prepared, destroyed_by_id>>
    BY <1>9, SMTT(30) DEF controlVars, objectVars, rowVars
  <2>2. ObjectIdentity'
    BY <1>0, <2>1 DEF ObjectIdentity, rowVars
  <2> QED
    BY <2>1, <2>2, ObjectInvRowsKept, SMTT(30)
<1>10. CASE UNCHANGED vars
  <2>1. UNCHANGED <<controlVars, objectVars>>
    BY <1>10 DEF vars
  <2> QED
    BY <2>1, <1>9
<1> QED
  BY <1>1, <1>8, <1>9, <1>10 DEF Next

LEMMA ObjectInvInvariant == Spec => []ObjectInv
<1>1. Init => ObjectInv
  BY DEF Init, ControlInit, ObjectInit, ObjectInv, StreamObjectIndex, ObjectIdentity,
         Contents, RangesWithinStream, NoDataLoss, EmptyMap
<1> QED
  BY <1>1, TypeCorrect, ObjectInvStep, PTL DEF Spec

\* An object id is leased, live in one table, or queued for destruction, and
\* never two of these: the cleaner cannot delete what a reader can find.
THEOREM OneFatePerObject == Spec => []ObjectIdentity
BY ObjectInvInvariant, PTL DEF ObjectInv

\* Every offset between a stream's start and its end is in a live object, at
\* every position of the log.
THEOREM NothingLost == Spec => []NoDataLoss
BY ObjectInvInvariant, PTL DEF ObjectInv

\* No live object reaches past its stream's end offset, and no stream object
\* outlives its stream.
THEOREM ObjectsWithinStreams == Spec => []RangesWithinStream
BY ObjectInvInvariant, PTL DEF ObjectInv
=============================================================================

------------------------ MODULE MetadataObjectProofs ------------------------
(***************************************************************************)
(* The inductive invariant of the object tables of Metadata, and that      *)
(* committing stream-set objects preserves it.                             *)
(***************************************************************************)
EXTENDS MetadataControlProofs

\* The live rows describe the objects as they were written.
Contents ==
  /\ \A i \in DOMAIN stream_set_objects :
       written[i] = [object_type |-> "StreamSet",
                     offset_ranges |-> stream_set_objects[i].offset_ranges]
  /\ \A k \in DOMAIN stream_objects :
       written[k[3]] = [object_type |-> "Stream",
                        offset_ranges |-> {[stream_id |-> k[1], start_offset |-> k[2],
                                            end_offset |-> stream_objects[k]]}]

\* The strengthening that makes ObjectIdentity and NoDataLoss inductive.
ObjectInv ==
  StreamObjectIndex /\ ObjectIdentity /\ Contents /\ RangesWithinStream /\ NoDataLoss

LEMMA StreamNumbers ==
  ASSUME ControlTypeOK
  PROVE  \A s \in DOMAIN streams :
           streams[s].start_offset \in Nat /\ streams[s].end_offset \in Nat
BY DEF ControlTypeOK, StreamRow

LEMMA RangeNumbers ==
  ASSUME NEW r \in Ranges
  PROVE  /\ r.start_offset \in Nat /\ r.end_offset \in Nat /\ r.start_offset < r.end_offset
         /\ r = [stream_id |-> r.stream_id, start_offset |-> r.start_offset,
                 end_offset |-> r.end_offset]
BY StreamControlConstants, ZenonT(30) DEF Ranges, OffsetRange

LEMMA KeyNumbers ==
  ASSUME ObjectTypeOK, NEW k \in DOMAIN stream_objects
  PROVE  /\ k[1] \in StreamIds /\ k[2] \in Nat /\ k[3] \in DOMAIN written
         /\ stream_objects[k] \in Nat /\ k = <<k[1], k[2], k[3]>>
BY StreamControlConstants DEF ObjectTypeOK

LEMMA ContentsRanges ==
  ASSUME Contents
  PROVE  /\ \A i \in DOMAIN stream_set_objects :
              /\ written[i].object_type = "StreamSet"
              /\ written[i].offset_ranges = stream_set_objects[i].offset_ranges
         /\ \A k \in DOMAIN stream_objects :
              /\ written[k[3]].object_type = "Stream"
              /\ written[k[3]].offset_ranges =
                   {[stream_id |-> k[1], start_offset |-> k[2], end_offset |-> stream_objects[k]]}
<1>1. ASSUME NEW i \in DOMAIN stream_set_objects
      PROVE  /\ written[i].object_type = "StreamSet"
             /\ written[i].offset_ranges = stream_set_objects[i].offset_ranges
  <2>1. written[i] = [object_type |-> "StreamSet",
                      offset_ranges |-> stream_set_objects[i].offset_ranges]
    BY DEF Contents
  <2> QED
    BY <2>1
<1>2. ASSUME NEW k \in DOMAIN stream_objects
      PROVE  /\ written[k[3]].object_type = "Stream"
             /\ written[k[3]].offset_ranges =
                  {[stream_id |-> k[1], start_offset |-> k[2], end_offset |-> stream_objects[k]]}
  <2>1. written[k[3]] = [object_type |-> "Stream",
                         offset_ranges |-> {[stream_id |-> k[1], start_offset |-> k[2],
                                             end_offset |-> stream_objects[k]]}]
    BY DEF Contents
  <2> QED
    BY <2>1
<1> QED
  BY <1>1, <1>2

\* so and sid are the stream-object table and index with the rows of inserted added.
InsertedRows(inserted, so, sid) ==
  /\ \A k \in DOMAIN stream_objects : k \in DOMAIN so /\ so[k] = stream_objects[k]
  /\ \A i \in DOMAIN inserted :
       /\ StreamOffsetKey(i, inserted[i]) \in DOMAIN so
       /\ so[StreamOffsetKey(i, inserted[i])] = inserted[i].end_offset
  /\ \A k \in DOMAIN so :
       \/ k \in DOMAIN stream_objects
       \/ k[3] \in DOMAIN inserted /\ k = StreamOffsetKey(k[3], inserted[k[3]])
  /\ DOMAIN sid = DOMAIN stream_object_ids \cup DOMAIN inserted
  /\ \A i \in DOMAIN stream_object_ids :
       i \notin DOMAIN inserted /\ sid[i] = stream_object_ids[i]
  /\ \A i \in DOMAIN inserted : sid[i] = StreamOffsetKey(i, inserted[i])

\* Inserting stream objects under fresh ids adds exactly their rows.
LEMMA InsertEffects ==
  ASSUME ObjectTypeOK, NEW inserted, DOMAIN inserted \subseteq FreshIds,
         inserted \in [DOMAIN inserted -> Ranges],
         NEW so, so = InsertStreamObjects(inserted),
         NEW sid, sid = InsertStreamObjectIds(inserted)
  PROVE  InsertedRows(inserted, so, sid)
<1>1. \A i \in DOMAIN inserted : i \notin DOMAIN written
  BY DEF FreshIds
<1>2. \A k \in DOMAIN stream_objects : k[3] \in DOMAIN written
  BY KeyNumbers
<1>3. \A i \in DOMAIN inserted : StreamOffsetKey(i, inserted[i])[3] = i
  BY DEF StreamOffsetKey
<1>4. DOMAIN stream_object_ids \subseteq DOMAIN written
  BY DEF ObjectTypeOK
<1>5. DOMAIN so = DOMAIN stream_objects \cup
                    {StreamOffsetKey(i, inserted[i]) : i \in DOMAIN inserted}
  BY DEF InsertStreamObjects
<1>6. \A k \in DOMAIN stream_objects : k \in DOMAIN so /\ so[k] = stream_objects[k]
  BY <1>1, <1>2, <1>5 DEF InsertStreamObjects
<1>7. ASSUME NEW i \in DOMAIN inserted
      PROVE  /\ StreamOffsetKey(i, inserted[i]) \in DOMAIN so
             /\ so[StreamOffsetKey(i, inserted[i])] = inserted[i].end_offset
  BY <1>3, <1>5 DEF InsertStreamObjects
<1>8. \A k \in DOMAIN so :
        \/ k \in DOMAIN stream_objects
        \/ k[3] \in DOMAIN inserted /\ k = StreamOffsetKey(k[3], inserted[k[3]])
  BY <1>3, <1>5
<1>9. /\ DOMAIN sid = DOMAIN stream_object_ids \cup DOMAIN inserted
      /\ \A i \in DOMAIN stream_object_ids :
           i \notin DOMAIN inserted /\ sid[i] = stream_object_ids[i]
      /\ \A i \in DOMAIN inserted : sid[i] = StreamOffsetKey(i, inserted[i])
  BY <1>1, <1>4 DEF InsertStreamObjectIds
<1> QED
  BY <1>6, <1>7, <1>8, <1>9 DEF InsertedRows

\* The history gains the objects of sets and inserted and keeps the others.
WrittenRows(sets, inserted) ==
  /\ DOMAIN written' = DOMAIN written \cup DOMAIN sets \cup DOMAIN inserted
  /\ \A i \in DOMAIN written : written'[i] = written[i]
  /\ \A i \in DOMAIN sets :
       written'[i] = [object_type |-> "StreamSet", offset_ranges |-> sets[i]]
  /\ \A i \in DOMAIN inserted :
       written'[i] = [object_type |-> "Stream", offset_ranges |-> {inserted[i]}]

LEMMA InsertedIndex ==
  ASSUME ObjectTypeOK, StreamObjectIndex, NEW inserted, NEW so, NEW sid,
         InsertedRows(inserted, so, sid)
  PROVE  /\ \A i \in DOMAIN sid : sid[i] \in DOMAIN so /\ sid[i][3] = i
         /\ \A k \in DOMAIN so : k[3] \in DOMAIN sid /\ sid[k[3]] = k
<1>1. \A i \in DOMAIN inserted : StreamOffsetKey(i, inserted[i])[3] = i
  BY DEF StreamOffsetKey
<1>2. \A i \in DOMAIN sid : sid[i] \in DOMAIN so /\ sid[i][3] = i
  BY <1>1 DEF InsertedRows, StreamObjectIndex
<1>3. \A k \in DOMAIN so : k[3] \in DOMAIN sid /\ sid[k[3]] = k
  BY <1>1 DEF InsertedRows, StreamObjectIndex
<1> QED
  BY <1>2, <1>3

LEMMA WrittenEffects ==
  ASSUME ObjectTypeOK, NEW sets, NEW inserted, RecordWritten(sets, inserted),
         DOMAIN sets \subseteq FreshIds, DOMAIN inserted \subseteq FreshIds,
         DOMAIN sets \cap DOMAIN inserted = {}
  PROVE  WrittenRows(sets, inserted)
BY DEF RecordWritten, FreshIds, WrittenRows

-----------------------------------------------------------------------------
(* CommitStreamSetObject.                                                  *)

\* The effect of a commit on the tables, row by row.
CommittedRows(n, outputs, compacted, sets, inserted) ==
  /\ DOMAIN sets \subseteq FreshIds /\ DOMAIN inserted \subseteq FreshIds
  /\ DOMAIN sets \cap DOMAIN inserted = {}
  /\ inserted \in [DOMAIN inserted -> outputs]
  /\ \A i \in DOMAIN sets : sets[i] \subseteq outputs
  /\ \A r \in outputs :
       \/ \E i \in DOMAIN sets : r \in sets[i]
       \/ \E i \in DOMAIN inserted : r = inserted[i]
  /\ compacted \subseteq DOMAIN stream_set_objects
  /\ compacted \subseteq DOMAIN written
  /\ DOMAIN stream_set_objects' = (DOMAIN stream_set_objects \ compacted) \cup DOMAIN sets
  /\ \A i \in DOMAIN sets :
       stream_set_objects'[i] = [node_id |-> n, offset_ranges |-> sets[i]]
  /\ \A i \in DOMAIN stream_set_objects \ compacted :
       stream_set_objects'[i] = stream_set_objects[i]
  /\ \A r \in outputs : AdvanceEndOffsetCheck(r, compacted # {})
  /\ streams' = AdvanceEndOffset(outputs, compacted # {})
  /\ CommitPrepared(DOMAIN sets \cup DOMAIN inserted)
  /\ stream_objects' = InsertStreamObjects(inserted)
  /\ stream_object_ids' = InsertStreamObjectIds(inserted)
  /\ MarkDestroyed(compacted, [i \in compacted |-> "Delete"])
  /\ RecordWritten(sets, inserted)
  /\ next_object_id' = next_object_id

LEMMA CommitEffects ==
  ASSUME TypeOK, NEW n \in Node, NEW ne \in NodeEpoch,
         NEW outputs \in SUBSET Ranges, NEW compacted \in SUBSET FormerStreamSets,
         NEW request \in CommitRequests(outputs, compacted),
         WellFormedCommit(request), CommitStreamSetObject(n, ne, request),
         NEW sets, sets = CommittedSets(request),
         NEW inserted, inserted = request.stream_objects
  PROVE  CommittedRows(n, outputs, compacted, sets, inserted)
<1>1. /\ request.compacted_object_ids = compacted
      /\ DOMAIN sets \subseteq FreshIds
      /\ \A i \in DOMAIN sets : sets[i] \subseteq outputs
      /\ DOMAIN inserted \subseteq FreshIds
      /\ inserted \in [DOMAIN inserted -> outputs]
      /\ DOMAIN sets \cap DOMAIN inserted = {}
      /\ CommittedRanges(request) = outputs
  BY CommitRequestFacts DEF TypeOK
<1>2. ASSUME NEW r \in outputs
      PROVE  \/ \E i \in DOMAIN sets : r \in sets[i]
             \/ \E i \in DOMAIN inserted : r = inserted[i]
  <2>1. r \in CommittedRanges(request)
    BY <1>1
  <2>2. CASE request.object_id = NoopObjectId
    BY <2>1, <2>2 DEF CommittedRanges
  <2>3. CASE request.object_id # NoopObjectId
    <3>1. DOMAIN sets = {request.object_id} /\ sets[request.object_id] = request.stream_ranges
      BY <2>3, SMTT(30) DEF CommittedSets, Put, EmptyMap
    <3> QED
      BY <2>1, <2>3, <3>1 DEF CommittedRanges
  <2> QED
    BY <2>2, <2>3
<1>3. /\ compacted \subseteq DOMAIN stream_set_objects
      /\ stream_set_objects' = [i \in (DOMAIN stream_set_objects \ compacted) \cup DOMAIN sets |->
           IF i \in DOMAIN sets THEN [node_id |-> n, offset_ranges |-> sets[i]]
           ELSE stream_set_objects[i]]
      /\ \A r \in outputs : AdvanceEndOffsetCheck(r, compacted # {})
      /\ streams' = AdvanceEndOffset(outputs, compacted # {})
      /\ CommitPrepared(DOMAIN sets \cup DOMAIN inserted)
      /\ stream_objects' = InsertStreamObjects(inserted)
      /\ stream_object_ids' = InsertStreamObjectIds(inserted)
      /\ MarkDestroyed(compacted, [i \in compacted |-> "Delete"])
      /\ RecordWritten(sets, inserted)
      /\ next_object_id' = next_object_id
  BY <1>1 DEF CommitStreamSetObject
<1>4. DOMAIN stream_set_objects \subseteq DOMAIN written
  BY DEF TypeOK, ObjectTypeOK
<1>5. \A i \in DOMAIN stream_set_objects : i \notin DOMAIN sets
  BY <1>1, <1>4, SMTT(30) DEF FreshIds
<1>6. /\ DOMAIN stream_set_objects' = (DOMAIN stream_set_objects \ compacted) \cup DOMAIN sets
      /\ \A i \in DOMAIN sets :
           stream_set_objects'[i] = [node_id |-> n, offset_ranges |-> sets[i]]
      /\ \A i \in DOMAIN stream_set_objects \ compacted :
           stream_set_objects'[i] = stream_set_objects[i]
  BY <1>3, <1>5
<1> QED
  BY <1>1, <1>2, <1>3, <1>4, <1>6, ZenonT(30) DEF CommittedRows

\* Each stream stays, or moves from the start to the end of one range of outputs.
AdvancedEnds(outputs) ==
  /\ DOMAIN streams' = DOMAIN streams
  /\ \A s \in DOMAIN streams :
       /\ streams'[s].start_offset = streams[s].start_offset
       /\ streams[s].end_offset <= streams'[s].end_offset
       /\ \/ streams'[s].end_offset = streams[s].end_offset
          \/ \E r \in outputs : /\ r.stream_id = s
                                /\ r.start_offset = streams[s].end_offset
                                /\ r.end_offset = streams'[s].end_offset
  /\ \A r \in outputs :
       r.stream_id \in DOMAIN streams /\ r.end_offset <= streams'[r.stream_id].end_offset

\* An upload moves each stream it names from the start to the end of its one
\* range; a compaction moves none.
LEMMA AdvanceEffects ==
  ASSUME ControlTypeOK, NEW outputs \in SUBSET Ranges, NEW compacted,
         OutputRanges(outputs, compacted),
         \A r \in outputs : AdvanceEndOffsetCheck(r, compacted # {}),
         streams' = AdvanceEndOffset(outputs, compacted # {})
  PROVE  AdvancedEnds(outputs)
<1>1. DOMAIN streams' = DOMAIN streams
  BY DEF AdvanceEndOffset
<1>2. CASE compacted # {}
  <2>1. \A s \in DOMAIN streams : streams'[s] = streams[s]
    BY <1>2 DEF AdvanceEndOffset
  <2>2. \A r \in outputs :
          r.stream_id \in DOMAIN streams /\ streams[r.stream_id].end_offset >= r.end_offset
    BY <1>2 DEF AdvanceEndOffsetCheck
  <2>3. \A r \in outputs : r.end_offset <= streams'[r.stream_id].end_offset
    BY <2>1, <2>2, StreamNumbers, RangeNumbers
  <2> QED
    BY <1>1, <2>1, <2>2, <2>3, StreamNumbers DEF AdvancedEnds
<1>3. CASE compacted = {}
  <2>1. \A r \in outputs :
          r.stream_id \in DOMAIN streams /\ streams[r.stream_id].end_offset = r.start_offset
    BY <1>3 DEF AdvanceEndOffsetCheck
  <2>2. \A q, r \in outputs : q.stream_id = r.stream_id => q = r
    BY <1>3 DEF OutputRanges
  <2>3. ASSUME NEW r \in outputs
        PROVE  streams'[r.stream_id] = [streams[r.stream_id] EXCEPT !.end_offset = r.end_offset]
    <3>1. (CHOOSE q \in outputs : q.stream_id = r.stream_id) = r
      BY <2>2
    <3> QED
      BY <1>3, <2>1, <3>1, ZenonT(30) DEF AdvanceEndOffset
  <2>4. \A r \in outputs :
          /\ streams'[r.stream_id].start_offset = streams[r.stream_id].start_offset
          /\ streams'[r.stream_id].end_offset = r.end_offset
    <3>1. \A r \in outputs : streams[r.stream_id] \in StreamRow
      BY <2>1 DEF ControlTypeOK
    <3> QED
      BY <2>3, <3>1, ZenonT(30) DEF StreamRow
  <2>5. ASSUME NEW s \in DOMAIN streams, ~\E r \in outputs : r.stream_id = s
        PROVE  streams'[s] = streams[s]
    BY <2>5 DEF AdvanceEndOffset
  <2>6. ASSUME NEW s \in DOMAIN streams
        PROVE  /\ streams'[s].start_offset = streams[s].start_offset
               /\ streams[s].end_offset <= streams'[s].end_offset
               /\ \/ streams'[s].end_offset = streams[s].end_offset
                  \/ \E r \in outputs : /\ r.stream_id = s
                                        /\ r.start_offset = streams[s].end_offset
                                        /\ r.end_offset = streams'[s].end_offset
    <3>1. CASE ~\E r \in outputs : r.stream_id = s
      BY <3>1, <2>5, StreamNumbers
    <3>2. ASSUME NEW r \in outputs, r.stream_id = s
          PROVE  /\ streams'[s].start_offset = streams[s].start_offset
                 /\ streams[s].end_offset <= streams'[s].end_offset
                 /\ r.start_offset = streams[s].end_offset
                 /\ r.end_offset = streams'[s].end_offset
      BY <3>2, <2>1, <2>4, RangeNumbers
    <3> QED
      BY <3>1, <3>2
  <2>7. \A r \in outputs : r.end_offset <= streams'[r.stream_id].end_offset
    BY <2>4, RangeNumbers
  <2> QED
    BY <1>1, <2>1, <2>6, <2>7 DEF AdvancedEnds
<1> QED
  BY <1>2, <1>3

LEMMA ObjectInvCommit ==
  ASSUME TypeOK, ObjectInv, NEW n \in Node, NEW ne \in NodeEpoch,
         NEW outputs \in SUBSET Ranges, NEW compacted \in SUBSET FormerStreamSets,
         OutputRanges(outputs, compacted), ReplacesAll(outputs, compacted),
         NEW request \in CommitRequests(outputs, compacted),
         WellFormedCommit(request), CommitStreamSetObject(n, ne, request)
  PROVE  ObjectInv'
<1>0. ControlTypeOK /\ ObjectTypeOK
  BY DEF TypeOK
<1>1. PICK sets, inserted : sets = CommittedSets(request) /\ inserted = request.stream_objects
  OBVIOUS
<1>2. CommittedRows(n, outputs, compacted, sets, inserted)
  BY <1>1, CommitEffects
<1>3. /\ DOMAIN sets \subseteq FreshIds /\ DOMAIN inserted \subseteq FreshIds
      /\ \A i \in DOMAIN sets \cup DOMAIN inserted : i \notin DOMAIN written
      /\ DOMAIN sets \cap DOMAIN inserted = {}
      /\ inserted \in [DOMAIN inserted -> Ranges]
      /\ compacted \subseteq DOMAIN written
  BY <1>2 DEF CommittedRows, FreshIds
<1>4. InsertedRows(inserted, stream_objects', stream_object_ids')
  BY <1>0, <1>2, <1>3, InsertEffects DEF CommittedRows
<1>5. WrittenRows(sets, inserted)
  BY <1>0, <1>2, <1>3, WrittenEffects DEF CommittedRows
<1>6. DOMAIN destroyed_by_id' = DOMAIN destroyed_by_id \cup compacted
  <2>1. MarkDestroyed(compacted, [i \in compacted |-> "Delete"])
    BY <1>2 DEF CommittedRows
  <2> QED
    BY <1>0, <1>3, <2>1, MarkDestroyedFacts, ZenonT(30)
<1>7. AdvancedEnds(outputs)
  BY <1>0, <1>2, AdvanceEffects DEF CommittedRows
<1>8. \A s \in DOMAIN streams :
        /\ streams[s].start_offset \in Nat /\ streams[s].end_offset \in Nat
        /\ streams'[s].start_offset \in Nat /\ streams'[s].end_offset \in Nat
  <2>1. \A s \in DOMAIN streams :
          streams[s].start_offset \in Nat /\ streams[s].end_offset \in Nat
    BY <1>0, StreamNumbers
  <2>2. \A r \in outputs : r.end_offset \in Nat
    BY RangeNumbers
  <2> QED
    BY <2>1, <2>2, <1>7 DEF AdvancedEnds
<1>9. DOMAIN stream_set_objects \subseteq DOMAIN written
      /\ DOMAIN stream_object_ids \subseteq DOMAIN written
      /\ DOMAIN destroyed_by_id \subseteq DOMAIN written
  BY <1>0, SMTT(30) DEF ObjectTypeOK
<1>10. \A k \in DOMAIN stream_objects : k[3] \in DOMAIN written
  BY <1>0, KeyNumbers
<1>11. StreamObjectIndex'
  BY <1>0, <1>3, <1>4, InsertedIndex DEF ObjectInv, StreamObjectIndex
<1>12. ObjectIdentity'
  <2>1. DOMAIN prepared' = DOMAIN prepared \ (DOMAIN sets \cup DOMAIN inserted)
    BY <1>2, SMTT(30) DEF CommittedRows, CommitPrepared, Remove, Restrict
  <2>2. DOMAIN prepared' \cap DOMAIN written' = {}
    BY <2>1, <1>5 DEF ObjectInv, ObjectIdentity, WrittenRows
  <2>3. /\ DOMAIN stream_set_objects' =
             (DOMAIN stream_set_objects \ compacted) \cup DOMAIN sets
        /\ DOMAIN stream_object_ids' = DOMAIN stream_object_ids \cup DOMAIN inserted
        /\ compacted \subseteq DOMAIN stream_set_objects
    BY <1>2, <1>4 DEF CommittedRows, InsertedRows
  <2> QED
    BY <2>2, <2>3, <1>3, <1>6, <1>9, SMTT(30) DEF ObjectInv, ObjectIdentity
<1>13. Contents'
  <2>1. ASSUME NEW i \in DOMAIN stream_set_objects'
        PROVE  written'[i] = [object_type |-> "StreamSet",
                              offset_ranges |-> stream_set_objects'[i].offset_ranges]
    <3>1. CASE i \in DOMAIN sets
      BY <3>1, <1>2, <1>5, SMTT(30) DEF CommittedRows, WrittenRows
    <3>2. CASE i \in DOMAIN stream_set_objects \ compacted
      BY <3>2, <1>2, <1>5, <1>9, SMTT(30) DEF CommittedRows, WrittenRows, ObjectInv, Contents
    <3> QED
      BY <2>1, <3>1, <3>2, <1>2, SMTT(30) DEF CommittedRows
  <2>2. ASSUME NEW k \in DOMAIN stream_objects'
        PROVE  written'[k[3]] = [object_type |-> "Stream",
                                 offset_ranges |-> {[stream_id |-> k[1], start_offset |-> k[2],
                                                     end_offset |-> stream_objects'[k]]}]
    <3>1. CASE k \in DOMAIN stream_objects
      BY <3>1, <1>4, <1>5, <1>10 DEF InsertedRows, WrittenRows, ObjectInv, Contents
    <3>2. CASE k[3] \in DOMAIN inserted /\ k = StreamOffsetKey(k[3], inserted[k[3]])
      <4> DEFINE r == inserted[k[3]]
      <4>1. r = [stream_id |-> r.stream_id, start_offset |-> r.start_offset,
                 end_offset |-> r.end_offset]
        BY <3>2, <1>3, RangeNumbers
      <4>2. k[1] = r.stream_id /\ k[2] = r.start_offset /\ stream_objects'[k] = r.end_offset
        BY <3>2, <1>4 DEF InsertedRows, StreamOffsetKey
      <4> QED
        BY <3>2, <4>1, <4>2, <1>5, ZenonT(30) DEF WrittenRows
    <3> QED
      BY <2>2, <3>1, <3>2, <1>4, SMTT(30) DEF InsertedRows
  <2> QED
    BY <2>1, <2>2 DEF Contents
<1>14. RangesWithinStream'
  <2>1. \A s \in DOMAIN streams' : streams'[s].start_offset <= streams'[s].end_offset
    <3>1. \A s \in DOMAIN streams : streams[s].start_offset <= streams[s].end_offset
      BY DEF ObjectInv, RangesWithinStream
    <3>2. /\ DOMAIN streams' = DOMAIN streams
          /\ \A s \in DOMAIN streams : /\ streams'[s].start_offset = streams[s].start_offset
                                      /\ streams[s].end_offset <= streams'[s].end_offset
      BY <1>7 DEF AdvancedEnds
    <3> QED
      BY <3>1, <3>2, <1>8
  <2>2. ASSUME NEW k \in DOMAIN stream_objects'
        PROVE  k[1] \in DOMAIN streams' /\ stream_objects'[k] <= streams'[k[1]].end_offset
    <3>1. CASE k \in DOMAIN stream_objects
      <4>1. /\ k[1] \in DOMAIN streams /\ stream_objects[k] <= streams[k[1]].end_offset
            /\ stream_objects[k] \in Nat /\ stream_objects'[k] = stream_objects[k]
        BY <3>1, <1>0, <1>4, KeyNumbers, SMTT(30) DEF ObjectInv, RangesWithinStream, InsertedRows
      <4> QED
        BY <4>1, <1>7, <1>8, SMTT(30) DEF AdvancedEnds
    <3>2. CASE k[3] \in DOMAIN inserted /\ k = StreamOffsetKey(k[3], inserted[k[3]])
      <4>1. inserted[k[3]] \in outputs
        BY <3>2, <1>2 DEF CommittedRows
      <4>2. k[1] = inserted[k[3]].stream_id /\ stream_objects'[k] = inserted[k[3]].end_offset
        BY <3>2, <1>4 DEF InsertedRows, StreamOffsetKey
      <4> QED
        BY <4>1, <4>2, <1>7 DEF AdvancedEnds
    <3> QED
      BY <2>2, <3>1, <3>2, <1>4 DEF InsertedRows
  <2>3. ASSUME NEW i \in DOMAIN stream_set_objects',
               NEW r \in stream_set_objects'[i].offset_ranges, r.stream_id \in DOMAIN streams'
        PROVE  r.end_offset <= streams'[r.stream_id].end_offset
    <3>1. CASE i \in DOMAIN sets
      <4>1. r \in outputs
        BY <2>3, <3>1, <1>2 DEF CommittedRows
      <4> QED
        BY <4>1, <1>7 DEF AdvancedEnds
    <3>2. CASE i \in DOMAIN stream_set_objects \ compacted
      <4>1. r \in stream_set_objects[i].offset_ranges
        BY <2>3, <3>2, <1>2 DEF CommittedRows
      <4>2. r.end_offset \in Nat
        BY <3>2, <4>1, <1>0, RangeNumbers, SMTT(30) DEF ObjectTypeOK
      <4>3. r.stream_id \in DOMAIN streams /\ r.end_offset <= streams[r.stream_id].end_offset
        BY <2>3, <3>2, <4>1, <1>7, SMTT(30) DEF ObjectInv, RangesWithinStream, AdvancedEnds
      <4> QED
        BY <4>2, <4>3, <1>7, <1>8 DEF AdvancedEnds
    <3> QED
      BY <2>3, <3>1, <3>2, <1>2, SMTT(30) DEF CommittedRows
  <2> QED
    BY <2>1, <2>2, <2>3 DEF RangesWithinStream
<1>15. ASSUME NEW s, NEW o, NEW q \in outputs, Holds(q, s, o)
       PROVE  Stored(s, o)'
  <2>1. CASE \E i \in DOMAIN sets : q \in sets[i]
    BY <1>15, <2>1, <1>2, SMTT(30) DEF CommittedRows, Stored
  <2>2. ASSUME NEW i \in DOMAIN inserted, q = inserted[i]
        PROVE  Stored(s, o)'
    <3> DEFINE k == StreamOffsetKey(i, q)
    <3>1. /\ k \in DOMAIN stream_objects' /\ stream_objects'[k] = q.end_offset
          /\ k[1] = q.stream_id /\ k[2] = q.start_offset
      BY <2>2, <1>4, SMTT(30) DEF InsertedRows, StreamOffsetKey
    <3> QED
      BY <3>1, <1>15, SMTT(30) DEF Holds, Stored
  <2> QED
    BY <2>1, <2>2, <1>2 DEF CommittedRows
<1>16. ASSUME NEW s \in DOMAIN streams, NEW o \in Nat, streams[s].start_offset <= o,
              Stored(s, o)
       PROVE  Stored(s, o)'
  <2>1. ASSUME NEW i \in DOMAIN stream_set_objects,
               NEW r \in stream_set_objects[i].offset_ranges, Holds(r, s, o)
        PROVE  Stored(s, o)'
    <3>1. CASE i \in compacted
      <4>1. r \in written[i].offset_ranges
        BY <2>1, ContentsRanges, SMTT(30) DEF ObjectInv
      <4>2. Replaces(outputs, r)
        BY <3>1, <4>1, SMTT(30) DEF ReplacesAll
      <4>3. r \in Ranges
        BY <2>1, <1>0 DEF ObjectTypeOK
      <4>4. o \in r.start_offset .. (r.end_offset - 1) /\ r.stream_id = s
        BY <2>1, <4>3, RangeNumbers, SMTT(30) DEF Holds
      <4>5. PICK q \in outputs : Holds(q, s, o)
        BY <4>2, <4>4, <1>16 DEF Replaces
      <4> QED
        BY <4>5, <1>15, SMTT(30)
    <3>2. CASE i \notin compacted
      BY <2>1, <3>2, <1>2, SMTT(30) DEF CommittedRows, Stored
    <3> QED
      BY <3>1, <3>2, SMTT(30)
  <2>2. ASSUME NEW k \in DOMAIN stream_objects, k[1] = s, k[2] <= o, o < stream_objects[k]
        PROVE  Stored(s, o)'
    BY <2>2, <1>4, SMTT(30) DEF InsertedRows, Stored
  <2> QED
    BY <1>16, <2>1, <2>2, SMTT(30) DEF Stored
<1>17. NoDataLoss'
  <2> SUFFICES ASSUME NEW s \in DOMAIN streams',
                      NEW o \in streams'[s].start_offset .. (streams'[s].end_offset - 1)
               PROVE  Stored(s, o)'
    BY DEF NoDataLoss
  <2>1. /\ s \in DOMAIN streams /\ o \in Nat
        /\ streams[s].start_offset <= o /\ o < streams'[s].end_offset
    BY <1>7, <1>8, SMTT(30) DEF AdvancedEnds
  <2>2. CASE o < streams[s].end_offset
    <3>1. o \in streams[s].start_offset .. (streams[s].end_offset - 1)
      BY <2>1, <2>2, <1>8, SMTT(30)
    <3>2. Stored(s, o)
      BY <2>1, <3>1, SMTT(30) DEF ObjectInv, NoDataLoss
    <3> QED
      BY <2>1, <3>2, <1>16, SMTT(30)
  <2>3. CASE ~(o < streams[s].end_offset)
    <3>1. PICK r \in outputs : /\ r.stream_id = s /\ r.start_offset = streams[s].end_offset
                               /\ r.end_offset = streams'[s].end_offset
      BY <2>1, <2>3, <1>7, <1>8, SMTT(30) DEF AdvancedEnds
    <3>2. Holds(r, s, o)
      BY <3>1, <2>1, <2>3, <1>8, SMTT(30) DEF Holds
    <3> QED
      BY <3>2, <1>15, SMTT(30)
  <2> QED
    BY <2>2, <2>3
<1> QED
  BY <1>11, <1>12, <1>13, <1>14, <1>17 DEF ObjectInv
=============================================================================

--------------------------- MODULE ObjectControl ---------------------------
(***************************************************************************)
(* The object half of the replicated metadata state machine                *)
(* (picomq/pico-metadata/src/apply.rs, "object lifecycle"): leasing object *)
(* ids, committing uploads and compactions, the destruction queue.         *)
(*                                                                         *)
(* Object sizes, attributes and data timestamps are left out: no guard of  *)
(* apply.rs reads them.                                                    *)
(***************************************************************************)
EXTENDS StreamControl

CONSTANTS
  LeaseCount,   \* how many ids one PrepareObject asks for
  Ttl,          \* lease times to live
  Operation,    \* what a stream-object compaction asks for its sources
  Now,          \* clock readings that ride in commands
  MaxObjects,   \* bound: object ids that may be leased
  MaxSeq        \* bound: destruction-queue sequence numbers

ASSUME ObjectControlConstants ==
  /\ LeaseCount \subseteq Nat
  /\ Ttl \subseteq Int
  /\ Operation \subseteq {"Delete", "KeepData", "DeepDelete"}
  /\ Now \subseteq Nat
  /\ MaxObjects \in Nat
  /\ MaxSeq \in Nat

VARIABLES
  next_object_id,        \* the id PrepareObject hands out next
  prepared,              \* leased object id -> deadline
  prepared_by_deadline,  \* index: <<deadline, object id>>
  stream_set_objects,    \* object id -> [node_id, offset_ranges]
  sso_ranges,            \* index: <<stream, start, object id>> -> end
  sso_by_node,           \* index: <<node, object id>>
  stream_objects,        \* <<stream, start, object id>> -> end
  stream_object_ids,     \* index: object id -> <<stream, start, object id>>
  mark_destroyed,        \* sequence number -> [object_id, operation]
  destroyed_by_id,       \* index: object id -> sequence number
  next_destroyed_seq,    \* the next FIFO sequence number
  written                \* history: object id -> [object_type, offset_ranges] it was
                         \* committed with; the object in the bucket is immutable

objectVars == <<next_object_id, prepared, prepared_by_deadline, stream_set_objects,
                sso_ranges, sso_by_node, stream_objects, stream_object_ids,
                mark_destroyed, destroyed_by_id, next_destroyed_seq, written>>

NoopObjectId == -1

\* StreamOffsetRange: a run of one stream's offsets, never empty.
OffsetRange(S, O) == {r \in [stream_id : S, start_offset : O, end_offset : O] :
                        r.start_offset < r.end_offset}
Holds(r, s, o) == r.stream_id = s /\ r.start_offset <= o /\ o < r.end_offset

\* StreamOffsetKey of the stream object id that holds range r.
StreamOffsetKey(id, r) == <<r.stream_id, r.start_offset, id>>

FreshIds == {i \in 0 .. (next_object_id - 1) : i \notin DOMAIN written}
Ranges == OffsetRange(StreamIds, Offset)

\* The types of the object tables.
ObjectTypeOK ==
  /\ next_object_id \in Nat
  /\ DOMAIN prepared \subseteq 0 .. (next_object_id - 1)
  /\ prepared \in [DOMAIN prepared -> Int]
  /\ prepared_by_deadline \subseteq Int \X (0 .. (next_object_id - 1))
  /\ DOMAIN written \subseteq 0 .. (next_object_id - 1)
  /\ written \in [DOMAIN written -> [object_type : {"Stream", "StreamSet"},
                                     offset_ranges : SUBSET Ranges]]
  /\ DOMAIN stream_set_objects \subseteq DOMAIN written
  /\ stream_set_objects \in [DOMAIN stream_set_objects ->
                               [node_id : Node, offset_ranges : SUBSET Ranges]]
  /\ DOMAIN sso_ranges \subseteq StreamIds \X Offset \X DOMAIN written
  /\ sso_ranges \in [DOMAIN sso_ranges -> Offset]
  /\ sso_by_node \subseteq Node \X DOMAIN written
  /\ DOMAIN stream_objects \subseteq StreamIds \X Offset \X DOMAIN written
  /\ stream_objects \in [DOMAIN stream_objects -> Offset]
  /\ DOMAIN stream_object_ids \subseteq DOMAIN written
  /\ stream_object_ids \in [DOMAIN stream_object_ids ->
                              StreamIds \X Offset \X DOMAIN written]
  /\ next_destroyed_seq \in Nat
  /\ DOMAIN mark_destroyed \subseteq 0 .. (next_destroyed_seq - 1)
  /\ mark_destroyed \in [DOMAIN mark_destroyed ->
       [object_id : DOMAIN written, operation : Operation \cup {"Delete"}]]
  /\ DOMAIN destroyed_by_id \subseteq DOMAIN written
  /\ destroyed_by_id \in [DOMAIN destroyed_by_id -> 0 .. (next_destroyed_seq - 1)]

ObjectInit ==
  /\ next_object_id = 0
  /\ prepared = EmptyMap
  /\ prepared_by_deadline = {}
  /\ stream_set_objects = EmptyMap
  /\ sso_ranges = EmptyMap
  /\ sso_by_node = {}
  /\ stream_objects = EmptyMap
  /\ stream_object_ids = EmptyMap
  /\ mark_destroyed = EmptyMap
  /\ destroyed_by_id = EmptyMap
  /\ next_destroyed_seq = 0
  /\ written = EmptyMap

-----------------------------------------------------------------------------
(* Leases on object ids.                                                   *)

PrepareObject(n, ne, count, ttl, now) ==
  /\ NodeEpochCheck(n, ne)
  /\ count > 0
  /\ next_object_id + count <= MaxObjects
  /\ LET leased   == next_object_id .. (next_object_id + count - 1)
         deadline == now + (IF ttl > 0 THEN ttl ELSE 0)
     IN /\ prepared' = [i \in DOMAIN prepared \cup leased |->
                          IF i \in leased THEN deadline ELSE prepared[i]]
        /\ prepared_by_deadline' = prepared_by_deadline \cup {<<deadline, i>> : i \in leased}
  /\ next_object_id' = next_object_id + count
  /\ UNCHANGED <<stream_set_objects, sso_ranges, sso_by_node, stream_objects,
                 stream_object_ids, mark_destroyed, destroyed_by_id,
                 next_destroyed_seq, written>>
  /\ UNCHANGED controlVars

\* Mutant: a commit that leaves the deadline index behind.
CommitPreparedKeepsDeadline(ids) ==
  prepared' = Remove(prepared, ids) /\ UNCHANGED prepared_by_deadline

\* commit_prepared: ends the leases of ids; an id whose lease expired has none.
CommitPrepared(ids) ==
  /\ prepared' = Remove(prepared, ids)
  /\ prepared_by_deadline' =
       prepared_by_deadline \ {<<prepared[i], i>> : i \in ids \cap DOMAIN prepared}

\* Drops the leases past their deadline; the ids are not queued for destruction.
ExpirePreparedObjects(now) ==
  /\ LET expired == {p \in prepared_by_deadline : p[1] <= now}
     IN /\ expired # {}
        /\ prepared_by_deadline' = prepared_by_deadline \ expired
        /\ prepared' = Remove(prepared, {p[2] : p \in expired})
  /\ UNCHANGED <<next_object_id, stream_set_objects, sso_ranges, sso_by_node,
                 stream_objects, stream_object_ids, mark_destroyed, destroyed_by_id,
                 next_destroyed_seq, written>>
  /\ UNCHANGED controlVars

-----------------------------------------------------------------------------
(* The destruction queue.                                                  *)

\* The next sequence number after count appends; mutant: it stays.
SeqNotAdvanced(count) == next_destroyed_seq
SeqAfter(count) == next_destroyed_seq + count

\* mark_destroyed for every id of ids with operation ops[id]: a queued id keeps
\* its position, the others are appended, in an order the caller may restrict.
MarkDestroyed(ids, ops) ==
  LET fresh == ids \ DOMAIN destroyed_by_id
      count == Cardinality(fresh)
      slots == next_destroyed_seq .. (next_destroyed_seq + count - 1)
  IN /\ next_destroyed_seq + count <= MaxSeq
     /\ next_destroyed_seq' = SeqAfter(count)
     /\ \E seq \in Injection(fresh, slots) :
          destroyed_by_id' = [i \in DOMAIN destroyed_by_id \cup fresh |->
                                IF i \in fresh THEN seq[i] ELSE destroyed_by_id[i]]
     /\ mark_destroyed' =
          [q \in DOMAIN mark_destroyed \cup {destroyed_by_id'[i] : i \in ids} |->
             IF \E i \in ids : destroyed_by_id'[i] = q
             THEN LET i == CHOOSE i \in ids : destroyed_by_id'[i] = q
                  IN [object_id |-> i, operation |-> ops[i]]
             ELSE mark_destroyed[q]]

\* The cleaner's acknowledgement that the bytes of these objects are gone.
CleanDestroyedObjects(ids) ==
  /\ mark_destroyed' = Remove(mark_destroyed,
                              {destroyed_by_id[i] : i \in ids \cap DOMAIN destroyed_by_id})
  /\ destroyed_by_id' = Remove(destroyed_by_id, ids)
  /\ UNCHANGED <<next_object_id, prepared, prepared_by_deadline, stream_set_objects,
                 sso_ranges, sso_by_node, stream_objects, stream_object_ids,
                 next_destroyed_seq, written>>
  /\ UNCHANGED controlVars

-----------------------------------------------------------------------------
(* Commits.                                                                *)

\* An object id has one identity: it is no stream-set object, and a stream
\* object only under the very same key.
CheckObjectIdFree(id, key, sets) ==
  /\ id \notin sets
  /\ id \in DOMAIN stream_object_ids => stream_object_ids[id] = key

StreamObjectCommitted(s, id) ==
  id \in DOMAIN stream_object_ids /\ stream_object_ids[id][1] = s

\* insert_stream_object for every id |-> range of inserted.
InsertStreamObjects(inserted) ==
  [k \in DOMAIN stream_objects \cup
           {StreamOffsetKey(i, inserted[i]) : i \in DOMAIN inserted} |->
     IF k[3] \in DOMAIN inserted /\ k = StreamOffsetKey(k[3], inserted[k[3]])
     THEN inserted[k[3]].end_offset
     ELSE stream_objects[k]]

InsertStreamObjectIds(inserted) ==
  [i \in DOMAIN stream_object_ids \cup DOMAIN inserted |->
     IF i \in DOMAIN inserted THEN StreamOffsetKey(i, inserted[i]) ELSE stream_object_ids[i]]

RecordWritten(sets, inserted) ==
  written' = [i \in DOMAIN written \cup DOMAIN sets \cup DOMAIN inserted |->
    CASE i \in DOMAIN inserted -> [object_type |-> "Stream", offset_ranges |-> {inserted[i]}]
      [] i \in DOMAIN sets -> [object_type |-> "StreamSet", offset_ranges |-> sets[i]]
      [] OTHER -> written[i]]

\* Mutants: a compaction may reach past the end; an upload may leave a gap.
AdvanceEndOffsetCheckNoEnd(r, compact) ==
  /\ r.stream_id \in DOMAIN streams
  /\ IF compact THEN streams[r.stream_id].start_offset <= r.start_offset
     ELSE streams[r.stream_id].end_offset = r.start_offset
AdvanceEndOffsetCheckGap(r, compact) ==
  /\ r.stream_id \in DOMAIN streams
  /\ IF compact
     THEN /\ streams[r.stream_id].end_offset >= r.end_offset
          /\ streams[r.stream_id].start_offset <= r.start_offset
     ELSE streams[r.stream_id].end_offset <= r.start_offset

\* A compaction must stay within the stream; an upload must start at its end.
AdvanceEndOffsetCheck(r, compact) ==
  /\ r.stream_id \in DOMAIN streams
  /\ IF compact
     THEN /\ streams[r.stream_id].end_offset >= r.end_offset
          /\ streams[r.stream_id].start_offset <= r.start_offset
     ELSE streams[r.stream_id].end_offset = r.start_offset

AdvanceEndOffset(ranges, compact) ==
  [s \in DOMAIN streams |->
     IF ~compact /\ \E r \in ranges : r.stream_id = s
     THEN [streams[s] EXCEPT !.end_offset =
             (CHOOSE r \in ranges : r.stream_id = s).end_offset]
     ELSE streams[s]]

\* request: [object_id, stream_ranges, stream_objects, compacted_object_ids] with
\* stream_objects a function from new object ids to ranges.  A request without
\* a stream-set object (NoopObjectId) has its stream_ranges ignored.
CommittedSets(request) ==
  IF request.object_id = NoopObjectId THEN EmptyMap
  ELSE Put(EmptyMap, request.object_id, request.stream_ranges)

CommittedRanges(request) ==
  (IF request.object_id = NoopObjectId THEN {} ELSE request.stream_ranges)
    \cup {request.stream_objects[i] : i \in DOMAIN request.stream_objects}

\* The keys remove_stream_set_object takes out of sso_ranges.
SetRangeKeys(ids) ==
  UNION {{StreamOffsetKey(i, r) : r \in stream_set_objects[i].offset_ranges} : i \in ids}

CommitStreamSetObject(n, ne, request) ==
  LET compacted == request.compacted_object_ids
      compact == compacted # {}
      sets == CommittedSets(request)
      inserted == request.stream_objects
      ranges == CommittedRanges(request)
      kept == DOMAIN stream_set_objects \ compacted
  IN /\ NodeEpochCheck(n, ne)
     /\ IF request.object_id # NoopObjectId
        THEN request.object_id \notin DOMAIN stream_set_objects
        ELSE \/ inserted = EmptyMap
             \/ \E i \in DOMAIN inserted : ~StreamObjectCommitted(inserted[i].stream_id, i)
     /\ compacted \subseteq DOMAIN stream_set_objects
     /\ \A i \in DOMAIN sets : i \notin kept /\ i \notin DOMAIN stream_object_ids
     /\ \A i \in DOMAIN inserted :
          CheckObjectIdFree(i, StreamOffsetKey(i, inserted[i]), kept \cup DOMAIN sets)
     /\ \A r \in ranges : AdvanceEndOffsetCheck(r, compact)
     /\ streams' = AdvanceEndOffset(ranges, compact)
     /\ CommitPrepared(DOMAIN sets \cup DOMAIN inserted)
     /\ stream_set_objects' = [i \in kept \cup DOMAIN sets |->
          IF i \in DOMAIN sets THEN [node_id |-> n, offset_ranges |-> sets[i]]
          ELSE stream_set_objects[i]]
     /\ sso_ranges' =
          [k \in (DOMAIN sso_ranges \ SetRangeKeys(compacted)) \cup
                 UNION {{StreamOffsetKey(i, r) : r \in sets[i]} : i \in DOMAIN sets} |->
             IF k[3] \in DOMAIN sets
             THEN (CHOOSE r \in sets[k[3]] : k = StreamOffsetKey(k[3], r)).end_offset
             ELSE sso_ranges[k]]
     /\ sso_by_node' =
          (sso_by_node \ {<<stream_set_objects[i].node_id, i>> : i \in compacted})
            \cup {<<n, i>> : i \in DOMAIN sets}
     /\ stream_objects' = InsertStreamObjects(inserted)
     /\ stream_object_ids' = InsertStreamObjectIds(inserted)
     /\ MarkDestroyed(compacted, [i \in compacted |-> "Delete"])
     /\ RecordWritten(sets, inserted)
     /\ UNCHANGED <<next_object_id, next_stream_id, nodes, opening_by_node,
                    placed_by_node, pending_transfers, granted>>

\* Mutant: only a source that is also the output is dropped.
DroppedSourcesOutputOnly(s, sources, inserted) == sources \cap inserted

\* The sources that are stream objects of s once the output is inserted.
DroppedSources(s, sources, inserted) ==
  {i \in sources : StreamObjectCommitted(s, i) \/ i \in inserted}

\* request: [object_id, stream_id, stream_epoch, start_offset, end_offset,
\* source_object_ids, operations]; NoopObjectId replaces the sources by nothing.
CompactStreamObject(n, ne, request) ==
  LET s == request.stream_id
      range == [stream_id |-> s, start_offset |-> request.start_offset,
                end_offset |-> request.end_offset]
      inserted == IF request.object_id = NoopObjectId THEN EmptyMap
                  ELSE Put(EmptyMap, request.object_id, range)
      dropped == DroppedSources(s, request.source_object_ids, DOMAIN inserted)
  IN /\ NodeEpochCheck(n, ne)
     /\ ~StreamObjectCommitted(s, request.object_id)
     /\ s \in DOMAIN streams
     /\ streams[s].epoch = request.stream_epoch
     /\ streams[s].end_offset >= request.end_offset
     /\ streams[s].start_offset <= request.start_offset
     /\ \A i \in DOMAIN inserted :
          CheckObjectIdFree(i, StreamOffsetKey(i, range), DOMAIN stream_set_objects)
     /\ CommitPrepared({request.object_id})
     /\ LET ids == InsertStreamObjectIds(inserted)
        IN /\ stream_objects' = Remove(InsertStreamObjects(inserted), {ids[i] : i \in dropped})
           /\ stream_object_ids' = Remove(ids, dropped)
     /\ MarkDestroyed(request.source_object_ids, request.operations)
     /\ RecordWritten(EmptyMap, inserted)
     /\ UNCHANGED <<next_object_id, stream_set_objects, sso_ranges, sso_by_node>>
     /\ UNCHANGED controlVars

\* Mutants: a scan that runs over all streams, and one that finds nothing.
AllStreamKeys(s) == DOMAIN stream_objects
NoStreamKeys(s) == {}

\* The range scan over the stream objects of s.
StreamKeys(s) == {k \in DOMAIN stream_objects : k[1] = s}

\* The whole DeleteStream: the row, then every stream object in key order.
\* Ranges of stream-set objects stay until compaction rewrites those objects.
DeleteStream(n, ne, s, e) ==
  LET keys == StreamKeys(s)
      ids == {k[3] : k \in keys}
      start(i) == stream_object_ids[i][2]
  IN /\ DropStreamRow(n, ne, s, e)
     /\ stream_objects' = Remove(stream_objects, keys)
     /\ stream_object_ids' = Remove(stream_object_ids, ids)
     /\ MarkDestroyed(ids, [i \in ids |-> "Delete"])
     /\ \A i, j \in ids \ DOMAIN destroyed_by_id :
          start(i) < start(j) \/ (start(i) = start(j) /\ i < j)
            => destroyed_by_id'[i] < destroyed_by_id'[j]
     /\ UNCHANGED <<next_object_id, prepared, prepared_by_deadline, stream_set_objects,
                    sso_ranges, sso_by_node, written>>
=============================================================================

------------------------------ MODULE Metadata ------------------------------
(***************************************************************************)
(* The replicated metadata state machine of PicoMQ                         *)
(* (picomq/pico-metadata/src/apply.rs): the eighteen commands of the log   *)
(* over the stream, object and key-value tables, and what the state they   *)
(* produce must satisfy after every prefix of the log.                     *)
(***************************************************************************)
EXTENDS ObjectControl

CONSTANTS
  Key,    \* keys of the key-value table
  Value   \* values of the key-value table

VARIABLE kv   \* key -> value

vars == <<controlVars, objectVars, kv>>

Init == ControlInit /\ ObjectInit /\ kv = EmptyMap

-----------------------------------------------------------------------------
(* Key-value commands.                                                     *)

PutKv(k, v) == kv' = Put(kv, k, v)

PutKvIfAbsent(k, v) == k \notin DOMAIN kv /\ kv' = Put(kv, k, v)

DeleteKv(k) == k \in DOMAIN kv /\ kv' = Remove(kv, {k})

-----------------------------------------------------------------------------
(* The requests that uploaders and compactors build.  They see any earlier *)
(* state of the tables, never a later one, and they owe the state machine  *)
(* three things it does not check: new objects carry ids leased and never  *)
(* committed before; an upload names each stream once; a compaction's      *)
(* output holds every offset of its inputs that retention has not passed.  *)

\* Disjoint ranges to write; an upload, which compacts nothing, has one per stream.
OutputRanges(outputs, compacted) ==
  \A q, r \in outputs :
    \/ q = r
    \/ q.stream_id # r.stream_id
    \/ compacted # {} /\ (q.end_offset <= r.start_offset \/ r.end_offset <= q.start_offset)

\* Every retained offset of range r is in one of the ranges of outputs.
Replaces(outputs, r) ==
  r.stream_id \in DOMAIN streams =>
    \A o \in r.start_offset .. (r.end_offset - 1) :
      o >= streams[r.stream_id].start_offset =>
        \E q \in outputs : Holds(q, r.stream_id, o)

ReplacesAll(outputs, ids) ==
  \A i \in ids : \A r \in written[i].offset_ranges : Replaces(outputs, r)

FormerStreamSets == {i \in DOMAIN written : written[i].object_type = "StreamSet"}
FormerStreamObjects(s) ==
  {i \in DOMAIN written :
     /\ written[i].object_type = "Stream"
     /\ \E r \in written[i].offset_ranges : r.stream_id = s}

\* Some outputs are split off into stream objects of their own, the others go
\* into the stream-set object, if there are any.
CommitRequests(outputs, compacted) ==
  {[object_id |-> id, stream_ranges |-> outputs \ Range(split), stream_objects |-> split,
    compacted_object_ids |-> compacted] :
     id \in FreshIds \cup {NoopObjectId},
     split \in UNION {Injection(ids, outputs) : ids \in SUBSET FreshIds}}

WellFormedCommit(request) ==
  /\ request.object_id \notin DOMAIN request.stream_objects
  /\ request.object_id = NoopObjectId => request.stream_ranges = {}

CompactRequests(s, sources) ==
  [object_id : FreshIds \cup {NoopObjectId}, stream_id : {s}, stream_epoch : StreamEpoch,
   start_offset : Offset, end_offset : Offset,
   source_object_ids : {sources}, operations : [sources -> Operation]]

CompactOutput(request) ==
  IF request.object_id = NoopObjectId THEN {}
  ELSE {[stream_id |-> request.stream_id, start_offset |-> request.start_offset,
         end_offset |-> request.end_offset]}

WellFormedCompact(request) ==
  /\ request.object_id # NoopObjectId => request.start_offset < request.end_offset
  /\ ReplacesAll(CompactOutput(request), request.source_object_ids)

-----------------------------------------------------------------------------
(* Next: one disjunct per command.  TransferStream, CompleteTransfer and   *)
(* PlaceStream, and the maintenance commands, carry no node epoch.         *)

ControlNext ==
  \/ \E n \in Node, ne \in NodeEpoch :
       \/ \E a \in Address \cup {NoAddress}, slots \in SlotCount : RegisterNode(n, ne, a, slots)
       \/ \E count \in BatchSize : CreateStreams(n, ne, count)
       \/ \E s \in DOMAIN streams, e \in StreamEpoch :
            \/ OpenStream(n, ne, s, e)
            \/ CloseStream(n, ne, s, e)
            \/ \E o \in Offset : TrimStream(n, ne, s, e, o)
  \/ \E s \in DOMAIN streams :
       \/ PlaceStream(s)
       \/ \E from, to \in Node : TransferStream(s, from, to)
       \/ \E e \in StreamEpoch : CompleteTransfer(s, e)

ObjectNext ==
  \/ \E n \in Node, ne \in NodeEpoch :
       \/ \E count \in LeaseCount, ttl \in Ttl, now \in Now : PrepareObject(n, ne, count, ttl, now)
       \/ \E outputs \in SUBSET Ranges, compacted \in SUBSET FormerStreamSets :
            /\ OutputRanges(outputs, compacted)
            /\ ReplacesAll(outputs, compacted)
            /\ \E request \in CommitRequests(outputs, compacted) :
                 WellFormedCommit(request) /\ CommitStreamSetObject(n, ne, request)
       \/ \E s \in StreamIds : \E sources \in SUBSET FormerStreamObjects(s) \ {{}} :
            \E request \in CompactRequests(s, sources) :
              WellFormedCompact(request) /\ CompactStreamObject(n, ne, request)
       \/ \E s \in DOMAIN streams, e \in StreamEpoch : DeleteStream(n, ne, s, e)
  \/ \E now \in Now : ExpirePreparedObjects(now)
  \/ \E ids \in SUBSET DOMAIN destroyed_by_id : CleanDestroyedObjects(ids)

KvNext == \E k \in Key :
  \/ \E v \in Value : PutKv(k, v) \/ PutKvIfAbsent(k, v)
  \/ DeleteKv(k)

Next ==
  \/ ControlNext /\ UNCHANGED <<objectVars, kv>>
  \/ ObjectNext /\ UNCHANGED kv
  \/ KvNext /\ UNCHANGED <<controlVars, objectVars>>

Spec == Init /\ [][Next]_vars

-----------------------------------------------------------------------------
(* Properties.                                                             *)

\* Every table and index holds values of its type, and refers only to stream
\* ids and object ids that were handed out.
TypeOK ==
  /\ ControlTypeOK
  /\ ObjectTypeOK
  /\ DOMAIN kv \subseteq Key
  /\ kv \in [DOMAIN kv -> Value]

\* get_opening_streams and placement scan two indexes instead of the stream
\* table: at every log position they list exactly the opened streams by owner
\* and the streams placed but never opened (open/close/place/delete/complete).
OwnershipIndexes ==
  /\ opening_by_node = {<<streams[s].node_id, s>> :
                          s \in {t \in DOMAIN streams : streams[t].state = "Opened"}}
  /\ placed_by_node = {<<streams[s].node_id, s>> :
                          s \in {t \in DOMAIN streams : /\ streams[t].state = "Closed"
                                                      /\ streams[t].epoch = NeverOpened
                                                      /\ streams[t].node_id # NoNode}}

\* One (stream, epoch) pair is one session of ownership: no epoch is ever
\* granted to two nodes, even across transfers, closes by other nodes and
\* restarts, and an opened stream belongs to the holder of its latest grant.
EpochGrantedOnce ==
  /\ \A g, h \in granted : g[1] = h[1] /\ g[2] = h[2] => g = h
  /\ \A g \in granted : g[1] \in DOMAIN streams => g[2] <= streams[g[1]].epoch
  /\ \A s \in DOMAIN streams :
       streams[s].state = "Opened" => <<s, streams[s].epoch, streams[s].node_id>> \in granted

\* A pending transfer belongs to an existing stream that its source did open,
\* and points at another, registered node: whatever happens between request
\* and completion (close, reopen elsewhere, delete), the record can be settled.
TransferWellFormed ==
  \A s \in DOMAIN pending_transfers :
    LET p == pending_transfers[s]
    IN /\ s \in DOMAIN streams
       /\ p.to_node \in DOMAIN nodes /\ p.to_node # p.from_node
       /\ \E g \in granted : g[1] = s /\ g[3] = p.from_node /\ g[2] <= streams[s].epoch

LeaseIndex == prepared_by_deadline = {<<prepared[i], i>> : i \in DOMAIN prepared}

StreamSetIndexes ==
  /\ sso_by_node = {<<stream_set_objects[i].node_id, i>> : i \in DOMAIN stream_set_objects}
  /\ \A i \in DOMAIN stream_set_objects : \A r \in stream_set_objects[i].offset_ranges :
       /\ StreamOffsetKey(i, r) \in DOMAIN sso_ranges
       /\ sso_ranges[StreamOffsetKey(i, r)] = r.end_offset
  /\ \A k \in DOMAIN sso_ranges :
       /\ k[3] \in DOMAIN stream_set_objects
       /\ \E r \in stream_set_objects[k[3]].offset_ranges : k = StreamOffsetKey(k[3], r)

StreamObjectIndex ==
  /\ \A i \in DOMAIN stream_object_ids :
       stream_object_ids[i] \in DOMAIN stream_objects /\ stream_object_ids[i][3] = i
  /\ \A k \in DOMAIN stream_objects :
       k[3] \in DOMAIN stream_object_ids /\ stream_object_ids[k[3]] = k

QueueIndex ==
  /\ \A i \in DOMAIN destroyed_by_id :
       /\ destroyed_by_id[i] \in DOMAIN mark_destroyed
       /\ mark_destroyed[destroyed_by_id[i]].object_id = i
  /\ \A q \in DOMAIN mark_destroyed :
       /\ mark_destroyed[q].object_id \in DOMAIN destroyed_by_id
       /\ destroyed_by_id[mark_destroyed[q].object_id] = q

\* Each secondary index of the object tables is the exact inverse of its
\* primary: lookups by deadline, range, node and object id, and the FIFO of
\* destroyed objects (query.rs indexes one table with keys read from another).
ObjectIndexes == LeaseIndex /\ StreamSetIndexes /\ StreamObjectIndex /\ QueueIndex

\* An object id has one fate at a time: leased, live in a stream-set object,
\* live as one stream object, or queued for destruction.  So the cleaner never
\* deletes an object a reader can still find, whatever stale request arrives.
ObjectIdentity ==
  /\ DOMAIN prepared \cap DOMAIN written = {}
  /\ DOMAIN stream_set_objects \cap DOMAIN stream_object_ids = {}
  /\ DOMAIN stream_set_objects \cap DOMAIN destroyed_by_id = {}
  /\ DOMAIN stream_object_ids \cap DOMAIN destroyed_by_id = {}

\* A live object of an existing stream never reaches past the stream's
\* committed end offset, and a stream object never outlives its stream.
RangesWithinStream ==
  /\ \A s \in DOMAIN streams : streams[s].start_offset <= streams[s].end_offset
  /\ \A k \in DOMAIN stream_objects :
       k[1] \in DOMAIN streams /\ stream_objects[k] <= streams[k[1]].end_offset
  /\ \A i \in DOMAIN stream_set_objects : \A r \in stream_set_objects[i].offset_ranges :
       r.stream_id \in DOMAIN streams => r.end_offset <= streams[r.stream_id].end_offset

\* Some live object holds offset o of stream s.
Stored(s, o) ==
  \/ \E i \in DOMAIN stream_set_objects :
       \E r \in stream_set_objects[i].offset_ranges : Holds(r, s, o)
  \/ \E k \in DOMAIN stream_objects : k[1] = s /\ k[2] <= o /\ o < stream_objects[k]

\* No committed record is lost: every offset between the start and the end of
\* a stream is in a live object, through interleaved uploads, splits,
\* compactions built from stale views, trims, deletes and ownership changes.
NoDataLoss ==
  \A s \in DOMAIN streams :
    \A o \in streams[s].start_offset .. (streams[s].end_offset - 1) : Stored(s, o)

\* One step of RowsMoveForward.
MoveForward ==
  /\ \A s \in DOMAIN streams \cap DOMAIN streams' :
       /\ streams[s].epoch <= streams'[s].epoch
       /\ streams[s].start_offset <= streams'[s].start_offset
       /\ streams[s].end_offset <= streams'[s].end_offset
       /\ streams[s].state = "Opened" =>
            streams'[s].node_id = streams[s].node_id /\ streams'[s].epoch = streams[s].epoch
  /\ \A s \in DOMAIN streams' \ DOMAIN streams : s >= next_stream_id
  /\ \A n \in DOMAIN nodes : n \in DOMAIN nodes' /\ nodes[n].epoch <= nodes'[n].epoch

\* What a log entry may never do: take an epoch or an offset back, change the
\* owner of an opened stream, lower a node's epoch, or reuse a stream id.
RowsMoveForward == [][MoveForward]_vars
=============================================================================

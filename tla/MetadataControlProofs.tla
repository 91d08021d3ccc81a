----------------------- MODULE MetadataControlProofs ------------------------
(***************************************************************************)
(* Proofs about the stream and node tables of Metadata: fencing by epoch,  *)
(* exact ownership indexes, transfers, and rows that only move forward.    *)
(***************************************************************************)
EXTENDS MetadataTypeProofs

(* Ownership: what object commands do to the stream table.                 *)

\* A commit of objects touches nothing of the stream table but end offsets.
OnlyEndOffsets ==
  /\ DOMAIN streams' = DOMAIN streams
  /\ \A s \in DOMAIN streams :
       /\ streams'[s].epoch = streams[s].epoch /\ streams'[s].state = streams[s].state
       /\ streams'[s].node_id = streams[s].node_id
       /\ streams'[s].start_offset = streams[s].start_offset
       /\ streams[s].end_offset <= streams'[s].end_offset
  /\ UNCHANGED <<next_stream_id, nodes, opening_by_node, placed_by_node,
                 pending_transfers, granted>>

LEMMA CommitOnlyEndOffsets ==
  ASSUME TypeOK, NEW n \in Node, NEW ne \in NodeEpoch,
         NEW outputs \in SUBSET Ranges, NEW compacted \in SUBSET FormerStreamSets,
         NEW request \in CommitRequests(outputs, compacted),
         WellFormedCommit(request), CommitStreamSetObject(n, ne, request)
  PROVE  OnlyEndOffsets
<1>1. CommittedRanges(request) = outputs /\ request.compacted_object_ids = compacted
  BY CommitRequestFacts DEF TypeOK
<1>2. /\ streams' = AdvanceEndOffset(outputs, compacted # {})
      /\ \A r \in outputs : AdvanceEndOffsetCheck(r, compacted # {})
      /\ UNCHANGED <<next_stream_id, nodes, opening_by_node, placed_by_node,
                     pending_transfers, granted>>
  BY <1>1 DEF CommitStreamSetObject
<1>3. ASSUME NEW s \in DOMAIN streams
      PROVE  /\ streams'[s].epoch = streams[s].epoch /\ streams'[s].state = streams[s].state
             /\ streams'[s].node_id = streams[s].node_id
             /\ streams'[s].start_offset = streams[s].start_offset
             /\ streams[s].end_offset <= streams'[s].end_offset
  <2>0. streams[s] \in StreamRow
    BY DEF TypeOK, ControlTypeOK
  <2>1. CASE compacted = {} /\ \E r \in outputs : r.stream_id = s
    <3> DEFINE c == CHOOSE r \in outputs : r.stream_id = s
    <3>1. c \in outputs /\ c.stream_id = s
      BY <2>1
    <3>2. streams[s].end_offset = c.start_offset
      BY <1>2, <2>1, <3>1 DEF AdvanceEndOffsetCheck
    <3>3. c.start_offset \in Nat /\ c.end_offset \in Nat /\ c.start_offset < c.end_offset
      BY <3>1, StreamControlConstants, ZenonT(30) DEF Ranges, OffsetRange
    <3>4. streams'[s] = [streams[s] EXCEPT !.end_offset = c.end_offset]
      BY <1>2, <2>1 DEF AdvanceEndOffset
    <3> QED
      BY <2>0, <3>2, <3>3, <3>4 DEF StreamRow
  <2>2. CASE ~(compacted = {} /\ \E r \in outputs : r.stream_id = s)
    <3>1. streams'[s] = streams[s]
      BY <1>2, <2>2 DEF AdvanceEndOffset
    <3> QED
      BY <2>0, <3>1 DEF StreamRow
  <2> QED
    BY <2>1, <2>2
<1> QED
  BY <1>2, <1>3 DEF OnlyEndOffsets, AdvanceEndOffset

\* The three ways an object command can affect the stream table.
LEMMA ObjectStepKinds ==
  ASSUME TypeOK, ObjectNext
  PROVE  \/ UNCHANGED controlVars
         \/ OnlyEndOffsets
         \/ \E n \in Node, ne \in NodeEpoch, s \in DOMAIN streams, e \in StreamEpoch :
              DropStreamRow(n, ne, s, e)
<1>1. /\ \A n, ne, count, ttl, now :
           PrepareObject(n, ne, count, ttl, now) => UNCHANGED controlVars
      /\ \A n, ne, request : CompactStreamObject(n, ne, request) => UNCHANGED controlVars
      /\ \A now : ExpirePreparedObjects(now) => UNCHANGED controlVars
      /\ \A ids : CleanDestroyedObjects(ids) => UNCHANGED controlVars
  BY DEF PrepareObject, CompactStreamObject, ExpirePreparedObjects, CleanDestroyedObjects
<1>2. \A n, ne, s, e : DeleteStream(n, ne, s, e) => DropStreamRow(n, ne, s, e)
  BY DEF DeleteStream
<1> QED
  BY <1>1, <1>2, CommitOnlyEndOffsets, SMTT(30) DEF ObjectNext

\* The ownership invariants, which hold together.
ControlInv == OwnershipIndexes /\ EpochGrantedOnce /\ TransferWellFormed

LEMMA ControlInvUnchanged == ControlInv /\ UNCHANGED controlVars => ControlInv'
<1> SUFFICES ASSUME ControlInv, UNCHANGED controlVars PROVE ControlInv'
  OBVIOUS
<1>1. OwnershipIndexes'
  BY DEF ControlInv, controlVars, OwnershipIndexes
<1>2. EpochGrantedOnce'
  BY DEF ControlInv, controlVars, EpochGrantedOnce
<1>3. TransferWellFormed'
  BY DEF ControlInv, controlVars, TransferWellFormed
<1> QED
  BY <1>1, <1>2, <1>3 DEF ControlInv

LEMMA ControlInvEndOffsets == ControlInv /\ OnlyEndOffsets => ControlInv'
<1> SUFFICES ASSUME ControlInv, OnlyEndOffsets PROVE ControlInv'
  OBVIOUS
<1>1. OwnershipIndexes'
  BY DEF ControlInv, OnlyEndOffsets, OwnershipIndexes
<1>2. EpochGrantedOnce'
  BY DEF ControlInv, OnlyEndOffsets, EpochGrantedOnce
<1>3. TransferWellFormed'
  BY DEF ControlInv, OnlyEndOffsets, TransferWellFormed
<1> QED
  BY <1>1, <1>2, <1>3 DEF ControlInv

\* Deleting a stream removes every trace of it from the control tables.
LEMMA ControlInvDrop ==
  ASSUME TypeOK, ControlInv, NEW n \in Node, NEW ne \in NodeEpoch,
         NEW s \in DOMAIN streams, NEW e \in StreamEpoch, DropStreamRow(n, ne, s, e)
  PROVE  ControlInv'
<1>1. /\ DOMAIN streams' = DOMAIN streams \ {s}
      /\ \A t \in DOMAIN streams' : streams'[t] = streams[t]
  BY DEF DropStreamRow, Remove, Restrict
<1>2. /\ DOMAIN pending_transfers' = DOMAIN pending_transfers \ {s}
      /\ \A t \in DOMAIN pending_transfers' : pending_transfers'[t] = pending_transfers[t]
  BY DEF DropStreamRow, Remove, Restrict
<1>3. streams[s].state = "Closed"
  BY DEF DropStreamRow
<1>4. OwnershipIndexes'
  <2>1. opening_by_node' = {<<streams'[t].node_id, t>> :
                              t \in {u \in DOMAIN streams' : streams'[u].state = "Opened"}}
    BY <1>1, <1>3, ZenonT(30) DEF DropStreamRow, ControlInv, OwnershipIndexes
  <2>2. placed_by_node' = {p \in placed_by_node : p[2] # s}
    BY DEF DropStreamRow
  <2>3. placed_by_node' = {<<streams'[t].node_id, t>> :
                              t \in {u \in DOMAIN streams' : /\ streams'[u].state = "Closed"
                                                          /\ streams'[u].epoch = NeverOpened
                                                          /\ streams'[u].node_id # NoNode}}
    BY <1>1, <2>2 DEF ControlInv, OwnershipIndexes
  <2> QED
    BY <2>1, <2>3 DEF OwnershipIndexes
<1>5. EpochGrantedOnce'
  BY <1>1, SMTT(30) DEF DropStreamRow, ControlInv, EpochGrantedOnce
<1>6. TransferWellFormed'
  <2>1. \A t \in DOMAIN pending_transfers' : t \in DOMAIN streams' /\ streams'[t] = streams[t]
    BY <1>1, <1>2 DEF ControlInv, TransferWellFormed
  <2>2. nodes' = nodes /\ granted' = granted
    BY DEF DropStreamRow
  <2> QED
    BY <1>2, <2>1, <2>2 DEF ControlInv, TransferWellFormed
<1> QED
  BY <1>4, <1>5, <1>6 DEF ControlInv

LEMMA ControlInvNext == TypeOK /\ ControlInv /\ ControlNext => ControlInv'
<1> SUFFICES ASSUME TypeOK, ControlInv, ControlNext PROVE ControlInv'
  OBVIOUS
<1> USE StreamControlConstants
<1>0. /\ OwnershipIndexes /\ EpochGrantedOnce /\ TransferWellFormed
      /\ ControlTypeOK
  BY DEF ControlInv, TypeOK
<1>1. ASSUME NEW n \in Node, NEW ne \in NodeEpoch, NEW a \in Address \cup {NoAddress},
             NEW slots \in SlotCount, RegisterNode(n, ne, a, slots)
      PROVE  ControlInv'
  <2>1. DOMAIN nodes \subseteq DOMAIN nodes'
    BY <1>1 DEF RegisterNode, Put
  <2>2. UNCHANGED <<streams, opening_by_node, placed_by_node, pending_transfers, granted>>
    BY <1>1 DEF RegisterNode
  <2>3. OwnershipIndexes'
    BY <1>0, <2>2 DEF OwnershipIndexes
  <2>4. EpochGrantedOnce'
    BY <1>0, <2>2 DEF EpochGrantedOnce
  <2>5. TransferWellFormed'
    BY <1>0, <2>1, <2>2 DEF TransferWellFormed
  <2> QED
    BY <2>3, <2>4, <2>5 DEF ControlInv
<1>2. ASSUME NEW n \in Node, NEW ne \in NodeEpoch, NEW count \in BatchSize,
             CreateStreams(n, ne, count)
      PROVE  ControlInv'
  <2> DEFINE created == next_stream_id .. (next_stream_id + count - 1)
  <2>1. created \cap StreamIds = {}
    BY <1>0 DEF ControlTypeOK, StreamIds
  <2>2. streams' = [s \in DOMAIN streams \cup created |->
                      IF s \in created THEN NewStreamRow ELSE streams[s]]
    BY <1>2 DEF CreateStreams
  <2> HIDE DEF created
  <2>3. /\ DOMAIN streams' = DOMAIN streams \cup created
        /\ \A s \in DOMAIN streams : streams'[s] = streams[s]
        /\ \A s \in created : streams'[s] = NewStreamRow
    BY <1>0, <2>1, <2>2 DEF ControlTypeOK
  <2>4. OwnershipIndexes'
    <3>1. /\ opening_by_node' = opening_by_node /\ placed_by_node' = placed_by_node
          /\ NewStreamRow.state = "Closed" /\ NewStreamRow.node_id = NoNode
      BY <1>2 DEF CreateStreams, NewStreamRow
    <3>2. opening_by_node' = {<<streams'[t].node_id, t>> :
                                t \in {u \in DOMAIN streams' : streams'[u].state = "Opened"}}
      BY <1>0, <2>3, <3>1 DEF OwnershipIndexes
    <3>3. placed_by_node' = {<<streams'[t].node_id, t>> :
                                t \in {u \in DOMAIN streams' : /\ streams'[u].state = "Closed"
                                                            /\ streams'[u].epoch = NeverOpened
                                                            /\ streams'[u].node_id # NoNode}}
      BY <1>0, <2>3, <3>1, SMTT(30) DEF OwnershipIndexes
    <3> QED
      BY <3>2, <3>3 DEF OwnershipIndexes
  <2>5. EpochGrantedOnce'
    BY <1>0, <1>2, <2>1, <2>3, SMTT(30) DEF CreateStreams, EpochGrantedOnce, ControlTypeOK,
       NewStreamRow
  <2>6. TransferWellFormed'
    BY <1>0, <1>2, <2>3, SMTT(30) DEF CreateStreams, TransferWellFormed
  <2> QED
    BY <2>4, <2>5, <2>6 DEF ControlInv
<1>3. ASSUME NEW n \in Node, NEW ne \in NodeEpoch, NEW s \in DOMAIN streams,
             NEW e \in StreamEpoch, OpenStream(n, ne, s, e)
      PROVE  ControlInv'
  <2> DEFINE row == [streams[s] EXCEPT !.epoch = e, !.state = "Opened", !.node_id = n]
  <2>a. /\ streams[s] \in StreamRow
        /\ streams' = [streams EXCEPT ![s] = row]
    BY <1>0, <1>3, ZenonT(30) DEF OpenStream, EpochIsNewer, PlacementOf, ControlTypeOK
  <2>b. row.epoch = e /\ row.state = "Opened" /\ row.node_id = n
    BY <2>a DEF StreamRow
  <2>c. streams[s].epoch \in Int /\ streams[s].epoch < e /\ streams[s].state = "Closed"
    BY <1>3, <2>a DEF OpenStream, EpochIsNewer, PlacementOf, StreamRow, NeverOpened
  <2> HIDE DEF row
  <2>1. /\ DOMAIN streams' = DOMAIN streams
        /\ \A t \in DOMAIN streams \ {s} : streams'[t] = streams[t]
        /\ streams'[s].epoch = e /\ streams'[s].state = "Opened" /\ streams'[s].node_id = n
        /\ streams[s].epoch \in Int /\ streams[s].epoch < e /\ streams[s].state = "Closed"
        /\ placed_by_node' = placed_by_node \ {<<streams[s].node_id, s>>}
        /\ opening_by_node' = opening_by_node \cup {<<n, s>>}
        /\ granted' = granted \cup {<<s, e, n>>}
    BY <1>3, <2>a, <2>b, <2>c DEF OpenStream, EpochIsNewer, PlacementOf
  <2>2. OwnershipIndexes'
    <3>1. opening_by_node' = {<<streams'[t].node_id, t>> :
                                t \in {u \in DOMAIN streams' : streams'[u].state = "Opened"}}
      BY <1>0, <2>1 DEF OwnershipIndexes
    <3>2. placed_by_node' = {<<streams'[t].node_id, t>> :
                                t \in {u \in DOMAIN streams' : /\ streams'[u].state = "Closed"
                                                            /\ streams'[u].epoch = NeverOpened
                                                            /\ streams'[u].node_id # NoNode}}
      BY <1>0, <2>1 DEF OwnershipIndexes
    <3> QED
      BY <3>1, <3>2 DEF OwnershipIndexes
  <2>3. \A g \in granted : g[1] = s => g[2] \in Int /\ g[2] < e
    BY <1>0, <2>1 DEF EpochGrantedOnce, ControlTypeOK
  <2>4. EpochGrantedOnce'
    <3>1. \A g, h \in granted' : g[1] = h[1] /\ g[2] = h[2] => g = h
      BY <1>0, <2>1, <2>3 DEF EpochGrantedOnce
    <3>2. \A g \in granted' : g[1] \in DOMAIN streams' => g[2] <= streams'[g[1]].epoch
      BY <1>0, <2>1, <2>3 DEF EpochGrantedOnce
    <3>3. \A t \in DOMAIN streams' :
            streams'[t].state = "Opened" => <<t, streams'[t].epoch, streams'[t].node_id>> \in granted'
      BY <1>0, <2>1 DEF EpochGrantedOnce
    <3> QED
      BY <3>1, <3>2, <3>3 DEF EpochGrantedOnce
  <2>5. TransferWellFormed'
    BY <1>0, <1>3, <2>1, <2>3 DEF TransferWellFormed, OpenStream, EpochIsNewer, PlacementOf
  <2> QED
    BY <2>2, <2>4, <2>5 DEF ControlInv
<1>4. ASSUME NEW n \in Node, NEW ne \in NodeEpoch, NEW s \in DOMAIN streams,
             NEW e \in StreamEpoch, CloseStream(n, ne, s, e)
      PROVE  ControlInv'
  <2>1. /\ DOMAIN streams' = DOMAIN streams
        /\ \A t \in DOMAIN streams \ {s} : streams'[t] = streams[t]
        /\ streams'[s].epoch = streams[s].epoch /\ streams'[s].node_id = streams[s].node_id
        /\ streams'[s].state = "Closed" /\ streams[s].state = "Opened" /\ streams[s].epoch = e
    BY <1>0, <1>4 DEF CloseStream, RequireOpenedStream, ControlTypeOK, StreamRow
  <2>2. OwnershipIndexes'
    BY <1>0, <1>4, <2>1 DEF CloseStream, OwnershipIndexes, NeverOpened
  <2>3. EpochGrantedOnce'
    BY <1>0, <1>4, <2>1 DEF CloseStream, EpochGrantedOnce
  <2>4. TransferWellFormed'
    BY <1>0, <1>4, <2>1 DEF CloseStream, TransferWellFormed
  <2> QED
    BY <2>2, <2>3, <2>4 DEF ControlInv
<1>5. ASSUME NEW n \in Node, NEW ne \in NodeEpoch, NEW s \in DOMAIN streams,
             NEW e \in StreamEpoch, NEW o \in Offset, TrimStream(n, ne, s, e, o)
      PROVE  ControlInv'
  <2>1. /\ DOMAIN streams' = DOMAIN streams
        /\ \A t \in DOMAIN streams : /\ streams'[t].epoch = streams[t].epoch
                                    /\ streams'[t].node_id = streams[t].node_id
                                    /\ streams'[t].state = streams[t].state
    BY <1>0, <1>5 DEF TrimStream, ControlTypeOK, StreamRow
  <2> QED
    BY <1>0, <1>5, <2>1 DEF TrimStream, ControlInv, OwnershipIndexes, EpochGrantedOnce,
                            TransferWellFormed
<1>6. ASSUME NEW s \in DOMAIN streams, PlaceStream(s)
      PROVE  ControlInv'
  <2> PICK winner \in Placeable :
        /\ streams' = [streams EXCEPT ![s].node_id = winner]
        /\ placed_by_node' = placed_by_node \cup {<<winner, s>>}
    BY <1>6, ZenonT(30) DEF PlaceStream
  <2>1. winner # NoNode
    BY <1>0 DEF Placeable, ControlTypeOK, NoNode
  <2>2. /\ DOMAIN streams' = DOMAIN streams
        /\ \A t \in DOMAIN streams \ {s} : streams'[t] = streams[t]
        /\ streams'[s].epoch = streams[s].epoch /\ streams'[s].state = streams[s].state
        /\ streams'[s].node_id = winner
        /\ streams[s].node_id = NoNode /\ streams[s].state = "Closed"
        /\ streams[s].epoch = NeverOpened
    BY <1>0, <1>6 DEF PlaceStream, ControlTypeOK, StreamRow
  <2>3. OwnershipIndexes'
    BY <1>0, <1>6, <2>1, <2>2 DEF PlaceStream, OwnershipIndexes
  <2>4. EpochGrantedOnce'
    BY <1>0, <1>6, <2>2 DEF PlaceStream, EpochGrantedOnce
  <2>5. TransferWellFormed'
    BY <1>0, <1>6, <2>2 DEF PlaceStream, TransferWellFormed
  <2> QED
    BY <2>3, <2>4, <2>5 DEF ControlInv
<1>7. ASSUME NEW s \in DOMAIN streams, NEW from \in Node, NEW to \in Node,
             TransferStream(s, from, to)
      PROVE  ControlInv'
  <2>1. /\ DOMAIN pending_transfers' = DOMAIN pending_transfers \cup {s}
        /\ \A t \in DOMAIN pending_transfers \ {s} : pending_transfers'[t] = pending_transfers[t]
        /\ pending_transfers'[s] = [from_node |-> from, to_node |-> to]
    BY <1>7 DEF TransferStream, Put
  <2>2. /\ UNCHANGED <<streams, nodes, opening_by_node, placed_by_node, granted>>
        /\ from # to /\ to \in DOMAIN nodes
        /\ streams[s].state = "Opened" /\ streams[s].node_id = from
    BY <1>7 DEF TransferStream, Placeable
  <2>3. <<s, streams[s].epoch, from>> \in granted
    BY <1>0, <2>2 DEF EpochGrantedOnce
  <2>4. streams[s].epoch \in Int
    BY <1>0 DEF ControlTypeOK, StreamRow, NeverOpened
  <2>5. \E g \in granted : g[1] = s /\ g[3] = from /\ g[2] <= streams[s].epoch
    BY <2>3, <2>4, SMTT(30)
  <2>6. TransferWellFormed'
    <3>1. ASSUME NEW t \in DOMAIN pending_transfers \ {s}
          PROVE  pending_transfers'[t] = pending_transfers[t] /\ t \in DOMAIN pending_transfers
      BY <2>1
    <3>2. pending_transfers'[s].from_node = from /\ pending_transfers'[s].to_node = to
      BY <2>1
    <3> QED
      BY <1>0, <2>1, <2>2, <2>5, <3>1, <3>2, SMTT(30) DEF TransferWellFormed
  <2>7. OwnershipIndexes'
    BY <1>0, <2>2 DEF OwnershipIndexes
  <2>8. EpochGrantedOnce'
    BY <1>0, <2>2 DEF EpochGrantedOnce
  <2> QED
    BY <2>6, <2>7, <2>8 DEF ControlInv
<1>8. ASSUME NEW s \in DOMAIN streams, NEW e \in StreamEpoch, CompleteTransfer(s, e)
      PROVE  ControlInv'
  <2>1. /\ DOMAIN streams' = DOMAIN streams
        /\ \A t \in DOMAIN streams \ {s} : streams'[t] = streams[t]
        /\ streams'[s].epoch = streams[s].epoch /\ streams'[s].state = streams[s].state
        /\ streams[s].state = "Closed" /\ streams[s].epoch # NeverOpened
    BY <1>0, <1>8 DEF CompleteTransfer, ControlTypeOK, StreamRow, NeverOpened
  <2>2. /\ DOMAIN pending_transfers' = DOMAIN pending_transfers \ {s}
        /\ \A t \in DOMAIN pending_transfers' : pending_transfers'[t] = pending_transfers[t]
    BY <1>8 DEF CompleteTransfer, Remove, Restrict
  <2>3. OwnershipIndexes'
    BY <1>0, <1>8, <2>1 DEF CompleteTransfer, OwnershipIndexes
  <2>4. EpochGrantedOnce'
    BY <1>0, <1>8, <2>1 DEF CompleteTransfer, EpochGrantedOnce
  <2>5. TransferWellFormed'
    <3>1. \A t \in DOMAIN pending_transfers' : t \in DOMAIN streams' /\ streams'[t] = streams[t]
      BY <1>0, <2>1, <2>2 DEF TransferWellFormed
    <3>2. nodes' = nodes /\ granted' = granted
      BY <1>8 DEF CompleteTransfer
    <3> QED
      BY <1>0, <2>2, <3>1, <3>2 DEF TransferWellFormed
  <2> QED
    BY <2>3, <2>4, <2>5 DEF ControlInv
<1> QED
  BY <1>1, <1>2, <1>3, <1>4, <1>5, <1>6, <1>7, <1>8 DEF ControlNext

LEMMA ControlInvStep == TypeOK /\ ControlInv /\ [Next]_vars => ControlInv'
<1> SUFFICES ASSUME TypeOK, ControlInv, [Next]_vars PROVE ControlInv'
  OBVIOUS
<1>1. CASE ControlNext /\ UNCHANGED <<objectVars, kv>>
  BY <1>1, ControlInvNext
<1>2. CASE ObjectNext /\ UNCHANGED kv
  BY <1>2, ObjectStepKinds, ControlInvUnchanged, ControlInvEndOffsets, ControlInvDrop
<1>3. CASE UNCHANGED controlVars
  BY <1>3, ControlInvUnchanged
<1> QED
  BY <1>1, <1>2, <1>3 DEF Next, vars

LEMMA ControlInvInvariant == Spec => []ControlInv
<1>1. Init => ControlInv
  BY DEF Init, ControlInit, ControlInv, OwnershipIndexes, EpochGrantedOnce,
         TransferWellFormed, EmptyMap
<1> QED
  BY <1>1, TypeCorrect, ControlInvStep, PTL DEF Spec

\* Fencing: no stream epoch is ever granted to two nodes, and an opened stream
\* is owned by the holder of its latest grant.
THEOREM EpochFencing == Spec => []EpochGrantedOnce
BY ControlInvInvariant, PTL DEF ControlInv

\* The two indexes that placement and recovery scan instead of the stream
\* table list exactly the opened and the placed streams.
THEOREM OwnershipIndexesExact == Spec => []OwnershipIndexes
BY ControlInvInvariant, PTL DEF ControlInv

\* Every pending transfer can be settled: its stream exists, its source held
\* the stream, its target is another registered node.
THEOREM TransfersWellFormed == Spec => []TransferWellFormed
BY ControlInvInvariant, PTL DEF ControlInv

-----------------------------------------------------------------------------
(* Rows only move forward.                                                 *)

LEMMA MoveForwardStep == TypeOK /\ [Next]_vars => [MoveForward]_vars
<1> SUFFICES ASSUME TypeOK, Next PROVE MoveForward
  OBVIOUS
<1> USE StreamControlConstants
<1>0. /\ ControlTypeOK
      /\ \A s \in DOMAIN streams :
           /\ streams[s] \in StreamRow /\ s \in StreamIds
           /\ streams[s].epoch \in Int /\ streams[s].start_offset \in Int
           /\ streams[s].end_offset \in Int
      /\ \A n \in DOMAIN nodes : nodes[n].epoch \in Int
  BY DEF TypeOK, ControlTypeOK, StreamRow, NodeRow, NeverOpened
<1>1. CASE streams' = streams /\ nodes' = nodes
  BY <1>0, <1>1 DEF MoveForward
<1>2. CASE OnlyEndOffsets
  <2>1. /\ DOMAIN streams' = DOMAIN streams /\ nodes' = nodes
        /\ \A s \in DOMAIN streams :
             /\ streams'[s].epoch = streams[s].epoch /\ streams'[s].node_id = streams[s].node_id
             /\ streams'[s].start_offset = streams[s].start_offset
             /\ streams[s].end_offset <= streams'[s].end_offset
    BY <1>2 DEF OnlyEndOffsets
  <2>2. /\ \A s \in DOMAIN streams : /\ streams[s].epoch <= streams[s].epoch
                                    /\ streams[s].start_offset <= streams[s].start_offset
        /\ \A n \in DOMAIN nodes : nodes[n].epoch <= nodes[n].epoch
    BY <1>0
  <2> QED
    BY <2>1, <2>2, SMTT(30) DEF MoveForward
<1>3. ASSUME NEW n, NEW ne, NEW s, NEW e, DropStreamRow(n, ne, s, e)
      PROVE  MoveForward
  <2>1. /\ DOMAIN streams' = DOMAIN streams \ {s}
        /\ \A t \in DOMAIN streams' : streams'[t] = streams[t]
    BY <1>3 DEF DropStreamRow, Remove, Restrict
  <2>2. nodes' = nodes
    BY <1>3 DEF DropStreamRow
  <2> QED
    BY <1>0, <2>1, <2>2, SMTT(30) DEF MoveForward
<1>4. ASSUME NEW n \in Node, NEW ne \in NodeEpoch, NEW a \in Address \cup {NoAddress},
             NEW slots \in SlotCount, RegisterNode(n, ne, a, slots)
      PROVE  MoveForward
  <2>1. streams' = streams /\ (n \in DOMAIN nodes => nodes[n].epoch <= ne)
    BY <1>4 DEF RegisterNode
  <2>2. /\ DOMAIN nodes' = DOMAIN nodes \cup {n} /\ nodes'[n].epoch = ne
        /\ \A m \in DOMAIN nodes \ {n} : nodes'[m] = nodes[m]
    BY <1>4 DEF RegisterNode, Put
  <2>3. \A m \in DOMAIN nodes : m \in DOMAIN nodes' /\ nodes[m].epoch <= nodes'[m].epoch
    BY <1>0, <2>1, <2>2
  <2> QED
    BY <1>0, <2>1, <2>3, SMTT(30) DEF MoveForward
<1>5. ASSUME NEW n \in Node, NEW ne \in NodeEpoch, NEW count \in BatchSize,
             CreateStreams(n, ne, count)
      PROVE  MoveForward
  <2>1. \A s \in DOMAIN streams : streams'[s] = streams[s]
    BY <1>0, <1>5 DEF CreateStreams, StreamIds, ControlTypeOK
  <2>2. \A s \in DOMAIN streams' \ DOMAIN streams : s >= next_stream_id
    BY <1>5 DEF CreateStreams, ControlTypeOK
  <2>3. nodes' = nodes
    BY <1>5 DEF CreateStreams
  <2>4. \A s \in DOMAIN streams : /\ streams[s].epoch <= streams[s].epoch
                                 /\ streams[s].start_offset <= streams[s].start_offset
                                 /\ streams[s].end_offset <= streams[s].end_offset
    BY <1>0
  <2>5. \A n1 \in DOMAIN nodes : nodes[n1].epoch <= nodes[n1].epoch
    BY <1>0
  <2> QED
    BY <2>1, <2>2, <2>3, <2>4, <2>5, SMTT(30) DEF MoveForward
<1>6. ASSUME NEW n \in Node, NEW ne \in NodeEpoch, NEW s \in DOMAIN streams,
             NEW e \in StreamEpoch, OpenStream(n, ne, s, e)
      PROVE  MoveForward
  BY <1>0, <1>6 DEF OpenStream, EpochIsNewer, MoveForward, StreamRow
<1>7. ASSUME NEW n \in Node, NEW ne \in NodeEpoch, NEW s \in DOMAIN streams,
             NEW e \in StreamEpoch, CloseStream(n, ne, s, e)
      PROVE  MoveForward
  BY <1>0, <1>7 DEF CloseStream, MoveForward, StreamRow
<1>8. ASSUME NEW n \in Node, NEW ne \in NodeEpoch, NEW s \in DOMAIN streams,
             NEW e \in StreamEpoch, NEW o \in Offset, TrimStream(n, ne, s, e, o)
      PROVE  MoveForward
  BY <1>0, <1>8 DEF TrimStream, MoveForward, StreamRow
<1>9. ASSUME NEW s \in DOMAIN streams, PlaceStream(s)
      PROVE  MoveForward
  BY <1>0, <1>9 DEF PlaceStream, MoveForward, StreamRow
<1>10. ASSUME NEW s \in DOMAIN streams, NEW from \in Node, NEW to \in Node,
              TransferStream(s, from, to)
       PROVE  MoveForward
  BY <1>1, <1>10 DEF TransferStream
<1>11. ASSUME NEW s \in DOMAIN streams, NEW e \in StreamEpoch, CompleteTransfer(s, e)
       PROVE  MoveForward
  BY <1>0, <1>11 DEF CompleteTransfer, MoveForward, StreamRow
<1>12. CASE ControlNext
  BY <1>12, <1>4, <1>5, <1>6, <1>7, <1>8, <1>9, <1>10, <1>11, SMTT(30) DEF ControlNext
<1>13. CASE ObjectNext
  BY <1>13, <1>1, <1>2, <1>3, ObjectStepKinds DEF controlVars
<1>14. CASE KvNext /\ UNCHANGED <<controlVars, objectVars>>
  BY <1>14, <1>1 DEF controlVars
<1> QED
  BY <1>12, <1>13, <1>14 DEF Next

\* No log entry takes an epoch or an offset back, moves an opened stream to
\* another owner, lowers a node epoch or reuses a stream id.
THEOREM RowsForward == Spec => RowsMoveForward
<1>1. TypeOK /\ [Next]_vars => [MoveForward]_vars
  BY MoveForwardStep
<1> QED
  BY <1>1, TypeCorrect, PTL DEF Spec, RowsMoveForward
=============================================================================

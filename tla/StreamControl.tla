--------------------------- MODULE StreamControl ---------------------------
(***************************************************************************)
(* The node and stream half of the replicated metadata state machine       *)
(* (picomq/pico-metadata/src/apply.rs, "node lifecycle"): registration,     *)
(* placement, ownership by epoch, retention watermark, live transfers.     *)
(*                                                                         *)
(* An action is one successful command.  A command the code answers with   *)
(* an error leaves the state untouched (apply works on a clone), and a     *)
(* command it recognises as a repetition succeeds without a change: both   *)
(* are stuttering steps.                                                   *)
(***************************************************************************)
EXTENDS Integers, FiniteSets, Maps

CONSTANTS
  Node,         \* node ids the cluster uses; placement compares them
  NodeEpoch,    \* node epochs that registrations and requests carry
  SlotCount,    \* placement weights a registration may carry
  Address,      \* advertised HTTP addresses, the empty one apart
  StreamEpoch,  \* stream epochs that requests carry
  Offset,       \* stream offsets that requests carry
  BatchSize,    \* sizes of a batched create
  MaxStreams    \* bound: stream ids that may be assigned

ASSUME StreamControlConstants ==
  /\ Node \subseteq Nat
  /\ NodeEpoch \subseteq Nat
  /\ SlotCount \subseteq Nat
  /\ StreamEpoch \subseteq Nat
  /\ Offset \subseteq Nat
  /\ BatchSize \subseteq Nat
  /\ MaxStreams \in Nat

VARIABLES
  next_stream_id,     \* the id CreateStream hands out next
  streams,            \* stream id -> row
  nodes,              \* node id -> row
  opening_by_node,    \* index: <<node, stream>> of every opened stream
  placed_by_node,     \* index: <<node, stream>> of every placed, never opened stream
  pending_transfers,  \* stream id -> [from_node, to_node]
  granted             \* history: <<stream, epoch, node>> of every open

controlVars == <<next_stream_id, streams, nodes, opening_by_node,
                 placed_by_node, pending_transfers, granted>>

NoNode == -1        \* node_id of a stream no node was chosen for
NeverOpened == -1   \* epoch of a stream that was created and not yet opened
NoAddress == ""
MaxCreateStreams == 4096

StreamIds == 0 .. (next_stream_id - 1)
StreamRow == [epoch : StreamEpoch \cup {NeverOpened}, start_offset : Nat, end_offset : Nat,
              state : {"Opened", "Closed"}, node_id : Node \cup {NoNode}]
NodeRow == [epoch : NodeEpoch, http_address : Address \cup {NoAddress}, slots : SlotCount]
PendingTransfer == [from_node : Node, to_node : Node]

NewStreamRow == [epoch |-> NeverOpened, start_offset |-> 0, end_offset |-> 0,
                 state |-> "Closed", node_id |-> NoNode]

\* The types of the node and stream tables.
ControlTypeOK ==
  /\ next_stream_id \in Nat
  /\ DOMAIN streams \subseteq StreamIds
  /\ streams \in [DOMAIN streams -> StreamRow]
  /\ DOMAIN nodes \subseteq Node
  /\ nodes \in [DOMAIN nodes -> NodeRow]
  /\ opening_by_node \subseteq Node \X StreamIds
  /\ placed_by_node \subseteq Node \X StreamIds
  /\ DOMAIN pending_transfers \subseteq StreamIds
  /\ pending_transfers \in [DOMAIN pending_transfers -> PendingTransfer]
  /\ granted \subseteq StreamIds \X StreamEpoch \X Node

ControlInit ==
  /\ next_stream_id = 0
  /\ streams = EmptyMap
  /\ nodes = EmptyMap
  /\ opening_by_node = {}
  /\ placed_by_node = {}
  /\ pending_transfers = EmptyMap
  /\ granted = {}

-----------------------------------------------------------------------------
(* Nodes.                                                                  *)

\* The fence every node-issued command passes: exactly the registered epoch.
NodeEpochCheck(n, ne) == n \in DOMAIN nodes /\ nodes[n].epoch = ne

\* Mutant: registration without the fence on older epochs.
RegisterNodeUnfenced(n, ne, address, slots) ==
  /\ nodes' = Put(nodes, n, [epoch |-> ne, http_address |-> address, slots |-> slots])
  /\ UNCHANGED <<next_stream_id, streams, opening_by_node, placed_by_node,
                 pending_transfers, granted>>

RegisterNode(n, ne, address, slots) ==
  /\ n \in DOMAIN nodes => nodes[n].epoch <= ne
  /\ LET known == IF n \in DOMAIN nodes THEN nodes[n].http_address ELSE NoAddress
         kept  == IF address = NoAddress THEN known ELSE address
     IN nodes' = Put(nodes, n, [epoch |-> ne, http_address |-> kept, slots |-> slots])
  /\ UNCHANGED <<next_stream_id, streams, opening_by_node, placed_by_node,
                 pending_transfers, granted>>

-----------------------------------------------------------------------------
(* Creation and placement.                                                 *)

\* CreateStream is the batch of one; CreateStreams bounds the batch.
CreateStreams(n, ne, count) ==
  /\ NodeEpochCheck(n, ne)
  /\ count > 0 /\ count <= MaxCreateStreams
  /\ next_stream_id + count <= MaxStreams
  /\ next_stream_id' = next_stream_id + count
  /\ LET created == next_stream_id .. (next_stream_id + count - 1)
     IN streams' = [s \in DOMAIN streams \cup created |->
                      IF s \in created THEN NewStreamRow ELSE streams[s]]
  /\ UNCHANGED <<nodes, opening_by_node, placed_by_node, pending_transfers, granted>>

StreamsOf(index, n) == {e \in index : e[1] = n}

\* (opening + placed) * 1000 / slots: the load a new stream is placed by.
PlacementScore(n) ==
  ((Cardinality(StreamsOf(opening_by_node, n)) + Cardinality(StreamsOf(placed_by_node, n)))
     * 1000) \div nodes[n].slots

Placeable == {n \in DOMAIN nodes : nodes[n].slots >= 1}

\* Lowest score wins, ties go to the lowest node id.
PlacementWinner(n) ==
  /\ n \in Placeable
  /\ \A m \in Placeable \ {n} :
       \/ PlacementScore(n) < PlacementScore(m)
       \/ PlacementScore(n) = PlacementScore(m) /\ n < m

PlaceStream(s) ==
  /\ s \in DOMAIN streams
  /\ streams[s].node_id = NoNode
  /\ streams[s].state = "Closed" /\ streams[s].epoch = NeverOpened
  /\ \E winner \in Placeable :
       /\ PlacementWinner(winner)
       /\ streams' = [streams EXCEPT ![s].node_id = winner]
       /\ placed_by_node' = placed_by_node \cup {<<winner, s>>}
  /\ UNCHANGED <<next_stream_id, nodes, opening_by_node, pending_transfers, granted>>

-----------------------------------------------------------------------------
(* Ownership.                                                              *)

\* The stream's epoch that an open must exceed; mutant: may also repeat.
EpochReusable(s, e) == streams[s].epoch <= e
EpochIsNewer(s, e) == streams[s].epoch < e

\* The placement entry that an open retires; mutant: none.
NoPlacement(s) == {}
PlacementOf(s) == {<<streams[s].node_id, s>>}

\* A newer epoch opens a closed stream; the same epoch is a repetition (same
\* node, still opened) or refused; an opened stream is never taken over.
OpenStream(n, ne, s, e) ==
  /\ NodeEpochCheck(n, ne)
  /\ s \in DOMAIN streams
  /\ EpochIsNewer(s, e)
  /\ streams[s].state # "Opened"
  /\ streams' = [streams EXCEPT ![s].epoch = e, ![s].state = "Opened", ![s].node_id = n]
  /\ placed_by_node' = placed_by_node \ PlacementOf(s)
  /\ opening_by_node' = opening_by_node \cup {<<n, s>>}
  /\ granted' = granted \cup {<<s, e, n>>}
  /\ UNCHANGED <<next_stream_id, nodes, pending_transfers>>

RequireOpenedStream(s, e) ==
  s \in DOMAIN streams /\ streams[s].state = "Opened" /\ streams[s].epoch = e

TrimStream(n, ne, s, e, new_start_offset) ==
  /\ NodeEpochCheck(n, ne)
  /\ RequireOpenedStream(s, e)
  /\ streams[s].start_offset <= new_start_offset
  /\ new_start_offset <= streams[s].end_offset
  /\ streams' = [streams EXCEPT ![s].start_offset = new_start_offset]
  /\ UNCHANGED <<next_stream_id, nodes, opening_by_node, placed_by_node,
                 pending_transfers, granted>>

\* Any registered node may close a stream whose current epoch it names.
CloseStream(n, ne, s, e) ==
  /\ NodeEpochCheck(n, ne)
  /\ RequireOpenedStream(s, e)
  /\ streams' = [streams EXCEPT ![s].state = "Closed"]
  /\ opening_by_node' = opening_by_node \ {<<streams[s].node_id, s>>}
  /\ UNCHANGED <<next_stream_id, nodes, placed_by_node, pending_transfers, granted>>

\* Mutant: a delete that forgets the pending transfer.
DropStreamRowKeepsTransfer(n, ne, s, e) ==
  /\ NodeEpochCheck(n, ne)
  /\ s \in DOMAIN streams
  /\ streams[s].state = "Closed" /\ streams[s].epoch = e
  /\ streams' = Remove(streams, {s})
  /\ placed_by_node' = {p \in placed_by_node : p[2] # s}
  /\ UNCHANGED <<next_stream_id, nodes, opening_by_node, pending_transfers, granted>>

\* The stream-table part of DeleteStream; ObjectControl has the whole handler.
DropStreamRow(n, ne, s, e) ==
  /\ NodeEpochCheck(n, ne)
  /\ s \in DOMAIN streams
  /\ streams[s].state = "Closed" /\ streams[s].epoch = e
  /\ streams' = Remove(streams, {s})
  /\ placed_by_node' = {p \in placed_by_node : p[2] # s}
  /\ pending_transfers' = Remove(pending_transfers, {s})
  /\ UNCHANGED <<next_stream_id, nodes, opening_by_node, granted>>

-----------------------------------------------------------------------------
(* Live transfers.                                                         *)

TransferStream(s, from, to) ==
  /\ s \in DOMAIN streams
  /\ s \notin DOMAIN pending_transfers
  /\ from # to
  /\ to \in Placeable
  /\ streams[s].state = "Opened" /\ streams[s].node_id = from
  /\ pending_transfers' = Put(pending_transfers, s, [from_node |-> from, to_node |-> to])
  /\ UNCHANGED <<next_stream_id, streams, nodes, opening_by_node, placed_by_node, granted>>

CompleteTransfer(s, e) ==
  /\ s \in DOMAIN pending_transfers
  /\ s \in DOMAIN streams
  /\ streams[s].state = "Closed" /\ streams[s].epoch = e
  /\ streams' = [streams EXCEPT ![s].node_id = pending_transfers[s].to_node]
  /\ pending_transfers' = Remove(pending_transfers, {s})
  /\ UNCHANGED <<next_stream_id, nodes, opening_by_node, placed_by_node, granted>>
=============================================================================

------------------------------- MODULE SqlLog -------------------------------
(***************************************************************************)
(* The command log of PicoMQ's metadata (picomq/pico-sql/src/sink.rs over  *)
(* the two tables of store.rs): on every node a flusher that group-commits *)
(* proposals as rows of one shared table, and a tailer that applies the    *)
(* rows, publishes views, answers the flusher, and snapshots and truncates *)
(* the table.                                                              *)
(*                                                                         *)
(* apply is pure, so a metadata state is modelled by the sequence of rows  *)
(* it was built from; its applied index is the length of that sequence.    *)
(* A row is the batch of commands it holds.  Awaits separate actions.      *)
(***************************************************************************)
EXTENDS Integers, Sequences, FiniteSets, Maps

CONSTANTS
  Node,            \* nodes sharing the database
  Writer,          \* the nodes that propose commands
  Command,         \* commands, each proposed at most once
  MaxBatch,        \* config.max_batch
  QueueDepth,      \* config.queue_depth
  FetchLimit,      \* config.fetch_limit
  SnapshotEvery,   \* config.snapshot_every, 0 disables
  MaxCrashes,      \* bound: process crashes
  MaxFlushErrors,  \* bound: errors of the flusher's store calls
  MaxCycleErrors,  \* bound: errors of the snapshot cycle's store calls
  MaxCorruptions   \* bound: rows that become unreadable

ASSUME SqlLogConstants ==
  /\ Writer \subseteq Node
  /\ MaxBatch \in Nat \ {0} /\ QueueDepth \in Nat \ {0} /\ FetchLimit \in Nat \ {0}
  /\ SnapshotEvery \in Nat
  /\ MaxCrashes \in Nat /\ MaxCorruptions \in Nat
  /\ MaxFlushErrors \in Nat /\ MaxCycleErrors \in Nat

VARIABLES
  log,            \* table meta_log: idx -> batch
  snapshot,       \* table meta_snapshot: the state of its row, <<>> without one
  phase,          \* node -> down, open (SqlSink::open is replaying) or up
  state,          \* tailer: the state
  rows,           \* tailer: fetched rows not yet applied, idx -> batch
  tail,           \* tailer: fetch, rows, publish, deliver, snapshot, truncate, stopped
  last_snapshot,  \* tailer: applied index of the last snapshot it knows
  view,           \* the published view
  last_seen,      \* highest log index known to exist
  poisoned,       \* Pending.poisoned
  registered,     \* Pending.map: the index a result is awaited for, 0 for none
  rx,             \* the flusher's end of that registration: open, closed or sent
  results,        \* what was sent: the state after the row
  queue,          \* proposals not yet taken by the flusher
  flush,          \* flusher: recv, load, register, append, await, refresh
  batch,          \* flusher: the commands of the current batch
  next,           \* flusher: the index it tries to append at
  status,         \* command -> idle, waiting, ok or error, as its proposer sees it
  answer,         \* acknowledged command -> [node, applied_index, result, position]
  chosen,         \* history: the batches in the order they first took an index
  faults          \* crashes, store errors and corruptions so far

storeVars == <<log, snapshot>>
tailVars == <<state, rows, tail, last_snapshot, view>>
sharedVars == <<last_seen, poisoned, registered, rx, results>>
flushVars == <<queue, flush, batch, next>>
clientVars == <<status, answer>>
vars == <<storeVars, phase, tailVars, sharedVars, flushVars, clientVars, chosen, faults>>

Corrupt == <<>>   \* a payload that decode_batch rejects
NoRows == EmptyMap
Larger(a, b) == IF a >= b THEN a ELSE b

Init ==
  /\ log = NoRows
  /\ snapshot = <<>>
  /\ phase = [n \in Node |-> "down"]
  /\ state = [n \in Node |-> <<>>]
  /\ rows = [n \in Node |-> NoRows]
  /\ tail = [n \in Node |-> "fetch"]
  /\ last_snapshot = [n \in Node |-> 0]
  /\ view = [n \in Node |-> <<>>]
  /\ last_seen = [n \in Node |-> 0]
  /\ poisoned = [n \in Node |-> FALSE]
  /\ registered = [n \in Node |-> 0]
  /\ rx = [n \in Node |-> "open"]
  /\ results = [n \in Node |-> <<>>]
  /\ queue = [n \in Node |-> <<>>]
  /\ flush = [n \in Node |-> "recv"]
  /\ batch = [n \in Node |-> <<>>]
  /\ next = [n \in Node |-> 0]
  /\ status = [c \in Command |-> "idle"]
  /\ answer = EmptyMap
  /\ chosen = <<>>
  /\ faults = [crash |-> 0, flush |-> 0, cycle |-> 0, corrupt |-> 0]

-----------------------------------------------------------------------------
(* The store: one SQL statement each.                                      *)

Fault(kind) == faults' = [faults EXCEPT ![kind] = @ + 1]
FlushError == faults.flush < MaxFlushErrors /\ Fault("flush")
CycleError == faults.cycle < MaxCycleErrors /\ Fault("cycle")

\* Mutant: starts at the index itself.
FetchFrom(after) ==
  Restrict(log, {i \in DOMAIN log :
    /\ i >= after
    /\ Cardinality({j \in DOMAIN log : after <= j /\ j <= i}) <= FetchLimit})

\* fetch_after: the first FetchLimit rows above an index.
FetchAfter(after) ==
  Restrict(log, {i \in DOMAIN log :
    /\ i > after
    /\ Cardinality({j \in DOMAIN log : after < j /\ j <= i}) <= FetchLimit})

\* The least index of a non-empty set of rows: rows are handled in this order.
First(r) == CHOOSE i \in DOMAIN r : \A j \in DOMAIN r : i <= j

\* last_idx: the highest index of the log or the snapshot.
LastIdx ==
  LET indexes == DOMAIN log \cup {Len(snapshot)}
  IN CHOOSE i \in indexes : \A j \in indexes : i >= j

\* Mutant: an insert that replaces.
AnySlot(idx) == TRUE

\* append: the primary key refuses an index that is taken.
SlotFree(idx) == idx \notin DOMAIN log

AppendRow(idx, b) ==
  /\ log' = Put(log, idx, b)
  /\ chosen' = IF idx = Len(chosen) + 1 THEN Append(chosen, b) ELSE chosen

\* Mutant: the last writer wins.
AnySnapshot(s) == s

\* store_snapshot: never replaces a newer one.
NewerSnapshot(s) == IF Len(s) > Len(snapshot) THEN s ELSE snapshot

\* Mutant: takes one row too many.
RowsAboveNext(upTo) == Restrict(log, {i \in DOMAIN log : i > upTo + 1})

\* truncate_log.
RowsAbove(upTo) == Restrict(log, {i \in DOMAIN log : i > upTo})

-----------------------------------------------------------------------------
(* SqlSink::open.                                                          *)

\* Load the snapshot row.
OpenLoad(n) ==
  /\ phase[n] = "down"
  /\ phase' = [phase EXCEPT ![n] = "open"]
  /\ state' = [state EXCEPT ![n] = snapshot]
  /\ last_snapshot' = [last_snapshot EXCEPT ![n] = Len(snapshot)]
  /\ UNCHANGED <<storeVars, rows, tail, view, sharedVars, flushVars, clientVars, chosen, faults>>

OpenFetch(n) ==
  /\ phase[n] = "open" /\ rows[n] = NoRows
  /\ rows' = [rows EXCEPT ![n] = FetchAfter(Len(state[n]))]
  /\ rows'[n] # NoRows
  /\ UNCHANGED <<storeVars, phase, state, tail, last_snapshot, view, sharedVars, flushVars,
                 clientVars, chosen, faults>>

\* Replay one row; after a gap, restart from the snapshot, which must exist.
OpenReplay(n) ==
  /\ phase[n] = "open" /\ rows[n] # NoRows
  /\ LET idx == First(rows[n])
     IN IF idx > Len(state[n]) + 1
        THEN /\ snapshot # <<>>
             /\ state' = [state EXCEPT ![n] = snapshot]
             /\ last_snapshot' = [last_snapshot EXCEPT ![n] = Len(snapshot)]
             /\ rows' = [rows EXCEPT ![n] = NoRows]
        ELSE /\ rows[n][idx] # Corrupt
             /\ state' = [state EXCEPT ![n] = Append(@, rows[n][idx])]
             /\ rows' = [rows EXCEPT ![n] = Remove(@, {idx})]
             /\ UNCHANGED last_snapshot
  /\ UNCHANGED <<storeVars, phase, tail, view, sharedVars, flushVars, clientVars, chosen, faults>>

\* An unreadable row: open returns an error.
OpenFails(n) ==
  /\ phase[n] = "open" /\ rows[n] # NoRows
  /\ LET idx == First(rows[n])
     IN idx <= Len(state[n]) + 1 /\ rows[n][idx] = Corrupt
  /\ phase' = [phase EXCEPT ![n] = "down"]
  /\ state' = [state EXCEPT ![n] = <<>>]
  /\ rows' = [rows EXCEPT ![n] = NoRows]
  /\ last_snapshot' = [last_snapshot EXCEPT ![n] = 0]
  /\ UNCHANGED <<storeVars, tail, view, sharedVars, flushVars, clientVars, chosen, faults>>

\* Mutant: one page of rows is taken for the whole log.
OpenDoneEarly(n) ==
  /\ phase[n] = "open" /\ rows[n] = NoRows
  /\ phase' = [phase EXCEPT ![n] = "up"]
  /\ view' = [view EXCEPT ![n] = state[n]]
  /\ last_seen' = [last_seen EXCEPT ![n] = Len(state[n])]
  /\ UNCHANGED <<storeVars, state, rows, tail, last_snapshot, poisoned, registered, rx, results,
                 flushVars, clientVars, chosen, faults>>

\* At the tip of the log: publish the first view, start tailer and flusher.
OpenDone(n) ==
  /\ phase[n] = "open" /\ rows[n] = NoRows
  /\ FetchAfter(Len(state[n])) = NoRows
  /\ phase' = [phase EXCEPT ![n] = "up"]
  /\ view' = [view EXCEPT ![n] = state[n]]
  /\ last_seen' = [last_seen EXCEPT ![n] = Len(state[n])]
  /\ UNCHANGED <<storeVars, state, rows, tail, last_snapshot, poisoned, registered, rx, results,
                 flushVars, clientVars, chosen, faults>>

-----------------------------------------------------------------------------
(* The flusher: flusher_task and commit_batch.                             *)

Waiting(n) == {batch[n][i] : i \in 1 .. Len(batch[n])}

\* fail_all: the waiters of the batch get an error, the flusher takes the next.
FailAll(n) ==
  /\ status' = [c \in Command |-> IF c \in Waiting(n) THEN "error" ELSE status[c]]
  /\ flush' = [flush EXCEPT ![n] = "recv"]
  /\ batch' = [batch EXCEPT ![n] = <<>>]
  /\ next' = [next EXCEPT ![n] = 0]
  /\ UNCHANGED <<queue, answer>>

\* SqlSink::propose, up to the queue; it waits while the queue is full.
Propose(n, c) ==
  /\ n \in Writer /\ phase[n] = "up" /\ status[c] = "idle"
  /\ Len(queue[n]) < QueueDepth
  /\ queue' = [queue EXCEPT ![n] = Append(@, c)]
  /\ status' = [status EXCEPT ![c] = "waiting"]
  /\ UNCHANGED <<storeVars, phase, tailVars, sharedVars, flush, batch, next, answer, chosen, faults>>

\* Mutant: wakes up without a command and commits an empty row.
RecvNothing(n) ==
  /\ phase[n] = "up" /\ flush[n] = "recv"
  /\ LET taken == IF Len(queue[n]) <= MaxBatch THEN Len(queue[n]) ELSE MaxBatch
     IN /\ batch' = [batch EXCEPT ![n] = SubSeq(queue[n], 1, taken)]
        /\ queue' = [queue EXCEPT ![n] = SubSeq(@, taken + 1, Len(@))]
  /\ flush' = [flush EXCEPT ![n] = "load"]
  /\ UNCHANGED <<storeVars, phase, tailVars, sharedVars, next, clientVars, chosen, faults>>

\* Take what is queued, up to MaxBatch commands.
Recv(n) ==
  /\ phase[n] = "up" /\ flush[n] = "recv" /\ queue[n] # <<>>
  /\ LET taken == IF Len(queue[n]) <= MaxBatch THEN Len(queue[n]) ELSE MaxBatch
     IN /\ batch' = [batch EXCEPT ![n] = SubSeq(queue[n], 1, taken)]
        /\ queue' = [queue EXCEPT ![n] = SubSeq(@, taken + 1, Len(@))]
  /\ flush' = [flush EXCEPT ![n] = "load"]
  /\ UNCHANGED <<storeVars, phase, tailVars, sharedVars, next, clientVars, chosen, faults>>

LoadNext(n) ==
  /\ phase[n] = "up" /\ flush[n] = "load"
  /\ next' = [next EXCEPT ![n] = last_seen[n] + 1]
  /\ flush' = [flush EXCEPT ![n] = "register"]
  /\ UNCHANGED <<storeVars, phase, tailVars, sharedVars, queue, batch, clientVars, chosen, faults>>

\* Under the pending lock: refuse when poisoned, else register before appending.
Register(n) ==
  /\ phase[n] = "up" /\ flush[n] = "register"
  /\ IF poisoned[n]
     THEN FailAll(n) /\ UNCHANGED sharedVars
     ELSE /\ registered' = [registered EXCEPT ![n] = next[n]]
          /\ rx' = [rx EXCEPT ![n] = "open"]
          /\ results' = [results EXCEPT ![n] = <<>>]
          /\ flush' = [flush EXCEPT ![n] = "append"]
          /\ UNCHANGED <<last_seen, poisoned, queue, batch, next, clientVars>>
  /\ UNCHANGED <<storeVars, phase, tailVars, chosen, faults>>

\* Forget the registration, and what a row of another writer delivered to it.
Deregister(n) ==
  /\ registered' = [registered EXCEPT ![n] = 0]
  /\ rx' = [rx EXCEPT ![n] = "open"]
  /\ results' = [results EXCEPT ![n] = <<>>]
  /\ UNCHANGED <<last_seen, poisoned>>

AppendWins(n) ==
  /\ phase[n] = "up" /\ flush[n] = "append"
  /\ SlotFree(next[n])
  /\ AppendRow(next[n], batch[n])
  /\ flush' = [flush EXCEPT ![n] = "await"]
  /\ UNCHANGED <<snapshot, phase, tailVars, sharedVars, queue, batch, next, clientVars, faults>>

\* Mutant: a taken slot is mistaken for the own row.
AppendLosesAwaits(n) ==
  /\ phase[n] = "up" /\ flush[n] = "append"
  /\ ~SlotFree(next[n])
  /\ flush' = [flush EXCEPT ![n] = "await"]
  /\ UNCHANGED <<storeVars, phase, tailVars, sharedVars, queue, batch, next, clientVars,
                 chosen, faults>>

AppendLoses(n) ==
  /\ phase[n] = "up" /\ flush[n] = "append"
  /\ ~SlotFree(next[n])
  /\ Deregister(n)
  /\ flush' = [flush EXCEPT ![n] = "refresh"]
  /\ UNCHANGED <<storeVars, phase, tailVars, queue, batch, next, clientVars, chosen, faults>>

\* Mutant: an append that returned an error is tried again.
AppendFailsRetries(n) ==
  /\ phase[n] = "up" /\ flush[n] = "append"
  /\ FlushError
  /\ \/ SlotFree(next[n]) /\ AppendRow(next[n], batch[n])
     \/ UNCHANGED <<log, chosen>>
  /\ Deregister(n)
  /\ flush' = [flush EXCEPT ![n] = "refresh"]
  /\ UNCHANGED <<snapshot, phase, tailVars, queue, batch, next, clientVars>>

\* The append returned an error; the row may have landed all the same.
AppendFails(n) ==
  /\ phase[n] = "up" /\ flush[n] = "append"
  /\ FlushError
  /\ \/ SlotFree(next[n]) /\ AppendRow(next[n], batch[n])
     \/ UNCHANGED <<log, chosen>>
  /\ Deregister(n)
  /\ FailAll(n)
  /\ UNCHANGED <<snapshot, phase, tailVars>>

\* After a lost slot: learn the tail of the log and try again.
RefreshTail(n) ==
  /\ phase[n] = "up" /\ flush[n] = "refresh"
  /\ last_seen' = [last_seen EXCEPT ![n] = Larger(@, LastIdx)]
  /\ flush' = [flush EXCEPT ![n] = "load"]
  /\ UNCHANGED <<storeVars, phase, tailVars, poisoned, registered, rx, results,
                 queue, batch, next, clientVars, chosen, faults>>

RefreshFails(n) ==
  /\ phase[n] = "up" /\ flush[n] = "refresh"
  /\ FlushError
  /\ FailAll(n)
  /\ UNCHANGED <<storeVars, phase, tailVars, sharedVars, chosen>>

\* The row's results arrived: waiter i gets the i-th; a waiter beyond them is
\* dropped, which its proposer sees as an error.
Answer(n) ==
  /\ phase[n] = "up" /\ flush[n] = "await" /\ rx[n] = "sent"
  /\ LET row == results[n][Len(results[n])]
         served == {i \in 1 .. Len(batch[n]) : i <= Len(row)}
         position(c) == CHOOSE i \in 1 .. Len(batch[n]) : batch[n][i] = c
         acked == {batch[n][i] : i \in served}
     IN /\ status' = [c \in Command |-> CASE c \in acked -> "ok"
                                          [] c \in Waiting(n) \ acked -> "error"
                                          [] OTHER -> status[c]]
        /\ answer' = [c \in DOMAIN answer \cup acked |->
             IF c \in acked
             THEN [node |-> n, applied_index |-> next[n], result |-> results[n],
                   position |-> position(c)]
             ELSE answer[c]]
  /\ Deregister(n)
  /\ flush' = [flush EXCEPT ![n] = "recv"]
  /\ batch' = [batch EXCEPT ![n] = <<>>]
  /\ next' = [next EXCEPT ![n] = 0]
  /\ UNCHANGED <<storeVars, phase, tailVars, queue, chosen, faults>>

\* The registration was dropped: poisoned, or covered by a reinstalled snapshot.
AnswerLost(n) ==
  /\ phase[n] = "up" /\ flush[n] = "await" /\ rx[n] = "closed"
  /\ FailAll(n)
  /\ Deregister(n)
  /\ UNCHANGED <<storeVars, phase, tailVars, chosen, faults>>

-----------------------------------------------------------------------------
(* The tailer: tailer_task.                                                *)

\* An empty fetch waits for a nudge or the next poll.
Fetch(n) ==
  /\ phase[n] = "up" /\ tail[n] = "fetch"
  /\ rows' = [rows EXCEPT ![n] = FetchAfter(Len(state[n]))]
  /\ rows'[n] # NoRows
  /\ tail' = [tail EXCEPT ![n] = "rows"]
  /\ UNCHANGED <<storeVars, phase, state, last_snapshot, view, sharedVars, flushVars,
                 clientVars, chosen, faults>>

\* Mutant: gaps are not noticed.
FollowsAnyway(n, idx) == TRUE

\* The next fetched row follows the state: no row between them is missing.
Follows(n, idx) == idx <= Len(state[n]) + 1

ApplyRow(n) ==
  /\ phase[n] = "up" /\ tail[n] = "rows"
  /\ LET idx == First(rows[n])
     IN /\ Follows(n, idx)
        /\ rows[n][idx] # Corrupt
        /\ state' = [state EXCEPT ![n] = Append(@, rows[n][idx])]
        /\ rows' = [rows EXCEPT ![n] = Remove(@, {idx})]
        /\ last_seen' = [last_seen EXCEPT ![n] = Larger(@, idx)]
  /\ tail' = [tail EXCEPT ![n] = "publish"]
  /\ UNCHANGED <<storeVars, phase, last_snapshot, view, poisoned, registered, rx, results,
                 flushVars, clientVars, chosen, faults>>

Publish(n) ==
  /\ phase[n] = "up" /\ tail[n] = "publish"
  /\ view' = [view EXCEPT ![n] = state[n]]
  /\ tail' = [tail EXCEPT ![n] = "deliver"]
  /\ UNCHANGED <<storeVars, phase, state, rows, last_snapshot, sharedVars, flushVars,
                 clientVars, chosen, faults>>

SnapshotDue(n) == SnapshotEvery > 0 /\ Len(state[n]) - last_snapshot[n] >= SnapshotEvery

\* Hand the results to whoever is registered at the row's index; after the last
\* fetched row comes the snapshot cycle.
Deliver(n) ==
  /\ phase[n] = "up" /\ tail[n] = "deliver"
  /\ IF registered[n] = Len(state[n])
     THEN /\ registered' = [registered EXCEPT ![n] = 0]
          /\ rx' = [rx EXCEPT ![n] = "sent"]
          /\ results' = [results EXCEPT ![n] = state[n]]
     ELSE UNCHANGED <<registered, rx, results>>
  /\ tail' = [tail EXCEPT ![n] = CASE rows[n] # NoRows -> "rows"
                                   [] rows[n] = NoRows /\ SnapshotDue(n) -> "snapshot"
                                   [] OTHER -> "fetch"]
  /\ UNCHANGED <<storeVars, phase, state, rows, last_snapshot, view, last_seen, poisoned,
                 flushVars, clientVars, chosen, faults>>

\* restore_from_snapshot: the rows in between were truncated.  The snapshot is
\* published, and a registration it covers is dropped.
Restore(n) ==
  /\ phase[n] = "up" /\ tail[n] = "rows"
  /\ ~Follows(n, First(rows[n]))
  /\ Len(snapshot) > Len(state[n])
  /\ state' = [state EXCEPT ![n] = snapshot]
  /\ view' = [view EXCEPT ![n] = snapshot]
  /\ last_snapshot' = [last_snapshot EXCEPT ![n] = Len(snapshot)]
  /\ last_seen' = [last_seen EXCEPT ![n] = Larger(@, Len(snapshot))]
  /\ IF registered[n] \in 1 .. Len(snapshot)
     THEN registered' = [registered EXCEPT ![n] = 0] /\ rx' = [rx EXCEPT ![n] = "closed"]
     ELSE UNCHANGED <<registered, rx>>
  /\ rows' = [rows EXCEPT ![n] = NoRows]
  /\ tail' = [tail EXCEPT ![n] = "fetch"]
  /\ UNCHANGED <<storeVars, phase, poisoned, results, flushVars, clientVars, chosen, faults>>

\* Mutant: the sink stops without failing its waiters.
PoisonKeepsWaiters(n) ==
  /\ phase[n] = "up" /\ tail[n] = "rows"
  /\ LET idx == First(rows[n])
     IN IF Follows(n, idx) THEN rows[n][idx] = Corrupt ELSE Len(snapshot) <= Len(state[n])
  /\ poisoned' = [poisoned EXCEPT ![n] = TRUE]
  /\ rows' = [rows EXCEPT ![n] = NoRows]
  /\ tail' = [tail EXCEPT ![n] = "stopped"]
  /\ UNCHANGED <<storeVars, phase, state, last_snapshot, view, last_seen, registered, rx, results,
                 flushVars, clientVars, chosen, faults>>

\* An unreadable row, or a gap that no snapshot covers: skipping would fork
\* this node, so the sink stops and every waiter sees its channel closed.
Poison(n) ==
  /\ phase[n] = "up" /\ tail[n] = "rows"
  /\ LET idx == First(rows[n])
     IN IF Follows(n, idx) THEN rows[n][idx] = Corrupt ELSE Len(snapshot) <= Len(state[n])
  /\ poisoned' = [poisoned EXCEPT ![n] = TRUE]
  /\ registered' = [registered EXCEPT ![n] = 0]
  /\ rx' = [rx EXCEPT ![n] = IF registered[n] > 0 THEN "closed" ELSE @]
  /\ rows' = [rows EXCEPT ![n] = NoRows]
  /\ tail' = [tail EXCEPT ![n] = "stopped"]
  /\ UNCHANGED <<storeVars, phase, state, last_snapshot, view, last_seen, results,
                 flushVars, clientVars, chosen, faults>>

StoreSnapshot(n) ==
  /\ phase[n] = "up" /\ tail[n] = "snapshot"
  /\ snapshot' = NewerSnapshot(state[n])
  /\ last_snapshot' = [last_snapshot EXCEPT ![n] = Len(state[n])]
  /\ tail' = [tail EXCEPT ![n] = "truncate"]
  /\ UNCHANGED <<log, phase, state, rows, view, sharedVars, flushVars, clientVars, chosen, faults>>

Truncate(n) ==
  /\ phase[n] = "up" /\ tail[n] = "truncate"
  /\ log' = RowsAbove(Len(state[n]))
  /\ tail' = [tail EXCEPT ![n] = "fetch"]
  /\ UNCHANGED <<snapshot, phase, state, rows, last_snapshot, view, sharedVars, flushVars,
                 clientVars, chosen, faults>>

\* Mutant: truncates although the snapshot was not stored.
SnapshotFailsTruncates(n) ==
  /\ phase[n] = "up" /\ tail[n] \in {"snapshot", "truncate"}
  /\ CycleError
  /\ log' = RowsAbove(Len(state[n]))
  /\ tail' = [tail EXCEPT ![n] = "fetch"]
  /\ UNCHANGED <<snapshot, phase, state, rows, last_snapshot, view, sharedVars, flushVars,
                 clientVars, chosen>>

\* The snapshot or the truncation returned an error, having taken effect or
\* not: retried with a later row.
SnapshotFails(n) ==
  /\ phase[n] = "up" /\ tail[n] \in {"snapshot", "truncate"}
  /\ CycleError
  /\ \/ UNCHANGED storeVars
     \/ tail[n] = "snapshot" /\ snapshot' = NewerSnapshot(state[n]) /\ UNCHANGED log
     \/ tail[n] = "truncate" /\ log' = RowsAbove(Len(state[n])) /\ UNCHANGED snapshot
  /\ tail' = [tail EXCEPT ![n] = "fetch"]
  /\ UNCHANGED <<phase, state, rows, last_snapshot, view, sharedVars, flushVars,
                 clientVars, chosen>>

-----------------------------------------------------------------------------
(* Faults.                                                                 *)

\* The process dies: proposers lose their connection, the tables stay.
Crash(n) ==
  /\ phase[n] # "down"
  /\ faults.crash < MaxCrashes /\ Fault("crash")
  /\ LET lost == Waiting(n) \cup {queue[n][i] : i \in 1 .. Len(queue[n])}
     IN status' = [c \in Command |-> IF c \in lost THEN "error" ELSE status[c]]
  /\ phase' = [phase EXCEPT ![n] = "down"]
  /\ state' = [state EXCEPT ![n] = <<>>]
  /\ rows' = [rows EXCEPT ![n] = NoRows]
  /\ tail' = [tail EXCEPT ![n] = "fetch"]
  /\ last_snapshot' = [last_snapshot EXCEPT ![n] = 0]
  /\ view' = [view EXCEPT ![n] = <<>>]
  /\ last_seen' = [last_seen EXCEPT ![n] = 0]
  /\ poisoned' = [poisoned EXCEPT ![n] = FALSE]
  /\ registered' = [registered EXCEPT ![n] = 0]
  /\ rx' = [rx EXCEPT ![n] = "open"]
  /\ results' = [results EXCEPT ![n] = <<>>]
  /\ queue' = [queue EXCEPT ![n] = <<>>]
  /\ flush' = [flush EXCEPT ![n] = "recv"]
  /\ batch' = [batch EXCEPT ![n] = <<>>]
  /\ next' = [next EXCEPT ![n] = 0]
  /\ UNCHANGED <<storeVars, answer, chosen>>

CorruptRow(i) ==
  /\ faults.corrupt < MaxCorruptions /\ Fault("corrupt")
  /\ log[i] # Corrupt
  /\ log' = [log EXCEPT ![i] = Corrupt]
  /\ UNCHANGED <<snapshot, phase, tailVars, sharedVars, flushVars, clientVars, chosen>>

-----------------------------------------------------------------------------

Open(n) == OpenLoad(n) \/ OpenFetch(n) \/ OpenReplay(n) \/ OpenFails(n) \/ OpenDone(n)

Flusher(n) ==
  \/ Recv(n) \/ LoadNext(n) \/ Register(n)
  \/ AppendWins(n) \/ AppendLoses(n) \/ AppendFails(n)
  \/ RefreshTail(n) \/ RefreshFails(n) \/ Answer(n) \/ AnswerLost(n)

Tailer(n) ==
  \/ Fetch(n) \/ ApplyRow(n) \/ Publish(n) \/ Deliver(n)
  \/ Restore(n) \/ Poison(n)
  \/ StoreSnapshot(n) \/ Truncate(n) \/ SnapshotFails(n)

Next ==
  \/ \E n \in Node : Open(n) \/ Flusher(n) \/ Tailer(n) \/ Crash(n)
  \/ \E n \in Node, c \in Command : Propose(n, c)
  \/ \E i \in DOMAIN log : CorruptRow(i)

Spec == Init /\ [][Next]_vars

\* The two tasks of a running node are scheduled and the store answers them;
\* nobody promises that a node is started or that a command is proposed.
Fairness == \A n \in Node : WF_vars(Flusher(n)) /\ WF_vars(Tailer(n))

FairSpec == Spec /\ Fairness

-----------------------------------------------------------------------------
(* Properties.                                                             *)

Batch == Seq(Command) \ {<<>>}
History == Seq(Batch)

\* Every variable holds a value of its type.
TypeOK ==
  /\ DOMAIN log \subseteq Nat \ {0} /\ log \in [DOMAIN log -> Batch \cup {Corrupt}]
  /\ snapshot \in History
  /\ phase \in [Node -> {"down", "open", "up"}]
  /\ state \in [Node -> History] /\ view \in [Node -> History] /\ results \in [Node -> History]
  /\ \A n \in Node : /\ DOMAIN rows[n] \subseteq Nat \ {0}
                     /\ rows[n] \in [DOMAIN rows[n] -> Batch \cup {Corrupt}]
  /\ tail \in [Node -> {"fetch", "rows", "publish", "deliver", "snapshot", "truncate", "stopped"}]
  /\ last_snapshot \in [Node -> Nat] /\ last_seen \in [Node -> Nat]
  /\ poisoned \in [Node -> BOOLEAN]
  /\ registered \in [Node -> Nat] /\ next \in [Node -> Nat]
  /\ rx \in [Node -> {"open", "closed", "sent"}]
  /\ flush \in [Node -> {"recv", "load", "register", "append", "await", "refresh"}]
  /\ queue \in [Node -> Seq(Command)] /\ batch \in [Node -> Seq(Command)]
  /\ status \in [Command -> {"idle", "waiting", "ok", "error"}]
  /\ DOMAIN answer \subseteq Command
  /\ answer \in [DOMAIN answer -> [node : Node, applied_index : Nat \ {0}, result : History,
                                   position : Nat \ {0}]]
  /\ chosen \in History
  /\ faults \in [{"crash", "flush", "cycle", "corrupt"} -> Nat]

\* s and t are the same history as far as both reach.
Agree(s, t) == \A i \in 1 .. Len(s) : i <= Len(t) => s[i] = t[i]

Replicas == {snapshot} \cup {state[n] : n \in Node} \cup {view[n] : n \in Node}
              \cup {answer[c].result : c \in DOMAIN answer}

\* The same log gives the same state on every node: tailer states, published
\* views, the snapshot row and every answer handed to a proposer are prefixes
\* of one history, through lost slots, gaps, reinstalls, crashes and
\* unreadable rows.
Agreement == \A s, t \in Replicas : Agree(s, t)

\* A proposer is answered with the result of its own command, at the index its
\* row took, never with that of a row that won the same slot.
AnsweredOwn ==
  \A c \in DOMAIN answer :
    LET a == answer[c]
    IN /\ Len(a.result) = a.applied_index
       /\ a.position <= Len(a.result[a.applied_index])
       /\ a.result[a.applied_index][a.position] = c

\* What the tables hold at index i.
StoredAt(i) == IF i <= Len(snapshot) THEN {snapshot[i]} ELSE {log[j] : j \in DOMAIN log \cap {i}}

\* An acknowledged command survives every later crash, snapshot and truncation:
\* the tables hold its row at the index it was acknowledged with.
AckedDurable ==
  \A c \in DOMAIN answer :
    \E b \in StoredAt(answer[c].applied_index) :
      b = Corrupt \/ (answer[c].position <= Len(b) /\ b[answer[c].position] = c)

\* Truncation never outruns the snapshot: the tables can rebuild every index.
Rebuildable == \A i \in 1 .. LastIdx : StoredAt(i) # {}

\* A proposer that got its answer sees its own write in the views of its node,
\* also after that node restarted.
ReadYourWrites ==
  \A c \in DOMAIN answer :
    phase[answer[c].node] = "up" => Len(view[answer[c].node]) >= answer[c].applied_index

\* No command is applied twice, whatever its proposer was told.
AppliedOnce ==
  \A n \in Node : \A i, j \in 1 .. Len(state[n]) :
    \A p \in 1 .. Len(state[n][i]), q \in 1 .. Len(state[n][j]) :
      state[n][i][p] = state[n][j][q] => i = j /\ p = q

\* Every proposal is answered: the flusher never waits for results that the
\* tailer will not deliver.
EveryProposalAnswered == \A c \in Command : status[c] = "waiting" ~> status[c] # "waiting"

-----------------------------------------------------------------------------
(* The promise: the rows in the order they took their index are the        *)
(* history of a linear log.                                                *)

Linear == INSTANCE LinearLog WITH
  history <- chosen,
  index <- [c \in DOMAIN answer |-> answer[c].applied_index],
  live <- {n \in Node : phase[n] = "up"}

\* Flushers, tailers and restarts together implement the linear log.
ImplementsLinearLog == Linear!Spec
=============================================================================

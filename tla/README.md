# Verification of PicoMQ

PicoMQ serves durable streams over HTTP. Records go to an object-storage WAL and
from there into objects in a bucket; who owns a stream, which objects hold it and
what may be deleted is metadata, a state machine that every node replicates from
one SQL table. This directory holds TLA+ models of that system, TLC configurations
that check them on small instances, and TLAPS proofs for every size.

## The system and its parts

| Part | Code | Role |
| --- | --- | --- |
| metadata state machine | `pico-metadata/src/apply.rs`, `state.rs`, `command.rs` | eighteen commands over stream, node, object and key-value tables; pure, so replicas agree |
| command log | `pico-sql/src/sink.rs`, `store.rs`, `pico-metadata/src/view.rs` | per node a flusher (group commit into the next free row) and a tailer (apply, publish a view, answer, snapshot, truncate) |
| lease, cleaner | `pico-sql/src/lease.rs`, `pico-metadata/src/lifecycle.rs` | one node at a time expires leases and deletes the objects of the destruction queue |
| managers, queries | `pico-metadata/src/manager.rs`, `query.rs` | the engine's view of the metadata |
| stream engine | `s3stream-core/src/stream.rs`, `storage/` | append, confirm, cache, upload pipeline, recovery |
| object WAL | `s3stream-wal/src/object/` | bulks uploaded in parallel, confirmed in order, trimmed after commit |
| failover | `s3stream-core/src/failover.rs` | a live node uploads a dead node's WAL |
| caches | `s3stream-core/src/cache/` | log cache behind the pipeline, block cache in front of objects |
| compaction | `s3stream-core/src/compact/` | rewrites stream-set and stream objects, commits through the metadata |
| service | `pico-server/src/` | named streams, idempotent producers, lazy open, transfers, long polls |
| frontend, client, CLI | `pico-frontend`, `pico-client`, `pico-cli` | HTTP, batching producer with retries, tools |

A write goes client → frontend → service → stream → WAL (acknowledged here) →
log cache → upload → `CommitStreamSetObject` through the log → WAL trim.
Everything a node decides about ownership or garbage goes through the log and is
fenced there by node epochs and stream epochs.

`PROJECT.json` lists every part with its status and every hazard with the
properties that would catch it.

## Modules

    Maps ── StreamControl ── ObjectControl ── Metadata ── MCMetadata
                                                 └─ Metadata{Type,Control,Object,Loss,Index}Proofs
    Maps ── SqlLog (INSTANCE LinearLog) ── MCSqlLog

**Maps.** Insert and remove of the ordered maps the metadata state is made of.

**StreamControl.** The node and stream half of `apply.rs`. Variables are the fields
of `MetadataState` with their names, plus `granted`, a history of every
(stream, epoch, node) an open handed out. One action per command that changes
state: `RegisterNode`, `CreateStreams` (and `CreateStream`, its batch of one),
`PlaceStream`, `OpenStream`, `TrimStream`, `CloseStream`, `TransferStream`,
`CompleteTransfer`. A command that the code refuses, or recognises as a repetition,
changes nothing (`apply` works on a clone) and is a stuttering step.

**ObjectControl.** The object half: `PrepareObject`, `CommitStreamSetObject`,
`CompactStreamObject`, `ExpirePreparedObjects`, `CleanDestroyedObjects`,
`DeleteStream`. The secondary indexes are variables of their own and every action
maintains them the way the code does, entry by entry. `written` is a history of
what each object id was committed with: objects in the bucket are immutable.
Sizes, attributes and timestamps are left out; no guard reads them.

**Metadata.** The whole state machine: key-value commands, the requests that
uploaders and compactors may build, `Next` with one disjunct per command, and the
properties. The state machine does not check everything it relies on, so the
requests state the contract of their builders: object ids were leased and never
committed before, an upload names each stream once, and a compaction's output holds
every offset of its inputs that retention has not passed. Requests may be built
from any older view: sources may be gone, streams deleted, epochs passed.

**SqlLog.** The command log with all its concurrency: every node runs `open`, a
flusher and a tailer over the two shared tables, and every `await` separates two
actions. `apply` is pure, so a metadata state is modelled by the sequence of rows
it was built from and the applied index by its length. Modelled: the queue and its
depth, group commit, the load of `last_seen` before the registration before the
append, lost slots, errors of every store call of the flusher and of the snapshot
cycle (the append and the snapshot calls may have taken effect although they
returned an error), publishing before delivering, gaps and reinstall, unreadable
rows and poisoning, crashes and cold start against concurrent truncation.
`chosen` is a history of the batches in the order they first took an index.
In the tailer, errors of `fetch_after` and `load_snapshot` are retried without effect
and are stuttering steps; in `open` they end the start, which `Crash` stands for.
Two simplifications: loading and installing a snapshot is one step, so the model has
no second snapshot cycle between the two; and a task that saw an empty fetch tries
again at any time instead of after a nudge or a poll interval.

**LinearLog.** What a `CommandSink` promises: one history, each proposal in it at
most once, an answer only for a command that is in the history and visible on the
proposer's node, a sink that opens with everything committed, views that only grow.
`SqlLog` refines it with the history mapped to `chosen`.

**MCMetadata, MCSqlLog.** The modules TLC runs; `MCMetadata` also states two
sentences of the design documents that the code does not implement.

Operators named in a comment as *mutant* are deliberate bugs; replacing the
definition that follows them makes the named property fail. Nothing else uses them.

## Runs

Metadata, `Spec`, deadlock checked:

| Run | Instance | Shows |
| --- | --- | --- |
| `metadata_control` | 2 nodes with 2 incarnations, 2 streams, 2 stream epochs, slots 0 and 1, no objects | `OwnershipIndexes`, `EpochGrantedOnce`, `TransferWellFormed`, `RowsMoveForward` |
| `metadata_objects` | 1 stream, offsets 0..2, 3 object ids, 2 clock readings | `TypeOK`, `ObjectIndexes`, `ObjectIdentity`, `RangesWithinStream`, `NoDataLoss` |
| `metadata_two_streams` | 2 streams in shared stream-set objects, offsets 0..1, 3 object ids | `ObjectIdentity`, `RangesWithinStream`, `NoDataLoss` |
| `metadata_owner`, `metadata_expiry` | 1 or 2 nodes, 1 stream | violations: see Findings |

Two nodes suffice for ownership because a row names one owner and one pending
target; two epochs give a stale and a current request. Three object ids give an
upload, its compaction output and a second one; `MaxSeq` 4 is above what they can
queue. The proofs below remove these bounds.

Command log:

| Run | Instance | Shows |
| --- | --- | --- |
| `sql_log_writers` | 2 writers, 3 commands, batches of 2, snapshots off, 1 crash, 1 flusher error, 1 unreadable row | `TypeOK`, `Agreement`, `AnsweredOwn`, `ReadYourWrites`, `AppliedOnce`, `ImplementsLinearLog` (refinement of `LinearLog`) |
| `sql_log_follower` | 1 writer and 1 follower, snapshot after every row, a failing cycle, an unreadable row | `Agreement`, `AckedDurable`, `Rebuildable` |
| `sql_log_single` | 1 node, snapshot every 2 rows, 2 crashes, a failing cycle, an unreadable row | `AckedDurable`, `ReadYourWrites`, `AppliedOnce` |
| `sql_log_live` | 2 writers, 2 commands, snapshots off, 1 crash, 1 flusher error, 1 unreadable row | `EveryProposalAnswered` |
| `sql_log_fork`, `sql_log_answer`, `sql_log_stuck` | snapshots after every row | violations: see Findings |

Three commands give a lost slot, a retry and a row after it; `FetchLimit` 1 or 2
gives tailers that need several fetches; `SnapshotEvery` 1 or 2 stands for the 1024
of the default configuration, so that a node lags by a snapshot cycle within a few
rows. Deadlock is not checked: once every command has been proposed and answered
the system rests. Commands are interchangeable, so the safety runs use symmetry.

Fairness (`FairSpec`, for the two runs about `EveryProposalAnswered`): weak fairness
of the flusher and the tailer of a node. Both are tokio tasks that only wait for the
store, for each other or for a poll interval; errors of the store are bounded by the
fault counters, so a call eventually gets through. No fairness is assumed for
starting a node, proposing a command or any fault.

## Findings

* `sql_log_fork`: a free primary key is not a free slot. A flusher that loaded
  `last_seen` before another node snapshotted and truncated appends below the
  snapshot; nodes that had not applied the index apply the ghost row and fork.
  `truncate_log` takes every row up to the applied index, so one row is enough: the
  flusher loaded index i, and before its insert another node appended row i, applied
  it and finished a snapshot cycle there. The interval only decides how often a cycle
  ends; the run uses an interval of 1.
* `sql_log_answer`: the same slot reuse on one node, after an append that returned
  an error although its row landed: success is reported for a command that is
  never applied.
* `sql_log_stuck`: an empty fetch is taken for the tip of the log, also when the
  next row was truncated; the proposal that waits for it hangs, and every later one
  behind it.
* `metadata_owner`: uploads are fenced by node epoch, not by stream ownership, in
  contrast to `ownership.md`.
* `metadata_expiry`: expired leases are not queued for destruction, in contrast to
  `gc.md`. (The same page says a trim removes objects from the live indexes;
  `trim_stream` only moves the start offset, as `TrimStream` shows.)

The passing runs stay clear of these triggers, and show less for it:
`sql_log_writers` and `sql_log_live` switch snapshots off, `sql_log_follower` has one
writer without append errors and crashes, `sql_log_single` has no append errors.
The default configuration, several writers with snapshots on, is covered only by the
violations.

## Proofs

Five modules, each extending the one before (`MetadataTypeProofs`,
`MetadataControlProofs`, `MetadataObjectProofs`, `MetadataLossProofs`,
`MetadataIndexProofs`), prove for all nodes, epochs, offsets, requests and bounds what
the passing metadata runs check. The assumptions are the typing
assumptions on the constants in `StreamControl` and `ObjectControl`.

* `TypeCorrect`: `TypeOK` is inductive.
* `EpochFencing`, `OwnershipIndexesExact`, `TransfersWellFormed`: each is inductive
  together with `TypeOK` (the transfer invariant also uses the epoch invariant: the
  source's grant is below the stream's epoch and stays there).
* `RowsForward`: each action by itself moves rows forward.
* `OneFatePerObject`, `NothingLost`, `ObjectsWithinStreams`: none is inductive
  alone. Their conjunction `ObjectInv` adds `StreamObjectIndex` (the row of an id is
  under the key the id index names) and `Contents`: a live object still holds
  exactly what it was committed with. `NoDataLoss` needs `Contents` because the
  contract of a compaction speaks about what its sources were committed with, and
  `ObjectIdentity` because a stale source must not name a live object of another
  kind.
* `ObjectIndexesExact`: the four index invariants, each inductive with the types.

The argument for `NothingLost`: a commit only removes objects it names; what it
removes is covered, by the contract, by what it inserts; uploads extend a stream
exactly at its end, so the offsets between start and end stay covered; trims and
deletes only shrink what must be covered.

Only model-checked: everything about `SqlLog` (see the plan), and every liveness
property. Liveness under fairness is outside the prover's reach, and so is what a
recursive definition computes for every input.

## Not modelled, and the plan

1. `SqlLogProofs`: `Agreement`, `AnsweredOwn` and the refinement of `LinearLog` for
   any number of nodes and commands, with snapshots off.
2. `Lease` and the cleaner: keepers with their own clocks over the lease row,
   fenced release, two leaders in a handover, composed with the destruction queue.
3. Redelivery of commands to `Metadata`, and the compaction passes as its clients
   (coverage contract, cleanup of expired objects, liveness of a pass).
4. The object WAL (bulks, in-order confirmation, trim, recovery, late objects of an
   old incarnation) with an abstract WAL as its promise.
5. The storage engine over the abstract WAL and `Metadata`: append to confirm to
   upload to commit to trim, crash and recovery, failover by another node; no
   acknowledged record is lost, none is read before it is confirmed.
6. The service: producers and their sequence numbers, entry cache, transfers with
   the node-side drain, waiters; composed with the client's retries.
7. Pure algorithms against reference definitions: `get_objects`, `validate_producer`,
   the compaction planner, the sparse index.

Left out for good: byte layouts (codecs, object format, snapshot encoding), HTTP
parsing, configuration, metrics and rate limiting.

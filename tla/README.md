# A TLA+ model of outl

outl is a local-first outliner. Every device keeps the whole workspace as a log
of operations, one file per actor; the outline is what the tree CRDT makes of
that log. Devices exchange log lines (P2P over iroh, or any file
synchroniser), keep a snapshot of the materialised outline as a boot cache, and
project pages to Markdown files. This directory holds TLA+ modules of the parts
of it that decide whether two devices end with the same outline and whether an
edit can disappear, TLC runs over small instances, and TLAPS proofs.

Paths below are relative to `crates/` of the repository.

## 1. Inventory

| component | where | state | operations |
|---|---|---|---|
| Tree CRDT, op log | `outl-core/src/tree`, `log.rs`, `op.rs` | `Tree` (nodes, registers, `created_by`), `OpLog.ops` sorted by HLC | `apply_op` = `contains_ts`, undo newer, `do_op`, redo |
| Hybrid clock | `outl-core/src/hlc.rs`, `workspace/clock.rs` | `State {physical_ms, logical}` under a mutex | `next`, `observe`, `seed`; `seed_clock` at boot and reload; the skew window |
| Workspace, batches | `outl-core/src/workspace.rs`, `workspace/batch.rs` | tree, log, text, pending batch, storage routes | `open_with_storage`, `apply`, `begin_batch` / `end_batch` |
| Snapshots | `outl-core/src/snapshot.rs`, `snapshot/gc.rs`, `workspace/snapshot_policy.rs` | `snap-<actor>.bin`, worker threads, counter | build, write, pick, adopt or refuse, sweep |
| Op-log files | `outl-core/src/storage` | `ops-<actor>.jsonl`, offset index, census | append (heal a torn tail, fsync), read, deltas, compaction |
| Locks, actors | `outl-core/src/lock.rs`, `outl-ws/src/actor.rs` | lock files | one writer per log; an ephemeral actor for a second process |
| Reload | `outl-tauri-shared/src/workspace_reload.rs`, `outl-actions/src/sync.rs` | the live workspace slot | replay on another thread, compare, swap |
| P2P sync | `outl-sync-iroh/src` | vector clocks, append lock, in-flight set, pending floors, peer list, lease | delta sync, gossip, catch-up, pairing, removal, snapshot pull |
| Projection | `outl-md/src`, `outl-actions/src` | `.md` files, sidecars | render, parse, match, reconcile, guard, recover |
| Clients | `outl-tui`, `outl-cli`, `outl-desktop`, `outl-mobile` | user interface | commands over the actions; reload triggers; exit |
| Plugins | `outl-plugins/src` | JavaScript hosts | commands; `sync_pull` / push |
| The rest | import, exec, config, shortcuts, theme, telemetry, tooling | none of the document's | parsers, settings, reporting |

`PROJECT.json` names the files of each and says what is modelled of it.

How they interact. A client calls an action; the action asks the clock for a
timestamp and calls `Workspace::apply`, which applies the operation to the tree
and appends it to the device's own file. The sync engine never touches the
workspace: it appends peers' operations to their files, and a message to the
client makes it *reload*, that is, open a second workspace from disk on another
thread and swap it in under the workspace mutex. Snapshot workers are threads
that hold a copied body; they outlive the workspace that spawned them. Peers'
snapshots appear in the same directory by rename. The clock is shared by the
live workspace, the replays and the plugin host.

What is hard in it, and what makes each part correct:

* *Order of arrival.* Operations come late, repeated, and before what they
  refer to. Correct: same operations, same tree; undo exact; no cycle, ever; a
  repeated operation changes nothing (section 3).
* *Clocks.* The wall clock jumps; restarts forget the counter; a peer's clock
  is wrong; counters are finite. Correct: what is issued sorts after what was
  seen, nothing fresh is taken for a repetition, and nobody else's clock carries
  this device's beyond what its peers accept (section 4).
* *Caches that decide what is read.* A snapshot hides every operation below its
  cutoff. Correct: what it hides it holds, and booting from it is the same as
  replaying (section 5).
* *Edits during a replay.* Correct: a swap never takes an edit away (section 5).
* *Log files.* Sidecars are older than the file, half written, or saved by a
  reload of the same process or by another one; a line is torn; a log is
  rewritten. Correct: what was confirmed stays, an index that is taken for whole
  is whole (it is not always: section 6), and compaction changes nothing anybody
  sees.
* *Exchange.* Lost acknowledgements, several exchanges at a time, gaps, relays,
  crashes in the middle of a batch. Correct: every operation reaches every
  device, once, without holes, and then the exchanges are empty (section 7).
* *Who takes part.* Pairing, removal, rotation of the identity, gossip of peer
  lists. Correct: a removed device stays removed, a paired one stays paired, and
  the others come to know them (section 8).
* *Three copies of a page.* File, sidecar and tree are read and written at
  different moments. Correct: no line that no operation holds is overwritten, as
  far as a file can be read before it is replaced, and the copies come to agree
  (section 9).

The hazards of the code are listed one by one, with file and line and the
properties aimed at each, in `PROJECT.json`.

## 2. Modules and plan

| module | models | status |
|---|---|---|
| `TreeState` | the tree as a value; `creates_cycle`, `do_op`, `undo_op` | done |
| `TreeCRDT` (extends `TreeState`) | replicas running `apply_op` step by step | done |
| `ConvergentTree` (extends `TreeState`) | the abstract specification: a set of operations and its replay | done |
| `TreeRefinement` (extends `TreeCRDT`, instantiates `ConvergentTree`) | the mapping | done |
| `TreeStateProofs` (extends `TreeState`) | lemmas on `DoOp`, `UndoOp` and `Replay` | proved |
| `TreeCRDTProofs` (extends `TreeRefinement`) | theorems of `TreeCRDT` and the refinement | proved |
| `MCTree` | instances for TLC | done |
| `Hlc`, `MCHlc` | one device's clock against its log | done |
| `HlcProofs` | theorems of `Hlc` | proved |
| `SnapshotBoot` | workspace, storage index, snapshots, reload, crash | done |
| `SnapshotBootProofs` | theorems of `SnapshotBoot` | proved |
| `OpLogFiles` (extends `TreeState`), `MCOpLogFiles` | one device's `ops/`: log files, sidecars, processes and reloads, `outl compact` | done |
| `OpLogFilesProofs` | theorems of `OpLogFiles` | proved |
| `LogExchange` | the abstract specification of the exchange: who writes which log, and that it spreads | done |
| `DeltaSync` (instantiates `LogExchange`), `MCDelta` | the exchange of logs between devices | done |
| `DeltaSyncProofs` | theorems of `DeltaSync`, the safety half of its refinement | proved |
| `Membership`, `MCMembership` | peer lists, identities, pairing, removal, rotation, gossip | done |
| `MembershipProofs` | theorems of `Membership` | proved |
| `Projection`, `MCProjection` | one page as file, sidecar, logs and memories | done |
| `ProjectionProofs` | theorems of `Projection` | proved |

How they fit together. `OpLogFiles` justifies what `SnapshotBoot` and
`DeltaSync` take for granted of a file (an append is there or it is not, an
index is whole); `DeltaSync` justifies what `SnapshotBoot` takes for granted of
a peer's log (`NoHoles` is its `Gaps = FALSE`); `TreeCRDT` justifies that a set
of operations stands for a document. `Membership` says which pairs are in the
`Dials` of `DeltaSync`. `Projection` uses a set of operations as a tree in the
same way. What one module assumes of another is an operator or a constant there,
never an axiom.

Every safety property that a run checks is also a theorem, some of them under
hypotheses that section 11 names. The modules declare no `RECURSIVE` operator
and name their assumptions for that purpose.

Conventions. An operator whose comment begins *Mutated form* is a plausible bug
in the definition beside it; no definition uses it. The `mutants` of
`PROJECT.json` put it in the place of that definition and TLC then finds the
property violated, so that every property is known to depend on the code.

## 3. The tree CRDT

`TreeState` keeps a tree as a record: `parent` and `pos` (the value of the
`nodes` map, split), `reg` (the maps `properties`, `collapsed` and `snoozed`,
which have one shape) and `made` (`created_by`). `DoOp`, `Captured` and
`UndoOp` are `do_op`, the `old_*` fields it fills in, and `undo_op`.
`CreatesCycle` states the walk of `creates_cycle` as membership in every
parent-closed set, a form without recursion. An `Edit` does nothing to a tree.
Identifiers, positions and values are model values.

`TreeCRDT` has one variable per thing a replica holds: `tree`, `log`, and the
two locals of `apply_op`, `cur` and `undone`. One action per step of it:
`Issue` or `Deliver` (the call and its `contains_ts` check), `UndoStep`,
`DoStep`, `RedoStep`. `&mut self` excludes everything else of that replica
meanwhile; other replicas go on. Delivery is any operation at any time, as often
as one likes, which covers P2P, file transports and replays from disk.
`Issue` may only use identifiers found in the replica's own tree, except that
a `Create` may repeat a node, as page roots do (`NodeId::from_slug`). `Seeded`
says whether clocks are above what the replica has seen; only
`RootedOnceDelivered` needs it.

The run `tree` has two replicas, three blocks, three operations and seeded
clocks. It starts from an empty page and from one that was loaded from disk with
a block under another and one without a record. `MCTree` names the operations:
Creates (one of them under a block that comes later, one of a node that exists
twice), Moves that make cycles of two and of three blocks, a Move to the trash,
a register, an Edit. It shows `TypeOK`, `LogSorted`, `TreeValid`, `Convergence`,
`UndoExact`, `RootedOnceDelivered`, `NothingForgotten` and
`ImplementsConvergentTree` on 166,334 states.

Why these bounds are enough to be interesting: two moves make a cycle and a
third, older, decides which of them is taken; three blocks allow the cycle of
length three that pairs do not; a Create that arrives after a Move of its block
and after the Create of a child are both there. Two replicas suffice for
convergence, which is about pairs. `Replica` is a symmetry set, which is sound
for the safety properties of this run: all of them treat replicas alike.
Deadlock is checked: `Deliver` of a repeated operation is always possible once
there is one. `docs/crdt.md`, line 498, has every node reachable from `ROOT` or
`TRASH_ROOT`; that is false by design (`tests/tree_shape_property.rs` says so),
and what holds is `RootedOnceDelivered`: proved when clocks are seeded and no
boot tree has a block under a missing parent.

`TreeRefinement` maps the reorder loop to the atomic specification: an
operation is seen from the step that appends it, and while later entries wait to
be redone the promised view is the replay of what is in log and stack. That
`TreeCRDT` implements `ConvergentTree` is proved (section 11).

## 4. The clock

`Hlc` has the generator's `State`, the wall clock, the timestamps in memory
(`mem`) and on disk (`disk`), and two history variables: the largest timestamp
this process met, and whether a seed of this process was clamped. Widths are
parameters (`MaxMs`, `MaxLogical`), so that carry and saturation are reached.
Actions: the wall clock moves, `Write` (an edit), `Pull` (the plugin host:
gate, `observe`, apply in memory only because the storage refuses another
actor's operations), `Arrive` (a peer's line, without gate: the file transports
have none), `Reload`, `Boot`.

The run `clock` uses 4 milliseconds, 2 counts, a window of 1, two actors and at
most two operations in a log when one is added: all the combinations of full
counters, last millisecond, clock before and beyond the window occur. It shows
`IssuesRise`, `RecordedUnlessClamped`, `RaisesStayInWindow`. Two
exceptions are part of what is stated. After the largest timestamp of all
(`u64::MAX`, `u32::MAX`) has been met the millisecond saturates and the
counter starts again, so the clock runs backwards (`Exhausted`). And a log that
holds a timestamp beyond the window has the seed clamped below it, so that a
later process may issue a timestamp the log holds; `contains_ts` then drops the
edit. The code chooses the clamp knowingly (`clock.rs`); the property says that
nothing else drops an edit.

## 5. Snapshots, boot and reload

`SnapshotBoot` is one device. A materialised document is the set of operations
folded into it (`folded`) and whether that was once each and in HLC order
(`exact`): a document that is exact is the replay of its set, by section 3. A
workspace has the storage `index` (built at open, grown by its own appends
only), the adopted body, the `resident` log and the `queue` of its chained
workers. A snapshot file is a body with its per-actor cutoff.

* `Apply`, `Buffer`, `EndBatch`: `Workspace::apply` without and under a batch
  guard, each with the outcomes of a failing append (the operation stays in
  memory; the line may be on disk without being indexed; of several shards some
  may be done).
* `Appended`: after an append a snapshot may be taken or not. The counter and
  its threshold are left out, they only decide when.
* `WriteLive`, `WriteReplay`, `WriteDetached`: a worker publishes (or fails)
  and sweeps. Workers of one workspace go in order; those of a workspace
  that was swapped out go in any order beside them.
* `Arrive`, `PullSnapshot`, `Damage`: operations and snapshots of peers, and
  files that do not decode. A pulled body may be ahead of this disk, since
  the pull follows a delta sync that may have failed. With `Gaps = FALSE` an
  actor's operations reach the disk in order.
* `Boot`: selection (own file, else the best peer's), the convergence guard,
  delta or full replay. `Quit` is the TUI's exit, `Crash` is a kill and also how
  the GUI and the CLI end.
* `StartReload`, `Replay`, `OpenToday`, `FinishReload`: `publish_replayed`.
  The marker is taken and the log scanned; the snapshot is chosen later;
  `open_today` may write the journal of the day in the replay; the length is
  compared and the workspace swapped or discarded. A retry is a new reload.

`amiss` and `orphan` are history variables that name the exceptions the
properties make, so that everything else is still claimed:

* `"append"`: an append failed. The operation is in memory and in no file, and
  `apply` has returned the error; a full replay does not have it.
* `"early"`: a body ahead of the index was adopted. Operations that are folded
  in arrive later and are applied again.
* `orphan`: the journal page created by a replay that was then discarded is in
  the log and not in the live workspace.
* `"today"`: that operation overtook an edit, on disk or in a snapshot body.

The run `snapshot` has two actors, three timestamps whose authors are chosen
initially, one reload at a time and one body in each queue: enough for a
snapshot, an operation below and one above its top, a stale detached worker and
an edit during a replay, in all orders. It shows `NothingHidden`,
`ViewIsReplay` and `LocalOpsShown`. Deadlock is checked: a process can always be
started or killed.

Two runs show what is not so, each with the shortest counterexample TLC finds:

* `snapshot_gap` (`Gaps = TRUE`): an operation that arrives after a later one of
  the same actor was recorded in a cutoff is not shown by a boot from that
  snapshot. `docs/storage.md` calls the cutoff exact because timestamps rise;
  order of issue is not order of arrival, as the gap repair in
  `outl-sync-iroh/src/oplog_census.rs` knows. `NoHoles` (section 7) says that the
  exchange by itself leaves no gap; a damaged line, or a file synchroniser, does.
* `snapshot_reloads` (two reloads): the length of the resident log is no marker
  across a swap, because the workspace swapped in has a log of another length.

In both the operation is still in the log; what is lost is that it is shown,
until a boot replays the whole log. The three properties are proved for all
parameters under exactly the two conditions these runs take away: `InOrder` (no
gaps) and `OneReload` (section 11).

## 6. Log files and compaction

`OpLogFiles` is the directory `ops/` of one device: per actor a file (a sequence
of lines, each an operation or a torn fragment), whether its last line lacks
the newline, and the two sidecars. A line number stands for a byte offset. A
`JsonlStorage` (`store`) holds its own two indexes in memory, and a process
(`Owner`) may have several open: the one it booted with and one per reload of its
workspace that is under way.

* `Start`, `ReadFile`, `SaveOffsets`, `SaveNodes`, `SaveFails`, `Stop`: opening,
  one file at a time. `Fresh` is the verdict of `fresh_offset_index` on what a
  sidecar covers: exact, behind (the tail is read and the sidecars saved),
  unusable (all is read and saved). The two sidecars are saved one after the
  other.
* `Reload`, `Replace`: `SyncEngine::reload_workspace` opens a further storage of
  the same actor, on a thread of its own and with no lock, while the live one
  appends; it goes through the same steps as a boot, the saves included. Then
  `publish_replayed` drops one of the two, the old one under the mutex of the
  workspace or the new one. `SnapshotBoot` says which; here both may happen.
* `Begin`, `WriteLine`, `EnterOffset`, `EnterNode`, with `WriteFails`,
  `OffsetFails`, `NodeFails`: an append, of one operation or of a batch: line
  after line, the fsync with the last one, then an entry per operation in each
  sidecar. A failing entry is a warning in the code, and is one here.
* `Ingest`: a peer's line, in its author's order, which touches no sidecar.
* `Crash`: the process is killed at any of these points; a line it was writing
  may be torn. `Put` is the healing of a torn tail.
* `Plan`, `Check`, `Rename`, `DropOffsets`, `DropNodes`, `CompactEnds`:
  `outl compact --apply`. `Droppable` has the six conditions of `droppable`; the
  tree they ask is the one of `TreeState`. Between plan and check the lock is
  free; between check and end it is exclusive; the command may die anywhere.

Only the live storage of the process that holds the write lock appends. In the
code a reload that misses the page of today makes it (`open_today`), through a
storage that is not published yet; the comment at `append.rs:94` knows one writer
only. `SnapshotBoot` has that append; here it is left out, and with it two appends of
one process that run into each other.

The run `files` has four timestamps of which the second is a peer's, one block
that is made, moved, trashed and brought back, one process with its live storage
and one reload at a time, and two faults (817,869 states): a batch, a torn line,
the restart over it, a reload that saves while a batch is half entered, an ingest
between two plans and a compaction that dies half way fit in. It shows
`NothingDurableLost`, `IndexIsWhole`, `OffsetsTrue` and `DiskReplaysHistory`.
The two storages are a symmetry set: they differ in nothing but their names. The
horizon of a compaction is the assumption that every operation of a peer up to the
cutoff has come in (`settled`); `--no-horizon` and `--force` give that up and
are not covered. Deadlock is not checked: when timestamps and faults are
used up and nothing is to be compacted, nothing has to happen.

What indexes may suffer from is recorded in `excuses`, and the properties name
what they except:

* `"failed write"`: a sidecar could not be saved, an entry not appended, an
  append failed halfway. Neither property on indexes is claimed after that.
* `"overtaken"`: a storage has saved a sidecar of the own file that lacks what
  was appended since it read the file. `IndexIsWhole` is not claimed after that,
  `OffsetsTrue` still is.
* `"cut off"`: a compaction has ended between its rename and the removal of the
  sidecars. Both properties are still claimed if that was one of two faults and
  no sidecar was overtaken, and not otherwise (`Misled`).

The second exception is a hole of the code and needs no fault and one process
only: `files_shared` (`MaxFaults = 0`) violates `NoHoles`, which is `IndexIsWhole`
without it. A reload reads the file, the live storage appends and enters, the reload
saves the sidecars it built before that, the live one appends again with an entry of
its own. The sidecars then end where the file ends, `fresh_offset_index` looks only
there, and the next reload or boot never indexes the operation in the hole, although
`index.rs` says that a disagreement of line counts makes it rebuild. The operation is
still in the file: what misses it is what is read through the indexes (the delta
above a snapshot's cutoff, the history of a block) until the sidecars are rebuilt.

The third has a boundary that matters. With three faults one process violates
`OffsetsTrue` and `IndexIsWhole` if `Misled` does not excuse it. An append dies between
its line and its sidecar entries, so the sidecars end early. A compaction renames the
shorter log into place and dies before it removes the sidecars. The next boot finds
the offset sidecar to be of another file, reads everything, saves it, and dies before
the node sidecar is saved. The boot after that compares what the two sidecars cover by
the end of what they list only, and takes the stale one for whole, although `read.rs`
says that the pair is validated to cover the file exactly. Two faults do the same in
two other cases: when the sidecars end early because a reload saved them so
(therefore `"overtaken"` in `Misled`), and when a second process boots between the two
saves of the first instead of after its death. TLC finds all three within the bounds
of `files`, when `Misled` is weakened or `Owner` has two processes. So what is claimed
of a compaction that is cut off is claimed of one process, and `MaxFaults = 2` is the
largest bound of the run at which the property says all it says: with more, more is
excused. `TwoFaultsMisleadNobody` proves it for every bound. Where no compaction is cut
off, any number of processes, reloads, crashes and kills leave offsets true and, until
overtaken, indexes whole (`OffsetsLeadToTheirLines`, `IndexesStayWhole`).
`NothingDurableLost` and `DiskReplaysHistory` hold for any processes and faults
(section 11).

## 7. The exchange of logs

`DeltaSync` is a set of devices, each writing as one actor. An operation is its
author and its place in the author's sequence: that is all of an HLC that
clocks, counts and dedup look at. `lines` says how often a device has a readable
line of an operation. An exchange has two halves that run concurrently
(`phase`), frames on a `wire`, and for each half the `batch` it still has to
append.

* `Dial`, `Push`, `Synced` are `delta_sync_inner`; `SendClock`, `SendOps`,
  `Confirm` are `serve_exchange`. Both read the log anew for each of these.
  `OpsMissingFor` is `ops_missing_for`: above the peer's maximum, or all of it
  when more lies below that maximum than the peer counts. The catch-up tick, a
  gossip announce and a forced pass are all `Dial`; `try_acquire_in_flight` lets
  one of them in.
* `Receive`, `Dedup`, `AppendFile` are `ingest_received_ops`: the skew gate
  before the lock, the dedup and the refusal of own operations under it, one
  append per author's file.
* `LoseConnection`, `AppendFails`, `Crash` (with the part of a batch that was
  written), `Damage` (a line of a peer's file becomes unreadable), `Compact`
  (what `outl compact` does to the device's own file): the faults, bounded by
  `MaxFaults`. `DialFails` and `ServeFails` are what the other half notices.

The run `delta` is a row: a and c dial b, a writes two operations, the second
stamped by a clock that is ahead until `WindowPasses`, the first one damageable
and droppable, one fault (236,922 states). All that a has reaches c through b,
so relays, holes and equal counts occur; one fault is one of each kind in every
place. It shows `OneLineEach`, `NoHoles`, `ConfirmedIsDurable`,
`FloorIsEarned`, and under fairness `Converges` and `FallsQuiet`. Deadlock is
checked: a dial is always possible.

`ImplementsLogExchange` is the refinement: with the operations of the logs'
lines as `held`, every step is one of `LogExchange` or leaves it alone. There
`Write` is the only step by which a device's log gains operations of its own,
`Learn` brings operations of others that were written, `Forget` is a compaction
or a damaged line, and the fairness of `Spread` says that what one device goes
on holding reaches the others. It has no clocks, so it does not tell how.

`FloorIsEarned` has a term that the proof asked for and the run did not: lines
that a dialling device loses to damage between the clock it sends and the
operations it pushes. The peer's clock counts what was announced; the floor may
then be above what the peer got by as many operations as were lost (`Lost`).

What the properties leave room for is by the code. An operation the skew gate
drops is acknowledged as durable and counted by the floors (`refused`), contrary
to the comment in `pending.rs`; it comes again once its time has come. A device
that compacted never takes its own operations back (`compacted`).

`delta_compacted` shows the price of the latter: after a compaction the counts
never agree again, and every dial carries the whole log of that actor, to be
dropped. RFC 0256 and `docs/storage.md` expect such operations to be delivered
again until the log has them.

## 8. Membership

`Membership` has per device the id in `.outl/workspace-id` (`id`), the entries
and tombstones of `peers.json` (`peers`, `revoked`), and of its sync process the
id it holds (`live`), its gossip topic with the peers it was joined through
(`topic`) and a pending resubscription (`signal`).

* Every writer of `peers.json` reads the file anew under `PeersWriteLock` and is
  one step: `Add`, `Drop`, `Merged`, the update in `Refresh`.
* `Arm`, `Handshake`, `HostAdds`, `Adopt`, `AdoptFails`, `JoinerAdds`,
  `Abandon`: a pairing, over the running transport or by the command line
  (`Console`), with its steps on both sides interleaved with all else.
* `Remove`, `Rotate`, `RotateLists`, `RotateRemoves`, `RotateDies`: `outl peer
  remove` and `rotate_workspace_identity`, killed between its writes.
* `Start`, `Subscribe`, `Stop`, `Broadcast`, `Merge`: the process and its gossip
  supervisor. `mail` is the last broadcast, which may reach anybody it was sent
  to at any later time, often, or never. `Connected` is who hears whom.
* `Authorised` is what all three content protocols ask: is the dialer in
  `peers.json`. `Exchanges` adds what only the exchange of operations asks: the
  same id. `Contact` and `Refresh` are the address of whom one exchanges with,
  read then and stored later.

The run `membership` has three devices, two of them paired, at most three acts
of users or failures out of six kinds with at most one of each, and three ids
(243,744 states). Three devices are needed for gossip about a third one; three
acts are a removal, a rotation and a pairing, or one of them with a crash, in
all orders with the gossip under way. It shows `RemovalHolds`, `PairingKept`,
`LockedOut`, `ShutOut`, and under fairness `Discovery` and `AddressHeals`. Deadlock is not
checked: a device that lists nobody waits for its user.

`LockedOut` and `ShutOut` are the two halves of a rotation. As soon as the new
id is in the file, a process that holds it refuses the *exchange* to everybody
with the old one, wherever the command was cut off: `serve_exchange` compares
ids. When the command has run to its end, nobody it found listed is served
*anything*, because all of them have a tombstone. Between the two there is a
gap, and `revoke.rs`, lines 58-64, says there is none: a stale list is inert, as
old devices are refused `workspace-mismatch`. The snapshot and the asset handlers
(`engine_snapshot.rs:102`, `engine_assets.rs:204`) ask `peers.json` alone
(`authz.rs:83-131`), so a device whose entry a killed rotation left is still sent
the materialised workspace and every asset. In the model that is four states:
`Stop`, `Rotate`, `Start`, and `Authorised` holds of a device in `out`; also
after `RotateDies`, which makes it last. So no property claims the contrary.
Neither does `ShutOut` speak of devices the rotating one did not list: one that
only a re-paired device listed may come in by its gossip.

What they leave room for is by the code. `LockedOut` speaks of a process that
holds the id of the file: one that runs while another process rotates keeps the
old id until it is restarted (`outl peer revoke-all` says so). `Discovery` speaks of devices that gossip
connects: the adopted id is announced before the partner is listed, so a
joiner's supervisor may join the new topic through nobody, and the host's has
joined it before. The hub skips the write of the id when its memory has it,
although a rotation may have changed the file.

Simplified: an entry is its address; tickets, secrets and the generations of an
armed slot are the fact that a pairing may happen between `Meets`; one broadcast
is on its way at a time; the relay reaches everybody.

## 9. The page and its projection

`Projection` has one flat page: the `.md` as a bag of lines, the sidecar as rows
(block -> line) with the content its hash stands for, the operations in the
logs, and per process the operations its tree was built from and the job it is
in. Text is a model value; the text of a block is the bag of what concurrent
edits merged, so that text that comes twice is seen.

* Tree to file: `ProjectGuarded` (after a change) and `ProjectStale` (on
  reading) authorise a write under `ProjectionLock`; `Reread` reads the file
  again and refuses if it has changed, `WriteMd` is the rename that replaces
  whatever is there by then, `WriteSidecar` follows.
* File to tree: `ReadMd`, `ReadSidecar` (with the short cut, the matching and
  the orphan limit), `ApplyStructure` (one batch), `ApplyText` (one edit at a
  time), `WriteRows` with `Stamp`: `reconcile_md`, which takes no lock.
* `Recover`, `RecoverBlock`, `RecoverEnds`: `recover_desynced_projection`.
* `Commit`, `CommitFails`, `Reload`, and the environment: `Save` (an editor),
  `Peer` (operations of another device), `Crash`, `Lose` (one of the files).

Level 1 of the matching keeps the id of a line with the same text; levels 1.5
and 2 depend on order and similarity and are any pairing of what is left.

The run `projection` goes through eleven scenes, each a set of processes and a
bound on what happens: a client alone with two or three events, a client beside
`outl serve` with one (79,272 states). The pairs of events are those that the
guards are about: a save during a projection, a save during a reconcile, a
crash or a failing append in either, a lost file before either, a peer's change
beside each. It shows `HashIsEarned`, `GatesKeepLines` and, under fairness,
`Settles`. Deadlock is not checked: a settled page has nothing to do.

`GatesKeepLines` speaks of what the file held when it was last read. Between
that reading (`write.rs:117`) and the rename (a temporary file is written and
synced first) an editor's save is deleted, and no process notices: the code's
own comment (`write.rs:99-104`) calls the check best-effort, as a pathname has no
compare-and-swap. The model has this window, `Save` between `Reread` and
`WriteMd`, and no property claims that it is shut. Nor does one speak of the write
of `recover_desynced_projection` (`desync.rs:272`, `RecoverEnds`), which renders
what it has just recovered and replaces the file under the lock but without
reading it again.

What they leave room for besides is by the code. After a failed append the memory keeps
what no log has, so a retried reconcile emits nothing and stamps the hash
(`failed`). A sidecar whose rows are all bare cannot tell, and the guard lets
the write through (`blind`). `Settles` counts as settled what a person is told
of (`Reported`), and what a bound cut off.

`projection_phantoms` has a client, a daemon and one change of another device,
and violates `ReconcileIsNoOp`, which the comment in `journal/apply.rs` promises.
The page is renamed into place before its sidecar is written; in between the
other process reconciles it against the old sidecar and takes the rendered
change for an edit of the user. A process that is alone with its page and is not
killed in between keeps the promise (`AloneReconcileIsNoOp`, section 11).

## 10. Fairness

`TreeCRDT`, `Hlc`, `SnapshotBoot` and `OpLogFiles` assume none: their properties
are safety properties.

* `DeltaSync`: weak fairness of each step of an exchange, because the runtime
  runs every task that can go on, and of `Dial`, because the catch-up loop dials
  every listed peer again, at the latest ten seconds after a success
  (`MAINTENANCE_RESYNC`) and eight after a failure (`CATCH_UP_INTERVAL`). Weak
  fairness of `WindowPasses`: wall clocks go on. None of `Write` and none of the
  faults, whose number is bounded.
* `Membership`: weak fairness of `Subscribe` and `Broadcast` (the loop of the
  gossip supervisor) and of a contact with its refresh (the catch-up loop);
  strong fairness of `Merge`, since gossip may lose a broadcast but not all of
  them for ever. No user has to act and no process has to start.
* `Projection`: weak fairness of each process's work (the loop of `outl serve`,
  the watcher and the boot of a client), strong fairness of `Reload`, because a
  process looks at the logs each time it is free.

`ImplementsLogExchange` carries the fairness of `Spread` along, which these give.
`Converges`, `FallsQuiet`, `Discovery`, `AddressHeals` and `Settles` say what
holds *from some time on*; the bounds on users and faults are what makes such a
time exist.

## 11. What is proved

Every theorem holds for any values of the constants that satisfy the named
assumptions of its module, so for any number of replicas, devices, actors,
operations, exchanges, faults and queues; TLC evaluates those assumptions on the
instances of section 3 to 9. Each module of proofs has an inductive invariant
`IInv`, a theorem `Invariance` (`Spec => []IInv`) and a lemma per action; the
invariants were first checked by TLC on the instance of the module's run.

| module | theorem | states |
|---|---|---|
| `TreeCRDTProofs` | `TypeCorrect`, `LogsStaySorted`, `TreesStayValid` | `[]TypeOK`, `[]LogSorted`, `[]TreeValid` |
| | `UndoIsExact`, `Converges` | `[]UndoExact`, `[]Convergence` |
| | `NothingLost` | `NothingForgotten` |
| | `NobodyOrphaned` | `[]RootedOnceDelivered`, if `Seeded` and boot trees are rooted |
| | `ImplementsPromise` | `ImplementsConvergentTree` |
| `HlcProofs` | `TypeCorrect`, `ClockStaysAhead` | `[]TypeOK`, `[]ClockCovers` |
| | `IssuesAscend`, `EditsAreRecorded`, `RaisesAreBounded` | `IssuesRise`, `RecordedUnlessClamped`, `RaisesStayInWindow` |
| `SnapshotBootProofs` | `TypeCorrect`, `CutoffsDropNothing` | `[]TypeOK`, `[]NothingHidden` |
| | `SnapshotsAreCaches`, `SwapsKeepEdits` | `[]ViewIsReplay`, `[]LocalOpsShown`; all four if `OneReload` and `InOrder` |
| `DeltaSyncProofs` | `TypeCorrect`, `NoDoubleLines`, `PrefixesStay` | `[]TypeOK`, `[]OneLineEach`, `[]NoHoles` |
| | `AcksAreTrue`, `FloorsAreEarned` | `[]ConfirmedIsDurable`, `[]FloorIsEarned` |
| | `ExchangeKeepsThePromise` | the safety half of `ImplementsLogExchange` |
| `OpLogFilesProofs` | `TypeCorrect`, `NoConfirmedAppendIsLost` | `[]TypeOK`, `[]NothingDurableLost` |
| | `CompactionKeepsTheTree` | `[]DiskReplaysHistory` |
| | `OffsetsLeadToTheirLines` | `[]OffsetsTrue`, if `Finishes` |
| | `IndexesStayWhole` | `[]IndexIsWhole`, if `Finishes` |
| | `TwoFaultsMisleadNobody` | `[](IndexIsWhole /\ OffsetsTrue)`, if `OneProcess` |
| `MembershipProofs` | `TypeCorrect`, `RemovalsHold` | `[]TypeOK`, `[]RemovalHolds` |
| | `PairingsAreKept` | `[]PairingKept` |
| | `RotationLocksOut`, `RotationShutsOut` | `[]LockedOut`, `[]ShutOut` |
| `ProjectionProofs` | `TypeCorrect`, `HashesAreEarned` | `[]TypeOK`, `[]HashIsEarned` |
| | `GatesHold` | `GatesKeepLines` |
| | `AloneReconcileIsNoOp` | `ReconcileIsNoOp`, if `Undisturbed` |

Assumptions. The constants have their types and the sentinels are no values.
Beyond that: `Device` is finite in `Membership` (new identities are counted);
`None` is no holder of the append lock in `DeltaSync`; in `SnapshotBoot` the
timestamps that may ever be issued are finitely many (a cutoff is a maximum) and
`None` is no workspace; in `OpLogFiles` they are finitely many too, so that what
is on disk has a last operation, and `None` is no operation, no storage and no
index. Nothing is assumed of delivery, of the wall clock or of who is paired.

Some theorems have hypotheses of their own, in the table above. Each says what a
run shows to be needed, or what another module provides:

* `Seeded` is what `seed_clock` does at boot and reload.
* `InOrder` is what `NoHoles` says of the exchange (`snapshot_gap` is a file
  transport or damage); `OneReload` is taken away by `snapshot_reloads`.
* `Finishes`, that no compaction ends between the rename and the removal of the
  sidecars, is an assumption on behaviours and not on constants: it excludes that
  one crash and no other. `TwoFaultsMisleadNobody` does without it.
* `OneProcess`, that all storages belong to one process, bounds who may save
  after a compaction that was cut off: nothing is open while `outl compact` has
  the lock, so with one process the storage that boots next is the only one that
  saves what is left. With two that boot at once the argument does not go through,
  and no run has been made. Reloads of that one process are in it. The two
  properties carry their exceptions themselves (`Misled` and `"overtaken"`, section
  6): `files_shared` shows that the second is needed, and `Misled` that a third
  fault is.
* `Undisturbed`: in every scene one process, no saves, no lost files, no
  crashes. A second process takes `ReconcileIsNoOp` away
  (`projection_phantoms`), and so does a crash between a file and its sidecar;
  after a save it is not meant to hold. The theorem also assumes that `None` is
  no sidecar record.

### Tree CRDT

`TreeValid` and `Convergence` are not inductive: after an undo the
tree is valid only because it is the tree that was there before the undone
operation. `IInv` says so. It adds to `TypeOK` and `LogSorted` that a *run*
exists, a function from the places of the log to trees, from the boot tree on,
where each tree is `DoOp` of the one before and each entry holds the `old_*`
fields of the tree before it, which ends in the current tree (`LogIsRun`), and
that the log holds operations as they were issued (`Faithful`). That a run
exists is a first-order statement, so no induction over data is needed:
`RunsAppend` extends a run by `DoStep` or `RedoStep`, `RunsUndo` shortens it by
`UndoStep`. The lemma behind the second is `UndoInvertsDo` of `TreeStateProofs`:
undoing what was done to a well-formed tree that no later operation has made
nodes in gives that tree back. `RunsUnique` is the step to `Convergence`: two
increasing logs with the same operations have equal runs, by the least place
where they could differ.

`NobodyOrphaned` needs one invariant more: in every operation the parent is
backed, by the boot tree or by a Create with a smaller timestamp
(`ParentsBacked`, kept because a seeded clock is above the replica's whole log).
In a log that holds all that was issued each parent's Create then comes first,
and by the least place where it could fail every Create along the run takes and
no tree has a gap (`CompleteRunRooted`).

The refinement: `ConvergentTree` defines the replay of a set by a recursive
function, which no prover computes. `RunIsReplay` goes the other way: a run that
exists satisfies the equations of that function and so, by the least place of a
difference, is equal to it. Then `Issue` and `Deliver` stutter or take in one
operation, and `UndoStep` and `RedoStep` move entries between log and stack, of
which the mapping shows the union.

### The clock

`IInv` is `TypeOK`, `ClockCovers` and three facts. `Full`: the generator stands
at the end of its range only if it has met the last timestamp. `Met`: what this
process applied is at or below `high`, unless a seed was clamped. `Comparable`:
every part of the log on disk has a largest timestamp. The last replaces
induction over finite sets: the log grows by one operation at a time, and
`LargestGrows` says that this keeps it. `TickRises` and `RaiseCovers` are the
facts about `tick` with its carry and saturation, and about `observe`.

### Snapshots and reloads

`NothingHidden` holds of a workspace only because the snapshot it was opened
from was sound when it was adopted, and that body may have been built by a
workspace that is gone, waited in a queue, been overtaken by newer files, or come
from a peer. `IInv` therefore speaks of every body that is `Carried`, in a file
or a queue, and of everything that can come to the disk *later*:

* `Sound(b)`: below its cutoff b has all of a peer's operations, all this device
  has on disk (but orphans), what a replay under way wrote if that replay may
  still be published, and nothing that waits in a batch. Later operations of
  this device are above the cutoff (`Clocked`), later ones of a peer are too,
  because the peer's earlier ones are in the body: `InOrder`.
* `Held(w, E)`: a workspace, live or replayed, shows what it lists, in order,
  and otherwise only `E`, the batch.
* `Publishable(r)`: the live log is not shorter than when the replay began; as
  long as it is as long (`Quiet`), all that this device has on disk is in what
  the replay read or wrote. Since a live log never shrinks while there is one
  reload, the comparison of lengths in `publish_replayed` suffices.

Each part is claimed only until its own exception (`amiss`) has happened, as the
properties are. `OpenedHolds` (an opened workspace is `Held` if what it adopts is
`Sound`) and `NewBodySound` (a body built from a `Held` workspace is `Sound`)
are the two lemmas that close the circle.

### Log files and compaction

The argument for compaction has two halves, one about data and one about time.

About data: an operation has *no effect* in a set if the replay of what is below
it, with it or without it, is one tree (`NoEffect`). `DroppableHasNoEffect` is
the claim of `plan.rs` that its six conditions mean this of the log on disk, and
`ReplayWithout` that a set of operations without effect can be left out of a
replay *all at once*: of two that are dropped each was judged with the other
still there. `Replay` is a recursive function, of which no prover here computes
a value or shows that it exists. `HistoryExists` does the latter: a table of the
replay up to each timestamp exists, because there is no least timestamp for which
it does not, and `HistoryIsReplay` then identifies it with `Replay`, as
`RunIsReplay` does for the reorder loop. These lemmas are in `TreeStateProofs`.

About time: what was dropped must stay without effect when the log grows. `Gone`
says that it has none in the *history*, the log with all that was ever
dropped, and that whatever may still come to the disk is newer than all of it: of
a peer because of the horizon (`settled`), of this device because `Fresher` gives
timestamps above its whole log and what a batch has still to write was issued
before the lock was taken (`Waiting`, `Locked`). So a later line changes nothing
below a dropped one (`LogGrows`). A second compaction judges by the log on disk
and not by the history; `FitsHistory` carries its verdict over, since by
`DiskIsHistory` the two replay alike up to any point.

Between the plan and the rewrite the lock is free, and processes may start, append
and stop. `Planned` is what the check relies on: if no file has grown since, the plan
still fits. A file never shrinks in between, as only a compaction shortens it, so the
comparison of sizes suffices. `RenameKeeps` is the step where operations move
from the disk to the dropped ones; `KeptIs`, which says which lines the new file
has, counts the rank of a line among those that stay. `NothingDurableLost` needs of all this
that what an append has written is there when it is confirmed (`Waiting`), and
that a fragment is a line of its own (`Put`).

### Offset indexes

`IndexIsWhole` and `OffsetsTrue` have invariants of their own, on top of `IInv`.

The own file is simple (`Steady`): its operations are in the order of their
timestamps (`Ascends`), and an append knows where its lines are (`Appends`).
An index is described by two relations: `Right`, every entry leads to its line,
and `Covers`, it has everything up to some line. `Sound` is both.

For `OffsetsTrue` it is enough that every index in memory is right (`Leads`) and
every pair of sidecars on disk is, except while a compaction is between the
rename and the removal (`Sidecars`). Files only grow otherwise, so a right index
stays right (`StillRight`), whoever saves it over whose. This is why that theorem
needs neither a single process nor a bound on faults, and why a reload that
saves over the live storage makes no offset wrong.

`IndexIsWhole` is about what is *not* in an index, and there the order of writes
matters. Reloads save when they like, so what holds does so only while nothing was
overtaken (`Sane`): then a sidecar of the own file that is saved lacks no line of
it. `Base` says of the live storage what it has brought up to date
(`Done`), of every storage that is opening what it is going to save of a peer's file
(`Saves`) and that it has what it has read (`Has`), and of the pair of sidecars on
disk (`Pair`) that both are sound, each perhaps short of the file. As long as no
compaction is cut off (`NotCut`, `CutBy`) that is all there is to it, for any number
of processes; this is `IndexesStayWhole`.

When one is, the pair may be of another file. Then it must be `Usable` (if
`fresh_offset_index` and the comparison of the two ends let it through, both are
sound), but for the moment between the two saves of a rebuild (`Mid`); and as long
as a second fault may still come it must be `Hopeless`, with a node sidecar that is
missing or too long to be let through, so that a kill in that moment does no harm.
`Led` says why nobody else is reading in that moment: in the one process a
reload begins only when the live storage is open, and by then the pair is sound.
`UnmovedIsSound`: if the last entry of a sound index of the old file leads to
the same operation in the new one, so do all the others, since lines are in order and
none before it was dropped. `RewriteHopeless`: a node sidecar that covered the old
file entirely is too long for the new one, which is shorter. `Spare` says that before
the first fault the node sidecar does cover it, or is missing; `Death` what the rename
leaves, and `Half` what the removal of the first sidecar does. A fault before the
rename and one right after it leave none for the boot that follows, which is what a
third would need. `Safe` puts these together, each under the exceptions at which it
ends, and `FilesInv` is `IInv`, `Steady`, `Remains` (an empty file has
no sidecars, and a compaction leaves the operation its drops rest on), and `Safe`.

### The exchange

`IInv` describes each exchange separately (`Exchange(x)`), so that any number
may run at a time: `Order` is how far the halves and the frames may be apart,
`Known` that nothing travels its author has not written, `Durable` where the
operations of the push are, `Counted` what the counts in the clocks stand for,
`Gapless` that nothing in a frame or batch leaves a hole where it arrives (while
nothing is damaged). `Log(d)` and `Locked` tie them together: two ingests of one
device exclude each other from dedup to append, which is all that
`OneLineEach` needs. `FloorIsEarned` rests on
`CountsCover`: of each actor, what the dialling device counts in its clock is no
more than what the peer has been told and the push carries, and what was lost to
damage in between, whichever of its two answers `ops_missing_for` gives.

`ExchangeKeepsThePromise` is `Promise!Init` and `[][Promise!Next]` under the
mapping, so `ImplementsLogExchange` without its fairness.

### Membership

The histories are tied to the file and the tasks in flight: `Marked` (who was
removed and not paired again has a tombstone and no entry), `Known` (no identity
is about that was not made, so that a rotation's is new), `Barred` (whoever a
rotation locks out has the new identity neither on disk nor in its process) and
`Shapes` (what each waiting task carries along). `RotationShutsOut` needs
`Doomed` besides: of those a rotation found listed, everyone is still ahead of
it, in the list it goes through, or `Marked`.

### The page

A text is *earned* if an operation in a log has it, or one that failed to append
(`Earned`). Operations are never taken back, so what is earned stays earned, and
`IInv` says what in the files and in each job in flight is: all rows of the
sidecar and all that its hash stands for (`SidecarOf`), all that a projection has
rendered (`Writing`, `Written`), because a render comes from a tree
(`RenderIs`). The file itself and what a reconcile has read of it (`Diffing`,
`Texting`) may hold anything. `HashIsEarned` is part of `SidecarOf`, and the hard
step is `WriteRowsKeeps`: a reconcile stamps the hash of the file it read long
ago, and `NothingUnlogged` says that it does so only if no line of it is missing
from the rows it has made from the tree by then.

`GatesKeepLines` is about a check and a write that are apart. `CheckSees` says
that a check which could see anything authorises a write only over a file all of
whose texts are earned; `Writing` carries that along as `over`: `Reread` lets a
write go on only if the file is still that, so its texts are earned at that
moment and, since nothing earned is lost, at the rename. Texts that are in the
file at the rename but were not at the reading are in neither set. A reconcile takes
no lock, but it does not write the file. That the lock has one holder (`OneHolder`) is what
the sidecar of a projection rests on.

### Model-checked only

Out of the reach of the prover used, and left to TLC: liveness (`Converges`,
`FallsQuiet`, `Discovery`, `AddressHeals`, `Settles`, and the fairness in
`ImplementsLogExchange`) and `ENABLED`. The properties that the violation runs
refute are theorems where they hold: under the hypotheses above, or not at all
(`QuietAfterCompaction`).

## 12. What is not modelled

* Text of blocks: the text CRDT is the library `yrs`; outl feeds it the updates
  in log order. `Projection` keeps of it that concurrent edits both survive.
* Fractional positions, ids, parsing, rendering, queries, export, themes,
  settings, the user interfaces: pure functions or presentation, and most of the
  lines of the repository.
* Nesting, order, properties and the frontmatter of a page; the similarity
  measures of the matching.
* Sockets, discovery, QUIC, file-system behaviour below "a rename is atomic and
  an fsynced append survives".
* Per-page shards of the log, backups of a compaction, `--force`,
  `--no-horizon`, the eviction of floors, tickets and their proofs.
* Device records, assets, plugins other than their effect on the clock.

The environment's actions have no code of their own: the wall clock
(`WallMoves`, `WindowPasses`), a file transport (`Arrive` of `Hlc`, `Peer`), an
editor (`Save`), damage and loss of files (`Damage`, `Lose`), addresses (`Move`),
the operating system that ends a process (`Crash`, `RotateDies`, `CutOff`,
`Tear`). Gossip itself (`Joined`, `Connected`) is the library `iroh-gossip`, as
far as the code relies on it.

---------------------------- MODULE SnapshotBoot ----------------------------
(***************************************************************************)
(* One device's workspace across edits, reloads and restarts: what is in   *)
(* the op-log files, what the open workspace holds, what the snapshot      *)
(* files say, and which of them a boot believes (outl-core workspace.rs,   *)
(* workspace/batch.rs, workspace/snapshot_policy.rs, snapshot.rs and       *)
(* snapshot/gc.rs; the reload of outl-tauri-shared workspace_reload.rs).   *)
(*                                                                         *)
(* A materialized document is kept as the set of operations folded into it *)
(* and whether they went in once each, in HLC order: one that did is the   *)
(* tree a replay of that set gives, one that did not may be another tree.  *)
(* That a resident log is in HLC order whatever the order of arrival is    *)
(* TreeCRDT's business.                                                    *)
(***************************************************************************)
EXTENDS Integers, FiniteSets, FiniteSetsExt, Sequences

CONSTANTS
  Actor,     \* the actors whose operations this device may come to hold
  Me,        \* the actor this device writes as
  Ts,        \* HLC timestamps
  None,      \* no file, no workspace
  Torn,      \* a file that does not decode
  Reloader,  \* the reloads that may be under way at one time
  Gaps,      \* TRUE: an actor's operations may reach the disk out of order
  MaxJobs    \* bound on the bodies waiting for the snapshot worker

ASSUME SnapshotConstants ==
  /\ Actor \subseteq Nat /\ Me \in Actor
  /\ Ts \subseteq Nat \ {0} /\ IsFiniteSet(Ts)
  /\ Gaps \in BOOLEAN /\ MaxJobs \in Nat

VARIABLES
  author,    \* timestamp -> the actor that issues it
  disk,      \* the operations in the ops-*.jsonl files
  snaps,     \* actor -> the published snap-<actor>.bin
  live,      \* the workspace the clients see, None when no process is up
  pending,   \* the operations a live batch guard has not flushed yet
  reload,    \* reloader -> its replay, None when it is not running
  detached,  \* the snapshot queues of workspaces that were swapped out
  last,      \* the last timestamp this device's clock gave
  amiss,     \* history: an "append" failed, a body was adopted "early",
             \* a replay that wrote "today" overtook a local edit
  orphan     \* history: operations a replay wrote and never published

vars == <<author, disk, snaps, live, pending, reload, detached, last, amiss,
          orphan>>

Greatest(S) == Max(S \cup {0})

Mine == {t \in Ts : author[t] = Me}

(***************************************************************************)
(* A workspace: the operations its storage index lists, the snapshot body  *)
(* it adopted, its resident log, and the bodies it handed to its snapshot  *)
(* worker.  A snapshot file: the operations folded into its body and the   *)
(* per-actor cutoff.  folded and exact are history in both.                *)
(***************************************************************************)
Body == [folded : SUBSET Ts, exact : BOOLEAN,
         cutoff : [Actor -> Ts \cup {0}]]

Workspace == [index : SUBSET Ts, folded : SUBSET Ts, exact : BOOLEAN,
              resident : SUBSET Ts, queue : Seq(Body)]

ASSUME NoneIsNoWorkspace == None \notin Workspace

View(w) == w.folded \cup w.resident

Exact(w) == w.exact /\ \A f \in w.folded, t \in w.resident : f < t

\* last_ts_per_actor, 0 for an actor without operations.
HighWater(S) == [a \in Actor |-> Greatest({t \in S : author[t] = a})]

Top(b) == Greatest({b.cutoff[a] : a \in Actor})

\* build_snapshot_body: the cutoff comes from the index, the rest from memory.
BodyOf(w) == [folded |-> View(w), exact |-> Exact(w),
              cutoff |-> HighWater(w.index)]

----------------------------------------------------------------------------
\* Mutated form: one cutoff for all actors, as before issue 156.
DeltaAboveTop(b, S) == {t \in S : t > Top(b)}

\* ops_since_per_actor.
Delta(b, S) == {t \in S : t > b.cutoff[author[t]]}

\* Mutated form: without the convergence guard.
AnyDelta(b, S) == Top(b) # 0

\* The convergence guard: an empty cutoff, or a delta that is no suffix, is refused.
SuffixDelta(b, S) == Top(b) # 0 /\ \A t \in Delta(b, S) : t > Top(b)

\* gc::survey: the undamaged peer snapshot that reaches the highest timestamp.
Decodes(f) == f # None /\ f # Torn

BestPeer(sn, a) ==
  /\ a # Me /\ Decodes(sn[a])
  /\ \A b \in Actor \ {Me} : Decodes(sn[b]) =>
       \/ Top(sn[b]) < Top(sn[a])
       \/ Top(sn[b]) = Top(sn[a]) /\ b <= a

\* read_best_from_disk: this device's own snapshot, or else the best peer's.
Chosen(sn) ==
  IF sn[Me] # None \/ ~ \E a \in Actor : BestPeer(sn, a) THEN sn[Me]
  ELSE sn[CHOOSE a \in Actor : BestPeer(sn, a)]

Adopts(f, S) == Decodes(f) /\ SuffixDelta(f, S)

\* open_with_storage: boot_from_snapshot, or else boot_from_full_replay.
Opened(f, S) ==
  IF Adopts(f, S)
  THEN [index |-> S, folded |-> f.folded, exact |-> f.exact,
        resident |-> Delta(f, S), queue |-> <<>>]
  ELSE [index |-> S, folded |-> {}, exact |-> TRUE,
        resident |-> S, queue |-> <<>>]

\* drop_own_if_unusable, which may fail, and keeps a file of a newer schema.
Dropped(sn) == {sn} \cup IF sn[Me] = Torn THEN {[sn EXCEPT ![Me] = None]} ELSE {}

\* What no boot would read again.
Prunable(sn) == {a \in Actor : \/ sn[a] = Torn
                               \/ a # Me /\ sn[a] # None /\ ~ BestPeer(sn, a)}

\* gc::sweep deletes those, except what has changed since it looked.
Swept(sn) == {[a \in Actor |-> IF a \in P THEN None ELSE sn[a]] :
                P \in SUBSET Prunable(sn)}

\* save_snapshot, which may fail and has nothing to say of an empty log.
Saves(sn, w) ==
  {sn} \cup IF w.index = {} THEN {} ELSE {[sn EXCEPT ![Me] = BodyOf(w)]}

\* append_ops that succeeds, then trigger_snapshot with or without a crossing.
Appended(w, S) ==
  LET v == [w EXCEPT !.index = @ \cup S]
  IN  {v} \cup IF Len(v.queue) < MaxJobs
               THEN {[v EXCEPT !.queue = Append(@, BodyOf(v))]} ELSE {}

\* Mutated form: a worker is kept for an empty queue.
DetachAny(q) == {q}

Detach(q) == IF q = <<>> THEN {} ELSE {q}

----------------------------------------------------------------------------
Init ==
  /\ author \in [Ts -> Actor]
  /\ disk = {} /\ snaps = [a \in Actor |-> None]
  /\ live = None /\ pending = {}
  /\ reload = [r \in Reloader |-> None] /\ detached = {}
  /\ last = 0 /\ amiss = {} /\ orphan = {}

\* A batch guard without a buffered operation is indistinguishable from none.
batching == pending # {}

(***************************************************************************)
(* A local edit through Workspace::apply.  One clock serves the live       *)
(* workspace and the replays, and each open seeds it from the index.       *)
(***************************************************************************)
Stamps(t) ==
  /\ t \in Mine /\ last < t
  /\ live # None /\ \A u \in live.index : u < t
  /\ \A r \in Reloader : reload[r] # None /\ reload[r].ws # None
       => \A u \in reload[r].index : u < t

\* Under a batch guard the operation waits in pending.
Buffer(t) ==
  /\ Stamps(t) /\ last' = t
  /\ live' = [live EXCEPT !.resident = @ \cup {t}]
  /\ pending' = pending \cup {t}
  /\ UNCHANGED <<author, disk, snaps, reload, detached, amiss, orphan>>

Apply(t) ==
  /\ Stamps(t) /\ ~ batching /\ last' = t
  /\ LET w == [live EXCEPT !.resident = @ \cup {t}]
     IN  \/ /\ live' \in Appended(w, {t})
            /\ disk' = disk \cup {t} /\ amiss' = amiss
         \/ /\ live' = w
            /\ disk' \in {disk, disk \cup {t}}
            /\ amiss' = amiss \cup {"append"}
  /\ UNCHANGED <<author, snaps, pending, reload, detached, orphan>>

(***************************************************************************)
(* end_batch of the outermost guard.  A flush that fails forgets the       *)
(* buffer: of the shards it goes to some may be done, and another may hold *)
(* lines its index does not list.                                          *)
(***************************************************************************)
EndBatch ==
  /\ batching /\ pending' = {}
  /\ \/ /\ live' \in Appended(live, pending)
        /\ disk' = disk \cup pending /\ amiss' = amiss
     \/ \E D \in SUBSET pending : \E I \in SUBSET D :
          /\ I # pending
          /\ live' = [live EXCEPT !.index = @ \cup I]
          /\ disk' = disk \cup D /\ amiss' = amiss \cup {"append"}
  /\ UNCHANGED <<author, snaps, reload, detached, last, orphan>>

----------------------------------------------------------------------------
\* What a log that misses none of an actor's earlier operations holds.
Closed(S, t) ==
  \A u \in Ts : u < t /\ author[u] = author[t] => u \in S

\* The sync engine, or a file transport, appends a peer's operation.
Arrive(t) ==
  /\ t \notin Mine \cup disk
  /\ Gaps \/ Closed(disk, t)
  /\ disk' = disk \cup {t}
  /\ UNCHANGED <<author, snaps, live, pending, reload, detached,
                 last, amiss, orphan>>

(***************************************************************************)
(* A peer's snapshot is pulled after a delta sync with it, whether or not  *)
(* that failed: its body may be ahead of the operations on this disk.  One *)
(* that overwrites the last pulled is a Damage and a PullSnapshot.         *)
(***************************************************************************)
PullSnapshot(a, S) ==
  /\ a # Me /\ snaps[a] = None /\ S # {} /\ S \cap Mine \subseteq disk
  /\ \A t \in S : Closed(S \cup (Mine \ disk), t) \/ (Gaps /\ author[t] # a)
  /\ snaps' = [snaps EXCEPT ![a] = [folded |-> S, exact |-> TRUE,
                                    cutoff |-> HighWater(S)]]
  /\ UNCHANGED <<author, disk, live, pending, reload, detached,
                 last, amiss, orphan>>

(***************************************************************************)
(* A snapshot file is damaged, or of a schema this build does not read.  A *)
(* peer's is skipped by the survey and swept, like one that is not there.  *)
(***************************************************************************)
Damage(a) ==
  /\ Decodes(snaps[a])
  /\ snaps' = [snaps EXCEPT ![a] = IF a = Me THEN Torn ELSE None]
  /\ UNCHANGED <<author, disk, live, pending, reload, detached,
                 last, amiss, orphan>>

----------------------------------------------------------------------------
\* A worker's write, which may fail, and the sweep after it.
Published(b) == Swept(snaps) \cup Swept([snaps EXCEPT ![Me] = b])

\* The workers of one workspace are chained: its bodies go out in order.
WriteLive ==
  /\ live # None /\ live.queue # <<>>
  /\ snaps' \in Published(Head(live.queue))
  /\ live' = [live EXCEPT !.queue = Tail(@)]
  /\ UNCHANGED <<author, disk, pending, reload, detached, last,
                 amiss, orphan>>

WriteReplay(r) ==
  /\ reload[r] # None /\ reload[r].ws # None /\ reload[r].ws.queue # <<>>
  /\ snaps' \in Published(Head(reload[r].ws.queue))
  /\ reload' = [reload EXCEPT ![r].ws.queue = Tail(@)]
  /\ UNCHANGED <<author, disk, live, pending, detached, last,
                 amiss, orphan>>

\* Those of a workspace that was swapped out run on beside them.
WriteDetached(q) ==
  /\ q \in detached
  /\ snaps' \in Published(Head(q))
  /\ detached' = (detached \ {q}) \cup Detach(Tail(q))
  /\ UNCHANGED <<author, disk, live, pending, reload, last, amiss,
                 orphan>>

----------------------------------------------------------------------------
\* What is noted when w adopted a body that is ahead of its index.
Early(w) == IF w.folded \subseteq w.index THEN {} ELSE {"early"}

Boot ==
  /\ live = None
  /\ live' = Opened(Chosen(snaps), disk) /\ amiss' = amiss \cup Early(live')
  /\ snaps' \in Dropped(snaps)
  /\ UNCHANGED <<author, disk, pending, reload, detached, last, orphan>>

\* The TUI's exit: wait_for_snapshots, then save_snapshot.
Quit ==
  /\ live # None /\ live.queue = <<>> /\ ~ batching
  /\ \A r \in Reloader : reload[r] = None
  /\ snaps' \in Saves(snaps, live)
  /\ live' = None /\ detached' = {}
  /\ UNCHANGED <<author, disk, pending, reload, last, amiss, orphan>>

\* The process is killed, or exits as the GUI and the CLI do.
Crash ==
  /\ live # None
  /\ live' = None /\ pending' = {} 
  /\ reload' = [r \in Reloader |-> None] /\ detached' = {}
  /\ UNCHANGED <<author, disk, snaps, last, amiss, orphan>>

----------------------------------------------------------------------------
(***************************************************************************)
(* publish_replayed.  before is the length of the live resident log when   *)
(* the replay starts; the index is read then, the snapshot after it, and   *)
(* local edits go on meanwhile.  An edit between the marker and the scan   *)
(* can only make the reload lose, so the two are one step.                 *)
(***************************************************************************)
StartReload(r) ==
  /\ live # None /\ ~ batching /\ reload[r] = None
  /\ reload' = [reload EXCEPT ![r] =
       [before |-> Cardinality(live.resident), index |-> disk,
        ws |-> None, wrote |-> {}]]
  /\ UNCHANGED <<author, disk, snaps, live, pending, detached,
                 last, amiss, orphan>>

\* reload_workspace persists a snapshot when it had to replay everything.
Replay(r) ==
  /\ reload[r] # None /\ reload[r].ws = None
  /\ LET f == Chosen(snaps)
         w == Opened(f, reload[r].index)
     IN  /\ reload' = [reload EXCEPT ![r].ws = w]
         /\ amiss' = amiss \cup Early(w)
         /\ snaps' \in IF Adopts(f, reload[r].index) THEN {snaps}
                       ELSE UNION {Saves(sn, w) : sn \in Dropped(snaps)}
  /\ UNCHANGED <<author, disk, live, pending, detached, last, orphan>>

\* This device's operations on disk that w does not hold.
Unread(w) == (disk \cap Mine) \ View(w)

(***************************************************************************)
(* open_today finds no journal of today's and creates it in the replay.    *)
(* The clock is the live one: an operation of a batch that is not flushed  *)
(* yet follows on disk what it precedes in HLC order, and a body built     *)
(* here has a cutoff above the edits that landed meanwhile ("today").      *)
(***************************************************************************)
OpenToday(r, t) ==
  /\ reload[r] # None /\ reload[r].ws # None /\ Stamps(t) /\ last' = t
  /\ \E w \in Appended([reload[r].ws EXCEPT !.resident = @ \cup {t}], {t}) :
       /\ reload' = [reload EXCEPT ![r].ws = w, ![r].wrote = @ \cup {t}]
       /\ amiss' = amiss \cup
            IF pending # {} \/ (Unread(w) # {} /\ w.queue # reload[r].ws.queue)
            THEN {"today"} ELSE {}
  /\ disk' = disk \cup {t} /\ orphan' = orphan \cup {t}
  /\ UNCHANGED <<author, snaps, live, pending, detached>>

\* Mutated form: the swap without the comparison.
Unmoved(r) == TRUE

\* No local operation landed since the replay began, judged by the length.
SameLength(r) == Cardinality(live.resident) = reload[r].before

FinishReload(r) ==
  /\ reload[r] # None /\ reload[r].ws # None /\ live # None /\ ~ batching
  /\ LET w == reload[r].ws
     IN  IF SameLength(r)
         THEN /\ live' = w /\ orphan' = orphan \ reload[r].wrote
              /\ detached' = detached \cup Detach(live.queue)
         ELSE /\ detached' = detached \cup Detach(w.queue)
              /\ UNCHANGED <<live, orphan>>
  /\ reload' = [reload EXCEPT ![r] = None]
  /\ UNCHANGED <<author, disk, snaps, pending, last, amiss>>

Next ==
  \/ \E t \in Ts : Apply(t) \/ Buffer(t) \/ Arrive(t)
  \/ EndBatch
  \/ \E a \in Actor, S \in SUBSET Ts : PullSnapshot(a, S)
  \/ \E a \in Actor : Damage(a)
  \/ WriteLive \/ \E q \in detached : WriteDetached(q)
  \/ Boot \/ Quit \/ Crash
  \/ \E r \in Reloader :
       \/ StartReload(r) \/ Replay(r) \/ WriteReplay(r) \/ FinishReload(r)
       \/ \E t \in Ts : OpenToday(r, t)

Spec == Init /\ [][Next]_vars

----------------------------------------------------------------------------
\* Type invariant, and a reloader or a batch only inside a live process.
TypeOK ==
  /\ author \in [Ts -> Actor] /\ disk \subseteq Ts
  /\ snaps \in [Actor -> Body \cup {None, Torn}]
  /\ live \in Workspace \cup {None}
  /\ pending \subseteq Ts
  /\ \A r \in Reloader : reload[r] # None =>
       /\ live # None /\ reload[r].before \in Nat
       /\ reload[r].index \subseteq Ts /\ reload[r].wrote \subseteq disk
       /\ reload[r].ws \in Workspace \cup {None}
  /\ \A q \in detached : q \in Seq(Body) /\ q # <<>>
  /\ last \in Ts \cup {0} /\ amiss \subseteq {"append", "early", "today"}
  /\ orphan \subseteq disk
  /\ pending # {} => live # None

(***************************************************************************)
(* No drop: every operation the storage index lists is in the document,    *)
(* resident or folded in by the snapshot that was adopted, however old     *)
(* that snapshot is, whoever wrote it, and whatever arrived meanwhile      *)
(* (docs/storage.md, the per-actor cutoff).  Excepted are the journal of   *)
(* today that a discarded replay created, and all once it overtook edits.  *)
(***************************************************************************)
NothingHidden ==
  live # None /\ "today" \notin amiss =>
    live.index \ orphan \subseteq View(live)

(***************************************************************************)
(* A snapshot is only a cache: the document is the one a full replay of    *)
(* the log gives, each operation once and in HLC order, whichever          *)
(* snapshot the process booted from and whatever was appended since.  Not  *)
(* claimed once an append failed or a body ahead of the index was adopted. *)
(***************************************************************************)
ViewIsReplay ==
  live # None /\ amiss = {} =>
    /\ Exact(live)
    /\ View(live) \subseteq live.index \cup pending
    /\ (live.index \cup pending) \ orphan \subseteq View(live)

(***************************************************************************)
(* publish_replayed swaps in no tree that misses an operation this device  *)
(* wrote: what is in its own log file is in the live workspace, with the   *)
(* exceptions of NothingHidden.                                            *)
(***************************************************************************)
LocalOpsShown ==
  live # None /\ "today" \notin amiss =>
    (disk \cap Mine) \ orphan \subseteq View(live)
============================================================================

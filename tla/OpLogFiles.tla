----------------------------- MODULE OpLogFiles -----------------------------
(***************************************************************************)
(* The ops/ directory of one device: the log file of every actor and the   *)
(* two offset sidecars beside it, the JsonlStorage values that are opened  *)
(* on it, by a process that boots and by every reload of its workspace     *)
(* while it is in use, the appends and the operations of peers, and outl   *)
(* compact, which rewrites the device's own file (outl-core:               *)
(* storage/jsonl, storage/index, storage/node_index, storage/sidecar,      *)
(* storage/compact; outl-actions: SyncEngine::reload_workspace).           *)
(*                                                                         *)
(* A line is an operation or a torn fragment, its number stands for its    *)
(* byte offset, and the last line may lack its newline.  A line is written *)
(* in one step unless the write fails or the process is killed.            *)
(*                                                                         *)
(* Simplifications: all pages share one file per actor; a file is read in  *)
(* one step; only the live storage of the process that holds the write     *)
(* lock of Me writes local operations (a reload that misses the page of    *)
(* today makes it: see SnapshotBoot), the others read; any process brings  *)
(* in what peers wrote; the parents that LocalOps name are blocks of pages *)
(* older than the log.                                                     *)
(***************************************************************************)
EXTENDS TreeState, Sequences, FiniteSets

CONSTANTS
  Ts,         \* timestamps
  Author,     \* timestamp -> the actor that is part of it
  Me,         \* the actor of this device
  LocalOps,   \* timestamp -> the operations that may be issued with it
  Storage,    \* the JsonlStorage values that can be open at a time
  Owner,      \* storage -> the process of the device that opens it
  MaxFaults   \* bound on crashes and on failed writes

Actor == {Author[t] : t \in Ts}

ASSUME FilesConstants ==
  /\ Ts \subseteq Nat \ {0} /\ IsFiniteSet(Ts)
  /\ Me \in Actor /\ LocalOps \in [Ts -> SUBSET Op] /\ MaxFaults \in Nat
  /\ None \notin Op /\ None \notin Storage /\ Storage \subseteq DOMAIN Owner
  /\ \A S \in SUBSET Ts : None \notin [S -> Nat]

Torn == 0

VARIABLES
  issued,   \* timestamp -> the operation that carries it, None so far
  file,     \* actor -> the lines of ops-<actor>.jsonl
  loose,    \* actor -> the last line has no newline yet
  offsets,  \* actor -> the sidecar .ops-<actor>.idx, None if there is none
  nodes,    \* actor -> the sidecar .ops-<actor>.nodes.idx
  store,    \* storage -> where it is and the indexes it holds in memory
  writer,   \* the live storage of the process with ActorWriteLock of Me
  batch,    \* what the append of the writer still has to do
  compact,  \* outl compact: its stage and its plan
  settled,  \* horizon: up to here no operation of a peer is in flight
  faults,   \* how many faults are left
  durable,  \* history: operations whose append was confirmed
  dropped,  \* history: operations that compaction removed
  excuses   \* history: what an index may suffer from

vars == <<issued, file, loose, offsets, nodes, store, writer, batch,
          compact, settled, faults, durable, dropped, excuses>>

Whole(lines) == {lines[i] : i \in 1..Len(lines)} \ {Torn}

OnDisk == UNION {Whole(file[a]) : a \in Actor}

Tree(S) == Replay(EmptyTree, issued, S)

----------------------------------------------------------------------------
(***************************************************************************)
(* The offset indexes.  An index maps a timestamp to a line.               *)
(***************************************************************************)
Nothing == [t \in {} |-> 0]

Tip(ix) == Highest({ix[t] : t \in DOMAIN ix})

\* Mutated form: a line that does not parse is entered as well.
ScanAll(lines, n) ==
  [t \in {lines[i] : i \in n..Len(lines)} |->
     CHOOSE i \in n..Len(lines) : lines[i] = t]

\* rebuild_actor_indexes from line n on: what does not parse is skipped.
Scan(lines, n) ==
  [t \in {lines[i] : i \in {j \in n..Len(lines) : lines[j] # Torn}} |->
     CHOOSE i \in n..Len(lines) : lines[i] = t]

Merge(f, g) ==
  [t \in DOMAIN f \cup DOMAIN g |-> IF t \in DOMAIN g THEN g[t] ELSE f[t]]

\* Mutated form: the two sidecars are not compared.
FreshOffsets(lines, ix, nx) ==
  /\ ix # None /\ nx # None
  /\ Tip(ix) <= Len(lines)
  /\ {t \in DOMAIN ix : ix[t] = Tip(ix)} = {lines[Tip(ix)]}

\* fresh_offset_index and the node half of try_fresh_actor_indexes: the
\* record at the highest offset is the one the index has there.
Fresh(lines, ix, nx) ==
  /\ ix # None /\ nx # None
  /\ Tip(ix) <= Len(lines)
  /\ {t \in DOMAIN ix : ix[t] = Tip(ix)} = {lines[Tip(ix)]}
  /\ Tip(nx) = Tip(ix)

\* append_entry: a sidecar that is not there is created.
Entered(ix, t, n) == Merge(IF ix = None THEN Nothing ELSE ix,
                           [u \in {t} |-> n])

----------------------------------------------------------------------------
Down == [at |-> "down", todo |-> {}, actor |-> Me,
         offsets |-> [a \in Actor |-> Nothing],
         nodes   |-> [a \in Actor |-> Nothing],
         seen    |-> [a \in Actor |-> {}]]
NoBatch == [todo |-> <<>>, entries |-> <<>>, part |-> "offset", from |-> 0]
NoCompact == [at |-> "idle", drops |-> {}, sizes |-> [a \in Actor |-> 0]]

Init ==
  /\ issued = [t \in Ts |-> None]
  /\ file = [a \in Actor |-> <<>>]
  /\ loose = [a \in Actor |-> FALSE]
  /\ offsets = [a \in Actor |-> None] /\ nodes = [a \in Actor |-> None]
  /\ store = [p \in Storage |-> Down]
  /\ writer = None /\ batch = NoBatch
  /\ compact = NoCompact
  /\ settled = 0 /\ faults = MaxFaults
  /\ durable = {} /\ dropped = {} /\ excuses = {}

Fault == faults > 0 /\ faults' = faults - 1

\* WorkspaceLock: shared by the processes, exclusive for outl compact.
Exclusive == compact.at \in {"checked", "renamed", "half"}

----------------------------------------------------------------------------
(***************************************************************************)
(* Opening: JsonlStorage::reload, file after file.  A process that boots   *)
(* opens one storage and gets the write lock of the device's actor if      *)
(* nobody has it (resolve_write_actor).  A reload opens another one, for   *)
(* the same actor and with no further lock, on a thread of its own while   *)
(* the workspace is in use (SyncEngine::reload_workspace); it may be one   *)
(* of several.                                                             *)
(***************************************************************************)
Opened == [Down EXCEPT !.at = "reading", !.todo = Actor]

\* The storages of the process of s.
Fellows(s) == {r \in Storage : Owner[r] = Owner[s]}

Start(s) ==
  /\ \A r \in Fellows(s) : store[r].at = "down"
  /\ ~ Exclusive
  /\ store' = [store EXCEPT ![s] = Opened]
  /\ writer' = IF writer = None THEN s ELSE writer
  /\ UNCHANGED <<issued, file, loose, offsets, nodes, batch, compact,
                 settled, faults, durable, dropped, excuses>>

Reload(s) ==
  /\ store[s].at = "down"
  /\ \E r \in Fellows(s) : store[r].at = "up"
  /\ store' = [store EXCEPT ![s] = Opened]
  /\ UNCHANGED <<issued, file, loose, offsets, nodes, writer, batch, compact,
                 settled, faults, durable, dropped, excuses>>

\* publish_replayed: of two storages that are open in a process one is
\* dropped, the live one, under the mutex of the workspace, when r takes its
\* place, or one whose reload is not published.  Which of them it is, the
\* length of a log decides (SnapshotBoot); here both may happen.
Replace(s, r) ==
  /\ r \in Fellows(s) \ {s} /\ store[s].at = "up" /\ store[r].at = "up"
  /\ writer = s => batch = NoBatch
  /\ store' = [store EXCEPT ![s] = Down]
  /\ writer' = IF writer = s THEN r ELSE writer
  /\ UNCHANGED <<issued, file, loose, offsets, nodes, batch, compact,
                 settled, faults, durable, dropped, excuses>>

After(p, todo) == IF todo = {} THEN "up" ELSE "reading"

ReadFile(p) ==
  LET a     == CHOOSE b \in store[p].todo : TRUE  \* the order changes nothing
      lines == file[a]
      fresh == Fresh(lines, offsets[a], nodes[a])
      tail  == Scan(lines, Tip(offsets[a]) + 1)
      read  == Scan(lines, 1)
      exact == fresh /\ Tip(offsets[a]) = Len(lines)
      todo  == store[p].todo \ {a}
  IN  /\ store[p].at = "reading"
      /\ store' = [store EXCEPT ![p] = [@ EXCEPT
           !.offsets[a] = IF fresh THEN Merge(offsets[a], tail) ELSE read,
           !.nodes[a] = IF fresh THEN Merge(nodes[a], tail) ELSE read,
           !.seen[a] = Whole(lines),
           !.actor = a, !.todo = todo,
           !.at = IF exact \/ lines = <<>> THEN After(p, todo)
                  ELSE "saving"]]
      /\ UNCHANGED <<issued, file, loose, offsets, nodes, writer, batch,
                     compact, settled, faults, durable, dropped,
                     excuses>>

\* save_entries: a whole sidecar is replaced; without entries it is as none.
Saved(ix) == IF DOMAIN ix = {} THEN None ELSE ix

\* A sidecar of Me is replaced by one that lacks lines the file has by now:
\* the live storage has gone on appending, with entries of its own.
Overtaken(p) ==
  IF store[p].actor = Me /\ store[p].seen[Me] # Whole(file[Me])
  THEN {"overtaken"} ELSE {}

SaveOffsets(p) ==
  LET a == store[p].actor IN
  /\ store[p].at = "saving"
  /\ excuses' = excuses \cup Overtaken(p)
  /\ offsets' = [offsets EXCEPT ![a] = Saved(store[p].offsets[a])]
  /\ store' = [store EXCEPT ![p].at = "saving nodes"]
  /\ UNCHANGED <<issued, file, loose, nodes, writer, batch, compact,
                 settled, faults, durable, dropped>>

SaveNodes(p) ==
  LET a == store[p].actor IN
  /\ store[p].at = "saving nodes"
  /\ excuses' = excuses \cup Overtaken(p)
  /\ nodes' = [nodes EXCEPT ![a] = Saved(store[p].nodes[a])]
  /\ store' = [store EXCEPT ![p].at = After(p, store[p].todo)]
  /\ UNCHANGED <<issued, file, loose, offsets, writer, batch, compact,
                 settled, faults, durable, dropped>>

\* The sidecars cannot be written, or a read error forbids to write them.
SaveFails(p) ==
  /\ Fault
  /\ store[p].at = "saving"
  /\ store' = [store EXCEPT ![p].at = After(p, store[p].todo)]
  /\ excuses' = excuses \cup {"failed write"}
  /\ UNCHANGED <<issued, file, loose, offsets, nodes, writer, batch,
                 compact, settled, durable, dropped>>

----------------------------------------------------------------------------
(***************************************************************************)
(* Appending: append_ops_inner, one line after the other, one fsync, then  *)
(* one entry per operation in the offset sidecar and one in the other.     *)
(***************************************************************************)
Issued == {t \in Ts : issued[t] # None}

\* What a device that has seen S may come to do: make a block or bring back
\* one that is in the trash, move one that is there.
Sensible(S, op) ==
  IF op.kind = "Create" THEN Tree(S).parent[op.node] \in {None, Trash}
  ELSE Present(Tree(S), op.node)

Possible(t, op) ==
  \E S \in SUBSET {u \in Issued : u < t} : Sensible(S, op)

\* Mutated form: the text goes after whatever the file ends with.
PutGlued(lines, open, t) == IF open THEN lines ELSE Append(lines, t)

\* A new last line, after the newline that ends a torn one: an operation or,
\* when the write is cut off, a fragment.
Put(lines, open, t) == Append(lines, t)

\* The clock of the writer is past every operation it has seen.
Fresher(p) == {t \in Ts : Author[t] = Me /\ issued[t] = None
                         /\ (\A u \in Issued : Author[u] = Me => u < t)
                         /\ \A a \in Actor : \A u \in store[p].seen[a] : u < t}

Append1(p) ==
  \E t \in Fresher(p) : \E op \in LocalOps[t] :
    /\ Possible(t, op)
    /\ issued' = [issued EXCEPT ![t] = op]
    /\ batch' = [NoBatch EXCEPT !.todo = <<t>>, !.from = Len(file[Me])]

\* A block that is made and put in its place.
Append2(p) ==
  \E t, u \in Fresher(p) : \E op \in LocalOps[t], mv \in LocalOps[u] :
    /\ t < u /\ op.kind = "Create" /\ Possible(t, op)
    /\ mv = [op EXCEPT !.kind = "Move"]
    /\ issued' = [issued EXCEPT ![t] = op, ![u] = mv]
    /\ batch' = [NoBatch EXCEPT !.todo = <<t, u>>, !.from = Len(file[Me])]

Begin(p) ==
  /\ store[p].at = "up" /\ writer = p /\ batch = NoBatch
  /\ Append1(p) \/ Append2(p)
  /\ UNCHANGED <<file, loose, offsets, nodes, store, writer, compact,
                 settled, faults, durable, dropped, excuses>>

\* The last line is followed by the fsync.
WriteLine ==
  LET t    == Head(batch.todo)
      done == Append(batch.entries, t)
      over == Tail(batch.todo) = <<>>
  IN  /\ batch.todo # <<>>
      /\ file' = [file EXCEPT ![Me] = Put(@, loose[Me], t)]
      /\ loose' = [loose EXCEPT ![Me] = FALSE]
      /\ batch' = [batch EXCEPT !.todo = Tail(@), !.entries = done]
      /\ durable' = IF over THEN durable \cup {done[i] : i \in 1..Len(done)}
                    ELSE durable
      /\ UNCHANGED <<issued, offsets, nodes, store, writer, compact, settled,
                     faults, dropped, excuses>>

Tear(a) ==
  /\ file' = [file EXCEPT ![a] = Put(@, loose[a], Torn)]
  /\ loose' = [loose EXCEPT ![a] = TRUE]

Cut(a) == Tear(a) \/ UNCHANGED <<file, loose>>

\* A write fails: the error is returned, what is in the file stays there.
WriteFails ==
  /\ Fault
  /\ batch.todo # <<>>
  /\ Cut(Me)
  /\ batch' = NoBatch
  /\ excuses' = excuses \cup {"failed write"}
  /\ UNCHANGED <<issued, offsets, nodes, store, writer, compact, settled,
                 durable, dropped>>

\* What a process that holds the lock does to its own indexes in memory.
Remembered(t, n) == [store EXCEPT ![writer].offsets[Me] = Entered(@, t, n),
                                 ![writer].nodes[Me] = Entered(@, t, n)]

EnterOffset ==
  LET t == Head(batch.entries)
      n == batch.from + 1
  IN  /\ batch.todo = <<>> /\ batch.entries # <<>> /\ batch.part = "offset"
      /\ offsets' = [offsets EXCEPT ![Me] = Entered(@, t, n)]
      /\ store' = Remembered(t, n)
      /\ batch' = [batch EXCEPT !.part = "node"]
      /\ UNCHANGED <<issued, file, loose, nodes, writer, compact,
                     settled, faults, durable, dropped, excuses>>

NextEntry ==
  IF Tail(batch.entries) = <<>> THEN NoBatch
  ELSE [batch EXCEPT !.entries = Tail(@), !.part = "offset", !.from = @ + 1]

EnterNode ==
  /\ batch.entries # <<>> /\ batch.part = "node"
  /\ nodes' = [nodes EXCEPT ![Me] = Entered(@, Head(batch.entries),
                                            batch.from + 1)]
  /\ batch' = NextEntry
  /\ UNCHANGED <<issued, file, loose, offsets, store, writer, compact,
                 settled, faults, durable, dropped, excuses>>

\* An entry cannot be appended: a warning, and the append goes on.
OffsetFails ==
  /\ Fault
  /\ batch.todo = <<>> /\ batch.entries # <<>> /\ batch.part = "offset"
  /\ store' = Remembered(Head(batch.entries), batch.from + 1)
  /\ batch' = [batch EXCEPT !.part = "node"]
  /\ excuses' = excuses \cup {"failed write"}
  /\ UNCHANGED <<issued, file, loose, offsets, nodes, writer,
                 compact, settled, durable, dropped>>

NodeFails ==
  /\ Fault
  /\ batch.entries # <<>> /\ batch.part = "node"
  /\ batch' = NextEntry
  /\ excuses' = excuses \cup {"failed write"}
  /\ UNCHANGED <<issued, file, loose, offsets, nodes, store, writer,
                 compact, settled, durable, dropped>>

----------------------------------------------------------------------------
(***************************************************************************)
(* A peer's operation: the transport of one process appends it to the      *)
(* peer's file, whose sidecars it leaves alone (outl-sync-iroh,            *)
(* write_deduped_batch).  One that is on its way is as one that is still   *)
(* to be issued; Horizon: it is newer than the cutoff of any compaction.   *)
(***************************************************************************)
Arrives(t, op) ==
  IF issued[t] = None
  THEN /\ t > settled
       /\ \A u \in Issued : Author[u] = Author[t] => u < t
       /\ Possible(t, op)
       /\ issued' = [issued EXCEPT ![t] = op]
  ELSE op = issued[t] /\ UNCHANGED issued

Ingest(p, t, op) ==
  LET a == Author[t] IN
  /\ store[p].at = "up" /\ a # Me /\ t \notin OnDisk
  /\ Arrives(t, op)
  /\ file' = [file EXCEPT ![a] = Put(@, loose[a], t)]
  /\ loose' = [loose EXCEPT ![a] = FALSE]
  /\ durable' = durable \cup {t}
  /\ UNCHANGED <<offsets, nodes, store, writer, batch, compact, settled,
                 faults, dropped, excuses>>

----------------------------------------------------------------------------
\* A process ends: all of its storages are gone and its locks are released.
Leave(p) ==
  /\ store' = [q \in Storage |-> IF q \in Fellows(p) THEN Down ELSE store[q]]
  /\ writer' = IF writer \in Fellows(p) THEN None ELSE writer

\* It quits, whatever its reloads are at.
Stop(p) ==
  /\ store[p].at = "up"
  /\ writer \in Fellows(p) => batch = NoBatch
  /\ Leave(p)
  /\ UNCHANGED <<issued, file, loose, offsets, nodes, batch, compact,
                 settled, faults, durable, dropped, excuses>>

\* It is killed; the line it was writing, of its own operations or of a
\* peer's, is torn.
Crash(p) ==
  /\ Fault
  /\ store[p].at # "down"
  /\ Leave(p)
  /\ \/ UNCHANGED <<file, loose>>
     \/ writer \in Fellows(p) /\ batch.todo # <<>> /\ Tear(Me)
     \/ /\ \E q \in Fellows(p) : store[q].at = "up"
        /\ \E a \in Actor \ {Me} : Tear(a)
  /\ batch' = IF writer \in Fellows(p) THEN NoBatch ELSE batch
  /\ UNCHANGED <<issued, offsets, nodes, compact, settled, durable, dropped,
                 excuses>>

----------------------------------------------------------------------------
(***************************************************************************)
(* outl compact --apply: plan_compaction under a probe of the workspace    *)
(* lock that is then given back, apply_compaction under the lock.          *)
(***************************************************************************)
Creates(n) == {u \in OnDisk : issued[u].kind = "Create" /\ issued[u].node = n}

Before(t) == {u \in OnDisk : u < t}

\* Mutated form: a Create and a Move next to it to the same place suffice.
DroppablePair(t, cutoff) ==
  LET op == issued[t]
      u  == Highest(Before(t))
  IN  /\ op.kind = "Move" /\ op.parent # Root /\ t <= cutoff
      /\ u # 0 /\ issued[u] = [op EXCEPT !.kind = "Create"]
      /\ Author[u] = Author[t]

\* The six conditions: a Move into place that follows, in the merged order,
\* the only Create of the block and its first appearance.
Droppable(t, cutoff) ==
  LET op == issued[t]
      u  == Highest(Before(t))
  IN  /\ op.kind = "Move" /\ op.parent # Root /\ t <= cutoff
      /\ Creates(op.node) = {u}
      /\ issued[u] = [op EXCEPT !.kind = "Create"] /\ Author[u] = Author[t]
      /\ \A v \in OnDisk : issued[v].node = op.node => u <= v
      /\ Tree(Before(t)).parent[op.node] = op.parent
      /\ Tree(Before(t)).pos[op.node] = op.pos

\* Mutated form: nobody asks whether the workspace is open.
AloneOrNot == TRUE

\* Every process of the workspace holds its lock shared.
Alone == \A p \in Storage : store[p].at = "down"

Damaged == \E a \in Actor : \E i \in 1..Len(file[a]) : file[a][i] = Torn

Sizes == [a \in Actor |-> Len(file[a])]

\* Horizon: the cutoff is so old that every operation of a peer up to it
\* has come in.
Plan(cutoff) ==
  LET drops == {t \in Whole(file[Me]) : Droppable(t, cutoff)} IN
  /\ compact.at = "idle" /\ Alone /\ ~ Damaged
  /\ \A t \in Issued : Author[t] # Me /\ t <= cutoff => t \in OnDisk
  /\ drops # {}
  /\ compact' = [at |-> "planned", drops |-> drops, sizes |-> Sizes]
  /\ settled' = IF cutoff > settled THEN cutoff ELSE settled
  /\ UNCHANGED <<issued, file, loose, offsets, nodes, store, writer, batch,
                 faults, durable, dropped, excuses>>

\* Busy, PlanStale and DamagedLog, before anything is written.
Check ==
  /\ compact.at = "planned"
  /\ compact' = IF Alone /\ compact.sizes = Sizes /\ ~ Damaged
                THEN [compact EXCEPT !.at = "checked"] ELSE NoCompact
  /\ UNCHANGED <<issued, file, loose, offsets, nodes, store, writer, batch,
                 settled, faults, durable, dropped, excuses>>

\* The lines that stay, in their order.
Kept(lines, drops) ==
  LET stays   == {i \in 1..Len(lines) : lines[i] \notin drops}
      rank(i) == Cardinality({j \in stays : j <= i})
  IN  [n \in 1..Cardinality(stays) |->
         lines[CHOOSE i \in stays : rank(i) = n]]

Rename ==
  /\ compact.at = "checked"
  /\ file' = [file EXCEPT ![Me] = Kept(@, compact.drops)]
  /\ compact' = [compact EXCEPT !.at = "renamed"]
  /\ dropped' = dropped \cup compact.drops
  /\ UNCHANGED <<issued, loose, offsets, nodes, store, writer, batch,
                 settled, faults, durable, excuses>>

\* invalidate_indexes: sidecar::remove_all, one file after the other.
DropOffsets ==
  /\ compact.at = "renamed"
  /\ offsets' = [offsets EXCEPT ![Me] = None]
  /\ compact' = [compact EXCEPT !.at = "half"]
  /\ UNCHANGED <<issued, file, loose, nodes, store, writer, batch,
                 settled, faults, durable, dropped, excuses>>

DropNodes ==
  /\ compact.at = "half"
  /\ nodes' = [nodes EXCEPT ![Me] = None]
  /\ compact' = NoCompact
  /\ UNCHANGED <<issued, file, loose, offsets, store, writer, batch,
                 settled, faults, durable, dropped, excuses>>

\* A failed write or removal, a kill, at any point: what is done stays.
CompactEnds ==
  /\ Fault
  /\ compact.at # "idle"
  /\ excuses' = IF compact.at \in {"renamed", "half"}
                THEN excuses \cup {"cut off"} ELSE excuses
  /\ compact' = NoCompact
  /\ UNCHANGED <<issued, file, loose, offsets, nodes, store, writer, batch,
                 settled, durable, dropped>>

----------------------------------------------------------------------------
Next ==
  \/ \E p \in Storage :
       \/ Start(p) \/ Reload(p) \/ \E q \in Storage : Replace(p, q)
       \/ SaveOffsets(p) \/ SaveNodes(p) \/ SaveFails(p)
       \/ Begin(p) \/ Stop(p) \/ Crash(p)
       \/ ReadFile(p)
       \/ \E t \in Ts : \E op \in LocalOps[t] : Ingest(p, t, op)
  \/ WriteLine \/ WriteFails
  \/ EnterOffset \/ EnterNode \/ OffsetFails \/ NodeFails
  \/ \E t \in Ts : Plan(t)
  \/ Check \/ Rename \/ DropOffsets \/ DropNodes \/ CompactEnds

Spec == Init /\ [][Next]_vars

----------------------------------------------------------------------------
Excuse == {"failed write", "overtaken", "cut off"}

IsIndex(ix) == DOMAIN ix \subseteq Ts /\ \A t \in DOMAIN ix : ix[t] \in Nat \ {0}

\* Type invariant: indexes hold timestamps only, a fragment has no entry,
\* and the last line of a file without a newline is one.
TypeOK ==
  /\ issued \in [Ts -> Op \cup {None}]
  /\ \A a \in Actor :
       /\ file[a] \in Seq(Ts \cup {Torn})
       /\ loose[a] => file[a] # <<>> /\ file[a][Len(file[a])] = Torn
       /\ offsets[a] = None \/ IsIndex(offsets[a])
       /\ nodes[a] = None \/ IsIndex(nodes[a])
       /\ \A p \in Storage : /\ IsIndex(store[p].offsets[a])
                              /\ IsIndex(store[p].nodes[a])
                              /\ store[p].seen[a] \subseteq Ts
  /\ writer \in Storage \cup {None}
  /\ batch # NoBatch => writer # None
  /\ compact.at \in {"idle", "planned", "checked", "renamed", "half"}
  /\ settled \in Nat /\ faults \in 0..MaxFaults
  /\ durable \subseteq Ts /\ dropped \subseteq Ts /\ excuses \subseteq Excuse

(***************************************************************************)
(* An append that was confirmed, of the device's own operations or of a    *)
(* peer's, is on disk from then on unless compaction took it, whatever a   *)
(* crash leaves at the end of a file (append.rs: "BOTH would be lost").    *)
(***************************************************************************)
NothingDurableLost == durable \subseteq OnDisk \cup dropped

\* What misleads the next boot, beside an entry that could not be written:
\* a compaction that was cut off between its rename and the removal of the
\* sidecars, with two more faults or a sidecar that was overtaken.
Misled ==
  \/ "failed write" \in excuses
  \/ "cut off" \in excuses /\ (MaxFaults - faults > 2 \/ "overtaken" \in excuses)

(***************************************************************************)
(* What a storage knows of the log it opened is the log: each operation it *)
(* read past is in both of its indexes, although they come from sidecars   *)
(* that another run left half written, older than the log or renumbered    *)
(* (read.rs: "a wrong fresh verdict silently loses ops").  This does not   *)
(* hold once a storage has saved the sidecar of a file that the live one   *)
(* has appended to since (overtaken): see NoHoles.                         *)
(***************************************************************************)
Reads(s) == \A a \in Actor : /\ store[s].seen[a] \subseteq DOMAIN store[s].offsets[a]
                             /\ store[s].seen[a] \subseteq DOMAIN store[s].nodes[a]

IndexIsWhole ==
  ~ Misled /\ "overtaken" \notin excuses =>
    \A s \in Storage : store[s].at = "up" => Reads(s)

(***************************************************************************)
(* The same without that exception, as index.rs has it: an index that      *)
(* disagrees with the file is rebuilt.                                     *)
(***************************************************************************)
NoHoles == ~ Misled => \A s \in Storage : store[s].at = "up" => Reads(s)

(***************************************************************************)
(* An offset a storage holds leads to the operation it stands for, also    *)
(* after the file was rewritten (compact.rs: "a live client caches byte    *)
(* offsets into the files this renumbers"), and whatever sidecars reloads  *)
(* and appends leave to each other.                                        *)
(***************************************************************************)
OffsetsTrue ==
  ~ Misled => \A s \in Storage : store[s].at # "down" =>
    \A a \in Actor :
      \A ix \in {store[s].offsets[a], store[s].nodes[a]} :
        \A t \in DOMAIN ix : ix[t] <= Len(file[a]) /\ file[a][ix[t]] = t

(***************************************************************************)
(* Compaction removes only operations whose application changes nothing:   *)
(* the log that is left replays to the tree of the log with them, also     *)
(* when more operations come in afterwards (plan.rs: "a dropped op is by   *)
(* construction one whose application changes nothing").                   *)
(***************************************************************************)
DiskReplaysHistory == Tree(OnDisk) = Tree(OnDisk \cup dropped)
============================================================================

------------------------------ MODULE TreeCRDT ------------------------------
(***************************************************************************)
(* Replicas of the tree CRDT.  Every replica holds a materialized tree and *)
(* a log sorted by HLC (outl-core tree/ and log.rs).  apply_op inserts an  *)
(* operation at its place in the log: it undoes the newer entries, does    *)
(* the operation, and redoes what it undid.  The loop runs step by step    *)
(* here, so the invariants also speak of the trees in the middle of it; no *)
(* other operation of the same replica starts before it ends (&mut self).  *)
(*                                                                         *)
(* Transport is not modelled: any operation that was issued may reach any  *)
(* replica at any time, in any order, and more than once.                  *)
(***************************************************************************)
EXTENDS TreeState, Sequences, SequencesExt

CONSTANTS
  Replica,   \* the processes that hold a copy of the workspace
  Ts,        \* HLC timestamps; their total order is the one of the integers
  LocalOps,  \* the operations the replicas may issue
  Base,      \* the trees the replicas may have booted from
  Seeded     \* TRUE: clocks are seeded above every operation they have seen

ASSUME CRDTConstants ==
  /\ Ts \subseteq Nat \ {0}
  /\ LocalOps \subseteq Op /\ None \notin Op
  /\ Base \subseteq Bodies
  /\ Seeded \in BOOLEAN

VARIABLES
  base,    \* the boot tree, the same snapshot body on every replica
  issued,  \* the operation issued with each timestamp, None so far
  tree,    \* replica -> Tree
  log,     \* replica -> OpLog.ops, oldest first
  cur,     \* replica -> the timestamp apply_op is inserting, 0 when none
  undone   \* replica -> apply_op's stack of undone entries, newest first

vars == <<base, issued, tree, log, cur, undone>>

Entry == [ts : Ts, op : Op, old : Old]

TsOf(s) == {s[i].ts : i \in 1..Len(s)}

\* Every timestamp the replica has accepted.
Held(r) == TsOf(log[r]) \cup TsOf(undone[r]) \cup ({cur[r]} \ {0})

Idle(r) == cur[r] = 0 /\ undone[r] = <<>>

Init ==
  /\ base \in Base
  /\ issued = [t \in Ts |-> None]
  /\ tree = [r \in Replica |-> base]
  /\ log = [r \in Replica |-> <<>>]
  /\ cur = [r \in Replica |-> 0]
  /\ undone = [r \in Replica |-> <<>>]

----------------------------------------------------------------------------
(***************************************************************************)
(* A local edit.  The caller took its ids out of its own tree; a Create    *)
(* may repeat the node of another one, page roots being addressed by       *)
(* NodeId::from_slug.  Timestamps are unique; an unseeded clock may run    *)
(* behind operations the replica has already seen.                         *)
(***************************************************************************)
Resolvable(r, op) ==
  /\ op.kind # "Create" => Present(tree[r], op.node)
  /\ op.kind \in {"Create", "Move"} /\ op.parent \in Node
       => Present(tree[r], op.parent)

\* Mutated form: the clock was never seeded from the log.
ClockAllowsAny(r, ts) == issued[ts] = None

ClockAllows(r, ts) ==
  /\ issued[ts] = None
  /\ Seeded => \A t \in Held(r) : t < ts

Issue(r) ==
  /\ Idle(r)
  /\ \E ts \in Ts, op \in LocalOps :
       /\ ClockAllows(r, ts)
       /\ Resolvable(r, op)
       /\ issued' = [issued EXCEPT ![ts] = op]
       /\ cur' = [cur EXCEPT ![r] = ts]
  /\ UNCHANGED <<base, tree, log, undone>>

\* Mutated form: without the contains_ts check.
DeliverAgain(r, ts) ==
  /\ Idle(r)
  /\ issued[ts] # None
  /\ cur' = [cur EXCEPT ![r] = ts]
  /\ UNCHANGED <<base, issued, tree, log, undone>>

\* An operation arrives; contains_ts makes a repeated one a no-op.
Deliver(r, ts) ==
  /\ Idle(r)
  /\ issued[ts] # None
  /\ cur' = [cur EXCEPT ![r] = IF ts \in TsOf(log[r]) THEN 0 ELSE ts]
  /\ UNCHANGED <<base, issued, tree, log, undone>>

\* Mutated form: the entry is logged without an undo record.
AppendBare(r, ts, op) ==
  /\ tree' = [tree EXCEPT ![r] = DoOp(@, ts, op)]
  /\ log' = [log EXCEPT ![r] = Append(@, [ts |-> ts, op |-> op])]

\* OpLog::append of an entry do_op has just recorded.
AppendDone(r, ts, op) ==
  /\ tree' = [tree EXCEPT ![r] = DoOp(@, ts, op)]
  /\ log' = [log EXCEPT ![r] =
               Append(@, [ts |-> ts, op |-> op, old |-> Captured(tree[r], op)])]

NewerTail(r) == log[r] # <<>> /\ Last(log[r]).ts > cur[r]

\* Mutated form: pops the newer entries and leaves the tree as it is.
PopStep(r) ==
  /\ cur[r] # 0 /\ NewerTail(r)
  /\ undone' = [undone EXCEPT ![r] = Append(@, Last(log[r]))]
  /\ log' = [log EXCEPT ![r] = Front(@)]
  /\ UNCHANGED <<base, issued, tree, cur>>

UndoStep(r) ==
  /\ cur[r] # 0 /\ NewerTail(r)
  /\ LET e == Last(log[r])
     IN  /\ tree' = [tree EXCEPT ![r] = UndoOp(@, e.ts, e.op, e.old)]
         /\ undone' = [undone EXCEPT ![r] = Append(@, e)]
  /\ log' = [log EXCEPT ![r] = Front(@)]
  /\ UNCHANGED <<base, issued, cur>>

\* Mutated form: an operation that changes nothing is not logged.
DoUsefulStep(r) ==
  /\ cur[r] # 0 /\ ~ NewerTail(r)
  /\ IF DoOp(tree[r], cur[r], issued[cur[r]]) = tree[r]
     THEN UNCHANGED <<tree, log>>
     ELSE AppendDone(r, cur[r], issued[cur[r]])
  /\ cur' = [cur EXCEPT ![r] = 0]
  /\ UNCHANGED <<base, issued, undone>>

DoStep(r) ==
  /\ cur[r] # 0 /\ ~ NewerTail(r)
  /\ AppendDone(r, cur[r], issued[cur[r]])
  /\ cur' = [cur EXCEPT ![r] = 0]
  /\ UNCHANGED <<base, issued, undone>>

\* Mutated form: the old undo record is kept, not derived again.
RedoStale(r) ==
  /\ cur[r] = 0 /\ undone[r] # <<>>
  /\ LET e == Last(undone[r])
     IN  /\ tree' = [tree EXCEPT ![r] = DoOp(@, e.ts, e.op)]
         /\ log' = [log EXCEPT ![r] = Append(@, e)]
  /\ undone' = [undone EXCEPT ![r] = Front(@)]
  /\ UNCHANGED <<base, issued, cur>>

RedoStep(r) ==
  /\ cur[r] = 0 /\ undone[r] # <<>>
  /\ AppendDone(r, Last(undone[r]).ts, Last(undone[r]).op)
  /\ undone' = [undone EXCEPT ![r] = Front(@)]
  /\ UNCHANGED <<base, issued, cur>>

Next == \E r \in Replica :
  \/ Issue(r)
  \/ \E ts \in Ts : Deliver(r, ts)
  \/ UndoStep(r)
  \/ DoStep(r)
  \/ RedoStep(r)

Spec == Init /\ [][Next]_vars

----------------------------------------------------------------------------
\* Type invariant: every map holds what the Rust types say it holds.
TypeOK ==
  /\ base \in Base
  /\ issued \in [Ts -> LocalOps \cup {None}]
  /\ tree \in [Replica -> State]
  /\ log \in [Replica -> Seq(Entry)]
  /\ cur \in [Replica -> Ts \cup {0}]
  /\ undone \in [Replica -> Seq(Entry)]
  /\ \A r \in Replica : cur[r] # 0 => issued[cur[r]] # None

Increasing(s) == \A i, j \in 1..Len(s) : i < j => s[i].ts < s[j].ts
Decreasing(s) == \A i, j \in 1..Len(s) : i < j => s[i].ts > s[j].ts

(***************************************************************************)
(* The order contains_ts's binary search and OpLog::append's debug_assert  *)
(* rely on, in every intermediate state: the log ascends, the stack of     *)
(* undone entries descends and lies entirely above the log, and the        *)
(* operation being inserted is in neither and below what was undone.       *)
(***************************************************************************)
Sorted(r) ==
  /\ Increasing(log[r]) /\ Decreasing(undone[r])
  /\ \A t \in TsOf(log[r]), u \in TsOf(undone[r]) : t < u
  /\ cur[r] # 0 => /\ cur[r] \notin TsOf(log[r])
                   /\ \A u \in TsOf(undone[r]) : cur[r] < u

LogSorted == \A r \in Replica : Sorted(r)

(***************************************************************************)
(* Tree validity (docs/crdt.md, invariant 4) in every state of the reorder *)
(* loop: no block is its own ancestor and no record is half there.         *)
(***************************************************************************)
TreeValid == \A r \in Replica : WellFormed(tree[r])

\* The trees before the first log entry and after each of them.
History(b, lg) ==
  LET h[i \in 0..Len(lg)] ==
        IF i = 0 THEN b ELSE DoOp(h[i - 1], lg[i].ts, lg[i].op)
  IN  h

(***************************************************************************)
(* undo_op is the exact inverse of do_op at every place of every log, with *)
(* the old_* fields that place recorded, operations do_op ignored          *)
(* included; the tree is what replaying the log in order gives, and the    *)
(* log holds the operations as they were issued.                           *)
(***************************************************************************)
UndoExact == \A r \in Replica :
  LET h == History(base, log[r])
  IN  /\ tree[r] = h[Len(log[r])]
      /\ \A i \in 1..Len(log[r]) :
           /\ log[r][i].op = issued[log[r][i].ts]
           /\ UndoOp(h[i], log[r][i].ts, log[r][i].op, log[r][i].old) = h[i - 1]

(***************************************************************************)
(* Convergence (docs/crdt.md, invariants 1 to 3): two replicas that hold   *)
(* the same operations hold the same tree, in whatever order and however   *)
(* often the operations came.                                              *)
(***************************************************************************)
Convergence == \A r, s \in Replica :
  Idle(r) /\ Idle(s) /\ Held(r) = Held(s) => tree[r] = tree[s]

(***************************************************************************)
(* No silent loss (docs/crdt.md, invariant 5): an accepted operation stays *)
(* accepted, through every undo and redo, also when it changes no tree.    *)
(***************************************************************************)
NothingForgotten == [][\A r \in Replica : Held(r) \subseteq Held(r)']_vars

(***************************************************************************)
(* While operations are missing a block may hang under a parent that has   *)
(* no record (the walk of creates_cycle ends there and lets it through).   *)
(* With clocks that are seeded, once every operation that was issued has   *)
(* arrived no block is left so.                                            *)
(***************************************************************************)
RootedOnceDelivered == \A r \in Replica :
  Idle(r) /\ (\A t \in Ts : issued[t] # None => t \in Held(r))
    => Rooted(tree[r])
============================================================================

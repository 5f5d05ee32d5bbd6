--------------------------- MODULE ConvergentTree ---------------------------
(***************************************************************************)
(* What the tree CRDT promises, without logs, undo records or reordering:  *)
(* a replica has seen a set of operations, and its tree is what doing      *)
(* exactly those operations in HLC order to the boot tree gives.  A new    *)
(* operation is taken in atomically; nothing is ever unseen.               *)
(***************************************************************************)
EXTENDS TreeState

CONSTANTS Replica, Ts, LocalOps, Base

VARIABLES
  base,    \* the boot tree
  issued,  \* the operation issued with each timestamp, None so far
  seen,    \* replica -> the timestamps it has taken in
  view     \* replica -> the tree it shows

vars == <<base, issued, seen, view>>

Init ==
  /\ base \in Base
  /\ issued = [t \in Ts |-> None]
  /\ seen = [r \in Replica |-> {}]
  /\ view = [r \in Replica |-> base]

Publish(ts, op) ==
  /\ issued[ts] = None
  /\ issued' = [issued EXCEPT ![ts] = op]
  /\ UNCHANGED <<base, seen, view>>

TakeIn(r, ts) ==
  /\ issued[ts] # None /\ ts \notin seen[r]
  /\ seen' = [seen EXCEPT ![r] = @ \cup {ts}]
  /\ view' = [view EXCEPT ![r] = Replay(base, issued, seen'[r])]
  /\ UNCHANGED <<base, issued>>

Next ==
  \/ \E ts \in Ts, op \in LocalOps : Publish(ts, op)
  \/ \E r \in Replica, ts \in Ts : TakeIn(r, ts)

Spec == Init /\ [][Next]_vars
============================================================================

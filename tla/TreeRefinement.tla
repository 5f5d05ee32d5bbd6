--------------------------- MODULE TreeRefinement ---------------------------
(***************************************************************************)
(* TreeCRDT implements ConvergentTree.  An operation counts as seen from   *)
(* the moment do_op appends it to the log; while the loop still redoes     *)
(* newer entries the replica has not returned from apply_op, and what it   *)
(* will show when it does is the replay of what it has seen.               *)
(***************************************************************************)
EXTENDS TreeCRDT

SeenBy(r) == TsOf(log[r]) \cup TsOf(undone[r])

Promise == INSTANCE ConvergentTree WITH
  seen <- [r \in Replica |-> SeenBy(r)],
  view <- [r \in Replica |->
             IF Idle(r) THEN tree[r] ELSE Replay(base, issued, SeenBy(r))]

(***************************************************************************)
(* Every step of the reorder loop is a step of the promise or invisible:   *)
(* apply_op looks atomic, loses nothing, and shows the replay of what the  *)
(* replica has, whatever order it came in.                                 *)
(***************************************************************************)
ImplementsConvergentTree == Promise!Spec
============================================================================

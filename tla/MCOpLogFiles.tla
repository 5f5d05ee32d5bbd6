---------------------------- MODULE MCOpLogFiles ----------------------------
(***************************************************************************)
(* Small instances of OpLogFiles for TLC.                                  *)
(***************************************************************************)
EXTENDS OpLogFiles, TLC

CONSTANTS me, peer, block, page

(* One process: what it boots with, and one reload at a time.  The two     *)
(* storages differ in nothing but their names.                             *)
OneProcess == [s \in Storage |-> "outl"]
Alike == Permutations(Storage)

(* The second operation is the peer's.                                     *)
Authors == [t \in Ts |-> IF t = 2 THEN peer ELSE me]

(* A block of a page is made, moved into place and to the trash, from      *)
(* where it can be brought back; the peer may move it to the trash.        *)
Placed == {op \in Op : op.kind = "Create" /\ op.node = block /\ op.parent = page}
Moved == {op \in Op : op.kind = "Move" /\ op.node = block /\ op.parent = page}
Trashed == {op \in Op : op.kind = "Move" /\ op.node = block /\ op.parent = Trash}

Ops == [t \in Ts |-> CASE t = 1 -> Placed
                       [] t = 2 -> Trashed
                       [] t = 3 -> Placed \cup Moved
                       [] OTHER -> Moved \cup Trashed]
=============================================================================

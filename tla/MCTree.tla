------------------------------- MODULE MCTree -------------------------------
(***************************************************************************)
(* Small instances of TreeCRDT and of its refinement for TLC.              *)
(***************************************************************************)
EXTENDS TreeRefinement, TLC

CONSTANTS a, b, c

(* A tree loaded from disk: b below a, and no record of c yet.             *)
Loaded == [EmptyTree EXCEPT !.parent[a] = Root, !.parent[b] = a,
                            !.pos[a] = CHOOSE p \in Pos : TRUE,
                            !.pos[b] = CHOOSE p \in Pos : TRUE]

BaseShapes == {EmptyTree, Loaded}

(***************************************************************************)
(* Operations that make cycles of two and of three blocks, whose parent    *)
(* may be created later or twice, or may be in the trash, and a register.  *)
(***************************************************************************)
Moves == {op \in Op : op.kind = "Move" /\ <<op.node, op.parent>> \in
            {<<a, b>>, <<a, c>>, <<b, c>>, <<b, Trash>>, <<c, a>>, <<c, b>>}}
Creates == {op \in Op : op.kind = "Create" /\ <<op.node, op.parent>> \in
              {<<a, Root>>, <<b, a>>, <<c, Root>>, <<c, b>>}}
Registers == {op \in Op : op.kind \in {"Set", "Edit"} /\ op.node = a}
Chosen == Creates \cup Moves \cup Registers

Symmetry == Permutations(Replica)
============================================================================

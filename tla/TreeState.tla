----------------------------- MODULE TreeState -----------------------------
(***************************************************************************)
(* The materialized outline tree of outl-core and the pure functions of    *)
(* crates/outl-core/src/tree: creates_cycle, do_op and undo_op.  A tree is *)
(* a value here; who owns it and when an operation is applied to it is the *)
(* business of the modules that extend this one.                           *)
(***************************************************************************)
EXTENDS Integers

CONSTANTS
  Node,    \* block identifiers
  Root,    \* NodeId::root(), a sentinel without a record of its own
  Trash,   \* NodeId::trash(), the sentinel deleted blocks are moved under
  Pos,     \* fractional positions among siblings
  Key,     \* the registers of a block: property keys, collapsed, snoozed
  Val,     \* what a register can hold
  None     \* "no entry" in any of the maps

Parent == Node \cup {Root, Trash}

ASSUME TreeConstants ==
  /\ Root \notin Node /\ Trash \notin Node
  /\ None \notin Parent /\ None \notin Pos /\ None \notin Val

(***************************************************************************)
(* Tree: nodes is split into parent and pos; the three maps properties,    *)
(* collapsed and snoozed have one shape (absent, or a value) and are one   *)
(* map reg; created_by maps a node to the timestamp of the Create that     *)
(* inserted it, 0 for no entry.                                            *)
(***************************************************************************)
State == [parent : [Node -> Parent \cup {None}],
          pos    : [Node -> Pos \cup {None}],
          reg    : [Node \X Key -> Val \cup {None}],
          made   : [Node -> Nat]]

EmptyTree == [parent |-> [n \in Node |-> None],
              pos    |-> [n \in Node |-> None],
              reg    |-> [x \in Node \X Key |-> None],
              made   |-> [n \in Node |-> 0]]

(***************************************************************************)
(* Op.  Set stands for SetProp, SetCollapsed and SnoozeRemind: each keeps  *)
(* one register of one node, with None for "remove the entry".  Edit       *)
(* changes the block's text, which the tree does not hold.                 *)
(***************************************************************************)
Op == [kind : {"Create", "Move"}, node : Node, parent : Parent, pos : Pos]
      \cup [kind : {"Set"}, node : Node, key : Key, val : Val \cup {None}]
      \cup [kind : {"Edit"}, node : Node]

\* The old_* fields of a logged op; the ones its kind lacks are None.
Old == [parent : Parent \cup {None}, pos : Pos \cup {None},
        val : Val \cup {None}]

NoOld == [parent |-> None, pos |-> None, val |-> None]

Present(s, n) == s.parent[n] # None

(***************************************************************************)
(* creates_cycle(n, p): n is p or one of its ancestors, so that every set  *)
(* of nodes that holds p and is closed under "parent of" holds n.  A       *)
(* sentinel and a node without a record end the walk.                      *)
(***************************************************************************)
UpClosed(parent, S) == \A m \in S : parent[m] \in Node => parent[m] \in S

CreatesCycle(parent, n, p) ==
  /\ p \in Node
  /\ \A S \in SUBSET Node : p \in S /\ UpClosed(parent, S) => n \in S

Acyclic(parent) == \A n \in Node : ~ CreatesCycle(parent, n, parent[n])

Place(s, n, p, x) == [s EXCEPT !.parent[n] = p, !.pos[n] = x]

----------------------------------------------------------------------------
\* do_op, the old_* fields it fills in and the tree it leaves.

Captured(s, op) ==
  CASE op.kind = "Move" /\ Present(s, op.node) ->
         [NoOld EXCEPT !.parent = s.parent[op.node], !.pos = s.pos[op.node]]
    [] op.kind = "Move" /\ ~ Present(s, op.node) ->
         [NoOld EXCEPT !.parent = op.parent, !.pos = op.pos]
    [] op.kind = "Set" -> [NoOld EXCEPT !.val = s.reg[<<op.node, op.key>>]]
    [] OTHER -> NoOld

\* Without the cycle guard (a mutated form, used by no definition).
MoveTakesAnyway(s, op) == Present(s, op.node)

\* Both arms run the cycle guard; Create also keeps a node that is there.
MoveTakes(s, op) ==
  Present(s, op.node) /\ ~ CreatesCycle(s.parent, op.node, op.parent)

CreateTakes(s, op) ==
  ~ Present(s, op.node) /\ ~ CreatesCycle(s.parent, op.node, op.parent)

DoOp(s, ts, op) ==
  CASE op.kind = "Move" /\ MoveTakes(s, op) ->
         Place(s, op.node, op.parent, op.pos)
    [] op.kind = "Create" /\ CreateTakes(s, op) ->
         [Place(s, op.node, op.parent, op.pos) EXCEPT !.made[op.node] = ts]
    [] op.kind = "Set" -> [s EXCEPT !.reg[<<op.node, op.key>>] = op.val]
    [] OTHER -> s

\* The undo_op before RFC 0263: a Create is undone whoever made the node.
UndoOpRemoves(s, ts, op, old) ==
  CASE op.kind = "Move" /\ s.parent[op.node] = op.parent ->
         Place(s, op.node, old.parent, old.pos)
    [] op.kind = "Create" ->
         [Place(s, op.node, None, None) EXCEPT !.made[op.node] = 0]
    [] op.kind = "Set" -> [s EXCEPT !.reg[<<op.node, op.key>>] = old.val]
    [] OTHER -> s

\* undo_op of a logged op whose recorded old_* fields are old.
UndoOp(s, ts, op, old) ==
  CASE op.kind = "Move" /\ s.parent[op.node] = op.parent ->
         Place(s, op.node, old.parent, old.pos)
    [] op.kind = "Create" /\ s.made[op.node] = ts ->
         [Place(s, op.node, None, None) EXCEPT !.made[op.node] = 0]
    [] op.kind = "Set" -> [s EXCEPT !.reg[<<op.node, op.key>>] = old.val]
    [] OTHER -> s

----------------------------------------------------------------------------
Highest(S) == CHOOSE m \in S \cup {0} : \A t \in S : t <= m

\* The tree that the operations with timestamps in S make of b.
Replay(b, ops, S) ==
  LET h[t \in 0..Highest(S)] ==
        IF t = 0 THEN b
        ELSE IF t \in S THEN DoOp(h[t - 1], t, ops[t]) ELSE h[t - 1]
  IN  h[Highest(S)]

----------------------------------------------------------------------------
(***************************************************************************)
(* What every tree built by do_op satisfies: no node is below itself, a    *)
(* record has both a parent and a position, and only a present node has an *)
(* owner in created_by.                                                    *)
(***************************************************************************)
WellFormed(s) ==
  /\ Acyclic(s.parent)
  /\ \A n \in Node : s.parent[n] = None <=> s.pos[n] = None
  /\ \A n \in Node : ~ Present(s, n) => s.made[n] = 0

\* A tree a snapshot can hold: from_parts leaves created_by empty.
Bodies == {s \in State : WellFormed(s) /\ \A n \in Node : s.made[n] = 0}

\* No live or trashed node hangs below a node without a record.
Rooted(s) ==
  \A n \in Node : s.parent[n] \in Node => Present(s, s.parent[n])
============================================================================

-------------------------- MODULE TreeStateProofs --------------------------
(***************************************************************************)
(* Facts about do_op and undo_op, for every set of nodes, positions, keys  *)
(* and values.                                                             *)
(***************************************************************************)
EXTENDS TreeState, WellFoundedInduction, TLAPS

(***************************************************************************)
(* The cycle guard is enough: laying down an edge it lets through keeps an *)
(* acyclic tree acyclic.  A set that separates m from its ancestors is     *)
(* repaired with the set the guard found for the new edge.                 *)
(***************************************************************************)
LEMMA GuardedEdgeAcyclic ==
  ASSUME NEW par \in [Node -> Parent \cup {None}], Acyclic(par),
         NEW n \in Node, NEW p \in Parent, ~ CreatesCycle(par, n, p)
  PROVE  Acyclic([par EXCEPT ![n] = p])
<1> DEFINE q == [par EXCEPT ![n] = p]
<1> SUFFICES ASSUME NEW m \in Node, q[m] \in Node
             PROVE  \E S \in SUBSET Node :
                      q[m] \in S /\ UpClosed(q, S) /\ m \notin S
  BY DEF Acyclic, CreatesCycle
<1>1. ASSUME NEW S \in SUBSET Node, UpClosed(par, S), n \notin S
      PROVE  UpClosed(q, S)
  BY <1>1 DEF UpClosed
<1>2. ASSUME p \in Node
      PROVE  \E S \in SUBSET Node : p \in S /\ UpClosed(par, S) /\ n \notin S
  BY <1>2 DEF CreatesCycle
<1>3. CASE m = n
  <2>1. p \in Node /\ q[m] = p
    BY <1>3
  <2> QED BY <2>1, <1>1, <1>2, <1>3
<1>4. CASE m # n
  <2>1. q[m] = par[m]
    BY <1>4
  <2>2. PICK T \in SUBSET Node :
          par[m] \in T /\ UpClosed(par, T) /\ m \notin T
    BY <2>1 DEF Acyclic, CreatesCycle
  <2>3. CASE n \notin T
    BY <2>1, <2>2, <2>3, <1>1
  <2>4. CASE n \in T /\ p \notin Node
    <3>1. UpClosed(q, T)
      BY <2>2, <2>4 DEF UpClosed
    <3> QED BY <3>1, <2>1, <2>2
  <2>5. CASE n \in T /\ p \in Node
    <3>1. PICK S \in SUBSET Node : p \in S /\ UpClosed(par, S) /\ n \notin S
      BY <2>5, <1>2
    <3>2. CASE m \notin S
      <4>1. UpClosed(q, T \cup S)
        BY <2>2, <3>1 DEF UpClosed
      <4> QED BY <4>1, <3>2, <2>1, <2>2
    <3>3. CASE m \in S
      <4>1. UpClosed(par, T \cap S) /\ par[m] \in S
        BY <2>1, <2>2, <3>1, <3>3 DEF UpClosed
      <4>2. UpClosed(q, T \cap S)
        BY <4>1, <3>1, <1>1
      <4> QED BY <4>1, <4>2, <2>1, <2>2
    <3> QED BY <3>2, <3>3
  <2> QED BY <2>3, <2>4, <2>5
<1> QED BY <1>3, <1>4

----------------------------------------------------------------------------
(***************************************************************************)
(* do_op by kind of operation, and its types.                              *)
(***************************************************************************)
LEMMA OpKinds ==
  ASSUME NEW op \in Op
  PROVE  /\ op.node \in Node
         /\ \/ op.kind \in {"Create", "Move"} /\ op.parent \in Parent
                                              /\ op.pos \in Pos
            \/ op.kind = "Set" /\ op.key \in Key /\ op.val \in Val \cup {None}
            \/ op.kind = "Edit"
BY DEF Op

LEMMA PlaceType ==
  ASSUME NEW s \in State, NEW n \in Node, NEW p \in Parent \cup {None},
         NEW x \in Pos \cup {None}
  PROVE  /\ Place(s, n, p, x) \in State
         /\ Place(s, n, p, x).parent = [s.parent EXCEPT ![n] = p]
         /\ Place(s, n, p, x).pos = [s.pos EXCEPT ![n] = x]
         /\ Place(s, n, p, x).reg = s.reg
         /\ Place(s, n, p, x).made = s.made
BY DEF State, Place

LEMMA DoOpType ==
  ASSUME NEW s \in State, NEW ts \in Nat, NEW op \in Op
  PROVE  DoOp(s, ts, op) \in State
<1> op.node \in Node
  BY OpKinds
<1>1. CASE op.kind = "Move"
  <2>1. op.parent \in Parent /\ op.pos \in Pos
    BY <1>1, OpKinds
  <2>2. Place(s, op.node, op.parent, op.pos) \in State
    BY <2>1, PlaceType
  <2>3. DoOp(s, ts, op) \in {s, Place(s, op.node, op.parent, op.pos)}
    BY <1>1 DEF DoOp
  <2> QED BY <2>2, <2>3
<1>2. CASE op.kind = "Create"
  <2>1. op.parent \in Parent /\ op.pos \in Pos
    BY <1>2, OpKinds
  <2> DEFINE t == Place(s, op.node, op.parent, op.pos)
  <2>2. t \in State
    BY <2>1, PlaceType
  <2>3. DoOp(s, ts, op) \in {s, [t EXCEPT !.made[op.node] = ts]}
    BY <1>2 DEF DoOp
  <2> HIDE DEF t
  <2>4. [t EXCEPT !.made[op.node] = ts] \in State
    BY <2>2 DEF State
  <2> QED BY <2>3, <2>4
<1>3. CASE op.kind = "Set"
  <2>1. op.key \in Key /\ op.val \in Val \cup {None}
    BY <1>3, OpKinds
  <2>2. DoOp(s, ts, op) = [s EXCEPT !.reg[<<op.node, op.key>>] = op.val]
    BY <1>3 DEF DoOp
  <2>3. [s EXCEPT !.reg[<<op.node, op.key>>] = op.val] \in State
    BY <2>1 DEF State
  <2> QED BY <2>2, <2>3
<1>4. CASE op.kind = "Edit"
  BY <1>4 DEF DoOp
<1> QED BY <1>1, <1>2, <1>3, <1>4, OpKinds

LEMMA CapturedType ==
  ASSUME NEW s \in State, NEW op \in Op
  PROVE  Captured(s, op) \in Old
<1>1. CASE op.kind = "Move"
  <2>1. op.node \in Node /\ op.parent \in Parent /\ op.pos \in Pos
    BY <1>1, OpKinds
  <2> QED BY <2>1, <1>1 DEF Captured, NoOld, Old, State, Present
<1>2. CASE op.kind = "Create"
  BY <1>2 DEF Captured, NoOld, Old
<1>3. CASE op.kind = "Set"
  <2>1. op.node \in Node /\ op.key \in Key
    BY <1>3, OpKinds
  <2> QED BY <2>1, <1>3 DEF Captured, NoOld, Old, State
<1>4. CASE op.kind = "Edit"
  BY <1>4 DEF Captured, NoOld, Old
<1> QED BY <1>1, <1>2, <1>3, <1>4, OpKinds
----------------------------------------------------------------------------
(***************************************************************************)
(* do_op keeps a tree well formed, whatever the operation.                 *)
(***************************************************************************)
LEMMA DoOpWellFormed ==
  ASSUME NEW s \in State, WellFormed(s), NEW ts \in Nat \ {0}, NEW op \in Op
  PROVE  WellFormed(DoOp(s, ts, op))
<1> DEFINE t == Place(s, op.node, op.parent, op.pos)
<1> op.node \in Node
  BY OpKinds
<1>1. ASSUME op.parent \in Parent, op.pos \in Pos,
             ~ CreatesCycle(s.parent, op.node, op.parent)
      PROVE  /\ t \in State /\ Acyclic(t.parent)
             /\ \A n \in Node : t.parent[n] = None <=> t.pos[n] = None
             /\ t.parent[op.node] # None
             /\ \A n \in Node \ {op.node} : ~ Present(t, n) => t.made[n] = 0
  <2>1. /\ t \in State /\ t.made = s.made
        /\ t.parent = [s.parent EXCEPT ![op.node] = op.parent]
        /\ t.pos = [s.pos EXCEPT ![op.node] = op.pos]
    BY <1>1, PlaceType
  <2>2. s.parent \in [Node -> Parent \cup {None}] /\ s.pos \in [Node -> Pos \cup {None}]
    BY DEF State
  <2>3. Acyclic(t.parent)
    BY <2>1, <2>2, <1>1, GuardedEdgeAcyclic DEF WellFormed
  <2>4. op.parent # None /\ op.pos # None
    BY <1>1, TreeConstants
  <2> HIDE DEF t
  <2> QED BY <2>1, <2>2, <2>3, <2>4 DEF WellFormed, Present
<1>2. CASE op.kind = "Move"
  <2>1. op.parent \in Parent /\ op.pos \in Pos
    BY <1>2, OpKinds
  <2>2. CASE MoveTakes(s, op)
    <3>1. DoOp(s, ts, op) = t
      BY <1>2, <2>2 DEF DoOp
    <3>2. t \in State /\ Present(t, op.node)
      BY <1>1, <2>1, <2>2 DEF MoveTakes, Present
    <3> HIDE DEF t
    <3> QED BY <3>1, <3>2, <2>1, <2>2, <1>1 DEF MoveTakes, WellFormed
  <2>3. CASE ~ MoveTakes(s, op)
    BY <1>2, <2>3 DEF DoOp
  <2> QED BY <2>2, <2>3
<1>3. CASE op.kind = "Create"
  <2>1. op.parent \in Parent /\ op.pos \in Pos
    BY <1>3, OpKinds
  <2>2. CASE CreateTakes(s, op)
    <3> DEFINE u == [t EXCEPT !.made[op.node] = ts]
    <3>1. DoOp(s, ts, op) = u
      BY <1>3, <2>2 DEF DoOp
    <3>2. /\ t \in State /\ Present(t, op.node) /\ Acyclic(t.parent)
          /\ \A n \in Node : t.parent[n] = None <=> t.pos[n] = None
          /\ \A n \in Node \ {op.node} : ~ Present(t, n) => t.made[n] = 0
      BY <1>1, <2>1, <2>2 DEF CreateTakes, Present
    <3> HIDE DEF t
    <3>3. /\ u.parent = t.parent /\ u.pos = t.pos
          /\ u.made = [t.made EXCEPT ![op.node] = ts]
      BY <3>2 DEF State
    <3>4. t.made \in [Node -> Nat]
      BY <3>2 DEF State
    <3> HIDE DEF u
    <3> QED BY <3>1, <3>2, <3>3, <3>4 DEF WellFormed, Present
  <2>3. CASE ~ CreateTakes(s, op)
    BY <1>3, <2>3 DEF DoOp
  <2> QED BY <2>2, <2>3
<1>4. CASE op.kind = "Set"
  <2> DEFINE u == [s EXCEPT !.reg[<<op.node, op.key>>] = op.val]
  <2>1. DoOp(s, ts, op) = u
    BY <1>4 DEF DoOp
  <2>2. u.parent = s.parent /\ u.pos = s.pos /\ u.made = s.made
    BY DEF State
  <2> HIDE DEF u
  <2> QED BY <2>1, <2>2 DEF WellFormed, Present
<1>5. CASE op.kind = "Edit"
  BY <1>5 DEF DoOp
<1> QED BY <1>2, <1>3, <1>4, <1>5, OpKinds

(***************************************************************************)
(* created_by never names a timestamp above the operations done so far.    *)
(***************************************************************************)
MadeUpTo(s, ts) == \A n \in Node : s.made[n] <= ts

LEMMA MadeUpToMonotonic ==
  ASSUME NEW s \in State, NEW t \in Nat, NEW u \in Nat, t <= u, MadeUpTo(s, t)
  PROVE  MadeUpTo(s, u)
<1>1. s.made \in [Node -> Nat]
  BY DEF State
<1>2. ASSUME NEW k \in Node PROVE s.made[k] <= u
  <2>1. s.made[k] \in Nat /\ s.made[k] <= t
    BY <1>1 DEF MadeUpTo
  <2> QED BY <2>1
<1> QED BY <1>2 DEF MadeUpTo

LEMMA DoOpMade ==
  ASSUME NEW s \in State, NEW ts \in Nat, MadeUpTo(s, ts), NEW op \in Op
  PROVE  MadeUpTo(DoOp(s, ts, op), ts)
<1> op.node \in Node /\ s.made \in [Node -> Nat]
  BY OpKinds DEF State
<1>1. DoOp(s, ts, op).made \in {s.made, [s.made EXCEPT ![op.node] = ts]}
  <2>1. CASE op.kind = "Move" /\ MoveTakes(s, op)
    BY <2>1 DEF DoOp, Place, State
  <2>2. CASE op.kind = "Create" /\ CreateTakes(s, op)
    BY <2>2 DEF DoOp, Place, State
  <2>3. CASE op.kind = "Set"
    BY <2>3 DEF DoOp, State
  <2>4. CASE \/ op.kind = "Move" /\ ~ MoveTakes(s, op)
             \/ op.kind = "Create" /\ ~ CreateTakes(s, op)
             \/ op.kind = "Edit"
    BY <2>4 DEF DoOp
  <2> QED BY <2>1, <2>2, <2>3, <2>4, OpKinds
<1>2. ASSUME NEW k \in Node
      PROVE  DoOp(s, ts, op).made[k] <= ts
  <2>1. CASE DoOp(s, ts, op).made = s.made
    BY <2>1 DEF MadeUpTo
  <2>2. CASE DoOp(s, ts, op).made = [s.made EXCEPT ![op.node] = ts]
    BY <2>2 DEF MadeUpTo
  <2> QED BY <1>1, <2>1, <2>2
<1> QED BY <1>2 DEF MadeUpTo

(***************************************************************************)
(* undo_op is the exact inverse of do_op.  A Move that was refused could   *)
(* only be mistaken for one that was not if the node already hung below    *)
(* its new parent, which would have been a cycle; a Create that was        *)
(* refused does not own the node, created_by being older than ts.          *)
(***************************************************************************)
LEMMA UndoInvertsDo ==
  ASSUME NEW s \in State, WellFormed(s), NEW ts \in Nat \ {0}, NEW op \in Op,
         MadeUpTo(s, ts - 1)
  PROVE  UndoOp(DoOp(s, ts, op), ts, op, Captured(s, op)) = s
<1> DEFINE n == op.node
           t == Place(s, n, op.parent, op.pos)
           old == Captured(s, op)
<1> n \in Node
  BY OpKinds
<1> s.parent \in [Node -> Parent \cup {None}] /\ s.pos \in [Node -> Pos \cup {None}]
    /\ s.made \in [Node -> Nat] /\ s.reg \in [Node \X Key -> Val \cup {None}]
  BY DEF State
<1>0. s = [parent |-> s.parent, pos |-> s.pos, reg |-> s.reg, made |-> s.made]
  BY DEF State
<1>1. CASE op.kind = "Move"
  <2> op.parent \in Parent /\ op.pos \in Pos /\ op.parent # None
    BY <1>1, OpKinds, TreeConstants
  <2>1. CASE MoveTakes(s, op)
    <3>1. old.parent = s.parent[n] /\ old.pos = s.pos[n]
      BY <1>1, <2>1 DEF Captured, MoveTakes, NoOld
    <3>2. DoOp(s, ts, op) = t
      BY <1>1, <2>1 DEF DoOp
    <3>2a. t.parent[n] = op.parent
      BY DEF Place
    <3>3. UndoOp(t, ts, op, old) = Place(t, n, old.parent, old.pos)
      BY <1>1, <3>2a DEF UndoOp
    <3>4. Place(t, n, s.parent[n], s.pos[n]) = s
      BY <1>0 DEF Place
    <3> QED BY <3>1, <3>2, <3>3, <3>4
  <2>2. CASE Present(s, n) /\ ~ MoveTakes(s, op)
    <3>1. s.parent[n] # op.parent
      BY <2>2 DEF MoveTakes, WellFormed, Acyclic
    <3> QED BY <3>1, <1>1, <2>2 DEF DoOp, UndoOp
  <2>3. CASE ~ Present(s, n)
    <3>1. s.parent[n] # op.parent /\ ~ MoveTakes(s, op)
      BY <2>3 DEF Present, MoveTakes
    <3> QED BY <3>1, <1>1 DEF DoOp, UndoOp
  <2> QED BY <2>1, <2>2, <2>3
<1>2. CASE op.kind = "Create"
  <2>1. CASE CreateTakes(s, op)
    <3> DEFINE u == [t EXCEPT !.made[n] = ts]
    <3>1. DoOp(s, ts, op) = u /\ u.made[n] = ts
      BY <1>2, <2>1 DEF DoOp, Place
    <3>2. UndoOp(u, ts, op, old) = [Place(u, n, None, None) EXCEPT !.made[n] = 0]
      BY <1>2, <3>1 DEF UndoOp
    <3>3. s.parent[n] = None /\ s.pos[n] = None /\ s.made[n] = 0
      BY <2>1 DEF CreateTakes, Present, WellFormed
    <3>4. [Place(u, n, None, None) EXCEPT !.made[n] = 0] = s
      <4>1. /\ [s.parent EXCEPT ![n] = None] = s.parent
            /\ [s.pos EXCEPT ![n] = None] = s.pos
            /\ [s.made EXCEPT ![n] = 0] = s.made
        BY <3>3
      <4>2. u = [parent |-> [s.parent EXCEPT ![n] = op.parent],
                 pos |-> [s.pos EXCEPT ![n] = op.pos],
                 reg |-> s.reg,
                 made |-> [s.made EXCEPT ![n] = ts]]
        <5>1. t = [parent |-> [s.parent EXCEPT ![n] = op.parent],
                   pos |-> [s.pos EXCEPT ![n] = op.pos],
                   reg |-> s.reg, made |-> s.made]
          <6>1. op.parent \in Parent /\ op.pos \in Pos
            BY <1>2, OpKinds
          <6>2. /\ t \in State
                /\ t.parent = [s.parent EXCEPT ![n] = op.parent]
                /\ t.pos = [s.pos EXCEPT ![n] = op.pos]
                /\ t.reg = s.reg /\ t.made = s.made
            BY <6>1, PlaceType, SMTT(30)
          <6> HIDE DEF t
          <6> QED BY <6>2 DEF State
        <5> HIDE DEF t
        <5> QED BY <5>1
      <4> DEFINE v == [Place(u, n, None, None) EXCEPT !.made[n] = 0]
      <4> HIDE DEF u
      <4>3. v = [parent |-> [u.parent EXCEPT ![n] = None],
                 pos |-> [u.pos EXCEPT ![n] = None],
                 reg |-> u.reg,
                 made |-> [u.made EXCEPT ![n] = 0]]
        BY <4>2 DEF Place
      <4>4. /\ [u.parent EXCEPT ![n] = None] = s.parent
            /\ [u.pos EXCEPT ![n] = None] = s.pos
            /\ [u.made EXCEPT ![n] = 0] = s.made
            /\ u.reg = s.reg
        BY <4>1, <4>2
      <4> QED BY <1>0, <4>3, <4>4
    <3> QED BY <3>1, <3>2, <3>4
  <2>2. CASE ~ CreateTakes(s, op)
    <3>1. s.made[n] # ts
      BY DEF MadeUpTo
    <3> QED BY <3>1, <1>2, <2>2 DEF DoOp, UndoOp
  <2> QED BY <2>1, <2>2
<1>3. CASE op.kind = "Set"
  <2> DEFINE x == <<n, op.key>>
             u == [s EXCEPT !.reg[x] = op.val]
  <2>1. x \in Node \X Key
    BY <1>3, OpKinds
  <2>2. DoOp(s, ts, op) = u /\ old.val = s.reg[x]
    BY <1>3 DEF DoOp, Captured, NoOld
  <2>3. UndoOp(u, ts, op, old) = [u EXCEPT !.reg[x] = old.val]
    BY <1>3 DEF UndoOp
  <2>4. [u EXCEPT !.reg[x] = s.reg[x]] = s
    BY <1>0, <2>1
  <2> QED BY <2>2, <2>3, <2>4
<1>4. CASE op.kind = "Edit"
  BY <1>4 DEF DoOp, UndoOp
<1> QED BY <1>1, <1>2, <1>3, <1>4, OpKinds

----------------------------------------------------------------------------
(***************************************************************************)
(* do_op changes one parent at most: the one a Create or a Move names.     *)
(***************************************************************************)
LEMMA DoOpParent ==
  ASSUME NEW s \in State, NEW ts \in Nat, NEW op \in Op
  PROVE  \/ /\ DoOp(s, ts, op).parent = s.parent
            /\ op.kind = "Create" =>
                 \/ Present(s, op.node)
                 \/ CreatesCycle(s.parent, op.node, op.parent)
         \/ /\ op.kind \in {"Create", "Move"} /\ op.parent \in Parent
            /\ DoOp(s, ts, op).parent = [s.parent EXCEPT ![op.node] = op.parent]
            /\ op.kind = "Move" => Present(s, op.node)
<1> DEFINE t == Place(s, op.node, op.parent, op.pos)
<1> op.node \in Node
  BY OpKinds
<1>1. CASE op.kind = "Move"
  <2>1. op.parent \in Parent /\ op.pos \in Pos
    BY <1>1, OpKinds
  <2>2. t \in State /\ t.parent = [s.parent EXCEPT ![op.node] = op.parent]
    BY <2>1 DEF State, Place
  <2>3. CASE MoveTakes(s, op)
    <3>1. DoOp(s, ts, op) = t
      BY <1>1, <2>3 DEF DoOp
    <3> HIDE DEF t
    <3> QED BY <1>1, <2>1, <2>2, <2>3, <3>1 DEF MoveTakes
  <2>4. CASE ~ MoveTakes(s, op)
    <3>1. DoOp(s, ts, op) = s
      BY <1>1, <2>4 DEF DoOp
    <3> QED BY <1>1, <3>1
  <2> QED BY <2>3, <2>4
<1>2. CASE op.kind = "Create"
  <2>1. op.parent \in Parent /\ op.pos \in Pos
    BY <1>2, OpKinds
  <2>2. t \in State /\ t.parent = [s.parent EXCEPT ![op.node] = op.parent]
    BY <2>1 DEF State, Place
  <2>3. CASE CreateTakes(s, op)
    <3>1. DoOp(s, ts, op) = [t EXCEPT !.made[op.node] = ts]
      BY <1>2, <2>3 DEF DoOp
    <3> HIDE DEF t
    <3>2. [t EXCEPT !.made[op.node] = ts].parent = t.parent
      BY <2>2 DEF State
    <3> QED BY <1>2, <2>1, <2>2, <3>1, <3>2
  <2>4. CASE ~ CreateTakes(s, op)
    <3>1. DoOp(s, ts, op) = s
      BY <1>2, <2>4 DEF DoOp
    <3> QED BY <1>2, <2>4, <3>1 DEF CreateTakes
  <2> QED BY <2>3, <2>4
<1>3. CASE op.kind = "Set"
  <2>1. DoOp(s, ts, op) = [s EXCEPT !.reg[<<op.node, op.key>>] = op.val]
    BY <1>3 DEF DoOp
  <2>2. [s EXCEPT !.reg[<<op.node, op.key>>] = op.val].parent = s.parent
    BY DEF State
  <2> QED BY <1>3, <2>1, <2>2
<1>4. CASE op.kind = "Edit"
  BY <1>4 DEF DoOp
<1> QED BY <1>1, <1>2, <1>3, <1>4, OpKinds

(***************************************************************************)
(* do_op takes no record away, and only a Create brings one.               *)
(***************************************************************************)
LEMMA DoOpPresent ==
  ASSUME NEW s \in State, NEW ts \in Nat, NEW op \in Op, NEW n \in Node
  PROVE  /\ Present(s, n) => Present(DoOp(s, ts, op), n)
         /\ Present(DoOp(s, ts, op), n) =>
              Present(s, n) \/ (op.kind = "Create" /\ op.node = n)
<1>1. s.parent \in [Node -> Parent \cup {None}] /\ op.node \in Node
  BY OpKinds DEF State
<1>2. None \notin Parent
  BY TreeConstants
<1>3. CASE DoOp(s, ts, op).parent = s.parent
  BY <1>3 DEF Present
<1>4. CASE /\ op.kind \in {"Create", "Move"} /\ op.parent \in Parent
           /\ DoOp(s, ts, op).parent = [s.parent EXCEPT ![op.node] = op.parent]
           /\ op.kind = "Move" => Present(s, op.node)
  <2>1. DoOp(s, ts, op).parent[n]
          = IF n = op.node THEN op.parent ELSE s.parent[n]
    BY <1>1, <1>4
  <2> QED BY <2>1, <1>2, <1>4 DEF Present
<1> QED BY <1>3, <1>4, DoOpParent

(***************************************************************************)
(* In a tree without gaps, an operation whose parent is there leaves no    *)
(* gap, and a Create is never taken for a cycle: nothing hangs below a     *)
(* node that has no record yet.                                            *)
(***************************************************************************)
LEMMA DoOpRooted ==
  ASSUME NEW s \in State, Rooted(s), NEW ts \in Nat, NEW op \in Op,
         op.kind \in {"Create", "Move"} /\ op.parent \in Node
           => Present(s, op.parent)
  PROVE  /\ Rooted(DoOp(s, ts, op))
         /\ op.kind = "Create" => Present(DoOp(s, ts, op), op.node)
<1> DEFINE d == DoOp(s, ts, op)
<1>1. /\ s.parent \in [Node -> Parent \cup {None}]
      /\ op.node \in Node /\ None \notin Parent
  BY OpKinds, TreeConstants DEF State
<1>2. \A n \in Node : Present(s, n) => Present(d, n)
  BY DoOpPresent
<1>3. CASE /\ d.parent = s.parent
           /\ op.kind = "Create" =>
                \/ Present(s, op.node)
                \/ CreatesCycle(s.parent, op.node, op.parent)
  <2>1. Rooted(d)
    BY <1>3 DEF Rooted, Present
  <2>2. ASSUME op.kind = "Create" PROVE Present(s, op.node)
    <3> SUFFICES ASSUME CreatesCycle(s.parent, op.node, op.parent)
                 PROVE  Present(s, op.node)
      BY <1>3, <2>2
    <3> DEFINE S == {m \in Node : Present(s, m)}
    <3>1. op.parent \in Node /\ op.parent \in S
      BY <2>2 DEF CreatesCycle
    <3>2. UpClosed(s.parent, S)
      BY DEF UpClosed, Rooted
    <3>3. op.node \in S
      BY <3>1, <3>2 DEF CreatesCycle
    <3> QED BY <3>3
  <2> QED BY <2>1, <2>2, <1>1, <1>2
<1>4. CASE /\ op.kind \in {"Create", "Move"} /\ op.parent \in Parent
           /\ d.parent = [s.parent EXCEPT ![op.node] = op.parent]
  <2>1. d.parent[op.node] = op.parent
    BY <1>1, <1>4
  <2>2. Present(d, op.node)
    BY <1>1, <1>4, <2>1 DEF Present
  <2>3. ASSUME NEW n \in Node, d.parent[n] \in Node
        PROVE  Present(s, d.parent[n])
    <3>1. CASE n = op.node
      BY <3>1, <2>1, <2>3, <1>4
    <3>2. CASE n # op.node
      <4>1. d.parent[n] = s.parent[n]
        BY <3>2, <1>1, <1>4
      <4> HIDE DEF d
      <4> QED BY <4>1, <2>3 DEF Rooted
    <3> QED BY <3>1, <3>2
  <2>4. Rooted(d)
    <3> HIDE DEF d
    <3> QED BY <2>3, <1>2 DEF Rooted
  <2> QED BY <2>2, <2>4
<1> QED BY <1>3, <1>4, DoOpParent

----------------------------------------------------------------------------
\* A nonempty set of naturals has a least element, a bounded one a highest.

\* A nonempty set of naturals has a least element.
LEMMA LeastNatural ==
  ASSUME NEW D \in SUBSET Nat, D # {}
  PROVE  \E x \in D : \A y \in D : x <= y
<1> DEFINE R == OpToRel(<, Nat)
<1>1. IsWellFoundedOn(R, Nat)
  BY NatLessThanWellFounded
<1>2. \A x, y \in Nat : y < x => <<y, x>> \in R
  BY DEF OpToRel
<1> HIDE DEF R
<1>3. PICK x \in D : \A y \in D : <<y, x>> \notin R
  BY <1>1, WFMin, Zenon
<1>4. \A y \in D : ~ (y < x)
  BY <1>2, <1>3
<1> QED BY <1>4

LEMMA HighestIs ==
  ASSUME NEW S \in SUBSET Nat, NEW m \in Nat, \A t \in S : t <= m
  PROVE  /\ Highest(S) \in S \cup {0} /\ Highest(S) \in 0..m
         /\ \A t \in S : t <= Highest(S)
<1> DEFINE D == {n \in Nat : \A t \in S : t <= n}
<1>1. D \in SUBSET Nat /\ m \in D
  OBVIOUS
<1>2. PICK x \in D : \A y \in D : x <= y
  BY <1>1, LeastNatural
<1>3. x \in Nat /\ \A t \in S : t <= x
  OBVIOUS
<1>4. x \in S \cup {0}
  <2> SUFFICES ASSUME x \notin S, x # 0 PROVE FALSE
    OBVIOUS
  <2>1. \A t \in S : t <= x - 1
    BY <1>3
  <2>2. x - 1 \in D
    BY <1>3, <2>1
  <2> QED BY <1>2, <1>3, <2>2
<1> HIDE DEF D
<1>5. Highest(S) \in S \cup {0} /\ \A t \in S : t <= Highest(S)
  BY <1>3, <1>4 DEF Highest
<1>6. \A h \in S \cup {0} : h \in 0..m
  OBVIOUS
<1> HIDE DEF Highest
<1> QED BY <1>5, <1>6

----------------------------------------------------------------------------
(***************************************************************************)
(* Replay, by the function it computes: at place t the tree of the         *)
(* operations up to t.  That this function exists is a statement about it  *)
(* up to n, and so needs only the least n where it could fail.             *)
(***************************************************************************)
HistoryStep(b, ops, S, f, t) ==
  IF t = 0 THEN b
  ELSE IF t \in S THEN DoOp(f[t - 1], t, ops[t]) ELSE f[t - 1]

IsHistory(b, ops, S, n, f) ==
  f = [t \in 0..n |-> HistoryStep(b, ops, S, f, t)]

LEMMA HistoryIs ==
  ASSUME NEW b, NEW ops, NEW S, NEW n \in Nat, NEW f,
         IsHistory(b, ops, S, n, f)
  PROVE  /\ f[0] = b
         /\ \A t \in 1..n :
              f[t] = IF t \in S THEN DoOp(f[t - 1], t, ops[t]) ELSE f[t - 1]
<1>1. ASSUME NEW t \in 0..n PROVE f[t] = HistoryStep(b, ops, S, f, t)
  <2> DEFINE g == [u \in 0..n |-> HistoryStep(b, ops, S, f, u)]
  <2>1. f = g
    BY DEF IsHistory
  <2>2. g[t] = HistoryStep(b, ops, S, f, t)
    OBVIOUS
  <2> HIDE DEF g
  <2> QED BY <2>1, <2>2
<1> QED BY <1>1 DEF HistoryStep

LEMMA IsAHistory ==
  ASSUME NEW b, NEW ops, NEW S, NEW n \in Nat, NEW f,
         DOMAIN f = 0..n, f = [t \in 0..n |-> f[t]], f[0] = b,
         \A t \in 1..n :
           f[t] = IF t \in S THEN DoOp(f[t - 1], t, ops[t]) ELSE f[t - 1]
  PROVE  IsHistory(b, ops, S, n, f)
<1>1. ASSUME NEW t \in 0..n PROVE f[t] = HistoryStep(b, ops, S, f, t)
  <2>1. t = 0 \/ t \in 1..n
    OBVIOUS
  <2> QED BY <2>1 DEF HistoryStep
<1>2. f = [t \in 0..n |-> HistoryStep(b, ops, S, f, t)]
  BY <1>1
<1> QED BY <1>2 DEF IsHistory

LEMMA HistoryExists ==
  ASSUME NEW b, NEW ops, NEW S, NEW n \in Nat
  PROVE  \E f : IsHistory(b, ops, S, n, f)
<1> DEFINE D == {m \in Nat : ~ \E f : IsHistory(b, ops, S, m, f)}
<1> SUFFICES ASSUME D # {} PROVE FALSE
  OBVIOUS
<1>1. PICK m \in D : \A k \in D : m <= k
  BY LeastNatural
<1>2. m \in Nat /\ ~ \E f : IsHistory(b, ops, S, m, f)
  OBVIOUS
<1>3. CASE m = 0
  <2> DEFINE f == [t \in 0..0 |-> b]
  <2>1. f = [t \in 0..0 |-> f[t]] /\ DOMAIN f = 0..0 /\ f[0] = b
    OBVIOUS
  <2> HIDE DEF f
  <2>2. IsHistory(b, ops, S, 0, f)
    <3>1. 0 \in Nat /\ 1..0 = {}
      OBVIOUS
    <3> QED BY <2>1, <3>1, IsAHistory
  <2> QED BY <1>2, <1>3, <2>2
<1>4. CASE m # 0
  <2>1. m - 1 \in Nat /\ m - 1 \notin D
    BY <1>1, <1>2, <1>4
  <2>2. PICK f : IsHistory(b, ops, S, m - 1, f)
    BY <2>1
  <2> DEFINE x == IF m \in S THEN DoOp(f[m - 1], m, ops[m]) ELSE f[m - 1]
             g == [t \in 0..m |-> IF t = m THEN x ELSE f[t]]
  <2> HIDE DEF x, D
  <2>3. g = [t \in 0..m |-> g[t]] /\ DOMAIN g = 0..m /\ g[m] = x
    BY <1>2
  <2>4. ASSUME NEW t \in 0..(m - 1) PROVE g[t] = f[t]
    <3>1. t \in 0..m /\ t # m
      BY <1>2
    <3> QED BY <3>1
  <2> HIDE DEF g
  <2>5. g[0] = b
    <3>1. 0 \in 0..(m - 1)
      BY <1>2, <1>4
    <3>2. f[0] = b
      BY <2>1, <2>2, HistoryIs
    <3> QED BY <2>4, <3>1, <3>2
  <2>6. ASSUME NEW t \in 1..m
        PROVE  g[t] = IF t \in S THEN DoOp(g[t - 1], t, ops[t]) ELSE g[t - 1]
    <3>1. t - 1 \in 0..(m - 1) /\ g[t - 1] = f[t - 1]
      BY <1>2, <2>4
    <3>2. CASE t = m
      BY <3>1, <3>2, <2>3 DEF x
    <3>3. CASE t # m
      <4>1. t \in 1..(m - 1) /\ g[t] = f[t]
        BY <1>2, <2>4, <3>3
      <4> QED BY <4>1, <3>1, <2>1, <2>2, HistoryIs
    <3> QED BY <3>2, <3>3
  <2>7. IsHistory(b, ops, S, m, g)
    BY <1>2, <2>3, <2>5, <2>6, IsAHistory
  <2> QED BY <1>2, <2>7
<1> QED BY <1>3, <1>4

(***************************************************************************)
(* What is replayed of S up to n is replayed of any T that has the same    *)
(* operations up to there.                                                 *)
(***************************************************************************)
LEMMA HistoriesAgree ==
  ASSUME NEW b, NEW ops, NEW S, NEW T, NEW n \in Nat, NEW m \in Nat,
         NEW f, IsHistory(b, ops, S, n, f), NEW g, IsHistory(b, ops, T, m, g),
         NEW k \in Nat, k <= n, k <= m, \A t \in 1..k : t \in S <=> t \in T
  PROVE  f[k] = g[k]
<1> DEFINE D == {t \in 0..k : f[t] # g[t]}
<1> SUFFICES ASSUME D # {} PROVE FALSE
  OBVIOUS
<1>0. D \in SUBSET Nat
  OBVIOUS
<1>1. PICK t \in D : \A u \in D : t <= u
  BY <1>0, LeastNatural
<1>2. t \in 0..k /\ f[t] # g[t]
  OBVIOUS
<1>3. f[0] = b /\ g[0] = b
  BY HistoryIs
<1>4. t \in 1..n /\ t \in 1..m /\ t \in 1..k /\ t - 1 \in 0..k
  BY <1>2, <1>3
<1>5. f[t - 1] = g[t - 1]
  <2>1. t - 1 \notin D
    BY <1>1, <1>4
  <2> QED BY <2>1, <1>4
<1> HIDE DEF D
<1> QED BY <1>2, <1>4, <1>5, HistoryIs

\* A history that reaches past all of S ends in the replay of S.
LEMMA HistoryIsReplay ==
  ASSUME NEW b, NEW ops, NEW S \in SUBSET Nat, NEW n \in Nat,
         \A t \in S : t <= n, NEW f, IsHistory(b, ops, S, n, f)
  PROVE  f[n] = Replay(b, ops, S)
<1> DEFINE H == Highest(S)
           g == CHOOSE h : h = [t \in 0..H |-> HistoryStep(b, ops, S, h, t)]
<1>1. Replay(b, ops, S) = g[H]
  BY DEF Replay, HistoryStep
<1>2. H \in Nat /\ H <= n /\ \A t \in S : t <= H
  BY HighestIs
<1> HIDE DEF H
<1>3. IsHistory(b, ops, S, H, g)
  <2>1. PICK h : IsHistory(b, ops, S, H, h)
    BY <1>2, HistoryExists
  <2>2. h = [t \in 0..H |-> HistoryStep(b, ops, S, h, t)]
    BY <2>1 DEF IsHistory
  <2>3. g = [t \in 0..H |-> HistoryStep(b, ops, S, g, t)]
    BY <2>2, Zenon
  <2> QED BY <2>3 DEF IsHistory
<1> HIDE DEF g
<1>4. f[H] = g[H]
  BY <1>2, <1>3, HistoriesAgree
<1>5. f[n] = f[H]
  <2> DEFINE D == {t \in H..n : f[t] # f[H]}
  <2> SUFFICES ASSUME D # {} PROVE FALSE
    BY <1>2
  <2>1. D \in SUBSET Nat
    BY <1>2
  <2>2. PICK t \in D : \A u \in D : t <= u
    BY <2>1, LeastNatural
  <2>3. t \in H..n /\ f[t] # f[H]
    OBVIOUS
  <2>4. t \in 1..n /\ t - 1 \in H..n /\ t \notin S
    BY <1>2, <2>3
  <2>5. f[t - 1] = f[H]
    <3>1. t - 1 \notin D
      BY <2>2, <2>4
    <3> QED BY <3>1, <2>4
  <2> HIDE DEF D
  <2> QED BY <2>3, <2>4, <2>5, HistoryIs
<1> QED BY <1>1, <1>4, <1>5

Below(S, t) == {u \in S : u < t}

\* The tree before t is the replay of the operations below t.
LEMMA HistoryBelow ==
  ASSUME NEW b, NEW ops, NEW S \in SUBSET Nat, NEW n \in Nat,
         NEW f, IsHistory(b, ops, S, n, f), NEW t \in 1..n
  PROVE  f[t - 1] = Replay(b, ops, Below(S, t))
<1>1. /\ t - 1 \in Nat /\ t - 1 <= n /\ Below(S, t) \in SUBSET Nat
      /\ \A u \in Below(S, t) : u <= t - 1
      /\ \A u \in 1..(t - 1) : u \in S <=> u \in Below(S, t)
  <2>1. \A u \in Nat : u < t => u <= t - 1
    OBVIOUS
  <2>2. \A u \in 1..(t - 1) : u < t
    OBVIOUS
  <2>3. Below(S, t) \subseteq S /\ \A u \in Below(S, t) : u < t
    BY DEF Below
  <2>4. \A u \in 1..(t - 1) : u \in S <=> u \in Below(S, t)
    BY <2>2 DEF Below
  <2>5. t - 1 \in Nat /\ t - 1 <= n /\ t \in Nat
    OBVIOUS
  <2>6. Below(S, t) \in SUBSET Nat /\ \A u \in Below(S, t) : u <= t - 1
    BY <2>1, <2>3
  <2> QED BY <2>4, <2>5, <2>6
<1>2. PICK g : IsHistory(b, ops, Below(S, t), t - 1, g)
  BY <1>1, HistoryExists
<1>3. g[t - 1] = Replay(b, ops, Below(S, t))
  BY <1>1, <1>2, HistoryIsReplay
<1>4. f[t - 1] = g[t - 1]
  BY <1>1, <1>2, HistoriesAgree
<1> QED BY <1>3, <1>4

----------------------------------------------------------------------------
\* Facts about the replay of a set.

LEMMA ReplayEmpty ==
  ASSUME NEW b, NEW ops
  PROVE  Replay(b, ops, {}) = b
<1>1. PICK f : IsHistory(b, ops, {}, 0, f)
  BY HistoryExists
<1>2. f[0] = Replay(b, ops, {})
  BY <1>1, HistoryIsReplay
<1> QED BY <1>1, <1>2, HistoryIs

(***************************************************************************)
(* Only the operations in S matter to a replay of S, so that one issued    *)
(* elsewhere meanwhile changes nothing.                                    *)
(***************************************************************************)
LEMMA ReplayReadsItsOwn ==
  ASSUME NEW b, NEW ops, NEW ops2, NEW S, \A t \in S : ops[t] = ops2[t]
  PROVE  Replay(b, ops, S) = Replay(b, ops2, S)
<1> DEFINE H == Highest(S)
           G(f) == [t \in 0..H |-> IF t = 0 THEN b
                                   ELSE IF t \in S THEN DoOp(f[t - 1], t, ops[t])
                                        ELSE f[t - 1]]
           K(f) == [t \in 0..H |-> IF t = 0 THEN b
                                   ELSE IF t \in S THEN DoOp(f[t - 1], t, ops2[t])
                                        ELSE f[t - 1]]
<1>1. ASSUME NEW f PROVE G(f) = K(f)
  OBVIOUS
<1>2. Replay(b, ops, S) = (CHOOSE f : f = G(f))[H]
  BY DEF Replay
<1>3. Replay(b, ops2, S) = (CHOOSE f : f = K(f))[H]
  BY DEF Replay
<1> HIDE DEF G, K, H
<1>4. (CHOOSE f : f = G(f)) = (CHOOSE f : f = K(f))
  BY <1>1
<1> QED BY <1>2, <1>3, <1>4

LEMMA ReplayType ==
  ASSUME NEW b \in State, NEW ops, NEW S \in SUBSET Nat, NEW m \in Nat,
         \A t \in S : t <= m, \A t \in S : ops[t] \in Op
  PROVE  Replay(b, ops, S) \in State
<1>1. PICK f : IsHistory(b, ops, S, m, f)
  BY HistoryExists
<1> DEFINE D == {t \in 0..m : f[t] \notin State}
<1>2. D = {}
  <2> SUFFICES ASSUME D # {} PROVE FALSE
    OBVIOUS
  <2>0. D \in SUBSET Nat
    OBVIOUS
  <2>1. PICK t \in D : \A u \in D : t <= u
    BY <2>0, LeastNatural
  <2>2. t \in 0..m /\ f[t] \notin State
    OBVIOUS
  <2>3. t \in 1..m /\ t - 1 \in 0..m
    BY <1>1, <2>2, HistoryIs
  <2>4. f[t - 1] \in State
    <3>1. t - 1 \notin D
      BY <2>1, <2>3
    <3> QED BY <3>1, <2>3
  <2>5. t \in S => DoOp(f[t - 1], t, ops[t]) \in State
    BY <2>3, <2>4, DoOpType
  <2> HIDE DEF D
  <2> QED BY <1>1, <2>2, <2>3, <2>4, <2>5, HistoryIs
<1>3. f[m] \in State
  BY <1>2
<1> QED BY <1>1, <1>3, HistoryIsReplay

(***************************************************************************)
(* Operations that change nothing where they stand can be left out, all    *)
(* at once.                                                                *)
(***************************************************************************)
NoEffect(b, ops, S, t) ==
  DoOp(Replay(b, ops, Below(S, t)), t, ops[t]) = Replay(b, ops, Below(S, t))

LEMMA ReplayWithout ==
  ASSUME NEW b, NEW ops, NEW S \in SUBSET Nat, NEW m \in Nat,
         \A t \in S : t <= m, NEW D \in SUBSET S,
         \A t \in D : NoEffect(b, ops, S, t)
  PROVE  Replay(b, ops, S \ D) = Replay(b, ops, S)
<1>1. PICK f : IsHistory(b, ops, S, m, f)
  BY HistoryExists
<1> DEFINE R == S \ D
<1>2. PICK g : IsHistory(b, ops, R, m, g)
  BY HistoryExists
<1> DEFINE E == {t \in 0..m : f[t] # g[t]}
<1>3. E = {}
  <2> SUFFICES ASSUME E # {} PROVE FALSE
    OBVIOUS
  <2>0. E \in SUBSET Nat
    OBVIOUS
  <2>1. PICK t \in E : \A u \in E : t <= u
    BY <2>0, LeastNatural
  <2>2. t \in 0..m /\ f[t] # g[t]
    OBVIOUS
  <2>3. t \in 1..m /\ t - 1 \in 0..m
    <3>1. f[0] = b /\ g[0] = b
      BY <1>1, <1>2, HistoryIs
    <3> QED BY <2>2, <3>1
  <2>4. f[t - 1] = g[t - 1]
    <3>1. t - 1 \notin E
      BY <2>1, <2>3
    <3> QED BY <3>1, <2>3
  <2> HIDE DEF E
  <2>5. f[t] = IF t \in S THEN DoOp(f[t - 1], t, ops[t]) ELSE f[t - 1]
    BY <1>1, <2>3, HistoryIs
  <2>6. g[t] = IF t \in S \ D THEN DoOp(g[t - 1], t, ops[t]) ELSE g[t - 1]
    <3>1. t \in R <=> t \in S \ D
      OBVIOUS
    <3> HIDE DEF R
    <3>2. g[t] = IF t \in R THEN DoOp(g[t - 1], t, ops[t]) ELSE g[t - 1]
      BY <1>2, <2>3, HistoryIs
    <3> QED BY <3>1, <3>2
  <2>7. CASE t \in D
    <3>1. f[t - 1] = Replay(b, ops, Below(S, t))
      BY <1>1, <2>3, HistoryBelow
    <3>2. DoOp(f[t - 1], t, ops[t]) = f[t - 1]
      BY <2>7, <3>1 DEF NoEffect
    <3> QED BY <2>2, <2>4, <2>7, <2>5, <2>6, <3>2
  <2>8. CASE t \notin D
    BY <2>2, <2>4, <2>8, <2>5, <2>6
  <2> QED BY <2>7, <2>8
<1>4. f[m] = g[m]
  BY <1>3
<1>5. f[m] = Replay(b, ops, S)
  BY <1>1, HistoryIsReplay
<1>6. g[m] = Replay(b, ops, S \ D)
  BY <1>2, HistoryIsReplay
<1> QED BY <1>4, <1>5, <1>6
=============================================================================

------------------------- MODULE SnapshotBootProofs -------------------------
(***************************************************************************)
(* Theorems about SnapshotBoot, for any actors, timestamps and queues.     *)
(***************************************************************************)
EXTENDS SnapshotBoot, FiniteSetTheorems, TLAPS

\* What snapshot_reloads shows to be needed: one reload at a time.
OneReload == \A r, s \in Reloader : r = s

\* What snapshot_gap shows to be needed: no log misses earlier operations.
InOrder == ~ Gaps

----------------------------------------------------------------------------
(***************************************************************************)
(* The inductive invariant.  Each part says from when on it is not claimed *)
(* any more, so that each property is proved under its own exceptions.     *)
(***************************************************************************)
NotToday == "today" \notin amiss
AllWell == amiss = {}

Replaying(r) == reload[r] # None
Replayed(r) == Replaying(r) /\ reload[r].ws # None

Shapes ==
  /\ reload \in [Reloader -> {None} \cup
       [before : Nat, index : SUBSET Ts, ws : {None} \cup Workspace,
        wrote : SUBSET Ts]]
  /\ detached \subseteq Seq(Body)
  /\ pending \subseteq Mine /\ orphan \subseteq Mine
  /\ pending # {} => pending \subseteq live.resident

\* What this device wrote is not above its clock.
Clocked == \A t \in (disk \cup pending) \cap Mine : t <= last

\* A batch that waits follows what is on disk.
Follows == NotToday => \A t \in disk \cap Mine, u \in pending : t < u

\* The operations of peers in S are gapless per actor.
Gapless(S) ==
  \A t \in S, u \in Ts \ Mine : author[u] = author[t] /\ u < t => u \in S

\* What a workspace shows of what its storage lists, and nothing else than
\* that and E, each operation once and in order.
Held(w, E) ==
  /\ w.index \subseteq disk
  /\ \A t \in w.resident \cap Mine : t <= last
  /\ Gapless(w.index) /\ w.index \ Mine \subseteq View(w)
  /\ NotToday => (w.index \cap Mine) \ orphan \subseteq View(w)
  /\ AllWell => Exact(w) /\ View(w) \subseteq w.index \cup E

LiveHolds == live # None => Held(live, pending) /\ LocalOpsShown

(***************************************************************************)
(* A replay that may still be published: while the length of the live log  *)
(* is what it was, no edit has landed that the replay has not read.        *)
(***************************************************************************)
Quiet(r) == Cardinality(live.resident) = reload[r].before

Publishable(r) ==
  LET x == reload[r]
  IN  /\ x.before <= Cardinality(live.resident)
      /\ x.index \subseteq disk /\ x.wrote \subseteq disk \cap Mine
      /\ Gapless(x.index)
      /\ \A t \in x.index \cap Mine, u \in (disk \cup pending) \cap Mine :
           u \notin x.index => t < u
      /\ pending # {} => ~ Quiet(r)
      /\ Quiet(r) => disk \cap Mine \subseteq x.index \cup x.wrote
      /\ x.ws = None => x.wrote = {}
      /\ x.ws # None => /\ x.ws.index = x.index \cup x.wrote
                        /\ x.wrote \subseteq x.ws.resident
                        /\ Held(x.ws, {})

ReplaysHold == \A r \in Reloader : Replaying(r) => Publishable(r)

(***************************************************************************)
(* A snapshot body, wherever it waits, holds what its cutoff covers, also  *)
(* of what is still to come to the disk.                                   *)
(***************************************************************************)
Among(b, q) == \E i \in 1..Len(q) : b = q[i]

Carried(b) ==
  \/ \E a \in Actor : b = snaps[a] /\ Decodes(b)
  \/ live # None /\ Among(b, live.queue)
  \/ \E r \in Reloader : Replayed(r) /\ Among(b, reload[r].ws.queue)
  \/ \E q \in detached : Among(b, q)

CoversPeers(b) ==
  \A u \in Ts \ Mine : u <= b.cutoff[author[u]] => u \in b.folded

CoversMine(b) ==
  /\ b.cutoff[Me] <= last
  /\ NotToday =>
       /\ \A u \in disk \cap Mine :
            u <= b.cutoff[Me] => u \in b.folded \cup orphan
       /\ \A u \in pending : b.cutoff[Me] < u

CoversReplay(b) ==
  NotToday => \A r \in Reloader : Replaying(r) /\ Quiet(r) =>
    \A u \in reload[r].wrote : u <= b.cutoff[Me] => u \in b.folded

FoldedInOrder(b) ==
  AllWell => b.exact /\ \A u \in b.folded : u <= b.cutoff[author[u]]

Sound(b) ==
  CoversPeers(b) /\ CoversMine(b) /\ CoversReplay(b) /\ FoldedInOrder(b)

BodiesSound == \A b \in Body : Carried(b) => Sound(b)

Settled == Clocked /\ Follows /\ Gapless(disk) /\ LiveHolds /\ ReplaysHold

IInv == TypeOK /\ Shapes /\ Settled /\ BodiesSound

----------------------------------------------------------------------------
\* The greatest of some timestamps, and the cutoff of a set of operations.

LEMMA HasGreatest ==
  ASSUME NEW S \in SUBSET (Ts \cup {0}), S # {}
  PROVE  \E t \in S : \A u \in S : t >= u
<1> DEFINE T == Ts \cup {0}
           R == StrictSubsetOrdering(T)
           Bad == {B \in SUBSET T : B # {} /\ ~ \E t \in B : \A u \in B : t >= u}
<1>1. T \subseteq Nat /\ IsFiniteSet(T)
  <2>1. IsFiniteSet(Ts) /\ Ts \subseteq Nat
    BY SnapshotConstants
  <2> QED BY <2>1, FS_AddElement
<1>2. IsWellFoundedOn(R, SUBSET T)
  BY <1>1, FS_StrictSubsetOrderingWellFounded, FS_FiniteSubsetsOfFinite
<1>3. \A A, B \in SUBSET T : A \subseteq B /\ A # B => <<A, B>> \in R
  BY DEF StrictSubsetOrdering
<1>4. SUFFICES Bad = {}
  OBVIOUS
<1>5. SUFFICES ASSUME Bad # {} PROVE FALSE
  OBVIOUS
<1>6. /\ Bad \subseteq SUBSET T
      /\ \A A \in Bad : A # {} /\ ~ \E t \in A : \A u \in A : t >= u
      /\ \A A \in SUBSET T : A # {} /\ A \notin Bad =>
           \E t \in A : \A u \in A : t >= u
  OBVIOUS
<1> HIDE DEF R, Bad
<1>7. PICK B \in Bad : \A A \in Bad : <<A, B>> \notin R
  BY <1>2, <1>5, <1>6, WFMin, Zenon
<1>8. PICK x \in B : TRUE
  BY <1>6
<1>9. x \in Nat /\ B \subseteq Nat
  BY <1>1, <1>6
<1>10. B # {x}
  BY <1>6, <1>9
<1>11. B \ {x} \notin Bad /\ B \ {x} # {} /\ B \ {x} \in SUBSET T
  <2>1. B \in SUBSET T /\ B \ {x} \in SUBSET T /\ B \ {x} # B /\ B \ {x} \subseteq B
    BY <1>6
  <2>2. <<B \ {x}, B>> \in R
    BY <2>1, <1>3
  <2> QED BY <2>1, <2>2, <1>6, <1>7, <1>10, SMTT(30)
<1>12. PICK y \in B \ {x} : \A u \in B \ {x} : y >= u
  BY <1>6, <1>11
<1>13. CASE y >= x
  BY <1>6, <1>8, <1>12, <1>13
<1>14. CASE ~ (y >= x)
  <2>1. \A u \in B : x >= u
    BY <1>9, <1>12, <1>14
  <2> QED BY <2>1, <1>6, <1>8
<1> QED BY <1>13, <1>14

LEMMA GreatestIs ==
  ASSUME NEW S \in SUBSET (Ts \cup {0})
  PROVE  /\ Greatest(S) \in S \cup {0} /\ Greatest(S) \in Nat
         /\ \A t \in S : t <= Greatest(S)
<1> DEFINE M == S \cup {0}
<1>1. M \in SUBSET (Ts \cup {0}) /\ M # {} /\ M \subseteq Nat
  BY SnapshotConstants
<1>2. \E t \in M : \A u \in M : t >= u
  BY <1>1, HasGreatest
<1>3. Max(M) \in M /\ \A u \in M : Max(M) >= u
  BY <1>2 DEF Max
<1> QED BY <1>1, <1>3 DEF Greatest

Authored == author \in [Ts -> Actor]

\* An operation of S is at or below the cutoff of its actor, which is an
\* operation of S itself, if it is any.
LEMMA HighWaterIs ==
  ASSUME Authored, NEW S \in SUBSET Ts
  PROVE  /\ HighWater(S) \in [Actor -> Ts \cup {0}]
         /\ \A t \in S : t <= HighWater(S)[author[t]]
         /\ \A a \in Actor : HighWater(S)[a] # 0 =>
              HighWater(S)[a] \in S /\ author[HighWater(S)[a]] = a
<1> DEFINE Of(a) == {t \in S : author[t] = a}
<1>1. ASSUME NEW a \in Actor
      PROVE  /\ HighWater(S)[a] = Greatest(Of(a))
             /\ Greatest(Of(a)) \in Of(a) \cup {0}
             /\ \A t \in Of(a) : t <= Greatest(Of(a))
  <2>1. Of(a) \in SUBSET (Ts \cup {0})
    OBVIOUS
  <2> QED BY <2>1, GreatestIs DEF HighWater
<1> HIDE DEF Of
<1>2. \A a \in Actor : Of(a) \subseteq S /\ \A t \in Of(a) : author[t] = a
  BY DEF Of
<1>3. \A t \in S : author[t] \in Actor /\ t \in Of(author[t])
  BY DEF Of, Authored
<1>4. HighWater(S) \in [Actor -> Ts \cup {0}]
  <2>1. HighWater(S) = [a \in Actor |-> HighWater(S)[a]]
    BY DEF HighWater
  <2>2. \A a \in Actor : HighWater(S)[a] \in Ts \cup {0}
    BY <1>1, <1>2
  <2> QED BY <2>1, <2>2
<1>5. \A t \in S : t <= HighWater(S)[author[t]]
  BY <1>1, <1>3
<1>6. ASSUME NEW a \in Actor, HighWater(S)[a] # 0
      PROVE  HighWater(S)[a] \in S /\ author[HighWater(S)[a]] = a
  BY <1>1, <1>2, <1>6
<1> QED BY <1>4, <1>5, <1>6

LEMMA TopIs ==
  ASSUME NEW b \in Body
  PROVE  \A a \in Actor : b.cutoff[a] <= Top(b)
<1> DEFINE C == {b.cutoff[a] : a \in Actor}
<1>1. C \in SUBSET (Ts \cup {0})
  BY DEF Body
<1>2. \A t \in C : t <= Greatest(C)
  BY <1>1, GreatestIs
<1> QED BY <1>2 DEF Top

----------------------------------------------------------------------------
\* Workspaces that were just opened, and bodies that were just built.

File == Body \cup {None, Torn}

LEMMA DecodedIsBody ==
  ASSUME NEW f \in File, Decodes(f)
  PROVE  f \in Body
BY DEF File, Decodes

LEMMA BodyFields ==
  ASSUME NEW b \in Body
  PROVE  /\ b.folded \in SUBSET Ts /\ b.exact \in BOOLEAN
         /\ b.cutoff \in [Actor -> Ts \cup {0}]
         /\ \A a \in Actor : b.cutoff[a] \in Nat
<1>1. b.cutoff \in [Actor -> Ts \cup {0}]
  BY DEF Body
<1>2. Ts \cup {0} \subseteq Nat
  BY SnapshotConstants
<1>3. ASSUME NEW a \in Actor PROVE b.cutoff[a] \in Nat
  <2>1. b.cutoff[a] \in Ts \cup {0}
    BY <1>1
  <2> QED BY <2>1, <1>2
<1> QED BY <1>1, <1>3 DEF Body

LEMMA WorkspaceFields ==
  ASSUME NEW w \in Workspace
  PROVE  /\ w.index \in SUBSET Ts /\ w.folded \in SUBSET Ts
         /\ w.exact \in BOOLEAN /\ w.resident \in SUBSET Ts
         /\ w.queue \in Seq(Body) /\ View(w) \in SUBSET Ts
         /\ Exact(w) \in BOOLEAN /\ w # None
<1>1. w # None
  BY NoneIsNoWorkspace
<1> QED BY <1>1 DEF Workspace, View, Exact

\* An opened workspace lists what it was opened over; what it does not hold
\* of that lies below the cutoff of the body it adopted.
LEMMA OpenedIs ==
  ASSUME NEW S \in SUBSET Ts, NEW f \in File
  PROVE  /\ Opened(f, S) \in Workspace
         /\ Opened(f, S).index = S /\ Opened(f, S).queue = <<>>
         /\ Opened(f, S).resident \subseteq S
         /\ ~ Adopts(f, S) =>
              /\ Opened(f, S).folded = {} /\ Opened(f, S).exact = TRUE
              /\ Opened(f, S).resident = S
         /\ Adopts(f, S) =>
              /\ f \in Body /\ Opened(f, S).folded = f.folded
              /\ Opened(f, S).exact = f.exact
              /\ Opened(f, S).resident = Delta(f, S)
<1>1. Delta(f, S) \subseteq S
  BY DEF Delta
<1>2. Adopts(f, S) => f \in Body
  BY DecodedIsBody DEF Adopts
<1>3. <<>> \in Seq(Body)
  OBVIOUS
<1>4. CASE Adopts(f, S)
  <2>1. f.folded \in SUBSET Ts /\ f.exact \in BOOLEAN
    BY <1>2, <1>4, BodyFields
  <2>2. Opened(f, S) = [index |-> S, folded |-> f.folded, exact |-> f.exact,
                        resident |-> Delta(f, S), queue |-> <<>>]
    BY <1>4 DEF Opened
  <2> QED BY <2>1, <2>2, <1>1, <1>2, <1>3, <1>4 DEF Workspace
<1>5. CASE ~ Adopts(f, S)
  <2>1. Opened(f, S) = [index |-> S, folded |-> {}, exact |-> TRUE,
                        resident |-> S, queue |-> <<>>]
    BY <1>5 DEF Opened
  <2>2. Opened(f, S) \in Workspace
    BY <2>1, <1>3 DEF Workspace
  <2>3. Opened(f, S).exact = TRUE /\ Opened(f, S).folded = {}
    BY <2>1
  <2>4. /\ Opened(f, S).index = S /\ Opened(f, S).queue = <<>>
        /\ Opened(f, S).resident = S
    BY <2>1
  <2> QED BY <2>2, <2>3, <2>4, <1>5
<1> QED BY <1>4, <1>5

LEMMA BodyOfIs ==
  ASSUME Authored, NEW w \in Workspace
  PROVE  /\ BodyOf(w) \in Body
         /\ BodyOf(w).folded = View(w) /\ BodyOf(w).exact = Exact(w)
         /\ BodyOf(w).cutoff = HighWater(w.index)
<1>1. View(w) \in SUBSET Ts /\ Exact(w) \in BOOLEAN /\ w.index \in SUBSET Ts
  BY WorkspaceFields
<1>2. HighWater(w.index) \in [Actor -> Ts \cup {0}]
  BY <1>1, HighWaterIs
<1> QED BY <1>1, <1>2 DEF BodyOf, Body

LEMMA ChosenIsFile ==
  ASSUME snaps \in [Actor -> File]
  PROVE  /\ Chosen(snaps) \in File
         /\ \E a \in Actor : Chosen(snaps) = snaps[a]
<1>1. Me \in Actor
  BY SnapshotConstants
<1> QED BY <1>1 DEF Chosen

\* A workspace that is opened over sound bodies holds what it lists.
LEMMA OpenedHolds ==
  ASSUME Authored, Clocked, amiss \subseteq {"append", "early", "today"},
         NEW S \in SUBSET Ts, Gapless(S), S \subseteq disk,
         NEW f \in File, Decodes(f) => Sound(f),
         NEW w, w = Opened(f, S), NEW E,
         author' = author, disk' = disk, last' = last, orphan' = orphan,
         amiss' = amiss \cup Early(w)
  PROVE  Held(w, E)'
<1>1. /\ w \in Workspace /\ w.index = S /\ w.resident \subseteq S
      /\ w.queue = <<>>
      /\ ~ Adopts(f, S) => w.folded = {} /\ w.exact = TRUE /\ w.resident = S
      /\ Adopts(f, S) =>
           /\ f \in Body /\ w.folded = f.folded /\ w.exact = f.exact
           /\ w.resident = Delta(f, S)
  BY OpenedIs, ZenonT(60)
<1>2. Adopts(f, S) => Sound(f)
  BY DEF Adopts
<1>3. NotToday' => NotToday
  BY DEF NotToday
<1>4. AllWell' => AllWell /\ w.folded \subseteq w.index
  BY DEF AllWell, Early
<1>5. Mine' = Mine /\ Me \in Actor
  BY SnapshotConstants DEF Mine
<1>6. \A t \in w.resident \cap Mine : t <= last
  BY <1>1 DEF Clocked
<1>7. CASE ~ Adopts(f, S)
  <2>1. View(w) = w.index
    BY <1>1, <1>7 DEF View
  <2>2. Exact(w)
    BY <1>1, <1>7 DEF Exact
  <2> QED BY <2>1, <2>2, <1>1, <1>5, <1>6 DEF Held, Gapless, View, Exact
<1>8. CASE Adopts(f, S)
  <2>1. /\ f \in Body /\ w.folded = f.folded /\ w.exact = f.exact
        /\ w.resident = Delta(f, S) /\ View(w) = f.folded \cup Delta(f, S)
    BY <1>1, <1>8 DEF View
  <2>2. \A t \in S : t \in Ts /\ t \in Nat /\ author[t] \in Actor
                     /\ f.cutoff[author[t]] \in Nat
    <3>1. \A t \in S : t \in Ts /\ t \in Nat
      BY SnapshotConstants
    <3> QED BY <3>1, <2>1, BodyFields DEF Authored
  <2>3. \A t \in S : t \notin Delta(f, S) => t <= f.cutoff[author[t]]
    BY <2>2 DEF Delta
  <2>4. \A t \in S \ Mine : t \in View(w)
    BY <2>1, <2>2, <2>3, <1>2, <1>8 DEF Sound, CoversPeers
  <2>5. NotToday' => \A t \in S \cap Mine : t \in View(w) \cup orphan
    BY <2>1, <2>2, <2>3, <1>2, <1>3, <1>8 DEF Sound, CoversMine, Mine
  <2>6. AllWell' => Exact(w)
    <3> SUFFICES ASSUME AllWell' PROVE Exact(w)
      OBVIOUS
    <3>1. f.exact /\ \A u \in f.folded : u <= f.cutoff[author[u]]
      BY <1>2, <1>4, <1>8 DEF Sound, FoldedInOrder
    <3>2. \A t \in Delta(f, S) : t > Top(f)
      BY <1>8 DEF Adopts, SuffixDelta
    <3>3. ASSUME NEW u \in f.folded, NEW t \in Delta(f, S) PROVE u < t
      <4>1. u \in Ts /\ u \in Nat /\ author[u] \in Actor
        BY <2>1, BodyFields, SnapshotConstants DEF Authored
      <4>2. f.cutoff[author[u]] <= Top(f) /\ f.cutoff[author[u]] \in Nat
        BY <2>1, <4>1, TopIs, BodyFields
      <4>3. Top(f) \in Nat /\ t \in Nat
        <5>1. {f.cutoff[a] : a \in Actor} \in SUBSET (Ts \cup {0})
          BY <2>1, BodyFields
        <5> QED BY <5>1, <2>2, GreatestIs DEF Top, Delta
      <4> QED BY <3>1, <3>2, <4>1, <4>2, <4>3
    <3> QED BY <2>1, <3>1, <3>3 DEF Exact
  <2>7. Delta(f, S) \subseteq S
    BY DEF Delta
  <2> QED BY <2>1, <2>4, <2>5, <2>6, <2>7, <1>1, <1>4, <1>5, <1>6
          DEF Held, Gapless, View, Exact
<1> QED BY <1>7, <1>8

(***************************************************************************)
(* A body that is built now is sound, if the workspace shows what this     *)
(* device has written up to the cutoff.                                    *)
(***************************************************************************)
CutOffMine(w) == HighWater(w.index)[Me]

LEMMA NewBodySound ==
  ASSUME Authored, author' = author, last' \in Nat,
         NEW w \in Workspace, NEW b, b = BodyOf(w),
         Held(w, {})', \A t \in w.index \cap Mine : t <= last',
         NotToday' =>
           /\ \A u \in disk' \cap Mine :
                u <= CutOffMine(w) => u \in View(w) \cup orphan'
           /\ \A u \in pending' : CutOffMine(w) < u
           /\ \A r \in Reloader : Replaying(r)' /\ Quiet(r)' =>
                \A u \in reload'[r].wrote : u <= CutOffMine(w) => u \in View(w)
  PROVE  b \in Body /\ Sound(b)'
<1>1. /\ b \in Body /\ b.folded = View(w) /\ b.exact = Exact(w)
      /\ b.cutoff = HighWater(w.index)
  BY BodyOfIs
<1>2. w.index \in SUBSET Ts /\ Me \in Actor /\ Ts \subseteq Nat \ {0}
  BY WorkspaceFields, SnapshotConstants
<1>3. /\ HighWater(w.index) \in [Actor -> Ts \cup {0}]
      /\ \A t \in w.index : t <= HighWater(w.index)[author[t]]
      /\ \A a \in Actor : HighWater(w.index)[a] # 0 =>
           /\ HighWater(w.index)[a] \in w.index
           /\ author[HighWater(w.index)[a]] = a
  BY <1>2, HighWaterIs
<1>4. Mine' = Mine
  BY DEF Mine
<1>5. CoversPeers(b)'
  <2> SUFFICES ASSUME NEW u \in Ts \ Mine, u <= b.cutoff[author[u]]
               PROVE  u \in View(w)
    BY <1>1, <1>4 DEF CoversPeers
  <2> DEFINE t == b.cutoff[author[u]]
  <2>1. author[u] \in Actor /\ u \in Nat \ {0} /\ u \in Ts /\ author[u] # Me
    BY <1>2 DEF Authored, Mine
  <2>2. t \in Nat
    <3>1. t \in Ts \cup {0}
      BY <1>1, <1>3, <2>1
    <3>2. Ts \cup {0} \subseteq Nat
      BY <1>2
    <3> QED BY <3>1, <3>2
  <2>3. t # 0
    BY <2>1, <2>2
  <2>4. t \in w.index /\ author[t] = author[u]
    BY <1>1, <1>3, <2>1, <2>3
  <2>5. u \in w.index
    <3>1. CASE u = t
      BY <2>4, <3>1
    <3>2. CASE u # t
      <4>1. u < t
        BY <2>1, <2>2, <3>2
      <4> QED BY <4>1, <2>4, <1>4 DEF Held, Gapless
    <3> QED BY <3>1, <3>2
  <2> QED BY <2>5, <1>4 DEF Held, View
<1>6. CoversMine(b)'
  <2>1. b.cutoff[Me] = CutOffMine(w)
    BY <1>1 DEF CutOffMine
  <2>2. b.cutoff[Me] <= last'
    <3>1. CASE b.cutoff[Me] = 0
      BY <3>1
    <3>2. CASE b.cutoff[Me] # 0
      BY <3>2, <1>1, <1>2, <1>3 DEF Mine
    <3> QED BY <3>1, <3>2
  <2> QED BY <2>1, <2>2, <1>1, <1>4 DEF CoversMine
<1>7. CoversReplay(b)'
  BY <1>1 DEF CoversReplay, CutOffMine, Quiet
<1>8. FoldedInOrder(b)'
  <2> SUFFICES ASSUME AllWell' PROVE b.exact /\ \A u \in b.folded : u <= b.cutoff[author[u]]
    BY DEF FoldedInOrder
  <2>1. Exact(w) /\ View(w) \subseteq w.index
    BY DEF Held, View, Exact
  <2> QED BY <2>1, <1>1, <1>3
<1> QED BY <1>1, <1>5, <1>6, <1>7, <1>8 DEF Sound

----------------------------------------------------------------------------
\* What every step keeps.

LEMMA Typed ==
  ASSUME IInv
  PROVE  /\ Authored /\ last \in Nat /\ Me \in Actor
         /\ Ts \subseteq Nat \ {0} /\ Mine \subseteq Ts /\ disk \subseteq Ts
         /\ pending \subseteq Mine /\ orphan \subseteq Mine
         /\ amiss \subseteq {"append", "early", "today"}
         /\ snaps \in [Actor -> File]
         /\ live # None => live \in Workspace
         /\ live = None => pending = {} /\ \A r \in Reloader : ~ Replaying(r)
<1>1. Ts \subseteq Nat \ {0} /\ Me \in Actor
  BY SnapshotConstants
<1>2. last \in Nat
  BY <1>1 DEF IInv, TypeOK
<1>3. File = Body \cup {None, Torn} /\ Mine \subseteq Ts
  BY DEF File, Mine
<1> QED BY <1>1, <1>2, <1>3 DEF IInv, TypeOK, Shapes, Authored, Replaying

Reloading ==
  [before : Nat, index : SUBSET Ts, ws : {None} \cup Workspace,
   wrote : SUBSET Ts]

LEMMA TypedReload ==
  ASSUME IInv, NEW r \in Reloader, Replaying(r)
  PROVE  /\ reload[r] \in Reloading /\ live # None /\ live \in Workspace
         /\ reload[r].before \in Nat /\ reload[r].index \in SUBSET Ts
         /\ reload[r].wrote \in SUBSET Ts
         /\ Replayed(r) => reload[r].ws \in Workspace
         /\ Publishable(r)
<1>1. reload[r] \in Reloading
  BY DEF IInv, Shapes, Replaying, Reloading
<1>2. live # None /\ live \in Workspace
  BY DEF IInv, TypeOK, Replaying
<1>3. Publishable(r)
  BY DEF IInv, Settled, ReplaysHold
<1> QED BY <1>1, <1>2, <1>3 DEF Reloading, Replayed

(***************************************************************************)
(* A sound body stays sound, whatever comes to the disk: what this device  *)
(* writes later is above its cutoff.                                       *)
(***************************************************************************)
LEMMA SoundStays ==
  ASSUME Authored, author' = author, NEW b \in Body, Sound(b),
         Mine \subseteq Nat, last \in Nat, last' \in Nat, last <= last',
         amiss \subseteq amiss', orphan \subseteq orphan',
         \A u \in disk' \cap Mine : u \in disk \cup pending \/ last < u,
         \A u \in pending' : u \in pending \/ (u \in Mine /\ last < u),
         pending \subseteq Mine,
         NotToday' => \A r \in Reloader : Replaying(r)' /\ Quiet(r)' =>
           \A u \in reload'[r].wrote : u \in Mine /\
             \/ last < u
             \/ Replaying(r) /\ Quiet(r) /\ u \in reload[r].wrote
  PROVE  Sound(b)'
<1>1. Mine' = Mine /\ b.cutoff[Me] \in Nat
  BY BodyFields, SnapshotConstants DEF Mine
<1>2. (NotToday' => NotToday) /\ (AllWell' => AllWell)
  BY DEF NotToday, AllWell
<1>3. CoversPeers(b)'
  BY <1>1 DEF Sound, CoversPeers
<1>4. b.cutoff[Me] <= last
  BY DEF Sound, CoversMine
<1>5. CoversMine(b)'
  <2>1. b.cutoff[Me] <= last'
    BY <1>1, <1>4
  <2>2. ASSUME NotToday', NEW u \in disk' \cap Mine, u <= b.cutoff[Me]
        PROVE  u \in b.folded \cup orphan'
    <3>1. u \in Nat
      OBVIOUS
    <3>2. u \in disk \cup pending
      BY <1>1, <1>4, <2>2, <3>1
    <3>3. u \notin pending
      BY <1>1, <1>2, <2>2, <3>1 DEF Sound, CoversMine
    <3> QED BY <1>2, <2>2, <3>2, <3>3 DEF Sound, CoversMine
  <2>3. ASSUME NotToday', NEW u \in pending' PROVE b.cutoff[Me] < u
    <3>1. u \in Nat
      OBVIOUS
    <3> QED BY <1>1, <1>2, <1>4, <2>3, <3>1 DEF Sound, CoversMine
  <2> QED BY <2>1, <2>2, <2>3, <1>1 DEF CoversMine
<1>6. CoversReplay(b)'
  <2> SUFFICES ASSUME NotToday', NEW r \in Reloader, Replaying(r)', Quiet(r)',
                      NEW u \in reload'[r].wrote, u <= b.cutoff[Me]
               PROVE  u \in b.folded
    BY DEF CoversReplay
  <2>1. u \in Mine
    OBVIOUS
  <2>0. u \in Nat
    BY <2>1
  <2>2. ~ (last < u)
    BY <1>1, <1>4, <2>0
  <2> QED BY <2>2, <1>2 DEF Sound, CoversReplay
<1>7. FoldedInOrder(b)'
  BY <1>2 DEF Sound, FoldedInOrder
<1> QED BY <1>3, <1>5, <1>6, <1>7 DEF Sound

\* A workspace goes on holding what it lists while the disk grows.
LEMMA HeldStays ==
  ASSUME NEW w, NEW v, NEW E, NEW F, Held(w, E), E \subseteq F,
         v.index = w.index, v.folded = w.folded, v.exact = w.exact,
         v.resident = w.resident, Mine \subseteq Nat,
         author' = author, disk \subseteq disk', last \in Nat, last' \in Nat,
         last <= last', orphan \subseteq orphan', amiss \subseteq amiss'
  PROVE  Held(v, F)'
<1>1. Mine' = Mine /\ View(v) = View(w) /\ Exact(v) = Exact(w)
  BY DEF Mine, View, Exact
<1>2. View(v)' = View(v) /\ Exact(v)' = Exact(v)
  BY DEF View, Exact
<1>3. (NotToday' => NotToday) /\ (AllWell' => AllWell)
  BY DEF NotToday, AllWell
<1>4. ASSUME NEW t \in v.resident \cap Mine PROVE t <= last'
  <2>1. t \in Nat /\ t <= last
    BY DEF Held
  <2> QED BY <2>1
<1> QED BY <1>1, <1>2, <1>3, <1>4 DEF Held, Gapless

SameDocument(w, v) ==
  v.index = w.index /\ v.folded = w.folded /\ v.exact = w.exact
  /\ v.resident = w.resident

\* The steps that only move snapshot bodies about.
LEMMA OnlyBodies ==
  ASSUME IInv, UNCHANGED <<author, disk, pending, last, amiss, orphan>>,
         live # None <=> live' # None,
         live # None => SameDocument(live, live'),
         \A r \in Reloader :
           /\ Replaying(r)' => Replaying(r)
           /\ Replaying(r) =>
                /\ reload'[r].before = reload[r].before
                /\ reload'[r].index = reload[r].index
                /\ reload'[r].wrote = reload[r].wrote
                /\ reload'[r].ws # None <=> reload[r].ws # None
                /\ reload[r].ws # None =>
                     SameDocument(reload[r].ws, reload'[r].ws),
         \A b \in Body : Carried(b)' => Carried(b) \/ Sound(b)
  PROVE  Settled' /\ BodiesSound'
<1>1. /\ Authored /\ last \in Nat /\ Mine' = Mine /\ Mine \subseteq Nat
      /\ pending \subseteq Mine
  BY Typed DEF Mine
<1>2. Clocked' /\ Follows' /\ Gapless(disk)'
  BY <1>1 DEF IInv, Settled, Clocked, Follows, Gapless, NotToday
<1>3. LiveHolds'
  <2> SUFFICES ASSUME live' # None PROVE Held(live, pending)' /\ LocalOpsShown'
    BY DEF LiveHolds
  <2>1. live # None /\ Held(live, pending) /\ LocalOpsShown
    BY DEF IInv, Settled, LiveHolds
  <2>2. PICK v : v = live'
    OBVIOUS
  <2>3. /\ v.index = live.index /\ v.folded = live.folded
        /\ v.exact = live.exact /\ v.resident = live.resident
    BY <2>1, <2>2 DEF SameDocument
  <2>4. Held(v, pending)'
    BY <1>1, <2>1, <2>3, HeldStays DEF Held, Gapless, View, Exact, NotToday, AllWell
  <2>5. Held(live, pending)'
    BY <2>2, <2>4 DEF Held, Gapless, View, Exact
  <2>6. LocalOpsShown'
    BY <1>1, <2>1, <2>2, <2>3 DEF LocalOpsShown, View
  <2> QED BY <2>5, <2>6
<1>4. ReplaysHold'
  <2> SUFFICES ASSUME NEW r \in Reloader, Replaying(r)'
               PROVE  Publishable(r)'
    BY DEF ReplaysHold
  <2>1. Replaying(r) /\ Publishable(r) /\ live # None
    BY TypedReload
  <2>2. Quiet(r)' <=> Quiet(r)
    BY <2>1 DEF Quiet, SameDocument
  <2>3. ASSUME reload'[r].ws # None
        PROVE  /\ reload'[r].ws.index = reload'[r].index \cup reload'[r].wrote
               /\ reload'[r].wrote \subseteq reload'[r].ws.resident
               /\ Held(reload[r].ws, {})'
    <3>1. reload[r].ws # None
      BY <2>1, <2>3
    <3>2. PICK w : w = reload'[r].ws
      OBVIOUS
    <3>3. /\ w.index = reload[r].ws.index /\ w.folded = reload[r].ws.folded
          /\ w.exact = reload[r].ws.exact /\ w.resident = reload[r].ws.resident
      BY <2>1, <3>1, <3>2 DEF SameDocument
    <3>4. Held(reload[r].ws, {})
      BY <2>1, <3>1 DEF Publishable
    <3>5. Held(w, {})'
      BY <1>1, <3>3, <3>4 DEF Held, Gapless, View, Exact, NotToday, AllWell
    <3>6. Held(reload[r].ws, {})'
      BY <3>2, <3>5 DEF Held, Gapless, View, Exact
    <3> QED BY <2>1, <3>1, <3>2, <3>3, <3>6 DEF Publishable
  <2>4. live'.resident = live.resident
    BY <2>1 DEF SameDocument
  <2> QED BY <1>1, <2>1, <2>2, <2>3, <2>4 DEF Publishable, Gapless
<1>5. BodiesSound'
  <2> SUFFICES ASSUME NEW b \in Body, Carried(b)' PROVE Sound(b)'
    BY DEF BodiesSound
  <2>1. Sound(b)
    BY DEF IInv, BodiesSound
  <2>2. ASSUME NEW r \in Reloader, Replaying(r)', Quiet(r)'
        PROVE  Replaying(r) /\ Quiet(r) /\ reload'[r].wrote = reload[r].wrote
    BY <2>2, TypedReload DEF Quiet, SameDocument
  <2> QED BY <1>1, <2>1, <2>2 DEF Sound, CoversPeers, CoversMine,
             CoversReplay, FoldedInOrder, NotToday, AllWell
<1> QED BY <1>2, <1>3, <1>4, <1>5 DEF Settled

----------------------------------------------------------------------------
\* Queues of bodies, and what is published from them.

LEMMA QueueSteps ==
  ASSUME NEW q \in Seq(Body)
  PROVE  /\ q # <<>> => /\ Head(q) \in Body /\ Tail(q) \in Seq(Body)
                        /\ Among(Head(q), q)
                        /\ \A b : Among(b, Tail(q)) => Among(b, q)
         /\ \A c \in Body : /\ Append(q, c) \in Seq(Body) /\ Append(q, c) # q
                            /\ \A b : Among(b, Append(q, c)) =>
                                 Among(b, q) \/ b = c
         /\ \A b : ~ Among(b, <<>>)
<1>1. ASSUME q # <<>>
      PROVE  /\ Head(q) \in Body /\ Tail(q) \in Seq(Body)
             /\ Among(Head(q), q)
             /\ \A b : Among(b, Tail(q)) => Among(b, q)
  <2>1. Len(q) \in Nat \ {0} /\ Head(q) = q[1] /\ Tail(q) \in Seq(Body)
        /\ Len(Tail(q)) = Len(q) - 1
        /\ \A i \in 1..Len(Tail(q)) : Tail(q)[i] = q[i + 1]
    BY <1>1
  <2>2. Among(Head(q), q) /\ Head(q) \in Body
    BY <2>1 DEF Among
  <2>3. ASSUME NEW b, Among(b, Tail(q)) PROVE Among(b, q)
    <3>1. PICK i \in 1..Len(Tail(q)) : b = Tail(q)[i]
      BY <2>3 DEF Among
    <3>2. i + 1 \in 1..Len(q) /\ b = q[i + 1]
      BY <2>1, <3>1
    <3> QED BY <3>2 DEF Among
  <2> QED BY <2>1, <2>2, <2>3
<1>2. ASSUME NEW c \in Body
      PROVE  /\ Append(q, c) \in Seq(Body) /\ Append(q, c) # q
             /\ \A b : Among(b, Append(q, c)) => Among(b, q) \/ b = c
  <2>1. /\ Append(q, c) \in Seq(Body) /\ Len(Append(q, c)) = Len(q) + 1
        /\ Len(q) \in Nat
        /\ \A i \in 1..Len(q) : Append(q, c)[i] = q[i]
        /\ Append(q, c)[Len(q) + 1] = c
    OBVIOUS
  <2>2. ASSUME NEW b, Among(b, Append(q, c)) PROVE Among(b, q) \/ b = c
    <3>1. PICK i \in 1..(Len(q) + 1) : b = Append(q, c)[i]
      BY <2>1, <2>2 DEF Among
    <3>2. i \in 1..Len(q) \/ i = Len(q) + 1
      BY <2>1, <3>1
    <3> QED BY <2>1, <3>1, <3>2 DEF Among
  <2> QED BY <2>1, <2>2
<1>3. \A b : ~ Among(b, <<>>)
  BY DEF Among
<1> QED BY <1>1, <1>2, <1>3

LEMMA SweptFiles ==
  ASSUME NEW sn \in [Actor -> File], NEW x \in Swept(sn)
  PROVE  /\ x \in [Actor -> File]
         /\ \A a \in Actor : x[a] = sn[a] \/ x[a] = None
BY DEF Swept, File

LEMMA PublishedFiles ==
  ASSUME snaps \in [Actor -> File], NEW b \in Body, NEW x \in Published(b)
  PROVE  /\ x \in [Actor -> File]
         /\ \A a \in Actor : x[a] = snaps[a] \/ x[a] = None \/ x[a] = b
<1>1. CASE x \in Swept(snaps)
  BY <1>1, SweptFiles
<1>2. CASE x \in Swept([snaps EXCEPT ![Me] = b])
  <2>1. [snaps EXCEPT ![Me] = b] \in [Actor -> File]
    BY DEF File
  <2>2. \A a \in Actor : [snaps EXCEPT ![Me] = b][a] \in {b, snaps[a]}
    OBVIOUS
  <2> QED BY <1>2, <2>1, <2>2, SweptFiles, ZenonT(60)
<1> QED BY <1>1, <1>2 DEF Published

LEMMA DamageStep ==
  ASSUME IInv, NEW a \in Actor, Damage(a)
  PROVE  IInv'
<1> USE DEF Damage
<1>1. snaps \in [Actor -> File] /\ snaps' \in [Actor -> File]
  BY Typed DEF File
<1>2. \A c \in Actor : snaps'[c] = snaps[c] \/ ~ Decodes(snaps'[c])
  BY <1>1 DEF Decodes
<1>3. TypeOK' /\ Shapes'
  BY <1>1 DEF IInv, TypeOK, Shapes, Mine, File
<1>4. ASSUME NEW b \in Body, Carried(b)' PROVE Carried(b)
  BY <1>2, <1>4 DEF Carried, Replayed, Replaying, Among, Decodes
<1>5. \A w : SameDocument(w, w)
  BY DEF SameDocument
<1> QED BY <1>3, <1>4, <1>5, OnlyBodies DEF IInv, Replaying

LEMMA WriteLiveStep ==
  ASSUME IInv, WriteLive
  PROVE  IInv'
<1> USE DEF WriteLive
<1>1. /\ live \in Workspace /\ live.queue \in Seq(Body) /\ live.queue # <<>>
      /\ snaps \in [Actor -> File]
  BY Typed, WorkspaceFields
<1>2. /\ Head(live.queue) \in Body /\ Tail(live.queue) \in Seq(Body)
      /\ Among(Head(live.queue), live.queue)
      /\ \A b : Among(b, Tail(live.queue)) => Among(b, live.queue)
  BY <1>1, QueueSteps
<1>3. /\ snaps' \in [Actor -> File]
      /\ \A a \in Actor : snaps'[a] = snaps[a] \/ snaps'[a] = None
                          \/ snaps'[a] = Head(live.queue)
  BY <1>1, <1>2, PublishedFiles
<1>4. /\ live' \in Workspace /\ SameDocument(live, live')
      /\ live'.queue = Tail(live.queue)
  BY <1>1, <1>2 DEF Workspace, SameDocument
<1>5. live' # None
  BY <1>4, NoneIsNoWorkspace
<1>6. TypeOK' /\ Shapes'
  BY <1>3, <1>4, <1>5 DEF IInv, TypeOK, Shapes, Mine, File, SameDocument
<1>7. ASSUME NEW b \in Body, Carried(b)' PROVE Carried(b)
  BY <1>2, <1>3, <1>4, <1>7, ZenonT(60) DEF Carried, Replayed, Replaying, Among, Decodes
<1>8. \A w : SameDocument(w, w)
  BY DEF SameDocument
<1> QED BY <1>4, <1>5, <1>6, <1>7, <1>8, OnlyBodies DEF IInv, Replaying

LEMMA WriteReplayStep ==
  ASSUME IInv, NEW r \in Reloader, WriteReplay(r)
  PROVE  IInv'
<1> USE DEF WriteReplay
<1> DEFINE w == reload[r].ws
           v == [w EXCEPT !.queue = Tail(@)]
<1>1. /\ reload[r] \in Reloading /\ w \in Workspace /\ w.queue \in Seq(Body)
      /\ w.queue # <<>> /\ snaps \in [Actor -> File]
  BY Typed, TypedReload, WorkspaceFields DEF Replaying, Replayed
<1>2. /\ Head(w.queue) \in Body /\ Tail(w.queue) \in Seq(Body)
      /\ Among(Head(w.queue), w.queue)
      /\ \A b : Among(b, Tail(w.queue)) => Among(b, w.queue)
  BY <1>1, QueueSteps
<1>3. /\ snaps' \in [Actor -> File]
      /\ \A a \in Actor : snaps'[a] = snaps[a] \/ snaps'[a] = None
                          \/ snaps'[a] = Head(w.queue)
  BY <1>1, <1>2, PublishedFiles
<1>4. v \in Workspace /\ SameDocument(w, v) /\ v.queue = Tail(w.queue)
  BY <1>1, <1>2 DEF Workspace, SameDocument
<1>5. v # None /\ w # None
  BY <1>1, <1>4, NoneIsNoWorkspace
<1>6. reload' = [reload EXCEPT ![r] = [@ EXCEPT !.ws = v]]
  OBVIOUS
<1>7. /\ reload'[r] \in Reloading /\ reload'[r].ws = v
      /\ reload'[r].before = reload[r].before
      /\ reload'[r].index = reload[r].index
      /\ reload'[r].wrote = reload[r].wrote
      /\ \A s \in Reloader : s # r => reload'[s] = reload[s]
  <2>1. reload \in [Reloader -> {None} \cup Reloading]
    BY DEF IInv, Shapes, Reloading
  <2> QED BY <2>1, <1>1, <1>4, <1>6 DEF Reloading
<1>8. reload' \in [Reloader -> {None} \cup Reloading]
  BY <1>1, <1>6, <1>7 DEF IInv, Shapes, Reloading
<1> HIDE DEF v, w
<1>9. Replaying(r) /\ \A s \in Reloader : Replaying(s)' => Replaying(s)
  BY <1>7 DEF Replaying
<1>10. TypeOK'
  <2>1. ASSUME NEW s \in Reloader, reload'[s] # None
        PROVE  /\ live # None /\ reload'[s].before \in Nat
               /\ reload'[s].index \subseteq Ts /\ reload'[s].wrote \subseteq disk
               /\ reload'[s].ws \in Workspace \cup {None}
    <3>1. reload[s] # None
      BY <2>1, <1>9 DEF Replaying
    <3> QED BY <3>1, <1>4, <1>7 DEF IInv, TypeOK
  <2> QED BY <2>1, <1>3 DEF IInv, TypeOK, File
<1>11. Shapes'
  BY <1>8 DEF IInv, Shapes, Mine, Reloading
<1>12. ASSUME NEW b \in Body, Carried(b)' PROVE Carried(b)
  <2>1. \A s \in Reloader : Replayed(s)' /\ Among(b, reload'[s].ws.queue) =>
          Replayed(s) /\ Among(b, reload[s].ws.queue)
    BY <1>2, <1>4, <1>5, <1>7, <1>9 DEF Replayed, Replaying, w
  <2>2. Replayed(r) /\ reload[r].ws.queue = w.queue
    BY <1>5, <1>9 DEF Replayed, w
  <2>3. CASE \E a \in Actor : b = snaps'[a] /\ Decodes(b)
    BY <1>2, <1>3, <2>2, <2>3 DEF Carried, Decodes
  <2>4. CASE \E s \in Reloader : Replayed(s)' /\ Among(b, reload'[s].ws.queue)
    BY <2>1, <2>4 DEF Carried
  <2>5. CASE (live # None /\ Among(b, live.queue)) \/ \E q \in detached : Among(b, q)
    BY <2>5 DEF Carried
  <2>6. \/ \E a \in Actor : b = snaps'[a] /\ Decodes(b)
        \/ \E s \in Reloader : Replayed(s)' /\ Among(b, reload'[s].ws.queue)
        \/ live # None /\ Among(b, live.queue)
        \/ \E q \in detached : Among(b, q)
    BY <1>12 DEF Carried, Decodes, Among
  <2> QED BY <2>3, <2>4, <2>5, <2>6
<1>13. \A s \in Reloader : Replaying(s) =>
         /\ reload'[s].before = reload[s].before
         /\ reload'[s].index = reload[s].index
         /\ reload'[s].wrote = reload[s].wrote
         /\ reload'[s].ws # None <=> reload[s].ws # None
         /\ reload[s].ws # None => SameDocument(reload[s].ws, reload'[s].ws)
  BY <1>4, <1>5, <1>7 DEF SameDocument, w
<1>14. \A x : SameDocument(x, x)
  BY DEF SameDocument
<1>15. UNCHANGED <<author, disk, live, pending, last, amiss, orphan>>
  OBVIOUS
<1> HIDE DEF WriteReplay
<1> QED BY <1>9, <1>10, <1>11, <1>12, <1>13, <1>14, <1>15, OnlyBodies DEF IInv

LEMMA WriteDetachedStep ==
  ASSUME IInv, NEW q \in detached, WriteDetached(q)
  PROVE  IInv'
<1> USE DEF WriteDetached
<1>1. q \in Seq(Body) /\ q # <<>> /\ snaps \in [Actor -> File]
  BY Typed DEF IInv, TypeOK
<1>2. /\ Head(q) \in Body /\ Tail(q) \in Seq(Body) /\ Among(Head(q), q)
      /\ \A b : Among(b, Tail(q)) => Among(b, q)
  BY <1>1, QueueSteps
<1>3. /\ snaps' \in [Actor -> File]
      /\ \A a \in Actor : snaps'[a] = snaps[a] \/ snaps'[a] = None
                          \/ snaps'[a] = Head(q)
  BY <1>1, <1>2, PublishedFiles
<1>4. \A p \in detached' : p \in detached \/ (p = Tail(q) /\ p # <<>>)
  <2>1. \A p \in Detach(Tail(q)) : p = Tail(q) /\ p # <<>>
    BY Zenon DEF Detach
  <2> QED BY <2>1
<1>5. TypeOK' /\ Shapes'
  BY <1>2, <1>3, <1>4 DEF IInv, TypeOK, Shapes, Mine, File
<1>6. ASSUME NEW b \in Body, Carried(b)' PROVE Carried(b)
  <2>1. \A p \in detached' : Among(b, p) => \E o \in detached : Among(b, o)
    BY <1>2, <1>4
  <2> QED BY <1>2, <1>3, <1>6, <2>1 DEF Carried, Replayed, Replaying, Decodes, Among
<1>7. \A w : SameDocument(w, w)
  BY DEF SameDocument
<1>8. UNCHANGED <<author, disk, live, pending, reload, last, amiss, orphan>>
  OBVIOUS
<1> HIDE DEF WriteDetached
<1> QED BY <1>5, <1>6, <1>7, <1>8, OnlyBodies DEF IInv, Replaying

\* A pulled body holds all of its actor that it covers.
LEMMA PullStep ==
  ASSUME IInv, InOrder, NEW a \in Actor, NEW S \in SUBSET Ts, PullSnapshot(a, S)
  PROVE  IInv'
<1> USE DEF PullSnapshot
<1> DEFINE b == [folded |-> S, exact |-> TRUE, cutoff |-> HighWater(S)]
<1>1. /\ Authored /\ snaps \in [Actor -> File] /\ Me \in Actor
      /\ Ts \subseteq Nat \ {0} /\ Mine \subseteq Ts /\ last \in Nat
  BY Typed
<1>2. /\ HighWater(S) \in [Actor -> Ts \cup {0}]
      /\ \A t \in S : t <= HighWater(S)[author[t]]
      /\ \A c \in Actor : HighWater(S)[c] # 0 =>
           HighWater(S)[c] \in S /\ author[HighWater(S)[c]] = c
  BY <1>1, HighWaterIs
<1>3. /\ b \in Body /\ b.folded = S /\ b.exact = TRUE
      /\ b.cutoff = HighWater(S)
  BY <1>2 DEF Body
<1>4. snaps' = [snaps EXCEPT ![a] = b]
  OBVIOUS
<1>5. /\ S \cap Mine \subseteq disk
      /\ \A t \in S, u \in Ts : u < t /\ author[u] = author[t] =>
           u \in S \/ (u \in Mine /\ u \notin disk)
  <2>1. S \cap Mine \subseteq disk /\ \A t \in S : Closed(S \cup (Mine \ disk), t)
    BY DEF InOrder
  <2> QED BY <2>1 DEF Closed
<1> HIDE DEF b
<1>6. ASSUME NEW u \in Ts, u <= b.cutoff[author[u]]
      PROVE  u \in S \/ (u \in Mine /\ u \notin disk)
  <2>1. u \in Nat \ {0} /\ author[u] \in Actor
    BY <1>1 DEF Authored
  <2>2. b.cutoff[author[u]] \in Ts \cup {0} /\ Ts \cup {0} \subseteq Nat
    BY <1>1, <1>2, <1>3, <2>1
  <2>3. PICK t : t = b.cutoff[author[u]]
    OBVIOUS
  <2>4. t \in Nat /\ t # 0
    <3>1. t \in Nat
      BY <2>2, <2>3
    <3>2. u <= t
      BY <1>6, <2>3
    <3> QED BY <2>1, <3>1, <3>2
  <2>5. t \in S /\ author[t] = author[u]
    BY <1>2, <1>3, <2>1, <2>3, <2>4
  <2>6. u = t \/ u < t
    <3>1. u <= t
      BY <1>6, <2>3
    <3> QED BY <2>1, <2>4, <3>1
  <2> QED BY <1>5, <2>5, <2>6
<1>7. \/ b.cutoff[Me] = 0
      \/ b.cutoff[Me] \in disk \cap Mine
  BY <1>1, <1>2, <1>3, <1>5 DEF Mine
<1>8. Sound(b)
  <2>1. CoversPeers(b)
    BY <1>3, <1>6 DEF CoversPeers
  <2>2. CoversMine(b)
    <3>1. b.cutoff[Me] <= last
      BY <1>1, <1>7 DEF IInv, Settled, Clocked
    <3>2. \A u \in pending : NotToday => b.cutoff[Me] < u
      <4>1. pending \subseteq Mine
        BY Typed
      <4> QED BY <1>1, <1>7, <4>1 DEF IInv, Settled, Follows
    <3>3. \A u \in disk \cap Mine : u <= b.cutoff[Me] => u \in b.folded
      BY <1>1, <1>3, <1>6 DEF Mine
    <3> QED BY <3>1, <3>2, <3>3 DEF CoversMine
  <2>3. CoversReplay(b)
    <3> SUFFICES ASSUME NEW r \in Reloader, Replaying(r),
                        NEW u \in reload[r].wrote, u <= b.cutoff[Me]
                 PROVE  u \in b.folded
      BY DEF CoversReplay
    <3>1. u \in disk \cap Mine
      BY TypedReload DEF Publishable
    <3> QED BY <1>3, <1>6, <3>1 DEF Mine
  <2>4. FoldedInOrder(b)
    BY <1>2, <1>3 DEF FoldedInOrder
  <2> QED BY <2>1, <2>2, <2>3, <2>4 DEF Sound
<1>9. snaps' \in [Actor -> File] /\ \A c \in Actor : snaps'[c] = snaps[c] \/ snaps'[c] = b
  BY <1>1, <1>3, <1>4, ZenonT(60) DEF File
<1>10. TypeOK' /\ Shapes'
  BY <1>9 DEF IInv, TypeOK, Shapes, Mine, File
<1>11. ASSUME NEW c \in Body, Carried(c)' PROVE Carried(c) \/ Sound(c)
  <2>1. c = b \/ Carried(c)
    BY <1>9, <1>11 DEF Carried, Replayed, Replaying, Decodes, Among
  <2> QED BY <1>8, <2>1
<1>12. \A w : SameDocument(w, w)
  BY DEF SameDocument
<1>13. UNCHANGED <<author, disk, live, pending, reload, last, amiss, orphan>>
  OBVIOUS
<1> HIDE DEF PullSnapshot
<1> QED BY <1>10, <1>11, <1>12, <1>13, OnlyBodies DEF IInv, Replaying

----------------------------------------------------------------------------
\* The steps that change what is on disk or in the workspaces.

LEMMA BodiesStay ==
  ASSUME IInv, author' = author, last' \in Nat, last <= last',
         amiss \subseteq amiss', orphan \subseteq orphan',
         \A u \in disk' \cap Mine : u \in disk \cup pending \/ last < u,
         \A u \in pending' : u \in pending \/ (u \in Mine /\ last < u),
         NotToday' => \A r \in Reloader : Replaying(r)' /\ Quiet(r)' =>
           \A u \in reload'[r].wrote : u \in Mine /\
             \/ last < u
             \/ Replaying(r) /\ Quiet(r) /\ u \in reload[r].wrote,
         \A b \in Body : Carried(b)' => Carried(b) \/ Sound(b)'
  PROVE  BodiesSound'
<1> SUFFICES ASSUME NEW b \in Body, Carried(b)', Sound(b) PROVE Sound(b)'
  BY DEF BodiesSound, IInv
<1>1. /\ Authored /\ Mine \subseteq Nat /\ last \in Nat /\ pending \subseteq Mine
  BY Typed
<1> QED BY <1>1, SoundStays

LEMMA PublishableStays ==
  ASSUME IInv, NEW r \in Reloader, Replaying(r), reload'[r] = reload[r],
         author' = author, disk \subseteq disk', last' \in Nat, last <= last',
         amiss \subseteq amiss', orphan \subseteq orphan',
         reload[r].before <= Cardinality(live'.resident),
         \A u \in (disk' \cup pending') \cap Mine : u \in disk \cup pending \/ last < u,
         Quiet(r)' => /\ Quiet(r) /\ pending' = {}
                      /\ disk' \cap Mine \subseteq disk
  PROVE  Publishable(r)'
<1>1. /\ Mine' = Mine /\ Mine \subseteq Nat /\ last \in Nat
      /\ disk \subseteq Ts
  BY Typed DEF Mine
<1>2. PICK x : x = reload[r]
  OBVIOUS
<1>3. x \in Reloading /\ Publishable(r) /\ x = reload'[r]
  BY <1>2, TypedReload
<1>4. /\ x.index \subseteq disk' /\ x.wrote \subseteq disk' \cap Mine'
      /\ Gapless(x.index)'
  BY <1>1, <1>2, <1>3 DEF Publishable, Gapless
<1>5. ASSUME NEW t \in x.index \cap Mine, NEW u \in (disk' \cup pending') \cap Mine,
             u \notin x.index
      PROVE  t < u
  <2>1. t \in Nat /\ u \in Nat
    BY <1>1
  <2>2. t <= last
    BY <1>2, <1>3 DEF Publishable, IInv, Settled, Clocked
  <2>3. CASE last < u
    BY <2>1, <2>2, <2>3, <1>1
  <2>4. CASE u \in disk \cup pending
    BY <2>4, <1>2, <1>3, <1>5 DEF Publishable
  <2> QED BY <2>3, <2>4
<1>6. x.ws # None => Held(x.ws, {})'
  <2> SUFFICES ASSUME x.ws # None PROVE Held(x.ws, {})'
    OBVIOUS
  <2>1. Held(x.ws, {})
    BY <1>2, <1>3 DEF Publishable
  <2> QED BY <2>1, <1>1, HeldStays
<1>7. Quiet(r)' => disk' \cap Mine' \subseteq x.index \cup x.wrote
  BY <1>1, <1>2, <1>3 DEF Publishable
<1>8. /\ x.ws = None => x.wrote = {}
      /\ x.ws # None => /\ x.ws.index = x.index \cup x.wrote
                        /\ x.wrote \subseteq x.ws.resident
  BY <1>2, <1>3 DEF Publishable
<1>9. PICK y : y = reload'[r]
  OBVIOUS
<1>10. Held(y.ws, {})' <=> Held(x.ws, {})'
  BY <1>3, <1>9
<1>11. Held(reload[r].ws, {})' <=> Held(y.ws, {})'
  BY <1>9 DEF Held, Gapless, View, Exact
<1>12. x.before <= Cardinality(live'.resident) /\ (pending' # {} => ~ Quiet(r)')
  BY <1>2
<1> QED BY <1>1, <1>3, <1>4, <1>5, <1>6, <1>7, <1>8, <1>10, <1>11, <1>12, <1>9
        DEF Publishable, Gapless

LEMMA CrashStep ==
  ASSUME IInv, Crash
  PROVE  IInv'
<1> USE DEF Crash
<1>1. Authored /\ last \in Nat /\ Mine' = Mine
  BY Typed DEF Mine
<1>2. \A r \in Reloader : ~ Replaying(r)'
  BY DEF Replaying
<1>3. reload' \in [Reloader -> {None}] /\ {} \subseteq Seq(Body)
  OBVIOUS
<1>4. TypeOK'
  BY <1>2 DEF IInv, TypeOK, Replaying
<1>5. Shapes'
  BY <1>1, <1>3 DEF IInv, Shapes
<1>6. Settled'
  BY <1>1, <1>2 DEF IInv, Settled, Clocked, Follows, Gapless, LiveHolds, ReplaysHold
<1>7. BodiesSound'
  <2>1. \A b \in Body : Carried(b)' => Carried(b)
    BY <1>2 DEF Carried, Replayed, Replaying, Decodes, Among
  <2> QED BY <1>1, <1>2, <2>1, BodiesStay
<1> QED BY <1>4, <1>5, <1>6, <1>7 DEF IInv

LEMMA QuitStep ==
  ASSUME IInv, Quit
  PROVE  IInv'
<1> USE DEF Quit
<1>1. /\ Authored /\ last \in Nat /\ Mine' = Mine /\ snaps \in [Actor -> File]
      /\ live \in Workspace /\ pending = {}
  BY Typed DEF Mine, batching
<1>2. PICK w \in Workspace : w = live
  BY <1>1
<1>3. \A r \in Reloader : ~ Replaying(r) /\ ~ Replaying(r)'
  BY DEF Replaying
<1>0. PICK c : c = BodyOf(w)
  OBVIOUS
<1>4. c \in Body /\ Sound(c)'
  <2>1. Held(w, {}) /\ LocalOpsShown
    BY <1>1, <1>2 DEF IInv, Settled, LiveHolds
  <2>2. Held(w, {})'
    BY <2>1, <1>1 DEF Held, Gapless, View, Exact, NotToday, AllWell
  <2>3. \A t \in w.index \cap Mine : t <= last'
    BY <2>1 DEF Held, IInv, Settled, Clocked
  <2>4. NotToday' => \A u \in disk' \cap Mine : u \in View(w) \cup orphan'
    BY <2>1, <1>1, <1>2 DEF LocalOpsShown, NotToday
  <2> QED BY <2>2, <2>3, <2>4, <1>0, <1>1, <1>3, NewBodySound
<1>5. snaps' = snaps \/ snaps' = [snaps EXCEPT ![Me] = c]
  BY <1>0, <1>2 DEF Saves
<1>6. /\ snaps' \in [Actor -> File]
      /\ \A a \in Actor : snaps'[a] = snaps[a] \/ snaps'[a] = c
  BY <1>1, <1>4, <1>5 DEF File
<1>7. TypeOK'
  BY <1>1, <1>3, <1>6 DEF IInv, TypeOK, Replaying, File
<1>8. Shapes'
  <2>1. {} \subseteq Seq(Body)
    OBVIOUS
  <2> QED BY <1>1, <2>1 DEF IInv, Shapes
<1>9. Settled'
  BY <1>1, <1>3 DEF IInv, Settled, Clocked, Follows, Gapless, LiveHolds,
                    ReplaysHold, NotToday
<1>10. BodiesSound'
  <2>1. ASSUME NEW b \in Body, Carried(b)' PROVE Carried(b) \/ b = c
    BY <1>3, <1>6, <2>1 DEF Carried, Replayed, Replaying, Decodes, Among
  <2>2. \A b \in Body : Carried(b)' => Carried(b) \/ Sound(b)'
    BY <1>4, <2>1
  <2> QED BY <1>1, <1>3, <2>2, BodiesStay
<1> QED BY <1>7, <1>8, <1>9, <1>10 DEF IInv

\* A peer's operation comes after all it follows: the log stays gapless.
LEMMA ArriveStep ==
  ASSUME IInv, InOrder, NEW t \in Ts, Arrive(t)
  PROVE  IInv'
<1> USE DEF Arrive
<1>1. /\ Authored /\ last \in Nat /\ Mine' = Mine /\ Mine \subseteq Nat
      /\ disk \subseteq Ts /\ pending \subseteq Mine /\ Me \in Actor
  BY Typed DEF Mine
<1>2. /\ t \notin Mine /\ Closed(disk, t) /\ disk' = disk \cup {t}
      /\ disk' \cap Mine = disk \cap Mine
  BY DEF InOrder
<1>3. UNCHANGED <<author, snaps, live, pending, reload, detached, last, amiss, orphan>>
  OBVIOUS
<1> HIDE DEF Arrive
<1>4. TypeOK'
  BY <1>1, <1>2, <1>3 DEF IInv, TypeOK
<1>5. Shapes'
  BY <1>1, <1>3 DEF IInv, Shapes
<1>6. Clocked' /\ Follows' /\ Gapless(disk)'
  <2>1. Clocked' /\ Follows'
    BY <1>1, <1>2, <1>3 DEF IInv, Settled, Clocked, Follows, NotToday
  <2>2. ASSUME NEW s \in disk', NEW u \in Ts \ Mine, author[u] = author[s], u < s
        PROVE  u \in disk'
    BY <1>2, <2>2 DEF Closed, IInv, Settled, Gapless
  <2> QED BY <2>1, <2>2, <1>1, <1>3 DEF Gapless
<1>7. LiveHolds'
  <2> SUFFICES ASSUME live # None PROVE Held(live, pending)' /\ LocalOpsShown'
    BY <1>3 DEF LiveHolds
  <2>1. PICK w, E : w = live /\ E = pending
    OBVIOUS
  <2>2. Held(w, E) /\ LocalOpsShown
    BY <2>1 DEF IInv, Settled, LiveHolds
  <2>3. Held(w, E)'
    BY <2>2, <1>1, <1>2, <1>3, HeldStays
  <2>4. Held(live, pending)'
    BY <2>1, <2>3, <1>3 DEF Held, Gapless, View, Exact
  <2> QED BY <2>2, <2>4, <1>1, <1>2, <1>3 DEF LocalOpsShown, View
<1>8. ReplaysHold'
  <2> SUFFICES ASSUME NEW r \in Reloader, Replaying(r)' PROVE Publishable(r)'
    BY DEF ReplaysHold
  <2>1. Replaying(r) /\ Publishable(r)
    BY <1>3, TypedReload DEF Replaying
  <2>2. (Quiet(r)' <=> Quiet(r)) /\ (pending # {} => ~ Quiet(r))
        /\ reload[r].before <= Cardinality(live'.resident)
    BY <1>3, <2>1 DEF Quiet, Publishable
  <2> QED BY <2>1, <2>2, <1>1, <1>2, <1>3, PublishableStays
<1>9. BodiesSound'
  <2>1. \A b \in Body : Carried(b)' => Carried(b)
    BY <1>3 DEF Carried, Replayed, Replaying, Decodes, Among
  <2>2. \A r \in Reloader : Replaying(r)' /\ Quiet(r)' =>
          /\ Replaying(r) /\ Quiet(r) /\ reload'[r].wrote = reload[r].wrote
          /\ reload[r].wrote \subseteq Mine
    BY <1>3, TypedReload DEF Replaying, Quiet, Publishable
  <2> QED BY <1>1, <1>2, <1>3, <2>1, <2>2, BodiesStay
<1> QED BY <1>4, <1>5, <1>6, <1>7, <1>8, <1>9 DEF IInv, Settled

LEMMA StartReloadStep ==
  ASSUME IInv, NEW r \in Reloader, StartReload(r)
  PROVE  IInv'
<1> USE DEF StartReload
<1>0. PICK x : x = [before |-> Cardinality(live.resident), index |-> disk,
                    ws |-> None, wrote |-> {}]
  OBVIOUS
<1>1. /\ Authored /\ last \in Nat /\ Mine' = Mine /\ Mine \subseteq Nat
      /\ disk \subseteq Ts /\ pending = {} /\ live \in Workspace /\ live # None
  BY Typed DEF Mine, batching
<1>2. Cardinality(live.resident) \in Nat
  <2>1. IsFiniteSet(Ts) /\ live.resident \in SUBSET Ts
    BY <1>1, WorkspaceFields, SnapshotConstants
  <2> QED BY <2>1, FS_Subset, FS_CardinalityType
<1>3. /\ x \in Reloading /\ x.before = Cardinality(live.resident)
      /\ x.index = disk /\ x.ws = None /\ x.wrote = {}
  BY <1>0, <1>1, <1>2 DEF Reloading
<1>4. reload' = [reload EXCEPT ![r] = x] /\ ~ Replaying(r)
  BY <1>0 DEF Replaying
<1>5. UNCHANGED <<author, disk, snaps, live, pending, detached, last, amiss, orphan>>
  OBVIOUS
<1> HIDE DEF StartReload
<1>6. reload \in [Reloader -> {None} \cup Reloading]
  BY DEF IInv, Shapes, Reloading
<1>7. /\ reload' \in [Reloader -> {None} \cup Reloading] /\ reload'[r] = x
      /\ \A s \in Reloader : s # r => reload'[s] = reload[s]
  BY <1>3, <1>4, <1>6
<1>8. TypeOK'
  <2>1. ASSUME NEW s \in Reloader, reload'[s] # None
        PROVE  /\ live # None /\ reload'[s].before \in Nat
               /\ reload'[s].index \subseteq Ts /\ reload'[s].wrote \subseteq disk
               /\ reload'[s].ws \in Workspace \cup {None}
    <3>1. CASE s = r
      BY <3>1, <1>1, <1>2, <1>3, <1>7
    <3>2. CASE s # r
      BY <2>1, <3>2, <1>7 DEF IInv, TypeOK
    <3> QED BY <3>1, <3>2
  <2> QED BY <2>1, <1>5 DEF IInv, TypeOK
<1>9. Shapes'
  BY <1>1, <1>5, <1>7 DEF IInv, Shapes, Reloading
<1>10. Clocked' /\ Follows' /\ Gapless(disk)'
  BY <1>1, <1>5 DEF IInv, Settled, Clocked, Follows, NotToday, Gapless
<1>11. LiveHolds'
  BY <1>1, <1>5 DEF IInv, Settled, LiveHolds, Held, Gapless, NotToday, AllWell,
                    View, Exact, LocalOpsShown
<1>12. ReplaysHold'
  <2> SUFFICES ASSUME NEW s \in Reloader, Replaying(s)' PROVE Publishable(s)'
    BY DEF ReplaysHold
  <2>1. CASE s = r
    <3>1. x.before <= Cardinality(live'.resident)
      BY <1>2, <1>3, <1>5
    <3>2. \A t \in x.index \cap Mine, u \in (disk' \cup pending') \cap Mine :
             u \in x.index
      BY <1>1, <1>3, <1>5
    <3>3. Gapless(x.index)'
      BY <1>1, <1>3, <1>5 DEF IInv, Settled, Gapless
    <3> QED BY <2>1, <3>1, <3>2, <3>3, <1>1, <1>3, <1>5, <1>7 DEF Publishable, Gapless
  <2>2. CASE s # r
    <3>1. Replaying(s) /\ Publishable(s) /\ reload'[s] = reload[s]
      BY <2>2, <1>7, TypedReload DEF Replaying
    <3>2. (Quiet(s)' => Quiet(s))
          /\ reload[s].before <= Cardinality(live'.resident)
      BY <1>5, <3>1 DEF Quiet, Publishable
    <3> QED BY <3>1, <3>2, <1>1, <1>5, PublishableStays
  <2> QED BY <2>1, <2>2
<1>13. BodiesSound'
  <2>1. \A b \in Body : Carried(b)' => Carried(b)
    BY <1>3, <1>5, <1>7 DEF Carried, Replayed, Replaying, Decodes, Among
  <2>2. ASSUME NEW s \in Reloader, Replaying(s)', Quiet(s)', NEW u \in reload'[s].wrote
        PROVE  u \in Mine /\ Replaying(s) /\ Quiet(s) /\ u \in reload[s].wrote
    <3>1. s # r
      BY <2>2, <1>3, <1>7
    <3> QED BY <2>2, <3>1, <1>5, <1>7, TypedReload DEF Replaying, Quiet, Publishable
  <2> QED BY <1>1, <1>5, <2>1, <2>2, BodiesStay
<1> QED BY <1>8, <1>9, <1>10, <1>11, <1>12, <1>13 DEF IInv, Settled

----------------------------------------------------------------------------
\* Local edits.

LEMMA AppendedIs ==
  ASSUME Authored, NEW w \in Workspace, NEW S \in SUBSET Ts,
         NEW v \in Appended(w, S)
  PROVE  /\ v \in Workspace
         /\ v.index = w.index \cup S /\ v.folded = w.folded
         /\ v.exact = w.exact /\ v.resident = w.resident
         /\ \/ v.queue = w.queue
            \/ /\ BodyOf(v) \in Body /\ v.queue = Append(w.queue, BodyOf(v))
               /\ v.queue # w.queue
<1>1. PICK u : u = [w EXCEPT !.index = @ \cup S]
  OBVIOUS
<1>2. /\ u \in Workspace /\ u.index = w.index \cup S /\ u.folded = w.folded
      /\ u.exact = w.exact /\ u.resident = w.resident /\ u.queue = w.queue
  BY <1>1 DEF Workspace
<1>3. CASE v = u
  BY <1>2, <1>3
<1>4. CASE v = [u EXCEPT !.queue = Append(@, BodyOf(u))]
  <2>1. BodyOf(u) \in Body /\ w.queue \in Seq(Body)
    BY <1>2, BodyOfIs, WorkspaceFields
  <2>2. Append(w.queue, BodyOf(u)) \in Seq(Body)
        /\ Append(w.queue, BodyOf(u)) # w.queue
    BY <2>1, QueueSteps
  <2>3. /\ v \in Workspace /\ v.index = u.index /\ v.folded = u.folded
        /\ v.exact = u.exact /\ v.resident = u.resident
        /\ v.queue = Append(w.queue, BodyOf(u))
    BY <1>2, <1>4, <2>2 DEF Workspace
  <2>4. BodyOf(v) = BodyOf(u)
    BY <2>3 DEF BodyOf, View, Exact
  <2> QED BY <1>2, <2>1, <2>2, <2>3, <2>4
<1>5. v = u \/ v = [u EXCEPT !.queue = Append(@, BodyOf(u))]
  BY <1>1 DEF Appended
<1> QED BY <1>3, <1>4, <1>5

\* A workspace that applies an operation of this device holds it, in order.
LEMMA EditHolds ==
  ASSUME IInv, NEW t \in Mine, NEW w \in Workspace, NEW E \in SUBSET Mine,
         NEW v \in Workspace, NEW F, Held(w, E), last < t, last' = t,
         \A u \in w.index : u < t, \A u \in E : u <= last, E \subseteq F,
         v.folded = w.folded, v.exact = w.exact,
         v.resident = w.resident \cup {t},
         v.index \in {w.index, w.index \cup {t}}, v.index \subseteq disk',
         author' = author, orphan \subseteq orphan', amiss \subseteq amiss',
         AllWell' => t \in v.index \cup F
  PROVE  Held(v, F)'
<1>1. /\ Mine' = Mine /\ Mine \subseteq Nat /\ last \in Nat
      /\ View(v) = View(w) \cup {t}
  BY Typed DEF Mine, View
<1>2. (NotToday' => NotToday) /\ (AllWell' => AllWell)
  BY DEF NotToday, AllWell
<1>3. ASSUME NEW u \in v.resident \cap Mine PROVE u <= last'
  <2>1. CASE u = t
    BY <2>1, <1>1
  <2>2. CASE u \in w.resident
    <3>1. u <= last /\ u \in Nat
      BY <2>2, <1>1 DEF Held
    <3> QED BY <3>1, <1>1
  <2> QED BY <2>1, <2>2
<1>4. Gapless(v.index)'
  <2> SUFFICES ASSUME NEW s \in v.index, NEW u \in Ts \ Mine,
                      author[u] = author[s], u < s
               PROVE  u \in v.index
    BY <1>1 DEF Gapless
  <2>1. author[u] # Me /\ author[t] = Me
    BY DEF Mine
  <2>2. s \in w.index
    BY <2>1
  <2> QED BY <2>2 DEF Held, Gapless
<1>5. AllWell' => Exact(v) /\ View(v) \subseteq v.index \cup F
  <2> SUFFICES ASSUME AllWell' PROVE Exact(v) /\ View(v) \subseteq v.index \cup F
    OBVIOUS
  <2>1. Exact(w) /\ View(w) \subseteq w.index \cup E
    BY <1>2 DEF Held
  <2>2. \A u \in w.folded : u < t
    <3> SUFFICES ASSUME NEW u \in w.folded PROVE u < t
      OBVIOUS
    <3>1. CASE u \in w.index
      BY <3>1
    <3>2. CASE u \in E
      <4>1. u \in Nat /\ u <= last
        BY <3>2, <1>1
      <4> QED BY <4>1, <1>1
    <3> QED BY <3>1, <3>2, <2>1 DEF View
  <2> QED BY <2>1, <2>2, <1>1 DEF Exact
<1>6. (v.index \cap Mine) \subseteq (w.index \cap Mine) \cup {t}
      /\ (v.index \ Mine) \subseteq (w.index \ Mine)
  OBVIOUS
<1>7. v.index \ Mine \subseteq View(v)
      /\ (NotToday' => (v.index \cap Mine) \ orphan' \subseteq View(v))
  BY <1>1, <1>2, <1>6 DEF Held
<1>8. View(v)' = View(v) /\ Exact(v)' = Exact(v)
  BY DEF View, Exact
<1> QED BY <1>1, <1>3, <1>4, <1>5, <1>7, <1>8 DEF Held

LEMMA LongerBy ==
  ASSUME NEW R \in SUBSET Ts, NEW t \in Ts, t \notin R
  PROVE  /\ Cardinality(R) \in Nat
         /\ Cardinality(R \cup {t}) = Cardinality(R) + 1
<1>1. IsFiniteSet(R)
  BY SnapshotConstants, FS_Subset
<1> QED BY <1>1, FS_AddElement, FS_CardinalityType

(***************************************************************************)
(* A step of the live workspace that moves what this device wrote: each    *)
(* replay under way is left behind, and a body that is built holds it all. *)
(***************************************************************************)
LEMMA LiveSteps ==
  ASSUME IInv, live # None, UNCHANGED <<author, snaps, reload, detached, orphan>>,
         NEW v \in Workspace, live' = v,
         disk \subseteq disk', disk' \subseteq disk \cup Mine,
         pending' \subseteq Mine \cap v.resident,
         amiss \subseteq amiss', amiss' \subseteq {"append", "early", "today"},
         last' \in Ts \cup {0}, last <= last',
         \A u \in disk' \cap Mine : u \in disk \cup pending \/ last < u,
         \A u \in pending' : u \in pending \/ last < u,
         \A u \in (disk' \cup pending') \cap Mine : u <= last',
         Follows', Held(v, pending)', LocalOpsShown',
         \A r \in Reloader : Replaying(r) =>
           reload[r].before < Cardinality(v.resident),
         Cardinality(v.resident) \in Nat,
         \/ v.queue = live.queue
         \/ /\ BodyOf(v) \in Body /\ v.queue = Append(live.queue, BodyOf(v))
            /\ pending' = {}
  PROVE  IInv'
<1>1. /\ Authored /\ last \in Nat /\ Mine' = Mine /\ Mine \subseteq Nat
      /\ Mine \subseteq Ts /\ disk \subseteq Ts /\ live \in Workspace
      /\ last' \in Nat
  <2>1. Ts \cup {0} \subseteq Nat
    BY SnapshotConstants
  <2> QED BY <2>1, Typed DEF Mine
<1>2. v # None
  BY NoneIsNoWorkspace
<1>3. TypeOK'
  <2>1. \A r \in Reloader : reload[r] # None => reload[r].wrote \subseteq disk'
    BY DEF IInv, TypeOK
  <2> QED BY <2>1, <1>1, <1>2 DEF IInv, TypeOK
<1>4. Shapes'
  BY <1>1 DEF IInv, Shapes
<1>5. Clocked' /\ Gapless(disk)'
  <2>1. Clocked'
    BY <1>1 DEF Clocked
  <2>2. ASSUME NEW t \in disk', NEW u \in Ts \ Mine, author[u] = author[t], u < t
        PROVE  u \in disk'
    <3>1. t \in disk
      BY <2>2 DEF Mine
    <3> QED BY <3>1, <2>2 DEF IInv, Settled, Gapless
  <2> QED BY <2>1, <2>2, <1>1 DEF Gapless
<1>6. LiveHolds'
  <2>1. Held(live, pending)'
    BY DEF Held, Gapless, View, Exact
  <2> QED BY <2>1 DEF LiveHolds
<1>7. \A r \in Reloader : Replaying(r)' => Replaying(r) /\ ~ Quiet(r)'
  <2> SUFFICES ASSUME NEW r \in Reloader, Replaying(r)'
               PROVE  Replaying(r) /\ ~ Quiet(r)'
    OBVIOUS
  <2>1. Replaying(r) /\ reload'[r].before = reload[r].before
    BY DEF Replaying
  <2>2. reload[r].before \in Nat
    BY <2>1, TypedReload
  <2>3. reload[r].before # Cardinality(v.resident)
    BY <2>1, <2>2
  <2> QED BY <2>1, <2>3 DEF Quiet
<1>8. ReplaysHold'
  <2> SUFFICES ASSUME NEW r \in Reloader, Replaying(r)' PROVE Publishable(r)'
    BY DEF ReplaysHold
  <2>1. Replaying(r) /\ ~ Quiet(r)'
    BY <1>7
  <2>2. reload[r].before <= Cardinality(live'.resident)
    BY <2>1, TypedReload
  <2> QED BY <2>1, <2>2, <1>1, PublishableStays
<1>9. BodiesSound'
  <2>1. PICK c : c = BodyOf(v)
    OBVIOUS
  <2>2. ASSUME c \in Body, pending' = {} PROVE Sound(c)'
    <3>1. Held(v, {})'
      BY <2>2 DEF Held
    <3>2. \A t \in v.index \cap Mine : t <= last'
      BY <1>1, <3>1 DEF Held
    <3>3. NotToday' => \A u \in disk' \cap Mine : u \in View(v) \cup orphan'
      BY <1>1, <1>2 DEF LocalOpsShown, NotToday, View
    <3> QED BY <3>1, <3>2, <3>3, <2>1, <2>2, <1>1, <1>7, NewBodySound
  <2>3. live.queue \in Seq(Body)
    BY <1>1, WorkspaceFields
  <2>4. ASSUME NEW b \in Body, Carried(b)' PROVE Carried(b) \/ Sound(b)'
    <3>1. Among(b, v.queue) => Among(b, live.queue) \/ (b = c /\ pending' = {})
      BY <2>1, <2>3, QueueSteps, ZenonT(60)
    <3>2. Carried(b) \/ (b = c /\ pending' = {})
      BY <2>4, <3>1 DEF Carried, Replayed, Replaying, Decodes, Among
    <3> QED BY <2>2, <3>2
  <2> QED BY <1>1, <1>7, <2>4, BodiesStay
<1> QED BY <1>3, <1>4, <1>5, <1>6, <1>8, <1>9 DEF IInv, Settled

\* A local operation is above all that is known, in particular in live.
LEMMA EditIsNew ==
  ASSUME IInv, NEW t \in Ts, Stamps(t)
  PROVE  /\ t \in Mine /\ t \in Nat /\ last < t /\ live # None
         /\ live \in Workspace /\ Held(live, pending) /\ LocalOpsShown
         /\ \A u \in live.index : u < t
         /\ \A u \in (disk \cup pending) \cap Mine : u <= last /\ u < t
         /\ Cardinality(live.resident \cup {t}) \in Nat
         /\ \A r \in Reloader : Replaying(r) =>
              reload[r].before < Cardinality(live.resident \cup {t})
<1>1. /\ t \in Mine /\ last < t /\ live # None /\ \A u \in live.index : u < t
  BY DEF Stamps
<1>2. t \in Nat /\ Mine \subseteq Nat /\ last \in Nat /\ live \in Workspace
  BY <1>1, Typed
<1>3. Held(live, pending) /\ LocalOpsShown
  BY <1>1 DEF IInv, Settled, LiveHolds
<1>4. \A u \in (disk \cup pending) \cap Mine : u <= last /\ u < t
  <2> SUFFICES ASSUME NEW u \in (disk \cup pending) \cap Mine
               PROVE  u <= last /\ u < t
    OBVIOUS
  <2>1. u <= last /\ u \in Nat
    BY <1>2 DEF IInv, Settled, Clocked
  <2> QED BY <2>1, <1>1, <1>2
<1>5. t \notin live.resident
  <2> SUFFICES ASSUME t \in live.resident PROVE FALSE
    OBVIOUS
  <2>1. t <= last
    BY <1>1, <1>3 DEF Held
  <2> QED BY <2>1, <1>1, <1>2
<1>6. /\ Cardinality(live.resident) \in Nat
      /\ Cardinality(live.resident \cup {t}) = Cardinality(live.resident) + 1
  BY <1>2, <1>5, LongerBy, WorkspaceFields
<1>7. Cardinality(live.resident \cup {t}) \in Nat
  BY <1>6
<1>8. ASSUME NEW r \in Reloader, Replaying(r)
      PROVE  reload[r].before < Cardinality(live.resident \cup {t})
  <2>1. reload[r].before \in Nat /\ reload[r].before <= Cardinality(live.resident)
    BY <1>8, TypedReload DEF Publishable
  <2> QED BY <2>1, <1>6
<1> QED BY <1>1, <1>2, <1>3, <1>4, <1>8, <1>7

LEMMA BufferStep ==
  ASSUME IInv, NEW t \in Ts, Buffer(t)
  PROVE  IInv'
<1> USE DEF Buffer
<1>1. PICK v : v = [live EXCEPT !.resident = @ \cup {t}]
  OBVIOUS
<1>2. /\ t \in Mine /\ t \in Nat /\ last < t /\ live # None
      /\ live \in Workspace /\ Held(live, pending) /\ LocalOpsShown
      /\ \A u \in live.index : u < t
      /\ \A u \in (disk \cup pending) \cap Mine : u <= last /\ u < t
      /\ Cardinality(live.resident \cup {t}) \in Nat
      /\ \A r \in Reloader : Replaying(r) =>
           reload[r].before < Cardinality(live.resident \cup {t})
  BY EditIsNew
<1>3. /\ v \in Workspace /\ v.index = live.index /\ v.folded = live.folded
      /\ v.exact = live.exact /\ v.resident = live.resident \cup {t}
      /\ v.queue = live.queue
  BY <1>1, <1>2 DEF Workspace
<1>4. /\ live' = v /\ last' = t /\ pending' = pending \cup {t}
      /\ UNCHANGED <<author, disk, snaps, reload, detached, amiss, orphan>>
  BY <1>1
<1> HIDE DEF Buffer
<1>5. /\ last \in Nat /\ Mine \subseteq Nat /\ Mine' = Mine
      /\ amiss \subseteq {"append", "early", "today"} /\ pending \subseteq Mine
  BY <1>4, Typed DEF Mine
<1>6. PICK E, F : E = pending /\ F = pending'
  OBVIOUS
<1>7. Held(v, F)'
  <2>1. v.index \subseteq disk'
    BY <1>2, <1>3, <1>4 DEF Held
  <2>2. PICK w \in Workspace : w = live
    BY <1>2
  <2>3. Held(w, E) /\ \A u \in w.index : u < t
    BY <1>2, <1>6, <2>2
  <2> QED BY <2>1, <2>2, <2>3, <1>2, <1>3, <1>4, <1>5, <1>6, EditHolds
<1>8. Held(v, pending)'
  BY <1>6, <1>7 DEF Held
<1>9. LocalOpsShown'
  <2> SUFFICES ASSUME NotToday PROVE (disk \cap Mine) \ orphan \subseteq View(v)
    BY <1>4, <1>5 DEF LocalOpsShown, NotToday, View
  <2>1. (disk \cap Mine) \ orphan \subseteq View(live)
    BY <1>2 DEF LocalOpsShown, NotToday
  <2> QED BY <2>1, <1>3 DEF View
<1>10. Follows'
  BY <1>2, <1>4, <1>5 DEF IInv, Settled, Follows, NotToday
<1>11. pending' \subseteq Mine \cap v.resident
  <2>1. pending \subseteq live.resident
    BY DEF IInv, Shapes
  <2> QED BY <2>1, <1>2, <1>3, <1>4, <1>5
<1>12. \A u \in (disk' \cup pending') \cap Mine : u <= last'
  <2> SUFFICES ASSUME NEW u \in (disk' \cup pending') \cap Mine PROVE u <= t
    BY <1>4
  <2>1. u = t \/ u < t
    BY <1>2, <1>4
  <2> QED BY <2>1, <1>2, <1>5
<1>13. last' \in Ts \cup {0} /\ last <= last'
  BY <1>2, <1>4, <1>5
<1>14. /\ disk' = disk /\ \A u \in pending' : u \in pending \/ last < u
       /\ amiss' = amiss /\ v.queue = live.queue
  BY <1>2, <1>3, <1>4
<1> QED BY <1>2, <1>3, <1>4, <1>5, <1>8, <1>9, <1>10, <1>11, <1>12, <1>13,
           <1>14, LiveSteps

LEMMA ApplyStep ==
  ASSUME IInv, NEW t \in Ts, Apply(t)
  PROVE  IInv'
<1> USE DEF Apply
<1>1. PICK w : w = [live EXCEPT !.resident = @ \cup {t}]
  OBVIOUS
<1>2. /\ t \in Mine /\ t \in Nat /\ last < t /\ live # None
      /\ live \in Workspace /\ Held(live, pending) /\ LocalOpsShown
      /\ \A u \in live.index : u < t
      /\ \A u \in (disk \cup pending) \cap Mine : u <= last /\ u < t
      /\ Cardinality(live.resident \cup {t}) \in Nat
      /\ \A r \in Reloader : Replaying(r) =>
           reload[r].before < Cardinality(live.resident \cup {t})
  BY EditIsNew
<1>3. /\ last \in Nat /\ Mine \subseteq Nat /\ Mine' = Mine /\ Authored
      /\ amiss \subseteq {"append", "early", "today"}
      /\ pending = {} /\ pending' = {}
  BY Typed DEF Mine, batching
<1>4. /\ w \in Workspace /\ w.index = live.index /\ w.folded = live.folded
      /\ w.exact = live.exact /\ w.resident = live.resident \cup {t}
      /\ w.queue = live.queue
  BY <1>1, <1>2 DEF Workspace
<1>5. PICK v : v = live'
  OBVIOUS
<1>6. /\ \/ v \in Appended(w, {t}) /\ disk' = disk \cup {t} /\ amiss' = amiss
         \/ v = w /\ disk' \in {disk, disk \cup {t}} /\ amiss' = amiss \cup {"append"}
      /\ last' = t
      /\ UNCHANGED <<author, snaps, pending, reload, detached, orphan>>
  BY <1>1, <1>5
<1> HIDE DEF Apply
<1>7. /\ v \in Workspace /\ v.folded = live.folded /\ v.exact = live.exact
      /\ v.resident = live.resident \cup {t}
      /\ \/ v.queue = live.queue
         \/ BodyOf(v) \in Body /\ v.queue = Append(live.queue, BodyOf(v))
      /\ \/ v.index = live.index \cup {t} /\ disk' = disk \cup {t}
         \/ v.index = live.index /\ amiss' # {}
  <2>1. CASE v \in Appended(w, {t}) /\ disk' = disk \cup {t}
    BY <2>1, <1>3, <1>4, AppendedIs
  <2>2. CASE v = w /\ amiss' = amiss \cup {"append"}
    BY <2>2, <1>4
  <2> QED BY <2>1, <2>2, <1>6
<1>8. Held(v, {})'
  <2>1. v.index \subseteq disk'
    BY <1>2, <1>6, <1>7 DEF Held
  <2>2. PICK x \in Workspace : x = live
    BY <1>2
  <2>3. Held(x, {}) /\ \A u \in x.index : u < t
    BY <1>2, <1>3, <2>2
  <2>4. /\ v.folded = x.folded /\ v.exact = x.exact
        /\ v.resident = x.resident \cup {t}
        /\ v.index \in {x.index, x.index \cup {t}}
    BY <1>7, <2>2
  <2>5. AllWell' => t \in v.index \cup {}
    BY <1>7 DEF AllWell
  <2>6. amiss \subseteq amiss' /\ last' = t /\ author' = author
        /\ orphan \subseteq orphan'
    BY <1>6
  <2>7. PICK E : E = {}
    OBVIOUS
  <2>8. E \in SUBSET Mine /\ E \subseteq E /\ \A u \in E : u <= last
    BY <2>7
  <2>9. Held(v, E)'
    BY <2>1, <2>3, <2>4, <2>5, <2>6, <2>7, <2>8, <1>2, <1>7, EditHolds
  <2> QED BY <2>7, <2>9 DEF Held
<1>9. Held(v, pending)'
  BY <1>3, <1>8 DEF Held
<1>10. LocalOpsShown'
  <2> SUFFICES ASSUME NotToday'
               PROVE  (disk' \cap Mine) \ orphan' \subseteq View(v)
    BY <1>3, <1>5 DEF LocalOpsShown, NotToday, View
  <2>1. NotToday
    BY <1>6 DEF NotToday
  <2>2. (disk \cap Mine) \ orphan \subseteq View(live)
    BY <2>1, <1>2 DEF LocalOpsShown, NotToday
  <2> QED BY <2>2, <1>6, <1>7 DEF View
<1>11. Follows'
  BY <1>3 DEF Follows
<1>12. \A u \in (disk' \cup pending') \cap Mine : u <= last'
  <2> SUFFICES ASSUME NEW u \in disk' \cap Mine PROVE u <= t
    BY <1>3, <1>6
  <2>1. u = t \/ u < t
    BY <1>2, <1>6
  <2>2. u \in Nat /\ t \in Nat
    BY <1>2, <1>3
  <2> QED BY <2>1, <2>2
<1>13. \A u \in disk' \cap Mine : u \in disk \cup pending \/ last < u
  BY <1>2, <1>6
<1>14. amiss \subseteq amiss' /\ amiss' \subseteq {"append", "early", "today"}
       /\ disk \subseteq disk' /\ disk' \subseteq disk \cup Mine
  BY <1>2, <1>3, <1>6
<1>15. /\ pending' \subseteq Mine \cap v.resident /\ last' \in Ts \cup {0}
       /\ last <= last' /\ \A u \in pending' : u \in pending \/ last < u
  BY <1>2, <1>3, <1>6
<1> QED BY <1>2, <1>3, <1>5, <1>6, <1>7, <1>9, <1>10, <1>11, <1>12, <1>13,
           <1>14, <1>15, LiveSteps

LEMMA EndBatchStep ==
  ASSUME IInv, EndBatch
  PROVE  IInv'
<1> USE DEF EndBatch
<1>1. PICK v : v = live'
  OBVIOUS
<1>2. /\ last \in Nat /\ Mine \subseteq Nat /\ Mine' = Mine /\ Authored
      /\ amiss \subseteq {"append", "early", "today"}
      /\ pending # {} /\ pending \subseteq Mine /\ pending' = {}
      /\ live # None /\ live \in Workspace /\ Mine \subseteq Ts
      /\ pending \subseteq live.resident
  BY Typed DEF Mine, batching, IInv, Shapes
<1>3. /\ Held(live, pending) /\ LocalOpsShown
  BY <1>2 DEF IInv, Settled, LiveHolds
<1>4. PICK D \in SUBSET pending :
        /\ disk' = disk \cup D
        /\ \/ v \in Appended(live, pending) /\ D = pending /\ amiss' = amiss
           \/ /\ amiss' = amiss \cup {"append"}
              /\ \E I \in SUBSET D : v = [live EXCEPT !.index = @ \cup I]
  <2>1. CASE v \in Appended(live, pending) /\ disk' = disk \cup pending
             /\ amiss' = amiss
    BY <2>1
  <2>2. CASE \E D \in SUBSET pending : \E I \in SUBSET D :
               /\ v = [live EXCEPT !.index = @ \cup I]
               /\ disk' = disk \cup D /\ amiss' = amiss \cup {"append"}
    BY <2>2
  <2> QED BY <1>1, <2>1, <2>2
<1>5. UNCHANGED <<author, snaps, reload, detached, last, orphan>>
  OBVIOUS
<1> HIDE DEF EndBatch
<1>6. PICK I \in SUBSET D :
        /\ v \in Workspace /\ v.index = live.index \cup I
        /\ v.folded = live.folded /\ v.exact = live.exact
        /\ v.resident = live.resident
        /\ \/ v.queue = live.queue
           \/ BodyOf(v) \in Body /\ v.queue = Append(live.queue, BodyOf(v))
        /\ AllWell' => I = pending
  <2>1. CASE v \in Appended(live, pending) /\ D = pending
    BY <2>1, <1>2, AppendedIs
  <2>2. CASE amiss' = amiss \cup {"append"}
             /\ \E I \in SUBSET D : v = [live EXCEPT !.index = @ \cup I]
    <3>1. PICK I \in SUBSET D : v = [live EXCEPT !.index = @ \cup I]
      BY <2>2
    <3>2. I \in SUBSET Ts
      BY <1>2
    <3>3. /\ v \in Workspace /\ v.index = live.index \cup I
          /\ v.folded = live.folded /\ v.exact = live.exact
          /\ v.resident = live.resident /\ v.queue = live.queue
      BY <3>1, <3>2, <1>2 DEF Workspace
    <3>4. ~ AllWell'
      BY <2>2 DEF AllWell
    <3> QED BY <3>3, <3>4
  <2> QED BY <1>4, <2>1, <2>2
<1>7. amiss \subseteq amiss' /\ amiss' \subseteq {"append", "early", "today"}
      /\ (NotToday' => NotToday) /\ (AllWell' => AllWell)
  BY <1>2, <1>4 DEF NotToday, AllWell
<1>8. Held(v, {})'
  <2>1. v.index \subseteq disk'
    BY <1>3, <1>4, <1>6 DEF Held
  <2>2. \A t \in v.resident \cap Mine : t <= last
    BY <1>3, <1>6 DEF Held
  <2>3. Gapless(v.index)
    <3> SUFFICES ASSUME NEW s \in v.index, NEW u \in Ts \ Mine,
                        author[u] = author[s], u < s
                 PROVE  u \in v.index
      BY DEF Gapless
    <3>1. s \in live.index
      BY <1>2, <1>6 DEF Mine
    <3> QED BY <3>1, <1>3, <1>6 DEF Held, Gapless
  <2>4. View(v) = View(live)
    BY <1>6 DEF View
  <2>5. v.index \ Mine \subseteq View(v)
    BY <2>4, <1>2, <1>3, <1>6 DEF Held
  <2>6. NotToday' => (v.index \cap Mine) \ orphan \subseteq View(v)
    BY <2>4, <1>2, <1>3, <1>6, <1>7 DEF Held, View
  <2>7. AllWell' => View(v) \subseteq v.index
    BY <2>4, <1>3, <1>6, <1>7 DEF Held
  <2>8. AllWell' => Exact(v)
    <3>1. AllWell' => Exact(live)
      BY <1>3, <1>7 DEF Held
    <3>2. v.exact = live.exact /\ v.folded = live.folded /\ v.resident = live.resident
      BY <1>6
    <3> QED BY <3>1, <3>2 DEF Exact
  <2>9. View(v)' = View(v) /\ Exact(v)' = Exact(v)
    BY DEF View, Exact
  <2> QED BY <2>1, <2>2, <2>3, <2>5, <2>6, <2>7, <2>8, <2>9, <1>2, <1>5
          DEF Held, Gapless
<1>9. Held(v, pending)'
  BY <1>2, <1>8 DEF Held
<1>10. LocalOpsShown'
  <2> SUFFICES ASSUME NotToday'
               PROVE  (disk' \cap Mine) \ orphan \subseteq View(v)
    BY <1>1, <1>2, <1>5 DEF LocalOpsShown, NotToday, View
  <2>1. (disk \cap Mine) \ orphan \subseteq View(live)
    BY <1>2, <1>3, <1>7 DEF LocalOpsShown, NotToday
  <2> QED BY <2>1, <1>2, <1>4, <1>6 DEF View
<1>11. \A r \in Reloader : Replaying(r) =>
         reload[r].before < Cardinality(v.resident)
  <2> SUFFICES ASSUME NEW r \in Reloader, Replaying(r)
               PROVE  reload[r].before < Cardinality(live.resident)
    BY <1>6
  <2>1. /\ reload[r].before <= Cardinality(live.resident)
        /\ reload[r].before # Cardinality(live.resident)
        /\ reload[r].before \in Nat
    BY <1>2, TypedReload DEF Publishable, Quiet
  <2>2. Cardinality(live.resident) \in Nat
    BY <1>2, WorkspaceFields, SnapshotConstants, FS_Subset, FS_CardinalityType
  <2> QED BY <2>1, <2>2
<1>12. Cardinality(v.resident) \in Nat
  BY <1>6, WorkspaceFields, SnapshotConstants, FS_Subset, FS_CardinalityType
<1>13. \A u \in (disk' \cup pending') \cap Mine : u <= last'
  BY <1>2, <1>4, <1>5 DEF IInv, Settled, Clocked
<1>14. /\ disk \subseteq disk' /\ disk' \subseteq disk \cup Mine
       /\ \A u \in disk' \cap Mine : u \in disk \cup pending \/ last < u
       /\ \A u \in pending' : u \in pending \/ last < u
       /\ pending' \subseteq Mine \cap v.resident
  BY <1>2, <1>4
<1>15. last' \in Ts \cup {0} /\ last <= last' /\ Follows'
  BY <1>2, <1>5 DEF IInv, TypeOK, Follows
<1> QED BY <1>1, <1>2, <1>5, <1>6, <1>7, <1>9, <1>10, <1>11, <1>12, <1>13,
           <1>14, <1>15, LiveSteps

----------------------------------------------------------------------------
\* Boots and reloads.

LEMMA BootStep ==
  ASSUME IInv, Boot
  PROVE  IInv'
<1> USE DEF Boot
<1>1. /\ Authored /\ last \in Nat /\ Mine' = Mine /\ disk \subseteq Ts
      /\ amiss \subseteq {"append", "early", "today"}
      /\ snaps \in [Actor -> File] /\ pending = {}
      /\ \A r \in Reloader : ~ Replaying(r)
  BY Typed DEF Mine
<1>2. PICK f : f = Chosen(snaps)
  OBVIOUS
<1>3. PICK v : v = Opened(f, disk)
  OBVIOUS
<1>4. /\ live' = v /\ amiss' = amiss \cup Early(v) /\ snaps' \in Dropped(snaps)
      /\ UNCHANGED <<author, disk, pending, reload, detached, last, orphan>>
  BY <1>2, <1>3
<1> HIDE DEF Boot
<1>5. f \in File /\ (Decodes(f) => Sound(f))
  <2>1. f \in File /\ \E a \in Actor : f = snaps[a]
    BY <1>1, <1>2, ChosenIsFile
  <2>2. Decodes(f) => f \in Body /\ Carried(f)
    BY <2>1, DecodedIsBody DEF Carried
  <2> QED BY <2>1, <2>2 DEF IInv, BodiesSound
<1>6. v \in Workspace /\ v # None /\ v.index = disk /\ v.queue = <<>>
  <2>1. v \in Workspace /\ v.index = disk /\ v.queue = <<>>
    BY <1>1, <1>3, <1>5, OpenedIs
  <2> QED BY <2>1, WorkspaceFields
<1>7. \A E : Held(v, E)'
  <2>1. Clocked /\ Gapless(disk)
    BY DEF IInv, Settled
  <2> SUFFICES ASSUME NEW E PROVE Held(v, E)'
    OBVIOUS
  <2> QED BY <2>1, <1>1, <1>3, <1>4, <1>5, OpenedHolds
<1>8. /\ Early(v) \subseteq {"early"}
      /\ amiss \subseteq amiss' /\ amiss' \subseteq {"append", "early", "today"}
  <2>1. Early(v) \subseteq {"early"}
    BY DEF Early
  <2> QED BY <2>1, <1>1, <1>4
<1>9. snaps' \in [Actor -> File] /\ \A a \in Actor : snaps'[a] \in {snaps[a], None}
  BY <1>1, <1>4 DEF Dropped, File
<1>10. TypeOK'
  BY <1>1, <1>4, <1>6, <1>8, <1>9 DEF IInv, TypeOK, File, Replaying
<1>11. Shapes'
  BY <1>1, <1>4 DEF IInv, Shapes
<1>12. Clocked' /\ Follows' /\ Gapless(disk)' /\ ReplaysHold'
  <2>1. \A r \in Reloader : ~ Replaying(r)'
    BY <1>1, <1>4 DEF Replaying
  <2> QED BY <2>1, <1>1, <1>4 DEF IInv, Settled, Clocked, Follows, Gapless,
             ReplaysHold
<1>13. LiveHolds'
  <2>1. Held(live, pending)'
    BY <1>4, <1>7 DEF Held, Gapless, View, Exact
  <2>2. LocalOpsShown'
    BY <1>1, <1>4, <1>6, <1>7 DEF LocalOpsShown, Held, NotToday, View
  <2> QED BY <2>1, <2>2 DEF LiveHolds
<1>14. BodiesSound'
  <2>1. \A b : ~ Among(b, <<>>)
    BY DEF Among
  <2>2. \A b \in Body : Carried(b)' => Carried(b)
    BY <2>1, <1>4, <1>6, <1>9 DEF Carried, Replayed, Replaying, Decodes, Among
  <2>3. \A r \in Reloader : ~ Replaying(r)'
    BY <1>1, <1>4 DEF Replaying
  <2> QED BY <2>2, <2>3, <1>1, <1>4, <1>8, BodiesStay
<1> QED BY <1>10, <1>11, <1>12, <1>13, <1>14 DEF IInv, Settled

LEMMA CutOffMineIs ==
  ASSUME Authored, NEW w \in Workspace
  PROVE  CutOffMine(w) = 0 \/ CutOffMine(w) \in w.index \cap Mine
<1>1. w.index \in SUBSET Ts /\ Me \in Actor
  BY WorkspaceFields, SnapshotConstants
<1> QED BY <1>1, HighWaterIs DEF CutOffMine, Mine

\* The body of a replay that had to read the whole log it lists.
LEMMA ReplayedBody ==
  ASSUME IInv, NEW r \in Reloader, Replaying(r), reload[r].ws = None,
         UNCHANGED <<author, disk, live, pending, last, orphan>>,
         \A s \in Reloader : s # r => reload'[s] = reload[s],
         reload'[r].wrote = reload[r].wrote, NotToday' => NotToday,
         NEW w \in Workspace, w.index = reload[r].index,
         View(w) = w.index, Held(w, {})', NEW c, c = BodyOf(w)
  PROVE  c \in Body /\ Sound(c)'
<1>1. /\ Authored /\ last \in Nat /\ last' = last /\ Mine \subseteq Nat
      /\ Mine \subseteq Ts /\ Mine' = Mine
      /\ pending \subseteq Mine /\ Ts \subseteq Nat \ {0}
  BY Typed DEF Mine
<1>2. /\ Publishable(r) /\ reload[r].wrote = {}
  BY TypedReload DEF Publishable
<1>3. /\ w.index \subseteq disk
      /\ \A t \in w.index \cap Mine, u \in (disk \cup pending) \cap Mine :
           u \notin w.index => t < u
  BY <1>2 DEF Publishable
<1>4. ASSUME NEW u \in (disk \cup pending) \cap Mine, u \notin w.index
      PROVE  CutOffMine(w) < u /\ ~ (u <= CutOffMine(w))
  <2>1. u \in Nat \ {0}
    BY <1>1
  <2>2. CASE CutOffMine(w) = 0
    BY <2>1, <2>2
  <2>3. CASE CutOffMine(w) \in w.index \cap Mine
    <3>1. CutOffMine(w) \in Nat /\ CutOffMine(w) < u
      BY <2>3, <1>1, <1>3, <1>4
    <3> QED BY <3>1, <2>1
  <2> QED BY <2>2, <2>3, <1>1, CutOffMineIs
<1>5. \A t \in w.index \cap Mine : t <= last'
  BY <1>1, <1>3 DEF IInv, Settled, Clocked
<1>6. \A u \in disk' \cap Mine : u <= CutOffMine(w) => u \in View(w)
  BY <1>4
<1>7. NotToday' => \A u \in pending' : CutOffMine(w) < u
  <2> SUFFICES ASSUME NotToday', NEW u \in pending PROVE CutOffMine(w) < u
    OBVIOUS
  <2>1. u \notin disk
    <3> SUFFICES ASSUME u \in disk PROVE FALSE
      OBVIOUS
    <3>1. u < u /\ u \in Nat
      BY <1>1 DEF IInv, Settled, Follows
    <3> QED BY <3>1
  <2> QED BY <2>1, <1>1, <1>3, <1>4
<1>8. ASSUME NEW s \in Reloader, Replaying(s)'
      PROVE  \A u \in reload'[s].wrote : u <= CutOffMine(w) => u \in View(w)
  <2>1. CASE s = r
    BY <2>1, <1>2
  <2>2. CASE s # r
    <3>1. Publishable(s) /\ reload'[s] = reload[s]
      BY <2>2, <1>8, TypedReload DEF Replaying
    <3>2. reload'[s].wrote \subseteq disk \cap Mine
      BY <3>1 DEF Publishable
    <3> QED BY <3>2, <1>6
  <2> QED BY <2>1, <2>2
<1> QED BY <1>1, <1>5, <1>6, <1>7, <1>8, NewBodySound

LEMMA ReplayStep ==
  ASSUME IInv, NEW r \in Reloader, Replay(r)
  PROVE  IInv'
<1> USE DEF Replay
<1>1. /\ Authored /\ last \in Nat /\ Mine' = Mine /\ Mine \subseteq Nat
      /\ amiss \subseteq {"append", "early", "today"}
      /\ snaps \in [Actor -> File] /\ disk \subseteq Ts /\ Me \in Actor
  BY Typed DEF Mine
<1>2. PICK f : f = Chosen(snaps)
  OBVIOUS
<1>3. PICK x : x = reload[r]
  OBVIOUS
<1>4. /\ x \in Reloading /\ Replaying(r) /\ Publishable(r) /\ live # None
      /\ live \in Workspace /\ x.index \in SUBSET Ts /\ x.ws = None /\ x.wrote = {}
  BY <1>3, TypedReload DEF Replaying, Publishable
<1>5. PICK w : w = Opened(f, x.index)
  OBVIOUS
<1>6. /\ reload' = [reload EXCEPT ![r].ws = w]
      /\ amiss' = amiss \cup Early(w)
      /\ \/ snaps' = snaps
         \/ /\ ~ Adopts(f, x.index)
            /\ \E sn \in Dropped(snaps) : snaps' \in Saves(sn, w)
      /\ UNCHANGED <<author, disk, live, pending, detached, last, orphan>>
  <2>1. /\ reload' = [reload EXCEPT ![r].ws = w]
        /\ amiss' = amiss \cup Early(w)
        /\ snaps' \in IF Adopts(f, x.index) THEN {snaps}
                      ELSE UNION {Saves(sn, w) : sn \in Dropped(snaps)}
    BY <1>2, <1>3, <1>5
  <2> QED BY <2>1
<1> HIDE DEF Replay
<1>7. f \in File /\ (Decodes(f) => Sound(f))
  <2>1. f \in File /\ \E a \in Actor : f = snaps[a]
    BY <1>1, <1>2, ChosenIsFile
  <2>2. Decodes(f) => f \in Body /\ Carried(f)
    BY <2>1, DecodedIsBody DEF Carried
  <2> QED BY <2>1, <2>2 DEF IInv, BodiesSound
<1>8. /\ w \in Workspace /\ w # None /\ w.index = x.index /\ w.queue = <<>>
      /\ ~ Adopts(f, x.index) => View(w) = w.index
  <2>1. f \in File /\ x.index \in SUBSET Ts
    BY <1>4, <1>7
  <2>2. w \in Workspace /\ w.index = x.index /\ w.queue = <<>>
    BY <2>1, <1>5, OpenedIs, ZenonT(60)
  <2>3. ~ Adopts(f, x.index) => w.folded = {} /\ w.resident = x.index
    BY <2>1, <1>5, OpenedIs
  <2> QED BY <2>2, <2>3, WorkspaceFields DEF View
<1>9. Held(w, {})'
  <2>1. Clocked /\ Gapless(x.index) /\ x.index \subseteq disk
    BY <1>3, <1>4 DEF IInv, Settled, Publishable
  <2> QED BY <2>1, <1>1, <1>4, <1>5, <1>6, <1>7, OpenedHolds
<1>10. /\ amiss \subseteq amiss' /\ amiss' \subseteq {"append", "early", "today"}
       /\ NotToday' <=> NotToday
  <2>1. Early(w) \subseteq {"early"}
    BY DEF Early
  <2> QED BY <2>1, <1>1, <1>6 DEF NotToday
<1>11. PICK c : c = BodyOf(w)
  OBVIOUS
<1>12. /\ reload' \in [Reloader -> {None} \cup Reloading]
       /\ reload'[r] = [x EXCEPT !.ws = w]
       /\ \A s \in Reloader : s # r => reload'[s] = reload[s]
  <2>1. reload \in [Reloader -> {None} \cup Reloading]
    BY DEF IInv, Shapes, Reloading
  <2>2. [x EXCEPT !.ws = w] \in Reloading
    BY <1>4, <1>8 DEF Reloading
  <2>3. reload' = [reload EXCEPT ![r] = [x EXCEPT !.ws = w]]
    BY <1>3, <1>6
  <2> QED BY <2>1, <2>2, <2>3
<1>13. PICK y : y = reload'[r]
  OBVIOUS
<1>14. /\ y.before = x.before /\ y.index = x.index /\ y.ws = w /\ y.wrote = {}
       /\ y \in Reloading
  BY <1>4, <1>8, <1>12, <1>13 DEF Reloading
<1>15. ~ Adopts(f, x.index) => c \in Body /\ Sound(c)'
  BY <1>3, <1>4, <1>6, <1>8, <1>9, <1>10, <1>11, <1>12, <1>13, <1>14, ReplayedBody
<1>16. /\ snaps' \in [Actor -> File]
       /\ \A a \in Actor : \/ snaps'[a] \in {snaps[a], None}
                           \/ ~ Adopts(f, x.index) /\ snaps'[a] = c
  <2>1. CASE snaps' = snaps
    BY <2>1, <1>1
  <2>2. CASE /\ ~ Adopts(f, x.index)
             /\ \E sn \in Dropped(snaps) : snaps' \in Saves(sn, w)
    <3>1. PICK sn \in Dropped(snaps) : snaps' \in Saves(sn, w)
      BY <2>2
    <3>2. sn \in [Actor -> File] /\ \A a \in Actor : sn[a] \in {snaps[a], None}
      BY <1>1, <3>1 DEF Dropped, File
    <3>3. snaps' = sn \/ snaps' = [sn EXCEPT ![Me] = c]
      BY <3>1, <1>11 DEF Saves
    <3> QED BY <2>2, <3>2, <3>3, <1>15 DEF File
  <2> QED BY <2>1, <2>2, <1>6
<1>17. TypeOK'
  <2>1. ASSUME NEW s \in Reloader, reload'[s] # None
        PROVE  /\ live # None /\ reload'[s].before \in Nat
               /\ reload'[s].index \subseteq Ts /\ reload'[s].wrote \subseteq disk
               /\ reload'[s].ws \in Workspace \cup {None}
    <3>1. CASE s = r
      BY <3>1, <1>4, <1>8, <1>13, <1>14 DEF Reloading
    <3>2. CASE s # r
      BY <2>1, <3>2, <1>12 DEF IInv, TypeOK
    <3> QED BY <3>1, <3>2
  <2> QED BY <2>1, <1>6, <1>10, <1>16 DEF IInv, TypeOK, File
<1>18. Shapes'
  BY <1>1, <1>6, <1>12 DEF IInv, Shapes, Reloading
<1>19. Clocked' /\ Follows' /\ Gapless(disk)'
  BY <1>1, <1>6, <1>10 DEF IInv, Settled, Clocked, Follows, Gapless
<1>20. LiveHolds'
  <2>1. PICK v, E : v = live /\ E = pending
    OBVIOUS
  <2>2. Held(v, E) /\ LocalOpsShown
    BY <2>1, <1>4 DEF IInv, Settled, LiveHolds
  <2>3. Held(v, E)'
    BY <2>2, <1>1, <1>6, <1>10, HeldStays
  <2>4. Held(live, pending)'
    BY <2>1, <2>3, <1>6 DEF Held, Gapless, View, Exact
  <2> QED BY <2>2, <2>4, <1>1, <1>6, <1>10 DEF LiveHolds, LocalOpsShown, View, NotToday
<1>21. ReplaysHold'
  <2> SUFFICES ASSUME NEW s \in Reloader, Replaying(s)' PROVE Publishable(s)'
    BY DEF ReplaysHold
  <2>1. CASE s = r
    <3>1. Held(y.ws, {})'
      BY <1>9, <1>14
    <3>2. Held(reload[r].ws, {})' <=> Held(y.ws, {})'
      BY <1>13 DEF Held, Gapless, View, Exact
    <3>3. Quiet(r)' <=> Quiet(r)
      BY <1>3, <1>6, <1>13, <1>14 DEF Quiet
    <3>4. Gapless(x.index)' <=> Gapless(x.index)
      BY <1>1, <1>6 DEF Gapless
    <3>5. /\ y.before <= Cardinality(live'.resident)
          /\ y.index \subseteq disk' /\ Gapless(x.index)'
          /\ \A t \in y.index \cap Mine', u \in (disk' \cup pending') \cap Mine' :
               u \notin y.index => t < u
          /\ pending' # {} => ~ Quiet(r)'
          /\ Quiet(r)' => disk' \cap Mine' \subseteq y.index \cup y.wrote
      BY <3>3, <3>4, <1>1, <1>3, <1>4, <1>6, <1>14 DEF Publishable
    <3>6. y.ws # None /\ y.ws.index = y.index \cup y.wrote
      BY <1>8, <1>14
    <3> QED BY <2>1, <3>1, <3>2, <3>5, <3>6, <1>13, <1>14 DEF Publishable, Gapless
  <2>2. CASE s # r
    <3>1. Replaying(s) /\ Publishable(s) /\ reload'[s] = reload[s]
      BY <2>2, <1>12, TypedReload DEF Replaying
    <3>2. (Quiet(s)' <=> Quiet(s)) /\ (pending # {} => ~ Quiet(s))
          /\ reload[s].before <= Cardinality(live'.resident)
      BY <1>6, <3>1 DEF Quiet, Publishable
    <3> QED BY <3>1, <3>2, <1>1, <1>6, <1>10, PublishableStays
  <2> QED BY <2>1, <2>2
<1>22. BodiesSound'
  <2>1. \A b : ~ Among(b, <<>>)
    BY DEF Among
  <2>2. ASSUME NEW b \in Body, Carried(b)' PROVE Carried(b) \/ Sound(b)'
    <3>1. \A s \in Reloader : Replayed(s)' /\ Among(b, reload'[s].ws.queue) =>
            Replayed(s) /\ Among(b, reload[s].ws.queue)
      BY <2>1, <1>8, <1>12, <1>13, <1>14, ZenonT(60) DEF Replayed, Replaying
    <3>2. \/ \E a \in Actor : b = snaps'[a] /\ Decodes(b)
          \/ \E s \in Reloader : Replayed(s)' /\ Among(b, reload'[s].ws.queue)
          \/ live # None /\ Among(b, live.queue)
          \/ \E q \in detached : Among(b, q)
      BY <2>2, <1>6 DEF Carried, Decodes, Among
    <3>3. CASE \E a \in Actor : b = snaps'[a] /\ Decodes(b)
      BY <3>3, <1>15, <1>16 DEF Carried, Decodes
    <3> QED BY <3>1, <3>2, <3>3 DEF Carried
  <2>3. ASSUME NEW s \in Reloader, Replaying(s)', Quiet(s)', NEW u \in reload'[s].wrote
        PROVE  u \in Mine /\ Replaying(s) /\ Quiet(s) /\ u \in reload[s].wrote
    <3>1. s # r
      BY <2>3, <1>13, <1>14
    <3> QED BY <2>3, <3>1, <1>6, <1>12, TypedReload DEF Replaying, Quiet, Publishable
  <2> QED BY <2>2, <2>3, <1>1, <1>6, <1>10, BodiesStay
<1> QED BY <1>17, <1>18, <1>19, <1>20, <1>21, <1>22 DEF IInv, Settled

\* The journal of today is created in the replay, which alone is under way.
LEMMA OpenTodayStep ==
  ASSUME IInv, OneReload, NEW r \in Reloader, NEW t \in Ts, OpenToday(r, t)
  PROVE  IInv'
<1> USE DEF OpenToday
<1>1. /\ t \in Mine /\ t \in Nat /\ last < t /\ live # None
      /\ live \in Workspace /\ Held(live, pending) /\ LocalOpsShown
      /\ \A u \in (disk \cup pending) \cap Mine : u <= last /\ u < t
  BY EditIsNew
<1>2. /\ Authored /\ last \in Nat /\ Mine' = Mine /\ Mine \subseteq Nat
      /\ amiss \subseteq {"append", "early", "today"} /\ disk \subseteq Ts
      /\ snaps \in [Actor -> File] /\ pending \subseteq Mine
      /\ orphan \subseteq Mine
  BY Typed DEF Mine
<1>3. PICK x, w : x = reload[r] /\ w = x.ws
  OBVIOUS
<1>4. /\ x \in Reloading /\ Replaying(r) /\ Replayed(r) /\ Publishable(r)
      /\ w \in Workspace /\ w # None
      /\ \A u \in x.index : u < t
  BY <1>3, TypedReload DEF Replaying, Replayed, Stamps
<1>5. PICK v0 : v0 = [w EXCEPT !.resident = @ \cup {t}]
  OBVIOUS
<1>6. /\ v0 \in Workspace /\ v0.index = w.index /\ v0.folded = w.folded
      /\ v0.exact = w.exact /\ v0.resident = w.resident \cup {t}
      /\ v0.queue = w.queue
  BY <1>1, <1>4, <1>5 DEF Workspace, Mine
<1>7. PICK v \in Appended(v0, {t}) :
        /\ reload' = [reload EXCEPT ![r].ws = v, ![r].wrote = @ \cup {t}]
        /\ amiss' = amiss \cup
             IF pending # {} \/ (Unread(v) # {} /\ v.queue # w.queue)
             THEN {"today"} ELSE {}
  BY <1>3, <1>5
<1>8. /\ disk' = disk \cup {t} /\ orphan' = orphan \cup {t} /\ last' = t
      /\ UNCHANGED <<author, snaps, live, pending, detached>>
  OBVIOUS
<1> HIDE DEF OpenToday
<1>9. /\ v \in Workspace /\ v # None /\ v.index = w.index \cup {t}
      /\ v.folded = w.folded /\ v.exact = w.exact
      /\ v.resident = w.resident \cup {t}
      /\ \/ v.queue = w.queue
         \/ /\ BodyOf(v) \in Body /\ v.queue = Append(w.queue, BodyOf(v))
            /\ v.queue # w.queue
  BY <1>2, <1>6, AppendedIs, WorkspaceFields
<1>10. /\ amiss \subseteq amiss' /\ amiss' \subseteq {"append", "early", "today"}
       /\ NotToday' => NotToday /\ pending = {}
                       /\ (v.queue # w.queue => Unread(v) = {})
  BY <1>2, <1>7 DEF NotToday
<1>11. PICK y : y = reload'[r]
  OBVIOUS
<1>12. /\ y \in Reloading /\ y.before = x.before /\ y.index = x.index
       /\ y.ws = v /\ y.wrote = x.wrote \cup {t}
       /\ reload' \in [Reloader -> {None} \cup Reloading]
       /\ \A s \in Reloader : s = r
  <2>1. reload \in [Reloader -> {None} \cup Reloading] /\ \A s \in Reloader : s = r
    BY DEF IInv, Shapes, Reloading, OneReload
  <2>2. reload' = [reload EXCEPT ![r] = [x EXCEPT !.ws = v, !.wrote = @ \cup {t}]]
    BY <1>3, <1>7
  <2>3. [x EXCEPT !.ws = v, !.wrote = @ \cup {t}] \in Reloading
    BY <1>1, <1>4, <1>9 DEF Reloading, Mine
  <2>4. y = [x EXCEPT !.ws = v, !.wrote = @ \cup {t}]
    BY <1>11, <2>1, <2>2
  <2> QED BY <2>1, <2>2, <2>3, <2>4, <1>4 DEF Reloading
<1>13. /\ x.before <= Cardinality(live.resident) /\ x.index \subseteq disk
       /\ x.wrote \subseteq disk \cap Mine /\ Gapless(x.index)
       /\ pending # {} => ~ Quiet(r)
       /\ Quiet(r) => disk \cap Mine \subseteq x.index \cup x.wrote
       /\ w.index = x.index \cup x.wrote /\ x.wrote \subseteq w.resident
       /\ Held(w, {})
  BY <1>3, <1>4 DEF Publishable
<1>14. Held(v, {})'
  <2>1. v.index \subseteq disk'
    BY <1>8, <1>9, <1>13
  <2>2. \A u \in w.index : u < t
    BY <1>1, <1>4, <1>13
  <2>3. PICK E : E = {}
    OBVIOUS
  <2>4. /\ E \in SUBSET Mine /\ E \subseteq E /\ \A u \in E : u <= last
        /\ Held(w, E) /\ t \in v.index \cup E
    BY <1>9, <1>13, <2>3
  <2>5. Held(v, E)'
    BY <2>1, <2>2, <2>4, <1>1, <1>4, <1>8, <1>9, <1>10, EditHolds
  <2> QED BY <2>3, <2>5 DEF Held
<1>15. TypeOK'
  <2>1. ASSUME NEW s \in Reloader, reload'[s] # None
        PROVE  /\ live' # None /\ reload'[s].before \in Nat
               /\ reload'[s].index \subseteq Ts /\ reload'[s].wrote \subseteq disk'
               /\ reload'[s].ws \in Workspace \cup {None}
    BY <2>1, <1>1, <1>8, <1>9, <1>11, <1>12, <1>13 DEF Reloading
  <2> QED BY <2>1, <1>1, <1>2, <1>8, <1>10 DEF IInv, TypeOK
<1>16. Shapes'
  BY <1>1, <1>2, <1>8, <1>12 DEF IInv, Shapes, Reloading
<1>17. Clocked' /\ Follows' /\ Gapless(disk)'
  <2>1. Clocked'
    <3> SUFFICES ASSUME NEW u \in (disk' \cup pending') \cap Mine PROVE u <= t
      BY <1>2, <1>8 DEF Clocked
    <3>1. u = t \/ u < t
      BY <1>1, <1>8
    <3>2. u \in Nat /\ t \in Nat
      BY <1>1, <1>2
    <3> QED BY <3>1, <3>2
  <2>2. Follows'
    BY <1>8, <1>10 DEF Follows
  <2>3. ASSUME NEW s \in disk', NEW u \in Ts \ Mine, author[u] = author[s], u < s
        PROVE  u \in disk'
    <3>1. s \in disk
      BY <2>3, <1>1, <1>8 DEF Mine
    <3> QED BY <3>1, <2>3, <1>8 DEF IInv, Settled, Gapless
  <2> QED BY <2>1, <2>2, <2>3, <1>2, <1>8 DEF Gapless
<1>18. LiveHolds'
  <2>1. PICK l, E : l = live /\ E = pending
    OBVIOUS
  <2>2. Held(l, E) /\ last <= last' /\ last' \in Nat
    BY <2>1, <1>1, <1>2, <1>8
  <2>3. Held(l, E)'
    BY <2>2, <1>2, <1>8, <1>10, HeldStays
  <2>4. Held(live, pending)'
    BY <2>1, <2>3, <1>8 DEF Held, Gapless, View, Exact
  <2>5. LocalOpsShown'
    <3> SUFFICES ASSUME NotToday'
                 PROVE  (disk' \cap Mine) \ orphan' \subseteq View(live)
      BY <1>2, <1>8 DEF LocalOpsShown, NotToday, View
    <3>1. (disk \cap Mine) \ orphan \subseteq View(live)
      BY <1>1, <1>10 DEF LocalOpsShown, NotToday
    <3> QED BY <3>1, <1>8
  <2> QED BY <2>4, <2>5 DEF LiveHolds
<1>19. Quiet(r)' <=> Quiet(r)
  BY <1>3, <1>8, <1>11, <1>12 DEF Quiet
<1>20. ReplaysHold'
  <2>1. Held(y.ws, {})'
    BY <1>12, <1>14
  <2>2. Held(reload[r].ws, {})' <=> Held(y.ws, {})'
    BY <1>11 DEF Held, Gapless, View, Exact
  <2>3. Gapless(y.index)'
    BY <1>2, <1>8, <1>12, <1>13 DEF Gapless
  <2>4. ASSUME NEW s \in y.index \cap Mine, NEW u \in (disk' \cup pending') \cap Mine,
               u \notin y.index
        PROVE  s < u
    <3>1. CASE u = t
      BY <3>1, <2>4, <1>4, <1>12
    <3>2. CASE u # t
      <4>1. u \in (disk \cup pending) \cap Mine
        BY <2>4, <3>2, <1>8
      <4> QED BY <4>1, <2>4, <1>3, <1>4, <1>12 DEF Publishable
    <3> QED BY <3>1, <3>2
  <2>5. /\ y.before <= Cardinality(live'.resident)
        /\ y.index \subseteq disk' /\ y.wrote \subseteq disk' \cap Mine'
        /\ pending' # {} => ~ Quiet(r)'
        /\ Quiet(r)' => disk' \cap Mine' \subseteq y.index \cup y.wrote
    BY <1>1, <1>2, <1>8, <1>12, <1>13, <1>19
  <2>6. y.ws # None /\ y.ws.index = y.index \cup y.wrote
        /\ y.wrote \subseteq y.ws.resident
    BY <1>9, <1>12, <1>13
  <2>7. Publishable(r)'
    BY <2>1, <2>2, <2>3, <2>4, <2>5, <2>6, <1>2, <1>11 DEF Publishable, Gapless
  <2> SUFFICES ASSUME NEW s \in Reloader PROVE Publishable(s)'
    BY DEF ReplaysHold
  <2>8. s = r
    BY <1>12
  <2> QED BY <2>7, <2>8
<1>21. BodiesSound'
  <2>1. PICK c : c = BodyOf(v)
    OBVIOUS
  <2>2. ASSUME c \in Body, v.queue # w.queue PROVE Sound(c)'
    <3>1. \A u \in v.index \cap Mine : u <= last'
      <4> SUFFICES ASSUME NEW u \in v.index \cap Mine PROVE u <= t
        BY <1>8
      <4>1. u = t \/ u < t
        BY <1>1, <1>4, <1>9, <1>13
      <4>2. u \in Nat /\ t \in Nat
        BY <1>1, <1>2
      <4> QED BY <4>1, <4>2
    <3>2. NotToday' => disk' \cap Mine \subseteq View(v) /\ pending' = {}
      <4>1. NotToday' => disk \cap Mine \subseteq View(v)
        BY <2>2, <1>10 DEF Unread
      <4>2. t \in View(v)
        BY <1>9 DEF View
      <4> QED BY <4>1, <4>2, <1>8, <1>10
    <3>3. \A s \in Reloader : reload'[s].wrote \subseteq View(v)
      <4>1. y.wrote \subseteq View(v)
        BY <1>9, <1>12, <1>13 DEF View
      <4> QED BY <4>1, <1>11, <1>12
    <3>4. last' \in Nat
      BY <1>1, <1>8
    <3> QED BY <3>1, <3>2, <3>3, <3>4, <2>1, <1>2, <1>8, <1>9, <1>14, NewBodySound
  <2>3. w.queue \in Seq(Body)
    BY <1>4, WorkspaceFields
  <2>4. ASSUME NEW b \in Body, Carried(b)' PROVE Carried(b) \/ Sound(b)'
    <3>1. Among(b, v.queue) => Among(b, w.queue) \/ (b = c /\ v.queue # w.queue)
      <4>1. CASE v.queue = w.queue
        BY <4>1
      <4>2. CASE c \in Body /\ v.queue = Append(w.queue, c) /\ v.queue # w.queue
        BY <4>2, <2>3, QueueSteps
      <4> QED BY <4>1, <4>2, <1>9, <2>1
    <3>2. \A s \in Reloader : Replayed(s)' /\ Among(b, reload'[s].ws.queue) =>
            Among(b, v.queue)
      BY <1>11, <1>12
    <3>3. Among(b, w.queue) => \E s \in Reloader : Replayed(s) /\ Among(b, reload[s].ws.queue)
      BY <1>3, <1>4
    <3>4. \/ \E a \in Actor : b = snaps[a] /\ Decodes(b)
          \/ \E s \in Reloader : Replayed(s)' /\ Among(b, reload'[s].ws.queue)
          \/ live # None /\ Among(b, live.queue)
          \/ \E q \in detached : Among(b, q)
      BY <2>4, <1>8 DEF Carried, Decodes, Among
    <3>5. Carried(b) \/ (b = c /\ v.queue # w.queue)
      BY <3>1, <3>2, <3>3, <3>4 DEF Carried
    <3>6. b = c /\ v.queue # w.queue => Sound(b)'
      BY <2>2
    <3> QED BY <3>5, <3>6
  <2>5. ASSUME NEW s \in Reloader, Replaying(s)', Quiet(s)', NEW u \in reload'[s].wrote
        PROVE  /\ u \in Mine
               /\ \/ last < u
                  \/ Replaying(s) /\ Quiet(s) /\ u \in reload[s].wrote
    <3>1. s = r /\ (u = t \/ u \in x.wrote)
      BY <2>5, <1>11, <1>12
    <3> QED BY <2>5, <3>1, <1>1, <1>3, <1>4, <1>13, <1>19
  <2>6. last' \in Nat /\ last <= last'
    BY <1>1, <1>2, <1>8
  <2>7. \A u \in disk' \cap Mine : u \in disk \cup pending \/ last < u
    BY <1>1, <1>8
  <2> QED BY <2>4, <2>5, <2>6, <2>7, <1>1, <1>2, <1>8, <1>10, BodiesStay
<1> QED BY <1>15, <1>16, <1>17, <1>18, <1>20, <1>21 DEF IInv, Settled

(***************************************************************************)
(* The end of a reload.  What the replay wrote stops being an orphan: a    *)
(* sound body covers it, since the replay was quiet.                       *)
(***************************************************************************)
LEMMA FinishReloadStep ==
  ASSUME IInv, OneReload, NEW r \in Reloader, FinishReload(r)
  PROVE  IInv'
<1> USE DEF FinishReload
<1>1. /\ Authored /\ last \in Nat /\ Mine' = Mine /\ Mine \subseteq Nat
      /\ live \in Workspace /\ pending = {} /\ live # None
      /\ orphan \subseteq Mine
  BY Typed DEF Mine, batching
<1>2. PICK x, w : x = reload[r] /\ w = x.ws
  OBVIOUS
<1>3. /\ x \in Reloading /\ Replaying(r) /\ Replayed(r) /\ Publishable(r)
      /\ w \in Workspace /\ w # None
  BY <1>2, TypedReload DEF Replaying, Replayed
<1>4. /\ reload' = [reload EXCEPT ![r] = None]
      /\ UNCHANGED <<author, disk, snaps, pending, last, amiss>>
      /\ \/ /\ Quiet(r) /\ live' = w /\ orphan' = orphan \ x.wrote
            /\ detached' = detached \cup Detach(live.queue)
         \/ /\ detached' = detached \cup Detach(w.queue)
            /\ UNCHANGED <<live, orphan>>
  BY <1>2 DEF SameLength, Quiet
<1> HIDE DEF FinishReload
<1>5. /\ reload' \in [Reloader -> {None} \cup Reloading]
      /\ \A s \in Reloader : ~ Replaying(s)' /\ s = r
  <2>1. reload \in [Reloader -> {None} \cup Reloading] /\ \A s \in Reloader : s = r
    BY DEF IInv, Shapes, Reloading, OneReload
  <2> QED BY <2>1, <1>4 DEF Replaying
<1>6. /\ disk \cap Mine \subseteq w.index \/ ~ Quiet(r)
      /\ x.wrote \subseteq View(w) /\ Held(w, {})
  BY <1>2, <1>3 DEF Publishable, View
<1>7. /\ live' \in Workspace /\ live' # None
      /\ orphan' \subseteq orphan /\ orphan \subseteq disk
  BY <1>1, <1>3, <1>4 DEF IInv, TypeOK
<1>8. \A q : \A p \in Detach(q) : p = q /\ p # <<>>
  BY Zenon DEF Detach
<1>9. live.queue \in Seq(Body) /\ w.queue \in Seq(Body)
  BY <1>1, <1>3, WorkspaceFields
<1>10. TypeOK'
  <2>1. \A q \in detached' : q \in Seq(Body) /\ q # <<>>
    BY <1>4, <1>8, <1>9 DEF IInv, TypeOK
  <2>2. \A s \in Reloader : ~ (reload'[s] # None)
    BY <1>5 DEF Replaying
  <2>3. /\ author' \in [Ts -> Actor] /\ disk' \subseteq Ts
        /\ snaps' \in [Actor -> Body \cup {None, Torn}]
        /\ live' \in Workspace \cup {None} /\ pending' \subseteq Ts
        /\ last' \in Ts \cup {0} /\ amiss' \subseteq {"append", "early", "today"}
        /\ orphan' \subseteq disk' /\ (pending' # {} => live' # None)
    BY <1>4, <1>7 DEF IInv, TypeOK
  <2> QED BY <2>1, <2>2, <2>3 DEF TypeOK
<1>11. Shapes'
  <2>1. detached' \subseteq Seq(Body)
    BY <1>4, <1>8, <1>9 DEF IInv, Shapes
  <2> QED BY <2>1, <1>1, <1>4, <1>5, <1>7 DEF Shapes, Reloading
<1>12. Clocked' /\ Follows' /\ Gapless(disk)' /\ ReplaysHold'
  BY <1>1, <1>4, <1>5 DEF IInv, Settled, Clocked, Follows, Gapless, ReplaysHold
<1>13. (NotToday' <=> NotToday) /\ (AllWell' <=> AllWell)
  BY <1>4 DEF NotToday, AllWell
<1>14. LiveHolds'
  <2>1. CASE Quiet(r) /\ live' = w /\ orphan' = orphan \ x.wrote
    <3>1. Held(w, {})'
      BY <2>1, <1>1, <1>4, <1>6, <1>13 DEF Held, Gapless, View, Exact
    <3>2. Held(live, pending)'
      BY <2>1, <3>1, <1>1, <1>4 DEF Held, Gapless, View, Exact
    <3>3. LocalOpsShown'
      <4> SUFFICES ASSUME NotToday'
                   PROVE  (disk \cap Mine) \ orphan' \subseteq View(w)
        BY <2>1, <1>1, <1>4 DEF LocalOpsShown, NotToday, View
      <4>1. (w.index \cap Mine) \ orphan \subseteq View(w)
        BY <1>6, <1>13 DEF Held
      <4> QED BY <4>1, <2>1, <1>6
    <3> QED BY <3>2, <3>3 DEF LiveHolds
  <2>2. CASE UNCHANGED <<live, orphan>>
    <3>1. Held(live, pending) /\ LocalOpsShown
      BY <1>1 DEF IInv, Settled, LiveHolds
    <3>2. Held(live, pending)'
      BY <2>2, <3>1, <1>1, <1>4, <1>13 DEF Held, Gapless, View, Exact
    <3>3. LocalOpsShown'
      BY <2>2, <3>1, <1>1, <1>4 DEF LocalOpsShown, View
    <3> QED BY <3>2, <3>3 DEF LiveHolds
  <2> QED BY <2>1, <2>2, <1>4
<1>15. BodiesSound'
  <2> SUFFICES ASSUME NEW b \in Body, Carried(b)' PROVE Sound(b)'
    BY DEF BodiesSound
  <2>1. Carried(b)
    <3>1. \/ \E a \in Actor : b = snaps[a] /\ Decodes(b)
          \/ Among(b, live'.queue)
          \/ \E q \in detached' : Among(b, q)
      BY <1>4, <1>5 DEF Carried, Replayed, Decodes, Among
    <3>2. Among(b, live'.queue) => Among(b, live.queue) \/ Among(b, w.queue)
      BY <1>4
    <3>3. \A q \in detached' : q \in detached \/ q \in {live.queue, w.queue}
      BY <1>4, <1>8
    <3>4. Among(b, w.queue) => Carried(b)
      BY <1>2, <1>3 DEF Carried
    <3>5. Among(b, live.queue) => Carried(b)
      BY <1>1 DEF Carried
    <3>6. \A q \in detached : Among(b, q) => Carried(b)
      BY DEF Carried
    <3>7. (\E a \in Actor : b = snaps[a] /\ Decodes(b)) => Carried(b)
      BY DEF Carried
    <3> QED BY <3>1, <3>2, <3>3, <3>4, <3>5, <3>6, <3>7
  <2>2. Sound(b)
    BY <2>1 DEF IInv, BodiesSound
  <2>3. CoversPeers(b)' /\ FoldedInOrder(b)' /\ CoversReplay(b)'
    BY <2>2, <1>1, <1>4, <1>5, <1>13 DEF Sound, CoversPeers, FoldedInOrder,
       CoversReplay
  <2>4. CoversMine(b)'
    <3>1. ASSUME NotToday, NEW u \in disk \cap Mine, u <= b.cutoff[Me]
          PROVE  u \in b.folded \cup orphan'
      <4>1. u \in b.folded \cup orphan
        BY <2>2, <3>1 DEF Sound, CoversMine
      <4>2. u \in x.wrote /\ Quiet(r) => u \in b.folded
        BY <2>2, <3>1, <1>2, <1>3 DEF Sound, CoversReplay
      <4> QED BY <4>1, <4>2, <1>4
    <3> QED BY <3>1, <2>2, <1>1, <1>4, <1>13 DEF Sound, CoversMine
  <2> QED BY <2>3, <2>4 DEF Sound
<1> QED BY <1>10, <1>11, <1>12, <1>14, <1>15 DEF IInv, Settled

----------------------------------------------------------------------------
(***************************************************************************)
(* With one reload at a time and no gaps in any log, the invariant holds   *)
(* in every reachable state.                                               *)
(***************************************************************************)
THEOREM Invariance ==
  ASSUME OneReload, InOrder
  PROVE  Spec => []IInv
<1>1. Init => IInv
  <2> SUFFICES ASSUME Init PROVE IInv
    OBVIOUS
  <2>1. \A r \in Reloader : ~ Replaying(r)
    BY DEF Init, Replaying
  <2>2. TypeOK
    BY <2>1 DEF Init, TypeOK, Replaying
  <2>3. Shapes
    BY DEF Init, Shapes
  <2>4. Settled
    BY <2>1 DEF Init, Settled, Clocked, Follows, Gapless, LiveHolds, ReplaysHold
  <2>5. \A b \in Body : ~ Carried(b)
    BY <2>1 DEF Init, Carried, Replayed, Decodes, Among
  <2> QED BY <2>2, <2>3, <2>4, <2>5 DEF IInv, BodiesSound
<1>2. IInv /\ [Next]_vars => IInv'
  <2> SUFFICES ASSUME IInv, [Next]_vars PROVE IInv'
    OBVIOUS
  <2>1. ASSUME NEW t \in Ts, Apply(t) \/ Buffer(t) \/ Arrive(t) PROVE IInv'
    BY <2>1, ApplyStep, BufferStep, ArriveStep
  <2>2. CASE EndBatch
    BY <2>2, EndBatchStep
  <2>3. ASSUME NEW a \in Actor, NEW S \in SUBSET Ts, PullSnapshot(a, S) PROVE IInv'
    BY <2>3, PullStep
  <2>4. ASSUME NEW a \in Actor, Damage(a) PROVE IInv'
    BY <2>4, DamageStep
  <2>5. CASE WriteLive
    BY <2>5, WriteLiveStep
  <2>6. ASSUME NEW q \in detached, WriteDetached(q) PROVE IInv'
    BY <2>6, WriteDetachedStep
  <2>7. CASE Boot \/ Quit \/ Crash
    BY <2>7, BootStep, QuitStep, CrashStep
  <2>8. ASSUME NEW r \in Reloader,
               StartReload(r) \/ Replay(r) \/ WriteReplay(r) \/ FinishReload(r)
        PROVE  IInv'
    BY <2>8, StartReloadStep, ReplayStep, WriteReplayStep, FinishReloadStep
  <2>9. ASSUME NEW r \in Reloader, NEW t \in Ts, OpenToday(r, t) PROVE IInv'
    BY <2>9, OpenTodayStep
  <2>10. CASE UNCHANGED vars
    BY <2>10 DEF vars, IInv, TypeOK, Shapes, Settled, BodiesSound, Clocked,
       Follows, Gapless, LiveHolds, ReplaysHold, Held, Publishable, Quiet,
       Replaying, Replayed, Carried, Among, Sound, CoversPeers, CoversMine,
       CoversReplay, FoldedInOrder, NotToday, AllWell, LocalOpsShown, Mine,
       View, Exact, Decodes
  <2> QED BY <2>1, <2>2, <2>3, <2>4, <2>5, <2>6, <2>7, <2>8, <2>9, <2>10 DEF Next
<1> QED BY <1>1, <1>2, PTL DEF Spec

\* The variables keep their types, and no reload or batch is under way
\* outside a live process.
THEOREM TypeCorrect ==
  ASSUME OneReload, InOrder
  PROVE  Spec => []TypeOK
<1>1. IInv => TypeOK
  BY DEF IInv
<1> QED BY <1>1, Invariance, PTL

(***************************************************************************)
(* The per-actor cutoff drops nothing: whatever snapshot a boot or a       *)
(* reload adopts, each operation the index lists is in the document        *)
(* (boot_from_snapshot, ops_since_per_actor).                              *)
(***************************************************************************)
THEOREM CutoffsDropNothing ==
  ASSUME OneReload, InOrder
  PROVE  Spec => []NothingHidden
<1>1. IInv => NothingHidden
  <2> SUFFICES ASSUME IInv, live # None, NotToday
               PROVE  live.index \ orphan \subseteq View(live)
    BY DEF NothingHidden, NotToday
  <2>1. Held(live, pending)
    BY DEF IInv, Settled, LiveHolds
  <2> QED BY <2>1 DEF Held
<1> QED BY <1>1, Invariance, PTL

(***************************************************************************)
(* The convergence guard makes a snapshot a cache: the document is the one *)
(* a full replay of the log gives.                                         *)
(***************************************************************************)
THEOREM SnapshotsAreCaches ==
  ASSUME OneReload, InOrder
  PROVE  Spec => []ViewIsReplay
<1>1. IInv => ViewIsReplay
  <2> SUFFICES ASSUME IInv, live # None, amiss = {}
               PROVE  /\ Exact(live)
                      /\ View(live) \subseteq live.index \cup pending
                      /\ (live.index \cup pending) \ orphan \subseteq View(live)
    BY DEF ViewIsReplay
  <2>1. Held(live, pending) /\ AllWell /\ NotToday
    BY DEF IInv, Settled, LiveHolds, AllWell, NotToday
  <2>2. pending \subseteq View(live)
    BY DEF IInv, Shapes, View
  <2> QED BY <2>1, <2>2 DEF Held
<1> QED BY <1>1, Invariance, PTL

(***************************************************************************)
(* The comparison of lengths keeps local edits: publish_replayed swaps in  *)
(* no tree that misses what this device wrote.                             *)
(***************************************************************************)
THEOREM SwapsKeepEdits ==
  ASSUME OneReload, InOrder
  PROVE  Spec => []LocalOpsShown
<1>1. IInv => LocalOpsShown
  BY DEF IInv, Settled, LiveHolds, LocalOpsShown
<1> QED BY <1>1, Invariance, PTL

=============================================================================

-------------------------- MODULE DeltaSyncProofs --------------------------
(***************************************************************************)
(* Theorems about DeltaSync, for any number of devices, any set of pairs   *)
(* that dial each other, any number of operations, faults and exchanges at *)
(* a time.                                                                 *)
(***************************************************************************)
EXTENDS DeltaSync, FiniteSetTheorems, TLAPS

----------------------------------------------------------------------------
(***************************************************************************)
(* The inductive invariant, first what it says of one exchange.  Order is  *)
(* how far the two halves and the frames can be apart.                     *)
(***************************************************************************)
Told(d) == landed[d] \cup refused[d]

Ingesting == {"received", "appending", "ingested"}

Clocked(x) == phase[x]["serving"] = "clocked" \/ wire[x].down # None

Order(x) ==
  /\ phase[x] = Rest => wire[x] = NoFrames
  /\ phase[x] # Rest => wire[x].request \in Clock
  /\ Clocked(x) => wire[x].response \in Clock
  /\ phase[x]["dialing"] \in Ingesting \cup {"pushed"} => wire[x].down # None
  /\ phase[x]["dialing"] \in Ingesting \cup {"asked"} => wire[x].up = None
  /\ phase[x]["dialing"] = "pushed" => wire[x].up # None
  /\ phase[x]["serving"] \in Ingesting => wire[x].up # None
  /\ wire[x].ack => wire[x].up # None /\ phase[x]["serving"] = "idle"

\* Only what is being ingested is in a batch.
Empty(x, side) ==
  phase[x][side] \notin {"received", "appending"} => batch[x][side] = {}

\* An append in progress holds the lock, and brings nothing that is there.
Locked(x, side) ==
  phase[x][side] = "appending" =>
    /\ appender[Host(x, side)] = <<x, side>>
    /\ \A o \in batch[x][side] :
         o[1] # Host(x, side) /\ o \notin Census(Host(x, side))

\* Nothing travels that its author has not written.
Authored(S) == \A o \in S : o \in landed[o[1]]

DownKnown(x) == Authored(wire[x].down)
UpKnown(x) == Authored(wire[x].up)
BatchKnown(x, side) == Authored(batch[x][side])

Known(x) ==
  /\ wire[x].down # None => DownKnown(x)
  /\ wire[x].up # None => UpKnown(x)
  /\ \A side \in Side : BatchKnown(x, side)

\* Where the operations of the push are.
Durable(x) ==
  /\ phase[x]["serving"] \in Ingesting =>
       wire[x].up \subseteq Told(x[2]) \cup batch[x]["serving"]
  /\ wire[x].ack => wire[x].up \subseteq Told(x[2])

\* A clock is backed by all of an author up to its maximum; a frame or a batch
\* leaves no hole where it arrives.
Backed(clock, d) ==
  \A p \in Op : p[2] <= clock[p[1]].max => p \in Census(d) \cup compacted

Closed(S, d) ==
  \A o \in S, p \in Op : p[1] = o[1] /\ p[2] < o[2] =>
    p \in S \cup Census(d) \cup compacted

RequestBacked(x) == Backed(wire[x].request, x[1])
ResponseBacked(x) == Backed(wire[x].response, x[2])
DownClosed(x) == Closed(wire[x].down, x[1])
UpClosed(x) == Closed(wire[x].up, x[2])
BatchClosed(x, side) == Closed(batch[x][side], Host(x, side))

Gapless(x) ==
  /\ phase[x] # Rest => RequestBacked(x)
  /\ Clocked(x) => ResponseBacked(x)
  /\ wire[x].down # None => DownClosed(x)
  /\ wire[x].up # None => UpClosed(x)
  /\ \A side \in Side : BatchClosed(x, side)

(***************************************************************************)
(* What the counts of the two clocks stand for: the request's for what the *)
(* dialing half has got, and until it pushes, for what it still has or     *)
(* lost to damage; after the push for what the peer has or will have.      *)
(***************************************************************************)
UpTo(S, n) == {o \in S : o[2] <= n}

RequestOwned(x) ==
  \A c \in Device :
    wire[x].request[c].count <= Cardinality(By(c, landed[x[1]]))

RequestHeld(x) ==
  \A c \in Device :
    wire[x].request[c].count
      <= Cardinality(By(c, Census(x[1]) \cup Lost(x[1])))

ResponseOwned(x) ==
  \A c \in Device :
    wire[x].response[c].count
      <= Cardinality(UpTo(By(c, landed[x[2]]), wire[x].response[c].max))

PushCovers(x) ==
  \A c \in Device :
    wire[x].request[c].count
      <= Cardinality(By(c, Told(x[2]) \cup wire[x].up))
           + Cardinality(By(c, Lost(x[1])))

Counted(x) ==
  /\ phase[x] # Rest => RequestOwned(x)
  /\ phase[x]["dialing"] \in Ingesting \cup {"asked"} => RequestHeld(x)
  /\ Clocked(x) => ResponseOwned(x)
  /\ wire[x].up # None => PushCovers(x)

Exchange(x) ==
  /\ Order(x) /\ Known(x) /\ Durable(x) /\ Counted(x)
  /\ damaged = {} => Gapless(x)

(***************************************************************************)
(* And of one log: nothing is on disk that has not landed there or has no  *)
(* author, and the author's own file lacks only what was compacted.        *)
(***************************************************************************)
Log(d) ==
  /\ Census(d) \subseteq landed[d]
  /\ Authored(landed[d])
  /\ \A o \in By(d, landed[d]), p \in Op :
       p[1] = d /\ p[2] <= o[2] => p \in Census(d) \cup compacted

IInv ==
  /\ TypeOK /\ compacted \subseteq Op
  /\ OneLineEach /\ FloorIsEarned /\ NoHoles
  /\ \A d \in Device : Log(d)
  /\ \A x \in Dials : Exchange(x)
  /\ \A x \in Dials, side \in Side : Empty(x, side) /\ Locked(x, side)
----------------------------------------------------------------------------
\* Operations, and how many there are of one author.

LEMMA LeastNatural ==
  ASSUME NEW T \in SUBSET Nat, T # {}
  PROVE  \E x \in T : \A y \in T : x <= y
<1> DEFINE R == OpToRel(<, Nat)
<1>1. IsWellFoundedOn(R, Nat)
  BY NatLessThanWellFounded
<1>2. \A x, y \in Nat : y < x => <<y, x>> \in R
  BY DEF OpToRel
<1> HIDE DEF R
<1>3. PICK x \in T : \A y \in T : <<y, x>> \notin R
  BY <1>1, WFMin, Zenon
<1>4. \A y \in T : ~ (y < x)
  BY <1>2, <1>3
<1> QED BY <1>4

LEMMA OpFields ==
  ASSUME NEW o \in Op
  PROVE  /\ o[1] \in Device /\ o[2] \in Nat \ {0} /\ o[2] <= Quota[o[1]]
         /\ Quota[o[1]] \in Nat /\ o = <<o[1], o[2]>>
<1>1. PICK d \in Device : o \in {d} \X (1..Quota[d])
  BY DEF Op
<1>2. o[2] \in 1..Quota[d]
  BY <1>1
<1>3. Quota[d] \in Nat
  BY DeltaConstants
<1>4. o[2] \in Nat \ {0} /\ o[2] <= Quota[d]
  BY <1>2, <1>3
<1>5. o[1] = d /\ o = <<o[1], o[2]>>
  BY <1>1
<1>6. Quota[o[1]] \in Nat /\ o[2] <= Quota[o[1]]
  BY <1>3, <1>4, <1>5
<1> QED BY <1>4, <1>5, <1>6

LEMMA ByFinite ==
  ASSUME NEW S \in SUBSET Op, NEW a \in Device
  PROVE  /\ IsFiniteSet(By(a, S)) /\ Cardinality(By(a, S)) \in Nat
         /\ By(a, S) \subseteq Op
<1>1. Quota[a] \in Nat
  BY DeltaConstants
<1>2. IsFiniteSet({a} \X (1..Quota[a]))
  <2>1. IsFiniteSet({a}) /\ IsFiniteSet(1..Quota[a])
    <3>1. 1 \in Int /\ Quota[a] \in Int
      BY <1>1
    <3> QED BY <3>1, FS_Singleton, FS_Interval
  <2> QED BY <2>1, FS_Product
<1>3. By(a, S) \subseteq {a} \X (1..Quota[a])
  <2> SUFFICES ASSUME NEW o \in By(a, S) PROVE o \in {a} \X (1..Quota[a])
    OBVIOUS
  <2>1. o \in Op /\ o[1] = a
    BY DEF By
  <2> QED BY <2>1, <1>1, OpFields
<1>4. IsFiniteSet(By(a, S))
  BY <1>2, <1>3, FS_Subset
<1> QED BY <1>4, FS_CardinalityType DEF By

LEMMA ByGrows ==
  ASSUME NEW S \in SUBSET Op, NEW T \in SUBSET Op, S \subseteq T,
         NEW a \in Device
  PROVE  Cardinality(By(a, S)) <= Cardinality(By(a, T))
<1>1. By(a, S) \subseteq By(a, T)
  BY DEF By
<1> QED BY <1>1, ByFinite, FS_Subset

LEMMA UpToGrows ==
  ASSUME NEW S \in SUBSET Op, NEW T \in SUBSET Op, S \subseteq T,
         NEW a \in Device, NEW n
  PROVE  /\ IsFiniteSet(UpTo(By(a, S), n))
         /\ Cardinality(UpTo(By(a, S), n)) \in Nat
         /\ Cardinality(UpTo(By(a, S), n)) <= Cardinality(UpTo(By(a, T), n))
<1>1. /\ UpTo(By(a, S), n) \subseteq UpTo(By(a, T), n)
      /\ UpTo(By(a, T), n) \subseteq By(a, T)
  BY DEF UpTo, By
<1>2. IsFiniteSet(UpTo(By(a, T), n))
  BY <1>1, ByFinite, FS_Subset
<1> QED BY <1>1, <1>2, FS_Subset, FS_CardinalityType

\* Newest is the largest place, 0 where there is none.
LEMMA NewestIs ==
  ASSUME NEW S \in SUBSET Op, NEW a \in Device
  PROVE  LET n == Newest(By(a, S))
         IN  /\ n \in Nat
             /\ \A o \in By(a, S) : o[2] <= n
             /\ n # 0 => \E o \in By(a, S) : o[2] = n
<1> DEFINE T == {o[2] : o \in By(a, S)} \cup {0}
           M == {m \in Nat : \A t \in T : t <= m}
<1>1. /\ Quota[a] \in Nat
      /\ \A o \in By(a, S) : o[2] \in Nat /\ o[2] <= Quota[a]
  BY DeltaConstants, OpFields DEF By
<1>2. T \subseteq Nat /\ 0 \in T /\ M \subseteq Nat /\ Quota[a] \in M
  BY <1>1
<1>3. PICK m \in M : \A k \in M : m <= k
  BY <1>2, LeastNatural
<1>4. m \in Nat /\ \A t \in T : t <= m
  BY <1>3
<1>5. m \in T
  <2> SUFFICES ASSUME m \notin T PROVE FALSE
    OBVIOUS
  <2>1. m # 0 /\ m - 1 \in Nat
    BY <1>2, <1>4
  <2>2. \A t \in T : t <= m - 1
    <3> SUFFICES ASSUME NEW t \in T PROVE t <= m - 1
      OBVIOUS
    <3>1. t \in Nat /\ t <= m /\ t # m
      BY <1>2, <1>4
    <3> QED BY <1>4, <3>1
  <2>3. m - 1 \in M
    BY <2>1, <2>2
  <2> QED BY <1>3, <1>4, <2>3
<1> HIDE DEF T
<1>6. Max(T) \in T /\ \A t \in T : Max(T) >= t
  BY <1>2, <1>4, <1>5 DEF Max
<1>7. Newest(By(a, S)) = Max(T)
  BY DEF Newest, T
<1> QED BY <1>2, <1>6, <1>7 DEF T
----------------------------------------------------------------------------
\* What a clock says of a log, and what one that lacks it is sent.

LEMMA CensusType ==
  ASSUME NEW d \in Device
  PROVE  Census(d) \in SUBSET Op
BY DEF Census

NoHoleIn(d) ==
  \A o \in Census(d), p \in Op :
    p[1] = o[1] /\ p[2] < o[2] => p \in Census(d) \cup compacted

LEMMA ClockOf ==
  ASSUME NEW d \in Device, Census(d) \subseteq landed[d],
         landed[d] \in SUBSET Op
  PROVE  LET c == LocalVectorClock(d)
         IN  /\ c \in Clock
             /\ \A a \in Device :
                  /\ c[a].count <= Cardinality(By(a, Census(d)))
                  /\ c[a].count <= Cardinality(UpTo(By(a, landed[d]), c[a].max))
                  /\ c[a].count <= Cardinality(By(a, landed[d]))
             /\ NoHoleIn(d) => Backed(c, d)
<1> DEFINE c == LocalVectorClock(d)
<1>1. ASSUME NEW a \in Device
      PROVE  /\ c[a] = [max |-> Newest(By(a, Census(d))),
                        count |-> Cardinality(By(a, Census(d)))]
             /\ c[a].max = Newest(By(a, Census(d)))
             /\ c[a].count = Cardinality(By(a, Census(d)))
             /\ c[a].max \in Nat /\ c[a].count \in Nat
  BY CensusType, NewestIs, ByFinite DEF LocalVectorClock
<1>2. c \in Clock
  <2>1. c = [a \in Device |-> c[a]]
    BY DEF LocalVectorClock
  <2>2. ASSUME NEW a \in Device PROVE c[a] \in [max : Nat, count : Nat]
    <3>1. /\ Newest(By(a, Census(d))) \in Nat
          /\ Cardinality(By(a, Census(d))) \in Nat
      BY CensusType, NewestIs, ByFinite
    <3> QED BY <3>1 DEF LocalVectorClock
  <2> HIDE DEF c
  <2> QED BY <2>1, <2>2 DEF Clock
<1> HIDE DEF c
<1>3. ASSUME NEW a \in Device
      PROVE  /\ c[a].count <= Cardinality(By(a, Census(d)))
             /\ c[a].count <= Cardinality(UpTo(By(a, landed[d]), c[a].max))
             /\ c[a].count <= Cardinality(By(a, landed[d]))
  <2>1. UpTo(By(a, Census(d)), c[a].max) = By(a, Census(d))
    <3>1. c[a].max = Newest(By(a, Census(d)))
      BY <1>1
    <3>2. \A o \in By(a, Census(d)) : o[2] <= Newest(By(a, Census(d)))
      BY CensusType, NewestIs
    <3> QED BY <3>1, <3>2 DEF UpTo
  <2>2. Cardinality(By(a, Census(d)))
          <= Cardinality(UpTo(By(a, landed[d]), c[a].max))
    <3>1. Cardinality(UpTo(By(a, Census(d)), c[a].max))
            <= Cardinality(UpTo(By(a, landed[d]), c[a].max))
      BY CensusType, UpToGrows
    <3> QED BY <2>1, <3>1, Zenon
  <2>3. Cardinality(By(a, Census(d))) <= Cardinality(By(a, landed[d]))
    BY CensusType, ByGrows
  <2>4. /\ c[a].count = Cardinality(By(a, Census(d)))
        /\ c[a].count \in Nat
    BY <1>1
  <2> HIDE DEF UpTo, By, Census
  <2> QED BY <2>2, <2>3, <2>4
<1>4. ASSUME NoHoleIn(d) PROVE Backed(c, d)
  <2> SUFFICES ASSUME NEW p \in Op, p[2] <= c[p[1]].max
               PROVE  p \in Census(d) \cup compacted
    BY DEF Backed
  <2>1. p[1] \in Device /\ p[2] \in Nat \ {0}
    BY OpFields
  <2>2. c[p[1]].max = Newest(By(p[1], Census(d))) /\ c[p[1]].max \in Nat
    BY <1>1, <2>1
  <2>3. PICK o \in By(p[1], Census(d)) : o[2] = c[p[1]].max
    BY <2>1, <2>2, CensusType, NewestIs
  <2>4. o \in Census(d) /\ o \in Op /\ o[1] = p[1]
    BY <2>3, CensusType DEF By
  <2>5. CASE p[2] < o[2]
    BY <2>4, <2>5, <1>4 DEF NoHoleIn
  <2>6. CASE ~ (p[2] < o[2])
    <3>1. p[2] = o[2]
      BY <2>1, <2>2, <2>3, <2>6
    <3>2. p = <<p[1], p[2]>> /\ o = <<o[1], o[2]>>
      BY <2>4, OpFields
    <3>3. p = o
      BY <2>4, <3>1, <3>2
    <3> QED BY <2>4, <3>3
  <2> QED BY <2>5, <2>6
<1> QED BY <1>2, <1>3, <1>4 DEF c

LEMMA MissingIs ==
  ASSUME NEW d \in Device, NEW e \in Device, NEW clock \in Clock
  PROVE  LET F == OpsMissingFor(d, clock)
         IN  /\ F \in SUBSET Op /\ F \subseteq Census(d)
             /\ NoHoleIn(d) /\ Backed(clock, e) => Closed(F, e)
<1> DEFINE F == OpsMissingFor(d, clock)
<1>1. F \in SUBSET Op /\ F \subseteq Census(d)
  BY CensusType DEF OpsMissingFor
<1>2. ASSUME NoHoleIn(d), Backed(clock, e),
             NEW o \in F, NEW p \in Op, p[1] = o[1], p[2] < o[2]
      PROVE  p \in F \cup Census(e) \cup compacted
  <2>1. o \in Census(d) /\ p \in Census(d) \cup compacted
    BY <1>1, <1>2 DEF NoHoleIn
  <2>2. p[1] \in Device /\ p[2] \in Nat /\ clock[p[1]].max \in Nat
    BY OpFields DEF Clock
  <2>3. CASE p[2] <= clock[p[1]].max
    BY <1>2, <2>3 DEF Backed
  <2>4. CASE p[2] > clock[p[1]].max
    BY <2>1, <2>4 DEF OpsMissingFor
  <2> QED BY <2>2, <2>3, <2>4
<1> QED BY <1>1, <1>2 DEF Closed

(***************************************************************************)
(* The argument behind the counts of the census.  Either everything of an  *)
(* author is sent, or the peer counts at least as many operations up to    *)
(* its maximum as this log holds there, and what lies above is sent.       *)
(***************************************************************************)
LEMMA CountsCover ==
  ASSUME TypeOK, NEW d \in Device, NEW e \in Device, NEW clock \in Clock,
         NEW a \in Device, NEW r \in Nat,
         r <= Cardinality(By(a, Census(d) \cup Lost(d))),
         clock[a].count <= Cardinality(UpTo(By(a, landed[e]), clock[a].max))
  PROVE  r <= Cardinality(By(a, Told(e) \cup OpsMissingFor(d, clock)))
                + Cardinality(By(a, Lost(d)))
<1> DEFINE F == OpsMissingFor(d, clock)
           S == By(a, Census(d))
           m == clock[a].max
           T == Told(e) \cup F
<1>1. /\ Census(d) \in SUBSET Op /\ Lost(d) \in SUBSET Op
      /\ F \in SUBSET Op /\ T \in SUBSET Op /\ landed[e] \in SUBSET Op
      /\ m \in Nat /\ clock[a].count \in Nat
  BY CensusType, MissingIs DEF Lost, Told, TypeOK, Clock
<1>2. r <= Cardinality(S) + Cardinality(By(a, Lost(d)))
  <2>1. By(a, Census(d) \cup Lost(d)) = S \cup By(a, Lost(d))
    BY DEF By
  <2>2. /\ IsFiniteSet(S) /\ IsFiniteSet(By(a, Lost(d)))
        /\ Cardinality(S) \in Nat /\ Cardinality(By(a, Lost(d))) \in Nat
    BY <1>1, ByFinite
  <2>3. Cardinality(S \cap By(a, Lost(d))) \in Nat
    BY <2>2, FS_Intersection, FS_CardinalityType
  <2>4. Cardinality(S \cup By(a, Lost(d)))
          = Cardinality(S) + Cardinality(By(a, Lost(d)))
              - Cardinality(S \cap By(a, Lost(d)))
    BY <2>2, FS_Union
  <2>5. Cardinality(By(a, Census(d) \cup Lost(d)))
          = Cardinality(S \cup By(a, Lost(d)))
    BY <2>1, Zenon
  <2> HIDE DEF S
  <2> QED BY <2>2, <2>3, <2>4, <2>5
<1>3. Cardinality(S) <= Cardinality(By(a, T))
  <2>1. CASE GapBelow(S, clock[a])
    <3>1. S \subseteq By(a, T)
      BY <2>1 DEF OpsMissingFor, By
    <3> QED BY <3>1, <1>1, ByFinite, FS_Subset
  <2>2. CASE ~ GapBelow(S, clock[a])
    <3> DEFINE L == UpTo(By(a, landed[e]), m)
               U == S \ UpTo(S, m)
    <3>1. /\ L \subseteq By(a, T) /\ U \subseteq By(a, T)
      <4>1. L \subseteq By(a, T)
        BY DEF UpTo, By, Told
      <4>2. ASSUME NEW o \in U PROVE o \in By(a, T)
        <5>1. o \in Census(d) /\ o[1] = a /\ ~ (o[2] <= m) /\ o[2] \in Nat
          BY <1>1, OpFields DEF UpTo, By
        <5>2. o[2] > clock[o[1]].max
          BY <1>1, <5>1
        <5> QED BY <5>1, <5>2 DEF OpsMissingFor, By
      <4> QED BY <4>1, <4>2
    <3>2. L \cap U = {}
      BY DEF UpTo
    <3>3. /\ IsFiniteSet(By(a, T)) /\ IsFiniteSet(S)
          /\ Cardinality(By(a, T)) \in Nat /\ Cardinality(S) \in Nat
      BY <1>1, ByFinite
    <3>4. IsFiniteSet(L) /\ IsFiniteSet(U) /\ IsFiniteSet(UpTo(S, m))
      BY <3>1, <3>3, FS_Subset DEF UpTo
    <3>5. /\ Cardinality(L) \in Nat /\ Cardinality(U) \in Nat
          /\ Cardinality(UpTo(S, m)) \in Nat
      BY <3>4, FS_CardinalityType
    <3>6. Cardinality(UpTo(S, m)) <= Cardinality(L)
      <4>1. ~ (Cardinality(UpTo(S, m)) > clock[a].count)
        BY <2>2 DEF GapBelow, UpTo
      <4> HIDE DEF L, S, m
      <4>2. clock[a].count <= Cardinality(L)
        BY DEF L, m
      <4> QED BY <1>1, <3>5, <4>1, <4>2
    <3>7. Cardinality(U) = Cardinality(S) - Cardinality(UpTo(S, m))
      <4>1. S \cap UpTo(S, m) = UpTo(S, m)
        BY DEF UpTo
      <4> QED BY <3>3, <4>1, FS_Difference
    <3>8. Cardinality(L \cup U) = Cardinality(L) + Cardinality(U)
      <4>1. Cardinality({}) = 0
        BY FS_EmptySet
      <4>2. Cardinality(L \cup U)
              = Cardinality(L) + Cardinality(U) - Cardinality(L \cap U)
        BY <3>4, FS_Union
      <4> HIDE DEF L, U
      <4>3. Cardinality(L \cap U) = 0
        BY <3>2, <4>1, Zenon
      <4> QED BY <3>5, <4>2, <4>3
    <3>9. Cardinality(L \cup U) <= Cardinality(By(a, T))
      BY <3>1, <3>3, FS_Subset
    <3> HIDE DEF L, U, S, m, T
    <3> QED BY <3>3, <3>5, <3>6, <3>7, <3>8, <3>9
  <2> QED BY <2>1, <2>2
<1>4. /\ Cardinality(S) \in Nat /\ Cardinality(By(a, T)) \in Nat
      /\ Cardinality(By(a, Lost(d))) \in Nat
  BY <1>1, ByFinite
<1> HIDE DEF S, T
<1> QED BY <1>2, <1>3, <1>4 DEF T
----------------------------------------------------------------------------
\* Types.

LEMMA PhaseFields ==
  ASSUME NEW p \in Phase
  PROVE  /\ p["dialing"] \in {"idle", "asked", "pushed"} \cup Ingesting
         /\ p["serving"] \in {"idle", "called", "clocked", "served"}
                               \cup Ingesting
         /\ p = Rest <=> p["dialing"] = "idle" /\ p["serving"] = "idle"
<1>1. /\ p = [dialing |-> p["dialing"], serving |-> p["serving"]]
      /\ p["dialing"] \in {"idle", "asked", "received", "appending", "ingested",
                            "pushed"}
      /\ p["serving"] \in {"idle", "called", "clocked", "served", "received",
                            "appending", "ingested"}
  BY DEF Phase
<1>2. p = Rest <=> p["dialing"] = "idle" /\ p["serving"] = "idle"
  BY <1>1 DEF Rest
<1> QED BY <1>1, <1>2 DEF Ingesting

LEMMA Hosts ==
  ASSUME NEW x \in Dials
  PROVE  /\ x[1] \in Device /\ x[2] \in Device /\ x[1] # x[2]
         /\ Host(x, "dialing") = x[1] /\ Host(x, "serving") = x[2]
         /\ \A side \in Side : Host(x, side) \in Device
BY DeltaConstants DEF Host, Side

LEMMA FrameFields ==
  ASSUME NEW w, FramesOK(w)
  PROVE  /\ DOMAIN w = {"request", "response", "down", "up", "ack"}
         /\ w.down # None => w.down \in SUBSET Op
         /\ w.up # None => w.up \in SUBSET Op
         /\ w.ack \in BOOLEAN
BY DEF FramesOK

LEMMA NoFramesFields ==
  /\ NoFrames.down = None /\ NoFrames.up = None /\ ~ NoFrames.ack
  /\ NoFrames.request = None /\ NoFrames.response = None
BY DEF NoFrames

\* The types, and the lock clause of TypeOK by itself.
DataOK ==
  /\ lines \in [Device -> [Op -> Nat]]
  /\ phase \in [Dials -> Phase]
  /\ DOMAIN wire = Dials /\ \A x \in Dials : FramesOK(wire[x])
  /\ batch \in [Dials -> [Side -> SUBSET Op]]
  /\ DOMAIN appender = Device
  /\ floor \in [Device -> [Device -> [Device -> Nat]]]
  /\ window \in BOOLEAN /\ faults \in 0..MaxFaults
  /\ landed \in [Device -> SUBSET Op] /\ refused \in [Device -> SUBSET Op]
  /\ damaged \subseteq Device \X Op
  /\ compacted \subseteq Op

LockOK ==
  \A d \in Device : appender[d] # None =>
    /\ appender[d] \in Dials \X Side
    /\ Host(appender[d][1], appender[d][2]) = d
    /\ phase[appender[d][1]][appender[d][2]] = "appending"

LEMMA TypeParts == TypeOK /\ compacted \subseteq Op <=> DataOK /\ LockOK
BY DEF TypeOK, DataOK, LockOK

----------------------------------------------------------------------------
(***************************************************************************)
(* What every step keeps: histories grow, and a line that goes away is     *)
(* damaged, or its author, who is in no exchange then, compacted it.       *)
(***************************************************************************)
Still(d) ==
  \A x \in Dials, side \in Side : Host(x, side) = d => phase[x][side] = "idle"

Grows ==
  /\ \A d \in Device : /\ landed[d] \subseteq landed'[d]
                        /\ refused[d] \subseteq refused'[d]
  /\ damaged \subseteq damaged' /\ compacted \subseteq compacted'
  /\ \A d \in Device : \A o \in Census(d) :
       \/ o \in Census(d)'
       \/ <<d, o>> \in damaged'
       \/ o \in compacted' /\ Still(d)

LEMMA KeepsBacking ==
  ASSUME Grows, damaged' = {}, NEW d \in Device,
         NEW o \in Census(d) \cup compacted
  PROVE  o \in Census(d)' \cup compacted'
<1> HIDE DEF Census
<1> QED BY DEF Grows

LEMMA KeepsAuthors ==
  ASSUME Grows, NEW o \in Op, o \in landed[o[1]]
  PROVE  o \in landed'[o[1]]
BY OpFields DEF Grows

LEMMA KeepsCounts ==
  ASSUME DataOK, DataOK', Grows, NEW d \in Device, NEW a \in Device
  PROVE  /\ Cardinality(By(a, landed[d])) <= Cardinality(By(a, landed'[d]))
         /\ \A n : Cardinality(UpTo(By(a, landed[d]), n))
                     <= Cardinality(UpTo(By(a, landed'[d]), n))
         /\ \A U \in SUBSET Op :
              Cardinality(By(a, landed[d] \cup refused[d] \cup U))
                <= Cardinality(By(a, landed'[d] \cup refused'[d] \cup U))
         /\ Cardinality(By(a, landed[d] \cup refused[d]))
              <= Cardinality(By(a, landed'[d] \cup refused'[d]))
         /\ Cardinality(By(a, Lost(d))) <= Cardinality(By(a, Lost(d)'))
         /\ ~ Still(d) =>
              Cardinality(By(a, Census(d) \cup Lost(d)))
                <= Cardinality(By(a, (Census(d) \cup Lost(d))'))
<1>1. /\ landed[d] \in SUBSET Op /\ landed'[d] \in SUBSET Op
      /\ refused[d] \in SUBSET Op /\ refused'[d] \in SUBSET Op
      /\ landed[d] \subseteq landed'[d] /\ refused[d] \subseteq refused'[d]
  BY DEF DataOK, Grows
<1>2. /\ Lost(d) \in SUBSET Op /\ Lost(d)' \in SUBSET Op
      /\ Lost(d) \subseteq Lost(d)'
  BY DEF Lost, Grows
<1>3. /\ Census(d) \in SUBSET Op /\ Census(d)' \in SUBSET Op
  BY DEF Census
<1>4. ~ Still(d) => Census(d) \cup Lost(d) \subseteq Census(d)' \cup Lost(d)'
  <2> SUFFICES ASSUME ~ Still(d), NEW o \in Census(d)
               PROVE  o \in Census(d)' \cup Lost(d)'
    BY <1>2
  <2>1. o \in Op /\ (o \in Census(d)' \/ <<d, o>> \in damaged')
    <3> HIDE DEF Census, Still
    <3> QED BY <1>3 DEF Grows
  <2> QED BY <2>1 DEF Lost
<1>5. ~ Still(d) =>
        Cardinality(By(a, Census(d) \cup Lost(d)))
          <= Cardinality(By(a, (Census(d) \cup Lost(d))'))
  <2> HIDE DEF Census, Lost, Still
  <2> QED BY <1>2, <1>3, <1>4, ByGrows
<1>6. ASSUME NEW U \in SUBSET Op
      PROVE  Cardinality(By(a, landed[d] \cup refused[d] \cup U))
               <= Cardinality(By(a, landed'[d] \cup refused'[d] \cup U))
  <2>1. /\ landed[d] \cup refused[d] \cup U
               \subseteq landed'[d] \cup refused'[d] \cup U
        /\ landed[d] \cup refused[d] \cup U \in SUBSET Op
        /\ landed'[d] \cup refused'[d] \cup U \in SUBSET Op
    BY <1>1
  <2> QED BY <2>1, ByGrows
<1>7. Cardinality(By(a, landed[d] \cup refused[d]))
        <= Cardinality(By(a, landed'[d] \cup refused'[d]))
  <2>1. /\ landed[d] \cup refused[d] \subseteq landed'[d] \cup refused'[d]
        /\ landed[d] \cup refused[d] \in SUBSET Op
        /\ landed'[d] \cup refused'[d] \in SUBSET Op
    BY <1>1
  <2> QED BY <2>1, ByGrows
<1> QED BY <1>1, <1>2, <1>5, <1>6, <1>7, ByGrows, UpToGrows
(***************************************************************************)
(* What is known of a frame, a clock or a batch stays true of it.          *)
(***************************************************************************)
LEMMA KnownCarries ==
  ASSUME DataOK, Grows, NEW x \in Dials
  PROVE  /\ wire[x].down # None /\ DownKnown(x) /\ wire'[x].down = wire[x].down
              => DownKnown(x)'
         /\ wire[x].up # None /\ UpKnown(x) /\ wire'[x].up = wire[x].up
              => UpKnown(x)'
         /\ \A side \in Side :
              BatchKnown(x, side) /\ batch'[x][side] \subseteq batch[x][side]
                => BatchKnown(x, side)'
<1>1. /\ wire[x].down # None => wire[x].down \in SUBSET Op
      /\ wire[x].up # None => wire[x].up \in SUBSET Op
      /\ \A side \in Side : batch[x][side] \in SUBSET Op
  BY FrameFields DEF DataOK
<1>2. \A o \in Op : o \in landed[o[1]] => o \in landed'[o[1]]
  BY KeepsAuthors
<1> QED BY <1>1, <1>2 DEF DownKnown, UpKnown, BatchKnown, Authored

LEMMA GaplessCarries ==
  ASSUME Grows, damaged' = {}, NEW x \in Dials
  PROVE  /\ RequestBacked(x) /\ wire'[x].request = wire[x].request
              => RequestBacked(x)'
         /\ ResponseBacked(x) /\ wire'[x].response = wire[x].response
              => ResponseBacked(x)'
         /\ DownClosed(x) /\ wire'[x].down = wire[x].down => DownClosed(x)'
         /\ UpClosed(x) /\ wire'[x].up = wire[x].up => UpClosed(x)'
         /\ \A side \in Side :
              (BatchClosed(x, side) /\ batch'[x][side] = batch[x][side])
                \/ batch'[x][side] = {}
              => BatchClosed(x, side)'
<1>1. \A d \in Device : \A o \in Census(d) \cup compacted :
        o \in Census(d)' \cup compacted'
  BY KeepsBacking
<1> HIDE DEF Census
<1>2. /\ x[1] \in Device /\ x[2] \in Device
      /\ \A side \in Side : Host(x, side) \in Device
  BY Hosts
<1>3. RequestBacked(x) /\ wire'[x].request = wire[x].request
        => RequestBacked(x)'
  BY <1>1, <1>2 DEF RequestBacked, Backed
<1>4. ResponseBacked(x) /\ wire'[x].response = wire[x].response
        => ResponseBacked(x)'
  BY <1>1, <1>2 DEF ResponseBacked, Backed
<1>5. DownClosed(x) /\ wire'[x].down = wire[x].down => DownClosed(x)'
  BY <1>1, <1>2 DEF DownClosed, Closed
<1>6. UpClosed(x) /\ wire'[x].up = wire[x].up => UpClosed(x)'
  BY <1>1, <1>2 DEF UpClosed, Closed
<1>7. ASSUME NEW side \in Side,
             \/ BatchClosed(x, side) /\ batch'[x][side] = batch[x][side]
             \/ batch'[x][side] = {}
      PROVE  BatchClosed(x, side)'
  <2> DEFINE h == Host(x, side)
  <2>1. h \in Device /\ h' = h
    BY <1>2 DEF Host
  <2> HIDE DEF h
  <2>2. \A o \in batch'[x][side], p \in Op : p[1] = o[1] /\ p[2] < o[2] =>
          p \in batch'[x][side] \cup Census(h) \cup compacted
    BY <1>7 DEF BatchClosed, Closed, h
  <2>3. \A p \in Op : p \in batch'[x][side] \cup Census(h) \cup compacted =>
          p \in batch'[x][side] \cup Census(h)' \cup compacted'
    BY <1>1, <2>1
  <2> QED BY <2>1, <2>2, <2>3 DEF BatchClosed, Closed, h
<1> QED BY <1>3, <1>4, <1>5, <1>6, <1>7

LEMMA CountedCarries ==
  ASSUME DataOK, DataOK', Grows, NEW x \in Dials, Order(x)
  PROVE  /\ phase[x] # Rest /\ RequestOwned(x)
              /\ wire'[x].request = wire[x].request => RequestOwned(x)'
         /\ phase[x]["dialing"] # "idle" /\ RequestHeld(x)
              /\ wire'[x].request = wire[x].request => RequestHeld(x)'
         /\ Clocked(x) /\ ResponseOwned(x)
              /\ wire'[x].response = wire[x].response => ResponseOwned(x)'
         /\ phase[x] # Rest /\ wire[x].up # None /\ PushCovers(x)
              /\ wire'[x].request = wire[x].request /\ wire'[x].up = wire[x].up
              => PushCovers(x)'
<1>1. /\ x[1] \in Device /\ x[2] \in Device
      /\ Host(x, "dialing") = x[1]
  BY Hosts
<1>2. /\ landed[x[1]] \in SUBSET Op /\ landed'[x[1]] \in SUBSET Op
      /\ landed[x[2]] \in SUBSET Op /\ landed'[x[2]] \in SUBSET Op
      /\ Told(x[2]) \in SUBSET Op /\ Told(x[2])' \in SUBSET Op
      /\ Census(x[1]) \cup Lost(x[1]) \in SUBSET Op
      /\ (Census(x[1]) \cup Lost(x[1]))' \in SUBSET Op
      /\ Lost(x[1]) \in SUBSET Op /\ Lost(x[1])' \in SUBSET Op
  BY <1>1 DEF DataOK, Told, Census, Lost
<1>3. /\ phase[x] # Rest =>
           \A c \in Device : wire[x].request[c].count \in Nat
      /\ Clocked(x) => \A c \in Device : wire[x].response[c].count \in Nat
      /\ wire[x].up # None => wire[x].up \in SUBSET Op
  BY FrameFields DEF DataOK, Order, Clock
<1>4. phase[x]["dialing"] # "idle" => phase[x] # Rest
  BY DEF Rest
<1>5. ASSUME phase[x] # Rest, RequestOwned(x),
             wire'[x].request = wire[x].request, NEW c \in Device
      PROVE  wire'[x].request[c].count <= Cardinality(By(c, landed'[x[1]]))
  <2>1. /\ wire[x].request[c].count \in Nat
        /\ wire[x].request[c].count <= Cardinality(By(c, landed[x[1]]))
    BY <1>3, <1>5 DEF RequestOwned
  <2>2. /\ Cardinality(By(c, landed[x[1]])) \in Nat
        /\ Cardinality(By(c, landed'[x[1]])) \in Nat
    BY <1>2, ByFinite
  <2>3. Cardinality(By(c, landed[x[1]])) <= Cardinality(By(c, landed'[x[1]]))
    BY <1>1, KeepsCounts
  <2> QED BY <1>5, <2>1, <2>2, <2>3
<1>6. ASSUME phase[x]["dialing"] # "idle", RequestHeld(x),
             wire'[x].request = wire[x].request, NEW c \in Device
      PROVE  wire'[x].request[c].count
               <= Cardinality(By(c, (Census(x[1]) \cup Lost(x[1]))'))
  <2>1. /\ wire[x].request[c].count \in Nat
        /\ wire[x].request[c].count
             <= Cardinality(By(c, Census(x[1]) \cup Lost(x[1])))
    BY <1>3, <1>4, <1>6 DEF RequestHeld
  <2>2. ~ Still(x[1])
    BY <1>1, <1>6 DEF Still, Side
  <2>3. Cardinality(By(c, Census(x[1]) \cup Lost(x[1])))
          <= Cardinality(By(c, (Census(x[1]) \cup Lost(x[1]))'))
    <3> HIDE DEF Census, Lost, Still
    <3> QED BY <1>1, <2>2, KeepsCounts
  <2>4. /\ Cardinality(By(c, Census(x[1]) \cup Lost(x[1]))) \in Nat
        /\ Cardinality(By(c, (Census(x[1]) \cup Lost(x[1]))')) \in Nat
    BY <1>2, ByFinite
  <2> HIDE DEF Census, Lost, By
  <2> QED BY <1>6, <2>1, <2>3, <2>4
<1>7. ASSUME Clocked(x), ResponseOwned(x),
             wire'[x].response = wire[x].response, NEW c \in Device
      PROVE  wire'[x].response[c].count
               <= Cardinality(UpTo(By(c, landed'[x[2]]),
                                   wire'[x].response[c].max))
  <2> DEFINE n == wire[x].response[c].max
  <2>1. /\ wire[x].response[c].count \in Nat
        /\ wire[x].response[c].count
             <= Cardinality(UpTo(By(c, landed[x[2]]), n))
    BY <1>3, <1>7 DEF ResponseOwned
  <2>2. /\ Cardinality(UpTo(By(c, landed[x[2]]), n)) \in Nat
        /\ Cardinality(UpTo(By(c, landed'[x[2]]), n)) \in Nat
    BY <1>2, UpToGrows
  <2>3. Cardinality(UpTo(By(c, landed[x[2]]), n))
          <= Cardinality(UpTo(By(c, landed'[x[2]]), n))
    BY <1>1, KeepsCounts
  <2> HIDE DEF UpTo
  <2> QED BY <1>7, <2>1, <2>2, <2>3
<1>8. ASSUME phase[x] # Rest, wire[x].up # None, PushCovers(x),
             wire'[x].request = wire[x].request, wire'[x].up = wire[x].up,
             NEW c \in Device
      PROVE  wire'[x].request[c].count
               <= Cardinality(By(c, Told(x[2])' \cup wire'[x].up))
                    + Cardinality(By(c, Lost(x[1])'))
  <2> DEFINE U == wire[x].up
  <2>1. /\ wire[x].request[c].count \in Nat /\ U \in SUBSET Op
        /\ wire[x].request[c].count
             <= Cardinality(By(c, Told(x[2]) \cup U))
                  + Cardinality(By(c, Lost(x[1])))
    BY <1>3, <1>8 DEF PushCovers
  <2>2. /\ Cardinality(By(c, Told(x[2]) \cup U)) \in Nat
        /\ Cardinality(By(c, Told(x[2])' \cup U)) \in Nat
        /\ Cardinality(By(c, Lost(x[1]))) \in Nat
        /\ Cardinality(By(c, Lost(x[1])')) \in Nat
    <3>1. Told(x[2]) \cup U \in SUBSET Op /\ Told(x[2])' \cup U \in SUBSET Op
      BY <1>2, <2>1
    <3> HIDE DEF Told, Lost
    <3> QED BY <1>2, <3>1, ByFinite
  <2>3. Cardinality(By(c, Told(x[2]) \cup U))
          <= Cardinality(By(c, Told(x[2])' \cup U))
    BY <1>1, <2>1, KeepsCounts DEF Told
  <2>4. Cardinality(By(c, Lost(x[1]))) <= Cardinality(By(c, Lost(x[1])'))
    <3> HIDE DEF Lost
    <3> QED BY <1>1, KeepsCounts
  <2> HIDE DEF Told, Lost, By
  <2> QED BY <1>8, <2>1, <2>2, <2>3, <2>4
<1>9. phase[x] # Rest /\ RequestOwned(x)
        /\ wire'[x].request = wire[x].request => RequestOwned(x)'
  BY <1>5 DEF RequestOwned
<1>10. phase[x]["dialing"] # "idle" /\ RequestHeld(x)
         /\ wire'[x].request = wire[x].request => RequestHeld(x)'
  BY <1>6 DEF RequestHeld
<1>11. Clocked(x) /\ ResponseOwned(x)
         /\ wire'[x].response = wire[x].response => ResponseOwned(x)'
  BY <1>7 DEF ResponseOwned
<1>12. phase[x] # Rest /\ wire[x].up # None /\ PushCovers(x)
         /\ wire'[x].request = wire[x].request /\ wire'[x].up = wire[x].up
         => PushCovers(x)'
  BY <1>8 DEF PushCovers
<1> QED BY <1>9, <1>10, <1>11, <1>12

(***************************************************************************)
(* An exchange that a step does not touch, or of which it ends a half.     *)
(***************************************************************************)
Stops(x) ==
  /\ \A side \in Side :
       \/ phase'[x][side] = phase[x][side] /\ batch'[x][side] = batch[x][side]
       \/ phase'[x][side] = "idle" /\ batch'[x][side] = {}
  /\ wire'[x] = IF phase'[x] = Rest THEN NoFrames ELSE wire[x]

LEMMA StopsFields ==
  ASSUME DataOK, DataOK', NEW x \in Dials, Order(x), Stops(x)
  PROVE  /\ phase'[x]["dialing"] \in {phase[x]["dialing"], "idle"}
         /\ phase'[x]["serving"] \in {phase[x]["serving"], "idle"}
         /\ phase[x] = Rest => phase'[x] = Rest
         /\ phase'[x] = Rest =>
              /\ wire'[x] = NoFrames /\ wire'[x].down = None
              /\ wire'[x].up = None /\ ~ wire'[x].ack
         /\ phase'[x] # Rest => wire'[x] = wire[x]
         /\ phase'[x] = Rest <=> /\ phase'[x]["dialing"] = "idle"
                                 /\ phase'[x]["serving"] = "idle"
         /\ Clocked(x)' => Clocked(x) /\ wire'[x] = wire[x]
<1>1. /\ phase[x] \in Phase /\ phase'[x] \in Phase
  BY DEF DataOK
<1>2. /\ phase'[x]["dialing"] \in {phase[x]["dialing"], "idle"}
      /\ phase'[x]["serving"] \in {phase[x]["serving"], "idle"}
      /\ phase'[x] = Rest => wire'[x] = NoFrames
      /\ phase'[x] # Rest => wire'[x] = wire[x]
  BY DEF Stops, Side
<1>3. /\ phase[x] = Rest <=> /\ phase[x]["dialing"] = "idle"
                            /\ phase[x]["serving"] = "idle"
      /\ phase'[x] = Rest <=> /\ phase'[x]["dialing"] = "idle"
                             /\ phase'[x]["serving"] = "idle"
  BY <1>1, PhaseFields
<1>4. phase[x] = Rest => phase'[x] = Rest
  BY <1>2, <1>3
<1>5. phase'[x] = Rest => /\ wire'[x].down = None
                          /\ wire'[x].up = None /\ ~ wire'[x].ack
  BY <1>2, NoFramesFields
<1>6. ASSUME Clocked(x)' PROVE Clocked(x) /\ wire'[x] = wire[x]
  <2>1. phase'[x]["serving"] = "clocked" \/ wire'[x].down # None
    BY <1>6 DEF Clocked
  <2>2. phase'[x] # Rest
    BY <1>3, <1>5, <2>1
  <2> QED BY <1>2, <2>1, <2>2 DEF Clocked
<1> QED BY <1>2, <1>3, <1>4, <1>5, <1>6

LEMMA ExchangeStops ==
  ASSUME DataOK, DataOK', Grows, NEW x \in Dials, Exchange(x), Stops(x)
  PROVE  Exchange(x)'
<1>1. Order(x) /\ Known(x) /\ Durable(x) /\ Counted(x)
  BY DEF Exchange
<1>2. /\ phase'[x]["dialing"] \in {phase[x]["dialing"], "idle"}
      /\ phase'[x]["serving"] \in {phase[x]["serving"], "idle"}
      /\ phase[x] = Rest => phase'[x] = Rest
      /\ phase'[x] = Rest =>
           /\ wire'[x] = NoFrames /\ wire'[x].down = None
           /\ wire'[x].up = None /\ ~ wire'[x].ack
      /\ phase'[x] # Rest => wire'[x] = wire[x]
      /\ phase'[x] = Rest <=> /\ phase'[x]["dialing"] = "idle"
                              /\ phase'[x]["serving"] = "idle"
      /\ Clocked(x)' => Clocked(x) /\ wire'[x] = wire[x]
  BY <1>1, StopsFields
<1>3. \A side \in Side : batch'[x][side] = batch[x][side] \/ batch'[x][side] = {}
  BY DEF Stops
<1>4. Order(x)'
  BY <1>1, <1>2 DEF Order, Ingesting
<1>5. Known(x)'
  BY <1>1, <1>2, <1>3, KnownCarries DEF Known
<1>6. Durable(x)'
  <2>1. Told(x[2]) \subseteq Told(x[2])'
    BY Hosts DEF Told, Grows
  <2>2. phase'[x]["serving"] \in Ingesting =>
          batch'[x]["serving"] = batch[x]["serving"]
    BY DEF Stops, Side, Ingesting
  <2>3. phase'[x]["serving"] \in Ingesting \/ wire'[x].ack =>
          wire'[x] = wire[x]
    BY <1>2 DEF Ingesting
  <2>4. phase'[x]["serving"] \in Ingesting =>
          phase[x]["serving"] \in Ingesting
    BY <1>2 DEF Ingesting
  <2> HIDE DEF Told
  <2> QED BY <1>1, <2>1, <2>2, <2>3, <2>4 DEF Durable
<1>7. damaged' = {} => Gapless(x)'
  <2> SUFFICES ASSUME damaged' = {} PROVE Gapless(x)'
    OBVIOUS
  <2>1. Gapless(x)
    BY DEF Exchange, Grows
  <2> QED BY <1>2, <1>3, <2>1, GaplessCarries DEF Gapless
<1>8. Counted(x)'
  <2>1. phase'[x]["dialing"] \in Ingesting \cup {"asked"} =>
          /\ phase[x]["dialing"] \in Ingesting \cup {"asked"}
          /\ phase[x]["dialing"] # "idle" /\ phase'[x] # Rest
    BY <1>2 DEF Ingesting
  <2> QED BY <1>1, <1>2, <2>1, CountedCarries DEF Counted
<1> QED BY <1>1, <1>4, <1>5, <1>6, <1>7, <1>8 DEF Exchange

----------------------------------------------------------------------------
(***************************************************************************)
(* The parts of the invariant that are not about one exchange, for steps   *)
(* that leave the logs alone.                                              *)
(***************************************************************************)
LEMMA Parts ==
  IInv <=> /\ DataOK /\ LockOK /\ OneLineEach /\ FloorIsEarned /\ NoHoles
           /\ \A d \in Device : Log(d)
           /\ \A x \in Dials : Exchange(x)
           /\ \A x \in Dials, side \in Side : Empty(x, side) /\ Locked(x, side)
BY TypeParts DEF IInv

LEMMA PartsNext ==
  IInv' <=> /\ DataOK' /\ LockOK' /\ OneLineEach' /\ FloorIsEarned' /\ NoHoles'
            /\ \A d \in Device : Log(d)'
            /\ \A x \in Dials : Exchange(x)'
            /\ \A x \in Dials, side \in Side :
                 Empty(x, side)' /\ Locked(x, side)'
<1>1. TypeOK' /\ compacted' \subseteq Op <=> DataOK' /\ LockOK'
  BY DEF TypeOK, DataOK, LockOK
<1> QED BY <1>1 DEF IInv

LogsStay ==
  /\ UNCHANGED <<lines, landed, damaged, compacted>>
  /\ \A d \in Device : refused[d] \subseteq refused'[d]

LEMMA StayingLogs ==
  ASSUME IInv, LogsStay
  PROVE  /\ Grows /\ OneLineEach' /\ NoHoles' /\ \A d \in Device : Log(d)'
         /\ \A d \in Device : Census(d)' = Census(d) /\ Lost(d)' = Lost(d)
<1>1. \A d \in Device : Census(d)' = Census(d) /\ Lost(d)' = Lost(d)
  BY DEF LogsStay, Census, Lost
<1>2. Grows
  BY <1>1 DEF LogsStay, Grows
<1>3. OneLineEach'
  BY DEF IInv, OneLineEach, LogsStay
<1>4. NoHoles'
  <2> HIDE DEF Census
  <2> QED BY <1>1 DEF IInv, NoHoles, LogsStay
<1>5. ASSUME NEW d \in Device PROVE Log(d)'
  <2>1. Log(d)
    BY DEF IInv
  <2> HIDE DEF Census
  <2> QED BY <1>1, <2>1 DEF Log, Authored, By, LogsStay
<1> QED BY <1>1, <1>2, <1>3, <1>4, <1>5

LEMMA FloorStays ==
  ASSUME DataOK, DataOK', Grows, FloorIsEarned, floor' = floor
  PROVE  FloorIsEarned'
<1> SUFFICES ASSUME NEW d \in Device, NEW p \in Device, NEW a \in Device
             PROVE  floor[d][p][a]
                      <= Cardinality(By(a, landed'[p] \cup refused'[p]))
                           + Cardinality(By(a, Lost(d)'))
  BY DEF FloorIsEarned
<1>1. /\ floor[d][p][a] \in Nat
      /\ floor[d][p][a] <= Cardinality(By(a, landed[p] \cup refused[p]))
                              + Cardinality(By(a, Lost(d)))
  BY DEF FloorIsEarned, DataOK
<1>2. /\ landed[p] \cup refused[p] \in SUBSET Op
      /\ landed'[p] \cup refused'[p] \in SUBSET Op
      /\ Lost(d) \in SUBSET Op /\ Lost(d)' \in SUBSET Op
  BY DEF DataOK, Lost
<1> HIDE DEF Lost
<1>3. /\ Cardinality(By(a, landed[p] \cup refused[p])) \in Nat
      /\ Cardinality(By(a, landed'[p] \cup refused'[p])) \in Nat
      /\ Cardinality(By(a, Lost(d))) \in Nat
      /\ Cardinality(By(a, Lost(d)')) \in Nat
  BY <1>2, ByFinite
<1>4. /\ Cardinality(By(a, landed[p] \cup refused[p]))
           <= Cardinality(By(a, landed'[p] \cup refused'[p]))
      /\ Cardinality(By(a, Lost(d))) <= Cardinality(By(a, Lost(d)'))
  BY KeepsCounts
<1> HIDE DEF By
<1> QED BY <1>1, <1>3, <1>4

\* The lock, for steps that neither take nor give it back.
LEMMA LocksStay ==
  ASSUME IInv, \A d \in Device : appender'[d] = appender[d],
         \A d \in Device : \A o \in Census(d)' : o \in Census(d) \/ o[1] = d,
         \A x \in Dials, side \in Side :
           \/ phase'[x][side] = phase[x][side] /\ batch'[x][side] = batch[x][side]
           \/ /\ phase[x][side] # "appending" /\ phase'[x][side] # "appending"
              /\ Empty(x, side)'
  PROVE  /\ LockOK'
         /\ \A x \in Dials, side \in Side : Empty(x, side)' /\ Locked(x, side)'
<1>1. LockOK'
  <2> SUFFICES ASSUME NEW d \in Device, appender[d] # None
               PROVE  /\ appender[d] \in Dials \X Side
                      /\ Host(appender[d][1], appender[d][2]) = d
                      /\ phase'[appender[d][1]][appender[d][2]] = "appending"
    BY DEF LockOK, Host
  <2>1. PICK x \in Dials, side \in Side :
          /\ appender[d] = <<x, side>> /\ Host(x, side) = d
          /\ phase[x][side] = "appending"
    <3>1. LockOK
      BY Parts
    <3>2. /\ appender[d] \in Dials \X Side
          /\ Host(appender[d][1], appender[d][2]) = d
          /\ phase[appender[d][1]][appender[d][2]] = "appending"
      BY <3>1 DEF LockOK
    <3>3. /\ appender[d] = <<appender[d][1], appender[d][2]>>
          /\ appender[d][1] \in Dials /\ appender[d][2] \in Side
      BY <3>2
    <3> QED BY <3>2, <3>3
  <2>2. phase'[x][side] = "appending"
    BY <2>1
  <2> QED BY <2>1, <2>2
<1>2. ASSUME NEW x \in Dials, NEW side \in Side
      PROVE  Empty(x, side)' /\ Locked(x, side)'
  <2>1. Empty(x, side) /\ Locked(x, side) /\ Host(x, side) \in Device
    BY Hosts DEF IInv
  <2>2. CASE phase'[x][side] = phase[x][side] /\ batch'[x][side] = batch[x][side]
    <3>1. Empty(x, side)'
      BY <2>1, <2>2 DEF Empty
    <3> DEFINE h == Host(x, side)
    <3>2. h \in Device /\ h' = h
      BY <2>1 DEF Host
    <3> HIDE DEF h, Census
    <3>3. phase'[x][side] = "appending" =>
            /\ appender'[h] = <<x, side>>
            /\ \A o \in batch'[x][side] : o[1] # h /\ o \notin Census(h)'
      BY <2>1, <2>2, <3>2 DEF Locked, h
    <3>4. Locked(x, side)'
      BY <3>2, <3>3 DEF Locked, h
    <3> QED BY <3>1, <3>4
  <2>3. CASE phase'[x][side] # "appending" /\ Empty(x, side)'
    BY <2>3 DEF Locked
  <2> QED BY <2>2, <2>3
<1> QED BY <1>1, <1>2

\* The frames of an exchange when one of them is sent.
Sent(v, w, field, frame) ==
  /\ FramesOK(v)
  /\ field = "down" => v.down = frame
  /\ field = "up" => v.up = frame
  /\ field = "response" => v.response = frame
  /\ field = "ack" => v.ack = frame
  /\ v.request = w.request
  /\ field # "response" => v.response = w.response
  /\ field # "down" => v.down = w.down
  /\ field # "up" => v.up = w.up
  /\ field # "ack" => v.ack = w.ack

LEMMA SendFrame ==
  ASSUME NEW w, FramesOK(w)
  PROVE  /\ \A S \in SUBSET Op : Sent([w EXCEPT !.down = S], w, "down", S)
         /\ \A S \in SUBSET Op : Sent([w EXCEPT !.up = S], w, "up", S)
         /\ \A c \in Clock : Sent([w EXCEPT !.response = c], w, "response", c)
         /\ Sent([w EXCEPT !.ack = TRUE], w, "ack", TRUE)
<1>1. ASSUME NEW S \in SUBSET Op PROVE Sent([w EXCEPT !.down = S], w, "down", S)
  BY DEF Sent, FramesOK
<1>2. ASSUME NEW S \in SUBSET Op PROVE Sent([w EXCEPT !.up = S], w, "up", S)
  BY DEF Sent, FramesOK
<1>3. ASSUME NEW c \in Clock
      PROVE  Sent([w EXCEPT !.response = c], w, "response", c)
  BY DEF Sent, FramesOK
<1>4. Sent([w EXCEPT !.ack = TRUE], w, "ack", TRUE)
  BY DEF Sent, FramesOK
<1> QED BY <1>1, <1>2, <1>3, <1>4
----------------------------------------------------------------------------
\* Steps of one exchange.

OthersStay(x) ==
  \A y \in Dials \ {x} :
    /\ phase'[y] = phase[y] /\ batch'[y] = batch[y]
    /\ \/ wire'[y] = wire[y]
       \/ wire'[y] = IF phase'[y] = Rest THEN NoFrames ELSE wire[y]

LEMMA OthersHold ==
  ASSUME IInv, DataOK', Grows, NEW x \in Dials, OthersStay(x)
  PROVE  \A y \in Dials \ {x} : Exchange(y)'
<1> SUFFICES ASSUME NEW y \in Dials \ {x} PROVE Exchange(y)'
  OBVIOUS
<1>1. DataOK /\ Exchange(y)
  BY Parts
<1>2. phase[y] = Rest => wire[y] = NoFrames
  BY <1>1 DEF Exchange, Order
<1>3. Stops(y)
  BY <1>2 DEF OthersStay, Stops
<1> QED BY <1>1, <1>3, ExchangeStops

LEMMA OneMoves ==
  ASSUME IInv, NEW x \in Dials, DataOK', LogsStay, OthersStay(x),
         \A d \in Device : appender'[d] = appender[d], FloorIsEarned',
         Exchange(x)',
         \A side \in Side :
           \/ phase'[x][side] = phase[x][side] /\ batch'[x][side] = batch[x][side]
           \/ /\ phase[x][side] # "appending" /\ phase'[x][side] # "appending"
              /\ Empty(x, side)'
  PROVE  IInv'
<1>1. /\ Grows /\ OneLineEach' /\ NoHoles' /\ \A d \in Device : Log(d)'
      /\ \A d \in Device : Census(d)' = Census(d)
  BY StayingLogs
<1>2. \A y \in Dials : Exchange(y)'
  BY <1>1, OthersHold
<1>3. /\ LockOK'
      /\ \A y \in Dials, side \in Side : Empty(y, side)' /\ Locked(y, side)'
  <2>1. \A y \in Dials, side \in Side :
           \/ phase'[y][side] = phase[y][side] /\ batch'[y][side] = batch[y][side]
           \/ /\ phase[y][side] # "appending" /\ phase'[y][side] # "appending"
              /\ Empty(y, side)'
    <3> SUFFICES ASSUME NEW y \in Dials, y # x, NEW side \in Side
                 PROVE  phase'[y][side] = phase[y][side]
                          /\ batch'[y][side] = batch[y][side]
      OBVIOUS
    <3> QED BY DEF OthersStay
  <2>2. \A d \in Device : \A o \in Census(d)' : o \in Census(d) \/ o[1] = d
    BY <1>1
  <2> HIDE DEF Census
  <2> QED BY <2>1, <2>2, LocksStay
<1> QED BY <1>1, <1>2, <1>3, PartsNext

\* A half of an exchange that goes on.
LEMMA Enters ==
  ASSUME DataOK, NEW x \in Dials, NEW side \in Side, NEW p, Enter(x, side, p),
         \/ side = "dialing" /\ p \in {"idle", "asked", "pushed"} \cup Ingesting
         \/ /\ side = "serving"
            /\ p \in {"idle", "called", "clocked", "served"} \cup Ingesting
  PROVE  /\ phase' \in [Dials -> Phase]
         /\ phase'[x][side] = p
         /\ \A other \in Side \ {side} : phase'[x][other] = phase[x][other]
         /\ \A y \in Dials \ {x} : phase'[y] = phase[y]
<1>1. /\ phase \in [Dials -> Phase]
      /\ phase' = [phase EXCEPT ![x][side] = p]
  BY DEF DataOK, Enter
<1>2. CASE side = "dialing"
  <2>1. p \in {"idle", "asked", "received", "appending", "ingested", "pushed"}
    BY <1>2 DEF Ingesting
  <2> QED BY <1>1, <1>2, <2>1 DEF Phase, Side
<1>3. CASE side = "serving"
  <2>1. p \in {"idle", "called", "clocked", "served", "received", "appending",
               "ingested"}
    BY <1>3 DEF Ingesting
  <2> QED BY <1>1, <1>3, <2>1 DEF Phase, Side
<1> QED BY <1>2, <1>3 DEF Side

LEMMA Facts ==
  ASSUME IInv, NEW x \in Dials
  PROVE  /\ x[1] \in Device /\ x[2] \in Device /\ phase[x] \in Phase
         /\ FramesOK(wire[x])
         /\ Order(x) /\ Known(x) /\ Durable(x) /\ Counted(x)
         /\ damaged = {} => Gapless(x)
         /\ Empty(x, "dialing") /\ Empty(x, "serving")
         /\ \A d \in Device :
              /\ Census(d) \subseteq landed[d] /\ landed[d] \in SUBSET Op
              /\ \A o \in Census(d) : o \in landed[o[1]]
              /\ damaged = {} => NoHoleIn(d)
<1>1. /\ DataOK /\ NoHoles /\ Exchange(x) /\ \A d \in Device : Log(d)
      /\ Empty(x, "dialing") /\ Empty(x, "serving")
  BY Parts DEF Side
<1>2. \A d \in Device :
        /\ Census(d) \subseteq landed[d] /\ landed[d] \in SUBSET Op
        /\ \A o \in Census(d) : o \in landed[o[1]]
  BY <1>1 DEF Log, Authored, DataOK
<1>3. damaged = {} => \A d \in Device : NoHoleIn(d)
  <2> HIDE DEF Census
  <2> QED BY <1>1 DEF NoHoles, NoHoleIn
<1> QED BY <1>1, <1>2, <1>3, Hosts DEF Exchange, DataOK

\* How the frames of a waiting half stand.
LEMMA Waiting ==
  ASSUME NEW x \in Dials, Order(x), phase[x] \in Phase
  PROVE  /\ phase[x]["dialing"] # "idle" => phase[x] # Rest
         /\ phase[x]["serving"] # "idle" => phase[x] # Rest
         /\ phase[x]["dialing"] \in Ingesting \cup {"asked"} =>
              /\ wire[x].up = None /\ ~ wire[x].ack
              /\ phase[x]["serving"] \notin Ingesting
         /\ phase[x]["dialing"] \in Ingesting \cup {"pushed"} =>
              wire[x].down # None /\ Clocked(x)
         /\ phase[x]["serving"] # "idle" => ~ wire[x].ack
BY DEF Order, Rest, Clocked

LEMMA PushHolds ==
  ASSUME IInv, NEW x \in Dials, Push(x)
  PROVE  IInv'
<1> DEFINE F == OpsMissingFor(x[1], wire[x].response)
<1> USE Facts
<1>1. Order(x) /\ phase[x]["dialing"] = "ingested"
  BY DEF Push
<1>2. /\ phase[x] # Rest /\ Clocked(x) /\ wire[x].down # None
      /\ wire[x].up = None /\ ~ wire[x].ack
      /\ phase[x]["serving"] \notin Ingesting
      /\ wire[x].response \in Clock /\ wire[x].request \in Clock
  BY <1>1, Waiting DEF Ingesting, Order
<1>3. /\ F \in SUBSET Op /\ F \subseteq Census(x[1])
      /\ NoHoleIn(x[1]) /\ Backed(wire[x].response, x[2]) => Closed(F, x[2])
  BY <1>2, MissingIs
<1> HIDE DEF F
<1>4. /\ wire' = [wire EXCEPT ![x] = [wire[x] EXCEPT !.up = F]]
      /\ Enter(x, "dialing", "pushed")
      /\ UNCHANGED <<lines, batch, appender, floor, window, faults, landed,
                     refused, damaged, compacted>>
  BY DEF Push, F, ghosts
<1>5. DataOK /\ FloorIsEarned
  BY Parts
<1>6. /\ phase' \in [Dials -> Phase]
      /\ phase'[x]["dialing"] = "pushed"
      /\ phase'[x]["serving"] = phase[x]["serving"]
      /\ \A y \in Dials \ {x} : phase'[y] = phase[y]
  BY <1>4, <1>5, Enters DEF Side
<1>7. /\ wire'[x] = [wire[x] EXCEPT !.up = F] /\ DOMAIN wire' = Dials
      /\ \A y \in Dials \ {x} : wire'[y] = wire[y]
  BY <1>4, <1>5 DEF DataOK
<1>8. Sent(wire'[x], wire[x], "up", F)
  <2>1. Sent([wire[x] EXCEPT !.up = F], wire[x], "up", F)
    BY <1>3, SendFrame
  <2> QED BY <1>7, <2>1
<1>9. DataOK'
  BY <1>4, <1>5, <1>6, <1>7, <1>8 DEF DataOK, Sent
<1>10. LogsStay /\ OthersStay(x) /\ Grows
  BY <1>4, <1>6, <1>7, StayingLogs DEF LogsStay, OthersStay
<1>11. FloorIsEarned'
  BY <1>4, <1>5, <1>9, <1>10, FloorStays
<1>12. /\ wire'[x].up = F /\ wire'[x].request = wire[x].request
       /\ wire'[x].response = wire[x].response
       /\ wire'[x].down = wire[x].down /\ wire'[x].ack = wire[x].ack
       /\ wire'[x].up # None
  BY <1>3, <1>8, DeltaConstants DEF Sent
<1>13. phase'[x] # Rest
  BY <1>6 DEF Rest
<1>14. Order(x)'
  BY <1>1, <1>2, <1>6, <1>12, <1>13 DEF Order, Clocked, Ingesting
<1>15. Known(x)'
  <2>1. UpKnown(x)'
    <3>1. \A o \in F : o \in landed[o[1]]
      BY <1>3
    <3> QED BY <1>4, <1>12, <3>1 DEF UpKnown, Authored
  <2>2. Known(x) /\ batch' = batch
    BY <1>4
  <2> QED BY <1>2, <1>5, <1>10, <1>12, <2>1, <2>2, KnownCarries DEF Known
<1>16. Durable(x)'
  BY <1>2, <1>6, <1>12 DEF Durable
<1>17. damaged' = {} => Gapless(x)'
  <2> SUFFICES ASSUME damaged = {}, damaged' = {} PROVE Gapless(x)'
    BY <1>4
  <2>1. Gapless(x) /\ NoHoleIn(x[1])
    OBVIOUS
  <2>2. Closed(F, x[2])
    BY <1>2, <1>3, <2>1 DEF Gapless, ResponseBacked
  <2>3. UpClosed(x)'
    <3>1. Census(x[2])' = Census(x[2])
      BY <1>4 DEF Census
    <3> HIDE DEF Census
    <3> QED BY <1>4, <1>12, <2>2, <3>1 DEF UpClosed, Closed
  <2> QED BY <1>2, <1>4, <1>10, <1>12, <2>1, <2>3, GaplessCarries DEF Gapless
<1>18. Counted(x)'
  <2>1. PushCovers(x)'
    <3>1. Counted(x) /\ x[1] \in Device /\ x[2] \in Device /\ TypeOK
      BY DEF IInv
    <3>2. RequestHeld(x) /\ ResponseOwned(x)
      BY <1>1, <1>2, <3>1 DEF Counted, Ingesting
    <3>3. ASSUME NEW c \in Device
          PROVE  wire[x].request[c].count
                   <= Cardinality(By(c, Told(x[2]) \cup F))
                        + Cardinality(By(c, Lost(x[1])))
      <4>1. wire[x].request[c].count \in Nat
        BY <1>2 DEF Clock
      <4>2. /\ wire[x].request[c].count
                 <= Cardinality(By(c, Census(x[1]) \cup Lost(x[1])))
            /\ wire[x].response[c].count
                 <= Cardinality(UpTo(By(c, landed[x[2]]),
                                     wire[x].response[c].max))
        BY <3>2 DEF RequestHeld, ResponseOwned
      <4> QED BY <1>2, <3>1, <4>1, <4>2, CountsCover DEF F
    <3>4. Told(x[2])' = Told(x[2]) /\ Lost(x[1])' = Lost(x[1])
      BY <1>4 DEF Told, Lost
    <3> HIDE DEF Told, Lost, By
    <3> QED BY <1>12, <3>3, <3>4 DEF PushCovers
  <2>2. Counted(x) /\ phase'[x]["dialing"] \notin Ingesting \cup {"asked"}
    BY <1>6 DEF Ingesting
  <2> QED BY <1>1, <1>2, <1>5, <1>9, <1>10, <1>12, <1>13, <2>1, <2>2,
             CountedCarries DEF Counted
<1>19. Exchange(x)'
  BY <1>14, <1>15, <1>16, <1>17, <1>18 DEF Exchange
<1>20. /\ phase'[x]["serving"] = phase[x]["serving"]
       /\ batch'[x]["serving"] = batch[x]["serving"]
       /\ Empty(x, "dialing")'
  BY <1>1, <1>4, <1>6 DEF Empty
<1> QED BY <1>1, <1>4, <1>6, <1>9, <1>10, <1>11, <1>19, <1>20, OneMoves
        DEF Side

LEMMA SendClockHolds ==
  ASSUME IInv, NEW x \in Dials, SendClock(x)
  PROVE  IInv'
<1> DEFINE c == LocalVectorClock(x[2])
<1> USE Facts
<1>1. Order(x) /\ phase[x]["serving"] = "called"
  BY DEF SendClock
<1>2. /\ phase[x] # Rest /\ ~ wire[x].ack
  BY <1>1, Waiting
<1>3. /\ c \in Clock
      /\ \A a \in Device :
           c[a].count <= Cardinality(UpTo(By(a, landed[x[2]]), c[a].max))
      /\ damaged = {} => Backed(c, x[2])
  BY ClockOf
<1> HIDE DEF c
<1>4. /\ wire' = [wire EXCEPT ![x] = [wire[x] EXCEPT !.response = c]]
      /\ Enter(x, "serving", "clocked")
      /\ UNCHANGED <<lines, batch, appender, floor, window, faults, landed,
                     refused, damaged, compacted>>
  BY DEF SendClock, c, ghosts
<1>5. DataOK /\ FloorIsEarned
  BY Parts
<1>6. /\ phase' \in [Dials -> Phase]
      /\ phase'[x]["serving"] = "clocked"
      /\ phase'[x]["dialing"] = phase[x]["dialing"]
      /\ \A y \in Dials \ {x} : phase'[y] = phase[y]
  BY <1>4, <1>5, Enters DEF Side
<1>7. /\ wire'[x] = [wire[x] EXCEPT !.response = c] /\ DOMAIN wire' = Dials
      /\ \A y \in Dials \ {x} : wire'[y] = wire[y]
  BY <1>4, <1>5 DEF DataOK
<1>8. Sent(wire'[x], wire[x], "response", c)
  <2>1. Sent([wire[x] EXCEPT !.response = c], wire[x], "response", c)
    BY <1>3, SendFrame
  <2> QED BY <1>7, <2>1
<1>9. DataOK'
  BY <1>4, <1>5, <1>6, <1>7, <1>8 DEF DataOK, Sent
<1>10. LogsStay /\ OthersStay(x) /\ Grows
  BY <1>4, <1>6, <1>7, StayingLogs DEF LogsStay, OthersStay
<1>11. FloorIsEarned'
  BY <1>4, <1>5, <1>9, <1>10, FloorStays
<1>12. /\ wire'[x].response = c /\ wire'[x].request = wire[x].request
       /\ wire'[x].down = wire[x].down /\ wire'[x].up = wire[x].up
       /\ wire'[x].ack = wire[x].ack
  BY <1>8 DEF Sent
<1>13. phase'[x] # Rest
  BY <1>6 DEF Rest
<1>14. Order(x)'
  BY <1>1, <1>2, <1>3, <1>6, <1>12, <1>13 DEF Order, Clocked, Ingesting
<1>15. Known(x)'
  BY <1>4, <1>5, <1>10, <1>12, KnownCarries DEF Known
<1>16. Durable(x)'
  BY <1>2, <1>6, <1>12 DEF Durable, Ingesting
<1>17. damaged' = {} => Gapless(x)'
  <2> SUFFICES ASSUME damaged = {}, damaged' = {} PROVE Gapless(x)'
    BY <1>4
  <2>1. ResponseBacked(x)'
    <3>1. Census(x[2])' = Census(x[2])
      BY <1>4 DEF Census
    <3> HIDE DEF Census
    <3> QED BY <1>3, <1>4, <1>12, <3>1 DEF ResponseBacked, Backed
  <2> QED BY <1>2, <1>4, <1>10, <1>12, <2>1, GaplessCarries DEF Gapless
<1>18. Counted(x)'
  <2>1. ResponseOwned(x)'
    BY <1>3, <1>4, <1>12 DEF ResponseOwned
  <2>2. phase'[x]["dialing"] \in Ingesting \cup {"asked"} =>
          /\ phase[x]["dialing"] \in Ingesting \cup {"asked"}
          /\ phase[x]["dialing"] # "idle"
    BY <1>6 DEF Ingesting
  <2> QED BY <1>1, <1>2, <1>5, <1>9, <1>10, <1>12, <1>13, <2>1, <2>2,
             CountedCarries DEF Counted
<1>19. Exchange(x)'
  BY <1>14, <1>15, <1>16, <1>17, <1>18 DEF Exchange
<1>20. /\ phase'[x]["dialing"] = phase[x]["dialing"]
       /\ batch'[x]["dialing"] = batch[x]["dialing"]
       /\ Empty(x, "serving")'
  BY <1>1, <1>4, <1>6 DEF Empty
<1> QED BY <1>1, <1>4, <1>6, <1>9, <1>10, <1>11, <1>19, <1>20, OneMoves
        DEF Side

LEMMA SendOpsHolds ==
  ASSUME IInv, NEW x \in Dials, SendOps(x)
  PROVE  IInv'
<1> DEFINE F == OpsMissingFor(x[2], wire[x].request)
<1> USE Facts
<1>1. Order(x) /\ phase[x]["serving"] = "clocked"
  BY DEF SendOps
<1>2. /\ phase[x] # Rest /\ Clocked(x) /\ ~ wire[x].ack
      /\ wire[x].response \in Clock /\ wire[x].request \in Clock
  BY <1>1, Waiting DEF Order, Clocked
<1>3. /\ F \in SUBSET Op /\ F \subseteq Census(x[2])
      /\ NoHoleIn(x[2]) /\ Backed(wire[x].request, x[1]) => Closed(F, x[1])
  BY <1>2, MissingIs
<1> HIDE DEF F
<1>4. /\ wire' = [wire EXCEPT ![x] = [wire[x] EXCEPT !.down = F]]
      /\ Enter(x, "serving", "served")
      /\ UNCHANGED <<lines, batch, appender, floor, window, faults, landed,
                     refused, damaged, compacted>>
  BY DEF SendOps, F, ghosts
<1>5. DataOK /\ FloorIsEarned
  BY Parts
<1>6. /\ phase' \in [Dials -> Phase]
      /\ phase'[x]["serving"] = "served"
      /\ phase'[x]["dialing"] = phase[x]["dialing"]
      /\ \A y \in Dials \ {x} : phase'[y] = phase[y]
  BY <1>4, <1>5, Enters DEF Side
<1>7. /\ wire'[x] = [wire[x] EXCEPT !.down = F] /\ DOMAIN wire' = Dials
      /\ \A y \in Dials \ {x} : wire'[y] = wire[y]
  BY <1>4, <1>5 DEF DataOK
<1>8. Sent(wire'[x], wire[x], "down", F)
  <2>1. Sent([wire[x] EXCEPT !.down = F], wire[x], "down", F)
    BY <1>3, SendFrame
  <2> QED BY <1>7, <2>1
<1>9. DataOK'
  BY <1>4, <1>5, <1>6, <1>7, <1>8 DEF DataOK, Sent
<1>10. LogsStay /\ OthersStay(x) /\ Grows
  BY <1>4, <1>6, <1>7, StayingLogs DEF LogsStay, OthersStay
<1>11. FloorIsEarned'
  BY <1>4, <1>5, <1>9, <1>10, FloorStays
<1>12. /\ wire'[x].down = F /\ wire'[x].request = wire[x].request
       /\ wire'[x].response = wire[x].response
       /\ wire'[x].up = wire[x].up /\ wire'[x].ack = wire[x].ack
       /\ wire'[x].down # None
  BY <1>3, <1>8, DeltaConstants DEF Sent
<1>13. phase'[x] # Rest
  BY <1>6 DEF Rest
<1>14. Order(x)'
  BY <1>1, <1>2, <1>6, <1>12, <1>13 DEF Order, Clocked, Ingesting
<1>15. Known(x)'
  <2>1. DownKnown(x)'
    <3>1. \A o \in F : o \in landed[o[1]]
      BY <1>3
    <3> QED BY <1>4, <1>12, <3>1 DEF DownKnown, Authored
  <2> QED BY <1>4, <1>5, <1>10, <1>12, <2>1, KnownCarries DEF Known
<1>16. Durable(x)'
  BY <1>2, <1>6, <1>12 DEF Durable, Ingesting
<1>17. damaged' = {} => Gapless(x)'
  <2> SUFFICES ASSUME damaged = {}, damaged' = {} PROVE Gapless(x)'
    BY <1>4
  <2>1. Gapless(x) /\ NoHoleIn(x[2])
    OBVIOUS
  <2>2. Closed(F, x[1])
    BY <1>2, <1>3, <2>1 DEF Gapless, RequestBacked
  <2>3. DownClosed(x)'
    <3>1. Census(x[1])' = Census(x[1])
      BY <1>4 DEF Census
    <3> HIDE DEF Census
    <3> QED BY <1>4, <1>12, <2>2, <3>1 DEF DownClosed, Closed
  <2> QED BY <1>2, <1>4, <1>10, <1>12, <2>1, <2>3, GaplessCarries DEF Gapless
<1>18. Counted(x)'
  <2>1. phase'[x]["dialing"] \in Ingesting \cup {"asked"} =>
          /\ phase[x]["dialing"] \in Ingesting \cup {"asked"}
          /\ phase[x]["dialing"] # "idle"
    BY <1>6 DEF Ingesting
  <2> QED BY <1>1, <1>2, <1>5, <1>9, <1>10, <1>12, <1>13, <2>1,
             CountedCarries DEF Counted
<1>19. Exchange(x)'
  BY <1>14, <1>15, <1>16, <1>17, <1>18 DEF Exchange
<1>20. /\ phase'[x]["dialing"] = phase[x]["dialing"]
       /\ batch'[x]["dialing"] = batch[x]["dialing"]
       /\ Empty(x, "serving")'
  BY <1>1, <1>4, <1>6 DEF Empty
<1> QED BY <1>1, <1>4, <1>6, <1>9, <1>10, <1>11, <1>19, <1>20, OneMoves
        DEF Side

LEMMA DialHolds ==
  ASSUME IInv, NEW x \in Dials, Dial(x)
  PROVE  IInv'
<1> DEFINE c == LocalVectorClock(x[1])
           w == [NoFrames EXCEPT !.request = c]
<1> USE Facts
<1>1. Order(x) /\ phase[x] = Rest /\ wire[x] = NoFrames
  BY DEF Dial, Order
<1>2. phase[x]["dialing"] = "idle" /\ phase[x]["serving"] = "idle"
  BY <1>1 DEF Rest
<1>3. /\ c \in Clock
      /\ \A a \in Device :
           /\ c[a].count <= Cardinality(By(a, Census(x[1])))
           /\ c[a].count <= Cardinality(By(a, landed[x[1]]))
      /\ damaged = {} => Backed(c, x[1])
  BY ClockOf
<1>4. /\ wire' = [wire EXCEPT ![x] = w]
      /\ phase' = [phase EXCEPT ![x] = [dialing |-> "asked",
                                        serving |-> "called"]]
      /\ UNCHANGED <<lines, batch, appender, floor, window, faults, landed,
                     refused, damaged, compacted>>
  BY DEF Dial, ghosts
<1> HIDE DEF c
<1>5. DataOK /\ FloorIsEarned
  BY Parts
<1>6. /\ phase' \in [Dials -> Phase]
      /\ phase'[x]["dialing"] = "asked" /\ phase'[x]["serving"] = "called"
      /\ \A y \in Dials \ {x} : phase'[y] = phase[y]
  BY <1>4, <1>5 DEF DataOK, Phase
<1>7. /\ wire'[x] = w /\ DOMAIN wire' = Dials
      /\ \A y \in Dials \ {x} : wire'[y] = wire[y]
  BY <1>4, <1>5 DEF DataOK
<1>8. /\ FramesOK(w) /\ w.request = c /\ w.response = None
      /\ w.down = None /\ w.up = None /\ ~ w.ack
  BY <1>3 DEF FramesOK, NoFrames
<1> HIDE DEF w
<1>9. DataOK'
  BY <1>4, <1>5, <1>6, <1>7, <1>8 DEF DataOK
<1>10. LogsStay /\ OthersStay(x) /\ Grows
  BY <1>4, <1>6, <1>7, StayingLogs DEF LogsStay, OthersStay
<1>11. FloorIsEarned'
  BY <1>4, <1>5, <1>9, <1>10, FloorStays
<1>12. phase'[x] # Rest
  BY <1>6 DEF Rest
<1>13. Order(x)'
  BY <1>3, <1>6, <1>7, <1>8, <1>12 DEF Order, Clocked, Ingesting
<1>14. Known(x)'
  BY <1>4, <1>5, <1>7, <1>8, <1>10, KnownCarries DEF Known
<1>15. Durable(x)'
  BY <1>6, <1>7, <1>8 DEF Durable, Ingesting
<1>16. ~ Clocked(x)'
  BY <1>6, <1>7, <1>8 DEF Clocked
<1>17. damaged' = {} => Gapless(x)'
  <2> SUFFICES ASSUME damaged = {}, damaged' = {} PROVE Gapless(x)'
    BY <1>4
  <2>1. RequestBacked(x)'
    <3>1. Census(x[1])' = Census(x[1])
      BY <1>4 DEF Census
    <3> HIDE DEF Census
    <3> QED BY <1>3, <1>4, <1>7, <1>8, <3>1 DEF RequestBacked, Backed
  <2> QED BY <1>4, <1>7, <1>8, <1>10, <1>16, <2>1, GaplessCarries DEF Gapless
<1>18. Counted(x)'
  <2>1. RequestOwned(x)'
    BY <1>3, <1>4, <1>7, <1>8 DEF RequestOwned
  <2>2. RequestHeld(x)'
    <3> SUFFICES ASSUME NEW a \in Device
                 PROVE  c[a].count
                          <= Cardinality(By(a, (Census(x[1]) \cup Lost(x[1]))'))
      BY <1>7, <1>8 DEF RequestHeld
    <3>1. /\ Census(x[1])' = Census(x[1]) /\ Census(x[1]) \in SUBSET Op
          /\ (Census(x[1]) \cup Lost(x[1]))' \in SUBSET Op
      BY <1>4 DEF Census, Lost
    <3> HIDE DEF Census, Lost
    <3>2. /\ Cardinality(By(a, Census(x[1])))
               <= Cardinality(By(a, (Census(x[1]) \cup Lost(x[1]))'))
          /\ Cardinality(By(a, Census(x[1]))) \in Nat
          /\ Cardinality(By(a, (Census(x[1]) \cup Lost(x[1]))')) \in Nat
      BY <3>1, ByGrows, ByFinite
    <3>3. c[a].count \in Nat /\ c[a].count <= Cardinality(By(a, Census(x[1])))
      BY <1>3 DEF Clock
    <3> HIDE DEF By
    <3> QED BY <3>2, <3>3
  <2> QED BY <1>7, <1>8, <1>16, <2>1, <2>2 DEF Counted
<1>19. Exchange(x)'
  BY <1>13, <1>14, <1>15, <1>17, <1>18 DEF Exchange
<1>20. Empty(x, "dialing")' /\ Empty(x, "serving")'
  BY <1>2, <1>4, <1>6 DEF Empty
<1> QED BY <1>2, <1>4, <1>6, <1>9, <1>10, <1>11, <1>19, <1>20, OneMoves
        DEF Side
----------------------------------------------------------------------------
\* Halves that end, and the floors they raise.

LEMMA KeptIs ==
  ASSUME NEW w, NEW x \in Dials, wire' = Kept(w)
  PROVE  /\ DOMAIN wire' = Dials
         /\ phase'[x] = Rest => wire'[x] = NoFrames
         /\ phase'[x] # Rest => wire'[x] = w[x]
BY DEF Kept

LEMMA Over ==
  ASSUME NEW x \in Dials, phase'[x] = Rest, wire'[x] = NoFrames,
         \A side \in Side : batch'[x][side] = {}
  PROVE  Exchange(x)'
<1>1. /\ phase'[x]["dialing"] = "idle" /\ phase'[x]["serving"] = "idle"
      /\ wire'[x].down = None /\ wire'[x].up = None /\ ~ wire'[x].ack
  BY NoFramesFields DEF Rest
<1>2. ~ Clocked(x)'
  BY <1>1 DEF Clocked
<1>3. Order(x)' /\ Durable(x)' /\ Counted(x)'
  BY <1>1, <1>2 DEF Order, Durable, Counted, Ingesting
<1>4. Known(x)' /\ Gapless(x)'
  BY <1>1, <1>2 DEF Known, BatchKnown, Authored, Gapless, BatchClosed, Closed
<1> QED BY <1>3, <1>4 DEF Exchange

LEMMA RaisedIs ==
  ASSUME NEW f \in [Device -> Nat], NEW clock \in Clock
  PROVE  /\ Raised(f, clock) \in [Device -> Nat]
         /\ \A a \in Device : Raised(f, clock)[a] \in {f[a], clock[a].count}
BY DEF Raised, Clock

\* A floor for p that is raised to what p has got.
LEMMA FloorRises ==
  ASSUME IInv, LogsStay, refused' = refused, NEW d \in Device, NEW p \in Device,
         NEW g \in [Device -> Nat], floor' = [floor EXCEPT ![d][p] = g],
         \A a \in Device :
           g[a] <= Cardinality(By(a, Told(p))) + Cardinality(By(a, Lost(d)))
  PROVE  /\ floor' \in [Device -> [Device -> [Device -> Nat]]]
         /\ FloorIsEarned'
<1>1. /\ floor \in [Device -> [Device -> [Device -> Nat]]] /\ FloorIsEarned
  BY Parts DEF DataOK
<1>2. floor' \in [Device -> [Device -> [Device -> Nat]]]
  BY <1>1
<1>3. ASSUME NEW e \in Device, NEW q \in Device, NEW a \in Device
      PROVE  floor'[e][q][a] <= Cardinality(By(a, Told(q)))
                                  + Cardinality(By(a, Lost(e)))
  <2>1. CASE e = d /\ q = p
    <3>1. floor'[e][q] = g
      BY <1>1, <2>1
    <3> HIDE DEF Told, Lost
    <3> QED BY <2>1, <3>1
  <2>2. CASE ~ (e = d /\ q = p)
    <3>1. floor'[e][q] = floor[e][q]
      BY <1>1, <2>2
    <3>2. floor[e][q][a] <= Cardinality(By(a, Told(q)))
                              + Cardinality(By(a, Lost(e)))
      BY <1>1 DEF FloorIsEarned, Told
    <3> HIDE DEF Told, Lost
    <3> QED BY <3>1, <3>2
  <2> QED BY <2>1, <2>2
<1>4. \A q \in Device : Told(q) = landed'[q] \cup refused'[q]
  BY DEF Told, LogsStay
<1>5. \A e \in Device : Lost(e)' = Lost(e)
  BY StayingLogs
<1> HIDE DEF Told, Lost, By
<1>6. ASSUME NEW e \in Device, NEW q \in Device, NEW a \in Device
      PROVE  floor'[e][q][a] <= Cardinality(By(a, landed'[q] \cup refused'[q]))
                                  + Cardinality(By(a, Lost(e)'))
  BY <1>3, <1>4, <1>5, Zenon
<1> QED BY <1>2, <1>6 DEF FloorIsEarned

\* A half that is not in the middle of an ingest ends.
LEMMA Ends ==
  ASSUME IInv, NEW x \in Dials, NEW side \in Side, Enter(x, side, "idle"),
         phase[x][side] \notin {"received", "appending"},
         wire' = Kept(wire), batch' = batch, appender' = appender, LogsStay,
         refused' = refused, faults' \in 0..MaxFaults, window' = window,
         floor' \in [Device -> [Device -> [Device -> Nat]]], FloorIsEarned'
  PROVE  IInv'
<1>1. DataOK /\ Exchange(x) /\ Empty(x, side)
  BY Parts
<1>2. /\ phase' \in [Dials -> Phase] /\ phase'[x][side] = "idle"
      /\ \A other \in Side \ {side} : phase'[x][other] = phase[x][other]
      /\ \A y \in Dials \ {x} : phase'[y] = phase[y]
  BY <1>1, Enters DEF Side
<1>3. \A y \in Dials : wire'[y] = IF phase'[y] = Rest THEN NoFrames ELSE wire[y]
  BY DEF Kept
<1>4. DOMAIN wire' = Dials /\ \A y \in Dials : FramesOK(wire'[y])
  <2>1. DOMAIN wire' = Dials
    BY DEF Kept
  <2>2. FramesOK(NoFrames)
    BY DEF FramesOK, NoFrames
  <2>3. \A y \in Dials : FramesOK(wire[y])
    BY <1>1 DEF DataOK
  <2> QED BY <1>3, <2>1, <2>2, <2>3
<1>5. DataOK'
  BY <1>1, <1>2, <1>4 DEF DataOK, LogsStay
<1>6. OthersStay(x) /\ Grows
  BY <1>2, <1>3, StayingLogs DEF OthersStay
<1>7. batch[x][side] = {}
  BY <1>1 DEF Empty
<1>8. Stops(x)
  BY <1>2, <1>3, <1>7 DEF Stops
<1>9. Exchange(x)'
  BY <1>1, <1>5, <1>6, <1>8, ExchangeStops
<1>10. Empty(x, side)'
  BY <1>7 DEF Empty
<1>11. \A s \in Side :
         \/ phase'[x][s] = phase[x][s] /\ batch'[x][s] = batch[x][s]
         \/ /\ phase[x][s] # "appending" /\ phase'[x][s] # "appending"
            /\ Empty(x, s)'
  BY <1>2, <1>10
<1> QED BY <1>5, <1>6, <1>9, <1>11, OneMoves

LEMMA QuietStep ==
  ASSUME IInv, UNCHANGED <<lines, floor, landed, refused, damaged, compacted>>
  PROVE  /\ LogsStay /\ FloorIsEarned'
         /\ floor' \in [Device -> [Device -> [Device -> Nat]]]
<1>1. DataOK /\ FloorIsEarned
  BY Parts
<1>2. LogsStay /\ floor' \in [Device -> [Device -> [Device -> Nat]]]
  BY <1>1 DEF LogsStay, DataOK
<1>3. FloorIsEarned'
  <2>1. \A d \in Device : Lost(d)' = Lost(d)
    BY DEF Lost
  <2> QED BY <1>1, <2>1 DEF FloorIsEarned
<1> QED BY <1>2, <1>3

LEMMA LoseConnectionHolds ==
  ASSUME IInv, NEW x \in Dials, LoseConnection(x)
  PROVE  IInv'
<1>1. faults' \in 0..MaxFaults
  BY DeltaConstants, Parts DEF LoseConnection, DataOK
<1>2. /\ UNCHANGED <<lines, batch, appender, floor, window, landed, refused,
                     damaged, compacted>>
      /\ Enter(x, "dialing", "idle") /\ wire' = Kept(wire)
      /\ phase[x]["dialing"] \notin {"received", "appending"}
  BY DEF LoseConnection, ghosts
<1> QED BY <1>1, <1>2, QuietStep, Ends DEF Side

LEMMA DialFailsHolds ==
  ASSUME IInv, NEW x \in Dials, DialFails(x)
  PROVE  IInv'
<1>1. faults' \in 0..MaxFaults
  BY Parts DEF DialFails, DataOK
<1>2. /\ UNCHANGED <<lines, batch, appender, floor, window, landed, refused,
                     damaged, compacted>>
      /\ Enter(x, "dialing", "idle") /\ wire' = Kept(wire)
      /\ phase[x]["dialing"] \notin {"received", "appending"}
  BY DEF DialFails, ghosts
<1> QED BY <1>1, <1>2, QuietStep, Ends DEF Side

LEMMA ServeFailsHolds ==
  ASSUME IInv, NEW x \in Dials, ServeFails(x)
  PROVE  IInv'
<1>1. faults' \in 0..MaxFaults
  BY Parts DEF ServeFails, DataOK
<1>2. /\ UNCHANGED <<lines, batch, appender, floor, window, landed, refused,
                     damaged, compacted>>
      /\ Enter(x, "serving", "idle") /\ wire' = Kept(wire)
      /\ phase[x]["serving"] \notin {"received", "appending"}
  BY DEF ServeFails, ghosts
<1> QED BY <1>1, <1>2, QuietStep, Ends DEF Side

LEMMA SyncedHolds ==
  ASSUME IInv, NEW x \in Dials, Synced(x)
  PROVE  IInv'
<1> DEFINE old == floor[x[1]][x[2]]
           g == Raised(Raised(old, wire[x].response), wire[x].request)
<1> USE Facts
<1>1. /\ phase[x]["dialing"] = "pushed" /\ wire[x].ack
      /\ Enter(x, "dialing", "idle") /\ wire' = Kept(wire)
      /\ floor' = [floor EXCEPT ![x[1]][x[2]] = g]
      /\ UNCHANGED <<lines, batch, appender, window, faults, landed, refused,
                     damaged, compacted>>
  BY DEF Synced, ghosts
<1>2. Order(x) /\ Durable(x) /\ Counted(x) /\ DataOK
  BY Parts
<1>3. /\ wire[x].request \in Clock /\ wire[x].response \in Clock
      /\ Clocked(x) /\ wire[x].up # None
  BY <1>1, <1>2, Waiting DEF Order, Clocked, Ingesting
<1>4. ResponseOwned(x) /\ PushCovers(x) /\ wire[x].up \subseteq Told(x[2])
  BY <1>1, <1>2, <1>3 DEF Counted, Durable
<1>5. old \in [Device -> Nat]
  BY <1>2 DEF DataOK
<1>6. /\ g \in [Device -> Nat]
      /\ \A a \in Device :
           g[a] \in {old[a], wire[x].response[a].count,
                     wire[x].request[a].count}
  <2>1. Raised(old, wire[x].response) \in [Device -> Nat]
    BY <1>3, <1>5, RaisedIs
  <2> HIDE DEF old
  <2> QED BY <1>3, <1>5, <2>1, RaisedIs
<1>7. ASSUME NEW a \in Device
      PROVE  g[a] <= Cardinality(By(a, Told(x[2])))
                       + Cardinality(By(a, Lost(x[1])))
  <2>1. /\ Told(x[2]) \in SUBSET Op /\ Lost(x[1]) \in SUBSET Op
        /\ landed[x[2]] \in SUBSET Op /\ landed[x[2]] \subseteq Told(x[2])
    BY <1>2 DEF DataOK, Told, Lost
  <2>2. /\ Cardinality(By(a, Told(x[2]))) \in Nat
        /\ Cardinality(By(a, Lost(x[1]))) \in Nat
    BY <2>1, ByFinite
  <2>3. old[a] <= Cardinality(By(a, Told(x[2])))
                    + Cardinality(By(a, Lost(x[1])))
    BY Parts DEF FloorIsEarned, Told
  <2>4. wire[x].response[a].count <= Cardinality(By(a, Told(x[2])))
    <3> DEFINE n == wire[x].response[a].max
    <3>1. wire[x].response[a].count
            <= Cardinality(UpTo(By(a, landed[x[2]]), n))
      BY <1>4 DEF ResponseOwned
    <3>2. UpTo(By(a, landed[x[2]]), n) \subseteq By(a, Told(x[2]))
      BY <2>1 DEF UpTo, By
    <3>3. /\ Cardinality(UpTo(By(a, landed[x[2]]), n)) \in Nat
          /\ Cardinality(UpTo(By(a, landed[x[2]]), n))
               <= Cardinality(By(a, Told(x[2])))
      BY <2>1, <3>2, ByFinite, UpToGrows, FS_Subset
    <3>4. wire[x].response[a].count \in Nat
      BY <1>3 DEF Clock
    <3> HIDE DEF UpTo, By, Told
    <3> QED BY <2>2, <3>1, <3>3, <3>4
  <2>5. wire[x].request[a].count <= Cardinality(By(a, Told(x[2])))
                                      + Cardinality(By(a, Lost(x[1])))
    <3>1. Told(x[2]) \cup wire[x].up = Told(x[2])
      BY <1>4
    <3>2. wire[x].request[a].count
            <= Cardinality(By(a, Told(x[2]) \cup wire[x].up))
                 + Cardinality(By(a, Lost(x[1])))
      BY <1>4 DEF PushCovers
    <3> QED BY <3>1, <3>2, Zenon
  <2>6. wire[x].response[a].count \in Nat
    BY <1>3 DEF Clock
  <2> HIDE DEF g, old, By, Told, Lost
  <2> QED BY <1>6, <2>2, <2>3, <2>4, <2>5, <2>6
<1> HIDE DEF g
<1>8. LogsStay
  BY <1>1 DEF LogsStay
<1>9. /\ floor' \in [Device -> [Device -> [Device -> Nat]]]
      /\ FloorIsEarned'
  BY <1>1, <1>6, <1>7, <1>8, FloorRises
<1>10. faults' \in 0..MaxFaults
  BY <1>1, <1>2 DEF DataOK
<1> QED BY <1>1, <1>8, <1>9, <1>10, Ends DEF Side

LEMMA ConfirmHolds ==
  ASSUME IInv, NEW x \in Dials, Confirm(x)
  PROVE  IInv'
<1> DEFINE old == floor[x[2]][x[1]]
           g == Raised(old, wire[x].request)
           w == [wire EXCEPT ![x].ack = TRUE]
<1> USE Facts
<1>1. /\ phase[x]["serving"] = "ingested"
      /\ Enter(x, "serving", "idle") /\ wire' = Kept(w)
      /\ floor' = [floor EXCEPT ![x[2]][x[1]] = g]
      /\ UNCHANGED <<lines, batch, appender, window, faults, landed, refused,
                     damaged, compacted>>
  BY DEF Confirm, ghosts
<1>2. Order(x) /\ Durable(x) /\ Counted(x) /\ DataOK /\ Empty(x, "serving")
  BY Parts
<1>3. /\ phase[x] # Rest /\ wire[x].request \in Clock /\ wire[x].up # None
      /\ wire[x].up \subseteq Told(x[2]) \cup batch[x]["serving"]
      /\ batch[x]["serving"] = {}
  BY <1>1, <1>2, Waiting DEF Order, Durable, Empty, Ingesting
<1>4. RequestOwned(x)
  BY <1>2, <1>3 DEF Counted
<1>5. old \in [Device -> Nat]
  BY <1>2 DEF DataOK
<1>6. /\ g \in [Device -> Nat]
      /\ \A a \in Device : g[a] \in {old[a], wire[x].request[a].count}
  BY <1>3, <1>5, RaisedIs
<1>7. ASSUME NEW a \in Device
      PROVE  g[a] <= Cardinality(By(a, Told(x[1])))
                       + Cardinality(By(a, Lost(x[2])))
  <2>1. /\ Told(x[1]) \in SUBSET Op /\ Lost(x[2]) \in SUBSET Op
        /\ landed[x[1]] \in SUBSET Op /\ landed[x[1]] \subseteq Told(x[1])
    BY <1>2 DEF DataOK, Told, Lost
  <2>2. /\ Cardinality(By(a, Told(x[1]))) \in Nat
        /\ Cardinality(By(a, Lost(x[2]))) \in Nat
        /\ Cardinality(By(a, landed[x[1]])) \in Nat
    BY <2>1, ByFinite
  <2>3. old[a] <= Cardinality(By(a, Told(x[1])))
                    + Cardinality(By(a, Lost(x[2])))
    BY Parts DEF FloorIsEarned, Told
  <2>4. wire[x].request[a].count <= Cardinality(By(a, landed[x[1]]))
    BY <1>4 DEF RequestOwned
  <2>5. Cardinality(By(a, landed[x[1]])) <= Cardinality(By(a, Told(x[1])))
    BY <2>1, ByGrows
  <2>6. wire[x].request[a].count \in Nat
    BY <1>3 DEF Clock
  <2> HIDE DEF g, old, By, Told, Lost
  <2> QED BY <1>6, <2>2, <2>3, <2>4, <2>5, <2>6
<1> HIDE DEF g
<1>8. LogsStay /\ Grows
  BY <1>1, StayingLogs DEF LogsStay
<1>9. /\ floor' \in [Device -> [Device -> [Device -> Nat]]]
      /\ FloorIsEarned'
  BY <1>1, <1>6, <1>7, <1>8, FloorRises
<1>10. /\ phase' \in [Dials -> Phase]
       /\ phase'[x]["serving"] = "idle"
       /\ phase'[x]["dialing"] = phase[x]["dialing"]
       /\ \A y \in Dials \ {x} : phase'[y] = phase[y]
  BY <1>1, <1>2, Enters DEF Side
<1>11. /\ w[x] = [wire[x] EXCEPT !.ack = TRUE]
       /\ \A y \in Dials \ {x} : w[y] = wire[y]
  BY <1>2 DEF DataOK
<1>12. Sent(w[x], wire[x], "ack", TRUE)
  <2>1. Sent([wire[x] EXCEPT !.ack = TRUE], wire[x], "ack", TRUE)
    BY SendFrame
  <2> QED BY <1>11, <2>1
<1> HIDE DEF w
<1>13. /\ DOMAIN wire' = Dials
       /\ \A y \in Dials :
            wire'[y] = IF phase'[y] = Rest THEN NoFrames ELSE w[y]
  BY <1>1 DEF Kept
<1>14. DataOK'
  <2>1. FramesOK(NoFrames)
    BY DEF FramesOK, NoFrames
  <2>2. \A y \in Dials : FramesOK(w[y])
    BY <1>2, <1>11, <1>12 DEF DataOK, Sent
  <2>3. \A y \in Dials : FramesOK(wire'[y])
    BY <1>13, <2>1, <2>2
  <2> QED BY <1>1, <1>2, <1>9, <1>10, <1>13, <2>3 DEF DataOK
<1>15. OthersStay(x)
  BY <1>1, <1>10, <1>11, <1>13 DEF OthersStay
<1>16. Empty(x, "dialing")' /\ Empty(x, "serving")'
  <2>1. Empty(x, "dialing")
    OBVIOUS
  <2> QED BY <1>1, <1>3, <1>10, <2>1 DEF Empty
<1>17. Exchange(x)'
  <2>1. CASE phase'[x] = Rest
    <3>1. wire'[x] = NoFrames
      BY <1>13, <2>1
    <3>2. phase'[x]["dialing"] = "idle"
      BY <2>1 DEF Rest
    <3>3. batch'[x]["dialing"] = {} /\ batch'[x]["serving"] = {}
      BY <1>1, <1>3, <1>16, <3>2 DEF Empty
    <3> QED BY <2>1, <3>1, <3>3, Over DEF Side
  <2>2. CASE phase'[x] # Rest
    <3>1. wire'[x] = w[x]
      BY <1>13, <2>2
    <3>2. /\ wire'[x].ack /\ wire'[x].request = wire[x].request
          /\ wire'[x].response = wire[x].response
          /\ wire'[x].down = wire[x].down /\ wire'[x].up = wire[x].up
      BY <1>12, <3>1 DEF Sent
    <3>3. Clocked(x)' => Clocked(x)
      BY <1>10, <3>2 DEF Clocked
    <3>4. Order(x)'
      BY <1>1, <1>2, <1>3, <1>10, <2>2, <3>2, <3>3 DEF Order, Ingesting
    <3>5. Known(x)'
      <4>1. Known(x) /\ batch' = batch
        BY <1>1
      <4> QED BY <1>2, <1>8, <3>2, <4>1, KnownCarries DEF Known
    <3>6. Durable(x)'
      BY <1>1, <1>3, <1>10, <3>2 DEF Durable, Told, Ingesting
    <3>7. damaged' = {} => Gapless(x)'
      <4> SUFFICES ASSUME damaged = {}, damaged' = {} PROVE Gapless(x)'
        BY <1>1
      <4>1. Gapless(x)
        OBVIOUS
      <4> QED BY <1>1, <1>3, <1>8, <3>2, <3>3, <4>1, GaplessCarries DEF Gapless
    <3>8. Counted(x)'
      <4>1. phase'[x]["dialing"] \in Ingesting \cup {"asked"} =>
              /\ phase[x]["dialing"] \in Ingesting \cup {"asked"}
              /\ phase[x]["dialing"] # "idle"
        BY <1>10 DEF Ingesting
      <4> QED BY <1>2, <1>3, <1>8, <1>14, <3>2, <3>3, <4>1, CountedCarries
              DEF Counted
    <3> QED BY <3>4, <3>5, <3>6, <3>7, <3>8 DEF Exchange
  <2> QED BY <2>1, <2>2
<1>18. /\ phase'[x]["dialing"] = phase[x]["dialing"]
       /\ batch'[x]["dialing"] = batch[x]["dialing"]
       /\ phase[x]["serving"] # "appending"
       /\ phase'[x]["serving"] # "appending"
  BY <1>1, <1>10
<1> QED BY <1>1, <1>8, <1>9, <1>14, <1>15, <1>16, <1>17, <1>18, OneMoves
        DEF Side

----------------------------------------------------------------------------
\* The ingest.

LEMMA ReceiveHolds ==
  ASSUME IInv, NEW x \in Dials, NEW side \in Side, Receive(x, side)
  PROVE  IInv'
<1> DEFINE h == Host(x, side)
           F == IF side = "dialing" THEN wire[x].down ELSE wire[x].up
           late == {o \in F : TooFarAhead(o)}
           next == IF late = F THEN "ingested" ELSE "received"
<1> USE Facts
<1>1. /\ phase[x][side] = (IF side = "dialing" THEN "asked" ELSE "served")
      /\ F # None /\ Enter(x, side, next)
      /\ batch' = [batch EXCEPT ![x][side] = F \ late]
      /\ refused' = [refused EXCEPT ![h] = @ \cup late]
      /\ UNCHANGED <<lines, wire, appender, floor, window, faults, landed,
                     damaged, compacted>>
  BY DEF Receive
<1>2. /\ DataOK /\ FloorIsEarned /\ Order(x) /\ Known(x) /\ Durable(x)
      /\ Counted(x) /\ h \in Device
  BY Parts, Hosts
<1>3. /\ F \in SUBSET Op /\ late \in SUBSET Op /\ next \in Ingesting
  BY <1>1, <1>2, FrameFields DEF DataOK, Ingesting
<1>4. Authored(F)
  BY <1>1, <1>2 DEF Known, DownKnown, UpKnown, Side
<1>5. damaged = {} => Closed(F, h)
  BY <1>1 DEF Gapless, DownClosed, UpClosed, Host, Side
<1> HIDE DEF F, next, h
<1>6. /\ phase' \in [Dials -> Phase] /\ phase'[x][side] = next
      /\ \A other \in Side \ {side} : phase'[x][other] = phase[x][other]
      /\ \A y \in Dials \ {x} : phase'[y] = phase[y]
  BY <1>1, <1>2, <1>3, Enters DEF Side
<1>7. /\ batch' \in [Dials -> [Side -> SUBSET Op]]
      /\ batch'[x][side] = F \ late
      /\ \A other \in Side \ {side} : batch'[x][other] = batch[x][other]
      /\ \A y \in Dials \ {x} : batch'[y] = batch[y]
  BY <1>1, <1>2, <1>3 DEF DataOK
<1>8. /\ refused' \in [Device -> SUBSET Op] /\ late \subseteq refused'[h]
      /\ \A d \in Device : refused[d] \subseteq refused'[d]
  BY <1>1, <1>2, <1>3 DEF DataOK
<1>9. DataOK'
  BY <1>1, <1>2, <1>6, <1>7, <1>8 DEF DataOK
<1>10. LogsStay /\ OthersStay(x) /\ Grows
  BY <1>1, <1>6, <1>7, <1>8, StayingLogs DEF LogsStay, OthersStay
<1>11. FloorIsEarned'
  BY <1>1, <1>2, <1>9, <1>10, FloorStays
<1>12. phase[x] # Rest /\ phase'[x] # Rest /\ Side = {"dialing", "serving"}
  BY <1>1, <1>3, <1>6 DEF Rest, Side, Ingesting
<1>13. Clocked(x)' => Clocked(x)
  BY <1>1, <1>3, <1>6, <1>12 DEF Clocked, Ingesting
<1>14. /\ ~ wire[x].ack
       /\ side = "dialing" => /\ wire[x].up = None /\ F = wire[x].down
                              /\ phase[x]["serving"] \notin Ingesting
       /\ side = "serving" => /\ F = wire[x].up
                              /\ phase[x]["dialing"]
                                   \notin Ingesting \cup {"asked"}
  <2>1. phase[x] \in Phase
    OBVIOUS
  <2>2. CASE side = "dialing"
    <3>1. phase[x]["dialing"] = "asked" /\ F = wire[x].down
      BY <1>1, <2>2 DEF F
    <3> QED BY <1>2, <2>1, <2>2, <3>1, Waiting
  <2>3. CASE side = "serving"
    <3>1. phase[x]["serving"] = "served" /\ F = wire[x].up
      BY <1>1, <2>3 DEF F
    <3> QED BY <1>1, <1>2, <2>1, <2>3, <3>1, Waiting
  <2> QED BY <1>12, <2>2, <2>3
<1>15. Order(x)'
  <2>1. CASE side = "dialing"
    <3>1. /\ phase'[x]["dialing"] = next
          /\ phase'[x]["serving"] = phase[x]["serving"]
      BY <1>6, <2>1 DEF Side
    <3> QED BY <1>1, <1>2, <1>3, <1>12, <1>13, <1>14, <2>1, <3>1
            DEF Order, Ingesting
  <2>2. CASE side = "serving"
    <3>1. /\ phase'[x]["serving"] = next
          /\ phase'[x]["dialing"] = phase[x]["dialing"]
      BY <1>6, <2>2 DEF Side
    <3> QED BY <1>1, <1>2, <1>3, <1>12, <1>13, <1>14, <2>2, <3>1
            DEF Order, Ingesting
  <2> QED BY <1>12, <2>1, <2>2
<1>16. Known(x)'
  <2>1. BatchKnown(x, side)'
    BY <1>1, <1>4, <1>7 DEF BatchKnown, Authored
  <2>2. \A other \in Side : BatchKnown(x, other)'
    BY <1>2, <1>7, <1>10, <2>1, KnownCarries DEF Known
  <2> QED BY <1>1, <1>2, <1>10, <2>2, KnownCarries DEF Known
<1>17. Durable(x)'
  <2>1. CASE side = "dialing"
    <3>1. phase'[x]["serving"] \notin Ingesting
      BY <1>6, <1>14, <2>1 DEF Side
    <3> QED BY <1>1, <1>14, <3>1 DEF Durable
  <2>2. CASE side = "serving"
    <3>1. h = x[2]
      BY <2>2 DEF h, Host
    <3>2. F \subseteq refused'[x[2]] \cup batch'[x]["serving"]
      BY <1>7, <1>8, <2>2, <3>1
    <3> QED BY <1>1, <1>14, <2>2, <3>2 DEF Durable, Told
  <2> QED BY <1>12, <2>1, <2>2
<1>18. damaged' = {} => Gapless(x)'
  <2> SUFFICES ASSUME damaged = {}, damaged' = {} PROVE Gapless(x)'
    BY <1>1
  <2>1. Gapless(x) /\ Closed(F, h)
    BY <1>5
  <2>2. BatchClosed(x, side)'
    <3> SUFFICES ASSUME NEW o \in F \ late, NEW p \in Op, p[1] = o[1],
                        p[2] < o[2]
                 PROVE  p \in (F \ late) \cup Census(h) \cup compacted
      <4>1. h' = h /\ Census(h)' = Census(h)
        BY <1>1 DEF h, Host, Census
      <4> HIDE DEF late, Census
      <4> QED BY <1>1, <1>7, <4>1 DEF BatchClosed, Closed, h
    <3>1. o \in Op /\ o[2] \in Nat /\ p[2] \in Nat
      BY <1>3, OpFields
    <3>2. p \in F \cup Census(h) \cup compacted
      BY <2>1 DEF Closed
    <3>3. p \notin late
      <4> SUFFICES ASSUME p \in late PROVE FALSE
        OBVIOUS
      <4>1. p \in FastOps /\ ~ window
        BY DEF TooFarAhead
      <4>2. o \in FastOps
        BY <3>1, <4>1, DeltaConstants
      <4> QED BY <4>1, <4>2 DEF TooFarAhead
    <3> QED BY <3>2, <3>3
  <2>3. \A other \in Side : BatchClosed(x, other)'
    <3> HIDE DEF late
    <3> QED BY <1>7, <1>10, <2>1, <2>2, GaplessCarries DEF Gapless
  <2> QED BY <1>1, <1>10, <1>12, <1>13, <2>1, <2>3, GaplessCarries DEF Gapless
<1>19. Counted(x)'
  <2>1. phase'[x]["dialing"] \in Ingesting \cup {"asked"} =>
          /\ phase[x]["dialing"] \in Ingesting \cup {"asked"}
          /\ phase[x]["dialing"] # "idle"
    BY <1>1, <1>6, <1>12 DEF Ingesting
  <2> QED BY <1>1, <1>2, <1>9, <1>10, <1>12, <1>13, <2>1, CountedCarries
          DEF Counted
<1>20. Exchange(x)'
  BY <1>15, <1>16, <1>17, <1>18, <1>19 DEF Exchange
<1>21. Empty(x, side)' /\ phase'[x][side] # "appending"
       /\ phase[x][side] # "appending"
  BY <1>1, <1>6, <1>7 DEF Empty, next
<1>22. \A s \in Side :
         \/ phase'[x][s] = phase[x][s] /\ batch'[x][s] = batch[x][s]
         \/ /\ phase[x][s] # "appending" /\ phase'[x][s] # "appending"
            /\ Empty(x, s)'
  BY <1>6, <1>7, <1>21
<1> QED BY <1>1, <1>9, <1>10, <1>11, <1>20, <1>22, OneMoves

\* A lock that is taken or given back; the others stay as they are.
LEMMA LockMoves ==
  ASSUME IInv, NEW h \in Device,
         \A d \in Device \ {h} :
           appender'[d] = appender[d] /\ Census(d)' = Census(d),
         \A y \in Dials, s \in Side : Host(y, s) # h =>
           phase'[y][s] = phase[y][s] /\ batch'[y][s] = batch[y][s],
         \A y \in Dials, s \in Side :
           Host(y, s) = h /\ phase'[y][s] = "appending" =>
             /\ appender'[h] = <<y, s>>
             /\ \A o \in batch'[y][s] : o[1] # h /\ o \notin Census(h)',
         appender'[h] # None =>
           \E y \in Dials, s \in Side :
             /\ appender'[h] = <<y, s>> /\ Host(y, s) = h
             /\ phase'[y][s] = "appending"
  PROVE  LockOK' /\ \A y \in Dials, s \in Side : Locked(y, s)'
<1> HIDE DEF Census
<1>1. ASSUME NEW d \in Device, appender'[d] # None
      PROVE  /\ appender'[d] \in Dials \X Side
             /\ Host(appender'[d][1], appender'[d][2]) = d
             /\ phase'[appender'[d][1]][appender'[d][2]] = "appending"
  <2>1. PICK y \in Dials, s \in Side :
          /\ appender'[d] = <<y, s>> /\ Host(y, s) = d
          /\ phase'[y][s] = "appending"
    <3>1. CASE d = h
      BY <1>1, <3>1
    <3>2. CASE d # h
      <4>1. appender'[d] = appender[d] /\ appender[d] # None
        BY <1>1, <3>2
      <4>2. /\ appender[d] \in Dials \X Side
            /\ Host(appender[d][1], appender[d][2]) = d
            /\ phase[appender[d][1]][appender[d][2]] = "appending"
        BY <4>1, Parts DEF LockOK
      <4>3. /\ appender[d] = <<appender[d][1], appender[d][2]>>
            /\ appender[d][1] \in Dials /\ appender[d][2] \in Side
        BY <4>2
      <4>4. phase'[appender[d][1]][appender[d][2]] = "appending"
        BY <3>2, <4>2, <4>3
      <4> QED BY <4>1, <4>2, <4>3, <4>4
    <3> QED BY <3>1, <3>2
  <2> QED BY <2>1
<1>2. LockOK'
  BY <1>1 DEF LockOK, Host
<1>3. ASSUME NEW y \in Dials, NEW s \in Side PROVE Locked(y, s)'
  <2> DEFINE d == Host(y, s)
  <2>1. d \in Device /\ d' = d /\ Locked(y, s)
    BY Hosts DEF IInv, Host
  <2> HIDE DEF d
  <2>2. phase'[y][s] = "appending" =>
          /\ appender'[d] = <<y, s>>
          /\ \A o \in batch'[y][s] : o[1] # d /\ o \notin Census(d)'
    <3>1. CASE d = h
      BY <3>1 DEF d
    <3>2. CASE d # h
      BY <2>1, <3>2 DEF Locked, d
    <3> QED BY <3>1, <3>2
  <2> QED BY <2>1, <2>2 DEF Locked, d
<1> QED BY <1>2, <1>3

LEMMA Holder ==
  ASSUME IInv, NEW x \in Dials, NEW side \in Side,
         phase[x][side] = "appending"
  PROVE  /\ appender[Host(x, side)] = <<x, side>>
         /\ appender[Host(x, side)] # None
BY DeltaConstants DEF IInv, Locked

LEMMA DedupHolds ==
  ASSUME IInv, NEW x \in Dials, NEW side \in Side, Dedup(x, side)
  PROVE  IInv'
<1> DEFINE h == Host(x, side)
           old == batch[x][side]
           todo == {o \in old : o[1] # h /\ o \notin Census(h)}
           next == IF todo = {} THEN "ingested" ELSE "appending"
<1> USE Facts
<1>1. /\ phase[x][side] = "received" /\ appender[h] = None
      /\ Enter(x, side, next)
      /\ batch' = [batch EXCEPT ![x][side] = todo]
      /\ appender' = [appender EXCEPT
                        ![h] = IF todo = {} THEN @ ELSE <<x, side>>]
      /\ UNCHANGED <<lines, wire, floor, window, faults, landed, refused,
                     damaged, compacted>>
  BY DEF Dedup, Free, ghosts
<1>2. /\ DataOK /\ FloorIsEarned /\ Order(x) /\ Known(x) /\ Durable(x)
      /\ Counted(x) /\ h \in Device
  BY Parts, Hosts
<1>3. /\ old \in SUBSET Op /\ todo \in SUBSET Op /\ next \in Ingesting
      /\ todo \subseteq old
  BY <1>2 DEF DataOK, Ingesting
<1>4. \A o \in old : o \in todo \/ o \in landed[h]
  <2> SUFFICES ASSUME NEW o \in old, o \notin todo PROVE o \in landed[h]
    OBVIOUS
  <2>1. o \in landed[o[1]]
    BY <1>2 DEF Known, BatchKnown, Authored
  <2>2. Census(h) \subseteq landed[h]
    BY <1>2
  <2> QED BY <2>1, <2>2
<1>5. damaged = {} => Closed(old, h)
  BY DEF Gapless, BatchClosed
<1>6. damaged = {} => Closed(todo, h)
  <2> SUFFICES ASSUME Closed(old, h), NEW o \in todo, NEW p \in Op,
                      p[1] = o[1], p[2] < o[2]
               PROVE  p \in todo \cup Census(h) \cup compacted
    BY <1>5 DEF Closed
  <2>1. p \in old \cup Census(h) \cup compacted
    BY DEF Closed
  <2> QED BY <2>1
<1>7. \A o \in todo : o[1] # h /\ o \notin Census(h)
  OBVIOUS
<1>8. next = "appending" <=> todo # {}
  OBVIOUS
<1> HIDE DEF todo, h, old, next
<1>9. /\ phase' \in [Dials -> Phase] /\ phase'[x][side] = next
      /\ \A other \in Side \ {side} : phase'[x][other] = phase[x][other]
      /\ \A y \in Dials \ {x} : phase'[y] = phase[y]
  BY <1>1, <1>2, <1>3, Enters DEF Side
<1>10. /\ batch' \in [Dials -> [Side -> SUBSET Op]]
       /\ batch'[x][side] = todo
       /\ \A other \in Side \ {side} : batch'[x][other] = batch[x][other]
       /\ \A y \in Dials \ {x} : batch'[y] = batch[y]
  BY <1>1, <1>2, <1>3 DEF DataOK
<1>11. DataOK'
  BY <1>1, <1>2, <1>9, <1>10 DEF DataOK
<1>12. LogsStay /\ OthersStay(x) /\ Grows
  BY <1>1, <1>9, <1>10, StayingLogs DEF LogsStay, OthersStay
<1>13. FloorIsEarned'
  BY <1>1, <1>2, <1>11, <1>12, FloorStays
<1>14. phase[x] # Rest /\ phase'[x] # Rest /\ Side = {"dialing", "serving"}
  BY <1>1, <1>3, <1>9 DEF Rest, Side, Ingesting
<1>15. Clocked(x)' => Clocked(x)
  BY <1>1, <1>3, <1>9, <1>14 DEF Clocked, Ingesting
<1>16. /\ phase'[x]["dialing"] # phase[x]["dialing"] =>
            /\ phase[x]["dialing"] \in Ingesting
            /\ phase'[x]["dialing"] \in Ingesting
       /\ phase'[x]["serving"] # phase[x]["serving"] =>
            /\ phase[x]["serving"] \in Ingesting
            /\ phase'[x]["serving"] \in Ingesting
  BY <1>1, <1>3, <1>9, <1>14 DEF Ingesting
<1>17. Order(x)'
  BY <1>1, <1>2, <1>14, <1>15, <1>16 DEF Order, Ingesting
<1>18. Known(x)'
  <2>1. \A other \in Side : batch'[x][other] \subseteq batch[x][other]
    BY <1>3, <1>10 DEF old
  <2> QED BY <1>1, <1>2, <1>12, <2>1, KnownCarries DEF Known
<1>19. Durable(x)'
  <2>1. phase'[x]["serving"] \in Ingesting => phase[x]["serving"] \in Ingesting
    BY <1>16
  <2>2. batch[x]["serving"] \subseteq Told(x[2]) \cup batch'[x]["serving"]
    <3>1. CASE side = "dialing"
      BY <1>10, <1>14, <3>1
    <3>2. CASE side = "serving"
      BY <1>4, <1>10, <3>2 DEF Told, old, h, Host
    <3> QED BY <1>14, <3>1, <3>2
  <2>3. Told(x[2])' = Told(x[2])
    BY <1>1 DEF Told
  <2> HIDE DEF Told
  <2> QED BY <1>1, <1>2, <2>1, <2>2, <2>3 DEF Durable
<1>20. damaged' = {} => Gapless(x)'
  <2> SUFFICES ASSUME damaged = {}, damaged' = {} PROVE Gapless(x)'
    BY <1>1
  <2>1. Gapless(x) /\ Closed(todo, h)
    BY <1>6
  <2>2. BatchClosed(x, side)'
    <3>1. h' = h /\ Census(h)' = Census(h)
      BY <1>1 DEF h, Host, Census
    <3> HIDE DEF Census
    <3> QED BY <1>1, <1>10, <2>1, <3>1 DEF BatchClosed, Closed, h
  <2>3. \A other \in Side : BatchClosed(x, other)'
    BY <1>10, <1>12, <2>1, <2>2, GaplessCarries DEF Gapless
  <2> QED BY <1>1, <1>12, <1>14, <1>15, <2>1, <2>3, GaplessCarries DEF Gapless
<1>21. Counted(x)'
  <2>1. phase'[x]["dialing"] \in Ingesting \cup {"asked"} =>
          /\ phase[x]["dialing"] \in Ingesting \cup {"asked"}
          /\ phase[x]["dialing"] # "idle"
    BY <1>1, <1>9, <1>14, <1>16 DEF Ingesting
  <2> QED BY <1>1, <1>2, <1>11, <1>12, <1>14, <1>15, <2>1, CountedCarries
          DEF Counted
<1>22. Exchange(x)'
  BY <1>17, <1>18, <1>19, <1>20, <1>21 DEF Exchange
<1>23. CASE todo = {}
  <2>1. /\ \A d \in Device : appender'[d] = appender[d]
        /\ phase'[x][side] # "appending"
        /\ phase[x][side] # "appending" /\ Empty(x, side)'
    <3>1. \A d \in Device : appender'[d] = appender[d]
      BY <1>1, <1>2, <1>23 DEF DataOK
    <3>2. phase'[x][side] # "appending" /\ phase[x][side] # "appending"
      BY <1>1, <1>8, <1>9, <1>23
    <3>3. Empty(x, side)'
      BY <1>10, <1>23 DEF Empty
    <3> QED BY <3>1, <3>2, <3>3
  <2>2. \A s \in Side :
          \/ phase'[x][s] = phase[x][s] /\ batch'[x][s] = batch[x][s]
          \/ /\ phase[x][s] # "appending" /\ phase'[x][s] # "appending"
             /\ Empty(x, s)'
    BY <1>9, <1>10, <2>1
  <2> QED BY <1>11, <1>12, <1>13, <1>22, <2>1, <2>2, OneMoves
<1>24. CASE todo # {}
  <2>1. /\ phase'[x][side] = "appending" /\ appender'[h] = <<x, side>>
        /\ \A d \in Device \ {h} : appender'[d] = appender[d]
    BY <1>1, <1>2, <1>8, <1>9, <1>24 DEF DataOK
  <2>2. /\ OneLineEach' /\ NoHoles' /\ \A d \in Device : Log(d)'
        /\ \A d \in Device : Census(d)' = Census(d)
    BY <1>12, StayingLogs
  <2>3. \A y \in Dials : Exchange(y)'
    BY <1>11, <1>12, <1>22, OthersHold
  <2>4. \A y \in Dials, s \in Side : y # x \/ s # side =>
          phase'[y][s] = phase[y][s] /\ batch'[y][s] = batch[y][s]
    BY <1>9, <1>10
  <2>5. \A y \in Dials, s \in Side : Empty(y, s)'
    <3> SUFFICES ASSUME NEW y \in Dials, NEW s \in Side PROVE Empty(y, s)'
      OBVIOUS
    <3>1. Empty(y, s)
      BY Parts
    <3> QED BY <2>1, <2>4, <3>1 DEF Empty
  <2>6. \A y \in Dials, s \in Side : Host(y, s) # h =>
          phase'[y][s] = phase[y][s] /\ batch'[y][s] = batch[y][s]
    BY <2>4 DEF h
  <2>7. \A y \in Dials, s \in Side :
          Host(y, s) = h /\ phase'[y][s] = "appending" => y = x /\ s = side
    BY <1>1, <2>4, Holder
  <2>8. Host(x, side) = h
    BY DEF h
  <2>9. \A d \in Device \ {h} :
          appender'[d] = appender[d] /\ Census(d)' = Census(d)
    BY <2>1, <2>2
  <2>10. \A o \in batch'[x][side] : o[1] # h /\ o \notin Census(h)'
    BY <1>2, <1>7, <1>10, <2>2
  <2>11. LockOK' /\ \A y \in Dials, s \in Side : Locked(y, s)'
    <3> HIDE DEF Census
    <3> QED BY <1>2, <2>1, <2>6, <2>7, <2>8, <2>9, <2>10, LockMoves
  <2> QED BY <1>11, <1>13, <2>2, <2>3, <2>5, <2>11, PartsNext
<1> QED BY <1>23, <1>24

(***************************************************************************)
(* What the lines of K add to the log of h: all of an append, or what a    *)
(* crash left of one.  K leaves no hole and holds nothing that is h's own  *)
(* or is there already.                                                    *)
(***************************************************************************)
Lands(h, K) ==
  /\ lines' = [lines EXCEPT ![h] =
                 [o \in Op |-> @[o] + IF o \in K THEN 1 ELSE 0]]
  /\ landed' = [landed EXCEPT ![h] = @ \cup K]
  /\ UNCHANGED <<floor, window, refused, damaged, compacted>>

Fits(h, K) ==
  /\ Authored(K)
  /\ \A o \in K : o[1] # h /\ o \notin Census(h)
  /\ damaged = {} => Closed(K, h)

LEMMA LandsFields ==
  ASSUME DataOK, NEW h \in Device, NEW K \in SUBSET Op, Lands(h, K)
  PROVE  /\ lines' \in [Device -> [Op -> Nat]]
         /\ landed' \in [Device -> SUBSET Op]
         /\ landed'[h] = landed[h] \cup K
         /\ \A d \in Device \ {h} : landed'[d] = landed[d]
         /\ \A d \in Device : landed[d] \subseteq landed'[d]
         /\ Census(h)' = Census(h) \cup K
         /\ \A d \in Device \ {h} : Census(d)' = Census(d)
         /\ \A d \in Device : Lost(d)' = Lost(d)
<1>1. lines \in [Device -> [Op -> Nat]] /\ landed \in [Device -> SUBSET Op]
  BY DEF DataOK
<1>2. /\ lines' = [lines EXCEPT ![h] =
                     [o \in Op |-> lines[h][o] + IF o \in K THEN 1 ELSE 0]]
      /\ landed' = [landed EXCEPT ![h] = landed[h] \cup K]
      /\ damaged' = damaged
  BY DEF Lands
<1>3. /\ lines' \in [Device -> [Op -> Nat]]
      /\ lines'[h] = [o \in Op |-> lines[h][o] + IF o \in K THEN 1 ELSE 0]
      /\ \A d \in Device \ {h} : lines'[d] = lines[d]
  BY <1>1, <1>2
<1>4. /\ landed' \in [Device -> SUBSET Op]
      /\ landed'[h] = landed[h] \cup K
      /\ \A d \in Device \ {h} : landed'[d] = landed[d]
  BY <1>1, <1>2
<1>5. \A d \in Device : landed[d] \subseteq landed'[d]
  BY <1>4
<1>6. Census(h)' = Census(h) \cup K
  <2>1. \A o \in Op : lines[h][o] \in Nat /\
          lines'[h][o] = lines[h][o] + IF o \in K THEN 1 ELSE 0
    BY <1>1, <1>3
  <2>2. \A o \in Op : lines'[h][o] > 0 <=> lines[h][o] > 0 \/ o \in K
    BY <2>1
  <2> QED BY <2>2 DEF Census
<1>7. \A d \in Device \ {h} : Census(d)' = Census(d)
  BY <1>3 DEF Census
<1>8. \A d \in Device : Lost(d)' = Lost(d)
  BY <1>2 DEF Lost
<1> QED BY <1>3, <1>4, <1>5, <1>6, <1>7, <1>8

LEMMA LandsHolds ==
  ASSUME IInv, NEW h \in Device, NEW K \in SUBSET Op, Lands(h, K), Fits(h, K)
  PROVE  Grows /\ OneLineEach' /\ NoHoles' /\ \A d \in Device : Log(d)'
<1>1. DataOK /\ OneLineEach /\ NoHoles /\ \A d \in Device : Log(d)
  BY Parts
<1>2. /\ landed'[h] = landed[h] \cup K
      /\ \A d \in Device \ {h} : landed'[d] = landed[d]
      /\ \A d \in Device : landed[d] \subseteq landed'[d]
      /\ Census(h)' = Census(h) \cup K
      /\ \A d \in Device \ {h} : Census(d)' = Census(d)
  BY <1>1, LandsFields
<1>3. damaged' = damaged /\ compacted' = compacted /\ refused' = refused
  BY DEF Lands
<1>4. Grows
  BY <1>2, <1>3 DEF Grows
<1>5. OneLineEach'
  <2> SUFFICES ASSUME NEW d \in Device, NEW o \in Op PROVE lines'[d][o] <= 1
    BY DEF OneLineEach
  <2>1. lines[d][o] \in Nat /\ lines[d][o] <= 1
    BY <1>1 DEF DataOK, OneLineEach
  <2>2. CASE d = h
    <3>1. lines'[h][o] = lines[h][o] + IF o \in K THEN 1 ELSE 0
      BY <1>1 DEF DataOK, Lands
    <3>2. o \in K => ~ (lines[h][o] > 0)
      BY DEF Fits, Census
    <3> QED BY <2>1, <2>2, <3>1, <3>2
  <2>3. CASE d # h
    <3>1. lines'[d] = lines[d]
      BY <1>1, <2>3 DEF DataOK, Lands
    <3> QED BY <2>1, <3>1
  <2> QED BY <2>2, <2>3
<1> HIDE DEF Census
<1>6. NoHoles'
  <2> SUFFICES ASSUME damaged' = {}, NEW d \in Device, NEW o \in Census(d)',
                      NEW p \in Op, p[1] = o[1], p[2] < o[2]
               PROVE  p \in Census(d)' \cup compacted
    BY <1>3 DEF NoHoles
  <2>1. damaged = {}
    BY <1>3
  <2>2. CASE o \in Census(d)
    <3>1. p \in Census(d) \cup compacted
      BY <1>1, <2>1, <2>2 DEF NoHoles
    <3> QED BY <1>2, <3>1
  <2>3. CASE o \notin Census(d)
    <3>1. d = h /\ o \in K
      BY <1>2, <2>3
    <3>2. p \in K \cup Census(h) \cup compacted
      BY <2>1, <3>1 DEF Fits, Closed
    <3> QED BY <1>2, <3>1, <3>2
  <2> QED BY <2>2, <2>3
<1>7. ASSUME NEW d \in Device PROVE Log(d)'
  <2>1. Census(d)' \subseteq landed'[d]
    BY <1>1, <1>2 DEF Log
  <2>2. Authored(landed'[d])
    <3> SUFFICES ASSUME NEW o \in landed'[d] PROVE o \in landed[o[1]]
      BY DEF Authored
    <3>1. CASE o \in landed[d]
      BY <1>1, <3>1 DEF Log, Authored
    <3>2. CASE o \notin landed[d]
      <4>1. o \in K
        BY <1>2, <3>2
      <4> QED BY <4>1 DEF Fits, Authored
    <3> QED BY <3>1, <3>2
  <2>3. Authored(landed[d])'
    <3> SUFFICES ASSUME NEW o \in landed'[d] PROVE o \in landed'[o[1]]
      BY DEF Authored
    <3>1. o \in landed[o[1]]
      BY <2>2 DEF Authored
    <3>2. o[1] \in Device
      <4>1. landed' \in [Device -> SUBSET Op]
        BY <1>1, LandsFields
      <4> QED BY <4>1, OpFields
    <3> QED BY <1>2, <3>1, <3>2
  <2>4. ASSUME NEW o \in By(d, landed'[d]), NEW p \in Op, p[1] = d,
               p[2] <= o[2]
        PROVE  p \in Census(d)' \cup compacted
    <3>1. o \in By(d, landed[d])
      <4>1. o \in landed'[d] /\ o[1] = d
        BY <2>4 DEF By
      <4>2. d = h => o \notin K
        BY <4>1 DEF Fits
      <4> QED BY <1>2, <4>1, <4>2 DEF By
    <3>2. p \in Census(d) \cup compacted
      BY <1>1, <2>4, <3>1 DEF Log
    <3> QED BY <1>2, <3>2
  <2> QED BY <1>3, <2>1, <2>3, <2>4 DEF Log, By
<1> QED BY <1>4, <1>5, <1>6, <1>7

\* One author's part of a batch that is being appended.
LEMMA FileFits ==
  ASSUME IInv, NEW x \in Dials, NEW side \in Side,
         phase[x][side] = "appending", NEW a
  PROVE  Fits(Host(x, side), By(a, batch[x][side]))
<1> DEFINE h == Host(x, side)
           old == batch[x][side]
<1>1. Known(x) /\ Locked(x, side) /\ (damaged = {} => Closed(old, h))
  BY Parts DEF Exchange, Gapless, BatchClosed
<1>2. Authored(By(a, old))
  BY <1>1 DEF Known, BatchKnown, Authored, By
<1>3. \A o \in By(a, old) : o[1] # h /\ o \notin Census(h)
  BY <1>1 DEF Locked, By
<1>4. ASSUME damaged = {} PROVE Closed(By(a, old), h)
  BY <1>1, <1>4 DEF Closed, By
<1> QED BY <1>2, <1>3, <1>4 DEF Fits

LEMMA AppendFileHolds ==
  ASSUME IInv, NEW x \in Dials, NEW side \in Side, AppendFile(x, side)
  PROVE  IInv'
<1> DEFINE h == Host(x, side)
           old == batch[x][side]
<1> USE Facts
<1>1. PICK a \in {o[1] : o \in old} :
        LET file == By(a, old)
            rest == old \ file
        IN  /\ Lands(h, file)
            /\ batch' = [batch EXCEPT ![x][side] = rest]
            /\ IF rest = {}
               THEN /\ Enter(x, side, "ingested")
                    /\ appender' = [appender EXCEPT ![h] = None]
               ELSE UNCHANGED <<phase, appender>>
  BY DEF AppendFile, Lands
<1> DEFINE file == By(a, old)
           rest == old \ file
<1>2. /\ phase[x][side] = "appending" /\ UNCHANGED <<wire, faults>>
      /\ Lands(h, file)
      /\ batch' = [batch EXCEPT ![x][side] = rest]
      /\ rest = {} => /\ Enter(x, side, "ingested")
                      /\ appender' = [appender EXCEPT ![h] = None]
      /\ rest # {} => UNCHANGED <<phase, appender>>
  BY <1>1 DEF AppendFile
<1>3. /\ DataOK /\ FloorIsEarned /\ Order(x) /\ Known(x) /\ Durable(x)
      /\ Counted(x) /\ h \in Device /\ Locked(x, side)
  BY Parts, Hosts
<1>4. /\ old \in SUBSET Op /\ file \subseteq old /\ rest \subseteq old
      /\ file \in SUBSET Op /\ rest \in SUBSET Op /\ old = file \cup rest
  BY <1>3 DEF DataOK, By
<1>5. damaged = {} => Closed(old, h)
  BY DEF Gapless, BatchClosed
<1>6. Fits(h, file)
  BY <1>2, FileFits
<1>7. damaged = {} => Closed(rest, h)
  BY <1>5 DEF Closed, By
<1>8. /\ Grows /\ OneLineEach' /\ NoHoles' /\ \A d \in Device : Log(d)'
  BY <1>2, <1>3, <1>4, <1>6, LandsHolds
<1>9. /\ lines' \in [Device -> [Op -> Nat]]
      /\ landed' \in [Device -> SUBSET Op]
      /\ landed'[h] = landed[h] \cup file
      /\ \A d \in Device \ {h} : landed'[d] = landed[d]
      /\ Census(h)' = Census(h) \cup file
      /\ \A d \in Device \ {h} : Census(d)' = Census(d)
  BY <1>2, <1>3, <1>4, LandsFields
<1>10. UNCHANGED <<floor, window, refused, damaged, compacted>>
  BY <1>2 DEF Lands
<1>11. \A o \in rest : o[1] # h /\ o \notin Census(h) /\ o \notin file
  BY <1>2, <1>3, <1>4 DEF Locked
<1> HIDE DEF rest, file, h, old
<1>12. /\ phase' \in [Dials -> Phase]
       /\ phase'[x][side] = IF rest = {} THEN "ingested" ELSE "appending"
       /\ \A other \in Side \ {side} : phase'[x][other] = phase[x][other]
       /\ \A y \in Dials \ {x} : phase'[y] = phase[y]
  <2>1. CASE rest = {}
    BY <1>2, <1>3, <2>1, Enters DEF Side, Ingesting
  <2>2. CASE rest # {}
    BY <1>2, <1>3, <2>2 DEF DataOK
  <2> QED BY <2>1, <2>2
<1>13. /\ batch' \in [Dials -> [Side -> SUBSET Op]]
       /\ batch'[x][side] = rest
       /\ \A other \in Side \ {side} : batch'[x][other] = batch[x][other]
       /\ \A y \in Dials \ {x} : batch'[y] = batch[y]
  BY <1>2, <1>3, <1>4 DEF DataOK
<1>14. /\ DOMAIN appender' = Device
       /\ \A d \in Device \ {h} : appender'[d] = appender[d]
       /\ rest = {} => appender'[h] = None
       /\ rest # {} => appender'[h] = appender[h]
  BY <1>2, <1>3 DEF DataOK
<1>15. DataOK'
  BY <1>2, <1>3, <1>9, <1>10, <1>12, <1>13, <1>14 DEF DataOK
<1>16. FloorIsEarned'
  BY <1>3, <1>8, <1>10, <1>15, FloorStays
<1>17. phase[x] # Rest /\ phase'[x] # Rest /\ Side = {"dialing", "serving"}
  BY <1>2, <1>12 DEF Rest, Side
<1>18. Clocked(x)' => Clocked(x)
  BY <1>2, <1>12, <1>17 DEF Clocked
<1>19. /\ phase'[x]["dialing"] # phase[x]["dialing"] =>
            /\ phase[x]["dialing"] \in Ingesting
            /\ phase'[x]["dialing"] \in Ingesting
       /\ phase'[x]["serving"] # phase[x]["serving"] =>
            /\ phase[x]["serving"] \in Ingesting
            /\ phase'[x]["serving"] \in Ingesting
  BY <1>2, <1>12, <1>17 DEF Ingesting
<1>20. Order(x)'
  BY <1>2, <1>3, <1>17, <1>18, <1>19 DEF Order, Ingesting
<1>21. Known(x)'
  <2>1. \A other \in Side : batch'[x][other] \subseteq batch[x][other]
    BY <1>4, <1>13 DEF old
  <2> QED BY <1>2, <1>3, <1>8, <2>1, KnownCarries DEF Known
<1>22. Durable(x)'
  <2>1. phase'[x]["serving"] \in Ingesting => phase[x]["serving"] \in Ingesting
    BY <1>19
  <2>2. Told(x[2]) \subseteq Told(x[2])'
    BY Hosts, <1>8 DEF Told, Grows
  <2>3. batch[x]["serving"] \subseteq Told(x[2])' \cup batch'[x]["serving"]
    <3>1. CASE side = "dialing"
      BY <1>13, <1>17, <3>1
    <3>2. CASE side = "serving"
      BY <1>4, <1>9, <1>13, <3>2 DEF Told, old, h, Host
    <3> QED BY <1>17, <3>1, <3>2
  <2> HIDE DEF Told
  <2> QED BY <1>2, <1>3, <2>1, <2>2, <2>3 DEF Durable
<1>23. damaged' = {} => Gapless(x)'
  <2> SUFFICES ASSUME damaged = {}, damaged' = {} PROVE Gapless(x)'
    BY <1>10
  <2>1. Gapless(x) /\ Closed(rest, h)
    BY <1>7
  <2>2. BatchClosed(x, side)'
    <3>1. h' = h /\ Census(h) \subseteq Census(h)'
      BY <1>9 DEF h, Host
    <3> HIDE DEF Census
    <3> QED BY <1>10, <1>13, <2>1, <3>1 DEF BatchClosed, Closed, h
  <2>3. \A other \in Side : BatchClosed(x, other)'
    BY <1>8, <1>13, <2>1, <2>2, GaplessCarries DEF Gapless
  <2> QED BY <1>2, <1>8, <1>17, <1>18, <2>1, <2>3, GaplessCarries DEF Gapless
<1>24. Counted(x)'
  <2>1. phase'[x]["dialing"] \in Ingesting \cup {"asked"} =>
          /\ phase[x]["dialing"] \in Ingesting \cup {"asked"}
          /\ phase[x]["dialing"] # "idle"
    BY <1>2, <1>12, <1>17, <1>19 DEF Ingesting
  <2> QED BY <1>2, <1>3, <1>8, <1>15, <1>17, <1>18, <2>1, CountedCarries
          DEF Counted
<1>25. \A y \in Dials : Exchange(y)'
  <2>1. Exchange(x)'
    BY <1>20, <1>21, <1>22, <1>23, <1>24 DEF Exchange
  <2>2. OthersStay(x)
    BY <1>2, <1>12, <1>13 DEF OthersStay
  <2> QED BY <1>8, <1>15, <2>1, <2>2, OthersHold
<1>26. \A y \in Dials, s \in Side : y # x \/ s # side =>
         phase'[y][s] = phase[y][s] /\ batch'[y][s] = batch[y][s]
  BY <1>12, <1>13
<1>27. \A y \in Dials, s \in Side : Empty(y, s)'
  <2> SUFFICES ASSUME NEW y \in Dials, NEW s \in Side PROVE Empty(y, s)'
    OBVIOUS
  <2>1. Empty(y, s)
    BY Parts
  <2> QED BY <1>12, <1>13, <1>26, <2>1 DEF Empty
<1>28. LockOK' /\ \A y \in Dials, s \in Side : Locked(y, s)'
  <2>1. Host(x, side) = h /\ appender[h] = <<x, side>>
    BY <1>2, Holder DEF h
  <2>2. \A y \in Dials, s \in Side : Host(y, s) # h =>
          phase'[y][s] = phase[y][s] /\ batch'[y][s] = batch[y][s]
    BY <1>26, <2>1
  <2>3. \A y \in Dials, s \in Side :
          Host(y, s) = h /\ phase'[y][s] = "appending" => y = x /\ s = side
    BY <1>26, <2>1, Holder
  <2>4. \A o \in batch'[x][side] : o[1] # h /\ o \notin Census(h)'
    BY <1>9, <1>11, <1>13
  <2>5. rest # {} <=> phase'[x][side] = "appending"
    BY <1>12
  <2>6. appender'[h] # None =>
          appender'[h] = <<x, side>> /\ phase'[x][side] = "appending"
    BY <1>14, <2>1, <2>5
  <2>7. phase'[x][side] = "appending" => appender'[h] = <<x, side>>
    BY <1>14, <2>1, <2>5
  <2> HIDE DEF Census
  <2> QED BY <1>3, <1>9, <1>14, <2>1, <2>2, <2>3, <2>4, <2>6, <2>7, LockMoves
<1> QED BY <1>8, <1>15, <1>16, <1>25, <1>27, <1>28, PartsNext

----------------------------------------------------------------------------
\* What goes wrong, and the steps that are not about an exchange.

LEMMA AllStop ==
  ASSUME IInv, DataOK', Grows, \A y \in Dials : Stops(y)
  PROVE  \A y \in Dials : Exchange(y)'
<1> SUFFICES ASSUME NEW y \in Dials PROVE Exchange(y)'
  OBVIOUS
<1>1. DataOK /\ Exchange(y) /\ Stops(y)
  BY Parts
<1> QED BY <1>1, ExchangeStops

LEMMA KeptFrames ==
  ASSUME DataOK, wire' = Kept(wire)
  PROVE  /\ DOMAIN wire' = Dials /\ \A y \in Dials : FramesOK(wire'[y])
         /\ \A y \in Dials :
              wire'[y] = IF phase'[y] = Rest THEN NoFrames ELSE wire[y]
<1>1. /\ DOMAIN wire' = Dials
      /\ \A y \in Dials :
           wire'[y] = IF phase'[y] = Rest THEN NoFrames ELSE wire[y]
  BY DEF Kept
<1>2. FramesOK(NoFrames)
  BY DEF FramesOK, NoFrames
<1>3. \A y \in Dials : FramesOK(wire[y])
  BY DEF DataOK
<1> QED BY <1>1, <1>2, <1>3

LEMMA AppendFailsHolds ==
  ASSUME IInv, NEW x \in Dials, NEW side \in Side, AppendFails(x, side)
  PROVE  IInv'
<1> DEFINE h == Host(x, side)
<1>1. /\ faults' = faults - 1 /\ faults > 0
      /\ phase[x][side] = "appending" /\ Enter(x, side, "idle")
      /\ batch' = [batch EXCEPT ![x][side] = {}]
      /\ appender' = [appender EXCEPT ![h] = None]
      /\ wire' = Kept(wire)
      /\ UNCHANGED <<lines, floor, window, landed, refused, damaged, compacted>>
  BY DEF AppendFails, ghosts
<1>2. DataOK /\ h \in Device
  BY Parts, Hosts
<1> HIDE DEF h
<1>3. /\ phase' \in [Dials -> Phase] /\ phase'[x][side] = "idle"
      /\ \A other \in Side \ {side} : phase'[x][other] = phase[x][other]
      /\ \A y \in Dials \ {x} : phase'[y] = phase[y]
  BY <1>1, <1>2, Enters DEF Side
<1>4. /\ batch' \in [Dials -> [Side -> SUBSET Op]]
      /\ batch'[x][side] = {}
      /\ \A other \in Side \ {side} : batch'[x][other] = batch[x][other]
      /\ \A y \in Dials \ {x} : batch'[y] = batch[y]
  BY <1>1, <1>2 DEF DataOK
<1>5. /\ DOMAIN appender' = Device /\ appender'[h] = None
      /\ \A d \in Device \ {h} : appender'[d] = appender[d]
  BY <1>1, <1>2 DEF DataOK
<1>6. /\ DOMAIN wire' = Dials /\ \A y \in Dials : FramesOK(wire'[y])
      /\ \A y \in Dials :
           wire'[y] = IF phase'[y] = Rest THEN NoFrames ELSE wire[y]
  BY <1>1, <1>2, KeptFrames
<1>7. faults' \in 0..MaxFaults
  BY <1>1, <1>2, DeltaConstants DEF DataOK
<1>8. DataOK'
  BY <1>1, <1>2, <1>3, <1>4, <1>5, <1>6, <1>7 DEF DataOK
<1>9. LogsStay /\ FloorIsEarned'
  BY <1>1, QuietStep
<1>10. /\ Grows /\ OneLineEach' /\ NoHoles' /\ \A d \in Device : Log(d)'
       /\ \A d \in Device : Census(d)' = Census(d)
  BY <1>9, StayingLogs
<1>11. \A y \in Dials, s \in Side : y # x \/ s # side =>
         phase'[y][s] = phase[y][s] /\ batch'[y][s] = batch[y][s]
  BY <1>3, <1>4
<1>12. \A y \in Dials : Exchange(y)'
  <2>1. \A y \in Dials : Stops(y)
    BY <1>3, <1>4, <1>6, <1>11 DEF Stops
  <2> QED BY <1>8, <1>10, <2>1, AllStop
<1>13. \A y \in Dials, s \in Side : Empty(y, s)'
  <2> SUFFICES ASSUME NEW y \in Dials, NEW s \in Side PROVE Empty(y, s)'
    OBVIOUS
  <2>1. Empty(y, s)
    BY Parts
  <2> QED BY <1>4, <1>11, <2>1 DEF Empty
<1>14. LockOK' /\ \A y \in Dials, s \in Side : Locked(y, s)'
  <2>1. Host(x, side) = h /\ appender[h] = <<x, side>>
    BY <1>1, Holder DEF h
  <2>2. \A y \in Dials, s \in Side :
          ~ (Host(y, s) = h /\ phase'[y][s] = "appending")
    BY <1>3, <1>11, <2>1, Holder
  <2>3. \A y \in Dials, s \in Side : Host(y, s) # h =>
          phase'[y][s] = phase[y][s] /\ batch'[y][s] = batch[y][s]
    BY <1>11, <2>1
  <2> HIDE DEF Census
  <2> QED BY <1>2, <1>5, <1>10, <2>2, <2>3, LockMoves
<1> QED BY <1>8, <1>9, <1>10, <1>12, <1>13, <1>14, PartsNext

\* A crash leaves the first lines of what was being appended, or none.
LEMMA CrashLands ==
  ASSUME IInv, NEW h \in Device, Crash(h)
  PROVE  \E K \in SUBSET Op : Lands(h, K) /\ Fits(h, K)
<1>1. PICK K \in CutOff(h) : Lands(h, K)
  BY DEF Crash, Lands
<1>2. DataOK
  BY Parts
<1>3. K \in SUBSET Op /\ Fits(h, K)
  <2>1. CASE K = {}
    BY <2>1 DEF Fits, Authored, Closed
  <2>2. CASE K # {}
    <3>1. appender[h] # None
      BY <1>1, <2>2 DEF CutOff
    <3>2. PICK x \in Dials, side \in Side :
            /\ appender[h] = <<x, side>> /\ Host(x, side) = h
            /\ phase[x][side] = "appending"
      <4>1. LockOK
        BY Parts
      <4>2. /\ appender[h] \in Dials \X Side
            /\ Host(appender[h][1], appender[h][2]) = h
            /\ phase[appender[h][1]][appender[h][2]] = "appending"
        BY <3>1, <4>1 DEF LockOK
      <4>3. /\ appender[h] = <<appender[h][1], appender[h][2]>>
            /\ appender[h][1] \in Dials /\ appender[h][2] \in Side
        BY <4>2
      <4> QED BY <4>2, <4>3
    <3> DEFINE left == batch[x][side]
    <3>3. left \in SUBSET Op
      BY <1>2 DEF DataOK
    <3>4. PICK p \in left : K = {o \in left : o[1] = p[1] /\ o[2] < p[2]}
      BY <1>1, <3>1, <3>2 DEF CutOff
    <3>5. Authored(left) /\ Locked(x, side)
      BY Parts DEF Exchange, Known, BatchKnown
    <3>6. damaged = {} => Closed(left, h)
      BY <3>2, Parts DEF Exchange, Gapless, BatchClosed
    <3> HIDE DEF left
    <3>7. \A o \in left : o[1] # h /\ o \notin Census(h)
      BY <3>2, <3>5 DEF Locked, left
    <3>8. ASSUME damaged = {} PROVE Closed(K, h)
      <4> SUFFICES ASSUME NEW o \in K, NEW q \in Op, q[1] = o[1], q[2] < o[2]
                   PROVE  q \in K \cup Census(h) \cup compacted
        BY DEF Closed
      <4>1. o \in left /\ o[1] = p[1] /\ o[2] < p[2]
        BY <3>4
      <4>2. q \in left \cup Census(h) \cup compacted
        BY <3>6, <3>8, <4>1 DEF Closed
      <4>3. q[2] \in Nat /\ o[2] \in Nat /\ p[2] \in Nat
        BY <3>3, <3>4, <4>1, OpFields
      <4>4. q[1] = p[1] /\ q[2] < p[2]
        BY <4>1, <4>3
      <4> QED BY <3>4, <4>2, <4>4
    <3>9. K \subseteq left
      BY <3>4
    <3> QED BY <3>3, <3>5, <3>7, <3>8, <3>9 DEF Fits, Authored
  <2> QED BY <2>1, <2>2
<1> QED BY <1>1, <1>3

LEMMA CrashHolds ==
  ASSUME IInv, NEW h \in Device, Crash(h)
  PROVE  IInv'
<1>1. PICK K \in SUBSET Op : Lands(h, K) /\ Fits(h, K)
  BY CrashLands
<1>2. /\ faults' = faults - 1 /\ faults > 0
      /\ phase' = [x \in Dials |-> [s \in Side |->
                     IF Host(x, s) = h THEN "idle" ELSE phase[x][s]]]
      /\ batch' = [x \in Dials |-> [s \in Side |->
                     IF Host(x, s) = h THEN {} ELSE batch[x][s]]]
      /\ appender' = [appender EXCEPT ![h] = None]
      /\ wire' = Kept(wire)
      /\ UNCHANGED <<floor, window, refused, damaged, compacted>>
  BY DEF Crash
<1>3. DataOK /\ FloorIsEarned
  BY Parts
<1>4. Grows /\ OneLineEach' /\ NoHoles' /\ \A d \in Device : Log(d)'
  BY <1>1, LandsHolds
<1>5. /\ lines' \in [Device -> [Op -> Nat]]
      /\ landed' \in [Device -> SUBSET Op]
      /\ \A d \in Device \ {h} : Census(d)' = Census(d)
  BY <1>1, <1>3, LandsFields
<1>6. \A y \in Dials, s \in Side :
        /\ phase'[y][s] = IF Host(y, s) = h THEN "idle" ELSE phase[y][s]
        /\ batch'[y][s] = IF Host(y, s) = h THEN {} ELSE batch[y][s]
  BY <1>2
<1>7. phase' \in [Dials -> Phase]
  <2>1. ASSUME NEW y \in Dials PROVE phase'[y] \in Phase
    <3>1. phase'[y] = [s \in Side |->
                         IF Host(y, s) = h THEN "idle" ELSE phase[y][s]]
      BY <1>2
    <3>2. phase'[y] = [dialing |-> phase'[y]["dialing"],
                       serving |-> phase'[y]["serving"]]
      BY <3>1 DEF Side
    <3>3. /\ phase'[y]["dialing"] \in {"idle", phase[y]["dialing"]}
          /\ phase'[y]["serving"] \in {"idle", phase[y]["serving"]}
      BY <1>6 DEF Side
    <3>4. phase[y] \in Phase
      BY <1>3 DEF DataOK
    <3>5. /\ phase[y]["dialing"] \in {"idle", "asked", "received", "appending",
                                     "ingested", "pushed"}
          /\ phase[y]["serving"] \in {"idle", "called", "clocked", "served",
                                     "received", "appending", "ingested"}
      BY <3>4 DEF Phase
    <3> HIDE DEF Phase
    <3> QED BY <3>2, <3>3, <3>5 DEF Phase
  <2>2. phase' = [y \in Dials |-> phase'[y]]
    BY <1>2
  <2> HIDE DEF Phase
  <2> QED BY <2>1, <2>2
<1>8. batch' \in [Dials -> [Side -> SUBSET Op]]
  <2>1. batch \in [Dials -> [Side -> SUBSET Op]]
    BY <1>3 DEF DataOK
  <2> QED BY <1>2, <2>1
<1>9. /\ DOMAIN appender' = Device /\ appender'[h] = None
       /\ \A d \in Device \ {h} : appender'[d] = appender[d]
  BY <1>2, <1>3 DEF DataOK
<1>10. /\ DOMAIN wire' = Dials /\ \A y \in Dials : FramesOK(wire'[y])
       /\ \A y \in Dials :
            wire'[y] = IF phase'[y] = Rest THEN NoFrames ELSE wire[y]
  BY <1>2, <1>3, KeptFrames
<1>11. faults' \in 0..MaxFaults
  BY <1>2, <1>3, DeltaConstants DEF DataOK
<1>12. DataOK'
  BY <1>2, <1>3, <1>5, <1>7, <1>8, <1>9, <1>10, <1>11 DEF DataOK
<1>13. FloorIsEarned'
  BY <1>2, <1>3, <1>4, <1>12, FloorStays
<1>14. \A y \in Dials : Exchange(y)'
  <2>1. \A y \in Dials : Stops(y)
    BY <1>6, <1>10 DEF Stops
  <2> QED BY <1>4, <1>12, <2>1, AllStop
<1>15. \A y \in Dials, s \in Side : Empty(y, s)'
  <2> SUFFICES ASSUME NEW y \in Dials, NEW s \in Side PROVE Empty(y, s)'
    OBVIOUS
  <2>1. Empty(y, s)
    BY Parts
  <2> QED BY <1>6, <2>1 DEF Empty
<1>16. LockOK' /\ \A y \in Dials, s \in Side : Locked(y, s)'
  <2>1. \A y \in Dials, s \in Side : Host(y, s) # h =>
          phase'[y][s] = phase[y][s] /\ batch'[y][s] = batch[y][s]
    BY <1>6
  <2>2. \A y \in Dials, s \in Side :
          ~ (Host(y, s) = h /\ phase'[y][s] = "appending")
    BY <1>6
  <2> HIDE DEF Census
  <2> QED BY <1>5, <1>9, <2>1, <2>2, LockMoves
<1> QED BY <1>4, <1>12, <1>13, <1>14, <1>15, <1>16, PartsNext

LEMMA LogsMove ==
  ASSUME IInv, DataOK', Grows, OneLineEach', NoHoles',
         \A d \in Device : Log(d)',
         UNCHANGED <<phase, wire, batch, appender, floor>>,
         \A d \in Device : \A o \in Census(d)' : o \in Census(d) \/ o[1] = d
  PROVE  IInv'
<1>1. DataOK /\ FloorIsEarned
  BY Parts
<1>2. FloorIsEarned'
  BY <1>1, FloorStays
<1>3. \A y \in Dials : Exchange(y)'
  <2>1. ASSUME NEW y \in Dials PROVE Stops(y)
    <3>1. phase[y] = Rest => wire[y] = NoFrames
      BY Parts DEF Exchange, Order
    <3> QED BY <3>1 DEF Stops
  <2> QED BY <2>1, AllStop
<1>4. /\ LockOK'
      /\ \A y \in Dials, s \in Side : Empty(y, s)' /\ Locked(y, s)'
  <2>1. /\ \A d \in Device : appender'[d] = appender[d]
        /\ \A y \in Dials, s \in Side :
             phase'[y][s] = phase[y][s] /\ batch'[y][s] = batch[y][s]
    OBVIOUS
  <2> HIDE DEF Census
  <2> QED BY <2>1, LocksStay
<1> QED BY <1>2, <1>3, <1>4, PartsNext

LEMMA WriteHolds ==
  ASSUME IInv, NEW h \in Device, Write(h)
  PROVE  IInv'
<1> DEFINE n == Newest(By(h, landed[h]))
           o == <<h, n + 1>>
<1>1. /\ o \in Op
      /\ lines' = [lines EXCEPT ![h][o] = 1]
      /\ landed' = [landed EXCEPT ![h] = @ \cup {o}]
      /\ UNCHANGED <<phase, wire, batch, appender, floor, window, faults,
                     refused, damaged, compacted>>
  BY DEF Write
<1>2. DataOK /\ OneLineEach /\ NoHoles /\ \A d \in Device : Log(d)
  BY Parts
<1>3. lines \in [Device -> [Op -> Nat]] /\ landed \in [Device -> SUBSET Op]
  BY <1>2 DEF DataOK
<1>4. /\ n \in Nat
      /\ n # 0 => \E q \in By(h, landed[h]) : q[2] = n
  <2>1. landed[h] \in SUBSET Op
    BY <1>3
  <2> QED BY <2>1, NewestIs
<1>5. o[1] = h /\ o[2] = n + 1
  OBVIOUS
<1>6. ASSUME NEW p \in Op, p[1] = h, p[2] < o[2]
      PROVE  p \in Census(h) \cup compacted
  <2>1. p[2] \in Nat \ {0} /\ p[2] <= n
    BY <1>4, <1>5, <1>6, OpFields
  <2>2. PICK q \in By(h, landed[h]) : q[2] = n
    BY <1>4, <2>1
  <2> HIDE DEF n, o, Census
  <2> QED BY <1>2, <1>6, <2>1, <2>2 DEF Log
<1> HIDE DEF n, o
<1>7. /\ lines' \in [Device -> [Op -> Nat]]
      /\ \A d \in Device \ {h} : lines'[d] = lines[d]
      /\ lines'[h][o] = 1 /\ \A p \in Op \ {o} : lines'[h][p] = lines[h][p]
  BY <1>1, <1>3
<1>8. /\ landed' \in [Device -> SUBSET Op]
      /\ landed'[h] = landed[h] \cup {o}
      /\ \A d \in Device \ {h} : landed'[d] = landed[d]
      /\ \A d \in Device : landed[d] \subseteq landed'[d]
  BY <1>1, <1>3
<1>9. /\ Census(h)' = Census(h) \cup {o}
      /\ \A d \in Device \ {h} : Census(d)' = Census(d)
  <2>1. \A p \in Op : lines'[h][p] > 0 <=> lines[h][p] > 0 \/ p = o
    BY <1>7
  <2>2. Census(h)' = Census(h) \cup {o}
    BY <1>1, <2>1 DEF Census
  <2> QED BY <1>7, <2>2 DEF Census
<1>10. DataOK'
  BY <1>1, <1>2, <1>7, <1>8 DEF DataOK
<1>11. OneLineEach'
  <2> SUFFICES ASSUME NEW d \in Device, NEW p \in Op PROVE lines'[d][p] <= 1
    BY DEF OneLineEach
  <2> QED BY <1>2, <1>7 DEF OneLineEach
<1> HIDE DEF Census
<1>12. Grows
  BY <1>1, <1>8, <1>9 DEF Grows
<1>13. NoHoles'
  <2> SUFFICES ASSUME damaged' = {}, NEW d \in Device, NEW r \in Census(d)',
                      NEW p \in Op, p[1] = r[1], p[2] < r[2]
               PROVE  p \in Census(d)' \cup compacted
    BY <1>1 DEF NoHoles
  <2>1. CASE r \in Census(d)
    <3>1. p \in Census(d) \cup compacted
      BY <1>1, <1>2, <2>1 DEF NoHoles
    <3> QED BY <1>9, <3>1
  <2>2. CASE r \notin Census(d)
    <3>1. d = h /\ r = o
      BY <1>9, <2>2
    <3>2. p \in Census(h) \cup compacted
      BY <1>5, <1>6, <3>1
    <3> QED BY <1>9, <3>1, <3>2
  <2> QED BY <2>1, <2>2
<1>14. ASSUME NEW d \in Device PROVE Log(d)'
  <2>1. Census(d)' \subseteq landed'[d]
    BY <1>2, <1>8, <1>9 DEF Log
  <2>2. Authored(landed[d])'
    <3> SUFFICES ASSUME NEW r \in landed'[d] PROVE r \in landed'[r[1]]
      BY DEF Authored
    <3>1. CASE r \in landed[d]
      <4>1. r \in landed[r[1]] /\ r[1] \in Device
        BY <1>2, <1>3, <3>1, OpFields DEF Log, Authored
      <4> QED BY <1>8, <4>1
    <3>2. CASE r \notin landed[d]
      <4>1. r = o
        BY <1>8, <3>2
      <4> QED BY <1>5, <1>8, <4>1
    <3> QED BY <3>1, <3>2
  <2>3. ASSUME NEW r \in By(d, landed'[d]), NEW p \in Op, p[1] = d,
               p[2] <= r[2]
        PROVE  p \in Census(d)' \cup compacted
    <3>1. r \in landed'[d] /\ r[1] = d
      BY DEF By
    <3>2. CASE r \in landed[d]
      <4>1. p \in Census(d) \cup compacted
        BY <1>2, <2>3, <3>1, <3>2 DEF Log, By
      <4> QED BY <1>9, <4>1
    <3>3. CASE r \notin landed[d]
      <4>1. d = h /\ r = o
        BY <1>8, <3>1, <3>3
      <4>2. p[2] \in Nat /\ o[2] \in Nat
        BY <1>1, OpFields
      <4>3. CASE p[2] < o[2]
        BY <1>6, <1>9, <2>3, <4>1, <4>3
      <4>4. CASE p[2] = o[2]
        <5>1. p = <<p[1], p[2]>> /\ o = <<o[1], o[2]>>
          BY <1>1, OpFields
        <5>2. p = o
          BY <1>5, <2>3, <4>1, <4>4, <5>1
        <5> QED BY <1>9, <4>1, <5>2
      <4> QED BY <2>3, <4>1, <4>2, <4>3, <4>4
    <3> QED BY <3>2, <3>3
  <2> QED BY <1>1, <2>1, <2>2, <2>3 DEF Log, By
<1>15. \A d \in Device : \A r \in Census(d)' : r \in Census(d) \/ r[1] = d
  BY <1>5, <1>9
<1> QED BY <1>1, <1>10, <1>11, <1>12, <1>13, <1>14, <1>15, LogsMove

LEMMA CompactHolds ==
  ASSUME IInv, NEW h \in Device, Compact(h)
  PROVE  IInv'
<1> DEFINE drops == By(h, Census(h)) \cap Inert
<1>1. /\ faults > 0 /\ faults' = faults - 1 /\ Still(h)
      /\ lines' = [lines EXCEPT ![h] =
                     [o \in Op |-> IF o \in drops THEN 0 ELSE @[o]]]
      /\ compacted' = compacted \cup drops
      /\ UNCHANGED <<phase, wire, batch, appender, floor, window, landed,
                     refused, damaged>>
  BY DEF Compact, Still
<1>2. DataOK /\ OneLineEach /\ NoHoles /\ \A d \in Device : Log(d)
  BY Parts
<1>3. drops \subseteq Census(h) /\ drops \in SUBSET Op
  BY CensusType DEF By
<1> HIDE DEF drops
<1>4. lines \in [Device -> [Op -> Nat]]
  BY <1>2 DEF DataOK
<1>5. /\ lines' \in [Device -> [Op -> Nat]]
      /\ \A d \in Device \ {h} : lines'[d] = lines[d]
      /\ \A p \in Op : lines'[h][p] = IF p \in drops THEN 0 ELSE lines[h][p]
  BY <1>1, <1>4
<1>6. /\ Census(h)' = Census(h) \ drops
      /\ \A d \in Device \ {h} : Census(d)' = Census(d)
  BY <1>3, <1>5 DEF Census
<1>7. faults' \in 0..MaxFaults
  BY <1>1, <1>2, DeltaConstants DEF DataOK
<1>8. DataOK'
  BY <1>1, <1>2, <1>3, <1>5, <1>7 DEF DataOK
<1>9. OneLineEach'
  <2> SUFFICES ASSUME NEW d \in Device, NEW p \in Op PROVE lines'[d][p] <= 1
    BY DEF OneLineEach
  <2> QED BY <1>2, <1>5 DEF OneLineEach
<1> HIDE DEF Census, Still
<1>10. Grows
  BY <1>1, <1>6 DEF Grows
<1>11. \A d \in Device : \A p \in Census(d) \cup compacted :
         p \in Census(d)' \cup compacted'
  BY <1>1, <1>6
<1>12. \A d \in Device : Census(d)' \subseteq Census(d)
  BY <1>6
<1>13. NoHoles'
  <2> SUFFICES ASSUME damaged' = {}, NEW d \in Device, NEW r \in Census(d)',
                      NEW p \in Op, p[1] = r[1], p[2] < r[2]
               PROVE  p \in Census(d)' \cup compacted'
    BY DEF NoHoles
  <2>1. p \in Census(d) \cup compacted
    BY <1>1, <1>2, <1>12 DEF NoHoles
  <2> QED BY <1>11, <2>1
<1>14. ASSUME NEW d \in Device PROVE Log(d)'
  <2>1. Log(d) /\ landed' = landed /\ Census(d)' \subseteq Census(d)
    BY <1>1, <1>2, <1>12
  <2> QED BY <1>11, <2>1 DEF Log, Authored, By
<1> QED BY <1>1, <1>8, <1>9, <1>10, <1>12, <1>13, <1>14, LogsMove

LEMMA DamageHolds ==
  ASSUME IInv, NEW h \in Device, NEW o \in Op, Damage(h, o)
  PROVE  IInv'
<1>1. /\ faults > 0 /\ faults' = faults - 1 /\ o[1] # h
      /\ lines' = [lines EXCEPT ![h][o] = 0]
      /\ damaged' = damaged \cup {<<h, o>>}
      /\ UNCHANGED <<phase, wire, batch, appender, floor, window, landed,
                     refused, compacted>>
  BY DEF Damage
<1>2. DataOK /\ OneLineEach /\ \A d \in Device : Log(d)
  BY Parts
<1>3. lines \in [Device -> [Op -> Nat]]
  BY <1>2 DEF DataOK
<1>4. /\ lines' \in [Device -> [Op -> Nat]]
      /\ \A d \in Device \ {h} : lines'[d] = lines[d]
      /\ \A p \in Op : lines'[h][p] = IF p = o THEN 0 ELSE lines[h][p]
  BY <1>1, <1>3
<1>5. /\ Census(h)' = Census(h) \ {o}
      /\ \A d \in Device \ {h} : Census(d)' = Census(d)
  BY <1>4 DEF Census
<1>6. faults' \in 0..MaxFaults
  BY <1>1, <1>2, DeltaConstants DEF DataOK
<1>7. DataOK'
  BY <1>1, <1>2, <1>4, <1>6 DEF DataOK
<1>8. OneLineEach'
  <2> SUFFICES ASSUME NEW d \in Device, NEW p \in Op PROVE lines'[d][p] <= 1
    BY DEF OneLineEach
  <2> QED BY <1>2, <1>4 DEF OneLineEach
<1> HIDE DEF Census
<1>9. Grows
  BY <1>1, <1>5 DEF Grows
<1>10. NoHoles'
  BY <1>1 DEF NoHoles
<1>11. ASSUME NEW d \in Device PROVE Log(d)'
  <2>1. /\ Log(d) /\ landed' = landed /\ compacted' = compacted
        /\ Census(d)' \subseteq Census(d)
    BY <1>1, <1>2, <1>5
  <2>2. \A p \in Op : p[1] = d /\ p \in Census(d) => p \in Census(d)'
    BY <1>1, <1>5
  <2> QED BY <2>1, <2>2 DEF Log, Authored, By
<1>12. \A d \in Device : Census(d)' \subseteq Census(d)
  BY <1>5
<1> QED BY <1>1, <1>7, <1>8, <1>9, <1>10, <1>11, <1>12, LogsMove

LEMMA NothingMoves ==
  ASSUME IInv, window' \in BOOLEAN,
         UNCHANGED <<lines, phase, wire, batch, appender, floor, faults,
                     landed, refused, damaged, compacted>>
  PROVE  IInv'
<1>1. DataOK
  BY Parts
<1>2. DataOK'
  BY <1>1 DEF DataOK
<1>3. LogsStay
  BY DEF LogsStay
<1>4. /\ Grows /\ OneLineEach' /\ NoHoles' /\ \A d \in Device : Log(d)'
      /\ \A d \in Device : Census(d)' = Census(d)
  BY <1>3, StayingLogs
<1> HIDE DEF Census
<1> QED BY <1>2, <1>4, LogsMove
----------------------------------------------------------------------------
(***************************************************************************)
(* The invariant holds at first, every step keeps it, and so does the      *)
(* specification.                                                          *)
(***************************************************************************)
LEMMA InitHolds == Init => IInv
<1> SUFFICES ASSUME Init PROVE IInv
  OBVIOUS
<1> USE DEF Init
<1>1. \A x \in Dials : /\ phase[x] = Rest /\ wire[x] = NoFrames
                       /\ batch[x] = NoBatch
  OBVIOUS
<1>2. Rest \in Phase /\ NoBatch \in [Side -> SUBSET Op] /\ FramesOK(NoFrames)
  BY DEF Phase, Rest, NoBatch, Side, FramesOK, NoFrames
<1>3. DataOK
  <2>1. /\ phase \in [Dials -> Phase]
        /\ batch \in [Dials -> [Side -> SUBSET Op]]
        /\ DOMAIN wire = Dials /\ \A x \in Dials : FramesOK(wire[x])
    BY <1>1, <1>2
  <2>2. /\ lines \in [Device -> [Op -> Nat]]
        /\ floor \in [Device -> [Device -> [Device -> Nat]]]
    OBVIOUS
  <2>3. faults \in 0..MaxFaults
    BY DeltaConstants
  <2> HIDE DEF Phase
  <2> QED BY <2>1, <2>2, <2>3 DEF DataOK
<1>4. LockOK
  BY DEF LockOK
<1>5. \A d \in Device : Census(d) = {} /\ landed[d] = {}
  BY DEF Census
<1>6. OneLineEach /\ NoHoles /\ \A d \in Device : Log(d)
  BY <1>5 DEF OneLineEach, NoHoles, Log, Authored, By
<1>7. FloorIsEarned
  <2> SUFFICES ASSUME NEW d \in Device, NEW p \in Device, NEW a \in Device
               PROVE  0 <= Cardinality(By(a, landed[p] \cup refused[p]))
                             + Cardinality(By(a, Lost(d)))
    BY DEF FloorIsEarned
  <2>1. landed[p] \cup refused[p] \in SUBSET Op /\ Lost(d) \in SUBSET Op
    BY DEF Lost
  <2>2. /\ Cardinality(By(a, landed[p] \cup refused[p])) \in Nat
        /\ Cardinality(By(a, Lost(d))) \in Nat
    BY <2>1, ByFinite
  <2> HIDE DEF By, Lost
  <2> QED BY <2>2
<1>8. ASSUME NEW x \in Dials PROVE Exchange(x)
  <2>1. /\ phase[x]["dialing"] = "idle" /\ phase[x]["serving"] = "idle"
        /\ phase[x] = Rest /\ wire[x] = NoFrames
        /\ wire[x].down = None /\ wire[x].up = None /\ ~ wire[x].ack
        /\ \A side \in Side : batch[x][side] = {}
    BY <1>1, NoFramesFields DEF Rest, NoBatch, Side
  <2>2. ~ Clocked(x)
    BY <2>1 DEF Clocked
  <2>3. Order(x) /\ Durable(x) /\ Counted(x)
    BY <2>1, <2>2 DEF Order, Durable, Counted, Ingesting
  <2>4. Known(x) /\ Gapless(x)
    BY <2>1, <2>2 DEF Known, BatchKnown, Authored, Gapless, BatchClosed, Closed
  <2> QED BY <2>3, <2>4 DEF Exchange
<1>9. ASSUME NEW x \in Dials, NEW side \in Side
      PROVE  Empty(x, side) /\ Locked(x, side)
  BY <1>1 DEF Empty, Locked, Rest, NoBatch, Side
<1> QED BY <1>3, <1>4, <1>6, <1>7, <1>8, <1>9, Parts

LEMMA StepHolds == IInv /\ [Next]_vars => IInv'
<1> SUFFICES ASSUME IInv, [Next]_vars PROVE IInv'
  OBVIOUS
<1>1. ASSUME NEW x \in Dials, Work(x) PROVE IInv'
  BY <1>1, DialHolds, PushHolds, SyncedHolds, SendClockHolds, SendOpsHolds,
     ConfirmHolds, ReceiveHolds, DedupHolds, AppendFileHolds, DialFailsHolds,
     ServeFailsHolds DEF Work
<1>2. ASSUME NEW x \in Dials, LoseConnection(x) PROVE IInv'
  BY <1>2, LoseConnectionHolds
<1>3. ASSUME NEW x \in Dials, NEW side \in Side, AppendFails(x, side)
      PROVE  IInv'
  BY <1>3, AppendFailsHolds
<1>4. ASSUME NEW d \in Device, Write(d) PROVE IInv'
  BY <1>4, WriteHolds
<1>5. ASSUME NEW d \in Device, Compact(d) PROVE IInv'
  BY <1>5, CompactHolds
<1>6. ASSUME NEW d \in Device, Crash(d) PROVE IInv'
  BY <1>6, CrashHolds
<1>7. ASSUME NEW d \in Device, NEW o \in Op, Damage(d, o) PROVE IInv'
  BY <1>7, DamageHolds
<1>8. ASSUME WindowPasses PROVE IInv'
  BY <1>8, NothingMoves DEF WindowPasses, ghosts
<1>9. ASSUME UNCHANGED vars PROVE IInv'
  <2>1. window \in BOOLEAN
    BY Parts DEF DataOK
  <2> QED BY <1>9, <2>1, NothingMoves DEF vars, ghosts
<1> QED BY <1>1, <1>2, <1>3, <1>4, <1>5, <1>6, <1>7, <1>8, <1>9 DEF Next

\* The invariant is one, for every number of devices, exchanges and faults.
THEOREM Invariance == Spec => []IInv
<1>1. Init => IInv
  BY InitHolds
<1>2. IInv /\ [Next]_vars => IInv'
  BY StepHolds
<1> QED BY <1>1, <1>2, PTL DEF Spec

(***************************************************************************)
(* The types, and that whoever holds a device's append lock is one ingest  *)
(* of that device in the middle of its append.                             *)
(***************************************************************************)
THEOREM TypeCorrect == Spec => []TypeOK
<1>1. IInv => TypeOK
  BY DEF IInv
<1> QED BY <1>1, Invariance, PTL

(***************************************************************************)
(* No operation ever has two lines on a disk: the dedup of                 *)
(* write_deduped_batch and the append it guards are one critical section.  *)
(***************************************************************************)
THEOREM NoDoubleLines == Spec => []OneLineEach
<1>1. IInv => OneLineEach
  BY DEF IInv
<1> QED BY <1>1, Invariance, PTL

(***************************************************************************)
(* While no line is damaged, every log holds a prefix of each author but   *)
(* for what compaction dropped (the cutoff per actor of a snapshot).       *)
(***************************************************************************)
THEOREM PrefixesStay == Spec => []NoHoles
<1>1. IInv => NoHoles
  BY DEF IInv
<1> QED BY <1>1, Invariance, PTL

\* What ACK_DURABLE confirms is on the responder's disk or was refused there.
THEOREM AcksAreTrue == Spec => []ConfirmedIsDurable
<1>1. IInv => ConfirmedIsDurable
  BY DEF IInv, Exchange, Durable, Told, ConfirmedIsDurable
<1> QED BY <1>1, Invariance, PTL

(***************************************************************************)
(* sync-pending.json never overstates: a floor counts at most what the     *)
(* peer was given and what this device lost to damage.                     *)
(***************************************************************************)
THEOREM FloorsAreEarned == Spec => []FloorIsEarned
<1>1. IInv => FloorIsEarned
  BY DEF IInv
<1> QED BY <1>1, Invariance, PTL

----------------------------------------------------------------------------
(***************************************************************************)
(* How the exchange implements LogExchange, liveness apart.  One more fact *)
(* is needed: what was compacted had been written.                         *)
(***************************************************************************)
CompactedWritten == Authored(compacted)

\* The steps that touch a log.
LEMMA LogSteps ==
  ASSUME [Next]_vars
  PROVE  \/ \E x \in Dials, side \in Side : AppendFile(x, side)
         \/ \E d \in Device : Write(d) \/ Crash(d) \/ Compact(d)
         \/ \E d \in Device, o \in Op : Damage(d, o)
         \/ UNCHANGED <<lines, landed, compacted>>
<1> DEFINE Quietly == UNCHANGED <<lines, landed, compacted>>
<1>1. ASSUME NEW x \in Dials, Work(x)
      PROVE  Quietly \/ \E side \in Side : AppendFile(x, side)
  <2>1. Dial(x) => Quietly
    BY DEF Dial, ghosts
  <2>2. Push(x) => Quietly
    BY DEF Push, ghosts
  <2>3. Synced(x) => Quietly
    BY DEF Synced, ghosts
  <2>4. SendClock(x) => Quietly
    BY DEF SendClock, ghosts
  <2>5. SendOps(x) => Quietly
    BY DEF SendOps, ghosts
  <2>6. Confirm(x) => Quietly
    BY DEF Confirm, ghosts
  <2>7. \A side \in Side : Receive(x, side) \/ Dedup(x, side) => Quietly
    BY DEF Receive, Dedup, ghosts
  <2>8. DialFails(x) => Quietly
    BY DEF DialFails, ghosts
  <2>9. ServeFails(x) => Quietly
    BY DEF ServeFails, ghosts
  <2> HIDE DEF Quietly
  <2> QED BY <1>1, <2>1, <2>2, <2>3, <2>4, <2>5, <2>6, <2>7, <2>8, <2>9 DEF Work
<1>2. ASSUME NEW x \in Dials, LoseConnection(x) PROVE Quietly
  BY <1>2 DEF LoseConnection, ghosts
<1>3. ASSUME NEW x \in Dials, NEW side \in Side, AppendFails(x, side)
      PROVE  Quietly
  BY <1>3 DEF AppendFails, ghosts
<1>4. ASSUME WindowPasses PROVE Quietly
  BY <1>4 DEF WindowPasses, ghosts
<1>5. ASSUME UNCHANGED vars PROVE Quietly
  BY <1>5 DEF vars, ghosts
<1> HIDE DEF Quietly
<1>6. \/ \E x \in Dials : Work(x)
      \/ \E x \in Dials : LoseConnection(x)
      \/ \E x \in Dials, side \in Side : AppendFails(x, side)
      \/ \E d \in Device : Write(d) \/ Crash(d) \/ Compact(d)
      \/ \E d \in Device, o \in Op : Damage(d, o)
      \/ WindowPasses \/ UNCHANGED vars
  BY DEF Next
<1> QED BY <1>1, <1>2, <1>3, <1>4, <1>5, <1>6 DEF Quietly

LEMMA CompactedStays ==
  IInv /\ CompactedWritten /\ [Next]_vars => CompactedWritten'
<1> SUFFICES ASSUME IInv, CompactedWritten, [Next]_vars
             PROVE  CompactedWritten'
  OBVIOUS
<1>1. IInv' /\ DataOK /\ DataOK'
  BY StepHolds, Parts, PartsNext
<1>2. \A d \in Device : landed[d] \subseteq landed'[d]
  <2>1. ASSUME NEW h \in Device, NEW K \in SUBSET Op, Lands(h, K)
        PROVE  \A d \in Device : landed[d] \subseteq landed'[d]
    BY <1>1, <2>1, LandsFields
  <2>2. ASSUME NEW x \in Dials, NEW side \in Side, AppendFile(x, side)
        PROVE  \A d \in Device : landed[d] \subseteq landed'[d]
    BY <1>1, <2>2 DEF AppendFile, DataOK
  <2>3. ASSUME NEW d \in Device, Write(d)
        PROVE  \A e \in Device : landed[e] \subseteq landed'[e]
    BY <1>1, <2>3 DEF Write, DataOK
  <2>4. ASSUME NEW d \in Device, Crash(d)
        PROVE  \A e \in Device : landed[e] \subseteq landed'[e]
    BY <2>1, <2>4, CrashLands
  <2>5. \A d \in Device : Compact(d) => landed' = landed
    BY DEF Compact
  <2>6. \A d \in Device, o \in Op : Damage(d, o) => landed' = landed
    BY DEF Damage
  <2> QED BY <2>2, <2>3, <2>4, <2>5, <2>6, LogSteps
<1>3. \A o \in compacted' : o \in compacted \/ o \in landed[o[1]]
  <2>1. ASSUME NEW d \in Device, Compact(d), NEW o \in compacted',
               o \notin compacted
        PROVE  o \in landed[o[1]]
    <3>1. o[1] = d /\ o \in Census(d)
      BY <2>1 DEF Compact, By
    <3>2. Census(d) \subseteq landed[d]
      BY Parts DEF Log
    <3> QED BY <3>1, <3>2
  <2>2. \A x \in Dials, side \in Side :
          AppendFile(x, side) => compacted' = compacted
    BY DEF AppendFile
  <2>3. \A d \in Device : Write(d) \/ Crash(d) => compacted' = compacted
    BY DEF Write, Crash
  <2>4. \A d \in Device, o \in Op : Damage(d, o) => compacted' = compacted
    BY DEF Damage
  <2> QED BY <2>1, <2>2, <2>3, <2>4, LogSteps
<1> SUFFICES ASSUME NEW o \in compacted' PROVE o \in landed'[o[1]]
  BY DEF CompactedWritten, Authored
<1>4. o \in landed[o[1]]
  BY <1>3 DEF CompactedWritten, Authored
<1>5. o[1] \in Device
  BY <1>1, OpFields DEF DataOK
<1> QED BY <1>2, <1>4, <1>5

LEMMA WrittenIs ==
  ASSUME NEW o
  PROVE  /\ o \in Written <=> \E d \in Device : o[1] = d /\ o \in landed[d]
         /\ o \in Written' <=> \E d \in Device : o[1] = d /\ o \in landed'[d]
BY DEF Written, By

Holding == [d \in Device |-> Census(d)]

LEMMA LandsLearns ==
  ASSUME IInv, NEW h \in Device, NEW K \in SUBSET Op, Lands(h, K), Fits(h, K)
  PROVE  \/ Promise!Learn(h, K)
         \/ Written' = Written /\ Holding' = Holding
<1>1. /\ landed'[h] = landed[h] \cup K
      /\ \A d \in Device \ {h} : landed'[d] = landed[d]
      /\ Census(h)' = Census(h) \cup K
      /\ \A d \in Device \ {h} : Census(d)' = Census(d)
  BY Parts, LandsFields
<1>2. Written' = Written
  <2>1. ASSUME NEW o PROVE o \in Written' <=> o \in Written
    <3>1. \A d \in Device :
            o[1] = d => (o \in landed'[d] <=> o \in landed[d])
      BY <1>1 DEF Fits
    <3> QED BY <3>1, WrittenIs
  <2> QED BY <2>1
<1>3. \A o \in K : o \in Written
  <2> SUFFICES ASSUME NEW o \in K PROVE o \in Written
    OBVIOUS
  <2>1. o \in landed[o[1]] /\ o[1] \in Device
    BY OpFields DEF Fits, Authored
  <2> QED BY <2>1, WrittenIs
<1> HIDE DEF Census
<1>4. Holding' = [Holding EXCEPT ![h] = @ \cup K]
  BY <1>1 DEF Holding
<1>5. CASE K = {}
  <2>1. Holding' = Holding
    BY <1>1, <1>5 DEF Holding
  <2> QED BY <1>2, <2>1
<1>6. CASE K # {}
  <2>1. \A o \in K : o \in Written \ Holding[h] /\ o[1] # h
    BY <1>3 DEF Fits, Holding
  <2> QED BY <1>2, <1>4, <1>6, <2>1 DEF Promise!Learn, Holding
<1> QED BY <1>5, <1>6

LEMMA WriteWrites ==
  ASSUME IInv, CompactedWritten, NEW h \in Device, Write(h)
  PROVE  Promise!Write(h)
<1> DEFINE n == Newest(By(h, landed[h]))
           o == <<h, n + 1>>
<1>1. /\ o \in Op
      /\ lines' = [lines EXCEPT ![h][o] = 1]
      /\ landed' = [landed EXCEPT ![h] = @ \cup {o}]
  BY DEF Write
<1>2. /\ lines \in [Device -> [Op -> Nat]] /\ landed \in [Device -> SUBSET Op]
      /\ Log(h)
  BY Parts DEF DataOK
<1>3. /\ n \in Nat /\ \A q \in By(h, landed[h]) : q[2] <= n
      /\ n # 0 => \E q \in By(h, landed[h]) : q[2] = n
  <2>1. landed[h] \in SUBSET Op
    BY <1>2
  <2> QED BY <2>1, NewestIs
<1>4. o[1] = h /\ o[2] = n + 1
  OBVIOUS
<1>5. /\ Census(h)' = Census(h) \cup {o}
      /\ \A d \in Device \ {h} : Census(d)' = Census(d)
  <2> HIDE DEF o
  <2>1. /\ \A p \in Op : lines'[h][p] = IF p = o THEN 1 ELSE lines[h][p]
        /\ \A d \in Device \ {h} : lines'[d] = lines[d]
    BY <1>1, <1>2
  <2>2. \A p \in Op : lines'[h][p] > 0 <=> lines[h][p] > 0 \/ p = o
    BY <2>1
  <2>3. Census(h)' = Census(h) \cup {o}
    BY <1>1, <2>2 DEF Census
  <2> QED BY <2>1, <2>3 DEF Census
<1> HIDE DEF n, o, Census
<1>6. o \notin Written
  <2> SUFFICES ASSUME o \in Written PROVE FALSE
    OBVIOUS
  <2>1. o \in By(h, landed[h])
    BY <1>4, WrittenIs DEF By
  <2> QED BY <1>3, <1>4, <2>1
<1>7. ASSUME NEW p \in Op \ Written, p[1] = h PROVE o[2] <= p[2]
  <2> SUFFICES ASSUME ~ (o[2] <= p[2]) PROVE FALSE
    OBVIOUS
  <2>1. p[2] \in Nat \ {0} /\ p[2] <= n
    BY <1>3, <1>4, OpFields
  <2>2. PICK q \in By(h, landed[h]) : q[2] = n
    BY <1>3, <2>1
  <2>3. p \in Census(h) \cup compacted
    BY <1>2, <1>7, <2>1, <2>2 DEF Log
  <2>4. p \in landed[h]
    BY <1>2, <1>7, <2>3 DEF Log, CompactedWritten, Authored
  <2> QED BY <1>7, <2>4, WrittenIs
<1>8. Written' = Written \cup {o}
  <2>1. ASSUME NEW p PROVE p \in Written' <=> p \in Written \cup {o}
    <3>1. \A d \in Device :
            p \in landed'[d] <=> p \in landed[d] \/ (d = h /\ p = o)
      BY <1>1, <1>2
    <3> QED BY <1>4, <3>1, WrittenIs
  <2> QED BY <2>1
<1>9. Holding' = [Holding EXCEPT ![h] = @ \cup {o}]
  BY <1>5 DEF Holding
<1> QED BY <1>1, <1>4, <1>6, <1>7, <1>8, <1>9 DEF Promise!Write, Holding

LEMMA DropsForget ==
  ASSUME IInv, NEW h \in Device, NEW S \in SUBSET Op, S # {},
         S \subseteq Census(h), landed' = landed,
         Census(h)' = Census(h) \ S,
         \A d \in Device \ {h} : Census(d)' = Census(d)
  PROVE  Promise!Forget(h, S)
<1>1. Written' = Written
  BY DEF Written
<1> HIDE DEF Census
<1>2. Holding' = [Holding EXCEPT ![h] = @ \ S]
  BY DEF Holding
<1> QED BY <1>1, <1>2 DEF Promise!Forget, Holding

LEMMA StepSimulates ==
  IInv /\ CompactedWritten /\ [Next]_vars => [Promise!Next]_(Promise!vars)
<1> SUFFICES ASSUME IInv, CompactedWritten, [Next]_vars
             PROVE  Promise!Next \/ (Written' = Written /\ Holding' = Holding)
  BY DEF Promise!vars, Holding
<1>1. lines \in [Device -> [Op -> Nat]]
  BY Parts DEF DataOK
<1>2. ASSUME NEW x \in Dials, NEW side \in Side, AppendFile(x, side)
      PROVE  Promise!Next \/ (Written' = Written /\ Holding' = Holding)
  <2>1. PICK a : Lands(Host(x, side), By(a, batch[x][side]))
    BY <1>2 DEF AppendFile, Lands
  <2>2. /\ Fits(Host(x, side), By(a, batch[x][side]))
        /\ By(a, batch[x][side]) \in SUBSET Op
        /\ Host(x, side) \in Device
    <3>1. DataOK /\ phase[x][side] = "appending"
      BY <1>2, Parts DEF AppendFile
    <3>2. By(a, batch[x][side]) \in SUBSET Op
      BY <3>1 DEF DataOK, By
    <3> QED BY <3>1, <3>2, FileFits, Hosts
  <2> QED BY <2>1, <2>2, LandsLearns DEF Promise!Next
<1>3. ASSUME NEW h \in Device, Crash(h)
      PROVE  Promise!Next \/ (Written' = Written /\ Holding' = Holding)
  BY <1>3, CrashLands, LandsLearns DEF Promise!Next
<1>4. ASSUME NEW h \in Device, Write(h) PROVE Promise!Next
  BY <1>4, WriteWrites DEF Promise!Next
<1>5. ASSUME NEW h \in Device, Compact(h) PROVE Promise!Next
  <2> DEFINE drops == By(h, Census(h)) \cap Inert
  <2>1. /\ drops # {} /\ landed' = landed
        /\ lines' = [lines EXCEPT ![h] =
                       [o \in Op |-> IF o \in drops THEN 0 ELSE @[o]]]
    BY <1>5 DEF Compact
  <2>2. drops \subseteq Census(h) /\ drops \in SUBSET Op
    BY CensusType DEF By
  <2> HIDE DEF drops
  <2>3. /\ \A d \in Device \ {h} : lines'[d] = lines[d]
        /\ \A p \in Op : lines'[h][p] = IF p \in drops THEN 0 ELSE lines[h][p]
    BY <1>1, <2>1
  <2>4. /\ Census(h)' = Census(h) \ drops
        /\ \A d \in Device \ {h} : Census(d)' = Census(d)
    BY <2>2, <2>3 DEF Census
  <2> HIDE DEF Census
  <2>5. Promise!Forget(h, drops)
    BY <2>1, <2>2, <2>4, DropsForget
  <2> QED BY <2>2, <2>5 DEF Promise!Next
<1>6. ASSUME NEW h \in Device, NEW o \in Op, Damage(h, o) PROVE Promise!Next
  <2>1. /\ lines' = [lines EXCEPT ![h][o] = 0] /\ landed' = landed
        /\ o \in Census(h)
    BY <1>6 DEF Damage, Census
  <2>2. /\ \A d \in Device \ {h} : lines'[d] = lines[d]
        /\ \A p \in Op : lines'[h][p] = IF p = o THEN 0 ELSE lines[h][p]
    BY <1>1, <2>1
  <2>3. /\ Census(h)' = Census(h) \ {o}
        /\ \A d \in Device \ {h} : Census(d)' = Census(d)
    BY <2>2 DEF Census
  <2> HIDE DEF Census
  <2>4. Promise!Forget(h, {o})
    BY <2>1, <2>3, DropsForget
  <2> QED BY <2>4 DEF Promise!Next
<1>7. ASSUME UNCHANGED <<lines, landed>>
      PROVE  Written' = Written /\ Holding' = Holding
  BY <1>7 DEF Written, Holding, Census
<1> QED BY <1>2, <1>3, <1>4, <1>5, <1>6, <1>7, LogSteps

(***************************************************************************)
(* The safety part of ImplementsLogExchange: the exchange starts as        *)
(* LogExchange does and every step of it is one of LogExchange's or none,  *)
(* so that no peer ever writes to a device's own log.                      *)
(***************************************************************************)
THEOREM ExchangeKeepsThePromise ==
  Spec => Promise!Init /\ [][Promise!Next]_(Promise!vars)
<1>1. Init => IInv /\ CompactedWritten
  BY InitHolds DEF Init, CompactedWritten, Authored
<1>2. IInv /\ CompactedWritten /\ [Next]_vars => (IInv /\ CompactedWritten)'
  BY StepHolds, CompactedStays
<1>3. Init => Promise!Init
  <2> SUFFICES ASSUME Init PROVE Promise!Init
    OBVIOUS
  <2>1. \A d \in Device : Census(d) = {} /\ landed[d] = {}
    BY DEF Init, Census
  <2>2. Written = {}
    BY <2>1 DEF Written, By
  <2> QED BY <2>1, <2>2 DEF Promise!Init
<1> QED BY <1>1, <1>2, <1>3, StepSimulates, PTL DEF Spec
============================================================================

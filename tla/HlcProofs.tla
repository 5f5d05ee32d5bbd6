------------------------------ MODULE HlcProofs ------------------------------
(***************************************************************************)
(* Theorems about Hlc, for every width of the two counters, every skew     *)
(* window, every behaviour of the wall clock and any number of actors and  *)
(* operations.                                                             *)
(***************************************************************************)
EXTENDS Hlc, TLAPS

----------------------------------------------------------------------------
\* The order of timestamps.

HasLargest(S) == \E t \in S : \A u \in S : u = t \/ Before(u, t)

LEMMA StampFields ==
  ASSUME NEW t \in Stamp
  PROVE  /\ t.ms \in Nat /\ t.ms <= MaxMs
         /\ t.logical \in Nat /\ t.logical <= MaxLogical
         /\ t.actor \in Int
<1>1. /\ t.ms \in 0..MaxMs /\ t.logical \in 0..MaxLogical /\ t.actor \in Actor
  BY DEF Stamp
<1>2. MaxMs \in Nat /\ MaxLogical \in Nat /\ Actor \subseteq Int
  BY HlcConstants
<1>3. t.actor \in Int
  BY <1>1, <1>2
<1>4. t.ms \in Nat /\ t.ms <= MaxMs
  BY <1>1, <1>2
<1>5. t.logical \in Nat /\ t.logical <= MaxLogical
  BY <1>1, <1>2
<1> QED BY <1>3, <1>4, <1>5

\* Hlc::cmp is a total order.
LEMMA BeforeOrders ==
  ASSUME NEW s \in Stamp, NEW t \in Stamp, NEW u \in Stamp
  PROVE  /\ s = t \/ Before(s, t) \/ Before(t, s)
         /\ Before(s, t) /\ Before(t, u) => Before(s, u)
         /\ ~ (Before(s, t) /\ Before(t, s))
<1>1. s.ms = t.ms /\ s.logical = t.logical /\ s.actor = t.actor => s = t
  BY DEF Stamp
<1> QED BY <1>1, StampFields DEF Before, Behind

LEMMA LargestIsLargest ==
  ASSUME NEW S, HasLargest(S)
  PROVE  /\ Largest(S) \in S
         /\ \A u \in S : u = Largest(S) \/ Before(u, Largest(S))
BY DEF HasLargest, Largest

LEMMA LargestOfTwo ==
  ASSUME NEW s \in Stamp, NEW t \in Stamp
  PROVE  HasLargest({s, t})
BY BeforeOrders DEF HasLargest

(***************************************************************************)
(* One more timestamp does not take the largest elements away.  The log    *)
(* grows by one operation at a time, so this stands for an induction over  *)
(* finite sets.                                                            *)
(***************************************************************************)
LEMMA LargestGrows ==
  ASSUME NEW D \in SUBSET Stamp, NEW x \in Stamp,
         \A S \in SUBSET D : S # {} => HasLargest(S)
  PROVE  \A S \in SUBSET (D \cup {x}) : S # {} => HasLargest(S)
<1> SUFFICES ASSUME NEW S \in SUBSET (D \cup {x}), S # {}
             PROVE  HasLargest(S)
  OBVIOUS
<1>1. CASE x \notin S
  BY <1>1
<1>2. CASE S = {x}
  BY <1>2 DEF HasLargest
<1>3. CASE x \in S /\ S # {x}
  <2>1. S \ {x} \in SUBSET D /\ S \ {x} # {}
    BY <1>3
  <2>2. PICK t \in S \ {x} : \A u \in S \ {x} : u = t \/ Before(u, t)
    BY <2>1 DEF HasLargest
  <2>3. t \in Stamp
    BY <2>1, <2>2
  <2>4. CASE Before(t, x)
    <3>1. ASSUME NEW u \in S PROVE u = x \/ Before(u, x)
      <4>1. u \in Stamp
        OBVIOUS
      <4> QED BY <4>1, <2>2, <2>3, <2>4, BeforeOrders
    <3> QED BY <3>1, <1>3 DEF HasLargest
  <2>5. CASE ~ Before(t, x)
    <3>1. x = t \/ Before(x, t)
      BY <2>3, <2>5, BeforeOrders
    <3> QED BY <3>1, <2>2 DEF HasLargest
  <2> QED BY <2>4, <2>5
<1> QED BY <1>1, <1>2, <1>3

----------------------------------------------------------------------------
(***************************************************************************)
(* The inductive invariant.  Comparable lets Largest be taken of any part  *)
(* of the log.  Full: the clock stands at the end of its range only if it  *)
(* has met that timestamp, so the carry that would put it back has a       *)
(* larger one behind it.  Met is what RecordedUnlessClamped rests on.      *)
(* ClockCovers: the clock is not behind what this process has met.         *)
(***************************************************************************)
ClockCovers == Exhausted(high) \/ ~ Behind(clock, high)

Comparable == \A S \in SUBSET disk : S # {} => HasLargest(S)

Full == clock.ms = MaxMs /\ clock.logical = MaxLogical => Exhausted(high)

Met == clamped \/ \A t \in mem : t = high \/ Before(t, high)

IInv == TypeOK /\ Comparable /\ ClockCovers /\ Full /\ Met

\* The clocks and the readings of the wall.
LEMMA ReadingFields ==
  ASSUME NEW s \in Reading
  PROVE  /\ s.ms \in Nat /\ s.ms <= MaxMs
         /\ s.logical \in Nat /\ s.logical <= MaxLogical
BY HlcConstants DEF Reading

LEMMA WallFacts ==
  ASSUME TypeOK
  PROVE  /\ Now \in Nat /\ Now <= MaxMs
         /\ wall # Unreadable => wall \in Nat /\ wall <= MaxMs /\ Now = wall
         /\ MaxMs \in Nat /\ MaxLogical \in Nat /\ Skew \in Nat
BY HlcConstants DEF TypeOK, Now

(***************************************************************************)
(* Tick goes up, also when the counter is full, unless it stands at the    *)
(* end of its range.                                                       *)
(***************************************************************************)
LEMMA TickRises ==
  ASSUME TypeOK, NEW s \in Reading
  PROVE  /\ Tick(s) \in Reading
         /\ ~ (s.ms = MaxMs /\ s.logical = MaxLogical) => Behind(s, Tick(s))
<1>1. /\ s.ms \in Nat /\ s.ms <= MaxMs
      /\ s.logical \in Nat /\ s.logical <= MaxLogical
  BY ReadingFields
<1>2. /\ Now \in Nat /\ Now <= MaxMs /\ MaxMs \in Nat /\ MaxLogical \in Nat
  BY WallFacts
<1>3. CASE Now > s.ms
  BY <1>1, <1>2, <1>3 DEF Tick, Reading, Behind
<1>4. CASE ~ (Now > s.ms) /\ s.logical < MaxLogical
  <2>1. Tick(s) = [s EXCEPT !.logical = s.logical + 1]
    BY <1>4 DEF Tick
  <2> QED BY <1>1, <1>2, <1>4, <2>1 DEF Reading, Behind
<1>5. CASE ~ (Now > s.ms) /\ ~ (s.logical < MaxLogical)
  <2>1. Tick(s) = [ms |-> Capped(s.ms + 1), logical |-> 0]
    BY <1>5 DEF Tick
  <2> QED BY <1>1, <1>2, <1>5, <2>1 DEF Reading, Behind, Capped
<1> QED BY <1>3, <1>4, <1>5

\* Raising a clock puts it behind neither of the two.
LEMMA RaiseCovers ==
  ASSUME NEW s \in Reading, NEW t \in Stamp
  PROVE  /\ RaiseTo(s, t) \in Reading
         /\ ~ Behind(RaiseTo(s, t), t) /\ ~ Behind(RaiseTo(s, t), s)
         /\ \/ RaiseTo(s, t) = s
            \/ RaiseTo(s, t) = [ms |-> t.ms, logical |-> t.logical]
BY ReadingFields, StampFields DEF RaiseTo, Reading, Behind

LEMMA StampedFacts ==
  ASSUME NEW s \in Reading
  PROVE  /\ Stamped(s) \in Stamp
         /\ Stamped(s).ms = s.ms /\ Stamped(s).logical = s.logical
BY HlcConstants DEF Stamped, Stamp, Reading

\* The largest of what was met and of what is issued now.
LEMMA HighRises ==
  ASSUME NEW h \in Stamp, NEW S \in SUBSET Stamp, HasLargest({h} \cup S)
  PROVE  LET g == Largest({h} \cup S)
         IN  /\ g \in Stamp
             /\ \A t \in S \cup {h} : t = g \/ Before(t, g)
             /\ g \in S \cup {h}
BY LargestIsLargest
----------------------------------------------------------------------------
\* A seed, and what it puts behind the clock.
LEMMA SeedFacts ==
  ASSUME TypeOK, Comparable, NEW s \in Reading
  PROVE  /\ Seeded(s) \in Reading
         /\ Covered \subseteq disk
         /\ \A t \in Covered : ~ Behind(Seeded(s), t)
         /\ ~ Behind(Seeded(s), s)
         /\ Seeded(s).ms = MaxMs /\ Seeded(s).logical = MaxLogical =>
              \/ s = Seeded(s)
              \/ \E t \in Covered : Exhausted(t)
<1>0. /\ disk \subseteq Stamp
      /\ wall # Unreadable => wall \in Nat /\ wall <= MaxMs
      /\ MaxMs \in Nat /\ MaxLogical \in Nat /\ Skew \in Nat
  BY WallFacts DEF TypeOK
<1>1. CASE disk = {}
  BY <1>1, ReadingFields DEF Seeded, SeedClamps, Covered, Behind
<1>2. CASE disk # {}
  <2> DEFINE top == Largest(disk)
  <2>1. /\ top \in disk /\ top \in Stamp
        /\ \A u \in disk : u = top \/ Before(u, top)
    BY <1>0, <1>2, LargestIsLargest DEF Comparable
  <2>2. Seeded(s) = RaiseTo(s, Clamp(top))
    BY <1>2 DEF Seeded
  <2>3. SeedClamps <=> TooFarAhead(top)
    BY <1>2 DEF SeedClamps
  <2>4. /\ top.ms \in Nat /\ top.ms <= MaxMs
        /\ top.logical \in Nat /\ top.logical <= MaxLogical
    BY <2>1, StampFields
  <2> HIDE DEF top
  <2>5. CASE TooFarAhead(top)
    <3>1. /\ wall \in Nat /\ wall + Skew < top.ms
      BY <1>0, <2>4, <2>5 DEF TooFarAhead
    <3>2. Clamp(top) = [top EXCEPT !.ms = wall + Skew, !.logical = 0]
      <4>1. Capped(wall + Skew) = wall + Skew
        BY <1>0, <2>4, <3>1 DEF Capped
      <4> QED BY <2>5, <4>1 DEF Clamp
    <3>3. /\ Clamp(top) \in Stamp
          /\ Clamp(top).ms = wall + Skew /\ Clamp(top).logical = 0
      <4>1. wall + Skew \in 0..MaxMs /\ 0 \in 0..MaxLogical
        BY <1>0, <2>4, <3>1
      <4> QED BY <2>1, <3>2, <4>1 DEF Stamp
    <3>4. Covered = {t \in disk : t.ms < wall + Skew}
      BY <2>3, <2>5 DEF Covered
    <3>5. /\ Seeded(s) \in Reading
          /\ ~ Behind(Seeded(s), Clamp(top)) /\ ~ Behind(Seeded(s), s)
          /\ \/ Seeded(s) = s
             \/ Seeded(s) = [ms |-> wall + Skew, logical |-> 0]
      BY <2>2, <3>3, RaiseCovers
    <3>6. Seeded(s).ms \in Nat /\ wall + Skew <= Seeded(s).ms
      BY <3>1, <3>3, <3>5, <1>0, ReadingFields DEF Behind
    <3>7. ASSUME NEW t \in Covered PROVE ~ Behind(Seeded(s), t)
      <4>1. t \in Stamp /\ t.ms < wall + Skew
        BY <1>0, <3>4
      <4> QED BY <4>1, <3>1, <3>6, <1>0, StampFields DEF Behind
    <3>8. ~ (wall + Skew = MaxMs)
      BY <1>0, <2>4, <3>1
    <3> QED BY <3>4, <3>5, <3>7, <3>8
  <2>6. CASE ~ TooFarAhead(top)
    <3>1. Clamp(top) = top /\ Covered = disk
      BY <2>3, <2>6 DEF Clamp, Covered
    <3>2. /\ Seeded(s) \in Reading
          /\ ~ Behind(Seeded(s), top) /\ ~ Behind(Seeded(s), s)
          /\ \/ Seeded(s) = s
             \/ Seeded(s) = [ms |-> top.ms, logical |-> top.logical]
      BY <2>1, <2>2, <3>1, RaiseCovers
    <3>3. ASSUME NEW t \in disk PROVE ~ Behind(Seeded(s), t)
      <4>1. t \in Stamp /\ (t = top \/ Before(t, top))
        BY <1>0, <2>1
      <4> QED BY <4>1, <2>4, <3>2, StampFields, ReadingFields
              DEF Before, Behind
    <3>4. Seeded(s).ms = MaxMs /\ Seeded(s).logical = MaxLogical =>
            s = Seeded(s) \/ Exhausted(top)
      BY <3>2 DEF Exhausted
    <3> QED BY <2>1, <3>1, <3>2, <3>3, <3>4
  <2> QED BY <2>5, <2>6
<1> QED BY <1>1, <1>2

\* Covered, with one timestamp more, has a largest one.
LEMMA CoveredLargest ==
  ASSUME TypeOK, Comparable, NEW h \in Stamp
  PROVE  HasLargest({h} \cup Covered)
<1>1. disk \in SUBSET Stamp /\ Covered \subseteq disk
  BY SeedFacts DEF TypeOK, Covered
<1>2. \A S \in SUBSET (disk \cup {h}) : S # {} => HasLargest(S)
  BY <1>1, LargestGrows DEF Comparable
<1> QED BY <1>1, <1>2

\* Not behind t, so not behind what sorts before t.
LEMMA BehindFollows ==
  ASSUME NEW s \in Reading, NEW t \in Stamp, NEW u \in Stamp,
         ~ Behind(s, t), u = t \/ Before(u, t)
  PROVE  ~ Behind(s, u)
BY StampFields, ReadingFields DEF Before, Behind

\* Nothing sorts after the last timestamp but in the actor.
LEMMA ExhaustedStays ==
  ASSUME NEW t \in Stamp, NEW g \in Stamp, t = g \/ Before(t, g), Exhausted(t)
  PROVE  Exhausted(g)
BY StampFields DEF Before, Behind, Exhausted
----------------------------------------------------------------------------
Ended(s) == s.ms = MaxMs /\ s.logical = MaxLogical

(***************************************************************************)
(* What a tick and what a seed do to the clock and to the largest          *)
(* timestamp met.  S is what is observed on the way.                       *)
(***************************************************************************)
LEMMA TickCovers ==
  ASSUME TypeOK, NEW r \in Reading, NEW u \in Stamp,
         ~ Behind(r, u), ~ Ended(r)
  PROVE  /\ ~ Behind(Tick(r), u)
         /\ Before(u, Stamped(Tick(r)))
<1>1. Tick(r) \in Reading /\ Behind(r, Tick(r))
  BY TickRises DEF Ended
<1>2. /\ Stamped(Tick(r)).ms = Tick(r).ms
      /\ Stamped(Tick(r)).logical = Tick(r).logical
  BY <1>1, StampedFacts
<1> HIDE DEF Tick
<1> QED BY <1>1, <1>2, ReadingFields, StampFields DEF Behind, Before

LEMMA IssueStep ==
  ASSUME TypeOK, NEW r \in Reading, NEW S \in SUBSET Stamp,
         Exhausted(high) \/ ~ Behind(r, high),
         \A u \in S : ~ Behind(r, u),
         Ended(r) => \E u \in S \cup {high} : Exhausted(u),
         HasLargest({high} \cup (S \cup {Stamped(Tick(r))}))
  PROVE  LET n == Stamped(Tick(r))
             g == Largest({high} \cup (S \cup {n}))
         IN  /\ Tick(r) \in Reading /\ n \in Stamp /\ g \in Stamp
             /\ Exhausted(g) \/ ~ Behind(Tick(r), g)
             /\ Ended(Tick(r)) => Exhausted(g)
             /\ \A t \in S \cup {high, n} : t = g \/ Before(t, g)
<1> DEFINE n == Stamped(Tick(r))
           g == Largest({high} \cup (S \cup {n}))
<1>1. /\ Tick(r) \in Reading /\ n \in Stamp
      /\ n.ms = Tick(r).ms /\ n.logical = Tick(r).logical
  BY TickRises, StampedFacts
<1>2. high \in Stamp
  BY DEF TypeOK
<1>3. /\ g \in Stamp /\ g \in S \cup {high, n}
      /\ \A t \in S \cup {high, n} : t = g \/ Before(t, g)
  <2>1. S \cup {n} \in SUBSET Stamp
    BY <1>1
  <2> QED BY <1>2, <2>1, HighRises
<1> HIDE DEF n, g
<1>4. Ended(Tick(r)) => Exhausted(g)
  <2>1. Ended(Tick(r)) => Exhausted(n)
    BY <1>1 DEF Ended, Exhausted
  <2> QED BY <2>1, <1>1, <1>3, ExhaustedStays
<1>5. Exhausted(g) \/ ~ Behind(Tick(r), g)
  <2>1. CASE Ended(r)
    BY <2>1, <1>2, <1>3, ExhaustedStays
  <2>2. CASE ~ Ended(r)
    <3>1. CASE g = n
      BY <3>1, <1>1, ReadingFields DEF Behind
    <3>2. CASE g # n
      BY <3>2, <2>2, <1>2, <1>3, TickCovers
    <3> QED BY <3>1, <3>2
  <2> QED BY <2>1, <2>2
<1> QED BY <1>1, <1>3, <1>4, <1>5 DEF n, g

LEMMA SeedStep ==
  ASSUME TypeOK, Comparable, NEW s \in Reading, NEW h \in Stamp,
         Exhausted(h) \/ ~ Behind(s, h), Ended(s) => Exhausted(h)
  PROVE  LET g == Largest({h} \cup Covered)
         IN  /\ Seeded(s) \in Reading /\ g \in Stamp
             /\ Exhausted(g) \/ ~ Behind(Seeded(s), g)
             /\ Ended(Seeded(s)) => Exhausted(g)
             /\ ~ SeedClamps => \A t \in disk : t = g \/ Before(t, g)
<1> DEFINE g == Largest({h} \cup Covered)
<1>1. /\ Seeded(s) \in Reading
      /\ \A t \in Covered : ~ Behind(Seeded(s), t)
      /\ ~ Behind(Seeded(s), s)
      /\ Ended(Seeded(s)) => s = Seeded(s) \/ \E t \in Covered : Exhausted(t)
  BY SeedFacts DEF Ended
<1>2. Covered \in SUBSET Stamp
  BY SeedFacts DEF TypeOK
<1>3. /\ g \in Stamp /\ g \in Covered \cup {h}
      /\ \A t \in Covered \cup {h} : t = g \/ Before(t, g)
  BY <1>2, CoveredLargest, HighRises
<1>4. ~ SeedClamps => Covered = disk
  BY DEF Covered
<1> HIDE DEF g
<1>5. Ended(Seeded(s)) => Exhausted(g)
  BY <1>1, <1>2, <1>3, ExhaustedStays
<1>6. Exhausted(g) \/ ~ Behind(Seeded(s), g)
  <2>1. ~ Behind(s, h) => ~ Behind(Seeded(s), h)
    BY <1>1, ReadingFields, StampFields DEF Behind
  <2> QED BY <2>1, <1>1, <1>2, <1>3, ExhaustedStays
<1> QED BY <1>1, <1>3, <1>4, <1>5, <1>6 DEF g

\* Larger than the largest so far, so than everything below that.
LEMMA MetGrows ==
  ASSUME NEW g \in Stamp, NEW h \in Stamp, h = g \/ Before(h, g),
         NEW S \in SUBSET Stamp, \A t \in S : t = h \/ Before(t, h)
  PROVE  \A t \in S : t = g \/ Before(t, g)
<1> SUFFICES ASSUME NEW t \in S PROVE t = g \/ Before(t, g)
  OBVIOUS
<1>1. t \in Stamp
  OBVIOUS
<1> QED BY <1>1, BeforeOrders

LEMMA LargestOfThree ==
  ASSUME NEW s \in Stamp, NEW t \in Stamp, NEW u \in Stamp
  PROVE  HasLargest({s, t, u})
<1>1. \A S \in SUBSET {s, t} : S # {} => HasLargest(S)
  <2> SUFFICES ASSUME NEW S \in SUBSET {s, t}, S # {} PROVE HasLargest(S)
    OBVIOUS
  <2>1. S = {s, s} \/ S = {t, t} \/ S = {s, t}
    OBVIOUS
  <2> QED BY <2>1, LargestOfTwo
<1>2. \A S \in SUBSET ({s, t} \cup {u}) : S # {} => HasLargest(S)
  <2>1. {s, t} \in SUBSET Stamp
    OBVIOUS
  <2> QED BY <1>1, <2>1, LargestGrows
<1>3. {s, t, u} = {s, t} \cup {u}
  OBVIOUS
<1> QED BY <1>2, <1>3

----------------------------------------------------------------------------
\* The steps.

LEMMA InitHolds == Init => IInv
<1> SUFFICES ASSUME Init PROVE IInv
  OBVIOUS
<1> USE DEF Init
<1>1. MaxMs \in Nat /\ MaxLogical \in Nat /\ Me \in Actor
  BY HlcConstants
<1>2. TypeOK
  <2>1. 0 \in 0..MaxMs /\ 0 \in 0..MaxLogical
    BY <1>1
  <2>2. clock \in Reading
    BY <2>1 DEF Reading
  <2>3. high \in Stamp
    BY <1>1, <2>1 DEF Stamp, Zero
  <2> QED BY <2>2, <2>3 DEF TypeOK
<1>3. Comparable /\ Met
  BY DEF Comparable, Met
<1>4. ClockCovers
  BY DEF ClockCovers, Behind, Zero
<1>5. Full
  BY DEF Full, Exhausted, Zero
<1> QED BY <1>2, <1>3, <1>4, <1>5 DEF IInv

LEMMA WriteHolds == IInv /\ Write => IInv'
<1> SUFFICES ASSUME IInv, Write PROVE IInv'
  OBVIOUS
<1> DEFINE n == Stamped(Tick(clock))
<1>1. /\ TypeOK /\ Comparable /\ ClockCovers /\ Full /\ Met
      /\ clock \in Reading /\ high \in Stamp
  BY DEF IInv, TypeOK
<1>2. /\ clock' = Tick(clock) /\ mem' = mem \cup {n}
      /\ disk' \in {disk, disk \cup {n}} /\ high' = Largest({high, n})
      /\ wall' = wall /\ clamped' = clamped
  BY DEF Write
<1>3. n \in Stamp
  BY <1>1, TickRises, StampedFacts
<1>4. {high} \cup ({} \cup {n}) = {high, n}
  OBVIOUS
<1>5. /\ Tick(clock) \in Reading /\ high' \in Stamp
      /\ Exhausted(high') \/ ~ Behind(Tick(clock), high')
      /\ Ended(Tick(clock)) => Exhausted(high')
      /\ \A t \in {high, n} : t = high' \/ Before(t, high')
  <2>1. HasLargest({high} \cup ({} \cup {n}))
    BY <1>1, <1>3, <1>4, LargestOfTwo
  <2>2. Ended(clock) => Exhausted(high)
    BY <1>1 DEF Full, Ended
  <2>3. Exhausted(high) \/ ~ Behind(clock, high)
    BY <1>1 DEF ClockCovers
  <2>4. PICK S \in SUBSET Stamp : S = {}
    OBVIOUS
  <2>5. /\ HasLargest({high} \cup (S \cup {n}))
        /\ \A u \in S : ~ Behind(clock, u)
        /\ Ended(clock) => \E u \in S \cup {high} : Exhausted(u)
    BY <2>1, <2>2, <2>4
  <2>6. high' = Largest({high} \cup (S \cup {n}))
    BY <1>2, <1>4, <2>4
  <2>7. {high, n} \subseteq S \cup {high, n}
    OBVIOUS
  <2> QED BY <1>1, <2>3, <2>5, <2>6, <2>7, IssueStep
<1> HIDE DEF n
<1>6. TypeOK'
  BY <1>1, <1>2, <1>3, <1>5 DEF TypeOK
<1>7. Comparable'
  BY <1>1, <1>2, <1>3, LargestGrows DEF Comparable, TypeOK
<1>8. ClockCovers' /\ Full'
  BY <1>2, <1>5 DEF ClockCovers, Full, Ended
<1>9. Met'
  BY <1>1, <1>2, <1>5, MetGrows DEF Met, TypeOK
<1> QED BY <1>6, <1>7, <1>8, <1>9 DEF IInv

LEMMA PullHolds ==
  ASSUME NEW t \in Stamp
  PROVE  IInv /\ Pull(t) => IInv'
<1> SUFFICES ASSUME IInv, Pull(t) PROVE IInv'
  OBVIOUS
<1> DEFINE r == RaiseTo(clock, t)
           n == Stamped(Tick(r))
<1>1. /\ TypeOK /\ Comparable /\ ClockCovers /\ Full /\ Met
      /\ clock \in Reading /\ high \in Stamp
  BY DEF IInv, TypeOK
<1>2. /\ clock' = Tick(r) /\ mem' = mem \cup {t}
      /\ disk' = disk /\ high' = Largest({high, t, n})
      /\ wall' = wall /\ clamped' = clamped
  BY DEF Pull
<1>3. /\ r \in Reading /\ ~ Behind(r, t) /\ ~ Behind(r, clock)
      /\ r = clock \/ r = [ms |-> t.ms, logical |-> t.logical]
  BY <1>1, RaiseCovers
<1> HIDE DEF r
<1>4. n \in Stamp
  BY <1>1, <1>3, TickRises, StampedFacts
<1>5. {high} \cup ({t} \cup {n}) = {high, t, n}
  OBVIOUS
<1>6. /\ Tick(r) \in Reading /\ high' \in Stamp
      /\ Exhausted(high') \/ ~ Behind(Tick(r), high')
      /\ Ended(Tick(r)) => Exhausted(high')
      /\ \A u \in {high, t} : u = high' \/ Before(u, high')
  <2>1. HasLargest({high} \cup ({t} \cup {n}))
    BY <1>1, <1>4, <1>5, LargestOfThree
  <2>2. Ended(r) => Exhausted(high) \/ Exhausted(t)
    BY <1>1, <1>3 DEF Full, Ended, Exhausted
  <2>3. Exhausted(high) \/ ~ Behind(r, high)
    BY <1>1, <1>3, ReadingFields, StampFields DEF ClockCovers, Behind
  <2> HIDE DEF n
  <2> QED BY <1>1, <1>2, <1>3, <1>5, <2>1, <2>2, <2>3, IssueStep DEF n
<1> HIDE DEF n
<1>7. TypeOK'
  BY <1>1, <1>2, <1>6 DEF TypeOK
<1>8. Comparable'
  BY <1>1, <1>2 DEF Comparable
<1>9. ClockCovers' /\ Full'
  BY <1>2, <1>6 DEF ClockCovers, Full, Ended
<1>10. Met'
  BY <1>1, <1>2, <1>6, MetGrows DEF Met, TypeOK
<1> QED BY <1>7, <1>8, <1>9, <1>10 DEF IInv

LEMMA ArriveHolds ==
  ASSUME NEW t \in Stamp
  PROVE  IInv /\ Arrive(t) => IInv'
<1> SUFFICES ASSUME IInv, Arrive(t) PROVE IInv'
  OBVIOUS
<1> USE DEF IInv, Arrive
<1>1. TypeOK'
  BY DEF TypeOK
<1>2. Comparable'
  BY LargestGrows DEF Comparable, TypeOK
<1> QED BY <1>1, <1>2 DEF ClockCovers, Full, Met

LEMMA ReloadHolds == IInv /\ Reload => IInv'
<1> SUFFICES ASSUME IInv, Reload PROVE IInv'
  OBVIOUS
<1>1. /\ TypeOK /\ Comparable /\ ClockCovers /\ Full /\ Met
      /\ clock \in Reading /\ high \in Stamp
  BY DEF IInv, TypeOK
<1>2. /\ clock' = Seeded(clock) /\ mem' = disk /\ disk' = disk
      /\ high' = Largest({high} \cup Covered) /\ wall' = wall
      /\ clamped' = (clamped \/ SeedClamps)
  BY DEF Reload
<1>3. /\ clock' \in Reading /\ high' \in Stamp
      /\ Exhausted(high') \/ ~ Behind(clock', high')
      /\ Ended(clock') => Exhausted(high')
      /\ ~ SeedClamps => \A t \in disk : t = high' \/ Before(t, high')
  <2>1. Ended(clock) => Exhausted(high)
    BY <1>1 DEF Full, Ended
  <2>2. Exhausted(high) \/ ~ Behind(clock, high)
    BY <1>1 DEF ClockCovers
  <2> QED BY <1>1, <1>2, <2>1, <2>2, SeedStep
<1>4. SeedClamps \in BOOLEAN
  BY DEF SeedClamps
<1>5. TypeOK'
  BY <1>1, <1>2, <1>3, <1>4 DEF TypeOK
<1>6. Comparable' /\ ClockCovers' /\ Full' /\ Met'
  BY <1>1, <1>2, <1>3 DEF Comparable, ClockCovers, Full, Met, Ended
<1> QED BY <1>5, <1>6 DEF IInv

LEMMA BootHolds == IInv /\ Boot => IInv'
<1> SUFFICES ASSUME IInv, Boot PROVE IInv'
  OBVIOUS
<1> DEFINE s == [ms |-> 0, logical |-> 0]
<1>1. TypeOK /\ Comparable
  BY DEF IInv
<1>2. /\ clock' = Seeded(s) /\ mem' = disk /\ disk' = disk
      /\ high' = Largest({Zero} \cup Covered) /\ wall' = wall
      /\ clamped' = SeedClamps
  BY DEF Boot
<1>3. /\ s \in Reading /\ Zero \in Stamp /\ ~ Behind(s, Zero)
      /\ Ended(s) => Exhausted(Zero)
  BY HlcConstants DEF Reading, Stamp, Zero, Behind, Ended, Exhausted
<1> HIDE DEF s
<1>4. /\ clock' \in Reading /\ high' \in Stamp
      /\ Exhausted(high') \/ ~ Behind(clock', high')
      /\ Ended(clock') => Exhausted(high')
      /\ ~ SeedClamps => \A t \in disk : t = high' \/ Before(t, high')
  BY <1>1, <1>2, <1>3, SeedStep
<1>5. SeedClamps \in BOOLEAN
  BY DEF SeedClamps
<1>6. TypeOK'
  BY <1>1, <1>2, <1>4, <1>5 DEF TypeOK
<1>7. Comparable' /\ ClockCovers' /\ Full' /\ Met'
  BY <1>1, <1>2, <1>4 DEF Comparable, ClockCovers, Full, Met, Ended
<1> QED BY <1>6, <1>7 DEF IInv

LEMMA StepHolds == IInv /\ [Next]_vars => IInv'
<1> SUFFICES ASSUME IInv, [Next]_vars PROVE IInv'
  OBVIOUS
<1>1. CASE WallMoves
  <2> USE <1>1 DEF WallMoves, IInv
  <2>1. TypeOK'
    BY DEF TypeOK
  <2> QED BY <2>1 DEF Comparable, ClockCovers, Full, Met
<1>2. CASE Write
  BY <1>2, WriteHolds
<1>3. CASE \E t \in Stamp : t.actor # Me /\ (Pull(t) \/ Arrive(t))
  BY <1>3, PullHolds, ArriveHolds
<1>4. CASE Reload
  BY <1>4, ReloadHolds
<1>5. CASE Boot
  BY <1>5, BootHolds
<1>6. CASE UNCHANGED vars
  BY <1>6 DEF vars, IInv, TypeOK, Comparable, ClockCovers, Full, Met
<1> QED BY <1>1, <1>2, <1>3, <1>4, <1>5, <1>6 DEF Next

----------------------------------------------------------------------------
\* The inductive invariant holds in every reachable state.
THEOREM Invariance == Spec => []IInv
BY InitHolds, StepHolds, PTL DEF Spec

\* The type invariant: no tick, raise or seed leaves an integer's width.
THEOREM TypeCorrect == Spec => []TypeOK
<1>1. IInv => TypeOK
  BY DEF IInv
<1> QED BY <1>1, Invariance, PTL

\* The clock is never behind what this process issued, observed or was
\* seeded with, whatever the wall clock does, until that is the largest
\* timestamp there is (hlc.rs: tick, raise_to).
THEOREM ClockStaysAhead == Spec => []ClockCovers
<1>1. IInv => ClockCovers
  BY DEF IInv
<1> QED BY <1>1, Invariance, PTL

\* A tick in a state that has not met the largest timestamp issues a later one.
LEMMA WriteRises ==
  ASSUME IInv, Write, ~ Exhausted(high)
  PROVE  /\ Before(high, Stamped(clock'))
         /\ Stamped(clock') \in Stamp
<1>1. TypeOK /\ clock \in Reading /\ high \in Stamp /\ clock' = Tick(clock)
  BY DEF IInv, TypeOK, Write
<1>2. ~ Behind(clock, high) /\ ~ Ended(clock)
  BY DEF IInv, ClockCovers, Full, Ended
<1> QED BY <1>1, <1>2, TickCovers, TickRises, StampedFacts

\* Every timestamp issued is later than all of those, until the last one.
THEOREM IssuesAscend == Spec => IssuesRise
<1>1. IInv /\ [Next]_vars =>
        [Write /\ ~ Exhausted(high) => Before(high, Stamped(clock'))]_vars
  BY WriteRises
<1> QED BY <1>1, Invariance, PTL DEF Spec, IssuesRise

\* No edit is taken for a repeated one in a process whose seed was not clamped.
THEOREM EditsAreRecorded == Spec => RecordedUnlessClamped
<1>1. IInv /\ [Next]_vars =>
        [Write /\ ~ Exhausted(high) /\ ~ clamped
           => Stamped(clock') \notin mem]_vars
  <2> SUFFICES ASSUME IInv, Write, ~ Exhausted(high), ~ clamped,
                      Stamped(clock') \in mem
               PROVE  FALSE
    OBVIOUS
  <2> DEFINE n == Stamped(clock')
  <2>1. n = high \/ Before(n, high)
    BY DEF IInv, Met
  <2>2. Before(high, n) /\ n \in Stamp /\ high \in Stamp
    BY WriteRises DEF IInv, TypeOK
  <2> HIDE DEF n
  <2> QED BY <2>1, <2>2, BeforeOrders
<1> QED BY <1>1, Invariance, PTL DEF Spec, RecordedUnlessClamped
----------------------------------------------------------------------------
\* A seed raises the clock to no more than the end of the skew window.
LEMMA SeedInWindow ==
  ASSUME TypeOK, Comparable, NEW s \in Reading, wall # Unreadable
  PROVE  Seeded(s).ms <= s.ms \/ Seeded(s).ms <= wall + Skew
<1>1. /\ wall \in Nat /\ wall <= MaxMs /\ MaxMs \in Nat /\ Skew \in Nat
      /\ disk \subseteq Stamp /\ s.ms \in Nat
  BY WallFacts, ReadingFields DEF TypeOK
<1>2. CASE disk = {}
  BY <1>1, <1>2 DEF Seeded
<1>3. CASE disk # {}
  <2> DEFINE top == Largest(disk)
  <2>1. top \in Stamp
    BY <1>1, <1>3, LargestIsLargest DEF Comparable
  <2>2. Seeded(s) = RaiseTo(s, Clamp(top))
    BY <1>3 DEF Seeded
  <2> HIDE DEF top
  <2>3. Seeded(s).ms = s.ms \/ Seeded(s).ms = Clamp(top).ms
    BY <2>2 DEF RaiseTo
  <2>4. Clamp(top).ms <= wall + Skew
    <3>1. CASE TooFarAhead(top)
      <4>1. Clamp(top) = [top EXCEPT !.ms = Capped(wall + Skew), !.logical = 0]
        BY <3>1 DEF Clamp
      <4>2. Clamp(top).ms = Capped(wall + Skew)
        BY <2>1, <4>1 DEF Stamp
      <4>3. Capped(wall + Skew) <= wall + Skew
        BY <1>1 DEF Capped
      <4> QED BY <4>2, <4>3
    <3>2. CASE ~ TooFarAhead(top)
      <4>1. top.ms \in Nat /\ ~ (top.ms - wall > Skew)
        BY <2>1, <3>2, StampFields DEF TooFarAhead
      <4> QED BY <1>1, <3>2, <4>1 DEF Clamp
    <3> QED BY <3>1, <3>2
  <2> QED BY <1>1, <2>3, <2>4
<1> QED BY <1>2, <1>3

\* A pull the gate lets through moves the clock to the end of the window at
\* most, and its tick to the millisecond after that if the counter is full.
LEMMA PullInWindow ==
  ASSUME TypeOK, NEW t \in Stamp, Pull(t), wall # Unreadable
  PROVE  \/ clock'.ms <= clock.ms \/ clock'.ms <= wall + Skew
         \/ clock'.logical = 0 /\ clock'.ms - 1 <= wall + Skew
         \/ clock'.logical = 0 /\ clock'.ms - 1 <= clock.ms
<1> DEFINE r == RaiseTo(clock, t)
<1>1. /\ wall \in Nat /\ Now = wall /\ MaxMs \in Nat /\ Skew \in Nat
      /\ clock \in Reading /\ clock.ms \in Nat
  BY WallFacts, ReadingFields DEF TypeOK
<1>2. t.ms \in Nat /\ t.ms <= wall + Skew
  <2>1. ~ (t.ms - wall > Skew)
    BY DEF Pull, TooFarAhead
  <2> QED BY <1>1, <2>1, StampFields
<1>3. /\ r \in Reading
      /\ r.ms = clock.ms \/ r.ms = t.ms
  BY <1>1, RaiseCovers
<1>4. clock' = Tick(r)
  BY DEF Pull
<1>5. r.ms \in Nat
  BY <1>3, ReadingFields
<1> HIDE DEF r
<1>6. CASE Now > r.ms
  <2>1. clock'.ms = Now
    BY <1>4, <1>6 DEF Tick
  <2> QED BY <1>1, <2>1
<1>7. CASE ~ (Now > r.ms) /\ r.logical < MaxLogical
  <2>1. clock' = [r EXCEPT !.logical = @ + 1]
    BY <1>4, <1>7 DEF Tick
  <2>2. clock'.ms = r.ms
    BY <1>3, <2>1 DEF Reading
  <2> QED BY <1>1, <1>2, <1>3, <2>2
<1>8. CASE ~ (Now > r.ms) /\ ~ (r.logical < MaxLogical)
  <2>1. clock'.ms = Capped(r.ms + 1) /\ clock'.logical = 0
    BY <1>4, <1>8 DEF Tick
  <2>2. Capped(r.ms + 1) \in Nat /\ Capped(r.ms + 1) <= r.ms + 1
    BY <1>1, <1>5 DEF Capped
  <2>3. clock'.ms - 1 <= r.ms
    BY <1>5, <2>1, <2>2
  <2> QED BY <1>1, <1>2, <1>3, <1>5, <2>1, <2>2, <2>3
<1> QED BY <1>6, <1>7, <1>8

\* No other device's timestamp takes this one out of the window its peers
\* accept, but for the carry.
THEOREM RaisesAreBounded == Spec => RaisesStayInWindow
<1> DEFINE Bounded ==
      \/ clock'.ms <= clock.ms \/ clock'.ms <= wall + Skew
      \/ clock'.logical = 0 /\ clock'.ms - 1 <= wall + Skew
      \/ clock'.logical = 0 /\ clock'.ms - 1 <= clock.ms
<1>1. ASSUME IInv, wall # Unreadable, Boot PROVE clock'.ms <= wall + Skew
  <2> DEFINE s == [ms |-> 0, logical |-> 0]
  <2>1. s \in Reading /\ s.ms = 0
    BY HlcConstants DEF Reading
  <2>2. clock' = Seeded(s)
    BY <1>1 DEF Boot
  <2>3. /\ TypeOK /\ Comparable /\ wall \in Nat /\ Skew \in Nat
        /\ wall # Unreadable
    BY <1>1, WallFacts DEF IInv
  <2>4. clock'.ms <= 0 \/ clock'.ms <= wall + Skew
    <3> HIDE DEF s
    <3> QED BY <2>1, <2>2, <2>3, SeedInWindow
  <2>5. clock'.ms \in Nat
    <3> HIDE DEF s
    <3> QED BY <2>1, <2>2, <2>3, SeedFacts, ReadingFields
  <2> QED BY <2>3, <2>4, <2>5
<1>2. ASSUME IInv, wall # Unreadable, Reload PROVE Bounded
  <2>1. TypeOK /\ Comparable /\ clock \in Reading /\ clock' = Seeded(clock)
    BY <1>2 DEF IInv, TypeOK, Reload
  <2> QED BY <1>2, <2>1, SeedInWindow
<1>3. ASSUME IInv, wall # Unreadable, NEW t \in Stamp, Pull(t) PROVE Bounded
  BY <1>3, PullInWindow DEF IInv
<1>4. IInv =>
        [wall # Unreadable =>
           /\ Boot => clock'.ms <= wall + Skew
           /\ Reload \/ (\E t \in Stamp : Pull(t)) => Bounded]_vars
  BY <1>1, <1>2, <1>3
<1> QED BY <1>4, Invariance, PTL DEF Spec, RaisesStayInWindow
=============================================================================

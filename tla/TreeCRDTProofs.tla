--------------------------- MODULE TreeCRDTProofs ---------------------------
(***************************************************************************)
(* What holds of TreeCRDT for every set of replicas, nodes, operations and *)
(* timestamps.  The inductive invariant says that a replica's tree is the  *)
(* end of a run of do_op over its log, in which every entry's undo record  *)
(* is the one do_op captured there.  The end of the module proves that     *)
(* TreeCRDT implements ConvergentTree.                                     *)
(***************************************************************************)
EXTENDS TreeRefinement, TreeStateProofs, SequenceTheorems

----------------------------------------------------------------------------
\* Sequences of log entries.

LEMMA AppendFacts ==
  ASSUME NEW s \in Seq(Entry), NEW e \in Entry
  PROVE  /\ Append(s, e) \in Seq(Entry)
         /\ Len(s) \in Nat /\ Len(Append(s, e)) = Len(s) + 1
         /\ \A i \in 1..Len(s) : Append(s, e)[i] = s[i]
         /\ Append(s, e)[Len(s) + 1] = e
         /\ TsOf(Append(s, e)) = TsOf(s) \cup {e.ts}
<1>1. /\ Append(s, e) \in Seq(Entry)
      /\ Len(s) \in Nat /\ Len(Append(s, e)) = Len(s) + 1
      /\ \A i \in 1..Len(s) : Append(s, e)[i] = s[i]
      /\ Append(s, e)[Len(s) + 1] = e
  OBVIOUS
<1>2. TsOf(Append(s, e)) = TsOf(s) \cup {e.ts}
  BY <1>1 DEF TsOf
<1> QED BY <1>1, <1>2

LEMMA FrontFacts ==
  ASSUME NEW s \in Seq(Entry), s # <<>>
  PROVE  /\ Len(s) \in Nat \ {0}
         /\ Front(s) \in Seq(Entry) /\ Last(s) \in Entry
         /\ Len(Front(s)) = Len(s) - 1
         /\ \A i \in 1..(Len(s) - 1) : Front(s)[i] = s[i]
         /\ TsOf(s) = TsOf(Front(s)) \cup {Last(s).ts}
<1>1. Len(s) \in Nat \ {0} /\ Last(s) \in Entry
  BY DEF Last
<1>2. /\ Front(s) \in Seq(Entry)
      /\ Len(Front(s)) = Len(s) - 1
      /\ \A i \in 1..(Len(s) - 1) : Front(s)[i] = s[i]
  <2> DEFINE n == Len(s) - 1
  <2>1. \A i \in 1..n : s[i] \in Entry
    BY <1>1
  <2>2. /\ SubSeq(s, 1, n) \in Seq(Entry)
        /\ Len(SubSeq(s, 1, n)) = IF 1 <= n THEN n - 1 + 1 ELSE 0
        /\ \A i \in 1..(n - 1 + 1) : SubSeq(s, 1, n)[i] = s[1 + i - 1]
    BY <1>1, <2>1, SubSeqProperties
  <2>3. Front(s) = SubSeq(s, 1, n) /\ n \in Nat
    BY <1>1 DEF Front
  <2> HIDE DEF n
  <2>4. /\ Front(s) \in Seq(Entry) /\ Len(Front(s)) = n
        /\ \A i \in 1..n : Front(s)[i] = s[i]
    BY <2>2, <2>3
  <2> QED BY <2>4 DEF n
<1>3. TsOf(s) = TsOf(Front(s)) \cup {Last(s).ts}
  <2>1. 1..Len(s) = (1..(Len(s) - 1)) \cup {Len(s)}
    BY <1>1
  <2> QED BY <2>1, <1>1, <1>2 DEF TsOf, Last
<1> QED BY <1>1, <1>2, <1>3

LEMMA EntryTs ==
  ASSUME NEW s \in Seq(Entry)
  PROVE  /\ \A i \in 1..Len(s) : /\ s[i] \in Entry /\ s[i].ts \in Ts
                                 /\ s[i].ts \in Nat \ {0} /\ s[i].op \in Op
         /\ TsOf(s) \subseteq Ts /\ TsOf(s) \subseteq Nat
<1>1. \A i \in 1..Len(s) : s[i] \in Entry
  OBVIOUS
<1> QED BY <1>1, CRDTConstants DEF Entry, TsOf

LEMMA IncreasingAppend ==
  ASSUME NEW s \in Seq(Entry), NEW e \in Entry, Increasing(s),
         \A t \in TsOf(s) : t < e.ts
  PROVE  Increasing(Append(s, e))
<1>1. \A i \in 1..Len(s) : s[i].ts < e.ts
  BY DEF TsOf
<1> QED BY <1>1, AppendFacts, SMTT(30) DEF Increasing

LEMMA DecreasingAppend ==
  ASSUME NEW s \in Seq(Entry), NEW e \in Entry, Decreasing(s),
         \A t \in TsOf(s) : e.ts < t
  PROVE  Decreasing(Append(s, e))
<1>1. \A i \in 1..Len(s) : e.ts < s[i].ts
  BY DEF TsOf
<1>2. \A i \in 1..Len(s) : s[i].ts \in Nat
  BY EntryTs
<1>3. e.ts \in Nat
  BY CRDTConstants DEF Entry
<1>4. /\ Len(s) \in Nat /\ Len(Append(s, e)) = Len(s) + 1
      /\ \A i \in 1..Len(s) : Append(s, e)[i] = s[i]
      /\ Append(s, e)[Len(s) + 1] = e
  BY AppendFacts
<1> HIDE DEF TsOf
<1> QED BY <1>1, <1>2, <1>3, <1>4 DEF Decreasing

LEMMA IncreasingFront ==
  ASSUME NEW s \in Seq(Entry), s # <<>>, Increasing(s)
  PROVE  /\ Increasing(Front(s))
         /\ \A t \in TsOf(Front(s)) : t < Last(s).ts
<1>1. /\ Len(s) \in Nat \ {0}
      /\ Len(Front(s)) = Len(s) - 1
      /\ \A i \in 1..(Len(s) - 1) : Front(s)[i] = s[i]
  BY FrontFacts
<1>2. Increasing(Front(s))
  BY <1>1 DEF Increasing
<1>3. \A i \in 1..(Len(s) - 1) : s[i].ts < s[Len(s)].ts
  BY <1>1 DEF Increasing
<1> QED BY <1>1, <1>2, <1>3 DEF TsOf, Last

LEMMA DecreasingFront ==
  ASSUME NEW s \in Seq(Entry), s # <<>>, Decreasing(s)
  PROVE  /\ Decreasing(Front(s))
         /\ \A t \in TsOf(Front(s)) : Last(s).ts < t
<1>1. /\ Len(s) \in Nat \ {0}
      /\ Len(Front(s)) = Len(s) - 1
      /\ \A i \in 1..(Len(s) - 1) : Front(s)[i] = s[i]
  BY FrontFacts
<1>2. \A i \in 1..Len(s) : s[i].ts \in Nat
  BY EntryTs
<1>3. Decreasing(Front(s))
  BY <1>1 DEF Decreasing
<1>4. \A i \in 1..(Len(s) - 1) : s[Len(s)].ts < s[i].ts
  BY <1>1, <1>2 DEF Decreasing
<1> QED BY <1>1, <1>3, <1>4 DEF TsOf, Last

----------------------------------------------------------------------------
\* Runs of do_op over a log.

(***************************************************************************)
(* Runs(b, lg, s): doing the entries of lg in order to b goes through well *)
(* formed trees, captures the undo records in lg, and ends in s.           *)
(***************************************************************************)
IsRun(b, lg, h) ==
  /\ h \in [0..Len(lg) -> State]
  /\ h[0] = b
  /\ \A i \in 0..Len(lg) :
       /\ WellFormed(h[i])
       /\ MadeUpTo(h[i], IF i = 0 THEN 0 ELSE lg[i].ts)
  /\ \A i \in 1..Len(lg) :
       /\ h[i] = DoOp(h[i - 1], lg[i].ts, lg[i].op)
       /\ lg[i].old = Captured(h[i - 1], lg[i].op)

Runs(b, lg, s) == \E h : IsRun(b, lg, h) /\ s = h[Len(lg)]

LEMMA RunsType ==
  ASSUME NEW lg \in Seq(Entry), NEW b, NEW s, Runs(b, lg, s)
  PROVE  s \in State /\ WellFormed(s)
BY DEF Runs, IsRun

LEMMA RunsEmpty ==
  ASSUME NEW b \in Bodies
  PROVE  Runs(b, <<>>, b)
<1> DEFINE h == [i \in 0..0 |-> b]
<1>1. b \in State /\ WellFormed(b) /\ MadeUpTo(b, 0)
  BY DEF Bodies, MadeUpTo
<1>2. IsRun(b, <<>>, h)
  BY <1>1 DEF IsRun
<1> QED BY <1>2 DEF Runs

LEMMA RunsAppend ==
  ASSUME NEW lg \in Seq(Entry), NEW b, NEW s, Runs(b, lg, s),
         NEW ts \in Ts, NEW op \in Op, \A t \in TsOf(lg) : t < ts
  PROVE  LET e == [ts |-> ts, op |-> op, old |-> Captured(s, op)]
         IN  /\ e \in Entry
             /\ Runs(b, Append(lg, e), DoOp(s, ts, op))
<1> DEFINE e == [ts |-> ts, op |-> op, old |-> Captured(s, op)]
           lg1 == Append(lg, e)
           n == Len(lg)
<1>1. PICK h : IsRun(b, lg, h) /\ s = h[n]
  BY DEF Runs
<1>2. s \in State /\ WellFormed(s)
  BY RunsType
<1>3. e \in Entry
  BY <1>2, CapturedType DEF Entry
<1>4. /\ lg1 \in Seq(Entry) /\ n \in Nat /\ Len(lg1) = n + 1
      /\ \A i \in 1..n : lg1[i] = lg[i]
      /\ lg1[n + 1] = e
  BY <1>3, AppendFacts
<1>5. ts \in Nat \ {0}
  BY CRDTConstants
<1> DEFINE d == DoOp(s, ts, op)
           g == [i \in 0..(n + 1) |-> IF i = n + 1 THEN d ELSE h[i]]
<1>6. d \in State /\ WellFormed(d)
  BY <1>2, <1>5, DoOpType, DoOpWellFormed
<1>7. MadeUpTo(s, ts)
  <2>1. CASE n = 0
    <3>1. MadeUpTo(s, 0)
      BY <1>1, <2>1 DEF IsRun
    <3> QED BY <3>1, <1>2, <1>5, MadeUpToMonotonic
  <2>2. CASE n # 0
    <3>1. n \in 1..n /\ lg[n].ts \in TsOf(lg)
      BY <1>4, <2>2 DEF TsOf
    <3>2. MadeUpTo(s, lg[n].ts)
      BY <1>1, <1>4, <2>2 DEF IsRun
    <3>3. lg[n].ts < ts /\ lg[n].ts \in Nat
      BY <3>1, EntryTs
    <3> QED BY <3>2, <3>3, <1>2, <1>5, MadeUpToMonotonic
  <2> QED BY <2>1, <2>2
<1>8. MadeUpTo(d, ts)
  BY <1>2, <1>5, <1>7, DoOpMade
<1> HIDE DEF d
<1>9. /\ g \in [0..(n + 1) -> State]
      /\ \A i \in 0..n : g[i] = h[i]
      /\ g[n + 1] = d
  BY <1>1, <1>4, <1>6 DEF IsRun
<1>10. e.ts = ts /\ e.op = op /\ e.old = Captured(h[n], op)
  BY <1>1
<1> HIDE DEF g, lg1, e
<1>11. IsRun(b, lg1, g)
  <2>1. g \in [0..Len(lg1) -> State] /\ g[0] = b
    BY <1>1, <1>4, <1>9 DEF IsRun
  <2>2. ASSUME NEW i \in 0..Len(lg1)
        PROVE  /\ WellFormed(g[i])
               /\ MadeUpTo(g[i], IF i = 0 THEN 0 ELSE lg1[i].ts)
    <3>1. CASE i \in 0..n
      BY <3>1, <1>1, <1>4, <1>9 DEF IsRun
    <3>2. CASE i = n + 1
      BY <3>2, <1>4, <1>6, <1>8, <1>9, <1>10
    <3> QED BY <3>1, <3>2, <1>4
  <2>3. ASSUME NEW i \in 1..Len(lg1)
        PROVE  /\ g[i] = DoOp(g[i - 1], lg1[i].ts, lg1[i].op)
               /\ lg1[i].old = Captured(g[i - 1], lg1[i].op)
    <3>1. CASE i \in 1..n
      <4>1. i - 1 \in 0..n /\ i \in 0..n
        BY <3>1, <1>4
      <4> QED BY <3>1, <4>1, <1>1, <1>4, <1>9 DEF IsRun
    <3>2. CASE i = n + 1
      <4>1. g[i - 1] = h[n] /\ g[i] = d
        BY <3>2, <1>4, <1>9
      <4> QED BY <3>2, <4>1, <1>1, <1>4, <1>10 DEF d
    <3> QED BY <3>1, <3>2, <1>4
  <2> QED BY <2>1, <2>2, <2>3 DEF IsRun
<1>12. Runs(b, lg1, d)
  BY <1>4, <1>9, <1>11 DEF Runs
<1> QED BY <1>3, <1>12 DEF d, e, lg1

(***************************************************************************)
(* Everywhere on a run, undo_op takes back what do_op did: created_by      *)
(* holds only older timestamps there, so the Create's guard hits.          *)
(***************************************************************************)
LEMMA RunInverse ==
  ASSUME NEW lg \in Seq(Entry), Increasing(lg), NEW b, NEW h,
         IsRun(b, lg, h), NEW i \in 1..Len(lg)
  PROVE  UndoOp(h[i], lg[i].ts, lg[i].op, lg[i].old) = h[i - 1]
<1> DEFINE u == h[i - 1]
           e == lg[i]
<1>1. i - 1 \in 0..Len(lg) /\ i \in Nat \ {0} /\ Len(lg) \in Nat
  OBVIOUS
<1>2. u \in State /\ WellFormed(u)
  BY <1>1 DEF IsRun
<1>3. e.ts \in Nat \ {0} /\ e.op \in Op
  BY EntryTs
<1>4. MadeUpTo(u, e.ts - 1)
  <2>1. CASE i = 1
    <3>1. MadeUpTo(u, 0)
      BY <1>1, <2>1 DEF IsRun
    <3> QED BY <3>1, <1>2, <1>3, MadeUpToMonotonic
  <2>2. CASE i # 1
    <3>1. i - 1 \in 1..Len(lg) /\ i - 1 < i
      BY <1>1, <2>2
    <3>2. MadeUpTo(u, lg[i - 1].ts)
      BY <1>1, <3>1 DEF IsRun
    <3>3. lg[i - 1].ts < e.ts
      BY <3>1 DEF Increasing
    <3>4. lg[i - 1].ts \in Nat
      BY <3>1, EntryTs
    <3>5. lg[i - 1].ts <= e.ts - 1 /\ e.ts - 1 \in Nat
      BY <1>3, <3>3, <3>4
    <3> HIDE DEF u, e
    <3> QED BY <1>2, <3>2, <3>4, <3>5, MadeUpToMonotonic
  <2> QED BY <2>1, <2>2
<1>5. h[i] = DoOp(u, e.ts, e.op) /\ e.old = Captured(u, e.op)
  BY DEF IsRun
<1> HIDE DEF u, e
<1>6. UndoOp(DoOp(u, e.ts, e.op), e.ts, e.op, Captured(u, e.op)) = u
  BY <1>2, <1>3, <1>4, UndoInvertsDo
<1> QED BY <1>5, <1>6 DEF u, e

(***************************************************************************)
(* Undoing the last entry of a run takes it back by exactly that entry.    *)
(***************************************************************************)
LEMMA RunsUndo ==
  ASSUME NEW lg \in Seq(Entry), lg # <<>>, Increasing(lg),
         NEW b, NEW s, Runs(b, lg, s)
  PROVE  LET e == Last(lg)
         IN  Runs(b, Front(lg), UndoOp(s, e.ts, e.op, e.old))
<1> DEFINE e == Last(lg)
           n == Len(lg)
           fr == Front(lg)
<1>1. PICK h : IsRun(b, lg, h) /\ s = h[n]
  BY DEF Runs
<1>2. /\ n \in Nat \ {0} /\ fr \in Seq(Entry) /\ e \in Entry
      /\ Len(fr) = n - 1
      /\ \A i \in 1..(n - 1) : fr[i] = lg[i]
      /\ \A t \in TsOf(fr) : t < e.ts
  BY FrontFacts, IncreasingFront
<1>3. e = lg[n]
  BY DEF Last
<1> DEFINE u == h[n - 1]
<1>7. UndoOp(s, e.ts, e.op, e.old) = u
  BY <1>1, <1>2, <1>3, RunInverse
<1> DEFINE g == [i \in 0..(n - 1) |-> h[i]]
<1>8. /\ g \in [0..(n - 1) -> State]
      /\ \A i \in 0..(n - 1) : g[i] = h[i]
  BY <1>1, <1>2 DEF IsRun
<1> HIDE DEF g, fr, e
<1>9. IsRun(b, fr, g)
  <2>1. g \in [0..Len(fr) -> State] /\ g[0] = b
    BY <1>1, <1>2, <1>8 DEF IsRun
  <2>2. \A i \in 0..Len(fr) : /\ WellFormed(g[i])
                              /\ MadeUpTo(g[i], IF i = 0 THEN 0 ELSE fr[i].ts)
    BY <1>1, <1>2, <1>8 DEF IsRun
  <2>3. ASSUME NEW i \in 1..Len(fr)
        PROVE  /\ g[i] = DoOp(g[i - 1], fr[i].ts, fr[i].op)
               /\ fr[i].old = Captured(g[i - 1], fr[i].op)
    <3>1. i \in 1..n /\ i \in 0..(n - 1) /\ i - 1 \in 0..(n - 1) /\ fr[i] = lg[i]
      BY <1>2
    <3> QED BY <3>1, <1>1, <1>8 DEF IsRun
  <2> QED BY <2>1, <2>2, <2>3 DEF IsRun
<1>10. g[Len(fr)] = u
  BY <1>2, <1>8
<1> QED BY <1>7, <1>9, <1>10 DEF Runs, fr, e

(***************************************************************************)
(* The end of a run depends on the boot tree and the operations alone: no  *)
(* two runs over the same operations ever part, so none is the first.      *)
(***************************************************************************)
SameOps(lg, lh) ==
  /\ Len(lg) = Len(lh)
  /\ \A i \in 1..Len(lg) : lg[i].ts = lh[i].ts /\ lg[i].op = lh[i].op

LEMMA RunsUnique ==
  ASSUME NEW lg \in Seq(Entry), NEW lh \in Seq(Entry), SameOps(lg, lh),
         NEW b, NEW s, NEW t, Runs(b, lg, s), Runs(b, lh, t)
  PROVE  s = t
<1>1. PICK g : IsRun(b, lg, g) /\ s = g[Len(lg)]
  BY DEF Runs
<1>2. PICK h : IsRun(b, lh, h) /\ t = h[Len(lh)]
  BY DEF Runs
<1> DEFINE n == Len(lg)
           D == {i \in 0..n : g[i] # h[i]}
<1>3. n \in Nat /\ Len(lh) = n
  BY DEF SameOps
<1>4. D = {}
  <2> SUFFICES ASSUME D # {} PROVE FALSE
    OBVIOUS
  <2>1. D \in SUBSET Nat
    BY <1>3
  <2> HIDE DEF D
  <2>2. PICK m \in D : \A i \in D : m <= i
    BY <2>1, LeastNatural
  <2>3. m \in 0..n /\ g[m] # h[m]
    BY <2>2 DEF D
  <2>4. m # 0
    BY <2>3, <1>1, <1>2 DEF IsRun
  <2>5. m \in 1..n /\ m - 1 \in 0..n /\ m - 1 \notin D
    BY <1>3, <2>2, <2>3, <2>4
  <2>6. g[m - 1] = h[m - 1]
    BY <2>5 DEF D
  <2>7. g[m] = DoOp(g[m - 1], lg[m].ts, lg[m].op)
    BY <1>1, <2>5 DEF IsRun
  <2>8. h[m] = DoOp(h[m - 1], lh[m].ts, lh[m].op)
    BY <1>2, <1>3, <2>5 DEF IsRun
  <2>9. lg[m].ts = lh[m].ts /\ lg[m].op = lh[m].op
    BY <2>5 DEF SameOps
  <2> QED BY <2>3, <2>6, <2>7, <2>8, <2>9
<1> QED BY <1>1, <1>2, <1>3, <1>4

----------------------------------------------------------------------------
(***************************************************************************)
(* The inductive invariant.                                                *)
(***************************************************************************)
AsIssued(s) == \A i \in 1..Len(s) : s[i].op = issued[s[i].ts]

LogIsRun == \A r \in Replica : Runs(base, log[r], tree[r])

Faithful == \A r \in Replica : AsIssued(log[r]) /\ AsIssued(undone[r])

IInv == TypeOK /\ LogSorted /\ LogIsRun /\ Faithful

LEMMA InitIInv == Init => IInv
<1> SUFFICES ASSUME Init PROVE IInv
  OBVIOUS
<1>1. base \in Bodies /\ base \in State
  BY CRDTConstants DEF Init, Bodies
<1>2. TypeOK
  BY <1>1 DEF Init, TypeOK
<1>3. LogSorted
  BY DEF Init, LogSorted, Sorted, Increasing, Decreasing, TsOf
<1>4. LogIsRun
  BY <1>1, RunsEmpty DEF Init, LogIsRun
<1>5. Faithful
  BY DEF Init, Faithful, AsIssued
<1> QED BY <1>2, <1>3, <1>4, <1>5 DEF IInv

(***************************************************************************)
(* AppendDone, the common half of DoStep and RedoStep, on a replica r      *)
(* whose log lies below ts.                                                *)
(***************************************************************************)
LEMMA AppendDoneKeeps ==
  ASSUME IInv, NEW r \in Replica, NEW ts \in Ts, NEW op \in Op,
         AppendDone(r, ts, op), \A t \in TsOf(log[r]) : t < ts,
         op = issued[ts], base' = base, issued' = issued
  PROVE  /\ tree' \in [Replica -> State]
         /\ log' \in [Replica -> Seq(Entry)]
         /\ LogIsRun'
         /\ Increasing(log'[r]) /\ AsIssued(log[r])'
         /\ TsOf(log'[r]) = TsOf(log[r]) \cup {ts}
         /\ \A s \in Replica \ {r} : log'[s] = log[s]
<1> DEFINE e == [ts |-> ts, op |-> op, old |-> Captured(tree[r], op)]
<1>1. /\ tree \in [Replica -> State] /\ log \in [Replica -> Seq(Entry)]
      /\ Increasing(log[r]) /\ AsIssued(log[r])
      /\ \A s \in Replica : Runs(base, log[s], tree[s])
  BY DEF IInv, TypeOK, LogSorted, Sorted, LogIsRun, Faithful
<1>2. e \in Entry /\ Runs(base, Append(log[r], e), DoOp(tree[r], ts, op))
  BY <1>1, RunsAppend
<1>3. DoOp(tree[r], ts, op) \in State
  BY <1>1, CRDTConstants, DoOpType
<1>4. e.ts = ts /\ e.op = op
  OBVIOUS
<1>5. /\ tree' = [tree EXCEPT ![r] = DoOp(tree[r], ts, op)]
      /\ log' = [log EXCEPT ![r] = Append(log[r], e)]
  BY DEF AppendDone
<1> HIDE DEF e
<1>6. /\ Append(log[r], e) \in Seq(Entry)
      /\ Len(log[r]) \in Nat /\ Len(Append(log[r], e)) = Len(log[r]) + 1
      /\ \A i \in 1..Len(log[r]) : Append(log[r], e)[i] = log[r][i]
      /\ Append(log[r], e)[Len(log[r]) + 1] = e
      /\ TsOf(Append(log[r], e)) = TsOf(log[r]) \cup {ts}
  BY <1>1, <1>2, <1>4, AppendFacts
<1>7. tree' \in [Replica -> State] /\ log' \in [Replica -> Seq(Entry)]
  BY <1>1, <1>3, <1>5, <1>6
<1>8. /\ tree'[r] = DoOp(tree[r], ts, op) /\ log'[r] = Append(log[r], e)
      /\ \A s \in Replica \ {r} : tree'[s] = tree[s] /\ log'[s] = log[s]
  BY <1>1, <1>5
<1>9. LogIsRun'
  BY <1>1, <1>2, <1>8 DEF LogIsRun
<1>10. Increasing(log'[r])
  BY <1>1, <1>2, <1>4, <1>8, IncreasingAppend
<1>11. AsIssued(log[r])'
  BY <1>1, <1>4, <1>6, <1>8 DEF AsIssued
<1> QED BY <1>6, <1>7, <1>8, <1>9, <1>10, <1>11

----------------------------------------------------------------------------
\* One lemma per action.

LEMMA IssueKeeps ==
  ASSUME IInv, NEW r \in Replica, Issue(r)
  PROVE  IInv'
<1> USE DEF IInv
<1>1. PICK ts \in Ts, op \in LocalOps :
        /\ issued[ts] = None
        /\ issued' = [issued EXCEPT ![ts] = op]
        /\ cur' = [cur EXCEPT ![r] = ts]
  BY DEF Issue, ClockAllows
<1>2. UNCHANGED <<base, tree, log, undone>> /\ cur[r] = 0 /\ undone[r] = <<>>
  BY DEF Issue, Idle
<1>3. op \in Op /\ op # None /\ ts \in Nat \ {0}
  BY CRDTConstants
<1>4. TypeOK'
  BY <1>1, <1>2, <1>3 DEF TypeOK
<1>5. ASSUME NEW s \in Seq(Entry), AsIssued(s)
      PROVE  /\ \A i \in 1..Len(s) : s[i].ts # ts
             /\ ts \notin TsOf(s)
             /\ \A i \in 1..Len(s) : s[i].op = issued'[s[i].ts]
  <2>1. ASSUME NEW i \in 1..Len(s) PROVE s[i].ts # ts
    <3>1. s[i].op \in Op /\ s[i].op = issued[s[i].ts]
      BY <1>5, EntryTs DEF AsIssued
    <3> QED BY <3>1, <1>1, CRDTConstants
  <2>2. ASSUME NEW i \in 1..Len(s) PROVE issued'[s[i].ts] = issued[s[i].ts]
    <3>1. s[i].ts \in Ts
      BY EntryTs
    <3> QED BY <3>1, <2>1, <1>1 DEF TypeOK
  <2> QED BY <2>1, <2>2, <1>5 DEF TsOf, AsIssued
<1>6. \A q \in Replica : log[q] \in Seq(Entry) /\ undone[q] \in Seq(Entry)
  BY DEF TypeOK
<1>7. Faithful'
  <2> SUFFICES ASSUME NEW q \in Replica
               PROVE  AsIssued(log[q])' /\ AsIssued(undone[q])'
    BY DEF Faithful
  <2>1. log'[q] = log[q] /\ undone'[q] = undone[q]
    BY <1>2
  <2>2. AsIssued(log[q]) /\ AsIssued(undone[q])
    BY DEF Faithful
  <2>3. /\ \A i \in 1..Len(log[q]) : log[q][i].op = issued'[log[q][i].ts]
        /\ \A i \in 1..Len(undone[q]) : undone[q][i].op = issued'[undone[q][i].ts]
    BY <2>2, <1>5, <1>6
  <2> QED BY <2>1, <2>3 DEF AsIssued
<1>8. LogSorted'
  <2> SUFFICES ASSUME NEW q \in Replica PROVE Sorted(q)'
    BY DEF LogSorted
  <2>1. log'[q] = log[q] /\ undone'[q] = undone[q] /\ Sorted(q)
    BY <1>2 DEF LogSorted
  <2>2. CASE q = r
    <3>1. ts \notin TsOf(log[r])
      BY <1>5, <1>6 DEF Faithful
    <3>2. TsOf(undone[r]) = {} /\ cur'[r] = ts
      BY <1>1, <1>2 DEF TsOf, TypeOK
    <3> QED BY <2>1, <2>2, <3>1, <3>2 DEF Sorted
  <2>3. CASE q # r
    <3>1. cur'[q] = cur[q]
      BY <1>1, <2>3 DEF TypeOK
    <3> QED BY <2>1, <3>1 DEF Sorted
  <2> QED BY <2>2, <2>3
<1>9. LogIsRun'
  BY <1>2 DEF LogIsRun
<1> QED BY <1>4, <1>7, <1>8, <1>9

LEMMA DeliverKeeps ==
  ASSUME IInv, NEW r \in Replica, NEW ts \in Ts, Deliver(r, ts)
  PROVE  IInv'
<1> USE DEF IInv
<1>1. /\ issued[ts] # None /\ undone[r] = <<>>
      /\ cur' = [cur EXCEPT ![r] = IF ts \in TsOf(log[r]) THEN 0 ELSE ts]
      /\ UNCHANGED <<base, issued, tree, log, undone>>
  BY DEF Deliver, Idle
<1>2. TypeOK'
  BY <1>1 DEF TypeOK
<1>3. LogSorted'
  <2> SUFFICES ASSUME NEW q \in Replica PROVE Sorted(q)'
    BY DEF LogSorted
  <2>1. log'[q] = log[q] /\ undone'[q] = undone[q] /\ Sorted(q)
    BY <1>1 DEF LogSorted
  <2>2. CASE q = r
    <3>1. TsOf(undone[r]) = {}
      BY <1>1 DEF TsOf
    <3>2. cur \in [Replica -> Ts \cup {0}]
      BY DEF TypeOK
    <3>3. cur'[r] = IF ts \in TsOf(log[r]) THEN 0 ELSE ts
      BY <1>1, <3>2
    <3> QED BY <2>1, <2>2, <3>1, <3>3 DEF Sorted
  <2>3. CASE q # r
    <3>1. cur'[q] = cur[q]
      BY <1>1, <2>3 DEF TypeOK
    <3> QED BY <2>1, <3>1 DEF Sorted
  <2> QED BY <2>2, <2>3
<1>4. LogIsRun' /\ Faithful'
  BY <1>1 DEF LogIsRun, Faithful, AsIssued
<1> QED BY <1>2, <1>3, <1>4

LEMMA CurNat == ASSUME TypeOK, NEW r \in Replica PROVE cur[r] \in Nat
<1>1. cur[r] \in Ts \/ cur[r] = 0
  BY DEF TypeOK
<1>2. CASE cur[r] \in Ts
  BY <1>2, CRDTConstants
<1>3. CASE cur[r] = 0
  BY <1>3
<1> QED BY <1>1, <1>2, <1>3

LEMMA UndoKeeps ==
  ASSUME IInv, NEW r \in Replica, UndoStep(r)
  PROVE  IInv'
<1> USE DEF IInv
<1> DEFINE e == Last(log[r])
           t == UndoOp(tree[r], e.ts, e.op, e.old)
<1>1. /\ cur[r] # 0 /\ log[r] # <<>> /\ e.ts > cur[r]
      /\ tree' = [tree EXCEPT ![r] = t]
      /\ undone' = [undone EXCEPT ![r] = Append(undone[r], e)]
      /\ log' = [log EXCEPT ![r] = Front(log[r])]
      /\ UNCHANGED <<base, issued, cur>>
  BY DEF UndoStep, NewerTail
<1>2. /\ log[r] \in Seq(Entry) /\ undone[r] \in Seq(Entry)
      /\ tree \in [Replica -> State] /\ log \in [Replica -> Seq(Entry)]
      /\ undone \in [Replica -> Seq(Entry)]
  BY DEF TypeOK
<1>2a. cur[r] \in Nat
  BY CurNat
<1>3. Sorted(r) /\ AsIssued(log[r]) /\ AsIssued(undone[r])
  BY DEF LogSorted, Faithful
<1>4. /\ Len(log[r]) \in Nat \ {0} /\ e \in Entry
      /\ Front(log[r]) \in Seq(Entry) /\ Len(Front(log[r])) = Len(log[r]) - 1
      /\ \A i \in 1..(Len(log[r]) - 1) : Front(log[r])[i] = log[r][i]
      /\ TsOf(log[r]) = TsOf(Front(log[r])) \cup {e.ts}
      /\ Increasing(Front(log[r]))
      /\ \A x \in TsOf(Front(log[r])) : x < e.ts
  BY <1>1, <1>2, <1>3, FrontFacts, IncreasingFront DEF Sorted
<1>5. Runs(base, Front(log[r]), t)
  BY <1>1, <1>2, <1>3, RunsUndo DEF LogIsRun, Sorted
<1>6. t \in State
  BY <1>4, <1>5, RunsType
<1>7. \A u \in TsOf(undone[r]) : e.ts < u
  BY <1>3, <1>4 DEF Sorted
<1>8. /\ Append(undone[r], e) \in Seq(Entry)
      /\ Len(undone[r]) \in Nat
      /\ Len(Append(undone[r], e)) = Len(undone[r]) + 1
      /\ \A i \in 1..Len(undone[r]) : Append(undone[r], e)[i] = undone[r][i]
      /\ Append(undone[r], e)[Len(undone[r]) + 1] = e
      /\ TsOf(Append(undone[r], e)) = TsOf(undone[r]) \cup {e.ts}
  BY <1>2, <1>4, AppendFacts
<1>9. Decreasing(Append(undone[r], e))
  BY <1>2, <1>3, <1>4, <1>7, DecreasingAppend DEF Sorted
<1>10. e = log[r][Len(log[r])]
  BY DEF Last
<1> HIDE DEF e, t
<1>11. TypeOK'
  BY <1>1, <1>2, <1>4, <1>6, <1>8 DEF TypeOK
<1>12. /\ log'[r] = Front(log[r]) /\ undone'[r] = Append(undone[r], e)
       /\ tree'[r] = t /\ cur'[r] = cur[r]
       /\ \A q \in Replica \ {r} : /\ log'[q] = log[q] /\ tree'[q] = tree[q]
                                   /\ undone'[q] = undone[q] /\ cur'[q] = cur[q]
  BY <1>1, <1>2
<1>13. Sorted(r)'
  <2>1. \A x \in TsOf(log'[r]), u \in TsOf(undone'[r]) : x < u
    BY <1>3, <1>4, <1>8, <1>12 DEF Sorted
  <2>2. cur[r] \notin TsOf(log'[r]) /\ \A u \in TsOf(undone'[r]) : cur[r] < u
    BY <1>1, <1>2a, <1>3, <1>4, <1>8, <1>12, CRDTConstants DEF Sorted, Entry
  <2> QED BY <2>1, <2>2, <1>4, <1>9, <1>12 DEF Sorted
<1>14. LogSorted'
  BY <1>12, <1>13 DEF LogSorted, Sorted
<1>15. LogIsRun'
  BY <1>1, <1>5, <1>12 DEF LogIsRun
<1>16. Faithful'
  <2>1. AsIssued(log[r])'
    <3>1. \A i \in 1..(Len(log[r]) - 1) : log[r][i].op = issued[log[r][i].ts]
      BY <1>3, <1>4 DEF AsIssued
    <3>2. \A i \in 1..Len(log'[r]) : log'[r][i] = log[r][i]
      BY <1>4, <1>12
    <3>3. Len(log'[r]) = Len(log[r]) - 1 /\ issued' = issued
      BY <1>1, <1>4, <1>12
    <3> QED BY <3>1, <3>2, <3>3 DEF AsIssued
  <2>2. e.op = issued[e.ts]
    BY <1>3, <1>4, <1>10 DEF AsIssued
  <2>3. AsIssued(undone[r])'
    BY <1>1, <1>3, <1>8, <1>12, <2>2 DEF AsIssued
  <2> QED BY <2>1, <2>3, <1>1, <1>12 DEF Faithful, AsIssued
<1> QED BY <1>11, <1>14, <1>15, <1>16

LEMMA DoKeeps ==
  ASSUME IInv, NEW r \in Replica, DoStep(r)
  PROVE  IInv'
<1> USE DEF IInv
<1> DEFINE ts == cur[r]
<1>1. /\ ts # 0 /\ ~ NewerTail(r) /\ AppendDone(r, ts, issued[ts])
      /\ cur' = [cur EXCEPT ![r] = 0]
      /\ UNCHANGED <<base, issued, undone>>
  BY DEF DoStep
<1>2. /\ ts \in Ts /\ issued[ts] \in Op /\ ts \in Nat
      /\ log[r] \in Seq(Entry) /\ Sorted(r)
  BY <1>1, CRDTConstants DEF TypeOK, LogSorted
<1>3. \A t \in TsOf(log[r]) : t < ts
  <2>1. CASE log[r] = <<>>
    BY <2>1 DEF TsOf
  <2>2. CASE log[r] # <<>>
    <3>1. /\ TsOf(log[r]) = TsOf(Front(log[r])) \cup {Last(log[r]).ts}
          /\ \A t \in TsOf(Front(log[r])) : t < Last(log[r]).ts
          /\ TsOf(log[r]) \subseteq Nat
      BY <1>2, <2>2, FrontFacts, IncreasingFront, EntryTs DEF Sorted
    <3>2. ~ (Last(log[r]).ts > ts) /\ ts \notin TsOf(log[r])
      BY <1>1, <1>2, <2>2 DEF NewerTail, Sorted
    <3> HIDE DEF ts
    <3>3. Last(log[r]).ts \in Nat /\ Last(log[r]).ts \in TsOf(log[r])
      BY <3>1
    <3>4. Last(log[r]).ts < ts
      BY <1>2, <3>2, <3>3
    <3> QED BY <1>2, <3>1, <3>3, <3>4
  <2> QED BY <2>1, <2>2
<1>4. /\ tree' \in [Replica -> State]
      /\ log' \in [Replica -> Seq(Entry)]
      /\ LogIsRun'
      /\ Increasing(log'[r]) /\ AsIssued(log[r])'
      /\ TsOf(log'[r]) = TsOf(log[r]) \cup {ts}
      /\ \A s \in Replica \ {r} : log'[s] = log[s]
  BY <1>1, <1>2, <1>3, AppendDoneKeeps
<1>5. TypeOK'
  BY <1>1, <1>4 DEF TypeOK
<1>6. LogSorted'
  <2> SUFFICES ASSUME NEW q \in Replica PROVE Sorted(q)'
    BY DEF LogSorted
  <2>1. CASE q = r
    <3>1. cur'[r] = 0 /\ undone'[r] = undone[r]
      BY <1>1 DEF TypeOK
    <3> QED BY <2>1, <3>1, <1>1, <1>2, <1>4 DEF Sorted
  <2>2. CASE q # r
    <3>1. cur'[q] = cur[q] /\ undone'[q] = undone[q] /\ log'[q] = log[q]
      BY <1>1, <1>4, <2>2 DEF TypeOK
    <3>2. Sorted(q)
      BY DEF LogSorted
    <3> QED BY <3>1, <3>2 DEF Sorted
  <2> QED BY <2>1, <2>2
<1>7. Faithful'
  BY <1>1, <1>4 DEF Faithful, AsIssued
<1> QED BY <1>4, <1>5, <1>6, <1>7

LEMMA RedoKeeps ==
  ASSUME IInv, NEW r \in Replica, RedoStep(r)
  PROVE  IInv'
<1> USE DEF IInv
<1> DEFINE e == Last(undone[r])
<1>1. /\ cur[r] = 0 /\ undone[r] # <<>> /\ AppendDone(r, e.ts, e.op)
      /\ undone' = [undone EXCEPT ![r] = Front(undone[r])]
      /\ UNCHANGED <<base, issued, cur>>
  BY DEF RedoStep
<1>2. /\ log[r] \in Seq(Entry) /\ undone[r] \in Seq(Entry)
      /\ Sorted(r) /\ AsIssued(undone[r])
      /\ undone \in [Replica -> Seq(Entry)]
  BY DEF TypeOK, LogSorted, Faithful
<1>3. /\ Len(undone[r]) \in Nat \ {0} /\ e \in Entry
      /\ Front(undone[r]) \in Seq(Entry)
      /\ Len(Front(undone[r])) = Len(undone[r]) - 1
      /\ \A i \in 1..(Len(undone[r]) - 1) : Front(undone[r])[i] = undone[r][i]
      /\ TsOf(undone[r]) = TsOf(Front(undone[r])) \cup {e.ts}
      /\ Decreasing(Front(undone[r]))
      /\ \A x \in TsOf(Front(undone[r])) : e.ts < x
  BY <1>1, <1>2, FrontFacts, DecreasingFront DEF Sorted
<1>4. e.ts \in Ts /\ e.op \in Op /\ e.op = issued[e.ts]
  <2>1. e = undone[r][Len(undone[r])]
    BY DEF Last
  <2> QED BY <2>1, <1>2, <1>3 DEF AsIssued, Entry
<1>5. \A t \in TsOf(log[r]) : t < e.ts
  BY <1>2, <1>3 DEF Sorted
<1> HIDE DEF e
<1>6. /\ tree' \in [Replica -> State]
      /\ log' \in [Replica -> Seq(Entry)]
      /\ LogIsRun'
      /\ Increasing(log'[r]) /\ AsIssued(log[r])'
      /\ TsOf(log'[r]) = TsOf(log[r]) \cup {e.ts}
      /\ \A s \in Replica \ {r} : log'[s] = log[s]
  BY <1>1, <1>4, <1>5, AppendDoneKeeps
<1>7. TypeOK'
  BY <1>1, <1>2, <1>3, <1>6 DEF TypeOK
<1>8. /\ undone'[r] = Front(undone[r]) /\ cur' = cur
      /\ \A q \in Replica \ {r} : undone'[q] = undone[q]
  BY <1>1, <1>2
<1>9. Sorted(r)'
  BY <1>1, <1>2, <1>3, <1>6, <1>8 DEF Sorted
<1>10. LogSorted'
  BY <1>6, <1>8, <1>9 DEF LogSorted, Sorted
<1>11. Faithful'
  <2>1. AsIssued(undone[r])'
    BY <1>1, <1>2, <1>3, <1>8 DEF AsIssued
  <2> QED BY <2>1, <1>1, <1>6, <1>8 DEF Faithful, AsIssued
<1> QED BY <1>6, <1>7, <1>10, <1>11

----------------------------------------------------------------------------
\* The theorems.

LEMMA StepIInv == IInv /\ [Next]_vars => IInv'
<1> SUFFICES ASSUME IInv, [Next]_vars PROVE IInv'
  OBVIOUS
<1>1. CASE UNCHANGED vars
  BY <1>1 DEF vars, IInv, TypeOK, LogSorted, Sorted, LogIsRun, Faithful, AsIssued
<1>2. ASSUME NEW r \in Replica, Issue(r) PROVE IInv'
  BY <1>2, IssueKeeps
<1>3. ASSUME NEW r \in Replica, NEW ts \in Ts, Deliver(r, ts) PROVE IInv'
  BY <1>3, DeliverKeeps
<1>4. ASSUME NEW r \in Replica, UndoStep(r) PROVE IInv'
  BY <1>4, UndoKeeps
<1>5. ASSUME NEW r \in Replica, DoStep(r) PROVE IInv'
  BY <1>5, DoKeeps
<1>6. ASSUME NEW r \in Replica, RedoStep(r) PROVE IInv'
  BY <1>6, RedoKeeps
<1> QED BY <1>1, <1>2, <1>3, <1>4, <1>5, <1>6 DEF Next

(***************************************************************************)
(* The inductive invariant holds in every reachable state: in the middle   *)
(* of apply_op as well as between two calls, the tree is a run of do_op    *)
(* over the log, and the log carries exactly what was issued.              *)
(***************************************************************************)
THEOREM Invariance == Spec => []IInv
BY InitIInv, StepIInv, PTL DEF Spec

(***************************************************************************)
(* Type correctness: UndoOp of a recorded entry and DoOp of an issued      *)
(* operation never leave the shape of struct Tree.                         *)
(***************************************************************************)
THEOREM TypeCorrect == Spec => []TypeOK
<1>1. IInv => TypeOK
  BY DEF IInv
<1> QED BY <1>1, Invariance, PTL

(***************************************************************************)
(* OpLog::append's debug_assert and contains_ts's binary search are        *)
(* justified: every log is strictly ascending whatever order operations    *)
(* arrive in, and the undo stack lies above it.                            *)
(***************************************************************************)
THEOREM LogsStaySorted == Spec => []LogSorted
<1>1. IInv => LogSorted
  BY DEF IInv
<1> QED BY <1>1, Invariance, PTL

(***************************************************************************)
(* No interleaving of local edits and deliveries builds a tree in which a  *)
(* block is its own ancestor, not even for the length of one undo step.    *)
(***************************************************************************)
THEOREM TreesStayValid == Spec => []TreeValid
<1>1. IInv => TreeValid
  <2> SUFFICES ASSUME IInv, NEW r \in Replica PROVE WellFormed(tree[r])
    BY DEF TreeValid
  <2>1. log[r] \in Seq(Entry) /\ Runs(base, log[r], tree[r])
    BY DEF IInv, TypeOK, LogIsRun
  <2> QED BY <2>1, RunsType
<1> QED BY <1>1, Invariance, PTL

----------------------------------------------------------------------------
(***************************************************************************)
(* Convergence.  An ascending log is determined by the set of timestamps   *)
(* in it: take the first place at which two such logs part.                *)
(***************************************************************************)
LEMMA IncreasingPrefix ==
  ASSUME NEW s \in Seq(Entry), NEW u \in Seq(Entry),
         Increasing(s), Increasing(u), TsOf(s) = TsOf(u)
  PROVE  \A i \in 1..Len(s) : i \in 1..Len(u) /\ s[i].ts = u[i].ts
<1> DEFINE Ok(i) == i \in 1..Len(u) /\ s[i].ts = u[i].ts
           D == {i \in 1..Len(s) : ~ Ok(i)}
<1>1. Len(s) \in Nat /\ Len(u) \in Nat
  OBVIOUS
<1>2. /\ \A i \in 1..Len(s) : s[i].ts \in Nat
      /\ \A i \in 1..Len(u) : u[i].ts \in Nat
  BY EntryTs
<1>3. D = {}
  <2> SUFFICES ASSUME D # {} PROVE FALSE
    OBVIOUS
  <2>1. D \in SUBSET Nat
    BY <1>1
  <2> HIDE DEF D
  <2>2. PICK m \in D : \A i \in D : m <= i
    BY <2>1, LeastNatural
  <2>3. m \in 1..Len(s) /\ ~ Ok(m)
    BY <2>2 DEF D
  <2>4. \A i \in 1..Len(s) : i < m => Ok(i)
    <3> SUFFICES ASSUME NEW i \in 1..Len(s), i < m, ~ Ok(i) PROVE FALSE
      OBVIOUS
    <3>1. i \in D
      BY DEF D
    <3> QED BY <3>1, <2>2, <2>3, <1>1
  <2>5. PICK k \in 1..Len(u) : u[k].ts = s[m].ts
    BY <2>3 DEF TsOf
  <2>6. ~ (k < m)
    <3> SUFFICES ASSUME k < m PROVE FALSE
      OBVIOUS
    <3>1. k \in 1..Len(s) /\ s[k].ts = u[k].ts
      BY <2>3, <2>4, <1>1
    <3>2. s[k].ts < s[m].ts
      BY <3>1, <2>3 DEF Increasing
    <3> QED BY <3>1, <3>2, <2>3, <2>5, <1>2
  <2>7. m \in 1..Len(u) /\ m < k
    BY <2>3, <2>5, <2>6, <1>1
  <2>8. u[m].ts < s[m].ts
    BY <2>5, <2>7 DEF Increasing
  <2>9. PICK l \in 1..Len(s) : s[l].ts = u[m].ts
    BY <2>7 DEF TsOf
  <2>10. l < m
    <3> SUFFICES ASSUME ~ (l < m) PROVE FALSE
      OBVIOUS
    <3>1. l = m \/ m < l
      BY <2>3, <1>1
    <3>2. s[m].ts < s[l].ts \/ l = m
      BY <3>1, <2>3 DEF Increasing
    <3> QED BY <3>2, <2>3, <2>7, <2>8, <2>9, <1>2
  <2>11. l \in 1..Len(u) /\ u[l].ts = s[l].ts
    BY <2>4, <2>10
  <2>12. u[l].ts < u[m].ts
    BY <2>7, <2>10, <2>11 DEF Increasing
  <2> QED BY <2>7, <2>9, <2>11, <2>12, <1>2
<1> QED BY <1>3

LEMMA SameTsSameOps ==
  ASSUME NEW s \in Seq(Entry), NEW u \in Seq(Entry),
         Increasing(s), Increasing(u), TsOf(s) = TsOf(u),
         AsIssued(s), AsIssued(u)
  PROVE  SameOps(s, u)
<1>1. \A i \in 1..Len(s) : i \in 1..Len(u) /\ s[i].ts = u[i].ts
  BY IncreasingPrefix
<1>2. \A i \in 1..Len(u) : i \in 1..Len(s)
  BY IncreasingPrefix
<1>3. Len(s) = Len(u)
  <2>1. Len(s) \in Nat /\ Len(u) \in Nat
    OBVIOUS
  <2>2. Len(s) <= Len(u)
    BY <2>1, <1>1
  <2>3. Len(u) <= Len(s)
    BY <2>1, <1>2
  <2> QED BY <2>1, <2>2, <2>3
<1> QED BY <1>1, <1>3 DEF SameOps, AsIssued

(***************************************************************************)
(* Strong eventual consistency: two replicas that have returned from       *)
(* apply_op and hold the same operations show the same tree, for any       *)
(* number of replicas and operations and every order of delivery.          *)
(***************************************************************************)
THEOREM Converges == Spec => []Convergence
<1>1. IInv => Convergence
  <2> SUFFICES ASSUME IInv, NEW r \in Replica, NEW s \in Replica,
                      Idle(r), Idle(s), Held(r) = Held(s)
               PROVE  tree[r] = tree[s]
    BY DEF Convergence
  <2>1. /\ log[r] \in Seq(Entry) /\ Increasing(log[r]) /\ AsIssued(log[r])
        /\ log[s] \in Seq(Entry) /\ Increasing(log[s]) /\ AsIssued(log[s])
        /\ Runs(base, log[r], tree[r]) /\ Runs(base, log[s], tree[s])
    BY DEF IInv, TypeOK, LogSorted, Sorted, Faithful, LogIsRun
  <2>2. TsOf(log[r]) = TsOf(log[s])
    <3>1. TsOf(<<>>) = {}
      BY DEF TsOf
    <3>2. undone[r] = <<>> /\ undone[s] = <<>> /\ cur[r] = 0 /\ cur[s] = 0
      BY DEF Idle
    <3>3. Held(r) = TsOf(log[r]) /\ Held(s) = TsOf(log[s])
      BY <3>1, <3>2 DEF Held
    <3> QED BY <3>3
  <2>3. SameOps(log[r], log[s])
    BY <2>1, <2>2, SameTsSameOps
  <2> QED BY <2>1, <2>3, RunsUnique
<1> QED BY <1>1, Invariance, PTL

----------------------------------------------------------------------------
\* The runs of the invariant are the History of the property.
LEMMA HistoryIsRun ==
  ASSUME NEW lg \in Seq(Entry), NEW b, NEW h, IsRun(b, lg, h)
  PROVE  \A i \in 0..Len(lg) : History(b, lg)[i] = h[i]
<1> DEFINE n == Len(lg)
           g == History(b, lg)
           Step(f, i) == IF i = 0 THEN b ELSE DoOp(f[i - 1], lg[i].ts, lg[i].op)
           D == {i \in 0..n : g[i] # h[i]}
<1>1. n \in Nat
  OBVIOUS
<1>2. h = [i \in 0..n |-> Step(h, i)]
  <2>1. ASSUME NEW i \in 0..n PROVE h[i] = Step(h, i)
    <3>1. CASE i = 0
      BY <3>1 DEF IsRun
    <3>2. CASE i # 0
      <4>1. i \in 1..n
        BY <1>1, <3>2
      <4> QED BY <4>1, <3>2 DEF IsRun
    <3> QED BY <3>1, <3>2
  <2>2. h \in [0..n -> State]
    BY DEF IsRun
  <2> HIDE DEF Step
  <2> QED BY <2>1, <2>2
<1>3. g = CHOOSE f : f = [i \in 0..n |-> Step(f, i)]
  BY DEF History
<1> HIDE DEF g, Step
<1>4. g = [i \in 0..n |-> Step(g, i)]
  BY <1>2, <1>3, Zenon
<1>5. D = {}
  <2> SUFFICES ASSUME D # {} PROVE FALSE
    OBVIOUS
  <2>1. D \in SUBSET Nat
    BY <1>1
  <2> HIDE DEF D
  <2>2. PICK m \in D : \A i \in D : m <= i
    BY <2>1, LeastNatural
  <2>3. m \in 0..n /\ g[m] # h[m]
    BY <2>2 DEF D
  <2>4. g[m] = Step(g, m) /\ h[m] = Step(h, m)
    BY <1>2, <1>4, <2>3
  <2>5. CASE m = 0
    BY <2>3, <2>4, <2>5 DEF Step
  <2>6. CASE m # 0
    <3>1. m - 1 \in 0..n /\ m - 1 \notin D
      BY <1>1, <2>2, <2>3, <2>6
    <3>2. g[m - 1] = h[m - 1]
      BY <3>1 DEF D
    <3> QED BY <2>3, <2>4, <2>6, <3>2 DEF Step
  <2> QED BY <2>5, <2>6
<1> QED BY <1>5 DEF g

(***************************************************************************)
(* undo_op inverts do_op at every place of every log, ignored moves and    *)
(* repeated Creates included, and a replica's tree is the replay of its    *)
(* log in HLC order from the boot tree.                                    *)
(***************************************************************************)
THEOREM UndoIsExact == Spec => []UndoExact
<1>1. IInv => UndoExact
  <2> SUFFICES ASSUME IInv, NEW r \in Replica
               PROVE  LET h == History(base, log[r])
                      IN  /\ tree[r] = h[Len(log[r])]
                          /\ \A i \in 1..Len(log[r]) :
                               /\ log[r][i].op = issued[log[r][i].ts]
                               /\ UndoOp(h[i], log[r][i].ts, log[r][i].op,
                                         log[r][i].old) = h[i - 1]
    BY DEF UndoExact
  <2> DEFINE lg == log[r]
             g == History(base, lg)
  <2>1. /\ lg \in Seq(Entry) /\ Increasing(lg) /\ AsIssued(lg)
        /\ Runs(base, lg, tree[r])
    BY DEF IInv, TypeOK, LogSorted, Sorted, Faithful, LogIsRun
  <2>2. PICK h : IsRun(base, lg, h) /\ tree[r] = h[Len(lg)]
    BY <2>1 DEF Runs
  <2>3. \A i \in 0..Len(lg) : g[i] = h[i]
    BY <2>1, <2>2, HistoryIsRun
  <2>4. Len(lg) \in Nat
    BY <2>1
  <2> HIDE DEF g
  <2>5. tree[r] = g[Len(lg)]
    BY <2>2, <2>3, <2>4
  <2>6. ASSUME NEW i \in 1..Len(lg)
        PROVE  UndoOp(g[i], lg[i].ts, lg[i].op, lg[i].old) = g[i - 1]
    <3>1. UndoOp(h[i], lg[i].ts, lg[i].op, lg[i].old) = h[i - 1]
      BY <2>1, <2>2, RunInverse
    <3>2. i \in 0..Len(lg) /\ i - 1 \in 0..Len(lg)
      BY <2>4
    <3> QED BY <3>1, <3>2, <2>3
  <2> QED BY <2>1, <2>5, <2>6 DEF g, AsIssued
<1> QED BY <1>1, Invariance, PTL

----------------------------------------------------------------------------
(***************************************************************************)
(* No accepted operation is ever lost: an undone entry waits on the stack  *)
(* until it is redone, and the operation being inserted ends in the log.   *)
(***************************************************************************)
THEOREM NothingLost == Spec => NothingForgotten
<1> DEFINE Kept == \A r \in Replica : Held(r) \subseteq Held(r)'
<1>1. IInv /\ [Next]_vars => [Kept]_vars
  <2> SUFFICES ASSUME IInv, Next PROVE Kept
    OBVIOUS
  <2>0. /\ log \in [Replica -> Seq(Entry)] /\ undone \in [Replica -> Seq(Entry)]
        /\ cur \in [Replica -> Ts \cup {0}]
    BY DEF IInv, TypeOK
  <2> SUFFICES ASSUME NEW q \in Replica PROVE Held(q) \subseteq Held(q)'
    OBVIOUS
  <2>1. ASSUME NEW r \in Replica, Issue(r) PROVE Held(q) \subseteq Held(q)'
    BY <2>0, <2>1 DEF Issue, Idle, Held
  <2>2. ASSUME NEW r \in Replica, NEW ts \in Ts, Deliver(r, ts)
        PROVE  Held(q) \subseteq Held(q)'
    BY <2>0, <2>2 DEF Deliver, Idle, Held
  <2>3. ASSUME NEW r \in Replica, UndoStep(r) PROVE Held(q) \subseteq Held(q)'
    <3> DEFINE e == Last(log[r])
    <3>1. /\ log[r] # <<>> /\ cur' = cur
          /\ undone' = [undone EXCEPT ![r] = Append(undone[r], e)]
          /\ log' = [log EXCEPT ![r] = Front(log[r])]
      BY <2>3 DEF UndoStep, NewerTail
    <3>2. e \in Entry /\ TsOf(log[r]) = TsOf(Front(log[r])) \cup {e.ts}
      BY <2>0, <3>1, FrontFacts
    <3>3. TsOf(Append(undone[r], e)) = TsOf(undone[r]) \cup {e.ts}
      BY <2>0, <3>2, AppendFacts
    <3> HIDE DEF e
    <3> QED BY <2>0, <3>1, <3>2, <3>3 DEF Held
  <2>4. ASSUME NEW r \in Replica, DoStep(r) PROVE Held(q) \subseteq Held(q)'
    <3> DEFINE e == [ts |-> cur[r], op |-> issued[cur[r]],
                     old |-> Captured(tree[r], issued[cur[r]])]
    <3>1. /\ cur[r] # 0 /\ undone' = undone
          /\ cur' = [cur EXCEPT ![r] = 0]
          /\ log' = [log EXCEPT ![r] = Append(log[r], e)]
      BY <2>4 DEF DoStep, AppendDone
    <3>2. e \in Entry
      <4>1. cur[r] \in Ts /\ issued[cur[r]] \in Op /\ tree[r] \in State
        BY <3>1, CRDTConstants DEF IInv, TypeOK
      <4> QED BY <4>1, CapturedType DEF Entry
    <3>3. TsOf(Append(log[r], e)) = TsOf(log[r]) \cup {cur[r]}
      BY <2>0, <3>2, AppendFacts
    <3> HIDE DEF e
    <3> QED BY <2>0, <3>1, <3>3 DEF Held
  <2>5. ASSUME NEW r \in Replica, RedoStep(r) PROVE Held(q) \subseteq Held(q)'
    <3> DEFINE d == Last(undone[r])
               e == [ts |-> d.ts, op |-> d.op,
                     old |-> Captured(tree[r], d.op)]
    <3>1. /\ undone[r] # <<>> /\ cur' = cur
          /\ undone' = [undone EXCEPT ![r] = Front(undone[r])]
          /\ log' = [log EXCEPT ![r] = Append(log[r], e)]
      BY <2>5 DEF RedoStep, AppendDone
    <3>2. d \in Entry /\ TsOf(undone[r]) = TsOf(Front(undone[r])) \cup {d.ts}
      BY <2>0, <3>1, FrontFacts
    <3>3. e \in Entry
      <4>1. d.ts \in Ts /\ d.op \in Op /\ tree[r] \in State
        BY <3>2 DEF IInv, TypeOK, Entry
      <4> QED BY <4>1, CapturedType DEF Entry
    <3>4. TsOf(Append(log[r], e)) = TsOf(log[r]) \cup {d.ts}
      BY <2>0, <3>3, AppendFacts
    <3> HIDE DEF d, e
    <3> QED BY <2>0, <3>1, <3>2, <3>4 DEF Held
  <2> QED BY <2>1, <2>2, <2>3, <2>4, <2>5 DEF Next
<1> QED BY <1>1, Invariance, PTL DEF Spec, NothingForgotten

----------------------------------------------------------------------------
(***************************************************************************)
(* No block is left without an ancestor.  With seeded clocks an operation  *)
(* is stamped above everything its replica holds, so the parent it names   *)
(* was in the boot tree or has a Create below it in every complete log.    *)
(***************************************************************************)
Backs(n, t) ==
  \/ Present(base, n)
  \/ \E u \in Ts : /\ u < t /\ issued[u] \in Op
                   /\ issued[u].kind = "Create" /\ issued[u].node = n

ParentsBacked == \A t \in Ts :
  /\ issued[t] \in Op
  /\ issued[t].kind \in {"Create", "Move"} /\ issued[t].parent \in Node
  => Backs(issued[t].parent, t)

\* A record on a replica is from the boot tree or from a Create in the log.
LEMMA RecordsHaveCreates ==
  ASSUME NEW lg \in Seq(Entry), NEW b, NEW s, Runs(b, lg, s),
         NEW n \in Node, Present(s, n)
  PROVE  \/ Present(b, n)
         \/ \E i \in 1..Len(lg) : lg[i].op.kind = "Create" /\ lg[i].op.node = n
<1>1. PICK h : IsRun(b, lg, h) /\ s = h[Len(lg)]
  BY DEF Runs
<1> DEFINE D == {i \in 0..Len(lg) : Present(h[i], n)}
<1>2. Len(lg) \in Nat /\ D \in SUBSET Nat /\ D # {}
  BY <1>1
<1> HIDE DEF D
<1>3. PICK m \in D : \A i \in D : m <= i
  BY <1>2, LeastNatural
<1>4. m \in 0..Len(lg) /\ Present(h[m], n)
  BY <1>3 DEF D
<1>5. CASE m = 0
  BY <1>1, <1>4, <1>5 DEF IsRun
<1>6. CASE m # 0
  <2>1. m \in 1..Len(lg) /\ m - 1 \in 0..Len(lg) /\ m - 1 \notin D
    BY <1>2, <1>3, <1>4, <1>6
  <2>2. ~ Present(h[m - 1], n)
    BY <2>1 DEF D
  <2>3. h[m - 1] \in State /\ h[m] = DoOp(h[m - 1], lg[m].ts, lg[m].op)
    BY <1>1, <2>1 DEF IsRun
  <2>4. lg[m].ts \in Nat /\ lg[m].op \in Op
    BY <2>1, EntryTs
  <2>5. lg[m].op.kind = "Create" /\ lg[m].op.node = n
    BY <1>4, <2>2, <2>3, <2>4, DoOpPresent
  <2> QED BY <2>1, <2>5
<1> QED BY <1>5, <1>6

LEMMA InitBacked == Init => ParentsBacked
BY CRDTConstants DEF Init, ParentsBacked

LEMMA StepBacked ==
  ASSUME Seeded, IInv, ParentsBacked, [Next]_vars
  PROVE  ParentsBacked'
<1>1. CASE UNCHANGED <<base, issued>>
  BY <1>1 DEF ParentsBacked, Backs
<1>2. ASSUME NEW r \in Replica, Issue(r) PROVE ParentsBacked'
  <2>1. PICK ts \in Ts, op \in LocalOps :
          /\ issued[ts] = None /\ \A t \in Held(r) : t < ts
          /\ Resolvable(r, op)
          /\ issued' = [issued EXCEPT ![ts] = op]
    BY <1>2 DEF Issue, ClockAllows
  <2>2. base' = base /\ issued \in [Ts -> LocalOps \cup {None}]
    BY <1>2 DEF Issue, IInv, TypeOK
  <2>3. None \notin Op /\ op \in Op
    BY CRDTConstants
  <2>4. issued'[ts] = op /\ \A t \in Ts \ {ts} : issued'[t] = issued[t]
    BY <2>1, <2>2
  <2>5. ASSUME NEW n \in Node, NEW t \in Ts, Backs(n, t)
        PROVE  Backs(n, t)'
    <3>1. CASE Present(base, n)
      BY <3>1, <2>2 DEF Backs
    <3>2. CASE \E u \in Ts : /\ u < t /\ issued[u] \in Op
                             /\ issued[u].kind = "Create" /\ issued[u].node = n
      <4>1. PICK u \in Ts : /\ u < t /\ issued[u] \in Op
                            /\ issued[u].kind = "Create" /\ issued[u].node = n
        BY <3>2
      <4>2. issued'[u] = issued[u]
        BY <4>1, <2>1, <2>3, <2>4
      <4> QED BY <4>1, <4>2 DEF Backs
    <3> QED BY <2>5, <3>1, <3>2 DEF Backs
  <2>6. ASSUME op.kind \in {"Create", "Move"}, op.parent \in Node
        PROVE  Backs(op.parent, ts)'
    <3> DEFINE lg == log[r]
    <3>1. /\ lg \in Seq(Entry) /\ Runs(base, lg, tree[r]) /\ AsIssued(lg)
      BY DEF IInv, TypeOK, LogIsRun, Faithful
    <3>2. Present(tree[r], op.parent)
      BY <2>1, <2>6 DEF Resolvable
    <3>3. CASE Present(base, op.parent)
      BY <3>3, <2>2 DEF Backs
    <3>4. CASE \E i \in 1..Len(lg) :
                 lg[i].op.kind = "Create" /\ lg[i].op.node = op.parent
      <4>1. PICK i \in 1..Len(lg) :
                 lg[i].op.kind = "Create" /\ lg[i].op.node = op.parent
        BY <3>4
      <4> DEFINE u == lg[i].ts
      <4>2. u \in Ts /\ u \in Held(r) /\ issued[u] \in Op /\ issued[u] = lg[i].op
        BY <3>1, <4>1, EntryTs DEF AsIssued, Held, TsOf
      <4> HIDE DEF u
      <4>3. issued'[u] = issued[u] /\ u < ts
        BY <4>2, <2>1, <2>3, <2>4
      <4> QED BY <4>1, <4>2, <4>3 DEF Backs
    <3> QED BY <2>6, <3>1, <3>2, <3>3, <3>4, RecordsHaveCreates
  <2> SUFFICES ASSUME NEW t \in Ts, issued'[t] \in Op,
                      issued'[t].kind \in {"Create", "Move"},
                      issued'[t].parent \in Node
               PROVE  Backs(issued[t].parent, t)'
    BY DEF ParentsBacked
  <2>7. CASE t = ts
    <3>1. Backs(op.parent, ts)'
      BY <2>4, <2>6, <2>7
    <3> QED BY <2>4, <2>7, <3>1 DEF Backs
  <2>8. CASE t # ts
    <3>1. issued'[t] = issued[t]
      BY <2>4, <2>8
    <3>2. Backs(issued[t].parent, t)
      BY <3>1 DEF ParentsBacked
    <3>3. \A n \in Node : Backs(n, t) => Backs(n, t)'
      BY <2>5
    <3>4. issued[t].parent \in Node
      BY <3>1
    <3> QED BY <3>1, <3>2, <3>3, <3>4 DEF Backs
  <2> QED BY <2>7, <2>8
<1>3. ASSUME NEW r \in Replica,
             \/ \E ts \in Ts : Deliver(r, ts)
             \/ UndoStep(r) \/ DoStep(r) \/ RedoStep(r)
      PROVE  UNCHANGED <<base, issued>>
  BY <1>3 DEF Deliver, UndoStep, DoStep, RedoStep
<1>4. CASE UNCHANGED vars
  BY <1>1, <1>4 DEF vars
<1> QED BY <1>1, <1>2, <1>3, <1>4 DEF Next

(***************************************************************************)
(* Along a log that is complete, in the sense that the Create of every     *)
(* parent comes first, no tree has a gap and every Create has taken.       *)
(***************************************************************************)
LEMMA CompleteRunRooted ==
  ASSUME NEW lg \in Seq(Entry), NEW b, NEW h, IsRun(b, lg, h), Rooted(b),
         \A i \in 1..Len(lg) :
           /\ lg[i].op.kind \in {"Create", "Move"} /\ lg[i].op.parent \in Node
           => \/ Present(b, lg[i].op.parent)
              \/ \E j \in 1..Len(lg) : /\ j < i /\ lg[j].op.kind = "Create"
                                       /\ lg[j].op.node = lg[i].op.parent
  PROVE  Rooted(h[Len(lg)])
<1> DEFINE N == Len(lg)
           Good(i) ==
             /\ Rooted(h[i])
             /\ \A m \in Node : Present(b, m) => Present(h[i], m)
             /\ \A j \in 1..N : j <= i /\ lg[j].op.kind = "Create"
                                  => Present(h[i], lg[j].op.node)
           D == {i \in 0..N : ~ Good(i)}
<1>1. N \in Nat
  OBVIOUS
<1>2. D = {}
  <2> SUFFICES ASSUME D # {} PROVE FALSE
    OBVIOUS
  <2>1. D \in SUBSET Nat
    BY <1>1
  <2> HIDE DEF D
  <2>2. PICK i \in D : \A k \in D : i <= k
    BY <2>1, LeastNatural
  <2>3. i \in 0..N /\ ~ Good(i)
    BY <2>2 DEF D
  <2>4. CASE i = 0
    BY <1>1, <2>3, <2>4 DEF IsRun
  <2>5. CASE i # 0
    <3> DEFINE p == i - 1
               s == h[p]
               op == lg[i].op
    <3>1. p \in 0..N /\ i \in 1..N /\ p \notin D
      BY <1>1, <2>2, <2>3, <2>5
    <3>2. Good(p)
      BY <3>1 DEF D
    <3>3. s \in State /\ h[i] = DoOp(s, lg[i].ts, op)
      BY <3>1 DEF IsRun
    <3>4. lg[i].ts \in Nat /\ op \in Op /\ op.node \in Node
      BY <3>1, EntryTs, OpKinds
    <3>5. ASSUME op.kind \in {"Create", "Move"}, op.parent \in Node
          PROVE  Present(s, op.parent)
      <4>1. CASE Present(b, op.parent)
        BY <4>1, <3>2, <3>5
      <4>2. CASE \E j \in 1..N : /\ j < i /\ lg[j].op.kind = "Create"
                                 /\ lg[j].op.node = op.parent
        <5>1. PICK j \in 1..N : /\ j < i /\ lg[j].op.kind = "Create"
                                /\ lg[j].op.node = op.parent
          BY <4>2
        <5>2. j <= p
          BY <3>1, <5>1
        <5> QED BY <5>1, <5>2, <3>2
      <4> QED BY <3>1, <3>5, <4>1, <4>2
    <3> HIDE DEF s, op
    <3>6. Rooted(h[i]) /\ (op.kind = "Create" => Present(h[i], op.node))
      BY <3>2, <3>3, <3>4, <3>5, DoOpRooted DEF s
    <3>7. \A m \in Node : Present(s, m) => Present(h[i], m)
      BY <3>3, <3>4, DoOpPresent
    <3>8. \A m \in Node : Present(b, m) => Present(h[i], m)
      BY <3>2, <3>7 DEF s
    <3>9. ASSUME NEW j \in 1..N, j <= i, lg[j].op.kind = "Create"
          PROVE  Present(h[i], lg[j].op.node)
      <4>1. lg[j].op.node \in Node
        BY EntryTs, OpKinds
      <4>2. CASE j = i
        BY <4>2, <3>6, <3>9 DEF op
      <4>3. CASE j # i
        <5>1. j <= p
          BY <4>3, <3>1, <3>9
        <5> QED BY <5>1, <4>1, <3>2, <3>7, <3>9 DEF s
      <4> QED BY <4>2, <4>3
    <3> QED BY <2>3, <3>6, <3>8, <3>9
  <2> QED BY <2>4, <2>5
<1> QED BY <1>1, <1>2

(***************************************************************************)
(* Once every operation that was issued has reached a replica, no block    *)
(* there hangs under a parent without a record: with clocks seeded from    *)
(* the log, and from boot trees that have no such block, cycles through a  *)
(* missing parent heal and no Create stays ignored.                        *)
(***************************************************************************)
THEOREM NobodyOrphaned ==
  ASSUME Seeded, \A b \in Base : Rooted(b)
  PROVE  Spec => []RootedOnceDelivered
<1>1. IInv /\ ParentsBacked /\ [Next]_vars => ParentsBacked'
  BY StepBacked
<1>2. Spec => []ParentsBacked
  BY <1>1, InitBacked, Invariance, PTL DEF Spec
<1>3. IInv /\ ParentsBacked => RootedOnceDelivered
  <2> SUFFICES ASSUME IInv, ParentsBacked, NEW r \in Replica, Idle(r),
                      \A t \in Ts : issued[t] # None => t \in Held(r)
               PROVE  Rooted(tree[r])
    BY DEF RootedOnceDelivered
  <2> DEFINE lg == log[r]
  <2>1. /\ lg \in Seq(Entry) /\ Increasing(lg) /\ AsIssued(lg)
        /\ Runs(base, lg, tree[r]) /\ base \in Base
    BY DEF IInv, TypeOK, LogSorted, Sorted, Faithful, LogIsRun
  <2>2. PICK h : IsRun(base, lg, h) /\ tree[r] = h[Len(lg)]
    BY <2>1 DEF Runs
  <2>3. \A t \in Ts : issued[t] \in Op => t \in TsOf(lg)
    BY CRDTConstants DEF Held, Idle, TsOf
  <2>4. ASSUME NEW i \in 1..Len(lg),
               lg[i].op.kind \in {"Create", "Move"}, lg[i].op.parent \in Node
        PROVE  \/ Present(base, lg[i].op.parent)
               \/ \E j \in 1..Len(lg) : /\ j < i /\ lg[j].op.kind = "Create"
                                        /\ lg[j].op.node = lg[i].op.parent
    <3> DEFINE t == lg[i].ts
               n == lg[i].op.parent
    <3>1. t \in Ts /\ t \in Nat /\ issued[t] \in Op /\ issued[t] = lg[i].op
      BY <2>1, EntryTs DEF AsIssued
    <3>2. Backs(n, t)
      BY <3>1, <2>4 DEF ParentsBacked
    <3> SUFFICES ASSUME ~ Present(base, n)
                 PROVE  \E j \in 1..Len(lg) : /\ j < i /\ lg[j].op.kind = "Create"
                                              /\ lg[j].op.node = n
      OBVIOUS
    <3>3. PICK u \in Ts : /\ u < t /\ issued[u] \in Op
                          /\ issued[u].kind = "Create" /\ issued[u].node = n
      BY <3>2 DEF Backs
    <3>4. PICK j \in 1..Len(lg) : u = lg[j].ts
      BY <2>3, <3>3 DEF TsOf
    <3>5. lg[j].op = issued[u]
      BY <2>1, <3>4 DEF AsIssued
    <3>6. j < i
      <4> SUFFICES ASSUME i <= j PROVE FALSE
        BY <2>1
      <4>1. lg[i].ts <= lg[j].ts
        BY <2>1, EntryTs DEF Increasing
      <4>2. lg[i].ts \in Nat /\ lg[j].ts \in Nat
        BY <2>1, EntryTs
      <4> QED BY <4>1, <4>2, <3>3, <3>4
    <3> QED BY <3>3, <3>4, <3>5, <3>6
  <2>5. Rooted(base)
    BY <2>1
  <2> QED BY <2>1, <2>2, <2>4, <2>5, CompleteRunRooted
<1> QED BY <1>2, <1>3, Invariance, PTL

----------------------------------------------------------------------------
(***************************************************************************)
(* The refinement.  Every step of the reorder loop is a step of            *)
(* ConvergentTree or changes nothing ConvergentTree speaks of.  The        *)
(* promise says what a replica shows through Replay, a recursive function  *)
(* over timestamps; the lemmas relate it to the runs over a log that the   *)
(* inductive invariant speaks of.                                          *)
(***************************************************************************)

\* What Replay computes.

(***************************************************************************)
(* Between which two entries of the log a timestamp falls.                 *)
(***************************************************************************)
At(lg, k, t) ==
  /\ k = 0 \/ lg[k].ts <= t
  /\ k = Len(lg) \/ t < lg[k + 1].ts

LEMMA SomewhereInTheLog ==
  ASSUME NEW lg \in Seq(Entry), NEW t \in Nat
  PROVE  \E k \in 0..Len(lg) : At(lg, k, t)
<1> DEFINE n == Len(lg)
           D == {k \in 0..n : \A j \in 1..n : lg[j].ts <= t => j <= k}
<1>1. n \in Nat
  OBVIOUS
<1>2. n \in D /\ D \in SUBSET Nat
  BY <1>1
<1> HIDE DEF D
<1>3. PICK k \in D : \A i \in D : k <= i
  BY <1>2, LeastNatural
<1>4. k \in 0..n /\ \A j \in 1..n : lg[j].ts <= t => j <= k
  BY <1>3 DEF D
<1>5. k = 0 \/ lg[k].ts <= t
  <2> SUFFICES ASSUME k # 0 PROVE lg[k].ts <= t
    OBVIOUS
  <2>1. k - 1 \in 0..n /\ k - 1 \notin D
    BY <1>1, <1>3, <1>4
  <2>2. PICK j \in 1..n : lg[j].ts <= t /\ ~ (j <= k - 1)
    BY <2>1 DEF D
  <2>3. j = k
    BY <1>4, <2>2
  <2> QED BY <2>2, <2>3
<1>6. k = n \/ t < lg[k + 1].ts
  <2> SUFFICES ASSUME k # n PROVE t < lg[k + 1].ts
    OBVIOUS
  <2>1. k + 1 \in 1..n /\ ~ (k + 1 <= k)
    BY <1>1, <1>4
  <2>2. lg[k + 1].ts \in Nat
    BY <2>1, EntryTs
  <2> QED BY <1>4, <2>1, <2>2
<1> QED BY <1>4, <1>5, <1>6 DEF At

LEMMA AtOnePlace ==
  ASSUME NEW lg \in Seq(Entry), Increasing(lg), NEW t \in Nat,
         NEW k \in 0..Len(lg), NEW l \in 0..Len(lg), At(lg, k, t), At(lg, l, t)
  PROVE  k = l
<1>1. ASSUME NEW i \in 0..Len(lg), NEW j \in 0..Len(lg), i < j,
             At(lg, i, t), At(lg, j, t)
      PROVE  FALSE
  <2>1. i + 1 \in 1..Len(lg) /\ j \in 1..Len(lg) /\ i + 1 <= j /\ i # Len(lg)
    BY <1>1
  <2>2. t < lg[i + 1].ts /\ lg[j].ts <= t
    BY <1>1, <2>1 DEF At
  <2>3. lg[i + 1].ts \in Nat /\ lg[j].ts \in Nat
    BY <2>1, EntryTs
  <2>4. lg[i + 1].ts <= lg[j].ts
    BY <2>1, <2>3 DEF Increasing
  <2> QED BY <2>2, <2>3, <2>4
<1> QED BY <1>1

LEMMA HighestOfLog ==
  ASSUME NEW lg \in Seq(Entry), Increasing(lg)
  PROVE  /\ Highest(TsOf(lg)) \in Nat
         /\ \A t \in TsOf(lg) : t <= Highest(TsOf(lg))
         /\ Len(lg) # 0 => Highest(TsOf(lg)) = lg[Len(lg)].ts
<1> DEFINE S == TsOf(lg)
           n == Len(lg)
           m == IF n = 0 THEN 0 ELSE lg[n].ts
<1>1. n \in Nat /\ S \subseteq Nat /\ \A i \in 1..n : lg[i].ts \in Nat
  BY EntryTs
<1>2. m \in S \cup {0} /\ m \in Nat
  BY <1>1 DEF TsOf
<1>3. ASSUME NEW t \in S PROVE t <= m
  <2>1. PICK i \in 1..n : t = lg[i].ts
    BY DEF TsOf
  <2>2. n # 0 /\ n \in 1..n
    BY <1>1, <2>1
  <2>3. i = n \/ lg[i].ts < lg[n].ts
    BY <2>1, <2>2 DEF Increasing
  <2> QED BY <1>1, <2>1, <2>2, <2>3
<1> HIDE DEF m, S
<1>4. Highest(S) \in S \cup {0} /\ \A t \in S : t <= Highest(S)
  BY <1>2, <1>3 DEF Highest
<1>5. Highest(S) = m
  <2> DEFINE h == Highest(S)
  <2>1. /\ h \in S \cup {0} /\ S \subseteq Nat
        /\ m \in S \cup {0} /\ \A t \in S : t <= h /\ t <= m
    BY <1>1, <1>2, <1>3, <1>4
  <2> HIDE DEF h
  <2>2. h \in Nat /\ m \in Nat
    BY <2>1
  <2>3. h <= m /\ m <= h
    BY <2>1, <2>2
  <2> QED BY <2>2, <2>3 DEF h
<1> QED BY <1>2, <1>4, <1>5 DEF m, S

(***************************************************************************)
(* The end of a run over an ascending log is the replay of the timestamps  *)
(* in it.  The witness of the recursive function shows, at t, the tree     *)
(* after the last entry that is not above t.                               *)
(***************************************************************************)
LEMMA RunIsReplay ==
  ASSUME NEW lg \in Seq(Entry), Increasing(lg), AsIssued(lg),
         NEW b, NEW s, Runs(b, lg, s)
  PROVE  Replay(b, issued, TsOf(lg)) = s
<1> DEFINE n == Len(lg)
           S == TsOf(lg)
           H == Highest(S)
           Step(f, t) == IF t = 0 THEN b
                         ELSE IF t \in S THEN DoOp(f[t - 1], t, issued[t])
                              ELSE f[t - 1]
<1>1. PICK h : IsRun(b, lg, h) /\ s = h[n]
  BY DEF Runs
<1>2. /\ n \in Nat /\ S \subseteq Nat
      /\ \A i \in 1..n : lg[i].ts \in Nat \ {0} /\ lg[i].op = issued[lg[i].ts]
  BY EntryTs DEF AsIssued
<1>3. /\ H \in Nat /\ \A t \in S : t <= H
      /\ n # 0 => H = lg[n].ts
  BY HighestOfLog
<1> DEFINE w == [t \in 0..H |->
                  CHOOSE x : \E k \in 0..n : At(lg, k, t) /\ x = h[k]]
<1>4. ASSUME NEW t \in 0..H, NEW k \in 0..n, At(lg, k, t)
      PROVE  w[t] = h[k]
  <2> DEFINE P(x) == \E l \in 0..n : At(lg, l, t) /\ x = h[l]
  <2>1. P(h[k])
    BY <1>4
  <2>2. \A x : P(x) => x = h[k]
    BY <1>4, AtOnePlace
  <2>3. w[t] = CHOOSE x : P(x)
    BY <1>4
  <2> HIDE DEF w, P
  <2> QED BY <2>1, <2>2, <2>3, Zenon
<1> HIDE DEF w, H, S
<1>5. w[0] = b
  <2>1. At(lg, 0, 0)
    BY <1>2 DEF At
  <2> QED BY <2>1, <1>1, <1>2, <1>3, <1>4 DEF IsRun
<1>6. w[H] = s
  <2>1. At(lg, n, H)
    BY <1>2, <1>3 DEF At
  <2> QED BY <2>1, <1>1, <1>2, <1>3, <1>4
<1>7. ASSUME NEW t \in 0..H, t # 0, t \in S
      PROVE  w[t] = DoOp(w[t - 1], t, issued[t])
  <2>1. PICK j \in 1..n : t = lg[j].ts
    BY <1>7 DEF S, TsOf
  <2>2. j \in 0..n /\ j - 1 \in 0..n /\ t - 1 \in 0..H
    BY <1>2, <1>3, <1>7, <2>1
  <2>3. At(lg, j, t)
    <3>1. j # n => j + 1 \in 1..n /\ lg[j].ts < lg[j + 1].ts
      BY <1>2, <2>1 DEF Increasing
    <3> QED BY <3>1, <2>1, <1>2 DEF At
  <2>4. At(lg, j - 1, t - 1)
    <3>1. j # 1 => j - 1 \in 1..n /\ lg[j - 1].ts < lg[j].ts
      BY <1>2, <2>1 DEF Increasing
    <3>2. j - 1 # 0 => lg[j - 1].ts <= t - 1
      BY <3>1, <2>1, <1>2
    <3>3. t - 1 < lg[(j - 1) + 1].ts
      BY <2>1, <1>2
    <3> QED BY <3>2, <3>3 DEF At
  <2>5. w[t] = h[j] /\ w[t - 1] = h[j - 1]
    BY <2>2, <2>3, <2>4, <1>4
  <2>6. h[j] = DoOp(h[j - 1], lg[j].ts, lg[j].op)
    BY <1>1, <2>1 DEF IsRun
  <2> QED BY <2>1, <2>5, <2>6, <1>2
<1>8. ASSUME NEW t \in 0..H, t # 0, t \notin S
      PROVE  w[t] = w[t - 1]
  <2>1. PICK k \in 0..n : At(lg, k, t)
    BY <1>3, SomewhereInTheLog
  <2>2. t - 1 \in 0..H
    BY <1>3, <1>8
  <2>3. k # 0 => k \in 1..n /\ lg[k].ts # t
    BY <1>8, <2>1 DEF S, TsOf
  <2>4. k # n => k + 1 \in 1..n
    BY <1>2, <2>1
  <2>5. At(lg, k, t - 1)
    BY <2>1, <2>3, <2>4, <1>2 DEF At
  <2> QED BY <2>1, <2>2, <2>5, <1>4
<1>9. w = [t \in 0..H |-> Step(w, t)]
  <2>1. ASSUME NEW t \in 0..H PROVE w[t] = Step(w, t)
    BY <1>5, <1>7, <1>8
  <2>2. w = [t \in 0..H |-> w[t]]
    BY DEF w
  <2> HIDE DEF Step
  <2> QED BY <2>1, <2>2
<1> DEFINE g == CHOOSE f : f = [t \in 0..H |-> Step(f, t)]
<1>10. Replay(b, issued, S) = g[H]
  BY DEF Replay, H
<1> HIDE DEF g, Step
<1>11. g = [t \in 0..H |-> Step(g, t)]
  BY <1>9, Zenon DEF g
<1> DEFINE D == {t \in 0..H : g[t] # w[t]}
<1>12. D = {}
  <2> SUFFICES ASSUME D # {} PROVE FALSE
    OBVIOUS
  <2>1. D \in SUBSET Nat
    BY <1>3
  <2> HIDE DEF D
  <2>2. PICK m \in D : \A i \in D : m <= i
    BY <2>1, LeastNatural
  <2>3. m \in 0..H /\ g[m] # w[m]
    BY <2>2 DEF D
  <2>4. g[m] = Step(g, m) /\ w[m] = Step(w, m)
    BY <1>9, <1>11, <2>3
  <2>5. CASE m = 0
    BY <2>3, <2>4, <2>5 DEF Step
  <2>6. CASE m # 0
    <3>1. m - 1 \in 0..H /\ m - 1 \notin D
      BY <1>3, <2>2, <2>3, <2>6
    <3>2. g[m - 1] = w[m - 1]
      BY <3>1 DEF D
    <3> QED BY <2>3, <2>4, <2>6, <3>2 DEF Step
  <2> QED BY <2>5, <2>6
<1>13. g[H] = w[H]
  BY <1>3, <1>12
<1> QED BY <1>6, <1>10, <1>13 DEF S

----------------------------------------------------------------------------
\* The promise's own copy of the tree operators is TreeState's.

LEMMA PromiseDoOp ==
  ASSUME NEW s, NEW ts, NEW op
  PROVE  Promise!DoOp(s, ts, op) = DoOp(s, ts, op)
BY DEF Promise!DoOp, DoOp, Promise!MoveTakes, MoveTakes, Promise!CreateTakes,
       CreateTakes, Promise!Present, Present, Promise!CreatesCycle,
       CreatesCycle, Promise!UpClosed, UpClosed, Promise!Place, Place

LEMMA PromiseReplay ==
  ASSUME NEW b, NEW ops, NEW S
  PROVE  Promise!Replay(b, ops, S) = Replay(b, ops, S)
<1> DEFINE H == Highest(S)
           G(f) == [t \in 0..H |-> IF t = 0 THEN b
                                   ELSE IF t \in S THEN DoOp(f[t - 1], t, ops[t])
                                        ELSE f[t - 1]]
           K(f) == [t \in 0..H |->
                      IF t = 0 THEN b
                      ELSE IF t \in S THEN Promise!DoOp(f[t - 1], t, ops[t])
                           ELSE f[t - 1]]
<1>1. Promise!Highest(S) = H
  BY DEF Promise!Highest, Highest
<1>2. ASSUME NEW f PROVE G(f) = K(f)
  BY PromiseDoOp
<1>3. Replay(b, ops, S) = (CHOOSE f : f = G(f))[H]
  BY DEF Replay
<1> HIDE DEF H
<1>4. Promise!Replay(b, ops, S) = (CHOOSE f : f = K(f))[H]
  BY <1>1 DEF Promise!Replay
<1> HIDE DEF G, K
<1>5. (CHOOSE f : f = G(f)) = (CHOOSE f : f = K(f))
  BY <1>2
<1> QED BY <1>3, <1>4, <1>5

----------------------------------------------------------------------------
(***************************************************************************)
(* An idle replica's log is everything it has seen, so what it shows is    *)
(* the replay of that; one in the middle of apply_op is mapped to it.      *)
(***************************************************************************)
Shown == [r \in Replica |->
            IF Idle(r) THEN tree[r] ELSE Replay(base, issued, SeenBy(r))]

Seen == [r \in Replica |-> SeenBy(r)]

LEMMA ShownIsReplay ==
  IInv => Shown = [r \in Replica |-> Replay(base, issued, SeenBy(r))]
<1> SUFFICES ASSUME IInv, NEW r \in Replica, Idle(r)
             PROVE  Replay(base, issued, SeenBy(r)) = tree[r]
  BY DEF Shown
<1>1. /\ log[r] \in Seq(Entry) /\ Increasing(log[r]) /\ AsIssued(log[r])
      /\ Runs(base, log[r], tree[r])
  BY DEF IInv, TypeOK, LogSorted, Sorted, Faithful, LogIsRun
<1>2. SeenBy(r) = TsOf(log[r])
  BY DEF Idle, SeenBy, TsOf
<1> QED BY <1>1, <1>2, RunIsReplay

LEMMA ShownIsReplayNext ==
  IInv' => Shown' = [r \in Replica |-> Replay(base', issued', SeenBy(r)')]
<1>1. (IInv => Shown = [r \in Replica |-> Replay(base, issued, SeenBy(r))])'
  BY ShownIsReplay, PTL
<1> QED BY <1>1

\* Every timestamp seen was issued.
LEMMA SeenWasIssued ==
  ASSUME IInv, NEW r \in Replica, NEW t \in SeenBy(r)
  PROVE  t \in Ts /\ issued[t] \in Op /\ issued[t] # None
<1>1. /\ log[r] \in Seq(Entry) /\ AsIssued(log[r])
      /\ undone[r] \in Seq(Entry) /\ AsIssued(undone[r])
  BY DEF IInv, TypeOK, Faithful
<1>2. ASSUME NEW s \in Seq(Entry), AsIssued(s), t \in TsOf(s)
      PROVE  t \in Ts /\ issued[t] \in Op
  BY <1>2, EntryTs DEF AsIssued, TsOf
<1>3. t \in Ts /\ issued[t] \in Op
  BY <1>1, <1>2 DEF SeenBy
<1> QED BY <1>3, CRDTConstants

(***************************************************************************)
(* A step that takes no operation in and issues none is invisible.         *)
(***************************************************************************)
LEMMA Invisible ==
  ASSUME IInv, IInv', UNCHANGED <<base, issued>>,
         \A r \in Replica : SeenBy(r)' = SeenBy(r)
  PROVE  UNCHANGED <<base, issued, Seen, Shown>>
<1>1. Seen' = Seen
  BY DEF Seen
<1>2. Shown' = Shown
  <2>1. Shown = [r \in Replica |-> Replay(base, issued, SeenBy(r))]
    BY ShownIsReplay
  <2>2. Shown' = [r \in Replica |-> Replay(base', issued', SeenBy(r)')]
    BY ShownIsReplayNext
  <2>3. Shown' = [r \in Replica |-> Replay(base, issued, SeenBy(r))]
    BY <2>2
  <2> QED BY <2>1, <2>3
<1> QED BY <1>1, <1>2

LEMMA IssuePublishes ==
  ASSUME IInv, IInv', NEW r \in Replica, Issue(r)
  PROVE  Promise!Next
<1>1. PICK ts \in Ts, op \in LocalOps :
        issued[ts] = None /\ issued' = [issued EXCEPT ![ts] = op]
  BY DEF Issue, ClockAllows
<1>2. UNCHANGED <<base, tree, log, undone>>
  BY DEF Issue
<1>3. \A q \in Replica : SeenBy(q)' = SeenBy(q)
  BY <1>2 DEF SeenBy, TsOf
<1>4. ASSUME NEW q \in Replica
      PROVE  Replay(base', issued', SeenBy(q)') = Replay(base, issued, SeenBy(q))
  <2>1. \A t \in SeenBy(q) : issued'[t] = issued[t]
    BY <1>1, SeenWasIssued DEF IInv, TypeOK
  <2>2. Replay(base, issued', SeenBy(q)) = Replay(base, issued, SeenBy(q))
    BY <2>1, ReplayReadsItsOwn
  <2> QED BY <2>2, <1>2, <1>3
<1>5. Seen' = Seen
  BY <1>3 DEF Seen
<1>6. Shown' = Shown
  <2>1. Shown = [q \in Replica |-> Replay(base, issued, SeenBy(q))]
    BY ShownIsReplay
  <2>2. Shown' = [q \in Replica |-> Replay(base', issued', SeenBy(q)')]
    BY ShownIsReplayNext
  <2> QED BY <2>1, <2>2, <1>4
<1>7. Promise!Publish(ts, op)
  BY <1>1, <1>2, <1>5, <1>6 DEF Promise!Publish, Seen, Shown
<1> QED BY <1>7 DEF Promise!Next

(***************************************************************************)
(* do_op of the operation being inserted is the moment it is taken in,     *)
(* whether or not entries wait to be redone above it.                      *)
(***************************************************************************)
LEMMA DoTakesIn ==
  ASSUME IInv, IInv', NEW r \in Replica, DoStep(r)
  PROVE  Promise!Next
<1> DEFINE ts == cur[r]
           e == [ts |-> ts, op |-> issued[ts],
                 old |-> Captured(tree[r], issued[ts])]
<1>1. /\ ts # 0 /\ UNCHANGED <<base, issued, undone>>
      /\ log' = [log EXCEPT ![r] = Append(log[r], e)]
  BY DEF DoStep, AppendDone
<1>2. /\ ts \in Ts /\ issued[ts] \in Op /\ issued[ts] # None
      /\ tree[r] \in State /\ log \in [Replica -> Seq(Entry)]
      /\ Sorted(r)
  BY <1>1, CRDTConstants DEF IInv, TypeOK, LogSorted
<1>3. e \in Entry /\ e.ts = ts
  BY <1>2, CapturedType DEF Entry
<1>4. ts \notin SeenBy(r)
  <2>1. ts \in Nat
    BY <1>2, CRDTConstants
  <2>2. ts \notin TsOf(log[r]) /\ \A u \in TsOf(undone[r]) : ts < u
    BY <1>1, <1>2 DEF Sorted
  <2> HIDE DEF ts
  <2>3. ts \notin TsOf(undone[r])
    BY <2>1, <2>2
  <2> QED BY <2>2, <2>3 DEF SeenBy
<1> HIDE DEF e, ts
<1>5. TsOf(Append(log[r], e)) = TsOf(log[r]) \cup {ts}
  BY <1>2, <1>3, AppendFacts
<1>6. /\ SeenBy(r)' = SeenBy(r) \cup {ts}
      /\ \A q \in Replica \ {r} : SeenBy(q)' = SeenBy(q)
  <2>1. log'[r] = Append(log[r], e)
    BY <1>1, <1>2
  <2>2. \A q \in Replica \ {r} : log'[q] = log[q]
    BY <1>1, <1>2
  <2>3. TsOf(log[r])' = TsOf(log[r]) \cup {ts}
    BY <1>5, <2>1 DEF TsOf
  <2>4. \A q \in Replica \ {r} : TsOf(log[q])' = TsOf(log[q])
    BY <2>2 DEF TsOf
  <2>5. \A q \in Replica : TsOf(undone[q])' = TsOf(undone[q])
    BY <1>1 DEF TsOf
  <2> QED BY <2>3, <2>4, <2>5 DEF SeenBy
<1>7. Seen' = [Seen EXCEPT ![r] = Seen[r] \cup {ts}]
  BY <1>6 DEF Seen
<1>8. Shown' = [Shown EXCEPT ![r] = Replay(base, issued, Seen'[r])]
  <2>1. Shown = [q \in Replica |-> Replay(base, issued, SeenBy(q))]
    BY ShownIsReplay
  <2>2. Shown' = [q \in Replica |-> Replay(base', issued', SeenBy(q)')]
    BY ShownIsReplayNext
  <2>3. Shown' = [q \in Replica |-> Replay(base, issued, SeenBy(q)')]
    BY <2>2, <1>1
  <2>4. Seen'[r] = SeenBy(r)'
    BY DEF Seen
  <2> QED BY <2>1, <2>3, <2>4, <1>6
<1>9. issued[ts] # None /\ ts \notin Seen[r]
  BY <1>2, <1>4 DEF Seen
<1>10. PICK t \in Ts : t = ts
  BY <1>2
<1>11. Promise!TakeIn(r, t)
  <2>1. Shown' = [Shown EXCEPT ![r] = Promise!Replay(base, issued, Seen'[r])]
    BY <1>8, PromiseReplay
  <2> QED BY <1>1, <1>7, <1>9, <1>10, <2>1 DEF Promise!TakeIn, Seen, Shown
<1> QED BY <1>11 DEF Promise!Next

LEMMA UndoIsInvisible ==
  ASSUME IInv, NEW r \in Replica, UndoStep(r)
  PROVE  \A q \in Replica : SeenBy(q)' = SeenBy(q)
<1> DEFINE e == Last(log[r])
<1>1. /\ log[r] # <<>>
      /\ undone' = [undone EXCEPT ![r] = Append(undone[r], e)]
      /\ log' = [log EXCEPT ![r] = Front(log[r])]
  BY DEF UndoStep, NewerTail
<1>2. /\ log \in [Replica -> Seq(Entry)] /\ undone \in [Replica -> Seq(Entry)]
      /\ e \in Entry /\ TsOf(log[r]) = TsOf(Front(log[r])) \cup {e.ts}
  BY <1>1, FrontFacts DEF IInv, TypeOK
<1>3. TsOf(Append(undone[r], e)) = TsOf(undone[r]) \cup {e.ts}
  BY <1>2, AppendFacts
<1> HIDE DEF e
<1>4. /\ log'[r] = Front(log[r]) /\ undone'[r] = Append(undone[r], e)
      /\ \A q \in Replica \ {r} : log'[q] = log[q] /\ undone'[q] = undone[q]
  BY <1>1, <1>2
<1> SUFFICES ASSUME NEW q \in Replica
             PROVE  TsOf(log'[q]) \cup TsOf(undone'[q])
                      = TsOf(log[q]) \cup TsOf(undone[q])
  BY DEF SeenBy, TsOf
<1> QED BY <1>2, <1>3, <1>4

LEMMA RedoIsInvisible ==
  ASSUME IInv, NEW r \in Replica, RedoStep(r)
  PROVE  \A q \in Replica : SeenBy(q)' = SeenBy(q)
<1> DEFINE d == Last(undone[r])
           e == [ts |-> d.ts, op |-> d.op, old |-> Captured(tree[r], d.op)]
<1>1. /\ undone[r] # <<>>
      /\ undone' = [undone EXCEPT ![r] = Front(undone[r])]
      /\ log' = [log EXCEPT ![r] = Append(log[r], e)]
  BY DEF RedoStep, AppendDone
<1>2. /\ log \in [Replica -> Seq(Entry)] /\ undone \in [Replica -> Seq(Entry)]
      /\ d \in Entry /\ TsOf(undone[r]) = TsOf(Front(undone[r])) \cup {d.ts}
  BY <1>1, FrontFacts DEF IInv, TypeOK
<1>3. e \in Entry /\ e.ts = d.ts
  <2>1. d.ts \in Ts /\ d.op \in Op /\ tree[r] \in State
    BY <1>2 DEF IInv, TypeOK, Entry
  <2> QED BY <2>1, CapturedType DEF Entry
<1>4. TsOf(Append(log[r], e)) = TsOf(log[r]) \cup {d.ts}
  BY <1>2, <1>3, AppendFacts
<1> HIDE DEF d, e
<1>5. /\ undone'[r] = Front(undone[r]) /\ log'[r] = Append(log[r], e)
      /\ \A q \in Replica \ {r} : log'[q] = log[q] /\ undone'[q] = undone[q]
  BY <1>1, <1>2
<1> SUFFICES ASSUME NEW q \in Replica
             PROVE  TsOf(log'[q]) \cup TsOf(undone'[q])
                      = TsOf(log[q]) \cup TsOf(undone[q])
  BY DEF SeenBy, TsOf
<1> QED BY <1>2, <1>4, <1>5

----------------------------------------------------------------------------
LEMMA StepRefines ==
  IInv /\ IInv' /\ [Next]_vars => [Promise!Next]_(Promise!vars)
<1> SUFFICES ASSUME IInv, IInv', [Next]_vars
             PROVE  Promise!Next \/ UNCHANGED <<base, issued, Seen, Shown>>
  BY DEF Promise!vars, Seen, Shown
<1>1. CASE UNCHANGED vars
  <2>1. UNCHANGED <<base, issued, log, undone>>
    BY <1>1 DEF vars
  <2>2. \A q \in Replica : SeenBy(q)' = SeenBy(q)
    BY <2>1 DEF SeenBy, TsOf
  <2> QED BY <2>1, <2>2, Invisible
<1>2. ASSUME NEW r \in Replica, Issue(r) PROVE Promise!Next
  BY <1>2, IssuePublishes
<1>3. ASSUME NEW r \in Replica, NEW ts \in Ts, Deliver(r, ts)
      PROVE  UNCHANGED <<base, issued, Seen, Shown>>
  <2>1. UNCHANGED <<base, issued, log, undone>>
    BY <1>3 DEF Deliver
  <2>2. \A q \in Replica : SeenBy(q)' = SeenBy(q)
    BY <2>1 DEF SeenBy, TsOf
  <2> QED BY <2>1, <2>2, Invisible
<1>4. ASSUME NEW r \in Replica, UndoStep(r)
      PROVE  UNCHANGED <<base, issued, Seen, Shown>>
  <2>1. UNCHANGED <<base, issued>>
    BY <1>4 DEF UndoStep
  <2> QED BY <1>4, <2>1, UndoIsInvisible, Invisible
<1>5. ASSUME NEW r \in Replica, DoStep(r) PROVE Promise!Next
  BY <1>5, DoTakesIn
<1>6. ASSUME NEW r \in Replica, RedoStep(r)
      PROVE  UNCHANGED <<base, issued, Seen, Shown>>
  <2>1. UNCHANGED <<base, issued>>
    BY <1>6 DEF RedoStep
  <2> QED BY <1>6, <2>1, RedoIsInvisible, Invisible
<1> QED BY <1>1, <1>2, <1>3, <1>4, <1>5, <1>6 DEF Next

LEMMA InitRefines == Init => Promise!Init
<1> SUFFICES ASSUME Init PROVE Promise!Init
  OBVIOUS
<1>1. /\ base \in Base /\ issued = [t \in Ts |-> None]
      /\ \A r \in Replica : /\ tree[r] = base /\ log[r] = <<>>
                            /\ cur[r] = 0 /\ undone[r] = <<>>
  BY DEF Init
<1>2. \A r \in Replica : Idle(r) /\ SeenBy(r) = {}
  BY <1>1 DEF Idle, SeenBy, TsOf
<1>3. /\ [r \in Replica |-> SeenBy(r)] = [r \in Replica |-> {}]
      /\ [r \in Replica |-> IF Idle(r) THEN tree[r]
                            ELSE Replay(base, issued, SeenBy(r))]
           = [r \in Replica |-> base]
  BY <1>1, <1>2
<1> QED BY <1>1, <1>3 DEF Promise!Init

(***************************************************************************)
(* apply_op looks atomic: whatever order operations come in and however    *)
(* the reorder loop interleaves with other replicas, a replica takes each  *)
(* operation in once, never unsees one, and shows the replay in HLC order  *)
(* of exactly what it has seen.                                            *)
(***************************************************************************)
THEOREM ImplementsPromise == Spec => ImplementsConvergentTree
<1>1. Spec => []IInv
  BY Invariance
<1>2. Init => Promise!Init
  BY InitRefines
<1>3. IInv /\ IInv' /\ [Next]_vars => [Promise!Next]_(Promise!vars)
  BY StepRefines
<1> QED BY <1>1, <1>2, <1>3, PTL
        DEF Spec, ImplementsConvergentTree, Promise!Spec
=============================================================================

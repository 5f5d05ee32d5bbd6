-------------------------- MODULE ProjectionProofs --------------------------
(***************************************************************************)
(* What holds of Projection for any processes, scenes and bounds: types,   *)
(* HashIsEarned and GatesKeepLines.  The inductive invariant says of each  *)
(* job in flight what it carries along and what of it is earned: a text is *)
(* earned if an operation on disk has it, or one that failed to append.    *)
(***************************************************************************)
EXTENDS Projection, FiniteSetTheorems, TLAPS

----------------------------------------------------------------------------
\* The inductive invariant.  What it says of data has the ids and the texts
\* given out, and the earned ones, as parameters: all three only grow.

LineOf(l, T) == DOMAIN l \subseteq T /\ \A t \in DOMAIN l : l[t] \in Nat \ {0}

PageOf(m, T) ==
  /\ IsFiniteSet(DOMAIN m)
  /\ \A l \in DOMAIN m : LineOf(l, T) /\ m[l] \in Nat \ {0}

RowsFrom(rows, b, T) ==
  DOMAIN rows \subseteq 1..b /\ \A n \in DOMAIN rows : LineOf(rows[n], T)
RowTexts(rows) == UNION {DOMAIN rows[n] : n \in DOMAIN rows}

OpsFrom(S, c, b, T) ==
  /\ IsFiniteSet(S)
  /\ \A o \in S : o.ts \in 0..c /\ o.node \in 1..b /\ LineOf(o.line, T)

(***************************************************************************)
(* The files.  The rows of a sidecar were read from a tree, and what its   *)
(* hash stands for is accounted for by rows.                               *)
(***************************************************************************)
FileOf(m, T) == m # None => PageOf(m, T)
SidecarOf(s, b, T, E) ==
  s # None =>
    /\ RowsFrom(s.rows, b, T) /\ RowTexts(s.rows) \subseteq E
    /\ s.hash # None => PageOf(s.hash, T) /\ Texts(s.hash) \subseteq E

(***************************************************************************)
(* The jobs.  A projection carries a render of a tree, and over what it    *)
(* was authorised to write; a reconcile the file it read, then its rows.   *)
(***************************************************************************)
Writing(j, T, E) ==
  /\ j = [step |-> j.step, render |-> j.render, over |-> j.over, blind |-> j.blind]
  /\ PageOf(j.render, T) /\ Texts(j.render) \subseteq E
  /\ j.over = None \/ j.blind \/ Texts(j.over) \subseteq E
Written(j, T, E) == PageOf(j.render, T) /\ Texts(j.render) \subseteq E
Diffing(j, b, T) ==
  /\ j = [step |-> "diff", md |-> j.md, rows |-> j.rows, gone |-> j.gone]
  /\ PageOf(j.md, T) /\ RowsFrom(j.rows, b, T) /\ j.gone \subseteq 1..b
Texting(j, b, T) == PageOf(j.md, T) /\ RowsFrom(j.rows, b, T)
Recovering(j, b, T) ==
  /\ j = [step |-> "recover", rows |-> j.rows, ahead |-> j.ahead, keep |-> j.keep]
  /\ RowsFrom(j.rows, b, T) /\ j.ahead \subseteq DOMAIN j.rows

JobOf(j, b, T, E) ==
  \/ j.step = "idle"
  \/ j.step \in {"write", "replace"} /\ Writing(j, T, E)
  \/ j.step = "sidecar" /\ Written(j, T, E)
  \/ j.step = "read" /\ PageOf(j.md, T)
  \/ j.step = "diff" /\ Diffing(j, b, T)
  \/ j.step = "text" /\ Texting(j, b, T)
  \/ j.step = "recover" /\ Recovering(j, b, T)

Holds(j) == j.step \in Holding
OneHolder(jobs) ==
  \A p, q \in Process : Holds(jobs[p]) /\ Holds(jobs[q]) => p = q

Earned == TextsOf(log \cup failed)

Scalars ==
  /\ clock \in Nat /\ blocks \in Nat \ {0} /\ texts \in SUBSET Nat
  /\ dirty \in [Process -> BOOLEAN] /\ left \in [Acts -> Nat]
Memory ==
  /\ OpsFrom(log \cup failed, clock, blocks, texts)
  /\ mem = [p \in Process |-> mem[p]]
  /\ \A p \in Process : mem[p] \subseteq log \cup failed
Jobs ==
  /\ job = [p \in Process |-> job[p]]
  /\ \A p \in Process : JobOf(job[p], blocks, texts, Earned)

IInv ==
  /\ Scalars /\ Memory /\ Jobs /\ OneHolder(job)
  /\ FileOf(md, texts) /\ SidecarOf(sc, blocks, texts, Earned)

----------------------------------------------------------------------------
\* What only grows.

LEMMA LineGrows ==
  ASSUME NEW T, NEW U, T \subseteq U
  PROVE  /\ \A l : LineOf(l, T) => LineOf(l, U)
         /\ \A m : PageOf(m, T) => PageOf(m, U)
<1>1. \A l : LineOf(l, T) => LineOf(l, U)
  BY DEF LineOf
<1> QED BY <1>1 DEF PageOf

LEMMA RowsGrow ==
  ASSUME NEW T, NEW U, T \subseteq U,
         NEW b \in Nat, NEW c \in Nat, b <= c
  PROVE  \A rows : RowsFrom(rows, b, T) => RowsFrom(rows, c, U)
<1>1. \A n \in 1..b : n \in 1..c
  OBVIOUS
<1> QED BY <1>1, LineGrows DEF RowsFrom

LEMMA OpsGrow ==
  ASSUME NEW T, NEW U, T \subseteq U,
         NEW b \in Nat, NEW c \in Nat, b <= c,
         NEW s \in Nat, NEW t \in Nat, s <= t
  PROVE  \A S : OpsFrom(S, s, b, T) => OpsFrom(S, t, c, U)
<1>1. /\ \A n \in 1..b : n \in 1..c
      /\ \A n \in 0..s : n \in 0..t
  OBVIOUS
<1> QED BY <1>1, LineGrows DEF OpsFrom

LEMMA JobGrows ==
  ASSUME NEW T, NEW U, T \subseteq U, NEW E, NEW F, E \subseteq F,
         NEW b \in Nat, NEW c \in Nat, b <= c,
         NEW j, JobOf(j, b, T, E)
  PROVE  JobOf(j, c, U, F)
<1>1. /\ \A m : PageOf(m, T) => PageOf(m, U)
      /\ \A rows : RowsFrom(rows, b, T) => RowsFrom(rows, c, U)
      /\ \A n \in 1..b : n \in 1..c
  BY LineGrows, RowsGrow
<1>2. CASE j.step = "idle"
  BY <1>2 DEF JobOf
<1>3. CASE j.step \in {"write", "replace"} /\ Writing(j, T, E)
  <2>1. Writing(j, U, F)
    BY <1>1, <1>3 DEF Writing
  <2> QED BY <1>3, <2>1 DEF JobOf
<1>4. CASE j.step = "sidecar" /\ Written(j, T, E)
  <2>1. Written(j, U, F)
    BY <1>1, <1>4 DEF Written
  <2> QED BY <1>4, <2>1 DEF JobOf
<1>5. CASE j.step = "read" /\ PageOf(j.md, T)
  BY <1>1, <1>5 DEF JobOf
<1>6. CASE j.step = "diff" /\ Diffing(j, b, T)
  <2>1. Diffing(j, c, U)
    BY <1>1, <1>6 DEF Diffing
  <2> QED BY <1>6, <2>1 DEF JobOf
<1>7. CASE j.step = "text" /\ Texting(j, b, T)
  <2>1. Texting(j, c, U)
    BY <1>1, <1>7 DEF Texting
  <2> QED BY <1>7, <2>1 DEF JobOf
<1>8. CASE j.step = "recover" /\ Recovering(j, b, T)
  <2>1. Recovering(j, c, U)
    BY <1>1, <1>8 DEF Recovering
  <2> QED BY <1>8, <2>1 DEF JobOf
<1> QED BY <1>2, <1>3, <1>4, <1>5, <1>6, <1>7, <1>8 DEF JobOf

LEMMA FilesGrow ==
  ASSUME NEW T, NEW U, T \subseteq U, NEW E, NEW F, E \subseteq F,
         NEW b \in Nat, NEW c \in Nat, b <= c
  PROVE  /\ \A m : FileOf(m, T) => FileOf(m, U)
         /\ \A s : SidecarOf(s, b, T, E) => SidecarOf(s, c, U, F)
<1>1. /\ \A m : PageOf(m, T) => PageOf(m, U)
      /\ \A rows : RowsFrom(rows, b, T) => RowsFrom(rows, c, U)
  BY LineGrows, RowsGrow
<1>2. \A m : FileOf(m, T) => FileOf(m, U)
  BY <1>1 DEF FileOf
<1>3. \A s : SidecarOf(s, b, T, E) => SidecarOf(s, c, U, F)
  BY <1>1 DEF SidecarOf
<1> QED BY <1>2, <1>3

----------------------------------------------------------------------------
\* Finite sets, sums and maxima.

LEMMA FiniteImage ==
  ASSUME NEW S, IsFiniteSet(S), NEW f
  PROVE  IsFiniteSet({f[x] : x \in S})
<1> DEFINE T == {f[x] : x \in S}
           g == [x \in S |-> f[x]]
<1>1. g \in Surjection(S, T)
  BY DEF Surjection
<1> QED BY <1>1, FS_Surjection

LEMMA FiniteUnion ==
  ASSUME NEW S, IsFiniteSet(S), NEW f, \A x \in S : IsFiniteSet(f[x])
  PROVE  IsFiniteSet(UNION {f[x] : x \in S})
<1>1. IsFiniteSet({f[x] : x \in S})
  BY FiniteImage
<1> QED BY <1>1, FS_UNION

LEMMA Interval ==
  ASSUME NEW a \in Nat, NEW b \in Nat
  PROVE  IsFiniteSet(a..b)
BY FS_Interval

LEMMA FinitePairs ==
  ASSUME NEW x, NEW n \in Nat
  PROVE  IsFiniteSet({x} \X (1..n))
<1> DEFINE f == [i \in 1..n |-> <<x, i>>]
<1>1. IsFiniteSet({f[i] : i \in 1..n})
  BY Interval, FiniteImage
<1>2. {f[i] : i \in 1..n} = {x} \X (1..n)
  OBVIOUS
<1> QED BY <1>1, <1>2

(***************************************************************************)
(* A finite set of numbers that is not empty has a greatest element, and   *)
(* Max is one: there is no least subset that has none.                     *)
(***************************************************************************)
LEMMA MaxIs ==
  ASSUME NEW S \in SUBSET Nat, IsFiniteSet(S), S # {}
  PROVE  Max(S) \in S /\ \A y \in S : y <= Max(S)
<1> DEFINE R == StrictSubsetOrdering(S)
           Bad == {B \in SUBSET S :
                     B # {} /\ ~ \E m \in B : \A y \in B : m >= y}
<1>1. IsWellFoundedOn(R, SUBSET S)
  BY FS_StrictSubsetOrderingWellFounded, FS_FiniteSubsetsOfFinite
<1>2. \A A, B \in SUBSET S : A \subseteq B /\ A # B => <<A, B>> \in R
  BY DEF StrictSubsetOrdering
<1>3. Bad \subseteq SUBSET S
  OBVIOUS
<1>4. Bad = {}
  <2> SUFFICES ASSUME Bad # {} PROVE FALSE
    OBVIOUS
  <2> HIDE DEF R, Bad
  <2>1. PICK B \in Bad : \A A \in Bad : <<A, B>> \notin R
    BY <1>1, <1>3, WFMin, Zenon
  <2>2. B \in SUBSET S /\ B # {} /\ ~ \E m \in B : \A y \in B : m >= y
    BY <2>1 DEF Bad
  <2>3. PICK x \in B : TRUE
    BY <2>2
  <2> DEFINE A == B \ {x}
  <2>4. A \in SUBSET S /\ A # B
    BY <2>2, <2>3
  <2>5. A \notin Bad
    BY <1>2, <2>1, <2>2, <2>4
  <2>6. A # {}
    <3> SUFFICES ASSUME A = {} PROVE FALSE
      OBVIOUS
    <3>1. \A y \in B : x >= y
      BY <2>2
    <3> QED BY <2>2, <2>3, <3>1
  <2>7. PICK m \in A : \A y \in A : m >= y
    BY <2>4, <2>5, <2>6 DEF Bad
  <2>8. x \in Nat /\ m \in Nat /\ m \in B /\ \A y \in B : y = x \/ y \in A
    BY <2>2, <2>3
  <2>9. CASE m >= x
    BY <2>2, <2>7, <2>8, <2>9
  <2>10. CASE x >= m
    <3>1. \A y \in B : y \in Nat
      BY <2>2
    <3>2. \A y \in B : x >= y
      BY <2>7, <2>8, <2>10, <3>1
    <3> QED BY <2>2, <2>3, <3>2
  <2> QED BY <2>8, <2>9, <2>10
<1>5. \E m \in S : \A y \in S : m >= y
  BY <1>4
<1>6. Max(S) \in S /\ \A y \in S : Max(S) >= y
  BY <1>5 DEF Max
<1> QED BY <1>6

\* Ids are given out to a set of blocks.
LEMMA MadeIs ==
  ASSUME NEW b \in Nat, NEW S \in SUBSET Nat, IsFiniteSet(S)
  PROVE  /\ Max({b} \cup S) \in Nat /\ b <= Max({b} \cup S)
         /\ \A n \in S : n <= Max({b} \cup S)
<1>1. IsFiniteSet({b} \cup S)
  BY FS_AddElement
<1> QED BY <1>1, MaxIs

----------------------------------------------------------------------------
\* Lines, rows and pages.

LEMMA BareIs == DOMAIN Bare = {} /\ \A T : LineOf(Bare, T)
BY DEF Bare, EmptyBag, SetToBag, LineOf

LEMMA LineOfTextIs ==
  ASSUME NEW T, NEW S \in SUBSET T
  PROVE  LineOf(SetToBag(S), T)
BY DEF SetToBag, LineOf

LEMMA TextsOfGrow ==
  ASSUME NEW S, NEW R \in SUBSET S
  PROVE  TextsOf(R) \subseteq TextsOf(S)
BY DEF TextsOf

(***************************************************************************)
(* The text of a block is text of the operations it is built from, and     *)
(* each text in it comes at least once.                                    *)
(***************************************************************************)
LEMMA BlockTextIs ==
  ASSUME NEW S, NEW c, NEW b, NEW T, OpsFrom(S, c, b, T),
         NEW ops \in SUBSET S, NEW n
  PROVE  /\ LineOf(BlockText(ops, n), T)
         /\ DOMAIN BlockText(ops, n) \subseteq TextsOf(ops)
<1> DEFINE es == Edits(ops, n)
           D == UNION {DOMAIN o.line : o \in es}
           C(t) == UNION {{o} \X (1..Copies(t, o.line)) : o \in es}
<1>1. es \subseteq ops
  BY DEF Edits
<1>2. IsFiniteSet(es) /\ \A o \in es : LineOf(o.line, T)
  BY <1>1, FS_Subset DEF OpsFrom
<1>3. BlockText(ops, n) = [t \in D |-> Cardinality(C(t))]
  BY DEF BlockText
<1> HIDE DEF es
<1>4. D \subseteq T /\ D \subseteq TextsOf(ops)
  BY <1>1, <1>2 DEF LineOf, TextsOf
<1>5. ASSUME NEW t \in D PROVE Cardinality(C(t)) \in Nat \ {0}
  <2> DEFINE f == [o \in es |-> {o} \X (1..Copies(t, o.line))]
  <2>1. \A o \in es : Copies(t, o.line) \in Nat
    BY <1>2 DEF Copies, LineOf
  <2>2. \A o \in es : IsFiniteSet(f[o])
    BY <2>1, FinitePairs
  <2>3. C(t) = UNION {f[o] : o \in es}
    OBVIOUS
  <2>4. IsFiniteSet(C(t))
    <3> HIDE DEF f, C
    <3> QED BY <1>2, <2>2, <2>3, FiniteUnion
  <2>5. PICK o \in es : t \in DOMAIN o.line
    OBVIOUS
  <2>6. Copies(t, o.line) \in Nat /\ Copies(t, o.line) >= 1
    BY <1>2, <2>5 DEF Copies, LineOf
  <2>7. <<o, 1>> \in {o} \X (1..Copies(t, o.line))
    BY <2>6
  <2>8. C(t) # {}
    BY <2>5, <2>7
  <2> HIDE DEF C
  <2> QED BY <2>4, <2>8, FS_CardinalityType, FS_EmptySet
<1> HIDE DEF D, C
<1> QED BY <1>3, <1>4, <1>5 DEF LineOf

LEMMA KnownIs ==
  ASSUME NEW S, NEW c, NEW b, NEW T, OpsFrom(S, c, b, T), NEW ops \in SUBSET S
  PROVE  Known(ops) \subseteq 1..b /\ Alive(ops) \subseteq 1..b
BY DEF OpsFrom, Known, Alive

LEMMA RowsOfIs ==
  ASSUME NEW S, NEW c, NEW b, NEW T, OpsFrom(S, c, b, T), NEW ops \in SUBSET S
  PROVE  RowsFrom(RowsOf(ops), b, T) /\ RowTexts(RowsOf(ops)) \subseteq TextsOf(ops)
<1>1. Alive(ops) \subseteq 1..b
  BY KnownIs
<1>2. \A n : /\ LineOf(BlockText(ops, n), T)
             /\ DOMAIN BlockText(ops, n) \subseteq TextsOf(ops)
  BY BlockTextIs
<1> QED BY <1>1, <1>2 DEF RowsOf, RowsFrom, RowTexts

(***************************************************************************)
(* The bag of the lines of some rows.                                      *)
(***************************************************************************)
LEMMA LinesIs ==
  ASSUME NEW b \in Nat, NEW T, NEW rows, RowsFrom(rows, b, T)
  PROVE  PageOf(Lines(rows), T) /\ Texts(Lines(rows)) = RowTexts(rows)
<1> DEFINE D == {rows[n] : n \in DOMAIN rows}
           N(l) == {n \in DOMAIN rows : rows[n] = l}
<1>1. IsFiniteSet(DOMAIN rows)
  BY Interval, FS_Subset DEF RowsFrom
<1>2. IsFiniteSet(D)
  BY <1>1, FiniteImage
<1>3. Lines(rows) = [l \in D |-> Cardinality(N(l))]
  BY DEF Lines
<1>4. ASSUME NEW l \in D
      PROVE  LineOf(l, T) /\ Cardinality(N(l)) \in Nat \ {0}
  <2>1. LineOf(l, T)
    BY DEF RowsFrom
  <2>2. N(l) # {} /\ N(l) \subseteq DOMAIN rows
    OBVIOUS
  <2>3. IsFiniteSet(N(l))
    BY <1>1, <2>2, FS_Subset
  <2> HIDE DEF N
  <2> QED BY <2>1, <2>2, <2>3, FS_CardinalityType, FS_EmptySet
<1>5. UNION {DOMAIN l : l \in D} = RowTexts(rows)
  BY DEF RowTexts
<1> HIDE DEF D, N
<1> QED BY <1>2, <1>3, <1>4, <1>5 DEF PageOf, Texts

LEMMA RenderIs ==
  ASSUME NEW b \in Nat, NEW S, NEW c, NEW T, OpsFrom(S, c, b, T),
         NEW ops \in SUBSET S
  PROVE  PageOf(Render(ops), T) /\ Texts(Render(ops)) \subseteq TextsOf(ops)
BY RowsOfIs, LinesIs DEF Render

----------------------------------------------------------------------------
\* Bags of lines.

LEMMA MinusIs ==
  ASSUME NEW T, NEW m, PageOf(m, T), NEW g, \A l \in DOMAIN g : g[l] \in Nat
  PROVE  PageOf(m (-) g, T)
<1> DEFINE B == [e \in DOMAIN m |-> IF e \in DOMAIN g THEN m[e] - g[e] ELSE m[e]]
           D == {d \in DOMAIN m : B[d] > 0}
<1>1. m (-) g = [e \in D |-> B[e]]
  BY DEF (-)
<1>2. IsFiniteSet(D)
  BY FS_Subset DEF PageOf
<1>3. \A e \in D : B[e] \in Nat \ {0} /\ LineOf(e, T)
  BY DEF PageOf
<1> HIDE DEF D, B
<1> QED BY <1>1, <1>2, <1>3 DEF PageOf

LEMMA PlusIs ==
  ASSUME NEW T, NEW m, PageOf(m, T), NEW l, LineOf(l, T)
  PROVE  PageOf(m (+) SetToBag({l}), T)
<1> DEFINE D == DOMAIN m \cup {l}
           g == SetToBag({l})
           B == m (+) g
<1>1. DOMAIN g = {l} /\ g[l] = 1
  BY DEF SetToBag
<1>2. B = [e \in D |->   (IF e \in DOMAIN m THEN m[e] ELSE 0)
                       + (IF e \in DOMAIN g THEN g[e] ELSE 0)]
  BY <1>1 DEF (+)
<1>3. IsFiniteSet(D)
  BY FS_AddElement DEF PageOf
<1>4. \A e \in D : LineOf(e, T)
  BY DEF PageOf
<1>5. \A e \in DOMAIN m : m[e] \in Nat \ {0}
  BY DEF PageOf
<1> HIDE DEF g
<1>6. \A e \in D : B[e] \in Nat \ {0}
  <2> SUFFICES ASSUME NEW e \in D PROVE B[e] \in Nat \ {0}
    OBVIOUS
  <2>1. B[e] =   (IF e \in DOMAIN m THEN m[e] ELSE 0)
               + (IF e \in DOMAIN g THEN g[e] ELSE 0)
    BY <1>2
  <2>2. CASE e = l
    BY <1>1, <1>5, <2>1, <2>2
  <2>3. CASE e # l
    BY <1>1, <1>5, <2>1, <2>3
  <2> QED BY <2>2, <2>3
<1>7. DOMAIN B = D
  BY <1>2
<1> HIDE DEF D, B
<1>8. PageOf(B, T)
  BY <1>3, <1>4, <1>6, <1>7 DEF PageOf
<1> QED BY <1>8 DEF B, g

LEMMA PlacedIs ==
  ASSUME NEW T, NEW m, PageOf(m, T)
  PROVE  PageOf(Placed(m), T)
<1> DEFINE D == {x \in DOMAIN m : DOMAIN x \cap Unplaced = {}}
<1>1. Placed(m) = [l \in D |-> m[l]]
  BY DEF Placed
<1>2. IsFiniteSet(D) /\ D \subseteq DOMAIN m
  BY FS_Subset DEF PageOf
<1> HIDE DEF D
<1> QED BY <1>1, <1>2 DEF PageOf

LEMMA SizeIs ==
  ASSUME NEW T, NEW m, PageOf(m, T)
  PROVE  Size(m) \in Nat
<1> DEFINE f == [x \in DOMAIN m |-> {x} \X (1..m[x])]
<1>1. \A x \in DOMAIN m : m[x] \in Nat
  BY DEF PageOf
<1>2. \A x \in DOMAIN m : IsFiniteSet(f[x])
  BY <1>1, FinitePairs
<1>3. IsFiniteSet(DOMAIN m)
  BY DEF PageOf
<1> HIDE DEF f
<1>4. IsFiniteSet(UNION {f[x] : x \in DOMAIN m})
  BY <1>2, <1>3, FiniteUnion
<1>5. UNION {f[x] : x \in DOMAIN m} = UNION {{x} \X (1..m[x]) : x \in DOMAIN m}
  BY DEF f
<1> QED BY <1>4, <1>5, FS_CardinalityType DEF Size

(***************************************************************************)
(* A file with no unlogged line has no text that the rows do not have.     *)
(***************************************************************************)
LEMMA NothingUnlogged ==
  ASSUME NEW T, NEW m, PageOf(m, T),
         NEW b \in Nat, NEW U, NEW rows, RowsFrom(rows, b, U), Unlogged(m, rows) = {}
  PROVE  Texts(m) \subseteq RowTexts(rows)
<1> DEFINE g == Lines(rows)
           B == [e \in DOMAIN m |-> IF e \in DOMAIN g THEN m[e] - g[e] ELSE m[e]]
<1>1. DOMAIN (m (-) g) = {d \in DOMAIN m : B[d] > 0}
  BY DEF (-)
<1>2. \A d \in DOMAIN m : B[d] > 0 => d = Bare
  BY <1>1 DEF Unlogged, BagToSet
<1>3. DOMAIN g = {rows[n] : n \in DOMAIN rows}
  BY DEF Lines
<1>4. ASSUME NEW d \in DOMAIN m, d # Bare PROVE d \in DOMAIN g
  <2>1. m[d] \in Nat \ {0}
    BY DEF PageOf
  <2> SUFFICES ASSUME d \notin DOMAIN g PROVE FALSE
    OBVIOUS
  <2>2. B[d] = m[d]
    OBVIOUS
  <2> QED BY <1>2, <1>4, <2>1, <2>2
<1> QED BY <1>3, <1>4, BareIs DEF Texts, RowTexts

(***************************************************************************)
(* What the matching gives rows: ids that were known and ids above.        *)
(***************************************************************************)
LEMMA MatchesIs ==
  ASSUME blocks \in Nat, NEW T, NEW lines, PageOf(lines, T),
         NEW rows, DOMAIN rows \subseteq 1..blocks, NEW m \in Matches(lines, rows)
  PROVE  /\ IsFiniteSet(DOMAIN m) /\ DOMAIN m \subseteq Nat \ {0}
         /\ \A n \in DOMAIN m : LineOf(m[n], T)
<1> DEFINE size == Size(lines)
           new == (blocks + 1)..(blocks + size)
<1>1. size \in Nat
  BY SizeIs
<1> HIDE DEF size
<1>2. PICK ids \in SUBSET (DOMAIN rows \cup new) : m \in [ids -> DOMAIN lines]
  BY DEF Matches, kSubset, size
<1>3. IsFiniteSet((1..blocks) \cup new)
  <2>1. blocks + 1 \in Nat /\ blocks + size \in Nat
    BY <1>1
  <2>2. IsFiniteSet(1..blocks) /\ IsFiniteSet(new)
    BY <2>1, Interval
  <2> HIDE DEF new
  <2> QED BY <2>2, FS_Union
<1>4. ids \subseteq (1..blocks) \cup new
  BY <1>2
<1>5. IsFiniteSet(ids)
  BY <1>3, <1>4, FS_Subset
<1>6. ids \subseteq Nat \ {0}
  BY <1>1, <1>4
<1> QED BY <1>2, <1>5, <1>6 DEF PageOf

----------------------------------------------------------------------------
\* Steps in general: nothing that was given out or earned is taken back.

Grows ==
  /\ log \subseteq log' /\ failed \subseteq failed'
  /\ blocks <= blocks' /\ texts \subseteq texts'

LEMMA EarnedGrows == Grows => Earned \subseteq Earned'
BY DEF Grows, Earned, TextsOf

LEMMA FilesStay ==
  ASSUME IInv, Scalars', Grows
  PROVE  /\ md' = md => FileOf(md, texts)'
         /\ sc' = sc => SidecarOf(sc, blocks, texts, Earned)'
<1>1. /\ FileOf(md, texts') /\ SidecarOf(sc, blocks', texts', Earned')
  BY EarnedGrows, FilesGrow DEF IInv, Scalars, Grows
<1> QED BY <1>1

LEMMA JobsStay ==
  ASSUME IInv, Scalars', Grows
  PROVE  /\ \A p \in Process : JobOf(job[p], blocks', texts', Earned')
         /\ job' = job => Jobs' /\ OneHolder(job)'
<1>1. \A p \in Process : JobOf(job[p], blocks', texts', Earned')
  BY EarnedGrows, JobGrows DEF IInv, Jobs, Scalars, Grows
<1>2. ASSUME job' = job PROVE Jobs' /\ OneHolder(job)'
  BY <1>1, <1>2 DEF IInv, Jobs, OneHolder
<1> QED BY <1>1, <1>2

(***************************************************************************)
(* One process goes on to another job, and takes no lock that is taken.    *)
(***************************************************************************)
LEMMA JobGoesOn ==
  ASSUME IInv, Scalars', Grows, NEW p \in Process, NEW j,
         Goto(p, j), JobOf(j, blocks', texts', Earned'),
         Holds(j) => Holds(job[p]) \/ ~Locked
  PROVE  Jobs' /\ OneHolder(job)'
<1>1. \A q \in Process : JobOf(job[q], blocks', texts', Earned')
  BY JobsStay
<1>2. /\ job' = [q \in Process |-> job'[q]]
      /\ \A q \in Process : job'[q] = IF q = p THEN j ELSE job[q]
  BY DEF IInv, Jobs, Goto
<1>3. Jobs'
  BY <1>1, <1>2 DEF Jobs
<1>4. \A q, r \in Process : Holds(job[q]) /\ Holds(job[r]) => q = r
  BY DEF IInv, OneHolder
<1>5. ~Locked => \A q \in Process : ~Holds(job[q])
  BY DEF Locked, Holds
<1>6. \A q, r \in Process : Holds(job'[q]) /\ Holds(job'[r]) => q = r
  BY <1>2, <1>4, <1>5
<1> QED BY <1>3, <1>6 DEF OneHolder

LEMMA Resting == \A b, T, E : JobOf(Idle, b, T, E) /\ ~Holds(Idle)
BY DEF JobOf, Idle, Holds, Holding

LEMMA JobEnds ==
  ASSUME IInv, Scalars', Grows, NEW p \in Process, Goto(p, Idle)
  PROVE  Jobs' /\ OneHolder(job)'
BY Resting, JobGoesOn

(***************************************************************************)
(* Operations are appended, or fail to be.                                 *)
(***************************************************************************)
LEMMA MemoryStays ==
  ASSUME IInv, Scalars', UNCHANGED <<log, failed, mem>>, Grows,
         clock <= clock'
  PROVE  Memory'
<1>1. OpsFrom(log \cup failed, clock', blocks', texts')
  BY OpsGrow DEF IInv, Scalars, Memory, Grows
<1> QED BY <1>1 DEF IInv, Memory

LEMMA OpsJoin ==
  ASSUME NEW S, NEW R, NEW c, NEW b, NEW T,
         OpsFrom(S, c, b, T), OpsFrom(R, c, b, T)
  PROVE  OpsFrom(S \cup R, c, b, T)
<1>1. IsFiniteSet(S \cup R)
  BY FS_Union DEF OpsFrom
<1> QED BY <1>1 DEF OpsFrom

LEMMA MemoryGrows ==
  ASSUME IInv, Scalars', NEW p \in Process, NEW ops,
         OpsFrom(ops, clock', blocks', texts'),
         blocks <= blocks', texts \subseteq texts',
         Append(p, ops) \/ AppendFails(p, ops)
  PROVE  Memory' /\ Grows
<1>1. /\ (log \cup failed)' = (log \cup failed) \cup ops
      /\ log \subseteq log' /\ failed \subseteq failed'
      /\ mem' = [mem EXCEPT ![p] = @ \cup ops] /\ clock' = clock + 1
  BY DEF Append, AppendFails, Applied, Tick
<1>2. Grows
  BY <1>1 DEF Grows
<1>3. OpsFrom(log \cup failed, clock', blocks', texts')
  BY <1>1, OpsGrow DEF IInv, Scalars, Memory
<1>4. OpsFrom((log \cup failed)', clock', blocks', texts')
  BY <1>1, <1>3, OpsJoin
<1>5. /\ mem' = [q \in Process |-> mem'[q]]
      /\ \A q \in Process : mem'[q] \subseteq (log \cup failed)'
  <2>1. mem = [q \in Process |-> mem[q]]
    BY DEF IInv, Memory
  <2>2. mem' = [q \in Process |-> IF q = p THEN mem[q] \cup ops ELSE mem[q]]
    BY <1>1, <2>1
  <2>3. \A q \in Process : mem[q] \subseteq log \cup failed
    BY DEF IInv, Memory
  <2> QED BY <1>1, <2>2, <2>3
<1> QED BY <1>2, <1>4, <1>5 DEF Memory

(***************************************************************************)
(* What may still happen is counted down.                                  *)
(***************************************************************************)
LEMMA SpendIs ==
  ASSUME Scalars, NEW act \in Acts, Spend(act)
  PROVE  left' \in [Acts -> Nat]
BY DEF Scalars, Spend

LEMMA AppendIs ==
  ASSUME Scalars, NEW p, NEW ops, Append(p, ops) \/ AppendFails(p, ops)
  PROVE  clock' \in Nat /\ clock' = clock + 1
         /\ (AppendFails(p, ops) => left' \in [Acts -> Nat])
<1>1. clock' = clock + 1
  BY DEF Append, AppendFails, Applied, Tick
<1>2. AppendFails(p, ops) => left' \in [Acts -> Nat]
  BY SpendIs DEF AppendFails, Acts
<1> QED BY <1>1, <1>2 DEF Scalars

----------------------------------------------------------------------------
\* Operations that are made.

LEMMA OpIs ==
  ASSUME NEW ops, NEW n, NEW line
  PROVE  /\ /\ PlaceOp(n).ts = clock + 1 /\ PlaceOp(n).node = n
            /\ PlaceOp(n).line = Bare
         /\ /\ TrashOp(n).ts = clock + 1 /\ TrashOp(n).node = n
            /\ TrashOp(n).line = Bare
         /\ /\ EditOp(ops, n, line).ts = clock + 1 /\ EditOp(ops, n, line).node = n
            /\ EditOp(ops, n, line).line = line
BY DEF PlaceOp, TrashOp, EditOp

\* Operations of one append, which share a timestamp.
LEMMA BatchIs ==
  ASSUME clock \in Nat, NEW b, NEW T, NEW ops, IsFiniteSet(ops),
         \A o \in ops : o.ts = clock + 1 /\ o.node \in 1..b /\ LineOf(o.line, T)
  PROVE  OpsFrom(ops, clock + 1, b, T)
BY DEF OpsFrom

LEMMA FreshIs ==
  ASSUME Scalars, NEW S \in SUBSET Text, NEW t \in Fresh(S), Write(t)
  PROVE  texts' \in SUBSET Nat /\ texts \subseteq texts' /\ t \in texts'
BY ProjectionConstants DEF Scalars, Fresh, Write, Text

(***************************************************************************)
(* One change of a tree, with the block and the text it gives out.         *)
(***************************************************************************)
LEMMA ChangesAre ==
  ASSUME IInv, NEW ops \in SUBSET (log \cup failed), NEW t, t \in texts',
         NEW new \in Changes(ops, t), Made(new)
  PROVE  /\ blocks' \in Nat \ {0} /\ blocks <= blocks'
         /\ OpsFrom(new, clock + 1, blocks', texts')
<1>1. clock \in Nat /\ blocks \in Nat \ {0}
  BY DEF IInv, Scalars
<1>2. Alive(ops) \subseteq 1..blocks
  BY KnownIs DEF IInv, Memory
<1>3. LineOf(Bare, texts') /\ LineOf(LineOfText(t), texts')
  BY BareIs, LineOfTextIs DEF LineOfText
<1>4. /\ IsFiniteSet(new)
      /\ \A o \in new : o.ts = clock + 1 /\ o.node \in 1..(blocks + 1)
                          /\ LineOf(o.line, texts')
  <2> DEFINE Good(o) == /\ o.ts = clock + 1 /\ o.node \in 1..(blocks + 1)
                        /\ LineOf(o.line, texts')
  <2>1. CASE new = {PlaceOp(blocks + 1), EditOp(ops, blocks + 1, LineOfText(t))}
    <3> DEFINE a == PlaceOp(blocks + 1)
               e == EditOp(ops, blocks + 1, LineOfText(t))
    <3>1. Good(a) /\ Good(e)
      BY <1>1, <1>3, OpIs
    <3>2. IsFiniteSet({a, e})
      <4> HIDE DEF a, e
      <4>1. IsFiniteSet({a} \cup {e})
        BY FS_Singleton, FS_AddElement
      <4> QED BY <4>1
    <3> HIDE DEF a, e, Good
    <3>3. IsFiniteSet(new) /\ \A o \in new : Good(o)
      BY <2>1, <3>1, <3>2 DEF a, e
    <3> QED BY <3>3 DEF Good
  <2>2. ASSUME NEW n \in Alive(ops),
               new = {EditOp(ops, n, LineOfText(t))} \/ new = {TrashOp(n)}
        PROVE  IsFiniteSet(new) /\ \A o \in new : Good(o)
    <3>1. n \in 1..(blocks + 1)
      BY <1>1, <1>2
    <3>2. Good(EditOp(ops, n, LineOfText(t))) /\ Good(TrashOp(n))
      BY <1>3, <3>1, OpIs
    <3>3. IsFiniteSet(new)
      BY <2>2, FS_Singleton
    <3> HIDE DEF Good
    <3> QED BY <2>2, <3>2, <3>3
  <2>3. \/ new = {PlaceOp(blocks + 1), EditOp(ops, blocks + 1, LineOfText(t))}
        \/ \E n \in Alive(ops) :
             new = {EditOp(ops, n, LineOfText(t))} \/ new = {TrashOp(n)}
    BY DEF Changes
  <2> QED BY <2>1, <2>2, <2>3
<1>5. blocks' \in Nat /\ blocks <= blocks' /\ \A o \in new : o.node <= blocks'
  <2> DEFINE f == [o \in new |-> o.node]
             N == {f[o] : o \in new}
  <2>1. IsFiniteSet(N) /\ N = {o.node : o \in new}
    BY <1>4, FiniteImage
  <2>2. N \in SUBSET Nat
    BY <1>1, <1>4
  <2> HIDE DEF f
  <2>3. blocks' = Max({blocks} \cup N)
    BY <2>1 DEF Made
  <2>4. \A o \in new : o.node \in N
    BY <2>1
  <2> HIDE DEF N
  <2> QED BY <1>1, <2>1, <2>2, <2>3, <2>4, MadeIs
<1>6. \A o \in new : o.node \in 1..blocks'
  BY <1>1, <1>4, <1>5
<1> QED BY <1>1, <1>4, <1>5, <1>6, BatchIs

----------------------------------------------------------------------------
\* The environment.

(***************************************************************************)
(* In most steps nothing is given out and nothing is appended.             *)
(***************************************************************************)
LEMMA Quiet ==
  ASSUME IInv, UNCHANGED <<log, clock, blocks, texts, failed>>,
         dirty' \in [Process -> BOOLEAN], left' \in [Acts -> Nat]
  PROVE  /\ Scalars' /\ Grows /\ Earned' = Earned
         /\ UNCHANGED mem => Memory'
         /\ md' = md => FileOf(md, texts)'
         /\ sc' = sc => SidecarOf(sc, blocks, texts, Earned)'
         /\ UNCHANGED job => Jobs' /\ OneHolder(job)'
<1>1. Scalars' /\ clock <= clock'
  BY DEF IInv, Scalars
<1>2. Grows
  BY DEF Grows, IInv, Scalars
<1>3. Earned' = Earned
  BY DEF Earned
<1>4. UNCHANGED mem => Memory'
  BY <1>1, <1>2, MemoryStays
<1> QED BY <1>1, <1>2, <1>3, <1>4, FilesStay, JobsStay

LEMMA DirtyIs ==
  ASSUME Scalars, NEW p, NEW v \in BOOLEAN
  PROVE  [dirty EXCEPT ![p] = v] \in [Process -> BOOLEAN]
BY DEF Scalars

LEMMA SaveKeeps ==
  ASSUME IInv, Save
  PROVE  IInv'
<1> USE DEF IInv
<1>1. md # None /\ PageOf(md, texts)
  BY DEF Save, FileOf
<1> DEFINE Page ==
      /\ left' \in [Acts -> Nat]
      /\ UNCHANGED <<sc, log, mem, job, dirty, clock, blocks, failed>>
      /\ texts' \in SUBSET Nat /\ texts \subseteq texts'
      /\ PageOf(md', texts')
<1>2. Page
  <2>1. ASSUME NEW t \in Fresh(Text \ Unplaced) \cup Fresh(Unplaced),
               NEW gone \in {EmptyBag} \cup {SetToBag({l}) : l \in DOMAIN md},
               Write(t), Saved((md (-) gone) (+) SetToBag({LineOfText(t)}))
        PROVE  Page
    <3>1. texts' \in SUBSET Nat /\ texts \subseteq texts' /\ t \in texts'
      BY <2>1, FreshIs, ProjectionConstants
    <3>2. \A l \in DOMAIN gone : gone[l] \in Nat
      <4>1. \A S : \A l \in DOMAIN SetToBag(S) : SetToBag(S)[l] \in Nat
        BY DEF SetToBag
      <4>2. gone = SetToBag({}) \/ \E l \in DOMAIN md : gone = SetToBag({l})
        BY DEF EmptyBag
      <4> QED BY <4>1, <4>2
    <3>3. PageOf(md, texts')
      BY <1>1, <3>1, LineGrows
    <3>4. PageOf((md (-) gone) (+) SetToBag({LineOfText(t)}), texts')
      BY <3>1, <3>2, <3>3, MinusIs, PlusIs, LineOfTextIs DEF LineOfText
    <3>5. left' \in [Acts -> Nat]
      BY <2>1, SpendIs DEF Saved, Acts
    <3> QED BY <2>1, <3>1, <3>4, <3>5 DEF Saved
  <2>2. ASSUME NEW l \in DOMAIN md, Saved(md (-) SetToBag({l})), UNCHANGED texts
        PROVE  Page
    <3>1. PageOf(md (-) SetToBag({l}), texts)
      BY <1>1, MinusIs DEF SetToBag
    <3>2. left' \in [Acts -> Nat]
      BY <2>2, SpendIs DEF Saved, Acts
    <3> QED BY <2>2, <3>1, <3>2 DEF Saved, Scalars
  <2> QED BY <2>1, <2>2 DEF Save
<1>3. Scalars' /\ Grows /\ clock <= clock'
  BY <1>2 DEF Scalars, Grows
<1>4. FileOf(md, texts)'
  BY <1>2 DEF FileOf
<1> QED BY <1>2, <1>3, <1>4, MemoryStays, FilesStay, JobsStay

LEMMA PeerKeeps ==
  ASSUME IInv, Peer
  PROVE  IInv'
<1> PICK t \in Fresh(Text \ Unplaced) :
      \E ops \in Changes(log, t) :
        log' = log \cup ops /\ Tick /\ Write(t) /\ Made(ops)
  BY DEF Peer
<1>1. PICK ops \in Changes(log, t) :
        log' = log \cup ops /\ Tick /\ Write(t) /\ Made(ops)
  OBVIOUS
<1>2. left' \in [Acts -> Nat] /\ UNCHANGED <<md, sc, mem, job, dirty, failed>>
  BY SpendIs DEF Peer, Acts, files, IInv
<1>3. texts' \in SUBSET Nat /\ texts \subseteq texts' /\ t \in texts'
  BY <1>1, FreshIs, ProjectionConstants DEF IInv
<1>4. /\ blocks' \in Nat \ {0} /\ blocks <= blocks'
      /\ OpsFrom(ops, clock + 1, blocks', texts')
  BY <1>1, <1>3, ChangesAre
<1>5. clock' = clock + 1 /\ clock' \in Nat /\ clock <= clock'
  BY <1>1 DEF Tick, IInv, Scalars
<1>6. Scalars' /\ Grows
  BY <1>1, <1>2, <1>3, <1>4, <1>5 DEF Scalars, Grows, IInv
<1>7. Memory'
  <2>1. OpsFrom(log \cup failed, clock', blocks', texts')
    BY <1>4, <1>3, <1>5, OpsGrow DEF IInv, Scalars, Memory
  <2>2. OpsFrom((log \cup failed) \cup ops, clock', blocks', texts')
    BY <1>4, <1>5, <2>1, OpsJoin
  <2>3. (log \cup failed)' = (log \cup failed) \cup ops
    BY <1>1, <1>2
  <2> QED BY <1>2, <2>2, <2>3 DEF IInv, Memory
<1> QED BY <1>2, <1>6, <1>7, FilesStay, JobsStay DEF IInv

LEMMA CrashKeeps ==
  ASSUME IInv, NEW p \in Process, Crash(p)
  PROVE  IInv'
<1>1. left' \in [Acts -> Nat]
  BY SpendIs DEF Crash, Acts, IInv
<1>2. dirty' \in [Process -> BOOLEAN]
  BY DirtyIs DEF Crash, IInv
<1>3. UNCHANGED <<md, sc, log, clock, blocks, texts, failed>>
  BY DEF Crash, files
<1>4. /\ Scalars' /\ Grows
      /\ FileOf(md, texts)' /\ SidecarOf(sc, blocks, texts, Earned)'
  BY <1>1, <1>2, <1>3, Quiet
<1>5. Memory'
  BY <1>3 DEF Crash, IInv, Memory
<1>6. Jobs' /\ OneHolder(job)'
  BY <1>4, JobEnds DEF Crash
<1> QED BY <1>4, <1>5, <1>6 DEF IInv

LEMMA LoseKeeps ==
  ASSUME IInv, Lose
  PROVE  IInv'
<1>1. left' \in [Acts -> Nat]
  BY SpendIs DEF Lose, Acts, IInv
<1>2. UNCHANGED <<log, mem, job, dirty, clock, blocks, texts, failed>>
  BY DEF Lose
<1>3. /\ Scalars' /\ Memory' /\ Jobs' /\ OneHolder(job)'
      /\ md' = md => FileOf(md, texts)'
      /\ sc' = sc => SidecarOf(sc, blocks, texts, Earned)'
  BY <1>1, <1>2, Quiet DEF IInv, Scalars
<1>4. FileOf(md, texts)' /\ SidecarOf(sc, blocks, texts, Earned)'
  BY <1>3 DEF Lose, FileOf, SidecarOf
<1> QED BY <1>3, <1>4 DEF IInv

----------------------------------------------------------------------------
\* A client, and the reload.

LEMMA ChangeKeeps ==
  ASSUME IInv, NEW p \in Process, NEW t \in Fresh(Text \ Unplaced),
         NEW ops \in Changes(mem[p], t),
         Append(p, ops) \/ AppendFails(p, ops), Write(t), Made(ops),
         left' \in [Acts -> Nat], dirty' \in [Process -> BOOLEAN],
         UNCHANGED <<files, job>>
  PROVE  IInv'
<1>1. texts' \in SUBSET Nat /\ texts \subseteq texts' /\ t \in texts'
  BY FreshIs, ProjectionConstants DEF IInv
<1>2. mem[p] \in SUBSET (log \cup failed)
  BY DEF IInv, Memory
<1>3. /\ blocks' \in Nat \ {0} /\ blocks <= blocks'
      /\ OpsFrom(ops, clock + 1, blocks', texts')
  BY <1>1, <1>2, ChangesAre
<1>4. clock' = clock + 1 /\ clock' \in Nat
  BY AppendIs DEF IInv
<1>5. Scalars'
  BY <1>1, <1>3, <1>4 DEF Scalars
<1>6. Memory' /\ Grows
  BY <1>1, <1>3, <1>4, <1>5, MemoryGrows
<1> QED BY <1>5, <1>6, FilesStay, JobsStay DEF IInv, files

LEMMA CommitKeeps ==
  ASSUME IInv, NEW p \in Process, Commit(p) \/ CommitFails(p)
  PROVE  IInv'
<1>1. CASE Commit(p)
  <2>1. left' \in [Acts -> Nat]
    BY <1>1, SpendIs DEF Commit, Acts, IInv
  <2>2. dirty' \in [Process -> BOOLEAN]
    BY <1>1, DirtyIs DEF Commit, IInv
  <2> QED BY <1>1, <2>1, <2>2, ChangeKeeps DEF Commit
<1>2. CASE CommitFails(p)
  <2> PICK t \in Fresh(Text \ Unplaced) :
        \E ops \in Changes(mem[p], t) :
          AppendFails(p, ops) /\ Write(t) /\ Made(ops)
    BY <1>2 DEF CommitFails
  <2>1. PICK ops \in Changes(mem[p], t) :
          AppendFails(p, ops) /\ Write(t) /\ Made(ops)
    OBVIOUS
  <2>2. left' \in [Acts -> Nat]
    BY <2>1, AppendIs DEF IInv
  <2>3. dirty' \in [Process -> BOOLEAN] /\ UNCHANGED <<files, job>>
    BY <1>2 DEF CommitFails, IInv, Scalars
  <2> QED BY <2>1, <2>2, <2>3, ChangeKeeps
<1> QED BY <1>1, <1>2

LEMMA ReloadKeeps ==
  ASSUME IInv, NEW p \in Process, Reload(p)
  PROVE  IInv'
<1>1. dirty' \in [Process -> BOOLEAN]
  <2>1. [dirty EXCEPT ![p] = p \in Client] \in [Process -> BOOLEAN]
    BY DEF IInv, Scalars
  <2> QED BY <2>1 DEF Reload
<1>2. UNCHANGED <<md, sc, log, job, clock, blocks, texts, left, failed>>
  BY DEF Reload, files
<1>3. /\ Scalars' /\ Grows /\ Jobs' /\ OneHolder(job)'
      /\ FileOf(md, texts)' /\ SidecarOf(sc, blocks, texts, Earned)'
  BY <1>1, <1>2, Quiet DEF IInv, Scalars
<1>4. Memory'
  BY <1>2 DEF Reload, IInv, Memory
<1> QED BY <1>3, <1>4 DEF IInv

----------------------------------------------------------------------------
\* Tree to file.

LEMMA JobIs ==
  ASSUME IInv, NEW p \in Process
  PROVE  /\ job[p].step \in {"write", "replace"} => Writing(job[p], texts, Earned)
         /\ job[p].step = "sidecar" => Written(job[p], texts, Earned)
         /\ job[p].step = "read" => PageOf(job[p].md, texts)
         /\ job[p].step = "diff" => Diffing(job[p], blocks, texts)
         /\ job[p].step = "text" => Texting(job[p], blocks, texts)
         /\ job[p].step = "recover" => Recovering(job[p], blocks, texts)
BY DEF IInv, Jobs, JobOf

LEMMA MemIs ==
  ASSUME IInv, NEW p \in Process
  PROVE  /\ PageOf(Render(mem[p]), texts) /\ Texts(Render(mem[p])) \subseteq Earned
         /\ RowsFrom(RowsOf(mem[p]), blocks, texts)
         /\ RowTexts(RowsOf(mem[p])) \subseteq Earned
         /\ \A n : DOMAIN BlockText(mem[p], n) \subseteq Earned
         /\ Known(mem[p]) \subseteq 1..blocks
         /\ Alive(mem[p]) \subseteq 1..blocks
<1>1. /\ mem[p] \in SUBSET (log \cup failed) /\ blocks \in Nat
      /\ OpsFrom(log \cup failed, clock, blocks, texts)
  BY DEF IInv, Memory, Scalars
<1>2. TextsOf(mem[p]) \subseteq Earned
  BY <1>1, TextsOfGrow DEF Earned
<1> QED BY <1>1, <1>2, RenderIs, RowsOfIs, BlockTextIs, KnownIs

(***************************************************************************)
(* A check that could see, and saw nothing unlogged: the file has no text  *)
(* that is not earned.                                                     *)
(***************************************************************************)
LEMMA CheckSees ==
  ASSUME IInv, md # None, sc # None, ~AheadOfLog(md, sc.rows)
  PROVE  Blind \/ Texts(md) \subseteq Earned
<1> SUFFICES ASSUME ~Blind PROVE Texts(md) \subseteq Earned
  OBVIOUS
<1>1. Unlogged(md, sc.rows) = {}
  BY DEF Blind, AheadOfLog
<1>2. /\ PageOf(md, texts) /\ blocks \in Nat
      /\ RowsFrom(sc.rows, blocks, texts) /\ RowTexts(sc.rows) \subseteq Earned
  BY DEF IInv, Scalars, FileOf, SidecarOf
<1> QED BY <1>1, <1>2, NothingUnlogged

LEMMA AuthoriseKeeps ==
  ASSUME IInv, NEW p \in Process, Authorise(p), ~Locked,
         md = None \/ Blind \/ Texts(md) \subseteq Earned,
         UNCHANGED <<files, rest>>, dirty' \in [Process -> BOOLEAN]
  PROVE  IInv'
<1> DEFINE j == [step |-> "write", render |-> Render(mem[p]), over |-> md,
                 blind |-> Blind]
<1>1. UNCHANGED <<md, sc, log, mem, clock, blocks, texts, left, failed>>
  BY DEF files, rest
<1>2. /\ Scalars' /\ Grows /\ Memory' /\ Earned' = Earned
      /\ FileOf(md, texts)' /\ SidecarOf(sc, blocks, texts, Earned)'
  BY <1>1, Quiet DEF IInv, Scalars
<1>3. /\ j.step = "write" /\ j.render = Render(mem[p]) /\ j.over = md
      /\ j.blind = Blind
      /\ j = [step |-> j.step, render |-> j.render, over |-> j.over,
              blind |-> j.blind]
  OBVIOUS
<1>4. Goto(p, j)
  BY DEF Authorise
<1> HIDE DEF j
<1>5. Writing(j, texts, Earned)
  BY <1>3, MemIs DEF Writing
<1>6. JobOf(j, blocks', texts', Earned')
  BY <1>1, <1>2, <1>3, <1>5 DEF JobOf
<1> QED BY <1>2, <1>4, <1>6, JobGoesOn DEF IInv

LEMMA ProjectKeeps ==
  ASSUME IInv, NEW p \in Process, ProjectGuarded(p) \/ ProjectStale(p)
  PROVE  IInv'
<1>1. CASE ProjectGuarded(p)
  <2>1. dirty' \in [Process -> BOOLEAN] /\ ~Locked /\ UNCHANGED <<files, rest>>
    BY <1>1, DirtyIs DEF ProjectGuarded, IInv
  <2>2. CASE GuardAllows
    <3>1. md = None \/ Blind \/ Texts(md) \subseteq Earned
      BY <2>2, CheckSees DEF GuardAllows
    <3> QED BY <1>1, <2>1, <2>2, <3>1, AuthoriseKeeps DEF ProjectGuarded
  <2>3. CASE ~GuardAllows
    <3>1. Goto(p, Idle)
      BY <1>1, <2>3 DEF ProjectGuarded, Refuse
    <3>2. /\ Scalars' /\ Grows /\ Memory'
          /\ FileOf(md, texts)' /\ SidecarOf(sc, blocks, texts, Earned)'
      BY <2>1, Quiet DEF files, rest, IInv, Scalars
    <3> QED BY <3>1, <3>2, JobEnds DEF IInv
  <2> QED BY <2>2, <2>3
<1>2. CASE ProjectStale(p)
  <2>1. md = None \/ Blind \/ Texts(md) \subseteq Earned
    BY <1>2, CheckSees DEF ProjectStale, Stale
  <2>2. dirty' \in [Process -> BOOLEAN]
    BY <1>2 DEF ProjectStale, IInv, Scalars
  <2> QED BY <1>2, <2>1, <2>2, AuthoriseKeeps DEF ProjectStale
<1> QED BY <1>1, <1>2

(***************************************************************************)
(* The check is made again over the same file, and what it authorised is   *)
(* carried along to the rename, and the render on to the sidecar.          *)
(***************************************************************************)
LEMMA RereadKeeps ==
  ASSUME IInv, NEW p \in Process, Reread(p)
  PROVE  IInv'
<1>1. UNCHANGED <<md, sc, log, mem, dirty, clock, blocks, texts, left, failed>>
  BY DEF Reread, files, rest
<1>2. /\ Scalars' /\ Grows /\ Memory' /\ Earned' = Earned
      /\ FileOf(md, texts)' /\ SidecarOf(sc, blocks, texts, Earned)'
  BY <1>1, Quiet DEF IInv, Scalars
<1>3. job[p].step = "write" /\ Writing(job[p], texts, Earned)
  BY JobIs DEF Reread
<1>4. CASE job[p].over = md
  <2> DEFINE j == [job[p] EXCEPT !.step = "replace"]
  <2>1. /\ j.step = "replace" /\ j.render = job[p].render /\ j.over = job[p].over
        /\ j.blind = job[p].blind
        /\ j = [step |-> j.step, render |-> j.render, over |-> j.over,
                blind |-> j.blind]
    BY <1>3 DEF Writing
  <2>2. Goto(p, j)
    BY <1>4 DEF Reread
  <2> HIDE DEF j
  <2>3. Writing(j, texts, Earned)
    BY <1>3, <2>1 DEF Writing
  <2>4. JobOf(j, blocks', texts', Earned')
    BY <1>1, <1>2, <2>1, <2>3 DEF JobOf
  <2>5. Holds(job[p])
    BY <1>3 DEF Holds, Holding
  <2> QED BY <1>2, <2>2, <2>4, <2>5, JobGoesOn DEF IInv
<1>5. CASE job[p].over # md
  BY <1>2, <1>5, JobEnds DEF Reread, Refuse, IInv
<1> QED BY <1>4, <1>5

LEMMA WriteMdKeeps ==
  ASSUME IInv, NEW p \in Process, WriteMd(p)
  PROVE  IInv'
<1> DEFINE j == [job[p] EXCEPT !.step = "sidecar"]
<1>1. UNCHANGED <<sc, log, mem, dirty, clock, blocks, texts, left, failed>>
  BY DEF WriteMd, rest
<1>2. /\ Scalars' /\ Grows /\ Memory' /\ Earned' = Earned
      /\ SidecarOf(sc, blocks, texts, Earned)'
  BY <1>1, Quiet DEF IInv, Scalars
<1>3. job[p].step = "replace" /\ Writing(job[p], texts, Earned)
  BY JobIs DEF WriteMd
<1>4. j.step = "sidecar" /\ j.render = job[p].render
  BY <1>3 DEF Writing
<1>5. md' = job[p].render /\ Goto(p, j)
  BY DEF WriteMd
<1> HIDE DEF j
<1>6. JobOf(j, blocks', texts', Earned')
  BY <1>1, <1>2, <1>3, <1>4 DEF Writing, Written, JobOf
<1>7. FileOf(md, texts)'
  BY <1>1, <1>3, <1>5 DEF Writing, FileOf
<1>8. Holds(job[p])
  BY <1>3 DEF Holds, Holding
<1> QED BY <1>2, <1>5, <1>6, <1>7, <1>8, JobGoesOn DEF IInv

LEMMA WriteSidecarKeeps ==
  ASSUME IInv, NEW p \in Process, WriteSidecar(p)
  PROVE  IInv'
<1>1. UNCHANGED <<md, log, mem, dirty, clock, blocks, texts, left, failed>>
  BY DEF WriteSidecar, rest
<1>2. /\ Scalars' /\ Grows /\ Memory' /\ Earned' = Earned /\ FileOf(md, texts)'
  BY <1>1, Quiet DEF IInv, Scalars
<1>3. Written(job[p], texts, Earned)
  BY JobIs DEF WriteSidecar
<1>4. sc'.rows = RowsOf(mem[p]) /\ sc'.hash = job[p].render
  BY DEF WriteSidecar
<1>5. SidecarOf(sc', blocks', texts', Earned')
  BY <1>1, <1>2, <1>3, <1>4, MemIs DEF Written, SidecarOf
<1> QED BY <1>2, <1>5, JobEnds DEF WriteSidecar, IInv

----------------------------------------------------------------------------
\* File to tree.

LEMMA ReadMdKeeps ==
  ASSUME IInv, NEW p \in Process, ReadMd(p)
  PROVE  IInv'
<1> DEFINE j == [step |-> "read", md |-> md]
<1>1. UNCHANGED <<md, sc, log, mem, dirty, clock, blocks, texts, left, failed>>
  BY DEF ReadMd, files, rest
<1>2. /\ Scalars' /\ Grows /\ Memory'
      /\ FileOf(md, texts)' /\ SidecarOf(sc, blocks, texts, Earned)'
  BY <1>1, Quiet DEF IInv, Scalars
<1>3. j.step = "read" /\ j.md = md /\ Goto(p, j) /\ md # None
  BY DEF ReadMd, Orphan
<1> HIDE DEF j
<1>4. JobOf(j, blocks', texts', Earned')
  BY <1>1, <1>3 DEF JobOf, IInv, FileOf
<1>5. ~Holds(j)
  BY <1>3 DEF Holds, Holding
<1> QED BY <1>2, <1>3, <1>4, <1>5, JobGoesOn DEF IInv

LEMMA ReadSidecarKeeps ==
  ASSUME IInv, NEW p \in Process, ReadSidecar(p)
  PROVE  IInv'
<1> DEFINE old == IF sc = None THEN <<>> ELSE sc.rows
           J(rows) == [step |-> "diff", md |-> job[p].md, rows |-> rows,
                       gone |-> DOMAIN old \ DOMAIN rows]
<1>1. UNCHANGED <<md, sc, log, mem, dirty, clock, texts, left, failed>>
  BY DEF ReadSidecar, files
<1>2. job[p].step = "read" /\ PageOf(job[p].md, texts)
  BY JobIs DEF ReadSidecar
<1>3. DOMAIN old \subseteq 1..blocks
  BY DEF IInv, SidecarOf, RowsFrom
<1>4. blocks \in Nat \ {0}
  BY DEF IInv, Scalars
<1>5. ASSUME blocks' \in Nat, blocks <= blocks'
      PROVE  /\ Scalars' /\ Grows /\ Memory'
             /\ FileOf(md, texts)' /\ SidecarOf(sc, blocks, texts, Earned)'
  <2>1. Scalars' /\ Grows /\ clock <= clock'
    BY <1>1, <1>4, <1>5 DEF IInv, Scalars, Grows
  <2> QED BY <1>1, <2>1, FilesStay, MemoryStays
<1>6. ASSUME Goto(p, Idle) PROVE IInv'
  <2>1. job'[p] = Idle
    BY <1>6 DEF IInv, Jobs, Goto
  <2>2. blocks' = Max({blocks} \cup {})
    BY <2>1 DEF ReadSidecar, Idle
  <2>3. blocks' \in Nat /\ blocks <= blocks'
    BY <1>4, <2>2, MadeIs, FS_EmptySet
  <2>4. Scalars' /\ Grows
    BY <1>5, <2>3
  <2> QED BY <1>5, <1>6, <2>3, <2>4, JobEnds DEF IInv
<1>7. ASSUME NEW rows \in Matches(Placed(job[p].md), old), Goto(p, J(rows))
      PROVE  IInv'
  <2>1. PageOf(Placed(job[p].md), texts)
    BY <1>2, PlacedIs
  <2> HIDE DEF old
  <2>2. /\ IsFiniteSet(DOMAIN rows) /\ DOMAIN rows \subseteq Nat \ {0}
        /\ \A n \in DOMAIN rows : LineOf(rows[n], texts)
    BY <1>3, <1>4, <2>1, MatchesIs
  <2>3. job'[p] = J(rows)
    BY <1>7 DEF IInv, Jobs, Goto
  <2>4. blocks' = Max({blocks} \cup DOMAIN rows)
    BY <2>3 DEF ReadSidecar
  <2>5. blocks' \in Nat /\ blocks <= blocks' /\ \A n \in DOMAIN rows : n <= blocks'
    BY <1>4, <2>2, <2>4, MadeIs
  <2>6. Scalars' /\ Grows
    BY <1>5, <2>5
  <2>7. RowsFrom(rows, blocks', texts')
    BY <1>1, <2>2, <2>5 DEF RowsFrom
  <2>8. DOMAIN old \ DOMAIN rows \subseteq 1..blocks'
    BY <1>3, <1>4, <2>5
  <2>9. /\ J(rows).step = "diff" /\ J(rows).md = job[p].md
        /\ J(rows).rows = rows /\ J(rows).gone = DOMAIN old \ DOMAIN rows
        /\ J(rows) = [step |-> "diff", md |-> J(rows).md,
                      rows |-> J(rows).rows, gone |-> J(rows).gone]
    OBVIOUS
  <2> HIDE DEF J
  <2>10. Diffing(J(rows), blocks', texts')
    BY <1>1, <1>2, <2>7, <2>8, <2>9 DEF Diffing
  <2>11. JobOf(J(rows), blocks', texts', Earned') /\ ~Holds(J(rows))
    BY <2>9, <2>10 DEF JobOf, Holds, Holding
  <2> QED BY <1>5, <1>7, <2>5, <2>6, <2>11, JobGoesOn DEF IInv
<1>8. \/ Goto(p, Idle)
      \/ \E rows \in Matches(Placed(job[p].md), old) : Goto(p, J(rows))
  BY DEF ReadSidecar, Refuse
<1> QED BY <1>6, <1>7, <1>8

(***************************************************************************)
(* A job appends operations on blocks and texts that were given out, and   *)
(* goes on or, if the append fails, ends.                                  *)
(***************************************************************************)
LEMMA BatchKeeps ==
  ASSUME IInv, NEW p \in Process, NEW ops, IsFiniteSet(ops),
         \A o \in ops : o.ts = clock + 1 /\ o.node \in 1..blocks /\ LineOf(o.line, texts),
         (Append(p, ops) /\ UNCHANGED left) \/ AppendFails(p, ops),
         UNCHANGED <<files, dirty, blocks, texts>>
  PROVE  /\ Scalars' /\ Memory' /\ Grows
         /\ FileOf(md, texts)' /\ SidecarOf(sc, blocks, texts, Earned)'
<1>1. clock' = clock + 1 /\ clock' \in Nat /\ left' \in [Acts -> Nat]
  BY AppendIs DEF IInv, Scalars
<1>2. Scalars' /\ blocks <= blocks' /\ texts \subseteq texts'
  BY <1>1 DEF IInv, Scalars
<1>3. OpsFrom(ops, clock', blocks', texts')
  BY <1>1, BatchIs DEF IInv, Scalars
<1>4. Memory' /\ Grows
  BY <1>2, <1>3, MemoryGrows
<1> QED BY <1>2, <1>4, FilesStay DEF files

LEMMA StructureIs ==
  ASSUME IInv, NEW p \in Process, job[p].step = "diff"
  PROVE  /\ IsFiniteSet(Structure(p))
         /\ \A o \in Structure(p) :
              o.ts = clock + 1 /\ o.node \in 1..blocks /\ LineOf(o.line, texts)
<1> DEFINE P == DOMAIN job[p].rows \ Alive(mem[p])
           G == {x \in job[p].gone : x \notin Known(mem[p]) \/ x \in Alive(mem[p])}
           f == [n \in P |-> PlaceOp(n)]
           g == [n \in G |-> TrashOp(n)]
<1>1. P \subseteq 1..blocks /\ G \subseteq 1..blocks /\ blocks \in Nat
  BY JobIs DEF Diffing, RowsFrom, IInv, Scalars
<1>2. Structure(p) = {f[n] : n \in P} \cup {g[n] : n \in G}
  BY DEF Structure
<1>3. IsFiniteSet(P) /\ IsFiniteSet(G)
  BY <1>1, Interval, FS_Subset
<1>4. /\ \A n \in P : f[n].ts = clock + 1 /\ f[n].node = n /\ f[n].line = Bare
      /\ \A n \in G : g[n].ts = clock + 1 /\ g[n].node = n /\ g[n].line = Bare
  BY OpIs
<1> HIDE DEF P, G, f, g
<1>5. IsFiniteSet(Structure(p))
  <2>1. IsFiniteSet({f[n] : n \in P}) /\ IsFiniteSet({g[n] : n \in G})
    BY <1>3, FiniteImage
  <2> QED BY <1>2, <2>1, FS_Union
<1>6. ASSUME NEW o \in Structure(p)
      PROVE  o.ts = clock + 1 /\ o.node \in 1..blocks /\ LineOf(o.line, texts)
  BY <1>1, <1>2, <1>4, BareIs
<1> QED BY <1>5, <1>6

LEMMA ApplyStructureKeeps ==
  ASSUME IInv, NEW p \in Process, ApplyStructure(p)
  PROVE  IInv'
<1> DEFINE j == [job[p] EXCEPT !.step = "text"]
<1>1. job[p].step = "diff" /\ Diffing(job[p], blocks, texts)
  BY JobIs DEF ApplyStructure
<1>2. j.step = "text" /\ j.md = job[p].md /\ j.rows = job[p].rows
  BY <1>1 DEF Diffing
<1>3. /\ \/ Goto(p, j) /\ UNCHANGED <<log, mem, clock, left, failed>>
         \/ Goto(p, j) /\ Append(p, Structure(p)) /\ UNCHANGED left
         \/ Goto(p, Idle) /\ AppendFails(p, Structure(p))
      /\ UNCHANGED <<files, dirty, blocks, texts>>
  BY DEF ApplyStructure
<1> HIDE DEF j
<1>4. /\ Scalars' /\ Memory' /\ Grows
      /\ FileOf(md, texts)' /\ SidecarOf(sc, blocks, texts, Earned)'
  <2>1. CASE UNCHANGED <<log, mem, clock, left, failed>>
    BY <1>3, <2>1, Quiet DEF IInv, Scalars, files
  <2>2. CASE \/ Append(p, Structure(p)) /\ UNCHANGED left
             \/ AppendFails(p, Structure(p))
    BY <1>1, <1>3, <2>2, StructureIs, BatchKeeps
  <2> QED BY <1>3, <2>1, <2>2
<1>5. JobOf(j, blocks', texts', Earned') /\ ~Holds(j)
  BY <1>1, <1>2, <1>3 DEF Diffing, Texting, JobOf, Holds, Holding
<1>6. Jobs' /\ OneHolder(job)'
  <2>1. CASE Goto(p, j)
    BY <1>4, <1>5, <2>1, JobGoesOn
  <2>2. CASE Goto(p, Idle)
    BY <1>4, <2>2, JobEnds
  <2> QED BY <1>3, <2>1, <2>2
<1> QED BY <1>4, <1>6 DEF IInv

LEMMA ApplyTextKeeps ==
  ASSUME IInv, NEW p \in Process, ApplyText(p)
  PROVE  IInv'
<1>1. Texting(job[p], blocks, texts)
  BY JobIs DEF ApplyText
<1> PICK n \in Reworded(p) :
      \/ Append(p, {EditOp(mem[p], n, job[p].rows[n])}) /\ UNCHANGED <<job, left>>
      \/ AppendFails(p, {EditOp(mem[p], n, job[p].rows[n])}) /\ Goto(p, Idle)
  BY DEF ApplyText
<1> DEFINE ops == {EditOp(mem[p], n, job[p].rows[n])}
<1>2. \/ Append(p, ops) /\ UNCHANGED <<job, left>>
      \/ AppendFails(p, ops) /\ Goto(p, Idle)
  OBVIOUS
<1>3. IsFiniteSet(ops)
  BY FS_Singleton
<1>4. n \in 1..blocks /\ LineOf(job[p].rows[n], texts)
  BY <1>1 DEF Reworded, Texting, RowsFrom
<1>5. \A o \in ops : o.ts = clock + 1 /\ o.node \in 1..blocks /\ LineOf(o.line, texts)
  BY <1>4, OpIs
<1>6. UNCHANGED <<files, dirty, blocks, texts>>
  BY DEF ApplyText
<1> HIDE DEF ops
<1>7. /\ Scalars' /\ Memory' /\ Grows
      /\ FileOf(md, texts)' /\ SidecarOf(sc, blocks, texts, Earned)'
  BY <1>2, <1>3, <1>5, <1>6, BatchKeeps
<1>8. Jobs' /\ OneHolder(job)'
  BY <1>2, <1>7, JobsStay, JobEnds
<1> QED BY <1>7, <1>8 DEF IInv

(***************************************************************************)
(* The rows are written when the tree has their text, and the hash is      *)
(* stamped if they account for the file: both claims are earned.           *)
(***************************************************************************)
LEMMA WriteRowsKeeps ==
  ASSUME IInv, NEW p \in Process, WriteRows(p)
  PROVE  IInv'
<1> DEFINE rows == job[p].rows
<1>1. UNCHANGED <<md, log, mem, dirty, clock, blocks, texts, left, failed>>
  BY DEF WriteRows, rest
<1>2. /\ Scalars' /\ Grows /\ Memory' /\ Earned' = Earned /\ FileOf(md, texts)'
  BY <1>1, Quiet DEF IInv, Scalars
<1>3. PageOf(job[p].md, texts) /\ RowsFrom(rows, blocks, texts)
  BY JobIs DEF WriteRows, Texting
<1>4. RowTexts(rows) \subseteq Earned
  <2>1. \A n \in DOMAIN rows : BlockText(mem[p], n) = rows[n]
    BY DEF WriteRows, Reworded
  <2>2. \A n : DOMAIN BlockText(mem[p], n) \subseteq Earned
    BY MemIs
  <2> QED BY <2>1, <2>2 DEF RowTexts
<1>5. sc'.rows = rows /\ sc'.hash = Stamp(job[p].md, rows)
  BY DEF WriteRows
<1>6. sc'.hash # None =>
        PageOf(sc'.hash, texts) /\ Texts(sc'.hash) \subseteq Earned
  <2> SUFFICES ASSUME sc'.hash # None
      PROVE  PageOf(sc'.hash, texts) /\ Texts(sc'.hash) \subseteq Earned
    OBVIOUS
  <2>1. Unlogged(job[p].md, rows) = {} /\ sc'.hash = job[p].md
    BY <1>5 DEF Stamp
  <2>2. blocks \in Nat
    BY DEF IInv, Scalars
  <2>3. Texts(job[p].md) \subseteq RowTexts(rows)
    BY <1>3, <2>1, <2>2, NothingUnlogged
  <2> QED BY <1>3, <1>4, <2>1, <2>3
<1> HIDE DEF rows
<1>7. SidecarOf(sc', blocks', texts', Earned')
  BY <1>1, <1>2, <1>3, <1>4, <1>5, <1>6 DEF SidecarOf
<1> QED BY <1>2, <1>7, JobEnds DEF WriteRows, IInv

----------------------------------------------------------------------------
\* A projection that ran ahead of the log.

LEMMA RecoverKeeps ==
  ASSUME IInv, NEW p \in Process, Recover(p)
  PROVE  IInv'
<1> DEFINE j == [step |-> "recover", rows |-> sc.rows, ahead |-> Ahead(p),
                 keep |-> Diverged(p)]
<1>1. UNCHANGED <<md, sc, log, mem, dirty, clock, blocks, texts, left, failed>>
  BY DEF Recover, files, rest
<1>2. /\ Scalars' /\ Grows /\ Memory'
      /\ FileOf(md, texts)' /\ SidecarOf(sc, blocks, texts, Earned)'
  BY <1>1, Quiet DEF IInv, Scalars
<1>3. /\ j.step = "recover" /\ j.rows = sc.rows /\ j.ahead = Ahead(p)
      /\ j = [step |-> "recover", rows |-> j.rows, ahead |-> j.ahead, keep |-> j.keep]
  OBVIOUS
<1>4. Goto(p, j) /\ RowsFrom(sc.rows, blocks, texts) /\ Ahead(p) \subseteq DOMAIN sc.rows
  BY DEF Recover, Ahead, IInv, SidecarOf
<1> HIDE DEF j
<1>5. Recovering(j, blocks, texts)
  BY <1>3, <1>4 DEF Recovering
<1>6. JobOf(j, blocks', texts', Earned') /\ ~Holds(j)
  BY <1>1, <1>3, <1>5 DEF JobOf, Holds, Holding
<1> QED BY <1>2, <1>4, <1>6, JobGoesOn DEF IInv

LEMMA RecoverBlockKeeps ==
  ASSUME IInv, NEW p \in Process, RecoverBlock(p)
  PROVE  IInv'
<1>1. job[p].step = "recover" /\ Recovering(job[p], blocks, texts)
  BY JobIs DEF RecoverBlock
<1>2. PICK n \in job[p].ahead :
        \/ /\ Append(p, {RecoverOp(n, p)}) /\ UNCHANGED left
           /\ Goto(p, [job[p] EXCEPT !.ahead =
                         IF Recovered(n, p) THEN @ \ {n} ELSE @])
        \/ AppendFails(p, {RecoverOp(n, p)}) /\ Goto(p, Idle)
  BY DEF RecoverBlock
<1> DEFINE ops == {RecoverOp(n, p)}
           ahead == IF Recovered(n, p) THEN job[p].ahead \ {n} ELSE job[p].ahead
           j == [job[p] EXCEPT !.ahead = ahead]
<1>3. \/ Append(p, ops) /\ UNCHANGED left /\ Goto(p, j)
      \/ AppendFails(p, ops) /\ Goto(p, Idle)
  BY <1>2
<1>4. IsFiniteSet(ops)
  BY FS_Singleton
<1>5. n \in 1..blocks /\ LineOf(job[p].rows[n], texts)
  BY <1>1 DEF Recovering, RowsFrom
<1>6. \A o \in ops : o.ts = clock + 1 /\ o.node \in 1..blocks /\ LineOf(o.line, texts)
  <2>1. RecoverOp(n, p) \in {PlaceOp(n), EditOp(mem[p], n, job[p].rows[n])}
    BY DEF RecoverOp
  <2> QED BY <1>5, <2>1, OpIs, BareIs
<1>7. UNCHANGED <<files, dirty, blocks, texts>>
  BY DEF RecoverBlock
<1>8. /\ j.step = "recover" /\ j.rows = job[p].rows /\ j.ahead = ahead
      /\ j = [step |-> "recover", rows |-> j.rows, ahead |-> j.ahead, keep |-> j.keep]
  BY <1>1 DEF Recovering
<1>9. ahead \subseteq job[p].ahead
  OBVIOUS
<1> HIDE DEF ops, j, ahead
<1>10. /\ Scalars' /\ Memory' /\ Grows
       /\ FileOf(md, texts)' /\ SidecarOf(sc, blocks, texts, Earned)'
  BY <1>3, <1>4, <1>6, <1>7, BatchKeeps
<1>11. JobOf(j, blocks', texts', Earned') /\ ~Holds(j)
  <2>1. Recovering(j, blocks, texts)
    BY <1>1, <1>8, <1>9 DEF Recovering
  <2> QED BY <1>7, <1>8, <2>1 DEF JobOf, Holds, Holding
<1>12. Jobs' /\ OneHolder(job)'
  BY <1>3, <1>10, <1>11, JobGoesOn, JobEnds
<1> QED BY <1>10, <1>12 DEF IInv

LEMMA RecoverEndsKeeps ==
  ASSUME IInv, NEW p \in Process, RecoverEnds(p)
  PROVE  IInv'
<1>1. UNCHANGED <<sc, log, mem, dirty, clock, blocks, texts, left, failed>>
  BY DEF RecoverEnds, rest
<1>2. /\ Scalars' /\ Grows /\ Memory' /\ Earned' = Earned
      /\ SidecarOf(sc, blocks, texts, Earned)'
      /\ md' = md => FileOf(md, texts)'
  BY <1>1, Quiet DEF IInv, Scalars
<1>3. CASE Goto(p, Idle) /\ UNCHANGED md
  BY <1>2, <1>3, JobEnds DEF IInv
<1> DEFINE j == [step |-> "sidecar", render |-> Render(mem[p]), over |-> md]
<1>4. CASE ~Locked /\ md' = Render(mem[p]) /\ Goto(p, j)
  <2>1. j.step = "sidecar" /\ j.render = Render(mem[p])
    OBVIOUS
  <2> HIDE DEF j
  <2>2. JobOf(j, blocks', texts', Earned')
    BY <1>1, <1>2, <2>1, MemIs DEF JobOf, Written
  <2>3. FileOf(md, texts)'
    BY <1>1, <1>4, MemIs DEF FileOf
  <2> QED BY <1>2, <1>4, <2>2, <2>3, JobGoesOn DEF IInv
<1> QED BY <1>3, <1>4 DEF RecoverEnds

----------------------------------------------------------------------------
\* The invariant.

LEMMA InitHolds == Init => IInv
<1> SUFFICES ASSUME Init PROVE IInv
  OBVIOUS
<1> USE DEF Init
<1>1. FirstText \in SUBSET Nat
  BY ProjectionConstants
<1>2. Scalars
  BY <1>1, ProjectionConstants DEF Scalars
<1>3. OpsFrom(FirstOps, 0, 1, FirstText)
  <2> DEFINE Op(k) == [ts |-> 0, kind |-> k, node |-> 1, over |-> {},
                       line |-> IF k = "edit" THEN SetToBag(FirstText) ELSE Bare]
  <2>1. FirstOps = {Op("place")} \cup {Op("edit")}
    BY DEF FirstOps
  <2>2. \A k : /\ Op(k).ts = 0 /\ Op(k).node = 1
               /\ Op(k).line \in {SetToBag(FirstText), Bare}
    OBVIOUS
  <2> HIDE DEF Op
  <2>3. IsFiniteSet(FirstOps)
    BY <2>1, FS_Singleton, FS_AddElement
  <2>4. \A o \in FirstOps : /\ o.ts = 0 /\ o.node = 1
                            /\ o.line \in {SetToBag(FirstText), Bare}
    BY <2>1, <2>2
  <2>5. LineOf(SetToBag(FirstText), FirstText) /\ LineOf(Bare, FirstText)
    BY LineOfTextIs, BareIs
  <2> QED BY <2>3, <2>4, <2>5 DEF OpsFrom
<1>4. Memory
  BY <1>3 DEF Memory
<1>5. Jobs /\ OneHolder(job)
  <2>1. \A p \in Process : job[p] = Idle
    OBVIOUS
  <2> QED BY <2>1, Resting DEF Jobs, OneHolder
<1>6. TextsOf(FirstOps) = Earned
  BY DEF Earned
<1>7. /\ PageOf(Render(FirstOps), texts) /\ Texts(Render(FirstOps)) \subseteq Earned
      /\ RowsFrom(RowsOf(FirstOps), blocks, texts)
      /\ RowTexts(RowsOf(FirstOps)) \subseteq Earned
  BY <1>3, <1>6, RenderIs, RowsOfIs
<1>8. md = Render(FirstOps) /\ sc.rows = RowsOf(FirstOps) /\ sc.hash = Render(FirstOps)
  OBVIOUS
<1>9. FileOf(md, texts) /\ SidecarOf(sc, blocks, texts, Earned)
  BY <1>7, <1>8 DEF FileOf, SidecarOf
<1> QED BY <1>2, <1>4, <1>5, <1>9 DEF IInv

LEMMA StepKeeps == IInv /\ [Next]_vars => IInv'
<1> SUFFICES ASSUME IInv, [Next]_vars PROVE IInv'
  OBVIOUS
<1>1. CASE Save
  BY <1>1, SaveKeeps
<1>2. CASE Peer
  BY <1>2, PeerKeeps
<1>3. CASE Lose
  BY <1>3, LoseKeeps
<1>4. ASSUME NEW p \in Process, Crash(p) PROVE IInv'
  BY <1>4, CrashKeeps
<1>5. ASSUME NEW p \in Client, Commit(p) \/ CommitFails(p) PROVE IInv'
  BY <1>5, CommitKeeps, ProjectionConstants
<1>6. ASSUME NEW p \in Process, Reconcile(p) PROVE IInv'
  BY <1>6, ReadMdKeeps, ReadSidecarKeeps, ApplyStructureKeeps, ApplyTextKeeps,
     WriteRowsKeeps DEF Reconcile
<1>7. ASSUME NEW p \in Process, Recovery(p) PROVE IInv'
  BY <1>7, RecoverKeeps, RecoverBlockKeeps, RecoverEndsKeeps DEF Recovery
<1>8. ASSUME NEW p \in Process,
             Reload(p) \/ ProjectGuarded(p) \/ ProjectStale(p) \/ Projection(p)
      PROVE  IInv'
  BY <1>8, ReloadKeeps, ProjectKeeps, RereadKeeps, WriteMdKeeps, WriteSidecarKeeps
     DEF Projection
<1>9. CASE UNCHANGED vars
  <2>1. UNCHANGED <<md, sc, log, mem, job, dirty, clock, blocks, texts, left, failed>>
    BY <1>9 DEF vars
  <2> QED BY <2>1, Quiet DEF IInv, Scalars
<1> QED BY <1>1, <1>2, <1>3, <1>4, <1>5, <1>6, <1>7, <1>8, <1>9
        DEF Next, Environment, Works

(***************************************************************************)
(* The inductive invariant holds of every behaviour: whatever processes,   *)
(* saves, crashes, losses and failed appends there are, each file and each *)
(* job in flight carries what was written, and claims what is earned.      *)
(***************************************************************************)
THEOREM Invariance == Spec => []IInv
BY InitHolds, StepKeeps, PTL DEF Spec

(***************************************************************************)
(* The types, and that one projection at most holds the page's lock        *)
(* (ProjectionLock in journal/write.rs).                                   *)
(***************************************************************************)
THEOREM TypeCorrect == Spec => []TypeOK
<1>1. IInv => TypeOK
  <2> SUFFICES ASSUME IInv PROVE TypeOK
    OBVIOUS
  <2> USE DEF IInv
  <2>1. \A l : LineOf(l, texts) => IsLine(l)
    BY DEF LineOf, IsLine
  <2>2. \A m : PageOf(m, texts) => IsPage(m)
    BY <2>1 DEF PageOf, IsPage
  <2>3. md # None => IsPage(md)
    BY <2>2 DEF FileOf
  <2>4. sc # None => IsRows(sc.rows) /\ (sc.hash # None => IsPage(sc.hash))
    BY <2>1, <2>2 DEF SidecarOf, RowsFrom, IsRows
  <2>5. \A o \in log \cup UNION {mem[p] : p \in Process} :
          o.ts \in 0..clock /\ o.node \in 1..blocks /\ IsLine(o.line)
    BY <2>1 DEF Memory, OpsFrom
  <2>6. \A p \in Process : mem[p] \subseteq log \cup failed
    BY DEF Memory
  <2>7. Cardinality({p \in Process : job[p].step \in Holding}) <= 1
    <3> DEFINE H == {p \in Process : Holds(job[p])}
    <3>1. H = {} \/ \E p : H = {p}
      BY DEF OneHolder
    <3>2. Cardinality(H) = 0 \/ Cardinality(H) = 1
      BY <3>1, FS_EmptySet, FS_Singleton
    <3>3. H = {p \in Process : job[p].step \in Holding}
      BY DEF Holds
    <3> HIDE DEF H
    <3> QED BY <3>2, <3>3
  <2> QED BY <2>3, <2>4, <2>5, <2>6, <2>7 DEF TypeOK, Scalars
<1> QED BY <1>1, Invariance, PTL

(***************************************************************************)
(* The hash of a sidecar is a true claim (reconcile.rs:291): every text of *)
(* the file it stands for is in an operation on disk, or in one that       *)
(* failed to append, however saves, reconciles, projections and crashes of *)
(* any number of processes interleave.                                     *)
(***************************************************************************)
THEOREM HashesAreEarned == Spec => []HashIsEarned
<1>1. Earned = Logged \cup TextsOf(failed)
  BY DEF Earned, Logged, TextsOf
<1>2. IInv => HashIsEarned
  BY <1>1 DEF IInv, SidecarOf, HashIsEarned
<1> QED BY <1>2, Invariance, PTL

(***************************************************************************)
(* The file is replaced by the rename of a projection only: who goes from  *)
(* "replace" to "sidecar" took that step.                                  *)
(***************************************************************************)
LEMMA OnlyWriteMd ==
  ASSUME IInv, [Next]_vars, NEW p \in Process,
         job[p].step = "replace", job'[p].step = "sidecar"
  PROVE  WriteMd(p)
<1>1. job' # job
  OBVIOUS
<1>2. \A q \in Process : \A j : Goto(q, j) =>
        job'[p] = IF q = p THEN j ELSE job[p]
  BY DEF IInv, Jobs, Goto
<1>3. \A q \in Process : Goto(q, Idle) => FALSE
  BY <1>2 DEF Idle
<1>4. \A q \in Process : \A j : Goto(q, j) => q = p
  BY <1>2
<1>5. ~Free(p)
  BY DEF Free
<1>6. ~(Save \/ Peer \/ Lose)
  BY <1>1 DEF Save, Saved, Peer, Lose
<1>7. \A q \in Process : ~Crash(q)
  BY <1>3 DEF Crash
<1>8. \A q \in Client : ~(Commit(q) \/ CommitFails(q))
  BY <1>1 DEF Commit, CommitFails
<1>9. \A q \in Process : ~(Reload(q) \/ ApplyText(q) \/ WriteRows(q))
  BY <1>1, <1>3 DEF Reload, ApplyText, WriteRows
<1>10. \A q \in Process : ~ReadMd(q)
  BY <1>4, <1>5 DEF ReadMd
<1>11. \A q \in Process : ~ReadSidecar(q)
  <2> SUFFICES ASSUME NEW q \in Process, ReadSidecar(q) PROVE FALSE
    OBVIOUS
  <2>1. \E j : Goto(q, j)
    BY DEF ReadSidecar, Refuse
  <2> QED BY <1>4, <2>1 DEF ReadSidecar
<1>12. \A q \in Process : ~ApplyStructure(q)
  <2> SUFFICES ASSUME NEW q \in Process, ApplyStructure(q) PROVE FALSE
    OBVIOUS
  <2>1. \E j : Goto(q, j)
    BY DEF ApplyStructure
  <2> QED BY <1>4, <2>1 DEF ApplyStructure
<1>13. \A q \in Process : ~Recovery(q)
  <2> SUFFICES ASSUME NEW q \in Process, Recovery(q) PROVE FALSE
    OBVIOUS
  <2>1. \E j : Goto(q, j)
    BY DEF Recovery, Recover, RecoverBlock, RecoverEnds
  <2>2. q = p
    BY <1>4, <2>1
  <2> QED BY <1>5, <2>2 DEF Recovery, Recover, RecoverBlock, RecoverEnds
<1>14. \A q \in Process : ~(ProjectGuarded(q) \/ ProjectStale(q))
  <2> SUFFICES ASSUME NEW q \in Process, ProjectGuarded(q) \/ ProjectStale(q)
      PROVE  FALSE
    OBVIOUS
  <2>1. \E j : Goto(q, j)
    BY DEF ProjectGuarded, ProjectStale, Authorise, Refuse
  <2> QED BY <1>4, <1>5, <2>1 DEF ProjectGuarded, ProjectStale
<1>15. \A q \in Process : ~(Reread(q) \/ WriteSidecar(q))
  <2> SUFFICES ASSUME NEW q \in Process, Reread(q) \/ WriteSidecar(q)
      PROVE  FALSE
    OBVIOUS
  <2>1. \E j : Goto(q, j)
    BY DEF Reread, WriteSidecar, Refuse
  <2> QED BY <1>4, <2>1 DEF Reread, WriteSidecar
<1>16. \E q \in Process : WriteMd(q)
  BY <1>1, <1>6, <1>7, <1>8, <1>9, <1>10, <1>11, <1>12, <1>13, <1>14, <1>15
     DEF Next, Environment, Works, Reconcile, Projection, vars
<1>17. PICK q \in Process : WriteMd(q)
  BY <1>16
<1>18. \E j : Goto(q, j)
  BY <1>17 DEF WriteMd
<1> QED BY <1>4, <1>17, <1>18

(***************************************************************************)
(* Invariant 8 of the project (apply.rs, guard.rs), for any number of      *)
(* processes: the write of a projection drops no text that the file held   *)
(* when it was last read and that is in no operation (on disk, or failed   *)
(* to append), whatever was saved before and after its check, unless that  *)
(* check was blind.  It says nothing of what an editor saves between the   *)
(* last reading and the rename, which the code cannot protect.             *)
(***************************************************************************)
THEOREM GatesHold == Spec => GatesKeepLines
<1>1. ASSUME IInv, [Next]_vars, NEW p \in Process,
             Replaces(p), ~job[p].blind
      PROVE  Held(md) \cap Held(job[p].over)
               \subseteq Texts(md') \cup Logged \cup TextsOf(failed)
  <2>1. WriteMd(p) /\ Writing(job[p], texts, Earned)
    BY <1>1, OnlyWriteMd, JobIs DEF Replaces
  <2>2. Held(job[p].over) \subseteq Earned
    BY <1>1, <2>1 DEF Writing, Held
  <2>3. Earned = Logged \cup TextsOf(failed)
    BY DEF Earned, Logged, TextsOf
  <2> QED BY <2>2, <2>3
<1>2. IInv /\ [Next]_vars =>
        [\A p \in Process : Replaces(p) /\ ~job[p].blind =>
           Held(md) \cap Held(job[p].over)
             \subseteq Texts(md') \cup Logged \cup TextsOf(failed)]_vars
  BY <1>1
<1> QED BY <1>2, Invariance, PTL DEF Spec, GatesKeepLines

----------------------------------------------------------------------------
\* A process that is alone with its page.

(***************************************************************************)
(* One process at a time runs, and nobody else touches the two files: no   *)
(* editor saves, no file is lost, and the process is not killed.  Its own  *)
(* changes, those of other devices and failed appends are free.            *)
(***************************************************************************)
Undisturbed ==
  \A scene \in Scenes :
    /\ \A p, q \in scene[1] : p = q
    /\ \A act \in {"save", "lose", "crash"} : scene[2][act] = 0

Untouched ==
  /\ \A p, q \in team : p = q
  /\ \A act \in {"save", "lose", "crash"} : left[act] = 0
OwnJobs ==
  \A p \in Process :
    /\ job[p].step \in {"idle", "recover"} \cup Holding
    /\ job[p].step # "idle" => p \in team
    /\ job[p].step = "sidecar" => md = job[p].render
InSync ==
  (\A p \in Process : job[p].step # "sidecar") => sc # None /\ sc.hash = md

AloneInv == Untouched /\ OwnJobs /\ InSync

LEMMA UntouchedStays ==
  ASSUME IInv, [Next]_vars, Untouched
  PROVE  Untouched'
<1>1. team' = team
  BY DEF Next, Environment, Works, Save, Saved, Peer, Lose, Crash, Commit,
         CommitFails, Reload, Reconcile, ReadMd, ReadSidecar, ApplyStructure,
         ApplyText, WriteRows, Recovery, Recover, RecoverBlock, RecoverEnds,
         ProjectGuarded, ProjectStale, Projection, Reread, WriteMd,
         WriteSidecar,
         files, vars
<1>2. left' = left \/ \E act \in Acts : Spend(act)
  BY DEF Next, Environment, Works, Save, Saved, Peer, Lose, Crash, Commit,
         CommitFails, Reload, Reconcile, ReadMd, ReadSidecar, ApplyStructure,
         ApplyText, WriteRows, Recovery, Recover, RecoverBlock, RecoverEnds,
         ProjectGuarded, ProjectStale, Projection, Reread, WriteMd,
         WriteSidecar,
         AppendFails, rest, vars, Acts
<1>3. left \in [Acts -> Nat]
  BY DEF IInv, Scalars
<1>4. \A act \in Acts : left[act] = 0 => left'[act] = 0
  BY <1>2, <1>3 DEF Spend
<1> QED BY <1>1, <1>4 DEF Untouched, Acts

(***************************************************************************)
(* A free process that is alone finds the file its sidecar is of.          *)
(***************************************************************************)
LEMMA NothingToRead ==
  ASSUME AloneInv, NEW p \in Process, Free(p)
  PROVE  ~Orphan
<1>1. \A q \in Process : job[q].step # "sidecar"
  BY DEF AloneInv, Untouched, OwnJobs, Free
<1> QED BY <1>1 DEF AloneInv, InSync, Orphan

\* A step that leaves the files alone and starts no reconcile.
LEMMA StaysInSync ==
  ASSUME IInv, AloneInv, UNCHANGED <<md, sc, team>>, NEW p \in Process, NEW j,
         Goto(p, j), job[p].step \in {"idle", "recover", "write"},
         j.step \in {"idle", "recover", "write", "replace"},
         j.step # "idle" => p \in team
  PROVE  OwnJobs' /\ InSync'
<1>1. \A q \in Process : job'[q] = IF q = p THEN j ELSE job[q]
  BY DEF IInv, Jobs, Goto
<1> QED BY <1>1 DEF AloneInv, OwnJobs, InSync, Holding

LEMMA AloneStep ==
  ASSUME \A r, h : [rows |-> r, hash |-> h] # None,
         IInv, AloneInv, [Next]_vars
  PROVE  AloneInv'
<1>1. Untouched'
  BY UntouchedStays DEF AloneInv
<1>2. ~(Save \/ Lose) /\ \A p \in Process : ~Crash(p)
  <2>1. ~Spend("save") /\ ~Spend("lose") /\ ~Spend("crash")
    BY DEF AloneInv, Untouched, Spend
  <2> QED BY <2>1 DEF Save, Saved, Lose, Crash
<1>3. CASE UNCHANGED <<md, sc, job, team>>
  BY <1>1, <1>3 DEF AloneInv, OwnJobs, InSync
<1>4. CASE Peer \/ \E p \in Client : Commit(p) \/ CommitFails(p)
  BY <1>3, <1>4, <1>1 DEF Peer, Commit, CommitFails, files
<1>5. ASSUME NEW p \in Process, Reload(p) PROVE AloneInv'
  BY <1>3, <1>5 DEF Reload, files
<1>6. ASSUME NEW p \in Process, Reconcile(p) PROVE AloneInv'
  <2>1. ~ReadMd(p)
    BY NothingToRead DEF ReadMd
  <2>2. job[p].step \in {"idle", "recover"} \cup Holding
    BY DEF AloneInv, OwnJobs
  <2> QED BY <1>6, <2>1, <2>2
          DEF Reconcile, ReadSidecar, ApplyStructure, ApplyText, WriteRows, Holding
<1>7. ASSUME NEW p \in Process, Recover(p) PROVE AloneInv'
  <2>1. /\ Goto(p, [step |-> "recover", rows |-> sc.rows, ahead |-> Ahead(p),
                    keep |-> Diverged(p)])
        /\ UNCHANGED <<md, sc, team>> /\ job[p].step = "idle" /\ p \in team
    BY <1>7 DEF Recover, Free, files
  <2> QED BY <1>1, <2>1, StaysInSync DEF AloneInv
<1>8. ASSUME NEW p \in Process, RecoverBlock(p) PROVE AloneInv'
  <2>1. job[p].step = "recover" /\ Recovering(job[p], blocks, texts) /\ p \in team
    BY <1>8, JobIs DEF RecoverBlock, AloneInv, OwnJobs
  <2>2. \A A : [job[p] EXCEPT !.ahead = A].step = "recover"
    BY <2>1 DEF Recovering
  <2>3. \/ Goto(p, Idle)
        \/ \E A : Goto(p, [job[p] EXCEPT !.ahead = A])
    <3>1. PICK n \in job[p].ahead :
            \/ Goto(p, [job[p] EXCEPT !.ahead =
                          IF Recovered(n, p) THEN @ \ {n} ELSE @])
            \/ Goto(p, Idle)
      BY <1>8 DEF RecoverBlock
    <3>2. CASE Goto(p, [job[p] EXCEPT !.ahead =
                         IF Recovered(n, p) THEN @ \ {n} ELSE @])
      <4> DEFINE A == IF Recovered(n, p) THEN job[p].ahead \ {n} ELSE job[p].ahead
      <4>1. Goto(p, [job[p] EXCEPT !.ahead = A])
        BY <3>2
      <4> QED BY <4>1
    <3> QED BY <3>1, <3>2
  <2>4. UNCHANGED <<md, sc, team>>
    BY <1>8 DEF RecoverBlock, files
  <2>5. CASE Goto(p, Idle)
    BY <1>1, <2>1, <2>4, <2>5, StaysInSync DEF AloneInv, Idle
  <2>6. ASSUME NEW A, Goto(p, [job[p] EXCEPT !.ahead = A]) PROVE AloneInv'
    BY <1>1, <2>1, <2>2, <2>4, <2>6, StaysInSync DEF AloneInv
  <2> QED BY <2>3, <2>5, <2>6
<1>9. ASSUME NEW p \in Process, ProjectGuarded(p) \/ ProjectStale(p)
      PROVE  AloneInv'
  <2>1. /\ \E j : Goto(p, j) /\ j.step \in {"idle", "write"}
        /\ UNCHANGED <<md, sc, team>> /\ job[p].step = "idle" /\ p \in team
    BY <1>9 DEF ProjectGuarded, ProjectStale, Authorise, Refuse, Idle, Free, files
  <2> QED BY <1>1, <2>1, StaysInSync DEF AloneInv
<1>10. ASSUME NEW p \in Process, NEW j, Goto(p, j), p \in team, j.step = "sidecar",
              md' = j.render, team' = team
       PROVE  AloneInv'
  <2>1. \A q \in Process : job'[q] = IF q = p THEN j ELSE job[q]
    BY <1>10 DEF IInv, Jobs, Goto
  <2>2. \A q \in Process : q # p => job[q].step = "idle"
    BY <1>10 DEF AloneInv, Untouched, OwnJobs
  <2> QED BY <1>1, <1>10, <2>1, <2>2 DEF AloneInv, OwnJobs, InSync, Holding
<1>11. ASSUME NEW p \in Process, RecoverEnds(p) PROVE AloneInv'
  <2>1. job[p].step = "recover" /\ p \in team /\ UNCHANGED <<sc, team>>
    BY <1>11 DEF RecoverEnds, AloneInv, OwnJobs
  <2>2. CASE Goto(p, Idle) /\ UNCHANGED md
    BY <1>1, <2>1, <2>2, StaysInSync DEF AloneInv, Idle
  <2>3. CASE /\ md' = Render(mem[p])
             /\ Goto(p, [step |-> "sidecar", render |-> Render(mem[p]), over |-> md])
    BY <1>10, <2>1, <2>3
  <2> QED BY <1>11, <2>2, <2>3 DEF RecoverEnds
<1>12. ASSUME NEW p \in Process, WriteMd(p) PROVE AloneInv'
  <2> DEFINE j == [job[p] EXCEPT !.step = "sidecar"]
  <2>1. /\ job[p].step = "replace" /\ p \in team /\ UNCHANGED <<sc, team>>
        /\ Writing(job[p], texts, Earned)
    BY <1>12, JobIs DEF WriteMd, AloneInv, OwnJobs
  <2>2. j.step = "sidecar" /\ j.render = job[p].render
    BY <2>1 DEF Writing
  <2>3. md' = job[p].render /\ Goto(p, j)
    BY <1>12 DEF WriteMd
  <2> HIDE DEF j
  <2> QED BY <1>10, <2>1, <2>2, <2>3
<1>15. ASSUME NEW p \in Process, Reread(p) PROVE AloneInv'
  <2>1. /\ job[p].step = "write" /\ p \in team /\ UNCHANGED <<md, sc, team>>
        /\ Writing(job[p], texts, Earned)
    BY <1>15, JobIs DEF Reread, AloneInv, OwnJobs, files
  <2>2. [job[p] EXCEPT !.step = "replace"].step = "replace"
    BY <2>1 DEF Writing
  <2>3. Goto(p, Idle) \/ Goto(p, [job[p] EXCEPT !.step = "replace"])
    BY <1>15 DEF Reread, Refuse
  <2>4. CASE Goto(p, Idle)
    BY <1>1, <2>1, <2>4, StaysInSync DEF AloneInv, Idle
  <2>5. CASE Goto(p, [job[p] EXCEPT !.step = "replace"])
    BY <1>1, <2>1, <2>2, <2>5, StaysInSync DEF AloneInv
  <2> QED BY <2>3, <2>4, <2>5
<1>13. ASSUME NEW p \in Process, WriteSidecar(p) PROVE AloneInv'
  <2>1. /\ sc' = [rows |-> RowsOf(mem[p]), hash |-> job[p].render]
        /\ Goto(p, Idle) /\ UNCHANGED <<md, team>> /\ md = job[p].render
        /\ p \in team
    BY <1>13 DEF WriteSidecar, AloneInv, OwnJobs
  <2>2. \A q \in Process : job'[q].step = "idle"
    BY <2>1 DEF IInv, Jobs, Goto, Idle, AloneInv, Untouched, OwnJobs
  <2>3. sc' # None /\ sc'.hash = md'
    BY <2>1
  <2> QED BY <1>1, <2>2, <2>3 DEF AloneInv, OwnJobs, InSync
<1>14. CASE UNCHANGED vars
  BY <1>3, <1>14, <1>1 DEF vars
<1> QED BY <1>2, <1>4, <1>5, <1>6, <1>7, <1>8, <1>9, <1>11, <1>12, <1>13, <1>14,
       <1>15 DEF Next, Environment, Works, Recovery, Projection

(***************************************************************************)
(* What apply.rs:63 promises holds of a process that is alone with its     *)
(* page: it never appends anything in a reconcile, since it never finds a  *)
(* file that its sidecar is not of.  A second process takes that away, as  *)
(* the run projection_phantoms shows.  That None is no sidecar is assumed. *)
(***************************************************************************)
THEOREM AloneReconcileIsNoOp ==
  ASSUME Undisturbed, \A r, h : [rows |-> r, hash |-> h] # None
  PROVE  Spec => ReconcileIsNoOp
<1>1. Init => AloneInv
  <2> SUFFICES ASSUME Init PROVE AloneInv
    OBVIOUS
  <2>1. \A p \in Process : job[p].step = "idle"
    BY DEF Init, Idle
  <2>2. Untouched
    BY DEF Init, Undisturbed, Untouched
  <2>3. sc # None /\ sc.hash = md
    BY DEF Init
  <2> QED BY <2>1, <2>2, <2>3 DEF AloneInv, OwnJobs, InSync
<1>2. IInv /\ AloneInv /\ [Next]_vars => AloneInv'
  BY AloneStep
<1>3. AloneInv => \A p \in Process : job[p].step \notin {"diff", "text"}
  BY DEF AloneInv, OwnJobs, Holding
<1>4. AloneInv =>
        [\A p \in Process : job[p].step \in {"diff", "text"} => log' = log]_vars
  BY <1>3
<1> QED BY <1>1, <1>2, <1>4, Invariance, PTL DEF Spec, ReconcileIsNoOp

=============================================================================

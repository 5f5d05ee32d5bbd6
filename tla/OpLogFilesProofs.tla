-------------------------- MODULE OpLogFilesProofs --------------------------
(***************************************************************************)
(* Theorems about OpLogFiles, for any actors, processes, operations and    *)
(* faults: the types, the locks and the log that is left first, then the   *)
(* offset indexes.                                                         *)
(***************************************************************************)
EXTENDS OpLogFiles, TreeStateProofs, FiniteSetTheorems

Line == Ts \cup {Torn}
Index == UNION {[D -> Nat \ {0}] : D \in SUBSET Ts}

Slot == [at : {"down", "reading", "saving", "saving nodes", "up"},
         todo : SUBSET Actor, actor : Actor,
         offsets : [Actor -> Index], nodes : [Actor -> Index],
         seen : [Actor -> SUBSET Ts]]

Batch == [todo : Seq(Ts), entries : Seq(Ts),
          part : {"offset", "node"}, from : Nat]

Compaction == [at : {"idle", "planned", "checked", "renamed", "half"},
               drops : SUBSET Ts, sizes : [Actor -> Nat]]

Shapes ==
  /\ file \in [Actor -> Seq(Line)] /\ loose \in [Actor -> BOOLEAN]
  /\ offsets \in [Actor -> Index \cup {None}]
  /\ nodes \in [Actor -> Index \cup {None}]
  /\ store \in [Storage -> Slot]
  /\ \A p \in Storage : store[p].at = "reading" => store[p].todo # {}
  /\ batch \in Batch /\ compact \in Compaction

History == OnDisk \cup dropped

\* The file of an actor holds operations of that actor, which were issued.
Own == \A a \in Actor : \A t \in Whole(file[a]) :
         Author[t] = a /\ issued[t] # None

(***************************************************************************)
(* The lock of Me is held by a process that runs, an append is one of a    *)
(* process that is up, and what outl compact does with the lock of the     *)
(* workspace in its hands, it does alone.                                  *)
(***************************************************************************)
Locked ==
  /\ writer # None => store[writer].at # "down"
  /\ batch # NoBatch => writer # None /\ store[writer].at = "up"
  /\ Exclusive => Alone
  /\ compact.at = "checked" => ~ Damaged

\* What the append has still to write is newer than all that was dropped,
\* and what it has written is there.
Waiting ==
  /\ \A i \in 1..Len(batch.todo) :
       /\ Author[batch.todo[i]] = Me /\ issued[batch.todo[i]] # None
       /\ \A t \in dropped : t < batch.todo[i]
  /\ \A i \in 1..Len(batch.entries) : batch.entries[i] \in History

\* The plan of a compaction, as long as no file has grown since.
Fits ==
  \A t \in compact.drops :
    /\ t \in Whole(file[Me]) /\ t <= settled
    /\ NoEffect(EmptyTree, issued, OnDisk, t)

Planned ==
  /\ compact.at = "planned" =>
       /\ \A a \in Actor : compact.sizes[a] <= Len(file[a])
       /\ compact.sizes = Sizes => Fits
  /\ compact.at = "checked" => Fits

\* What was dropped changes nothing in the history it was taken from, and
\* whatever is still to come to the disk is newer.
Gone ==
  /\ \A t \in dropped :
       /\ t \in Ts /\ Author[t] = Me /\ issued[t] # None /\ t <= settled
       /\ NoEffect(EmptyTree, issued, History, t)
  /\ \A t \in Issued : Author[t] # Me /\ t <= settled => t \in OnDisk

IInv ==
  /\ TypeOK /\ Shapes /\ Own /\ Locked /\ Waiting /\ Planned /\ Gone
  /\ NothingDurableLost

----------------------------------------------------------------------------
\* Constants, lines and indexes.

LEMMA Timestamps ==
  /\ Ts \subseteq Nat \ {0} /\ Torn \notin Ts /\ Line \subseteq Nat
  /\ IsFiniteSet(Ts) /\ Me \in Actor
  /\ \A t \in Ts : Author[t] \in Actor
BY FilesConstants DEF Actor, Torn, Line

\* A function to the naturals whose domain is finite is bounded.
LEMMA FiniteIsBounded ==
  ASSUME NEW D, IsFiniteSet(D), NEW f, \A t \in D : f[t] \in Nat
  PROVE  \E m \in Nat : \A t \in D : f[t] <= m
<1> DEFINE R == StrictSubsetOrdering(D)
           Bad == {B \in SUBSET D : ~ \E m \in Nat : \A t \in B : f[t] <= m}
<1>1. IsWellFoundedOn(R, SUBSET D)
  BY FS_StrictSubsetOrderingWellFounded, FS_FiniteSubsetsOfFinite
<1>2. \A A, B \in SUBSET D : A \subseteq B /\ A # B => <<A, B>> \in R
  BY DEF StrictSubsetOrdering
<1> SUFFICES ASSUME Bad # {} PROVE FALSE
  OBVIOUS
<1>3. Bad \subseteq SUBSET D
  OBVIOUS
<1> HIDE DEF R, Bad
<1>4. PICK B \in Bad : \A A \in Bad : <<A, B>> \notin R
  BY <1>1, <1>3, WFMin, Zenon
<1>5. B \in SUBSET D /\ ~ \E m \in Nat : \A t \in B : f[t] <= m
  BY <1>4 DEF Bad
<1>6. B # {}
  BY <1>5
<1>7. PICK x \in B : TRUE
  BY <1>6
<1> DEFINE A == B \ {x}
<1>8. A \in SUBSET D /\ <<A, B>> \in R
  BY <1>2, <1>5, <1>7
<1>9. A \notin Bad
  BY <1>4, <1>8
<1>10. PICK m \in Nat : \A t \in A : f[t] <= m
  BY <1>8, <1>9 DEF Bad
<1>11. f[x] \in Nat
  BY <1>5, <1>7
<1>12. m + f[x] \in Nat /\ \A t \in B : f[t] <= m + f[x]
  <2>1. \A t \in B : t = x \/ t \in A
    OBVIOUS
  <2>2. \A t \in B : f[t] \in Nat
    BY <1>5
  <2> HIDE DEF A
  <2> QED BY <1>10, <1>11, <2>1, <2>2
<1> QED BY <1>5, <1>12

LEMMA TsBounded ==
  \E m \in Nat : \A t \in Ts : t <= m
<1> DEFINE f == [t \in Ts |-> t]
<1>1. \A t \in Ts : f[t] = t /\ f[t] \in Nat
  BY Timestamps
<1> HIDE DEF f
<1>2. PICK m \in Nat : \A t \in Ts : f[t] <= m
  BY <1>1, Timestamps, FiniteIsBounded
<1> QED BY <1>1, <1>2

LEMMA IndexIs ==
  ASSUME NEW ix \in Index
  PROVE  /\ DOMAIN ix \in SUBSET Ts /\ \A t \in DOMAIN ix : ix[t] \in Nat \ {0}
         /\ IsIndex(ix)
<1>1. PICK D \in SUBSET Ts : ix \in [D -> Nat \ {0}]
  BY DEF Index
<1> QED BY <1>1 DEF IsIndex

LEMMA AnIndex ==
  ASSUME NEW D \in SUBSET Ts, NEW ix \in [D -> Nat \ {0}]
  PROVE  ix \in Index
BY DEF Index

LEMMA TipIs ==
  ASSUME NEW ix \in Index
  PROVE  Tip(ix) \in Nat
<1> DEFINE S == {ix[t] : t \in DOMAIN ix}
<1>1. DOMAIN ix \in SUBSET Ts /\ \A t \in DOMAIN ix : ix[t] \in Nat
  BY IndexIs
<1>2. IsFiniteSet(DOMAIN ix)
  BY <1>1, Timestamps, FS_Subset
<1>3. PICK m \in Nat : \A t \in DOMAIN ix : ix[t] <= m
  BY <1>1, <1>2, FiniteIsBounded
<1>4. S \in SUBSET Nat /\ \A n \in S : n <= m
  BY <1>1, <1>3
<1> HIDE DEF S
<1>5. Highest(S) \in 0..m
  BY <1>4, HighestIs
<1> QED BY <1>3, <1>5 DEF Tip, S

LEMMA NothingIsIndex ==
  Nothing \in Index
<1>1. Nothing \in [{} -> Nat \ {0}]
  BY DEF Nothing
<1> QED BY <1>1, AnIndex

LEMMA MergeIs ==
  ASSUME NEW f \in Index, NEW g \in Index
  PROVE  Merge(f, g) \in Index
<1>1. /\ DOMAIN f \in SUBSET Ts /\ \A t \in DOMAIN f : f[t] \in Nat \ {0}
      /\ DOMAIN g \in SUBSET Ts /\ \A t \in DOMAIN g : g[t] \in Nat \ {0}
  BY IndexIs
<1>2. Merge(f, g) \in [DOMAIN f \cup DOMAIN g -> Nat \ {0}]
  BY <1>1 DEF Merge
<1>3. DOMAIN f \cup DOMAIN g \in SUBSET Ts
  BY <1>1
<1> QED BY <1>2, <1>3, AnIndex

LEMMA ScanIs ==
  ASSUME NEW lines \in Seq(Line), NEW n \in Nat \ {0}
  PROVE  Scan(lines, n) \in Index
<1> DEFINE I == {j \in n..Len(lines) : lines[j] # Torn}
           D == {lines[i] : i \in I}
<1>1. D \in SUBSET Ts
  BY DEF Line
<1>2. ASSUME NEW t \in D
      PROVE  (CHOOSE i \in n..Len(lines) : lines[i] = t) \in Nat \ {0}
  <2>1. \E i \in n..Len(lines) : lines[i] = t
    OBVIOUS
  <2>2. (CHOOSE i \in n..Len(lines) : lines[i] = t) \in n..Len(lines)
    BY <2>1
  <2> QED BY <2>2
<1>3. Scan(lines, n) = [t \in D |-> CHOOSE i \in n..Len(lines) : lines[i] = t]
  BY DEF Scan
<1> HIDE DEF D
<1>4. Scan(lines, n) \in [D -> Nat \ {0}]
  BY <1>2, <1>3
<1> QED BY <1>1, <1>4, AnIndex

LEMMA EnteredIs ==
  ASSUME NEW ix \in Index \cup {None}, NEW t \in Ts, NEW n \in Nat \ {0}
  PROVE  Entered(ix, t, n) \in Index
<1> DEFINE f == IF ix = None THEN Nothing ELSE ix
           g == [u \in {t} |-> n]
<1>1. f \in Index
  BY NothingIsIndex
<1>2. g \in [{t} -> Nat \ {0}] /\ {t} \in SUBSET Ts
  OBVIOUS
<1> HIDE DEF f, g
<1>3. g \in Index
  BY <1>2, AnIndex
<1> QED BY <1>1, <1>3, MergeIs DEF Entered, f, g

LEMMA PutIs ==
  ASSUME NEW lines \in Seq(Line), NEW x \in Line
  PROVE  LET p == Append(lines, x)
         IN  /\ p \in Seq(Line) /\ Len(p) = Len(lines) + 1
             /\ Len(lines) \in Nat /\ p # <<>> /\ p[Len(p)] = x
             /\ Whole(p) = Whole(lines) \cup ({x} \ {Torn})
<1> DEFINE p == Append(lines, x)
<1>1. /\ p \in Seq(Line) /\ Len(p) = Len(lines) + 1 /\ Len(lines) \in Nat
      /\ p[Len(lines) + 1] = x /\ \A i \in 1..Len(lines) : p[i] = lines[i]
  OBVIOUS
<1>2. p # <<>>
  BY <1>1
<1> HIDE DEF p
<1>3. {p[i] : i \in 1..Len(p)} = {lines[i] : i \in 1..Len(lines)} \cup {x}
  <2>1. \A i \in 1..Len(p) : i \in 1..Len(lines) \/ i = Len(lines) + 1
    BY <1>1
  <2>2. Len(lines) + 1 \in 1..Len(p) /\ \A i \in 1..Len(lines) : i \in 1..Len(p)
    BY <1>1
  <2> QED BY <1>1, <2>1, <2>2
<1>4. Whole(p) = Whole(lines) \cup ({x} \ {Torn})
  BY <1>3 DEF Whole
<1> QED BY <1>1, <1>2, <1>4 DEF p

(***************************************************************************)
(* What is kept of a file are its lines but for the dropped ones, in their *)
(* order.  The rank of a line that stays is a bijection to the places of   *)
(* the new file: no line moves to the right, and before one that has not   *)
(* moved none has.                                                         *)
(***************************************************************************)
LEMMA OneTo ==
  ASSUME NEW n \in Nat
  PROVE  IsFiniteSet(1..n) /\ Cardinality(1..n) = n
<1>1. IsFiniteSet(1..n) /\ Cardinality(1..n) = IF 1 > n THEN 0 ELSE n - 1 + 1
  BY FS_Interval
<1> QED BY <1>1

Stays(lines, drops) == {i \in 1..Len(lines) : lines[i] \notin drops}

LEMMA KeptPlaces ==
  ASSUME NEW lines \in Seq(Line), NEW drops \in SUBSET Ts
  PROVE  LET stays == Stays(lines, drops)
             C == Cardinality(stays)
         IN  /\ C \in Nat /\ C <= Len(lines)
             /\ (\E t \in drops : t \in Whole(lines)) => C < Len(lines)
             /\ Kept(lines, drops) \in Seq(Line) /\ Len(Kept(lines, drops)) = C
             /\ \E at \in [1..C -> stays] :
                  /\ \A n \in 1..C : Kept(lines, drops)[n] = lines[at[n]]
                  /\ \A i \in stays : \E n \in 1..C : at[n] = i
                  /\ \A n, m \in 1..C : n < m => at[n] < at[m]
                  /\ \A n \in 1..C :
                       /\ n <= at[n]
                       /\ at[n] = n => \A k \in 1..n : at[k] = k
<1> DEFINE N == Len(lines)
           stays == Stays(lines, drops)
           Upto(i) == {j \in stays : j <= i}
           C == Cardinality(stays)
           r == [i \in stays |-> Cardinality(Upto(i))]
           at(n) == CHOOSE i \in stays : Cardinality(Upto(i)) = n
           k == [n \in 1..C |-> lines[at(n)]]
<1>1. N \in Nat /\ \A i \in 1..N : lines[i] \in Line
  OBVIOUS
<1>2. /\ IsFiniteSet(stays) /\ stays \subseteq 1..N /\ C \in Nat /\ C <= N
      /\ stays # 1..N => C < N
  <2>1. IsFiniteSet(1..N) /\ Cardinality(1..N) = N
    BY <1>1, OneTo
  <2>2. stays \in SUBSET (1..N)
    BY DEF Stays
  <2> HIDE DEF stays, N
  <2>3. IsFiniteSet(stays) /\ C <= N /\ (N = C => 1..N = stays)
    BY <2>1, <2>2, FS_Subset
  <2>4. C \in Nat
    BY <2>3, FS_CardinalityType
  <2> QED BY <1>1, <2>2, <2>3, <2>4
<1>3. ASSUME NEW i \in stays
      PROVE  Cardinality(Upto(i)) \in 1..C /\ IsFiniteSet(Upto(i))
  <2>1. Upto(i) \in SUBSET stays /\ i \in Upto(i)
    BY <1>2
  <2> HIDE DEF Upto, stays
  <2>2. IsFiniteSet(Upto(i)) /\ Cardinality(Upto(i)) <= C
    BY <1>2, <2>1, FS_Subset
  <2>3. Cardinality(Upto(i)) \in Nat /\ Cardinality(Upto(i)) # 0
    BY <2>1, <2>2, FS_CardinalityType, FS_EmptySet
  <2> QED BY <1>2, <2>2, <2>3
<1>4. ASSUME NEW i \in stays, NEW j \in stays, i < j
      PROVE  Cardinality(Upto(i)) < Cardinality(Upto(j))
  <2>1. Upto(i) \in SUBSET Upto(j) /\ j \in Upto(j) /\ j \notin Upto(i)
    BY <1>2, <1>4
  <2> HIDE DEF Upto, stays
  <2> QED BY <1>3, <2>1, FS_Subset
<1>5. r \in [stays -> 1..C] /\ \A i \in stays : r[i] = Cardinality(Upto(i))
  <2> HIDE DEF Upto, stays, C
  <2> QED BY <1>3
<1>6. r \in Injection(stays, 1..C)
  <2>1. ASSUME NEW i \in stays, NEW j \in stays, i # j PROVE r[i] # r[j]
    <3>1. i \in Nat /\ j \in Nat
      BY <1>2
    <3> HIDE DEF r, Upto, stays
    <3> QED BY <3>1, <2>1, <1>4, <1>5
  <2> HIDE DEF r, stays, C
  <2> QED BY <1>5, <2>1 DEF Injection, IsInjective
<1>7. r \in Surjection(stays, 1..C)
  <2>1. IsFiniteSet(1..C) /\ Cardinality(1..C) = C
    BY <1>2, FS_Interval
  <2> HIDE DEF r, stays
  <2> QED BY <1>6, <2>1, FS_Injection
<1>8. ASSUME NEW n \in 1..C
      PROVE  at(n) \in stays /\ r[at(n)] = n
  <2>1. \E i \in stays : r[i] = n
    BY <1>7 DEF Surjection
  <2>2. \E i \in stays : Cardinality(Upto(i)) = n
    BY <1>5, <2>1
  <2>3. at(n) \in stays /\ Cardinality(Upto(at(n))) = n
    <3> HIDE DEF stays, Upto
    <3> QED BY <2>2
  <2> HIDE DEF r, stays, at, Upto
  <2> QED BY <2>3, <1>5
<1>9. ASSUME NEW i \in stays PROVE r[i] \in 1..C /\ at(r[i]) = i
  <2>1. r[i] \in 1..C
    BY <1>5
  <2> HIDE DEF r, stays, at, C
  <2>2. at(r[i]) \in stays /\ r[at(r[i])] = r[i]
    BY <1>8, <2>1
  <2> QED BY <2>1, <2>2, <1>6 DEF Injection, IsInjective
<1>10. Kept(lines, drops) = k
  BY DEF Kept, Stays
<1>11. \A n \in 1..C : k[n] = lines[at(n)]
  OBVIOUS
<1>12. k \in Seq(Line) /\ Len(k) = C
  <2>1. \A n \in 1..C : lines[at(n)] \in Line
    <3> HIDE DEF at
    <3> QED BY <1>1, <1>2, <1>8
  <2> HIDE DEF at, C, stays
  <2>2. k \in [1..C -> Line]
    BY <2>1
  <2> HIDE DEF k
  <2> QED BY <1>2, <2>2
<1>13. \A i \in stays : i \in 1..N /\ i \in Nat
  BY <1>2
<1>14. ASSUME NEW n \in 1..C, NEW m \in 1..C, n < m
       PROVE  at(n) < at(m)
  <2>1. /\ at(n) \in stays /\ r[at(n)] = n /\ at(m) \in stays /\ r[at(m)] = m
    BY <1>8
  <2> HIDE DEF at, r, C, stays, Upto
  <2>2. at(m) < at(n) => r[at(m)] < r[at(n)]
    BY <2>1, <1>4, <1>5
  <2>3. at(m) # at(n)
    BY <2>1, <1>14
  <2> QED BY <2>1, <2>2, <2>3, <1>13, <1>14
<1>15. ASSUME NEW n \in 1..C
       PROVE  n <= at(n) /\ (at(n) = n => \A m \in 1..n : at(m) = m)
  <2> DEFINE i == at(n)
  <2>1. i \in stays /\ r[i] = n /\ i \in 1..N
    BY <1>8, <1>13
  <2>2. Cardinality(Upto(i)) = n
    BY <2>1, <1>5
  <2>3. Upto(i) \in SUBSET (1..i)
    BY <2>1, <1>13
  <2>4. i \in Nat
    BY <2>1
  <2> HIDE DEF i, Upto
  <2>7. IsFiniteSet(1..i) /\ Cardinality(1..i) = i
    BY <2>4, OneTo
  <2>5. Cardinality(Upto(i)) <= i /\ (Cardinality(1..i) = Cardinality(Upto(i)) => 1..i = Upto(i))
    BY <2>3, <2>7, FS_Subset
  <2>6. ASSUME i = n, NEW m \in 1..n
        PROVE  at(m) = m
    <3>1. 1..n = Upto(n)
      BY <2>2, <2>7, <2>5, <2>6
    <3>2. 1..n \subseteq stays /\ m \in stays
      BY <3>1 DEF Upto
    <3>3. Upto(m) = 1..m
      <4>1. m \in Nat /\ n \in Nat /\ \A j \in 1..m : j \in 1..n
        BY <2>6, <2>4
      <4>2. \A j \in stays : j <= m => j \in 1..m
        BY <1>13, <4>1
      <4>3. \A j \in 1..m : j <= m /\ j \in stays
        BY <3>2, <4>1
      <4> HIDE DEF stays
      <4> QED BY <4>2, <4>3 DEF Upto
    <3>4. r[m] = m
      <4>1. Cardinality(1..m) = m
        BY <2>4, <2>6, OneTo
      <4> HIDE DEF r, stays
      <4> QED BY <4>1, <1>5, <3>2, <3>3
    <3> HIDE DEF r, at, stays, C
    <3> QED BY <1>9, <3>2, <3>4
  <2> QED BY <2>2, <2>4, <2>5, <2>6 DEF i
<1>16. (\E t \in drops : t \in Whole(lines)) => C < N
  <2>1. ASSUME NEW t \in drops, t \in Whole(lines) PROVE stays # 1..N
    BY <2>1 DEF Whole, Stays
  <2> HIDE DEF stays, C
  <2> QED BY <1>2, <2>1
<1> DEFINE f == [n \in 1..C |-> at(n)]
<1>17. f \in [1..C -> stays] /\ \A n \in 1..C : f[n] = at(n)
  <2> HIDE DEF at, stays, C
  <2> QED BY <1>8
<1>18. /\ \A n \in 1..C : Kept(lines, drops)[n] = lines[f[n]]
       /\ \A n, m \in 1..C : n < m => f[n] < f[m]
       /\ \A n \in 1..C : n <= f[n] /\ (f[n] = n => \A m \in 1..n : f[m] = m)
  <2>1. \A n \in 1..C : \A m \in 1..n : m \in 1..C
    BY <1>2
  <2> HIDE DEF f, at, C, stays, k
  <2> QED BY <2>1, <1>10, <1>11, <1>14, <1>15, <1>17
<1>19. \A i \in stays : \E n \in 1..C : f[n] = i
  <2> HIDE DEF f, at, C, stays, r
  <2> QED BY <1>9, <1>17
<1>20. /\ C \in Nat /\ C <= N /\ ((\E t \in drops : t \in Whole(lines)) => C < N)
       /\ Kept(lines, drops) \in Seq(Line) /\ Len(Kept(lines, drops)) = C
  <2> HIDE DEF f, at, r, k, stays, C
  <2> QED BY <1>2, <1>10, <1>12, <1>16
<1>21. \E g \in [1..C -> stays] :
         /\ \A n \in 1..C : Kept(lines, drops)[n] = lines[g[n]]
         /\ \A i \in stays : \E n \in 1..C : g[n] = i
         /\ \A n, m \in 1..C : n < m => g[n] < g[m]
         /\ \A n \in 1..C : n <= g[n] /\ (g[n] = n => \A m \in 1..n : g[m] = m)
  <2>1. f \in [1..C -> stays]
    BY <1>17
  <2> HIDE DEF f, at, r, k, stays, C
  <2> WITNESS f \in [1..C -> stays]
  <2> QED BY <1>18, <1>19
<1> HIDE DEF f, at, r, k
<1> QED BY <1>20, <1>21

LEMMA KeptIs ==
  ASSUME NEW lines \in Seq(Line), NEW drops \in SUBSET Ts
  PROVE  /\ Kept(lines, drops) \in Seq(Line)
         /\ Whole(Kept(lines, drops)) = Whole(lines) \ drops
<1> DEFINE C == Cardinality(Stays(lines, drops))
           k == Kept(lines, drops)
<1>1. k \in Seq(Line) /\ Len(k) = C
  BY KeptPlaces
<1>2. PICK at \in [1..C -> Stays(lines, drops)] :
        /\ \A n \in 1..C : k[n] = lines[at[n]]
        /\ \A i \in Stays(lines, drops) : \E n \in 1..C : at[n] = i
  BY KeptPlaces
<1> HIDE DEF k, C
<1>3. ASSUME NEW t \in Whole(k) PROVE t \in Whole(lines) \ drops
  <2>1. PICK n \in 1..C : t = k[n]
    BY <1>1 DEF Whole
  <2>2. /\ at[n] \in 1..Len(lines) /\ lines[at[n]] \notin drops
        /\ t = lines[at[n]]
    BY <1>2, <2>1 DEF Stays
  <2> QED BY <1>3, <2>2 DEF Whole
<1>4. ASSUME NEW t \in Whole(lines) \ drops PROVE t \in Whole(k)
  <2>1. PICK i \in 1..Len(lines) : t = lines[i]
    BY DEF Whole
  <2>2. i \in Stays(lines, drops)
    BY <2>1 DEF Stays
  <2>3. PICK n \in 1..C : at[n] = i
    BY <1>2, <2>2
  <2>4. t = k[n] /\ t # Torn
    BY <1>2, <2>1, <2>3 DEF Whole
  <2> QED BY <1>1, <2>4 DEF Whole
<1> QED BY <1>1, <1>3, <1>4 DEF k

----------------------------------------------------------------------------
\* What replays of the history read.

LEMMA EmptyTreeType ==
  EmptyTree \in State
BY DEF EmptyTree, State

LEMMA NoEffectStays ==
  ASSUME NEW b, NEW ops, NEW ops2, NEW S, NEW T, NEW t,
         Below(S, t) = Below(T, t), ops2[t] = ops[t],
         \A u \in Below(S, t) : ops2[u] = ops[u],
         NoEffect(b, ops, S, t)
  PROVE  NoEffect(b, ops2, T, t)
<1>1. Replay(b, ops2, Below(T, t)) = Replay(b, ops, Below(S, t))
  BY ReplayReadsItsOwn
<1> QED BY <1>1 DEF NoEffect

\* The six conditions of a plan: what it drops changes nothing.
LEMMA DroppableHasNoEffect ==
  ASSUME \A u \in OnDisk : u \in Ts /\ issued[u] \in Op,
         NEW t \in OnDisk, NEW cutoff, Droppable(t, cutoff)
  PROVE  NoEffect(EmptyTree, issued, OnDisk, t)
<1> DEFINE op == issued[t]
           s == Tree(Before(t))
<1>1. /\ op \in Op /\ op.kind = "Move"
      /\ s.parent[op.node] = op.parent /\ s.pos[op.node] = op.pos
  BY DEF Droppable
<1>2. s \in State
  <2>1. PICK m \in Nat : \A u \in Ts : u <= m
    BY TsBounded
  <2>2. /\ Before(t) \in SUBSET Nat
        /\ \A u \in Before(t) : u <= m /\ issued[u] \in Op
    BY <2>1, Timestamps DEF Before
  <2> QED BY <2>1, <2>2, EmptyTreeType, ReplayType DEF Tree
<1>3. s = Replay(EmptyTree, issued, Below(OnDisk, t))
  BY DEF Tree, Before, Below
<1> HIDE DEF s, op
<1>4. op.node \in Node
  BY <1>1, OpKinds
<1>5. Place(s, op.node, op.parent, op.pos) = s
  <2>1. /\ [s.parent EXCEPT ![op.node] = op.parent] = s.parent
        /\ [s.pos EXCEPT ![op.node] = op.pos] = s.pos
    BY <1>1, <1>2, <1>4 DEF State
  <2>2. op.parent \in Parent /\ op.pos \in Pos
    BY <1>1, OpKinds
  <2> DEFINE p == Place(s, op.node, op.parent, op.pos)
  <2>3. /\ p \in State /\ p.parent = s.parent /\ p.pos = s.pos
        /\ p.reg = s.reg /\ p.made = s.made
    BY <1>2, <1>4, <2>1, <2>2, PlaceType
  <2> HIDE DEF p
  <2>4. p = s
    BY <1>2, <2>3 DEF State
  <2> QED BY <2>4 DEF p
<1>6. DoOp(s, t, op) = s
  BY <1>1, <1>5 DEF DoOp
<1> QED BY <1>3, <1>6 DEF NoEffect, op

LEMMA HistoryTyped ==
  ASSUME IInv
  PROVE  /\ OnDisk \subseteq History /\ dropped \subseteq History
         /\ \A t \in History : t \in Ts /\ issued[t] # None /\ issued[t] \in Op
         /\ \A t \in OnDisk : \E a \in Actor : t \in Whole(file[a]) /\ a = Author[t]
<1>1. ASSUME NEW a \in Actor, NEW t \in Whole(file[a])
      PROVE  t \in Ts /\ issued[t] # None /\ Author[t] = a
  <2>1. file[a] \in Seq(Line)
    BY DEF IInv, Shapes
  <2>2. t \in Ts
    BY <2>1 DEF Whole, Line
  <2> QED BY <2>2 DEF IInv, Own
<1>2. \A t \in OnDisk : \E a \in Actor : t \in Whole(file[a]) /\ a = Author[t]
  BY <1>1 DEF OnDisk
<1>3. \A t \in History : t \in Ts /\ issued[t] # None
  BY <1>1, <1>2 DEF IInv, Gone, History
<1>4. \A t \in Ts : issued[t] # None => issued[t] \in Op
  BY DEF IInv, TypeOK
<1> QED BY <1>2, <1>3, <1>4 DEF History

(***************************************************************************)
(* A log without what was dropped replays to the same tree, and so does    *)
(* every prefix of it.                                                     *)
(***************************************************************************)
LEMMA DiskIsHistory ==
  ASSUME IInv, NEW S \in SUBSET History,
         \A t \in S : Below(S, t) = Below(History, t)
  PROVE  Tree(S \cap OnDisk) = Tree(S)
<1>1. PICK m \in Nat : \A u \in Ts : u <= m
  BY TsBounded
<1> DEFINE D == S \ OnDisk
<1>2. S \in SUBSET Nat /\ \A t \in S : t <= m
  BY <1>1, HistoryTyped, Timestamps
<1>3. D \in SUBSET S /\ S \ D = S \cap OnDisk
  OBVIOUS
<1>4. ASSUME NEW t \in D PROVE NoEffect(EmptyTree, issued, S, t)
  <2>1. t \in dropped /\ t \in S
    BY DEF History
  <2>2. NoEffect(EmptyTree, issued, History, t)
    BY <2>1 DEF IInv, Gone
  <2>3. Below(S, t) = Below(History, t)
    BY <2>1
  <2> QED BY <2>2, <2>3, NoEffectStays
<1> HIDE DEF D
<1>5. Replay(EmptyTree, issued, S \ D) = Replay(EmptyTree, issued, S)
  <2>1. \A t \in D : NoEffect(EmptyTree, issued, S, t)
    BY <1>4
  <2>2. \A E \in SUBSET S : (\A t \in E : NoEffect(EmptyTree, issued, S, t))
          => Replay(EmptyTree, issued, S \ E) = Replay(EmptyTree, issued, S)
    BY <1>2, ReplayWithout
  <2> QED BY <1>3, <2>1, <2>2
<1> QED BY <1>3, <1>5 DEF Tree

\* A dropped operation of the plan changes nothing in the whole history.
LEMMA FitsHistory ==
  ASSUME IInv, NEW t \in OnDisk, NoEffect(EmptyTree, issued, OnDisk, t)
  PROVE  NoEffect(EmptyTree, issued, History, t)
<1> DEFINE S == Below(History, t)
<1>1. S \in SUBSET History /\ \A u \in S : Below(S, u) = Below(History, u)
  <2>1. \A u \in History : u \in Nat
    BY HistoryTyped, Timestamps
  <2>2. t \in Nat
    BY HistoryTyped, Timestamps
  <2> QED BY <2>1, <2>2 DEF Below
<1>2. S \cap OnDisk = Below(OnDisk, t)
  BY HistoryTyped DEF Below
<1> HIDE DEF S
<1>3. Tree(Below(OnDisk, t)) = Tree(S)
  BY <1>1, <1>2, DiskIsHistory
<1> QED BY <1>3 DEF NoEffect, Tree, S

----------------------------------------------------------------------------
\* What a step has to show.

Rest ==
  /\ issued \in [Ts -> Op \cup {None}]
  /\ \A a \in Actor :
       loose[a] => file[a] # <<>> /\ file[a][Len(file[a])] = Torn
  /\ writer \in Storage \cup {None}
  /\ settled \in Nat /\ faults \in 0..MaxFaults
  /\ durable \subseteq Ts /\ dropped \subseteq Ts /\ excuses \subseteq Excuse

LEMMA TypeParts ==
  Shapes /\ Locked /\ Rest => TypeOK
<1> SUFFICES ASSUME Shapes, Locked, Rest PROVE TypeOK
  OBVIOUS
<1>1. ASSUME NEW a \in Actor
      PROVE  /\ file[a] \in Seq(Ts \cup {Torn})
             /\ offsets[a] = None \/ IsIndex(offsets[a])
             /\ nodes[a] = None \/ IsIndex(nodes[a])
  BY IndexIs DEF Shapes, Line
<1>2. ASSUME NEW a \in Actor, NEW p \in Storage
      PROVE  /\ IsIndex(store[p].offsets[a]) /\ IsIndex(store[p].nodes[a])
             /\ store[p].seen[a] \subseteq Ts
  <2>1. store[p] \in Slot
    BY DEF Shapes
  <2>2. /\ store[p].offsets[a] \in Index /\ store[p].nodes[a] \in Index
        /\ store[p].seen[a] \in SUBSET Ts
    BY <2>1 DEF Slot
  <2> QED BY <2>2, IndexIs
<1>3. compact.at \in {"idle", "planned", "checked", "renamed", "half"}
  BY DEF Shapes, Compaction
<1> QED BY <1>1, <1>2, <1>3 DEF TypeOK, Rest, Locked

LEMMA StepKeeps ==
  ASSUME Shapes', Rest', Own', Locked', Waiting', Planned', Gone',
         NothingDurableLost'
  PROVE  IInv'
<1>1. (Shapes /\ Locked /\ Rest => TypeOK)'
  BY TypeParts, PTL
<1> QED BY <1>1 DEF IInv

LEMMA RestHolds ==
  IInv => Rest
BY DEF IInv, TypeOK, Rest

LEMMA LogStays ==
  ASSUME IInv, UNCHANGED <<issued, file, dropped, settled, compact, durable>>
  PROVE  /\ Own' /\ Planned' /\ Gone' /\ NothingDurableLost'
         /\ OnDisk' = OnDisk /\ History' = History
<1>1. OnDisk' = OnDisk /\ History' = History /\ Sizes' = Sizes
  BY DEF OnDisk, History, Sizes
<1>2. Own' /\ NothingDurableLost'
  BY <1>1 DEF IInv, Own, NothingDurableLost
<1>3. Planned'
  <2>1. Fits' = Fits
    BY <1>1 DEF Fits
  <2> QED BY <1>1, <2>1 DEF IInv, Planned
<1>4. Gone'
  BY <1>1 DEF IInv, Gone, Issued
<1> QED BY <1>1, <1>2, <1>3, <1>4

\* A step that leaves the append alone.
LEMMA WaitingStays ==
  ASSUME IInv, UNCHANGED <<issued, file, dropped, batch>>
  PROVE  Waiting'
<1>1. History' = History
  BY DEF History, OnDisk
<1> QED BY <1>1 DEF IInv, Waiting

(***************************************************************************)
(* One line more at the end of a file, while compaction is not rewriting:  *)
(* an operation that was there already or is newer than all the dropped.   *)
(***************************************************************************)
LEMMA LogGrows ==
  ASSUME IInv, ~ Exclusive, NEW a \in Actor, NEW x \in Line,
         file' = [file EXCEPT ![a] = Append(@, x)],
         UNCHANGED <<dropped, settled, compact>>,
         issued' \in [Ts -> Op \cup {None}],
         \A t \in Ts : issued[t] # None => issued'[t] = issued[t],
         x # Torn => Author[x] = a /\ issued'[x] # None,
         x # Torn => \A t \in dropped : t < x,
         \A t \in Issued' \ Issued :
           Author[t] # Me /\ t <= settled => t = x
  PROVE  /\ Own' /\ Planned' /\ Gone'
         /\ OnDisk' = OnDisk \cup ({x} \ {Torn})
         /\ History' = History \cup ({x} \ {Torn})
         /\ file' \in [Actor -> Seq(Line)]
         /\ file'[a] # <<>> /\ file'[a][Len(file'[a])] = x
         /\ \A b \in Actor \ {a} : file'[b] = file[b]
<1>1. /\ file \in [Actor -> Seq(Line)] /\ file[a] \in Seq(Line)
      /\ compact.at \notin {"checked", "renamed", "half"}
  BY DEF IInv, Shapes, Exclusive
<1>2. /\ file'[a] \in Seq(Line)
      /\ Len(file'[a]) = Len(file[a]) + 1 /\ Len(file[a]) \in Nat
      /\ file'[a] # <<>> /\ file'[a][Len(file'[a])] = x
      /\ Whole(file'[a]) = Whole(file[a]) \cup ({x} \ {Torn})
  <2>1. file'[a] = Append(file[a], x)
    BY <1>1
  <2> QED BY <1>1, <2>1, PutIs
<1>3. file' \in [Actor -> Seq(Line)] /\ \A b \in Actor \ {a} : file'[b] = file[b]
  BY <1>1, <1>2
<1>4. \A b \in Actor :
        Whole(file'[b]) = IF b = a THEN Whole(file[a]) \cup ({x} \ {Torn})
                          ELSE Whole(file[b])
  BY <1>2, <1>3
<1>5. /\ OnDisk' = OnDisk \cup ({x} \ {Torn})
      /\ History' = History \cup ({x} \ {Torn})
  BY <1>4 DEF OnDisk, History
<1>6. \A t \in History : /\ t \in Ts /\ t \in Nat /\ issued[t] # None
                         /\ issued'[t] = issued[t]
  BY HistoryTyped, Timestamps
<1>7. Own'
  <2> SUFFICES ASSUME NEW b \in Actor, NEW t \in Whole(file'[b])
               PROVE  Author[t] = b /\ issued'[t] # None
    BY DEF Own
  <2>1. CASE t \in Whole(file[b])
    <3>1. t \in History
      BY <2>1 DEF History, OnDisk
    <3> QED BY <2>1, <3>1, <1>6 DEF IInv, Own
  <2>2. CASE t \notin Whole(file[b])
    BY <2>2, <1>4
  <2> QED BY <2>1, <2>2
<1>8. Planned'
  <2> SUFFICES ASSUME compact.at = "planned"
               PROVE  /\ \A b \in Actor : compact.sizes[b] <= Len(file'[b])
                      /\ compact.sizes # Sizes'
    BY <1>1 DEF Planned
  <2>1. /\ compact.sizes \in [Actor -> Nat]
        /\ \A b \in Actor : compact.sizes[b] <= Len(file[b])
    BY DEF IInv, Shapes, Planned, Compaction
  <2>2. \A b \in Actor : compact.sizes[b] <= Len(file'[b])
    BY <1>2, <1>3, <2>1
  <2>3. compact.sizes[a] < Sizes'[a]
    BY <1>2, <2>1 DEF Sizes
  <2> QED BY <2>1, <2>2, <2>3
<1>9. Gone'
  <2>1. ASSUME NEW t \in dropped
        PROVE  NoEffect(EmptyTree, issued', History', t)
    <3>1. t \in History /\ NoEffect(EmptyTree, issued, History, t)
      BY DEF IInv, Gone, History
    <3>2. Below(History', t) = Below(History, t)
      <4>1. t \in Nat /\ x \in Nat
        BY <1>6, <3>1, Timestamps
      <4>2. x # Torn => ~ (x < t)
        BY <4>1
      <4> QED BY <1>5, <4>2 DEF Below
    <3>3. \A u \in Below(History, t) : issued'[u] = issued[u]
      BY <1>6 DEF Below
    <3> QED BY <1>6, <3>1, <3>2, <3>3, NoEffectStays
  <2>2. \A t \in dropped :
          t \in Ts /\ Author[t] = Me /\ issued'[t] # None /\ t <= settled
    BY <1>6 DEF IInv, Gone, History
  <2>3. ASSUME NEW t \in Issued', Author[t] # Me, t <= settled
        PROVE  t \in OnDisk'
    <3>1. t \in Ts /\ issued'[t] # None
      BY DEF Issued
    <3>2. CASE t \in Issued
      BY <1>5, <2>3, <3>2 DEF IInv, Gone
    <3>3. CASE t \notin Issued
      BY <1>5, <2>3, <3>1, <3>3, Timestamps
    <3> QED BY <3>2, <3>3
  <2> QED BY <2>1, <2>2, <2>3 DEF Gone
<1> QED BY <1>2, <1>3, <1>5, <1>7, <1>8, <1>9

----------------------------------------------------------------------------
\* A process opens the directory and ends.

LEMMA OpenedIs ==
  /\ Opened \in Slot /\ Opened.at = "reading" /\ Opened.todo = Actor
  /\ Opened.offsets = Down.offsets /\ Opened.nodes = Down.nodes
  /\ Opened.seen = Down.seen /\ Down \in Slot /\ Down.at = "down"
  /\ Actor # {}
BY Timestamps, NothingIsIndex DEF Opened, Down, Slot

\* Of the process of p: p itself, and whoever has p for a fellow.
LEMMA FellowsAre ==
  ASSUME NEW p \in Storage
  PROVE  /\ p \in Fellows(p) /\ Fellows(p) \subseteq Storage
         /\ \A q \in Fellows(p) : Fellows(q) = Fellows(p)
BY DEF Fellows

LEMMA StartIs ==
  ASSUME IInv, NEW p \in Storage, Start(p)
  PROVE  /\ UNCHANGED <<issued, file, loose, offsets, nodes, batch, compact,
                        settled, faults, durable, dropped, excuses>>
         /\ store' = [store EXCEPT ![p] = Opened] /\ ~ Exclusive
         /\ writer' = IF writer = None THEN p ELSE writer
         /\ \A r \in Fellows(p) : store[r].at = "down"
         /\ store[p].at = "down" /\ store'[p] = Opened
         /\ \A q \in Storage \ {p} : store'[q] = store[q]
<1>1. store \in [Storage -> Slot]
  BY DEF IInv, Shapes
<1> QED BY <1>1, FellowsAre DEF Start

LEMMA StartKeeps ==
  ASSUME IInv, NEW p \in Storage, Start(p)
  PROVE  IInv'
<1>1. /\ UNCHANGED <<issued, file, loose, offsets, nodes, batch, compact,
                     settled, faults, durable, dropped, excuses>>
      /\ store' = [store EXCEPT ![p] = Opened] /\ ~ Exclusive
      /\ writer' = IF writer = None THEN p ELSE writer
      /\ store[p].at = "down"
  BY StartIs
<1>2. Opened \in Slot /\ Opened.at = "reading" /\ Opened.todo = Actor /\ Actor # {}
  BY OpenedIs
<1>3. Shapes'
  BY <1>1, <1>2 DEF IInv, Shapes
<1>4. Locked'
  <2>1. writer # None => writer # p /\ store'[writer] = store[writer]
    BY <1>1 DEF IInv, Locked, TypeOK, Shapes
  <2>2. store'[p].at = "reading"
    BY <1>1, <1>2 DEF IInv, Shapes
  <2>3. ~ Exclusive' /\ compact'.at # "checked"
    BY <1>1 DEF Exclusive
  <2> QED BY <1>1, <2>1, <2>2, <2>3 DEF IInv, Locked
<1>5. Rest'
  BY <1>1, RestHolds DEF Rest
<1> QED BY <1>1, <1>3, <1>4, <1>5, LogStays, WaitingStays, StepKeeps

LEMMA ReloadIs ==
  ASSUME IInv, NEW p \in Storage, Reload(p)
  PROVE  /\ UNCHANGED <<issued, file, loose, offsets, nodes, writer, batch,
                        compact, settled, faults, durable, dropped, excuses>>
         /\ store' = [store EXCEPT ![p] = Opened] /\ ~ Exclusive
         /\ \E r \in Fellows(p) : store[r].at = "up"
         /\ store[p].at = "down" /\ store'[p] = Opened /\ p # writer
         /\ \A q \in Storage \ {p} : store'[q] = store[q]
<1>1. store \in [Storage -> Slot] /\ writer \in Storage \cup {None}
  BY DEF IInv, Shapes, TypeOK
<1>2. /\ UNCHANGED <<issued, file, loose, offsets, nodes, writer, batch,
                     compact, settled, faults, durable, dropped, excuses>>
      /\ store' = [store EXCEPT ![p] = Opened] /\ store[p].at = "down"
      /\ \E r \in Fellows(p) : store[r].at = "up"
  BY DEF Reload
<1>3. ~ Exclusive
  BY <1>2, FellowsAre DEF IInv, Locked, Alone
<1>4. p # writer
  BY <1>2, FilesConstants DEF IInv, Locked
<1> QED BY <1>1, <1>2, <1>3, <1>4

LEMMA ReloadKeeps ==
  ASSUME IInv, NEW p \in Storage, Reload(p)
  PROVE  IInv'
<1>1. /\ UNCHANGED <<issued, file, loose, offsets, nodes, writer, batch,
                     compact, settled, faults, durable, dropped, excuses>>
      /\ store' = [store EXCEPT ![p] = Opened] /\ ~ Exclusive
      /\ store'[p] = Opened /\ p # writer
      /\ \A q \in Storage \ {p} : store'[q] = store[q]
  BY ReloadIs
<1>2. Opened \in Slot /\ Opened.at = "reading" /\ Opened.todo = Actor /\ Actor # {}
  BY OpenedIs
<1>3. Shapes'
  BY <1>1, <1>2 DEF IInv, Shapes
<1>4. Locked'
  <2>1. writer # None => store'[writer] = store[writer]
    BY <1>1 DEF IInv, TypeOK
  <2>2. ~ Exclusive' /\ compact'.at # "checked"
    BY <1>1 DEF Exclusive
  <2> QED BY <1>1, <2>1, <2>2 DEF IInv, Locked
<1>5. Rest'
  BY <1>1, RestHolds DEF Rest
<1> QED BY <1>1, <1>3, <1>4, <1>5, LogStays, WaitingStays, StepKeeps

LEMMA ReplaceIs ==
  ASSUME IInv, NEW p \in Storage, NEW r \in Storage, Replace(p, r)
  PROVE  /\ UNCHANGED <<issued, file, loose, offsets, nodes, batch, compact,
                        settled, faults, durable, dropped, excuses>>
         /\ p # r /\ r \in Fellows(p) /\ store[p].at = "up" /\ store[r].at = "up"
         /\ writer = p => batch = NoBatch
         /\ writer' = IF writer = p THEN r ELSE writer
         /\ store' \in [Storage -> Slot]
         /\ store'[p] = Down /\ Down.at = "down"
         /\ \A q \in Storage \ {p} : store'[q] = store[q]
         /\ ~ Exclusive
<1>1. store \in [Storage -> Slot] /\ Down \in Slot /\ Down.at = "down"
  BY OpenedIs DEF IInv, Shapes
<1>2. /\ UNCHANGED <<issued, file, loose, offsets, nodes, batch, compact,
                     settled, faults, durable, dropped, excuses>>
      /\ p # r /\ r \in Fellows(p) /\ store[p].at = "up" /\ store[r].at = "up"
      /\ writer = p => batch = NoBatch
      /\ writer' = IF writer = p THEN r ELSE writer
      /\ store' = [store EXCEPT ![p] = Down]
  BY DEF Replace
<1>3. ~ Exclusive
  BY <1>2 DEF IInv, Locked, Alone
<1> QED BY <1>1, <1>2, <1>3

LEMMA ReplaceKeeps ==
  ASSUME IInv, NEW p \in Storage, NEW r \in Storage, Replace(p, r)
  PROVE  IInv'
<1>1. /\ UNCHANGED <<issued, file, loose, offsets, nodes, batch, compact,
                     settled, faults, durable, dropped, excuses>>
      /\ p # r /\ store[r].at = "up" /\ (writer = p => batch = NoBatch)
      /\ writer' = IF writer = p THEN r ELSE writer
      /\ store' \in [Storage -> Slot] /\ store'[p].at = "down"
      /\ \A q \in Storage \ {p} : store'[q] = store[q]
      /\ ~ Exclusive
  BY ReplaceIs
<1>2. Shapes'
  <2>1. \A q \in Storage : store'[q].at = "reading" => store'[q].todo # {}
    BY <1>1 DEF IInv, Shapes
  <2> QED BY <1>1, <2>1 DEF IInv, Shapes
<1>3. writer \in Storage \cup {None} /\ writer' \in Storage \cup {None}
  BY <1>1 DEF IInv, TypeOK
<1>4. Locked'
  <2>1. ~ Exclusive' /\ compact'.at # "checked"
    BY <1>1 DEF Exclusive
  <2>2. CASE writer = p
    BY <1>1, <2>1, <2>2 DEF Locked
  <2>3. CASE writer # p
    <3>1. writer # None => store'[writer] = store[writer]
      BY <1>1, <1>3, <2>3
    <3> QED BY <1>1, <2>1, <2>3, <3>1 DEF IInv, Locked
  <2> QED BY <2>2, <2>3
<1>5. Rest'
  BY <1>1, <1>3, RestHolds DEF Rest
<1> QED BY <1>1, <1>2, <1>4, <1>5, LogStays, WaitingStays, StepKeeps

\* A step of a process that is up or coming up, on its own or on sidecars.
LEMMA SlotMoves ==
  ASSUME IInv, NEW p \in Storage, store[p].at # "down",
         UNCHANGED <<issued, file, loose, writer, batch, compact, settled,
                     durable, dropped>>,
         offsets' \in [Actor -> Index \cup {None}],
         nodes' \in [Actor -> Index \cup {None}],
         store' \in [Storage -> Slot],
         \A q \in Storage \ {p} : store'[q] = store[q],
         store'[p].at # "down", store[p].at = "up" => store'[p].at = "up",
         store'[p].at = "reading" => store'[p].todo # {},
         faults' \in 0..MaxFaults, excuses' \subseteq Excuse
  PROVE  IInv'
<1>1. Shapes'
  BY DEF IInv, Shapes
<1>2. ~ Exclusive /\ compact.at # "checked"
  BY DEF IInv, Locked, Alone, Exclusive
<1>3. Locked'
  <2>1. writer \in Storage \cup {None}
    BY DEF IInv, TypeOK
  <2>2. writer # None =>
          /\ store'[writer].at # "down"
          /\ store[writer].at = "up" => store'[writer].at = "up"
    BY <2>1 DEF IInv, Locked
  <2>3. ~ Exclusive' /\ compact'.at # "checked"
    BY <1>2 DEF Exclusive
  <2> QED BY <2>2, <2>3 DEF IInv, Locked
<1>4. Rest'
  BY RestHolds DEF Rest
<1> QED BY <1>1, <1>3, <1>4, LogStays, WaitingStays, StepKeeps

LEMMA ReadFileKeeps ==
  ASSUME IInv, NEW p \in Storage, ReadFile(p)
  PROVE  IInv'
<1> DEFINE a     == CHOOSE b \in store[p].todo : TRUE
           fresh == Fresh(file[a], offsets[a], nodes[a])
           tail  == Scan(file[a], Tip(offsets[a]) + 1)
           read  == Scan(file[a], 1)
           X     == IF fresh THEN Merge(offsets[a], tail) ELSE read
           Y     == IF fresh THEN Merge(nodes[a], tail) ELSE read
           W     == Whole(file[a])
           todo  == store[p].todo \ {a}
           exact == fresh /\ Tip(offsets[a]) = Len(file[a])
           at    == IF exact \/ file[a] = <<>> THEN After(p, todo) ELSE "saving"
<1>1. /\ store[p].at = "reading"
      /\ UNCHANGED <<issued, file, loose, offsets, nodes, writer, batch,
                     compact, settled, faults, durable, dropped, excuses>>
      /\ store' = [store EXCEPT ![p] =
                     [@ EXCEPT !.offsets[a] = X, !.nodes[a] = Y,
                               !.seen[a] = W, !.actor = a,
                               !.todo = todo, !.at = at]]
  BY DEF ReadFile
<1>2. /\ store \in [Storage -> Slot] /\ store[p] \in Slot
      /\ store[p].todo \in SUBSET Actor /\ a \in Actor
  BY <1>1 DEF IInv, Shapes, Slot
<1>3. /\ at \in {"up", "reading", "saving"}
      /\ at = "reading" => todo # {}
      /\ todo \in SUBSET Actor
  BY <1>2 DEF After
<1> HIDE DEF a, at, todo
<1>4. /\ file[a] \in Seq(Line) /\ offsets[a] \in Index \cup {None}
      /\ nodes[a] \in Index \cup {None}
  BY <1>2 DEF IInv, Shapes
<1>5. X \in Index /\ Y \in Index
  <2>1. read \in Index
    BY <1>4, ScanIs
  <2>2. ASSUME fresh
        PROVE  /\ offsets[a] \in Index /\ nodes[a] \in Index
               /\ tail \in Index
    <3>1. offsets[a] \in Index /\ nodes[a] \in Index
      BY <2>2, <1>4 DEF Fresh
    <3>2. Tip(offsets[a]) + 1 \in Nat \ {0}
      BY <3>1, TipIs
    <3> QED BY <3>1, <3>2, <1>4, ScanIs
  <2> HIDE DEF fresh, tail, read
  <2> QED BY <2>1, <2>2, MergeIs
<1>6. W \in SUBSET Ts
  BY <1>4 DEF Whole, Line
<1> HIDE DEF X, Y, W
<1>7. /\ store' \in [Storage -> Slot]
      /\ \A q \in Storage \ {p} : store'[q] = store[q]
      /\ store'[p].at = at /\ store'[p].todo = todo
  <2> DEFINE d == [store[p] EXCEPT !.offsets[a] = X, !.nodes[a] = Y,
                                  !.seen[a] = W, !.actor = a,
                                  !.todo = todo, !.at = at]
  <2>1. d \in Slot /\ d.at = at /\ d.todo = todo
    BY <1>2, <1>3, <1>5, <1>6 DEF Slot
  <2>2. store' = [store EXCEPT ![p] = d]
    BY <1>1, <1>2
  <2> HIDE DEF d
  <2> QED BY <1>2, <2>1, <2>2
<1>8. /\ offsets' \in [Actor -> Index \cup {None}]
      /\ nodes' \in [Actor -> Index \cup {None}]
      /\ faults' \in 0..MaxFaults /\ excuses' \subseteq Excuse
  BY <1>1 DEF IInv, Shapes, TypeOK
<1> QED BY <1>1, <1>3, <1>7, <1>8, SlotMoves

LEMMA SavesKeep ==
  ASSUME IInv, NEW p \in Storage,
         SaveOffsets(p) \/ SaveNodes(p) \/ SaveFails(p)
  PROVE  IInv'
<1> DEFINE a  == store[p].actor
           up == After(p, store[p].todo)
<1>1. /\ store \in [Storage -> Slot] /\ store[p] \in Slot /\ a \in Actor
      /\ offsets \in [Actor -> Index \cup {None}]
      /\ nodes \in [Actor -> Index \cup {None}]
      /\ excuses \subseteq Excuse /\ faults \in 0..MaxFaults
      /\ store[p].offsets[a] \in Index /\ store[p].nodes[a] \in Index
  <2>1. /\ store \in [Storage -> Slot] /\ store[p] \in Slot
        /\ offsets \in [Actor -> Index \cup {None}]
        /\ nodes \in [Actor -> Index \cup {None}]
    BY DEF IInv, Shapes
  <2>2. excuses \subseteq Excuse /\ faults \in 0..MaxFaults
    BY DEF IInv, TypeOK
  <2>3. a \in Actor /\ store[p].offsets[a] \in Index /\ store[p].nodes[a] \in Index
    BY <2>1 DEF Slot
  <2> QED BY <2>1, <2>2, <2>3
<1>2. up \in {"up", "reading"} /\ (up = "reading" => store[p].todo # {})
  BY DEF After
<1>3. ASSUME NEW ix \in Index PROVE Saved(ix) \in Index \cup {None}
  BY DEF Saved
<1>4. ASSUME NEW s \in {"up", "reading", "saving nodes"},
             store' = [store EXCEPT ![p].at = s]
      PROVE  /\ store' \in [Storage -> Slot]
             /\ \A q \in Storage \ {p} : store'[q] = store[q]
             /\ store'[p].at = s /\ store'[p].todo = store[p].todo
  BY <1>1, <1>4 DEF Slot
<1> HIDE DEF up
<1>5. CASE SaveOffsets(p)
  <2>1. /\ store[p].at = "saving" /\ store' = [store EXCEPT ![p].at = "saving nodes"]
        /\ offsets' = [offsets EXCEPT ![a] = Saved(store[p].offsets[a])]
        /\ UNCHANGED <<issued, file, loose, nodes, writer, batch, compact,
                       settled, faults, durable, dropped>>
        /\ excuses' \subseteq Excuse
    BY <1>1, <1>5 DEF SaveOffsets, Overtaken, Excuse
  <2>2. offsets' \in [Actor -> Index \cup {None}]
    BY <1>1, <1>3, <2>1
  <2> QED BY <1>1, <1>4, <2>1, <2>2, SlotMoves
<1>6. CASE SaveNodes(p)
  <2>1. /\ store[p].at = "saving nodes" /\ store' = [store EXCEPT ![p].at = up]
        /\ nodes' = [nodes EXCEPT ![a] = Saved(store[p].nodes[a])]
        /\ UNCHANGED <<issued, file, loose, offsets, writer, batch, compact,
                       settled, faults, durable, dropped>>
        /\ excuses' \subseteq Excuse
    BY <1>1, <1>6 DEF SaveNodes, Overtaken, Excuse, up
  <2>2. nodes' \in [Actor -> Index \cup {None}]
    BY <1>1, <1>3, <2>1
  <2> QED BY <1>1, <1>2, <1>4, <2>1, <2>2, SlotMoves
<1>7. CASE SaveFails(p)
  <2>1. /\ store[p].at = "saving" /\ store' = [store EXCEPT ![p].at = up]
        /\ UNCHANGED <<issued, file, loose, offsets, nodes, writer, batch,
                       compact, settled, durable, dropped>>
        /\ faults > 0 /\ faults' = faults - 1 /\ excuses' \subseteq Excuse
    BY <1>1, <1>7 DEF SaveFails, Fault, Excuse, up
  <2>2. faults' \in 0..MaxFaults
    BY <1>1, <2>1, FilesConstants
  <2> QED BY <1>1, <1>2, <1>4, <2>1, <2>2, SlotMoves
<1> QED BY <1>5, <1>6, <1>7

----------------------------------------------------------------------------
\* The append, entry after entry.

LEMMA NoBatchIs ==
  NoBatch \in Batch /\ NoBatch.todo = <<>> /\ NoBatch.entries = <<>>
BY DEF NoBatch, Batch

\* The writer while it appends.
LEMMA Appending ==
  ASSUME IInv, batch # NoBatch
  PROVE  /\ writer \in Storage /\ store[writer].at = "up" /\ ~ Exclusive
         /\ compact.at # "checked" /\ batch \in Batch
         /\ batch.todo \in Seq(Ts) /\ batch.entries \in Seq(Ts)
         /\ batch.from \in Nat
<1>1. /\ writer \in Storage \cup {None} /\ writer # None
      /\ store[writer].at = "up"
  BY DEF IInv, TypeOK, Locked
<1>2. ~ Exclusive /\ compact.at # "checked"
  BY <1>1 DEF IInv, Locked, Alone, Exclusive
<1>3. batch \in Batch
  BY DEF IInv, Shapes
<1> QED BY <1>1, <1>2, <1>3 DEF Batch

\* A step of the append after its last line: some entries are done.
LEMMA EntryMoves ==
  ASSUME IInv, batch # NoBatch,
         UNCHANGED <<issued, file, loose, writer, compact, settled, durable,
                     dropped>>,
         offsets' \in [Actor -> Index \cup {None}],
         nodes' \in [Actor -> Index \cup {None}],
         store' \in [Storage -> Slot],
         \A q \in Storage : store'[q].at = store[q].at /\ store'[q].todo = store[q].todo,
         batch' \in Batch, batch'.todo = <<>> \/ batch'.todo = batch.todo,
         \A i \in 1..Len(batch'.entries) :
           \E j \in 1..Len(batch.entries) : batch'.entries[i] = batch.entries[j],
         faults' \in 0..MaxFaults, excuses' \subseteq Excuse
  PROVE  IInv'
<1>1. Shapes'
  BY DEF IInv, Shapes
<1>2. Locked'
  <2>1. writer' \in Storage /\ store'[writer'].at = "up"
    BY Appending
  <2>2. ~ Exclusive' /\ compact'.at # "checked"
    BY Appending DEF Exclusive
  <2>3. writer' # None
    BY <2>1, FilesConstants
  <2> QED BY <2>1, <2>2, <2>3 DEF Locked
<1>3. Rest'
  BY RestHolds DEF Rest
<1>4. Waiting'
  <2>1. History' = History
    BY LogStays
  <2>2. \A i \in 1..Len(batch'.entries) : batch'.entries[i] \in History'
    BY <2>1 DEF IInv, Waiting
  <2>3. CASE batch'.todo = <<>>
    BY <2>2, <2>3 DEF Waiting
  <2>4. CASE batch'.todo = batch.todo
    BY <2>2, <2>4 DEF IInv, Waiting
  <2> QED BY <2>3, <2>4
<1> QED BY <1>1, <1>2, <1>3, <1>4, LogStays, StepKeeps

LEMMA SmallerTail ==
  ASSUME NEW s \in Seq(Ts), s # <<>>
  PROVE  /\ Head(s) \in Ts /\ Tail(s) \in Seq(Ts)
         /\ Len(s) \in Nat \ {0} /\ Head(s) = s[1]
         /\ \A i \in 1..Len(Tail(s)) : i + 1 \in 1..Len(s) /\ Tail(s)[i] = s[i + 1]
  OBVIOUS

LEMMA NextEntryIs ==
  ASSUME batch \in Batch, batch.entries # <<>>
  PROVE  /\ NextEntry \in Batch
         /\ NextEntry.todo = <<>> \/ NextEntry.todo = batch.todo
         /\ \A i \in 1..Len(NextEntry.entries) :
              \E j \in 1..Len(batch.entries) : NextEntry.entries[i] = batch.entries[j]
<1>1. /\ batch.entries \in Seq(Ts) /\ Tail(batch.entries) \in Seq(Ts) /\ batch.from + 1 \in Nat
      /\ \A i \in 1..Len(Tail(batch.entries)) :
           i + 1 \in 1..Len(batch.entries) /\ Tail(batch.entries)[i] = batch.entries[i + 1]
  BY SmallerTail DEF Batch
<1>2. CASE Tail(batch.entries) = <<>>
  <2>1. NextEntry = NoBatch
    BY <1>2 DEF NextEntry
  <2> QED BY <2>1, NoBatchIs
<1>3. CASE Tail(batch.entries) # <<>>
  <2> DEFINE n == [batch EXCEPT !.entries = Tail(@), !.part = "offset", !.from = @ + 1]
  <2>1. NextEntry = n
    BY <1>3 DEF NextEntry
  <2>2. n \in Batch /\ n.todo = batch.todo /\ n.entries = Tail(batch.entries)
    BY <1>1 DEF Batch
  <2> HIDE DEF n
  <2> QED BY <1>1, <2>1, <2>2
<1> QED BY <1>2, <1>3

LEMMA RememberedIs ==
  ASSUME IInv, writer \in Storage, NEW t \in Ts, NEW n \in Nat \ {0}
  PROVE  /\ Remembered(t, n) \in [Storage -> Slot]
         /\ \A q \in Storage : /\ Remembered(t, n)[q].at = store[q].at
                               /\ Remembered(t, n)[q].todo = store[q].todo
                               /\ Remembered(t, n)[q].actor = store[q].actor
<1> DEFINE x == Entered(store[writer].offsets[Me], t, n)
           y == Entered(store[writer].nodes[Me], t, n)
           d == [store[writer] EXCEPT !.offsets[Me] = x, !.nodes[Me] = y]
<1>1. store \in [Storage -> Slot] /\ store[writer] \in Slot
  BY DEF IInv, Shapes
<1>2. /\ Me \in Actor /\ store[writer].offsets \in [Actor -> Index]
      /\ store[writer].nodes \in [Actor -> Index]
  BY <1>1, Timestamps DEF Slot
<1>3. x \in Index /\ y \in Index
  BY <1>2, EnteredIs
<1>5. Remembered(t, n) = [store EXCEPT ![writer] = d]
  BY <1>1, <1>2 DEF Remembered, Slot
<1> HIDE DEF x, y
<1>4. d \in Slot /\ d.at = store[writer].at /\ d.todo = store[writer].todo
      /\ d.actor = store[writer].actor
  BY <1>1, <1>2, <1>3 DEF Slot
<1> HIDE DEF d
<1> QED BY <1>1, <1>4, <1>5

LEMMA EntriesKeep ==
  ASSUME IInv, EnterOffset \/ EnterNode \/ OffsetFails \/ NodeFails
  PROVE  IInv'
<1> DEFINE t == Head(batch.entries)
           n == batch.from + 1
<1>1. batch.entries # <<>>
  BY DEF EnterOffset, EnterNode, OffsetFails, NodeFails
<1>2. batch # NoBatch
  BY <1>1, NoBatchIs
<1>3. /\ writer \in Storage /\ batch \in Batch /\ batch.entries \in Seq(Ts)
      /\ t \in Ts /\ n \in Nat \ {0}
  BY <1>1, <1>2, Appending, SmallerTail
<1>4. /\ offsets \in [Actor -> Index \cup {None}] /\ store \in [Storage -> Slot]
      /\ nodes \in [Actor -> Index \cup {None}]
      /\ excuses \subseteq Excuse /\ faults \in 0..MaxFaults
  BY DEF IInv, Shapes, TypeOK
<1>5. /\ [offsets EXCEPT ![Me] = Entered(@, t, n)] \in [Actor -> Index \cup {None}]
      /\ [nodes EXCEPT ![Me] = Entered(@, t, n)] \in [Actor -> Index \cup {None}]
  <2>1. Me \in Actor
    BY Timestamps
  <2>2. Entered(offsets[Me], t, n) \in Index /\ Entered(nodes[Me], t, n) \in Index
    BY <1>3, <1>4, <2>1, EnteredIs
  <2> HIDE DEF t, n
  <2> QED BY <1>4, <2>1, <2>2
<1>6. /\ Remembered(t, n) \in [Storage -> Slot]
      /\ \A q \in Storage : /\ Remembered(t, n)[q].at = store[q].at
                            /\ Remembered(t, n)[q].todo = store[q].todo
  BY <1>3, RememberedIs
<1> DEFINE half == [batch EXCEPT !.part = "node"]
<1>7. half \in Batch /\ half.todo = batch.todo /\ half.entries = batch.entries
  BY <1>3 DEF Batch
<1>8. /\ NextEntry \in Batch
      /\ NextEntry.todo = <<>> \/ NextEntry.todo = batch.todo
      /\ \A i \in 1..Len(NextEntry.entries) :
           \E j \in 1..Len(batch.entries) : NextEntry.entries[i] = batch.entries[j]
  BY <1>1, <1>3, NextEntryIs
<1>9. Fault => faults' \in 0..MaxFaults
  BY <1>4, FilesConstants DEF Fault
<1> HIDE DEF t, n, half
<1>10. CASE EnterOffset
  <2>1. /\ offsets' = [offsets EXCEPT ![Me] = Entered(@, t, n)]
        /\ store' = Remembered(t, n) /\ batch' = half
        /\ UNCHANGED <<issued, file, loose, nodes, writer, compact,
                       settled, faults, durable, dropped, excuses>>
    BY <1>10 DEF EnterOffset, t, n, half
  <2> QED BY <1>2, <1>4, <1>5, <1>6, <1>7, <2>1, EntryMoves
<1>11. CASE EnterNode
  <2>1. /\ nodes' = [nodes EXCEPT ![Me] = Entered(@, t, n)]
        /\ batch' = NextEntry
        /\ UNCHANGED <<issued, file, loose, offsets, store, writer, compact,
                       settled, faults, durable, dropped, excuses>>
    BY <1>11 DEF EnterNode, t, n
  <2> QED BY <1>2, <1>4, <1>5, <1>8, <2>1, EntryMoves
<1>12. CASE OffsetFails
  <2>1. /\ Fault /\ store' = Remembered(t, n) /\ batch' = half
        /\ excuses' \subseteq Excuse
        /\ UNCHANGED <<issued, file, loose, offsets, nodes, writer, compact,
                       settled, durable, dropped>>
    BY <1>4, <1>12 DEF OffsetFails, Excuse, t, n, half
  <2> QED BY <1>2, <1>4, <1>6, <1>7, <1>9, <2>1, EntryMoves
<1>13. CASE NodeFails
  <2>1. /\ Fault /\ batch' = NextEntry /\ excuses' \subseteq Excuse
        /\ UNCHANGED <<issued, file, loose, offsets, nodes, store, writer,
                       compact, settled, durable, dropped>>
    BY <1>4, <1>13 DEF NodeFails, Excuse
  <2> QED BY <1>2, <1>4, <1>8, <1>9, <2>1, EntryMoves
<1> QED BY <1>10, <1>11, <1>12, <1>13

----------------------------------------------------------------------------
\* A fragment at the end of a file, failed writes and the end of a process.

LEMMA CutKeeps ==
  ASSUME IInv, ~ Exclusive, NEW a \in Actor,
         Tear(a) \/ UNCHANGED <<file, loose>>,
         UNCHANGED <<issued, dropped, settled, compact, durable>>
  PROVE  /\ Own' /\ Planned' /\ Gone' /\ NothingDurableLost'
         /\ History' = History
         /\ file' \in [Actor -> Seq(Line)] /\ loose' \in [Actor -> BOOLEAN]
         /\ \A b \in Actor :
              loose'[b] => file'[b] # <<>> /\ file'[b][Len(file'[b])] = Torn
<1>1. file \in [Actor -> Seq(Line)] /\ loose \in [Actor -> BOOLEAN]
  BY DEF IInv, Shapes
<1>2. \A b \in Actor :
        loose[b] => file[b] # <<>> /\ file[b][Len(file[b])] = Torn
  BY RestHolds DEF Rest
<1>3. CASE UNCHANGED <<file, loose>>
  BY <1>1, <1>2, <1>3, LogStays
<1>4. CASE Tear(a)
  <2>1. /\ file' = [file EXCEPT ![a] = Put(@, loose[a], Torn)]
        /\ loose' = [loose EXCEPT ![a] = TRUE]
    BY <1>4 DEF Tear
  <2>2. Torn \in Line
    BY DEF Line
  <2>3. issued' \in [Ts -> Op \cup {None}] /\ Issued' = Issued
    BY DEF IInv, TypeOK, Issued
  <2>4. /\ Own' /\ Planned' /\ Gone'
        /\ OnDisk' = OnDisk /\ History' = History
        /\ file' \in [Actor -> Seq(Line)]
        /\ file'[a] # <<>> /\ file'[a][Len(file'[a])] = Torn
        /\ \A b \in Actor \ {a} : file'[b] = file[b]
    <3>1. file' = [file EXCEPT ![a] = Append(@, Torn)]
      BY <2>1 DEF Put
    <3>2. /\ UNCHANGED <<dropped, settled, compact>>
          /\ \A t \in Ts : issued[t] # None => issued'[t] = issued[t]
          /\ \A t \in Issued' \ Issued :
               Author[t] # Me /\ t <= settled => t = Torn
      BY <2>3
    <3>3. /\ Own' /\ Planned' /\ Gone'
          /\ OnDisk' = OnDisk \cup ({Torn} \ {Torn})
          /\ History' = History \cup ({Torn} \ {Torn})
          /\ file' \in [Actor -> Seq(Line)]
          /\ file'[a] # <<>> /\ file'[a][Len(file'[a])] = Torn
          /\ \A b \in Actor \ {a} : file'[b] = file[b]
      BY <2>2, <2>3, <3>1, <3>2, LogGrows
    <3> QED BY <3>3
  <2>5. NothingDurableLost'
    BY <2>4 DEF IInv, NothingDurableLost
  <2> QED BY <1>1, <1>2, <2>1, <2>4, <2>5
<1> QED BY <1>3, <1>4

LEMMA WriteFailsKeeps ==
  ASSUME IInv, WriteFails
  PROVE  IInv'
<1>1. /\ faults > 0 /\ faults' = faults - 1 /\ batch.todo # <<>>
      /\ Tear(Me) \/ UNCHANGED <<file, loose>>
      /\ batch' = NoBatch /\ excuses' \subseteq Excuse
      /\ UNCHANGED <<issued, offsets, nodes, store, writer, compact, settled,
                     durable, dropped>>
  BY RestHolds DEF WriteFails, Fault, Cut, Rest, Excuse
<1>2. ~ Exclusive /\ compact.at # "checked"
  BY <1>1, NoBatchIs, Appending
<1>3. /\ Own' /\ Planned' /\ Gone' /\ NothingDurableLost' /\ History' = History
      /\ file' \in [Actor -> Seq(Line)] /\ loose' \in [Actor -> BOOLEAN]
      /\ \A b \in Actor :
           loose'[b] => file'[b] # <<>> /\ file'[b][Len(file'[b])] = Torn
  BY <1>1, <1>2, Timestamps, CutKeeps
<1>4. Shapes'
  BY <1>1, <1>3, NoBatchIs DEF IInv, Shapes
<1>5. Locked'
  BY <1>1, <1>2 DEF IInv, Locked, Exclusive
<1>6. Rest'
  <2>1. faults \in 0..MaxFaults /\ MaxFaults \in Nat
    BY FilesConstants DEF IInv, TypeOK
  <2>2. faults' \in 0..MaxFaults
    BY <1>1, <2>1
  <2> QED BY <1>1, <1>3, <2>2, RestHolds DEF Rest
<1>7. Waiting'
  BY <1>1, NoBatchIs DEF Waiting
<1> QED BY <1>3, <1>4, <1>5, <1>6, <1>7, StepKeeps

LEMMA LeaveIs ==
  ASSUME IInv, NEW p \in Storage, Leave(p)
  PROVE  /\ store' \in [Storage -> Slot]
         /\ \A q \in Storage : store'[q].at = "reading" => store'[q].todo # {}
         /\ store'[p].at = "down"
         /\ \A q \in Storage : store'[q] = IF q \in Fellows(p) THEN Down ELSE store[q]
         /\ writer' \in Storage \cup {None}
         /\ writer' # None => /\ writer' = writer /\ writer \notin Fellows(p)
                              /\ store'[writer'] = store[writer]
<1>1. store \in [Storage -> Slot] /\ writer \in Storage \cup {None}
  BY DEF IInv, Shapes, TypeOK
<1>2. Down \in Slot /\ Down.at = "down"
  BY OpenedIs
<1>3. /\ store' = [q \in Storage |-> IF q \in Fellows(p) THEN Down ELSE store[q]]
      /\ writer' = IF writer \in Fellows(p) THEN None ELSE writer
  BY DEF Leave
<1>4. \A q \in Storage : store[q].at = "reading" => store[q].todo # {}
  BY DEF IInv, Shapes
<1>5. p \in Fellows(p)
  BY FellowsAre
<1> HIDE DEF Down
<1>6. \A q \in Storage : store'[q] = IF q \in Fellows(p) THEN Down ELSE store[q]
  BY <1>3
<1>7. /\ store' \in [Storage -> Slot]
      /\ \A q \in Storage : store'[q].at = "reading" => store'[q].todo # {}
  BY <1>1, <1>2, <1>3, <1>4
<1> QED BY <1>1, <1>2, <1>3, <1>5, <1>6, <1>7

LEMMA StopKeeps ==
  ASSUME IInv, NEW p \in Storage, Stop(p)
  PROVE  IInv'
<1>1. /\ store[p].at = "up" /\ (writer \in Fellows(p) => batch = NoBatch) /\ Leave(p)
      /\ UNCHANGED <<issued, file, loose, offsets, nodes, batch, compact,
                     settled, faults, durable, dropped, excuses>>
  BY DEF Stop
<1>2. ~ Exclusive /\ compact.at # "checked"
  BY <1>1 DEF IInv, Locked, Alone, Exclusive
<1>3. Shapes'
  BY <1>1, LeaveIs DEF IInv, Shapes
<1>4. Locked'
  <2>1. ~ Exclusive' /\ compact'.at # "checked"
    BY <1>1, <1>2 DEF Exclusive
  <2>2. writer' # None => writer' = writer /\ store'[writer'] = store[writer]
    BY <1>1, LeaveIs
  <2>3. batch' # NoBatch => writer' # None
    BY <1>1 DEF IInv, Locked, Leave
  <2> QED BY <1>1, <2>1, <2>2, <2>3, LeaveIs DEF IInv, Locked
<1>5. Rest'
  BY <1>1, LeaveIs, RestHolds DEF Rest
<1> QED BY <1>1, <1>3, <1>4, <1>5, LogStays, WaitingStays, StepKeeps

LEMMA CrashKeeps ==
  ASSUME IInv, NEW p \in Storage, Crash(p)
  PROVE  IInv'
<1>1. /\ faults > 0 /\ faults' = faults - 1 /\ store[p].at # "down" /\ Leave(p)
      /\ UNCHANGED <<issued, offsets, nodes, compact, settled, durable,
                     dropped, excuses>>
      /\ batch' = IF writer \in Fellows(p) THEN NoBatch ELSE batch
      /\ \E a \in Actor : Tear(a) \/ UNCHANGED <<file, loose>>
  BY Timestamps DEF Crash, Fault
<1>2. ~ Exclusive /\ compact.at # "checked"
  BY <1>1 DEF IInv, Locked, Alone, Exclusive
<1>3. /\ Own' /\ Planned' /\ Gone' /\ NothingDurableLost' /\ History' = History
      /\ file' \in [Actor -> Seq(Line)] /\ loose' \in [Actor -> BOOLEAN]
      /\ \A b \in Actor :
           loose'[b] => file'[b] # <<>> /\ file'[b][Len(file'[b])] = Torn
  BY <1>1, <1>2, CutKeeps
<1>4. Shapes'
  BY <1>1, <1>3, LeaveIs, NoBatchIs DEF IInv, Shapes
<1>5. Locked'
  <2>1. ~ Exclusive' /\ compact'.at # "checked"
    BY <1>1, <1>2 DEF Exclusive
  <2>2. writer' # None => writer' = writer /\ store'[writer'] = store[writer]
    BY <1>1, LeaveIs
  <2>3. batch' # NoBatch => writer' # None /\ batch # NoBatch
    BY <1>1 DEF IInv, Locked, Leave
  <2> QED BY <1>1, <2>1, <2>2, <2>3, LeaveIs DEF IInv, Locked
<1>6. Rest'
  <2>1. faults \in 0..MaxFaults /\ MaxFaults \in Nat
    BY FilesConstants DEF IInv, TypeOK
  <2>2. faults' \in 0..MaxFaults
    BY <1>1, <2>1
  <2> QED BY <1>1, <1>3, <2>2, LeaveIs, RestHolds DEF Rest
<1>7. Waiting'
  BY <1>1, <1>3, NoBatchIs DEF IInv, Waiting
<1> QED BY <1>3, <1>4, <1>5, <1>6, <1>7, StepKeeps

----------------------------------------------------------------------------
\* Operations that are issued, written and brought in.

LEMMA WriteLineKeeps ==
  ASSUME IInv, WriteLine
  PROVE  IInv'
<1> DEFINE t    == Head(batch.todo)
           done == Append(batch.entries, t)
<1>1. /\ batch.todo # <<>>
      /\ file' = [file EXCEPT ![Me] = Put(@, loose[Me], t)]
      /\ loose' = [loose EXCEPT ![Me] = FALSE]
      /\ batch' = [batch EXCEPT !.todo = Tail(@), !.entries = done]
      /\ durable' = durable \/ durable' = durable \cup {done[i] : i \in 1..Len(done)}
      /\ UNCHANGED <<issued, offsets, nodes, store, writer, compact, settled,
                     faults, dropped, excuses>>
  BY DEF WriteLine
<1>2. batch # NoBatch
  BY <1>1, NoBatchIs
<1>3. /\ writer \in Storage /\ store[writer].at = "up" /\ ~ Exclusive
      /\ compact.at # "checked" /\ batch \in Batch
      /\ batch.todo \in Seq(Ts) /\ batch.entries \in Seq(Ts)
  BY <1>2, Appending
<1>4. /\ t \in Ts /\ Tail(batch.todo) \in Seq(Ts) /\ t = batch.todo[1]
      /\ 1 \in 1..Len(batch.todo)
      /\ \A i \in 1..Len(Tail(batch.todo)) :
           i + 1 \in 1..Len(batch.todo) /\ Tail(batch.todo)[i] = batch.todo[i + 1]
  BY <1>1, <1>3, SmallerTail
<1>5. /\ Author[t] = Me /\ issued[t] # None /\ \A u \in dropped : u < t
  BY <1>4 DEF IInv, Waiting
<1>6. /\ done \in Seq(Ts)
      /\ \A i \in 1..Len(done) : done[i] = t \/
           \E j \in 1..Len(batch.entries) : done[i] = batch.entries[j]
  BY <1>3, <1>4
<1> HIDE DEF t, done
<1>7. /\ Own' /\ Planned' /\ Gone'
      /\ OnDisk' = OnDisk \cup ({t} \ {Torn})
      /\ History' = History \cup ({t} \ {Torn})
      /\ file' \in [Actor -> Seq(Line)]
      /\ \A b \in Actor \ {Me} : file'[b] = file[b]
  <2>1. t \in Line /\ issued' \in [Ts -> Op \cup {None}] /\ Issued' = Issued
    BY <1>1, <1>4 DEF Line, IInv, TypeOK, Issued
  <2>2. Me \in Actor
    BY Timestamps
  <2>3. file' = [file EXCEPT ![Me] = Append(@, t)]
    BY <1>1 DEF Put
  <2>4. /\ UNCHANGED <<dropped, settled, compact>>
        /\ \A u \in Ts : issued[u] # None => issued'[u] = issued[u]
        /\ t # Torn => Author[t] = Me /\ issued'[t] # None
        /\ t # Torn => \A u \in dropped : u < t
        /\ \A u \in Issued' \ Issued :
             Author[u] # Me /\ u <= settled => u = t
    BY <1>1, <1>5, <2>1
  <2> QED BY <1>3, <2>1, <2>2, <2>3, <2>4, LogGrows
<1>8. \A i \in 1..Len(done) : done[i] \in History'
  <2>1. t \in History'
    BY <1>4, <1>7, Timestamps
  <2>2. \A j \in 1..Len(batch.entries) : batch.entries[j] \in History
    BY DEF IInv, Waiting
  <2> QED BY <1>6, <1>7, <2>1, <2>2
<1>9. batch' \in Batch /\ batch'.todo = Tail(batch.todo) /\ batch'.entries = done
  BY <1>1, <1>3, <1>4, <1>6 DEF Batch
<1>10. Shapes'
  BY <1>1, <1>7, <1>9 DEF IInv, Shapes
<1>11. Locked'
  <2>1. ~ Exclusive' /\ compact'.at # "checked"
    BY <1>1, <1>3 DEF Exclusive
  <2>2. writer # None
    BY <1>3, FilesConstants
  <2> QED BY <1>1, <1>3, <2>1, <2>2 DEF Locked
<1>12. Rest'
  <2>1. \A b \in Actor :
          loose'[b] => file'[b] # <<>> /\ file'[b][Len(file'[b])] = Torn
    <3>1. loose \in [Actor -> BOOLEAN]
      BY DEF IInv, Shapes
    <3> QED BY <1>1, <1>7, <3>1, RestHolds DEF Rest
  <2>2. durable' \subseteq Ts
    BY <1>1, <1>6 DEF IInv, TypeOK
  <2> QED BY <1>1, <2>1, <2>2, RestHolds DEF Rest
<1>13. Waiting'
  <2>1. ASSUME NEW i \in 1..Len(batch'.todo)
        PROVE  /\ Author[batch'.todo[i]] = Me /\ issued'[batch'.todo[i]] # None
               /\ \A u \in dropped' : u < batch'.todo[i]
    <3>1. i + 1 \in 1..Len(batch.todo) /\ batch'.todo[i] = batch.todo[i + 1]
      BY <1>4, <1>9
    <3> QED BY <1>1, <3>1 DEF IInv, Waiting
  <2> QED BY <2>1, <1>8, <1>9 DEF Waiting
<1>14. NothingDurableLost'
  <2>1. \A u \in durable' : u \in History'
    BY <1>1, <1>7, <1>8 DEF IInv, NothingDurableLost, History
  <2> QED BY <1>1, <2>1 DEF NothingDurableLost, History
<1> QED BY <1>7, <1>10, <1>11, <1>12, <1>13, <1>14, StepKeeps

\* Operations of this device are issued, and no file changes.
LEMMA IssueKeeps ==
  ASSUME IInv, UNCHANGED <<file, dropped, settled, compact, durable>>,
         issued' \in [Ts -> Op \cup {None}],
         \A t \in Ts : issued[t] # None => issued'[t] = issued[t],
         \A t \in Issued' \ Issued : Author[t] = Me
  PROVE  Own' /\ Planned' /\ Gone' /\ NothingDurableLost' /\ History' = History
<1>1. OnDisk' = OnDisk /\ History' = History /\ Sizes' = Sizes
  BY DEF OnDisk, History, Sizes
<1>2. \A t \in History : t \in Ts /\ issued[t] # None /\ issued'[t] = issued[t]
  BY HistoryTyped
<1>3. \A t \in OnDisk : t \in History
  BY HistoryTyped
<1>4. Own' /\ NothingDurableLost'
  <2>1. \A b \in Actor : \A t \in Whole(file[b]) : t \in History
    BY DEF History, OnDisk
  <2> QED BY <1>1, <1>2, <2>1 DEF IInv, Own, NothingDurableLost
<1>5. Planned'
  <2>1. ASSUME Fits PROVE Fits'
    <3> SUFFICES ASSUME NEW t \in compact.drops
                 PROVE  /\ t \in Whole(file[Me]) /\ t <= settled
                        /\ NoEffect(EmptyTree, issued', OnDisk, t)
      BY <1>1 DEF Fits
    <3>1. /\ t \in Whole(file[Me]) /\ t <= settled
          /\ NoEffect(EmptyTree, issued, OnDisk, t)
      BY <2>1 DEF Fits
    <3>2. t \in OnDisk
      BY <3>1, Timestamps DEF OnDisk
    <3>3. /\ issued'[t] = issued[t]
          /\ \A u \in Below(OnDisk, t) : issued'[u] = issued[u]
      BY <1>2, <1>3, <3>2 DEF Below
    <3> QED BY <3>1, <3>3, NoEffectStays
  <2> QED BY <1>1, <2>1 DEF IInv, Planned
<1>6. Gone'
  <2>1. ASSUME NEW t \in dropped
        PROVE  NoEffect(EmptyTree, issued', History', t)
    <3>1. t \in History /\ NoEffect(EmptyTree, issued, History, t)
      BY DEF IInv, Gone, History
    <3>2. /\ issued'[t] = issued[t]
          /\ \A u \in Below(History, t) : issued'[u] = issued[u]
      BY <1>2, <3>1 DEF Below
    <3> QED BY <1>1, <3>1, <3>2, NoEffectStays
  <2>2. \A t \in dropped :
          t \in Ts /\ Author[t] = Me /\ issued'[t] # None /\ t <= settled
    BY <1>2 DEF IInv, Gone, History
  <2>3. \A t \in Issued' : Author[t] # Me /\ t <= settled => t \in OnDisk'
    BY <1>1 DEF IInv, Gone
  <2> QED BY <2>1, <2>2, <2>3 DEF Gone
<1> QED BY <1>1, <1>4, <1>5, <1>6

\* What an append starts with is issued, and newer than all that was dropped.
BatchOf(todo) ==
  /\ todo \in Seq(Ts) /\ batch' = [NoBatch EXCEPT !.todo = todo, !.from = Len(file[Me])]
  /\ issued' \in [Ts -> Op \cup {None}]
  /\ \A t \in Ts : issued[t] # None => issued'[t] = issued[t]
  /\ \A t \in Issued' \ Issued : Author[t] = Me
  /\ \A i \in 1..Len(todo) : /\ Author[todo[i]] = Me /\ issued'[todo[i]] # None
                             /\ \A t \in dropped : t < todo[i]

LEMMA FresherIs ==
  ASSUME IInv, NEW p, NEW t \in Fresher(p)
  PROVE  /\ t \in Ts /\ Author[t] = Me /\ issued[t] = None
         /\ \A u \in dropped : u < t
<1>1. \A u \in dropped : u \in Issued /\ Author[u] = Me
  BY DEF IInv, Gone, Issued
<1> QED BY <1>1 DEF Fresher

LEMMA Append1Is ==
  ASSUME IInv, NEW p, Append1(p)
  PROVE  \E todo : BatchOf(todo)
<1>1. PICK t \in Fresher(p), op \in Op :
        /\ issued' = [issued EXCEPT ![t] = op]
        /\ batch' = [NoBatch EXCEPT !.todo = <<t>>, !.from = Len(file[Me])]
  <2>1. \A t \in Fresher(p) : LocalOps[t] \subseteq Op
    BY FilesConstants, FresherIs
  <2> QED BY <2>1 DEF Append1
<1>2. /\ t \in Ts /\ Author[t] = Me /\ issued[t] = None
      /\ \A u \in dropped : u < t
  BY FresherIs
<1>3. issued \in [Ts -> Op \cup {None}] /\ op # None
  BY FilesConstants DEF IInv, TypeOK
<1>4. /\ issued' \in [Ts -> Op \cup {None}] /\ issued'[t] # None
      /\ \A u \in Ts : issued[u] # None => issued'[u] = issued[u]
      /\ \A u \in Issued' \ Issued : Author[u] = Me
  BY <1>1, <1>2, <1>3 DEF Issued
<1>5. /\ <<t>> \in Seq(Ts)
      /\ \A i \in 1..Len(<<t>>) : <<t>>[i] = t
  BY <1>2
<1>6. \A i \in 1..Len(<<t>>) :
        /\ Author[<<t>>[i]] = Me /\ issued'[<<t>>[i]] # None
        /\ \A u \in dropped : u < <<t>>[i]
  BY <1>2, <1>4, <1>5
<1>7. BatchOf(<<t>>)
  BY <1>1, <1>4, <1>5, <1>6 DEF BatchOf
<1> QED BY <1>7

LEMMA Append2Is ==
  ASSUME IInv, NEW p, Append2(p)
  PROVE  \E todo : BatchOf(todo)
<1>1. PICK t \in Fresher(p), u \in Fresher(p), op \in Op, mv \in Op :
        /\ issued' = [issued EXCEPT ![t] = op, ![u] = mv]
        /\ batch' = [NoBatch EXCEPT !.todo = <<t, u>>, !.from = Len(file[Me])]
  <2>1. \A t \in Fresher(p) : LocalOps[t] \subseteq Op
    BY FilesConstants, FresherIs
  <2> DEFINE Chosen(t, u, op, mv) ==
           /\ t < u /\ op.kind = "Create" /\ Possible(t, op)
           /\ mv = [op EXCEPT !.kind = "Move"]
         Taken(t, u, op, mv) ==
           /\ issued' = [issued EXCEPT ![t] = op, ![u] = mv]
           /\ batch' = [NoBatch EXCEPT !.todo = <<t, u>>, !.from = Len(file[Me])]
  <2>2. \E t, u \in Fresher(p) : \E op \in LocalOps[t], mv \in LocalOps[u] :
          Chosen(t, u, op, mv) /\ Taken(t, u, op, mv)
    BY DEF Append2
  <2>3. PICK t \in Fresher(p), u \in Fresher(p) :
          \E op \in LocalOps[t], mv \in LocalOps[u] : Taken(t, u, op, mv)
    <3> HIDE DEF Chosen, Taken
    <3> QED BY <2>2
  <2>4. PICK op \in LocalOps[t], mv \in LocalOps[u] :
          /\ issued' = [issued EXCEPT ![t] = op, ![u] = mv]
          /\ batch' = [NoBatch EXCEPT !.todo = <<t, u>>, !.from = Len(file[Me])]
    BY <2>3
  <2> QED BY <2>1, <2>4
<1>2. /\ t \in Ts /\ Author[t] = Me /\ issued[t] = None
      /\ u \in Ts /\ Author[u] = Me /\ issued[u] = None
      /\ \A v \in dropped : v < t /\ v < u
  BY FresherIs
<1>3. issued \in [Ts -> Op \cup {None}] /\ op # None /\ mv # None
  BY FilesConstants DEF IInv, TypeOK
<1>4. /\ issued' \in [Ts -> Op \cup {None}]
      /\ issued'[t] # None /\ issued'[u] # None
      /\ \A v \in Ts : issued[v] # None => issued'[v] = issued[v]
      /\ \A v \in Issued' \ Issued : Author[v] = Me
  BY <1>1, <1>2, <1>3 DEF Issued
<1>5. /\ <<t, u>> \in Seq(Ts)
      /\ \A i \in 1..Len(<<t, u>>) : <<t, u>>[i] \in {t, u}
  BY <1>2
<1>6. \A i \in 1..Len(<<t, u>>) :
        /\ Author[<<t, u>>[i]] = Me /\ issued'[<<t, u>>[i]] # None
        /\ \A v \in dropped : v < <<t, u>>[i]
  BY <1>2, <1>4, <1>5
<1>7. BatchOf(<<t, u>>)
  BY <1>1, <1>4, <1>5, <1>6 DEF BatchOf
<1> QED BY <1>7

LEMMA BeginKeeps ==
  ASSUME IInv, NEW p \in Storage, Begin(p)
  PROVE  IInv'
<1>1. /\ store[p].at = "up" /\ writer = p
      /\ UNCHANGED <<file, loose, offsets, nodes, store, writer, compact,
                     settled, faults, durable, dropped, excuses>>
  BY DEF Begin
<1>2. PICK todo : BatchOf(todo)
  BY Append1Is, Append2Is DEF Begin
<1>3. /\ todo \in Seq(Ts) /\ issued' \in [Ts -> Op \cup {None}]
      /\ \A t \in Ts : issued[t] # None => issued'[t] = issued[t]
      /\ \A t \in Issued' \ Issued : Author[t] = Me
      /\ \A i \in 1..Len(todo) : /\ Author[todo[i]] = Me /\ issued'[todo[i]] # None
                                 /\ \A t \in dropped : t < todo[i]
  BY <1>2 DEF BatchOf
<1>4. Own' /\ Planned' /\ Gone' /\ NothingDurableLost' /\ History' = History
  BY <1>1, <1>3, IssueKeeps
<1>5. batch' \in Batch /\ batch'.todo = todo /\ batch'.entries = <<>>
  <2>1. Len(file[Me]) \in Nat
    BY Timestamps DEF IInv, Shapes
  <2>2. batch' = [NoBatch EXCEPT !.todo = todo, !.from = Len(file[Me])]
    BY <1>2 DEF BatchOf
  <2>3. batch' = [todo |-> todo, entries |-> <<>>, part |-> "offset",
                  from |-> Len(file[Me])]
    BY <2>2 DEF NoBatch
  <2>4. <<>> \in Seq(Ts)
    OBVIOUS
  <2> QED BY <1>3, <2>1, <2>3, <2>4 DEF Batch
<1>6. Shapes'
  BY <1>1, <1>5 DEF IInv, Shapes
<1>7. Locked'
  <2>1. ~ Exclusive /\ compact.at # "checked"
    BY <1>1 DEF IInv, Locked, Alone, Exclusive
  <2>2. ~ Exclusive' /\ compact'.at # "checked"
    BY <1>1, <2>1 DEF Exclusive
  <2> QED BY <1>1, <2>2, FilesConstants DEF IInv, Locked
<1>8. Rest'
  BY <1>1, <1>3, RestHolds DEF Rest
<1>9. Waiting'
  BY <1>1, <1>3, <1>5 DEF Waiting
<1> QED BY <1>4, <1>6, <1>7, <1>8, <1>9, StepKeeps

\* An operation of a peer comes in: it is newer than the horizon, or it was
\* issued before and is not yet on disk, which is the same.
LEMMA IngestKeeps ==
  ASSUME IInv, NEW p \in Storage, NEW t \in Ts, NEW op \in LocalOps[t],
         Ingest(p, t, op)
  PROVE  IInv'
<1> DEFINE a == Author[t]
<1>1. /\ store[p].at = "up" /\ a # Me /\ t \notin OnDisk /\ Arrives(t, op)
      /\ file' = [file EXCEPT ![a] = Append(@, t)]
      /\ loose' = [loose EXCEPT ![a] = FALSE]
      /\ durable' = durable \cup {t}
      /\ UNCHANGED <<offsets, nodes, store, writer, batch, compact, settled,
                     faults, dropped, excuses>>
  BY DEF Ingest, Put
<1>2. /\ op \in Op /\ op # None /\ a \in Actor /\ t \in Line /\ t \in Nat
      /\ t # Torn
  BY Timestamps, FilesConstants DEF Line
<1>3. ~ Exclusive /\ compact.at # "checked"
  BY <1>1 DEF IInv, Locked, Alone, Exclusive
<1>4. issued \in [Ts -> Op \cup {None}] /\ settled \in Nat
  BY DEF IInv, TypeOK
<1>5. \/ issued' = issued /\ issued[t] # None
      \/ issued' = [issued EXCEPT ![t] = op] /\ issued[t] = None /\ t > settled
  <2>1. CASE issued[t] = None
    BY <1>1, <2>1 DEF Arrives
  <2>2. CASE issued[t] # None
    BY <1>1, <2>2 DEF Arrives
  <2> QED BY <2>1, <2>2
<1>6. /\ issued' \in [Ts -> Op \cup {None}] /\ issued'[t] # None
      /\ \A u \in Ts : issued[u] # None => issued'[u] = issued[u]
      /\ \A u \in Issued' \ Issued : u = t
  BY <1>2, <1>4, <1>5 DEF Issued
<1>7. t > settled
  <2>1. issued[t] # None /\ t <= settled => t \in OnDisk
    BY <1>1 DEF IInv, Gone, Issued
  <2> QED BY <1>1, <1>2, <1>4, <1>5, <2>1
<1>8. \A u \in dropped : u < t
  <2>1. \A u \in dropped : u \in Nat /\ u <= settled
    BY Timestamps DEF IInv, Gone
  <2> QED BY <1>2, <1>4, <1>7, <2>1
<1> HIDE DEF a
<1>9. /\ Own' /\ Planned' /\ Gone'
      /\ History' = History \cup ({t} \ {Torn})
      /\ OnDisk' = OnDisk \cup ({t} \ {Torn})
      /\ file' \in [Actor -> Seq(Line)]
      /\ \A b \in Actor \ {a} : file'[b] = file[b]
  <2>1. /\ UNCHANGED <<dropped, settled, compact>>
        /\ t # Torn => Author[t] = a /\ issued'[t] # None
        /\ t # Torn => \A u \in dropped : u < t
        /\ \A u \in Issued' \ Issued :
             Author[u] # Me /\ u <= settled => u = t
    BY <1>1, <1>6, <1>8 DEF a
  <2> QED BY <1>1, <1>2, <1>3, <1>6, <2>1, LogGrows, ZenonT(60)
<1>10. Shapes'
  <2>1. loose \in [Actor -> BOOLEAN]
    BY DEF IInv, Shapes
  <2>2. loose' \in [Actor -> BOOLEAN]
    BY <1>1, <2>1
  <2> QED BY <1>1, <1>9, <2>2 DEF IInv, Shapes
<1>11. Locked'
  <2>1. ~ Exclusive' /\ compact'.at # "checked"
    BY <1>1, <1>3 DEF Exclusive
  <2> QED BY <1>1, <2>1 DEF IInv, Locked
<1>12. Rest'
  <2>1. \A b \in Actor :
          loose'[b] => file'[b] # <<>> /\ file'[b][Len(file'[b])] = Torn
    <3>1. loose \in [Actor -> BOOLEAN]
      BY DEF IInv, Shapes
    <3> QED BY <1>1, <1>9, <3>1, RestHolds DEF Rest
  <2>2. durable' \subseteq Ts
    BY <1>1 DEF IInv, TypeOK
  <2> QED BY <1>1, <1>6, <2>1, <2>2, RestHolds DEF Rest
<1>13. Waiting'
  <2>1. \A i \in 1..Len(batch.todo) :
          issued[batch.todo[i]] # None => issued'[batch.todo[i]] # None
    <3>1. batch.todo \in Seq(Ts)
      BY DEF IInv, Shapes, Batch
    <3> QED BY <1>6, <3>1
  <2> QED BY <1>1, <1>9, <2>1 DEF IInv, Waiting
<1>14. NothingDurableLost'
  <2>1. \A u \in durable' : u \in History'
    BY <1>1, <1>2, <1>9 DEF IInv, NothingDurableLost, History
  <2> QED BY <1>1, <2>1 DEF NothingDurableLost, History
<1> QED BY <1>9, <1>10, <1>11, <1>12, <1>13, <1>14, StepKeeps

----------------------------------------------------------------------------
\* outl compact.

LEMMA PlanKeeps ==
  ASSUME IInv, NEW cutoff \in Ts, Plan(cutoff)
  PROVE  IInv'
<1> DEFINE drops == {t \in Whole(file[Me]) : Droppable(t, cutoff)}
<1>1. /\ compact.at = "idle" /\ Alone
      /\ \A t \in Issued : Author[t] # Me /\ t <= cutoff => t \in OnDisk
      /\ compact' = [at |-> "planned", drops |-> drops, sizes |-> Sizes]
      /\ settled' = IF cutoff > settled THEN cutoff ELSE settled
      /\ UNCHANGED <<issued, file, loose, offsets, nodes, store, writer,
                     batch, faults, durable, dropped, excuses>>
  BY DEF Plan
<1>2. /\ file \in [Actor -> Seq(Line)] /\ Me \in Actor /\ cutoff \in Nat
      /\ settled \in Nat
  BY Timestamps DEF IInv, Shapes, TypeOK
<1>3. OnDisk' = OnDisk /\ History' = History /\ Sizes' = Sizes
  BY <1>1 DEF OnDisk, History, Sizes
<1>4. \A t \in drops : t \in Whole(file[Me]) /\ t \in OnDisk /\ t \in Ts
  <2>1. \A t \in Whole(file[Me]) : t \in OnDisk
    BY <1>2 DEF OnDisk
  <2> QED BY <2>1, HistoryTyped
<1>5. /\ settled' \in Nat /\ settled <= settled' /\ cutoff <= settled'
      /\ settled' = settled \/ settled' = cutoff
  BY <1>1, <1>2
<1>6. compact' \in Compaction
  <2>1. Sizes \in [Actor -> Nat]
    BY <1>2 DEF Sizes
  <2>2. drops \in SUBSET Ts
    BY <1>4
  <2> HIDE DEF drops
  <2> QED BY <1>1, <2>1, <2>2 DEF Compaction
<1>7. Shapes'
  BY <1>1, <1>6 DEF IInv, Shapes
<1>8. Locked'
  BY <1>1 DEF IInv, Locked, Exclusive
<1>9. Rest'
  BY <1>1, <1>5, RestHolds DEF Rest
<1>10. Planned'
  <2>1. ASSUME NEW t \in drops
        PROVE  /\ t <= settled' /\ NoEffect(EmptyTree, issued, OnDisk, t)
    <3>1. \A u \in OnDisk : u \in Ts /\ issued[u] \in Op
      BY HistoryTyped
    <3>2. NoEffect(EmptyTree, issued, OnDisk, t)
      BY <1>4, <3>1, DroppableHasNoEffect
    <3>3. t <= cutoff /\ t \in Nat
      BY <1>4, Timestamps DEF Droppable
    <3> QED BY <1>2, <1>5, <3>2, <3>3
  <2>2. Fits'
    <3> SUFFICES ASSUME NEW t \in compact'.drops
                 PROVE  /\ t \in Whole(file'[Me]) /\ t <= settled'
                        /\ NoEffect(EmptyTree, issued', OnDisk', t)
      BY DEF Fits
    <3>1. t \in drops
      BY <1>1
    <3> HIDE DEF drops
    <3> QED BY <1>1, <1>3, <1>4, <2>1, <3>1
  <2>3. \A a \in Actor : compact'.sizes[a] <= Len(file'[a])
    BY <1>1, <1>2 DEF Sizes
  <2> QED BY <1>1, <2>2, <2>3 DEF Planned
<1>11. Gone'
  <2>1. \A t \in dropped : t <= settled'
    <3>1. \A t \in dropped : t <= settled /\ t \in Nat
      BY Timestamps DEF IInv, Gone
    <3> QED BY <1>2, <1>5, <3>1
  <2>2. \A t \in Issued : Author[t] # Me /\ t <= settled' => t \in OnDisk
    BY <1>1, <1>5 DEF IInv, Gone
  <2>3. Issued' = Issued
    BY <1>1 DEF Issued
  <2> QED BY <1>1, <1>3, <2>1, <2>2, <2>3 DEF IInv, Gone
<1>12. Own' /\ NothingDurableLost'
  BY <1>1, <1>3 DEF IInv, Own, NothingDurableLost
<1> QED BY <1>1, <1>7, <1>8, <1>9, <1>10, <1>11, <1>12, WaitingStays, StepKeeps

\* A step of outl compact that rewrites no file and makes no plan.
LEMMA CompactMoves ==
  ASSUME IInv,
         UNCHANGED <<issued, file, loose, store, writer, batch, settled,
                     durable, dropped>>,
         compact' \in Compaction, compact'.at # "planned",
         Exclusive' => Alone,
         compact'.at = "checked" => /\ ~ Damaged /\ Fits
                                    /\ compact'.drops = compact.drops,
         offsets' \in [Actor -> Index \cup {None}],
         nodes' \in [Actor -> Index \cup {None}],
         faults' \in 0..MaxFaults, excuses' \subseteq Excuse
  PROVE  IInv'
<1>1. /\ OnDisk' = OnDisk /\ History' = History /\ Issued' = Issued
      /\ Alone' = Alone /\ Damaged' = Damaged
  BY DEF OnDisk, History, Issued, Alone, Damaged
<1>2. Shapes'
  BY DEF IInv, Shapes
<1>3. Locked'
  BY <1>1 DEF IInv, Locked
<1>4. Rest'
  BY RestHolds DEF Rest
<1>5. Planned'
  BY <1>1 DEF Planned, Fits
<1>6. Gone' /\ Own' /\ NothingDurableLost'
  BY <1>1 DEF IInv, Gone, Own, NothingDurableLost
<1> QED BY <1>2, <1>3, <1>4, <1>5, <1>6, WaitingStays, StepKeeps

LEMMA NoCompactIs ==
  NoCompact \in Compaction /\ NoCompact.at = "idle"
BY DEF NoCompact, Compaction

LEMMA CheckKeeps ==
  ASSUME IInv, Check
  PROVE  IInv'
<1>1. /\ compact.at = "planned"
      /\ compact' = IF Alone /\ compact.sizes = Sizes /\ ~ Damaged
                    THEN [compact EXCEPT !.at = "checked"] ELSE NoCompact
      /\ UNCHANGED <<issued, file, loose, offsets, nodes, store, writer, batch,
                     settled, faults, durable, dropped, excuses>>
  BY DEF Check
<1>2. /\ compact \in Compaction
      /\ offsets' \in [Actor -> Index \cup {None}]
      /\ nodes' \in [Actor -> Index \cup {None}]
      /\ faults' \in 0..MaxFaults /\ excuses' \subseteq Excuse
  BY <1>1 DEF IInv, Shapes, TypeOK
<1>3. CASE Alone /\ compact.sizes = Sizes /\ ~ Damaged
  <2>1. compact' = [compact EXCEPT !.at = "checked"]
    BY <1>1, <1>3
  <2>2. /\ compact' \in Compaction /\ compact'.at = "checked"
        /\ compact'.drops = compact.drops
    BY <1>2, <2>1 DEF Compaction
  <2>3. Fits
    BY <1>1, <1>3 DEF IInv, Planned
  <2> QED BY <1>1, <1>2, <1>3, <2>2, <2>3, CompactMoves
<1>4. CASE ~ (Alone /\ compact.sizes = Sizes /\ ~ Damaged)
  <2>1. compact' = NoCompact
    BY <1>1, <1>4
  <2>2. compact' \in Compaction /\ compact'.at = "idle"
    BY <2>1, NoCompactIs
  <2>3. ~ Exclusive'
    BY <2>2 DEF Exclusive
  <2> QED BY <1>1, <1>2, <2>2, <2>3, CompactMoves
<1> QED BY <1>3, <1>4

LEMMA CompactClears ==
  ASSUME IInv, DropOffsets \/ DropNodes \/ CompactEnds
  PROVE  IInv'
<1>1. /\ offsets \in [Actor -> Index \cup {None}]
      /\ nodes \in [Actor -> Index \cup {None}]
      /\ faults \in 0..MaxFaults /\ excuses \subseteq Excuse
      /\ compact \in Compaction
      /\ Exclusive => Alone
  BY DEF IInv, Shapes, TypeOK, Locked
<1>2. /\ [offsets EXCEPT ![Me] = None] \in [Actor -> Index \cup {None}]
      /\ [nodes EXCEPT ![Me] = None] \in [Actor -> Index \cup {None}]
  BY <1>1
<1>3. ASSUME compact' = NoCompact
      PROVE  /\ compact' \in Compaction /\ compact'.at = "idle"
             /\ ~ Exclusive'
  BY <1>3, NoCompactIs DEF Exclusive
<1>4. CASE DropOffsets
  <2>1. /\ compact.at = "renamed" /\ compact' = [compact EXCEPT !.at = "half"]
        /\ offsets' = [offsets EXCEPT ![Me] = None]
        /\ UNCHANGED <<issued, file, loose, nodes, store, writer, batch,
                       settled, faults, durable, dropped, excuses>>
    BY <1>4 DEF DropOffsets
  <2>2. compact' \in Compaction /\ compact'.at = "half"
    BY <1>1, <2>1 DEF Compaction
  <2>3. Alone
    BY <1>1, <2>1 DEF Exclusive
  <2> QED BY <1>1, <1>2, <2>1, <2>2, <2>3, CompactMoves
<1>5. CASE DropNodes
  <2>1. /\ compact' = NoCompact /\ nodes' = [nodes EXCEPT ![Me] = None]
        /\ UNCHANGED <<issued, file, loose, offsets, store, writer, batch,
                       settled, faults, durable, dropped, excuses>>
    BY <1>5 DEF DropNodes
  <2> QED BY <1>1, <1>2, <1>3, <2>1, CompactMoves
<1>6. CASE CompactEnds
  <2>1. /\ Fault /\ compact' = NoCompact
        /\ UNCHANGED <<issued, file, loose, offsets, nodes, store, writer,
                       batch, settled, durable, dropped>>
        /\ excuses' \subseteq Excuse
    BY <1>1, <1>6 DEF CompactEnds, Excuse
  <2>2. faults' \in 0..MaxFaults
    BY <1>1, <2>1, FilesConstants DEF Fault
  <2> QED BY <1>1, <1>3, <2>1, <2>2, CompactMoves
<1> QED BY <1>4, <1>5, <1>6

\* The rewrite moves operations from the disk to the dropped ones.
LEMMA RenameKeeps ==
  ASSUME IInv, Rename
  PROVE  IInv'
<1> DEFINE drops == compact.drops
<1>1. /\ compact.at = "checked"
      /\ file' = [file EXCEPT ![Me] = Kept(@, drops)]
      /\ compact' = [compact EXCEPT !.at = "renamed"]
      /\ dropped' = dropped \cup drops
      /\ UNCHANGED <<issued, loose, offsets, nodes, store, writer, batch,
                     settled, faults, durable, excuses>>
  BY DEF Rename
<1>2. /\ file \in [Actor -> Seq(Line)] /\ file[Me] \in Seq(Line)
      /\ Me \in Actor /\ compact \in Compaction /\ drops \in SUBSET Ts
  BY Timestamps DEF IInv, Shapes, Compaction
<1>3. Alone /\ ~ Damaged
  BY <1>1 DEF IInv, Locked, Exclusive
<1>4. batch = NoBatch
  BY <1>3 DEF IInv, TypeOK, Locked, Alone
<1>5. \A t \in drops : /\ t \in Whole(file[Me]) /\ t \in OnDisk /\ t <= settled
                       /\ NoEffect(EmptyTree, issued, OnDisk, t)
                       /\ t \in Ts /\ Author[t] = Me /\ issued[t] # None
  <2>1. \A t \in drops : /\ t \in Whole(file[Me]) /\ t <= settled
                         /\ NoEffect(EmptyTree, issued, OnDisk, t)
    BY <1>1 DEF IInv, Planned, Fits
  <2>2. \A t \in Whole(file[Me]) :
          t \in OnDisk /\ Author[t] = Me /\ issued[t] # None
    BY <1>2 DEF OnDisk, IInv, Own
  <2> QED BY <1>2, <2>1, <2>2
<1>6. /\ file' \in [Actor -> Seq(Line)]
      /\ Whole(file'[Me]) = Whole(file[Me]) \ drops
      /\ \A a \in Actor \ {Me} : file'[a] = file[a]
  <2>1. /\ Kept(file[Me], drops) \in Seq(Line)
        /\ Whole(Kept(file[Me], drops)) = Whole(file[Me]) \ drops
    BY <1>2, KeptIs
  <2> HIDE DEF drops
  <2> QED BY <1>1, <1>2, <2>1
<1> HIDE DEF drops
<1>7. \A a \in Actor : Whole(file'[a]) \subseteq Whole(file[a])
  BY <1>6
<1>8. OnDisk' \subseteq OnDisk /\ OnDisk \subseteq OnDisk' \cup drops
  <2>1. \A t \in OnDisk' : t \in OnDisk
    BY <1>7 DEF OnDisk
  <2>2. ASSUME NEW t \in OnDisk, t \notin drops PROVE t \in OnDisk'
    <3>1. PICK a \in Actor : t \in Whole(file[a])
      BY DEF OnDisk
    <3>2. t \in Whole(file'[a])
      BY <1>6, <2>2, <3>1
    <3> QED BY <3>2 DEF OnDisk
  <2> QED BY <2>1, <2>2
<1>9. History' = History
  BY <1>1, <1>5, <1>8 DEF History
<1>10. Shapes'
  <2>1. compact' \in Compaction
    BY <1>1, <1>2 DEF Compaction
  <2> QED BY <1>1, <1>6, <2>1 DEF IInv, Shapes
<1>11. compact'.at = "renamed"
  BY <1>1, <1>2 DEF Compaction
<1>12. Locked'
  BY <1>1, <1>3, <1>11 DEF IInv, Locked, Alone
<1>13. Own'
  BY <1>1, <1>7 DEF IInv, Own
<1>14. Rest'
  <2>1. \A a \in Actor :
          loose[a] => file[a] # <<>> /\ file[a][Len(file[a])] = Torn
    BY RestHolds DEF Rest
  <2>2. ~ loose[Me]
    <3>1. file[Me] # <<>> => Len(file[Me]) \in 1..Len(file[Me])
      BY <1>2
    <3> QED BY <1>2, <1>3, <2>1, <3>1 DEF Damaged
  <2>3. dropped' \subseteq Ts
    BY <1>1, <1>2, RestHolds DEF Rest
  <2>4. \A a \in Actor :
          loose'[a] => file'[a] # <<>> /\ file'[a][Len(file'[a])] = Torn
    BY <1>1, <1>6, <2>1, <2>2
  <2> QED BY <1>1, <2>3, <2>4, RestHolds DEF Rest
<1>15. Waiting'
  BY <1>1, <1>4, NoBatchIs DEF Waiting
<1>16. Planned'
  BY <1>11 DEF Planned
<1>17. Gone'
  <2>1. ASSUME NEW t \in dropped'
        PROVE  /\ t \in Ts /\ Author[t] = Me /\ issued[t] # None /\ t <= settled
               /\ NoEffect(EmptyTree, issued, History, t)
    <3>1. CASE t \in dropped
      BY <3>1 DEF IInv, Gone
    <3>2. CASE t \in drops
      BY <1>5, <3>2, FitsHistory
    <3> QED BY <1>1, <3>1, <3>2
  <2>2. ASSUME NEW t \in Issued, Author[t] # Me, t <= settled
        PROVE  t \in OnDisk'
    <3>1. t \in OnDisk
      BY <2>2 DEF IInv, Gone
    <3>2. t \notin drops
      BY <1>5, <2>2
    <3> QED BY <1>8, <3>1, <3>2
  <2>3. Issued' = Issued
    BY <1>1 DEF Issued
  <2> QED BY <1>1, <1>9, <2>1, <2>2, <2>3 DEF Gone
<1>18. NothingDurableLost'
  BY <1>1, <1>9 DEF IInv, NothingDurableLost, History
<1> QED BY <1>10, <1>12, <1>13, <1>14, <1>15, <1>16, <1>17, <1>18, StepKeeps

----------------------------------------------------------------------------
LEMMA InitHolds ==
  Init => IInv
<1> SUFFICES ASSUME Init PROVE IInv
  OBVIOUS
<1>1. /\ issued = [t \in Ts |-> None]
      /\ file = [a \in Actor |-> <<>>] /\ loose = [a \in Actor |-> FALSE]
      /\ offsets = [a \in Actor |-> None] /\ nodes = [a \in Actor |-> None]
      /\ store = [p \in Storage |-> Down] /\ writer = None /\ batch = NoBatch
      /\ compact = NoCompact /\ settled = 0 /\ faults = MaxFaults
      /\ durable = {} /\ dropped = {} /\ excuses = {}
  BY DEF Init
<1>2. Down \in Slot /\ Down.at = "down"
  BY NothingIsIndex, Timestamps DEF Down, Slot
<1>3. Shapes
  <2>1. <<>> \in Seq(Line)
    OBVIOUS
  <2> QED BY <1>1, <1>2, <2>1, NoBatchIs, NoCompactIs DEF Shapes
<1>4. Locked
  BY <1>1, NoCompactIs DEF Locked, Exclusive
<1>5. Rest
  <2>1. /\ issued \in [Ts -> Op \cup {None}] /\ writer \in Storage \cup {None}
        /\ settled \in Nat /\ faults \in 0..MaxFaults
        /\ durable \subseteq Ts /\ dropped \subseteq Ts /\ excuses \subseteq Excuse
    <3>1. issued \in [Ts -> Op \cup {None}] /\ writer \in Storage \cup {None}
      BY <1>1
    <3>2. settled \in Nat /\ faults \in 0..MaxFaults
      BY <1>1, FilesConstants
    <3>3. durable \subseteq Ts /\ dropped \subseteq Ts /\ excuses \subseteq Excuse
      BY <1>1
    <3> QED BY <3>1, <3>2, <3>3
  <2>2. \A a \in Actor : ~ loose[a]
    BY <1>1
  <2> QED BY <2>1, <2>2 DEF Rest
<1>6. Waiting
  BY <1>1, NoBatchIs DEF Waiting
<1>7. \A a \in Actor : Whole(file[a]) = {}
  BY <1>1 DEF Whole
<1>8. Own /\ Planned /\ Gone /\ NothingDurableLost
  BY <1>1, <1>7, NoCompactIs
     DEF Own, Planned, Gone, NothingDurableLost, Issued
<1> QED BY <1>3, <1>4, <1>5, <1>6, <1>8, TypeParts DEF IInv

LEMMA StutterKeeps ==
  ASSUME IInv, UNCHANGED vars
  PROVE  IInv'
<1>1. /\ UNCHANGED <<issued, file, loose, store, writer, batch, settled,
                     durable, dropped, compact, offsets, nodes, faults,
                     excuses>>
  BY DEF vars
<1>2. Shapes'
  BY <1>1 DEF IInv, Shapes
<1>3. Locked'
  BY <1>1 DEF IInv, Locked, Exclusive, Alone, Damaged
<1>4. Rest'
  BY <1>1, RestHolds DEF Rest
<1> QED BY <1>1, <1>2, <1>3, <1>4, LogStays, WaitingStays, StepKeeps

LEMMA NextKeeps ==
  ASSUME IInv, [Next]_vars
  PROVE  IInv'
<1>1. ASSUME NEW p \in Storage, NEW t \in Ts, NEW op \in LocalOps[t],
             Ingest(p, t, op)
      PROVE  IInv'
  BY <1>1, IngestKeeps
<1>2. ASSUME NEW t \in Ts, Plan(t) PROVE IInv'
  BY <1>2, PlanKeeps
<1>3. ASSUME NEW p \in Storage, NEW q \in Storage, Replace(p, q) PROVE IInv'
  BY <1>3, ReplaceKeeps
<1> QED BY <1>1, <1>2, <1>3, StartKeeps, ReloadKeeps, SavesKeep, BeginKeeps, StopKeeps,
           CrashKeeps, ReadFileKeeps, WriteLineKeeps, WriteFailsKeeps,
           EntriesKeep, CheckKeeps, RenameKeeps, CompactClears, StutterKeeps
        DEF Next

(***************************************************************************)
(* In every state of every run the parts of IInv hold: the locks, the      *)
(* shapes, what an append has still to write, the plan of a compaction     *)
(* and what is known of the operations it removed.                         *)
(***************************************************************************)
THEOREM Invariance == Spec => []IInv
<1>1. Init => IInv
  BY InitHolds
<1>2. IInv /\ [Next]_vars => IInv'
  BY NextKeeps
<1> QED BY <1>1, <1>2, PTL DEF Spec

(***************************************************************************)
(* Indexes hold timestamps only, a fragment has no entry in any of them,   *)
(* and the last line of a file that has no newline is a fragment.          *)
(***************************************************************************)
THEOREM TypeCorrect == Spec => []TypeOK
<1>1. IInv => TypeOK
  BY DEF IInv
<1> QED BY <1>1, Invariance, PTL

(***************************************************************************)
(* An append that was confirmed stays on disk unless compaction took it,   *)
(* whatever crashes and failed writes leave at the end of a file           *)
(* (storage/jsonl/append.rs).                                              *)
(***************************************************************************)
THEOREM NoConfirmedAppendIsLost == Spec => []NothingDurableLost
<1>1. IInv => NothingDurableLost
  BY DEF IInv
<1> QED BY <1>1, Invariance, PTL

(***************************************************************************)
(* The log that compaction leaves replays to the tree of the log with all  *)
(* the operations it ever removed, whatever was written and came in since  *)
(* (storage/compact: plan.rs, rewrite.rs).                                 *)
(***************************************************************************)
THEOREM CompactionKeepsTheTree == Spec => []DiskReplaysHistory
<1>1. ASSUME IInv PROVE DiskReplaysHistory
  <2>1. Tree(History \cap OnDisk) = Tree(History)
    BY <1>1, DiskIsHistory
  <2>2. History \cap OnDisk = OnDisk
    BY DEF History
  <2> QED BY <2>1, <2>2 DEF DiskReplaysHistory, History
<1> QED BY <1>1, Invariance, PTL

----------------------------------------------------------------------------
\* What an index says of a file.

\* Every entry leads to its line.
Right(ix, lines) == \A t \in DOMAIN ix : ix[t] <= Len(lines) /\ lines[ix[t]] = t

\* The index has the first n lines and nothing else.
Covers(ix, lines, n) ==
  /\ \A t \in DOMAIN ix : ix[t] <= n
  /\ \A i \in 1..n : lines[i] = Torn \/ lines[i] \in DOMAIN ix

\* A sidecar that is not there is as one without entries.
Entries(s) == IF s = None THEN Nothing ELSE s
Good(s, lines, n) == Right(Entries(s), lines) /\ Covers(Entries(s), lines, n)
Sound(s, lines) == \E n \in 0..Len(lines) : Good(s, lines, n)

LEMMA NoIndex ==
  ASSUME NEW ix \in Index
  PROVE  ix # None
<1>1. PICK D \in SUBSET Ts : ix \in [D -> Nat \ {0}]
  BY DEF Index
<1>2. ix \in [D -> Nat]
  BY <1>1
<1> QED BY <1>2, FilesConstants

LEMMA EntriesIs ==
  ASSUME NEW s \in Index \cup {None}
  PROVE  /\ Entries(s) \in Index
         /\ s # None => s \in Index /\ Entries(s) = s
BY NothingIsIndex DEF Entries

\* Without entries, whatever the file.
LEMMA NoneIsSound ==
  ASSUME NEW lines \in Seq(Line)
  PROVE  Good(None, lines, 0) /\ Sound(None, lines)
<1>1. Entries(None) = Nothing /\ DOMAIN Nothing = {}
  BY DEF Entries, Nothing
<1>2. Good(None, lines, 0)
  BY <1>1 DEF Good, Right, Covers
<1>3. 0 \in 0..Len(lines)
  OBVIOUS
<1> QED BY <1>2, <1>3 DEF Sound

LEMMA RightGrows ==
  ASSUME NEW ix \in Index, NEW lines \in Seq(Line), NEW x \in Line,
         Right(ix, lines)
  PROVE  Right(ix, Append(lines, x))
<1>1. \A t \in DOMAIN ix : ix[t] \in Nat \ {0} /\ ix[t] <= Len(lines) /\ lines[ix[t]] = t
  BY IndexIs DEF Right
<1>2. /\ Len(Append(lines, x)) = Len(lines) + 1 /\ Len(lines) \in Nat
      /\ \A i \in 1..Len(lines) : Append(lines, x)[i] = lines[i]
  OBVIOUS
<1> DEFINE more == Append(lines, x)
<1> HIDE DEF more
<1>3. /\ Len(more) = Len(lines) + 1 /\ Len(lines) \in Nat
      /\ \A i \in 1..Len(lines) : more[i] = lines[i]
  BY <1>2 DEF more
<1>4. Right(ix, more)
  BY <1>1, <1>3 DEF Right
<1> QED BY <1>4 DEF more

LEMMA GoodGrows ==
  ASSUME NEW s \in Index \cup {None}, NEW lines \in Seq(Line), NEW x \in Line,
         NEW n \in 0..Len(lines), Good(s, lines, n)
  PROVE  Good(s, Append(lines, x), n)
<1>1. Right(Entries(s), Append(lines, x))
  BY EntriesIs, RightGrows DEF Good
<1>2. \A i \in 1..n : Append(lines, x)[i] = lines[i]
  OBVIOUS
<1> QED BY <1>1, <1>2 DEF Good, Covers

LEMMA SoundGrows ==
  ASSUME NEW s \in Index \cup {None}, NEW lines \in Seq(Line), NEW x \in Line,
         Sound(s, lines)
  PROVE  Sound(s, Append(lines, x))
<1>1. PICK n \in 0..Len(lines) : Good(s, lines, n)
  BY DEF Sound
<1>2. Good(s, Append(lines, x), n)
  BY <1>1, GoodGrows
<1>3. n \in 0..Len(Append(lines, x))
  OBVIOUS
<1> QED BY <1>2, <1>3 DEF Sound

LEMMA ScanHas ==
  ASSUME NEW lines \in Seq(Line), NEW n \in Nat \ {0}
  PROVE  /\ Right(Scan(lines, n), lines)
         /\ \A i \in n..Len(lines) : lines[i] # Torn => lines[i] \in DOMAIN Scan(lines, n)
<1> DEFINE D == {lines[i] : i \in {j \in n..Len(lines) : lines[j] # Torn}}
<1>1. Scan(lines, n) = [t \in D |-> CHOOSE i \in n..Len(lines) : lines[i] = t]
  BY DEF Scan
<1>2. ASSUME NEW t \in D
      PROVE  /\ (CHOOSE i \in n..Len(lines) : lines[i] = t) \in n..Len(lines)
             /\ lines[CHOOSE i \in n..Len(lines) : lines[i] = t] = t
  <2>1. \E i \in n..Len(lines) : lines[i] = t
    OBVIOUS
  <2> QED BY <2>1
<1>3. \A i \in n..Len(lines) : lines[i] # Torn => lines[i] \in D
  OBVIOUS
<1> HIDE DEF D
<1>4. ASSUME NEW t \in DOMAIN Scan(lines, n)
      PROVE  Scan(lines, n)[t] <= Len(lines) /\ lines[Scan(lines, n)[t]] = t
  <2>1. t \in D /\ Scan(lines, n)[t] = CHOOSE i \in n..Len(lines) : lines[i] = t
    BY <1>1
  <2>2. Scan(lines, n)[t] \in n..Len(lines) /\ lines[Scan(lines, n)[t]] = t
    BY <1>2, <2>1
  <2> QED BY <2>2
<1> QED BY <1>1, <1>3, <1>4 DEF Right

LEMMA MergeHas ==
  ASSUME NEW lines, NEW f, NEW g, Right(f, lines), Right(g, lines)
  PROVE  Right(Merge(f, g), lines) /\ DOMAIN Merge(f, g) = DOMAIN f \cup DOMAIN g
BY DEF Merge, Right

\* An entry for a line: right, and the next one if the others are there.
LEMMA EnteredHas ==
  ASSUME NEW s \in Index \cup {None}, NEW lines \in Seq(Line),
         NEW n \in 0..Len(lines), n + 1 <= Len(lines), NEW t \in Ts,
         lines[n + 1] = t
  PROVE  /\ Right(Entries(s), lines) => Right(Entered(s, t, n + 1), lines)
         /\ Good(s, lines, n) => Good(Entered(s, t, n + 1), lines, n + 1)
         /\ DOMAIN Entries(s) \subseteq DOMAIN Entered(s, t, n + 1)
<1> DEFINE f == Entries(s)
           g == [u \in {t} |-> n + 1]
           e == Entered(s, t, n + 1)
<1>1. e = Merge(f, g) /\ n + 1 \in Nat \ {0}
  BY DEF Entered, Entries
<1>2. e \in Index /\ e # None
  BY <1>1, EnteredIs, NoIndex
<1>3. Right(g, lines)
  BY DEF Right
<1> HIDE DEF f, e
<1>4. DOMAIN e = DOMAIN f \cup {t} /\ \A u \in DOMAIN e : e[u] = IF u = t THEN n + 1 ELSE f[u]
  BY <1>1 DEF Merge
<1>5. Right(f, lines) => Right(e, lines)
  BY <1>1, <1>3, MergeHas
<1>6. ASSUME Good(s, lines, n) PROVE Good(e, lines, n + 1)
  <2>1. Right(f, lines) /\ Covers(f, lines, n)
    BY <1>6 DEF Good, f
  <2>2. \A u \in DOMAIN f : f[u] \in Nat
    BY EntriesIs, IndexIs DEF f
  <2>3. \A u \in DOMAIN e : e[u] <= n + 1
    BY <1>4, <2>1, <2>2 DEF Covers
  <2>4. \A i \in 1..(n + 1) : lines[i] = Torn \/ lines[i] \in DOMAIN e
    <3>1. \A i \in 1..(n + 1) : i \in 1..n \/ i = n + 1
      OBVIOUS
    <3> QED BY <1>4, <2>1, <3>1 DEF Covers
  <2>5. Entries(e) = e
    BY <1>2 DEF Entries
  <2> QED BY <2>1, <2>3, <2>4, <2>5, <1>5 DEF Good, Covers
<1> QED BY <1>4, <1>5, <1>6 DEF f, e

LEMMA TipHas ==
  ASSUME NEW ix \in Index
  PROVE  /\ Tip(ix) \in Nat /\ \A t \in DOMAIN ix : ix[t] <= Tip(ix)
         /\ Tip(ix) = 0 \/ \E t \in DOMAIN ix : ix[t] = Tip(ix)
<1> DEFINE S == {ix[t] : t \in DOMAIN ix}
<1>1. DOMAIN ix \in SUBSET Ts /\ \A t \in DOMAIN ix : ix[t] \in Nat
  BY IndexIs
<1>2. IsFiniteSet(DOMAIN ix)
  BY <1>1, Timestamps, FS_Subset
<1>3. PICK m \in Nat : \A t \in DOMAIN ix : ix[t] <= m
  BY <1>1, <1>2, FiniteIsBounded
<1>4. S \in SUBSET Nat /\ \A n \in S : n <= m
  BY <1>1, <1>3
<1>5. \A t \in DOMAIN ix : ix[t] \in S
  OBVIOUS
<1>6. \A n \in S : \E t \in DOMAIN ix : ix[t] = n
  OBVIOUS
<1> HIDE DEF S
<1>7. Highest(S) \in S \cup {0} /\ Highest(S) \in 0..m /\ \A n \in S : n <= Highest(S)
  BY <1>4, HighestIs
<1>8. Tip(ix) = Highest(S)
  BY DEF Tip, S
<1> QED BY <1>5, <1>6, <1>7, <1>8

LEMMA WholeIs ==
  ASSUME NEW lines \in Seq(Line)
  PROVE  /\ Whole(lines) \in SUBSET Ts
         /\ \A i \in 1..Len(lines) : lines[i] = Torn \/ lines[i] \in Whole(lines)
BY DEF Whole, Line

\* The tail from the tip on completes a sound sidecar.
LEMMA TailCompletes ==
  ASSUME NEW s \in Index, NEW lines \in Seq(Line), Sound(s, lines)
  PROVE  LET ix == Merge(s, Scan(lines, Tip(s) + 1))
         IN  Right(ix, lines) /\ Whole(lines) \subseteq DOMAIN ix
<1>1. PICK n \in 0..Len(lines) : Good(s, lines, n)
  BY DEF Sound
<1>2. Right(s, lines) /\ Covers(s, lines, n)
  BY <1>1, NoIndex DEF Good, Entries
<1>3. Tip(s) \in Nat /\ Tip(s) <= n
  <2>1. Tip(s) = 0 \/ Tip(s) <= n
    BY <1>2, TipHas DEF Covers
  <2> QED BY <2>1, TipHas
<1> DEFINE g == Scan(lines, Tip(s) + 1)
<1>4. /\ Right(g, lines)
      /\ \A i \in (Tip(s) + 1)..Len(lines) : lines[i] # Torn => lines[i] \in DOMAIN g
  BY <1>3, ScanHas
<1> HIDE DEF g
<1>5. Right(Merge(s, g), lines) /\ DOMAIN Merge(s, g) = DOMAIN s \cup DOMAIN g
  <2>1. Right(s, lines) /\ Right(g, lines)
    BY <1>2, <1>4
  <2>2. Right(Merge(s, g), lines)
    BY <2>1, MergeHas
  <2> QED BY <2>2 DEF Merge
<1>6. ASSUME NEW t \in Whole(lines) PROVE t \in DOMAIN s \cup DOMAIN g
  <2>1. PICK i \in 1..Len(lines) : t = lines[i] /\ t # Torn
    BY DEF Whole
  <2>2. i \in 1..n \/ i \in (Tip(s) + 1)..Len(lines)
    BY <1>3, <2>1
  <2> QED BY <1>2, <1>4, <2>1, <2>2 DEF Covers
<1> QED BY <1>5, <1>6 DEF g

LEMMA ScanCompletes ==
  ASSUME NEW lines \in Seq(Line)
  PROVE  Right(Scan(lines, 1), lines) /\ Whole(lines) \subseteq DOMAIN Scan(lines, 1)
BY ScanHas DEF Whole

\* A whole index, saved, covers the file.
LEMMA SavedIsGood ==
  ASSUME NEW ix \in Index, NEW lines \in Seq(Line), Right(ix, lines),
         Whole(lines) \subseteq DOMAIN ix
  PROVE  Good(Saved(ix), lines, Len(lines)) /\ Good(ix, lines, Len(lines))
<1>1. Entries(ix) = ix
  BY NoIndex DEF Entries
<1>2. Good(ix, lines, Len(lines))
  BY <1>1, WholeIs DEF Good, Covers, Right
<1>3. CASE DOMAIN ix = {}
  <2>1. Saved(ix) = None /\ Entries(None) = Nothing /\ DOMAIN Nothing = {}
    BY <1>3 DEF Saved, Entries, Nothing
  <2> QED BY <1>2, <2>1, <1>3, WholeIs DEF Good, Right, Covers
<1>4. CASE DOMAIN ix # {}
  BY <1>2, <1>4 DEF Saved
<1> QED BY <1>3, <1>4

LEMMA GoodIsSound ==
  ASSUME NEW s, NEW lines \in Seq(Line), NEW n \in 0..Len(lines), Good(s, lines, n)
  PROVE  Sound(s, lines)
BY DEF Sound

\* A sound sidecar that reaches the end of the file covers it.
LEMMA ExactIsGood ==
  ASSUME NEW s \in Index, NEW lines \in Seq(Line), Sound(s, lines),
         Tip(s) = Len(lines)
  PROVE  Good(s, lines, Len(lines))
<1>1. PICK n \in 0..Len(lines) : Good(s, lines, n)
  BY DEF Sound
<1>2. Right(s, lines) /\ Covers(s, lines, n) /\ Entries(s) = s
  BY <1>1, NoIndex DEF Good, Entries
<1>3. Tip(s) = 0 \/ Tip(s) <= n
  BY <1>2, TipHas DEF Covers
<1>4. n = Len(lines)
  BY <1>3
<1> QED BY <1>1, <1>4

----------------------------------------------------------------------------
\* The own file: its operations are in the order of their timestamps.

Ascends(lines) ==
  \A i, j \in 1..Len(lines) : i < j /\ lines[j] # Torn => lines[i] < lines[j]

LEMMA KeptAscends ==
  ASSUME NEW lines \in Seq(Line), NEW drops \in SUBSET Ts, Ascends(lines)
  PROVE  Ascends(Kept(lines, drops))
<1> DEFINE kept == Kept(lines, drops)
           C == Cardinality(Stays(lines, drops))
<1>1. Len(kept) = C
  BY KeptPlaces
<1>2. PICK at \in [1..C -> Stays(lines, drops)] :
        /\ \A n \in 1..C : kept[n] = lines[at[n]]
        /\ \A n, m \in 1..C : n < m => at[n] < at[m]
  BY KeptPlaces
<1>3. Stays(lines, drops) \subseteq 1..Len(lines)
  BY DEF Stays
<1> HIDE DEF kept, C
<1> SUFFICES ASSUME NEW i \in 1..C, NEW j \in 1..C, i < j, kept[j] # Torn
             PROVE  kept[i] < kept[j]
  BY <1>1 DEF Ascends, kept
<1>4. at[i] \in 1..Len(lines) /\ at[j] \in 1..Len(lines) /\ at[i] < at[j]
  BY <1>2, <1>3
<1> QED BY <1>2, <1>4 DEF Ascends

(***************************************************************************)
(* A sidecar of the file as it was before a compaction, whose last entry   *)
(* is still in its place, is one of the file as it is now.                 *)
(***************************************************************************)
LEMMA UnmovedIsSound ==
  ASSUME NEW lines \in Seq(Line), NEW drops \in SUBSET Ts, Ascends(lines),
         \A i \in 1..Len(lines) : lines[i] # Torn,
         NEW s \in Index, Sound(s, lines),
         Tip(s) \in 1..Len(Kept(lines, drops)),
         Kept(lines, drops)[Tip(s)] = lines[Tip(s)]
  PROVE  Sound(s, Kept(lines, drops))
<1> DEFINE kept == Kept(lines, drops)
           C == Cardinality(Stays(lines, drops))
           T == Tip(s)
<1>1. kept \in Seq(Line) /\ Len(kept) = C /\ C \in Nat /\ C <= Len(lines)
  BY KeptPlaces
<1>2. PICK at \in [1..C -> Stays(lines, drops)] :
        /\ \A n \in 1..C : kept[n] = lines[at[n]]
        /\ \A n \in 1..C : n <= at[n] /\ (at[n] = n => \A k \in 1..n : at[k] = k)
  BY KeptPlaces
<1>3. Stays(lines, drops) \subseteq 1..Len(lines)
  BY DEF Stays
<1>4. PICK n \in 0..Len(lines) : Good(s, lines, n)
  BY DEF Sound
<1>5. Right(s, lines) /\ Covers(s, lines, n) /\ Entries(s) = s
  BY <1>4, NoIndex DEF Good, Entries
<1>6. /\ \A t \in DOMAIN s : s[t] <= T /\ s[t] \in Nat \ {0}
      /\ T = 0 \/ T <= n
  BY <1>5, TipHas, IndexIs DEF Covers
<1>7. T \in 1..C /\ kept[T] = lines[T]
  BY <1>1
<1> HIDE DEF kept, C, T
<1>8. at[T] = T
  <2>1. at[T] \in 1..Len(lines) /\ T <= at[T] /\ lines[at[T]] = lines[T]
    BY <1>2, <1>3, <1>7
  <2>2. T \in 1..Len(lines) /\ lines[T] \in Nat
    <3>1. T \in 1..Len(lines)
      BY <1>1, <1>7
    <3>2. lines[T] \in Line
      BY <3>1
    <3> QED BY <3>1, <3>2, Timestamps
  <2>3. T < at[T] => lines[T] < lines[at[T]]
    BY <2>1, <2>2 DEF Ascends
  <2> QED BY <2>1, <2>2, <2>3
<1>9. \A k \in 1..T : k \in 1..C /\ kept[k] = lines[k]
  BY <1>1, <1>2, <1>7, <1>8
<1>10. Right(s, kept)
  <2>1. \A t \in DOMAIN s : s[t] \in 1..T /\ lines[s[t]] = t
    BY <1>5, <1>6, <1>7 DEF Right
  <2> QED BY <1>1, <1>7, <1>9, <2>1 DEF Right
<1>11. Covers(s, kept, T)
  <2>1. \A i \in 1..T : i \in 1..n /\ i \in 1..Len(lines)
    BY <1>1, <1>6, <1>7
  <2> QED BY <1>5, <1>6, <1>9, <2>1 DEF Covers
<1>12. T \in 0..Len(kept)
  BY <1>1, <1>7
<1> QED BY <1>5, <1>10, <1>11, <1>12 DEF Good, Sound, kept

\* A sidecar that covers an undamaged file ends at its last line.
LEMMA FullTip ==
  ASSUME NEW lines \in Seq(Line), Ascends(lines), lines # <<>>,
         \A i \in 1..Len(lines) : lines[i] # Torn,
         NEW s \in Index, Good(s, lines, Len(lines))
  PROVE  Tip(s) >= Len(lines)
<1> DEFINE N == Len(lines)
           t == lines[N]
<1>1. N \in Nat \ {0} /\ t \in Ts
  BY DEF Line
<1>2. Right(s, lines) /\ Covers(s, lines, N)
  BY NoIndex DEF Good, Entries
<1>3. t \in DOMAIN s /\ s[t] \in 1..N /\ lines[s[t]] = t
  BY <1>1, <1>2, IndexIs DEF Covers, Right
<1>4. s[t] = N
  <2>1. t \in Nat /\ t # Torn
    BY <1>1, Timestamps
  <2>2. s[t] < N => lines[s[t]] < lines[N]
    BY <1>1, <1>3, <2>1 DEF Ascends
  <2> QED BY <1>1, <1>3, <2>1, <2>2
<1> HIDE DEF t
<1>5. s[t] <= Tip(s)
  BY <1>3, TipHas
<1> QED BY <1>4, <1>5

----------------------------------------------------------------------------
(***************************************************************************)
(* What an append knows of the file it writes to: its lines are the last   *)
(* ones, in order, and the next will be newer than all.                    *)
(***************************************************************************)
Appends ==
  /\ \A i \in 1..Len(batch.todo) :
       /\ \A j \in 1..Len(file[Me]) : file[Me][j] < batch.todo[i]
       /\ \A j \in 1..(i - 1) : batch.todo[j] < batch.todo[i]
  /\ batch # NoBatch => batch.from + Len(batch.entries) = Len(file[Me])
  /\ \A i \in 1..Len(batch.entries) : file[Me][batch.from + i] = batch.entries[i]
  /\ batch.part = "node" => batch.todo = <<>> /\ batch.entries # <<>>

\* A process that is not there knows nothing, one that is up has read all.
Runs ==
  \A p \in Storage : /\ store[p].at = "down" => store[p] = Down
                     /\ store[p].at = "up" => store[p].todo = {}

Steady == Ascends(file[Me]) /\ Appends /\ Runs

LEMMA AppendAscends ==
  ASSUME NEW lines \in Seq(Line), Ascends(lines), NEW x \in Line,
         x = Torn \/ \A j \in 1..Len(lines) : lines[j] < x
  PROVE  Ascends(Append(lines, x))
<1> DEFINE more == Append(lines, x)
           N == Len(lines)
<1>1. /\ N \in Nat /\ Len(more) = N + 1 /\ more[N + 1] = x
      /\ \A i \in 1..N : more[i] = lines[i]
  OBVIOUS
<1> HIDE DEF more
<1> SUFFICES ASSUME NEW i \in 1..(N + 1), NEW j \in 1..(N + 1), i < j, more[j] # Torn
             PROVE  more[i] < more[j]
  BY <1>1 DEF Ascends, more
<1>2. i \in 1..N /\ more[i] = lines[i]
  BY <1>1
<1>3. CASE j \in 1..N
  BY <1>1, <1>2, <1>3 DEF Ascends
<1>4. CASE j = N + 1
  BY <1>1, <1>2, <1>4
<1> QED BY <1>1, <1>3, <1>4

LEMMA NothingAppends ==
  ASSUME batch' = NoBatch
  PROVE  Appends'
BY DEF Appends, NoBatch

LEMMA AppendsStay ==
  ASSUME Appends, batch' = batch, file'[Me] = file[Me]
  PROVE  Appends'
BY DEF Appends

\* What a writer issues is newer than what its file holds.
LEMMA FresherAscends ==
  ASSUME IInv, NEW p, NEW t \in Fresher(p)
  PROVE  t \in Ts /\ \A j \in 1..Len(file[Me]) : file[Me][j] < t
<1>1. t \in Ts /\ \A u \in Issued : Author[u] = Me => u < t
  BY DEF Fresher
<1>2. file[Me] \in Seq(Line) /\ Me \in Actor
  BY Timestamps DEF IInv, Shapes
<1>3. ASSUME NEW j \in 1..Len(file[Me]) PROVE file[Me][j] < t
  <2>1. CASE file[Me][j] = Torn
    BY <1>1, <2>1, Timestamps DEF Torn
  <2>2. CASE file[Me][j] # Torn
    <3>1. file[Me][j] \in Whole(file[Me]) /\ file[Me][j] \in Ts
      BY <1>2, <2>2, WholeIs
    <3>2. file[Me][j] \in Issued /\ Author[file[Me][j]] = Me
      BY <1>2, <3>1 DEF IInv, Own, Issued
    <3> QED BY <1>1, <3>2
  <2> QED BY <2>1, <2>2
<1> QED BY <1>1, <1>3

LEMMA BeginAppends ==
  ASSUME IInv, NEW p \in Storage, Begin(p)
  PROVE  Appends'
<1>1. /\ file' = file /\ (Append1(p) \/ Append2(p))
      /\ Me \in Actor /\ file[Me] \in Seq(Line)
  BY Timestamps DEF Begin, IInv, Shapes
<1>2. ASSUME NEW todo, batch' = [NoBatch EXCEPT !.todo = todo, !.from = Len(file[Me])],
             \A i \in 1..Len(todo) :
               /\ \A j \in 1..Len(file[Me]) : file[Me][j] < todo[i]
               /\ \A j \in 1..(i - 1) : todo[j] < todo[i]
      PROVE  Appends'
  <2>1. batch' = [todo |-> todo, entries |-> <<>>, part |-> "offset",
                  from |-> Len(file[Me])]
    BY <1>2 DEF NoBatch
  <2>2. /\ batch'.todo = todo /\ batch'.entries = <<>> /\ batch'.part = "offset"
        /\ batch'.from = Len(file[Me])
    BY <2>1
  <2>3. batch'.from + Len(batch'.entries) = Len(file'[Me])
    <3>1. Len(file[Me]) \in Nat /\ Len(<<>>) = 0
      BY <1>1
    <3> QED BY <1>1, <2>2, <3>1
  <2>4. /\ \A i \in 1..Len(batch'.todo) :
             /\ \A j \in 1..Len(file'[Me]) : file'[Me][j] < batch'.todo[i]
             /\ \A j \in 1..(i - 1) : batch'.todo[j] < batch'.todo[i]
        /\ batch'.part # "node"
    BY <1>1, <1>2, <2>2
  <2>5. \A i \in 1..Len(batch'.entries) : FALSE
    BY <2>2
  <2> QED BY <2>3, <2>4, <2>5 DEF Appends
<1>3. CASE Append1(p)
  <2>1. PICK t \in Fresher(p) :
          batch' = [NoBatch EXCEPT !.todo = <<t>>, !.from = Len(file[Me])]
    BY <1>3 DEF Append1
  <2>2. \A j \in 1..Len(file[Me]) : file[Me][j] < t
    BY FresherAscends
  <2>3. Len(<<t>>) = 1 /\ <<t>>[1] = t
    OBVIOUS
  <2> DEFINE todo == <<t>>
  <2> HIDE DEF todo
  <2>4. \A i \in 1..Len(todo) :
          /\ \A j \in 1..Len(file[Me]) : file[Me][j] < todo[i]
          /\ \A j \in 1..(i - 1) : todo[j] < todo[i]
    BY <2>2, <2>3 DEF todo
  <2> QED BY <1>2, <2>1, <2>4 DEF todo
<1>4. CASE Append2(p)
  <2>1. PICK t \in Fresher(p), u \in Fresher(p) :
          /\ t < u
          /\ batch' = [NoBatch EXCEPT !.todo = <<t, u>>, !.from = Len(file[Me])]
    BY <1>4, Zenon DEF Append2
  <2>2. \A j \in 1..Len(file[Me]) : file[Me][j] < t /\ file[Me][j] < u
    BY FresherAscends
  <2>3. Len(<<t, u>>) = 2 /\ <<t, u>>[1] = t /\ <<t, u>>[2] = u
    OBVIOUS
  <2> DEFINE todo == <<t, u>>
  <2> HIDE DEF todo
  <2>4. \A i \in 1..Len(todo) :
          /\ \A j \in 1..Len(file[Me]) : file[Me][j] < todo[i]
          /\ \A j \in 1..(i - 1) : todo[j] < todo[i]
    <3>1. /\ Len(todo) = 2 /\ todo[1] = t /\ todo[2] = u
      BY <2>3 DEF todo
    <3>2. \A i \in 1..Len(todo) : i = 1 \/ i = 2
      BY <3>1
    <3> QED BY <2>1, <2>2, <3>1, <3>2
  <2> QED BY <1>2, <2>1, <2>4 DEF todo
<1> QED BY <1>1, <1>3, <1>4

LEMMA WriteLineAppends ==
  ASSUME IInv, Steady, WriteLine
  PROVE  Ascends(file'[Me]) /\ Appends'
<1> DEFINE t    == Head(batch.todo)
           done == Append(batch.entries, t)
           more == Append(file[Me], t)
<1>1. /\ batch.todo # <<>> /\ batch # NoBatch
      /\ file' = [file EXCEPT ![Me] = more]
      /\ batch' = [batch EXCEPT !.todo = Tail(@), !.entries = done]
  BY NoBatchIs DEF WriteLine, Put
<1>2. /\ batch \in Batch /\ batch.todo \in Seq(Ts) /\ batch.entries \in Seq(Ts)
      /\ batch.from \in Nat /\ file[Me] \in Seq(Line) /\ Me \in Actor
      /\ file \in [Actor -> Seq(Line)]
  BY <1>1, Appending, Timestamps DEF IInv, Shapes
<1>3. /\ t \in Ts /\ Tail(batch.todo) \in Seq(Ts) /\ t = batch.todo[1]
      /\ 1 \in 1..Len(batch.todo) /\ Len(batch.todo) \in Nat
      /\ \A i \in 1..Len(Tail(batch.todo)) :
           i + 1 \in 1..Len(batch.todo) /\ Tail(batch.todo)[i] = batch.todo[i + 1]
  BY <1>1, <1>2, SmallerTail
<1>4. /\ \A i \in 1..Len(batch.todo) :
            /\ \A j \in 1..Len(file[Me]) : file[Me][j] < batch.todo[i]
            /\ \A j \in 1..(i - 1) : batch.todo[j] < batch.todo[i]
      /\ batch.from + Len(batch.entries) = Len(file[Me])
      /\ \A i \in 1..Len(batch.entries) : file[Me][batch.from + i] = batch.entries[i]
      /\ batch.part # "node"
  BY <1>1 DEF Steady, Appends
<1>5. /\ Len(done) = Len(batch.entries) + 1 /\ done[Len(batch.entries) + 1] = t
      /\ \A i \in 1..Len(batch.entries) : done[i] = batch.entries[i]
      /\ Len(batch.entries) \in Nat /\ done \in Seq(Ts)
  BY <1>2, <1>3
<1>6. /\ Len(more) = Len(file[Me]) + 1 /\ more[Len(file[Me]) + 1] = t
      /\ \A i \in 1..Len(file[Me]) : more[i] = file[Me][i]
      /\ Len(file[Me]) \in Nat
  BY <1>2, <1>3 DEF Line
<1>7. Ascends(more)
  <2>1. t \in Line /\ \A j \in 1..Len(file[Me]) : file[Me][j] < t
    BY <1>3, <1>4 DEF Line
  <2> QED BY <1>2, <2>1, AppendAscends DEF Steady
<1> HIDE DEF more, done, t
<1>8. /\ file'[Me] = more /\ batch'.todo = Tail(batch.todo) /\ batch'.entries = done
      /\ batch'.from = batch.from /\ batch'.part = batch.part
  BY <1>1, <1>2 DEF Batch
<1>9. ASSUME NEW i \in 1..Len(batch'.todo)
      PROVE  /\ \A j \in 1..Len(more) : more[j] < batch'.todo[i]
             /\ \A j \in 1..(i - 1) : batch'.todo[j] < batch'.todo[i]
  <2>1. i + 1 \in 1..Len(batch.todo) /\ batch'.todo[i] = batch.todo[i + 1] /\ i \in Nat \ {0}
    BY <1>3, <1>8
  <2>2. t < batch.todo[i + 1]
    <3>1. 1 \in 1..((i + 1) - 1)
      BY <2>1
    <3> QED BY <1>3, <1>4, <2>1, <3>1
  <2>3. \A j \in 1..Len(more) : more[j] < batch'.todo[i]
    <3>1. \A j \in 1..Len(more) : j \in 1..Len(file[Me]) \/ j = Len(file[Me]) + 1
      BY <1>6
    <3> QED BY <1>4, <1>6, <2>1, <2>2, <3>1
  <2>4. ASSUME NEW j \in 1..(i - 1) PROVE batch'.todo[j] < batch'.todo[i]
    <3>1. j \in 1..Len(Tail(batch.todo)) /\ j + 1 \in 1..((i + 1) - 1)
      BY <1>8, <2>1, <1>3
    <3>2. batch'.todo[j] = batch.todo[j + 1]
      BY <1>3, <1>8, <3>1
    <3> QED BY <1>4, <2>1, <3>1, <3>2
  <2> QED BY <2>3, <2>4
<1>10. batch'.from + Len(batch'.entries) = Len(more)
  <2>1. /\ batch.from \in Nat /\ Len(batch.entries) \in Nat /\ Len(file[Me]) \in Nat
        /\ batch.from + Len(batch.entries) = Len(file[Me])
        /\ Len(done) = Len(batch.entries) + 1 /\ Len(more) = Len(file[Me]) + 1
    BY <1>2, <1>4, <1>5, <1>6
  <2>2. batch.from + Len(done) = Len(more)
    <3>1. \A m, n, k \in Nat : m + n = k => m + (n + 1) = k + 1
      OBVIOUS
    <3>2. batch.from + (Len(batch.entries) + 1) = Len(file[Me]) + 1
      BY <2>1, <3>1
    <3> QED BY <2>1, <3>2, Zenon
  <2> QED BY <1>8, <2>2
<1>11. \A i \in 1..Len(done) : more[batch.from + i] = done[i]
  <2>1. \A i \in 1..Len(done) : i \in 1..Len(batch.entries) \/ i = Len(batch.entries) + 1
    BY <1>5
  <2>2. \A i \in 1..Len(batch.entries) :
          batch.from + i \in 1..Len(file[Me])
    BY <1>2, <1>4, <1>5
  <2>3. batch.from + (Len(batch.entries) + 1) = Len(file[Me]) + 1
    <3> DEFINE b == batch.from
               e == Len(batch.entries)
               f == Len(file[Me])
    <3>1. b \in Nat /\ e \in Nat /\ f \in Nat /\ b + e = f
      BY <1>2, <1>4, <1>5, <1>6
    <3> HIDE DEF b, e, f
    <3>2. b + (e + 1) = f + 1
      BY <3>1
    <3> QED BY <3>2 DEF b, e, f
  <2> QED BY <1>4, <1>5, <1>6, <2>1, <2>2, <2>3
<1> QED BY <1>4, <1>7, <1>8, <1>9, <1>10, <1>11 DEF Appends

\* The entry that is next, and where its line is.
LEMMA NextLine ==
  ASSUME IInv, Steady, batch.entries # <<>>
  PROVE  /\ batch # NoBatch /\ Head(batch.entries) \in Ts
         /\ batch.from \in 0..Len(file[Me]) /\ batch.from + 1 <= Len(file[Me])
         /\ file[Me][batch.from + 1] = Head(batch.entries)
         /\ file[Me] \in Seq(Line) /\ Me \in Actor
         /\ Tail(batch.entries) = <<>> /\ batch.todo = <<>>
              => batch.from + 1 = Len(file[Me])
<1>1. batch # NoBatch
  BY NoBatchIs
<1>2. /\ batch.entries \in Seq(Ts) /\ batch.from \in Nat
      /\ file[Me] \in Seq(Line) /\ Me \in Actor
  BY <1>1, Appending, Timestamps DEF IInv, Shapes
<1>3. /\ batch.from + Len(batch.entries) = Len(file[Me])
      /\ \A i \in 1..Len(batch.entries) : file[Me][batch.from + i] = batch.entries[i]
  BY <1>1 DEF Steady, Appends
<1>4. /\ Head(batch.entries) \in Ts /\ Len(batch.entries) \in Nat \ {0}
      /\ Head(batch.entries) = batch.entries[1]
      /\ Tail(batch.entries) = <<>> => Len(batch.entries) = 1
  <2> DEFINE e == batch.entries
  <2>1. e \in Seq(Ts) /\ e # <<>>
    BY <1>2
  <2> HIDE DEF e
  <2>2. Head(e) \in Ts /\ Head(e) = e[1] /\ Len(e) \in Nat \ {0}
    BY <2>1
  <2>3. Len(Tail(e)) = Len(e) - 1
    BY <2>1
  <2>4. Tail(e) = <<>> => Len(Tail(e)) = 0
    <3>1. Len(<<>>) = 0
      OBVIOUS
    <3> QED BY <3>1
  <2>5. Tail(e) = <<>> => Len(e) = 1
    BY <2>2, <2>3, <2>4
  <2> QED BY <2>2, <2>5 DEF e
<1>5. 1 \in 1..Len(batch.entries)
  BY <1>4
<1> QED BY <1>1, <1>2, <1>3, <1>4, <1>5

LEMMA EntriesAppend ==
  ASSUME IInv, Steady, EnterOffset \/ EnterNode \/ OffsetFails \/ NodeFails
  PROVE  file' = file /\ Appends'
<1>1. batch.entries # <<>> /\ file' = file
  BY DEF EnterOffset, EnterNode, OffsetFails, NodeFails
<1>2. batch # NoBatch /\ batch \in Batch
  BY <1>1, NoBatchIs, Appending
<1>3. /\ batch.entries \in Seq(Ts) /\ batch.from \in Nat /\ batch.todo \in Seq(Ts)
  BY <1>2 DEF Batch
<1>4. /\ \A i \in 1..Len(batch.todo) :
            /\ \A j \in 1..Len(file[Me]) : file[Me][j] < batch.todo[i]
            /\ \A j \in 1..(i - 1) : batch.todo[j] < batch.todo[i]
      /\ batch.from + Len(batch.entries) = Len(file[Me])
      /\ \A i \in 1..Len(batch.entries) : file[Me][batch.from + i] = batch.entries[i]
      /\ batch.part = "node" => batch.todo = <<>>
  BY <1>2 DEF Steady, Appends
<1>5. CASE EnterOffset \/ OffsetFails
  <2>1. batch' = [batch EXCEPT !.part = "node"] /\ batch.todo = <<>>
    BY <1>5 DEF EnterOffset, OffsetFails
  <2>2. /\ batch'.todo = batch.todo /\ batch'.entries = batch.entries
        /\ batch'.from = batch.from
    BY <1>2, <2>1 DEF Batch
  <2> QED BY <1>1, <1>4, <2>1, <2>2 DEF Appends
<1>6. CASE EnterNode \/ NodeFails
  <2>1. batch' = NextEntry /\ batch.part = "node" /\ batch.todo = <<>>
    BY <1>4, <1>6 DEF EnterNode, NodeFails
  <2>2. CASE Tail(batch.entries) = <<>>
    BY <1>1, <2>1, <2>2, NothingAppends DEF NextEntry
  <2>3. CASE Tail(batch.entries) # <<>>
    <3>1. batch' = [batch EXCEPT !.entries = Tail(@), !.part = "offset", !.from = @ + 1]
      BY <2>1, <2>3 DEF NextEntry
    <3>2. /\ batch'.todo = batch.todo /\ batch'.entries = Tail(batch.entries)
          /\ batch'.from = batch.from + 1 /\ batch'.part = "offset"
      BY <1>2, <3>1 DEF Batch
    <3>3. /\ Len(Tail(batch.entries)) = Len(batch.entries) - 1
          /\ Len(batch.entries) \in Nat
          /\ \A i \in 1..Len(Tail(batch.entries)) :
               i + 1 \in 1..Len(batch.entries) /\ Tail(batch.entries)[i] = batch.entries[i + 1]
      BY <1>1, <1>3
    <3>4. \A i \in 1..Len(Tail(batch.entries)) :
            file[Me][(batch.from + 1) + i] = Tail(batch.entries)[i]
      <4>1. \A i \in 1..Len(Tail(batch.entries)) :
              (batch.from + 1) + i = batch.from + (i + 1)
        BY <1>3
      <4> QED BY <1>4, <3>3, <4>1
    <3>5. (batch.from + 1) + Len(Tail(batch.entries)) = Len(file[Me])
      BY <1>3, <1>4, <3>3
    <3> QED BY <1>1, <2>1, <1>4, <3>2, <3>4, <3>5 DEF Appends
  <2> QED BY <2>2, <2>3
<1> QED BY <1>1, <1>5, <1>6

----------------------------------------------------------------------------
\* How the processes and the files change in a step.

\* A storage is closed, its whole process ends.
LEMMA EndIs ==
  ASSUME IInv, NEW p \in Storage,
         Stop(p) \/ Crash(p) \/ \E r \in Storage : Replace(p, r)
  PROVE  /\ store'[p] = Down
         /\ \A q \in Storage : store'[q] = Down \/ store'[q] = store[q]
<1>1. ASSUME Leave(p)
      PROVE  /\ store'[p] = Down
             /\ \A q \in Storage : store'[q] = Down \/ store'[q] = store[q]
  BY <1>1, LeaveIs, FellowsAre
<1>2. ASSUME NEW r \in Storage, Replace(p, r)
      PROVE  /\ store'[p] = Down
             /\ \A q \in Storage : store'[q] = Down \/ store'[q] = store[q]
  BY <1>2, ReplaceIs
<1> QED BY <1>1, <1>2 DEF Stop, Crash

LEMMA StepRuns ==
  ASSUME IInv, Runs, [Next]_vars
  PROVE  Runs'
<1>1. store \in [Storage -> Slot]
  BY DEF IInv, Shapes
<1>2. ASSUME NEW p \in Storage, store' = [store EXCEPT ![p] = store'[p]],
             store'[p].at = "down" => store'[p] = Down,
             store'[p].at = "up" => store'[p].todo = {}
      PROVE  Runs'
  BY <1>1, <1>2 DEF Runs
<1>3. ASSUME NEW p \in Storage, NEW d, store' = [store EXCEPT ![p] = d]
      PROVE  store'[p] = d /\ store' = [store EXCEPT ![p] = store'[p]]
  BY <1>1, <1>3
<1>4. ASSUME NEW p \in Storage, Start(p) \/ Reload(p) PROVE Runs'
  <2>1. Opened.at = "reading"
    BY OpenedIs
  <2>2. store' = [store EXCEPT ![p] = Opened]
    BY <1>4, StartIs, ReloadIs
  <2>3. store'[p] = Opened /\ store' = [store EXCEPT ![p] = store'[p]]
    BY <1>3, <2>2
  <2> QED BY <1>2, <2>1, <2>3
<1>5. ASSUME NEW p \in Storage, ReadFile(p) PROVE Runs'
  <2> DEFINE a    == CHOOSE b \in store[p].todo : TRUE
             X    == IF Fresh(file[a], offsets[a], nodes[a])
                     THEN Merge(offsets[a], Scan(file[a], Tip(offsets[a]) + 1))
                     ELSE Scan(file[a], 1)
             Y    == IF Fresh(file[a], offsets[a], nodes[a])
                     THEN Merge(nodes[a], Scan(file[a], Tip(offsets[a]) + 1))
                     ELSE Scan(file[a], 1)
             W    == Whole(file[a])
             todo == store[p].todo \ {a}
             at   == IF (Fresh(file[a], offsets[a], nodes[a])
                           /\ Tip(offsets[a]) = Len(file[a])) \/ file[a] = <<>>
                     THEN After(p, todo) ELSE "saving"
             d    == [store[p] EXCEPT !.offsets[a] = X, !.nodes[a] = Y,
                                     !.seen[a] = W, !.actor = a,
                                     !.todo = todo, !.at = at]
  <2>1. store' = [store EXCEPT ![p] = [@ EXCEPT !.offsets[a] = X, !.nodes[a] = Y,
                                              !.seen[a] = W, !.actor = a,
                                              !.todo = todo, !.at = at]]
    BY <1>5 DEF ReadFile
  <2>2. at # "down" /\ (at = "up" => todo = {})
    BY DEF After
  <2>3. store[p] \in Slot
    BY <1>1
  <2> HIDE DEF a, X, Y, W, todo, at
  <2>4. d.at = at /\ d.todo = todo
    BY <2>3 DEF Slot
  <2>5. store' = [store EXCEPT ![p] = d]
    BY <1>1, <2>1
  <2> HIDE DEF d
  <2>6. store'[p] = d /\ store' = [store EXCEPT ![p] = store'[p]]
    BY <1>3, <2>5
  <2> QED BY <1>2, <2>2, <2>4, <2>6
<1>6. ASSUME NEW p \in Storage, SaveOffsets(p) \/ SaveNodes(p) \/ SaveFails(p)
      PROVE Runs'
  <2>1. PICK s \in {"saving nodes", After(p, store[p].todo)} :
          store' = [store EXCEPT ![p].at = s]
    BY <1>6 DEF SaveOffsets, SaveNodes, SaveFails
  <2>2. s # "down" /\ (s = "up" => store[p].todo = {})
    BY <2>1 DEF After
  <2> DEFINE d == [store[p] EXCEPT !.at = s]
  <2>3. d.at = s /\ d.todo = store[p].todo
    BY <1>1 DEF Slot
  <2>4. store' = [store EXCEPT ![p] = d]
    BY <2>1
  <2> HIDE DEF d
  <2>5. store'[p] = d /\ store' = [store EXCEPT ![p] = store'[p]]
    BY <1>3, <2>4
  <2> QED BY <1>2, <2>2, <2>3, <2>5
<1>7. ASSUME NEW p \in Storage,
             Stop(p) \/ Crash(p) \/ \E r \in Storage : Replace(p, r)
      PROVE Runs'
  <2>1. \A q \in Storage : store'[q] = Down \/ store'[q] = store[q]
    BY <1>7, EndIs
  <2> QED BY <2>1, OpenedIs DEF Runs
<1>8. CASE EnterOffset \/ OffsetFails
  <2>1. batch.entries # <<>> /\ store' = Remembered(Head(batch.entries), batch.from + 1)
    BY <1>8 DEF EnterOffset, OffsetFails
  <2>2. batch # NoBatch
    BY <2>1, NoBatchIs
  <2>3. /\ writer \in Storage /\ store[writer].at = "up"
        /\ Head(batch.entries) \in Ts /\ batch.from + 1 \in Nat \ {0}
    BY <2>1, <2>2, Appending, SmallerTail
  <2>4. \A q \in Storage : store'[q].at = store[q].at /\ store'[q].todo = store[q].todo
    BY <2>1, <2>3, RememberedIs
  <2>5. \A q \in Storage : store[q].at = "down" => store'[q] = store[q]
    BY <2>1, <2>3, <1>1 DEF Remembered
  <2> QED BY <2>4, <2>5 DEF Runs
<1>9. CASE store' = store
  BY <1>9 DEF Runs
<1>10. ASSUME NEW p \in Storage, Begin(p) PROVE Runs'
  BY <1>9, <1>10 DEF Begin
<1>11. ASSUME NEW p \in Storage, NEW t \in Ts, NEW op \in LocalOps[t], Ingest(p, t, op)
       PROVE Runs'
  BY <1>9, <1>11 DEF Ingest
<1>12. CASE WriteLine \/ WriteFails \/ EnterNode \/ NodeFails
  BY <1>9, <1>12 DEF WriteLine, WriteFails, EnterNode, NodeFails
<1>13. ASSUME NEW t \in Ts, Plan(t) PROVE Runs'
  BY <1>9, <1>13 DEF Plan
<1>14. CASE Check \/ Rename \/ DropOffsets \/ DropNodes \/ CompactEnds
  BY <1>9, <1>14 DEF Check, Rename, DropOffsets, DropNodes, CompactEnds
<1>15. CASE UNCHANGED vars
  BY <1>9, <1>15 DEF vars
<1> QED BY <1>4, <1>5, <1>6, <1>7, <1>8, <1>10, <1>11, <1>12, <1>13, <1>14, <1>15
        DEF Next

LEMMA TornAscends ==
  ASSUME IInv, Steady, NEW a \in Actor, Tear(a)
  PROVE  /\ Ascends(file'[Me]) /\ (a # Me => file'[Me] = file[Me])
         /\ file'[a] = Append(file[a], Torn)
         /\ \A b \in Actor \ {a} : file'[b] = file[b]
<1>1. /\ file' = [file EXCEPT ![a] = Append(@, Torn)]
      /\ file \in [Actor -> Seq(Line)] /\ Me \in Actor /\ Torn \in Line
  BY Timestamps DEF Tear, Put, IInv, Shapes, Line
<1>2. Ascends(Append(file[Me], Torn))
  BY <1>1, AppendAscends DEF Steady
<1> QED BY <1>1, <1>2 DEF Steady

LEMMA StepSteady ==
  ASSUME IInv, Steady, [Next]_vars
  PROVE  Steady'
<1>1. Runs'
  BY StepRuns DEF Steady
<1>2. ASSUME batch' = batch, file'[Me] = file[Me] PROVE Steady'
  BY <1>1, <1>2, AppendsStay DEF Steady
<1>3. ASSUME batch' = NoBatch, Ascends(file'[Me]) PROVE Steady'
  BY <1>1, <1>3, NothingAppends DEF Steady
<1>4. ASSUME NEW p \in Storage,
             \/ Start(p) \/ Reload(p) \/ ReadFile(p) \/ SaveOffsets(p) \/ SaveNodes(p)
             \/ SaveFails(p) \/ Stop(p) \/ \E r \in Storage : Replace(p, r)
      PROVE  Steady'
  BY <1>2, <1>4 DEF Start, Reload, Replace, ReadFile, SaveOffsets, SaveNodes,
                    SaveFails, Stop
<1>5. ASSUME NEW p \in Storage, Begin(p) PROVE Steady'
  <2>1. file' = file
    BY <1>5 DEF Begin
  <2> QED BY <1>1, <1>5, <2>1, BeginAppends DEF Steady
<1>6. ASSUME NEW p \in Storage, Crash(p) PROVE Steady'
  <2>1. batch' = IF writer \in Fellows(p) THEN NoBatch ELSE batch
    BY <1>6 DEF Crash
  <2>2. \/ UNCHANGED <<file, loose>>
        \/ writer \in Fellows(p) /\ Tear(Me)
        \/ \E a \in Actor \ {Me} : Tear(a)
    BY <1>6 DEF Crash
  <2>3. CASE UNCHANGED <<file, loose>>
    BY <2>1, <2>3, <1>2, <1>3 DEF Steady
  <2>4. CASE writer \in Fellows(p) /\ Tear(Me)
    <3>1. Ascends(file'[Me])
      BY <2>4, Timestamps, TornAscends
    <3> QED BY <2>1, <2>4, <3>1, <1>3
  <2>5. CASE \E a \in Actor \ {Me} : Tear(a)
    <3>1. file'[Me] = file[Me] /\ Ascends(file'[Me])
      BY <2>5, TornAscends
    <3> QED BY <2>1, <3>1, <1>2, <1>3
  <2> QED BY <2>2, <2>3, <2>4, <2>5
<1>7. ASSUME NEW p \in Storage, NEW t \in Ts, NEW op \in LocalOps[t], Ingest(p, t, op)
      PROVE Steady'
  <2>1. batch' = batch /\ file'[Me] = file[Me]
    <3>1. file \in [Actor -> Seq(Line)] /\ Me \in Actor
      BY Timestamps DEF IInv, Shapes
    <3> QED BY <1>7, <3>1 DEF Ingest
  <2> QED BY <1>2, <2>1
<1>8. CASE WriteLine
  BY <1>1, <1>8, WriteLineAppends DEF Steady
<1>9. CASE WriteFails
  <2>1. batch' = NoBatch /\ (Tear(Me) \/ UNCHANGED <<file, loose>>)
    BY <1>9 DEF WriteFails, Cut
  <2>2. Ascends(file'[Me])
    BY <2>1, Timestamps, TornAscends DEF Steady
  <2> QED BY <1>3, <2>1, <2>2
<1>10. CASE EnterOffset \/ EnterNode \/ OffsetFails \/ NodeFails
  BY <1>1, <1>10, EntriesAppend DEF Steady
<1>11. ASSUME NEW t \in Ts, Plan(t) PROVE Steady'
  BY <1>2, <1>11 DEF Plan
<1>12. CASE Check \/ DropOffsets \/ DropNodes \/ CompactEnds
  BY <1>2, <1>12 DEF Check, DropOffsets, DropNodes, CompactEnds
<1>13. CASE Rename
  <2>1. /\ compact.at = "checked" /\ batch' = batch
        /\ file' = [file EXCEPT ![Me] = Kept(@, compact.drops)]
    BY <1>13 DEF Rename
  <2>2. /\ file \in [Actor -> Seq(Line)] /\ Me \in Actor /\ compact.drops \in SUBSET Ts
    BY Timestamps DEF IInv, Shapes, Compaction
  <2>3. batch = NoBatch
    BY <2>1, Appending
  <2>4. Ascends(file'[Me])
    BY <2>1, <2>2, KeptAscends DEF Steady
  <2> QED BY <1>3, <2>1, <2>3, <2>4
<1>14. CASE UNCHANGED vars
  BY <1>2, <1>14 DEF vars
<1> QED BY <1>4, <1>5, <1>6, <1>7, <1>8, <1>9, <1>10, <1>11, <1>12, <1>13, <1>14
        DEF Next

LEMMA InitSteady ==
  Init => Steady
<1> SUFFICES ASSUME Init PROVE Steady
  OBVIOUS
<1>1. file[Me] = <<>> /\ batch = NoBatch /\ store = [p \in Storage |-> Down]
  BY Timestamps DEF Init
<1>2. Ascends(<<>>)
  BY DEF Ascends
<1>3. Appends
  BY <1>1 DEF Appends, NoBatch
<1>4. Runs
  BY <1>1 DEF Runs, Down
<1> QED BY <1>1, <1>2, <1>3, <1>4 DEF Steady

----------------------------------------------------------------------------
\* What a step does to a file, to a sidecar and to what a process holds.

Mixed == {"renamed", "half"}

LEMMA FileStep ==
  ASSUME IInv, [Next]_vars, NEW a \in Actor
  PROVE  \/ file'[a] = file[a]
         \/ \E x \in Line : file'[a] = Append(file[a], x)
         \/ Rename /\ a = Me
<1>1. file \in [Actor -> Seq(Line)] /\ Torn \in Line
  BY DEF IInv, Shapes, Line
<1>2. ASSUME NEW b \in Actor, Tear(b)
      PROVE  file'[a] = file[a] \/ \E x \in Line : file'[a] = Append(file[a], x)
  <2>1. file' = [file EXCEPT ![b] = Append(@, Torn)]
    BY <1>2 DEF Tear, Put
  <2> QED BY <1>1, <2>1
<1>3. ASSUME NEW p \in Storage, Crash(p)
      PROVE  file'[a] = file[a] \/ \E x \in Line : file'[a] = Append(file[a], x)
  <2>1. UNCHANGED file \/ \E b \in Actor : Tear(b)
    BY <1>3, Timestamps DEF Crash
  <2> QED BY <1>2, <2>1
<1>4. ASSUME NEW p \in Storage, NEW t \in Ts, NEW op \in LocalOps[t], Ingest(p, t, op)
      PROVE  file'[a] = file[a] \/ \E x \in Line : file'[a] = Append(file[a], x)
  <2>1. file' = [file EXCEPT ![Author[t]] = Append(@, t)] /\ t \in Line
    BY <1>4 DEF Ingest, Put, Line
  <2> QED BY <1>1, <2>1
<1>5. CASE WriteLine
  <2>1. /\ file' = [file EXCEPT ![Me] = Append(@, Head(batch.todo))]
        /\ batch.todo # <<>>
    BY <1>5 DEF WriteLine, Put
  <2>2. Head(batch.todo) \in Line
    BY <2>1, NoBatchIs, Appending, SmallerTail DEF Line
  <2> QED BY <1>1, <2>1, <2>2
<1>6. CASE WriteFails
  <2>1. UNCHANGED file \/ Tear(Me)
    BY <1>6 DEF WriteFails, Cut
  <2> QED BY <1>2, <2>1, Timestamps
<1>7. CASE Rename
  <2>1. file' = [file EXCEPT ![Me] = Kept(@, compact.drops)]
    BY <1>7 DEF Rename
  <2> QED BY <1>1, <1>7, <2>1
<1>8. ASSUME NEW p \in Storage,
             \/ Start(p) \/ Reload(p) \/ \E r \in Storage : Replace(p, r)
             \/ ReadFile(p) \/ SaveOffsets(p) \/ SaveNodes(p) \/ SaveFails(p)
             \/ Stop(p) \/ Begin(p)
      PROVE  file'[a] = file[a]
  BY <1>8 DEF Start, Reload, Replace, ReadFile, SaveOffsets, SaveNodes, SaveFails,
              Stop, Begin
<1>9. ASSUME NEW t \in Ts, Plan(t) PROVE file'[a] = file[a]
  BY <1>9 DEF Plan
<1>10. CASE EnterOffset \/ EnterNode \/ OffsetFails \/ NodeFails \/ Check
              \/ DropOffsets \/ DropNodes \/ CompactEnds \/ UNCHANGED vars
  BY <1>10 DEF EnterOffset, EnterNode, OffsetFails, NodeFails, Check,
               DropOffsets, DropNodes, CompactEnds, vars
<1> QED BY <1>3, <1>4, <1>5, <1>6, <1>7, <1>8, <1>9, <1>10 DEF Next

\* The file a process reads next, and what it makes of it.
Nexts(p) == CHOOSE b \in store[p].todo : TRUE
Trusts(p) == Fresh(file[Nexts(p)], offsets[Nexts(p)], nodes[Nexts(p)])

LEMMA ReadIs ==
  ASSUME IInv, NEW p \in Storage, ReadFile(p)
  PROVE  /\ store[p].at = "reading" /\ Nexts(p) \in store[p].todo /\ Nexts(p) \in Actor
         /\ UNCHANGED <<file, offsets, nodes, batch, compact, faults, excuses>>
         /\ \A q \in Storage \ {p} : store'[q] = store[q]
         /\ store'[p].offsets[Nexts(p)] =
              IF Trusts(p)
              THEN Merge(offsets[Nexts(p)],
                         Scan(file[Nexts(p)], Tip(offsets[Nexts(p)]) + 1))
              ELSE Scan(file[Nexts(p)], 1)
         /\ store'[p].nodes[Nexts(p)] =
              IF Trusts(p)
              THEN Merge(nodes[Nexts(p)],
                         Scan(file[Nexts(p)], Tip(offsets[Nexts(p)]) + 1))
              ELSE Scan(file[Nexts(p)], 1)
         /\ store'[p].seen[Nexts(p)] = Whole(file[Nexts(p)])
         /\ \A b \in Actor \ {Nexts(p)} :
              /\ store'[p].offsets[b] = store[p].offsets[b]
              /\ store'[p].nodes[b] = store[p].nodes[b]
              /\ store'[p].seen[b] = store[p].seen[b]
         /\ store'[p].actor = Nexts(p) /\ store'[p].todo = store[p].todo \ {Nexts(p)}
         /\ store'[p].at = IF (Trusts(p) /\ Tip(offsets[Nexts(p)]) = Len(file[Nexts(p)]))
                               \/ file[Nexts(p)] = <<>>
                          THEN After(p, store[p].todo \ {Nexts(p)}) ELSE "saving"
<1> DEFINE a    == Nexts(p)
           X    == IF Trusts(p)
                   THEN Merge(offsets[a], Scan(file[a], Tip(offsets[a]) + 1))
                   ELSE Scan(file[a], 1)
           Y    == IF Trusts(p)
                   THEN Merge(nodes[a], Scan(file[a], Tip(offsets[a]) + 1))
                   ELSE Scan(file[a], 1)
           W    == Whole(file[a])
           todo == store[p].todo \ {a}
           at   == IF (Trusts(p) /\ Tip(offsets[a]) = Len(file[a])) \/ file[a] = <<>>
                   THEN After(p, todo) ELSE "saving"
           d    == [store[p] EXCEPT !.offsets[a] = X, !.nodes[a] = Y,
                                   !.seen[a] = W, !.actor = a,
                                   !.todo = todo, !.at = at]
<1>1. /\ store[p].at = "reading"
      /\ UNCHANGED <<file, offsets, nodes, batch, compact, faults, excuses>>
      /\ store' = [store EXCEPT ![p] = [@ EXCEPT !.offsets[a] = X, !.nodes[a] = Y,
                                               !.seen[a] = W, !.actor = a,
                                               !.todo = todo, !.at = at]]
  BY DEF ReadFile, Trusts, Nexts
<1>2. /\ store \in [Storage -> Slot] /\ store[p] \in Slot
      /\ store[p].todo \in SUBSET Actor /\ store[p].todo # {}
  BY <1>1 DEF IInv, Shapes, Slot
<1>3. a \in store[p].todo /\ a \in Actor
  <2>1. (CHOOSE b \in store[p].todo : TRUE) \in store[p].todo
    BY <1>2
  <2> QED BY <1>2, <2>1 DEF Nexts
<1>4. /\ store[p].offsets \in [Actor -> Index] /\ store[p].nodes \in [Actor -> Index]
      /\ store[p].seen \in [Actor -> SUBSET Ts]
  BY <1>2 DEF Slot
<1> HIDE DEF a, X, Y, W, todo, at
<1>5. /\ d.offsets = [store[p].offsets EXCEPT ![a] = X]
      /\ d.nodes = [store[p].nodes EXCEPT ![a] = Y]
      /\ d.seen = [store[p].seen EXCEPT ![a] = W]
      /\ d.actor = a /\ d.todo = todo /\ d.at = at
  BY <1>2 DEF Slot
<1>6. store' = [store EXCEPT ![p] = d]
  BY <1>1, <1>2
<1> HIDE DEF d
<1>7. store'[p] = d /\ \A q \in Storage \ {p} : store'[q] = store[q]
  BY <1>2, <1>6
<1>8. /\ d.offsets[a] = X /\ d.nodes[a] = Y /\ d.seen[a] = W
      /\ \A b \in Actor \ {a} : /\ d.offsets[b] = store[p].offsets[b]
                                /\ d.nodes[b] = store[p].nodes[b]
                                /\ d.seen[b] = store[p].seen[b]
  BY <1>3, <1>4, <1>5
<1> QED BY <1>1, <1>3, <1>5, <1>7, <1>8 DEF a, X, Y, W, todo, at

\* What a process holds of a file is as it was, or nothing, or comes from
\* reading the file, or has one entry more.
Holds(q, a) == <<store[q].offsets[a], store[q].nodes[a], store[q].seen[a]>>

LEMMA MemoryStep ==
  ASSUME IInv, [Next]_vars, NEW q \in Storage, NEW a \in Actor
  PROVE  \/ Holds(q, a)' = Holds(q, a)
         \/ Holds(q, a)' = <<Nothing, Nothing, {}>>
         \/ ReadFile(q) /\ a = Nexts(q)
         \/ /\ EnterOffset \/ OffsetFails
            /\ q = writer /\ a = Me
            /\ store'[q].offsets[a] =
                 Entered(store[q].offsets[a], Head(batch.entries), batch.from + 1)
            /\ store'[q].nodes[a] =
                 Entered(store[q].nodes[a], Head(batch.entries), batch.from + 1)
            /\ store'[q].seen[a] = store[q].seen[a]
<1>1. store \in [Storage -> Slot] /\ store[q] \in Slot
  BY DEF IInv, Shapes
<1>2. /\ Down.offsets[a] = Nothing /\ Down.nodes[a] = Nothing /\ Down.seen[a] = {}
  BY DEF Down
<1>3. ASSUME store'[q] = store[q] PROVE Holds(q, a)' = Holds(q, a)
  BY <1>3 DEF Holds
<1>4. ASSUME store'[q] = Down PROVE Holds(q, a)' = <<Nothing, Nothing, {}>>
  BY <1>2, <1>4 DEF Holds
<1>5. ASSUME NEW p \in Storage, Start(p) \/ Reload(p)
      PROVE  Holds(q, a)' = Holds(q, a) \/ Holds(q, a)' = <<Nothing, Nothing, {}>>
  <2>1. store'[q] = Opened \/ store'[q] = store[q]
    BY <1>5, StartIs, ReloadIs
  <2> QED BY <1>2, <1>3, <2>1, OpenedIs DEF Holds
<1>6. ASSUME NEW p \in Storage, ReadFile(p)
      PROVE  Holds(q, a)' = Holds(q, a) \/ (ReadFile(q) /\ a = Nexts(q))
  <2>1. CASE q # p
    BY <1>3, <1>6, <2>1, ReadIs
  <2>2. CASE q = p /\ a # Nexts(p)
    BY <1>6, <2>2, ReadIs DEF Holds
  <2> QED BY <1>6, <2>1, <2>2
<1>7. ASSUME NEW p \in Storage, SaveOffsets(p) \/ SaveNodes(p) \/ SaveFails(p)
      PROVE  Holds(q, a)' = Holds(q, a)
  <2>1. PICK s \in {"saving nodes", After(p, store[p].todo)} :
          store' = [store EXCEPT ![p].at = s]
    BY <1>7 DEF SaveOffsets, SaveNodes, SaveFails
  <2> DEFINE d == [store[p] EXCEPT !.at = s]
  <2>2. d.offsets = store[p].offsets /\ d.nodes = store[p].nodes /\ d.seen = store[p].seen
    BY <1>1 DEF Slot
  <2>3. store' = [store EXCEPT ![p] = d]
    BY <2>1
  <2> HIDE DEF d
  <2>4. (q = p /\ store'[q] = d) \/ store'[q] = store[q]
    BY <1>1, <2>3
  <2> QED BY <1>3, <2>2, <2>4 DEF Holds
<1>8. ASSUME NEW p \in Storage,
             Stop(p) \/ Crash(p) \/ \E r \in Storage : Replace(p, r)
      PROVE  Holds(q, a)' = Holds(q, a) \/ Holds(q, a)' = <<Nothing, Nothing, {}>>
  BY <1>3, <1>4, <1>8, EndIs
<1>9. ASSUME EnterOffset \/ OffsetFails
      PROVE  \/ Holds(q, a)' = Holds(q, a)
             \/ /\ q = writer /\ a = Me
                /\ store'[q].offsets[a] =
                     Entered(store[q].offsets[a], Head(batch.entries), batch.from + 1)
                /\ store'[q].nodes[a] =
                     Entered(store[q].nodes[a], Head(batch.entries), batch.from + 1)
                /\ store'[q].seen[a] = store[q].seen[a]
  <2> DEFINE x == Entered(store[writer].offsets[Me], Head(batch.entries), batch.from + 1)
             y == Entered(store[writer].nodes[Me], Head(batch.entries), batch.from + 1)
             d == [store[writer] EXCEPT !.offsets[Me] = x, !.nodes[Me] = y]
  <2>1. batch.entries # <<>> /\ store' = Remembered(Head(batch.entries), batch.from + 1)
    BY <1>9 DEF EnterOffset, OffsetFails
  <2>2. writer \in Storage
    BY <2>1, NoBatchIs, Appending
  <2>3. store' = [store EXCEPT ![writer].offsets[Me] = x, ![writer].nodes[Me] = y]
    <3>1. /\ store[writer] \in Slot /\ Me \in Actor
      BY <1>1, <2>2, Timestamps
    <3> QED BY <1>1, <2>1, <2>2, <3>1 DEF Remembered, Slot
  <2> HIDE DEF x, y
  <2>4. store' = [store EXCEPT ![writer] = d]
    BY <1>1, <2>2, <2>3 DEF Slot
  <2>5. /\ d.offsets = [store[writer].offsets EXCEPT ![Me] = x]
        /\ d.nodes = [store[writer].nodes EXCEPT ![Me] = y]
        /\ d.seen = store[writer].seen
        /\ store[writer].offsets \in [Actor -> Index]
        /\ store[writer].nodes \in [Actor -> Index]
    BY <1>1, <2>2 DEF Slot
  <2> HIDE DEF d
  <2>6. q # writer => store'[q] = store[q]
    BY <1>1, <2>4
  <2>7. q = writer => store'[q] = d
    BY <1>1, <2>4, <2>2
  <2>8. CASE q = writer /\ a # Me
    BY <2>5, <2>7, <2>8 DEF Holds
  <2>9. CASE q = writer /\ a = Me
    BY <2>5, <2>7, <2>9 DEF x, y
  <2> QED BY <1>3, <2>6, <2>8, <2>9
<1>10. CASE store' = store
  BY <1>3, <1>10
<1>11. ASSUME NEW p \in Storage, Begin(p) PROVE store' = store
  BY <1>11 DEF Begin
<1>12. ASSUME NEW p \in Storage, NEW t \in Ts, NEW op \in LocalOps[t], Ingest(p, t, op)
       PROVE store' = store
  BY <1>12 DEF Ingest
<1>13. ASSUME NEW t \in Ts, Plan(t) PROVE store' = store
  BY <1>13 DEF Plan
<1>14. ASSUME \/ WriteLine \/ WriteFails \/ EnterNode \/ NodeFails \/ Check \/ Rename
              \/ DropOffsets \/ DropNodes \/ CompactEnds \/ UNCHANGED vars
       PROVE  store' = store
  BY <1>14 DEF WriteLine, WriteFails, EnterNode, NodeFails, Check, Rename,
               DropOffsets, DropNodes, CompactEnds, vars
<1> QED BY <1>5, <1>6, <1>7, <1>8, <1>9, <1>10, <1>11, <1>12, <1>13, <1>14 DEF Next

----------------------------------------------------------------------------
\* A sidecar is as it was, or not there, or one a process has saved, or has
\* one entry more.
Became(s, new) ==
  \/ new = s \/ new = None
  \/ /\ \/ EnterOffset
        \/ EnterNode
     /\ new = Entered(s, Head(batch.entries), batch.from + 1)

\* Only a sidecar of the own file gets an entry.
MineIf(a, s, new) == new # None /\ new # s => a = Me

LEMMA SidecarStep ==
  ASSUME IInv, [Next]_vars, NEW a \in Actor
  PROVE  /\ \/ Became(offsets[a], offsets'[a]) /\ MineIf(a, offsets[a], offsets'[a])
            \/ \E p \in Storage : /\ SaveOffsets(p) /\ a = store[p].actor
                                  /\ offsets'[a] = Saved(store[p].offsets[a])
         /\ \/ Became(nodes[a], nodes'[a]) /\ MineIf(a, nodes[a], nodes'[a])
            \/ \E p \in Storage : /\ SaveNodes(p) /\ a = store[p].actor
                                  /\ nodes'[a] = Saved(store[p].nodes[a])
<1>1. /\ offsets \in [Actor -> Index \cup {None}] /\ nodes \in [Actor -> Index \cup {None}]
      /\ Me \in Actor
  BY Timestamps DEF IInv, Shapes
<1>2. CASE offsets' = offsets /\ nodes' = nodes
  BY <1>2 DEF Became, MineIf
<1>3. ASSUME NEW p \in Storage, SaveOffsets(p)
      PROVE  \/ offsets'[a] = offsets[a] /\ nodes'[a] = nodes[a]
             \/ a = store[p].actor /\ nodes'[a] = nodes[a] /\ SaveOffsets(p)
                /\ offsets'[a] = Saved(store[p].offsets[a])
  <2>1. /\ offsets' = [offsets EXCEPT ![store[p].actor] = Saved(store[p].offsets[store[p].actor])]
        /\ nodes' = nodes
    BY <1>3 DEF SaveOffsets
  <2> QED BY <1>1, <1>3, <2>1
<1>4. ASSUME NEW p \in Storage, SaveNodes(p)
      PROVE  \/ offsets'[a] = offsets[a] /\ nodes'[a] = nodes[a]
             \/ a = store[p].actor /\ offsets'[a] = offsets[a] /\ SaveNodes(p)
                /\ nodes'[a] = Saved(store[p].nodes[a])
  <2>1. /\ nodes' = [nodes EXCEPT ![store[p].actor] = Saved(store[p].nodes[store[p].actor])]
        /\ offsets' = offsets
    BY <1>4 DEF SaveNodes
  <2> QED BY <1>1, <1>4, <2>1
<1>5. CASE EnterOffset
  <2>1. /\ offsets' = [offsets EXCEPT ![Me] = Entered(@, Head(batch.entries), batch.from + 1)]
        /\ nodes' = nodes
    BY <1>5 DEF EnterOffset
  <2>2. CASE a = Me
    BY <1>1, <1>5, <2>1, <2>2 DEF Became, MineIf
  <2>3. CASE a # Me
    BY <1>1, <2>1, <2>3 DEF Became, MineIf
  <2> QED BY <2>2, <2>3
<1>6. CASE EnterNode
  <2>1. /\ nodes' = [nodes EXCEPT ![Me] = Entered(@, Head(batch.entries), batch.from + 1)]
        /\ offsets' = offsets
    BY <1>6 DEF EnterNode
  <2>2. CASE a = Me
    BY <1>1, <1>6, <2>1, <2>2 DEF Became, MineIf
  <2>3. CASE a # Me
    BY <1>1, <2>1, <2>3 DEF Became, MineIf
  <2> QED BY <2>2, <2>3
<1>7. CASE DropOffsets \/ DropNodes
  <2>1. /\ offsets' = offsets \/ offsets' = [offsets EXCEPT ![Me] = None]
        /\ nodes' = nodes \/ nodes' = [nodes EXCEPT ![Me] = None]
    BY <1>7 DEF DropOffsets, DropNodes
  <2>2. /\ offsets'[a] = offsets[a] \/ offsets'[a] = None
        /\ nodes'[a] = nodes[a] \/ nodes'[a] = None
    BY <1>1, <2>1
  <2> QED BY <2>2 DEF Became, MineIf
<1>8. ASSUME NEW p \in Storage,
             \/ Start(p) \/ ReadFile(p) \/ SaveFails(p) \/ Begin(p) \/ Stop(p) \/ Crash(p)
             \/ Reload(p) \/ \E r \in Storage : Replace(p, r)
             \/ \E t \in Ts : \E op \in LocalOps[t] : Ingest(p, t, op)
      PROVE  offsets' = offsets /\ nodes' = nodes
  BY <1>8 DEF Start, Reload, Replace, ReadFile, SaveFails, Begin, Stop, Crash, Ingest
<1>9. ASSUME NEW t \in Ts, Plan(t) PROVE offsets' = offsets /\ nodes' = nodes
  BY <1>9 DEF Plan
<1>10. ASSUME \/ WriteLine \/ WriteFails \/ OffsetFails \/ NodeFails
              \/ Check \/ Rename \/ CompactEnds \/ UNCHANGED vars
       PROVE  offsets' = offsets /\ nodes' = nodes
  BY <1>10 DEF WriteLine, WriteFails, OffsetFails, NodeFails, Check, Rename,
               CompactEnds, vars
<1>11. ASSUME NEW p \in Storage, SaveOffsets(p) \/ SaveNodes(p)
       PROVE  /\ \/ Became(offsets[a], offsets'[a]) /\ MineIf(a, offsets[a], offsets'[a])
                 \/ \E q \in Storage : /\ SaveOffsets(q) /\ a = store[q].actor
                                       /\ offsets'[a] = Saved(store[q].offsets[a])
              /\ \/ Became(nodes[a], nodes'[a]) /\ MineIf(a, nodes[a], nodes'[a])
                 \/ \E q \in Storage : /\ SaveNodes(q) /\ a = store[q].actor
                                       /\ nodes'[a] = Saved(store[q].nodes[a])
  <2>1. \/ Became(offsets[a], offsets'[a]) /\ offsets'[a] = offsets[a]
        \/ \E q \in Storage : /\ SaveOffsets(q) /\ a = store[q].actor
                              /\ offsets'[a] = Saved(store[q].offsets[a])
    BY <1>3, <1>4, <1>11 DEF Became, MineIf
  <2>2. \/ Became(nodes[a], nodes'[a]) /\ nodes'[a] = nodes[a]
        \/ \E q \in Storage : /\ SaveNodes(q) /\ a = store[q].actor
                              /\ nodes'[a] = Saved(store[q].nodes[a])
    BY <1>3, <1>4, <1>11 DEF Became, MineIf
  <2> QED BY <2>1, <2>2 DEF MineIf
<1> QED BY <1>2, <1>5, <1>6, <1>7, <1>8, <1>9, <1>10, <1>11 DEF Next

----------------------------------------------------------------------------
\* The offsets that processes hold.

Leads == \A p \in Storage : \A a \in Actor :
  /\ Right(store[p].offsets[a], file[a]) /\ Right(store[p].nodes[a], file[a])

\* A file that is read as fresh has sidecars that lead to its lines.
ReadsRight ==
  \A p \in Storage : ReadFile(p) /\ Trusts(p) =>
    /\ Right(offsets[Nexts(p)], file[Nexts(p)])
    /\ Right(nodes[Nexts(p)], file[Nexts(p)])

LEMMA NothingIsRight ==
  ASSUME NEW lines
  PROVE  Right(Nothing, lines)
BY DEF Right, Nothing

\* Where a file does not change or grows, what led to its lines does.
LEMMA StillRight ==
  ASSUME IInv, [Next]_vars, NEW a \in Actor, ~ (Rename /\ a = Me),
         NEW ix \in Index, Right(ix, file[a])
  PROVE  Right(ix, file'[a])
<1>1. file[a] \in Seq(Line)
  BY DEF IInv, Shapes
<1>2. file'[a] = file[a] \/ \E x \in Line : file'[a] = Append(file[a], x)
  BY FileStep
<1> QED BY <1>1, <1>2, RightGrows

LEMMA HeldIsIndex ==
  ASSUME IInv, NEW p \in Storage, NEW a \in Actor
  PROVE  /\ store[p] \in Slot /\ store[p].offsets[a] \in Index /\ store[p].nodes[a] \in Index
         /\ store[p].seen[a] \in SUBSET Ts
         /\ file[a] \in Seq(Line) /\ offsets[a] \in Index \cup {None}
         /\ nodes[a] \in Index \cup {None}
<1>1. store[p] \in Slot /\ file[a] \in Seq(Line) /\ offsets[a] \in Index \cup {None}
      /\ nodes[a] \in Index \cup {None}
  BY DEF IInv, Shapes
<1> QED BY <1>1 DEF Slot

LEMMA StepLeads ==
  ASSUME IInv, Steady, Leads, [Next]_vars, ReadsRight
  PROVE  Leads'
<1> SUFFICES ASSUME NEW q \in Storage, NEW a \in Actor
             PROVE  /\ Right(store'[q].offsets[a], file'[a])
                    /\ Right(store'[q].nodes[a], file'[a])
  BY DEF Leads
<1>1. /\ Right(store[q].offsets[a], file[a]) /\ Right(store[q].nodes[a], file[a])
  BY DEF Leads
<1>2. /\ store[q].offsets[a] \in Index /\ store[q].nodes[a] \in Index
      /\ file[a] \in Seq(Line) /\ offsets[a] \in Index \cup {None}
      /\ nodes[a] \in Index \cup {None}
  BY HeldIsIndex
<1>3. CASE Holds(q, a)' = Holds(q, a)
  <2>1. store'[q].offsets[a] = store[q].offsets[a] /\ store'[q].nodes[a] = store[q].nodes[a]
    BY <1>3 DEF Holds
  <2>2. CASE Rename /\ a = Me
    <3>1. store[q].at = "down"
      BY <2>2 DEF Rename, IInv, Locked, Exclusive, Alone
    <3>2. store[q] = Down /\ Down.offsets[a] = Nothing /\ Down.nodes[a] = Nothing
      BY <3>1 DEF Steady, Runs, Down
    <3> QED BY <2>1, <3>2, NothingIsRight
  <2>3. CASE ~ (Rename /\ a = Me)
    BY <1>1, <1>2, <2>1, <2>3, StillRight
  <2> QED BY <2>2, <2>3
<1>4. CASE Holds(q, a)' = <<Nothing, Nothing, {}>>
  BY <1>4, NothingIsRight DEF Holds
<1>5. CASE ReadFile(q) /\ a = Nexts(q)
  <2>1. /\ file'[a] = file[a]
        /\ store'[q].offsets[a] = IF Trusts(q)
             THEN Merge(offsets[a], Scan(file[a], Tip(offsets[a]) + 1))
             ELSE Scan(file[a], 1)
        /\ store'[q].nodes[a] = IF Trusts(q)
             THEN Merge(nodes[a], Scan(file[a], Tip(offsets[a]) + 1))
             ELSE Scan(file[a], 1)
    BY <1>5, ReadIs
  <2>2. CASE Trusts(q)
    <3>1. Right(offsets[a], file[a]) /\ Right(nodes[a], file[a])
      BY <1>5, <2>2 DEF ReadsRight
    <3>2. offsets[a] # None
      BY <1>5, <2>2 DEF Trusts, Fresh
    <3>3. Tip(offsets[a]) + 1 \in Nat \ {0}
      BY <1>2, <3>2, TipIs
    <3>4. Right(Scan(file[a], Tip(offsets[a]) + 1), file[a])
      BY <1>2, <3>3, ScanHas
    <3> QED BY <2>1, <2>2, <3>1, <3>4, MergeHas
  <2>3. CASE ~ Trusts(q)
    BY <1>2, <2>1, <2>3, ScanCompletes
  <2> QED BY <2>2, <2>3
<1>6. CASE /\ EnterOffset \/ OffsetFails
           /\ q = writer /\ a = Me
           /\ store'[q].offsets[a] =
                Entered(store[q].offsets[a], Head(batch.entries), batch.from + 1)
           /\ store'[q].nodes[a] =
                Entered(store[q].nodes[a], Head(batch.entries), batch.from + 1)
  <2>1. batch.entries # <<>> /\ file' = file
    BY <1>6 DEF EnterOffset, OffsetFails
  <2>2. /\ Head(batch.entries) \in Ts /\ batch.from \in 0..Len(file[a])
        /\ batch.from + 1 <= Len(file[a])
        /\ file[a][batch.from + 1] = Head(batch.entries)
    BY <1>6, <2>1, NextLine
  <2>3. /\ Entries(store[q].offsets[a]) = store[q].offsets[a]
        /\ Entries(store[q].nodes[a]) = store[q].nodes[a]
    BY <1>2, NoIndex DEF Entries
  <2> DEFINE t == Head(batch.entries)
             n == batch.from
  <2> HIDE DEF t, n
  <2>4. t \in Ts /\ n \in 0..Len(file[a]) /\ n + 1 <= Len(file[a]) /\ file[a][n + 1] = t
    BY <2>2 DEF t, n
  <2>5. /\ Right(Entered(store[q].offsets[a], t, n + 1), file[a])
        /\ Right(Entered(store[q].nodes[a], t, n + 1), file[a])
    BY <1>1, <1>2, <2>3, <2>4, EnteredHas
  <2> QED BY <1>6, <2>1, <2>5 DEF t, n
<1> QED BY <1>3, <1>4, <1>5, <1>6, MemoryStep

----------------------------------------------------------------------------
\* Between the rewriting of the file and the removal of its sidecars.

LEMMA MixedStep ==
  ASSUME IInv, [Next]_vars, compact.at \in Mixed
  PROVE  UNCHANGED vars \/ DropOffsets \/ DropNodes \/ CompactEnds
<1>1. compact.at \in {"renamed", "half"}
  BY DEF Mixed
<1>2. Exclusive
  BY <1>1 DEF Exclusive
<1>3. \A p \in Storage : store[p].at = "down"
  BY <1>2 DEF IInv, Locked, Alone
<1>4. batch = NoBatch /\ batch.todo = <<>> /\ batch.entries = <<>>
  BY <1>2, Appending, NoBatchIs
<1>5. ASSUME NEW p \in Storage
      PROVE  /\ ~ Start(p) /\ ~ Reload(p) /\ \A r \in Storage : ~ Replace(p, r)
             /\ ~ SaveOffsets(p) /\ ~ SaveNodes(p) /\ ~ SaveFails(p)
             /\ ~ Begin(p) /\ ~ Stop(p) /\ ~ Crash(p) /\ ~ ReadFile(p)
             /\ \A t \in Ts : \A op \in LocalOps[t] : ~ Ingest(p, t, op)
  BY <1>2, <1>3, FellowsAre
     DEF Start, Reload, Replace, SaveOffsets, SaveNodes, SaveFails, Begin, Stop, Crash,
         ReadFile, Ingest
<1>6. /\ ~ WriteLine /\ ~ WriteFails /\ ~ EnterOffset /\ ~ EnterNode
      /\ ~ OffsetFails /\ ~ NodeFails
  BY <1>4 DEF WriteLine, WriteFails, EnterOffset, EnterNode, OffsetFails, NodeFails
<1>7. (\A t \in Ts : ~ Plan(t)) /\ ~ Check /\ ~ Rename
  BY <1>1 DEF Plan, Check, Rename
<1> QED BY <1>5, <1>6, <1>7 DEF Next

LEMMA StageStep ==
  ASSUME IInv, [Next]_vars, compact.at \notin Mixed
  PROVE  compact'.at \notin Mixed \/ Rename
<1>1. compact \in Compaction /\ NoCompact.at = "idle"
  BY NoCompactIs DEF IInv, Shapes
<1>2. CASE compact' = compact
  BY <1>2
<1>3. ASSUME NEW t \in Ts, Plan(t) PROVE compact'.at \notin Mixed
  <2>1. PICK d, s : compact' = [at |-> "planned", drops |-> d, sizes |-> s]
    BY <1>3 DEF Plan
  <2> QED BY <2>1 DEF Mixed
<1>4. CASE Check
  <2>1. compact' = [compact EXCEPT !.at = "checked"] \/ compact' = NoCompact
    BY <1>4 DEF Check
  <2>2. compact'.at \in {"checked", "idle"}
    BY <1>1, <2>1 DEF Compaction
  <2> QED BY <2>2 DEF Mixed
<1>5. CASE DropOffsets \/ DropNodes
  BY <1>5 DEF DropOffsets, DropNodes, Mixed
<1>6. CASE CompactEnds
  BY <1>1, <1>6 DEF CompactEnds, Mixed
<1>7. ASSUME NEW p \in Storage,
             \/ Start(p) \/ ReadFile(p) \/ SaveFails(p) \/ Begin(p) \/ Stop(p) \/ Crash(p)
             \/ SaveOffsets(p) \/ SaveNodes(p)
             \/ Reload(p) \/ \E r \in Storage : Replace(p, r)
             \/ \E t \in Ts : \E op \in LocalOps[t] : Ingest(p, t, op)
      PROVE  compact' = compact
  BY <1>7 DEF Start, Reload, Replace, ReadFile, SaveFails, Begin, Stop, Crash, Ingest, SaveOffsets, SaveNodes
<1>8. ASSUME \/ WriteLine \/ WriteFails \/ OffsetFails \/ NodeFails
             \/ EnterOffset \/ EnterNode \/ UNCHANGED vars
      PROVE  compact' = compact
  BY <1>8 DEF WriteLine, WriteFails, OffsetFails, NodeFails, EnterOffset, EnterNode, vars
<1> QED BY <1>2, <1>3, <1>4, <1>5, <1>6, <1>7, <1>8 DEF Next

----------------------------------------------------------------------------
(***************************************************************************)
(* As long as no compaction dies between the rewriting of the file and the *)
(* removal of its sidecars, the sidecars lead to the lines of their files  *)
(* at any time but then.                                                   *)
(***************************************************************************)
Finishes == CompactEnds => compact.at \notin Mixed

BothLead(a) ==
  /\ Right(Entries(offsets[a]), file[a]) /\ Right(Entries(nodes[a]), file[a])

Sidecars ==
  /\ \A a \in Actor : a # Me \/ compact.at \notin Mixed => BothLead(a)
  /\ compact.at = "half" => offsets[Me] = None

LEMMA SavedIsRight ==
  ASSUME NEW ix \in Index, NEW lines, Right(ix, lines)
  PROVE  Right(Entries(Saved(ix)), lines)
<1>1. Entries(Saved(ix)) = ix \/ Entries(Saved(ix)) = Nothing
  BY NoIndex DEF Saved, Entries
<1> QED BY <1>1, NothingIsRight

LEMMA BecameRight ==
  ASSUME IInv, Steady, [Next]_vars, NEW a \in Actor, ~ (Rename /\ a = Me),
         NEW s \in Index \cup {None}, NEW new, Became(s, new),
         MineIf(a, s, new),
         Right(Entries(s), file[a])
  PROVE  Right(Entries(new), file'[a])
<1>1. /\ file[a] \in Seq(Line) /\ Entries(s) \in Index
  BY EntriesIs DEF IInv, Shapes
<1>2. CASE new = s
  BY <1>1, <1>2, StillRight
<1>3. CASE new = None
  BY <1>3, NothingIsRight DEF Entries
<1>4. CASE new # s /\ new # None
  <2>1. /\ EnterOffset \/ EnterNode
        /\ new = Entered(s, Head(batch.entries), batch.from + 1) /\ a = Me
    BY <1>4 DEF Became, MineIf
  <2>2. batch.entries # <<>> /\ file' = file
    BY <2>1 DEF EnterOffset, EnterNode
  <2> DEFINE t == Head(batch.entries)
             n == batch.from
  <2>3. t \in Ts /\ n \in 0..Len(file[a]) /\ n + 1 <= Len(file[a]) /\ file[a][n + 1] = t
    BY <2>1, <2>2, NextLine
  <2> HIDE DEF t, n
  <2>4. Right(Entered(s, t, n + 1), file[a])
    BY <1>1, <2>3, EnteredHas
  <2>5. Entered(s, t, n + 1) \in Index
    <3>1. n + 1 \in Nat \ {0}
      BY <2>3
    <3> QED BY <2>3, <3>1, EnteredIs
  <2>6. Entries(Entered(s, t, n + 1)) = Entered(s, t, n + 1)
    BY <2>5, NoIndex DEF Entries
  <2> QED BY <2>1, <2>2, <2>4, <2>6 DEF t, n
<1> QED BY <1>2, <1>3, <1>4

LEMMA StepSidecars ==
  ASSUME IInv, Steady, Leads, Sidecars, [Next]_vars, Finishes
  PROVE  Sidecars' /\ ReadsRight
<1>1. ReadsRight
  <2> SUFFICES ASSUME NEW p \in Storage, ReadFile(p), Trusts(p)
               PROVE  /\ Right(offsets[Nexts(p)], file[Nexts(p)])
                      /\ Right(nodes[Nexts(p)], file[Nexts(p)])
    BY DEF ReadsRight
  <2>1. store[p].at = "reading" /\ Nexts(p) \in Actor
    BY ReadIs
  <2>2. compact.at \notin Mixed
    BY <2>1 DEF IInv, Locked, Exclusive, Alone, Mixed
  <2>3. BothLead(Nexts(p))
    BY <2>1, <2>2 DEF Sidecars
  <2>4. offsets[Nexts(p)] # None /\ nodes[Nexts(p)] # None
    BY DEF Trusts, Fresh
  <2> QED BY <2>3, <2>4 DEF BothLead, Entries
<1>2. compact'.at = "half" => offsets'[Me] = None
  <2>1. offsets \in [Actor -> Index \cup {None}] /\ Me \in Actor
    BY Timestamps DEF IInv, Shapes
  <2>2. CASE compact.at \in Mixed
    <3>1. UNCHANGED vars \/ DropOffsets \/ DropNodes \/ CompactEnds
      BY <2>2, MixedStep
    <3> QED BY <2>1, <3>1, NoCompactIs DEF Sidecars, vars, DropOffsets, DropNodes, CompactEnds
  <2>3. CASE compact.at \notin Mixed
    <3>1. compact'.at = "half" => Rename
      BY <2>3, StageStep DEF Mixed
    <3>2. Rename => compact'.at = "renamed"
      BY DEF Rename, IInv, Shapes, Compaction
    <3> QED BY <3>1, <3>2
  <2> QED BY <2>2, <2>3
<1>3. ASSUME NEW a \in Actor, a # Me \/ compact'.at \notin Mixed
      PROVE  BothLead(a)'
  <2>1. /\ offsets[a] \in Index \cup {None} /\ nodes[a] \in Index \cup {None}
        /\ Me \in Actor
    BY Timestamps DEF IInv, Shapes
  <2>2. ~ (Rename /\ a = Me)
    <3>1. Rename => compact'.at = "renamed"
      BY DEF Rename, IInv, Shapes, Compaction
    <3> QED BY <1>3, <3>1 DEF Mixed
  <2>3. CASE a # Me \/ compact.at \notin Mixed
    <3>1. Right(Entries(offsets[a]), file[a]) /\ Right(Entries(nodes[a]), file[a])
      BY <2>3 DEF Sidecars, BothLead
    <3>2. ASSUME NEW p \in Storage, a = store[p].actor
          PROVE  /\ Right(Entries(Saved(store[p].offsets[a])), file'[a])
                 /\ Right(Entries(Saved(store[p].nodes[a])), file'[a])
      <4>1. /\ store[p].offsets[a] \in Index /\ store[p].nodes[a] \in Index
        BY HeldIsIndex
      <4>2. Right(store[p].offsets[a], file[a]) /\ Right(store[p].nodes[a], file[a])
        BY DEF Leads
      <4>3. Right(store[p].offsets[a], file'[a]) /\ Right(store[p].nodes[a], file'[a])
        BY <2>2, <4>1, <4>2, StillRight
      <4> QED BY <4>1, <4>3, SavedIsRight
    <3>3. Right(Entries(offsets'[a]), file'[a])
      <4>1. CASE Became(offsets[a], offsets'[a]) /\ MineIf(a, offsets[a], offsets'[a])
        BY <2>1, <2>2, <3>1, <4>1, BecameRight
      <4>2. CASE \E p \in Storage : a = store[p].actor /\ offsets'[a] = Saved(store[p].offsets[a])
        BY <3>2, <4>2
      <4> QED BY <4>1, <4>2, SidecarStep
    <3>4. Right(Entries(nodes'[a]), file'[a])
      <4>1. CASE Became(nodes[a], nodes'[a]) /\ MineIf(a, nodes[a], nodes'[a])
        BY <2>1, <2>2, <3>1, <4>1, BecameRight
      <4>2. CASE \E p \in Storage : a = store[p].actor /\ nodes'[a] = Saved(store[p].nodes[a])
        BY <3>2, <4>2
      <4> QED BY <4>1, <4>2, SidecarStep
    <3> QED BY <3>3, <3>4 DEF BothLead
  <2>4. CASE a = Me /\ compact.at \in Mixed
    <3>1. UNCHANGED vars \/ DropOffsets \/ DropNodes
      BY <2>4, MixedStep DEF Finishes
    <3>2. DropNodes
      BY <1>3, <2>4, <3>1 DEF vars, DropOffsets, Mixed, IInv, Shapes, Compaction
    <3>3. offsets'[Me] = None /\ nodes'[Me] = None
      BY <3>2, <2>1 DEF DropNodes, Sidecars, IInv, Shapes
    <3> QED BY <2>4, <3>3, NothingIsRight DEF BothLead, Entries
  <2> QED BY <2>3, <2>4
<1> QED BY <1>1, <1>2, <1>3 DEF Sidecars

LEMMA InitLeads ==
  Init => Leads /\ Sidecars
<1> SUFFICES ASSUME Init PROVE Leads /\ Sidecars
  OBVIOUS
<1>1. /\ store = [p \in Storage |-> Down] /\ compact = NoCompact
      /\ offsets = [a \in Actor |-> None] /\ nodes = [a \in Actor |-> None]
  BY DEF Init
<1>2. \A a \in Actor : Down.offsets[a] = Nothing /\ Down.nodes[a] = Nothing
  BY DEF Down
<1>3. Leads
  BY <1>1, <1>2, NothingIsRight DEF Leads
<1>4. Sidecars
  BY <1>1, NothingIsRight, NoCompactIs DEF Sidecars, BothLead, Entries
<1> QED BY <1>3, <1>4

(***************************************************************************)
(* An offset that a process holds leads to the operation it stands for,    *)
(* whatever processes start, stop, save over each other's sidecars and     *)
(* die and whatever writes fail, as long as no compaction is cut off       *)
(* between the rewriting of the file and the removal of its sidecars       *)
(* (storage/compact/rewrite.rs: invalidate_indexes).                       *)
(***************************************************************************)
THEOREM OffsetsLeadToTheirLines ==
  Spec /\ [][Finishes]_vars => []OffsetsTrue
<1> DEFINE Inv == IInv /\ Steady /\ Leads /\ Sidecars
<1>1. Init => Inv
  BY InitHolds, InitSteady, InitLeads
<1>2. Inv /\ [Next]_vars /\ [Finishes]_vars => Inv'
  <2> SUFFICES ASSUME Inv, [Next]_vars, [Finishes]_vars PROVE Inv'
    OBVIOUS
  <2>1. IInv' /\ Steady'
    BY NextKeeps, StepSteady
  <2>2. CASE Finishes
    BY <2>1, <2>2, StepSidecars, StepLeads
  <2>3. CASE UNCHANGED vars
    <3>1. Finishes \/ compact.at \in Mixed
      BY DEF Finishes
    <3> QED BY <2>1, <2>3 DEF vars, Leads, Sidecars, BothLead
  <2> QED BY <2>2, <2>3
<1>3. Inv => OffsetsTrue
  BY DEF Leads, Right, OffsetsTrue
<1> HIDE DEF Inv
<1> QED BY <1>1, <1>2, <1>3, PTL DEF Spec

----------------------------------------------------------------------------
(***************************************************************************)
(* What is in a file that is read, saved or rewritten: an empty file has   *)
(* no sidecars, and compaction leaves the operations it was due to.        *)
(***************************************************************************)
Remains ==
  /\ file[Me] = <<>> => offsets[Me] = None /\ nodes[Me] = None
  /\ \A p \in Storage :
       store[p].at \in {"saving", "saving nodes"} => file[store[p].actor] # <<>>
  /\ compact.at \in {"planned", "checked"} =>
       /\ compact.drops # {}
       /\ \E u \in Whole(file[Me]) : u \notin compact.drops

\* A file that is not rewritten keeps what it has.
LEMMA FileKeeps ==
  ASSUME IInv, [Next]_vars, NEW a \in Actor, ~ (Rename /\ a = Me)
  PROVE  /\ file[a] # <<>> => file'[a] # <<>>
         /\ Whole(file[a]) \subseteq Whole(file'[a])
         /\ file'[a] \in Seq(Line)
<1>1. file[a] \in Seq(Line) /\ file'[a] \in Seq(Line)
  <2>1. IInv'
    BY NextKeeps
  <2> QED BY <2>1 DEF IInv, Shapes
<1>2. CASE file'[a] = file[a]
  BY <1>1, <1>2
<1>3. ASSUME NEW x \in Line, file'[a] = Append(file[a], x)
      PROVE  file'[a] # <<>> /\ Whole(file[a]) \subseteq Whole(file'[a])
  BY <1>1, <1>3, PutIs
<1> QED BY <1>1, <1>2, <1>3, FileStep

LEMMA PlanLeaves ==
  ASSUME IInv, NEW cutoff \in Ts, Plan(cutoff)
  PROVE  /\ compact'.drops # {}
         /\ \E u \in Whole(file[Me]) : u \notin compact'.drops
<1> DEFINE drops == {t \in Whole(file[Me]) : Droppable(t, cutoff)}
<1>1. drops # {} /\ compact' = [at |-> "planned", drops |-> drops, sizes |-> Sizes]
  BY DEF Plan
<1>2. compact'.drops = drops
  BY <1>1
<1>3. PICK t \in Whole(file[Me]) : Droppable(t, cutoff)
  BY <1>1
<1> HIDE DEF drops
<1>4. PICK u : /\ Creates(issued[t].node) = {u}
               /\ issued[u] = [issued[t] EXCEPT !.kind = "Create"] /\ Author[u] = Author[t]
  BY <1>3 DEF Droppable
<1>5. u \in OnDisk /\ issued[u].kind = "Create"
  BY <1>4 DEF Creates
<1>6. Author[t] = Me /\ Me \in Actor
  BY Timestamps DEF IInv, Own
<1>7. u \in Whole(file[Me])
  <2>1. PICK a \in Actor : u \in Whole(file[a])
    BY <1>5 DEF OnDisk
  <2>2. a = Me
    BY <1>4, <1>6, <2>1 DEF IInv, Own
  <2> QED BY <2>1, <2>2
<1>8. u \notin drops
  BY <1>5 DEF drops, Droppable
<1> QED BY <1>1, <1>2, <1>7, <1>8

LEMMA StepRemains ==
  ASSUME IInv, Steady, Remains, [Next]_vars
  PROVE  Remains'
<1>1. /\ offsets \in [Actor -> Index \cup {None}] /\ nodes \in [Actor -> Index \cup {None}]
      /\ store \in [Storage -> Slot] /\ Me \in Actor /\ compact \in Compaction
      /\ file[Me] \in Seq(Line)
  BY Timestamps DEF IInv, Shapes
<1>2. CASE Rename
  <2>1. /\ compact.at = "checked" /\ compact' = [compact EXCEPT !.at = "renamed"]
        /\ file' = [file EXCEPT ![Me] = Kept(@, compact.drops)]
        /\ UNCHANGED <<offsets, nodes, store>>
    BY <1>2 DEF Rename
  <2>2. compact.drops \in SUBSET Ts /\ compact'.at = "renamed"
    BY <1>1, <2>1 DEF Compaction
  <2>3. \A p \in Storage : store[p].at = "down"
    BY <2>1 DEF IInv, Locked, Exclusive, Alone
  <2>4. PICK u \in Whole(file[Me]) : u \notin compact.drops
    BY <2>1 DEF Remains
  <2>5. Whole(Kept(file[Me], compact.drops)) = Whole(file[Me]) \ compact.drops
    BY <1>1, <2>2, KeptIs
  <2>6. file'[Me] = Kept(file[Me], compact.drops)
    BY <1>1, <2>1 DEF IInv, Shapes
  <2>7. u \in Whole(file'[Me])
    BY <2>4, <2>5, <2>6
  <2>8. Whole(<<>>) = {}
    BY DEF Whole
  <2> QED BY <2>1, <2>2, <2>3, <2>7, <2>8 DEF Remains
<1>3. CASE ~ Rename
  <2>1. \A a \in Actor : /\ file[a] # <<>> => file'[a] # <<>>
                         /\ Whole(file[a]) \subseteq Whole(file'[a])
    BY <1>3, FileKeeps
  <2>2. ASSUME NEW p \in Storage, store'[p].at \in {"saving", "saving nodes"}
        PROVE  file'[store'[p].actor] # <<>>
    <3>1. CASE store[p].at \in {"saving", "saving nodes"} /\ store'[p].actor = store[p].actor
      <4>1. store[p].actor \in Actor
        BY <1>1 DEF Slot
      <4> QED BY <2>1, <3>1, <4>1 DEF Remains
    <3>2. CASE ReadFile(p)
      <4>1. store'[p].actor = Nexts(p) /\ Nexts(p) \in Actor
        BY <3>2, ReadIs
      <4>2. After(p, store[p].todo \ {Nexts(p)}) \notin {"saving", "saving nodes"}
        BY DEF After
      <4>3. file[Nexts(p)] # <<>>
        BY <2>2, <3>2, <4>2, ReadIs
      <4> QED BY <2>1, <4>1, <4>3
    <3>3. ASSUME store'[p] = Down \/ store'[p] = Opened PROVE FALSE
      BY <2>2, <3>3, OpenedIs
    <3>4. CASE Start(p) \/ Reload(p)
      BY <3>3, <3>4, StartIs, ReloadIs
    <3>5. CASE Stop(p) \/ Crash(p) \/ \E r \in Storage : Replace(p, r)
      BY <3>3, <3>5, EndIs
    <3>6. CASE SaveOffsets(p) \/ SaveNodes(p) \/ SaveFails(p)
      <4>1. PICK s : /\ store' = [store EXCEPT ![p].at = s]
                     /\ store[p].at \in {"saving", "saving nodes"}
        BY <3>6 DEF SaveOffsets, SaveNodes, SaveFails
      <4>2. store'[p].actor = store[p].actor
        BY <1>1, <4>1 DEF Slot
      <4> QED BY <3>1, <4>1, <4>2
    <3>7. CASE store'[p] = store[p]
      BY <2>2, <3>1, <3>7
    <3>8. ASSUME NEW q \in Storage, q # p,
                 \/ Start(q) \/ Reload(q) \/ ReadFile(q) \/ SaveOffsets(q) \/ SaveNodes(q)
                 \/ SaveFails(q) \/ Stop(q) \/ Crash(q) \/ \E r \in Storage : Replace(q, r)
          PROVE  store'[p] = store[p]
      <4>1. CASE ReadFile(q)
        <5>1. \A r \in Storage \ {q} : store'[r] = store[r]
          BY <4>1, ReadIs
        <5> QED BY <3>8, <5>1
      <4>2. CASE Start(q) \/ Reload(q)
        BY <3>8, <4>2, StartIs, ReloadIs
      <4>4. CASE Stop(q) \/ Crash(q) \/ \E r \in Storage : Replace(q, r)
        BY <3>3, <4>4, EndIs
      <4>3. CASE SaveOffsets(q) \/ SaveNodes(q) \/ SaveFails(q)
        BY <1>1, <3>8, <4>3 DEF SaveOffsets, SaveNodes, SaveFails
      <4> QED BY <3>8, <4>1, <4>2, <4>3, <4>4
    <3>9. CASE EnterOffset \/ OffsetFails
      <4>1. /\ batch.entries # <<>>
            /\ store' = Remembered(Head(batch.entries), batch.from + 1)
        BY <3>9 DEF EnterOffset, OffsetFails
      <4>2. writer \in Storage /\ store[writer].at = "up"
        BY <4>1, NoBatchIs, Appending
      <4>3. p # writer => store'[p] = store[p]
        BY <1>1, <4>1, <4>2 DEF Remembered
      <4>4. store'[p].at = store[p].at
        BY <4>1, <4>2, RememberedIs, SmallerTail, Appending, NoBatchIs
      <4> QED BY <2>2, <3>7, <4>2, <4>3, <4>4
    <3>10. ASSUME NEW q \in Storage,
                  Begin(q) \/ \E t \in Ts : \E op \in LocalOps[t] : Ingest(q, t, op)
           PROVE  store' = store
      BY <3>10 DEF Begin, Ingest
    <3>11. ASSUME NEW t \in Ts, Plan(t) PROVE store' = store
      BY <3>11 DEF Plan
    <3>12. ASSUME \/ WriteLine \/ WriteFails \/ EnterNode \/ NodeFails \/ Check
                  \/ DropOffsets \/ DropNodes \/ CompactEnds \/ UNCHANGED vars
           PROVE  store' = store
      BY <3>12 DEF WriteLine, WriteFails, EnterNode, NodeFails, Check,
                   DropOffsets, DropNodes, CompactEnds, vars
    <3>13. ASSUME NEW q \in Storage,
                  \/ Start(q) \/ Reload(q) \/ ReadFile(q) \/ SaveOffsets(q) \/ SaveNodes(q)
                  \/ SaveFails(q) \/ Stop(q) \/ Crash(q) \/ \E r \in Storage : Replace(q, r)
           PROVE  file'[store'[p].actor] # <<>>
      BY <3>2, <3>4, <3>5, <3>6, <3>7, <3>8, <3>13
    <3> QED BY <1>3, <3>7, <3>9, <3>10, <3>11, <3>12, <3>13 DEF Next
  <2>3. ASSUME compact'.at \in {"planned", "checked"}
        PROVE  /\ compact'.drops # {}
               /\ \E u \in Whole(file'[Me]) : u \notin compact'.drops
    <3>1. CASE compact.at \in {"planned", "checked"} /\ compact'.drops = compact.drops
      BY <1>1, <2>1, <3>1 DEF Remains
    <3>2. ASSUME NEW t \in Ts, Plan(t)
          PROVE  /\ compact'.drops # {}
                 /\ \E u \in Whole(file'[Me]) : u \notin compact'.drops
      BY <1>1, <2>1, <3>2, PlanLeaves
    <3>3. CASE Check
      <4>1. /\ compact.at = "planned"
            /\ compact' = [compact EXCEPT !.at = "checked"] \/ compact' = NoCompact
        BY <3>3 DEF Check
      <4>2. compact' # NoCompact
        BY <2>3, NoCompactIs
      <4>3. compact'.drops = compact.drops
        BY <1>1, <4>1, <4>2 DEF Compaction
      <4> QED BY <3>1, <4>1, <4>3
    <3>4. ~ DropOffsets /\ ~ DropNodes /\ ~ CompactEnds
      BY <1>1, <2>3, NoCompactIs DEF DropOffsets, DropNodes, CompactEnds, Compaction
    <3>5. ASSUME NEW p \in Storage,
                 \/ Start(p) \/ ReadFile(p) \/ SaveFails(p) \/ Begin(p) \/ Stop(p) \/ Crash(p)
                 \/ SaveOffsets(p) \/ SaveNodes(p)
                 \/ Reload(p) \/ \E r \in Storage : Replace(p, r)
                 \/ \E t \in Ts : \E op \in LocalOps[t] : Ingest(p, t, op)
          PROVE  compact' = compact
      BY <3>5 DEF Start, Reload, Replace, ReadFile, SaveFails, Begin, Stop, Crash, Ingest, SaveOffsets, SaveNodes
    <3>6. ASSUME \/ WriteLine \/ WriteFails \/ OffsetFails \/ NodeFails
                 \/ EnterOffset \/ EnterNode \/ UNCHANGED vars
          PROVE  compact' = compact
      BY <3>6 DEF WriteLine, WriteFails, OffsetFails, NodeFails, EnterOffset, EnterNode, vars
    <3> QED BY <1>3, <2>3, <3>1, <3>2, <3>3, <3>4, <3>5, <3>6 DEF Next
  <2>4. ASSUME file'[Me] = <<>> PROVE offsets'[Me] = None /\ nodes'[Me] = None
    <3>1. file[Me] = <<>> /\ offsets[Me] = None /\ nodes[Me] = None
      BY <1>1, <2>1, <2>4 DEF Remains
    <3>2. ~ EnterOffset /\ ~ EnterNode
      <4>1. batch.entries # <<>> => batch.from + 1 <= Len(file[Me]) /\ batch.from \in Nat
        BY NextLine
      <4>2. Len(file[Me]) = 0
        BY <3>1
      <4> QED BY <4>1, <4>2 DEF EnterOffset, EnterNode
    <3>3. ASSUME NEW p \in Storage, SaveOffsets(p) \/ SaveNodes(p) PROVE Me # store[p].actor
      BY <3>1, <3>3 DEF Remains, SaveOffsets, SaveNodes
    <3>4. \/ Became(offsets[Me], offsets'[Me])
          \/ \E p \in Storage : SaveOffsets(p) /\ Me = store[p].actor
      BY <1>1, SidecarStep
    <3>5. \/ Became(nodes[Me], nodes'[Me])
          \/ \E p \in Storage : SaveNodes(p) /\ Me = store[p].actor
      BY <1>1, SidecarStep
    <3> QED BY <3>1, <3>2, <3>3, <3>4, <3>5 DEF Became, MineIf
  <2> QED BY <2>2, <2>3, <2>4 DEF Remains
<1> QED BY <1>2, <1>3

LEMMA InitRemains ==
  Init => Remains
<1> SUFFICES ASSUME Init PROVE Remains
  OBVIOUS
<1>1. /\ store = [p \in Storage |-> Down] /\ compact = NoCompact /\ Me \in Actor
      /\ offsets = [a \in Actor |-> None] /\ nodes = [a \in Actor |-> None]
  BY Timestamps DEF Init
<1>2. Down.at = "down"
  BY DEF Down
<1> QED BY <1>1, <1>2, NoCompactIs DEF Remains

----------------------------------------------------------------------------
(***************************************************************************)
(* What the sidecars of the own file say of it, whoever saves them and as  *)
(* long as no entry failed to be written and no sidecar was overtaken.     *)
(***************************************************************************)
OneProcess == \A p, q \in Storage : Owner[p] = Owner[q]

Spent == MaxFaults - faults

\* The index has the first n lines at least.
Reaches(s, lines, n) == \E m \in n..Len(lines) : Good(s, lines, m)

\* Both sidecars of the own file have its lines up to some point; the pair
\* will not be taken as fresh; or it will and is right.
Both == Sound(offsets[Me], file[Me]) /\ Sound(nodes[Me], file[Me])
Hopeless == nodes[Me] = None \/ Tip(nodes[Me]) > Len(file[Me])
Usable == Fresh(file[Me], offsets[Me], nodes[Me]) => Both

\* How far the sidecars of the own file have come.
OffsetsTo == IF batch = NoBatch THEN Len(file[Me])
             ELSE IF batch.part = "node" THEN batch.from + 1 ELSE batch.from
NodesTo == IF batch = NoBatch THEN Len(file[Me]) ELSE batch.from

\* The storage has brought a sidecar of the own file up to date.
OffsetsDone(p) == /\ store[p].at # "down" /\ Me \notin store[p].todo
                  /\ ~ (store[p].at = "saving" /\ store[p].actor = Me)
NodesDone(p) == OffsetsDone(p) /\ ~ (store[p].at = "saving nodes" /\ store[p].actor = Me)

Done(p) ==
  /\ OffsetsDone(p) => Reaches(offsets[Me], file[Me], OffsetsTo)
  /\ NodesDone(p) => Reaches(nodes[Me], file[Me], NodesTo)

Reached == \A p \in Storage : p = writer => Done(p)

\* What is to be saved of a peer's file is what the file had when it was read.
Saves(p) == store[p].at \in {"saving", "saving nodes"} =>
  LET a == store[p].actor IN
  /\ a \notin store[p].todo
  /\ a # Me => Sound(store[p].offsets[a], file[a]) /\ Sound(store[p].nodes[a], file[a])

Has(p) == \A a \in Actor : /\ store[p].seen[a] \subseteq DOMAIN store[p].offsets[a]
                           /\ store[p].seen[a] \subseteq DOMAIN store[p].nodes[a]

Peers == \A a \in Actor \ {Me} : Sound(offsets[a], file[a]) /\ Sound(nodes[a], file[a])

Mid == \E p \in Storage : store[p].at = "saving nodes" /\ store[p].actor = Me

(***************************************************************************)
(* The pair is right; or a compaction was cut off, and it is right or not  *)
(* taken, but for the moment when one half of it has been saved, and not   *)
(* taken either way as long as another fault is to come.                   *)
(***************************************************************************)
Pair == compact.at \notin Mixed =>
  \/ Both
  \/ /\ "cut off" \in excuses
     /\ ~ Mid => Usable
     /\ Spent < 2 => Hopeless

(***************************************************************************)
(* Between the rewriting of the file and the removal of its sidecars,      *)
(* where a compaction may be cut off: the pair is not taken unless it is   *)
(* right, as long as the fault that cuts it off is one of the first two.   *)
(* Before the first fault the sidecar of the nodes is not behind the file. *)
(***************************************************************************)
Death == compact.at \in Mixed /\ Spent < 2 =>
  /\ Usable
  /\ Spent < 1 => Both \/ Hopeless

Spare == Spent < 1 /\ compact.at \notin Mixed =>
  nodes[Me] = None \/ Reaches(nodes[Me], file[Me], NodesTo)

Base == /\ Leads /\ Peers /\ Pair /\ Reached
        /\ \A p \in Storage : Has(p) /\ Saves(p)

\* In the one process there is, reloads begin when the live storage is open.
Led == OneProcess => \A p \in Storage : store[p].at # "down" =>
         writer # None /\ (p = writer \/ store[writer].at = "up")

\* Nothing has happened yet that an index may suffer from.
Sane == /\ "failed write" \notin excuses /\ "overtaken" \notin excuses
        /\ "cut off" \in excuses => OneProcess /\ Spent <= 2

----------------------------------------------------------------------------
LEMMA ReachesIs ==
  ASSUME NEW s, NEW lines \in Seq(Line), NEW n \in Nat, Reaches(s, lines, n)
  PROVE  Sound(s, lines)
<1>1. PICK m \in n..Len(lines) : Good(s, lines, m)
  BY DEF Reaches
<1>2. Len(lines) \in Nat
  OBVIOUS
<1>3. m \in 0..Len(lines)
  BY <1>2
<1> QED BY <1>1, <1>3 DEF Sound

LEMMA GoodReaches ==
  ASSUME NEW s, NEW lines \in Seq(Line), NEW n \in 0..Len(lines),
         Good(s, lines, Len(lines))
  PROVE  Reaches(s, lines, n)
<1>1. Len(lines) \in Nat
  OBVIOUS
<1>2. Len(lines) \in n..Len(lines)
  BY <1>1
<1> QED BY <1>2 DEF Reaches

LEMMA ReachesAll ==
  ASSUME NEW s, NEW lines \in Seq(Line), Reaches(s, lines, Len(lines))
  PROVE  Good(s, lines, Len(lines))
<1>1. PICK m \in Len(lines)..Len(lines) : Good(s, lines, m)
  BY DEF Reaches
<1>2. Len(lines) \in Nat
  OBVIOUS
<1>3. m = Len(lines)
  BY <1>2
<1> QED BY <1>1, <1>3

LEMMA ReachesGrows ==
  ASSUME NEW s \in Index \cup {None}, NEW lines \in Seq(Line), NEW x \in Line,
         NEW n \in Nat, Reaches(s, lines, n)
  PROVE  Reaches(s, Append(lines, x), n)
<1>1. PICK m \in n..Len(lines) : Good(s, lines, m)
  BY DEF Reaches
<1>2. Len(lines) \in Nat /\ Len(Append(lines, x)) = Len(lines) + 1
  OBVIOUS
<1>3. m \in 0..Len(lines) /\ m \in n..Len(Append(lines, x))
  BY <1>2
<1>4. Good(s, Append(lines, x), m)
  BY <1>1, <1>3, GoodGrows
<1> QED BY <1>3, <1>4 DEF Reaches

\* One entry more, in a sidecar that may have it already.
LEMMA EnteredReaches ==
  ASSUME NEW s \in Index \cup {None}, NEW lines \in Seq(Line),
         NEW n \in 0..Len(lines), n + 1 <= Len(lines), NEW t \in Ts,
         lines[n + 1] = t, Reaches(s, lines, n)
  PROVE  Reaches(Entered(s, t, n + 1), lines, n + 1)
<1> DEFINE f == Entries(s)
           e == Entered(s, t, n + 1)
<1>1. PICK m \in n..Len(lines) : Good(s, lines, m)
  BY DEF Reaches
<1>2. Len(lines) \in Nat
  OBVIOUS
<1>3. n + 1 \in Nat \ {0} /\ n + 1 \in (n + 1)..Len(lines)
  BY <1>2
<1>4. CASE m = n
  <2>1. Good(e, lines, n + 1)
    BY <1>1, <1>4, EnteredHas
  <2> HIDE DEF e
  <2>2. Reaches(e, lines, n + 1)
    BY <1>3, <2>1 DEF Reaches
  <2> QED BY <2>2 DEF e
<1>5. CASE m # n
  <2>1. e \in Index /\ e # None
    BY <1>3, EnteredIs, NoIndex
  <2>2. Right(f, lines) /\ Covers(f, lines, m)
    BY <1>1 DEF Good
  <2>3. Right(e, lines)
    BY <2>2, EnteredHas
  <2>4. DOMAIN e = DOMAIN f \cup {t} /\ \A u \in DOMAIN e : e[u] = IF u = t THEN n + 1 ELSE f[u]
    BY DEF Entered, Entries, Merge
  <2> HIDE DEF e, f
  <2>5. n + 1 <= m /\ m \in (n + 1)..Len(lines)
    BY <1>2, <1>5
  <2>6. Covers(e, lines, m)
    BY <2>2, <2>4, <2>5 DEF Covers
  <2>7. Good(e, lines, m)
    BY <2>1, <2>3, <2>6 DEF Good, Entries
  <2>8. Reaches(e, lines, n + 1)
    BY <2>5, <2>7 DEF Reaches
  <2> QED BY <2>8 DEF e
<1> QED BY <1>4, <1>5

LEMMA SoundSaved ==
  ASSUME NEW ix \in Index, NEW lines \in Seq(Line), Sound(ix, lines)
  PROVE  Sound(Saved(ix), lines)
BY NoneIsSound DEF Saved

LEMMA NothingIsSound ==
  ASSUME NEW lines \in Seq(Line)
  PROVE  Sound(Nothing, lines)
<1>1. Entries(Nothing) = Nothing /\ Entries(None) = Nothing
  BY NothingIsIndex, NoIndex DEF Entries
<1>2. Good(Nothing, lines, 0)
  BY <1>1, NoneIsSound DEF Good
<1>3. 0 \in 0..Len(lines)
  OBVIOUS
<1> QED BY <1>2, <1>3 DEF Sound

LEMMA LenIs ==
  ASSUME NEW lines \in Seq(Line)
  PROVE  Len(lines) \in 0..Len(lines)
<1>1. Len(lines) \in Nat
  OBVIOUS
<1>2. \A n \in Nat : n \in 0..n
  OBVIOUS
<1> QED BY <1>1, <1>2

LEMMA ToIs ==
  ASSUME IInv, Steady
  PROVE  OffsetsTo \in 0..Len(file[Me]) /\ NodesTo \in 0..Len(file[Me])
<1>1. file[Me] \in Seq(Line) /\ Me \in Actor
  BY Timestamps DEF IInv, Shapes
<1>2. Len(file[Me]) \in Nat
  BY <1>1
<1>3. CASE batch = NoBatch
  BY <1>2, <1>3 DEF OffsetsTo, NodesTo
<1>4. CASE batch # NoBatch
  <2>1. batch.from \in Nat /\ batch.entries \in Seq(Ts)
    BY <1>4, Appending
  <2>2. Len(batch.entries) \in Nat /\ batch.from + Len(batch.entries) = Len(file[Me])
    BY <1>4, <2>1 DEF Steady, Appends
  <2>3. batch.from \in 0..Len(file[Me])
    <3>1. \A m, n, k \in Nat : m + n = k => m \in 0..k
      OBVIOUS
    <3> QED BY <1>2, <2>1, <2>2, <3>1
  <2>4. batch.part = "node" => batch.from + 1 \in 0..Len(file[Me])
    <3>1. batch.part = "node" => batch.entries # <<>>
      BY DEF Steady, Appends
    <3>2. batch.part = "node" => batch.from + 1 <= Len(file[Me])
      BY <3>1, NextLine
    <3> QED BY <1>2, <2>1, <3>2
  <2> QED BY <1>4, <2>3, <2>4 DEF OffsetsTo, NodesTo
<1> QED BY <1>3, <1>4

LEMMA FreshIs ==
  ASSUME NEW lines \in Seq(Line), NEW s \in Index \cup {None}, NEW v \in Index \cup {None},
         Fresh(lines, s, v)
  PROVE  /\ s \in Index /\ v \in Index /\ Tip(v) = Tip(s)
         /\ Tip(s) \in 1..Len(lines) /\ lines[Tip(s)] \in DOMAIN s
         /\ s[lines[Tip(s)]] = Tip(s)
<1>1. s # None /\ v # None /\ Tip(s) <= Len(lines) /\ Tip(v) = Tip(s)
  BY DEF Fresh
<1>2. s \in Index /\ v \in Index
  BY <1>1
<1>3. lines[Tip(s)] \in {t \in DOMAIN s : s[t] = Tip(s)}
  BY DEF Fresh
<1>4. lines[Tip(s)] \in DOMAIN s /\ s[lines[Tip(s)]] = Tip(s)
  BY <1>3
<1>5. s[lines[Tip(s)]] \in Nat \ {0}
  BY <1>2, <1>4, IndexIs
<1> QED BY <1>1, <1>2, <1>4, <1>5

\* A pair that is hopeless is not taken as fresh.
LEMMA HopelessIsUsable ==
  IInv /\ Hopeless => Usable
<1> SUFFICES ASSUME IInv, Hopeless PROVE Usable
  OBVIOUS
<1>1. /\ file[Me] \in Seq(Line) /\ offsets[Me] \in Index \cup {None}
      /\ nodes[Me] \in Index \cup {None}
  BY Timestamps DEF IInv, Shapes
<1>2. Fresh(file[Me], offsets[Me], nodes[Me]) => FALSE
  <2> SUFFICES ASSUME Fresh(file[Me], offsets[Me], nodes[Me]) PROVE FALSE
    OBVIOUS
  <2>1. nodes[Me] # None
    BY DEF Fresh
  <2>2. Tip(nodes[Me]) \in 1..Len(file[Me])
    BY <1>1, FreshIs
  <2>3. Len(file[Me]) \in Nat
    BY <1>1
  <2> QED BY <2>1, <2>2, <2>3 DEF Hopeless
<1> QED BY <1>2 DEF Usable

LEMMA HopelessNext ==
  IInv' /\ Hopeless' => Usable'
BY HopelessIsUsable, PTL

----------------------------------------------------------------------------
\* How the storages move, what is excused and how many faults are left.

Stage(q) == <<store[q].at, store[q].todo, store[q].actor>>

LEMMA SlotStep ==
  ASSUME IInv, [Next]_vars, NEW q \in Storage
  PROVE  \/ Stage(q)' = Stage(q)
         \/ store'[q] = Down
         \/ store'[q] = Opened
         \/ ReadFile(q) \/ SaveOffsets(q) \/ SaveNodes(q) \/ SaveFails(q)
<1>1. store \in [Storage -> Slot]
  BY DEF IInv, Shapes
<1>2. ASSUME store'[q] = store[q] PROVE Stage(q)' = Stage(q)
  BY <1>2 DEF Stage
<1>3. ASSUME NEW p \in Storage, Start(p) \/ Reload(p)
      PROVE  store'[q] = Opened \/ store'[q] = store[q]
  BY <1>3, StartIs, ReloadIs
<1>4. ASSUME NEW p \in Storage, Stop(p) \/ Crash(p) \/ \E r \in Storage : Replace(p, r)
      PROVE  store'[q] = Down \/ store'[q] = store[q]
  BY <1>4, EndIs
<1>5. ASSUME NEW p \in Storage, ReadFile(p)
      PROVE  ReadFile(q) \/ store'[q] = store[q]
  <2>1. p # q => store'[q] = store[q]
    BY <1>5, ReadIs
  <2> QED BY <1>5, <2>1
<1>6. ASSUME NEW p \in Storage, SaveOffsets(p) \/ SaveNodes(p) \/ SaveFails(p)
      PROVE  SaveOffsets(q) \/ SaveNodes(q) \/ SaveFails(q) \/ store'[q] = store[q]
  <2>1. PICK s : store' = [store EXCEPT ![p].at = s]
    BY <1>6 DEF SaveOffsets, SaveNodes, SaveFails
  <2>2. p # q => store'[q] = store[q]
    BY <1>1, <2>1
  <2> QED BY <1>6, <2>2
<1>7. ASSUME EnterOffset \/ OffsetFails PROVE Stage(q)' = Stage(q)
  <2>1. batch.entries # <<>> /\ store' = Remembered(Head(batch.entries), batch.from + 1)
    BY <1>7 DEF EnterOffset, OffsetFails
  <2>2. /\ writer \in Storage /\ Head(batch.entries) \in Ts /\ batch.from + 1 \in Nat \ {0}
    BY <2>1, NoBatchIs, Appending, SmallerTail
  <2> QED BY <2>1, <2>2, RememberedIs DEF Stage
<1>8. ASSUME NEW p \in Storage, Begin(p) PROVE store' = store
  BY <1>8 DEF Begin
<1>9. ASSUME NEW p \in Storage, NEW t \in Ts, NEW op \in LocalOps[t], Ingest(p, t, op)
      PROVE store' = store
  BY <1>9 DEF Ingest
<1>10. ASSUME NEW t \in Ts, Plan(t) PROVE store' = store
  BY <1>10 DEF Plan
<1>11. ASSUME \/ WriteLine \/ WriteFails \/ EnterNode \/ NodeFails \/ Check \/ Rename
              \/ DropOffsets \/ DropNodes \/ CompactEnds \/ UNCHANGED vars
       PROVE  store' = store
  BY <1>11 DEF WriteLine, WriteFails, EnterNode, NodeFails, Check, Rename,
               DropOffsets, DropNodes, CompactEnds, vars
<1> QED BY <1>2, <1>3, <1>4, <1>5, <1>6, <1>7, <1>8, <1>9, <1>10, <1>11 DEF Next

LEMMA FaultsIs ==
  ASSUME IInv
  PROVE  faults \in Nat /\ MaxFaults \in Nat /\ Spent \in Nat
BY FilesConstants DEF IInv, TypeOK, Spent

LEMMA ExcusesGrow ==
  ASSUME IInv, [Next]_vars
  PROVE  /\ excuses \subseteq excuses' /\ faults' \in Nat /\ Spent' \in Nat
         /\ faults' = faults \/ (Fault /\ Spent' = Spent + 1)
<1>1. faults \in Nat /\ MaxFaults \in Nat /\ faults <= MaxFaults
  BY FaultsIs, FilesConstants DEF IInv, TypeOK
<1>2. ASSUME excuses \subseteq excuses', faults' = faults \/ Fault
      PROVE  /\ faults' \in Nat /\ Spent' \in Nat
             /\ faults' = faults \/ (Fault /\ Spent' = Spent + 1)
  BY <1>1, <1>2 DEF Fault, Spent
<1>3. ASSUME NEW p \in Storage,
             \/ Start(p) \/ Reload(p) \/ ReadFile(p) \/ Begin(p) \/ Stop(p) \/ Crash(p)
             \/ \E r \in Storage : Replace(p, r)
             \/ \E t \in Ts : \E op \in LocalOps[t] : Ingest(p, t, op)
      PROVE  excuses \subseteq excuses' /\ (faults' = faults \/ Fault)
  BY <1>3 DEF Start, Reload, Replace, ReadFile, Begin, Stop, Crash, Ingest
<1>4. ASSUME NEW p \in Storage, SaveOffsets(p) \/ SaveNodes(p) \/ SaveFails(p)
      PROVE  excuses \subseteq excuses' /\ (faults' = faults \/ Fault)
  BY <1>4 DEF SaveOffsets, SaveNodes, SaveFails
<1>5. ASSUME \/ WriteLine \/ EnterOffset \/ EnterNode \/ UNCHANGED vars
             \/ WriteFails \/ OffsetFails \/ NodeFails
             \/ Check \/ Rename \/ DropOffsets \/ DropNodes
      PROVE  excuses \subseteq excuses' /\ (faults' = faults \/ Fault)
  BY <1>5 DEF WriteLine, EnterOffset, EnterNode, vars, WriteFails, OffsetFails, NodeFails,
              Check, Rename, DropOffsets, DropNodes
<1>6. ASSUME CompactEnds PROVE excuses \subseteq excuses' /\ (faults' = faults \/ Fault)
  BY <1>6 DEF CompactEnds
<1>7. ASSUME NEW t \in Ts, Plan(t)
      PROVE  excuses \subseteq excuses' /\ (faults' = faults \/ Fault)
  BY <1>7 DEF Plan
<1>8. excuses \subseteq excuses' /\ (faults' = faults \/ Fault)
  BY <1>3, <1>4, <1>5, <1>6, <1>7 DEF Next
<1> QED BY <1>2, <1>8

LEMMA SaneBefore ==
  ASSUME IInv, [Next]_vars, Sane'
  PROVE  /\ Sane
         /\ \A p \in Storage : ~ SaveFails(p)
         /\ ~ WriteFails /\ ~ OffsetFails /\ ~ NodeFails
<1>1. /\ excuses \subseteq excuses' /\ Spent \in Nat /\ Spent' \in Nat
      /\ faults' = faults \/ Spent' = Spent + 1
  BY ExcusesGrow, FaultsIs
<1>2. Spent' <= 2 => Spent <= 2
  BY <1>1 DEF Spent
<1>3. OneProcess' <=> OneProcess
  BY DEF OneProcess
<1>4. Sane
  BY <1>1, <1>2, <1>3 DEF Sane
<1>5. "failed write" \notin excuses'
  BY DEF Sane
<1> QED BY <1>4, <1>5 DEF SaveFails, WriteFails, OffsetFails, NodeFails

\* The live storage of the only process is there before any other.
LEMMA StepLed ==
  ASSUME IInv, Led, [Next]_vars
  PROVE  Led'
<1> SUFFICES ASSUME OneProcess, NEW p \in Storage, store'[p].at # "down"
             PROVE  writer' # None /\ (p = writer' \/ store'[writer'].at = "up")
  BY DEF Led, OneProcess
<1>1. /\ writer \in Storage \cup {None} /\ store \in [Storage -> Slot] /\ None \notin Storage
  BY FilesConstants DEF IInv, Shapes, TypeOK
<1>2. \A q \in Storage : store[q].at # "down" =>
        writer # None /\ (q = writer \/ store[writer].at = "up")
  BY DEF Led
<1>3. \A r, q \in Storage : q \in Fellows(r)
  BY DEF OneProcess, Fellows
<1>4. Down.at = "down" /\ Opened.at = "reading"
  BY OpenedIs
<1>5. ASSUME \A q \in Storage : store'[q].at = store[q].at, writer' = writer
      PROVE  writer' # None /\ (p = writer' \/ store'[writer'].at = "up")
  BY <1>1, <1>2, <1>5
<1>6. ASSUME NEW r \in Storage, Start(r)
      PROVE  writer' # None /\ (p = writer' \/ store'[writer'].at = "up")
  <2>1. /\ \A q \in Storage : store[q].at = "down"
        /\ \A q \in Storage \ {r} : store'[q] = store[q]
        /\ writer' = IF writer = None THEN r ELSE writer
    BY <1>3, <1>6, StartIs
  <2>2. writer = None
    BY <1>1, <2>1 DEF IInv, Locked
  <2> QED BY <1>1, <2>1, <2>2
<1>7. ASSUME NEW r \in Storage, Reload(r)
      PROVE  writer' # None /\ (p = writer' \/ store'[writer'].at = "up")
  <2>1. /\ \E q \in Storage : store[q].at = "up"
        /\ \A q \in Storage \ {r} : store'[q] = store[q]
        /\ writer' = writer /\ r # writer
    BY <1>7, ReloadIs, FellowsAre
  <2>2. writer \in Storage /\ store[writer].at = "up"
    BY <1>1, <1>2, <2>1
  <2> QED BY <1>1, <2>1, <2>2
<1>8. ASSUME NEW r \in Storage, NEW s \in Storage, Replace(r, s)
      PROVE  writer' # None /\ (p = writer' \/ store'[writer'].at = "up")
  <2>1. /\ r # s /\ store[r].at = "up" /\ store[s].at = "up"
        /\ writer' = IF writer = r THEN s ELSE writer
        /\ \A q \in Storage \ {r} : store'[q] = store[q]
    BY <1>8, ReplaceIs
  <2>2. writer \in Storage /\ store[writer].at = "up"
    BY <1>1, <1>2, <2>1
  <2> QED BY <1>1, <2>1, <2>2
<1>9. ASSUME NEW r \in Storage, Stop(r) \/ Crash(r) PROVE FALSE
  <2>1. Leave(r)
    BY <1>9 DEF Stop, Crash
  <2>2. store'[p] = Down
    BY <1>3, <2>1, LeaveIs
  <2> QED BY <1>4, <2>2
<1>10. ASSUME NEW r \in Storage, store[r].at # "down", writer' = writer,
              \A q \in Storage \ {r} : store'[q] = store[q],
              store[r].at # "up"
       PROVE  writer' # None /\ (p = writer' \/ store'[writer'].at = "up")
  BY <1>1, <1>2, <1>10
<1>11. ASSUME NEW r \in Storage, ReadFile(r)
       PROVE  writer' # None /\ (p = writer' \/ store'[writer'].at = "up")
  <2>1. writer' = writer
    BY <1>11 DEF ReadFile
  <2> QED BY <1>10, <1>11, <2>1, ReadIs
<1>12. ASSUME NEW r \in Storage, SaveOffsets(r) \/ SaveNodes(r) \/ SaveFails(r)
       PROVE  writer' # None /\ (p = writer' \/ store'[writer'].at = "up")
  <2>1. PICK s : store' = [store EXCEPT ![r].at = s]
    BY <1>12 DEF SaveOffsets, SaveNodes, SaveFails
  <2>2. /\ \A q \in Storage \ {r} : store'[q] = store[q]
        /\ writer' = writer /\ store[r].at \in {"saving", "saving nodes"}
    BY <1>1, <1>12, <2>1 DEF SaveOffsets, SaveNodes, SaveFails
  <2> QED BY <1>10, <2>2
<1>13. ASSUME EnterOffset \/ OffsetFails
       PROVE  writer' # None /\ (p = writer' \/ store'[writer'].at = "up")
  <2>1. /\ batch.entries # <<>> /\ store' = Remembered(Head(batch.entries), batch.from + 1)
        /\ writer' = writer
    BY <1>13 DEF EnterOffset, OffsetFails
  <2>2. /\ writer \in Storage /\ Head(batch.entries) \in Ts /\ batch.from + 1 \in Nat \ {0}
    BY <2>1, NoBatchIs, Appending, SmallerTail
  <2>3. \A q \in Storage : store'[q].at = store[q].at
    BY <2>1, <2>2, RememberedIs
  <2> QED BY <1>5, <2>1, <2>3
<1>14. ASSUME NEW r \in Storage,
              Begin(r) \/ \E t \in Ts : \E op \in LocalOps[t] : Ingest(r, t, op)
       PROVE  store' = store /\ writer' = writer
  BY <1>14 DEF Begin, Ingest
<1>15. ASSUME NEW t \in Ts, Plan(t) PROVE store' = store /\ writer' = writer
  BY <1>15 DEF Plan
<1>16. ASSUME \/ WriteLine \/ WriteFails \/ EnterNode \/ NodeFails \/ Check \/ Rename
              \/ DropOffsets \/ DropNodes \/ CompactEnds \/ UNCHANGED vars
       PROVE  store' = store /\ writer' = writer
  BY <1>16 DEF WriteLine, WriteFails, EnterNode, NodeFails, Check, Rename,
               DropOffsets, DropNodes, CompactEnds, vars
<1> QED BY <1>5, <1>6, <1>7, <1>8, <1>9, <1>11, <1>12, <1>13, <1>14, <1>15, <1>16 DEF Next

----------------------------------------------------------------------------
\* Who is there while the pair is wrong.

\* The live storage that is up has both sidecars in order.
LEMMA WriterIs ==
  ASSUME IInv, Steady, Reached, NEW p \in Storage, p = writer, store[p].at = "up"
  PROVE  /\ Reaches(offsets[Me], file[Me], OffsetsTo)
         /\ Reaches(nodes[Me], file[Me], NodesTo)
         /\ Both /\ OffsetsDone(p) /\ NodesDone(p)
<1>1. store[p].todo = {}
  BY DEF Steady, Runs
<1>2. OffsetsDone(p) /\ NodesDone(p)
  BY <1>1 DEF OffsetsDone, NodesDone
<1>3. /\ Reaches(offsets[Me], file[Me], OffsetsTo)
      /\ Reaches(nodes[Me], file[Me], NodesTo)
  BY <1>2 DEF Reached, Done
<1>4. OffsetsTo \in Nat /\ NodesTo \in Nat /\ file[Me] \in Seq(Line)
  BY ToIs, Timestamps DEF IInv, Shapes
<1>5. Both
  BY <1>3, <1>4, ReachesIs DEF Both
<1> QED BY <1>2, <1>3, <1>5

\* Of the writer of an append, for the line it enters.
LEMMA WriterReaches ==
  ASSUME IInv, Steady, Reached, batch # NoBatch
  PROVE  /\ Reaches(offsets[Me], file[Me], batch.from)
         /\ Reaches(nodes[Me], file[Me], batch.from)
<1>1. PICK p \in Storage : p = writer /\ store[p].at = "up"
  BY Appending
<1>2. /\ Reaches(offsets[Me], file[Me], OffsetsTo)
      /\ Reaches(nodes[Me], file[Me], NodesTo)
  BY <1>1, WriterIs
<1>3. NodesTo = batch.from
  BY DEF NodesTo
<1>4. CASE batch.part # "node"
  BY <1>2, <1>3, <1>4 DEF OffsetsTo
<1>5. CASE batch.part = "node"
  <2>1. PICK m \in (batch.from + 1)..Len(file[Me]) : Good(offsets[Me], file[Me], m)
    BY <1>2, <1>5 DEF OffsetsTo, Reaches
  <2>2. batch.from \in Nat /\ Len(file[Me]) \in Nat
    BY Appending, Timestamps DEF IInv, Shapes
  <2>3. m \in batch.from..Len(file[Me])
    BY <2>2
  <2> QED BY <1>2, <1>3, <2>1, <2>3 DEF Reaches
<1> QED BY <1>4, <1>5

LEMMA UpIsBoth ==
  ASSUME IInv, Steady, Led, OneProcess, Reached, NEW p \in Storage, store[p].at = "up"
  PROVE  Both
<1>1. writer \in Storage \cup {None}
  BY DEF IInv, TypeOK
<1>2. writer # None /\ (p = writer \/ store[writer].at = "up")
  BY DEF Led
<1> QED BY <1>1, <1>2, WriterIs

\* A wrong pair is met by the live storage, which is opening, alone.
LEMMA Booting ==
  ASSUME IInv, Steady, Led, Sane, Pair, Reached, compact.at \notin Mixed, ~ Both
  PROVE  /\ OneProcess /\ "cut off" \in excuses
         /\ ~ Mid => Usable
         /\ Spent < 2 => Hopeless
         /\ \A p \in Storage : store[p].at # "up" /\ (store[p].at # "down" => p = writer)
         /\ batch = NoBatch
<1>1. /\ "cut off" \in excuses /\ (~ Mid => Usable) /\ (Spent < 2 => Hopeless)
  BY DEF Pair
<1>2. OneProcess
  BY <1>1 DEF Sane
<1>3. \A p \in Storage : store[p].at # "up"
  BY <1>2, UpIsBoth
<1>4. writer \in Storage \cup {None}
  BY DEF IInv, TypeOK
<1>5. \A p \in Storage : store[p].at # "down" => p = writer
  BY <1>2, <1>3, <1>4 DEF Led
<1>6. batch = NoBatch
  BY <1>3, Appending
<1> QED BY <1>1, <1>2, <1>3, <1>5, <1>6

\* The sidecars of a file that is read as fresh.
LEMMA ReadsSound ==
  ASSUME IInv, Steady, Led, Sane, Peers, Pair, Reached,
         NEW p \in Storage, ReadFile(p), Trusts(p)
  PROVE  /\ Sound(offsets[Nexts(p)], file[Nexts(p)])
         /\ Sound(nodes[Nexts(p)], file[Nexts(p)])
<1>1. store[p].at = "reading" /\ Nexts(p) \in Actor
  BY ReadIs
<1>2. compact.at \notin Mixed
  BY <1>1 DEF IInv, Locked, Exclusive, Alone, Mixed
<1>3. CASE Nexts(p) = Me /\ Both
  BY <1>3 DEF Both
<1>4. CASE Nexts(p) = Me /\ ~ Both
  <2>1. p = writer /\ \A q \in Storage : store[q].at # "down" => q = writer
    BY <1>1, <1>2, <1>4, Booting
  <2>2. ~ Mid
    BY <1>1, <2>1 DEF Mid
  <2> QED BY <1>2, <1>4, <2>2, Booting DEF Usable, Both, Trusts
<1>5. CASE Nexts(p) # Me
  BY <1>1, <1>5 DEF Peers
<1> QED BY <1>3, <1>4, <1>5

LEMMA SoundIsRight ==
  ASSUME NEW s \in Index, NEW lines, Sound(s, lines)
  PROVE  Right(s, lines)
BY NoIndex DEF Sound, Good, Entries

LEMMA BaseReads ==
  ASSUME IInv, Steady, Led, Sane, Peers, Pair, Reached
  PROVE  ReadsRight
<1> SUFFICES ASSUME NEW p \in Storage, ReadFile(p), Trusts(p)
             PROVE  /\ Right(offsets[Nexts(p)], file[Nexts(p)])
                    /\ Right(nodes[Nexts(p)], file[Nexts(p)])
  BY DEF ReadsRight
<1>1. /\ offsets[Nexts(p)] \in Index \cup {None} /\ nodes[Nexts(p)] \in Index \cup {None}
      /\ file[Nexts(p)] \in Seq(Line)
  BY ReadIs, HeldIsIndex
<1>2. offsets[Nexts(p)] \in Index /\ nodes[Nexts(p)] \in Index
  BY <1>1, FreshIs DEF Trusts
<1> QED BY <1>2, ReadsSound, SoundIsRight

\* What a storage has seen of a file is in its indexes.
LEMMA StepHas ==
  ASSUME IInv, Steady, Led, Sane, Peers, Pair, Reached, [Next]_vars,
         NEW q \in Storage, Has(q)
  PROVE  Has(q)'
<1> SUFFICES ASSUME NEW a \in Actor
             PROVE  /\ store'[q].seen[a] \subseteq DOMAIN store'[q].offsets[a]
                    /\ store'[q].seen[a] \subseteq DOMAIN store'[q].nodes[a]
  BY DEF Has
<1>1. /\ store[q].seen[a] \subseteq DOMAIN store[q].offsets[a]
      /\ store[q].seen[a] \subseteq DOMAIN store[q].nodes[a]
  BY DEF Has
<1>2. /\ store[q].offsets[a] \in Index /\ store[q].nodes[a] \in Index
      /\ file[a] \in Seq(Line) /\ offsets[a] \in Index \cup {None}
      /\ nodes[a] \in Index \cup {None}
  BY HeldIsIndex
<1>3. CASE Holds(q, a)' = Holds(q, a)
  BY <1>1, <1>3 DEF Holds
<1>4. CASE Holds(q, a)' = <<Nothing, Nothing, {}>>
  BY <1>4 DEF Holds
<1>5. CASE ReadFile(q) /\ a = Nexts(q)
  <2>1. /\ store'[q].offsets[a] = IF Trusts(q)
             THEN Merge(offsets[a], Scan(file[a], Tip(offsets[a]) + 1))
             ELSE Scan(file[a], 1)
        /\ store'[q].nodes[a] = IF Trusts(q)
             THEN Merge(nodes[a], Scan(file[a], Tip(offsets[a]) + 1))
             ELSE Scan(file[a], 1)
        /\ store'[q].seen[a] = Whole(file[a])
    BY <1>5, ReadIs
  <2>2. CASE Trusts(q)
    <3>1. /\ offsets[a] \in Index /\ nodes[a] \in Index /\ Tip(nodes[a]) = Tip(offsets[a])
      BY <1>2, <1>5, <2>2, FreshIs DEF Trusts
    <3>2. Sound(offsets[a], file[a]) /\ Sound(nodes[a], file[a])
      BY <1>5, <2>2, ReadsSound
    <3>3. /\ Whole(file[a]) \subseteq DOMAIN Merge(offsets[a], Scan(file[a], Tip(offsets[a]) + 1))
          /\ Whole(file[a]) \subseteq DOMAIN Merge(nodes[a], Scan(file[a], Tip(nodes[a]) + 1))
      BY <1>2, <3>1, <3>2, TailCompletes
    <3> QED BY <2>1, <2>2, <3>1, <3>3
  <2>3. CASE ~ Trusts(q)
    BY <1>2, <2>1, <2>3, ScanCompletes
  <2> QED BY <2>2, <2>3
<1>6. CASE /\ store'[q].offsets[a] =
                Entered(store[q].offsets[a], Head(batch.entries), batch.from + 1)
           /\ store'[q].nodes[a] =
                Entered(store[q].nodes[a], Head(batch.entries), batch.from + 1)
           /\ store'[q].seen[a] = store[q].seen[a]
  <2>1. ASSUME NEW ix \in Index, NEW t, NEW n PROVE DOMAIN ix \subseteq DOMAIN Entered(ix, t, n)
    BY NoIndex DEF Entered, Merge
  <2> QED BY <1>1, <1>2, <1>6, <2>1
<1> QED BY <1>3, <1>4, <1>5, <1>6, MemoryStep

\* The sidecars of a peer's file.
LEMMA StepPeers ==
  ASSUME IInv, Peers, [Next]_vars, \A p \in Storage : Saves(p)
  PROVE  Peers'
<1> SUFFICES ASSUME NEW a \in Actor \ {Me}
             PROVE  Sound(offsets'[a], file'[a]) /\ Sound(nodes'[a], file'[a])
  BY DEF Peers
<1>1. /\ file[a] \in Seq(Line) /\ offsets[a] \in Index \cup {None}
      /\ nodes[a] \in Index \cup {None} /\ file'[a] \in Seq(Line)
      /\ Sound(offsets[a], file[a]) /\ Sound(nodes[a], file[a])
  <2>1. IInv'
    BY NextKeeps
  <2> QED BY <2>1 DEF IInv, Shapes, Peers
<1>2. file'[a] = file[a] \/ \E x \in Line : file'[a] = Append(file[a], x)
  BY FileStep
<1>3. ASSUME NEW s \in Index \cup {None}, Sound(s, file[a])
      PROVE  Sound(s, file'[a])
  BY <1>1, <1>2, <1>3, SoundGrows
<1>4. ASSUME NEW p \in Storage, SaveOffsets(p) \/ SaveNodes(p), a = store[p].actor
      PROVE  /\ Sound(Saved(store[p].offsets[a]), file'[a])
             /\ Sound(Saved(store[p].nodes[a]), file'[a])
  <2>1. /\ store[p].offsets[a] \in Index /\ store[p].nodes[a] \in Index
    BY HeldIsIndex
  <2>2. store[p].at \in {"saving", "saving nodes"} /\ file' = file
    BY <1>4 DEF SaveOffsets, SaveNodes
  <2>3. Sound(store[p].offsets[a], file[a]) /\ Sound(store[p].nodes[a], file[a])
    BY <1>4, <2>2 DEF Saves
  <2> QED BY <1>1, <2>1, <2>2, <2>3, SoundSaved
<1>5. Sound(None, file'[a])
  BY <1>1, NoneIsSound
<1>6. Sound(offsets'[a], file'[a])
  <2>1. CASE offsets'[a] = offsets[a] \/ offsets'[a] = None
    BY <1>1, <1>3, <1>5, <2>1
  <2>2. CASE \E p \in Storage : /\ SaveOffsets(p) /\ a = store[p].actor
                                /\ offsets'[a] = Saved(store[p].offsets[a])
    BY <1>4, <2>2
  <2> QED BY <2>1, <2>2, SidecarStep DEF MineIf
<1>7. Sound(nodes'[a], file'[a])
  <2>1. CASE nodes'[a] = nodes[a] \/ nodes'[a] = None
    BY <1>1, <1>3, <1>5, <2>1
  <2>2. CASE \E p \in Storage : /\ SaveNodes(p) /\ a = store[p].actor
                                /\ nodes'[a] = Saved(store[p].nodes[a])
    BY <1>4, <2>2
  <2> QED BY <2>1, <2>2, SidecarStep DEF MineIf
<1> QED BY <1>6, <1>7

\* What is to be saved of a peer's file goes on being of that file.
LEMMA StepSaves ==
  ASSUME IInv, [Next]_vars, NEW q \in Storage, Saves(q), ~ SaveFails(q), Leads', Has(q)'
  PROVE  Saves(q)'
<1>0. store'[q] \in Slot /\ file' \in [Actor -> Seq(Line)]
  <2>1. IInv'
    BY NextKeeps
  <2> QED BY <2>1 DEF IInv, Shapes
<1> PICK a \in Actor : a = store'[q].actor
  BY <1>0 DEF Slot
<1> SUFFICES ASSUME store'[q].at \in {"saving", "saving nodes"}
             PROVE  /\ a \notin store'[q].todo
                    /\ a # Me => /\ Sound(store'[q].offsets[a], file'[a])
                                 /\ Sound(store'[q].nodes[a], file'[a])
  BY DEF Saves
<1>1. /\ file'[a] \in Seq(Line)
      /\ store'[q].offsets[a] \in Index /\ store'[q].nodes[a] \in Index
  BY <1>0 DEF Slot
<1>2. Down.at = "down" /\ Opened.at = "reading"
  BY OpenedIs
<1>3. ASSUME store[q].at \in {"saving", "saving nodes"}, store[q].actor = a,
             store'[q].todo = store[q].todo
      PROVE  /\ a \notin store'[q].todo
             /\ a # Me => /\ Sound(store'[q].offsets[a], file'[a])
                          /\ Sound(store'[q].nodes[a], file'[a])
  <2>1. a \notin store'[q].todo
    BY <1>3 DEF Saves
  <2> SUFFICES ASSUME a # Me
               PROVE  /\ Sound(store'[q].offsets[a], file'[a])
                      /\ Sound(store'[q].nodes[a], file'[a])
    BY <2>1
  <2>2. /\ Sound(store[q].offsets[a], file[a]) /\ Sound(store[q].nodes[a], file[a])
    BY <1>3 DEF Saves
  <2>3. /\ store[q].offsets[a] \in Index /\ store[q].nodes[a] \in Index
        /\ file[a] \in Seq(Line)
    BY <1>1, HeldIsIndex
  <2>4. file'[a] = file[a] \/ \E x \in Line : file'[a] = Append(file[a], x)
    BY <1>1, FileStep
  <2>5. /\ Sound(store[q].offsets[a], file'[a]) /\ Sound(store[q].nodes[a], file'[a])
    BY <2>2, <2>3, <2>4, SoundGrows
  <2>6. CASE Holds(q, a)' = Holds(q, a)
    <3>1. /\ store'[q].offsets[a] = store[q].offsets[a]
          /\ store'[q].nodes[a] = store[q].nodes[a]
      BY <2>6 DEF Holds
    <3> QED BY <2>5, <3>1
  <2>7. CASE Holds(q, a)' = <<Nothing, Nothing, {}>>
    <3>1. store'[q].offsets[a] = Nothing /\ store'[q].nodes[a] = Nothing
      BY <2>7 DEF Holds
    <3> QED BY <1>1, <3>1, NothingIsSound
  <2>8. ~ ReadFile(q)
    BY <1>3 DEF ReadFile
  <2> QED BY <1>1, <2>6, <2>7, <2>8, MemoryStep
<1>4. CASE Stage(q)' = Stage(q)
  <2>1. /\ store'[q].at = store[q].at /\ store'[q].todo = store[q].todo
        /\ store'[q].actor = store[q].actor
    BY <1>4 DEF Stage
  <2> QED BY <1>3, <2>1
<1>5. CASE SaveOffsets(q) \/ SaveNodes(q)
  <2>1. PICK s : store' = [store EXCEPT ![q].at = s]
    BY <1>5 DEF SaveOffsets, SaveNodes
  <2>2. store \in [Storage -> Slot] /\ store[q] \in Slot
    BY DEF IInv, Shapes
  <2>3. store'[q].actor = store[q].actor /\ store'[q].todo = store[q].todo
    BY <2>1, <2>2 DEF Slot
  <2>4. store[q].at \in {"saving", "saving nodes"}
    BY <1>5 DEF SaveOffsets, SaveNodes
  <2> QED BY <1>3, <2>3, <2>4
<1>6. CASE ReadFile(q)
  <2>1. /\ a = Nexts(q) /\ store'[q].todo = store[q].todo \ {a} /\ file' = file
        /\ store'[q].seen[a] = Whole(file[a])
    BY <1>6, ReadIs
  <2>2. /\ Whole(file'[a]) \subseteq DOMAIN store'[q].offsets[a]
        /\ Whole(file'[a]) \subseteq DOMAIN store'[q].nodes[a]
    BY <1>1, <2>1 DEF Has
  <2>3. /\ Right(store'[q].offsets[a], file'[a]) /\ Right(store'[q].nodes[a], file'[a])
    BY <1>1 DEF Leads
  <2>4. /\ Good(store'[q].offsets[a], file'[a], Len(file'[a]))
        /\ Good(store'[q].nodes[a], file'[a], Len(file'[a]))
    BY <1>1, <2>2, <2>3, SavedIsGood
  <2>5. /\ Sound(store'[q].offsets[a], file'[a]) /\ Sound(store'[q].nodes[a], file'[a])
    BY <1>1, <2>4, LenIs, GoodIsSound
  <2> QED BY <2>1, <2>5
<1> QED BY <1>2, <1>4, <1>5, <1>6, SlotStep

\* A sidecar of the own file that is saved and has not been overtaken.
LEMMA MeSaved ==
  ASSUME IInv, Leads, NEW p \in Storage, Has(p), SaveOffsets(p) \/ SaveNodes(p),
         store[p].actor = Me, "overtaken" \notin excuses'
  PROVE  /\ Good(Saved(store[p].offsets[Me]), file[Me], Len(file[Me]))
         /\ Good(Saved(store[p].nodes[Me]), file[Me], Len(file[Me]))
<1>1. Me \in Actor
  BY Timestamps
<1>2. /\ store[p].offsets[Me] \in Index /\ store[p].nodes[Me] \in Index
      /\ file[Me] \in Seq(Line)
  BY <1>1, HeldIsIndex
<1>3. "overtaken" \notin Overtaken(p)
  BY DEF SaveOffsets, SaveNodes
<1>4. store[p].seen[Me] = Whole(file[Me])
  BY <1>3 DEF Overtaken
<1>5. /\ Right(store[p].offsets[Me], file[Me]) /\ Right(store[p].nodes[Me], file[Me])
      /\ Whole(file[Me]) \subseteq DOMAIN store[p].offsets[Me]
      /\ Whole(file[Me]) \subseteq DOMAIN store[p].nodes[Me]
  BY <1>1, <1>4 DEF Leads, Has
<1> QED BY <1>2, <1>5, SavedIsGood

----------------------------------------------------------------------------
(***************************************************************************)
(* The pair, step by step.                                                 *)
(***************************************************************************)
LEMMA BothStays ==
  ASSUME IInv, Steady, Leads, Reached, \A p \in Storage : Has(p), [Next]_vars,
         "overtaken" \notin excuses', Both, ~ Rename
  PROVE  Both'
<1>1. /\ file[Me] \in Seq(Line) /\ offsets[Me] \in Index \cup {None}
      /\ nodes[Me] \in Index \cup {None} /\ file'[Me] \in Seq(Line) /\ Me \in Actor
  <2>1. IInv'
    BY NextKeeps
  <2> QED BY <2>1, Timestamps DEF IInv, Shapes
<1>2. file'[Me] = file[Me] \/ \E x \in Line : file'[Me] = Append(file[Me], x)
  BY <1>1, FileStep
<1>3. /\ Sound(offsets[Me], file[Me]) /\ Sound(nodes[Me], file[Me])
      /\ Sound(offsets[Me], file'[Me]) /\ Sound(nodes[Me], file'[Me])
      /\ Sound(None, file'[Me])
  BY <1>1, <1>2, SoundGrows, NoneIsSound DEF Both
<1>4. ASSUME EnterOffset \/ EnterNode, NEW s \in {offsets[Me], nodes[Me]}
      PROVE  Sound(Entered(s, Head(batch.entries), batch.from + 1), file'[Me])
  <2>1. batch.entries # <<>> /\ file' = file
    BY <1>4 DEF EnterOffset, EnterNode
  <2>2. /\ Head(batch.entries) \in Ts /\ batch.from \in 0..Len(file[Me])
        /\ batch.from + 1 <= Len(file[Me])
        /\ file[Me][batch.from + 1] = Head(batch.entries)
        /\ batch # NoBatch
    BY <2>1, NextLine
  <2>3. Reaches(s, file[Me], batch.from)
    BY <1>4, <2>2, WriterReaches
  <2> DEFINE t == Head(batch.entries)
             n == batch.from
  <2> HIDE DEF t, n
  <2>4. /\ t \in Ts /\ n \in 0..Len(file[Me]) /\ n + 1 <= Len(file[Me])
        /\ file[Me][n + 1] = t /\ Reaches(s, file[Me], n) /\ s \in Index \cup {None}
    BY <1>1, <1>4, <2>2, <2>3 DEF t, n
  <2>5. Reaches(Entered(s, t, n + 1), file[Me], n + 1)
    BY <1>1, <2>4, EnteredReaches
  <2>6. n + 1 \in Nat
    BY <2>4
  <2>7. Sound(Entered(s, t, n + 1), file[Me])
    BY <1>1, <2>5, <2>6, ReachesIs
  <2> QED BY <2>1, <2>7 DEF t, n
<1>5. ASSUME NEW p \in Storage, SaveOffsets(p) \/ SaveNodes(p), Me = store[p].actor
      PROVE  /\ Sound(Saved(store[p].offsets[Me]), file'[Me])
             /\ Sound(Saved(store[p].nodes[Me]), file'[Me])
  <2>1. /\ Good(Saved(store[p].offsets[Me]), file[Me], Len(file[Me]))
        /\ Good(Saved(store[p].nodes[Me]), file[Me], Len(file[Me]))
    BY <1>5, MeSaved
  <2>2. file' = file
    BY <1>5 DEF SaveOffsets, SaveNodes
  <2> QED BY <1>1, <2>1, <2>2, LenIs, GoodIsSound
<1>6. Sound(offsets'[Me], file'[Me])
  <2>1. CASE Became(offsets[Me], offsets'[Me])
    BY <1>3, <1>4, <2>1 DEF Became
  <2>2. CASE \E p \in Storage : /\ SaveOffsets(p) /\ Me = store[p].actor
                                /\ offsets'[Me] = Saved(store[p].offsets[Me])
    BY <1>5, <2>2
  <2> QED BY <1>1, <2>1, <2>2, SidecarStep
<1>7. Sound(nodes'[Me], file'[Me])
  <2>1. CASE Became(nodes[Me], nodes'[Me])
    BY <1>3, <1>4, <2>1 DEF Became
  <2>2. CASE \E p \in Storage : /\ SaveNodes(p) /\ Me = store[p].actor
                                /\ nodes'[Me] = Saved(store[p].nodes[Me])
    BY <1>5, <2>2
  <2> QED BY <1>1, <2>1, <2>2, SidecarStep
<1> QED BY <1>6, <1>7 DEF Both

\* A wrong pair is left alone, or one half of it has been saved, or both.
LEMMA BootingStep ==
  ASSUME IInv, Steady, Led, Sane, Base, [Next]_vars, "overtaken" \notin excuses',
         compact.at \notin Mixed, ~ Both, ~ Rename
  PROVE  \/ Both'
         \/ /\ UNCHANGED <<file[Me], nodes[Me]>>
            /\ Mid' \/ (UNCHANGED offsets[Me] /\ (~ Mid \/ Fault))
<1>1. /\ \A p \in Storage : store[p].at # "up" /\ (store[p].at # "down" => p = writer)
      /\ batch = NoBatch /\ batch.todo = <<>> /\ batch.entries = <<>>
  BY Booting, NoBatchIs DEF Base
<1>2. /\ file \in [Actor -> Seq(Line)] /\ store \in [Storage -> Slot] /\ Me \in Actor
      /\ offsets \in [Actor -> Index \cup {None}] /\ nodes \in [Actor -> Index \cup {None}]
  BY Timestamps DEF IInv, Shapes
<1> DEFINE Same == UNCHANGED <<file[Me], nodes[Me], offsets[Me]>>
<1>3. ASSUME NEW p \in Storage, store[p].at # "saving nodes",
             store[p].at # "down" \/ \A q \in Storage : store[q].at = "down"
      PROVE  ~ Mid
  BY <1>1, <1>3 DEF Mid
<1>4. ASSUME NEW p \in Storage, Start(p) PROVE Same /\ ~ Mid
  <2>1. \A q \in Storage : q \in Fellows(p)
    BY <1>1, Booting DEF OneProcess, Fellows, Base
  <2> QED BY <1>3, <1>4, <2>1, StartIs
<1>5. ASSUME NEW p \in Storage,
             Reload(p) \/ Stop(p) \/ Begin(p) \/ \E r \in Storage : Replace(p, r)
      PROVE  FALSE
  BY <1>1, <1>5, FellowsAre DEF Reload, Stop, Begin, Replace
<1>6. ASSUME NEW p \in Storage, NEW t \in Ts, NEW op \in LocalOps[t], Ingest(p, t, op)
      PROVE  FALSE
  BY <1>1, <1>6 DEF Ingest
<1>7. ASSUME NEW p \in Storage, ReadFile(p) PROVE Same /\ ~ Mid
  BY <1>3, <1>7, ReadIs
<1>8. ASSUME NEW p \in Storage, SaveFails(p) PROVE Same /\ ~ Mid
  BY <1>3, <1>8 DEF SaveFails
<1>9. ASSUME NEW p \in Storage, Crash(p) PROVE Same /\ Fault
  <2>1. UNCHANGED <<offsets, nodes>> /\ Fault
    BY <1>9 DEF Crash
  <2>2. UNCHANGED file \/ \E a \in Actor \ {Me} : Tear(a)
    BY <1>1, <1>9 DEF Crash
  <2>3. file'[Me] = file[Me]
    BY <1>2, <2>2 DEF Tear
  <2> QED BY <2>1, <2>3
<1>10. ASSUME NEW p \in Storage, SaveOffsets(p)
       PROVE  UNCHANGED <<file[Me], nodes[Me]>> /\ (Mid' \/ (UNCHANGED offsets[Me] /\ ~ Mid))
  <2>1. /\ store[p].at = "saving" /\ UNCHANGED <<file, nodes>>
        /\ store' = [store EXCEPT ![p].at = "saving nodes"]
        /\ offsets' = [offsets EXCEPT ![store[p].actor] = Saved(store[p].offsets[store[p].actor])]
    BY <1>10 DEF SaveOffsets
  <2>2. ~ Mid
    BY <1>3, <2>1
  <2>3. CASE store[p].actor # Me
    BY <1>2, <2>1, <2>2, <2>3
  <2>4. CASE store[p].actor = Me
    <3>1. store'[p].at = "saving nodes" /\ store'[p].actor = Me
      BY <1>2, <2>1, <2>4 DEF Slot
    <3> QED BY <2>1, <3>1 DEF Mid
  <2> QED BY <2>3, <2>4
<1>11. ASSUME NEW p \in Storage, SaveNodes(p) PROVE Both' \/ (Same /\ ~ Mid)
  <2>1. /\ store[p].at = "saving nodes" /\ UNCHANGED <<file, offsets>>
        /\ nodes' = [nodes EXCEPT ![store[p].actor] = Saved(store[p].nodes[store[p].actor])]
    BY <1>11 DEF SaveNodes
  <2>2. CASE store[p].actor # Me
    <3>1. ~ Mid
      BY <1>1, <2>1, <2>2 DEF Mid
    <3> QED BY <1>2, <2>1, <2>2, <3>1
  <2>3. CASE store[p].actor = Me
    <3>1. Good(nodes'[Me], file[Me], Len(file[Me]))
      BY <1>2, <1>11, <2>1, <2>3, MeSaved DEF Base
    <3>2. OffsetsDone(p)
      <4>1. Me \notin store[p].todo
        BY <2>1, <2>3 DEF Base, Saves
      <4> QED BY <2>1, <4>1 DEF OffsetsDone
    <3>3. p = writer
      BY <1>1, <2>1
    <3>4. Reaches(offsets[Me], file[Me], OffsetsTo)
      BY <3>2, <3>3 DEF Base, Reached, Done
    <3>5. OffsetsTo \in Nat
      BY ToIs
    <3>6. Sound(offsets[Me], file[Me]) /\ Sound(nodes'[Me], file[Me])
      BY <1>2, <3>1, <3>4, <3>5, ReachesIs, LenIs, GoodIsSound
    <3> QED BY <2>1, <3>6 DEF Both
  <2> QED BY <2>2, <2>3
<1>12. ASSUME \/ WriteLine \/ WriteFails \/ EnterOffset \/ EnterNode \/ OffsetFails
              \/ NodeFails
       PROVE  FALSE
  BY <1>1, <1>12 DEF WriteLine, WriteFails, EnterOffset, EnterNode, OffsetFails, NodeFails
<1>13. ASSUME NEW t \in Ts, Plan(t) PROVE Same /\ ~ Mid
  BY <1>13 DEF Plan, Alone, Mid
<1>14. ASSUME DropOffsets \/ DropNodes PROVE FALSE
  BY <1>14 DEF DropOffsets, DropNodes, Mixed
<1>15. ASSUME CompactEnds PROVE Same /\ Fault
  BY <1>15 DEF CompactEnds
<1>16. ASSUME Check \/ UNCHANGED vars PROVE Same /\ (Mid' \/ ~ Mid)
  <2>1. UNCHANGED <<file, offsets, nodes, store>>
    BY <1>16 DEF Check, vars
  <2> QED BY <2>1 DEF Mid
<1> QED BY <1>4, <1>5, <1>6, <1>7, <1>8, <1>9, <1>10, <1>11, <1>12, <1>13, <1>14, <1>15,
           <1>16 DEF Next

LEMMA PairStays ==
  ASSUME IInv, Steady, Led, Sane, Sane', Base, [Next]_vars, compact.at \notin Mixed
  PROVE  Pair'
<1> SUFFICES ASSUME compact'.at \notin Mixed, ~ Both'
             PROVE  /\ "cut off" \in excuses'
                    /\ ~ Mid' => Usable'
                    /\ Spent' < 2 => Hopeless'
  BY DEF Pair
<1>1. ~ Rename
  <2>1. Rename => compact'.at = "renamed"
    BY DEF Rename, IInv, Shapes, Compaction
  <2> QED BY <2>1 DEF Mixed
<1>2. "overtaken" \notin excuses'
  BY DEF Sane
<1>3. ~ Both
  BY <1>1, <1>2, BothStays DEF Base
<1>4. "cut off" \in excuses /\ (~ Mid => Usable) /\ (Spent < 2 => Hopeless)
  BY <1>3, Booting DEF Base
<1>5. /\ file'[Me] = file[Me] /\ nodes'[Me] = nodes[Me]
      /\ Mid' \/ (offsets'[Me] = offsets[Me] /\ (~ Mid \/ Fault))
  BY <1>1, <1>2, <1>3, BootingStep
<1>6. "cut off" \in excuses' /\ Spent' <= 2
  BY <1>4, ExcusesGrow DEF Sane
<1>7. Fault => Spent < 2
  <2>1. faults \in Nat /\ MaxFaults \in Nat /\ (Fault => faults' = faults - 1)
    BY FaultsIs DEF Fault
  <2>2. Spent' <= 2
    BY <1>6
  <2> QED BY <2>1, <2>2 DEF Spent
<1>8. Spent' < 2 => Spent < 2
  <2>1. faults \in Nat /\ MaxFaults \in Nat
    BY FaultsIs
  <2>2. CASE faults' = faults
    BY <2>2 DEF Spent
  <2>3. CASE faults' = faults - 1
    BY <2>1, <2>3 DEF Spent
  <2> QED BY <2>2, <2>3, ExcusesGrow DEF Fault
<1>9. Spent' < 2 => Hopeless'
  BY <1>4, <1>5, <1>8 DEF Hopeless
<1>10. ASSUME ~ Mid' PROVE Usable'
  <2>1. Usable
    BY <1>4, <1>5, <1>7, <1>10, HopelessIsUsable
  <2> QED BY <1>5, <1>10, <2>1 DEF Usable, Both
<1> QED BY <1>6, <1>9, <1>10

LEMMA PairAfter ==
  ASSUME IInv, Sane', Pair, [Next]_vars, compact.at \in Mixed, OneProcess => Death,
         compact.at = "half" => offsets[Me] = None
  PROVE  Pair'
<1>1. /\ compact.at \in {"renamed", "half"} /\ compact \in Compaction /\ Me \in Actor
      /\ offsets \in [Actor -> Index \cup {None}] /\ nodes \in [Actor -> Index \cup {None}]
      /\ file[Me] \in Seq(Line)
  BY Timestamps DEF IInv, Shapes, Mixed
<1> SUFFICES ASSUME compact'.at \notin Mixed, ~ Both'
             PROVE  /\ "cut off" \in excuses'
                    /\ ~ Mid' => Usable'
                    /\ Spent' < 2 => Hopeless'
  BY DEF Pair
<1>2. ~ UNCHANGED vars /\ ~ DropOffsets
  BY <1>1 DEF vars, DropOffsets, Compaction, Mixed
<1>3. ~ DropNodes
  <2> SUFFICES ASSUME DropNodes PROVE FALSE
    OBVIOUS
  <2>1. offsets'[Me] = None /\ nodes'[Me] = None /\ file'[Me] = file[Me]
    BY <1>1 DEF DropNodes
  <2> QED BY <1>1, <2>1, NoneIsSound DEF Both
<1>4. CompactEnds
  BY <1>2, <1>3, MixedStep
<1>5. /\ "cut off" \in excuses' /\ UNCHANGED <<file, offsets, nodes, store>> /\ Fault
  BY <1>1, <1>4 DEF CompactEnds
<1>6. OneProcess /\ Spent' <= 2
  BY <1>5 DEF Sane, OneProcess
<1>7. Spent < 2 /\ (Spent' < 2 => Spent < 1)
  <2>1. faults \in Nat /\ MaxFaults \in Nat /\ faults' = faults - 1
    BY <1>5, FaultsIs DEF Fault
  <2> QED BY <1>6, <2>1 DEF Spent
<1>8. Usable /\ (Spent < 1 => Both \/ Hopeless)
  BY <1>6, <1>7 DEF Death
<1>9. Usable'
  BY <1>5, <1>8 DEF Usable, Both
<1>10. ~ Both
  BY <1>5 DEF Both
<1>11. Spent' < 2 => Hopeless'
  BY <1>5, <1>7, <1>8, <1>10 DEF Hopeless
<1> QED BY <1>5, <1>9, <1>11

----------------------------------------------------------------------------
(***************************************************************************)
(* How far the live storage has come, step by step.                        *)
(***************************************************************************)
LEMMA DoneStays ==
  ASSUME NEW p \in Storage, Done(p), UNCHANGED <<file[Me], offsets[Me], nodes[Me], batch>>,
         OffsetsDone(p)' => OffsetsDone(p), NodesDone(p)' => NodesDone(p)
  PROVE  Done(p)'
<1>1. OffsetsTo' = OffsetsTo /\ NodesTo' = NodesTo
  BY DEF OffsetsTo, NodesTo
<1> QED BY <1>1 DEF Done

LEMMA SlotDoneStays ==
  ASSUME NEW p \in Storage, Done(p), UNCHANGED <<file[Me], offsets[Me], nodes[Me], batch>>,
         store'[p] = store[p]
  PROVE  Done(p)'
<1>1. OffsetsDone(p)' <=> OffsetsDone(p)
  BY DEF OffsetsDone
<1>2. NodesDone(p)' <=> NodesDone(p)
  BY <1>1 DEF NodesDone
<1> QED BY <1>1, <1>2, DoneStays

\* Storages are opened, replace each other and go with their process.
LEMMA OpensReached ==
  ASSUME IInv, Steady, Reached, NEW r \in Storage,
         \/ Start(r) \/ Reload(r) \/ Stop(r) \/ Crash(r)
         \/ \E s \in Storage : Replace(r, s)
  PROVE  Reached'
<1> SUFFICES ASSUME NEW p \in Storage, p = writer' PROVE Done(p)'
  BY DEF Reached
<1>1. /\ file \in [Actor -> Seq(Line)] /\ Me \in Actor /\ None \notin Storage
  BY Timestamps, FilesConstants DEF IInv, Shapes
<1>2. ASSUME p = writer, store'[p] = store[p],
             UNCHANGED <<file[Me], offsets[Me], nodes[Me], batch>>
      PROVE  Done(p)'
  BY <1>2, SlotDoneStays DEF Reached
<1>3. CASE Start(r)
  <2>1. /\ UNCHANGED <<file, offsets, nodes, batch>>
        /\ writer' = IF writer = None THEN r ELSE writer
        /\ store'[r] = Opened /\ \A q \in Storage \ {r} : store'[q] = store[q]
    BY <1>3, StartIs
  <2>2. CASE p = r
    <3>1. Me \in store'[p].todo
      BY <1>1, <2>1, <2>2, OpenedIs
    <3>2. ~ OffsetsDone(p)'
      BY <3>1 DEF OffsetsDone
    <3> QED BY <3>2 DEF Done, NodesDone
  <2>3. CASE p # r
    BY <1>2, <2>1, <2>3
  <2> QED BY <2>2, <2>3
<1>4. CASE Reload(r)
  BY <1>2, <1>4, ReloadIs
<1>5. ASSUME NEW s \in Storage, Replace(r, s) PROVE Done(p)'
  <2>1. /\ UNCHANGED <<file, offsets, nodes, batch>> /\ store[r].at = "up"
        /\ writer' = IF writer = r THEN s ELSE writer
        /\ \A q \in Storage \ {r} : store'[q] = store[q]
    BY <1>5, ReplaceIs
  <2>2. CASE writer = r
    <3>1. /\ Reaches(offsets[Me], file[Me], OffsetsTo)
          /\ Reaches(nodes[Me], file[Me], NodesTo)
      BY <2>1, <2>2, WriterIs
    <3>2. OffsetsTo' = OffsetsTo /\ NodesTo' = NodesTo
      BY <2>1 DEF OffsetsTo, NodesTo
    <3> QED BY <2>1, <3>1, <3>2 DEF Done
  <2>3. CASE writer # r
    <3>1. p = writer /\ p # r
      BY <2>1, <2>3
    <3> QED BY <1>2, <2>1, <3>1
  <2> QED BY <2>2, <2>3
<1>6. CASE Stop(r) \/ Crash(r)
  <2>1. Leave(r)
    BY <1>6 DEF Stop, Crash
  <2>2. writer' = writer /\ writer \notin Fellows(r) /\ store'[p] = store[p]
    BY <1>1, <2>1, LeaveIs
  <2>3. UNCHANGED <<offsets, nodes, batch>>
    BY <1>6, <2>2 DEF Stop, Crash
  <2>4. UNCHANGED file \/ \E a \in Actor \ {Me} : Tear(a)
    BY <1>6, <2>2 DEF Stop, Crash
  <2>5. file'[Me] = file[Me]
    BY <1>1, <2>4 DEF Tear
  <2> QED BY <1>2, <2>2, <2>3, <2>5
<1> QED BY <1>3, <1>4, <1>5, <1>6

\* The live storage reads the own file.
LEMMA ReadsReached ==
  ASSUME IInv, Steady, Remains, Led, Sane, Base, NEW r \in Storage, ReadFile(r)
  PROVE  Reached'
<1> SUFFICES ASSUME NEW p \in Storage, p = writer' PROVE Done(p)'
  BY DEF Reached
<1>1. /\ UNCHANGED <<file, offsets, nodes, batch>> /\ writer' = writer
  BY ReadIs DEF ReadFile
<1>2. Done(p)
  BY <1>1 DEF Base, Reached
<1>3. CASE r # p
  <2>1. store'[p] = store[p]
    BY <1>3, ReadIs
  <2> QED BY <1>1, <1>2, <2>1, SlotDoneStays
<1>4. CASE r = p
  <2> DEFINE a == Nexts(p)
             exact == Trusts(p) /\ Tip(offsets[a]) = Len(file[a])
  <2>1. /\ store[p].at = "reading" /\ a \in store[p].todo /\ a \in Actor
        /\ store'[p].actor = a /\ store'[p].todo = store[p].todo \ {a}
        /\ store'[p].at = IF exact \/ file[a] = <<>>
                         THEN After(p, store[p].todo \ {a}) ELSE "saving"
    BY <1>4, ReadIs
  <2>2. /\ file[Me] \in Seq(Line) /\ offsets[Me] \in Index \cup {None}
        /\ nodes[Me] \in Index \cup {None} /\ Me \in Actor
    BY Timestamps DEF IInv, Shapes
  <2>3. store'[p].at # "saving nodes"
    BY <2>1 DEF After
  <2>4. ASSUME exact, a = Me
        PROVE  /\ Good(offsets[Me], file[Me], Len(file[Me]))
               /\ Good(nodes[Me], file[Me], Len(file[Me]))
    <3>1. Sound(offsets[Me], file[Me]) /\ Sound(nodes[Me], file[Me])
      BY <1>4, <2>4, ReadsSound DEF Base
    <3>2. /\ offsets[Me] \in Index /\ nodes[Me] \in Index
          /\ Tip(nodes[Me]) = Len(file[Me]) /\ Tip(offsets[Me]) = Len(file[Me])
      BY <2>2, <2>4, FreshIs DEF Trusts
    <3> QED BY <2>2, <3>1, <3>2, ExactIsGood
  <2> HIDE DEF a, exact
  <2>5. ASSUME file[Me] = <<>>
        PROVE  /\ Good(offsets[Me], file[Me], Len(file[Me]))
               /\ Good(nodes[Me], file[Me], Len(file[Me]))
    <3>1. offsets[Me] = None /\ nodes[Me] = None /\ Len(file[Me]) = 0
      BY <2>5 DEF Remains
    <3> QED BY <2>2, <3>1, NoneIsSound
  <2>6. OffsetsTo' = OffsetsTo /\ NodesTo' = NodesTo
    BY <1>1 DEF OffsetsTo, NodesTo
  <2> SUFFICES ASSUME OffsetsDone(p)'
               PROVE  /\ Reaches(offsets[Me], file[Me], OffsetsTo)
                      /\ Reaches(nodes[Me], file[Me], NodesTo)
    BY <1>1, <2>6 DEF Done, NodesDone
  <2>7. Me \notin store[p].todo \ {a} /\ ~ (store'[p].at = "saving" /\ a = Me)
    BY <2>1 DEF OffsetsDone
  <2>8. CASE Me \notin store[p].todo
    <3>1. OffsetsDone(p) /\ NodesDone(p)
      BY <2>1, <2>8 DEF OffsetsDone, NodesDone
    <3> QED BY <1>2, <3>1 DEF Done
  <2>9. CASE Me \in store[p].todo
    <3>1. a = Me /\ (exact \/ file[Me] = <<>>)
      BY <2>1, <2>7, <2>9
    <3>2. /\ Good(offsets[Me], file[Me], Len(file[Me]))
          /\ Good(nodes[Me], file[Me], Len(file[Me]))
      BY <2>4, <2>5, <3>1
    <3> QED BY <2>2, <3>2, ToIs, GoodReaches
  <2> QED BY <2>8, <2>9
<1> QED BY <1>3, <1>4

\* A storage saves what it read.
LEMMA SavesReached ==
  ASSUME IInv, Steady, Base, NEW r \in Storage, SaveOffsets(r) \/ SaveNodes(r),
         "overtaken" \notin excuses'
  PROVE  Reached'
<1> SUFFICES ASSUME NEW p \in Storage, p = writer' PROVE Done(p)'
  BY DEF Reached
<1>1. /\ offsets \in [Actor -> Index \cup {None}] /\ nodes \in [Actor -> Index \cup {None}]
      /\ store[r] \in Slot /\ store \in [Storage -> Slot] /\ Me \in Actor
      /\ file[Me] \in Seq(Line) /\ store[r].actor \in Actor
  BY Timestamps DEF IInv, Shapes, Slot
<1>2. /\ UNCHANGED <<file, batch>> /\ writer' = writer
  BY DEF SaveOffsets, SaveNodes
<1>3. Done(p) /\ Saves(r)
  BY <1>2 DEF Base, Reached
<1>4. OffsetsTo' = OffsetsTo /\ NodesTo' = NodesTo /\ file'[Me] = file[Me]
  BY <1>2 DEF OffsetsTo, NodesTo
<1>5. ASSUME store[r].actor = Me
      PROVE  /\ Reaches(Saved(store[r].offsets[Me]), file[Me], OffsetsTo)
             /\ Reaches(Saved(store[r].nodes[Me]), file[Me], NodesTo)
  <2>1. /\ Good(Saved(store[r].offsets[Me]), file[Me], Len(file[Me]))
        /\ Good(Saved(store[r].nodes[Me]), file[Me], Len(file[Me]))
    BY <1>5, MeSaved DEF Base
  <2> QED BY <1>1, <2>1, ToIs, GoodReaches
<1>6. PICK s : /\ store' = [store EXCEPT ![r].at = s]
               /\ store[r].at = "saving" => s = "saving nodes" /\ SaveOffsets(r)
               /\ store[r].at # "saving" => /\ s \in {"up", "reading"} /\ SaveNodes(r)
                                            /\ store[r].at = "saving nodes"
  BY DEF SaveOffsets, SaveNodes, After
<1>7. /\ store'[r].at = s /\ store'[r].actor = store[r].actor
      /\ store'[r].todo = store[r].todo
      /\ r # p => store'[p] = store[p]
  BY <1>1, <1>6 DEF Slot
<1>8. CASE store[r].actor # Me
  <2>1. UNCHANGED <<offsets[Me], nodes[Me]>>
    BY <1>1, <1>8 DEF SaveOffsets, SaveNodes
  <2>2. CASE r # p
    BY <1>2, <1>3, <1>7, <2>1, <2>2, SlotDoneStays
  <2>3. CASE r = p
    <3>1. OffsetsDone(p)' => OffsetsDone(p)
      BY <1>6, <1>7, <1>8, <2>3 DEF OffsetsDone
    <3>2. NodesDone(p)' => NodesDone(p)
      BY <1>8, <2>3, <3>1 DEF NodesDone
    <3> QED BY <1>2, <1>3, <2>1, <3>1, <3>2, DoneStays
  <2> QED BY <2>2, <2>3
<1>9. CASE store[r].actor = Me /\ store[r].at = "saving"
  <2>1. offsets' = [offsets EXCEPT ![Me] = Saved(store[r].offsets[Me])] /\ nodes' = nodes
    BY <1>6, <1>9 DEF SaveOffsets
  <2>2. Reaches(offsets'[Me], file[Me], OffsetsTo)
    BY <1>1, <1>5, <1>9, <2>1
  <2>3. NodesDone(p)' => NodesDone(p)
    <3>1. CASE r = p
      BY <1>6, <1>7, <1>9, <3>1 DEF NodesDone
    <3>2. CASE r # p
      BY <1>7, <3>2 DEF NodesDone, OffsetsDone
    <3> QED BY <3>1, <3>2
  <2> QED BY <1>3, <1>4, <2>1, <2>2, <2>3 DEF Done
<1>10. CASE store[r].actor = Me /\ store[r].at # "saving"
  <2>1. nodes' = [nodes EXCEPT ![Me] = Saved(store[r].nodes[Me])] /\ offsets' = offsets
    BY <1>6, <1>10 DEF SaveNodes
  <2>2. Reaches(nodes'[Me], file[Me], NodesTo)
    BY <1>1, <1>5, <1>10, <2>1
  <2>3. OffsetsDone(p)' => OffsetsDone(p)
    <3>1. CASE r = p
      BY <1>3, <1>6, <1>10, <3>1 DEF OffsetsDone, Saves
    <3>2. CASE r # p
      BY <1>7, <3>2 DEF OffsetsDone
    <3> QED BY <3>1, <3>2
  <2> QED BY <1>3, <1>4, <2>1, <2>2, <2>3 DEF Done
<1> QED BY <1>8, <1>9, <1>10

\* An append goes on.
LEMMA BeginReached ==
  ASSUME IInv, Steady, Reached, NEW p \in Storage, Begin(p)
  PROVE  Reached'
<1>1. /\ store[p].at = "up" /\ writer = p /\ batch = NoBatch
      /\ UNCHANGED <<file, offsets, nodes, store, writer>>
  BY DEF Begin
<1>2. /\ Reaches(offsets[Me], file[Me], OffsetsTo)
      /\ Reaches(nodes[Me], file[Me], NodesTo)
  BY <1>1, WriterIs
<1>3. batch'.from = Len(file[Me]) /\ batch'.part = "offset"
  <2>1. PICK todo : batch' = [NoBatch EXCEPT !.todo = todo, !.from = Len(file[Me])]
    <3>1. CASE Append1(p)
      BY <3>1 DEF Append1
    <3>2. CASE Append2(p)
      BY <3>2 DEF Append2
    <3> QED BY <3>1, <3>2 DEF Begin
  <2> QED BY <2>1 DEF NoBatch
<1>4. OffsetsTo' = Len(file[Me]) /\ NodesTo' = Len(file[Me])
  BY <1>1, <1>3 DEF OffsetsTo, NodesTo
<1>5. OffsetsTo = Len(file[Me]) /\ NodesTo = Len(file[Me])
  BY <1>1 DEF OffsetsTo, NodesTo
<1>6. \A q \in Storage : Done(q)'
  BY <1>1, <1>2, <1>4, <1>5 DEF Done
<1> QED BY <1>6 DEF Reached

LEMMA WriteLineReached ==
  ASSUME IInv, Steady, Reached, WriteLine
  PROVE  Reached'
<1> DEFINE t    == Head(batch.todo)
           done == Append(batch.entries, t)
<1>1. /\ batch.todo # <<>> /\ UNCHANGED <<offsets, nodes, store, writer>>
      /\ file' = [file EXCEPT ![Me] = Append(@, t)]
      /\ batch' = [batch EXCEPT !.todo = Tail(@), !.entries = done]
  BY DEF WriteLine, Put
<1>2. /\ batch # NoBatch /\ batch \in Batch /\ t \in Line /\ done # <<>>
  <2>1. batch # NoBatch
    BY <1>1, NoBatchIs
  <2>2. t \in Ts /\ batch.entries \in Seq(Ts)
    BY <1>1, <2>1, Appending, SmallerTail
  <2>3. Len(done) = Len(batch.entries) + 1 /\ Len(batch.entries) \in Nat /\ Len(<<>>) = 0
    BY <2>2
  <2>4. done # <<>>
    <3> HIDE DEF done
    <3> QED BY <2>3
  <2> QED BY <2>1, <2>2, <2>4, Appending DEF Line
<1>3. PICK p \in Storage : p = writer /\ store[p].at = "up"
  BY <1>2, Appending
<1>4. /\ Reaches(offsets[Me], file[Me], OffsetsTo) /\ Reaches(nodes[Me], file[Me], NodesTo)
      /\ OffsetsTo \in Nat /\ NodesTo \in Nat
  BY <1>3, WriterIs, ToIs
<1>5. /\ file[Me] \in Seq(Line) /\ Me \in Actor /\ file \in [Actor -> Seq(Line)]
      /\ offsets[Me] \in Index \cup {None} /\ nodes[Me] \in Index \cup {None}
  BY Timestamps DEF IInv, Shapes
<1> HIDE DEF t, done
<1>6. file'[Me] = Append(file[Me], t)
  BY <1>1, <1>5
<1>7. batch.part # "node"
  BY <1>1 DEF Steady, Appends
<1>8. batch'.from = batch.from /\ batch'.part = batch.part /\ batch' # NoBatch
  <2>1. batch'.from = batch.from /\ batch'.part = batch.part /\ batch'.entries = done
    BY <1>1, <1>2 DEF Batch
  <2> QED BY <1>2, <2>1, NoBatchIs
<1>9. OffsetsTo' = OffsetsTo /\ NodesTo' = NodesTo
  BY <1>2, <1>7, <1>8 DEF OffsetsTo, NodesTo
<1>10. /\ Reaches(offsets[Me], file'[Me], OffsetsTo) /\ Reaches(nodes[Me], file'[Me], NodesTo)
  BY <1>2, <1>4, <1>5, <1>6, ReachesGrows
<1>11. \A q \in Storage : Done(q)'
  BY <1>1, <1>9, <1>10 DEF Done
<1> QED BY <1>11 DEF Reached

LEMMA EnterOffsetReached ==
  ASSUME IInv, Steady, Reached, EnterOffset
  PROVE  Reached'
<1> DEFINE t == Head(batch.entries)
           n == batch.from
<1>1. /\ batch.entries # <<>> /\ batch.part = "offset"
      /\ offsets' = [offsets EXCEPT ![Me] = Entered(@, t, n + 1)]
      /\ batch' = [batch EXCEPT !.part = "node"]
      /\ UNCHANGED <<file, nodes, writer>>
  BY DEF EnterOffset
<1>2. /\ batch # NoBatch /\ batch \in Batch
  BY <1>1, NoBatchIs, Appending
<1>3. /\ t \in Ts /\ n \in 0..Len(file[Me]) /\ n + 1 <= Len(file[Me])
      /\ file[Me][n + 1] = t
  BY <1>1, NextLine
<1>4. /\ file[Me] \in Seq(Line) /\ Me \in Actor
      /\ offsets \in [Actor -> Index \cup {None}] /\ offsets[Me] \in Index \cup {None}
  BY Timestamps DEF IInv, Shapes
<1>5. /\ Reaches(offsets[Me], file[Me], n) /\ Reaches(nodes[Me], file[Me], n)
  BY <1>2, WriterReaches
<1>6. /\ batch'.from = n /\ batch'.part = "node" /\ batch' # NoBatch
  <2>1. batch'.from = n /\ batch'.part = "node" /\ batch'.entries = batch.entries
    BY <1>1, <1>2 DEF Batch
  <2> QED BY <1>1, <2>1, NoBatchIs
<1> HIDE DEF t, n
<1>7. OffsetsTo' = n + 1 /\ NodesTo' = n
  BY <1>6 DEF OffsetsTo, NodesTo
<1>8. offsets'[Me] = Entered(offsets[Me], t, n + 1)
  BY <1>1, <1>4
<1>9. Reaches(offsets'[Me], file[Me], n + 1)
  BY <1>3, <1>4, <1>5, <1>8, EnteredReaches
<1>10. \A q \in Storage : Done(q)'
  BY <1>1, <1>5, <1>7, <1>9 DEF Done
<1> QED BY <1>10 DEF Reached

LEMMA EnterNodeReached ==
  ASSUME IInv, Steady, Reached, EnterNode
  PROVE  Reached'
<1> DEFINE t == Head(batch.entries)
           n == batch.from
<1>1. /\ batch.entries # <<>> /\ batch.part = "node"
      /\ nodes' = [nodes EXCEPT ![Me] = Entered(@, t, n + 1)]
      /\ batch' = NextEntry
      /\ UNCHANGED <<file, offsets, store, writer>>
  BY DEF EnterNode
<1>2. /\ batch # NoBatch /\ batch \in Batch
  BY <1>1, NoBatchIs, Appending
<1>3. /\ t \in Ts /\ n \in 0..Len(file[Me]) /\ n + 1 <= Len(file[Me])
      /\ file[Me][n + 1] = t
      /\ Tail(batch.entries) = <<>> => n + 1 = Len(file[Me])
  <2>1. batch.todo = <<>>
    BY <1>1 DEF Steady, Appends
  <2> QED BY <1>1, <2>1, NextLine
<1>4. /\ file[Me] \in Seq(Line) /\ Me \in Actor
      /\ nodes \in [Actor -> Index \cup {None}] /\ nodes[Me] \in Index \cup {None}
  BY Timestamps DEF IInv, Shapes
<1>5. PICK p \in Storage : p = writer /\ store[p].at = "up"
  BY <1>2, Appending
<1>6. /\ Reaches(offsets[Me], file[Me], n + 1) /\ Reaches(nodes[Me], file[Me], n)
  <2>1. Reaches(offsets[Me], file[Me], OffsetsTo) /\ Reaches(nodes[Me], file[Me], NodesTo)
    BY <1>5, WriterIs
  <2> QED BY <1>1, <1>2, <2>1 DEF OffsetsTo, NodesTo
<1>7. OffsetsTo' = n + 1 /\ NodesTo' = n + 1
  <2>1. CASE Tail(batch.entries) = <<>>
    <3>1. batch' = NoBatch
      BY <1>1, <2>1 DEF NextEntry
    <3> QED BY <1>1, <1>3, <2>1, <3>1 DEF OffsetsTo, NodesTo
  <2>2. CASE Tail(batch.entries) # <<>>
    <3>1. batch' = [batch EXCEPT !.entries = Tail(@), !.part = "offset", !.from = @ + 1]
      BY <1>1, <2>2 DEF NextEntry
    <3>2. batch'.from = n + 1 /\ batch'.part = "offset" /\ batch'.entries # <<>>
      BY <1>2, <2>2, <3>1 DEF Batch
    <3>3. batch' # NoBatch
      BY <3>2, NoBatchIs
    <3> QED BY <3>2, <3>3 DEF OffsetsTo, NodesTo
  <2> QED BY <2>1, <2>2
<1> HIDE DEF t, n
<1>8. nodes'[Me] = Entered(nodes[Me], t, n + 1)
  BY <1>1, <1>4
<1>9. Reaches(nodes'[Me], file[Me], n + 1)
  BY <1>3, <1>4, <1>6, <1>8, EnteredReaches
<1>10. \A q \in Storage : Done(q)'
  BY <1>1, <1>6, <1>7, <1>9 DEF Done
<1> QED BY <1>10 DEF Reached

LEMMA StepReached ==
  ASSUME IInv, Steady, Remains, Led, Sane, Sane', Base, [Next]_vars
  PROVE  Reached'
<1>1. Reached /\ "overtaken" \notin excuses'
  BY DEF Base, Sane
<1>2. /\ \A p \in Storage : ~ SaveFails(p)
      /\ ~ WriteFails /\ ~ OffsetFails /\ ~ NodeFails
  BY SaneBefore
<1>3. ASSUME UNCHANGED <<file[Me], offsets[Me], nodes[Me], batch, store, writer>>
      PROVE  Reached'
  BY <1>1, <1>3, SlotDoneStays DEF Reached
<1>4. ASSUME NEW p \in Storage,
             \/ Start(p) \/ Reload(p) \/ Stop(p) \/ Crash(p) \/ ReadFile(p)
             \/ \E s \in Storage : Replace(p, s)
             \/ SaveOffsets(p) \/ SaveNodes(p) \/ Begin(p)
      PROVE  Reached'
  BY <1>1, <1>4, OpensReached, ReadsReached, SavesReached, BeginReached
<1>5. ASSUME NEW p \in Storage, NEW t \in Ts, NEW op \in LocalOps[t], Ingest(p, t, op)
      PROVE  Reached'
  <2>1. /\ Author[t] # Me /\ UNCHANGED <<offsets, nodes, store, writer, batch>>
        /\ file' = [file EXCEPT ![Author[t]] = Put(@, loose[Author[t]], t)]
    BY <1>5 DEF Ingest
  <2>2. file'[Me] = file[Me]
    BY <2>1, Timestamps DEF IInv, Shapes
  <2> QED BY <1>3, <2>1, <2>2
<1>6. ASSUME WriteLine \/ EnterOffset \/ EnterNode PROVE Reached'
  BY <1>1, <1>6, WriteLineReached, EnterOffsetReached, EnterNodeReached
<1>7. ASSUME NEW t \in Ts, Plan(t) PROVE Reached'
  BY <1>3, <1>7 DEF Plan
<1>8. ASSUME Check \/ CompactEnds \/ UNCHANGED vars PROVE Reached'
  BY <1>3, <1>8 DEF Check, CompactEnds, vars
<1>9. ASSUME Rename \/ DropOffsets \/ DropNodes PROVE Reached'
  <2>1. Exclusive /\ writer' = writer
    BY <1>9 DEF Rename, DropOffsets, DropNodes, Exclusive
  <2>2. \A p \in Storage : store[p].at = "down"
    BY <2>1 DEF IInv, Locked, Alone
  <2>3. writer' = None /\ None \notin Storage
    BY <2>1, <2>2, FilesConstants DEF IInv, Locked, TypeOK
  <2> QED BY <2>3 DEF Reached
<1> QED BY <1>2, <1>4, <1>5, <1>6, <1>7, <1>8, <1>9 DEF Next

----------------------------------------------------------------------------
(***************************************************************************)
(* All of it, step by step.                                                *)
(***************************************************************************)
Half == compact.at = "half" => offsets[Me] = None

LEMMA StepHalf ==
  ASSUME IInv, Half, [Next]_vars
  PROVE  Half'
<1>1. offsets \in [Actor -> Index \cup {None}] /\ Me \in Actor
  BY Timestamps DEF IInv, Shapes
<1>2. CASE compact.at \in Mixed
  <2>1. UNCHANGED vars \/ DropOffsets \/ DropNodes \/ CompactEnds
    BY <1>2, MixedStep
  <2> QED BY <1>1, <2>1, NoCompactIs DEF Half, vars, DropOffsets, DropNodes, CompactEnds
<1>3. CASE compact.at \notin Mixed
  <2>1. compact'.at = "half" => Rename
    BY <1>3, StageStep DEF Mixed
  <2>2. Rename => compact'.at = "renamed"
    BY DEF Rename, IInv, Shapes, Compaction
  <2> QED BY <2>1, <2>2 DEF Half
<1> QED BY <1>2, <1>3

\* As long as no compaction has been cut off in the middle.
LEMMA NotCut ==
  ASSUME IInv, [Next]_vars, "cut off" \notin excuses'
  PROVE  "cut off" \notin excuses /\ Finishes
<1>1. "cut off" \notin excuses
  BY ExcusesGrow
<1>2. Finishes
  BY DEF Finishes, CompactEnds, Mixed
<1> QED BY <1>1, <1>2

\* Nothing but such a compaction is excused as cut off.
LEMMA CutBy ==
  ASSUME [Next]_vars, "cut off" \notin excuses, ~ (CompactEnds /\ compact.at \in Mixed)
  PROVE  "cut off" \notin excuses'
<1>1. ASSUME NEW p \in Storage,
             \/ Start(p) \/ Reload(p) \/ ReadFile(p) \/ Begin(p) \/ Stop(p) \/ Crash(p)
             \/ \E r \in Storage : Replace(p, r)
             \/ \E t \in Ts : \E op \in LocalOps[t] : Ingest(p, t, op)
      PROVE  excuses' = excuses
  BY <1>1 DEF Start, Reload, Replace, ReadFile, Begin, Stop, Crash, Ingest
<1>2. ASSUME NEW p \in Storage, SaveOffsets(p) \/ SaveNodes(p) \/ SaveFails(p)
      PROVE  "cut off" \notin excuses'
  <2>1. "cut off" \notin Overtaken(p)
    BY DEF Overtaken
  <2>2. CASE SaveOffsets(p)
    <3>1. excuses' = excuses \cup Overtaken(p)
      BY <2>2 DEF SaveOffsets
    <3> QED BY <2>1, <3>1
  <2>3. CASE SaveNodes(p)
    <3>1. excuses' = excuses \cup Overtaken(p)
      BY <2>3 DEF SaveNodes
    <3> QED BY <2>1, <3>1
  <2>4. CASE SaveFails(p)
    <3>1. excuses' = excuses \cup {"failed write"}
      BY <2>4 DEF SaveFails
    <3> QED BY <3>1
  <2> QED BY <1>2, <2>2, <2>3, <2>4
<1>3. ASSUME \/ WriteLine \/ EnterOffset \/ EnterNode \/ UNCHANGED vars
             \/ Check \/ Rename \/ DropOffsets \/ DropNodes
      PROVE  excuses' = excuses
  BY <1>3 DEF WriteLine, EnterOffset, EnterNode, vars, Check, Rename,
              DropOffsets, DropNodes
<1>6. ASSUME WriteFails \/ OffsetFails \/ NodeFails
      PROVE  "cut off" \notin excuses'
  <2>1. excuses' = excuses \cup {"failed write"}
    BY <1>6 DEF WriteFails, OffsetFails, NodeFails
  <2> QED BY <2>1
<1>4. ASSUME CompactEnds PROVE "cut off" \notin excuses'
  BY <1>4 DEF CompactEnds, Mixed
<1>5. ASSUME NEW t \in Ts, Plan(t) PROVE excuses' = excuses
  BY <1>5 DEF Plan
<1>7. ASSUME excuses' = excuses PROVE "cut off" \notin excuses'
  BY <1>7
<1> QED BY <1>1, <1>2, <1>3, <1>4, <1>5, <1>6, <1>7 DEF Next

LEMMA StepBase ==
  ASSUME IInv, Steady, Remains, Led, Sane, Sane', Base, [Next]_vars,
         OneProcess => Death, Half
  PROVE  Base'
<1>1. Leads'
  BY BaseReads, StepLeads DEF Base
<1>2. Peers'
  BY StepPeers DEF Base
<1>3. \A p \in Storage : Has(p)'
  BY StepHas DEF Base
<1>4. \A p \in Storage : ~ SaveFails(p)
  BY SaneBefore
<1>5. \A p \in Storage : Saves(p)'
  BY <1>1, <1>3, <1>4, StepSaves DEF Base
<1>6. Pair'
  <2>1. CASE compact.at \in Mixed
    BY <2>1, PairAfter DEF Base, Half
  <2>2. CASE compact.at \notin Mixed
    BY <2>2, PairStays
  <2> QED BY <2>1, <2>2
<1>7. Reached'
  BY StepReached
<1> QED BY <1>1, <1>2, <1>3, <1>5, <1>6, <1>7 DEF Base

----------------------------------------------------------------------------
\* A compaction that is cut off in the middle.

\* Rewriting: a sound pair whose last entry has stayed in place is still sound.
LEMMA RewriteUsable ==
  ASSUME IInv, Steady, Both, Rename
  PROVE  Usable'
<1> DEFINE lines == file[Me]
           drops == compact.drops
           kept  == Kept(lines, drops)
<1>1. /\ compact.at = "checked" /\ UNCHANGED <<offsets, nodes>>
      /\ file' = [file EXCEPT ![Me] = Kept(@, compact.drops)]
  BY DEF Rename
<1>2. /\ lines \in Seq(Line) /\ offsets[Me] \in Index \cup {None}
      /\ nodes[Me] \in Index \cup {None} /\ drops \in SUBSET Ts /\ Me \in Actor
      /\ file \in [Actor -> Seq(Line)]
  BY Timestamps DEF IInv, Shapes, Compaction
<1>3. file'[Me] = kept
  BY <1>1, <1>2
<1>4. /\ Ascends(lines) /\ \A i \in 1..Len(lines) : lines[i] # Torn
      /\ Sound(offsets[Me], lines) /\ Sound(nodes[Me], lines)
  BY <1>1, <1>2 DEF Steady, IInv, Locked, Damaged, Both
<1>5. kept \in Seq(Line)
  BY <1>2, KeptIs
<1> HIDE DEF lines, drops
<1> SUFFICES ASSUME Fresh(kept, offsets[Me], nodes[Me])
             PROVE  Sound(offsets[Me], kept) /\ Sound(nodes[Me], kept)
  BY <1>1, <1>3 DEF Usable, Both
<1> HIDE DEF kept
<1>6. /\ offsets[Me] \in Index /\ nodes[Me] \in Index
      /\ Tip(nodes[Me]) = Tip(offsets[Me]) /\ Tip(offsets[Me]) \in 1..Len(kept)
      /\ kept[Tip(offsets[Me])] \in DOMAIN offsets[Me]
      /\ offsets[Me][kept[Tip(offsets[Me])]] = Tip(offsets[Me])
  BY <1>2, <1>5, FreshIs
<1>7. Right(offsets[Me], lines)
  BY <1>4, <1>6, SoundIsRight
<1>8. kept[Tip(offsets[Me])] = lines[Tip(offsets[Me])]
  BY <1>6, <1>7 DEF Right
<1>9. Sound(offsets[Me], kept)
  BY <1>2, <1>4, <1>6, <1>8, UnmovedIsSound DEF kept
<1>10. Sound(nodes[Me], kept)
  BY <1>2, <1>4, <1>6, <1>8, UnmovedIsSound DEF kept
<1> QED BY <1>9, <1>10

\* Rewriting makes the file shorter.
LEMMA RewriteHopeless ==
  ASSUME IInv, Steady, Remains, Rename,
         Hopeless \/ Reaches(nodes[Me], file[Me], NodesTo)
  PROVE  Hopeless'
<1> DEFINE lines == file[Me]
           drops == compact.drops
           kept  == Kept(lines, drops)
<1>1. /\ compact.at = "checked" /\ UNCHANGED <<offsets, nodes, batch>>
      /\ file' = [file EXCEPT ![Me] = Kept(@, compact.drops)]
  BY DEF Rename
<1>2. /\ lines \in Seq(Line) /\ nodes[Me] \in Index \cup {None}
      /\ drops \in SUBSET Ts /\ Me \in Actor /\ file \in [Actor -> Seq(Line)]
  BY Timestamps DEF IInv, Shapes, Compaction
<1>3. file'[Me] = kept
  BY <1>1, <1>2
<1>4. /\ Ascends(lines) /\ \A i \in 1..Len(lines) : lines[i] # Torn
      /\ batch = NoBatch
  BY <1>1, <1>2, Appending DEF Steady, IInv, Locked, Damaged
<1>5. PICK t \in drops : t \in Whole(lines)
  BY <1>1 DEF Remains, IInv, Planned, Fits
<1> HIDE DEF drops
<1>6. Len(kept) < Len(lines) /\ Len(kept) \in Nat
  BY <1>2, <1>5, KeptPlaces DEF kept
<1>7. Len(lines) \in Nat /\ lines # <<>>
  <2>1. Len(lines) \in 0..Len(lines)
    BY <1>2, LenIs
  <2>2. Whole(<<>>) = {}
    BY DEF Whole
  <2> HIDE DEF lines
  <2> QED BY <1>5, <2>1, <2>2
<1>8. CASE nodes[Me] = None
  BY <1>1, <1>8 DEF Hopeless
<1>9. CASE nodes[Me] # None /\ Tip(nodes[Me]) > Len(lines)
  <2>1. Tip(nodes[Me]) \in Nat
    BY <1>2, <1>9, TipIs
  <2> HIDE DEF lines, kept
  <2>2. Tip(nodes[Me]) > Len(kept)
    BY <1>6, <1>7, <1>9, <2>1
  <2> QED BY <1>1, <1>3, <2>2 DEF Hopeless
<1>10. CASE nodes[Me] # None /\ Good(nodes[Me], lines, Len(lines))
  <2>1. nodes[Me] \in Index
    BY <1>2, <1>10
  <2>2. Tip(nodes[Me]) \in Nat
    BY <2>1, TipIs
  <2> HIDE DEF lines, kept
  <2>3. Tip(nodes[Me]) >= Len(lines)
    BY <1>2, <1>4, <1>7, <1>10, <2>1, FullTip
  <2>4. Tip(nodes[Me]) > Len(kept)
    BY <1>6, <1>7, <2>2, <2>3
  <2> QED BY <1>1, <1>3, <2>4 DEF Hopeless
<1>11. Reaches(nodes[Me], lines, NodesTo) => Good(nodes[Me], lines, Len(lines))
  BY <1>2, <1>4, ReachesAll DEF NodesTo
<1> QED BY <1>8, <1>9, <1>10, <1>11 DEF Hopeless

LEMMA StepDeath ==
  ASSUME IInv, Steady, Remains, Base, Spare, Death, [Next]_vars
  PROVE  Death'
<1>1. compact \in Compaction /\ NoCompact.at = "idle" /\ Me \in Actor
  BY NoCompactIs, Timestamps DEF IInv, Shapes
<1>2. CASE Rename
  <2>1. /\ compact.at = "checked" /\ UNCHANGED <<offsets, nodes, faults>>
    BY <1>2 DEF Rename
  <2>2. compact.at \notin Mixed
    BY <2>1 DEF Mixed
  <2>3. Spent' = Spent
    BY <2>1 DEF Spent
  <2> SUFFICES ASSUME Spent < 2 PROVE Usable' /\ (Spent < 1 => Both' \/ Hopeless')
    BY <2>3 DEF Death
  <2>4. Both \/ Hopeless
    BY <2>2 DEF Base, Pair
  <2>5. Usable'
    BY <1>2, <2>4, NextKeeps, RewriteUsable, RewriteHopeless, HopelessNext
  <2>6. Spent < 1 => Hopeless'
    BY <1>2, <2>2, RewriteHopeless DEF Spare, Hopeless
  <2> QED BY <2>5, <2>6
<1>3. CASE compact.at \notin Mixed /\ ~ Rename
  BY <1>3, StageStep DEF Death
<1>4. CASE compact.at \in Mixed
  <2>1. UNCHANGED vars \/ DropOffsets \/ DropNodes \/ CompactEnds
    BY <1>4, MixedStep
  <2>2. CASE UNCHANGED vars
    <3>1. UNCHANGED <<file, offsets, nodes, compact>> /\ Spent' = Spent
      BY <2>2 DEF vars, Spent
    <3> QED BY <3>1 DEF Death, Usable, Both, Hopeless
  <2>3. CASE DropNodes \/ CompactEnds
    BY <1>1, <2>3 DEF DropNodes, CompactEnds, Death, Mixed
  <2>4. CASE DropOffsets
    <3>1. /\ UNCHANGED <<file, nodes, faults>> /\ offsets'[Me] = None
      BY <1>1, <2>4 DEF DropOffsets, IInv, Shapes
    <3>2. file[Me] \in Seq(Line) /\ Spent' = Spent
      BY <1>1, <3>1 DEF IInv, Shapes, Spent
    <3>3. Usable'
      BY <3>1 DEF Usable, Fresh
    <3>4. (Both \/ Hopeless) => (Both' \/ Hopeless')
      BY <3>1, <3>2, NoneIsSound DEF Both, Hopeless
    <3> QED BY <1>4, <3>2, <3>3, <3>4 DEF Death
  <2> QED BY <2>1, <2>2, <2>3, <2>4
<1> QED BY <1>2, <1>3, <1>4

LEMMA StepSpare ==
  ASSUME IInv, Steady, Base, Spare, [Next]_vars, Base', Sane'
  PROVE  Spare'
<1> DEFINE Kept1 == nodes'[Me] = None \/ Reaches(nodes'[Me], file'[Me], NodesTo')
<1> SUFFICES ASSUME Spent' < 1, compact'.at \notin Mixed
             PROVE  Kept1
  BY DEF Spare
<1>1. /\ compact \in Compaction /\ Me \in Actor /\ file \in [Actor -> Seq(Line)]
      /\ nodes \in [Actor -> Index \cup {None}] /\ store \in [Storage -> Slot]
  BY Timestamps DEF IInv, Shapes
<1>2. faults' = faults /\ ~ Fault
  <2>1. Spent \in Nat /\ (faults' = faults \/ Spent' = Spent + 1)
    BY ExcusesGrow, FaultsIs
  <2>2. faults' = faults
    BY <2>1
  <2>3. faults \in Nat
    BY FaultsIs
  <2> QED BY <2>2, <2>3 DEF Fault
<1>3. Spent < 1
  BY <1>2 DEF Spent
<1>4. ASSUME NEW p \in Storage, p = writer', store'[p].at = "up" PROVE Kept1
  <2>1. Steady'
    BY StepSteady
  <2>2. store'[p].todo = {}
    BY <1>4, <2>1 DEF Steady, Runs
  <2>3. NodesDone(p)'
    BY <1>4, <2>2 DEF NodesDone, OffsetsDone
  <2> QED BY <1>4, <2>3 DEF Base, Reached, Done
<1>5. ASSUME compact.at \notin Mixed, UNCHANGED <<nodes[Me], file[Me], batch>> PROVE Kept1
  <2>1. NodesTo' = NodesTo
    BY <1>5 DEF NodesTo
  <2> QED BY <1>3, <1>5, <2>1 DEF Spare
<1>6. CASE compact.at \in Mixed
  <2>1. DropNodes \/ UNCHANGED vars
    BY <1>1, <1>2, <1>6, MixedStep DEF DropOffsets, CompactEnds, Mixed, Compaction
  <2>2. ~ UNCHANGED vars
    BY <1>6 DEF vars
  <2> QED BY <1>1, <2>1, <2>2 DEF DropNodes
<1>7. CASE compact.at \notin Mixed
  <2>1. ASSUME NEW p \in Storage,
               \/ Start(p) \/ Reload(p) \/ \E r \in Storage : Replace(p, r)
               \/ ReadFile(p) \/ SaveOffsets(p) \/ Stop(p)
        PROVE  UNCHANGED <<nodes, file, batch>>
    BY <2>1 DEF Start, Reload, Replace, ReadFile, SaveOffsets, Stop
  <2>2. ASSUME NEW p \in Storage, SaveNodes(p) PROVE Kept1
    <3>1. /\ UNCHANGED <<file, batch>>
          /\ nodes' = [nodes EXCEPT ![store[p].actor] = Saved(store[p].nodes[store[p].actor])]
      BY <2>2 DEF SaveNodes
    <3>2. CASE store[p].actor # Me
      BY <1>1, <1>5, <1>7, <3>1, <3>2
    <3>3. CASE store[p].actor = Me
      <4>1. Good(nodes'[Me], file[Me], Len(file[Me]))
        <5>1. "overtaken" \notin excuses'
          BY DEF Sane
        <5>2. Good(Saved(store[p].nodes[Me]), file[Me], Len(file[Me]))
          BY <2>2, <3>3, <5>1, MeSaved DEF Base
        <5> QED BY <1>1, <3>1, <3>3, <5>2
      <4>2. NodesTo' = NodesTo /\ file'[Me] = file[Me]
        BY <3>1 DEF NodesTo
      <4>3. Reaches(nodes'[Me], file[Me], NodesTo)
        BY <1>1, <4>1, ToIs, GoodReaches
      <4> QED BY <4>2, <4>3
    <3> QED BY <3>2, <3>3
  <2>3. ASSUME NEW p \in Storage, Begin(p) PROVE Kept1
    BY <1>4, <2>3 DEF Begin
  <2>4. ASSUME NEW p \in Storage, NEW t \in Ts, NEW op \in LocalOps[t], Ingest(p, t, op)
        PROVE  Kept1
    <3>1. /\ Author[t] # Me /\ UNCHANGED <<nodes, batch>>
          /\ file' = [file EXCEPT ![Author[t]] = Put(@, loose[Author[t]], t)]
      BY <2>4 DEF Ingest
    <3>2. file'[Me] = file[Me]
      BY <1>1, <3>1
    <3> QED BY <1>5, <1>7, <3>1, <3>2
  <2>5. ASSUME WriteLine \/ EnterOffset \/ EnterNode PROVE Kept1
    <3>1. (batch.todo # <<>> \/ batch.entries # <<>>) /\ writer' = writer
      BY <2>5 DEF WriteLine, EnterOffset, EnterNode
    <3>2. PICK p \in Storage : p = writer /\ store[p].at = "up"
      BY <3>1, NoBatchIs, Appending
    <3>3. CASE WriteLine \/ EnterNode
      BY <1>4, <3>1, <3>2, <3>3 DEF WriteLine, EnterNode
    <3>4. CASE EnterOffset
      <4>1. /\ store' = Remembered(Head(batch.entries), batch.from + 1)
            /\ batch.entries # <<>>
        BY <3>4 DEF EnterOffset
      <4>2. Head(batch.entries) \in Ts /\ batch.from + 1 \in Nat \ {0}
        BY <4>1, NoBatchIs, Appending, SmallerTail
      <4>3. store'[p].at = store[p].at
        BY <3>2, <4>1, <4>2, RememberedIs
      <4> QED BY <1>4, <3>1, <3>2, <4>3
    <3> QED BY <2>5, <3>3, <3>4
  <2>6. ASSUME NEW t \in Ts, Plan(t) PROVE UNCHANGED <<nodes, file, batch>>
    BY <2>6 DEF Plan
  <2>7. ASSUME Check \/ CompactEnds \/ UNCHANGED vars PROVE UNCHANGED <<nodes, file, batch>>
    BY <2>7 DEF Check, CompactEnds, vars
  <2>8. ~ Rename /\ ~ DropOffsets /\ ~ DropNodes
    BY <1>1, <1>7 DEF Rename, DropOffsets, DropNodes, Mixed, Compaction
  <2>9. \A p \in Storage : ~ Crash(p)
    BY <1>2 DEF Crash
  <2>10. /\ \A p \in Storage : ~ SaveFails(p)
         /\ ~ WriteFails /\ ~ OffsetFails /\ ~ NodeFails
    BY SaneBefore
  <2>11. ASSUME UNCHANGED <<nodes, file, batch>> PROVE Kept1
    BY <1>5, <1>7, <2>11
  <2> HIDE DEF Kept1
  <2> QED BY <2>1, <2>2, <2>3, <2>4, <2>5, <2>6, <2>7, <2>8, <2>9, <2>10, <2>11 DEF Next
<1> QED BY <1>6, <1>7

----------------------------------------------------------------------------
(***************************************************************************)
(* Whoever has the files open: the sidecars lead to the lines of their     *)
(* files as long as no compaction was cut off in the middle, and are of    *)
(* use as long as nothing has happened that an index suffers from.         *)
(***************************************************************************)
Safe ==
  /\ Led /\ Half
  /\ "cut off" \notin excuses => Leads /\ Sidecars
  /\ Sane => Base /\ (OneProcess => Death /\ Spare)

FilesInv == IInv /\ Steady /\ Remains /\ Safe

LEMMA InitSafe ==
  Init => Safe
<1> SUFFICES ASSUME Init PROVE Safe
  OBVIOUS
<1>1. /\ store = [p \in Storage |-> Down] /\ compact = NoCompact /\ NoCompact.at = "idle"
      /\ offsets = [a \in Actor |-> None] /\ nodes = [a \in Actor |-> None]
      /\ Me \in Actor /\ writer = None /\ None \notin Storage
  BY Timestamps, NoCompactIs, FilesConstants DEF Init
<1>2. IInv /\ Leads /\ Sidecars
  BY InitHolds, InitLeads
<1>3. \A a \in Actor : file[a] \in Seq(Line) /\ Sound(None, file[a])
  BY <1>2, NoneIsSound DEF IInv, Shapes
<1>4. Peers /\ Both
  BY <1>1, <1>3 DEF Peers, Both
<1>5. Pair
  BY <1>4 DEF Pair
<1>6. \A p \in Storage : Has(p) /\ Saves(p)
  BY <1>1 DEF Down, Has, Saves
<1>7. Reached
  BY <1>1 DEF Reached
<1>8. Spare
  BY <1>1 DEF Spare
<1>9. Death
  BY <1>1 DEF Death, Mixed
<1>10. Led /\ Half
  BY <1>1 DEF Down, Led, Half
<1> QED BY <1>2, <1>4, <1>5, <1>6, <1>7, <1>8, <1>9, <1>10 DEF Base, Safe

LEMMA StepSafe ==
  ASSUME FilesInv, [Next]_vars
  PROVE  Safe'
<1> USE DEF FilesInv
<1>1. Led' /\ Half'
  BY StepLed, StepHalf DEF Safe
<1>2. ASSUME "cut off" \notin excuses' PROVE Leads' /\ Sidecars'
  BY <1>2, NotCut, StepSidecars, StepLeads DEF Safe
<1>3. ASSUME Sane' PROVE Base' /\ (OneProcess' => Death' /\ Spare')
  <2>1. Sane /\ Base /\ (OneProcess => Death /\ Spare)
    BY <1>3, SaneBefore DEF Safe
  <2>2. Base'
    BY <1>3, <2>1, StepBase DEF Safe
  <2>3. OneProcess' <=> OneProcess
    BY DEF OneProcess
  <2> QED BY <1>3, <2>1, <2>2, <2>3, StepDeath, StepSpare
<1> QED BY <1>1, <1>2, <1>3 DEF Safe

LEMMA FilesInvHolds ==
  /\ Init => FilesInv
  /\ FilesInv /\ [Next]_vars => FilesInv'
<1>1. Init => FilesInv
  BY InitHolds, InitSteady, InitRemains, InitSafe DEF FilesInv
<1>2. ASSUME FilesInv, [Next]_vars PROVE FilesInv'
  <2>1. IInv' /\ Steady' /\ Remains'
    BY <1>2, NextKeeps, StepSteady, StepRemains DEF FilesInv
  <2> QED BY <1>2, <2>1, StepSafe DEF FilesInv
<1> QED BY <1>1, <1>2

(***************************************************************************)
(* What any storage has read of the log is in its indexes, whatever        *)
(* processes and reloads have the files open at the same time and however  *)
(* often they are killed, until a sidecar of the own file is saved over    *)
(* with one that lacks what was appended meanwhile, and as long as no      *)
(* compaction is cut off between the rewriting of the file and the removal *)
(* of its sidecars (storage/jsonl/read.rs: fresh_offset_index,             *)
(* try_fresh_actor_indexes).                                               *)
(***************************************************************************)
THEOREM IndexesStayWhole ==
  Spec /\ [][Finishes]_vars => []IndexIsWhole
<1> DEFINE Inv == FilesInv /\ "cut off" \notin excuses
<1>1. Init => Inv
  BY FilesInvHolds DEF Init
<1>2. Inv /\ [Next]_vars /\ [Finishes]_vars => Inv'
  <2> SUFFICES ASSUME Inv, [Next]_vars, [Finishes]_vars PROVE Inv'
    OBVIOUS
  <2>1. FilesInv'
    BY FilesInvHolds
  <2>2. "cut off" \notin excuses'
    <3>1. CASE Finishes
      BY <3>1, CutBy DEF Finishes
    <3>2. CASE UNCHANGED vars
      BY <3>2 DEF vars
    <3> QED BY <3>1, <3>2
  <2> QED BY <2>1, <2>2
<1>3. Inv => IndexIsWhole
  BY DEF FilesInv, Safe, Sane, Base, Has, IndexIsWhole, Misled, Reads
<1> HIDE DEF Inv
<1> QED BY <1>1, <1>2, <1>3, PTL DEF Spec

(***************************************************************************)
(* With one process, whatever its reloads save, a compaction may be cut    *)
(* off anywhere as long as that was one of two faults: after the rewriting *)
(* either the sidecars that are left are too long for the file to be taken *)
(* as fresh, or their last entry has kept its place and with it all the    *)
(* others (storage/compact/rewrite.rs).  A third fault, or a sidecar that  *)
(* was overtaken, can make a renumbered pair look fresh: Misled.           *)
(***************************************************************************)
THEOREM TwoFaultsMisleadNobody ==
  ASSUME OneProcess
  PROVE  Spec => [](IndexIsWhole /\ OffsetsTrue)
<1>1. Init => FilesInv
  BY FilesInvHolds
<1>2. FilesInv /\ [Next]_vars => FilesInv'
  BY FilesInvHolds
<1>3. FilesInv => IndexIsWhole /\ OffsetsTrue
  <2> SUFFICES ASSUME FilesInv PROVE IndexIsWhole /\ OffsetsTrue
    OBVIOUS
  <2>1. Safe /\ faults \in Nat /\ MaxFaults \in Nat
    BY FaultsIs DEF FilesInv
  <2>2. ~ (MaxFaults - faults > 2) => Spent <= 2
    BY <2>1 DEF Spent
  <2>3. ~ Misled /\ "overtaken" \notin excuses => Base
    BY <2>1, <2>2 DEF Misled, Safe, Sane
  <2>4. IndexIsWhole
    BY <2>3 DEF IndexIsWhole, Base, Has, Reads
  <2>5. ~ Misled => Leads
    BY <2>1, <2>3 DEF Misled, Safe, Base
  <2>6. OffsetsTrue
    BY <2>5 DEF OffsetsTrue, Leads, Right
  <2> QED BY <2>4, <2>6
<1> QED BY <1>1, <1>2, <1>3, PTL DEF Spec
=============================================================================

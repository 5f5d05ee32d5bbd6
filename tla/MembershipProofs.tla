-------------------------- MODULE MembershipProofs --------------------------
(***************************************************************************)
(* Theorems about Membership, for any finite set of devices, any pairs of  *)
(* them that users pair, and any number of identities and of user actions. *)
(***************************************************************************)
EXTENDS Membership, FiniteSetTheorems, TLAPS

(***************************************************************************)
(* The inductive invariant.  Shapes types what a pairing, a connection and *)
(* a broadcast carry along.  Marked ties the histories to the file:        *)
(* whoever was removed has a tombstone.  Known says that no identity is    *)
(* about that was not made, so that a rotation's is new to everybody.      *)
(* Barred is what a rotation achieves: those it locks out have the new     *)
(* identity neither in their file nor in their process.                    *)
(***************************************************************************)
HostState ==
  [step : {"none"}] \cup [step : {"armed"}, id : Id]
  \cup [step : {"add"}, peer : Device, addr : Addr]

JoinState ==
  [step : {"none"}]
  \cup [step : {"adopt"}, peer : Device, addr : Addr, id : Id, same : BOOLEAN]
  \cup [step : {"add"}, peer : Device, addr : Addr]

Shapes ==
  /\ host \in [Device -> HostState] /\ join \in [Device -> JoinState]
  /\ inbound \in [Device -> (Device \X Addr) \cup {None}]
  /\ mail = None \/ mail \in [id : 0..MaxIds,
                              list : [Device -> Addr \cup {None}],
                              to : SUBSET Device]
  /\ \A d \in Device :
       /\ host[d].step = "add" => host[d].peer # d
       /\ join[d].step # "none" => join[d].peer # d
       /\ signal[d] => live[d] # None
       /\ host[d].step = "armed" /\ d \notin Console => live[d] # None

Histories ==
  /\ dropped \in [Device -> SUBSET Device] /\ kept \in [Device -> SUBSET Device]
  /\ out \in [Device -> SUBSET Device]

Marked == \A d \in Device : dropped[d] \subseteq revoked[d]
                            /\ revoked[d] \cap Listed(d) = {}

Known == \A d \in Device :
  /\ id[d] <= made /\ (live[d] # None => live[d] <= made)
  /\ host[d].step = "armed" => host[d].id <= made
  /\ join[d].step = "adopt" => join[d].id <= made

Barred == \A d \in Device : \A p \in out[d] :
  p # d /\ id[p] # id[d] /\ live[p] # id[d]

IInv ==
  TypeOK /\ Shapes /\ Histories /\ Marked /\ PairingKept /\ Known /\ Barred

----------------------------------------------------------------------------
(***************************************************************************)
(* At first nobody was removed or locked out, and the identities that are  *)
(* about are as many as are made.                                          *)
(***************************************************************************)
LEMMA ApartFit ==
  ASSUME NEW own \in [Device -> Id],
         \A d, e \in Apart : d # e => own[d] # own[e],
         \A d \in Apart : own[d] # 1
  PROVE  Cardinality(Apart) + 1 \in Id
<1> DEFINE f == [d \in Apart |-> own[d]]
<1>1. Apart \subseteq Device /\ IsFiniteSet(Apart)
  BY MembershipConstants, FS_Subset DEF Apart
<1>2. MaxIds \in Nat \ {0} /\ IsFiniteSet(2..MaxIds)
      /\ Cardinality(2..MaxIds) = IF 2 > MaxIds THEN 0 ELSE MaxIds - 2 + 1
  <2>1. 2 \in Int /\ MaxIds \in Int /\ MaxIds \in Nat \ {0}
    BY MembershipConstants
  <2> QED BY <2>1, FS_Interval
<1>3. f \in Injection(Apart, 2..MaxIds)
  <2>1. \A d \in Apart : own[d] \in 2..MaxIds
    BY <1>1, <1>2 DEF Id
  <2> QED BY <2>1 DEF Injection, IsInjective
<1>4. Cardinality(Apart) <= Cardinality(2..MaxIds)
  BY <1>2, <1>3, FS_Injection
<1>5. Cardinality(Apart) \in Nat
  BY <1>1, FS_CardinalityType
<1> QED BY <1>2, <1>4, <1>5 DEF Id

LEMMA InitIInv == Init => IInv
<1> SUFFICES ASSUME Init PROVE IInv
  OBVIOUS
<1>1. PICK own \in [Device -> Id] :
        /\ \A d \in Device : own[d] = 1 <=> d \notin Apart
        /\ \A d, e \in Apart : d # e => own[d] # own[e]
        /\ id = own
        /\ made = Cardinality(Apart) + 1
        /\ \A d \in Device : own[d] <= made
  BY DEF Init
<1>2. /\ id \in [Device -> Id] /\ live = id /\ made \in Id
      /\ \A d \in Device : id[d] <= made
  <2>1. \A d \in Apart : own[d] # 1
    BY <1>1 DEF Apart
  <2> QED BY <1>1, <2>1, ApartFit DEF Init
<1>3. /\ \A d \in Device : d \notin Listed(d) /\ kept[d] = Listed(d)
      /\ peers \in [Device -> [Device -> Addr \cup {None}]]
      /\ \A d \in Device : id[d] # None
  BY <1>2, MembershipConstants DEF Init, Listed, Pairs, Addr, Id
<1>4. TypeOK
  <2>1. topic \in [Device -> [id : 0..MaxIds, seeds : SUBSET Device]]
    BY <1>2, MembershipConstants DEF Init, Id, Listed
  <2>2. rotation \in [Device -> [step : {"none", "listing", "removing"},
                                 doomed : SUBSET Device]]
    BY DEF Init, NotRotating
  <2> QED BY <1>2, <1>3, <2>1, <2>2 DEF Init, TypeOK, Addr
<1>5. Shapes
  BY <1>2, <1>3 DEF Init, Shapes, HostState, JoinState, NotHosting, NotJoining
<1>6. Histories
  BY <1>3 DEF Init, Histories, Listed
<1>7. Marked /\ PairingKept
  BY <1>3 DEF Init, Marked, PairingKept
<1>8. Known
  BY <1>2 DEF Init, Known, NotHosting, NotJoining
<1>9. Barred
  BY DEF Init, Barred
<1> QED BY <1>4, <1>5, <1>6, <1>7, <1>8, <1>9 DEF IInv

----------------------------------------------------------------------------
(***************************************************************************)
(* The writers of peers.json.  What each leaves of the file and of the     *)
(* histories does not depend on what made the step.                        *)
(***************************************************************************)
\* The part of the invariant that speaks of the file alone.
FileOK ==
  /\ peers \in [Device -> [Device -> Addr \cup {None}]]
  /\ revoked \in [Device -> SUBSET Device]
  /\ dropped \in [Device -> SUBSET Device] /\ kept \in [Device -> SUBSET Device]
  /\ \A d \in Device : d \notin Listed(d)
  /\ Marked /\ PairingKept

LEMMA FileUntouched ==
  ASSUME FileOK, UNCHANGED <<peers, revoked, dropped, kept>>
  PROVE  FileOK'
BY DEF FileOK, Marked, PairingKept, Listed

LEMMA AddKeeps ==
  ASSUME FileOK, NEW d \in Device, NEW p \in Device \ {d}, NEW a \in Addr,
         Add(d, p, a)
  PROVE  FileOK'
<1>1. a # None
  BY MembershipConstants DEF Addr
<1>2. /\ peers' \in [Device -> [Device -> Addr \cup {None}]]
      /\ revoked' \in [Device -> SUBSET Device]
      /\ dropped' \in [Device -> SUBSET Device]
      /\ kept' \in [Device -> SUBSET Device]
  BY DEF FileOK, Add
<1>3. ASSUME NEW e \in Device
      PROVE  Listed(e)' = IF e = d THEN Listed(e) \cup {p} ELSE Listed(e)
  BY <1>1 DEF FileOK, Add, Listed
<1>4. ASSUME NEW e \in Device
      PROVE  /\ revoked[e]' = IF e = d THEN revoked[e] \ {p} ELSE revoked[e]
             /\ dropped[e]' = IF e = d THEN dropped[e] \ {p} ELSE dropped[e]
             /\ kept[e]' = IF e = d THEN kept[e] \cup {p} ELSE kept[e]
  BY DEF FileOK, Add
<1>5. \A e \in Device : e \notin Listed(e)'
  BY <1>3 DEF FileOK
<1>6. Marked'
  BY <1>3, <1>4 DEF FileOK, Marked
<1>7. ASSUME NEW e \in Device PROVE kept'[e] \subseteq Listed(e)'
  <2>1. kept[e] \subseteq Listed(e)
    BY DEF FileOK, PairingKept
  <2> QED BY <2>1, <1>3, <1>4
<1>8. PairingKept'
  BY <1>7 DEF PairingKept
<1> QED BY <1>2, <1>5, <1>6, <1>8 DEF FileOK

LEMMA DropKeeps ==
  ASSUME FileOK, NEW d \in Device, NEW p \in Device, Drop(d, p)
  PROVE  FileOK'
<1>1. /\ peers' \in [Device -> [Device -> Addr \cup {None}]]
      /\ revoked' \in [Device -> SUBSET Device]
      /\ dropped' \in [Device -> SUBSET Device]
      /\ kept' \in [Device -> SUBSET Device]
  BY DEF FileOK, Drop
<1>2. ASSUME NEW e \in Device
      PROVE  Listed(e)' = IF e = d THEN Listed(e) \ {p} ELSE Listed(e)
  BY DEF FileOK, Drop, Listed
<1>3. ASSUME NEW e \in Device
      PROVE  /\ revoked[e]' = IF e = d /\ p \in Listed(d)
                              THEN revoked[e] \cup {p} ELSE revoked[e]
             /\ dropped[e]' = IF e = d /\ p \in Listed(d)
                              THEN dropped[e] \cup {p} ELSE dropped[e]
             /\ kept[e]' = IF e = d THEN kept[e] \ {p} ELSE kept[e]
  BY DEF FileOK, Drop
<1>4. \A e \in Device : e \notin Listed(e)'
  BY <1>2 DEF FileOK
<1>5. Marked'
  BY <1>2, <1>3 DEF FileOK, Marked
<1>6. ASSUME NEW e \in Device PROVE kept'[e] \subseteq Listed(e)'
  <2>1. kept[e] \subseteq Listed(e)
    BY DEF FileOK, PairingKept
  <2> QED BY <2>1, <1>2, <1>3
<1>7. PairingKept'
  BY <1>6 DEF PairingKept
<1> QED BY <1>1, <1>4, <1>5, <1>7 DEF FileOK

\* A gossiped list adds whom the device neither lists nor removed.
LEMMA MergeKeeps ==
  ASSUME FileOK, NEW d \in Device, NEW list \in [Device -> Addr \cup {None}],
         peers' = [peers EXCEPT ![d] = Merged(d, list)],
         UNCHANGED <<revoked, dropped, kept>>
  PROVE  FileOK'
<1>1. peers' \in [Device -> [Device -> Addr \cup {None}]]
  BY DEF FileOK, Merged
<1>2. ASSUME NEW e \in Device
      PROVE  /\ Listed(e) \subseteq Listed(e)'
             /\ Listed(e)' \cap revoked[e] \subseteq Listed(e)
             /\ e \notin Listed(e)'
  BY DEF FileOK, Merged, Listed
<1> QED BY <1>1, <1>2 DEF FileOK, Marked, PairingKept

LEMMA RefreshKeeps ==
  ASSUME FileOK, NEW d \in Device, NEW p \in Device, NEW a \in Addr,
         peers' = [peers EXCEPT ![d][p] = IF @ = None THEN None ELSE a],
         UNCHANGED <<revoked, dropped, kept>>
  PROVE  FileOK'
<1>1. a # None
  BY MembershipConstants DEF Addr
<1>2. peers' \in [Device -> [Device -> Addr \cup {None}]]
  BY DEF FileOK
<1>3. ASSUME NEW e \in Device PROVE Listed(e)' = Listed(e)
  BY <1>1 DEF FileOK, Listed
<1> QED BY <1>2, <1>3 DEF FileOK, Marked, PairingKept

----------------------------------------------------------------------------
(***************************************************************************)
(* The rest of the invariant: what the processes, the pairings and the     *)
(* messages hold.                                                          *)
(***************************************************************************)
RestOK ==
  /\ id \in [Device -> Id] /\ made \in Id
  /\ live \in [Device -> Id \cup {None}]
  /\ topic \in [Device -> [id : 0..MaxIds, seeds : SUBSET Device]]
  /\ signal \in [Device -> BOOLEAN]
  /\ rotation \in [Device -> [step : {"none", "listing", "removing"},
                              doomed : SUBSET Device]]
  /\ where \in [Device -> Addr]
  /\ out \in [Device -> SUBSET Device]
  /\ Shapes /\ Known /\ Barred

LEMMA Parts == IInv <=> FileOK /\ RestOK
BY DEF IInv, FileOK, RestOK, TypeOK, Histories

LEMMA PartsNext == IInv' <=> FileOK' /\ RestOK'
BY DEF IInv, FileOK, RestOK, TypeOK, Histories

LEMMA IdFacts ==
  /\ Id \subseteq Nat /\ None \notin Id /\ None \notin Addr
  /\ MaxIds \in Nat /\ Id \subseteq 0..MaxIds
BY MembershipConstants DEF Id, Addr

----------------------------------------------------------------------------
(***************************************************************************)
(* Every step keeps it.                                                    *)
(***************************************************************************)
\* A step that makes no identity and gives none to anybody bars who was barred.
LEMMA BarredUntouched ==
  ASSUME Barred, UNCHANGED <<id, live, out>>
  PROVE  Barred'
BY DEF Barred

LEMMA StartKeeps ==
  ASSUME IInv, NEW d \in Device, Start(d)
  PROVE  IInv'
<1> USE Parts, IdFacts
<1>1. FileOK'
  BY FileUntouched DEF Start, files, ghosts
<1>2. /\ id' = id /\ made' = made /\ topic' = topic /\ rotation' = rotation
      /\ where' = where /\ out' = out /\ host' = host /\ join' = join
      /\ inbound' = inbound /\ mail' = mail
      /\ live' = [live EXCEPT ![d] = id[d]]
      /\ signal' = [signal EXCEPT ![d] = TRUE]
  BY DEF Start, files, pairing, ghosts
<1>3. Shapes'
  BY <1>2 DEF RestOK, Shapes
<1>4. Known'
  BY <1>2 DEF RestOK, Known
<1>5. Barred'
  BY <1>2 DEF RestOK, Barred
<1>6. RestOK'
  BY <1>2, <1>3, <1>4, <1>5 DEF RestOK
<1> QED BY <1>1, <1>6, PartsNext

LEMMA SubscribeKeeps ==
  ASSUME IInv, NEW d \in Device, Subscribe(d)
  PROVE  IInv'
<1> USE Parts, IdFacts
<1>1. FileOK'
  BY FileUntouched DEF Subscribe, files, ghosts
<1>2. /\ id' = id /\ made' = made /\ live' = live /\ rotation' = rotation
      /\ where' = where /\ out' = out /\ host' = host /\ join' = join
      /\ inbound' = inbound /\ mail' = mail
      /\ topic' = [topic EXCEPT ![d] = [id |-> live[d], seeds |-> Listed(d)]]
      /\ signal' = [signal EXCEPT ![d] = FALSE] /\ signal[d]
  BY DEF Subscribe, files, pairing, ghosts
<1>3. live[d] \in 0..MaxIds /\ Listed(d) \subseteq Device
  BY <1>2 DEF RestOK, Shapes, Listed
<1>4. Shapes'
  BY <1>2 DEF RestOK, Shapes
<1>5. Known' /\ Barred'
  BY <1>2, BarredUntouched DEF RestOK, Known
<1>6. RestOK'
  BY <1>2, <1>3, <1>4, <1>5 DEF RestOK
<1> QED BY <1>1, <1>6, PartsNext

LEMMA StopKeeps ==
  ASSUME IInv, NEW d \in Device, Stop(d)
  PROVE  IInv'
<1> USE Parts, IdFacts
<1>1. FileOK'
  BY FileUntouched DEF Stop, files, ghosts
<1>2. /\ id' = id /\ made' = made /\ rotation' = rotation
      /\ where' = where /\ out' = out /\ mail' = mail
      /\ live' = [live EXCEPT ![d] = None]
      /\ topic' = [topic EXCEPT ![d] = NoTopic]
      /\ signal' = [signal EXCEPT ![d] = FALSE]
      /\ inbound' = [inbound EXCEPT ![d] = None]
      /\ host' = [host EXCEPT ![d] = IF d \in Console THEN @ ELSE NotHosting]
      /\ join' = [join EXCEPT ![d] = IF d \in Console THEN @ ELSE NotJoining]
  BY DEF Stop, files, ghosts
<1>3. host' \in [Device -> HostState] /\ join' \in [Device -> JoinState]
  BY <1>2 DEF RestOK, Shapes, HostState, JoinState, NotHosting, NotJoining
<1>4. Shapes'
  BY <1>2, <1>3 DEF RestOK, Shapes, NotHosting, NotJoining
<1>5. Known'
  BY <1>2 DEF RestOK, Shapes, Known, NotHosting, NotJoining
<1>6. Barred'
  BY <1>2 DEF RestOK, Barred
<1>7. topic' \in [Device -> [id : 0..MaxIds, seeds : SUBSET Device]]
  BY <1>2 DEF RestOK, NoTopic
<1>8. RestOK'
  BY <1>2, <1>4, <1>5, <1>6, <1>7 DEF RestOK
<1> QED BY <1>1, <1>8, PartsNext

\* Nothing changes but what the pairings hold.
LEMMA PairingStep ==
  ASSUME IInv,
         UNCHANGED <<id, live, topic, signal, rotation, inbound, mail, where,
                     made, out>>,
         host' \in [Device -> HostState], join' \in [Device -> JoinState],
         \A d \in Device :
           /\ host'[d].step = "add" => host'[d].peer # d
           /\ join'[d].step # "none" => join'[d].peer # d
           /\ host'[d].step = "armed" =>
                host'[d].id <= made /\ (d \notin Console => live[d] # None)
           /\ join'[d].step = "adopt" => join'[d].id <= made
  PROVE  RestOK'
<1> USE Parts
<1>1. Shapes'
  BY DEF RestOK, Shapes
<1>2. Known'
  BY DEF RestOK, Known
<1>3. Barred'
  BY BarredUntouched DEF RestOK
<1> QED BY <1>1, <1>2, <1>3 DEF RestOK

LEMMA ArmKeeps ==
  ASSUME IInv, NEW h \in Device, Arm(h)
  PROVE  IInv'
<1> USE Parts, IdFacts
<1>1. FileOK'
  BY FileUntouched DEF Arm, files, ghosts
<1>2. /\ host' = [host EXCEPT ![h] = [step |-> "armed", id |-> id[h]]]
      /\ join' = join /\ (h \notin Console => live[h] # None)
  BY DEF Arm, CanPair
<1>3. host' \in [Device -> HostState] /\ join' \in [Device -> JoinState]
  BY <1>2 DEF RestOK, Shapes, HostState
<1>4. RestOK'
  BY <1>2, <1>3, PairingStep
     DEF Arm, RestOK, Shapes, Known, files, process, ghosts
<1> QED BY <1>1, <1>4, PartsNext

LEMMA HandshakeKeeps ==
  ASSUME IInv, NEW h \in Device, NEW j \in Device, Handshake(h, j)
  PROVE  IInv'
<1> USE Parts, IdFacts
<1> DEFINE w == IF h \in Console THEN host[h].id ELSE live[h]
<1>1. FileOK'
  BY FileUntouched DEF Handshake, files, ghosts
<1>2. /\ host[h].step = "armed" /\ h # j
      /\ host' = [host EXCEPT ![h] = [step |-> "add", peer |-> j,
                                      addr |-> where[j]]]
      /\ join' = [join EXCEPT ![j] =
                    [step |-> "adopt", peer |-> h, addr |-> where[h],
                     id |-> w, same |-> w = id[j]]]
  BY MembershipConstants DEF Handshake, Pairs
<1>3. host[h].id \in Id /\ host[h].id <= made
  BY <1>2 DEF RestOK, Shapes, HostState, Known
<1>4. w \in Id /\ w <= made
  BY <1>2, <1>3 DEF RestOK, Shapes, Known
<1>5. host' \in [Device -> HostState] /\ join' \in [Device -> JoinState]
  BY <1>2, <1>4 DEF RestOK, Shapes, HostState, JoinState
<1>6. RestOK'
  BY <1>2, <1>4, <1>5, PairingStep
     DEF Handshake, RestOK, Shapes, Known, files, process, ghosts
<1> QED BY <1>1, <1>6, PartsNext

LEMMA HostAddsKeeps ==
  ASSUME IInv, NEW h \in Device, HostAdds(h)
  PROVE  IInv'
<1> USE Parts, IdFacts
<1>1. host[h].peer \in Device \ {h} /\ host[h].addr \in Addr
  BY DEF HostAdds, RestOK, Shapes, HostState
<1>2. FileOK'
  BY <1>1, AddKeeps DEF HostAdds
<1>3. host' = [host EXCEPT ![h] = NotHosting] /\ join' = join
  BY DEF HostAdds
<1>4. host' \in [Device -> HostState] /\ join' \in [Device -> JoinState]
  BY <1>3 DEF RestOK, Shapes, HostState, NotHosting
<1>5. RestOK'
  BY <1>3, <1>4, PairingStep
     DEF HostAdds, RestOK, Shapes, Known, NotHosting, process
<1> QED BY <1>2, <1>5, PartsNext

LEMMA JoinerAddsKeeps ==
  ASSUME IInv, NEW j \in Device, JoinerAdds(j)
  PROVE  IInv'
<1> USE Parts, IdFacts
<1>1. join[j].peer \in Device \ {j} /\ join[j].addr \in Addr
  BY DEF JoinerAdds, RestOK, Shapes, JoinState
<1>2. FileOK'
  BY <1>1, AddKeeps DEF JoinerAdds
<1>3. join' = [join EXCEPT ![j] = NotJoining] /\ host' = host
  BY DEF JoinerAdds
<1>4. host' \in [Device -> HostState] /\ join' \in [Device -> JoinState]
  BY <1>3 DEF RestOK, Shapes, JoinState, NotJoining
<1>5. RestOK'
  BY <1>3, <1>4, PairingStep
     DEF JoinerAdds, RestOK, Shapes, Known, NotJoining, process
<1> QED BY <1>2, <1>5, PartsNext

LEMMA AbandonKeeps ==
  ASSUME IInv, NEW d \in Device, Abandon(d)
  PROVE  IInv'
<1> USE Parts, IdFacts
<1>1. FileOK'
  BY FileUntouched DEF Abandon, files, ghosts
<1>2. \/ host' = [host EXCEPT ![d] = NotHosting] /\ join' = join
      \/ join' = [join EXCEPT ![d] = NotJoining] /\ host' = host
  BY DEF Abandon
<1>3. NotHosting \in HostState /\ NotJoining \in JoinState
  BY DEF HostState, JoinState, NotHosting, NotJoining
<1>4. host' \in [Device -> HostState] /\ join' \in [Device -> JoinState]
  <2>1. host \in [Device -> HostState] /\ join \in [Device -> JoinState]
    BY DEF RestOK, Shapes
  <2>2. CASE host' = host
    BY <1>2, <1>3, <2>1, <2>2
  <2>3. CASE host' # host
    BY <1>2, <1>3, <2>1, <2>3
  <2> QED BY <2>2, <2>3
<1>5. UNCHANGED <<id, live, topic, signal, rotation, inbound, mail, where,
                  made, out>>
  BY DEF Abandon, files, process, ghosts
<1>6. \A e \in Device : /\ host'[e] = host[e] \/ host'[e].step = "none"
                        /\ join'[e] = join[e] \/ join'[e].step = "none"
  BY <1>2 DEF RestOK, Shapes, NotHosting, NotJoining
<1>7. RestOK'
  BY <1>4, <1>5, <1>6, PairingStep DEF RestOK, Shapes, Known
<1> QED BY <1>1, <1>7, PartsNext

LEMMA AdoptFailsKeeps ==
  ASSUME IInv, NEW j \in Device, AdoptFails(j)
  PROVE  IInv'
<1> USE Parts, IdFacts
<1>1. FileOK'
  BY FileUntouched DEF AdoptFails, files, ghosts
<1>2. /\ host' = host
      /\ \/ join' = [join EXCEPT ![j] = NotJoining]
         \/ join' = [join EXCEPT ![j] = [step |-> "add", peer |-> join[j].peer,
                                         addr |-> join[j].addr]]
  BY DEF AdoptFails, RestOK, Shapes
<1>3. join[j].peer \in Device \ {j} /\ join[j].addr \in Addr
  BY DEF AdoptFails, RestOK, Shapes, JoinState
<1>4. host' \in [Device -> HostState] /\ join' \in [Device -> JoinState]
  <2>1. /\ NotJoining \in JoinState
        /\ [step |-> "add", peer |-> join[j].peer, addr |-> join[j].addr]
             \in JoinState
    BY <1>3 DEF JoinState, NotJoining
  <2>2. host \in [Device -> HostState] /\ join \in [Device -> JoinState]
    BY DEF RestOK, Shapes
  <2>3. CASE join' = [join EXCEPT ![j] = NotJoining]
    BY <1>2, <2>1, <2>2, <2>3
  <2>4. CASE join' # [join EXCEPT ![j] = NotJoining]
    BY <1>2, <2>1, <2>2, <2>4
  <2> QED BY <2>3, <2>4
<1>5. RestOK'
  BY <1>2, <1>3, <1>4, PairingStep
     DEF AdoptFails, RestOK, Shapes, Known, NotJoining, files, process, ghosts
<1> QED BY <1>1, <1>5, PartsNext

(***************************************************************************)
(* Whoever adopts an identity leaves the sets of those it is barred from,  *)
(* and what it has from now on is none that bars it.                       *)
(***************************************************************************)
LEMMA AdoptKeeps ==
  ASSUME IInv, NEW j \in Device, Adopt(j)
  PROVE  IInv'
<1> USE Parts, IdFacts
<1> DEFINE w == join[j].id
<1>1. FileOK'
  BY FileUntouched DEF Adopt
<1>2. /\ join[j].step = "adopt" /\ w \in Id /\ w <= made
      /\ join[j].peer \in Device \ {j} /\ join[j].addr \in Addr
  BY DEF Adopt, RestOK, Shapes, JoinState, Known
<1>3. /\ join' = [join EXCEPT ![j] = [step |-> "add", peer |-> join[j].peer,
                                      addr |-> join[j].addr]]
      /\ host' = host /\ made' = made /\ topic' = topic /\ where' = where
      /\ rotation' = rotation /\ inbound' = inbound /\ mail' = mail
  BY DEF Adopt, RestOK, Shapes
<1>4. \A d \in Device : id'[d] = id[d] \/ (d = j /\ id'[d] = w)
  BY DEF Adopt, RestOK
<1>5. \A d \in Device : live'[d] = live[d] \/ (d = j /\ live'[d] = w)
  BY DEF Adopt, RestOK
<1>6. \A d \in Device : signal'[d] => live'[d] # None
  BY <1>2, <1>5 DEF Adopt, RestOK, Shapes
<1>7. \A d \in Device : out'[d] = IF d = j THEN {}
                                  ELSE IF id[d] = w THEN out[d] \ {j}
                                  ELSE out[d]
  BY DEF Adopt
<1>8. /\ id' \in [Device -> Id] /\ live' \in [Device -> Id \cup {None}]
      /\ signal' \in [Device -> BOOLEAN] /\ out' \in [Device -> SUBSET Device]
  BY <1>2, ZenonT(60) DEF Adopt, RestOK
<1>9. join' \in [Device -> JoinState]
  BY <1>2, <1>3 DEF RestOK, Shapes, JoinState
<1>10. Shapes'
  <2>1. \A d \in Device :
          /\ host'[d].step = "add" => host'[d].peer # d
          /\ join'[d].step # "none" => join'[d].peer # d
    BY <1>2, <1>3 DEF RestOK, Shapes
  <2>2. \A d \in Device :
          host'[d].step = "armed" /\ d \notin Console => live'[d] # None
    BY <1>2, <1>3, <1>5 DEF RestOK, Shapes
  <2> QED BY <1>3, <1>6, <1>9, <2>1, <2>2 DEF RestOK, Shapes
<1>11. Known'
  BY <1>2, <1>3, <1>4, <1>5 DEF RestOK, Shapes, Known
<1>12. Barred'
  <2> SUFFICES ASSUME NEW d \in Device, NEW p \in out'[d]
               PROVE  p # d /\ id'[p] # id'[d] /\ live'[p] # id'[d]
    BY DEF Barred
  <2>1. /\ d # j /\ p \in out[d] /\ p \in Device
        /\ (id[d] = w => p # j)
    BY <1>7 DEF RestOK
  <2>2. p # d /\ id[p] # id[d] /\ live[p] # id[d] /\ id'[d] = id[d]
    BY <2>1, <1>4 DEF RestOK, Barred
  <2> QED BY <2>1, <2>2, <1>4, <1>5
<1>13. RestOK'
  BY <1>3, <1>8, <1>10, <1>11, <1>12 DEF RestOK
<1> QED BY <1>1, <1>13, PartsNext

LEMMA RemoveKeeps ==
  ASSUME IInv, NEW d \in Device, NEW p \in Device, Remove(d, p)
  PROVE  IInv'
<1> USE Parts, IdFacts
<1>1. FileOK'
  BY DropKeeps DEF Remove
<1>2. RestOK'
  BY PairingStep DEF Remove, RestOK, Shapes, Known, pairing, process
<1> QED BY <1>1, <1>2, PartsNext

(***************************************************************************)
(* A rotation makes an identity that nobody has: all there are were made   *)
(* before it.                                                              *)
(***************************************************************************)
LEMMA RotateKeeps ==
  ASSUME IInv, NEW d \in Device, Rotate(d)
  PROVE  IInv'
<1> USE Parts, IdFacts
<1>1. FileOK'
  BY FileUntouched DEF Rotate
<1>2. /\ made < MaxIds /\ made' = made + 1
      /\ id' = [id EXCEPT ![d] = made + 1]
      /\ rotation' = [rotation EXCEPT ![d] =
                        [step |-> "listing", doomed |-> {}]]
      /\ out' = [out EXCEPT ![d] = Device \ {d}]
      /\ live' = live /\ topic' = topic /\ signal' = signal /\ host' = host
      /\ join' = join /\ inbound' = inbound /\ mail' = mail /\ where' = where
  BY DEF Rotate, process, pairing
<1>3. made \in Nat /\ made + 1 \in Id
  BY <1>2 DEF RestOK, Id
<1>4. Shapes'
  BY <1>2 DEF RestOK, Shapes
<1>5. Known'
  <2>1. \A e \in Device :
          /\ id[e] \in Nat /\ (live[e] # None => live[e] \in Nat)
          /\ host[e].step = "armed" => host[e].id \in Nat
          /\ join[e].step = "adopt" => join[e].id \in Nat
    BY ZenonT(60) DEF RestOK, Shapes, HostState, JoinState
  <2> QED BY <1>2, <1>3, <2>1 DEF RestOK, Known
<1>6. Barred'
  <2> SUFFICES ASSUME NEW e \in Device, NEW p \in out'[e]
               PROVE  p # e /\ id'[p] # id'[e] /\ live'[p] # id'[e]
    BY DEF Barred
  <2>1. /\ p \in Device /\ p # e /\ (e # d => p \in out[e])
        /\ id[p] \in Nat /\ id[e] \in Nat /\ id[p] <= made /\ id[e] <= made
        /\ live[p] # None => live[p] \in Nat /\ live[p] <= made
    BY <1>2 DEF RestOK, Barred, Known
  <2>2. CASE e = d
    BY <2>1, <2>2, <1>2, <1>3 DEF RestOK
  <2>3. CASE e # d
    BY <2>1, <2>3, <1>2, <1>3 DEF RestOK, Barred
  <2> QED BY <2>2, <2>3
<1>7. RestOK'
  BY <1>2, <1>3, <1>4, <1>5, <1>6 DEF RestOK
<1> QED BY <1>1, <1>7, PartsNext

LEMMA RotateListsKeeps ==
  ASSUME IInv, NEW d \in Device, RotateLists(d)
  PROVE  IInv'
<1> USE Parts, IdFacts
<1>1. FileOK'
  BY FileUntouched DEF RotateLists, files, ghosts
<1>2. RestOK'
  BY BarredUntouched
     DEF RotateLists, RestOK, Shapes, Known, Listed, files, process, pairing,
         ghosts
<1> QED BY <1>1, <1>2, PartsNext

LEMMA RotateRemovesKeeps ==
  ASSUME IInv, NEW d \in Device, RotateRemoves(d)
  PROVE  IInv'
<1> DEFINE Rotations == [Device -> [step : {"none", "listing", "removing"},
                                    doomed : SUBSET Device]]
<1>1. rotation \in Rotations
  BY Parts DEF RestOK
<1>2. rotation' \in Rotations
  <2>1. ASSUME NEW p PROVE [rotation EXCEPT ![d].doomed = @ \ {p}] \in Rotations
    BY <1>1
  <2>2. [rotation EXCEPT ![d] = NotRotating] \in Rotations
    BY <1>1 DEF NotRotating
  <2>3. \/ \E p : rotation' = [rotation EXCEPT ![d].doomed = @ \ {p}]
        \/ rotation' = [rotation EXCEPT ![d] = NotRotating]
    BY DEF RotateRemoves
  <2> HIDE DEF Rotations
  <2> QED BY <2>1, <2>2, <2>3
<1>3. FileOK'
  BY <1>1, Parts, IdFacts, DropKeeps, FileUntouched DEF RotateRemoves
<1>4. RestOK'
  BY <1>2, Parts, IdFacts, BarredUntouched
     DEF RotateRemoves, RestOK, Shapes, Known, process, pairing
<1> QED BY <1>3, <1>4, PartsNext

LEMMA RotateDiesKeeps ==
  ASSUME IInv, NEW d \in Device, RotateDies(d)
  PROVE  IInv'
<1> USE Parts, IdFacts
<1>1. FileOK'
  BY FileUntouched DEF RotateDies, files, ghosts
<1>2. RestOK'
  BY BarredUntouched
     DEF RotateDies, RestOK, Shapes, Known, NotRotating, files, process,
         pairing, ghosts
<1> QED BY <1>1, <1>2, PartsNext

LEMMA BroadcastKeeps ==
  ASSUME IInv, NEW d \in Device, Broadcast(d)
  PROVE  IInv'
<1> USE Parts, IdFacts
<1>1. FileOK'
  BY FileUntouched DEF Broadcast, files, ghosts
<1>2. mail' \in [id : 0..MaxIds, list : [Device -> Addr \cup {None}],
                 to : SUBSET Device]
  BY DEF Broadcast, RestOK, FileOK
<1>3. RestOK'
  BY <1>2, BarredUntouched
     DEF Broadcast, RestOK, Shapes, Known, files, process, pairing, ghosts
<1> QED BY <1>1, <1>3, PartsNext

LEMMA MergeMailKeeps ==
  ASSUME IInv, NEW d \in Device, Merge(d)
  PROVE  IInv'
<1> USE Parts, IdFacts
<1>1. mail.list \in [Device -> Addr \cup {None}]
  BY DEF Merge, RestOK, Shapes
<1>2. FileOK'
  BY <1>1, MergeKeeps DEF Merge, ghosts
<1>3. RestOK'
  BY BarredUntouched
     DEF Merge, RestOK, Shapes, Known, process, pairing, ghosts
<1> QED BY <1>2, <1>3, PartsNext

LEMMA ContactKeeps ==
  ASSUME IInv, NEW p \in Device, NEW d \in Device, Contact(p, d)
  PROVE  IInv'
<1> USE Parts, IdFacts
<1>1. FileOK'
  BY FileUntouched DEF Contact, files, ghosts
<1>2. RestOK'
  BY BarredUntouched
     DEF Contact, RestOK, Shapes, Known, files, process, pairing, ghosts
<1> QED BY <1>1, <1>2, PartsNext

LEMMA RefreshStepKeeps ==
  ASSUME IInv, NEW d \in Device, Refresh(d)
  PROVE  IInv'
<1> USE Parts, IdFacts
<1>1. inbound[d] \in Device \X Addr
  BY DEF Refresh, RestOK, Shapes
<1>2. FileOK'
  BY <1>1, RefreshKeeps DEF Refresh, ghosts
<1>3. RestOK'
  BY BarredUntouched
     DEF Refresh, RestOK, Shapes, Known, process, pairing, ghosts
<1> QED BY <1>2, <1>3, PartsNext

LEMMA MoveKeeps ==
  ASSUME IInv, NEW d \in Device, Move(d)
  PROVE  IInv'
<1> USE Parts, IdFacts
<1>1. FileOK'
  BY FileUntouched DEF Move, files, ghosts
<1>2. where' \in [Device -> Addr]
  BY SMTT(30) DEF Move, RestOK, Addr
<1>3. RestOK'
  BY <1>2, BarredUntouched
     DEF Move, RestOK, Shapes, Known, files, process, pairing, ghosts
<1> QED BY <1>1, <1>3, PartsNext

LEMMA StepIInv == IInv /\ [Next]_vars => IInv'
<1> SUFFICES ASSUME IInv, [Next]_vars PROVE IInv'
  OBVIOUS
<1>1. CASE UNCHANGED vars
  <2>1. FileOK' /\ RestOK'
    BY <1>1, Parts, FileUntouched, BarredUntouched
       DEF vars, files, process, pairing, ghosts, RestOK, Shapes, Known
  <2> QED BY <2>1, PartsNext
<1>2. ASSUME NEW d \in Device,
             \/ Start(d) \/ Subscribe(d) \/ Stop(d)
             \/ Arm(d) \/ HostAdds(d) \/ Adopt(d) \/ AdoptFails(d)
             \/ JoinerAdds(d) \/ Abandon(d)
             \/ Rotate(d) \/ RotateLists(d) \/ RotateRemoves(d)
             \/ RotateDies(d)
             \/ Broadcast(d) \/ Merge(d) \/ Refresh(d) \/ Move(d)
      PROVE  IInv'
  BY <1>2, StartKeeps, SubscribeKeeps, StopKeeps, ArmKeeps, HostAddsKeeps,
     AdoptKeeps, AdoptFailsKeeps, JoinerAddsKeeps, AbandonKeeps, RotateKeeps,
     RotateListsKeeps, RotateRemovesKeeps, RotateDiesKeeps, BroadcastKeeps,
     MergeMailKeeps, RefreshStepKeeps, MoveKeeps
<1>3. ASSUME NEW x \in Pairs,
             \/ Handshake(x[1], x[2]) \/ Remove(x[1], x[2])
             \/ Contact(x[1], x[2])
      PROVE  IInv'
  <2>1. x[1] \in Device /\ x[2] \in Device
    BY DEF Pairs
  <2> QED BY <1>3, <2>1, HandshakeKeeps, RemoveKeeps, ContactKeeps
<1> QED BY <1>1, <1>2, <1>3 DEF Next

THEOREM Invariance == Spec => []IInv
BY InitIInv, StepIInv, PTL DEF Spec

----------------------------------------------------------------------------
(***************************************************************************)
(* The files, the processes and what they hold keep their types, and no    *)
(* device lists itself.                                                    *)
(***************************************************************************)
THEOREM TypeCorrect == Spec => []TypeOK
<1>1. IInv => TypeOK
  BY DEF IInv
<1> QED BY <1>1, Invariance, PTL

(***************************************************************************)
(* A removed device stays removed until it is paired again: whatever is    *)
(* merged from gossip or refreshed late by a connection, every writer of   *)
(* peers.json reads the tombstones again under the lock.                   *)
(***************************************************************************)
THEOREM RemovalsHold == Spec => []RemovalHolds
<1>1. IInv => RemovalHolds
  BY DEF IInv, Marked, RemovalHolds
<1> QED BY <1>1, Invariance, PTL

(***************************************************************************)
(* A paired device stays listed until it is removed: no merge, refresh or  *)
(* other writer of peers.json loses it.                                    *)
(***************************************************************************)
THEOREM PairingsAreKept == Spec => []PairingKept
<1>1. IInv => PairingKept
  BY DEF IInv
<1> QED BY <1>1, Invariance, PTL

(***************************************************************************)
(* After a rotation a process with the new identity exchanges operations   *)
(* with nobody who has not adopted it, wherever the command was            *)
(* interrupted and whatever adoptions were under way.  The exchange only:  *)
(* snapshots and assets do not ask for the identity.                       *)
(***************************************************************************)
THEOREM RotationLocksOut == Spec => []LockedOut
<1>1. IInv => LockedOut
  <2> SUFFICES ASSUME IInv, NEW d \in Device, live[d] = id[d],
                      NEW p \in out[d], Exchanges(p, d)
               PROVE  FALSE
    BY DEF LockedOut
  <2>1. live[p] # id[d]
    BY DEF IInv, Barred
  <2> QED BY <2>1 DEF Exchanges
<1> QED BY <1>1, Invariance, PTL

----------------------------------------------------------------------------
(***************************************************************************)
(* What a rotation that is not cut short keeps up: whoever it found listed *)
(* is removed, or still listed and before it.                              *)
(***************************************************************************)
Ahead(d, p) ==
  /\ p \in Listed(d)
  /\ \/ rotation[d].step = "listing"
     \/ rotation[d].step = "removing" /\ p \in rotation[d].doomed

Doomed ==
  /\ found \in [Device -> SUBSET Device]
  /\ \A d \in Device : \A p \in found[d] : p \in dropped[d] \/ Ahead(d, p)

LEMMA InitDoomed == Init => Doomed
BY DEF Init, Doomed

\* A step that takes nobody off a list, and forgets no removal.
LEMMA DoomedUntouched ==
  ASSUME Doomed, UNCHANGED <<dropped, found, rotation>>,
         \A e \in Device : Listed(e) \subseteq Listed(e)'
  PROVE  Doomed'
BY DEF Doomed, Ahead

LEMMA DoomedSame ==
  ASSUME Doomed, UNCHANGED <<peers, dropped, found, rotation>>
  PROVE  Doomed'
BY DoomedUntouched DEF Listed

LEMMA DoomedAdd ==
  ASSUME IInv, Doomed, NEW d \in Device, NEW p \in Device, NEW a \in Addr,
         Add(d, p, a), UNCHANGED rotation
  PROVE  Doomed'
<1> USE Parts, IdFacts
<1>1. /\ found' = [found EXCEPT ![d] = @ \ {p}]
      /\ dropped' = [dropped EXCEPT ![d] = @ \ {p}]
      /\ peers' = [peers EXCEPT ![d][p] = a]
  BY DEF Add
<1>2. \A e \in Device : Listed(e) \subseteq Listed(e)'
  BY <1>1 DEF FileOK, Listed
<1>3. ASSUME NEW e \in Device
      PROVE  /\ found'[e] = IF e = d THEN found[e] \ {p} ELSE found[e]
             /\ dropped'[e] = IF e = d THEN dropped[e] \ {p} ELSE dropped[e]
  BY <1>1 DEF FileOK, Doomed
<1>4. found' \in [Device -> SUBSET Device]
  BY <1>1 DEF Doomed
<1> QED BY <1>2, <1>3, <1>4 DEF Doomed, Ahead

\* A removal turns one that was before the rotation into one that is removed.
LEMMA DroppedOrListed ==
  ASSUME IInv, NEW d \in Device, NEW p \in Device, Drop(d, p),
         NEW e \in Device, NEW q \in Device
  PROVE  /\ q \in dropped[e] => q \in dropped'[e]
         /\ q \in Listed(e) => q \in dropped'[e] \/ q \in Listed(e)'
         /\ <<e, q>> # <<d, p>> /\ q \in Listed(e) => q \in Listed(e)'
<1> USE Parts, IdFacts
<1>1. Listed(e)' = IF e = d THEN Listed(e) \ {p} ELSE Listed(e)
  BY DEF FileOK, Drop, Listed
<1>2. dropped'[e] = IF e = d /\ p \in Listed(d)
                    THEN dropped[e] \cup {p} ELSE dropped[e]
  BY DEF FileOK, Drop
<1> QED BY <1>1, <1>2

LEMMA DoomedStep ==
  ASSUME IInv, Doomed, [Next]_vars
  PROVE  Doomed'
<1> USE Parts, IdFacts
<1>1. CASE UNCHANGED vars
  BY <1>1, DoomedSame DEF vars, files, ghosts
<1>2. ASSUME NEW d \in Device,
             \/ Start(d) \/ Subscribe(d) \/ Stop(d)
             \/ Arm(d) \/ Adopt(d) \/ AdoptFails(d) \/ Abandon(d)
             \/ Broadcast(d) \/ Move(d)
             \/ \E p \in Device : Handshake(d, p) \/ Contact(d, p)
      PROVE  Doomed'
  BY <1>2, DoomedSame
     DEF Start, Subscribe, Stop, Arm, Adopt, AdoptFails, Abandon, Broadcast,
         Move, Handshake, Contact, files, ghosts
<1>3. ASSUME NEW d \in Device, HostAdds(d) \/ JoinerAdds(d)
      PROVE  Doomed'
  <2>1. CASE HostAdds(d)
    <3>1. host[d].peer \in Device /\ host[d].addr \in Addr
      BY <2>1 DEF HostAdds, RestOK, Shapes, HostState
    <3> QED BY <2>1, <3>1, DoomedAdd DEF HostAdds
  <2>2. CASE JoinerAdds(d)
    <3>1. join[d].peer \in Device /\ join[d].addr \in Addr
      BY <2>2 DEF JoinerAdds, RestOK, Shapes, JoinState
    <3> QED BY <2>2, <3>1, DoomedAdd DEF JoinerAdds
  <2> QED BY <1>3, <2>1, <2>2
<1>4. ASSUME NEW d \in Device, NEW p \in Device, Remove(d, p)
      PROVE  Doomed'
  <2>1. Drop(d, p) /\ UNCHANGED <<rotation, found>>
    BY <1>4 DEF Remove
  <2> QED BY <2>1, DroppedOrListed DEF Doomed, Ahead
<1>5. ASSUME NEW d \in Device, Rotate(d)
      PROVE  Doomed'
  <2>1. /\ found' = [found EXCEPT ![d] = Listed(d)]
        /\ rotation' = [rotation EXCEPT ![d] =
                          [step |-> "listing", doomed |-> {}]]
        /\ UNCHANGED <<peers, dropped>>
    BY <1>5 DEF Rotate
  <2>2. \A e \in Device : Listed(e)' = Listed(e) /\ Listed(e) \subseteq Device
    BY <2>1 DEF Listed
  <2>3. ASSUME NEW e \in Device
        PROVE  /\ found'[e] = IF e = d THEN Listed(e) ELSE found[e]
               /\ e = d => rotation'[e].step = "listing"
               /\ e # d => rotation'[e] = rotation[e]
    BY <2>1 DEF Doomed, RestOK
  <2>4. found' \in [Device -> SUBSET Device]
    BY <2>1, <2>2 DEF Doomed
  <2> QED BY <2>1, <2>2, <2>3, <2>4 DEF Doomed, Ahead
<1>6. ASSUME NEW d \in Device, RotateLists(d)
      PROVE  Doomed'
  <2>1. /\ rotation' = [rotation EXCEPT ![d] = [step |-> "removing",
                                                doomed |-> Listed(d)]]
        /\ UNCHANGED <<peers, dropped, found>>
    BY <1>6 DEF RotateLists, files, ghosts
  <2>2. \A e \in Device : Listed(e)' = Listed(e)
    BY <2>1 DEF Listed
  <2>3. ASSUME NEW e \in Device
        PROVE  /\ e = d => rotation'[e].step = "removing"
                           /\ rotation'[e].doomed = Listed(e)
               /\ e # d => rotation'[e] = rotation[e]
    BY <2>1 DEF RestOK
  <2> QED BY <2>1, <2>2, <2>3 DEF Doomed, Ahead
<1>7. ASSUME NEW d \in Device, RotateRemoves(d)
      PROVE  Doomed'
  <2>1. rotation[d].step = "removing" /\ UNCHANGED found
    BY <1>7 DEF RotateRemoves
  <2>2. ASSUME NEW p \in rotation[d].doomed, Drop(d, p),
               rotation' = [rotation EXCEPT ![d].doomed = @ \ {p}]
        PROVE  Doomed'
    <3>1. p \in Device
      BY <2>2 DEF RestOK
    <3>2. ASSUME NEW e \in Device
          PROVE  /\ rotation'[e].step = rotation[e].step
                 /\ e = d => rotation'[e].doomed = rotation[e].doomed \ {p}
                 /\ e # d => rotation'[e].doomed = rotation[e].doomed
      BY <2>2 DEF RestOK
    <3>3. SUFFICES ASSUME NEW e \in Device, NEW q \in found[e],
                          q \notin dropped'[e]
                   PROVE  Ahead(e, q)'
      BY <2>1 DEF Doomed
    <3>4. q \in Device
      BY <3>3 DEF Doomed
    <3>5. Ahead(e, q) /\ q \in Listed(e)'
      BY <2>2, <3>1, <3>3, <3>4, DroppedOrListed DEF Doomed, Ahead
    <3>6. <<e, q>> # <<d, p>>
      BY <2>2, <3>1, <3>5 DEF Drop, FileOK, Listed
    <3> QED BY <2>1, <3>2, <3>5, <3>6 DEF Ahead
  <2>3. ASSUME rotation[d].doomed = {}, UNCHANGED <<peers, dropped>>,
               rotation' = [rotation EXCEPT ![d] = NotRotating]
        PROVE  Doomed'
    <3>1. \A e \in Device : Listed(e)' = Listed(e)
      BY <2>3 DEF Listed
    <3>2. \A e \in Device : e # d => rotation'[e] = rotation[e]
      BY <2>3 DEF RestOK
    <3> QED BY <2>1, <2>3, <3>1, <3>2 DEF Doomed, Ahead
  <2> QED BY <1>7, <2>2, <2>3 DEF RotateRemoves
<1>8. ASSUME NEW d \in Device, RotateDies(d)
      PROVE  Doomed'
  <2>1. /\ rotation' = [rotation EXCEPT ![d] = NotRotating]
        /\ found' = [found EXCEPT ![d] = {}]
        /\ UNCHANGED <<peers, dropped>>
    BY <1>8 DEF RotateDies, files
  <2>2. \A e \in Device : Listed(e)' = Listed(e)
    BY <2>1 DEF Listed
  <2>3. \A e \in Device : /\ e = d => found'[e] = {}
                          /\ e # d => rotation'[e] = rotation[e]
                                     /\ found'[e] = found[e]
    BY <2>1 DEF RestOK, Doomed
  <2>4. found' \in [Device -> SUBSET Device]
    BY <2>1 DEF Doomed
  <2> QED BY <2>1, <2>2, <2>3, <2>4 DEF Doomed, Ahead
<1>9. ASSUME NEW d \in Device, Merge(d) \/ Refresh(d)
      PROVE  Doomed'
  <2>1. UNCHANGED <<dropped, found, rotation>>
    BY <1>9 DEF Merge, Refresh, ghosts
  <2>2. \A e \in Device : Listed(e) \subseteq Listed(e)'
    <3>1. CASE Merge(d)
      BY <3>1 DEF Merge, Merged, FileOK, Listed
    <3>2. CASE Refresh(d)
      <4>1. inbound[d] \in Device \X Addr
        BY <3>2 DEF Refresh, RestOK, Shapes
      <4> QED BY <3>2, <4>1 DEF Refresh, FileOK, Listed
    <3> QED BY <1>9, <3>1, <3>2
  <2> QED BY <2>1, <2>2, DoomedUntouched
<1>10. ASSUME NEW x \in Pairs,
              \/ Handshake(x[1], x[2]) \/ Remove(x[1], x[2])
              \/ Contact(x[1], x[2])
       PROVE  Doomed'
  <2>1. x[1] \in Device /\ x[2] \in Device
    BY DEF Pairs
  <2> QED BY <1>10, <2>1, <1>2, <1>4
<1> QED BY <1>1, <1>2, <1>3, <1>4, <1>5, <1>6, <1>7, <1>8, <1>9, <1>10 DEF Next

(***************************************************************************)
(* After a rotation that ran to its end nobody it found listed is served   *)
(* anything, by any protocol, until the two pair again: the list is read   *)
(* after the identity was replaced, and between that and the last removal  *)
(* everyone of them is in the list, still to be removed, or has a          *)
(* tombstone that gossip and refreshes respect.                            *)
(***************************************************************************)
THEOREM RotationShutsOut == Spec => []ShutOut
<1>1. IInv /\ Doomed => ShutOut
  <2> SUFFICES ASSUME IInv, Doomed,
                      NEW d \in Device, rotation[d].step = "none",
                      NEW p \in found[d], Authorised(p, d)
               PROVE  FALSE
    BY DEF ShutOut
  <2>1. p \in Device /\ p \in dropped[d]
    BY DEF Doomed, Ahead
  <2> QED BY <2>1 DEF IInv, Marked, Authorised
<1>2. IInv /\ Doomed /\ [Next]_vars => Doomed'
  BY DoomedStep
<1> QED BY <1>1, <1>2, InitDoomed, Invariance, PTL DEF Spec
=============================================================================

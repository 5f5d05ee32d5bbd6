----------------------------- MODULE Membership -----------------------------
(***************************************************************************)
(* Who may talk to whom (outl-sync-iroh: peers.rs, pairing.rs,             *)
(* engine_pairing.rs, engine_membership.rs, engine_gossip.rs, authz.rs,    *)
(* revoke.rs; outl-core: workspace_id.rs).                                 *)
(*                                                                         *)
(* Each device keeps a file with the id of its workspace and a file with   *)
(* the devices it is paired with and the ones it removed.  Its sync        *)
(* process, when it runs, holds the id in memory too and is subscribed to  *)
(* the gossip topic of an id.  The command line works on the files beside  *)
(* it.                                                                     *)
(*                                                                         *)
(* Simplifications: an entry of peers.json is an address; every address is *)
(* on the local network, and the relay reaches everybody; the invitation a *)
(* pairing proves is the fact that it happens; one broadcast is under way  *)
(* at a time, which may reach each device late, often or never.            *)
(***************************************************************************)
EXTENDS Naturals, FiniteSets

CONSTANTS
  Device,
  Paired,    \* the pairs of devices that are paired at first
  Meets,     \* bound: <<host, joiner>> for the pairings users ever make
  Console,   \* the devices that pair by the command line
  MaxIds,    \* bound: identities that are ever made
  Budget,    \* bounds on pairings, removals, rotations, stops, moves, failures
  MaxActs,   \* bound on all of these together
  None       \* no address, no process, nothing under way

Acts == {"pair", "remove", "rotate", "stop", "move", "fail"}
Pairs == {x \in Device \X Device : x[1] # x[2]}
Addr == 0..1

ASSUME MembershipConstants ==
  /\ IsFiniteSet(Device)
  /\ Paired \subseteq Pairs
  /\ \A x \in Paired : <<x[2], x[1]>> \in Paired
  /\ Meets \subseteq Pairs /\ Console \subseteq Device
  /\ MaxIds \in Nat \ {0}
  /\ Budget \in [Acts -> Nat] /\ MaxActs \in Nat
  /\ None \notin Nat \cup Device

Id == 1..MaxIds

VARIABLES
  id,        \* device -> the id in .outl/workspace-id
  peers,     \* device -> device -> its address in peers.json or None
  revoked,   \* device -> the tombstones in peers.json
  live,      \* device -> the id its sync process holds, None if none runs
  topic,     \* device -> the topic it is subscribed to and whom it joined
  signal,    \* device -> the supervisor has a subscription to make
  host,      \* device -> the pairing it hosts
  join,      \* device -> the pairing it joins
  rotation,  \* device -> how far its rotation is
  inbound,   \* device -> the connection whose address it is about to store
  mail,      \* the last broadcast, which may still arrive
  where,     \* device -> its address now
  made,      \* how many ids there are
  left,      \* what is left of Budget
  acts,      \* what is left of MaxActs
  dropped,   \* history: whom a device removed and did not pair with since
  kept,      \* history: whom a device paired with and did not remove since
  out,       \* history: whom the rotation of a device is to lock out
  found      \* history: whom a rotation found listed, if it was not cut short

files == <<id, peers, revoked>>
process == <<live, topic, signal>>
pairing == <<host, join>>
ghosts == <<dropped, kept, out, found>>
vars == <<files, process, pairing, rotation, inbound, mail, where, made, left,
          acts, ghosts>>

Listed(d) == {p \in Device : peers[d][p] # None}

NoTopic == [id |-> 0, seeds |-> {}]
NotHosting == [step |-> "none"]
NotJoining == [step |-> "none"]
NotRotating == [step |-> "none", doomed |-> {}]

bounds == <<left, acts>>
Spend(act) ==
  /\ left[act] > 0 /\ left' = [left EXCEPT ![act] = @ - 1]
  /\ acts > 0 /\ acts' = acts - 1

----------------------------------------------------------------------------
(***************************************************************************)
(* Devices that are paired at first share the first id, each of the others *)
(* has one of its own, and the processes are running.                      *)
(***************************************************************************)
Apart == {d \in Device : \A x \in Paired : x[1] # d}

Init ==
  /\ \E own \in [Device -> Id] :
       /\ \A d \in Device : own[d] = 1 <=> d \notin Apart
       /\ \A d, e \in Apart : d # e => own[d] # own[e]
       /\ id = own
       /\ made = Cardinality(Apart) + 1
       /\ \A d \in Device : own[d] <= made
  /\ peers = [d \in Device |-> [p \in Device |->
                IF <<d, p>> \in Paired THEN 0 ELSE None]]
  /\ revoked = [d \in Device |-> {}]
  /\ live = id
  /\ topic = [d \in Device |-> [id |-> id[d], seeds |-> Listed(d)]]
  /\ signal = [d \in Device |-> FALSE]
  /\ host = [d \in Device |-> NotHosting]
  /\ join = [d \in Device |-> NotJoining]
  /\ rotation = [d \in Device |-> NotRotating]
  /\ inbound = [d \in Device |-> None]
  /\ mail = None
  /\ where = [d \in Device |-> 0]
  /\ left = Budget /\ acts = MaxActs
  /\ dropped = [d \in Device |-> {}]
  /\ kept = [d \in Device |-> Listed(d)]
  /\ out = [d \in Device |-> {}]
  /\ found = [d \in Device |-> {}]

----------------------------------------------------------------------------
(***************************************************************************)
(* Writers of peers.json.  Each reads the file again, changes it and       *)
(* renames the new one into place under the lock (mutate_full), so each is *)
(* one step; what led to it may be older.                                  *)
(***************************************************************************)
\* PeersStore::add: pairing again outranks an earlier removal.
Add(d, p, a) ==
  /\ peers' = [peers EXCEPT ![d][p] = a]
  /\ revoked' = [revoked EXCEPT ![d] = @ \ {p}]
  /\ dropped' = [dropped EXCEPT ![d] = @ \ {p}]
  /\ kept' = [kept EXCEPT ![d] = @ \cup {p}]
  /\ found' = [found EXCEPT ![d] = @ \ {p}]

\* Mutated form: the entry goes and leaves no tombstone.
DropUnmarked(d, p) ==
  /\ peers' = [peers EXCEPT ![d][p] = None]
  /\ UNCHANGED revoked
  /\ dropped' = [dropped EXCEPT ![d] =
                   IF p \in Listed(d) THEN @ \cup {p} ELSE @]
  /\ kept' = [kept EXCEPT ![d] = @ \ {p}]

\* PeersStore::remove: the entry goes and the tombstone comes in one write.
Drop(d, p) ==
  /\ peers' = [peers EXCEPT ![d][p] = None]
  /\ revoked' = [revoked EXCEPT ![d] =
                   IF p \in Listed(d) THEN @ \cup {p} ELSE @]
  /\ dropped' = [dropped EXCEPT ![d] =
                   IF p \in Listed(d) THEN @ \cup {p} ELSE @]
  /\ kept' = [kept EXCEPT ![d] = @ \ {p}]

\* Mutated form: a gossiped list replaces what is known.
MergeReplaced(d, list) ==
  [p \in Device |-> IF p = d \/ p \in revoked[d] THEN None ELSE list[p]]

\* Mutated form: a device takes itself for one it did not know.
MergeSelf(d, list) ==
  [p \in Device |-> IF p \in revoked[d] \/ peers[d][p] # None
                    THEN peers[d][p] ELSE list[p]]

\* merge_membership and merge_unknown: add-only, and never a removed device.
Merged(d, list) ==
  [p \in Device |-> IF p = d \/ p \in revoked[d] \/ peers[d][p] # None
                    THEN peers[d][p] ELSE list[p]]

----------------------------------------------------------------------------
\* The sync process.

\* It reads the id, and its gossip supervisor has yet to subscribe.
Start(d) ==
  /\ live[d] = None
  /\ live' = [live EXCEPT ![d] = id[d]]
  /\ signal' = [signal EXCEPT ![d] = TRUE]
  /\ UNCHANGED <<files, topic, pairing, rotation, inbound, mail, where, made,
                 bounds, ghosts>>

(***************************************************************************)
(* The supervisor subscribes to the topic of the id, at first and whenever *)
(* an adoption has changed it, and joins those that are listed just then.  *)
(***************************************************************************)
Subscribe(d) ==
  /\ signal[d]
  /\ signal' = [signal EXCEPT ![d] = FALSE]
  /\ topic' = [topic EXCEPT ![d] = [id |-> live[d], seeds |-> Listed(d)]]
  /\ UNCHANGED <<files, live, pairing, rotation, inbound, mail, where, made,
                 bounds, ghosts>>

\* The process ends, and the pairing that went over it.
Stop(d) ==
  /\ Spend("stop")
  /\ live[d] # None
  /\ live' = [live EXCEPT ![d] = None]
  /\ topic' = [topic EXCEPT ![d] = NoTopic]
  /\ signal' = [signal EXCEPT ![d] = FALSE]
  /\ inbound' = [inbound EXCEPT ![d] = None]
  /\ host' = [host EXCEPT ![d] = IF d \in Console THEN @ ELSE NotHosting]
  /\ join' = [join EXCEPT ![d] = IF d \in Console THEN @ ELSE NotJoining]
  /\ UNCHANGED <<files, rotation, mail, where, made, ghosts>>

----------------------------------------------------------------------------
(***************************************************************************)
(* Pairing, over the running process (the hub) or by the command line.  A  *)
(* command-line host reads its id before it shows the ticket.              *)
(***************************************************************************)
CanPair(d) == d \in Console \/ live[d] # None

Arm(h) ==
  /\ Spend("pair")
  /\ CanPair(h) /\ host[h].step = "none"
  /\ \E x \in Meets : x[1] = h
  /\ host' = [host EXCEPT ![h] = [step |-> "armed", id |-> id[h]]]
  /\ UNCHANGED <<files, process, join, rotation, inbound, mail, where, made,
                 ghosts>>

\* Each side has sent its payload; the host's names its id.  The command line
\* compares it with the id it has read before.
Handshake(h, j) ==
  LET w == IF h \in Console THEN host[h].id ELSE live[h] IN
  /\ <<h, j>> \in Meets
  /\ host[h].step = "armed"
  /\ CanPair(j) /\ join[j].step = "none"
  /\ host' = [host EXCEPT ![h] = [step |-> "add", peer |-> j,
                                  addr |-> where[j]]]
  /\ join' = [join EXCEPT ![j] =
                [step |-> "adopt", peer |-> h, addr |-> where[h],
                 id |-> w, same |-> w = id[j]]]
  /\ UNCHANGED <<files, process, rotation, inbound, mail, where, made, bounds,
                 ghosts>>

HostAdds(h) ==
  /\ host[h].step = "add"
  /\ Add(h, host[h].peer, host[h].addr)
  /\ host' = [host EXCEPT ![h] = NotHosting]
  /\ UNCHANGED <<id, process, join, rotation, inbound, mail, where, made,
                 bounds, out>>

(***************************************************************************)
(* The joiner takes the host's id: the file first, then the memory of the  *)
(* running process and the signal.  Over the hub nothing is written when   *)
(* the memory has the id already.  A device that enters a workspace is no  *)
(* longer locked out of it, and locks out nobody.                          *)
(***************************************************************************)
Adopt(j) ==
  LET w       == join[j].id
      hub     == j \notin Console
      already == IF hub THEN live[j] = w ELSE join[j].same
  IN  /\ join[j].step = "adopt"
      /\ join' = [join EXCEPT ![j] =
                    [step |-> "add", peer |-> @.peer, addr |-> @.addr]]
      /\ IF already
         THEN UNCHANGED <<id, live, signal>>
         ELSE /\ id' = [id EXCEPT ![j] = w]
              /\ live' = [live EXCEPT ![j] = IF hub THEN w ELSE @]
              /\ signal' = [signal EXCEPT ![j] = hub \/ @]
      /\ out' = [d \in Device |-> IF d = j THEN {}
                                  ELSE IF id[d] = w THEN out[d] \ {j}
                                  ELSE out[d]]
      /\ UNCHANGED <<peers, revoked, topic, host, rotation, inbound, mail,
                     where, made, bounds, dropped, kept, found>>

\* The id cannot be written: the hub pairs without it, the command fails.
AdoptFails(j) ==
  /\ Spend("fail")
  /\ join[j].step = "adopt"
  /\ join' = [join EXCEPT ![j] =
                IF j \in Console THEN NotJoining
                ELSE [step |-> "add", peer |-> @.peer, addr |-> @.addr]]
  /\ UNCHANGED <<files, process, host, rotation, inbound, mail, where, made,
                 ghosts>>

JoinerAdds(j) ==
  /\ join[j].step = "add"
  /\ Add(j, join[j].peer, join[j].addr)
  /\ join' = [join EXCEPT ![j] = NotJoining]
  /\ UNCHANGED <<id, process, host, rotation, inbound, mail, where, made,
                 bounds, out>>

\* The reply is lost, the ticket times out, or the command is interrupted.
Abandon(d) ==
  /\ Spend("fail")
  /\ \/ /\ host[d].step # "none"
        /\ host' = [host EXCEPT ![d] = NotHosting]
        /\ UNCHANGED join
     \/ /\ join[d].step # "none"
        /\ join' = [join EXCEPT ![d] = NotJoining]
        /\ UNCHANGED host
  /\ UNCHANGED <<files, process, rotation, inbound, mail, where, made, ghosts>>

----------------------------------------------------------------------------
\* Removal and rotation, by the command line.

Remove(d, p) ==
  /\ Spend("remove")
  /\ p \in Listed(d)
  /\ Drop(d, p)
  /\ UNCHANGED <<id, process, pairing, rotation, inbound, mail, where, made,
                 out, found>>

\* A new id replaces the old one in the file; nothing else changes.
Rotate(d) ==
  /\ Spend("rotate")
  /\ rotation[d].step = "none" /\ made < MaxIds
  /\ made' = made + 1
  /\ id' = [id EXCEPT ![d] = made + 1]
  /\ rotation' = [rotation EXCEPT ![d] = [step |-> "listing", doomed |-> {}]]
  /\ out' = [out EXCEPT ![d] = Device \ {d}]
  /\ found' = [found EXCEPT ![d] = Listed(d)]
  /\ UNCHANGED <<peers, revoked, process, pairing, inbound, mail, where,
                 dropped, kept>>

RotateLists(d) ==
  /\ rotation[d].step = "listing"
  /\ rotation' = [rotation EXCEPT ![d] = [step |-> "removing",
                                          doomed |-> Listed(d)]]
  /\ UNCHANGED <<files, process, pairing, inbound, mail, where, made, bounds,
                 ghosts>>

RotateRemoves(d) ==
  /\ rotation[d].step = "removing"
  /\ \/ \E p \in rotation[d].doomed :
          /\ Drop(d, p)
          /\ rotation' = [rotation EXCEPT ![d].doomed = @ \ {p}]
     \/ /\ rotation[d].doomed = {}
        /\ rotation' = [rotation EXCEPT ![d] = NotRotating]
        /\ UNCHANGED <<peers, revoked, dropped, kept>>
  /\ UNCHANGED <<id, process, pairing, inbound, mail, where, made, bounds, out,
                 found>>

(***************************************************************************)
(* The command is killed, or one of its writes fails: the id is new, and   *)
(* entries of the old workspace stay.                                      *)
(***************************************************************************)
RotateDies(d) ==
  /\ Spend("fail")
  /\ rotation[d].step # "none"
  /\ rotation' = [rotation EXCEPT ![d] = NotRotating]
  /\ found' = [found EXCEPT ![d] = {}]
  /\ UNCHANGED <<files, process, pairing, inbound, mail, where, made, dropped,
                 kept, out>>

----------------------------------------------------------------------------
(***************************************************************************)
(* Gossip.  Two devices on one topic hear each other if a chain of devices *)
(* on it connects them of which one joined the next.                       *)
(***************************************************************************)
Joined(d, e) ==
  /\ topic[d] # NoTopic /\ topic[d].id = topic[e].id
  /\ e \in topic[d].seeds \/ d \in topic[e].seeds

Connected(d, e) ==
  \A S \in SUBSET Device :
    d \in S /\ (\A f \in S, g \in Device : Joined(f, g) => g \in S) => e \in S

\* Mutated form: the list is the one of the time of the subscription.
BroadcastBootList(d) ==
  /\ topic[d] # NoTopic /\ Listed(d) # {}
  /\ mail' = [id |-> topic[d].id,
              list |-> [p \in Device |-> IF p \in topic[d].seeds
                                         THEN peers[d][p] ELSE None],
              to |-> {e \in Device \ {d} : Connected(d, e)}]
  /\ UNCHANGED <<files, process, pairing, rotation, inbound, where, made,
                 bounds, ghosts>>

\* The membership tick: the listed devices, never the tombstones.
Broadcast(d) ==
  /\ topic[d] # NoTopic /\ Listed(d) # {}
  /\ mail' = [id |-> topic[d].id, list |-> peers[d],
              to |-> {e \in Device \ {d} : Connected(d, e)}]
  /\ UNCHANGED <<files, process, pairing, rotation, inbound, where, made,
                 bounds, ghosts>>

Merge(d) ==
  /\ mail # None
  /\ d \in mail.to /\ topic[d].id = mail.id
  /\ peers' = [peers EXCEPT ![d] = Merged(d, mail.list)]
  /\ UNCHANGED <<id, revoked, process, pairing, rotation, inbound, mail,
                 where, made, bounds, ghosts>>

----------------------------------------------------------------------------
(***************************************************************************)
(* What a device serves.  One dials whom it lists.  The other one looks    *)
(* the dialer up in its list, and nothing else, before it sends a snapshot *)
(* or an asset; an exchange asks first for the same id.                    *)
(***************************************************************************)
Authorised(p, d) ==
  /\ live[p] # None /\ live[d] # None
  /\ d \in Listed(p)
  /\ p \in Listed(d)

\* Mutated form: an exchange asks for no more than a snapshot does.
ExchangesListed(p, d) == Authorised(p, d)

Exchanges(p, d) == live[p] = live[d] /\ Authorised(p, d)

\* refresh_peer_direct_addr, which has read an entry that is out of date.
Contact(p, d) ==
  /\ Exchanges(p, d)
  /\ inbound[d] = None
  /\ peers[d][p] # where[p]
  /\ inbound' = [inbound EXCEPT ![d] = <<p, where[p]>>]
  /\ UNCHANGED <<files, process, pairing, rotation, mail, where, made, bounds,
                 ghosts>>

\* Mutated form: the refreshed entry is stored the way a pairing stores it.
RefreshByAdd(d) ==
  /\ inbound[d] # None
  /\ inbound' = [inbound EXCEPT ![d] = None]
  /\ peers' = [peers EXCEPT ![d][inbound[d][1]] = inbound[d][2]]
  /\ revoked' = [revoked EXCEPT ![d] = @ \ {inbound[d][1]}]
  /\ UNCHANGED <<id, process, pairing, rotation, mail, where, made, bounds,
                 ghosts>>

\* Mutated form: an entry that is listed keeps the address it has.
RefreshKeepsOld(d) ==
  /\ inbound[d] # None
  /\ inbound' = [inbound EXCEPT ![d] = None]
  /\ UNCHANGED <<files, process, pairing, rotation, mail, where, made, bounds,
                 ghosts>>

\* update_existing: what is no longer listed stays so.
Refresh(d) ==
  /\ inbound[d] # None
  /\ inbound' = [inbound EXCEPT ![d] = None]
  /\ peers' = [peers EXCEPT ![d][inbound[d][1]] =
                 IF @ = None THEN None ELSE inbound[d][2]]
  /\ UNCHANGED <<id, revoked, process, pairing, rotation, mail, where, made,
                 bounds, ghosts>>

\* A device gets another address.
Move(d) ==
  /\ Spend("move")
  /\ where' = [where EXCEPT ![d] = 1 - @]
  /\ UNCHANGED <<files, process, pairing, rotation, inbound, mail, made,
                 ghosts>>

----------------------------------------------------------------------------
Next ==
  \/ \E d \in Device :
       \/ Start(d) \/ Subscribe(d) \/ Stop(d)
       \/ Arm(d) \/ HostAdds(d) \/ Adopt(d) \/ AdoptFails(d) \/ JoinerAdds(d)
       \/ Abandon(d)
       \/ Rotate(d) \/ RotateLists(d) \/ RotateRemoves(d) \/ RotateDies(d)
       \/ Broadcast(d) \/ Merge(d) \/ Refresh(d) \/ Move(d)
  \/ \E x \in Pairs :
       \/ Handshake(x[1], x[2]) \/ Remove(x[1], x[2])
       \/ Contact(x[1], x[2])

(***************************************************************************)
(* The supervisor loop subscribes and broadcasts on its own, gossip goes   *)
(* on delivering, the catch-up loop goes on dialling and the address it    *)
(* was reached from is stored.  No user has to do anything, and no process *)
(* has to be started.                                                      *)
(***************************************************************************)
Fairness ==
  \A d \in Device :
    /\ WF_vars(Subscribe(d)) /\ WF_vars(Broadcast(d)) /\ SF_vars(Merge(d))
    /\ WF_vars(Refresh(d) \/ \E p \in Device \ {d} : Contact(p, d))

Spec == Init /\ [][Next]_vars /\ Fairness

----------------------------------------------------------------------------
(***************************************************************************)
(* The variables have their types, and no device lists itself.             *)
(***************************************************************************)
TypeOK ==
  /\ id \in [Device -> Id] /\ made \in Id
  /\ peers \in [Device -> [Device -> Addr \cup {None}]]
  /\ revoked \in [Device -> SUBSET Device]
  /\ live \in [Device -> Id \cup {None}]
  /\ topic \in [Device -> [id : 0..MaxIds, seeds : SUBSET Device]]
  /\ signal \in [Device -> BOOLEAN]
  /\ rotation \in [Device -> [step : {"none", "listing", "removing"},
                              doomed : SUBSET Device]]
  /\ where \in [Device -> Addr]
  /\ \A d \in Device : d \notin Listed(d)

(***************************************************************************)
(* A device that was removed stays removed until it is paired again: gossip*)
(* under way, and an address refreshed by a connection that was let in     *)
(* before the removal, do not bring it back.                               *)
(***************************************************************************)
RemovalHolds == \A d \in Device : dropped[d] \cap Listed(d) = {}

(***************************************************************************)
(* A device that was paired stays listed until it is removed, whatever the *)
(* other writers of the file do meanwhile.                                 *)
(***************************************************************************)
PairingKept == \A d \in Device : kept[d] \subseteq Listed(d)

(***************************************************************************)
(* Once a rotation has begun, a process of that device that has the id of  *)
(* the file exchanges operations with nobody who has not entered the       *)
(* workspace anew, also when the command died half way and left old        *)
(* entries.  It is about the exchange, the only protocol that compares ids *)
(* (serve_exchange): those whose entries are left get the snapshot and the *)
(* assets, although revoke.rs calls such a list inert.                     *)
(***************************************************************************)
LockedOut ==
  \A d \in Device : live[d] = id[d] =>
    \A p \in out[d] : ~ Exchanges(p, d)

(***************************************************************************)
(* Whom a device listed when its rotation began it serves nothing any more *)
(* when the rotation has run to its end, no snapshot and no asset either,  *)
(* until they pair again: not by gossip or a refresh from before, not by a *)
(* second removal in between, and not by a process that was not restarted  *)
(* and still holds the old id.                                             *)
(***************************************************************************)
ShutOut ==
  \A d \in Device : rotation[d].step = "none" =>
    \A p \in found[d] : ~ Authorised(p, d)

(***************************************************************************)
(* When the users have done what they ever do, devices that gossip         *)
(* connects come to list everybody the other one lists, except whom they   *)
(* removed.                                                                *)
(***************************************************************************)
Discovery ==
  <>[](\A x \in Pairs : Connected(x[1], x[2]) =>
         Listed(x[1]) \subseteq Listed(x[2]) \cup revoked[x[2]] \cup {x[2]})

(***************************************************************************)
(* Then, too, the stored address of a device that can connect is the one   *)
(* it has, although older ones go on being gossiped.                       *)
(***************************************************************************)
AddressHeals ==
  <>[](\A x \in Pairs : Exchanges(x[1], x[2]) => peers[x[2]][x[1]] = where[x[1]])
============================================================================

----------------------------- MODULE DeltaSync -----------------------------
(***************************************************************************)
(* Devices that bring their op logs together by pairwise exchanges         *)
(* (outl-sync-iroh: engine_sync.rs, oplog_census.rs, oplog.rs,             *)
(* coordination.rs, pending.rs, driven by engine_catchup.rs and            *)
(* engine_gossip.rs).                                                      *)
(*                                                                         *)
(* One exchange is a request with the initiator's vector clock, the        *)
(* responder's clock, the operations the initiator lacks, the operations   *)
(* the responder lacks, and the confirmation that those were fsynced.      *)
(* Several exchanges run on a device at one time and every file access is  *)
(* a step of its own.                                                      *)
(*                                                                         *)
(* Simplifications: a device writes as one actor, its own; an operation is *)
(* its author and its place in the author's sequence, which is all of an   *)
(* HLC that the clocks and the dedup look at; frames arrive whole or not   *)
(* at all; who may talk to whom is Membership's business; the next dial of *)
(* a pair waits until the serving half of its last one has ended.          *)
(***************************************************************************)
EXTENDS Integers, FiniteSets, FiniteSetsExt

CONSTANTS
  Device,      \* devices, each one the actor it writes as
  Dials,       \* the pairs <<initiator, responder>> that can reach each other
  Quota,       \* bound: how many operations each device ever writes
  FastOps,     \* operations stamped by a clock that was set ahead of time
  Fragile,     \* operations whose line in a peer's file may be damaged
  Inert,       \* operations that outl compact drops from their author's file
  MaxFaults,   \* bound on lost connections, failed appends, crashes,
               \* damaged lines and compactions
  None         \* a frame that was not sent, a lock that is free

Op == UNION {{d} \X (1..Quota[d]) : d \in Device}
By(a, S) == {o \in S : o[1] = a}

Side == {"dialing", "serving"}

(***************************************************************************)
(* An author's timestamps grow, so what it writes after an operation from  *)
(* the future is from the future too.                                      *)
(***************************************************************************)
ASSUME DeltaConstants ==
  /\ Dials \subseteq {x \in Device \X Device : x[1] # x[2]}
  /\ Quota \in [Device -> Nat]
  /\ MaxFaults \in Nat
  /\ FastOps \subseteq Op /\ Fragile \subseteq Op /\ Inert \subseteq Op
  /\ \A o \in FastOps, p \in Op : p[1] = o[1] /\ p[2] > o[2] => p \in FastOps
  /\ \A S \in SUBSET Op : S # None
  /\ None \notin Dials \X Side

VARIABLES
  lines,    \* device -> how many lines its files have of each operation
  phase,    \* exchange -> side -> how far that half of it is
  wire,     \* exchange -> its frames, None for one that was not sent
  batch,    \* exchange -> side -> what its ingest still has to append
  appender, \* device -> who holds AppendLock and the flock on .append.lock
  floor,    \* device -> peer -> actor -> the count in sync-pending.json
  window,   \* TRUE: FastOps no longer lie beyond the skew window
  faults,   \* how many faults are left
  landed,   \* history: the operations a device has ever had on disk
  refused,  \* history: the operations a device dropped as from the future
  damaged,  \* history: <<device, operation>> of every damaged line
  compacted \* history: the operations dropped from their author's file

ghosts == <<landed, refused, damaged, compacted>>
vars == <<lines, phase, wire, batch, appender, floor, window, faults, ghosts>>

Phase == [dialing : {"idle", "asked", "received", "appending", "ingested",
                     "pushed"},
          serving : {"idle", "called", "clocked", "served", "received",
                     "appending", "ingested"}]

Clock == [Device -> [max : Nat, count : Nat]]

FramesOK(w) ==
  /\ DOMAIN w = {"request", "response", "down", "up", "ack"}
  /\ w.request = None \/ w.request \in Clock
  /\ w.response = None \/ w.response \in Clock
  /\ w.down = None \/ w.down \subseteq Op
  /\ w.up = None \/ w.up \subseteq Op
  /\ w.ack \in BOOLEAN

NoFrames == [request |-> None, response |-> None, down |-> None,
             up |-> None, ack |-> FALSE]
Rest == [dialing |-> "idle", serving |-> "idle"]
NoBatch == [dialing |-> {}, serving |-> {}]

----------------------------------------------------------------------------
(***************************************************************************)
(* What a device holds and what a peer lacks (oplog_census.rs).  An actor  *)
(* without an entry in a clock is one with maximum and count 0.            *)
(***************************************************************************)
\* actor_census: the distinct operations that have a readable line.
Census(d) == {o \in Op : lines[d][o] > 0}

Newest(S) == Max({o[2] : o \in S} \cup {0})

LocalVectorClock(d) ==
  [a \in Device |-> [max   |-> Newest(By(a, Census(d))),
                     count |-> Cardinality(By(a, Census(d)))]]

\* Mutated form: the watermark alone, as before the counts were sent.
NoGapBelow(S, c) == FALSE

\* Mutated form: equal counts are taken for a gap as well.
GapOrNone(S, c) ==
  c.count > 0 /\ Cardinality({o \in S : o[2] <= c.max}) >= c.count

\* More operations of an actor up to the peer's maximum than the peer counts.
GapBelow(S, c) == Cardinality({o \in S : o[2] <= c.max}) > c.count

\* Mutated form: what the announce is about and nothing before it.
NewestMissing(d, clock) ==
  {o \in Census(d) : o[2] = Newest(By(o[1], Census(d)))
                     /\ o[2] > clock[o[1]].max}

OpsMissingFor(d, clock) ==
  {o \in Census(d) : \/ GapBelow(By(o[1], Census(d)), clock[o[1]])
                     \/ o[2] > clock[o[1]].max}

\* The gate of ingest_received_ops.
TooFarAhead(o) == o \in FastOps /\ ~ window

----------------------------------------------------------------------------
Host(x, side) == IF side = "dialing" THEN x[1] ELSE x[2]

Enter(x, side, p) == phase' = [phase EXCEPT ![x][side] = p]

\* An exchange that is over on both sides leaves nothing on the wire.
Kept(w) == [x \in Dials |-> IF phase'[x] = Rest THEN NoFrames ELSE w[x]]

Raised(f, clock) ==
  [a \in Device |-> IF clock[a].count > f[a] THEN clock[a].count ELSE f[a]]

Init ==
  /\ lines = [d \in Device |-> [o \in Op |-> 0]]
  /\ phase = [x \in Dials |-> Rest]
  /\ wire = [x \in Dials |-> NoFrames]
  /\ batch = [x \in Dials |-> NoBatch]
  /\ appender = [d \in Device |-> None]
  /\ floor = [d \in Device |-> [p \in Device |-> [a \in Device |-> 0]]]
  /\ window = (FastOps = {})
  /\ faults = MaxFaults
  /\ landed = [d \in Device |-> {}]
  /\ refused = [d \in Device |-> {}]
  /\ damaged = {}
  /\ compacted = {}

----------------------------------------------------------------------------
(***************************************************************************)
(* A local edit: JsonlStorage appends to the device's own file, which only *)
(* the holder of its ActorWriteLock may touch.                             *)
(***************************************************************************)
Write(d) ==
  LET o == <<d, Newest(By(d, landed[d])) + 1>> IN
  /\ o \in Op
  /\ lines' = [lines EXCEPT ![d][o] = 1]
  /\ landed' = [landed EXCEPT ![d] = @ \cup {o}]
  /\ UNCHANGED <<phase, wire, batch, appender, floor, window, faults,
                 refused, damaged, compacted>>

(***************************************************************************)
(* outl compact --apply rewrites the device's own file without its inert   *)
(* operations.  It has the workspace to itself, so no exchange is running  *)
(* there; dials and clocks of before it are not held by anyone.            *)
(***************************************************************************)
Compact(d) ==
  LET drops == By(d, Census(d)) \cap Inert IN
  /\ faults > 0 /\ faults' = faults - 1
  /\ drops # {}
  /\ \A x \in Dials, side \in Side :
       Host(x, side) = d => phase[x][side] = "idle"
  /\ lines' = [lines EXCEPT ![d] =
                 [o \in Op |-> IF o \in drops THEN 0 ELSE @[o]]]
  /\ compacted' = compacted \cup drops
  /\ UNCHANGED <<phase, wire, batch, appender, floor, window, landed,
                 refused, damaged>>

(***************************************************************************)
(* The dialing half.  The catch-up tick, a gossip announce and a forced    *)
(* pass all come here, one at a time per peer: try_acquire_in_flight.      *)
(***************************************************************************)
Dial(x) ==
  /\ phase[x] = Rest
  /\ phase' = [phase EXCEPT ![x] = [dialing |-> "asked",
                                    serving |-> "called"]]
  /\ wire' = [wire EXCEPT ![x] =
                [NoFrames EXCEPT !.request = LocalVectorClock(x[1])]]
  /\ UNCHANGED <<lines, batch, appender, floor, window, faults, ghosts>>

\* The log is read again after the ingest, for the clock read before it.
Push(x) ==
  /\ phase[x]["dialing"] = "ingested"
  /\ Enter(x, "dialing", "pushed")
  /\ wire' = [wire EXCEPT ![x].up = OpsMissingFor(x[1], wire[x].response)]
  /\ UNCHANGED <<lines, batch, appender, floor, window, faults, ghosts>>

\* Mutated form: the floor is raised by what the log holds when the
\* confirmation arrives.
SyncedWithNow(x) ==
  /\ phase[x]["dialing"] = "pushed" /\ wire[x].ack
  /\ Enter(x, "dialing", "idle")
  /\ floor' = [floor EXCEPT ![x[1]][x[2]] =
                 Raised(Raised(@, wire[x].response), LocalVectorClock(x[1]))]
  /\ wire' = Kept(wire)
  /\ UNCHANGED <<lines, batch, appender, window, faults, ghosts>>

\* read_ack, then pending::pushed with the clocks both sides sent.
Synced(x) ==
  /\ phase[x]["dialing"] = "pushed" /\ wire[x].ack
  /\ Enter(x, "dialing", "idle")
  /\ floor' = [floor EXCEPT ![x[1]][x[2]] =
                 Raised(Raised(@, wire[x].response), wire[x].request)]
  /\ wire' = Kept(wire)
  /\ UNCHANGED <<lines, batch, appender, window, faults, ghosts>>

(***************************************************************************)
(* The serving half.  Its clock and the operations it sends come from two  *)
(* reads of the log.                                                       *)
(***************************************************************************)
SendClock(x) ==
  /\ phase[x]["serving"] = "called"
  /\ Enter(x, "serving", "clocked")
  /\ wire' = [wire EXCEPT ![x].response = LocalVectorClock(x[2])]
  /\ UNCHANGED <<lines, batch, appender, floor, window, faults, ghosts>>

SendOps(x) ==
  /\ phase[x]["serving"] = "clocked"
  /\ Enter(x, "serving", "served")
  /\ wire' = [wire EXCEPT ![x].down = OpsMissingFor(x[2], wire[x].request)]
  /\ UNCHANGED <<lines, batch, appender, floor, window, faults, ghosts>>

\* Mutated form: the exchange is confirmed when the push has been read.
ConfirmReceived(x) ==
  /\ phase[x]["serving"] \in {"received", "appending", "ingested"}
  /\ Enter(x, "serving", "idle")
  /\ batch' = [batch EXCEPT ![x]["serving"] = {}]
  /\ wire' = Kept([wire EXCEPT ![x].ack = TRUE])
  /\ floor' = [floor EXCEPT ![x[2]][x[1]] = Raised(@, wire[x].request)]
  /\ UNCHANGED <<lines, appender, window, faults, ghosts>>

\* ACK_DURABLE, then pending::served with the clock of the request.
Confirm(x) ==
  /\ phase[x]["serving"] = "ingested"
  /\ Enter(x, "serving", "idle")
  /\ wire' = Kept([wire EXCEPT ![x].ack = TRUE])
  /\ floor' = [floor EXCEPT ![x[2]][x[1]] = Raised(@, wire[x].request)]
  /\ UNCHANGED <<lines, batch, appender, window, faults, ghosts>>

----------------------------------------------------------------------------
(***************************************************************************)
(* The ingest both halves share: the gate, the lock, the dedup against the *)
(* disk under it, one append with its fsync per author's file.             *)
(***************************************************************************)
Receive(x, side) ==
  LET frame == IF side = "dialing" THEN wire[x].down ELSE wire[x].up
      late  == {o \in frame : TooFarAhead(o)}
      next  == IF late = frame THEN "ingested" ELSE "received"
  IN  /\ phase[x][side] = (IF side = "dialing" THEN "asked" ELSE "served")
      /\ frame # None
      /\ Enter(x, side, next)
      /\ batch' = [batch EXCEPT ![x][side] = frame \ late]
      /\ refused' = [refused EXCEPT ![Host(x, side)] = @ \cup late]
      /\ UNCHANGED <<lines, wire, appender, floor, window, faults, landed,
                     damaged, compacted>>

\* Mutated form: an append that waits for nobody.
FreeAnyway(d) == TRUE

Free(d) == appender[d] = None

\* Mutated form: whoever's operations they are, they are appended.
DedupForeign(x, side) ==
  LET d    == Host(x, side)
      todo == batch[x][side] \ Census(d)
  IN  /\ phase[x][side] = "received"
      /\ Free(d)
      /\ batch' = [batch EXCEPT ![x][side] = todo]
      /\ Enter(x, side, IF todo = {} THEN "ingested" ELSE "appending")
      /\ appender' = [appender EXCEPT
                        ![d] = IF todo = {} THEN @ ELSE <<x, side>>]
      /\ UNCHANGED <<lines, wire, floor, window, faults, ghosts>>

\* A peer may not write this device's own file; what is there is dropped.
Dedup(x, side) ==
  LET d    == Host(x, side)
      todo == {o \in batch[x][side] : o[1] # d /\ o \notin Census(d)}
  IN  /\ phase[x][side] = "received"
      /\ Free(d)
      /\ batch' = [batch EXCEPT ![x][side] = todo]
      /\ Enter(x, side, IF todo = {} THEN "ingested" ELSE "appending")
      /\ appender' = [appender EXCEPT
                        ![d] = IF todo = {} THEN @ ELSE <<x, side>>]
      /\ UNCHANGED <<lines, wire, floor, window, faults, ghosts>>

AppendFile(x, side) ==
  LET d == Host(x, side) IN
  /\ phase[x][side] = "appending"
  /\ \E a \in {o[1] : o \in batch[x][side]} :
       LET file == By(a, batch[x][side])
           rest == batch[x][side] \ file
       IN  /\ lines' = [lines EXCEPT ![d] =
                          [o \in Op |-> @[o] + IF o \in file THEN 1 ELSE 0]]
           /\ landed' = [landed EXCEPT ![d] = @ \cup file]
           /\ batch' = [batch EXCEPT ![x][side] = rest]
           /\ IF rest = {}
              THEN /\ Enter(x, side, "ingested")
                   /\ appender' = [appender EXCEPT ![d] = None]
              ELSE UNCHANGED <<phase, appender>>
  /\ UNCHANGED <<wire, floor, window, faults, refused, damaged, compacted>>

----------------------------------------------------------------------------
\* What goes wrong.

\* Mutated form: the error path keeps the lock.
AppendFailsHolding(x, side) ==
  /\ faults > 0 /\ faults' = faults - 1
  /\ phase[x][side] = "appending"
  /\ Enter(x, side, "idle")
  /\ batch' = [batch EXCEPT ![x][side] = {}]
  /\ wire' = Kept(wire)
  /\ UNCHANGED <<lines, appender, floor, window, ghosts>>

\* An append fails and the exchange with it; earlier files stay written.
AppendFails(x, side) ==
  /\ faults > 0 /\ faults' = faults - 1
  /\ phase[x][side] = "appending"
  /\ Enter(x, side, "idle")
  /\ batch' = [batch EXCEPT ![x][side] = {}]
  /\ appender' = [appender EXCEPT ![Host(x, side)] = None]
  /\ wire' = Kept(wire)
  /\ UNCHANGED <<lines, floor, window, ghosts>>

\* The connection is lost or a timeout ends the dialing half.
LoseConnection(x) ==
  /\ faults > 0 /\ faults' = faults - 1
  /\ phase[x]["dialing"] \in {"asked", "ingested", "pushed"}
  /\ Enter(x, "dialing", "idle")
  /\ wire' = Kept(wire)
  /\ UNCHANGED <<lines, batch, appender, floor, window, ghosts>>

\* The serving half is gone and what the dialing half waits for with it.
DialFails(x) ==
  /\ phase[x]["serving"] = "idle"
  /\ \/ phase[x]["dialing"] = "asked" /\ wire[x].down = None
     \/ phase[x]["dialing"] \in {"ingested", "pushed"} /\ ~ wire[x].ack
  /\ Enter(x, "dialing", "idle")
  /\ wire' = Kept(wire)
  /\ UNCHANGED <<lines, batch, appender, floor, window, faults, ghosts>>

\* The dialing half is gone: a read or a write of the serving half fails.
ServeFails(x) ==
  /\ phase[x]["dialing"] = "idle"
  /\ phase[x]["serving"] \in {"called", "clocked", "served", "ingested"}
  /\ Enter(x, "serving", "idle")
  /\ wire' = Kept(wire)
  /\ UNCHANGED <<lines, batch, appender, floor, window, faults, ghosts>>

(***************************************************************************)
(* The process of a device ends and a new one starts.  A batch is in       *)
(* timestamp order, so an append that was cut off leaves the first lines   *)
(* of one author's file; the next append heals the torn one.               *)
(***************************************************************************)
CutOff(d) ==
  IF appender[d] = None THEN {{}}
  ELSE LET left == batch[appender[d][1]][appender[d][2]] IN
       {{o \in left : o[1] = p[1] /\ o[2] < p[2]} : p \in left}

Crash(d) ==
  /\ faults > 0 /\ faults' = faults - 1
  /\ \E x \in Dials, side \in Side :
       Host(x, side) = d /\ phase[x][side] # "idle"
  /\ \E kept \in CutOff(d) :
       /\ lines' = [lines EXCEPT ![d] =
                      [o \in Op |-> @[o] + IF o \in kept THEN 1 ELSE 0]]
       /\ landed' = [landed EXCEPT ![d] = @ \cup kept]
  /\ phase' = [x \in Dials |-> [s \in Side |->
                 IF Host(x, s) = d THEN "idle" ELSE phase[x][s]]]
  /\ batch' = [x \in Dials |-> [s \in Side |->
                 IF Host(x, s) = d THEN {} ELSE batch[x][s]]]
  /\ appender' = [appender EXCEPT ![d] = None]
  /\ wire' = Kept(wire)
  /\ UNCHANGED <<floor, window, refused, damaged, compacted>>

\* A line of a peer's file becomes unreadable: the reader skips it.
Damage(d, o) ==
  /\ faults > 0 /\ faults' = faults - 1
  /\ o \in Fragile /\ o[1] # d /\ lines[d][o] > 0
  /\ lines' = [lines EXCEPT ![d][o] = 0]
  /\ damaged' = damaged \cup {<<d, o>>}
  /\ UNCHANGED <<phase, wire, batch, appender, floor, window, landed, refused,
                 compacted>>

\* The wall clocks of the others catch up with the one that was ahead.
WindowPasses ==
  /\ ~ window /\ window' = TRUE
  /\ UNCHANGED <<lines, phase, wire, batch, appender, floor, faults, ghosts>>

----------------------------------------------------------------------------
Work(x) ==
  \/ Dial(x) \/ Push(x) \/ Synced(x)
  \/ SendClock(x) \/ SendOps(x) \/ Confirm(x)
  \/ \E side \in Side :
       Receive(x, side) \/ Dedup(x, side) \/ AppendFile(x, side)
  \/ DialFails(x) \/ ServeFails(x)

Next ==
  \/ \E x \in Dials : Work(x)
  \/ \E x \in Dials : LoseConnection(x)
                      \/ \E side \in Side : AppendFails(x, side)
  \/ \E d \in Device : Write(d) \/ Compact(d) \/ Crash(d)
  \/ \E d \in Device, o \in Op : Damage(d, o)
  \/ WindowPasses

(***************************************************************************)
(* The catch-up loop dials every listed peer again at the latest ten       *)
(* seconds after its last success, and the runtime runs every task that    *)
(* can go on; nobody has to write, and nothing has to fail.                *)
(***************************************************************************)
Fairness ==
  /\ WF_vars(WindowPasses)
  /\ \A x \in Dials :
       /\ WF_vars(Dial(x))
       /\ WF_vars(Push(x)) /\ WF_vars(Synced(x)) /\ WF_vars(DialFails(x))
       /\ WF_vars(SendClock(x)) /\ WF_vars(SendOps(x)) /\ WF_vars(Confirm(x))
       /\ WF_vars(ServeFails(x))
       /\ \A side \in Side :
            WF_vars(Receive(x, side) \/ Dedup(x, side) \/ AppendFile(x, side))

Spec == Init /\ [][Next]_vars /\ Fairness

----------------------------------------------------------------------------
(***************************************************************************)
(* The variables have their types, and whoever holds the append lock of a  *)
(* device is an ingest of that device which is in the middle of it.        *)
(***************************************************************************)
TypeOK ==
  /\ lines \in [Device -> [Op -> Nat]]
  /\ phase \in [Dials -> Phase]
  /\ DOMAIN wire = Dials /\ \A x \in Dials : FramesOK(wire[x])
  /\ batch \in [Dials -> [Side -> SUBSET Op]]
  /\ DOMAIN appender = Device
  /\ floor \in [Device -> [Device -> [Device -> Nat]]]
  /\ window \in BOOLEAN /\ faults \in 0..MaxFaults
  /\ landed \in [Device -> SUBSET Op] /\ refused \in [Device -> SUBSET Op]
  /\ damaged \subseteq Device \X Op
  /\ \A d \in Device : appender[d] # None =>
       /\ appender[d] \in Dials \X Side
       /\ Host(appender[d][1], appender[d][2]) = d
       /\ phase[appender[d][1]][appender[d][2]] = "appending"

(***************************************************************************)
(* No operation gets a second line on any disk, whatever exchanges ingest  *)
(* it at once and however often it is sent again: the dedup of             *)
(* write_deduped_batch reads the log under the lock it appends under.      *)
(***************************************************************************)
OneLineEach == \A d \in Device, o \in Op : lines[d][o] <= 1

(***************************************************************************)
(* Unless a line was damaged, a device holds a prefix of each author's     *)
(* history, but for what compaction dropped: partial appends, cut-off      *)
(* batches, operations relayed by a device that lags behind and operations *)
(* refused for a while leave no hole.  The per-actor cutoff of a snapshot  *)
(* rests on this.                                                          *)
(***************************************************************************)
NoHoles ==
  damaged = {} =>
    \A d \in Device : \A o \in Census(d), p \in Op :
      p[1] = o[1] /\ p[2] < o[2] => p \in Census(d) \cup compacted

(***************************************************************************)
(* When the confirmation is under way, everything the exchange pushed is   *)
(* on the responder's disk, or was refused there as from the future.       *)
(***************************************************************************)
ConfirmedIsDurable ==
  \A x \in Dials :
    phase[x]["dialing"] = "pushed" /\ wire[x].ack =>
      wire[x].up \subseteq landed[x[2]] \cup refused[x[2]]

\* The operations whose line on a device was damaged at some time.
Lost(d) == {o \in Op : <<d, o>> \in damaged}

(***************************************************************************)
(* A floor never claims more of an actor than the peer has got (or has     *)
(* refused), although it is raised by a clock taken before the push and    *)
(* although equal counts of different operations send nothing.  Only what  *)
(* a damaged line takes from this device's own disk between that clock and *)
(* the push is counted and not pushed.                                     *)
(***************************************************************************)
FloorIsEarned ==
  \A d, p, a \in Device :
    floor[d][p][a] <= Cardinality(By(a, landed[p] \cup refused[p]))
                        + Cardinality(By(a, Lost(d)))

Written == UNION {By(d, landed[d]) : d \in Device}

(***************************************************************************)
(* From some time on every device holds every operation ever written, or   *)
(* lacks only what compaction dropped, with relays, lost connections,      *)
(* crashes, damaged lines and refused operations on the way.               *)
(***************************************************************************)
Converges ==
  <>[](\A d \in Device :
         Census(d) \subseteq Written /\ Written \subseteq Census(d) \cup compacted)

Quiet == \A x \in Dials : {wire[x].down, wire[x].up} \subseteq {None, {}}

(***************************************************************************)
(* Once that is so and nothing was compacted, exchanges carry no           *)
(* operations any more: no resend goes on for ever.                        *)
(***************************************************************************)
FallsQuiet == <>[](Quiet \/ compacted # {})

(***************************************************************************)
(* The same, whether or not somebody compacts the log of a device.  RFC    *)
(* 0256 expects a peer with the full history to deliver the dropped        *)
(* operations again until the log has them back; write_deduped_batch       *)
(* refuses the device's own operations, so it never has.                   *)
(***************************************************************************)
QuietAfterCompaction == <>[]Quiet

(***************************************************************************)
(* The exchange keeps what LogExchange promises: a device's own log is     *)
(* written by nobody else, also when peers offer it what compaction took,  *)
(* logs hold nothing that was not written, and what one log goes on        *)
(* holding reaches every other one.                                        *)
(***************************************************************************)
Promise == INSTANCE LogExchange
             WITH written <- Written, held <- [d \in Device |-> Census(d)]

ImplementsLogExchange == Promise!Spec
============================================================================

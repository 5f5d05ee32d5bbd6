-------------------------------- MODULE Hlc --------------------------------
(***************************************************************************)
(* The hybrid logical clock of one device (outl-core hlc.rs) and what      *)
(* keeps it above the op log: seeding at boot and at every reload          *)
(* (workspace/clock.rs), the skew gate and observe on the plugin pull      *)
(* path, and the contains_ts check that silently drops an operation whose  *)
(* timestamp the log already holds.  The wall clock moves any way it       *)
(* likes, and may be unreadable (set before the epoch).                    *)
(***************************************************************************)
EXTENDS Integers, FiniteSets

CONSTANTS
  Me,          \* this device's actor id
  Actor,       \* all actor ids, integers: the last tiebreak of the order
  MaxMs,       \* u64::MAX
  MaxLogical,  \* u32::MAX
  Skew,        \* MAX_CLOCK_SKEW_MS
  Walls,       \* the readings of the wall clock
  Unreadable,  \* the reading of a clock before the epoch
  MaxOps       \* bound on the operations in the log when one is added

ASSUME HlcConstants ==
  /\ Actor \subseteq Int /\ Me \in Actor
  /\ MaxMs \in Nat /\ MaxLogical \in Nat /\ Skew \in Nat /\ MaxOps \in Nat
  /\ Walls \subseteq 0..MaxMs
  /\ Unreadable \notin Walls

VARIABLES
  wall,     \* what the wall clock reads
  clock,    \* HlcGenerator's State
  mem,      \* the timestamps in the resident log
  disk,     \* the timestamps in the ops-*.jsonl files
  high,     \* history: the largest timestamp this process has met
  clamped   \* history: a seed of this process was lowered to the ceiling

vars == <<wall, clock, mem, disk, high, clamped>>

Reading == [ms : 0..MaxMs, logical : 0..MaxLogical]
Stamp == [ms : 0..MaxMs, logical : 0..MaxLogical, actor : Actor]

\* Hlc::cmp.
Behind(s, t) == s.ms < t.ms \/ (s.ms = t.ms /\ s.logical < t.logical)
Before(s, t) ==
  \/ Behind(s, t)
  \/ s.ms = t.ms /\ s.logical = t.logical /\ s.actor < t.actor

Largest(S) == CHOOSE t \in S : \A u \in S : u = t \/ Before(u, t)

Stamped(s) == [ms |-> s.ms, logical |-> s.logical, actor |-> Me]

\* The timestamp a new generator starts from, and never issues.
Zero == [ms |-> 0, logical |-> 0, actor |-> Me]

\* After this one there is no larger timestamp to issue.
Exhausted(t) == t.ms = MaxMs /\ t.logical = MaxLogical

Capped(n) == IF n > MaxMs THEN MaxMs ELSE n

----------------------------------------------------------------------------
Now == IF wall = Unreadable THEN 0 ELSE wall

\* Mutated form: the counter saturates instead of carrying.
TickSaturating(s) ==
  IF Now > s.ms THEN [ms |-> Now, logical |-> 0]
  ELSE IF s.logical < MaxLogical THEN [s EXCEPT !.logical = @ + 1]
  ELSE s

\* Mutated form: the counter overflows.
TickUnchecked(s) ==
  IF Now > s.ms THEN [ms |-> Now, logical |-> 0]
  ELSE [s EXCEPT !.logical = @ + 1]

Tick(s) ==
  IF Now > s.ms THEN [ms |-> Now, logical |-> 0]
  ELSE IF s.logical < MaxLogical THEN [s EXCEPT !.logical = @ + 1]
  ELSE [ms |-> Capped(s.ms + 1), logical |-> 0]

RaiseTo(s, t) ==
  IF Behind(s, t) THEN [ms |-> t.ms, logical |-> t.logical] ELSE s

\* Mutated form: skew_ahead_ms without its window.
TooFarAheadNever(t) == FALSE

\* skew_ahead_ms: an unreadable clock judges nothing.
TooFarAhead(t) == wall # Unreadable /\ t.ms - wall > Skew

\* clamp_to_skew_window.
Clamp(t) ==
  IF TooFarAhead(t) THEN [t EXCEPT !.ms = Capped(wall + Skew), !.logical = 0]
  ELSE t

\* seed_clock: max_known_hlc over every actor, clamped, if there is any.
Seeded(s) == IF disk = {} THEN s ELSE RaiseTo(s, Clamp(Largest(disk)))

SeedClamps == disk # {} /\ TooFarAhead(Largest(disk))

\* What a seed puts behind the clock: all of the log, or what lies below the
\* ceiling.
Covered == IF SeedClamps THEN {t \in disk : t.ms < wall + Skew} ELSE disk

----------------------------------------------------------------------------
Init ==
  /\ wall \in Walls \cup {Unreadable}
  /\ clock = [ms |-> 0, logical |-> 0]
  /\ mem = {} /\ disk = {} /\ high = Zero /\ clamped = FALSE

WallMoves ==
  /\ wall' \in (Walls \cup {Unreadable}) \ {wall}
  /\ UNCHANGED <<clock, mem, disk, high, clamped>>

\* HlcGenerator::next for an edit, and Workspace::apply: is_new decides
\* whether the operation is recorded at all.
Write ==
  /\ Cardinality(disk) < MaxOps
  /\ clock' = Tick(clock)
  /\ mem' = mem \cup {Stamped(clock')}
  /\ disk' = IF Stamped(clock') \in mem THEN disk
             ELSE disk \cup {Stamped(clock')}
  /\ high' = Largest({high, Stamped(clock')})
  /\ UNCHANGED <<wall, clamped>>

(***************************************************************************)
(* PluginHost::sync_pull: the gate, observe, and Workspace::apply, whose   *)
(* append JsonlStorage refuses for a foreign actor: memory only.           *)
(***************************************************************************)
Pull(t) ==
  /\ Cardinality(mem) < MaxOps
  /\ ~ TooFarAhead(t)
  /\ clock' = Tick(RaiseTo(clock, t))
  /\ mem' = mem \cup {t}
  /\ high' = Largest({high, t, Stamped(clock')})
  /\ UNCHANGED <<wall, disk, clamped>>

\* A peer's operation lands in its file; the file transports have no gate.
Arrive(t) ==
  /\ Cardinality(disk) < MaxOps
  /\ disk' = disk \cup {t}
  /\ UNCHANGED <<wall, clock, mem, high, clamped>>

\* reload_workspace: the log is read again and the live clock is seeded.
Reload ==
  /\ clock' = Seeded(clock)
  /\ mem' = disk
  /\ high' = Largest({high} \cup Covered)
  /\ clamped' = (clamped \/ SeedClamps)
  /\ UNCHANGED <<wall, disk>>

\* Mutated form: an open site that forgets seed_clock.
BootUnseeded ==
  /\ clock' = [ms |-> 0, logical |-> 0]
  /\ mem' = disk
  /\ high' = Zero /\ clamped' = FALSE
  /\ UNCHANGED <<wall, disk>>

\* A new process: a new generator, the log from disk, seed_clock.
Boot ==
  /\ clock' = Seeded([ms |-> 0, logical |-> 0])
  /\ mem' = disk
  /\ high' = Largest({Zero} \cup Covered)
  /\ clamped' = SeedClamps
  /\ UNCHANGED <<wall, disk>>

Next ==
  \/ WallMoves
  \/ Write
  \/ \E t \in Stamp : t.actor # Me /\ (Pull(t) \/ Arrive(t))
  \/ Reload
  \/ Boot

Spec == Init /\ [][Next]_vars

----------------------------------------------------------------------------
\* Type invariant: no component leaves its integer width.
TypeOK ==
  /\ wall \in Walls \cup {Unreadable}
  /\ clock \in Reading
  /\ mem \subseteq Stamp /\ disk \subseteq Stamp /\ high \in Stamp
  /\ clamped \in BOOLEAN

(***************************************************************************)
(* Every timestamp issued sorts strictly after all that this process       *)
(* issued, observed or was seeded with, however the wall clock moved, also *)
(* when the logical counter is full, until it has met the largest          *)
(* timestamp there is: the tick after that one starts the counter of the   *)
(* last millisecond again (docs/crdt.md, the clock rules).                 *)
(***************************************************************************)
IssuesRise ==
  [][Write /\ ~ Exhausted(high) => Before(high, Stamped(clock'))]_vars

(***************************************************************************)
(* An edit is recorded: contains_ts can take a fresh local operation for a *)
(* repeated one, and drop it, only in a process whose seed was clamped.    *)
(***************************************************************************)
RecordedUnlessClamped ==
  [][Write /\ ~ Exhausted(high) /\ ~ clamped
       => Stamped(clock') \notin mem]_vars

(***************************************************************************)
(* No timestamp of somebody else's clock takes this device beyond the      *)
(* window its peers accept: booting stays inside it, and what a reload or  *)
(* a pull raises stays inside it but for the one millisecond a carry adds. *)
(***************************************************************************)
RaisesStayInWindow ==
  [][wall # Unreadable =>
       /\ Boot => clock'.ms <= wall + Skew
       /\ Reload \/ (\E t \in Stamp : Pull(t)) =>
            clock'.ms <= clock.ms \/ clock'.ms <= wall + Skew
              \/ (clock'.logical = 0 /\ clock'.ms - 1 <= wall + Skew)
              \/ (clock'.logical = 0 /\ clock'.ms - 1 <= clock.ms)]_vars
=============================================================================

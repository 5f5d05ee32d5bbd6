---------------------------- MODULE LogExchange ----------------------------
(***************************************************************************)
(* What the exchange of logs promises, without clocks, counts, frames or   *)
(* locks: each device adds to its own log, nobody else ever does, a log    *)
(* takes in what others wrote, and what one device goes on holding every   *)
(* other device comes to hold.                                             *)
(***************************************************************************)
EXTENDS Naturals

CONSTANTS
  Device,
  Op         \* operations: <<the device that writes it, its place>>

VARIABLES
  written,   \* the operations that were ever written
  held       \* device -> the operations in its log

vars == <<written, held>>

Init == written = {} /\ held = [d \in Device |-> {}]

\* The next operation of a device.
Write(d) ==
  \E o \in Op \ written :
    /\ o[1] = d /\ \A p \in Op \ written : p[1] = d => o[2] <= p[2]
    /\ written' = written \cup {o}
    /\ held' = [held EXCEPT ![d] = @ \cup {o}]

\* Operations of others reach the log of a device.
Learn(d, S) ==
  /\ S # {} /\ \A o \in S : o \in written \ held[d] /\ o[1] # d
  /\ held' = [held EXCEPT ![d] = @ \cup S]
  /\ UNCHANGED written

\* A device drops operations of its own, or loses one of another device.
Forget(d, S) ==
  /\ S # {} /\ S \subseteq held[d]
  /\ held' = [held EXCEPT ![d] = @ \ S]
  /\ UNCHANGED written

Next ==
  \E d \in Device :
    Write(d) \/ \E S \in SUBSET Op : Learn(d, S) \/ Forget(d, S)

\* Operations that some log holds and that of d lacks reach it.
Spread(d) ==
  /\ \E e \in Device : \E o \in held[e] : o[1] # d /\ o \notin held[d]
  /\ \E S \in SUBSET Op : Learn(d, S)

Spec == Init /\ [][Next]_vars /\ \A d \in Device : WF_vars(Spread(d))
============================================================================

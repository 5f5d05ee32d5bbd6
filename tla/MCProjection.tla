---------------------------- MODULE MCProjection ----------------------------
(***************************************************************************)
(* Instances of Projection for TLC.                                        *)
(***************************************************************************)
EXTENDS Projection

CONSTANTS client, serve  \* two processes

Times(acts) == [a \in Acts |-> IF a \in DOMAIN acts THEN acts[a] ELSE 0]

\* A client alone: three things happen to its page.
Alone == {<<{client}, Times(b)>> : b \in {
  [save |-> 2, commit |-> 1], [save |-> 1, commit |-> 1, peer |-> 1],
  [save |-> 2, lose |-> 1], [save |-> 1, lose |-> 1, commit |-> 1],
  [save |-> 2, crash |-> 1], [commit |-> 2, crash |-> 1],
  [save |-> 1, fail |-> 1, crash |-> 1], [commit |-> 1, fail |-> 1, crash |-> 1]}}

\* A client and `outl serve': one or two things happen.
Beside == {<<{client, serve}, Times(b)>> : b \in {
  [save |-> 1], [peer |-> 1], [lose |-> 1]}}

Happens == Alone \cup Beside
Appends == [t \in SUBSET {client, serve} |-> IF Cardinality(t) = 1 THEN 5 ELSE 3]
OnePeer == {<<{client, serve}, Times([peer |-> 1])>>}
First == {1}
=============================================================================

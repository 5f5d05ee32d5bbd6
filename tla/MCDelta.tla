------------------------------ MODULE MCDelta ------------------------------
(***************************************************************************)
(* Small instances of DeltaSync for TLC: three devices of which the middle *)
(* one relays, and two devices that dial each other.                       *)
(***************************************************************************)
EXTENDS DeltaSync

CONSTANTS a, b, c

\* b relays what a writes to c.
Row == {<<a, b>>, <<c, b>>}
RowQuota == [d \in Device |-> IF d = a THEN 2 ELSE 0]
RowFragile == {<<a, 1>>}
Ahead == {<<a, 2>>}
Dropped == {<<a, 1>>}
Pair == {<<a, b>>, <<b, a>>}
PairQuota == [d \in Device |-> IF d = a THEN 2 ELSE 0]
============================================================================

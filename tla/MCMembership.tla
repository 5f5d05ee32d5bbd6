---------------------------- MODULE MCMembership ----------------------------
(***************************************************************************)
(* Three devices, two of which are paired at first.                        *)
(***************************************************************************)
EXTENDS Membership

CONSTANTS a, b, c

Couple == {<<a, b>>, <<b, a>>}

Visits == {<<a, c>>, <<c, a>>, <<a, b>>}

Few == [pair |-> 1, remove |-> 1, rotate |-> 1, stop |-> 1, move |-> 1,
        fail |-> 1]
============================================================================

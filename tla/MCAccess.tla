------------------------------- MODULE MCAccess -------------------------------
(***************************************************************************)
(* Values of the constants of Access for TLC.                              *)
(***************************************************************************)
EXTENDS Access

CONSTANTS k1, l1, u1, r1

(* One grain of one lock, and one account, which has the one role.         *)
OneKey == {k1}
OneLockOf == [k \in OneKey |-> l1]
AdmitsOneRole == [l \in {l1} |-> {r1}]
HasRole == [u \in {u1} |-> {r1}]
=============================================================================

----------------------------- MODULE MCLockGrain -----------------------------
(***************************************************************************)
(* Values of the constants of LockGrain for TLC.                           *)
(***************************************************************************)
EXTENDS LockGrain

CONSTANTS k1, k3, l1, u1, u2, r1

(* One grain of one lock.                                                  *)
OneKey == {k1}
OneLockOf == [k \in OneKey |-> l1]

(* k3 is the id of no lock.                                                *)
KnownOrNot == {k1, k3}
KnownOrNotLockOf == [k \in KnownOrNot |-> IF k = k3 THEN NoLock ELSE l1]

AdmitsOneRole == [l \in {l1} |-> {r1}]

(* u1 has an account; u2 is an id that a token or a body may carry anyway. *)
KnownUser == {u1}
BothUsers == {u1, u2}
=============================================================================

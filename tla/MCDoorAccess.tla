----------------------------- MODULE MCDoorAccess -----------------------------
(***************************************************************************)
(* Values of the constants of DoorAccess for TLC.                          *)
(***************************************************************************)
EXTENDS DoorAccess

CONSTANTS h1, h2, l1, door

TwoHosts == {h1, h2}
OneLock == {l1}

(* The device of the lock.                                                 *)
OneClient == {door}
OneLockOf == [c \in OneClient |-> l1]
=============================================================================

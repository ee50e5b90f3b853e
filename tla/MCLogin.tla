------------------------------- MODULE MCLogin -------------------------------
(***************************************************************************)
(* Values of the constants of Login for TLC.                               *)
(***************************************************************************)
EXTENDS Login, TLC

CONSTANTS p1, i1, i2, alice, bob, old, new, r1, r2

OneLogin == {p1}
TwoIds == {i1, i2}
OneName == {alice}
TwoNames == {alice, bob}
TwoPasswords == {old, new}
OneRole == {r1}
TwoRoles == {r1, r2}

Symmetry == Permutations(TwoIds) \cup Permutations(TwoRoles)
=============================================================================

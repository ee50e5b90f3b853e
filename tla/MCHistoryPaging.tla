--------------------------- MODULE MCHistoryPaging ---------------------------
(***************************************************************************)
(* Values of the constants of HistoryPaging for TLC: ints of 5 bits instead *)
(* of 32, sizes from 2 to 3 instead of 10 to 100.                          *)
(***************************************************************************)
EXTENDS HistoryPaging, TLC

CONSTANTS r1, r2, r3, r4, other, l1, l2

FiveRows == {r1, r2, r3, r4, other}
TwoLocks == {l1, l2}

OneOfOther(rows) == [r \in rows |-> IF r = other THEN l2 ELSE l1]
FiveLockOf == OneOfOther(FiveRows)

AllInts == -16..15

FirstPage == {1}

(* Both sides of each bound.                                               *)
EdgeSizes == 1..4

BothSizes == {2, 3}

(* Rows of one lock do not differ in anything but their name.              *)
Symmetry == Permutations({r1, r2, r3, r4})
=============================================================================

\* The same readers: what the pages contain.
CONSTANTS
  r1 = r1
  r2 = r2
  r3 = r3
  r4 = r4
  other = other
  l1 = l1
  l2 = l2
  Rows <- FiveRows
  Locks <- TwoLocks
  LockOf <- FiveLockOf
  MaxInt = 15
  DefaultSize = 2
  LargestSize = 3
  Pages <- FirstPage
  Sizes <- BothSizes
  WalkSizes <- BothSizes
SPECIFICATION Spec
SYMMETRY Symmetry
INVARIANT WalkSeesHistory

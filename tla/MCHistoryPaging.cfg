\* Every page number and the edges of the sizes, on every table; and readers
\* who take page after page while rows come and go.
CONSTANTS
  r1 = r1
  r2 = r2
  r3 = r3
  r4 = r4
  other = other
  l1 = l1
  l2 = l2
  Rows <- FiveRows
  Locks <- TwoLocks
  LockOf <- FiveLockOf
  MaxInt = 15
  DefaultSize = 2
  LargestSize = 3
  Pages <- AllInts
  Sizes <- EdgeSizes
  WalkSizes <- BothSizes
SPECIFICATION Spec
SYMMETRY Symmetry
INVARIANTS
  TypeOK
  PageIsReference
  WalkCountsHistory
  RepeatsTellGaps

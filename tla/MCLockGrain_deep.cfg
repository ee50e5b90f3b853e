CONSTANTS
  k1 = k1
  k3 = k3
  l1 = l1
  u1 = u1
  u2 = u2
  r1 = r1
  NoLock = NoLock
  NoUser = NoUser
  Keys <- KnownOrNot
  Locks = {l1}
  LockOf <- KnownOrNotLockOf
  UserIds = {u1}
  SeedUsers <- KnownUser
  Roles = {r1}
  SeedLockRoles <- AdmitsOneRole
  MaxDecisions = 3
  MaxLostAcks = 1
SPECIFICATION Spec
INVARIANTS
  TypeOK
  NothingForgotten
  DuplicatesOnlyFromLostAcks
  ListHoldsOnlyBacklog
PROPERTY
  ImplementsLog

CONSTANTS
  k1 = k1
  l1 = l1
  u1 = u1
  r1 = r1
  NoLock = NoLock
  NoUser = NoUser
  Keys <- OneKey
  Locks = {l1}
  LockOf <- OneLockOf
  UserIds = {u1}
  SeedUsers = {u1}
  Roles = {r1}
  SeedLockRoles <- AdmitsOneRole
  MaxDecisions = 1
  MaxLostAcks = 0
  Tags = {t1}
  Callers = {c1}
  SeedRoles <- HasRole
  Lifetime = 1
  Skew = 1
  MaxTime = 3
SPECIFICATION AccessSpec
INVARIANT
  AccessTypeOK
PROPERTIES
  GrantsEndAfterRevocation
  DenialsAreJustified

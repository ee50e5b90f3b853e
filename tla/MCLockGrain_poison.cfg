CONSTANTS
  k1 = k1
  k3 = k3
  l1 = l1
  u1 = u1
  u2 = u2
  r1 = r1
  NoLock = NoLock
  NoUser = NoUser
  Keys <- OneKey
  Locks = {l1}
  LockOf <- OneLockOf
  UserIds = {u1, u2}
  SeedUsers <- KnownUser
  Roles = {r1}
  SeedLockRoles <- AdmitsOneRole
  MaxDecisions = 2
  MaxLostAcks = 0
SPECIFICATION FairSpec
PROPERTY
  HistoryEventuallySaved

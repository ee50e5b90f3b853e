\* Two hosts: the device on one, the activation on the other.
CONSTANTS
  h1 = h1
  h2 = h2
  l1 = l1
  door = door
  Hosts <- TwoHosts
  NoHost = NoHost
  Locks <- OneLock
  NoLock = NoLock
  Clients <- OneClient
  NotGuid = NotGuid
  LockOf <- OneLockOf
  MaxRequests = 1
SPECIFICATION Spec
INVARIANT GrantOpensDoor

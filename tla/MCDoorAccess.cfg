\* Two hosts, the device of a lock and the callers of the API.
CONSTANTS
  h1 = h1
  h2 = h2
  l1 = l1
  door = door
  Hosts <- TwoHosts
  NoHost = NoHost
  Locks <- OneLock
  NoLock = NoLock
  Clients <- OneClient
  NotGuid = NotGuid
  LockOf <- OneLockOf
  MaxRequests = 2
SPECIFICATION FairSpec
INVARIANTS
  TypeOK
  ListenersHear
  RepliesAreDecisions
PROPERTIES
  ImplementsPromise
  EveryRequestEnds

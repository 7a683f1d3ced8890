\* Every fault, three requests: the third can arrive after a theft.
SPECIFICATION FairSpec
CONSTANTS
  r1 = r1
  r2 = r2
  r3 = r3
  NoRequest = NoRequest
  Requests <- ThreeRequests
  Faults <- AllFaults
INVARIANTS
  TypeOK
  ExclusiveUntilTheft
  HolderOwnsLock
  GrantedNeverStealsFirst
PROPERTIES
  LockIsFreed
  EveryRequestEnds
\* every request is over and the lock is free
CHECK_DEADLOCK FALSE

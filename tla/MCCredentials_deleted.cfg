\* A user is deleted with her credentials while the server serves others.
SPECIFICATION Spec
CONSTANTS
  alice = alice
  server = server
  l1 = l1
  Users <- AliceAndServer
  Server = server
  LockSlots <- OneSlot
  Deleted <- Alice
  SetupBeside = FALSE
  Faults <- NoFaults
  BitmapSize = 3
  MaxNumberOfVc = 2
  MaxIssued = 3
INVARIANT DeletedRevoked
CHECK_DEADLOCK FALSE

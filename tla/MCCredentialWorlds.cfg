\* What publishes beside the lock: the deletion of a user, or setup-api.
SPECIFICATION WorldSpec
CONSTANTS
  alice = alice
  server = server
  l1 = l1
  Users <- AliceAndServer
  Server = server
  LockSlots <- OneSlot
  Deleted <- Alice
  SetupBeside = TRUE
  Faults <- AllFaults
  BitmapSize = 2
  MaxNumberOfVc = 2
  MaxIssued = 3
PROPERTIES
  RegisterSpec
CHECK_DEADLOCK FALSE

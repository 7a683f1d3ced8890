\* Everything that publishes is under the lock: rejected calls and restarts.
SPECIFICATION Spec
CONSTANTS
  alice = alice
  server = server
  l1 = l1
  Users <- AliceAndServer
  Server = server
  LockSlots <- OneSlot
  Deleted <- Nobody
  SetupBeside = FALSE
  Faults <- AllFaults
  BitmapSize = 2
  MaxNumberOfVc = 2
  MaxIssued = 3
INVARIANTS
  TypeOK
  RevokedOnTangle
  SavedPublished
  ListExact
PROPERTIES
  RegisterSpec
CHECK_DEADLOCK FALSE

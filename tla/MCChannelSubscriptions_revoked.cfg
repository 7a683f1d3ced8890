\* A reader is revoked beside a writer.
SPECIFICATION Spec
CONSTANTS
  alice = alice
  bob = bob
  Author = author
  Subscribers <- TwoSubscribers
  AuthorSlots <- OneSlot
  Rights <- ReadersAndWriters
  Deleted <- Nobody
  MaxFailures = 2
  Faults <- NoFaults
INVARIANT RevokedReadsNothing
CHECK_DEADLOCK FALSE

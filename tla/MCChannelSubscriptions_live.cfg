\* One subscriber and the author, whose own branch is keyed too: every fault.
SPECIFICATION FairSpec
CONSTANTS
  alice = alice
  bob = bob
  Author = author
  Subscribers <- OneSubscriber
  AuthorSlots <- OneSlot
  Rights <- OnlyReaders
  Deleted <- Alice
  MaxFailures = 2
  Faults <- AllFaults
INVARIANTS
  TypeOK
  WaitersServed
PROPERTY AuthorRequestsEnd
\* nothing has to be asked of the channel
CHECK_DEADLOCK FALSE

\* Two subscribers: a quiet channel with all kinds of rights, one where calls
\* fail and the process restarts, and one where a subscription is deleted.
SPECIFICATION WorldSpec
CONSTANTS
  alice = alice
  bob = bob
  Author = author
  Subscribers <- TwoSubscribers
  AuthorSlots <- OneSlot
  Rights <- AnyRight
  Deleted <- TwoSubscribers
  MaxFailures = 1
  Faults <- AllFaults
INVARIANTS
  GrantedReadEverywhere
  RevokedLockedOut
  QuietListExact
  QuietDocsPaired
SYMMETRY SubscriberSymmetry
CHECK_DEADLOCK FALSE

------------------------ MODULE MCChannelSubscriptions ------------------------
(* Instances of ChannelSubscriptions for TLC. *)
EXTENDS ChannelSubscriptions, TLC

CONSTANTS alice, bob

OneSubscriber == {alice}
TwoSubscribers == {alice, bob}
OneSlot == {1}
Nobody == {}
Alice == {alice}

AllFaults == FaultKinds
NoFaults == {}

OnlyReaders == {"Read"}
ReadersAndWriters == {"Read", "Write"}
AnyRight == {"Read", "Write", "Preshared"}

SubscriberSymmetry == Permutations(TwoSubscribers)

==============================================================================

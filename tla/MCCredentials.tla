---------------------------- MODULE MCCredentials ----------------------------
(* Instances of Credentials for TLC. *)
EXTENDS Credentials, TLC

CONSTANTS alice, server, l1

AliceAndServer == {alice, server}
OneSlot == {l1}
Nobody == {}
Alice == {alice}
AllFaults == FaultKinds
NoFaults == {}
==============================================================================

-------------------------- MODULE MCConcurrencyLock --------------------------
(* Instances of ConcurrencyLock for TLC. *)
EXTENDS ConcurrencyLock, TLC

CONSTANTS r1, r2, r3

ThreeRequests == {r1, r2, r3}

AllFaults == FaultKinds
NoFaults == {}
==============================================================================

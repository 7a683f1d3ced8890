------------------------- MODULE CredentialRegister -------------------------
(***************************************************************************)
(* What issuing and revoking promise to somebody who checks a credential   *)
(* against the issuer's identity document on the tangle: a credential is   *)
(* good from the moment it is issued, a revocation somebody asked for is   *)
(* final, and it concerns this credential alone.                           *)
(***************************************************************************)
CONSTANT Credentials

VARIABLES
  standing,  \* what a check finds
  asked      \* the credentials somebody asked to revoke

Init ==
  /\ standing \in [Credentials -> {"unknown", "good"}]
  /\ asked = {}

Issue(c) ==
  /\ standing[c] = "unknown"
  /\ standing' = [standing EXCEPT ![c] = "good"]
  /\ UNCHANGED asked

Ask(cs) ==
  /\ \A c \in cs : standing[c] # "unknown"
  /\ asked' = asked \cup cs
  /\ UNCHANGED standing

Revoke(c) ==
  /\ c \in asked
  /\ standing[c] = "good"
  /\ standing' = [standing EXCEPT ![c] = "revoked"]
  /\ UNCHANGED asked

Next ==
  \/ \E c \in Credentials : Issue(c) \/ Revoke(c)
  \/ \E cs \in SUBSET Credentials : Ask(cs)

Spec == Init /\ [][Next]_<<standing, asked>>

==============================================================================

----------------------------- MODULE MCIdentities -----------------------------
(* Instances of Identities for TLC. *)
EXTENDS Identities

(* From the empty database: the setups, the tool and the faults, no requests. *)
EmptyInit == Empty /\ asked = MaxRequests

(* From where one setup is done and the other ones are as `setup` says. *)
OneDone(setup) ==
  /\ created = 1
  /\ users = [i \in Ids |-> IF i = 1 THEN [name |-> RootName, role |-> "User", root |-> TRUE]
                                     ELSE Missing]
  /\ keys = {1} /\ trusted = {1}
  /\ nonce = [i \in Ids |-> "none"]
  /\ jwt = [c \in Clients |-> NoToken]
  /\ server = 1
  /\ op = [s \in Slots |-> IF s \in Setups THEN setup[s] ELSE Idle]
  /\ owners = {1} /\ done = {1} /\ untrusted = {} /\ claimed = {}
  /\ held = [c \in Clients |-> {}]

Over == [Idle EXCEPT !.pc = "over"]

(* All setups are done: two requests of clients with faults, or all requests without.
   A setup that is killed then is one that is run again. *)
ServedInit ==
  /\ OneDone([p \in Setups |-> Over])
  /\ \/ faults = 0 /\ asked = MaxRequests - 2
     \/ faults = MaxFaults /\ asked = 0

(* All but one, which has looked for a root identity before: two requests. *)
Late == [Idle EXCEPT !.pc = "tangle", !.stored = TRUE, !.asRoot = TRUE]
LateInit ==
  /\ OneDone([p \in Setups |-> IF p = CHOOSE q \in Setups : TRUE THEN Late ELSE Over])
  /\ faults = MaxFaults /\ asked = MaxRequests - 2

MCSpec == (EmptyInit \/ ServedInit \/ LateInit) /\ [][Next]_vars /\ Fairness
==============================================================================

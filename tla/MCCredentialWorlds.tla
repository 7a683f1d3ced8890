-------------------------- MODULE MCCredentialWorlds --------------------------
(* Credentials for TLC, with what publishes beside the lock. *)
EXTENDS MCCredentials

(* Two ways to publish beside the lock, in different behaviours. *)
VARIABLE
  world  \* "delete": identities are deleted with their credentials, setup-api runs
         \* before the server and nothing fails;
         \* "setup": setup-api runs beside the server, with every fault, and the
         \* credentials share one bitmap

(* What SetupBeside = FALSE means. *)
SetupBefore ==
  /\ op[Setup] # Idle => op'[Setup] # op[Setup]
  /\ op'[Setup] # Idle => \A s \in Slots \ {Setup} : op'[s] = Idle

WorldInit == Init /\ world \in {"delete", "setup"}

WorldNext ==
  /\ UNCHANGED world
  /\ \/ /\ world = "delete"
        /\ \/ \E s \in Locked : IssueStart(s) \/ RevokeStart(s)
           \/ \E s \in Locked \cup {Setup} : Issue(s)
           \/ \E s \in Locked \cup Bulk : Revoke(s)
           \/ \E u \in Users : AddUser(u)
           \/ \E u \in Deleted : DeleteStart(u) \/ Delete(u)
           \/ SetupStart \/ keyGeneration
        /\ SetupBefore
     \/ /\ world = "setup"
        /\ \/ \E s \in Locked : IssueStart(s) \/ RevokeStart(s)
           \/ \E s \in Locked \cup {Setup} : Issue(s)
           \/ \E s \in Locked : Revoke(s)
           \/ \E u \in Users : AddUser(u)
           \/ SetupStart \/ keyGeneration
           \/ Crash \/ \E s \in Slots : Fail(s)
        /\ \A i \in issued' : getBitmapIndex(i) = getBitmapIndex(0)

WorldSpec == WorldInit /\ [][WorldNext]_<<vars, world>>
==============================================================================

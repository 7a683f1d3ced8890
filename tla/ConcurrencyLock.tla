--------------------------- MODULE ConcurrencyLock ---------------------------
(***************************************************************************)
(* The request lock of both services (middlewares/concurrency-lock.ts):    *)
(* one document of the concurrency-locks collection, whose _id is the name *)
(* of the lock, exists while a request that took the lock is served.  The  *)
(* credential routes of the ssi-bridge share one name, the channel routes  *)
(* of the audit-trail-gw one name per channel and user; this module is     *)
(* about one name.                                                         *)
(*                                                                         *)
(* pc[r] is the await request r is suspended at:                           *)
(*   "idle"      not received yet                                          *)
(*   "check"     getLock                                                   *)
(*   "insert"    insertLock                                                *)
(*   "rollback"  the removeLock of the catch block                         *)
(*   "handler"   next(): the route handler                                 *)
(*   "respond"   the response is ended, its 'finish' event still to come   *)
(*   "release"   the removeLock of the 'finish' listener                   *)
(*   "done"      nothing of the request is left                            *)
(***************************************************************************)
EXTENDS FiniteSets

CONSTANTS
  Requests,   \* the requests that use this lock, each sent once
  NoRequest,  \* the value of lockDoc when there is no lock document
  Faults      \* which of the faults below happen

FaultKinds ==
  {"close",      \* the client, or server.setTimeout, closes the connection
   "crash",      \* the process exits and is started again
   "database",   \* a command on the collection fails, or only its answer is lost
   "slow"}       \* a handler runs for longer than the lock document lives

ASSUME NoRequestAssumption == NoRequest \notin Requests
ASSUME FaultsAssumption == Faults \subseteq FaultKinds

VARIABLES
  lockDoc,    \* the request whose insert created the document, or NoRequest;
              \* the code stores no owner, the name is all a removal looks at
  pc,
  outcome,    \* what the middleware answered request r
  connected,  \* whether the client's connection is still open
  thefts      \* history: what removed the document of a running holder

vars == <<lockDoc, pc, outcome, connected, thefts>>

PCs == {"idle", "check", "insert", "rollback", "handler", "respond", "release",
        "done"}
Outcomes == {"none", "granted", "refused", "failed"}
Causes == {"granted", "refused", "failed", "expired"}

InFlight(r) == pc[r] \notin {"idle", "done"}
Holding(r) == outcome[r] = "granted" /\ InFlight(r)

------------------------------------------------------------------------------

Init ==
  /\ lockDoc = NoRequest
  /\ pc = [r \in Requests |-> "idle"]
  /\ outcome = [r \in Requests |-> "none"]
  /\ connected = [r \in Requests |-> TRUE]
  /\ thefts = {}

Goto(r, label) == pc' = [pc EXCEPT ![r] = label]
Answer(r, result) == outcome' = [outcome EXCEPT ![r] = result]

(* removeLock deletes whatever document has the name, whoever inserted it. *)
RemoveLock(r) ==
  /\ lockDoc' = NoRequest
  /\ thefts' = IF lockDoc \notin {NoRequest, r} /\ Holding(lockDoc)
                 THEN thefts \cup {outcome[r]} ELSE thefts

------------------------------------------------------------------------------
(* Plausible bugs: forms an action below could have had.  Next uses none. *)

(* The refused request is not answered: it ends with no outcome. *)
GetLockSilent(r) ==
  /\ pc[r] = "check"
  /\ Goto(r, IF lockDoc # NoRequest THEN "respond" ELSE "insert")
  /\ UNCHANGED <<lockDoc, outcome, connected, thefts>>

(* The lock is written with an upsert: no duplicate key. *)
InsertLockUpserts(r) ==
  /\ pc[r] = "insert"
  /\ lockDoc' = IF lockDoc = NoRequest THEN r ELSE lockDoc
  /\ Answer(r, "granted") /\ Goto(r, "handler")
  /\ UNCHANGED <<connected, thefts>>

(* The lock is released on 'close' too. *)
CloseClientReleases(r) ==
  /\ "close" \in Faults
  /\ InFlight(r) /\ connected[r]
  /\ connected' = [connected EXCEPT ![r] = FALSE]
  /\ lockDoc' = IF lockDoc = r THEN NoRequest ELSE lockDoc
  /\ UNCHANGED <<pc, outcome, thefts>>

(* The catch block does not answer. *)
RollbackSilent(r) ==
  /\ pc[r] = "rollback"
  /\ RemoveLock(r)
  /\ UNCHANGED <<pc, outcome, connected>>

(* There is no TTL index. *)
NeverExpire ==
  /\ FALSE
  /\ UNCHANGED vars

------------------------------------------------------------------------------

(* The request arrives: its 'finish' listener is registered before anything
   is known about the lock. *)
Receive(r) ==
  /\ pc[r] = "idle"
  /\ Goto(r, "check")
  /\ UNCHANGED <<lockDoc, outcome, connected, thefts>>

GetLock(r) ==
  /\ pc[r] = "check"
  /\ \/ /\ lockDoc # NoRequest
        /\ Answer(r, "refused")
        /\ Goto(r, "respond")
     \/ /\ lockDoc = NoRequest
        /\ Goto(r, "insert")
        /\ UNCHANGED outcome
     \/ /\ "database" \in Faults
        /\ Answer(r, "failed")
        /\ Goto(r, "rollback")
  /\ UNCHANGED <<lockDoc, connected, thefts>>

(* The _id is unique: an insert beside an existing document throws.  A failed
   command may still have been applied by the database. *)
InsertLock(r) ==
  /\ pc[r] = "insert"
  /\ \/ /\ lockDoc = NoRequest
        /\ lockDoc' = r
        /\ \/ Answer(r, "granted") /\ Goto(r, "handler")
           \/ "database" \in Faults /\ Answer(r, "failed") /\ Goto(r, "rollback")
     \/ /\ lockDoc # NoRequest \/ "database" \in Faults
        /\ Answer(r, "failed") /\ Goto(r, "rollback")
        /\ UNCHANGED lockDoc
  /\ UNCHANGED <<connected, thefts>>

(* The catch block: the lock is removed although the request does not have it,
   then the 500 is sent. *)
Rollback(r) ==
  /\ pc[r] = "rollback"
  /\ RemoveLock(r)
  /\ Goto(r, "respond")
  /\ UNCHANGED <<outcome, connected>>

HandlerDone(r) ==
  /\ pc[r] = "handler"
  /\ Goto(r, "respond")
  /\ UNCHANGED <<lockDoc, outcome, connected, thefts>>

(* 'finish' is emitted once the whole response is handed over to the socket,
   so never for a closed one. *)
Finish(r) ==
  /\ pc[r] = "respond"
  /\ Goto(r, IF connected[r] THEN "release" ELSE "done")
  /\ UNCHANGED <<lockDoc, outcome, connected, thefts>>

(* responseCompleted, for every request the middleware saw. *)
Release(r) ==
  /\ pc[r] = "release"
  /\ RemoveLock(r)
  /\ Goto(r, "done")
  /\ UNCHANGED <<outcome, connected>>

CloseClient(r) ==
  /\ "close" \in Faults
  /\ InFlight(r) /\ connected[r]
  /\ connected' = [connected EXCEPT ![r] = FALSE]
  /\ UNCHANGED <<lockDoc, pc, outcome, thefts>>

(* The index on `created` removes a document of 55 seconds.  Without the fault
   "slow" every request is over by then. *)
Expire ==
  /\ lockDoc # NoRequest
  /\ InFlight(lockDoc) => "slow" \in Faults
  /\ lockDoc' = NoRequest
  /\ thefts' = IF Holding(lockDoc) THEN thefts \cup {"expired"} ELSE thefts
  /\ UNCHANGED <<pc, outcome, connected>>

(* uncaughtException ends in process.exit: what the requests were doing is
   gone, the lock document is not. *)
Crash ==
  /\ "crash" \in Faults
  /\ \E r \in Requests : InFlight(r)
  /\ pc' = [r \in Requests |-> IF InFlight(r) THEN "done" ELSE pc[r]]
  /\ UNCHANGED <<lockDoc, outcome, connected, thefts>>

Serve(r) ==
  \/ GetLock(r) \/ InsertLock(r) \/ Rollback(r)
  \/ HandlerDone(r) \/ Finish(r) \/ Release(r)

Next ==
  \/ \E r \in Requests : Receive(r) \/ Serve(r) \/ CloseClient(r)
  \/ Expire
  \/ Crash

Spec == Init /\ [][Next]_vars

(* Every database command and every call of a handler is answered or rejected
   some day, and the TTL monitor keeps running.  Clients promise nothing. *)
Fairness ==
  /\ \A r \in Requests : WF_vars(Serve(r))
  /\ WF_vars(Expire)

FairSpec == Spec /\ Fairness

------------------------------------------------------------------------------

TypeOK ==
  /\ lockDoc \in Requests \cup {NoRequest}
  /\ pc \in [Requests -> PCs]
  /\ outcome \in [Requests -> Outcomes]
  /\ connected \in [Requests -> BOOLEAN]
  /\ thefts \subseteq Causes

(* The handlers of two requests never run side by side: what the comment in
   basicLock says the lock is kept for. *)
MutualExclusion ==
  \A r, s \in Requests : pc[r] = "handler" /\ pc[s] = "handler" => r = s

(* Looking for the lock and inserting it are two commands with other requests
   in between, a client may be gone and the process may restart: handlers can
   still overlap only after the document of a running holder was removed. *)
ExclusiveUntilTheft == thefts = {} => MutualExclusion

(* The two facts that make ExclusiveUntilTheft inductive: the outcome a request
   has reached at each await, and that a holder's document is its own as long
   as none was stolen. *)
OutcomeOK ==
  \A r \in Requests :
    /\ pc[r] \in {"idle", "check", "insert"} => outcome[r] = "none"
    /\ pc[r] = "handler" => outcome[r] = "granted"
    /\ pc[r] = "rollback" => outcome[r] = "failed"
    /\ pc[r] \in {"respond", "release"} => outcome[r] # "none"

HolderOwnsLock ==
  thefts = {} => \A r \in Requests : Holding(r) => lockDoc = r

(* A request that was granted the lock and served never is the first to remove
   another one's document: that takes a refused request, a failed one or an
   expiry before it. *)
GrantedNeverStealsFirst == "granted" \in thefts => thefts # {"granted"}

(* The lock is never left behind for good: the 'finish' of its request removes
   the document, or, when the client closed the connection or the process
   exited, the TTL index does. *)
LockIsFreed == \A r \in Requests : lockDoc = r ~> lockDoc # r

(* No request stays suspended in the middleware: it is granted, refused or
   failed, and answered. *)
EveryRequestEnds == \A r \in Requests : pc[r] = "check" ~> pc[r] = "done"

=============================================================================

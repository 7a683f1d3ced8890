------------------------ MODULE ChannelSubscriptions ------------------------
(***************************************************************************)
(* The subscriptions of one private channel of the audit-trail-gw          *)
(* (services/subscription-service.ts, routes/subscription): a subscriber   *)
(* requests a subscription, the author authorizes or revokes it by sending *)
(* keyloads, messages that name the public keys that can read what is      *)
(* published after them, and anybody concerned deletes the document.       *)
(*                                                                         *)
(* Every await of a handler is a point where other handlers run, so every  *)
(* handler is a chain of steps and op[s].pc is the await at which the      *)
(* request in slot s is suspended.  A public key is identified with the    *)
(* user it belongs to.  A keyload matters through the set of keys it names *)
(* and through the document whose keyloadLink it becomes: addLog publishes *)
(* a user's logs behind the keyloadLink of her document.                   *)
(***************************************************************************)
EXTENDS Naturals, Sequences, FiniteSets

CONSTANTS
  Subscribers,  \* the users who may subscribe
  Author,       \* the author of the channel
  AuthorSlots,  \* how many of the author's requests are served side by side:
                \* one slot as long as the channel-lock of the author holds
  Rights,       \* what subscribers ask for, see AllRights
  Deleted,      \* the users for whose subscriptions DELETE is called
  Faults,       \* what goes wrong, see FaultKinds
  MaxFailures   \* bound: how many calls are rejected

Users == Subscribers \cup {Author}

(* accessRights, and "Preshared" for a subscription with a preshared key: its
   accessRights are Audit and it has neither a public key nor a
   subscriptionLink. *)
AllRights == {"Audit", "Read", "Write", "ReadAndWrite", "Preshared"}

FaultKinds ==
  {"fail",     \* a call to the tangle or the database is rejected
   "crash"}    \* the process exits and is started again

ASSUME AuthorAssumption == Author \notin Subscribers
ASSUME RightsAssumption == Rights \subseteq AllRights
ASSUME DeletedAssumption == Deleted \subseteq Users
ASSUME ChannelFaultsAssumption == Faults \subseteq FaultKinds
ASSUME MaxFailuresAssumption == MaxFailures \in Nat

(* The requests that are served side by side.  A user has one request of each
   kind in flight; DELETE is not under the channel-lock. *)
RequestSlots == {"request"} \X Subscribers
DeleteSlots == {"delete"} \X Deleted
AuthorOps == {"author"} \X AuthorSlots
Slots == RequestSlots \cup DeleteSlots \cup AuthorOps

VARIABLES
  right,          \* subscriptions: what the user's document grants, "none" if
                  \* she has no document
  authorized,     \* subscriptions: the users whose document has isAuthorized
  readers,        \* the keys named by the keyload behind the keyloadLink
  state,          \* the users with a subscription-state document
  requestedIds,   \* channel-info: requestedSubscriptionIds
  subscriberIds,  \* channel-info: subscriberIds
  queue,          \* who waits for, and the first of whom holds, the mutex of
                  \* sendKeyload, in the order of its calls
  op,             \* the requests being served
  failures,       \* how many calls were rejected
  access          \* history: what the author's requests made of a user's access

docs == <<right, authorized, readers>>
ids == <<requestedIds, subscriberIds>>
vars == <<docs, state, ids, queue, op, failures, access>>

------------------------------------------------------------------------------
(* Documents and requests. *)

Subscribed(u) == right[u] # "none"
HasKey(u) == right[u] \notin {"none", "Preshared"}
Reader(u) == right[u] \in {"Read", "ReadAndWrite"}

(* A plausible bug: the filter does not look at isAuthorized. *)
RequestedReaders == {u \in Users : Reader(u)}

(* The filter of authorizeSubscription and revokeSubscription. *)
ExistingReaders == {u \in authorized : Reader(u)}

PCs ==
  {"idle",
   "rq.key", "rq.state", "rq.doc", "rq.read", "rq.write",
   "au.load", "au.list", "au.send", "au.wait", "au.rekey", "au.waitAll", "au.save",
   "au.readReq", "au.writeReq", "au.readSub", "au.writeSub",
   "rv.list", "rv.send", "rv.wait", "rv.state", "rv.doc", "rv.read",
   "rv.write", "rv.save",
   "de.read", "de.write", "de.doc"}

(* user: whom the request is about; right: what a subscription request asks
   for; was: whether the document a revocation read had isAuthorized; set: the
   readers or the ids the handler read last. *)
Ops == [pc: PCs, user: Users, right: AllRights \cup {"none"}, was: BOOLEAN,
        set: SUBSET Users]

Idle == [pc |-> "idle", user |-> Author, right |-> "none", was |-> FALSE,
         set |-> {}]

Started(label, u) == [Idle EXCEPT !.pc = label, !.user = u]

Goto(s, label) == op' = [op EXCEPT ![s].pc = label]

(* The handler reads `value` and goes on with it. *)
Read(s, value, label) == op' = [op EXCEPT ![s].pc = label, ![s].set = value]

(* The response is sent, with whatever status. *)
End(s) == op' = [op EXCEPT ![s] = Idle]

(* The calls of sendKeyload that a handler makes at once: the same keys for the
   branch of every user in todo.  `live` says that the handler still waits. *)
Batches == [slot: Slots, keys: SUBSET Users, todo: (SUBSET Users) \ {{}},
            live: BOOLEAN]

(* A plausible bug: the mutex serves its latest caller first. *)
SendKeyloadsLIFO(s, namedKeys, branches) ==
  queue' = <<[slot |-> s, keys |-> namedKeys, todo |-> branches, live |-> TRUE]>>
             \o queue

SendKeyloads(s, namedKeys, branches) ==
  queue' = Append(queue, [slot |-> s, keys |-> namedKeys, todo |-> branches,
                          live |-> TRUE])

Init ==
  /\ right = [u \in Users |-> IF u = Author THEN "ReadAndWrite" ELSE "none"]
  /\ authorized = {Author}
  /\ readers = [u \in Users |-> {}]
  /\ state = {Author}
  /\ requestedIds = {}
  /\ subscriberIds = {}
  /\ queue = <<>>
  /\ op = [s \in Slots |-> Idle]
  /\ failures = 0
  /\ access = [u \in Subscribers |-> "none"]

------------------------------------------------------------------------------
(* requestSubscription *)

RequestStart(u) ==
  LET s == <<"request", u>> IN
  /\ op[s] = Idle
  /\ ~Subscribed(u)
  /\ \E g \in Rights :
       op' = [op EXCEPT ![s] = [Started("rq.key", u) EXCEPT !.right = g]]
  /\ UNCHANGED <<docs, state, ids, queue, failures, access>>

(* 'public key already used': only a key that was sent on the tangle counts. *)
RequestCheckKey(u) ==
  LET s == <<"request", u>> IN
  /\ op[s].pc = "rq.key"
  /\ IF op[s].right # "Preshared" /\ HasKey(u) THEN End(s) ELSE Goto(s, "rq.state")
  /\ UNCHANGED <<docs, state, ids, queue, failures, access>>

(* The _id of the state document is unique, and so is that of the subscription:
   a second insert throws. *)
RequestAddState(u) ==
  LET s == <<"request", u>> IN
  /\ op[s].pc = "rq.state"
  /\ state' = state \cup {u}
  /\ IF u \in state THEN End(s) ELSE Goto(s, "rq.doc")
  /\ UNCHANGED <<docs, ids, queue, failures, access>>

RequestAddDoc(u) ==
  LET s == <<"request", u>> IN
  /\ op[s].pc = "rq.doc"
  /\ IF Subscribed(u)
       THEN End(s) /\ UNCHANGED docs
       ELSE /\ right' = [right EXCEPT ![u] = op[s].right]
            /\ authorized' = IF op[s].right = "Preshared"
                               THEN authorized \cup {u} ELSE authorized
            /\ UNCHANGED readers
            /\ Goto(s, "rq.read")
  /\ UNCHANGED <<state, ids, queue, failures, access>>

(* addChannelRequestedSubscriptionId reads the array and writes it back. *)
RequestReadIds(u) ==
  LET s == <<"request", u>> IN
  /\ op[s].pc = "rq.read"
  /\ Read(s, requestedIds, "rq.write")
  /\ UNCHANGED <<docs, state, ids, queue, failures, access>>

RequestWriteIds(u) ==
  LET s == <<"request", u>> IN
  /\ op[s].pc = "rq.write"
  /\ requestedIds' = op[s].set \cup {u}
  /\ End(s)
  /\ UNCHANGED <<docs, state, subscriberIds, queue, failures, access>>

Request(u) ==
  \/ RequestCheckKey(u) \/ RequestAddState(u) \/ RequestAddDoc(u)
  \/ RequestReadIds(u) \/ RequestWriteIds(u)

------------------------------------------------------------------------------
(* authorizeSubscription *)

(* The route: the document must have a subscriptionLink and not be authorized
   already; else the request is answered with nothing done. *)
AuthorizeStart(s) ==
  /\ op[s] = Idle
  /\ \E u \in Users :
       /\ HasKey(u)
       /\ u \notin authorized
       /\ op' = [op EXCEPT ![s] = Started("au.load", u)]
  /\ UNCHANGED <<docs, state, ids, queue, failures, access>>

(* The author's subscription and state are loaded; a missing one throws. *)
AuthorizeLoad(s) ==
  /\ op[s].pc = "au.load"
  /\ IF Subscribed(Author) /\ Author \in state THEN Goto(s, "au.list") ELSE End(s)
  /\ UNCHANGED <<docs, state, ids, queue, failures, access>>

AuthorizeList(s) ==
  /\ op[s].pc = "au.list"
  /\ Read(s, ExistingReaders, "au.send")
  /\ UNCHANGED <<docs, state, ids, queue, failures, access>>

(* After the author's logs and the subscribe message were fetched: the new
   branch, for the new reader, the author and the existing readers. *)
AuthorizeSend(s) ==
  LET u == op[s].user IN
  /\ op[s].pc = "au.send"
  /\ SendKeyloads(s, {u, Author} \cup op[s].set, {u})
  /\ Goto(s, "au.wait")
  /\ access' = [v \in Subscribers |-> IF v = u THEN "granting" ELSE access[v]]
  /\ UNCHANGED <<docs, state, ids, failures>>

(* Plausible bugs: the existing branches are not keyed for the new reader; the
   handler waits for keyloads nobody sends. *)
AuthorizeRekeyOldKeys(s) ==
  /\ op[s].pc = "au.rekey"
  /\ IF op[s].set # {}
       THEN /\ SendKeyloads(s, {Author} \cup op[s].set, op[s].set)
            /\ Goto(s, "au.waitAll")
       ELSE Goto(s, "au.save") /\ UNCHANGED queue
  /\ UNCHANGED <<docs, state, ids, failures, access>>

AuthorizeRekeyNobody(s) ==
  /\ op[s].pc = "au.rekey"
  /\ SendKeyloads(s, {op[s].user, Author} \cup op[s].set, op[s].set \ {Author})
  /\ Goto(s, "au.waitAll")
  /\ UNCHANGED <<docs, state, ids, failures, access>>

(* The branches that exist, for the same keys.  Promise.all of nothing is
   fulfilled at once. *)
AuthorizeRekey(s) ==
  LET u == op[s].user IN
  /\ op[s].pc = "au.rekey"
  /\ IF op[s].set # {}
       THEN /\ SendKeyloads(s, {u, Author} \cup op[s].set, op[s].set)
            /\ Goto(s, "au.waitAll")
       ELSE Goto(s, "au.save") /\ UNCHANGED queue
  /\ UNCHANGED <<docs, state, ids, failures, access>>

(* updateSubscriptionState throws when there is no document to update. *)
AuthorizeSaveState(s) ==
  /\ op[s].pc = "au.save"
  /\ IF Author \in state THEN Goto(s, "au.readReq") ELSE End(s)
  /\ UNCHANGED <<docs, state, ids, queue, failures, access>>

AuthorizeReadRequested(s) ==
  /\ op[s].pc = "au.readReq"
  /\ Read(s, requestedIds, "au.writeReq")
  /\ UNCHANGED <<docs, state, ids, queue, failures, access>>

AuthorizeWriteRequested(s) ==
  /\ op[s].pc = "au.writeReq"
  /\ requestedIds' = op[s].set \ {op[s].user}
  /\ Goto(s, "au.readSub")
  /\ UNCHANGED <<docs, state, subscriberIds, queue, failures, access>>

AuthorizeReadSubscribers(s) ==
  /\ op[s].pc = "au.readSub"
  /\ Read(s, subscriberIds, "au.writeSub")
  /\ UNCHANGED <<docs, state, ids, queue, failures, access>>

AuthorizeWriteSubscribers(s) ==
  /\ op[s].pc = "au.writeSub"
  /\ subscriberIds' = op[s].set \cup {op[s].user}
  /\ End(s)
  /\ UNCHANGED <<docs, state, requestedIds, queue, failures, access>>

Authorize(s) ==
  \/ AuthorizeLoad(s) \/ AuthorizeList(s) \/ AuthorizeSend(s)
  \/ AuthorizeRekey(s) \/ AuthorizeSaveState(s)
  \/ AuthorizeReadRequested(s) \/ AuthorizeWriteRequested(s)
  \/ AuthorizeReadSubscribers(s) \/ AuthorizeWriteSubscribers(s)

------------------------------------------------------------------------------
(* revokeSubscription *)

RevokeStart(s) ==
  /\ op[s] = Idle
  /\ Subscribed(Author)
  /\ \E u \in Users :
       /\ HasKey(u)
       /\ op' = [op EXCEPT ![s] = [Started("rv.list", u)
                                     EXCEPT !.was = u \in authorized]]
  /\ UNCHANGED <<docs, state, ids, queue, failures, access>>

RevokeList(s) ==
  /\ op[s].pc = "rv.list"
  /\ IF Author \in state THEN Read(s, ExistingReaders, "rv.send") ELSE End(s)
  /\ UNCHANGED <<docs, state, ids, queue, failures, access>>

(* A plausible bug: the revoked key is not filtered out. *)
RevokeSendAllKeys(s) ==
  /\ op[s].pc = "rv.send"
  /\ SendKeyloads(s, {Author} \cup op[s].set, op[s].set)
  /\ Goto(s, "rv.wait")
  /\ access' = [v \in Subscribers |-> IF v = op[s].user THEN "revoking" ELSE access[v]]
  /\ UNCHANGED <<docs, state, ids, failures>>

(* All branches of readers, the revoked one's too, without the revoked key. *)
RevokeSend(s) ==
  LET u == op[s].user IN
  /\ op[s].pc = "rv.send"
  /\ IF op[s].set # {}
       THEN /\ SendKeyloads(s, {Author} \cup (op[s].set \ {u}), op[s].set)
            /\ Goto(s, "rv.wait")
       ELSE Goto(s, "rv.state") /\ UNCHANGED queue
  /\ access' = [v \in Subscribers |-> IF v = u THEN "revoking" ELSE access[v]]
  /\ UNCHANGED <<docs, state, ids, failures>>

(* A plausible bug: a revocation leaves the state behind, as DELETE does. *)
RevokeKeepState(s) ==
  /\ op[s].pc = "rv.state"
  /\ Goto(s, "rv.doc")
  /\ UNCHANGED <<docs, state, ids, queue, failures, access>>

RevokeRemoveState(s) ==
  /\ op[s].pc = "rv.state"
  /\ state' = state \ {op[s].user}
  /\ Goto(s, "rv.doc")
  /\ UNCHANGED <<docs, ids, queue, failures, access>>

RemoveDoc(u) ==
  /\ right' = [right EXCEPT ![u] = "none"]
  /\ authorized' = authorized \ {u}
  /\ readers' = [readers EXCEPT ![u] = {}]

RevokeRemoveDoc(s) ==
  LET u == op[s].user IN
  /\ op[s].pc = "rv.doc"
  /\ RemoveDoc(u)
  /\ Goto(s, "rv.read")
  /\ access' = [v \in Subscribers |-> IF v = u THEN "revoked" ELSE access[v]]
  /\ UNCHANGED <<state, ids, queue, failures>>

(* The list that is cleaned depends on the document the route had read. *)
RevokeReadIds(s) ==
  /\ op[s].pc = "rv.read"
  /\ Read(s, IF op[s].was THEN subscriberIds ELSE requestedIds, "rv.write")
  /\ UNCHANGED <<docs, state, ids, queue, failures, access>>

RevokeWriteIds(s) ==
  LET rest == op[s].set \ {op[s].user} IN
  /\ op[s].pc = "rv.write"
  /\ IF op[s].was
       THEN subscriberIds' = rest /\ UNCHANGED requestedIds
       ELSE requestedIds' = rest /\ UNCHANGED subscriberIds
  /\ Goto(s, "rv.save")
  /\ UNCHANGED <<docs, state, queue, failures, access>>

(* updateSubscriptionState, as above; it is the last step either way. *)
RevokeSaveState(s) ==
  /\ op[s].pc = "rv.save"
  /\ End(s)
  /\ UNCHANGED <<docs, state, ids, queue, failures, access>>

Revoke(s) ==
  \/ RevokeList(s) \/ RevokeSend(s) \/ RevokeRemoveState(s) \/ RevokeRemoveDoc(s)
  \/ RevokeReadIds(s) \/ RevokeWriteIds(s) \/ RevokeSaveState(s)

------------------------------------------------------------------------------
(* deleteSubscription: no keyload is sent, no state removed. *)

DeleteStart(u) ==
  LET s == <<"delete", u>> IN
  /\ op[s] = Idle
  /\ Subscribed(u)
  /\ op' = [op EXCEPT ![s] = Started("de.read", u)]
  /\ UNCHANGED <<docs, state, ids, queue, failures, access>>

DeleteReadIds(u) ==
  LET s == <<"delete", u>> IN
  /\ op[s].pc = "de.read"
  /\ Read(s, subscriberIds, "de.write")
  /\ UNCHANGED <<docs, state, ids, queue, failures, access>>

DeleteWriteIds(u) ==
  LET s == <<"delete", u>> IN
  /\ op[s].pc = "de.write"
  /\ subscriberIds' = op[s].set \ {u}
  /\ Goto(s, "de.doc")
  /\ UNCHANGED <<docs, state, requestedIds, queue, failures, access>>

DeleteRemoveDoc(u) ==
  LET s == <<"delete", u>> IN
  /\ op[s].pc = "de.doc"
  /\ RemoveDoc(u)
  /\ End(s)
  /\ access' = [v \in Subscribers |-> IF v = u THEN "none" ELSE access[v]]
  /\ UNCHANGED <<state, ids, queue, failures>>

Delete(u) == DeleteReadIds(u) \/ DeleteWriteIds(u) \/ DeleteRemoveDoc(u)

------------------------------------------------------------------------------
(* sendKeyload: the mutex serves its callers in the order of their calls. *)

Waiting == {"au.wait", "au.waitAll", "rv.wait"}

(* Where a handler goes on once all the keyloads it waits for are sent. *)
Resumed(label) ==
  CASE label = "au.wait" -> "au.rekey"
    [] label = "au.waitAll" -> "au.save"
    [] label = "rv.wait" -> "rv.state"

(* The keyload is on the tangle and setSubscriptionAuthorized has found the
   document of the branch. *)
KeyloadSent(v) ==
  LET b == Head(queue)
      last == b.todo = {v}
      resume == last /\ b.live
      granting == resume /\ op[b.slot].pc = "au.waitAll"
  IN
  /\ v \in b.todo
  /\ Subscribed(v)
  /\ authorized' = authorized \cup {v}
  /\ readers' = [readers EXCEPT ![v] = b.keys]
  /\ queue' = IF last THEN Tail(queue)
                      ELSE [queue EXCEPT ![1].todo = @ \ {v}]
  /\ IF resume THEN Goto(b.slot, Resumed(op[b.slot].pc)) ELSE UNCHANGED op
  /\ access' = [w \in Subscribers |->
                  IF granting /\ w = op[b.slot].user /\ access[w] = "granting"
                    THEN "granted" ELSE access[w]]
  /\ UNCHANGED <<right, state, ids, failures>>

(* The tangle or the database rejects a call. *)
Rejected ==
  /\ "fail" \in Faults
  /\ failures < MaxFailures
  /\ failures' = failures + 1

(* A plausible bug: the failed call is never settled. *)
KeyloadFailedSilently(v) ==
  LET b == Head(queue) IN
  /\ v \in b.todo
  /\ IF Subscribed(v) THEN Rejected ELSE UNCHANGED failures
  /\ queue' = IF b.todo = {v} THEN Tail(queue)
              ELSE [queue EXCEPT ![1].todo = @ \ {v}, ![1].live = FALSE]
  /\ UNCHANGED <<docs, state, ids, op, access>>

(* One call throws: the handler answers with an error at once and releases the
   mutex, the calls behind it in Promise.all are served all the same. *)
KeyloadFailed(v) ==
  LET b == Head(queue) IN
  /\ v \in b.todo
  /\ IF Subscribed(v) THEN Rejected ELSE UNCHANGED failures
  /\ queue' = IF b.todo = {v} THEN Tail(queue)
              ELSE [queue EXCEPT ![1].todo = @ \ {v}, ![1].live = FALSE]
  /\ IF b.live THEN End(b.slot) ELSE UNCHANGED op
  /\ UNCHANGED <<docs, state, ids, access>>

Keyload ==
  /\ queue # <<>>
  /\ \E v \in Users : KeyloadSent(v) \/ KeyloadFailed(v)

------------------------------------------------------------------------------
(* Failures. *)

(* The call a handler is suspended at is rejected: 500. *)
Fail(s) ==
  /\ Rejected
  /\ op[s].pc \notin Waiting \cup {"idle"}
  /\ End(s)
  /\ UNCHANGED <<docs, state, ids, queue, access>>

Crash ==
  /\ "crash" \in Faults
  /\ \E s \in Slots : op[s] # Idle
  /\ op' = [s \in Slots |-> Idle]
  /\ queue' = <<>>
  /\ UNCHANGED <<docs, state, ids, failures, access>>

Next ==
  \/ \E u \in Subscribers : RequestStart(u) \/ Request(u)
  \/ \E s \in AuthorOps : AuthorizeStart(s) \/ Authorize(s) \/ RevokeStart(s) \/ Revoke(s)
  \/ \E u \in Deleted : DeleteStart(u) \/ Delete(u)
  \/ Keyload
  \/ \E s \in Slots : Fail(s)
  \/ Crash

Spec == Init /\ [][Next]_vars

(* Calls to the tangle and the database are answered or rejected some day. *)
Fairness ==
  /\ WF_vars(Keyload)
  /\ \A s \in AuthorOps : WF_vars(Authorize(s) \/ Revoke(s))

FairSpec == Spec /\ Fairness

------------------------------------------------------------------------------

AccessKinds == {"none", "granting", "granted", "revoking", "revoked"}

(* Types; a batch in the queue always has a branch left. *)
TypeOK ==
  /\ right \in [Users -> AllRights \cup {"none"}]
  /\ authorized \subseteq Users
  /\ readers \in [Users -> SUBSET Users]
  /\ state \subseteq Users
  /\ requestedIds \subseteq Users
  /\ subscriberIds \subseteq Users
  /\ queue \in Seq(Batches)
  /\ op \in [Slots -> Ops]
  /\ failures \in Nat
  /\ access \in [Subscribers -> AccessKinds]

(* No wake-up is lost and none comes twice: whoever waits for keyloads has
   exactly one batch in the queue that will wake it up, and the batches whose
   handler has answered already wake up nobody. *)
WaitersServed ==
  /\ \A i \in DOMAIN queue : queue[i].live => op[queue[i].slot].pc \in Waiting
  /\ \A i, j \in DOMAIN queue :
       queue[i].live /\ queue[j].live /\ queue[i].slot = queue[j].slot => i = j
  /\ \A s \in Slots : op[s].pc \in Waiting =>
       \E i \in DOMAIN queue : queue[i].live /\ queue[i].slot = s

(* A reader whose authorization was answered with success reads every reader's
   branch, whatever failed, restarted or was deleted since: the keyloads a
   failed request still had in the mutex never replace those of a later one. *)
GrantedReadEverywhere ==
  \A u \in Subscribers :
    access[u] = "granted" /\ Reader(u)
      => \A v \in ExistingReaders : u \in readers[v]

(* Once the document of a revoked subscriber is gone, her key is named by the
   keyload of no reader's branch, although keyloads of earlier requests that
   failed may have been waiting for the mutex with her key in them. *)
RevokedLockedOut ==
  \A u \in Subscribers :
    access[u] = "revoked" => \A v \in ExistingReaders : u \notin readers[v]

(* No request of the author waits for ever: the mutex is released whether a
   keyload is sent or throws, and Promise.all is settled. *)
AuthorRequestsEnd ==
  \A s \in AuthorOps : op[s].pc # "idle" ~> op[s].pc = "idle"

Quiet == \A s \in Slots : op[s] = Idle

(* Nothing failed and nothing runs: channel-info lists as subscribers exactly
   those the author has authorized with a keyload. *)
SubscriberListExact ==
  Quiet => subscriberIds = {u \in Subscribers : u \in authorized /\ HasKey(u)}

(* Nothing failed and no request is about u: her state document and her
   subscription exist together, so that she can ask again once revoked. *)
DocsPaired ==
  \A u \in Users :
    (\A s \in Slots : op[s] # Idle => op[s].user # u)
      => (u \in state <=> Subscribed(u))

(* What the comment says a revocation does to "existing branches": to all of
   them, the ones of writers included. *)
RevokedReadsNothing ==
  \A u, v \in Subscribers : access[u] = "revoked" => u \notin readers[v]

==============================================================================

--------------------- MODULE ChannelSubscriptionsProofs ---------------------
(* Proofs about ChannelSubscriptions. *)
EXTENDS ChannelSubscriptions, TLAPS

(* What the handlers do to their slot. *)
LEMMA SlotsOf ==
  /\ \A u \in Subscribers : <<"request", u>> \in Slots
  /\ \A u \in Deleted : <<"delete", u>> \in Slots
  /\ AuthorOps \subseteq Slots
BY DEF Slots, RequestSlots, DeleteSlots, AuthorOps

LEMMA IdleOp == Idle \in Ops
BY DEF Ops, Idle, PCs, Users

LEMMA StartedOp ==
  ASSUME NEW label \in PCs, NEW u \in Users
  PROVE  Started(label, u) \in Ops
BY DEF Started, Ops, Idle, PCs, Users

LEMMA GotoOp ==
  ASSUME op \in [Slots -> Ops], NEW s \in Slots, NEW label \in PCs, Goto(s, label)
  PROVE  op' \in [Slots -> Ops]
BY DEF Goto, Ops

LEMMA ReadOp ==
  ASSUME op \in [Slots -> Ops], NEW s \in Slots, NEW label \in PCs,
         NEW value \in SUBSET Users, Read(s, value, label)
  PROVE  op' \in [Slots -> Ops]
<1> DEFINE o == [op[s] EXCEPT !.set = value, !.pc = label]
<1>1. o \in Ops
  BY DEF Ops
<1>2. op' = [op EXCEPT ![s] = o]
  BY DEF Read
<1> QED
  BY <1>1, <1>2

LEMMA EndOp ==
  ASSUME op \in [Slots -> Ops], NEW s \in Slots, End(s)
  PROVE  op' \in [Slots -> Ops]
BY IdleOp DEF End

LEMMA SendQueue ==
  ASSUME queue \in Seq(Batches), NEW s \in Slots, NEW k \in SUBSET Users,
         NEW b \in (SUBSET Users) \ {{}}, SendKeyloads(s, k, b)
  PROVE  queue' \in Seq(Batches)
<1> DEFINE batch == [slot |-> s, keys |-> k, todo |-> b, live |-> TRUE]
<1>1. batch \in Batches
  BY DEF Batches
<1>2. queue' = Append(queue, batch)
  BY DEF SendKeyloads
<1> QED BY <1>1, <1>2

(* The batch at the head loses branch v and stays a batch. *)
LEMMA HeadQueue ==
  ASSUME queue \in Seq(Batches), queue # <<>>
  PROVE  /\ Head(queue) \in Batches
         /\ Tail(queue) \in Seq(Batches)
         /\ \A v \in Head(queue).todo :
              Head(queue).todo # {v} =>
                /\ [queue EXCEPT ![1].todo = @ \ {v}] \in Seq(Batches)
                /\ [queue EXCEPT ![1].todo = @ \ {v}, ![1].live = FALSE] \in Seq(Batches)
<1>1. Head(queue) \in Batches /\ Head(queue) = queue[1] /\ Tail(queue) \in Seq(Batches)
  OBVIOUS
<1>2. 1 \in DOMAIN queue /\ Len(queue) \in Nat /\ queue \in [1..Len(queue) -> Batches]
  OBVIOUS
<1>3. ASSUME NEW c \in Batches PROVE [queue EXCEPT ![1] = c] \in Seq(Batches)
  BY <1>2
<1>4. ASSUME NEW v \in Head(queue).todo, Head(queue).todo # {v}
      PROVE  /\ [queue[1] EXCEPT !.todo = @ \ {v}] \in Batches
             /\ [queue[1] EXCEPT !.todo = @ \ {v}, !.live = FALSE] \in Batches
  BY <1>1, <1>4 DEF Batches
<1>5. ASSUME NEW v
      PROVE  /\ [queue EXCEPT ![1].todo = @ \ {v}]
                  = [queue EXCEPT ![1] = [queue[1] EXCEPT !.todo = @ \ {v}]]
             /\ [queue EXCEPT ![1].todo = @ \ {v}, ![1].live = FALSE]
                  = [queue EXCEPT ![1] = [queue[1] EXCEPT !.todo = @ \ {v}, !.live = FALSE]]
  BY <1>1, <1>2 DEF Batches
<1> QED BY <1>1, <1>3, <1>4, <1>5

(* Every step keeps the types: a handler goes from one of its awaits to the
   next, and the mutex is only ever waited for on behalf of some branch. *)
LEMMA RequestStep ==
  ASSUME TypeOK, NEW u \in Subscribers, RequestStart(u) \/ Request(u)
  PROVE  TypeOK'
<1> DEFINE s == <<"request", u>>
<1>1. s \in Slots /\ u \in Users
  BY SlotsOf DEF Users
<1>2. CASE RequestStart(u)
  <2>1. PICK g \in Rights :
          op' = [op EXCEPT ![s] = [Started("rq.key", u) EXCEPT !.right = g]]
    BY <1>2 DEF RequestStart
  <2>2. [Started("rq.key", u) EXCEPT !.right = g] \in Ops
    BY <1>1, RightsAssumption DEF Started, Ops, Idle, PCs, Users
  <2>3. op' \in [Slots -> Ops]
    BY <1>1, <2>1, <2>2 DEF TypeOK
  <2> QED BY <1>2, <2>3 DEF RequestStart, TypeOK, docs, ids
<1>3. CASE RequestCheckKey(u)
  <2>1. End(s) \/ Goto(s, "rq.state")
    BY <1>3 DEF RequestCheckKey
  <2>2. op' \in [Slots -> Ops]
    BY <1>1, <2>1, EndOp, GotoOp DEF TypeOK, PCs
  <2> QED BY <1>3, <2>2 DEF RequestCheckKey, TypeOK, docs, ids
<1>4. CASE RequestAddState(u)
  <2>1. End(s) \/ Goto(s, "rq.doc")
    BY <1>4 DEF RequestAddState
  <2>2. op' \in [Slots -> Ops]
    BY <1>1, <2>1, EndOp, GotoOp DEF TypeOK, PCs
  <2> QED BY <1>1, <1>4, <2>2 DEF RequestAddState, TypeOK, docs, ids
<1>5. CASE RequestAddDoc(u)
  <2>1. End(s) \/ Goto(s, "rq.read")
    BY <1>5 DEF RequestAddDoc
  <2>2. op' \in [Slots -> Ops]
    BY <1>1, <2>1, EndOp, GotoOp DEF TypeOK, PCs
  <2>3. op[s].right \in AllRights \cup {"none"}
    BY <1>1 DEF TypeOK, Ops
  <2> QED BY <1>1, <1>5, <2>2, <2>3 DEF RequestAddDoc, TypeOK, docs, ids
<1>6. CASE RequestReadIds(u)
  <2>1. op' \in [Slots -> Ops]
    BY <1>1, <1>6, ReadOp DEF RequestReadIds, TypeOK, PCs
  <2> QED BY <1>6, <2>1 DEF RequestReadIds, TypeOK, docs, ids
<1>7. CASE RequestWriteIds(u)
  <2>1. op' \in [Slots -> Ops]
    BY <1>1, <1>7, EndOp DEF RequestWriteIds, TypeOK
  <2>2. op[s].set \in SUBSET Users
    BY <1>1 DEF TypeOK, Ops
  <2> QED BY <1>1, <1>7, <2>1, <2>2 DEF RequestWriteIds, TypeOK, docs
<1> QED BY <1>2, <1>3, <1>4, <1>5, <1>6, <1>7 DEF Request

(* What an await of a handler of the author has read. *)
LEMMA OpFields ==
  ASSUME TypeOK, NEW s \in Slots
  PROVE  op[s].user \in Users /\ op[s].set \in SUBSET Users
BY DEF TypeOK, Ops

LEMMA ReadersAreUsers ==
  ASSUME TypeOK
  PROVE  Author \in Users /\ ExistingReaders \in SUBSET Users
BY DEF TypeOK, ExistingReaders, Users

LEMMA AuthorizeStep ==
  ASSUME TypeOK, NEW s \in AuthorOps, AuthorizeStart(s) \/ Authorize(s)
  PROVE  TypeOK'
<1>1. s \in Slots
  BY SlotsOf
<1>2. /\ op \in [Slots -> Ops] /\ op[s].user \in Users /\ op[s].set \in SUBSET Users
      /\ Author \in Users /\ ExistingReaders \in SUBSET Users
      /\ requestedIds \in SUBSET Users /\ subscriberIds \in SUBSET Users
  BY <1>1, OpFields, ReadersAreUsers DEF TypeOK
<1>3. CASE AuthorizeStart(s)
  <2>1. PICK u \in Users : op' = [op EXCEPT ![s] = Started("au.load", u)]
    BY <1>3 DEF AuthorizeStart
  <2>2. op' \in [Slots -> Ops]
    BY <1>1, <1>2, <2>1, StartedOp DEF PCs
  <2> QED BY <1>3, <2>2 DEF AuthorizeStart, TypeOK, docs, ids
<1>4. CASE AuthorizeLoad(s)
  <2>1. End(s) \/ Goto(s, "au.list")
    BY <1>4 DEF AuthorizeLoad
  <2>2. op' \in [Slots -> Ops]
    BY <1>1, <1>2, <2>1, EndOp, GotoOp DEF PCs
  <2> QED BY <1>4, <2>2 DEF AuthorizeLoad, TypeOK, docs, ids
<1>5. CASE AuthorizeList(s)
  <2>1. op' \in [Slots -> Ops]
    BY <1>1, <1>2, <1>5, ReadOp DEF AuthorizeList, PCs
  <2> QED BY <1>5, <2>1 DEF AuthorizeList, TypeOK, docs, ids
<1>6. CASE AuthorizeSend(s)
  <2>1. op' \in [Slots -> Ops]
    BY <1>1, <1>2, <1>6, GotoOp DEF AuthorizeSend, PCs
  <2>2. queue' \in Seq(Batches)
    BY <1>1, <1>2, <1>6, SendQueue DEF AuthorizeSend, TypeOK
  <2>3. access' \in [Subscribers -> AccessKinds]
    BY <1>6 DEF AuthorizeSend, TypeOK, AccessKinds
  <2> QED BY <1>6, <2>1, <2>2, <2>3 DEF AuthorizeSend, TypeOK, docs, ids
<1>7. CASE AuthorizeRekey(s)
  <2>1. op' \in [Slots -> Ops]
    BY <1>1, <1>2, <1>7, GotoOp DEF AuthorizeRekey, PCs
  <2>2. queue' \in Seq(Batches)
    BY <1>1, <1>2, <1>7, SendQueue DEF AuthorizeRekey, TypeOK
  <2> QED BY <1>7, <2>1, <2>2 DEF AuthorizeRekey, TypeOK, docs, ids
<1>8. CASE AuthorizeSaveState(s)
  <2>1. End(s) \/ Goto(s, "au.readReq")
    BY <1>8 DEF AuthorizeSaveState
  <2>2. op' \in [Slots -> Ops]
    BY <1>1, <1>2, <2>1, EndOp, GotoOp DEF PCs
  <2> QED BY <1>8, <2>2 DEF AuthorizeSaveState, TypeOK, docs, ids
<1>9. CASE AuthorizeReadRequested(s)
  <2>1. op' \in [Slots -> Ops]
    BY <1>1, <1>2, <1>9, ReadOp DEF AuthorizeReadRequested, PCs
  <2> QED BY <1>9, <2>1 DEF AuthorizeReadRequested, TypeOK, docs, ids
<1>10. CASE AuthorizeWriteRequested(s)
  <2>1. op' \in [Slots -> Ops]
    BY <1>1, <1>2, <1>10, GotoOp DEF AuthorizeWriteRequested, PCs
  <2> QED BY <1>2, <1>10, <2>1 DEF AuthorizeWriteRequested, TypeOK, docs
<1>11. CASE AuthorizeReadSubscribers(s)
  <2>1. op' \in [Slots -> Ops]
    BY <1>1, <1>2, <1>11, ReadOp DEF AuthorizeReadSubscribers, PCs
  <2> QED BY <1>11, <2>1 DEF AuthorizeReadSubscribers, TypeOK, docs, ids
<1>12. CASE AuthorizeWriteSubscribers(s)
  <2>1. op' \in [Slots -> Ops]
    BY <1>1, <1>2, <1>12, EndOp DEF AuthorizeWriteSubscribers
  <2> QED BY <1>2, <1>12, <2>1 DEF AuthorizeWriteSubscribers, TypeOK, docs
<1> QED BY <1>3, <1>4, <1>5, <1>6, <1>7, <1>8, <1>9, <1>10, <1>11, <1>12 DEF Authorize

LEMMA RemoveDocTypes ==
  ASSUME TypeOK, NEW u \in Users, RemoveDoc(u)
  PROVE  /\ right' \in [Users -> AllRights \cup {"none"}]
         /\ authorized' \in SUBSET Users
         /\ readers' \in [Users -> SUBSET Users]
BY DEF RemoveDoc, TypeOK

LEMMA RevokeStep ==
  ASSUME TypeOK, NEW s \in AuthorOps, RevokeStart(s) \/ Revoke(s)
  PROVE  TypeOK'
<1>1. s \in Slots
  BY SlotsOf
<1>2. /\ op \in [Slots -> Ops] /\ op[s].user \in Users /\ op[s].set \in SUBSET Users
      /\ Author \in Users /\ ExistingReaders \in SUBSET Users
      /\ requestedIds \in SUBSET Users /\ subscriberIds \in SUBSET Users
  BY <1>1, OpFields, ReadersAreUsers DEF TypeOK
<1>3. CASE RevokeStart(s)
  <2>1. PICK u \in Users :
          op' = [op EXCEPT ![s] = [Started("rv.list", u) EXCEPT !.was = u \in authorized]]
    BY <1>3 DEF RevokeStart
  <2>2. [Started("rv.list", u) EXCEPT !.was = u \in authorized] \in Ops
    <3>1. (u \in authorized) \in BOOLEAN
      OBVIOUS
    <3>2. Started("rv.list", u) \in Ops
      BY StartedOp DEF PCs
    <3> QED BY <3>1, <3>2 DEF Ops
  <2>3. op' \in [Slots -> Ops]
    BY <1>1, <1>2, <2>1, <2>2
  <2> QED BY <1>3, <2>3 DEF RevokeStart, TypeOK, docs, ids
<1>4. CASE RevokeList(s)
  <2>1. End(s) \/ Read(s, ExistingReaders, "rv.send")
    BY <1>4 DEF RevokeList
  <2>2. op' \in [Slots -> Ops]
    BY <1>1, <1>2, <2>1, EndOp, ReadOp DEF PCs
  <2> QED BY <1>4, <2>2 DEF RevokeList, TypeOK, docs, ids
<1>5. CASE RevokeSend(s)
  <2>1. op' \in [Slots -> Ops]
    BY <1>1, <1>2, <1>5, GotoOp DEF RevokeSend, PCs
  <2>2. queue' \in Seq(Batches)
    BY <1>1, <1>2, <1>5, SendQueue DEF RevokeSend, TypeOK
  <2>3. access' \in [Subscribers -> AccessKinds]
    BY <1>5 DEF RevokeSend, TypeOK, AccessKinds
  <2> QED BY <1>5, <2>1, <2>2, <2>3 DEF RevokeSend, TypeOK, docs, ids
<1>6. CASE RevokeRemoveState(s)
  <2>1. op' \in [Slots -> Ops]
    BY <1>1, <1>2, <1>6, GotoOp DEF RevokeRemoveState, PCs
  <2> QED BY <1>6, <2>1 DEF RevokeRemoveState, TypeOK, docs, ids
<1>7. CASE RevokeRemoveDoc(s)
  <2>1. op' \in [Slots -> Ops]
    BY <1>1, <1>2, <1>7, GotoOp DEF RevokeRemoveDoc, PCs
  <2>2. access' \in [Subscribers -> AccessKinds]
    BY <1>7 DEF RevokeRemoveDoc, TypeOK, AccessKinds
  <2> QED BY <1>2, <1>7, <2>1, <2>2, RemoveDocTypes DEF RevokeRemoveDoc, TypeOK, ids
<1>8. CASE RevokeReadIds(s)
  <2>1. Read(s, subscriberIds, "rv.write") \/ Read(s, requestedIds, "rv.write")
    BY <1>8 DEF RevokeReadIds
  <2>2. op' \in [Slots -> Ops]
    BY <1>1, <1>2, <2>1, ReadOp DEF PCs
  <2> QED BY <1>8, <2>2 DEF RevokeReadIds, TypeOK, docs, ids
<1>9. CASE RevokeWriteIds(s)
  <2>1. op' \in [Slots -> Ops]
    BY <1>1, <1>2, <1>9, GotoOp DEF RevokeWriteIds, PCs
  <2> QED BY <1>2, <1>9, <2>1 DEF RevokeWriteIds, TypeOK, docs
<1>10. CASE RevokeSaveState(s)
  <2>1. op' \in [Slots -> Ops]
    BY <1>1, <1>2, <1>10, EndOp DEF RevokeSaveState
  <2> QED BY <1>10, <2>1 DEF RevokeSaveState, TypeOK, docs, ids
<1> QED BY <1>3, <1>4, <1>5, <1>6, <1>7, <1>8, <1>9, <1>10 DEF Revoke

LEMMA DeleteStep ==
  ASSUME TypeOK, NEW u \in Deleted, DeleteStart(u) \/ Delete(u)
  PROVE  TypeOK'
<1> DEFINE s == <<"delete", u>>
<1>1. s \in Slots /\ u \in Users
  BY SlotsOf, DeletedAssumption
<1>2. /\ op \in [Slots -> Ops] /\ op[s].set \in SUBSET Users
      /\ subscriberIds \in SUBSET Users
  BY <1>1, OpFields DEF TypeOK
<1>3. CASE DeleteStart(u)
  <2>1. op' \in [Slots -> Ops]
    BY <1>1, <1>2, <1>3, StartedOp DEF DeleteStart, PCs
  <2> QED BY <1>3, <2>1 DEF DeleteStart, TypeOK, docs, ids
<1>4. CASE DeleteReadIds(u)
  <2>1. op' \in [Slots -> Ops]
    BY <1>1, <1>2, <1>4, ReadOp DEF DeleteReadIds, PCs
  <2> QED BY <1>4, <2>1 DEF DeleteReadIds, TypeOK, docs, ids
<1>5. CASE DeleteWriteIds(u)
  <2>1. op' \in [Slots -> Ops]
    BY <1>1, <1>2, <1>5, GotoOp DEF DeleteWriteIds, PCs
  <2> QED BY <1>2, <1>5, <2>1 DEF DeleteWriteIds, TypeOK, docs
<1>6. CASE DeleteRemoveDoc(u)
  <2>1. op' \in [Slots -> Ops]
    BY <1>1, <1>2, <1>6, EndOp DEF DeleteRemoveDoc
  <2>2. access' \in [Subscribers -> AccessKinds]
    BY <1>6 DEF DeleteRemoveDoc, TypeOK, AccessKinds
  <2> QED BY <1>1, <1>6, <2>1, <2>2, RemoveDocTypes DEF DeleteRemoveDoc, TypeOK, ids
<1> QED BY <1>3, <1>4, <1>5, <1>6 DEF Delete

LEMMA KeyloadStep ==
  ASSUME TypeOK, WaitersServed, Keyload
  PROVE  TypeOK'
<1> DEFINE b == Head(queue)
<1>1. b \in Batches /\ queue \in Seq(Batches) /\ queue # <<>>
  BY HeadQueue DEF TypeOK, Keyload
<1>2. b.slot \in Slots /\ b.keys \in SUBSET Users /\ op \in [Slots -> Ops]
  BY <1>1 DEF Batches, TypeOK
<1>3. PICK v \in Users : KeyloadSent(v) \/ KeyloadFailed(v)
  BY DEF Keyload
<1>4. CASE KeyloadSent(v)
  <2>1. queue' \in Seq(Batches)
    BY <1>1, <1>4, HeadQueue DEF KeyloadSent
  <2>2. op' \in [Slots -> Ops]
    <3>1. CASE UNCHANGED op
      BY <1>2, <3>1
    <3>2. CASE Goto(b.slot, Resumed(op[b.slot].pc))
                 /\ op[b.slot].pc \in Waiting
      <4>1. Resumed(op[b.slot].pc) \in PCs
        BY <3>2 DEF Resumed, PCs, Waiting
      <4> QED BY <1>2, <3>2, <4>1, GotoOp
    <3>3. b.live => op[b.slot].pc \in Waiting
      <4>1. b = queue[1] /\ 1 \in DOMAIN queue
        BY <1>1
      <4> QED BY <4>1 DEF WaitersServed
    <3> QED BY <1>4, <3>1, <3>2, <3>3 DEF KeyloadSent
  <2>3. access' \in [Subscribers -> AccessKinds]
    BY <1>4 DEF KeyloadSent, TypeOK, AccessKinds
  <2>4. authorized' \in SUBSET Users /\ readers' \in [Users -> SUBSET Users]
    BY <1>2, <1>4 DEF KeyloadSent, TypeOK
  <2> QED BY <1>4, <2>1, <2>2, <2>3, <2>4 DEF KeyloadSent, TypeOK, ids
<1>5. CASE KeyloadFailed(v)
  <2>1. queue' \in Seq(Batches)
    BY <1>1, <1>5, HeadQueue DEF KeyloadFailed
  <2>2. op' \in [Slots -> Ops]
    BY <1>2, <1>5, EndOp DEF KeyloadFailed
  <2>3. failures' \in Nat
    BY <1>5 DEF KeyloadFailed, Rejected, TypeOK
  <2> QED BY <1>5, <2>1, <2>2, <2>3 DEF KeyloadFailed, TypeOK, docs, ids
<1> QED BY <1>3, <1>4, <1>5

LEMMA FailureStep ==
  ASSUME TypeOK, (\E s \in Slots : Fail(s)) \/ Crash
  PROVE  TypeOK'
<1>1. CASE \E s \in Slots : Fail(s)
  <2>1. PICK s \in Slots : Fail(s)
    BY <1>1
  <2>2. op' \in [Slots -> Ops]
    BY <2>1, EndOp DEF Fail, TypeOK
  <2> QED BY <2>1, <2>2 DEF Fail, Rejected, TypeOK, docs, ids
<1>2. CASE Crash
  <2>1. op' \in [Slots -> Ops] /\ queue' \in Seq(Batches)
    BY <1>2, IdleOp DEF Crash
  <2> QED BY <1>2, <2>1 DEF Crash, TypeOK, docs, ids
<1> QED BY <1>1, <1>2

LEMMA TypeStep ==
  ASSUME TypeOK, WaitersServed, [Next]_vars
  PROVE  TypeOK'
<1>1. CASE UNCHANGED vars
  BY <1>1 DEF vars, docs, ids, TypeOK
<1> QED BY <1>1, RequestStep, AuthorizeStep, RevokeStep, DeleteStep, KeyloadStep,
           FailureStep DEF Next

------------------------------------------------------------------------------
(* Who waits for keyloads is in the queue, once. *)

(* The handler in slot s goes from one await to another, none of them for
   keyloads, or from nothing to its first one. *)
Elsewhere(s) ==
  /\ op[s].pc \notin Waiting
  /\ op'[s].pc \notin Waiting
  /\ \A t \in Slots : t # s => op'[t] = op[t]
  /\ UNCHANGED queue

(* The handler in slot s calls sendKeyload and waits. *)
Sends(s) ==
  /\ op[s].pc \notin Waiting
  /\ op'[s].pc \in Waiting
  /\ \A t \in Slots : t # s => op'[t] = op[t]
  /\ \E k \in SUBSET Users, b \in (SUBSET Users) \ {{}} : SendKeyloads(s, k, b)

LEMMA SlotOfBatch ==
  ASSUME TypeOK, NEW i \in DOMAIN queue
  PROVE  queue[i] \in Batches /\ queue[i].slot \in Slots
<1>1. queue[i] \in Batches
  BY DEF TypeOK
<1> QED BY <1>1 DEF Batches

LEMMA ElsewhereServed ==
  ASSUME TypeOK, WaitersServed, NEW s \in Slots, Elsewhere(s)
  PROVE  WaitersServed'
<1>1. queue' = queue /\ \A t \in Slots : t # s => op'[t] = op[t]
  BY DEF Elsewhere
<1>2. \A i \in DOMAIN queue : queue[i].live => queue[i].slot # s
  BY DEF WaitersServed, Elsewhere
<1>3. \A i \in DOMAIN queue : queue[i].live => op'[queue[i].slot].pc \in Waiting
  BY <1>1, <1>2, SlotOfBatch DEF WaitersServed
<1>4. ASSUME NEW t \in Slots, op'[t].pc \in Waiting
      PROVE  \E i \in DOMAIN queue : queue[i].live /\ queue[i].slot = t
  BY <1>1, <1>4 DEF WaitersServed, Elsewhere
<1>5. \A i, j \in DOMAIN queue :
        queue[i].live /\ queue[j].live /\ queue[i].slot = queue[j].slot => i = j
  BY DEF WaitersServed
<1> QED BY <1>1, <1>3, <1>4, <1>5 DEF WaitersServed

LEMMA SendsServed ==
  ASSUME TypeOK, WaitersServed, NEW s \in Slots, Sends(s)
  PROVE  WaitersServed'
<1>1. PICK k \in SUBSET Users, b \in (SUBSET Users) \ {{}} : SendKeyloads(s, k, b)
  BY DEF Sends
<1> DEFINE batch == [slot |-> s, keys |-> k, todo |-> b, live |-> TRUE]
           n == Len(queue) + 1
<1>2. queue' = Append(queue, batch)
  BY <1>1 DEF SendKeyloads
<1>3. queue \in Seq(Batches) /\ batch \in Batches
  BY DEF TypeOK, Batches
<1>4. /\ n \in Nat
      /\ DOMAIN queue = 1..Len(queue)
      /\ DOMAIN queue' = (DOMAIN queue) \cup {n}
      /\ n \notin DOMAIN queue
      /\ \A i \in DOMAIN queue : queue'[i] = queue[i]
      /\ queue'[n] = batch
  BY <1>2, <1>3
<1>5. \A i \in DOMAIN queue : queue[i].live => queue[i].slot # s
  BY DEF WaitersServed, Sends
<1>6. ASSUME NEW i \in DOMAIN queue', queue'[i].live
      PROVE  op'[queue'[i].slot].pc \in Waiting
  <2>1. CASE i = n
    BY <2>1, <1>4 DEF Sends
  <2>2. CASE i \in DOMAIN queue
    BY <2>2, <1>4, <1>5, <1>6, SlotOfBatch DEF WaitersServed, Sends
  <2> QED BY <1>4, <2>1, <2>2
<1>7. ASSUME NEW i \in DOMAIN queue', NEW j \in DOMAIN queue', queue'[i].live,
             queue'[j].live, queue'[i].slot = queue'[j].slot
      PROVE  i = j
  <2>1. CASE i \in DOMAIN queue /\ j \in DOMAIN queue
    BY <2>1, <1>4, <1>7 DEF WaitersServed
  <2>2. CASE i = n /\ j \in DOMAIN queue
    BY <2>2, <1>4, <1>5, <1>7
  <2>3. CASE j = n /\ i \in DOMAIN queue
    BY <2>3, <1>4, <1>5, <1>7
  <2> QED BY <1>4, <2>1, <2>2, <2>3
<1>8. ASSUME NEW t \in Slots, op'[t].pc \in Waiting
      PROVE  \E i \in DOMAIN queue' : queue'[i].live /\ queue'[i].slot = t
  <2>1. CASE t = s
    BY <2>1, <1>4
  <2>2. CASE t # s
    <3>1. PICK i \in DOMAIN queue : queue[i].live /\ queue[i].slot = t
      BY <2>2, <1>8 DEF WaitersServed, Sends
    <3> QED BY <3>1, <1>4
  <2> QED BY <2>1, <2>2
<1> QED BY <1>6, <1>7, <1>8 DEF WaitersServed

(* The batch at the head is served for one branch and there are others left. *)
LEMMA HeadStays ==
  ASSUME TypeOK, WaitersServed, queue # <<>>, NEW c \in Batches,
         c.slot = Head(queue).slot, c.live = Head(queue).live,
         queue' = [queue EXCEPT ![1] = c], UNCHANGED op
  PROVE  WaitersServed'
<1>1. /\ DOMAIN queue' = DOMAIN queue
      /\ Head(queue) = queue[1]
      /\ \A i \in DOMAIN queue : queue'[i] = IF i = 1 THEN c ELSE queue[i]
  BY DEF TypeOK
<1>2. \A i \in DOMAIN queue : /\ queue'[i].slot = queue[i].slot
                              /\ queue'[i].live = queue[i].live
  BY <1>1
<1> QED BY <1>1, <1>2 DEF WaitersServed

(* A call of it throws: its handler answers, the batch wakes up nobody. *)
LEMMA HeadAbandoned ==
  ASSUME TypeOK, WaitersServed, queue # <<>>, NEW c \in Batches, ~c.live,
         queue' = [queue EXCEPT ![1] = c],
         IF Head(queue).live THEN End(Head(queue).slot) ELSE UNCHANGED op
  PROVE  WaitersServed'
<1>1. /\ DOMAIN queue' = DOMAIN queue
      /\ 1 \in DOMAIN queue
      /\ Head(queue) = queue[1]
      /\ \A i \in DOMAIN queue : queue'[i] = IF i = 1 THEN c ELSE queue[i]
  BY DEF TypeOK
<1>2. op \in [Slots -> Ops] /\ queue[1].slot \in Slots
  BY <1>1, SlotOfBatch DEF TypeOK
<1>3. \A i \in DOMAIN queue :
        queue'[i].live => i # 1 /\ queue[i].live /\ queue'[i].slot = queue[i].slot
  BY <1>1
<1>4. CASE ~queue[1].live
  <2>1. UNCHANGED op
    BY <1>1, <1>4
  <2>2. \A i \in DOMAIN queue : queue[i].live => queue'[i] = queue[i]
    BY <1>1, <1>4
  <2> QED BY <1>1, <1>3, <2>1, <2>2 DEF WaitersServed
<1>5. CASE queue[1].live
  <2>1. op' = [op EXCEPT ![queue[1].slot] = Idle] /\ Idle.pc \notin Waiting
    BY <1>1, <1>5 DEF End, Idle, Waiting
  <2>2. \A i \in DOMAIN queue : queue'[i].live => queue'[i].slot # queue[1].slot
    BY <1>1, <1>3, <1>5 DEF WaitersServed
  <2>3. \A i \in DOMAIN queue : queue'[i].live => op'[queue'[i].slot] = op[queue[i].slot]
    BY <1>2, <1>3, <2>1, <2>2, SlotOfBatch
  <2>4. ASSUME NEW t \in Slots, op'[t].pc \in Waiting
        PROVE  \E i \in DOMAIN queue : queue'[i].live /\ queue'[i].slot = t
    <3>1. t # queue[1].slot /\ op'[t] = op[t]
      BY <1>2, <2>1, <2>4
    <3>2. PICK i \in DOMAIN queue : queue[i].live /\ queue[i].slot = t
      BY <2>4, <3>1 DEF WaitersServed
    <3> QED BY <1>1, <3>1, <3>2
  <2> QED BY <1>1, <1>3, <2>3, <2>4 DEF WaitersServed
<1> QED BY <1>4, <1>5

(* The last call of it returns or throws: the batch leaves the queue. *)
LEMMA HeadLeaves ==
  ASSUME TypeOK, WaitersServed, queue # <<>>, queue' = Tail(queue),
         \A t \in Slots : t # Head(queue).slot => op'[t] = op[t],
         IF Head(queue).live THEN op'[Head(queue).slot].pc \notin Waiting
                             ELSE UNCHANGED op
  PROVE  WaitersServed'
<1>1. /\ Len(queue) \in Nat /\ Len(queue) # 0
      /\ DOMAIN queue = 1..Len(queue)
      /\ DOMAIN queue' = 1..(Len(queue) - 1)
      /\ 1 \in DOMAIN queue
      /\ Head(queue) = queue[1]
      /\ \A i \in DOMAIN queue' : queue'[i] = queue[i + 1]
  BY DEF TypeOK
<1>2. \A i \in DOMAIN queue' : i + 1 \in DOMAIN queue /\ i + 1 # 1
  BY <1>1
<1>3. \A i \in DOMAIN queue : i # 1 => i - 1 \in DOMAIN queue' /\ queue'[i - 1] = queue[i]
  BY <1>1
<1>4. ASSUME NEW i \in DOMAIN queue', queue'[i].live
      PROVE  op'[queue'[i].slot].pc \in Waiting
  <2>1. queue[i + 1].live /\ op[queue[i + 1].slot].pc \in Waiting
    BY <1>1, <1>2, <1>4 DEF WaitersServed
  <2>2. CASE queue[1].live
    <3>1. queue[i + 1].slot # queue[1].slot
      BY <1>1, <1>2, <2>1, <2>2 DEF WaitersServed
    <3> QED BY <1>1, <1>2, <2>1, <3>1, SlotOfBatch
  <2>3. CASE ~queue[1].live
    BY <1>1, <1>2, <2>1, <2>3
  <2> QED BY <2>2, <2>3
<1>5. ASSUME NEW i \in DOMAIN queue', NEW j \in DOMAIN queue', queue'[i].live,
             queue'[j].live, queue'[i].slot = queue'[j].slot
      PROVE  i = j
  <2>1. i + 1 = j + 1
    BY <1>1, <1>2, <1>5 DEF WaitersServed
  <2> QED BY <1>1, <2>1
<1>6. ASSUME NEW t \in Slots, op'[t].pc \in Waiting
      PROVE  \E i \in DOMAIN queue' : queue'[i].live /\ queue'[i].slot = t
  <2>1. op[t].pc \in Waiting /\ (queue[1].live => t # queue[1].slot)
    BY <1>1, <1>6
  <2>2. PICK i \in DOMAIN queue : queue[i].live /\ queue[i].slot = t
    BY <2>1 DEF WaitersServed
  <2>3. i # 1
    BY <2>1, <2>2
  <2> QED BY <1>3, <2>2, <2>3
<1> QED BY <1>4, <1>5, <1>6 DEF WaitersServed

(* What the ways a handler moves on are, for the queue. *)
LEMMA GotoElsewhere ==
  ASSUME op \in [Slots -> Ops], NEW s \in Slots, NEW label, Goto(s, label),
         op[s].pc \notin Waiting, label \notin Waiting, UNCHANGED queue
  PROVE  Elsewhere(s)
BY DEF Goto, Ops, Elsewhere

LEMMA ReadElsewhere ==
  ASSUME op \in [Slots -> Ops], NEW s \in Slots, NEW label, NEW value,
         Read(s, value, label),
         op[s].pc \notin Waiting, label \notin Waiting, UNCHANGED queue
  PROVE  Elsewhere(s)
BY DEF Read, Ops, Elsewhere

LEMMA EndElsewhere ==
  ASSUME op \in [Slots -> Ops], NEW s \in Slots, End(s),
         op[s].pc \notin Waiting, UNCHANGED queue
  PROVE  Elsewhere(s)
BY DEF End, Idle, Waiting, Elsewhere

LEMMA GotoSends ==
  ASSUME op \in [Slots -> Ops], NEW s \in Slots, NEW label \in Waiting, Goto(s, label),
         op[s].pc \notin Waiting,
         NEW k \in SUBSET Users, NEW b \in (SUBSET Users) \ {{}}, SendKeyloads(s, k, b)
  PROVE  Sends(s)
BY DEF Goto, Ops, Sends

LEMMA RequestServed ==
  ASSUME TypeOK, WaitersServed, NEW u \in Subscribers, RequestStart(u) \/ Request(u)
  PROVE  WaitersServed'
<1> DEFINE s == <<"request", u>>
<1>1. s \in Slots /\ op \in [Slots -> Ops]
  BY SlotsOf DEF TypeOK
<1>2. CASE RequestStart(u)
  <2>1. PICK g \in Rights :
          op' = [op EXCEPT ![s] = [Started("rq.key", u) EXCEPT !.right = g]]
    BY <1>2 DEF RequestStart
  <2>2. [Started("rq.key", u) EXCEPT !.right = g].pc \notin Waiting
    BY DEF Started, Idle, Waiting
  <2>3. op[s].pc \notin Waiting
    BY <1>2 DEF RequestStart, Idle, Waiting
  <2> QED BY <1>1, <1>2, <2>1, <2>2, <2>3, ElsewhereServed DEF RequestStart, Elsewhere
<1>3. CASE RequestCheckKey(u) \/ RequestAddState(u) \/ RequestAddDoc(u)
  <2>1. op[s].pc \notin Waiting /\ UNCHANGED queue
    BY <1>3 DEF RequestCheckKey, RequestAddState, RequestAddDoc, Waiting
  <2>2. End(s) \/ Goto(s, "rq.state") \/ Goto(s, "rq.doc") \/ Goto(s, "rq.read")
    BY <1>3 DEF RequestCheckKey, RequestAddState, RequestAddDoc
  <2> QED BY <1>1, <2>1, <2>2, EndElsewhere, GotoElsewhere, ElsewhereServed DEF Waiting
<1>4. CASE RequestReadIds(u) \/ RequestWriteIds(u)
  <2>1. op[s].pc \notin Waiting /\ UNCHANGED queue
    BY <1>4 DEF RequestReadIds, RequestWriteIds, Waiting
  <2>2. End(s) \/ Read(s, requestedIds, "rq.write")
    BY <1>4 DEF RequestReadIds, RequestWriteIds
  <2> QED BY <1>1, <2>1, <2>2, EndElsewhere, ReadElsewhere, ElsewhereServed DEF Waiting
<1> QED BY <1>2, <1>3, <1>4 DEF Request

LEMMA StartedElsewhere ==
  ASSUME op \in [Slots -> Ops], NEW s \in Slots, op[s] = Idle, NEW new,
         op' = [op EXCEPT ![s] = new], new.pc \notin Waiting, UNCHANGED queue
  PROVE  Elsewhere(s)
<1>1. op[s].pc \notin Waiting
  BY DEF Idle, Waiting
<1> QED BY <1>1 DEF Elsewhere

LEMMA AuthorizeServed ==
  ASSUME TypeOK, WaitersServed, NEW s \in AuthorOps, AuthorizeStart(s) \/ Authorize(s)
  PROVE  WaitersServed'
<1>1. /\ s \in Slots /\ op \in [Slots -> Ops]
      /\ op[s].user \in Users /\ op[s].set \in SUBSET Users /\ Author \in Users
  BY SlotsOf, OpFields, ReadersAreUsers DEF TypeOK
<1>2. CASE AuthorizeStart(s)
  <2>1. PICK u \in Users : op' = [op EXCEPT ![s] = Started("au.load", u)]
    BY <1>2 DEF AuthorizeStart
  <2>2. Started("au.load", u).pc \notin Waiting
    BY DEF Started, Idle, Waiting
  <2> QED BY <1>1, <1>2, <2>1, <2>2, StartedElsewhere, ElsewhereServed
          DEF AuthorizeStart
<1>3. CASE AuthorizeLoad(s) \/ AuthorizeSaveState(s) \/ AuthorizeWriteRequested(s)
             \/ AuthorizeWriteSubscribers(s)
  <2>1. op[s].pc \notin Waiting /\ UNCHANGED queue
    BY <1>3 DEF AuthorizeLoad, AuthorizeSaveState, AuthorizeWriteRequested,
                AuthorizeWriteSubscribers, Waiting
  <2>2. End(s) \/ Goto(s, "au.list") \/ Goto(s, "au.readReq") \/ Goto(s, "au.readSub")
    BY <1>3 DEF AuthorizeLoad, AuthorizeSaveState, AuthorizeWriteRequested,
                AuthorizeWriteSubscribers
  <2> QED BY <1>1, <2>1, <2>2, EndElsewhere, GotoElsewhere, ElsewhereServed DEF Waiting
<1>4. CASE AuthorizeList(s) \/ AuthorizeReadRequested(s) \/ AuthorizeReadSubscribers(s)
  <2>1. op[s].pc \notin Waiting /\ UNCHANGED queue
    BY <1>4 DEF AuthorizeList, AuthorizeReadRequested, AuthorizeReadSubscribers, Waiting
  <2>2. \E value : Read(s, value, "au.send") \/ Read(s, value, "au.writeReq")
                     \/ Read(s, value, "au.writeSub")
    BY <1>4 DEF AuthorizeList, AuthorizeReadRequested, AuthorizeReadSubscribers
  <2> QED BY <1>1, <2>1, <2>2, ReadElsewhere, ElsewhereServed DEF Waiting
<1>5. CASE AuthorizeSend(s)
  <2>1. Sends(s)
    BY <1>1, <1>5, GotoSends DEF AuthorizeSend, Waiting
  <2> QED BY <1>1, <2>1, SendsServed
<1>6. CASE AuthorizeRekey(s)
  <2>1. CASE op[s].set # {}
    <3>1. Sends(s)
      BY <1>1, <1>6, <2>1, GotoSends DEF AuthorizeRekey, Waiting
    <3> QED BY <1>1, <3>1, SendsServed
  <2>2. CASE op[s].set = {}
    <3>1. op[s].pc \notin Waiting /\ UNCHANGED queue /\ Goto(s, "au.save")
      BY <1>6, <2>2 DEF AuthorizeRekey, Waiting
    <3> QED BY <1>1, <3>1, GotoElsewhere, ElsewhereServed DEF Waiting
  <2> QED BY <2>1, <2>2
<1> QED BY <1>2, <1>3, <1>4, <1>5, <1>6 DEF Authorize

LEMMA RevokeServed ==
  ASSUME TypeOK, WaitersServed, NEW s \in AuthorOps, RevokeStart(s) \/ Revoke(s)
  PROVE  WaitersServed'
<1>1. /\ s \in Slots /\ op \in [Slots -> Ops]
      /\ op[s].user \in Users /\ op[s].set \in SUBSET Users /\ Author \in Users
  BY SlotsOf, OpFields, ReadersAreUsers DEF TypeOK
<1>2. CASE RevokeStart(s)
  <2>1. PICK u \in Users :
          op' = [op EXCEPT ![s] = [Started("rv.list", u) EXCEPT !.was = u \in authorized]]
    BY <1>2 DEF RevokeStart
  <2>2. [Started("rv.list", u) EXCEPT !.was = u \in authorized].pc \notin Waiting
    BY DEF Started, Idle, Waiting
  <2> QED BY <1>1, <1>2, <2>1, <2>2, StartedElsewhere, ElsewhereServed DEF RevokeStart
<1>3. CASE RevokeRemoveState(s) \/ RevokeRemoveDoc(s) \/ RevokeWriteIds(s)
             \/ RevokeSaveState(s)
  <2>1. op[s].pc \notin Waiting /\ UNCHANGED queue
    BY <1>3 DEF RevokeRemoveState, RevokeRemoveDoc, RevokeWriteIds, RevokeSaveState,
                Waiting
  <2>2. End(s) \/ Goto(s, "rv.doc") \/ Goto(s, "rv.read") \/ Goto(s, "rv.save")
    BY <1>3 DEF RevokeRemoveState, RevokeRemoveDoc, RevokeWriteIds, RevokeSaveState
  <2> QED BY <1>1, <2>1, <2>2, EndElsewhere, GotoElsewhere, ElsewhereServed DEF Waiting
<1>4. CASE RevokeList(s) \/ RevokeReadIds(s)
  <2>1. op[s].pc \notin Waiting /\ UNCHANGED queue
    BY <1>4 DEF RevokeList, RevokeReadIds, Waiting
  <2>2. End(s) \/ (\E value : Read(s, value, "rv.send") \/ Read(s, value, "rv.write"))
    BY <1>4 DEF RevokeList, RevokeReadIds
  <2> QED BY <1>1, <2>1, <2>2, EndElsewhere, ReadElsewhere, ElsewhereServed DEF Waiting
<1>5. CASE RevokeSend(s)
  <2>1. CASE op[s].set # {}
    <3>1. Sends(s)
      BY <1>1, <1>5, <2>1, GotoSends DEF RevokeSend, Waiting
    <3> QED BY <1>1, <3>1, SendsServed
  <2>2. CASE op[s].set = {}
    <3>1. op[s].pc \notin Waiting /\ UNCHANGED queue /\ Goto(s, "rv.state")
      BY <1>5, <2>2 DEF RevokeSend, Waiting
    <3> QED BY <1>1, <3>1, GotoElsewhere, ElsewhereServed DEF Waiting
  <2> QED BY <2>1, <2>2
<1> QED BY <1>2, <1>3, <1>4, <1>5 DEF Revoke

LEMMA DeleteServed ==
  ASSUME TypeOK, WaitersServed, NEW u \in Deleted, DeleteStart(u) \/ Delete(u)
  PROVE  WaitersServed'
<1> DEFINE s == <<"delete", u>>
<1>1. s \in Slots /\ op \in [Slots -> Ops]
  BY SlotsOf DEF TypeOK
<1>2. CASE DeleteStart(u)
  <2>1. Started("de.read", u).pc \notin Waiting
    BY DEF Started, Idle, Waiting
  <2> QED BY <1>1, <1>2, <2>1, StartedElsewhere, ElsewhereServed DEF DeleteStart
<1>3. CASE Delete(u)
  <2>1. op[s].pc \notin Waiting /\ UNCHANGED queue
    BY <1>3 DEF Delete, DeleteReadIds, DeleteWriteIds, DeleteRemoveDoc, Waiting
  <2>2. End(s) \/ Goto(s, "de.doc") \/ Read(s, subscriberIds, "de.write")
    BY <1>3 DEF Delete, DeleteReadIds, DeleteWriteIds, DeleteRemoveDoc
  <2> QED BY <1>1, <2>1, <2>2, EndElsewhere, GotoElsewhere, ReadElsewhere,
             ElsewhereServed DEF Waiting
<1> QED BY <1>2, <1>3

LEMMA KeyloadServed ==
  ASSUME TypeOK, WaitersServed, Keyload
  PROVE  WaitersServed'
<1> DEFINE b == Head(queue)
<1>1. /\ b \in Batches /\ queue \in Seq(Batches) /\ queue # <<>>
      /\ b.slot \in Slots /\ op \in [Slots -> Ops]
  BY HeadQueue DEF TypeOK, Keyload, Batches
<1>2. b.live => op[b.slot].pc \in Waiting
  <2>1. b = queue[1] /\ 1 \in DOMAIN queue
    BY <1>1
  <2> QED BY <2>1 DEF WaitersServed
<1>3. PICK v \in Users : KeyloadSent(v) \/ KeyloadFailed(v)
  BY DEF Keyload
<1> DEFINE left == [b EXCEPT !.todo = @ \ {v}]
           abandoned == [b EXCEPT !.todo = @ \ {v}, !.live = FALSE]
<1>4. b.todo # {v} /\ v \in b.todo =>
        /\ left \in Batches /\ left.slot = b.slot /\ left.live = b.live
        /\ abandoned \in Batches /\ ~abandoned.live
        /\ [queue EXCEPT ![1].todo = @ \ {v}] = [queue EXCEPT ![1] = left]
        /\ [queue EXCEPT ![1].todo = @ \ {v}, ![1].live = FALSE]
             = [queue EXCEPT ![1] = abandoned]
  <2>1. b = queue[1] /\ 1 \in DOMAIN queue /\ queue[1] \in Batches
    BY <1>1
  <2> QED BY <1>1, <2>1 DEF Batches
<1>5. CASE KeyloadSent(v) /\ b.todo # {v}
  <2>1. queue' = [queue EXCEPT ![1] = left] /\ UNCHANGED op
    BY <1>4, <1>5 DEF KeyloadSent
  <2>2. v \in b.todo
    BY <1>5 DEF KeyloadSent
  <2> QED BY <1>1, <1>4, <1>5, <2>1, <2>2, HeadStays
<1>6. CASE KeyloadSent(v) /\ b.todo = {v}
  <2>1. /\ queue' = Tail(queue)
        /\ IF b.live THEN Goto(b.slot, Resumed(op[b.slot].pc)) ELSE UNCHANGED op
    BY <1>6 DEF KeyloadSent
  <2>2. b.live => Resumed(op[b.slot].pc) \notin Waiting
    BY <1>2 DEF Resumed, Waiting
  <2>3. CASE b.live
    <3>1. op' = [op EXCEPT ![b.slot].pc = Resumed(op[b.slot].pc)]
      BY <2>1, <2>3 DEF Goto
    <3>2. op'[b.slot].pc = Resumed(op[b.slot].pc)
      BY <1>1, <3>1 DEF Ops
    <3>3. \A t \in Slots : t # b.slot => op'[t] = op[t]
      BY <1>1, <3>1
    <3> QED BY <1>1, <2>1, <2>2, <2>3, <3>2, <3>3, HeadLeaves
  <2>4. CASE ~b.live
    BY <1>1, <2>1, <2>4, HeadLeaves
  <2> QED BY <2>3, <2>4
<1>7. CASE KeyloadFailed(v) /\ b.todo # {v}
  <2>1. /\ queue' = [queue EXCEPT ![1] = abandoned]
        /\ v \in b.todo
        /\ IF b.live THEN End(b.slot) ELSE UNCHANGED op
    BY <1>4, <1>7 DEF KeyloadFailed
  <2> QED BY <1>1, <1>4, <1>7, <2>1, HeadAbandoned
<1>8. CASE KeyloadFailed(v) /\ b.todo = {v}
  <2>1. /\ queue' = Tail(queue)
        /\ IF b.live THEN End(b.slot) ELSE UNCHANGED op
    BY <1>8 DEF KeyloadFailed
  <2>2. b.live => op'[b.slot].pc \notin Waiting
    BY <1>1, <2>1 DEF End, Idle, Waiting
  <2>3. \A t \in Slots : t # b.slot => op'[t] = op[t]
    BY <1>1, <2>1 DEF End
  <2> QED BY <1>1, <2>1, <2>2, <2>3, HeadLeaves
<1> QED BY <1>3, <1>5, <1>6, <1>7, <1>8

LEMMA FailureServed ==
  ASSUME TypeOK, WaitersServed, (\E s \in Slots : Fail(s)) \/ Crash
  PROVE  WaitersServed'
<1>1. CASE \E s \in Slots : Fail(s)
  <2>1. PICK s \in Slots : Fail(s)
    BY <1>1
  <2>2. Elsewhere(s)
    BY <2>1, EndElsewhere DEF Fail, TypeOK
  <2> QED BY <2>2, ElsewhereServed
<1>2. CASE Crash
  <2>1. queue' = <<>> /\ \A s \in Slots : op'[s].pc = "idle"
    BY <1>2 DEF Crash, Idle
  <2> QED BY <2>1 DEF WaitersServed, Waiting
<1> QED BY <1>1, <1>2

------------------------------------------------------------------------------

(* The types and the account of who waits hold together: a batch that wakes up
   a handler suspended elsewhere would have no await to send it to. *)
ServedInv == TypeOK /\ WaitersServed

LEMMA InitServed == Init => ServedInv
<1> SUFFICES ASSUME Init PROVE ServedInv
  OBVIOUS
<1>1. op \in [Slots -> Ops] /\ queue \in Seq(Batches) /\ queue = <<>>
  BY IdleOp DEF Init
<1>2. TypeOK
  BY <1>1 DEF Init, TypeOK, Users, AllRights, AccessKinds
<1>3. \A s \in Slots : op[s].pc \notin Waiting
  BY DEF Init, Idle, Waiting
<1>4. WaitersServed
  BY <1>1, <1>3 DEF WaitersServed
<1> QED BY <1>2, <1>4 DEF ServedInv

LEMMA ServedStep == ServedInv /\ [Next]_vars => ServedInv'
<1> SUFFICES ASSUME TypeOK, WaitersServed, [Next]_vars PROVE ServedInv'
  BY DEF ServedInv
<1>1. TypeOK'
  BY TypeStep
<1>2. WaitersServed'
  <2>1. CASE UNCHANGED vars
    BY <2>1 DEF vars, WaitersServed
  <2> QED BY <2>1, RequestServed, AuthorizeServed, RevokeServed, DeleteServed,
             KeyloadServed, FailureServed DEF Next
<1> QED BY <1>1, <1>2 DEF ServedInv

(* The keyload mutex and its waiters agree in every state of every channel:
   any number of subscribers, of requests of the author side by side, any
   failures. *)
THEOREM ServedInvariant == Spec => []ServedInv
  BY InitServed, ServedStep, PTL DEF Spec

THEOREM ChannelTypes == Spec => []TypeOK
<1>1. ServedInv => TypeOK
  BY DEF ServedInv
<1> QED BY <1>1, ServedInvariant, PTL

(* No lost wake-up, for every value of the constants. *)
THEOREM NoLostWakeup == Spec => []WaitersServed
<1>1. ServedInv => WaitersServed
  BY DEF ServedInv
<1> QED BY <1>1, ServedInvariant, PTL
=============================================================================

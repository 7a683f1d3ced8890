------------------------- MODULE ChannelAccessProofs -------------------------
(***************************************************************************)
(* Who reads what in ChannelSubscriptions, for every number of users, of   *)
(* failures and of restarts, when the author's requests exclude each other *)
(* and nobody calls DELETE.                                                *)
(*                                                                         *)
(* Keyloads of a request that failed may still wait for the mutex when     *)
(* later requests list the readers and send theirs.  What makes that       *)
(* harmless is the order of the queue: who waits for keyloads has the last *)
(* batch in it, so that everything older is on the tangle before it goes   *)
(* on, and everything it goes on with it does on an empty queue.           *)
(***************************************************************************)
EXTENDS ChannelSubscriptionsProofs

(* The channel-lock holds and DELETE is not called. *)
Undisturbed == (\E a : AuthorSlots = {a}) /\ Deleted = {}

(* Where the keyloads are sent. *)
Settled ==
  {"au.rekey", "au.save", "au.readReq", "au.writeReq", "au.readSub", "au.writeSub",
   "rv.state", "rv.doc", "rv.read", "rv.write", "rv.save"}

(* Who is authorized has a document, the author among them. *)
DocsInv ==
  /\ \A u \in authorized : Subscribed(u)
  /\ right[Author] \in {"ReadAndWrite", "none"}
  /\ Subscribed(Author) => Author \in authorized

Last == queue[Len(queue)]

(* The batch somebody waits for is the last one, and all others, which are left
   over from requests that failed, are for branches of readers. *)
QueueInv ==
  /\ \A i \in DOMAIN queue :
       /\ queue[i].slot \in AuthorOps
       /\ queue[i].live => i = Len(queue)
       /\ \/ queue[i].todo \subseteq ExistingReaders
          \/ queue[i].live /\ op[queue[i].slot].pc = "au.wait"
  /\ \A s \in AuthorOps :
       /\ op[s].pc \in Settled => queue = <<>>
       /\ op[s].pc \in Waiting => queue # <<>> /\ Last.live

(* The list a request has read is still the list of the readers, but for the
   new one. *)
Listed(s) ==
  /\ op[s].pc \in {"au.send", "au.wait", "rv.send", "rv.wait", "rv.state", "rv.doc"} =>
       op[s].set = ExistingReaders
  /\ op[s].pc \in {"au.rekey", "au.waitAll"} =>
       op[s].set \subseteq ExistingReaders /\ ExistingReaders \subseteq op[s].set \cup {op[s].user}
  /\ op[s].pc \in {"rv.list", "rv.send", "rv.wait"} => Subscribed(Author)

(* What an authorization has sent and waits for. *)
Granting(s) ==
  /\ op[s].pc = "au.wait" =>
       Last.keys = {op[s].user, Author} \cup op[s].set /\ Last.todo = {op[s].user}
  /\ op[s].pc = "au.waitAll" =>
       /\ Len(queue) = 1
       /\ Last.keys = {op[s].user, Author} \cup op[s].set
       /\ \A v \in op[s].set : v \notin Last.todo => op[s].user \in readers[v]
  /\ op[s].pc \in {"au.rekey", "au.waitAll"} =>
       op[s].user \in authorized /\ op[s].user \in readers[op[s].user]
  /\ op[s].pc \in {"au.wait", "au.rekey", "au.waitAll"} =>
       (op[s].user \in Subscribers => access[op[s].user] = "granting")

(* What a revocation has sent and waits for. *)
Revoking(s) ==
  /\ op[s].pc = "rv.wait" =>
       /\ Last.keys = {Author} \cup (op[s].set \ {op[s].user})
       /\ Len(queue) # 1 => Last.todo = op[s].set
       /\ \A v \in op[s].set : v \notin Last.todo => readers[v] = Last.keys
  /\ op[s].pc \in {"rv.state", "rv.doc"} =>
       \A v \in op[s].set : readers[v] = {Author} \cup (op[s].set \ {op[s].user})

SlotInv(s) == Listed(s) /\ Granting(s) /\ Revoking(s)

(* What access promises of the branches and of the keyloads in the mutex. *)
UserInv(u) ==
  /\ access[u] = "revoked" =>
       /\ u \notin ExistingReaders
       /\ \A v \in ExistingReaders : u \notin readers[v]
       /\ \A i \in DOMAIN queue : u \notin queue[i].keys
  /\ access[u] = "granted" =>
       /\ u \in authorized
       /\ Reader(u) => /\ \A v \in ExistingReaders : u \in readers[v]
                       /\ \A i \in DOMAIN queue : u \in queue[i].keys

Authors == \A s \in AuthorOps : SlotInv(s)
Accesses == \A u \in Subscribers : UserInv(u)

AccessInv == ServedInv /\ DocsInv /\ QueueInv /\ Authors /\ Accesses

------------------------------------------------------------------------------
(* The steps that send and serve no keyload. *)

(* There is one request of the author at a time. *)
LEMMA OneAuthor ==
  ASSUME Undisturbed, NEW s \in AuthorOps, NEW t \in AuthorOps
  PROVE  s = t
BY DEF Undisturbed, AuthorOps

(* Where a request of the author has nothing to account for. *)
Free == PCs \ {"au.send", "au.wait", "au.rekey", "au.waitAll", "rv.list", "rv.send",
               "rv.wait", "rv.state", "rv.doc"}

LEMMA FreeSlot ==
  ASSUME NEW s \in AuthorOps, op'[s].pc \in Free
  PROVE  SlotInv(s)'
BY DEF Free, SlotInv, Listed, Granting, Revoking

LEMMA SameReaders ==
  ASSUME UNCHANGED docs
  PROVE  /\ ExistingReaders' = ExistingReaders
         /\ readers' = readers /\ right' = right /\ authorized' = authorized
         /\ \A u : Subscribed(u)' = Subscribed(u) /\ Reader(u)' = Reader(u)
         /\ (DocsInv => DocsInv')
<1>1. readers' = readers /\ right' = right /\ authorized' = authorized
  BY DEF docs
<1>2. \A u : Subscribed(u)' = Subscribed(u) /\ Reader(u)' = Reader(u)
  BY <1>1 DEF Subscribed, Reader
<1>3. ExistingReaders' = ExistingReaders
  BY <1>1 DEF ExistingReaders, Reader
<1>4. DocsInv => DocsInv'
  BY <1>1 DEF DocsInv, Subscribed
<1> QED BY <1>1, <1>2, <1>3, <1>4

LEMMA SameAccess ==
  ASSUME UNCHANGED docs, UNCHANGED queue, UNCHANGED access, Accesses
  PROVE  Accesses'
BY SameReaders DEF Accesses, UserInv

(* A step of a subscriber's request that is not about documents. *)
LEMMA Frame ==
  ASSUME AccessInv, ServedInv', UNCHANGED docs, UNCHANGED queue, UNCHANGED access,
         \A s \in AuthorOps : op'[s] = op[s]
  PROVE  AccessInv'
<1>1. DocsInv' /\ Accesses'
  BY SameReaders, SameAccess DEF AccessInv
<1>2. QueueInv'
  BY SameReaders DEF AccessInv, QueueInv, Last
<1>3. Authors'
  BY SameReaders DEF AccessInv, Authors, SlotInv, Listed, Granting, Revoking, Last
<1> QED BY <1>1, <1>2, <1>3 DEF AccessInv

(* While no request of the author waits, the keyloads in the mutex are those of
   failed requests, for branches of readers. *)
LEMMA NobodyWaits ==
  ASSUME Undisturbed, AccessInv, NEW s \in AuthorOps, op[s].pc \notin Waiting
  PROVE  \A i \in DOMAIN queue :
           queue[i].slot = s /\ ~queue[i].live /\ queue[i].todo \subseteq ExistingReaders
BY OneAuthor DEF AccessInv, ServedInv, WaitersServed, QueueInv

(* A step of the author's request between its keyloads. *)
LEMMA AuthorMoves ==
  ASSUME Undisturbed, AccessInv, ServedInv', NEW s \in AuthorOps,
         UNCHANGED docs, UNCHANGED queue, UNCHANGED access,
         op[s].pc \notin Waiting, op'[s].pc \notin Waiting,
         op'[s].pc \in Settled => queue = <<>>,
         SlotInv(s)'
  PROVE  AccessInv'
<1>1. DocsInv' /\ Accesses'
  BY SameReaders, SameAccess DEF AccessInv
<1>2. QueueInv'
  <2>1. \A i \in DOMAIN queue' :
          queue'[i].slot = s /\ ~queue'[i].live /\ queue'[i].todo \subseteq ExistingReaders'
    BY NobodyWaits, SameReaders
  <2>2. \A t \in AuthorOps : t = s
    BY OneAuthor
  <2> QED BY <2>1, <2>2 DEF QueueInv
<1>3. Authors'
  BY OneAuthor DEF Authors
<1> QED BY <1>1, <1>2, <1>3 DEF AccessInv

------------------------------------------------------------------------------
(* requestSubscription *)

LEMMA RequestKeeps ==
  ASSUME Undisturbed, AccessInv, ServedInv', NEW u \in Subscribers,
         RequestStart(u) \/ Request(u)
  PROVE  AccessInv'
<1> DEFINE s == <<"request", u>>
<1>1. op \in [Slots -> Ops] /\ s \in Slots /\ \A t \in AuthorOps : t # s /\ t \in Slots
  BY SlotsOf DEF AccessInv, ServedInv, TypeOK, AuthorOps
<1>2. \A t \in AuthorOps : op'[t] = op[t]
  BY <1>1 DEF RequestStart, Request, RequestCheckKey, RequestAddState, RequestAddDoc,
              RequestReadIds, RequestWriteIds, End, Goto, Read
<1>3. UNCHANGED <<queue, access>>
  BY DEF RequestStart, Request, RequestCheckKey, RequestAddState, RequestAddDoc,
         RequestReadIds, RequestWriteIds
<1>4. CASE UNCHANGED docs
  BY <1>2, <1>3, <1>4, Frame
<1>5. CASE RequestAddDoc(u) /\ ~Subscribed(u)
  <2>1. /\ right' = [right EXCEPT ![u] = op[s].right]
        /\ authorized' = IF op[s].right = "Preshared" THEN authorized \cup {u} ELSE authorized
        /\ readers' = readers
    BY <1>5 DEF RequestAddDoc
  <2>2. /\ right \in [Users -> AllRights \cup {"none"}] /\ u \in Users /\ u # Author
        /\ Author \in Users /\ authorized \subseteq Users /\ authorized' \subseteq Users
    BY AuthorAssumption DEF AccessInv, ServedInv, TypeOK, Users
  <2>3. u \notin authorized
    BY <1>5 DEF AccessInv, DocsInv
  <2>4. /\ \A v \in Users : v # u => right'[v] = right[v]
        /\ right'[u] = op[s].right
    BY <2>1, <2>2
  <2>5. ExistingReaders' = ExistingReaders
    BY <2>1, <2>2, <2>3, <2>4 DEF ExistingReaders, Reader
  <2>6. DocsInv'
    <3>1. ASSUME NEW v \in authorized' PROVE right'[v] # "none"
      <4>1. CASE v = u
        BY <2>1, <2>3, <2>4, <3>1, <4>1
      <4>2. CASE v # u
        <5>1. v \in authorized /\ v \in Users
          BY <2>1, <2>2, <3>1, <4>2
        <5> QED BY <2>4, <4>2, <5>1 DEF AccessInv, DocsInv, Subscribed
      <4> QED BY <4>1, <4>2
    <3>2. right'[Author] = right[Author]
      BY <2>2, <2>4
    <3> QED BY <2>1, <3>1, <3>2 DEF AccessInv, DocsInv, Subscribed
  <2>7. QueueInv'
    BY <1>2, <1>3, <2>5 DEF AccessInv, QueueInv, Last
  <2>8. Subscribed(Author)' = Subscribed(Author)
    BY <2>2, <2>4 DEF Subscribed
  <2>9. authorized \subseteq authorized'
    BY <2>1
  <2>10. Authors'
    BY <1>2, <1>3, <2>1, <2>5, <2>8, <2>9
       DEF AccessInv, Authors, SlotInv, Listed, Granting, Revoking, Last
  <2>11. ASSUME NEW w \in Subscribers PROVE UserInv(w)'
    <3>1. UserInv(w)
      BY DEF AccessInv, Accesses
    <3>2. CASE w = u
      BY <1>3, <2>1, <2>3, <2>5, <3>1, <3>2 DEF UserInv
    <3>3. CASE w # u
      <4>1. Reader(w)' = Reader(w)
        BY <2>4, <3>3 DEF Reader, Users
      <4> QED BY <1>3, <2>1, <2>5, <2>9, <3>1, <4>1 DEF UserInv
    <3> QED BY <3>2, <3>3
  <2> QED BY <2>6, <2>7, <2>10, <2>11 DEF AccessInv, Accesses
<1>6. UNCHANGED docs \/ (RequestAddDoc(u) /\ ~Subscribed(u))
  BY DEF RequestStart, Request, RequestCheckKey, RequestAddState, RequestAddDoc,
         RequestReadIds, RequestWriteIds
<1> QED BY <1>4, <1>5, <1>6

------------------------------------------------------------------------------
(* Where a request of the author goes between its keyloads. *)

LEMMA GotoFields ==
  ASSUME TypeOK, NEW s \in Slots, NEW label, Goto(s, label)
  PROVE  op'[s].pc = label /\ op'[s].user = op[s].user /\ op'[s].set = op[s].set
BY DEF TypeOK, Ops, Goto

LEMMA ReadFields ==
  ASSUME TypeOK, NEW s \in Slots, NEW value, NEW label, Read(s, value, label)
  PROVE  op'[s].pc = label /\ op'[s].user = op[s].user /\ op'[s].set = value
BY DEF TypeOK, Ops, Read

LEMMA EndFields ==
  ASSUME TypeOK, NEW s \in Slots, End(s)
  PROVE  op'[s].pc = "idle"
BY DEF TypeOK, End, Idle

(* It goes on or ends with nothing to account for. *)
LEMMA FreeMoves ==
  ASSUME Undisturbed, AccessInv, ServedInv', NEW s \in AuthorOps,
         UNCHANGED docs, UNCHANGED queue, UNCHANGED access,
         op[s].pc \notin Waiting, op'[s].pc \in Free,
         op'[s].pc \in Settled => queue = <<>>
  PROVE  AccessInv'
BY FreeSlot, AuthorMoves DEF Free, Waiting

LEMMA EndMoves ==
  ASSUME Undisturbed, AccessInv, ServedInv', NEW s \in AuthorOps,
         UNCHANGED docs, UNCHANGED queue, UNCHANGED access,
         op[s].pc \notin Waiting, End(s)
  PROVE  AccessInv'
<1>1. op'[s].pc = "idle"
  BY EndFields, SlotsOf DEF AccessInv, ServedInv
<1> QED BY <1>1, FreeMoves DEF Free, PCs, Settled

LEMMA GotoMoves ==
  ASSUME Undisturbed, AccessInv, ServedInv', NEW s \in AuthorOps,
         UNCHANGED docs, UNCHANGED queue, UNCHANGED access,
         op[s].pc \notin Waiting,
         NEW label \in Free, label \in Settled => op[s].pc \in Settled,
         Goto(s, label) \/ (\E value : Read(s, value, label))
  PROVE  AccessInv'
<1>1. op'[s].pc = label
  BY GotoFields, ReadFields, SlotsOf DEF AccessInv, ServedInv
<1>2. op[s].pc \in Settled => queue = <<>>
  BY DEF AccessInv, QueueInv
<1> QED BY <1>1, <1>2, FreeMoves

LEMMA AuthorReads ==
  ASSUME Undisturbed, AccessInv, Subscribed(Author)
  PROVE  Author \in ExistingReaders
BY DEF AccessInv, DocsInv, ExistingReaders, Reader, Subscribed

(* authorizeSubscription: its steps but those that send keyloads. *)
LEMMA AuthorizeKeeps ==
  ASSUME Undisturbed, AccessInv, ServedInv', NEW s \in AuthorOps,
         \/ AuthorizeStart(s) \/ AuthorizeLoad(s) \/ AuthorizeList(s)
         \/ AuthorizeSaveState(s) \/ AuthorizeReadRequested(s)
         \/ AuthorizeWriteRequested(s) \/ AuthorizeReadSubscribers(s)
         \/ AuthorizeWriteSubscribers(s)
  PROVE  AccessInv'
<1>1. s \in Slots /\ TypeOK /\ op \in [Slots -> Ops]
  BY SlotsOf DEF AccessInv, ServedInv, TypeOK
<1>2. UNCHANGED docs /\ UNCHANGED queue /\ UNCHANGED access
  BY DEF AuthorizeStart, AuthorizeLoad, AuthorizeList, AuthorizeSaveState,
         AuthorizeReadRequested, AuthorizeWriteRequested, AuthorizeReadSubscribers,
         AuthorizeWriteSubscribers
<1>3. CASE AuthorizeStart(s)
  <2>1. op[s].pc \notin Waiting
    BY <1>3 DEF AuthorizeStart, Idle, Waiting
  <2>2. op'[s].pc = "au.load"
    BY <1>1, <1>3 DEF AuthorizeStart, Started, Idle
  <2> QED BY <1>2, <2>1, <2>2, FreeMoves DEF Free, PCs, Settled
<1>4. CASE AuthorizeLoad(s)
  <2>1. op[s].pc \notin Waiting /\ (End(s) \/ Goto(s, "au.list"))
    BY <1>4 DEF AuthorizeLoad, Waiting
  <2> QED BY <1>2, <2>1, EndMoves, GotoMoves DEF Free, PCs, Settled
<1>5. CASE AuthorizeList(s)
  <2>1. op'[s].pc = "au.send" /\ op'[s].set = ExistingReaders /\ op[s].pc \notin Waiting
    BY <1>1, <1>5, ReadFields DEF AuthorizeList, Waiting
  <2>2. ExistingReaders' = ExistingReaders
    BY <1>2, SameReaders
  <2>3. SlotInv(s)'
    BY <2>1, <2>2 DEF SlotInv, Listed, Granting, Revoking
  <2>4. op'[s].pc \notin Waiting \cup Settled
    BY <2>1 DEF Waiting, Settled
  <2> QED BY <1>2, <2>1, <2>3, <2>4, AuthorMoves
<1>6. CASE AuthorizeSaveState(s)
  <2>1. op[s].pc = "au.save" /\ (End(s) \/ Goto(s, "au.readReq"))
    BY <1>6 DEF AuthorizeSaveState
  <2> QED BY <1>2, <2>1, EndMoves, GotoMoves DEF Free, PCs, Settled, Waiting
<1>7. CASE AuthorizeReadRequested(s)
  <2>1. op[s].pc = "au.readReq" /\ (\E value : Read(s, value, "au.writeReq"))
    BY <1>7 DEF AuthorizeReadRequested
  <2> QED BY <1>2, <2>1, GotoMoves DEF Free, PCs, Settled, Waiting
<1>8. CASE AuthorizeWriteRequested(s)
  <2>1. op[s].pc = "au.writeReq" /\ Goto(s, "au.readSub")
    BY <1>8 DEF AuthorizeWriteRequested
  <2> QED BY <1>2, <2>1, GotoMoves DEF Free, PCs, Settled, Waiting
<1>9. CASE AuthorizeReadSubscribers(s)
  <2>1. op[s].pc = "au.readSub" /\ (\E value : Read(s, value, "au.writeSub"))
    BY <1>9 DEF AuthorizeReadSubscribers
  <2> QED BY <1>2, <2>1, GotoMoves DEF Free, PCs, Settled, Waiting
<1>10. CASE AuthorizeWriteSubscribers(s)
  <2>1. op[s].pc \notin Waiting /\ End(s)
    BY <1>10 DEF AuthorizeWriteSubscribers, Waiting
  <2> QED BY <1>2, <2>1, EndMoves
<1> QED BY <1>3, <1>4, <1>5, <1>6, <1>7, <1>8, <1>9, <1>10

(* revokeSubscription: its steps but those that send keyloads and remove the
   document. *)
LEMMA RevokeKeeps ==
  ASSUME Undisturbed, AccessInv, ServedInv', NEW s \in AuthorOps,
         \/ RevokeStart(s) \/ RevokeList(s) \/ RevokeRemoveState(s) \/ RevokeReadIds(s)
         \/ RevokeWriteIds(s) \/ RevokeSaveState(s)
  PROVE  AccessInv'
<1>1. s \in Slots /\ TypeOK /\ op \in [Slots -> Ops] /\ SlotInv(s)
  BY SlotsOf DEF AccessInv, ServedInv, TypeOK, Authors
<1>2. UNCHANGED docs /\ UNCHANGED queue /\ UNCHANGED access
  BY DEF RevokeStart, RevokeList, RevokeRemoveState, RevokeReadIds, RevokeWriteIds,
         RevokeSaveState
<1>3. /\ ExistingReaders' = ExistingReaders /\ readers' = readers
      /\ Subscribed(Author)' = Subscribed(Author)
  BY <1>2, SameReaders
<1>4. CASE RevokeStart(s)
  <2>1. op[s].pc \notin Waiting /\ Subscribed(Author)
    BY <1>4 DEF RevokeStart, Idle, Waiting
  <2>2. op'[s].pc = "rv.list"
    BY <1>1, <1>4 DEF RevokeStart, Started, Idle
  <2>3. SlotInv(s)'
    BY <1>3, <2>1, <2>2 DEF SlotInv, Listed, Granting, Revoking
  <2>4. op'[s].pc \notin Waiting \cup Settled
    BY <2>2 DEF Waiting, Settled
  <2> QED BY <1>2, <2>1, <2>3, <2>4, AuthorMoves
<1>5. CASE RevokeList(s)
  <2>1. op[s].pc = "rv.list" /\ op[s].pc \notin Waiting /\ Subscribed(Author)
    BY <1>1, <1>5 DEF RevokeList, SlotInv, Listed, Waiting
  <2>2. CASE Read(s, ExistingReaders, "rv.send")
    <3>1. op'[s].pc = "rv.send" /\ op'[s].set = ExistingReaders
      BY <1>1, <2>2, ReadFields
    <3>2. SlotInv(s)'
      BY <1>3, <2>1, <3>1 DEF SlotInv, Listed, Granting, Revoking
    <3>3. op'[s].pc \notin Waiting \cup Settled
      BY <3>1 DEF Waiting, Settled
    <3> QED BY <1>2, <2>1, <3>2, <3>3, AuthorMoves
  <2>3. CASE End(s)
    BY <1>2, <2>1, <2>3, EndMoves
  <2> QED BY <1>5, <2>2, <2>3 DEF RevokeList
<1>6. CASE RevokeRemoveState(s)
  <2>1. op[s].pc = "rv.state" /\ op[s].pc \notin Waiting /\ queue = <<>>
    BY <1>6 DEF RevokeRemoveState, AccessInv, QueueInv, Waiting, Settled
  <2>2. op'[s].pc = "rv.doc" /\ op'[s].set = op[s].set /\ op'[s].user = op[s].user
    BY <1>1, <1>6, GotoFields DEF RevokeRemoveState
  <2>3. SlotInv(s)'
    BY <1>1, <1>3, <2>1, <2>2 DEF SlotInv, Listed, Granting, Revoking
  <2>4. op'[s].pc \notin Waiting
    BY <2>2 DEF Waiting
  <2> QED BY <1>2, <2>1, <2>3, <2>4, AuthorMoves
<1>7. CASE RevokeReadIds(s)
  <2>1. op[s].pc = "rv.read" /\ (\E value : Read(s, value, "rv.write"))
    BY <1>7 DEF RevokeReadIds
  <2> QED BY <1>2, <2>1, GotoMoves DEF Free, PCs, Settled, Waiting
<1>8. CASE RevokeWriteIds(s)
  <2>1. op[s].pc = "rv.write" /\ Goto(s, "rv.save")
    BY <1>8 DEF RevokeWriteIds
  <2> QED BY <1>2, <2>1, GotoMoves DEF Free, PCs, Settled, Waiting
<1>9. CASE RevokeSaveState(s)
  <2>1. op[s].pc \notin Waiting /\ End(s)
    BY <1>9 DEF RevokeSaveState, Waiting
  <2> QED BY <1>2, <2>1, EndMoves
<1> QED BY <1>4, <1>5, <1>6, <1>7, <1>8, <1>9

------------------------------------------------------------------------------
(* The steps that send keyloads. *)

(* The batch joins the queue as its last and only one with a waiter. *)
LEMMA SendKeeps ==
  ASSUME Undisturbed, AccessInv, ServedInv', NEW s \in AuthorOps, op[s].pc \notin Waiting,
         NEW k, NEW b, SendKeyloads(s, k, b), UNCHANGED docs,
         b \subseteq ExistingReaders \/ op'[s].pc = "au.wait",
         op'[s].pc \in Waiting, SlotInv(s)',
         \A w \in Subscribers : access'[w] = "revoked" => access[w] = "revoked" /\ w \notin k,
         \A w \in Subscribers :
           access'[w] = "granted" => access[w] = "granted" /\ (Reader(w) => w \in k)
  PROVE  AccessInv'
<1> DEFINE new == [slot |-> s, keys |-> k, todo |-> b, live |-> TRUE]
<1>1. /\ queue' = Append(queue, new)
      /\ queue \in Seq(Batches)
      /\ Len(queue') = Len(queue) + 1
      /\ queue' # <<>>
      /\ DOMAIN queue' = DOMAIN queue \cup {Len(queue')}
      /\ queue'[Len(queue')] = new
      /\ \A i \in DOMAIN queue : queue'[i] = queue[i]
  BY DEF SendKeyloads, AccessInv, ServedInv, TypeOK
<1>2. /\ ExistingReaders' = ExistingReaders /\ readers' = readers /\ DocsInv'
      /\ authorized' = authorized /\ \A w : Reader(w)' = Reader(w)
  BY SameReaders DEF AccessInv
<1>3. \A i \in DOMAIN queue :
        queue[i].slot = s /\ ~queue[i].live /\ queue[i].todo \subseteq ExistingReaders
  BY NobodyWaits
<1>4. QueueInv'
  <2>1. op'[s].pc \notin Settled
    BY DEF Waiting, Settled
  <2>2. \A t \in AuthorOps : t = s
    BY OneAuthor
  <2> QED BY <1>1, <1>2, <1>3, <2>1, <2>2 DEF QueueInv, Last
<1>5. Authors'
  BY OneAuthor DEF Authors
<1>6. ASSUME NEW w \in Subscribers PROVE UserInv(w)'
  <2>1. UserInv(w)
    BY DEF AccessInv, Accesses
  <2>2. CASE access'[w] = "revoked"
    BY <1>1, <1>2, <2>1, <2>2 DEF UserInv
  <2>3. CASE access'[w] = "granted"
    BY <1>1, <1>2, <2>1, <2>3 DEF UserInv
  <2> QED BY <2>2, <2>3 DEF UserInv
<1> QED BY <1>2, <1>4, <1>5, <1>6 DEF AccessInv, Accesses

LEMMA AuthorizeSendKeeps ==
  ASSUME Undisturbed, AccessInv, ServedInv', NEW s \in AuthorOps, AuthorizeSend(s)
  PROVE  AccessInv'
<1> DEFINE u == op[s].user
           k == {u, Author} \cup op[s].set
<1>1. /\ s \in Slots /\ TypeOK /\ SlotInv(s) /\ queue \in Seq(Batches)
  BY SlotsOf DEF AccessInv, ServedInv, TypeOK, Authors
<1>2. /\ op[s].pc = "au.send" /\ op[s].pc \notin Waiting /\ UNCHANGED docs
      /\ SendKeyloads(s, k, {u})
      /\ access' = [v \in Subscribers |-> IF v = u THEN "granting" ELSE access[v]]
  BY DEF AuthorizeSend, Waiting
<1>3. op'[s].pc = "au.wait" /\ op'[s].user = u /\ op'[s].set = op[s].set
  BY <1>1, GotoFields DEF AuthorizeSend
<1>4. op[s].set = ExistingReaders /\ ExistingReaders' = ExistingReaders
  BY <1>1, <1>2, SameReaders DEF SlotInv, Listed
<1>5. Last'.keys = k /\ Last'.todo = {u}
  BY <1>1, <1>2 DEF SendKeyloads, Last
<1>6. u \in Subscribers => access'[u] = "granting"
  BY <1>2
<1>7. SlotInv(s)'
  BY <1>3, <1>4, <1>5, <1>6 DEF SlotInv, Listed, Granting, Revoking
<1>8. ASSUME NEW w \in Subscribers, access'[w] = "revoked"
      PROVE  access[w] = "revoked" /\ w \notin k
  <2>1. w # u /\ access[w] = "revoked"
    BY <1>2, <1>8
  <2>2. w \notin ExistingReaders
    BY <2>1 DEF AccessInv, Accesses, UserInv
  <2> QED BY <1>4, <2>1, <2>2, AuthorAssumption
<1>9. ASSUME NEW w \in Subscribers, access'[w] = "granted"
      PROVE  access[w] = "granted" /\ (Reader(w) => w \in k)
  <2>1. w # u /\ access[w] = "granted"
    BY <1>2, <1>9
  <2>2. w \in authorized
    BY <2>1 DEF AccessInv, Accesses, UserInv
  <2> QED BY <1>4, <2>1, <2>2 DEF ExistingReaders
<1>10. op'[s].pc \in Waiting
  BY <1>3 DEF Waiting
<1> HIDE DEF u, k
<1> QED BY <1>2, <1>3, <1>7, <1>8, <1>9, <1>10, SendKeeps

LEMMA AuthorizeRekeyKeeps ==
  ASSUME Undisturbed, AccessInv, ServedInv', NEW s \in AuthorOps, AuthorizeRekey(s)
  PROVE  AccessInv'
<1> DEFINE u == op[s].user
           k == {u, Author} \cup op[s].set
<1>1. /\ s \in Slots /\ TypeOK /\ SlotInv(s) /\ queue \in Seq(Batches)
  BY SlotsOf DEF AccessInv, ServedInv, TypeOK, Authors
<1>2. /\ op[s].pc = "au.rekey" /\ op[s].pc \notin Waiting /\ UNCHANGED docs
      /\ UNCHANGED access /\ queue = <<>>
  BY DEF AuthorizeRekey, Waiting, AccessInv, QueueInv, Settled
<1>3. CASE op[s].set = {}
  <2>1. Goto(s, "au.save") /\ UNCHANGED queue
    BY <1>3 DEF AuthorizeRekey
  <2> QED BY <1>2, <2>1, GotoMoves DEF Free, PCs, Settled
<1>4. CASE op[s].set # {}
  <2>1. SendKeyloads(s, k, op[s].set)
    BY <1>4 DEF AuthorizeRekey
  <2>2. op'[s].pc = "au.waitAll" /\ op'[s].user = u /\ op'[s].set = op[s].set
    BY <1>1, <1>4, GotoFields DEF AuthorizeRekey
  <2>3. /\ op[s].set \subseteq ExistingReaders
        /\ ExistingReaders \subseteq op[s].set \cup {u}
        /\ u \in authorized /\ u \in readers[u]
        /\ u \in Subscribers => access[u] = "granting"
    BY <1>1, <1>2 DEF SlotInv, Listed, Granting
  <2>4. Len(queue') = 1 /\ Last'.keys = k /\ Last'.todo = op[s].set
    BY <1>2, <2>1 DEF SendKeyloads, Last
  <2>5. /\ ExistingReaders' = ExistingReaders /\ readers' = readers
        /\ authorized' = authorized
    BY <1>2, SameReaders
  <2>6. SlotInv(s)'
    BY <1>2, <2>2, <2>3, <2>4, <2>5 DEF SlotInv, Listed, Granting, Revoking
  <2>7. ASSUME NEW w \in Subscribers, access'[w] = "revoked"
        PROVE  access[w] = "revoked" /\ w \notin k
    <3>1. access[w] = "revoked" /\ w # u
      BY <1>2, <2>3, <2>7
    <3>2. w \notin ExistingReaders
      BY <3>1 DEF AccessInv, Accesses, UserInv
    <3> QED BY <2>3, <3>1, <3>2, AuthorAssumption
  <2>8. ASSUME NEW w \in Subscribers, access'[w] = "granted"
        PROVE  access[w] = "granted" /\ (Reader(w) => w \in k)
    <3>1. access[w] = "granted"
      BY <1>2, <2>8
    <3>2. w \in authorized
      BY <3>1 DEF AccessInv, Accesses, UserInv
    <3> QED BY <2>3, <3>1, <3>2 DEF ExistingReaders
  <2>9. op'[s].pc \in Waiting
    BY <2>2 DEF Waiting
  <2> HIDE DEF u, k
  <2> QED BY <1>2, <2>1, <2>3, <2>6, <2>7, <2>8, <2>9, SendKeeps
<1> QED BY <1>3, <1>4

LEMMA RevokeSendKeeps ==
  ASSUME Undisturbed, AccessInv, ServedInv', NEW s \in AuthorOps, RevokeSend(s)
  PROVE  AccessInv'
<1> DEFINE u == op[s].user
           k == {Author} \cup (op[s].set \ {u})
<1>1. /\ s \in Slots /\ TypeOK /\ SlotInv(s) /\ queue \in Seq(Batches)
  BY SlotsOf DEF AccessInv, ServedInv, TypeOK, Authors
<1>2. /\ op[s].pc = "rv.send" /\ op[s].pc \notin Waiting /\ UNCHANGED docs
      /\ access' = [v \in Subscribers |-> IF v = u THEN "revoking" ELSE access[v]]
  BY DEF RevokeSend, Waiting
<1>3. op[s].set = ExistingReaders /\ op[s].set # {} /\ Subscribed(Author)
  BY <1>1, <1>2, AuthorReads DEF SlotInv, Listed
<1>4. SendKeyloads(s, k, op[s].set)
  BY <1>3 DEF RevokeSend
<1>5. op'[s].pc = "rv.wait" /\ op'[s].user = u /\ op'[s].set = op[s].set
  BY <1>1, <1>3, GotoFields DEF RevokeSend
<1>6. Last'.keys = k /\ Last'.todo = op[s].set
  BY <1>1, <1>4 DEF SendKeyloads, Last
<1>7. /\ ExistingReaders' = ExistingReaders /\ readers' = readers
      /\ Subscribed(Author)' = Subscribed(Author)
  BY <1>2, SameReaders
<1>8. SlotInv(s)'
  BY <1>3, <1>5, <1>6, <1>7 DEF SlotInv, Listed, Granting, Revoking
<1>9. ASSUME NEW w \in Subscribers, access'[w] = "revoked"
      PROVE  access[w] = "revoked" /\ w \notin k
  <2>1. access[w] = "revoked"
    BY <1>2, <1>9
  <2>2. w \notin ExistingReaders
    BY <2>1 DEF AccessInv, Accesses, UserInv
  <2> QED BY <1>3, <2>1, <2>2, AuthorAssumption
<1>10. ASSUME NEW w \in Subscribers, access'[w] = "granted"
       PROVE  access[w] = "granted" /\ (Reader(w) => w \in k)
  <2>1. w # u /\ access[w] = "granted"
    BY <1>2, <1>10
  <2>2. w \in authorized
    BY <2>1 DEF AccessInv, Accesses, UserInv
  <2> QED BY <1>3, <2>1, <2>2 DEF ExistingReaders
<1>11. op'[s].pc \in Waiting
  BY <1>5 DEF Waiting
<1> HIDE DEF u, k
<1> QED BY <1>2, <1>3, <1>4, <1>8, <1>9, <1>10, <1>11, SendKeeps

(* The document goes when every branch that stays has been keyed anew and no
   keyload waits any more. *)
LEMMA RevokeRemoveDocKeeps ==
  ASSUME Undisturbed, AccessInv, ServedInv', NEW s \in AuthorOps, RevokeRemoveDoc(s)
  PROVE  AccessInv'
<1> DEFINE u == op[s].user
<1>1. s \in Slots /\ TypeOK /\ SlotInv(s) /\ u \in Users
  BY SlotsOf, OpFields DEF AccessInv, ServedInv, Authors
<1>2. /\ op[s].pc = "rv.doc" /\ queue = <<>> /\ queue' = <<>>
      /\ right' = [right EXCEPT ![u] = "none"]
      /\ authorized' = authorized \ {u}
      /\ readers' = [readers EXCEPT ![u] = {}]
      /\ access' = [v \in Subscribers |-> IF v = u THEN "revoked" ELSE access[v]]
  BY DEF RevokeRemoveDoc, RemoveDoc, AccessInv, QueueInv, Settled
<1>3. op'[s].pc = "rv.read"
  BY <1>1, GotoFields DEF RevokeRemoveDoc
<1>4. /\ op[s].set = ExistingReaders
      /\ \A v \in op[s].set : readers[v] = {Author} \cup (op[s].set \ {u})
  BY <1>1, <1>2 DEF SlotInv, Listed, Revoking
<1>5. /\ right \in [Users -> AllRights \cup {"none"}] /\ readers \in [Users -> SUBSET Users]
      /\ authorized \subseteq Users /\ Author \in Users
  BY <1>1 DEF TypeOK, Users
<1>6. /\ right'[u] = "none"
      /\ \A v \in Users : v # u => right'[v] = right[v] /\ readers'[v] = readers[v]
  BY <1>1, <1>2, <1>5
<1>7. ExistingReaders' = ExistingReaders \ {u}
  BY <1>2, <1>5, <1>6 DEF ExistingReaders, Reader
<1>8. DocsInv'
  <2>1. CASE u = Author
    BY <1>2, <1>5, <1>6, <2>1 DEF AccessInv, DocsInv, Subscribed
  <2>2. CASE u # Author
    BY <1>2, <1>5, <1>6, <2>2 DEF AccessInv, DocsInv, Subscribed
  <2> QED BY <2>1, <2>2
<1>9. QueueInv'
  <2>1. \A t \in AuthorOps : op'[t].pc \notin Waiting
    BY <1>3, OneAuthor DEF Waiting
  <2> QED BY <1>2, <2>1 DEF QueueInv
<1>10. Authors'
  <2>1. SlotInv(s)'
    BY <1>3, FreeSlot DEF Free, PCs
  <2> QED BY <2>1, OneAuthor DEF Authors
<1>11. ASSUME NEW w \in Subscribers PROVE UserInv(w)'
  <2>1. UserInv(w) /\ w # Author /\ w \in Users
    BY AuthorAssumption DEF AccessInv, Accesses, Users
  <2>2. \A v \in ExistingReaders' : v \in ExistingReaders /\ readers'[v] = readers[v]
    BY <1>5, <1>6, <1>7 DEF ExistingReaders
  <2>3. CASE w = u
    BY <1>2, <1>4, <1>7, <2>1, <2>2, <2>3 DEF UserInv
  <2>4. CASE w # u
    <3>1. access'[w] = access[w] /\ Reader(w)' = Reader(w)
      BY <1>2, <1>6, <2>1, <2>4 DEF Reader
    <3> QED BY <1>2, <1>7, <2>1, <2>2, <2>4, <3>1 DEF UserInv
  <2> QED BY <2>3, <2>4
<1> QED BY <1>8, <1>9, <1>10, <1>11 DEF AccessInv, Accesses

------------------------------------------------------------------------------
(* sendKeyload *)

(* The call for branch v of the batch that holds the mutex is done with. *)
CallDone(v) ==
  IF Head(queue).todo = {v}
    THEN queue' = Tail(queue)
    ELSE \/ queue' = [queue EXCEPT ![1].todo = @ \ {v}]
         \/ queue' = [queue EXCEPT ![1].todo = @ \ {v}, ![1].live = FALSE]

(* What is left are the same batches in the same order. *)
Shortened ==
  \A i \in DOMAIN queue' : \E j \in DOMAIN queue :
    /\ queue'[i].slot = queue[j].slot
    /\ queue'[i].keys = queue[j].keys
    /\ queue'[i].todo \subseteq queue[j].todo
    /\ queue'[i].live => queue[j].live
    /\ j = Len(queue) => i = Len(queue')

LEMMA HeadTaken ==
  ASSUME NEW q \in Seq(Batches), q # <<>>, NEW r, r = Tail(q)
  PROVE  /\ Len(q) \in Nat \ {0} /\ DOMAIN q = 1..Len(q)
         /\ r \in Seq(Batches) /\ Len(r) = Len(q) - 1 /\ DOMAIN r = 1..Len(r)
         /\ \A i \in DOMAIN r : r[i] = q[i + 1]
         /\ Len(q) = 1 => r = <<>>
OBVIOUS

LEMMA HeadReplaced ==
  ASSUME NEW q \in Seq(Batches), q # <<>>, NEW c \in Batches, NEW r,
         r = [q EXCEPT ![1] = c]
  PROVE  /\ r \in Seq(Batches) /\ DOMAIN r = DOMAIN q /\ Len(r) = Len(q) /\ r # <<>>
         /\ r[1] = c
         /\ \A i \in DOMAIN q : i # 1 => r[i] = q[i]
<1>1. 1 \in DOMAIN q /\ Len(q) \in Nat /\ Len(q) # 0 /\ q \in [1..Len(q) -> Batches]
  OBVIOUS
<1>2. r \in [1..Len(q) -> Batches]
  BY <1>1
<1>3. Len(r) = Len(q) /\ r \in Seq(Batches)
  BY <1>1, <1>2
<1> QED BY <1>1, <1>2, <1>3

LEMMA QueueShortened ==
  ASSUME TypeOK, queue # <<>>, NEW v \in Head(queue).todo, CallDone(v)
  PROVE  /\ Shortened
         /\ Len(queue) # 1 => queue' # <<>> /\ Last' = Last
         /\ Len(queue) = 1 /\ Head(queue).todo = {v} => queue' = <<>>
         /\ Len(queue) = 1 /\ Head(queue).todo # {v} =>
              /\ queue' # <<>> /\ Len(queue') = 1 /\ Last'.keys = Last.keys
              /\ Last'.todo = Last.todo \ {v}
              /\ queue' = [queue EXCEPT ![1].todo = @ \ {v}] => Last'.live = Last.live
<1>1. /\ queue \in Seq(Batches) /\ Len(queue) \in Nat /\ Len(queue) # 0
      /\ DOMAIN queue = 1..Len(queue) /\ 1 \in DOMAIN queue
      /\ Head(queue) = queue[1] /\ queue[1] \in Batches
  BY DEF TypeOK
<1>2. CASE Head(queue).todo = {v}
  <2>1. /\ queue' = Tail(queue)
        /\ Len(queue') = Len(queue) - 1
        /\ DOMAIN queue' = 1..(Len(queue) - 1)
        /\ \A i \in DOMAIN queue' : queue'[i] = queue[i + 1]
        /\ Len(queue) = 1 => queue' = <<>>
    <3>1. queue' = Tail(queue)
      BY <1>2 DEF CallDone
    <3> QED BY <1>1, <3>1, HeadTaken
  <2>2. \A i \in DOMAIN queue' :
          /\ i + 1 \in DOMAIN queue
          /\ i + 1 = Len(queue) => i = Len(queue')
    BY <1>1, <2>1
  <2>3. Shortened
    BY <2>1, <2>2 DEF Shortened
  <2>4. Len(queue) # 1 => Len(queue') \in DOMAIN queue' /\ Len(queue') + 1 = Len(queue)
    BY <1>1, <2>1
  <2>5. Len(queue) # 1 => Last' = Last
    BY <2>1, <2>4 DEF Last
  <2>6. Len(queue) # 1 => queue' # <<>>
    BY <2>4
  <2> QED BY <1>2, <2>1, <2>3, <2>5, <2>6
<1>3. CASE Head(queue).todo # {v}
  <2>1. PICK c \in Batches :
                 /\ queue' = [queue EXCEPT ![1] = c]
                 /\ c.slot = queue[1].slot /\ c.keys = queue[1].keys
                 /\ c.todo = queue[1].todo \ {v}
                 /\ c.live => queue[1].live
                 /\ queue' = [queue EXCEPT ![1].todo = @ \ {v}] => c.live = queue[1].live
    <3>1. CASE queue' = [queue EXCEPT ![1].todo = @ \ {v}]
      <4> DEFINE c == [queue[1] EXCEPT !.todo = @ \ {v}]
      <4>1. queue' = [queue EXCEPT ![1] = c]
        BY <1>1, <3>1
      <4>2. /\ c \in Batches /\ c.slot = queue[1].slot /\ c.keys = queue[1].keys
            /\ c.todo = queue[1].todo \ {v} /\ c.live = queue[1].live
        BY <1>1, <1>3 DEF Batches
      <4> HIDE DEF c
      <4> QED BY <4>1, <4>2
    <3>2. CASE queue' = [queue EXCEPT ![1].todo = @ \ {v}, ![1].live = FALSE]
      <4> DEFINE c == [queue[1] EXCEPT !.todo = @ \ {v}, !.live = FALSE]
      <4>1. queue' = [queue EXCEPT ![1] = c]
        BY <1>1, <3>2
      <4>2. /\ c \in Batches /\ c.slot = queue[1].slot /\ c.keys = queue[1].keys
            /\ c.todo = queue[1].todo \ {v} /\ c.live = FALSE /\ queue[1].live \in BOOLEAN
        BY <1>1, <1>3 DEF Batches
      <4>3. queue' = [queue EXCEPT ![1].todo = @ \ {v}] => queue'[1].live = queue[1].live
        BY <1>1 DEF Batches
      <4>4. queue'[1] = c
        BY <1>1, <4>1
      <4> HIDE DEF c
      <4> QED BY <4>1, <4>2, <4>3, <4>4
    <3> QED BY <1>3, <3>1, <3>2 DEF CallDone
  <2>2. /\ DOMAIN queue' = DOMAIN queue /\ Len(queue') = Len(queue) /\ queue'[1] = c
        /\ \A i \in DOMAIN queue : i # 1 => queue'[i] = queue[i]
    BY <1>1, <2>1, HeadReplaced
  <2>3. Shortened
    BY <2>1, <2>2 DEF Shortened
  <2>4. Len(queue) \in DOMAIN queue
    BY <1>1
  <2>5. queue' # <<>>
    BY <1>1, <2>2
  <2>6. Len(queue) # 1 => Last' = Last
    BY <2>2, <2>4 DEF Last
  <2>7. Len(queue) = 1 =>
          /\ Last'.keys = Last.keys /\ Last'.todo = Last.todo \ {v}
          /\ queue' = [queue EXCEPT ![1].todo = @ \ {v}] => Last'.live = Last.live
    BY <2>1, <2>2 DEF Last
  <2> QED BY <1>3, <2>2, <2>3, <2>5, <2>6, <2>7
<1> QED BY <1>2, <1>3

(* The batch at the head is left over from a failed request, and then for a
   branch of a reader; or it is alone in the queue and the author waits for it. *)
LEMMA HeadBatch ==
  ASSUME Undisturbed, AccessInv, queue # <<>>
  PROVE  /\ 1 \in DOMAIN queue /\ Head(queue) = queue[1] /\ queue[1] \in Batches
         /\ queue[1].slot \in AuthorOps /\ queue[1].slot \in Slots
         /\ queue[1].live =>
              /\ Len(queue) = 1 /\ Last = queue[1]
              /\ op[queue[1].slot].pc \in Waiting
              /\ \/ queue[1].todo \subseteq ExistingReaders
                 \/ op[queue[1].slot].pc = "au.wait"
         /\ ~queue[1].live =>
              /\ queue[1].todo \subseteq ExistingReaders
              /\ \A s \in AuthorOps : op[s].pc \in Waiting => Len(queue) # 1 /\ Last.live
<1>1. queue \in Seq(Batches) /\ WaitersServed /\ QueueInv
  BY DEF AccessInv, ServedInv, TypeOK
<1>2. 1 \in DOMAIN queue /\ Head(queue) = queue[1] /\ queue[1] \in Batches
  BY <1>1
<1>3. queue[1].slot \in AuthorOps /\ queue[1].slot \in Slots
  BY <1>1, <1>2, SlotsOf DEF QueueInv
<1>4. queue[1].live => Len(queue) = 1 /\ op[queue[1].slot].pc \in Waiting
  BY <1>1, <1>2 DEF QueueInv, WaitersServed
<1>5. Len(queue) = 1 => Last = queue[1]
  BY DEF Last
<1>6. queue[1].todo \subseteq ExistingReaders
        \/ (queue[1].live /\ op[queue[1].slot].pc = "au.wait")
  BY <1>1, <1>2 DEF QueueInv
<1>7. ASSUME NEW s \in AuthorOps, op[s].pc \in Waiting PROVE Last.live
  BY <1>1, <1>7 DEF QueueInv
<1> QED BY <1>2, <1>3, <1>4, <1>5, <1>6, <1>7

(* A keyload of a failed request is sent or not: whatever it names, who is
   revoked is not named and who is granted is, and who waits has its batch
   behind it. *)
LEMMA DeadKeeps ==
  ASSUME Undisturbed, AccessInv, ServedInv', queue # <<>>, ~Head(queue).live,
         NEW v \in Head(queue).todo, CallDone(v),
         UNCHANGED <<right, authorized, op, access>>,
         readers' = readers \/ readers' = [readers EXCEPT ![v] = Head(queue).keys]
  PROVE  AccessInv'
<1>1. /\ TypeOK /\ DocsInv /\ QueueInv /\ Authors
      /\ 1 \in DOMAIN queue /\ Head(queue) = queue[1] /\ queue[1].todo \subseteq ExistingReaders
      /\ \A s \in AuthorOps : op[s].pc \in Waiting => Len(queue) # 1 /\ Last.live
  BY HeadBatch DEF AccessInv, ServedInv
<1>2. /\ ExistingReaders' = ExistingReaders /\ DocsInv'
      /\ Subscribed(Author)' = Subscribed(Author) /\ \A w : Reader(w)' = Reader(w)
  BY <1>1 DEF ExistingReaders, Reader, DocsInv, Subscribed
<1>3. Shortened /\ (Len(queue) # 1 => queue' # <<>> /\ Last' = Last)
  BY <1>1, QueueShortened
<1>4. QueueInv'
  <2>1. ASSUME NEW i \in DOMAIN queue'
        PROVE  /\ queue'[i].slot \in AuthorOps
               /\ queue'[i].live => i = Len(queue')
               /\ \/ queue'[i].todo \subseteq ExistingReaders'
                  \/ queue'[i].live /\ op'[queue'[i].slot].pc = "au.wait"
    <3>1. PICK j \in DOMAIN queue :
            /\ queue'[i].slot = queue[j].slot
            /\ queue'[i].todo \subseteq queue[j].todo
            /\ queue'[i].live => queue[j].live
            /\ j = Len(queue) => i = Len(queue')
      BY <1>3 DEF Shortened
    <3>2. /\ queue[j].slot \in AuthorOps
          /\ queue[j].live => j = Len(queue)
          /\ \/ queue[j].todo \subseteq ExistingReaders
             \/ queue[j].live /\ op[queue[j].slot].pc = "au.wait"
      BY <1>1 DEF QueueInv
    <3>3. CASE queue[j].todo \subseteq ExistingReaders
      BY <1>2, <3>1, <3>2, <3>3
    <3>4. CASE queue[j].live /\ op[queue[j].slot].pc = "au.wait"
      <4>1. Len(queue) # 1 /\ i = Len(queue') /\ j = Len(queue)
        BY <1>1, <3>1, <3>2, <3>4 DEF Waiting
      <4>2. queue'[i] = queue[j]
        BY <1>3, <4>1 DEF Last
      <4> QED BY <3>1, <3>2, <3>4, <4>1, <4>2
    <3> QED BY <3>2, <3>3, <3>4
  <2>2. ASSUME NEW s \in AuthorOps
        PROVE  /\ op'[s].pc \notin Settled
               /\ op'[s].pc \in Waiting => queue' # <<>> /\ Last'.live
    BY <1>1, <1>3 DEF QueueInv
  <2> QED BY <2>1, <2>2 DEF QueueInv
<1>5. ASSUME NEW s \in AuthorOps PROVE SlotInv(s)'
  <2>1. SlotInv(s) /\ op'[s] = op[s] /\ op[s].pc \notin Settled
    BY <1>1 DEF Authors, QueueInv
  <2>2. Listed(s)'
    BY <1>2, <2>1 DEF SlotInv, Listed
  <2>3. op[s].pc \notin {"au.rekey", "au.waitAll", "rv.state", "rv.doc"}
    BY <1>1, <2>1 DEF SlotInv, Granting, Settled, Waiting
  <2>4. Granting(s)'
    BY <1>1, <1>3, <2>1, <2>3 DEF SlotInv, Granting, Waiting
  <2>5. op[s].pc = "rv.wait" => Last' = Last /\ Last.todo = op[s].set
    BY <1>1, <1>3, <2>1 DEF SlotInv, Revoking, Waiting
  <2>6. Revoking(s)'
    BY <2>1, <2>3, <2>5 DEF SlotInv, Revoking
  <2> QED BY <2>2, <2>4, <2>6 DEF SlotInv
<1>6. ASSUME NEW w \in Subscribers PROVE UserInv(w)'
  <2>1. UserInv(w)
    BY DEF AccessInv, Accesses
  <2>2. \A x \in ExistingReaders : readers'[x] = readers[x] \/ readers'[x] = queue[1].keys
    BY <1>1 DEF TypeOK, ExistingReaders
  <2>3. \A i \in DOMAIN queue' : \E j \in DOMAIN queue : queue'[i].keys = queue[j].keys
    BY <1>3 DEF Shortened
  <2> QED BY <1>1, <1>2, <2>1, <2>2, <2>3 DEF UserInv
<1> QED BY <1>2, <1>4, <1>5, <1>6 DEF AccessInv, Authors, Accesses

LEMMA KeyloadFailedKeeps ==
  ASSUME Undisturbed, AccessInv, ServedInv', queue # <<>>, NEW v \in Users, KeyloadFailed(v)
  PROVE  AccessInv'
<1>1. /\ v \in Head(queue).todo /\ CallDone(v) /\ UNCHANGED docs /\ UNCHANGED access
      /\ IF Head(queue).live THEN End(Head(queue).slot) ELSE UNCHANGED op
  BY DEF KeyloadFailed, CallDone
<1>2. CASE ~Head(queue).live
  BY <1>1, <1>2, DeadKeeps DEF docs
<1>3. CASE Head(queue).live
  <2> DEFINE s == queue[1].slot
  <2>1. /\ TypeOK /\ s \in AuthorOps /\ s \in Slots /\ Head(queue) = queue[1]
        /\ Len(queue) = 1 /\ Last = queue[1] /\ 1 \in DOMAIN queue
        /\ queue[1].todo \subseteq ExistingReaders \/ op[s].pc = "au.wait"
        /\ SlotInv(s)
    BY <1>3, HeadBatch DEF AccessInv, ServedInv, Authors
  <2>2. op'[s].pc = "idle"
    BY <1>1, <1>3, <2>1, EndFields
  <2>3. ExistingReaders' = ExistingReaders /\ readers' = readers /\ authorized' = authorized
        /\ DocsInv' /\ \A w : Reader(w)' = Reader(w)
    BY <1>1, SameReaders DEF AccessInv
  <2>4. Shortened /\ (Head(queue).todo = {v} => queue' = <<>>)
    BY <1>1, <2>1, QueueShortened
  <2>5. queue[1].todo \subseteq ExistingReaders \/ queue' = <<>>
    BY <1>1, <2>1, <2>4 DEF SlotInv, Granting
  <2>6. \A t \in AuthorOps : t = s
    BY <2>1, OneAuthor
  <2>7. \A i \in DOMAIN queue' :
          queue'[i].slot = s /\ queue'[i].todo \subseteq queue[1].todo
    BY <2>1, <2>4 DEF Shortened
  <2>8. \A i \in DOMAIN queue' : ~queue'[i].live
    BY <2>2, <2>7 DEF ServedInv, WaitersServed, Waiting
  <2>9. QueueInv'
    BY <2>1, <2>2, <2>3, <2>5, <2>6, <2>7, <2>8 DEF QueueInv, Waiting, Settled
  <2>10. Authors'
    BY <2>1, <2>2, <2>6, FreeSlot DEF Authors, Free, PCs
  <2>11. ASSUME NEW w \in Subscribers PROVE UserInv(w)'
    <3>1. UserInv(w)
      BY DEF AccessInv, Accesses
    <3>2. \A i \in DOMAIN queue' : \E j \in DOMAIN queue : queue'[i].keys = queue[j].keys
      BY <2>4 DEF Shortened
    <3> QED BY <1>1, <2>3, <3>1, <3>2 DEF UserInv
  <2> QED BY <2>3, <2>9, <2>10, <2>11 DEF AccessInv, Accesses
<1> QED BY <1>2, <1>3

(* One of several keyloads somebody waits for is sent: the branch names the
   keys of the batch. *)
LEMMA BranchKeyed ==
  ASSUME Undisturbed, AccessInv, ServedInv', queue # <<>>, Head(queue).live,
         NEW v \in Users, KeyloadSent(v), Head(queue).todo # {v}
  PROVE  AccessInv'
<1>0. PICK s \in AuthorOps : s = queue[1].slot
  BY HeadBatch
<1>1. /\ TypeOK /\ s \in AuthorOps /\ s \in Slots /\ Head(queue) = queue[1]
      /\ Len(queue) = 1 /\ Last = queue[1] /\ 1 \in DOMAIN queue
      /\ op[s].pc \in Waiting
      /\ queue[1].todo \subseteq ExistingReaders \/ op[s].pc = "au.wait"
      /\ SlotInv(s)
  BY <1>0, HeadBatch DEF AccessInv, ServedInv, Authors
<1>2. /\ v \in Head(queue).todo /\ CallDone(v)
      /\ queue' = [queue EXCEPT ![1].todo = @ \ {v}]
      /\ op' = op /\ right' = right
      /\ authorized' = authorized \cup {v}
      /\ readers' = [readers EXCEPT ![v] = queue[1].keys]
  BY <1>0, <1>1 DEF KeyloadSent, CallDone
<1>3. \A w \in Subscribers : access'[w] = access[w]
  BY DEF KeyloadSent
<1>4. op[s].pc # "au.wait"
  BY <1>1, <1>2 DEF SlotInv, Granting
<1>5. queue[1].todo \subseteq ExistingReaders /\ v \in ExistingReaders
  BY <1>1, <1>2, <1>4
<1>6. authorized' = authorized
  BY <1>2, <1>5 DEF ExistingReaders
<1>7. /\ ExistingReaders' = ExistingReaders /\ DocsInv'
      /\ Subscribed(Author)' = Subscribed(Author) /\ \A w : Reader(w)' = Reader(w)
  BY <1>2, <1>6 DEF ExistingReaders, Reader, AccessInv, DocsInv, Subscribed
<1>8. /\ Shortened /\ queue' # <<>> /\ Len(queue') = 1 /\ Last'.keys = Last.keys
      /\ Last'.todo = Last.todo \ {v} /\ Last'.live = Last.live
  BY <1>1, <1>2, QueueShortened
<1>9. \A x \in Users : readers'[x] = IF x = v THEN queue[1].keys ELSE readers[x]
  BY <1>1, <1>2 DEF TypeOK
<1>10. ExistingReaders \subseteq Users /\ op[s].user \in Users /\ op[s].set \in SUBSET Users
  BY <1>1, OpFields, ReadersAreUsers
<1>11. \A t \in AuthorOps : t = s
  BY <1>1, OneAuthor
<1>12. QueueInv'
  <2>1. \A i \in DOMAIN queue' :
          /\ queue'[i].slot = s /\ queue'[i].todo \subseteq queue[1].todo
          /\ i = Len(queue')
    BY <1>0, <1>1, <1>8 DEF Shortened
  <2>2. op'[s].pc \notin Settled
    BY <1>1, <1>2 DEF Waiting, Settled
  <2> QED BY <1>1, <1>2, <1>3, <1>5, <1>7, <1>8, <1>11, <2>1, <2>2 DEF QueueInv
<1>13. SlotInv(s)'
  <2>1. Listed(s)'
    BY <1>1, <1>2, <1>7 DEF SlotInv, Listed
  <2>2. CASE op[s].pc = "au.waitAll"
    <3>1. /\ Last.keys = {op[s].user, Author} \cup op[s].set
          /\ \A x \in op[s].set : x \notin Last.todo => op[s].user \in readers[x]
          /\ op[s].user \in authorized /\ op[s].user \in readers[op[s].user]
          /\ op[s].user \in Subscribers => access[op[s].user] = "granting"
      BY <1>1, <2>2 DEF SlotInv, Granting
    <3>2. op[s].user \in readers'[op[s].user]
      BY <1>1, <1>9, <1>10, <3>1
    <3>3. ASSUME NEW x \in op[s].set, x \notin Last'.todo
          PROVE  op[s].user \in readers'[x]
      BY <1>1, <1>8, <1>9, <1>10, <3>1, <3>3
    <3>4. Granting(s)'
      BY <1>2, <1>3, <1>6, <1>8, <2>2, <3>1, <3>2, <3>3 DEF Granting
    <3>5. Revoking(s)'
      BY <1>2, <2>2 DEF Revoking
    <3> QED BY <2>1, <3>4, <3>5 DEF SlotInv
  <2>3. CASE op[s].pc = "rv.wait"
    <3>1. /\ Last.keys = {Author} \cup (op[s].set \ {op[s].user})
          /\ \A x \in op[s].set : x \notin Last.todo => readers[x] = Last.keys
      BY <1>1, <2>3 DEF SlotInv, Revoking
    <3>2. ASSUME NEW x \in op[s].set, x \notin Last'.todo
          PROVE  readers'[x] = Last.keys
      BY <1>1, <1>8, <1>9, <1>10, <3>1, <3>2
    <3>3. Revoking(s)'
      BY <1>2, <1>8, <2>3, <3>1, <3>2 DEF Revoking
    <3>4. Granting(s)'
      BY <1>2, <2>3 DEF Granting
    <3> QED BY <2>1, <3>3, <3>4 DEF SlotInv
  <2> QED BY <1>1, <1>4, <2>2, <2>3 DEF Waiting
<1>14. ASSUME NEW w \in Subscribers PROVE UserInv(w)'
  <2>1. UserInv(w)
    BY DEF AccessInv, Accesses
  <2>2. \A i \in DOMAIN queue' : \E j \in DOMAIN queue : queue'[i].keys = queue[j].keys
    BY <1>8 DEF Shortened
  <2> QED BY <1>1, <1>3, <1>6, <1>7, <1>9, <1>10, <2>1, <2>2 DEF UserInv
<1> QED BY <1>7, <1>11, <1>12, <1>13, <1>14 DEF AccessInv, Authors, Accesses

(* The last one is sent: the request goes on with an empty queue. *)
LEMMA LastKeyed ==
  ASSUME Undisturbed, AccessInv, ServedInv', queue # <<>>, Head(queue).live,
         NEW v \in Users, KeyloadSent(v), Head(queue).todo = {v}
  PROVE  AccessInv'
<1>0. PICK s \in AuthorOps : s = queue[1].slot
  BY HeadBatch
<1> DEFINE u == op[s].user
<1>1. /\ TypeOK /\ s \in AuthorOps /\ s \in Slots /\ Head(queue) = queue[1]
      /\ Len(queue) = 1 /\ Last = queue[1] /\ 1 \in DOMAIN queue
      /\ op[s].pc \in Waiting
      /\ queue[1].todo \subseteq ExistingReaders \/ op[s].pc = "au.wait"
      /\ Listed(s) /\ Granting(s) /\ Revoking(s)
  BY <1>0, HeadBatch DEF AccessInv, ServedInv, Authors, SlotInv
<1>2. /\ Subscribed(v) /\ queue[1].todo = {v} /\ CallDone(v) /\ right' = right
      /\ authorized' = authorized \cup {v}
      /\ readers' = [readers EXCEPT ![v] = queue[1].keys]
      /\ Goto(s, Resumed(op[s].pc))
      /\ access' = [w \in Subscribers |->
                      IF op[s].pc = "au.waitAll" /\ w = u /\ access[w] = "granting"
                        THEN "granted" ELSE access[w]]
  BY <1>0, <1>1 DEF KeyloadSent, CallDone
<1>3. queue' = <<>>
  BY <1>1, <1>2, QueueShortened
<1>4. op'[s].pc = Resumed(op[s].pc) /\ op'[s].user = u /\ op'[s].set = op[s].set
  BY <1>1, <1>2, GotoFields
<1>5. \A x \in Users : readers'[x] = IF x = v THEN queue[1].keys ELSE readers[x]
  BY <1>1, <1>2 DEF TypeOK
<1>6. ExistingReaders \subseteq Users /\ u \in Users /\ op[s].set \in SUBSET Users
  BY <1>1, OpFields, ReadersAreUsers
<1>7. /\ DocsInv' /\ Subscribed(Author)' = Subscribed(Author)
      /\ \A w : Reader(w)' = Reader(w)
  BY <1>2 DEF AccessInv, DocsInv, Subscribed, Reader
<1>8. ExistingReaders' = ExistingReaders \cup (IF Reader(v) THEN {v} ELSE {})
  BY <1>2 DEF ExistingReaders, Reader
<1>9. op'[s].pc \notin Waiting
  BY <1>1, <1>4 DEF Resumed, Waiting
<1>10. \A t \in AuthorOps : t = s
  BY <1>1, OneAuthor
<1>11. QueueInv'
  BY <1>3, <1>9, <1>10 DEF QueueInv
<1>12. v \in ExistingReaders => ExistingReaders' = ExistingReaders /\ authorized' = authorized
  BY <1>2, <1>8 DEF ExistingReaders
<1>13. SlotInv(s)' /\ (\A w \in Subscribers : UserInv(w)')
  <2>1. CASE op[s].pc = "au.wait"
    <3>1. op'[s].pc = "au.rekey"
      BY <1>4, <2>1 DEF Resumed
    <3>2. /\ u = v /\ op[s].set = ExistingReaders
          /\ queue[1].keys = {u, Author} \cup op[s].set
          /\ u \in Subscribers => access[u] = "granting"
      BY <1>1, <1>2, <2>1 DEF Granting, Listed
    <3>3. /\ u \in authorized' /\ u \in readers'[u]
          /\ \A w \in Subscribers : access'[w] = access[w]
      BY <1>2, <1>5, <2>1, <3>2
    <3>4. SlotInv(s)'
      BY <1>4, <1>8, <3>1, <3>2, <3>3 DEF SlotInv, Listed, Granting, Revoking
    <3>5. ASSUME NEW w \in Subscribers PROVE UserInv(w)'
      <4>1. UserInv(w)
        BY DEF AccessInv, Accesses
      <4>2. CASE access'[w] = "revoked"
        <5>1. w \notin queue[1].keys /\ w # u /\ w \notin ExistingReaders
          BY <1>1, <3>2, <3>3, <4>1, <4>2 DEF UserInv
        <5>2. w \notin ExistingReaders'
          BY <1>8, <3>2, <5>1
        <5>3. \A x \in ExistingReaders' : w \notin readers'[x]
          BY <1>5, <1>6, <1>8, <3>3, <4>1, <4>2, <5>1 DEF UserInv
        <5> QED BY <1>3, <4>2, <5>2, <5>3 DEF UserInv
      <4>3. CASE access'[w] = "granted"
        <5>1. w \in authorized'
          BY <1>2, <3>3, <4>1, <4>3 DEF UserInv
        <5>2. Reader(w) => w \in queue[1].keys /\ \A x \in ExistingReaders : w \in readers[x]
          BY <1>1, <3>3, <4>1, <4>3 DEF UserInv
        <5>3. Reader(w)' => \A x \in ExistingReaders' : w \in readers'[x]
          BY <1>5, <1>6, <1>7, <1>8, <5>2
        <5> QED BY <1>3, <4>3, <5>1, <5>3 DEF UserInv
      <4> QED BY <4>2, <4>3 DEF UserInv
    <3> QED BY <3>4, <3>5
  <2>2. CASE op[s].pc = "au.waitAll"
    <3>1. op'[s].pc = "au.save"
      BY <1>4, <2>2 DEF Resumed
    <3>2. SlotInv(s)'
      BY <1>1, <3>1, FreeSlot DEF Free, PCs
    <3>3. v \in ExistingReaders /\ ExistingReaders' = ExistingReaders /\ authorized' = authorized
      BY <1>1, <1>2, <1>12, <2>2
    <3>4. /\ queue[1].keys = {u, Author} \cup op[s].set
          /\ \A x \in op[s].set : x # v => u \in readers[x]
          /\ u \in authorized /\ u \in readers[u]
          /\ ExistingReaders \subseteq op[s].set \cup {u}
      BY <1>1, <1>2, <2>2 DEF Granting, Listed
    <3>5. ASSUME NEW w \in Subscribers PROVE UserInv(w)'
      <4>1. UserInv(w)
        BY DEF AccessInv, Accesses
      <4>2. CASE access'[w] = access[w]
        BY <1>1, <1>3, <1>5, <1>6, <1>7, <3>3, <4>1, <4>2 DEF UserInv
      <4>3. CASE w = u /\ access'[w] = "granted"
        <5>1. \A x \in ExistingReaders : u \in readers'[x]
          BY <1>5, <1>6, <3>4
        <5> QED BY <1>3, <3>3, <3>4, <4>3, <5>1 DEF UserInv
      <4> QED BY <1>2, <4>2, <4>3
    <3> QED BY <3>2, <3>5
  <2>3. CASE op[s].pc = "rv.wait"
    <3>1. op'[s].pc = "rv.state"
      BY <1>4, <2>3 DEF Resumed
    <3>2. v \in ExistingReaders /\ ExistingReaders' = ExistingReaders /\ authorized' = authorized
      BY <1>1, <1>2, <1>12, <2>3
    <3>3. /\ queue[1].keys = {Author} \cup (op[s].set \ {u})
          /\ \A x \in op[s].set : x # v => readers[x] = queue[1].keys
          /\ op[s].set = ExistingReaders
      BY <1>1, <1>2, <2>3 DEF Revoking, Listed
    <3>4. \A x \in op[s].set : readers'[x] = {Author} \cup (op[s].set \ {u})
      BY <1>5, <1>6, <3>3
    <3>5. SlotInv(s)'
      BY <1>4, <3>1, <3>2, <3>3, <3>4 DEF SlotInv, Listed, Granting, Revoking
    <3>6. ASSUME NEW w \in Subscribers PROVE UserInv(w)'
      <4>1. UserInv(w) /\ access'[w] = access[w]
        BY <1>2, <2>3 DEF AccessInv, Accesses
      <4> QED BY <1>1, <1>3, <1>5, <1>6, <1>7, <3>2, <4>1 DEF UserInv
    <3> QED BY <3>5, <3>6
  <2> QED BY <1>1, <2>1, <2>2, <2>3 DEF Waiting
<1> QED BY <1>7, <1>10, <1>11, <1>13 DEF AccessInv, Authors, Accesses

LEMMA KeyloadKeeps ==
  ASSUME Undisturbed, AccessInv, ServedInv', Keyload
  PROVE  AccessInv'
<1>1. queue # <<>>
  BY DEF Keyload
<1>2. PICK v \in Users : KeyloadSent(v) \/ KeyloadFailed(v)
  BY DEF Keyload
<1>3. CASE KeyloadFailed(v)
  BY <1>1, <1>3, KeyloadFailedKeeps
<1>4. CASE KeyloadSent(v) /\ Head(queue).live
  BY <1>1, <1>4, BranchKeyed, LastKeyed
<1>5. CASE KeyloadSent(v) /\ ~Head(queue).live
  <2>1. v \in Head(queue).todo /\ CallDone(v)
    BY <1>5 DEF KeyloadSent, CallDone
  <2>2. v \in authorized
    BY <1>1, <1>5, <2>1, HeadBatch DEF ExistingReaders
  <2>3. /\ UNCHANGED <<right, authorized, op>>
        /\ readers' = [readers EXCEPT ![v] = Head(queue).keys]
    BY <1>5, <2>2 DEF KeyloadSent
  <2>4. access' = access
    BY <1>5 DEF KeyloadSent, AccessInv, ServedInv, TypeOK
  <2> QED BY <1>1, <1>5, <2>1, <2>3, <2>4, DeadKeeps
<1> QED BY <1>2, <1>3, <1>4, <1>5

------------------------------------------------------------------------------

LEMMA FailKeeps ==
  ASSUME Undisturbed, AccessInv, ServedInv', NEW s \in Slots, Fail(s)
  PROVE  AccessInv'
<1>1. /\ UNCHANGED docs /\ UNCHANGED queue /\ UNCHANGED access /\ End(s)
      /\ op[s].pc \notin Waiting /\ op \in [Slots -> Ops]
  BY DEF Fail, AccessInv, ServedInv, TypeOK
<1>2. CASE s \in AuthorOps
  BY <1>1, <1>2, EndMoves
<1>3. CASE s \notin AuthorOps
  <2>1. \A t \in AuthorOps : op'[t] = op[t]
    BY <1>1, <1>3, SlotsOf DEF End
  <2> QED BY <1>1, <2>1, Frame
<1> QED BY <1>2, <1>3

(* The keyloads that waited for the mutex are gone with the process. *)
LEMMA CrashKeeps ==
  ASSUME Undisturbed, AccessInv, ServedInv', Crash
  PROVE  AccessInv'
<1>1. /\ UNCHANGED docs /\ UNCHANGED access /\ queue' = <<>>
      /\ \A s \in AuthorOps : op'[s].pc = "idle"
  BY SlotsOf DEF Crash, Idle
<1>2. /\ DocsInv' /\ ExistingReaders' = ExistingReaders /\ readers' = readers
      /\ authorized' = authorized /\ \A w : Reader(w)' = Reader(w)
  BY <1>1, SameReaders DEF AccessInv
<1>3. QueueInv'
  BY <1>1 DEF QueueInv, Waiting
<1>4. Authors'
  BY <1>1, FreeSlot DEF Authors, Free, PCs
<1>5. ASSUME NEW w \in Subscribers PROVE UserInv(w)'
  <2>1. UserInv(w)
    BY DEF AccessInv, Accesses
  <2> QED BY <1>1, <1>2, <2>1 DEF UserInv
<1> QED BY <1>2, <1>3, <1>4, <1>5 DEF AccessInv, Accesses

LEMMA InitAccess == Init => AccessInv
<1> SUFFICES ASSUME Init PROVE AccessInv
  OBVIOUS
<1>1. ServedInv
  BY InitServed
<1>2. queue = <<>> /\ authorized = {Author} /\ right[Author] = "ReadAndWrite"
  BY DEF Init, Users
<1>3. \A s \in AuthorOps : op[s].pc = "idle"
  BY SlotsOf DEF Init, Idle
<1>4. DocsInv
  BY <1>2 DEF DocsInv, Subscribed
<1>5. QueueInv
  BY <1>2, <1>3 DEF QueueInv, Waiting
<1>6. Authors
  BY <1>3 DEF Authors, SlotInv, Listed, Granting, Revoking
<1>7. Accesses
  BY DEF Init, Accesses, UserInv
<1> QED BY <1>1, <1>4, <1>5, <1>6, <1>7 DEF AccessInv

LEMMA AccessStep == Undisturbed /\ AccessInv /\ [Next]_vars => AccessInv'
<1> SUFFICES ASSUME Undisturbed, AccessInv, [Next]_vars PROVE AccessInv'
  OBVIOUS
<1>1. ServedInv'
  BY ServedStep DEF AccessInv
<1>2. CASE \E u \in Subscribers : RequestStart(u) \/ Request(u)
  BY <1>1, <1>2, RequestKeeps
<1>3. CASE \E s \in AuthorOps : AuthorizeStart(s) \/ Authorize(s)
  BY <1>1, <1>3, AuthorizeKeeps, AuthorizeSendKeeps, AuthorizeRekeyKeeps DEF Authorize
<1>4. CASE \E s \in AuthorOps : RevokeStart(s) \/ Revoke(s)
  BY <1>1, <1>4, RevokeKeeps, RevokeSendKeeps, RevokeRemoveDocKeeps DEF Revoke
<1>5. CASE Keyload
  BY <1>1, <1>5, KeyloadKeeps
<1>6. CASE \E s \in Slots : Fail(s)
  BY <1>1, <1>6, FailKeeps
<1>7. CASE Crash
  BY <1>1, <1>7, CrashKeeps
<1>8. CASE UNCHANGED vars
  BY <1>1, <1>8, Frame DEF vars
<1>9. ~(\E u \in Deleted : DeleteStart(u) \/ Delete(u))
  BY DEF Undisturbed
<1> QED BY <1>2, <1>3, <1>4, <1>5, <1>6, <1>7, <1>8, <1>9 DEF Next

THEOREM AccessInvariant ==
  ASSUME Undisturbed
  PROVE  Spec => []AccessInv
<1>1. AccessInv /\ [Next]_vars => AccessInv'
  BY AccessStep
<1> QED BY <1>1, InitAccess, PTL DEF Spec

(* Once her document is gone a revoked subscriber is named by the keyload of no
   reader's branch, for ever and for every reader authorized since: whatever
   failed on the way, and whatever keyloads with her key still waited for the
   mutex when it did. *)
THEOREM RevokedStaysOut ==
  ASSUME Undisturbed
  PROVE  Spec => []RevokedLockedOut
<1>1. AccessInv => RevokedLockedOut
  BY DEF AccessInv, Accesses, UserInv, RevokedLockedOut
<1> QED BY <1>1, AccessInvariant, PTL

(* A reader whose authorization was answered with success is named by the
   keyload of every reader's branch, of those authorized later too, until she
   is revoked. *)
THEOREM GrantedReads ==
  ASSUME Undisturbed
  PROVE  Spec => []GrantedReadEverywhere
<1>1. AccessInv => GrantedReadEverywhere
  BY DEF AccessInv, Accesses, UserInv, GrantedReadEverywhere
<1> QED BY <1>1, AccessInvariant, PTL
==============================================================================

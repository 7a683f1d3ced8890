-------------------------- MODULE ChannelListsProofs --------------------------
(***************************************************************************)
(* The documents and lists of a quiet channel agree, for every number of   *)
(* users and rights: no call fails, nobody calls DELETE and the            *)
(* channel-lock lets in one request of the author at a time.               *)
(*                                                                         *)
(* The requests of the subscribers run beside the author's all the same.   *)
(* subscriberIds is written by the author's requests alone, so what they   *)
(* have read of it is what it still is.  A subscription is made only where *)
(* there is none, so the one a request of the author is about stays as it  *)
(* is, and its state document is neither missing nor made anew meanwhile.  *)
(***************************************************************************)
EXTENDS MCChannelWorlds, ChannelSubscriptionsProofs

(* The channel-lock holds; the worlds' names are not those of users. *)
OneOfAuthor == \E a : AuthorOps = {a}
NamesApart == "quiet" \notin Deleted

Entitled == {u \in Subscribers : u \in authorized /\ HasKey(u)}

Asking == {"rq.key", "rq.state", "rq.doc"}
NotYet == {"au.load", "au.list", "au.send", "au.wait"}
Keyed == {"au.rekey", "au.waitAll", "au.save", "au.readReq", "au.writeReq", "au.readSub",
          "au.writeSub"}
ToRevoke == {"rv.list", "rv.send", "rv.wait", "rv.state", "rv.doc"}
Gone == {"rv.read", "rv.write"}

Documents ==
  /\ \A u \in authorized : Subscribed(u)
  /\ Subscribed(Author) => Author \in authorized

(* Who is asking for a subscription has none, and the state document is hers. *)
Asks(u) ==
  LET o == op[<<"request", u>>] IN
  /\ o.pc \in Asking => ~Subscribed(u) /\ o.right # "none" /\ o.user = u
  /\ o.pc = "rq.doc" => u \in state

(* What a request of the author, suspended with o, is about. *)
About(o) ==
  /\ o.pc \in NotYet => o.user \in Subscribers /\ HasKey(o.user) /\ o.user \notin authorized
  /\ o.pc \in Keyed => o.user \in Entitled
  /\ o.pc \in (NotYet \cup Keyed) \ {"au.load"} => Author \in state
  /\ o.pc \in ToRevoke => HasKey(o.user) /\ (o.was <=> o.user \in authorized)
  /\ o.pc \in Gone => o.user \notin Entitled
  /\ o.pc = "rv.doc" => o.user \notin state

(* What it has read. *)
HasRead(o) ==
  /\ o.pc \in {"au.send", "au.wait", "au.rekey", "rv.send"} => o.set \subseteq authorized
  /\ o.pc = "au.writeSub" => o.set = subscriberIds
  /\ o.pc = "rv.write" /\ o.was => o.set = subscriberIds

(* What it still has to do to the list. *)
Lists(o) ==
  /\ o.pc \in Keyed => subscriberIds = Entitled \ {o.user}
  /\ o.pc \in Gone /\ o.was => subscriberIds \ {o.user} = Entitled
  /\ o.pc \notin Keyed /\ ~(o.pc \in Gone /\ o.was) => subscriberIds = Entitled

(* The keyloads it waits for find their documents. *)
Sent(o) ==
  \A i \in DOMAIN queue :
    /\ queue[i].live
    /\ o.pc = "au.wait" => queue[i].todo = {o.user}
    /\ o.pc # "au.wait" => queue[i].todo \subseteq authorized

Authors ==
  \A s \in AuthorOps : About(op[s]) /\ HasRead(op[s]) /\ Lists(op[s]) /\ Sent(op[s])

(* State document and subscription of a user exist together, but for a request
   or a revocation between the two. *)
Pairs(u) ==
  \/ u \in state <=> Subscribed(u)
  \/ u \in Subscribers /\ op[<<"request", u>>].pc = "rq.doc"
  \/ \E s \in AuthorOps : op[s].pc = "rv.doc" /\ op[s].user = u

ListsInv ==
  /\ ServedInv
  /\ Documents
  /\ \A u \in Subscribers : Asks(u)
  /\ \A s \in DeleteSlots : op[s] = Idle
  /\ \A i \in DOMAIN queue : queue[i].slot \in AuthorOps
  /\ Authors
  /\ \A u \in Users : Pairs(u)

------------------------------------------------------------------------------
(* The slots, and what a step does to its own. *)

LEMMA SlotKinds ==
  /\ \A u \in Subscribers : /\ <<"request", u>> \in Slots
                            /\ <<"request", u>> \notin AuthorOps \cup DeleteSlots
  /\ AuthorOps \subseteq Slots /\ DeleteSlots \subseteq Slots
  /\ \A s \in AuthorOps : s \notin DeleteSlots
  /\ \A s \in AuthorOps : \A u : s # <<"request", u>>
  BY DEF Slots, RequestSlots, DeleteSlots, AuthorOps

OthersStay(s) == \A t \in Slots : t # s => op'[t] = op[t]

LEMMA GotoSlot ==
  ASSUME TypeOK, NEW s \in Slots, NEW label, Goto(s, label)
  PROVE  /\ op'[s].pc = label /\ op'[s].user = op[s].user /\ op'[s].set = op[s].set
         /\ op'[s].was = op[s].was /\ op'[s].right = op[s].right
         /\ OthersStay(s)
  BY DEF TypeOK, Ops, Goto, OthersStay

LEMMA ReadSlot ==
  ASSUME TypeOK, NEW s \in Slots, NEW value, NEW label, Read(s, value, label)
  PROVE  /\ op'[s].pc = label /\ op'[s].user = op[s].user /\ op'[s].set = value
         /\ op'[s].was = op[s].was /\ op'[s].right = op[s].right
         /\ OthersStay(s)
  BY DEF TypeOK, Ops, Read, OthersStay

LEMMA EndSlot ==
  ASSUME TypeOK, NEW s \in Slots, End(s)
  PROVE  op'[s] = Idle /\ op'[s].pc = "idle" /\ OthersStay(s)
  BY DEF TypeOK, End, Idle, OthersStay

LEMMA SameGrants ==
  ASSUME right' = right, authorized' = authorized
  PROVE  /\ Entitled' = Entitled
         /\ \A u : Subscribed(u)' = Subscribed(u) /\ HasKey(u)' = HasKey(u)
         /\ Documents' = Documents
<1>1. \A u : Subscribed(u)' = Subscribed(u) /\ HasKey(u)' = HasKey(u)
  BY DEF Subscribed, HasKey
<1> QED
  BY <1>1 DEF Entitled, HasKey, Documents, Subscribed

(* A key makes a subscription. *)
LEMMA KeysSubscribed == \A u : HasKey(u) => Subscribed(u)
  BY DEF HasKey, Subscribed

(* While no request of the author waits, the mutex is free. *)
LEMMA NobodyWaits ==
  ASSUME ListsInv, NEW a, AuthorOps = {a}, op[a].pc \notin Waiting
  PROVE  queue \in Seq(Batches) /\ DOMAIN queue = {}
<1>1. \A i \in DOMAIN queue : queue[i].live /\ queue[i].slot = a
  BY DEF ListsInv, Authors, Sent
<1>2. \A i \in DOMAIN queue : FALSE
  BY <1>1 DEF ListsInv, ServedInv, WaitersServed
<1> QED
  BY <1>2 DEF ListsInv, ServedInv, TypeOK

------------------------------------------------------------------------------
(* Steps of a subscriber. *)

(* A step that makes no subscription. *)
LEMMA AskerMoves ==
  ASSUME ListsInv, ServedInv', NEW u \in Subscribers, OthersStay(<<"request", u>>),
         UNCHANGED <<right, authorized, queue, subscriberIds>>,
         state' = state \/ (state' = state \cup {u} /\ ~Subscribed(u)),
         Asks(u)', Pairs(u)'
  PROVE  ListsInv'
<1> DEFINE s == <<"request", u>>
<1>1. /\ Entitled' = Entitled /\ Documents'
      /\ \A v : Subscribed(v)' = Subscribed(v) /\ HasKey(v)' = HasKey(v)
      /\ right' = right /\ authorized' = authorized /\ queue' = queue
      /\ subscriberIds' = subscriberIds
  BY SameGrants DEF ListsInv
<1>2. \A t \in AuthorOps \cup DeleteSlots : op'[t] = op[t]
  BY SlotKinds DEF OthersStay
<1>3. ASSUME NEW v \in Subscribers
      PROVE  Asks(v)'
  <2>1. CASE v = u
    BY <2>1
  <2>2. CASE v # u
    <3>1. op'[<<"request", v>>] = op[<<"request", v>>]
      BY <2>2, SlotKinds DEF OthersStay
    <3> QED
      BY <1>1, <2>2, <3>1 DEF ListsInv, Asks
  <2> QED
    BY <2>1, <2>2
<1>4. ASSUME NEW t \in AuthorOps
      PROVE  About(op[t])' /\ HasRead(op[t])' /\ Lists(op[t])' /\ Sent(op[t])'
  <2>1. About(op[t]) /\ HasRead(op[t]) /\ Lists(op[t]) /\ Sent(op[t]) /\ op'[t] = op[t]
    BY <1>2 DEF ListsInv, Authors
  <2>2. HasRead(op[t])' /\ Lists(op[t])' /\ Sent(op[t])'
    BY <1>1, <2>1 DEF HasRead, Lists, Sent
  <2>3. op[t].pc = "rv.doc" => op[t].user \notin state'
    BY <2>1, KeysSubscribed DEF About, ToRevoke
  <2>4. About(op[t])'
    BY <1>1, <2>1, <2>3 DEF About
  <2> QED
    BY <2>2, <2>4
<1>5. ASSUME NEW v \in Users
      PROVE  Pairs(v)'
  <2>1. CASE v = u
    BY <2>1
  <2>2. CASE v # u
    <3>1. v \in Subscribers => op'[<<"request", v>>] = op[<<"request", v>>]
      BY <2>2, SlotKinds DEF OthersStay
    <3> QED
      BY <1>1, <1>2, <2>2, <3>1 DEF ListsInv, Pairs
  <2> QED
    BY <2>1, <2>2
<1> QED
  BY <1>1, <1>2, <1>3, <1>4, <1>5 DEF ListsInv, Authors

(* The subscription is inserted: nobody has had it, and nobody has authorized it
   but if it needs no authorization, and then it has no key. *)
LEMMA AddDocLists ==
  ASSUME ListsInv, ServedInv', NEW u \in Subscribers, RequestAddDoc(u)
  PROVE  ListsInv'
<1> DEFINE s == <<"request", u>>
<1>1. /\ s \in Slots /\ TypeOK /\ op[s].pc = "rq.doc"
      /\ ~Subscribed(u) /\ op[s].right # "none" /\ u \in state /\ u # Author
      /\ u \in Users /\ op[s].right \in AllRights \cup {"none"}
  BY SlotKinds, AuthorAssumption
     DEF ListsInv, ServedInv, TypeOK, Ops, Asks, Asking, RequestAddDoc, Users
<1>2. /\ right' = [right EXCEPT ![u] = op[s].right]
      /\ authorized' = IF op[s].right = "Preshared" THEN authorized \cup {u} ELSE authorized
      /\ Goto(s, "rq.read")
      /\ state' = state /\ queue' = queue /\ subscriberIds' = subscriberIds
  BY <1>1 DEF RequestAddDoc, ids
<1>3. op'[s].pc = "rq.read" /\ OthersStay(s)
  BY <1>1, <1>2, GotoSlot
<1>4. /\ \A v \in Users : v # u => right'[v] = right[v]
      /\ right'[u] = op[s].right
  BY <1>1, <1>2 DEF TypeOK
<1>5. /\ \A v \in Users : v # u => /\ Subscribed(v)' = Subscribed(v)
                                   /\ HasKey(v)' = HasKey(v)
                                   /\ (v \in authorized' <=> v \in authorized)
      /\ Subscribed(u)' /\ u \notin authorized
      /\ u \in authorized' => ~HasKey(u)'
      /\ authorized \subseteq authorized'
  <2>1. u \notin authorized
    BY <1>1 DEF ListsInv, Documents
  <2> QED
    BY <1>1, <1>2, <1>4, <2>1 DEF Subscribed, HasKey
<1>6. Entitled' = Entitled
  BY <1>5 DEF Entitled, Users
<1>7. authorized' \subseteq Users /\ Author \in Users /\ Subscribers \subseteq Users
  BY DEF ServedInv, TypeOK, Users
<1>8. Documents'
  BY <1>1, <1>5, <1>7 DEF ListsInv, Documents
<1>9. \A t \in AuthorOps \cup DeleteSlots : op'[t] = op[t]
  BY <1>3, SlotKinds DEF OthersStay
<1>10. ASSUME NEW v \in Subscribers
       PROVE  Asks(v)'
  <2>1. CASE v = u
    BY <1>3, <2>1 DEF Asks, Asking
  <2>2. CASE v # u
    <3>1. op'[<<"request", v>>] = op[<<"request", v>>]
      BY <1>3, <2>2, SlotKinds DEF OthersStay
    <3> QED
      BY <1>2, <1>5, <1>7, <2>2, <3>1 DEF ListsInv, Asks
  <2> QED
    BY <2>1, <2>2
<1>11. ASSUME NEW t \in AuthorOps
       PROVE  About(op[t])' /\ HasRead(op[t])' /\ Lists(op[t])' /\ Sent(op[t])'
  <2>1. /\ About(op[t]) /\ HasRead(op[t]) /\ Lists(op[t]) /\ Sent(op[t])
        /\ op'[t] = op[t] /\ op[t].user \in Users
    BY <1>1, <1>9, SlotKinds, OpFields DEF ListsInv, Authors
  <2>2. HasRead(op[t])' /\ Lists(op[t])' /\ Sent(op[t])'
    BY <1>2, <1>5, <1>6, <2>1 DEF HasRead, Lists, Sent
  <2>3. HasKey(op[t].user) => op[t].user # u
    BY <1>1, KeysSubscribed
  <2>4. op[t].pc \in NotYet \cup ToRevoke => op[t].user # u
    BY <2>1, <2>3 DEF About
  <2>5. About(op[t])'
    BY <1>2, <1>5, <1>6, <2>1, <2>4 DEF About
  <2> QED
    BY <2>2, <2>5
<1>12. ASSUME NEW v \in Users
       PROVE  Pairs(v)'
  <2>1. CASE v = u
    BY <1>1, <1>2, <1>5, <2>1 DEF Pairs
  <2>2. CASE v # u
    <3>1. v \in Subscribers => op'[<<"request", v>>] = op[<<"request", v>>]
      BY <1>3, <2>2, SlotKinds DEF OthersStay
    <3> QED
      BY <1>2, <1>5, <1>9, <2>2, <3>1 DEF ListsInv, Pairs
  <2> QED
    BY <2>1, <2>2
<1> QED
  BY <1>2, <1>8, <1>9, <1>10, <1>11, <1>12 DEF ListsInv, Authors

LEMMA RequestLists ==
  ASSUME ListsInv, ServedInv', NEW u \in Subscribers, RequestStart(u) \/ Request(u)
  PROVE  ListsInv'
<1> DEFINE s == <<"request", u>>
<1>1. s \in Slots /\ TypeOK /\ u \in Users /\ op \in [Slots -> Ops] /\ Asks(u) /\ Pairs(u)
      /\ \A t \in AuthorOps : t # s /\ t \in Slots
  BY SlotKinds DEF ListsInv, ServedInv, TypeOK, Users
<1>a. ASSUME UNCHANGED <<right, authorized, queue, subscriberIds, state>>,
             OthersStay(s), op[s].pc # "rq.doc", Asks(u)'
      PROVE  ListsInv'
  <2>1. Subscribed(u)' = Subscribed(u) /\ state' = state
    BY <1>a, SameGrants
  <2>2. \A t \in AuthorOps : op'[t] = op[t]
    BY <1>1, <1>a DEF OthersStay
  <2>3. Pairs(u)'
    BY <1>1, <1>a, <2>1, <2>2 DEF Pairs
  <2> QED
    BY <1>a, <2>1, <2>3, AskerMoves
<1>2. CASE RequestStart(u)
  <2>1. PICK g \in Rights :
          op' = [op EXCEPT ![s] = [Started("rq.key", u) EXCEPT !.right = g]]
    BY <1>2 DEF RequestStart
  <2>2. /\ OthersStay(s) /\ op[s].pc = "idle"
        /\ op'[s].pc = "rq.key" /\ op'[s].right = g /\ op'[s].user = u
    <3> DEFINE o == [Started("rq.key", u) EXCEPT !.right = g]
    <3>1. o.pc = "rq.key" /\ o.right = g /\ o.user = u /\ Idle.pc = "idle"
      BY DEF Started, Idle
    <3>2. op' = [op EXCEPT ![s] = o]
      BY <2>1
    <3>3. op[s] = Idle
      BY <1>2 DEF RequestStart
    <3> HIDE DEF o
    <3> QED
      BY <1>1, <3>1, <3>2, <3>3 DEF OthersStay
  <2>3. g # "none"
    BY RightsAssumption DEF AllRights
  <2>4. UNCHANGED <<right, authorized, queue, subscriberIds, state>>
    BY <1>2 DEF RequestStart, docs, ids
  <2>5. ~Subscribed(u)'
    BY <1>2, <2>4, SameGrants DEF RequestStart
  <2>6. Asks(u)'
    BY <2>2, <2>3, <2>5 DEF Asks
  <2> QED
    BY <1>a, <2>2, <2>4, <2>6
<1>3. CASE RequestCheckKey(u)
  <2>1. UNCHANGED <<right, authorized, queue, subscriberIds, state>>
    BY <1>3 DEF RequestCheckKey, docs, ids
  <2>2. op[s].pc = "rq.key" /\ ~Subscribed(u)' /\ op[s].right # "none"
        /\ op[s].user = u
    BY <1>1, <1>3, <2>1, SameGrants DEF RequestCheckKey, Asks, Asking
  <2>3. CASE End(s)
    <3>1. Asks(u)' /\ OthersStay(s)
      BY <1>1, <2>3, EndSlot DEF Asks, Asking
    <3> QED
      BY <1>a, <2>1, <2>2, <3>1
  <2>4. CASE Goto(s, "rq.state")
    <3>1. OthersStay(s) /\ op'[s].pc = "rq.state" /\ op'[s].right = op[s].right
          /\ op'[s].user = op[s].user
      BY <1>1, <2>4, GotoSlot
    <3>2. Asks(u)'
      BY <2>2, <3>1 DEF Asks
    <3> QED
      BY <1>a, <2>1, <2>2, <3>1, <3>2
  <2> QED
    BY <1>3, <2>3, <2>4 DEF RequestCheckKey
<1>4. CASE RequestAddState(u)
  <2>1. UNCHANGED <<right, authorized, queue, subscriberIds>> /\ state' = state \cup {u}
    BY <1>4 DEF RequestAddState, docs, ids
  <2>2. op[s].pc = "rq.state" /\ ~Subscribed(u) /\ ~Subscribed(u)' /\ op[s].right # "none"
        /\ op[s].user = u
    BY <1>1, <1>4, <2>1, SameGrants DEF RequestAddState, Asks, Asking
  <2>3. CASE End(s) /\ u \in state
    <3>1. Asks(u)' /\ OthersStay(s)
      BY <1>1, <2>3, EndSlot DEF Asks, Asking
    <3>2. state' = state
      BY <2>1, <2>3
    <3> QED
      BY <1>a, <2>1, <2>2, <3>1, <3>2
  <2>4. CASE Goto(s, "rq.doc")
    <3>1. OthersStay(s) /\ op'[s].pc = "rq.doc" /\ op'[s].right = op[s].right
          /\ op'[s].user = op[s].user
      BY <1>1, <2>4, GotoSlot
    <3>2. Asks(u)'
      BY <2>1, <2>2, <3>1 DEF Asks
    <3>3. Pairs(u)'
      BY <3>1 DEF Pairs
    <3> QED
      BY <2>1, <2>2, <3>1, <3>2, <3>3, AskerMoves
  <2> QED
    BY <1>4, <2>3, <2>4 DEF RequestAddState
<1>5. CASE RequestReadIds(u) \/ RequestWriteIds(u)
  <2>1. UNCHANGED <<right, authorized, queue, subscriberIds, state>> /\ op[s].pc # "rq.doc"
    BY <1>5 DEF RequestReadIds, RequestWriteIds, docs, ids
  <2>2. End(s) \/ \E value : Read(s, value, "rq.write")
    BY <1>5 DEF RequestReadIds, RequestWriteIds
  <2>3. OthersStay(s) /\ op'[s].pc \notin Asking
    BY <1>1, <2>2, EndSlot, ReadSlot DEF Asking
  <2>4. Asks(u)'
    BY <2>3 DEF Asks, Asking
  <2> QED
    BY <1>a, <2>1, <2>3, <2>4
<1> QED
  BY <1>2, <1>3, <1>4, <1>5, AddDocLists DEF Request

------------------------------------------------------------------------------
(* Steps of the author. *)

(* A step that makes and removes no document. *)
LEMMA AuthorMoves ==
  ASSUME ListsInv, ServedInv', NEW a, AuthorOps = {a}, OthersStay(a),
         UNCHANGED <<right, state>>, Documents', op[a].pc # "rv.doc",
         About(op[a])', HasRead(op[a])', Lists(op[a])', Sent(op[a])',
         \A i \in DOMAIN queue' : queue'[i].slot = a
  PROVE  ListsInv'
<1>1. \A u : Subscribed(u)' = Subscribed(u)
  BY DEF Subscribed
<1>2. /\ \A u \in Subscribers : op'[<<"request", u>>] = op[<<"request", u>>]
      /\ \A s \in DeleteSlots : op'[s] = op[s]
  BY SlotKinds DEF OthersStay
<1>3. \A u \in Subscribers : Asks(u)'
  BY <1>1, <1>2 DEF ListsInv, Asks
<1>4. \A u \in Users : Pairs(u)'
  BY <1>1, <1>2 DEF ListsInv, Pairs
<1>5. Authors'
  BY DEF Authors
<1> QED
  BY <1>2, <1>3, <1>4, <1>5 DEF ListsInv

(* One that sends nothing and waits for nothing. *)
LEMMA QuietMoves ==
  ASSUME ListsInv, ServedInv', NEW a, AuthorOps = {a}, OthersStay(a),
         UNCHANGED <<right, authorized, state, queue>>,
         op[a].pc \notin Waiting, op[a].pc # "rv.doc",
         About(op[a])', HasRead(op[a])', Lists(op[a])'
  PROVE  ListsInv'
<1>1. DOMAIN queue' = {} /\ Documents'
  BY NobodyWaits, SameGrants DEF ListsInv
<1>2. Sent(op[a])'
  BY <1>1 DEF Sent
<1> QED
  BY <1>1, <1>2, AuthorMoves

(* One that ends, or has nothing left to do to the list. *)
LEMMA EndMoves ==
  ASSUME ListsInv, ServedInv', NEW a, AuthorOps = {a}, OthersStay(a),
         UNCHANGED <<right, authorized, state, queue>>,
         op[a].pc \notin Waiting, op[a].pc # "rv.doc",
         op'[a].pc \in {"idle", "rv.save"}, subscriberIds' = Entitled
  PROVE  ListsInv'
<1>1. About(op[a])' /\ HasRead(op[a])' /\ Lists(op[a])'
  BY SameGrants DEF About, HasRead, Lists, NotYet, Keyed, ToRevoke, Gone
<1> QED
  BY <1>1, QuietMoves

(* What is known of the slot of the author. *)
LEMMA AuthorSlot ==
  ASSUME ListsInv, NEW a, AuthorOps = {a}
  PROVE  /\ a \in Slots /\ TypeOK /\ op \in [Slots -> Ops]
         /\ About(op[a]) /\ HasRead(op[a]) /\ Lists(op[a]) /\ Sent(op[a])
         /\ op[a].user \in Users /\ op[a].set \in SUBSET Users
  BY SlotKinds, OpFields DEF ListsInv, ServedInv, Authors, TypeOK

(* authorizeSubscription: the steps that send no keyload. *)
LEMMA AuthorizeLists ==
  ASSUME ListsInv, ServedInv', NEW a, AuthorOps = {a},
         \/ AuthorizeStart(a) \/ AuthorizeLoad(a) \/ AuthorizeList(a)
         \/ AuthorizeSaveState(a) \/ AuthorizeReadRequested(a)
         \/ AuthorizeWriteRequested(a) \/ AuthorizeReadSubscribers(a)
         \/ AuthorizeWriteSubscribers(a)
  PROVE  ListsInv'
<1>1. /\ a \in Slots /\ TypeOK /\ op \in [Slots -> Ops]
      /\ About(op[a]) /\ HasRead(op[a]) /\ Lists(op[a])
      /\ op[a].user \in Users /\ op[a].set \in SUBSET Users
  BY AuthorSlot
<1>2. UNCHANGED <<right, authorized, state, queue>>
  BY DEF AuthorizeStart, AuthorizeLoad, AuthorizeList, AuthorizeSaveState,
     AuthorizeReadRequested, AuthorizeWriteRequested, AuthorizeReadSubscribers,
     AuthorizeWriteSubscribers, docs, ids
<1>3. /\ Entitled' = Entitled /\ authorized' = authorized /\ state' = state
      /\ \A u : Subscribed(u)' = Subscribed(u) /\ HasKey(u)' = HasKey(u)
  BY <1>2, SameGrants
<1>4. CASE AuthorizeStart(a)
  <2>1. PICK u \in Users :
          HasKey(u) /\ u \notin authorized /\ op' = [op EXCEPT ![a] = Started("au.load", u)]
    BY <1>4 DEF AuthorizeStart
  <2>2. op'[a] = Started("au.load", u) /\ OthersStay(a)
    BY <1>1, <2>1 DEF OthersStay
  <2>3. op'[a].pc = "au.load" /\ op'[a].user = u /\ Idle.pc = "idle"
    BY <2>2 DEF Started, Idle
  <2>4. op[a] = Idle /\ subscriberIds' = subscriberIds
    BY <1>4 DEF AuthorizeStart, ids
  <2>5. op[a].pc = "idle"
    BY <2>3, <2>4
  <2>6. u \in Subscribers
    BY <2>1, KeysSubscribed DEF ListsInv, Documents, Users
  <2>7. About(op[a])' /\ HasRead(op[a])'
    BY <1>3, <2>1, <2>3, <2>6 DEF About, HasRead, NotYet, Keyed, ToRevoke, Gone
  <2>8. Lists(op[a])'
    BY <1>1, <1>3, <2>3, <2>4, <2>5 DEF Lists, Keyed, Gone
  <2> QED
    BY <1>2, <2>2, <2>5, <2>7, <2>8, QuietMoves DEF Waiting
<1>5. CASE AuthorizeLoad(a)
  <2>1. op[a].pc = "au.load" /\ subscriberIds' = subscriberIds /\ subscriberIds = Entitled
    BY <1>1, <1>5 DEF AuthorizeLoad, Lists, Keyed, Gone, ids
  <2>2. CASE End(a)
    BY <1>1, <1>2, <2>1, <2>2, EndSlot, EndMoves DEF Waiting
  <2>3. CASE Goto(a, "au.list") /\ Author \in state
    <3>1. op'[a].pc = "au.list" /\ op'[a].user = op[a].user /\ OthersStay(a)
      BY <1>1, <2>3, GotoSlot
    <3>2. About(op[a])' /\ HasRead(op[a])'
      BY <1>1, <1>3, <2>1, <2>3, <3>1 DEF About, HasRead, NotYet, Keyed, ToRevoke, Gone
    <3>3. Lists(op[a])'
      BY <1>3, <2>1, <3>1 DEF Lists, Keyed, Gone
    <3> QED
      BY <1>2, <2>1, <3>1, <3>2, <3>3, QuietMoves DEF Waiting
  <2> QED
    BY <1>5, <2>2, <2>3 DEF AuthorizeLoad
<1>6. CASE AuthorizeList(a)
  <2>1. op[a].pc = "au.list" /\ subscriberIds' = subscriberIds /\ subscriberIds = Entitled
    BY <1>1, <1>6 DEF AuthorizeList, Lists, Keyed, Gone, ids
  <2>2. op'[a].pc = "au.send" /\ op'[a].user = op[a].user /\ op'[a].set = ExistingReaders
        /\ OthersStay(a)
    BY <1>1, <1>6, ReadSlot DEF AuthorizeList
  <2>3. ExistingReaders \subseteq authorized
    BY DEF ExistingReaders
  <2>4. About(op[a])'
    BY <1>1, <1>3, <2>1, <2>2 DEF About, NotYet, Keyed, ToRevoke, Gone
  <2>5. HasRead(op[a])' /\ Lists(op[a])'
    BY <1>3, <2>1, <2>2, <2>3 DEF HasRead, Lists, Keyed, Gone
  <2> QED
    BY <1>2, <2>1, <2>2, <2>4, <2>5, QuietMoves DEF Waiting
<1>7. CASE AuthorizeSaveState(a) \/ AuthorizeReadRequested(a) \/ AuthorizeWriteRequested(a)
  <2>1. /\ op[a].pc \in {"au.save", "au.readReq", "au.writeReq"}
        /\ subscriberIds' = subscriberIds
    BY <1>7 DEF AuthorizeSaveState, AuthorizeReadRequested, AuthorizeWriteRequested, ids
  <2>2. Author \in state /\ op[a].user \in Entitled /\ subscriberIds = Entitled \ {op[a].user}
    BY <1>1, <2>1 DEF About, NotYet, Keyed, Lists
  <2>3. \/ Goto(a, "au.readReq") \/ Goto(a, "au.readSub")
        \/ \E value : Read(a, value, "au.writeReq")
    BY <1>7, <2>2 DEF AuthorizeSaveState, AuthorizeReadRequested, AuthorizeWriteRequested
  <2>4. /\ op'[a].pc \in {"au.readReq", "au.readSub", "au.writeReq"}
        /\ op'[a].user = op[a].user /\ OthersStay(a)
    BY <1>1, <2>3, GotoSlot, ReadSlot
  <2>5. About(op[a])' /\ HasRead(op[a])'
    BY <1>3, <2>2, <2>4 DEF About, HasRead, NotYet, Keyed, ToRevoke, Gone
  <2>6. Lists(op[a])'
    BY <1>3, <2>1, <2>2, <2>4 DEF Lists, Keyed, Gone
  <2> QED
    BY <1>2, <2>1, <2>4, <2>5, <2>6, QuietMoves DEF Waiting
<1>8. CASE AuthorizeReadSubscribers(a)
  <2>1. op[a].pc = "au.readSub" /\ subscriberIds' = subscriberIds
    BY <1>8 DEF AuthorizeReadSubscribers, ids
  <2>2. Author \in state /\ op[a].user \in Entitled /\ subscriberIds = Entitled \ {op[a].user}
    BY <1>1, <2>1 DEF About, NotYet, Keyed, Lists
  <2>3. op'[a].pc = "au.writeSub" /\ op'[a].user = op[a].user
        /\ op'[a].set = subscriberIds /\ OthersStay(a)
    BY <1>1, <1>8, ReadSlot DEF AuthorizeReadSubscribers
  <2>4. About(op[a])'
    BY <1>3, <2>2, <2>3 DEF About, NotYet, Keyed, ToRevoke, Gone
  <2>5. HasRead(op[a])' /\ Lists(op[a])'
    BY <1>3, <2>1, <2>2, <2>3 DEF HasRead, Lists, Keyed, Gone
  <2> QED
    BY <1>2, <2>1, <2>3, <2>4, <2>5, QuietMoves DEF Waiting
<1>9. CASE AuthorizeWriteSubscribers(a)
  <2>1. op[a].pc = "au.writeSub" /\ subscriberIds' = op[a].set \cup {op[a].user} /\ End(a)
    BY <1>9 DEF AuthorizeWriteSubscribers
  <2>2. /\ op[a].user \in Entitled /\ subscriberIds = Entitled \ {op[a].user}
        /\ op[a].set = subscriberIds
    BY <1>1, <2>1 DEF About, NotYet, Keyed, Lists, HasRead
  <2>3. subscriberIds' = Entitled
    BY <2>1, <2>2
  <2> QED
    BY <1>1, <1>2, <2>1, <2>3, EndSlot, EndMoves DEF Waiting
<1> QED
  BY <1>4, <1>5, <1>6, <1>7, <1>8, <1>9

(* The batch of a request that calls sendKeyload is the only one. *)
LEMMA SendMoves ==
  ASSUME ListsInv, NEW a, AuthorOps = {a}, op[a].pc \notin Waiting,
         NEW k \in SUBSET Users, NEW b \in SUBSET Users, SendKeyloads(a, k, b)
  PROVE  /\ DOMAIN queue' = {1}
         /\ queue'[1].slot = a /\ queue'[1].live /\ queue'[1].todo = b
<1> DEFINE batch == [slot |-> a, keys |-> k, todo |-> b, live |-> TRUE]
<1>1. queue' = Append(queue, batch)
  BY DEF SendKeyloads
<1>2. queue \in Seq(Batches) /\ DOMAIN queue = {}
  BY NobodyWaits
<1>3. Len(queue) = 0
  BY <1>2
<1>4. DOMAIN queue' = {1} /\ queue'[1] = batch
  <2> HIDE DEF batch
  <2> QED
    BY <1>1, <1>2, <1>3
<1> QED
  BY <1>4

LEMMA AuthorizeSendLists ==
  ASSUME ListsInv, ServedInv', NEW a, AuthorOps = {a},
         AuthorizeSend(a) \/ AuthorizeRekey(a)
  PROVE  ListsInv'
<1>1. /\ a \in Slots /\ TypeOK /\ op \in [Slots -> Ops]
      /\ About(op[a]) /\ HasRead(op[a]) /\ Lists(op[a])
      /\ op[a].user \in Users /\ op[a].set \in SUBSET Users
      /\ Author \in Users
  BY AuthorSlot DEF Users
<1>2. /\ UNCHANGED <<right, authorized, state, subscriberIds>>
      /\ op[a].pc \in {"au.send", "au.rekey"}
  BY DEF AuthorizeSend, AuthorizeRekey, docs, ids
<1>3. /\ Entitled' = Entitled /\ authorized' = authorized /\ state' = state
      /\ \A u : Subscribed(u)' = Subscribed(u) /\ HasKey(u)' = HasKey(u)
      /\ Documents' /\ op[a].pc \notin Waiting
  BY <1>2, SameGrants DEF ListsInv, Waiting
<1>4. CASE AuthorizeSend(a)
  <2>1. /\ op[a].pc = "au.send" /\ SendKeyloads(a, {op[a].user, Author} \cup op[a].set, {op[a].user})
        /\ Goto(a, "au.wait")
    BY <1>4 DEF AuthorizeSend
  <2>2. op'[a].pc = "au.wait" /\ op'[a].user = op[a].user /\ op'[a].set = op[a].set
        /\ OthersStay(a)
    BY <1>1, <2>1, GotoSlot
  <2>3. DOMAIN queue' = {1} /\ queue'[1].slot = a /\ queue'[1].live
        /\ queue'[1].todo = {op[a].user}
    BY <1>1, <1>3, <2>1, SendMoves
  <2>4. About(op[a])'
    BY <1>1, <1>3, <2>1, <2>2 DEF About, NotYet, Keyed, ToRevoke, Gone
  <2>5. HasRead(op[a])' /\ Lists(op[a])'
    BY <1>1, <1>2, <1>3, <2>1, <2>2 DEF HasRead, Lists, Keyed, Gone
  <2>6. Sent(op[a])'
    BY <2>2, <2>3 DEF Sent
  <2> QED
    BY <1>2, <1>3, <2>1, <2>2, <2>3, <2>4, <2>5, <2>6, AuthorMoves
<1>5. CASE AuthorizeRekey(a)
  <2>1. op[a].pc = "au.rekey"
    BY <1>5 DEF AuthorizeRekey
  <2>2. /\ Author \in state /\ op[a].user \in Entitled
        /\ subscriberIds = Entitled \ {op[a].user} /\ op[a].set \subseteq authorized
    BY <1>1, <2>1 DEF About, NotYet, Keyed, Lists, HasRead
  <2>3. ASSUME op'[a].pc \in {"au.waitAll", "au.save"}, op'[a].user = op[a].user
        PROVE  About(op[a])' /\ HasRead(op[a])' /\ Lists(op[a])'
    <3>1. About(op[a])' /\ HasRead(op[a])'
      BY <1>3, <2>2, <2>3 DEF About, HasRead, NotYet, Keyed, ToRevoke, Gone
    <3>2. Lists(op[a])'
      BY <1>2, <1>3, <2>2, <2>3 DEF Lists, Keyed, Gone
    <3> QED
      BY <3>1, <3>2
  <2>4. CASE SendKeyloads(a, {op[a].user, Author} \cup op[a].set, op[a].set)
             /\ Goto(a, "au.waitAll")
    <3>1. op'[a].pc = "au.waitAll" /\ op'[a].user = op[a].user /\ OthersStay(a)
      BY <1>1, <2>4, GotoSlot
    <3>2. DOMAIN queue' = {1} /\ queue'[1].slot = a /\ queue'[1].live
          /\ queue'[1].todo = op[a].set
      BY <1>1, <1>3, <2>4, SendMoves
    <3>3. Sent(op[a])'
      BY <1>3, <2>2, <3>1, <3>2 DEF Sent
    <3> QED
      BY <1>2, <1>3, <2>1, <2>3, <3>1, <3>2, <3>3, AuthorMoves
  <2>5. CASE Goto(a, "au.save") /\ UNCHANGED queue
    BY <1>1, <1>2, <1>3, <2>1, <2>3, <2>5, GotoSlot, QuietMoves
  <2> QED
    BY <1>5, <2>4, <2>5 DEF AuthorizeRekey
<1> QED
  BY <1>4, <1>5

(* revokeSubscription: the steps that remove no document. *)
LEMMA RevokeLists ==
  ASSUME ListsInv, ServedInv', NEW a, AuthorOps = {a},
         \/ RevokeStart(a) \/ RevokeList(a) \/ RevokeReadIds(a) \/ RevokeWriteIds(a)
         \/ RevokeSaveState(a)
  PROVE  ListsInv'
<1>1. /\ a \in Slots /\ TypeOK /\ op \in [Slots -> Ops]
      /\ About(op[a]) /\ HasRead(op[a]) /\ Lists(op[a])
      /\ op[a].user \in Users /\ op[a].set \in SUBSET Users
  BY AuthorSlot
<1>2. UNCHANGED <<right, authorized, state, queue>>
  BY DEF RevokeStart, RevokeList, RevokeReadIds, RevokeWriteIds, RevokeSaveState, docs, ids
<1>3. /\ Entitled' = Entitled /\ authorized' = authorized /\ state' = state
      /\ \A u : Subscribed(u)' = Subscribed(u) /\ HasKey(u)' = HasKey(u)
  BY <1>2, SameGrants
<1>4. CASE RevokeStart(a)
  <2>1. PICK u \in Users :
          /\ HasKey(u)
          /\ op' = [op EXCEPT ![a] = [Started("rv.list", u) EXCEPT !.was = u \in authorized]]
    BY <1>4 DEF RevokeStart
  <2> DEFINE o == [Started("rv.list", u) EXCEPT !.was = u \in authorized]
  <2>2. o.pc = "rv.list" /\ o.user = u /\ (o.was <=> u \in authorized) /\ Idle.pc = "idle"
    BY DEF Started, Idle
  <2>3. op' = [op EXCEPT ![a] = o]
    BY <2>1
  <2>4. op[a] = Idle /\ subscriberIds' = subscriberIds
    BY <1>4 DEF RevokeStart, ids
  <2> HIDE DEF o
  <2>5. op'[a] = o /\ OthersStay(a)
    BY <1>1, <2>3 DEF OthersStay
  <2>6. op[a].pc = "idle"
    BY <2>2, <2>4
  <2>7. About(op[a])' /\ HasRead(op[a])'
    <3>1. op'[a].pc = "rv.list" /\ op'[a].user = u
      BY <2>2, <2>5
    <3>2. (op[a].was <=> op[a].user \in authorized)'
      BY <1>3, <2>2, <2>5, Zenon
    <3>3. HasKey(op[a].user)'
      BY <1>2, <2>1, <3>1 DEF HasKey
    <3>4. About(op[a])'
      BY <3>1, <3>2, <3>3 DEF About, NotYet, Keyed, ToRevoke, Gone
    <3> QED
      BY <3>1, <3>4 DEF HasRead
  <2>8. Lists(op[a])'
    BY <1>1, <1>3, <2>2, <2>4, <2>5, <2>6 DEF Lists, Keyed, Gone
  <2> QED
    BY <1>2, <2>5, <2>6, <2>7, <2>8, QuietMoves DEF Waiting
<1>5. CASE RevokeList(a)
  <2>1. op[a].pc = "rv.list" /\ subscriberIds' = subscriberIds /\ subscriberIds = Entitled
    BY <1>1, <1>5 DEF RevokeList, Lists, Keyed, Gone, ids
  <2>2. CASE End(a)
    BY <1>1, <1>2, <2>1, <2>2, EndSlot, EndMoves DEF Waiting
  <2>3. CASE Read(a, ExistingReaders, "rv.send")
    <3>1. op'[a].pc = "rv.send" /\ op'[a].user = op[a].user /\ op'[a].was = op[a].was
          /\ op'[a].set = ExistingReaders /\ OthersStay(a)
      BY <1>1, <2>3, ReadSlot
    <3>2. ExistingReaders \subseteq authorized
      BY DEF ExistingReaders
    <3>3. About(op[a])'
      BY <1>1, <1>3, <2>1, <3>1 DEF About, NotYet, Keyed, ToRevoke, Gone
    <3>4. HasRead(op[a])' /\ Lists(op[a])'
      BY <1>3, <2>1, <3>1, <3>2 DEF HasRead, Lists, Keyed, Gone
    <3> QED
      BY <1>2, <2>1, <3>1, <3>3, <3>4, QuietMoves DEF Waiting
  <2> QED
    BY <1>5, <2>2, <2>3 DEF RevokeList
<1>6. CASE RevokeReadIds(a)
  <2>1. op[a].pc = "rv.read" /\ subscriberIds' = subscriberIds
    BY <1>6 DEF RevokeReadIds, ids
  <2>2. op'[a].pc = "rv.write" /\ op'[a].user = op[a].user /\ op'[a].was = op[a].was
        /\ op'[a].set = (IF op[a].was THEN subscriberIds ELSE requestedIds)
        /\ OthersStay(a)
    BY <1>1, <1>6, ReadSlot DEF RevokeReadIds
  <2>3. About(op[a])' /\ HasRead(op[a])'
    BY <1>1, <1>3, <2>1, <2>2 DEF About, HasRead, NotYet, Keyed, ToRevoke, Gone
  <2>4. Lists(op[a])'
    BY <1>1, <1>3, <2>1, <2>2 DEF Lists, Keyed, Gone
  <2> QED
    BY <1>2, <2>1, <2>2, <2>3, <2>4, QuietMoves DEF Waiting
<1>7. CASE RevokeWriteIds(a)
  <2>1. op[a].pc = "rv.write" /\ Goto(a, "rv.save")
    BY <1>7 DEF RevokeWriteIds
  <2>2. op'[a].pc = "rv.save" /\ OthersStay(a)
    BY <1>1, <2>1, GotoSlot
  <2>3. subscriberIds' = Entitled
    BY <1>1, <1>7, <2>1 DEF RevokeWriteIds, HasRead, Lists, Keyed, Gone
  <2> QED
    BY <1>2, <2>1, <2>2, <2>3, EndMoves DEF Waiting
<1>8. CASE RevokeSaveState(a)
  <2>1. /\ op[a].pc = "rv.save" /\ End(a) /\ subscriberIds' = subscriberIds
        /\ subscriberIds = Entitled
    BY <1>1, <1>8 DEF RevokeSaveState, Lists, Keyed, Gone, ids
  <2> QED
    BY <1>1, <1>2, <2>1, EndSlot, EndMoves DEF Waiting
<1> QED
  BY <1>4, <1>5, <1>6, <1>7, <1>8

LEMMA RevokeSendLists ==
  ASSUME ListsInv, ServedInv', NEW a, AuthorOps = {a}, RevokeSend(a)
  PROVE  ListsInv'
<1>1. /\ a \in Slots /\ TypeOK
      /\ About(op[a]) /\ HasRead(op[a]) /\ Lists(op[a])
      /\ op[a].user \in Users /\ op[a].set \in SUBSET Users /\ Author \in Users
  BY AuthorSlot DEF Users
<1>2. UNCHANGED <<right, authorized, state, subscriberIds>> /\ op[a].pc = "rv.send"
  BY DEF RevokeSend, docs, ids
<1>3. /\ Entitled' = Entitled /\ authorized' = authorized
      /\ \A u : Subscribed(u)' = Subscribed(u) /\ HasKey(u)' = HasKey(u)
      /\ Documents' /\ op[a].pc \notin Waiting
  BY <1>2, SameGrants DEF ListsInv, Waiting
<1>4. ASSUME op'[a].pc \in {"rv.wait", "rv.state"}, op'[a].user = op[a].user,
             op'[a].was = op[a].was
      PROVE  About(op[a])' /\ HasRead(op[a])' /\ Lists(op[a])'
  <2>1. About(op[a])' /\ HasRead(op[a])'
    BY <1>1, <1>2, <1>3, <1>4 DEF About, HasRead, NotYet, Keyed, ToRevoke, Gone
  <2>2. Lists(op[a])'
    BY <1>1, <1>2, <1>3, <1>4 DEF Lists, Keyed, Gone
  <2> QED
    BY <2>1, <2>2
<1>5. CASE SendKeyloads(a, {Author} \cup (op[a].set \ {op[a].user}), op[a].set)
           /\ Goto(a, "rv.wait")
  <2>1. op'[a].pc = "rv.wait" /\ op'[a].user = op[a].user /\ op'[a].was = op[a].was
        /\ OthersStay(a)
    BY <1>1, <1>5, GotoSlot
  <2>2. DOMAIN queue' = {1} /\ queue'[1].slot = a /\ queue'[1].live
        /\ queue'[1].todo = op[a].set
    BY <1>1, <1>3, <1>5, SendMoves
  <2>3. op[a].set \subseteq authorized
    BY <1>1, <1>2 DEF HasRead
  <2>4. Sent(op[a])'
    BY <1>3, <2>1, <2>2, <2>3 DEF Sent
  <2> QED
    BY <1>2, <1>3, <1>4, <2>1, <2>2, <2>4, AuthorMoves
<1>6. CASE Goto(a, "rv.state") /\ UNCHANGED queue
  BY <1>1, <1>2, <1>3, <1>4, <1>6, GotoSlot, QuietMoves
<1> QED
  BY <1>5, <1>6 DEF RevokeSend

(* The documents a revocation removes: the subscription is there, so nobody is
   asking for one, until both are gone. *)
LEMMA RemoveStateLists ==
  ASSUME ListsInv, ServedInv', NEW a, AuthorOps = {a}, RevokeRemoveState(a)
  PROVE  ListsInv'
<1>0. PICK u : u = op[a].user
  OBVIOUS
<1>1. /\ a \in Slots /\ TypeOK /\ About(op[a]) /\ Lists(op[a]) /\ op[a].pc = "rv.state"
      /\ u \in Users
  BY <1>0, AuthorSlot DEF RevokeRemoveState
<1>2. /\ UNCHANGED <<right, authorized, queue, subscriberIds>> /\ state' = state \ {u}
      /\ Goto(a, "rv.doc")
  BY <1>0 DEF RevokeRemoveState, docs, ids
<1>3. /\ Entitled' = Entitled /\ authorized' = authorized /\ subscriberIds' = subscriberIds
      /\ \A v : Subscribed(v)' = Subscribed(v) /\ HasKey(v)' = HasKey(v)
      /\ Documents'
  BY <1>2, SameGrants DEF ListsInv
<1>4. op'[a].pc = "rv.doc" /\ op'[a].user = u /\ op'[a].was = op[a].was /\ OthersStay(a)
  BY <1>0, <1>1, <1>2, GotoSlot
<1>5. HasKey(u) /\ Subscribed(u)
  BY <1>0, <1>1, KeysSubscribed DEF About, ToRevoke
<1>6. /\ \A v \in Subscribers : op'[<<"request", v>>] = op[<<"request", v>>]
      /\ \A s \in DeleteSlots : op'[s] = op[s]
  BY <1>4, SlotKinds DEF OthersStay
<1>7. \A v \in Subscribers : Asks(v)'
  BY <1>2, <1>3, <1>5, <1>6 DEF ListsInv, Asks, Asking
<1>8. About(op[a])'
  BY <1>0, <1>1, <1>2, <1>3, <1>4 DEF About, NotYet, Keyed, ToRevoke, Gone
<1>9. HasRead(op[a])' /\ Lists(op[a])'
  BY <1>1, <1>3, <1>4 DEF HasRead, Lists, Keyed, Gone
<1>10. DOMAIN queue' = {}
  BY <1>1, <1>2, NobodyWaits DEF Waiting
<1>11. Sent(op[a])'
  BY <1>10 DEF Sent
<1>12. ASSUME NEW v \in Users
       PROVE  Pairs(v)'
  <2>1. CASE v = u
    BY <1>4, <2>1 DEF Pairs
  <2>2. CASE v # u
    BY <1>1, <1>2, <1>3, <1>6, <2>2 DEF ListsInv, Pairs
  <2> QED
    BY <2>1, <2>2
<1>13. Authors'
  BY <1>8, <1>9, <1>11 DEF Authors
<1> QED
  BY <1>3, <1>6, <1>7, <1>10, <1>12, <1>13 DEF ListsInv

LEMMA RemoveDocLists ==
  ASSUME ListsInv, ServedInv', NEW a, AuthorOps = {a}, RevokeRemoveDoc(a)
  PROVE  ListsInv'
<1>0. PICK u : u = op[a].user
  OBVIOUS
<1>1. /\ a \in Slots /\ TypeOK /\ About(op[a]) /\ Lists(op[a]) /\ op[a].pc = "rv.doc"
      /\ u \in Users /\ right \in [Users -> AllRights \cup {"none"}]
      /\ authorized \subseteq Users
  BY <1>0, AuthorSlot DEF RevokeRemoveDoc, TypeOK
<1>2. /\ right' = [right EXCEPT ![u] = "none"] /\ authorized' = authorized \ {u}
      /\ state' = state /\ queue' = queue /\ subscriberIds' = subscriberIds
      /\ Goto(a, "rv.read")
  BY <1>0 DEF RevokeRemoveDoc, RemoveDoc, ids
<1>3. op'[a].pc = "rv.read" /\ op'[a].user = u /\ op'[a].was = op[a].was /\ OthersStay(a)
  BY <1>0, <1>1, <1>2, GotoSlot
<1>4. /\ HasKey(u) /\ Subscribed(u) /\ (op[a].was <=> u \in authorized) /\ u \notin state
      /\ subscriberIds = Entitled
  BY <1>0, <1>1, KeysSubscribed DEF About, ToRevoke, Lists, Keyed, Gone
<1>5. /\ ~Subscribed(u)'
      /\ \A v \in Users : v # u => /\ Subscribed(v)' = Subscribed(v)
                                   /\ HasKey(v)' = HasKey(v)
  BY <1>1, <1>2 DEF Subscribed, HasKey
<1>6. Entitled' = Entitled \ {u}
  BY <1>2, <1>5 DEF Entitled, Users
<1>7. Documents'
  <2>1. Author \in Users
    BY DEF Users
  <2> QED
    BY <1>1, <1>2, <1>5, <2>1 DEF ListsInv, Documents
<1>8. /\ \A v \in Subscribers : op'[<<"request", v>>] = op[<<"request", v>>]
      /\ \A s \in DeleteSlots : op'[s] = op[s]
  BY <1>3, SlotKinds DEF OthersStay
<1>9. ASSUME NEW v \in Subscribers
      PROVE  Asks(v)'
  <2>1. v \in Users
    BY DEF Users
  <2>2. Asks(v)
    BY DEF ListsInv
  <2>3. Subscribed(v)' => Subscribed(v)
    BY <1>5, <2>1
  <2> QED
    BY <1>2, <1>8, <2>2, <2>3 DEF Asks
<1>10. About(op[a])'
  BY <1>3, <1>6 DEF About, NotYet, Keyed, ToRevoke, Gone
<1>11. HasRead(op[a])'
  BY <1>3 DEF HasRead
<1>12. ~op[a].was => Entitled' = Entitled
  BY <1>4, <1>6 DEF Entitled
<1>13. Lists(op[a])'
  BY <1>2, <1>3, <1>4, <1>6, <1>12 DEF Lists, Keyed, Gone
<1>14. DOMAIN queue' = {}
  BY <1>1, <1>2, NobodyWaits DEF Waiting
<1>15. Sent(op[a])'
  BY <1>14 DEF Sent
<1>16. ASSUME NEW v \in Users
       PROVE  Pairs(v)'
  <2>1. CASE v = u
    BY <1>2, <1>4, <1>5, <2>1 DEF Pairs
  <2>2. CASE v # u
    <3>1. ~(\E s \in AuthorOps : op[s].pc = "rv.doc" /\ op[s].user = v)
      BY <1>0, <2>2
    <3> QED
      BY <1>2, <1>5, <1>8, <2>2, <3>1 DEF ListsInv, Pairs
  <2> QED
    BY <2>1, <2>2
<1>17. Authors'
  BY <1>10, <1>11, <1>13, <1>15 DEF Authors
<1> QED
  BY <1>7, <1>8, <1>9, <1>14, <1>16, <1>17 DEF ListsInv

------------------------------------------------------------------------------
(* Keyloads: each of them finds the document of its branch, so none fails. *)

LEMMA HeadOfQueue ==
  ASSUME ListsInv, NEW a, AuthorOps = {a}, queue # <<>>
  PROVE  /\ Head(queue) = queue[1] /\ Len(queue) = 1 /\ DOMAIN queue = {1}
         /\ queue[1].slot = a /\ queue[1].live /\ op[a].pc \in Waiting
         /\ queue[1] \in Batches
<1>1. queue \in Seq(Batches) /\ Len(queue) \in Nat /\ DOMAIN queue = 1..Len(queue)
  BY DEF ListsInv, ServedInv, TypeOK
<1>2. 1 \in DOMAIN queue /\ Head(queue) = queue[1]
  BY <1>1
<1>3. \A i \in DOMAIN queue : queue[i].live /\ queue[i].slot = a
  BY DEF ListsInv, Authors, Sent
<1>4. \A i \in DOMAIN queue : i = 1
  BY <1>2, <1>3 DEF ListsInv, ServedInv, WaitersServed
<1>5. Len(queue) = 1
  BY <1>1, <1>2, <1>4
<1>6. op[a].pc \in Waiting
  BY <1>2, <1>3 DEF ListsInv, ServedInv, WaitersServed
<1> QED
  BY <1>1, <1>2, <1>3, <1>5, <1>6

LEMMA KeyloadLists ==
  ASSUME ListsInv, ServedInv', NEW a, AuthorOps = {a}, Keyload, UNCHANGED failures
  PROVE  ListsInv'
<1>1. /\ a \in Slots /\ TypeOK
      /\ About(op[a]) /\ HasRead(op[a]) /\ Lists(op[a]) /\ Sent(op[a])
      /\ op[a].user \in Users
  BY AuthorSlot
<1>2. /\ Head(queue) = queue[1] /\ Len(queue) = 1 /\ DOMAIN queue = {1} /\ queue # <<>>
      /\ queue[1].slot = a /\ queue[1].live /\ op[a].pc \in Waiting
      /\ queue \in Seq(Batches) /\ queue[1] \in Batches
  BY <1>1, HeadOfQueue DEF Keyload, TypeOK
<1>3. PICK v \in Users : KeyloadSent(v) \/ KeyloadFailed(v)
  BY DEF Keyload
<1>4. v \in queue[1].todo
  BY <1>2, <1>3 DEF KeyloadSent, KeyloadFailed
<1>5. \/ op[a].pc = "au.wait" /\ queue[1].todo = {op[a].user} /\ v = op[a].user
      \/ op[a].pc # "au.wait" /\ queue[1].todo \subseteq authorized /\ v \in authorized
  BY <1>1, <1>2, <1>4 DEF Sent
<1>6. Subscribed(v)
  BY <1>1, <1>5, KeysSubscribed DEF About, NotYet, ListsInv, Documents
<1>7. KeyloadSent(v)
  <2>1. failures \in Nat
    BY <1>1 DEF TypeOK
  <2>2. ~KeyloadFailed(v)
    BY <1>6, <2>1 DEF KeyloadFailed, Rejected
  <2> QED
    BY <1>3, <2>2
<1>8. /\ right' = right /\ state' = state /\ subscriberIds' = subscriberIds
      /\ authorized' = authorized \cup {v}
  BY <1>7 DEF KeyloadSent, ids
<1>9. /\ \A u : Subscribed(u)' = Subscribed(u) /\ HasKey(u)' = HasKey(u)
      /\ Documents'
  BY <1>6, <1>8 DEF Subscribed, HasKey, ListsInv, Documents
<1>10. op[a].pc # "rv.doc"
  BY <1>2 DEF Waiting
<1>11. CASE queue[1].todo # {v}
  <2>1. op' = op /\ queue' = [queue EXCEPT ![1].todo = @ \ {v}]
    BY <1>2, <1>7, <1>11 DEF KeyloadSent
  <2>2. DOMAIN queue' = {1} /\ queue'[1] = [queue[1] EXCEPT !.todo = queue[1].todo \ {v}]
    BY <1>2, <2>1
  <2>3. queue'[1].slot = a /\ queue'[1].live /\ queue'[1].todo \subseteq queue[1].todo
    BY <1>2, <2>2 DEF Batches
  <2>4. /\ op[a].pc # "au.wait" /\ queue[1].todo \subseteq authorized
        /\ authorized' = authorized
    BY <1>5, <1>8, <1>11
  <2>5. Sent(op[a])'
    BY <2>1, <2>2, <2>3, <2>4 DEF Sent
  <2>6. Entitled' = Entitled
    BY <1>8, <2>4, SameGrants
  <2>7. About(op[a])' /\ HasRead(op[a])' /\ Lists(op[a])'
    BY <1>1, <1>8, <1>9, <2>1, <2>4, <2>6 DEF About, HasRead, Lists
  <2>8. OthersStay(a)
    BY <2>1 DEF OthersStay
  <2> QED
    BY <1>8, <1>9, <1>10, <2>2, <2>3, <2>5, <2>7, <2>8, AuthorMoves
<1>12. CASE queue[1].todo = {v}
  <2>1. queue' = Tail(queue) /\ Goto(a, Resumed(op[a].pc))
    BY <1>2, <1>7, <1>12 DEF KeyloadSent
  <2>2. DOMAIN queue' = {}
    BY <1>2, <2>1
  <2>3. /\ op'[a].pc = Resumed(op[a].pc) /\ op'[a].user = op[a].user
        /\ op'[a].set = op[a].set /\ op'[a].was = op[a].was /\ OthersStay(a)
    BY <1>1, <2>1, GotoSlot
  <2>4. Sent(op[a])'
    BY <2>2 DEF Sent
  <2>5. About(op[a])' /\ HasRead(op[a])' /\ Lists(op[a])'
    <3>1. CASE op[a].pc = "au.wait"
      <4>1. op'[a].pc = "au.rekey" /\ v = op[a].user
        BY <1>5, <2>3, <3>1 DEF Resumed
      <4>2. /\ v \in Subscribers /\ HasKey(v) /\ v \notin authorized /\ Author \in state
            /\ op[a].set \subseteq authorized /\ subscriberIds = Entitled
        BY <1>1, <3>1, <4>1 DEF About, NotYet, Keyed, Gone, HasRead, Lists
      <4>3. Entitled' = Entitled \cup {v} /\ v \notin Entitled
        BY <1>8, <1>9, <4>2 DEF Entitled
      <4>4. About(op[a])' /\ HasRead(op[a])'
        BY <1>8, <2>3, <4>1, <4>2, <4>3 DEF About, HasRead, NotYet, Keyed, ToRevoke, Gone
      <4>5. Lists(op[a])'
        BY <1>8, <2>3, <4>1, <4>2, <4>3 DEF Lists, Keyed, Gone
      <4> QED
        BY <4>4, <4>5
    <3>2. CASE op[a].pc # "au.wait"
      <4>1. authorized' = authorized
        BY <1>5, <1>8, <3>2
      <4>2. Entitled' = Entitled
        BY <1>8, <4>1, SameGrants
      <4>3. \/ op[a].pc = "au.waitAll" /\ op'[a].pc = "au.save"
            \/ op[a].pc = "rv.wait" /\ op'[a].pc = "rv.state"
        BY <1>2, <2>3, <3>2 DEF Waiting, Resumed
      <4>4. About(op[a])' /\ HasRead(op[a])'
        BY <1>1, <1>8, <1>9, <2>3, <4>1, <4>2, <4>3
           DEF About, HasRead, NotYet, Keyed, ToRevoke, Gone
      <4>5. Lists(op[a])'
        BY <1>1, <1>8, <2>3, <4>2, <4>3 DEF Lists, Keyed, Gone
      <4> QED
        BY <4>4, <4>5
    <3> QED
      BY <3>1, <3>2
  <2> QED
    BY <1>8, <1>9, <1>10, <2>2, <2>3, <2>4, <2>5, AuthorMoves
<1> QED
  BY <1>11, <1>12

------------------------------------------------------------------------------
(* The theorems. *)

QuietInv == ServedInv /\ (world = "quiet" => ListsInv)

LEMMA InitLists == Init => ListsInv
<1> SUFFICES ASSUME Init PROVE ListsInv
  OBVIOUS
<1>1. ServedInv
  BY InitServed
<1>2. /\ authorized = {Author} /\ state = {Author} /\ subscriberIds = {} /\ queue = <<>>
      /\ right = [u \in Users |-> IF u = Author THEN "ReadAndWrite" ELSE "none"]
      /\ \A s \in Slots : op[s] = Idle /\ op[s].pc = "idle"
  BY DEF Init, Idle
<1>3. /\ \A u \in Users : Subscribed(u) <=> u = Author
      /\ Author \in Users
  BY <1>2 DEF Subscribed, Users
<1>4. Entitled = {}
  BY <1>2, AuthorAssumption DEF Entitled
<1>5. Documents
  BY <1>2, <1>3 DEF Documents
<1>6. \A u \in Subscribers : Asks(u)
  BY <1>2, SlotKinds DEF Asks, Asking
<1>7. \A s \in DeleteSlots : op[s] = Idle
  BY <1>2, SlotKinds
<1>8. DOMAIN queue = {}
  BY <1>2
<1>9. ASSUME NEW s \in AuthorOps
      PROVE  About(op[s]) /\ HasRead(op[s]) /\ Lists(op[s]) /\ Sent(op[s])
  <2>1. op[s].pc = "idle"
    BY <1>2, SlotKinds
  <2>2. About(op[s]) /\ HasRead(op[s])
    BY <2>1 DEF About, HasRead, NotYet, Keyed, ToRevoke, Gone
  <2>3. Lists(op[s]) /\ Sent(op[s])
    BY <1>2, <1>4, <1>8, <2>1 DEF Lists, Sent, Keyed, Gone
  <2> QED
    BY <2>2, <2>3
<1>10. \A u \in Users : Pairs(u)
  BY <1>2, <1>3 DEF Pairs
<1> QED
  BY <1>1, <1>5, <1>6, <1>7, <1>8, <1>9, <1>10 DEF ListsInv, Authors

LEMMA UnchangedLists == ListsInv /\ UNCHANGED vars /\ ServedInv' => ListsInv'
<1> SUFFICES ASSUME ListsInv, UNCHANGED vars, ServedInv' PROVE ListsInv'
  OBVIOUS
<1>1. /\ right' = right /\ authorized' = authorized /\ state' = state /\ op' = op
      /\ queue' = queue /\ subscriberIds' = subscriberIds
  BY DEF vars, docs, ids
<1>2. /\ Entitled' = Entitled /\ Documents'
      /\ \A v : Subscribed(v)' = Subscribed(v) /\ HasKey(v)' = HasKey(v)
  BY <1>1, SameGrants DEF ListsInv
<1>3. Authors'
  BY <1>1, <1>2 DEF ListsInv, Authors, About, HasRead, Lists, Sent
<1>4. /\ \A u \in Subscribers : Asks(u)'
      /\ \A u \in Users : Pairs(u)'
  BY <1>1, <1>2 DEF ListsInv, Asks, Pairs
<1> QED
  BY <1>1, <1>2, <1>3, <1>4 DEF ListsInv

(* The worlds restrict what may happen. *)
LEMMA WorldsAreSteps == WorldNext => Next
  BY DEF WorldNext, Next, Worlds

LEMMA QuietStep ==
  OneOfAuthor /\ NamesApart /\ QuietInv /\ [WorldNext]_worldVars => QuietInv'
<1> SUFFICES ASSUME OneOfAuthor, NamesApart, QuietInv, [WorldNext]_worldVars
             PROVE  QuietInv'
  OBVIOUS
<1>1. ServedInv'
  BY ServedStep, WorldsAreSteps DEF QuietInv, worldVars
<1>2. world' = world
  BY DEF WorldNext, worldVars
<1>3. ASSUME world = "quiet", ListsInv
      PROVE  ListsInv'
  <2>1. PICK a : AuthorOps = {a}
    BY DEF OneOfAuthor
  <2>2. CASE UNCHANGED worldVars
    BY <1>1, <1>3, <2>2, UnchangedLists DEF worldVars
  <2>3. CASE \E u \in Subscribers : RequestStart(u) \/ Request(u)
    BY <1>1, <1>3, <2>3, RequestLists
  <2>4. CASE AuthorizeStart(a) \/ Authorize(a)
    BY <1>1, <1>3, <2>1, <2>4, AuthorizeLists, AuthorizeSendLists DEF Authorize
  <2>5. CASE RevokeStart(a) \/ Revoke(a)
    BY <1>1, <1>3, <2>1, <2>5, RevokeLists, RevokeSendLists, RemoveStateLists,
       RemoveDocLists DEF Revoke
  <2>6. CASE Keyload /\ UNCHANGED failures
    BY <1>1, <1>3, <2>1, <2>6, KeyloadLists
  <2>7. world # "faults" /\ world \notin Deleted
    BY <1>3 DEF NamesApart
  <2> QED
    BY <2>1, <2>2, <2>3, <2>4, <2>5, <2>6, <2>7 DEF WorldNext
<1> QED
  BY <1>1, <1>2, <1>3 DEF QuietInv

THEOREM QuietInvariant ==
  ASSUME OneOfAuthor, NamesApart
  PROVE  WorldSpec => []QuietInv
<1>1. WorldInit => QuietInv
  BY InitLists, InitServed DEF WorldInit, QuietInv
<1>2. QuietInv /\ [WorldNext]_worldVars => QuietInv'
  BY QuietStep
<1> QED
  BY <1>1, <1>2, PTL DEF WorldSpec

(* In a quiet channel, once nothing runs, channel-info lists as subscribers
   exactly those the author has authorized with a keyload, in whatever order
   requests, authorizations and revocations were served. *)
THEOREM ListIsExact ==
  ASSUME OneOfAuthor, NamesApart
  PROVE  WorldSpec => []QuietListExact
<1>1. QuietInv => QuietListExact
  <2> SUFFICES ASSUME QuietInv, world = "quiet", Quiet
               PROVE  subscriberIds = {u \in Subscribers : u \in authorized /\ HasKey(u)}
    BY DEF QuietListExact, SubscriberListExact
  <2>1. PICK a : AuthorOps = {a}
    BY DEF OneOfAuthor
  <2>2. Lists(op[a]) /\ op[a] = Idle
    BY <2>1, AuthorSlot DEF QuietInv, Quiet
  <2>3. op[a].pc = "idle"
    BY <2>2 DEF Idle
  <2> QED
    BY <2>2, <2>3 DEF Lists, Keyed, Gone, Entitled
<1> QED
  BY <1>1, QuietInvariant, PTL

(* And as soon as no request is about a user, her state document exists if and
   only if her subscription does, so that she can ask again once revoked. *)
THEOREM DocsArePaired ==
  ASSUME OneOfAuthor, NamesApart
  PROVE  WorldSpec => []QuietDocsPaired
<1>1. QuietInv => QuietDocsPaired
  <2> SUFFICES ASSUME QuietInv, world = "quiet", NEW u \in Users,
                      \A s \in Slots : op[s] # Idle => op[s].user # u
               PROVE  u \in state <=> Subscribed(u)
    BY DEF QuietDocsPaired, DocsPaired
  <2>1. Pairs(u) /\ (u \in Subscribers => Asks(u))
    BY DEF QuietInv, ListsInv
  <2>2. ASSUME u \in Subscribers, op[<<"request", u>>].pc = "rq.doc"
        PROVE  FALSE
    <3>1. op[<<"request", u>>] # Idle
      BY <2>2 DEF Idle
    <3>2. op[<<"request", u>>].user = u
      BY <2>1, <2>2 DEF Asks, Asking
    <3> QED
      BY <2>2, <3>1, <3>2, SlotKinds
  <2>3. ASSUME NEW s \in AuthorOps, op[s].pc = "rv.doc", op[s].user = u
        PROVE  FALSE
    <3>1. op[s] # Idle
      BY <2>3 DEF Idle
    <3> QED
      BY <2>3, <3>1, SlotKinds
  <2> QED
    BY <2>1, <2>2, <2>3 DEF Pairs
<1> QED
  BY <1>1, QuietInvariant, PTL
==============================================================================

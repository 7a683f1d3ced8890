--------------------------- MODULE ChannelDirectory ---------------------------
(***************************************************************************)
(* The directory of channels of the audit-trail gateway: services/channel- *)
(* info-service, routes/channel-info, the collection channel-info, and the *)
(* creation of a channel by ChannelService.create.                         *)
(*                                                                         *)
(* The operation in slot s is done for op[s].user, who has sent a request; *)
(* op[s].pc is the await at which it is suspended and op[s].answer what it *)
(* ends with.  Channels are numbered in the order of their announcement on *)
(* the tangle.                                                             *)
(***************************************************************************)
EXTENDS Naturals, FiniteSets

CONSTANTS
  Slots,        \* requests that are handled side by side
  Users, Admins,
  Guests,       \* bound: who is put on lists of those who see a hidden channel
  Names,        \* names of channels
  Containing,   \* the names in which a name is found, in whatever case
  MaxChannels   \* bound: how many channels are announced

ASSUME UsersAssumption == Admins \subseteq Users /\ Guests \subseteq Users
ASSUME NamesAssumption ==
  Containing \in [Names -> SUBSET Names] /\ \A n \in Names : n \in Containing[n]
ASSUME MaxChannelsAssumption == MaxChannels \in Nat

Channels == 1..MaxChannels

VARIABLES
  announced,  \* how many channels there are on the tangle
  states,     \* subscription-states: of whom there is the state create has stored,
              \* <<c, u>> for that of u, the author of channel c
  subs,       \* subscriptions: of whom there is the subscription, likewise
  info,       \* channel-info: a document, or Missing, for every channel
  op,         \* what each slot is doing
  complete,   \* history: the channels that create has listed
  added,      \* history: the channels listed since each operation began
  dropped     \* history: the channels whose author's documents somebody has asked to
              \* remove

database == <<states, subs, info>>
directory == <<announced, database, op, complete, added, dropped>>

NoUser == "nobody"
NoName == ""

(* The id of a user is the DID of an identity. *)
ASSUME NoUserAssumption == NoUser \notin Users

(* What else PUT may change, the topics, no property tells apart. *)
Docs == [author: Users, name: Names \cup {NoName}, hidden: BOOLEAN, visible: SUBSET Guests]
Missing == [author |-> NoUser, name |-> NoName, hidden |-> FALSE, visible |-> {}]
Listed(c) == info[c] # Missing

PCs == {"idle", "name", "announce", "state", "subscription", "info", "add", "get", "search",
        "read", "write", "leave", "unsubscribe", "revoke", "dropState", "dropSubscription",
        "done"}

(* What an operation ends with: a status, and the channels it tells about, with
   or without the list of those who may see them. *)
Answers == [status: {0, 200, 201, 400, 401, 404, 409, 500}, told: SUBSET Channels,
            lists: SUBSET Channels]
NoAnswer == [status |-> 0, told |-> {}, lists |-> {}]

(* channel: of the path or the body; doc: the body, or who is in the path; deletes:
   DELETE, not PUT. *)
Ops == [pc: PCs, user: Users \cup {NoUser}, channel: Channels \cup {0},
        doc: Docs \cup {Missing}, deletes: BOOLEAN, answer: Answers]
Idle == [pc |-> "idle", user |-> NoUser, channel |-> 0, doc |-> Missing, deletes |-> FALSE,
         answer |-> NoAnswer]

(* The address of the documents of the author an operation is about. *)
Own(o) == <<o.channel, o.doc.author>>

Init ==
  /\ announced = 0
  /\ states = {} /\ subs = {}
  /\ info = [c \in Channels |-> Missing]
  /\ op = [s \in Slots |-> Idle]
  /\ complete = {}
  /\ added = [s \in Slots |-> {}]
  /\ dropped = {}

Goto(s, label) == op' = [op EXCEPT ![s].pc = label]
Tell(s, answer) == op' = [op EXCEPT ![s].pc = "done", ![s].answer = answer]
Finish(s, status) == Tell(s, [NoAnswer EXCEPT !.status = status])

Begin(s, u, label, o) ==
  /\ op' = [op EXCEPT ![s] = [o EXCEPT !.pc = label, !.user = u]]
  /\ added' = [added EXCEPT ![s] = {}]
  /\ UNCHANGED <<announced, database, complete, dropped>>

(* A document comes into the collection. *)
List(c, doc) ==
  /\ info' = [info EXCEPT ![c] = doc]
  /\ added' = [s \in Slots |-> added[s] \cup {c}]

(* The unique index on name of setup/database-seeder, of the documents that have
   one; _id is unique as well.  insertOne throws then. *)
NameTaken(name) == name # NoName /\ \E c \in Channels : Listed(c) /\ info[c].name = name
Refused(c, doc) == Listed(c) \/ NameTaken(doc.name)

isAuthorizedAdmin(u) == u \in Admins
isAuthorized(u, id) == u = id \/ isAuthorizedAdmin(u)

------------------------------------------------------------------------------
(* POST /channels/create *)

(* The body is kept in doc; its author is the user of the request. *)
StartCreate(s, u) ==
  \E doc \in {d \in Docs : d.author = u} : Begin(s, u, "name", [Idle EXCEPT !.doc = doc])

(* The name is taken for a regular expression: any name that contains it will do. *)
channelExists(name) ==
  name # NoName /\ \E c \in Channels : Listed(c) /\ info[c].name \in Containing[name]

(* For a privatePlus channel the author's identity document must have a key. *)
CheckName(s) ==
  /\ op[s].pc = "name"
  /\ IF channelExists(op[s].doc.name) THEN Finish(s, 409)
     ELSE Goto(s, "announce") \/ Finish(s, 400)
  /\ UNCHANGED <<announced, database, complete, added, dropped>>

(* A plausible bug: the channel is listed as soon as it is announced. *)
AnnounceListed(s) ==
  /\ op[s].pc = "announce"
  /\ announced < MaxChannels
  /\ announced' = announced + 1
  /\ List(announced + 1, op[s].doc)
  /\ complete' = complete \cup {announced + 1}
  /\ op' = [op EXCEPT ![s].pc = "state", ![s].channel = announced + 1]
  /\ UNCHANGED <<states, subs, dropped>>

Announce(s) ==
  /\ op[s].pc = "announce"
  /\ announced < MaxChannels
  /\ announced' = announced + 1
  /\ op' = [op EXCEPT ![s].pc = "state", ![s].channel = announced + 1]
  /\ UNCHANGED <<database, complete, added, dropped>>

AddState(s) ==
  /\ op[s].pc = "state"
  /\ states' = states \cup {Own(op[s])}
  /\ Goto(s, "subscription")
  /\ UNCHANGED <<announced, subs, info, complete, added, dropped>>

AddSubscription(s) ==
  /\ op[s].pc = "subscription"
  /\ subs' = subs \cup {Own(op[s])}
  /\ Goto(s, "info")
  /\ UNCHANGED <<announced, states, info, complete, added, dropped>>

(* Somebody may have added the channel, or one of the same name.  Its state and
   subscription stay. *)
AddInfo(s) ==
  LET c == op[s].channel IN
  /\ op[s].pc = "info"
  /\ IF Refused(c, op[s].doc) THEN Finish(s, 500) /\ UNCHANGED <<info, complete, added>>
     ELSE /\ List(c, op[s].doc)
          /\ complete' = complete \cup {c}
          /\ Finish(s, 201)
  /\ UNCHANGED <<announced, states, subs, dropped>>

create(s) ==
  CheckName(s) \/ Announce(s) \/ AddState(s) \/ AddSubscription(s) \/ AddInfo(s)

------------------------------------------------------------------------------
(* What a request may see. *)

isInVisibilityList(doc, u) == u \in doc.visible

(* A plausible bug: the list itself is enough, whoever is on it. *)
SeesAnyList(doc, u) ==
  ~doc.hidden \/ isAuthorizedAdmin(u) \/ u = doc.author \/ doc.visible # {}

Sees(doc, u) ==
  ~doc.hidden \/ isAuthorizedAdmin(u) \/ u = doc.author \/ isInVisibilityList(doc, u)

(* The list is taken out for who is neither admin nor author. *)
SeesList(doc, u) ==
  isAuthorizedAdmin(u) \/ u = doc.author \/ ~(~doc.hidden \/ isInVisibilityList(doc, u))

(* A missing channel is null for an admin, and for others a property of null. *)
ChannelInfoFor(c, u) ==
  IF ~Listed(c) THEN [NoAnswer EXCEPT !.status = IF isAuthorizedAdmin(u) THEN 200 ELSE 500]
  ELSE [status |-> 200,
        told |-> {d \in {c} : Sees(info[d], u)},
        lists |-> {d \in {c} : Sees(info[d], u) /\ SeesList(info[d], u)}]

StartGet(s, u) == \E c \in 1..announced : Begin(s, u, "get", [Idle EXCEPT !.channel = c])

Get(s) ==
  /\ op[s].pc = "get"
  /\ Tell(s, ChannelInfoFor(op[s].channel, op[s].user))
  /\ UNCHANGED <<announced, database, complete, added, dropped>>

StartSearch(s, u) == Begin(s, u, "search", Idle)

(* One query; what criteria and pages leave out is left out at random. *)
Search(s) ==
  LET u == op[s].user IN
  /\ op[s].pc = "search"
  /\ \E found \in SUBSET {c \in Channels : Listed(c)} :
       LET seen == {c \in found : Sees(info[c], u)} IN
       Tell(s, [status |-> 200, told |-> seen,
                lists |-> {c \in seen : isAuthorizedAdmin(u) \/ u = info[c].author}])
  /\ UNCHANGED <<announced, database, complete, added, dropped>>

------------------------------------------------------------------------------
(* POST /channel-info/channel: any channel, as long as the user is the author
   the body names, or an admin. *)
StartAdd(s, u) ==
  \E c \in 1..announced, doc \in {d \in Docs : d.name # NoName} :
    Begin(s, u, "add", [Idle EXCEPT !.channel = c, !.doc = doc])

Add(s) ==
  LET c == op[s].channel
      allowed == isAuthorized(op[s].user, op[s].doc.author)
  IN
  /\ op[s].pc = "add"
  /\ IF ~allowed \/ Refused(c, op[s].doc) THEN Finish(s, 500) /\ UNCHANGED <<info, added>>
                              ELSE Finish(s, 201) /\ List(c, op[s].doc)
  /\ UNCHANGED <<announced, states, subs, complete, dropped>>

(* PUT and DELETE read the document first, as GET does.  PUT changes no name. *)
StartChange(s, u, deletes) ==
  \E c \in 1..announced, doc \in {d \in Docs : d.author = u /\ d.name = NoName} :
    /\ deletes => doc = [Missing EXCEPT !.author = u]
    /\ Begin(s, u, "read", [Idle EXCEPT !.channel = c, !.doc = doc, !.deletes = deletes])

StartUpdate(s, u) == StartChange(s, u, FALSE)
StartDelete(s, u) == StartChange(s, u, TRUE)

(* A plausible bug: the author named by the body is the one looked at. *)
ReadForChangeTrusting(s) ==
  LET c == op[s].channel IN
  /\ op[s].pc = "read"
  /\ IF Listed(c) /\ isAuthorized(op[s].user, op[s].doc.author)
       THEN Goto(s, "write") ELSE Finish(s, 500)
  /\ UNCHANGED <<announced, database, complete, added, dropped>>

(* A plausible bug: nothing is answered if there is nothing to change. *)
ReadForChangeSilent(s) ==
  LET c == op[s].channel IN
  /\ op[s].pc = "read"
  /\ Listed(c)
  /\ IF isAuthorized(op[s].user, info[c].author) THEN Goto(s, "write") ELSE Finish(s, 500)
  /\ UNCHANGED <<announced, database, complete, added, dropped>>

ReadForChange(s) ==
  LET c == op[s].channel IN
  /\ op[s].pc = "read"
  /\ IF Listed(c) /\ isAuthorized(op[s].user, info[c].author)
       THEN Goto(s, "write") ELSE Finish(s, 500)
  /\ UNCHANGED <<announced, database, complete, added, dropped>>

(* A plausible bug: what is not there any more is created again. *)
WriteChangeUpsert(s) ==
  LET c == op[s].channel IN
  /\ op[s].pc = "write"
  /\ info' = [info EXCEPT ![c] = IF op[s].deletes THEN Missing
                                ELSE [info[c] EXCEPT !.hidden = op[s].doc.hidden,
                                                     !.visible = op[s].doc.visible]]
  /\ Finish(s, 200)
  /\ complete' = IF op[s].deletes THEN complete \ {c} ELSE complete
  /\ UNCHANGED <<announced, states, subs, added, dropped>>

(* The document is found by its address again, whoever added it since. *)
WriteChange(s) ==
  LET c == op[s].channel IN
  /\ op[s].pc = "write"
  /\ IF op[s].deletes
       THEN info' = [info EXCEPT ![c] = Missing] /\ Finish(s, 200)
       ELSE IF Listed(c)
         THEN /\ info' = [info EXCEPT ![c].hidden = op[s].doc.hidden,
                                      ![c].visible = op[s].doc.visible]
              /\ Finish(s, 200)
         ELSE Finish(s, 404) /\ UNCHANGED info
  /\ complete' = IF op[s].deletes THEN complete \ {c} ELSE complete
  /\ UNCHANGED <<announced, states, subs, added, dropped>>

change(s) == ReadForChange(s) \/ WriteChange(s)

------------------------------------------------------------------------------
(* The requests that take the author's own documents away.  Those of subscribers,
   and what is stored in place of hers later, belong to ChannelSubscriptions. *)

StartOwn(s, u, label, own) ==
  Begin(s, u, label, [Idle EXCEPT !.channel = own[1], !.doc = [Missing EXCEPT !.author = own[2]]])

(* DELETE /subscriptions/{channel}/{user} *)
StartUnsubscribe(s, u) == \E own \in subs : StartOwn(s, u, "leave", own)

(* Who is asked for, and who is listed as author, may delete it; of a channel that
   is not listed the author is a property of null. *)
ReadForUnsubscribe(s) ==
  LET c == op[s].channel IN
  /\ op[s].pc = "leave"
  /\ \/ ~Listed(c) /\ Finish(s, 500)
     \/ Listed(c) /\ op[s].user \notin {op[s].doc.author, info[c].author} /\ Finish(s, 401)
     \/ /\ Listed(c) /\ op[s].user \in {op[s].doc.author, info[c].author}
        /\ IF Own(op[s]) \in subs THEN Goto(s, "unsubscribe") ELSE Finish(s, 404)
  /\ UNCHANGED <<announced, database, complete, added, dropped>>

Drop(c) == dropped' = dropped \cup {c}

(* The state stays.  The channel may have been removed by the time its list of
   subscribers is changed, or not before. *)
Unsubscribe(s) ==
  /\ op[s].pc = "unsubscribe"
  /\ \/ ~Listed(op[s].channel) /\ Finish(s, 500) /\ UNCHANGED <<subs, dropped>>
     \/ subs' = subs \ {Own(op[s])} /\ Drop(op[s].channel) /\ Finish(s, 200)
  /\ UNCHANGED <<announced, states, info, complete, added>>

(* POST /subscriptions/revoke, by which the author names herself *)
StartRevoke(s, u) == \E own \in subs : own[2] = u /\ StartOwn(s, u, "revoke", own)

(* The shared key may be one too many or missing. *)
ReadForRevoke(s) ==
  /\ op[s].pc = "revoke"
  /\ IF Own(op[s]) \notin subs THEN Finish(s, 400)
     ELSE IF ~Listed(op[s].channel) THEN Finish(s, 500)
     ELSE \/ Finish(s, 400)
          \/ Own(op[s]) \notin states /\ Finish(s, 500)
          \/ Own(op[s]) \in states /\ Goto(s, "dropState")
  /\ UNCHANGED <<announced, database, complete, added, dropped>>

DropState(s) ==
  /\ op[s].pc = "dropState"
  /\ states' = states \ {Own(op[s])}
  /\ Drop(op[s].channel)
  /\ Goto(s, "dropSubscription")
  /\ UNCHANGED <<announced, subs, info, complete, added>>

(* At last the author's state is to be saved, and there is none to update. *)
DropSubscription(s) ==
  /\ op[s].pc = "dropSubscription"
  /\ subs' = subs \ {Own(op[s])}
  /\ Drop(op[s].channel)
  /\ Finish(s, 500)
  /\ UNCHANGED <<announced, states, info, complete, added>>

leave(s) ==
  \/ ReadForUnsubscribe(s) \/ Unsubscribe(s)
  \/ ReadForRevoke(s) \/ DropState(s) \/ DropSubscription(s)

DirectoryStep(s) == create(s) \/ Get(s) \/ Search(s) \/ Add(s) \/ change(s) \/ leave(s)

(* A call of the tangle, of the database or of the ssi-bridge is rejected. *)
DirectoryFail(s) ==
  /\ op[s].pc \notin {"idle", "done"}
  /\ Finish(s, 500)
  /\ UNCHANGED <<announced, database, complete, added, dropped>>

------------------------------------------------------------------------------

DirectoryTypeOK ==
  /\ announced \in 0..MaxChannels
  /\ states \subseteq Channels \X Users /\ subs \subseteq Channels \X Users
  /\ info \in [Channels -> Docs \cup {Missing}]
  /\ op \in [Slots -> Ops]
  /\ complete \subseteq Channels
  /\ added \in [Slots -> SUBSET Channels]
  /\ dropped \subseteq Channels

(* A channel that create has listed has the state and the subscription of the author
   it is listed with, by which she authorizes others: wherever creations were
   interrupted or refused, and whoever else listed, removed and revoked meanwhile,
   only a request to remove her subscription of this very channel takes them away. *)
AuthorSubscribed ==
  \A c \in complete \ dropped : <<c, info[c].author>> \in states \cap subs

(* Nobody learns of a hidden channel but its author, admins and who is on its
   list, nor of the list but the former; what is told is true as it is told. *)
MayKnow(u, c) ==
  info[c].hidden => u \in {info[c].author} \cup info[c].visible \cup Admins
MayKnowList(u, c) == u \in {info[c].author} \cup Admins

==============================================================================

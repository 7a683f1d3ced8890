------------------------------- MODULE Gateway -------------------------------
(***************************************************************************)
(* A request on its way through the servers: sent by a client (SdkCalls),  *)
(* dispatched to a route (ApiRoutes), through the middlewares of its chain *)
(* and into its handler.  The handlers of the channel directory            *)
(* (ChannelDirectory) run step by step; of the others only the answer is   *)
(* kept, their state being the subject of the other modules.               *)
(*                                                                         *)
(* req[s] is the request in slot s: a call, the credentials and the body   *)
(* that came with it, where it is, what the middlewares have made of it,   *)
(* and the answer with the part of the server that gave it.                *)
(***************************************************************************)
EXTENDS SdkCalls, ChannelDirectory

CONSTANT MaxRequests  \* bound: how many requests are sent

ASSUME MaxRequestsAssumption == MaxRequests \in Nat

VARIABLES
  req,   \* the request in each slot
  sent   \* how many were sent

vars == <<directory, req, sent>>

Tokens == {"none", "valid", "expired"}
Bodies == {"valid", "invalid", "operators"}
Parts == {"pending", "route", "apiKey", "auth", "validate", "sanitize", "lock", "handler",
          "connection"}

NoCall == Call(<<>>, NoToken, 0)
Requests == [call: Calls \cup {NoCall}, sender: Users \cup {NoUser}, key: BOOLEAN,
             token: Tokens, body: Bodies, at: {"server", "lock", "handler"},
             user: Users \cup {NoUser}, locked: BOOLEAN, by: Parts, status: Nat]
NoRequest == [call |-> NoCall, sender |-> NoUser, key |-> FALSE, token |-> "none",
              body |-> "valid", at |-> "server", user |-> NoUser, locked |-> FALSE,
              by |-> "connection", status |-> 0]

Pending(s) == req[s].by = "pending"
RouteTo == [call \in Calls \cup {NoCall} |-> Dispatch(call.line)]
RouteOf(s) == RouteTo[req[s].call]
HandlerOf(s) == RouteOf(s).handler
AtHandler(s) == Pending(s) /\ req[s].at = "handler"

GatewayInit ==
  /\ Init
  /\ req = [s \in Slots |-> NoRequest]
  /\ sent = 0

(* The body is parsed before anything else; GET and DELETE have none. *)
Send(s, call, sender, key, token, body) ==
  /\ sent < MaxRequests
  /\ ~Pending(s) /\ op[s] = Idle
  /\ call.line[1] \in {"GET", "DELETE"} => body = "valid"
  /\ req' = [req EXCEPT ![s] = [NoRequest EXCEPT
       !.call = call, !.sender = sender, !.key = key, !.token = token, !.body = body,
       !.by = "pending"]]
  /\ sent' = sent + 1
  /\ UNCHANGED directory

(* Of a request that is answered nothing is left. *)
Answer(s, part, status) ==
  req' = [req EXCEPT ![s] = [NoRequest EXCEPT !.by = part, !.status = status]]

------------------------------------------------------------------------------
(* Middlewares: what each answers, or next, to let the request go on. *)

next == 0

(* No key is asked for by a server that has none: then every key is right. *)
hasValidApiKey(r) == IF r.key THEN next ELSE 401

(* jwt.verify throws for a token that has expired, which errorMiddleware answers
   with 500. *)
isAuth(r) ==
  CASE r.token = "valid" -> next [] r.token = "none" -> 401 [] r.token = "expired" -> 500

(* A ValidationError is what errorMiddleware answers with 400. *)
validate(r) == IF r.body = "invalid" THEN 400 ELSE next

mongodbSanitizer(r) == IF r.body = "operators" THEN 400 ELSE next

Result(r, middleware) ==
  CASE middleware = "apiKey" -> hasValidApiKey(r)
    [] middleware = "auth" -> isAuth(r)
    [] middleware = "validate" -> validate(r)
    [] middleware = "sanitize" -> mongodbSanitizer(r)
    [] middleware = "lock" -> next

NotFound(s) ==
  /\ req[s].at = "server" /\ RouteOf(s) = NoRoute
  /\ Answer(s, "route", 404)

(* They are called one after the other in one turn of the event loop, but for the
   lock, which comes last and waits for the database. *)
Middlewares(s) ==
  LET chain == RouteOf(s).chain
      refused == {i \in DOMAIN chain : Result(req[s], chain[i]) # next}
      first == CHOOSE i \in refused : \A j \in refused : i <= j
  IN
  /\ req[s].at = "server" /\ RouteOf(s) # NoRoute
  /\ IF refused # {} THEN Answer(s, chain[first], Result(req[s], chain[first]))
     ELSE req' = [req EXCEPT
            ![s].at = IF "lock" \in Range(chain) THEN "lock" ELSE "handler",
            ![s].user = IF "auth" \in Range(chain) THEN req[s].sender ELSE NoUser]

(* Who else holds the lock is a matter of ConcurrencyLock. *)
lock(s) ==
  /\ req[s].at = "lock"
  /\ \/ req' = [req EXCEPT ![s].at = "handler", ![s].locked = TRUE]
     \/ \E status \in {423, 500} : Answer(s, "lock", status)

Middleware(s) ==
  /\ Pending(s)
  /\ NotFound(s) \/ Middlewares(s) \/ lock(s)
  /\ UNCHANGED <<directory, sent>>

------------------------------------------------------------------------------
(* Handlers *)

DirectoryHandlers ==
  {createChannel, searchChannelInfo, getChannelInfo, addChannelInfo, updateChannelInfo,
   deleteChannelInfo}

(* An error that is thrown goes to errorMiddleware: 500.  The subscriptions of others
   than authors are deleted and revoked here. *)
Handle(s) ==
  /\ AtHandler(s) /\ HandlerOf(s) \notin DirectoryHandlers /\ op[s] = Idle
  /\ \E status \in {HandlerOf(s).success, 500} \cup HandlerOf(s).refusals :
       Answer(s, "handler", status)
  /\ UNCHANGED <<directory, sent>>

HandleDirectory(s) ==
  LET u == req[s].user IN
  /\ AtHandler(s) /\ op[s] = Idle
  /\ \/ HandlerOf(s) = createChannel /\ StartCreate(s, u)
     \/ HandlerOf(s) = searchChannelInfo /\ StartSearch(s, u)
     \/ HandlerOf(s) = getChannelInfo /\ StartGet(s, u)
     \/ HandlerOf(s) = addChannelInfo /\ StartAdd(s, u)
     \/ HandlerOf(s) = updateChannelInfo /\ StartUpdate(s, u)
     \/ HandlerOf(s) = deleteChannelInfo /\ StartDelete(s, u)
     \/ HandlerOf(s) = deleteSubscription /\ StartUnsubscribe(s, u)
     \/ HandlerOf(s) = revokeSubscription /\ StartRevoke(s, u)
  /\ UNCHANGED <<req, sent>>

(* What the handler sends goes nowhere when the connection is closed. *)
AnswerDirectory(s) ==
  /\ op[s].pc = "done"
  /\ IF Pending(s) THEN Answer(s, "handler", op[s].answer.status) ELSE UNCHANGED req
  /\ op' = [op EXCEPT ![s] = Idle]
  /\ added' = [added EXCEPT ![s] = {}]
  /\ UNCHANGED <<announced, database, complete, dropped, sent>>

Work(s) ==
  \/ Middleware(s) \/ Handle(s) \/ HandleDirectory(s) \/ AnswerDirectory(s)
  \/ DirectoryStep(s) /\ UNCHANGED <<req, sent>>

------------------------------------------------------------------------------
(* Failures *)

Fail(s) == DirectoryFail(s) /\ UNCHANGED <<req, sent>>

(* The socket times out, or the client gives up: the handler works on. *)
Disconnect(s) ==
  /\ Pending(s) /\ op[s] # Idle
  /\ Answer(s, "connection", 0)
  /\ UNCHANGED <<directory, sent>>

auditTrailPaths == {"channel-info", "channels", "subscriptions"}
ssiBridgePaths == {"identities", "authentication", "verification"}

(* A server that stops drops what it is working on. *)
Crash(paths) ==
  LET cut == {s \in Slots : Pending(s) /\ req[s].call.line[2] \in paths}
      stopped == cut \cup {s \in Slots : op[s] # Idle /\ paths = auditTrailPaths}
  IN
  /\ stopped # {}
  /\ req' = [s \in Slots |-> IF s \in cut THEN NoRequest ELSE req[s]]
  /\ op' = [s \in Slots |-> IF s \in stopped THEN Idle ELSE op[s]]
  /\ added' = [s \in Slots |-> IF s \in stopped THEN {} ELSE added[s]]
  /\ UNCHANGED <<announced, database, complete, dropped, sent>>

Serve ==
  \/ \E s \in Slots : Work(s) \/ Fail(s) \/ Disconnect(s)
  \/ \E paths \in {auditTrailPaths, ssiBridgePaths} : Crash(paths)

Next ==
  \/ \E s \in Slots, call \in Calls, sender \in Users, key \in BOOLEAN, token \in Tokens,
       body \in Bodies : Send(s, call, sender, key, token, body)
  \/ Serve

Spec == GatewayInit /\ [][Next]_vars

(* What awaits a call of the tangle or of the database goes on some day; that the
   call fails is never needed for that. *)
FairSpec == Spec /\ \A s \in Slots : WF_vars(Work(s))

------------------------------------------------------------------------------

TypeOK ==
  /\ DirectoryTypeOK
  /\ req \in [Slots -> Requests]
  /\ sent \in 0..MaxRequests

(* What a handler relies on is there when it starts: a user, a body that may go
   into the database, the lock; whichever route brought the request to it. *)
Provided(r) ==
  {n \in {"user", "clean", "lock"} :
     CASE n = "user" -> r.user # NoUser
       [] n = "clean" -> r.body = "valid"
       [] n = "lock" -> r.locked}
HandlersPrepared ==
  \A s \in Slots : AtHandler(s) => HandlerOf(s).needs \subseteq Provided(req[s])

(* What routes do otherwise than documentation or client-sdk say. *)
Divergences ==
  { \* documented without a token, yet they ask for one
    Call(ChannelInfo, NoToken, 200), Call(IdentityFind, NoToken, 200),
    \* documented as POST, served as GET
    Call(<<"POST", "identities", "key-pair">>, Token, 200),
    \* documented with 200, answered with 201
    Call(IdentityAdd, NoToken, 200),
    \* sent to a path that is not served
    Call(ChannelReimport, Token, 0) }

(* A client that does as it was told by documentation or client-sdk, and whose
   token does not expire on the way, is not turned away by a middleware but the
   lock, reaches the handler meant, and success is the status it was told. *)
AsTold(r) ==
  /\ r.call \notin Divergences
  /\ r.key /\ r.body = "valid"
  /\ r.token = IF r.call.token THEN "valid" ELSE "none"
CallsServed ==
  [][\A s \in Slots : Pending(s) /\ AsTold(req[s]) /\ ~Pending(s)' =>
       /\ req'[s].by \notin {"route", "apiKey", "auth", "validate", "sanitize"}
       /\ RouteOf(s).documented.line = req[s].call.line
       /\ req'[s].by = "handler" /\ req'[s].status \in 200..299 /\ req[s].call.success # 0
            => req'[s].status = req[s].call.success]_vars

(* A listed channel is changed or removed by its author or an admin only, though
   PUT and DELETE look at the author some time before they write: unless it was
   removed and added again in between, which nothing can tell apart. *)
Changes(s, c) == op[s].pc = "write" /\ op'[s].pc = "done" /\ op[s].channel = c
ChangedByOwner ==
  [][\A c \in Channels : Listed(c) /\ info'[c] # info[c] =>
       \E s \in Slots : /\ Changes(s, c)
                        /\ op[s].user \in {info[c].author} \cup Admins \/ c \in added[s]]_vars

(* Neither of the two ways to read the directory tells anybody of what is hidden
   from her. *)
Tells(s) == op[s].pc # "done" /\ op'[s].pc = "done"
HiddenStaysHidden ==
  [][\A s \in Slots : Tells(s) =>
       /\ \A c \in op'[s].answer.told : MayKnow(op[s].user, c)
       /\ \A c \in op'[s].answer.lists : MayKnowList(op[s].user, c)]_vars

(* Every request is answered or its connection is lost: no branch of a handler
   forgets it. *)
Answered == \A s \in Slots : Pending(s) ~> ~Pending(s)

==============================================================================

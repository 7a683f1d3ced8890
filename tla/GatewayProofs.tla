---------------------------- MODULE GatewayProofs ----------------------------
(***************************************************************************)
(* What Gateway guarantees for every number of requests, users and         *)
(* channels, whatever fails.                                               *)
(***************************************************************************)
EXTENDS Gateway, WellFoundedInduction, TLAPS

LEMMA Least ==
  ASSUME NEW S \in SUBSET Nat, S # {}
  PROVE  \E i \in S : \A j \in S : i <= j
<1> DEFINE R == {p \in Nat \X Nat : p[1] < p[2]}
<1>1. IsWellFoundedOn(R, Nat)
  BY NatLessThanWellFounded DEF OpToRel
<1>2. \A i, j \in Nat : i < j => <<i, j>> \in R
  OBVIOUS
<1> HIDE DEF R
<1>3. PICK i \in S : \A j \in S : ~(<<j, i>> \in R)
  BY <1>1, WFMin
<1>4. \A j \in S : ~(j < i)
  BY <1>2, <1>3
<1> QED
  BY <1>3, <1>4

------------------------------------------------------------------------------
(* Routes *)

MiddlewareNames == {"apiKey", "auth", "validate", "sanitize", "lock"}
Needs == {"user", "clean", "lock"}

(* What a handler relies on is what the chain of its route sees to. *)
SeesTo(chain, needs) ==
  /\ chain \in Seq(MiddlewareNames)
  /\ "user" \in needs => "auth" \in Range(chain)
  /\ "clean" \in needs => {"validate", "sanitize"} \subseteq Range(chain)
  /\ "lock" \in needs => "lock" \in Range(chain)

Backed(r) ==
  /\ SeesTo(r.chain, r.handler.needs)
  /\ r.handler.needs \subseteq Needs
  /\ r.handler.success \in Nat /\ r.handler.refusals \subseteq Nat

AllBacked(router) ==
  /\ router \in Seq(Range(router))
  /\ \A i \in DOMAIN router : Backed(router[i])

LEMMA OwnRange ==
  ASSUME NEW S, NEW q \in Seq(S)
  PROVE  q \in Seq(Range(q))
  BY DEF Range

LEMMA Joined ==
  ASSUME NEW q, NEW r, AllBacked(q), AllBacked(r)
  PROVE  AllBacked(q \o r)
<1> DEFINE S == Range(q) \cup Range(r)
<1>1. q \in Seq(S) /\ r \in Seq(S)
  BY DEF AllBacked
<1>2. q \o r \in Seq(S)
  BY <1>1
<1>3. \A i \in DOMAIN (q \o r) :
        \/ i \in DOMAIN q /\ (q \o r)[i] = q[i]
        \/ i - Len(q) \in DOMAIN r /\ (q \o r)[i] = r[i - Len(q)]
  BY <1>1
<1>4. q \o r \in Seq(Range(q \o r))
  BY <1>2, OwnRange
<1> QED
  BY <1>3, <1>4 DEF AllBacked

(* The chains in use, and how much a handler may rely on behind each. *)
LEMMA Chains ==
  /\ SeesTo(<<>>, {})
  /\ SeesTo(<<"apiKey">>, {})
  /\ SeesTo(<<"apiKey", "sanitize">>, {})
  /\ SeesTo(<<"apiKey", "auth">>, {"user"}) /\ SeesTo(<<"apiKey", "auth">>, {})
  /\ SeesTo(<<"apiKey", "auth", "lock">>, {"user", "lock"})
  /\ SeesTo(<<"apiKey", "sanitize", "validate">>, {})
  /\ SeesTo(<<"apiKey", "validate", "sanitize">>, {"clean"})
  /\ SeesTo(<<"apiKey", "auth", "sanitize", "lock">>, {"user", "lock"})
  /\ SeesTo(<<"apiKey", "auth", "validate", "sanitize">>, {"user", "clean"})
  /\ SeesTo(<<"apiKey", "validate", "auth", "sanitize">>, {"user", "clean"})
  /\ SeesTo(<<"apiKey", "auth", "validate", "sanitize", "lock">>, {"user", "clean", "lock"})
<1>1. \A a, b, c, d, e :
        /\ {a, b, c, d, e} \subseteq Range(<<a, b, c, d, e>>)
        /\ {a, b, c, d} \subseteq Range(<<a, b, c, d>>)
        /\ {a, b, c} \subseteq Range(<<a, b, c>>) /\ {a, b} \subseteq Range(<<a, b>>)
  BY DEF Range
<1>2. \A a, b, c, d, e \in MiddlewareNames :
        /\ <<a, b, c, d, e>> \in Seq(MiddlewareNames)
        /\ <<a, b, c, d>> \in Seq(MiddlewareNames)
        /\ <<a, b, c>> \in Seq(MiddlewareNames)
        /\ <<a, b>> \in Seq(MiddlewareNames)
        /\ <<a>> \in Seq(MiddlewareNames) /\ <<>> \in Seq(MiddlewareNames)
  OBVIOUS
<1>3. {"apiKey", "auth", "validate", "sanitize", "lock"} \subseteq MiddlewareNames
  BY DEF MiddlewareNames
<1>4. SeesTo(<<>>, {})
  BY <1>1, <1>2, <1>3 DEF SeesTo
<1>5. SeesTo(<<"apiKey">>, {})
  BY <1>1, <1>2, <1>3 DEF SeesTo
<1>6. SeesTo(<<"apiKey", "sanitize">>, {})
  BY <1>1, <1>2, <1>3 DEF SeesTo
<1>7. SeesTo(<<"apiKey", "auth">>, {"user"}) /\ SeesTo(<<"apiKey", "auth">>, {})
  BY <1>1, <1>2, <1>3 DEF SeesTo
<1>8. SeesTo(<<"apiKey", "auth", "lock">>, {"user", "lock"})
  BY <1>1, <1>2, <1>3 DEF SeesTo
<1>9. SeesTo(<<"apiKey", "sanitize", "validate">>, {})
  BY <1>1, <1>2, <1>3 DEF SeesTo
<1>10. SeesTo(<<"apiKey", "validate", "sanitize">>, {"clean"})
  BY <1>1, <1>2, <1>3 DEF SeesTo
<1>11. SeesTo(<<"apiKey", "auth", "sanitize", "lock">>, {"user", "lock"})
  BY <1>1, <1>2, <1>3 DEF SeesTo
<1>12. SeesTo(<<"apiKey", "auth", "validate", "sanitize">>, {"user", "clean"})
  BY <1>1, <1>2, <1>3 DEF SeesTo
<1>13. SeesTo(<<"apiKey", "validate", "auth", "sanitize">>, {"user", "clean"})
  BY <1>1, <1>2, <1>3 DEF SeesTo
<1>14. SeesTo(<<"apiKey", "auth", "validate", "sanitize", "lock">>, {"user", "clean", "lock"})
  BY <1>1, <1>2, <1>3 DEF SeesTo
<1> QED
  BY <1>4, <1>5, <1>6, <1>7, <1>8, <1>9, <1>10, <1>11, <1>12, <1>13, <1>14

LEMMA RouteBacked ==
  ASSUME NEW line, NEW chain, NEW name, NEW success \in Nat, NEW refusals \in SUBSET Nat,
         NEW needs \in SUBSET Needs, NEW token, NEW promised, SeesTo(chain, needs)
  PROVE  Backed(Route(line, chain, Handler(name, success, refusals, needs), token, promised))
  BY DEF Route, Handler, Backed

(* A handler may rely on less than it could. *)
LEMMA SeesToLess ==
  ASSUME NEW chain, NEW needs, NEW fewer \in SUBSET needs, SeesTo(chain, needs)
  PROVE  SeesTo(chain, fewer)
  BY DEF SeesTo

LEMMA ChannelInfoRouterBacked == AllBacked(channelInfoRouter)
<1>1. Backed(searchChannelInfoRoute)
  BY Chains, RouteBacked, SeesToLess DEF searchChannelInfoRoute, searchChannelInfo, Needs
<1>2. Backed(getChannelInfoRoute)
  BY Chains, RouteBacked, SeesToLess DEF getChannelInfoRoute, getChannelInfo, Needs
<1>3. Backed(addChannelInfoRoute)
  BY Chains, RouteBacked, SeesToLess DEF addChannelInfoRoute, addChannelInfo, Needs
<1>4. Backed(updateChannelInfoRoute)
  BY Chains, RouteBacked, SeesToLess DEF updateChannelInfoRoute, updateChannelInfo, Needs
<1>5. Backed(deleteChannelInfoRoute)
  BY Chains, RouteBacked, SeesToLess DEF deleteChannelInfoRoute, deleteChannelInfo, Needs
<1>6. \A i \in DOMAIN channelInfoRouter : Backed(channelInfoRouter[i])
  BY <1>1, <1>2, <1>3, <1>4, <1>5 DEF channelInfoRouter
<1>7. channelInfoRouter \in Seq(Range(channelInfoRouter))
  BY DEF channelInfoRouter, Range
<1> QED
  BY <1>6, <1>7 DEF AllBacked

LEMMA ChannelRouterBacked == AllBacked(channelRouter)
<1>1. Backed(createChannelRoute)
  BY Chains, RouteBacked, SeesToLess DEF createChannelRoute, createChannel, Needs
<1>2. Backed(addLogRoute)
  BY Chains, RouteBacked, SeesToLess DEF addLogRoute, addLog, Needs
<1>3. Backed(getLogsRoute)
  BY Chains, RouteBacked, SeesToLess DEF getLogsRoute, getLogs, Needs
<1>4. Backed(getHistoryRoute)
  BY Chains, RouteBacked, SeesToLess DEF getHistoryRoute, getHistory, Needs
<1>5. Backed(validateLogsRoute)
  BY Chains, RouteBacked, SeesToLess DEF validateLogsRoute, validateLogs, Needs
<1>6. Backed(reimportRoute)
  BY Chains, RouteBacked, SeesToLess DEF reimportRoute, reimport, Needs
<1>7. \A i \in DOMAIN channelRouter : Backed(channelRouter[i])
  BY <1>1, <1>2, <1>3, <1>4, <1>5, <1>6 DEF channelRouter
<1>8. channelRouter \in Seq(Range(channelRouter))
  BY DEF channelRouter, Range
<1> QED
  BY <1>7, <1>8 DEF AllBacked

LEMMA SubscriptionRouterBacked == AllBacked(subscriptionRouter)
<1>1. Backed(getSubscriptionStateRoute)
  BY Chains, RouteBacked, SeesToLess DEF getSubscriptionStateRoute, getSubscriptionState, Needs
<1>2. Backed(updateSubscriptionStateRoute)
  BY Chains, RouteBacked, SeesToLess DEF updateSubscriptionStateRoute, updateSubscriptionState, Needs
<1>3. Backed(getSubscriptionsRoute)
  BY Chains, RouteBacked, SeesToLess DEF getSubscriptionsRoute, getSubscriptions, Needs
<1>4. Backed(getSubscriptionByIdentityRoute)
  BY Chains, RouteBacked, SeesToLess DEF getSubscriptionByIdentityRoute, getSubscriptionByIdentity, Needs
<1>5. Backed(requestSubscriptionRoute)
  BY Chains, RouteBacked, SeesToLess DEF requestSubscriptionRoute, requestSubscription, Needs
<1>6. Backed(authorizeSubscriptionRoute)
  BY Chains, RouteBacked, SeesToLess DEF authorizeSubscriptionRoute, authorizeSubscription, Needs
<1>7. Backed(revokeSubscriptionRoute)
  BY Chains, RouteBacked, SeesToLess DEF revokeSubscriptionRoute, revokeSubscription, Needs
<1>8. Backed(addSubscriptionRoute)
  BY Chains, RouteBacked, SeesToLess DEF addSubscriptionRoute, addSubscription, Needs
<1>9. Backed(updateSubscriptionRoute)
  BY Chains, RouteBacked, SeesToLess DEF updateSubscriptionRoute, updateSubscription, Needs
<1>10. Backed(deleteSubscriptionRoute)
  BY Chains, RouteBacked, SeesToLess DEF deleteSubscriptionRoute, deleteSubscription, Needs
<1>11. \A i \in DOMAIN subscriptionRouter : Backed(subscriptionRouter[i])
  BY <1>1, <1>2, <1>3, <1>4, <1>5, <1>6, <1>7, <1>8, <1>9, <1>10 DEF subscriptionRouter
<1>12. subscriptionRouter \in Seq(Range(subscriptionRouter))
  BY DEF subscriptionRouter, Range
<1> QED
  BY <1>11, <1>12 DEF AllBacked

LEMMA IdentityRouterBacked == AllBacked(identityRouter)
<1>1. Backed(createIdentityRoute)
  BY Chains, RouteBacked, SeesToLess DEF createIdentityRoute, createIdentity, Needs
<1>2. Backed(getKeyPairRoute)
  <2> DEFINE r == Route(<<"GET", "identities", "key-pair">>, <<"apiKey", "sanitize">>, getKeyPair,
                        Token, 200)
             l == <<"POST", "identities", "key-pair">>
  <2>1. Backed(r)
    BY Chains, RouteBacked DEF getKeyPair, Needs
  <2>2. getKeyPairRoute = [r EXCEPT !.documented.line = l]
    BY DEF getKeyPairRoute
  <2>3. getKeyPairRoute.chain = r.chain /\ getKeyPairRoute.handler = r.handler
    BY <2>2 DEF Route
  <2> HIDE DEF r
  <2> QED
    BY <2>1, <2>3 DEF Backed
<1>3. Backed(searchUsersRoute)
  BY Chains, RouteBacked, SeesToLess DEF searchUsersRoute, searchUsers, Needs
<1>4. Backed(getUserRoute)
  BY Chains, RouteBacked, SeesToLess DEF getUserRoute, getUser, Needs
<1>5. Backed(addUserRoute)
  BY Chains, RouteBacked, SeesToLess DEF addUserRoute, addUser, Needs
<1>6. Backed(updateUserRoute)
  BY Chains, RouteBacked, SeesToLess DEF updateUserRoute, updateUser, Needs
<1>7. Backed(deleteUserRoute)
  BY Chains, RouteBacked, SeesToLess DEF deleteUserRoute, deleteUser, Needs
<1>8. \A i \in DOMAIN identityRouter : Backed(identityRouter[i])
  BY <1>1, <1>2, <1>3, <1>4, <1>5, <1>6, <1>7 DEF identityRouter
<1>9. identityRouter \in Seq(Range(identityRouter))
  BY DEF identityRouter, Range
<1> QED
  BY <1>8, <1>9 DEF AllBacked

LEMMA AuthenticationRouterBacked == AllBacked(authenticationRouter)
<1>1. Backed(getNonceRoute)
  BY Chains, RouteBacked, SeesToLess DEF getNonceRoute, getNonce, Needs
<1>2. Backed(proveOwnershipRoute)
  BY Chains, RouteBacked, SeesToLess DEF proveOwnershipRoute, proveOwnership, Needs
<1>3. Backed(verifyJwtRoute)
  BY Chains, RouteBacked, SeesToLess DEF verifyJwtRoute, verifyJwt, Needs
<1>4. \A i \in DOMAIN authenticationRouter : Backed(authenticationRouter[i])
  BY <1>1, <1>2, <1>3 DEF authenticationRouter
<1>5. authenticationRouter \in Seq(Range(authenticationRouter))
  BY DEF authenticationRouter, Range
<1> QED
  BY <1>4, <1>5 DEF AllBacked

LEMMA VerificationRouterBacked == AllBacked(verificationRouter)
<1>1. Backed(getLatestDocumentRoute)
  BY Chains, RouteBacked, SeesToLess DEF getLatestDocumentRoute, getLatestDocument, Needs
<1>2. Backed(addTrustedRootIdentityRoute)
  BY Chains, RouteBacked, SeesToLess DEF addTrustedRootIdentityRoute, addTrustedRootIdentity, Needs
<1>3. Backed(getTrustedRootIdentitiesRoute)
  BY Chains, RouteBacked, SeesToLess DEF getTrustedRootIdentitiesRoute, getTrustedRootIdentities, Needs
<1>4. Backed(removeTrustedRootIdentityRoute)
  BY Chains, RouteBacked, SeesToLess DEF removeTrustedRootIdentityRoute, removeTrustedRootIdentity, Needs
<1>5. Backed(createVerifiableCredentialRoute)
  BY Chains, RouteBacked, SeesToLess DEF createVerifiableCredentialRoute, createVerifiableCredential, Needs
<1>6. Backed(checkVerifiableCredentialRoute)
  BY Chains, RouteBacked, SeesToLess DEF checkVerifiableCredentialRoute, checkVerifiableCredential, Needs
<1>7. Backed(checkVerifiablePresentationRoute)
  BY Chains, RouteBacked, SeesToLess DEF checkVerifiablePresentationRoute, checkVerifiablePresentation, Needs
<1>8. Backed(revokeVerifiableCredentialRoute)
  BY Chains, RouteBacked, SeesToLess DEF revokeVerifiableCredentialRoute, revokeVerifiableCredential, Needs
<1>9. \A i \in DOMAIN verificationRouter : Backed(verificationRouter[i])
  BY <1>1, <1>2, <1>3, <1>4, <1>5, <1>6, <1>7, <1>8 DEF verificationRouter
<1>10. verificationRouter \in Seq(Range(verificationRouter))
  BY DEF verificationRouter, Range
<1> QED
  BY <1>9, <1>10 DEF AllBacked

LEMMA RoutersBacked == AllBacked(routers)
  BY Joined, ChannelInfoRouterBacked, ChannelRouterBacked, SubscriptionRouterBacked,
     IdentityRouterBacked, AuthenticationRouterBacked, VerificationRouterBacked DEF routers

(* Whatever is asked for, the route that is found sees to what its handler needs. *)
LEMMA DispatchBacked ==
  ASSUME NEW path
  PROVE  Backed(Dispatch(path))
<1> DEFINE found == {i \in DOMAIN routers : Matches(routers[i].line, path)}
<1>1. CASE found = {}
  <2>1. Dispatch(path) = NoRoute
    BY <1>1 DEF Dispatch
  <2>2. Backed(NoRoute)
    BY Chains, RouteBacked DEF NoRoute, Needs
  <2> QED
    BY <2>1, <2>2
<1>2. CASE found # {}
  <2>1. found \in SUBSET Nat /\ found \subseteq DOMAIN routers
    BY RoutersBacked DEF AllBacked
  <2> DEFINE first == CHOOSE i \in found : \A j \in found : i <= j
  <2>2. first \in found
    BY <1>2, <2>1, Least
  <2>3. Dispatch(path) = routers[first]
    BY <1>2 DEF Dispatch
  <2> QED
    BY <2>1, <2>2, <2>3, RoutersBacked DEF AllBacked
<1> QED
  BY <1>1, <1>2

LEMMA RouteOfBacked ==
  ASSUME req \in [Slots -> Requests], NEW s \in Slots
  PROVE  Backed(RouteOf(s))
<1>1. req[s].call \in Calls \cup {NoCall}
  BY DEF Requests
<1>2. RouteTo[req[s].call] = Dispatch(req[s].call.line)
  BY <1>1 DEF RouteTo
<1> QED
  BY <1>2, DispatchBacked DEF RouteOf

------------------------------------------------------------------------------
(* The directory *)

Leaving == {"leave", "unsubscribe", "revoke", "dropState", "dropSubscription"}

(* What an operation has in hand at each await. *)
OpInv(o) ==
  /\ o.pc \in {"state", "subscription", "info", "add", "get", "read", "write"} \cup Leaving =>
       o.channel \in Channels
  /\ o.pc \in {"name", "announce", "state", "subscription", "info", "add", "read", "write"}
            \cup Leaving => o.doc \in Docs
  /\ o.pc = "subscription" => o.channel \in dropped \/ Own(o) \in states
  /\ o.pc = "info" => o.channel \in dropped \/ Own(o) \in states \cap subs
OpsInv == \A s \in Slots : OpInv(op[s])

(* Who is about to write has been found to be the author, or an admin, of what is
   there now, if it was not added since. *)
WritesOwn ==
  \A s \in Slots :
    LET c == op[s].channel IN
    op[s].pc = "write" /\ Listed(c) /\ c \notin added[s] =>
      op[s].user \in {info[c].author} \cup Admins

DirectoryInv == DirectoryTypeOK /\ OpsInv /\ AuthorSubscribed /\ WritesOwn

LEMMA Constant ==
  /\ Missing \notin Docs
  /\ Idle \in Ops /\ NoAnswer \in Answers
  /\ \A s : OpInv(Idle)
  BY NoUserAssumption DEF Missing, Docs, Idle, Ops, PCs, NoAnswer, Answers, OpInv,
         Leaving

(* Slot s is set to o. *)
Set(s, o) == op' = [op EXCEPT ![s] = o]

LEMMA Moved ==
  ASSUME op \in [Slots -> Ops], NEW s \in Slots, NEW o \in Ops, Set(s, o)
  PROVE  /\ op' \in [Slots -> Ops]
         /\ op'[s] = o
         /\ \A t \in Slots : t # s => op'[t] = op[t]
  BY DEF Set

LEMMA MovedGoto ==
  ASSUME op \in [Slots -> Ops], NEW s \in Slots, NEW label \in PCs, Goto(s, label)
  PROVE  \E o \in Ops :
           /\ Set(s, o)
           /\ o.pc = label /\ o.user = op[s].user /\ o.channel = op[s].channel
           /\ o.doc = op[s].doc /\ o.deletes = op[s].deletes
<1> DEFINE o == [op[s] EXCEPT !.pc = label]
<1>1. /\ o \in Ops /\ o.pc = label /\ o.user = op[s].user /\ o.channel = op[s].channel
      /\ o.doc = op[s].doc /\ o.deletes = op[s].deletes
  BY DEF Ops
<1>2. Set(s, o)
  BY DEF Goto, Set
<1> HIDE DEF o
<1> QED
  BY <1>1, <1>2

LEMMA MovedTell ==
  ASSUME op \in [Slots -> Ops], NEW s \in Slots, NEW answer \in Answers, Tell(s, answer)
  PROVE  \E o \in Ops :
           /\ Set(s, o)
           /\ o.pc = "done" /\ o.answer = answer /\ o.user = op[s].user
           /\ o.channel = op[s].channel
<1> DEFINE o == [op[s] EXCEPT !.pc = "done", !.answer = answer]
<1>1. /\ o \in Ops /\ o.pc = "done" /\ o.answer = answer /\ o.user = op[s].user
      /\ o.channel = op[s].channel
  BY DEF Ops, PCs
<1>2. Set(s, o)
  BY DEF Tell, Set
<1> HIDE DEF o
<1> QED
  BY <1>1, <1>2

LEMMA MovedFinish ==
  ASSUME op \in [Slots -> Ops], NEW s \in Slots,
         NEW status \in {200, 201, 400, 401, 404, 409, 500}, Finish(s, status)
  PROVE  \E o \in Ops :
           /\ Set(s, o)
           /\ o.pc = "done" /\ o.answer.told = {} /\ o.answer.lists = {}
           /\ o.answer.status = status /\ o.user = op[s].user /\ o.channel = op[s].channel
<1> DEFINE a == [NoAnswer EXCEPT !.status = status]
<1>1. a \in Answers /\ a.told = {} /\ a.lists = {} /\ a.status = status
  BY DEF NoAnswer, Answers
<1>2. Tell(s, a)
  BY DEF Finish
<1> HIDE DEF a
<1> QED
  BY <1>1, <1>2, MovedTell

LEMMA MovedBegin ==
  ASSUME op \in [Slots -> Ops], NEW s \in Slots, NEW u \in Users \cup {NoUser},
         NEW label \in PCs, NEW q \in Ops, Begin(s, u, label, q)
  PROVE  \E o \in Ops :
           /\ Set(s, o)
           /\ o.pc = label /\ o.user = u /\ o.channel = q.channel /\ o.doc = q.doc
           /\ o.deletes = q.deletes /\ o.answer = q.answer
<1> DEFINE o == [q EXCEPT !.pc = label, !.user = u]
<1>1. /\ o \in Ops /\ o.pc = label /\ o.user = u /\ o.channel = q.channel /\ o.doc = q.doc
      /\ o.deletes = q.deletes /\ o.answer = q.answer
  BY DEF Ops
<1>2. Set(s, o)
  BY DEF Begin, Set
<1> HIDE DEF o
<1> QED
  BY <1>1, <1>2

(* What there is of an author's documents is not removed. *)
Remain(own) == (own \in states => own \in states') /\ (own \in subs => own \in subs')

(* A step of the operation in slot s: what else of the directory it may change. *)
LEMMA OneMoves ==
  ASSUME DirectoryInv, NEW s \in Slots, NEW o \in Ops, Set(s, o),
         announced' \in 0..MaxChannels,
         states' \subseteq Channels \X Users, subs' \subseteq Channels \X Users,
         dropped \subseteq dropped', dropped' \subseteq Channels,
         \A c \in Channels, u \in Users : c \in dropped' \/ Remain(<<c, u>>),
         info' \in [Channels -> Docs \cup {Missing}],
         \A c \in Channels :
           \/ info'[c] = info[c]
           \/ info'[c] = Missing
           \/ Listed(c) /\ info'[c].author = info[c].author
           \/ \A t \in Slots : c \in added'[t],
         \A c \in complete' : \/ c \in complete /\ info'[c] = info[c]
                              \/ c \in complete /\ info'[c].author = info[c].author
                              \/ <<c, info'[c].author>> \in states' \cap subs'
                              \/ c \in dropped',
         complete' \subseteq Channels,
         added' \in [Slots -> SUBSET Channels],
         \A t \in Slots : t # s => added[t] \subseteq added'[t],
         OpInv(o)',
         o.pc = "write" /\ o.channel \notin added'[s] =>
           o.user \in {info'[o.channel].author} \cup Admins
  PROVE  DirectoryInv'
<1>1. /\ op \in [Slots -> Ops] /\ AuthorSubscribed
      /\ \A t \in Slots : OpInv(op[t])
      /\ info \in [Channels -> Docs \cup {Missing}]
      /\ states \subseteq Channels \X Users /\ subs \subseteq Channels \X Users
  BY DEF DirectoryInv, DirectoryTypeOK, OpsInv
<1>2. /\ op' \in [Slots -> Ops] /\ op'[s] = o
      /\ \A t \in Slots : t # s => op'[t] = op[t]
  BY <1>1, Moved
<1>3. ASSUME NEW c \in complete', c \notin dropped'
      PROVE  <<c, info'[c].author>> \in states' \cap subs'
  <2>1. CASE c \in complete /\ info'[c].author = info[c].author
    <3>1. <<c, info[c].author>> \in states \cap subs
      BY <1>1, <1>3, <2>1 DEF AuthorSubscribed
    <3>2. PICK u \in Users : u = info[c].author
      BY <1>1, <3>1
    <3>3. Remain(<<c, u>>)
      BY <1>3, <3>2
    <3> QED
      BY <2>1, <3>1, <3>2, <3>3 DEF Remain
  <2> QED
    BY <1>3, <2>1
<1>4. DirectoryTypeOK'
  BY <1>2 DEF DirectoryTypeOK
<1>5. AuthorSubscribed'
  BY <1>3 DEF AuthorSubscribed
<1>6. ASSUME NEW t \in Slots
      PROVE  OpInv(op[t])'
  <2>1. CASE t = s
    BY <1>2, <2>1 DEF OpInv, Own
  <2>2. CASE t # s
    <3>1. op'[t] = op[t] /\ OpInv(op[t])
      BY <1>1, <1>2, <2>2
    <3>2. ASSUME op[t].channel \in Channels, op[t].doc \in Docs
          PROVE  op[t].channel \in dropped' \/ Remain(Own(op[t]))
      BY <3>2 DEF Own, Docs
    <3> QED
      BY <3>1, <3>2 DEF OpInv, Own, Remain
  <2> QED
    BY <2>1, <2>2
<1>7. ASSUME NEW t \in Slots, op'[t].pc = "write", Listed(op[t].channel)',
             op'[t].channel \notin added'[t]
      PROVE  op'[t].user \in {info'[op'[t].channel].author} \cup Admins
  <2>1. CASE t = s
    BY <1>2, <1>7, <2>1
  <2>2. CASE t # s
    <3>1. PICK c \in Channels : c = op[t].channel
      BY <1>1, <1>2, <1>7, <2>2 DEF OpInv
    <3>2. c \notin added'[t] /\ c \notin added[t] /\ op'[t] = op[t] /\ info'[c] # Missing
      BY <1>2, <1>7, <2>2, <3>1 DEF Listed
    <3>3. info'[c] = info[c] \/ (Listed(c) /\ info'[c].author = info[c].author)
      BY <3>2
    <3>4. Listed(c) /\ info'[c].author = info[c].author
      BY <3>2, <3>3 DEF Listed
    <3>5. op[t].user \in {info[c].author} \cup Admins
      BY <1>7, <3>1, <3>2, <3>4 DEF DirectoryInv, WritesOwn
    <3> QED
      BY <3>1, <3>2, <3>4, <3>5
  <2> QED
    BY <2>1, <2>2
<1>8. OpsInv' /\ WritesOwn'
  BY <1>6, <1>7 DEF OpsInv, WritesOwn
<1> QED
  BY <1>4, <1>5, <1>8 DEF DirectoryInv

(* A step that changes nothing but the operation. *)
LEMMA OnlyOp ==
  ASSUME DirectoryInv, NEW s \in Slots, NEW o \in Ops, Set(s, o),
         UNCHANGED <<announced, database, complete, added, dropped>>,
         OpInv(o), o.pc # "write"
  PROVE  DirectoryInv'
<1>1. /\ announced' = announced /\ states' = states /\ subs' = subs /\ info' = info
      /\ complete' = complete /\ added' = added /\ dropped' = dropped
  BY DEF database
<1>2. OpInv(o)'
  BY <1>1 DEF OpInv, Own, Leaving
<1>3. /\ complete \subseteq Channels /\ announced \in 0..MaxChannels
      /\ states \subseteq Channels \X Users /\ subs \subseteq Channels \X Users
      /\ dropped \subseteq Channels /\ complete \subseteq Channels
      /\ info \in [Channels -> Docs \cup {Missing}] /\ added \in [Slots -> SUBSET Channels]
  BY DEF DirectoryInv, DirectoryTypeOK
<1>4. \A c \in Channels, u \in Users : c \in dropped' \/ Remain(<<c, u>>)
  BY <1>1 DEF Remain
<1> QED
  BY <1>1, <1>2, <1>3, <1>4, OneMoves

LEMMA FinishKeeps ==
  ASSUME DirectoryInv, NEW s \in Slots,
         NEW status \in {200, 201, 400, 401, 404, 409, 500}, Finish(s, status),
         UNCHANGED <<announced, database, complete, added, dropped>>
  PROVE  DirectoryInv'
<1>1. op \in [Slots -> Ops]
  BY DEF DirectoryInv, DirectoryTypeOK
<1>2. PICK o \in Ops : Set(s, o) /\ o.pc = "done"
  BY <1>1, MovedFinish
<1> QED
  BY <1>2, OnlyOp DEF OpInv, Leaving

LEMMA CheckNameKeeps ==
  ASSUME DirectoryInv, NEW s \in Slots, CheckName(s)
  PROVE  DirectoryInv'
<1>1. /\ op \in [Slots -> Ops] /\ op[s].doc \in Docs
      /\ UNCHANGED <<announced, database, complete, added, dropped>>
  BY DEF CheckName, DirectoryInv, DirectoryTypeOK, OpsInv, OpInv
<1>2. CASE Finish(s, 409) \/ Finish(s, 400)
  BY <1>1, <1>2, FinishKeeps
<1>3. CASE Goto(s, "announce")
  <2>1. PICK o \in Ops : Set(s, o) /\ o.pc = "announce" /\ o.doc = op[s].doc
    BY <1>1, <1>3, MovedGoto DEF PCs
  <2> QED
    BY <1>1, <2>1, OnlyOp DEF OpInv, Leaving
<1> QED
  BY <1>2, <1>3 DEF CheckName

LEMMA AnnounceKeeps ==
  ASSUME DirectoryInv, NEW s \in Slots, Announce(s)
  PROVE  DirectoryInv'
<1>1. /\ op \in [Slots -> Ops] /\ op[s].doc \in Docs /\ announced \in 0..MaxChannels
      /\ states \subseteq Channels \X Users /\ subs \subseteq Channels \X Users
      /\ dropped \subseteq Channels /\ complete \subseteq Channels
      /\ info \in [Channels -> Docs \cup {Missing}] /\ added \in [Slots -> SUBSET Channels]
  BY DEF Announce, DirectoryInv, DirectoryTypeOK, OpsInv, OpInv
<1>2. PICK c \in Channels : c = announced + 1 /\ c \in 0..MaxChannels
  BY <1>1, MaxChannelsAssumption DEF Announce, Channels
<1>3. PICK o \in Ops : /\ o = [op[s] EXCEPT !.pc = "state", !.channel = c]
                       /\ o.pc = "state" /\ o.channel = c /\ o.doc = op[s].doc
  <2> DEFINE q == [op[s] EXCEPT !.pc = "state", !.channel = c]
  <2>1. q \in Ops /\ q.pc = "state" /\ q.channel = c /\ q.doc = op[s].doc
    BY <1>1 DEF Ops, PCs
  <2> QED
    BY <2>1
<1>4. Set(s, o)
  BY <1>2, <1>3 DEF Announce, Set
<1>5. /\ states' = states /\ subs' = subs /\ info' = info /\ complete' = complete
      /\ added' = added /\ announced' = c /\ dropped' = dropped
  BY <1>2 DEF Announce, database
<1>6. OpInv(o)'
  BY <1>1, <1>2, <1>3 DEF OpInv, Leaving
<1>7. /\ states' \subseteq Channels \X Users /\ subs' \subseteq Channels \X Users
      /\ dropped' \subseteq Channels /\ complete' \subseteq Channels
      /\ info' \in [Channels -> Docs \cup {Missing}] /\ added' \in [Slots -> SUBSET Channels]
      /\ \A d \in Channels, u \in Users : Remain(<<d, u>>)
  BY <1>1, <1>5 DEF Remain
<1> QED
  BY <1>2, <1>3, <1>4, <1>5, <1>6, <1>7, OneMoves

LEMMA AddStateKeeps ==
  ASSUME DirectoryInv, NEW s \in Slots, AddState(s) \/ AddSubscription(s)
  PROVE  DirectoryInv'
<1>1. /\ op \in [Slots -> Ops] /\ op[s].doc \in Docs /\ announced \in 0..MaxChannels
      /\ states \subseteq Channels \X Users /\ subs \subseteq Channels \X Users
      /\ dropped \subseteq Channels /\ complete \subseteq Channels
      /\ info \in [Channels -> Docs \cup {Missing}] /\ added \in [Slots -> SUBSET Channels]
      /\ op[s].channel \in Channels
      /\ op[s].pc = "subscription" => op[s].channel \in dropped \/ Own(op[s]) \in states
  BY DEF AddState, AddSubscription, DirectoryInv, DirectoryTypeOK, OpsInv, OpInv
<1>2. /\ announced' = announced /\ info' = info /\ complete' = complete /\ added' = added
      /\ dropped' = dropped
  BY DEF AddState, AddSubscription
<1> PICK own \in Channels \X Users : own = Own(op[s])
  BY <1>1 DEF Own, Docs
<1>3. CASE AddState(s)
  <2>1. PICK o \in Ops : /\ Set(s, o) /\ o.pc = "subscription" /\ o.doc = op[s].doc
                         /\ o.channel = op[s].channel
    BY <1>1, <1>3, MovedGoto DEF AddState, PCs
  <2>2. states' = states \cup {own} /\ subs' = subs
    BY <1>3, <2>1 DEF AddState
  <2>3. OpInv(o)'
    BY <1>1, <2>1, <2>2 DEF OpInv, Own, Leaving
  <2>4. \A c \in Channels, u \in Users : Remain(<<c, u>>)
    BY <2>2 DEF Remain
  <2> QED
    BY <1>1, <1>2, <2>1, <2>2, <2>3, <2>4, OneMoves
<1>4. CASE AddSubscription(s)
  <2>1. PICK o \in Ops : /\ Set(s, o) /\ o.pc = "info" /\ o.doc = op[s].doc
                         /\ o.channel = op[s].channel
    BY <1>1, <1>4, MovedGoto DEF AddSubscription, PCs
  <2>2. /\ subs' = subs \cup {own} /\ states' = states
        /\ o.channel \in dropped \/ own \in states
    BY <1>1, <1>4, <2>1 DEF AddSubscription
  <2>3. OpInv(o)'
    BY <1>1, <1>2, <2>1, <2>2 DEF OpInv, Own, Leaving
  <2>4. \A c \in Channels, u \in Users : Remain(<<c, u>>)
    BY <2>2 DEF Remain
  <2> QED
    BY <1>1, <1>2, <2>1, <2>2, <2>3, <2>4, OneMoves
<1> QED
  BY <1>3, <1>4

(* A document that is listed: by create, which may say that it is complete, or by
   addChannelInfo. *)
LEMMA ListKeeps ==
  ASSUME DirectoryInv, NEW s \in Slots, NEW c \in Channels, NEW doc \in Docs,
         Finish(s, 201), List(c, doc), ~Listed(c),
         UNCHANGED <<announced, states, subs, dropped>>,
         complete' = complete \/ complete' = complete \cup {c},
         complete' = complete \/ c \in dropped \/ <<c, doc.author>> \in states \cap subs
  PROVE  DirectoryInv'
<1>1. /\ op \in [Slots -> Ops] /\ announced \in 0..MaxChannels
      /\ states \subseteq Channels \X Users /\ subs \subseteq Channels \X Users
      /\ dropped \subseteq Channels /\ complete \subseteq Channels
      /\ info \in [Channels -> Docs \cup {Missing}] /\ added \in [Slots -> SUBSET Channels]
  BY DEF DirectoryInv, DirectoryTypeOK
<1>2. PICK o \in Ops : Set(s, o) /\ o.pc = "done"
  BY <1>1, MovedFinish
<1>3. /\ info' \in [Channels -> Docs \cup {Missing}]
      /\ \A d \in Channels : d # c => info'[d] = info[d]
      /\ added' \in [Slots -> SUBSET Channels]
      /\ \A t \in Slots : added'[t] = added[t] \cup {c}
      /\ info'[c] = doc
  BY <1>1 DEF List
<1>4. OpInv(o)'
  BY <1>2 DEF OpInv, Leaving
<1>5. \A d \in Channels : info'[d] = info[d] \/ \A t \in Slots : d \in added'[t]
  BY <1>3
<1>6. \A d \in Channels, u \in Users : Remain(<<d, u>>)
  BY DEF Remain
<1>7. c \in complete => c \in dropped
  <2>1. ASSUME c \in complete, c \notin dropped
        PROVE  FALSE
    <3>1. <<c, NoUser>> \in states
      BY <2>1 DEF DirectoryInv, AuthorSubscribed, Listed, Missing
    <3> QED
      BY <1>1, <3>1, NoUserAssumption
  <2> QED
    BY <2>1
<1>8. /\ complete' \subseteq Channels
      /\ \A d \in complete' : \/ d \in complete /\ info'[d] = info[d]
                              \/ <<d, info'[d].author>> \in states' \cap subs'
                              \/ d \in dropped'
  BY <1>1, <1>3, <1>7
<1> QED
  BY <1>1, <1>2, <1>3, <1>4, <1>5, <1>6, <1>8, OneMoves

LEMMA AddInfoKeeps ==
  ASSUME DirectoryInv, NEW s \in Slots, AddInfo(s) \/ Add(s)
  PROVE  DirectoryInv'
<1>1. /\ op[s].channel \in Channels /\ op[s].doc \in Docs
      /\ op[s].pc = "info" =>
           op[s].channel \in dropped \/ <<op[s].channel, op[s].doc.author>> \in states \cap subs
  BY DEF AddInfo, Add, DirectoryInv, OpsInv, OpInv, Own
<1>2. CASE Finish(s, 500) /\ UNCHANGED <<info, complete, added>>
  <2>1. UNCHANGED <<announced, states, subs, dropped>>
    BY DEF AddInfo, Add
  <2> QED
    BY <1>2, <2>1, FinishKeeps DEF database
<1>3. CASE /\ Finish(s, 201) /\ List(op[s].channel, op[s].doc)
           /\ ~Refused(op[s].channel, op[s].doc)
  <2>1. PICK c \in Channels, doc \in Docs : c = op[s].channel /\ doc = op[s].doc
    BY <1>1
  <2>2. /\ UNCHANGED <<announced, states, subs, dropped>> /\ ~Listed(c)
        /\ complete' = complete \/ complete' = complete \cup {c}
        /\ complete' = complete \/ c \in dropped \/ <<c, doc.author>> \in states \cap subs
    <3>1. CASE AddInfo(s)
      <4>1. op[s].pc = "info" /\ UNCHANGED <<announced, states, subs, dropped>>
        BY <3>1 DEF AddInfo
      <4>2. complete' = complete \cup {op[s].channel} \/ complete' = complete
        BY <3>1 DEF AddInfo
      <4> QED
        BY <1>1, <1>3, <2>1, <4>1, <4>2 DEF Refused
    <3>2. CASE Add(s)
      BY <1>3, <2>1, <3>2 DEF Add, Refused
    <3> QED
      BY <3>1, <3>2
  <2> QED
    BY <1>3, <2>1, <2>2, ListKeeps
<1>4. \/ Finish(s, 500) /\ UNCHANGED <<info, complete, added>>
      \/ /\ Finish(s, 201) /\ List(op[s].channel, op[s].doc)
         /\ ~Refused(op[s].channel, op[s].doc)
  BY DEF AddInfo, Add
<1> QED
  BY <1>2, <1>3, <1>4

LEMMA ReadsKeep ==
  ASSUME DirectoryInv, NEW s \in Slots, NEW answer \in Answers, Tell(s, answer),
         UNCHANGED <<announced, database, complete, added, dropped>>
  PROVE  DirectoryInv'
<1>1. op \in [Slots -> Ops]
  BY DEF DirectoryInv, DirectoryTypeOK
<1>2. PICK o \in Ops : Set(s, o) /\ o.pc = "done"
  BY <1>1, MovedTell
<1> QED
  BY <1>2, OnlyOp DEF OpInv, Leaving

LEMMA InfoForTyped ==
  ASSUME NEW c \in Channels, NEW u
  PROVE  ChannelInfoFor(c, u) \in Answers
<1> DEFINE told == {d \in {c} : Sees(info[d], u)}
           lists == {d \in {c} : Sees(info[d], u) /\ SeesList(info[d], u)}
<1>1. told \in SUBSET Channels /\ lists \in SUBSET Channels
  OBVIOUS
<1>2. ChannelInfoFor(c, u) =
        IF ~Listed(c) THEN [NoAnswer EXCEPT !.status = IF isAuthorizedAdmin(u) THEN 200 ELSE 500]
        ELSE [status |-> 200, told |-> told, lists |-> lists]
  BY DEF ChannelInfoFor
<1> HIDE DEF told, lists
<1> QED
  BY <1>1, <1>2 DEF Answers, NoAnswer

LEMMA GetKeeps ==
  ASSUME DirectoryInv, NEW s \in Slots, Get(s)
  PROVE  DirectoryInv'
<1>1. op[s].channel \in Channels
  BY DEF Get, DirectoryInv, OpsInv, OpInv
<1>2. ChannelInfoFor(op[s].channel, op[s].user) \in Answers
  BY <1>1, InfoForTyped
<1>3. PICK answer \in Answers : answer = ChannelInfoFor(op[s].channel, op[s].user)
  BY <1>2
<1> QED
  BY <1>3, ReadsKeep DEF Get

(* What a search finds, and whose lists of it. *)
LEMMA Searched ==
  ASSUME NEW s \in Slots, Search(s)
  PROVE  \E answer \in Answers :
           /\ Tell(s, answer)
           /\ \A c \in answer.told : Sees(info[c], op[s].user)
           /\ \A c \in answer.lists :
                isAuthorizedAdmin(op[s].user) \/ op[s].user = info[c].author
<1>1. PICK found \in SUBSET {c \in Channels : Listed(c)} :
        LET seen == {c \in found : Sees(info[c], op[s].user)} IN
        Tell(s, [status |-> 200, told |-> seen,
                 lists |-> {c \in seen : \/ isAuthorizedAdmin(op[s].user)
                                         \/ op[s].user = info[c].author}])
  BY DEF Search
<1> DEFINE seen == {c \in found : Sees(info[c], op[s].user)}
           lists == {c \in seen : isAuthorizedAdmin(op[s].user) \/ op[s].user = info[c].author}
           answer == [status |-> 200, told |-> seen, lists |-> lists]
<1>2. /\ seen \in SUBSET Channels /\ lists \in SUBSET Channels
      /\ \A c \in seen : Sees(info[c], op[s].user)
      /\ \A c \in lists : isAuthorizedAdmin(op[s].user) \/ op[s].user = info[c].author
  OBVIOUS
<1>3. Tell(s, answer)
  BY <1>1
<1> HIDE DEF seen, lists
<1>4. answer \in Answers /\ answer.told = seen /\ answer.lists = lists
  BY <1>2 DEF Answers
<1> HIDE DEF answer
<1> QED
  BY <1>2, <1>3, <1>4

LEMMA SearchKeeps ==
  ASSUME DirectoryInv, NEW s \in Slots, Search(s)
  PROVE  DirectoryInv'
<1>1. PICK answer \in Answers : Tell(s, answer)
  BY Searched
<1> QED
  BY <1>1, ReadsKeep DEF Search

LEMMA ReadForChangeKeeps ==
  ASSUME DirectoryInv, NEW s \in Slots, ReadForChange(s)
  PROVE  DirectoryInv'
<1>1. /\ op \in [Slots -> Ops] /\ announced \in 0..MaxChannels
      /\ states \subseteq Channels \X Users /\ subs \subseteq Channels \X Users
      /\ dropped \subseteq Channels /\ complete \subseteq Channels
      /\ info \in [Channels -> Docs \cup {Missing}] /\ added \in [Slots -> SUBSET Channels]
      /\ op[s].channel \in Channels /\ op[s].doc \in Docs
  BY DEF ReadForChange, DirectoryInv, DirectoryTypeOK, OpsInv, OpInv
<1>2. UNCHANGED <<announced, database, complete, added, dropped>>
  BY DEF ReadForChange
<1>3. CASE Finish(s, 500)
  BY <1>2, <1>3, FinishKeeps
<1>4. CASE isAuthorized(op[s].user, info[op[s].channel].author) /\ Goto(s, "write")
  <2>1. PICK o \in Ops : /\ Set(s, o) /\ o.pc = "write" /\ o.user = op[s].user
                         /\ o.channel = op[s].channel /\ o.doc = op[s].doc
    BY <1>1, <1>4, MovedGoto DEF PCs
  <2>2. o.user \in {info[o.channel].author} \cup Admins
    BY <1>4, <2>1 DEF isAuthorized, isAuthorizedAdmin
  <2>3. /\ announced' = announced /\ states' = states /\ subs' = subs /\ info' = info
        /\ complete' = complete /\ added' = added /\ dropped' = dropped
    BY <1>2 DEF database
  <2>4. OpInv(o)' /\ \A c \in Channels, u \in Users : Remain(<<c, u>>)
    BY <1>1, <2>1, <2>3 DEF OpInv, Leaving, Remain
  <2> QED
    BY <1>1, <2>1, <2>2, <2>3, <2>4, OneMoves
<1> QED
  BY <1>3, <1>4 DEF ReadForChange

(* PUT leaves the author as she is. *)
LEMMA Written ==
  ASSUME info \in [Channels -> Docs \cup {Missing}], NEW s \in Slots, NEW c \in Channels,
         c = op[s].channel, op[s].doc \in Docs, WriteChange(s)
  PROVE  /\ info' \in [Channels -> Docs \cup {Missing}]
         /\ \A d \in Channels : d # c => info'[d] = info[d]
         /\ \/ info'[c] = info[c]
            \/ info'[c] = Missing
            \/ Listed(c) /\ info'[c].author = info[c].author
         /\ \E status \in {200, 404} : Finish(s, status)
<1>1. CASE op[s].deletes
  BY <1>1 DEF WriteChange
<1>2. CASE ~op[s].deletes /\ Listed(c)
  <2> DEFINE doc == [info[c] EXCEPT !.hidden = op[s].doc.hidden, !.visible = op[s].doc.visible]
  <2>1. info[c] \in Docs
    BY <1>2 DEF Listed
  <2>2. doc \in Docs /\ doc.author = info[c].author
    BY <2>1 DEF Docs
  <2>3. info' = [info EXCEPT ![c] = doc] /\ Finish(s, 200)
    BY <1>2 DEF WriteChange
  <2> HIDE DEF doc
  <2> QED
    BY <1>2, <2>2, <2>3
<1>3. CASE ~op[s].deletes /\ ~Listed(c)
  BY <1>3 DEF WriteChange
<1> QED
  BY <1>1, <1>2, <1>3

LEMMA WriteChangeKeeps ==
  ASSUME DirectoryInv, NEW s \in Slots, WriteChange(s)
  PROVE  DirectoryInv'
<1>1. /\ op \in [Slots -> Ops] /\ announced \in 0..MaxChannels
      /\ states \subseteq Channels \X Users /\ subs \subseteq Channels \X Users
      /\ dropped \subseteq Channels /\ complete \subseteq Channels
      /\ info \in [Channels -> Docs \cup {Missing}] /\ added \in [Slots -> SUBSET Channels]
      /\ op[s].channel \in Channels /\ op[s].doc \in Docs
  BY DEF WriteChange, DirectoryInv, DirectoryTypeOK, OpsInv, OpInv
<1>2. PICK c \in Channels : c = op[s].channel
  BY <1>1
<1>3. /\ info' \in [Channels -> Docs \cup {Missing}]
      /\ \A d \in Channels : \/ info'[d] = info[d]
                             \/ info'[d] = Missing
                             \/ Listed(d) /\ info'[d].author = info[d].author
      /\ \E status \in {200, 404} : Finish(s, status)
  BY <1>1, <1>2, Written
<1>4. PICK o \in Ops : Set(s, o) /\ o.pc = "done"
  BY <1>1, <1>3, MovedFinish
<1>5. /\ announced' = announced /\ states' = states /\ subs' = subs /\ added' = added
      /\ complete' \subseteq complete /\ dropped' = dropped
  BY DEF WriteChange
<1>6. OpInv(o)' /\ \A d \in Channels, u \in Users : Remain(<<d, u>>)
  BY <1>4, <1>5 DEF OpInv, Leaving, Remain
<1>7. \A d \in complete' : /\ d \in complete
                            /\ (info'[d] = info[d] \/ info'[d].author = info[d].author)
  <2>1. CASE op[s].deletes
    BY <1>1, <1>2, <2>1 DEF WriteChange
  <2>2. CASE ~op[s].deletes
    <3>1. info'[c] # Missing \/ info'[c] = info[c]
      <4>1. CASE Listed(c)
        <5> DEFINE doc == [info[c] EXCEPT !.hidden = op[s].doc.hidden,
                                         !.visible = op[s].doc.visible]
        <5>1. info[c] \in Docs
          BY <1>1, <4>1 DEF Listed
        <5>2. doc \in Docs /\ info' = [info EXCEPT ![c] = doc]
          BY <1>1, <1>2, <2>2, <4>1, <5>1 DEF WriteChange, Docs
        <5> HIDE DEF doc
        <5> QED
          BY <1>1, <5>2, Constant
      <4>2. CASE ~Listed(c)
        BY <1>2, <2>2, <4>2 DEF WriteChange
      <4> QED
        BY <4>1, <4>2
    <3>2. /\ \A d \in Channels : d # c => info'[d] = info[d]
          /\ info'[c] = info[c] \/ info'[c] = Missing \/ info'[c].author = info[c].author
      BY <1>1, <1>2, Written
    <3> QED
      BY <1>1, <1>5, <3>1, <3>2
  <2> QED
    BY <2>1, <2>2
<1> QED
  BY <1>1, <1>3, <1>4, <1>5, <1>6, <1>7, OneMoves

(* What a request to remove an author's documents writes. *)
LEMMA DropsKeep ==
  ASSUME DirectoryInv, NEW s \in Slots, NEW o \in Ops, Set(s, o),
         OpInv(o), o.pc \in {"dropSubscription", "done"},
         states' \subseteq states, subs' \subseteq subs,
         \A own \in states : own \in states' \/ own[1] \in dropped',
         \A own \in subs : own \in subs' \/ own[1] \in dropped',
         dropped \subseteq dropped', dropped' \subseteq Channels,
         UNCHANGED <<announced, info, complete, added>>
  PROVE  DirectoryInv'
<1>1. /\ announced \in 0..MaxChannels
      /\ states \subseteq Channels \X Users /\ subs \subseteq Channels \X Users
      /\ complete \subseteq Channels
      /\ info \in [Channels -> Docs \cup {Missing}] /\ added \in [Slots -> SUBSET Channels]
  BY DEF DirectoryInv, DirectoryTypeOK
<1>2. \A c \in Channels, u \in Users : c \in dropped' \/ Remain(<<c, u>>)
  BY DEF Remain
<1>3. OpInv(o)'
  BY DEF OpInv, Leaving
<1> QED
  BY <1>1, <1>2, <1>3, OneMoves

LEMMA LeaveKeeps ==
  ASSUME DirectoryInv, NEW s \in Slots, leave(s)
  PROVE  DirectoryInv'
<1>1. /\ op \in [Slots -> Ops] /\ op[s].channel \in Channels /\ op[s].doc \in Docs
      /\ dropped \subseteq Channels
  BY DEF leave, ReadForUnsubscribe, Unsubscribe, ReadForRevoke, DropState, DropSubscription,
         Leaving, DirectoryInv, DirectoryTypeOK, OpsInv, OpInv
<1>2. ASSUME NEW status \in {200, 201, 400, 401, 404, 409, 500}, Finish(s, status),
             UNCHANGED <<announced, database, complete, added, dropped>>
      PROVE  DirectoryInv'
  BY <1>2, FinishKeeps
<1>3. ASSUME NEW label \in Leaving, Goto(s, label),
             UNCHANGED <<announced, database, complete, added, dropped>>
      PROVE  DirectoryInv'
  <2>1. PICK o \in Ops : /\ Set(s, o) /\ o.pc = label /\ o.channel = op[s].channel
                         /\ o.doc = op[s].doc
    BY <1>1, <1>3, MovedGoto DEF Leaving, PCs
  <2>2. OpInv(o) /\ o.pc # "write"
    BY <1>1, <2>1 DEF OpInv, Leaving
  <2> QED
    BY <1>3, <2>1, <2>2, OnlyOp
<1>4. CASE ReadForUnsubscribe(s)
  BY <1>2, <1>3, <1>4 DEF ReadForUnsubscribe, Leaving
<1>5. CASE ReadForRevoke(s)
  BY <1>2, <1>3, <1>5 DEF ReadForRevoke, Leaving
<1> PICK u \in Users : u = op[s].doc.author
  BY <1>1 DEF Docs
<1> PICK own \in Channels \X Users : own = <<op[s].channel, u>>
  BY <1>1
<1> own = Own(op[s]) /\ own[1] = op[s].channel
  BY DEF Own
<1>6. CASE Unsubscribe(s)
  <2>1. CASE Finish(s, 500) /\ UNCHANGED <<subs, dropped>>
    BY <1>2, <1>6, <2>1 DEF Unsubscribe, database
  <2>2. CASE subs' = subs \ {own} /\ dropped' = dropped \cup {own[1]} /\ Finish(s, 200)
    <3>1. PICK o \in Ops : Set(s, o) /\ o.pc = "done"
      BY <1>1, <2>2, MovedFinish
    <3>2. OpInv(o)
      BY <3>1 DEF OpInv, Leaving
    <3>3. UNCHANGED <<announced, states, info, complete, added>>
      BY <1>6 DEF Unsubscribe
    <3> QED
      BY <1>1, <2>2, <3>1, <3>2, <3>3, DropsKeep
  <2> QED
    BY <1>6, <2>1, <2>2 DEF Unsubscribe, Drop
<1>7. CASE DropState(s)
  <2>1. PICK o \in Ops : /\ Set(s, o) /\ o.pc = "dropSubscription"
                         /\ o.channel = op[s].channel /\ o.doc = op[s].doc
    BY <1>1, <1>7, MovedGoto DEF DropState, PCs
  <2>2. OpInv(o)
    BY <1>1, <2>1 DEF OpInv, Leaving
  <2>3. /\ states' = states \ {own} /\ dropped' = dropped \cup {own[1]}
        /\ UNCHANGED <<announced, subs, info, complete, added>>
    BY <1>7 DEF DropState, Drop
  <2> QED
    BY <1>1, <2>1, <2>2, <2>3, DropsKeep
<1>8. CASE DropSubscription(s)
  <2>1. PICK o \in Ops : Set(s, o) /\ o.pc = "done"
    BY <1>1, <1>8, MovedFinish DEF DropSubscription
  <2>2. OpInv(o)
    BY <2>1 DEF OpInv, Leaving
  <2>3. /\ subs' = subs \ {own} /\ dropped' = dropped \cup {own[1]}
        /\ UNCHANGED <<announced, states, info, complete, added>>
    BY <1>8 DEF DropSubscription, Drop
  <2> QED
    BY <1>1, <2>1, <2>2, <2>3, DropsKeep
<1> QED
  BY <1>4, <1>5, <1>6, <1>7, <1>8 DEF leave

LEMMA DirectoryStepKeeps ==
  ASSUME DirectoryInv, NEW s \in Slots, DirectoryStep(s) \/ DirectoryFail(s)
  PROVE  DirectoryInv'
<1>1. CASE DirectoryStep(s)
  BY <1>1, CheckNameKeeps, AnnounceKeeps, AddStateKeeps, AddInfoKeeps, GetKeeps, SearchKeeps,
     ReadForChangeKeeps, WriteChangeKeeps, LeaveKeeps DEF DirectoryStep, create, change
<1>2. CASE DirectoryFail(s)
  BY <1>2, FinishKeeps DEF DirectoryFail
<1> QED
  BY <1>1, <1>2

(* What an operation begins with. *)
LEMMA BeginKeeps ==
  ASSUME DirectoryInv, NEW s \in Slots, NEW u \in Users \cup {NoUser},
         NEW label \in {"name", "search", "get", "add", "read", "leave", "revoke"}, NEW q \in Ops,
         label \in {"get", "add", "read", "leave", "revoke"} => q.channel \in Channels,
         label \in {"name", "add", "read", "leave", "revoke"} => q.doc \in Docs,
         Begin(s, u, label, q)
  PROVE  DirectoryInv'
<1>1. /\ op \in [Slots -> Ops] /\ announced \in 0..MaxChannels
      /\ states \subseteq Channels \X Users /\ subs \subseteq Channels \X Users
      /\ dropped \subseteq Channels /\ complete \subseteq Channels
      /\ info \in [Channels -> Docs \cup {Missing}] /\ added \in [Slots -> SUBSET Channels]
  BY DEF DirectoryInv, DirectoryTypeOK
<1> label \in PCs
  BY DEF PCs
<1>2. PICK o \in Ops : Set(s, o) /\ o.pc = label /\ o.channel = q.channel /\ o.doc = q.doc
  BY <1>1, MovedBegin
<1>3. /\ announced' = announced /\ states' = states /\ subs' = subs /\ info' = info
      /\ complete' = complete /\ dropped' = dropped
      /\ added' \in [Slots -> SUBSET Channels]
      /\ \A t \in Slots : t # s => added'[t] = added[t]
  BY <1>1 DEF Begin, database
<1>4. OpInv(o)' /\ \A c \in Channels, v \in Users : Remain(<<c, v>>)
  BY <1>2, <1>3 DEF OpInv, Leaving, Remain
<1> QED
  BY <1>1, <1>2, <1>3, <1>4, OneMoves

LEMMA IdleFields ==
  /\ Idle.pc = "idle" /\ Idle.user = NoUser /\ Idle.channel = 0 /\ Idle.doc = Missing
  /\ Idle.deletes = FALSE /\ Idle.answer = NoAnswer
  /\ NoAnswer.status = 0 /\ NoAnswer.told = {} /\ NoAnswer.lists = {}
  BY DEF Idle, NoAnswer

LEMMA AnnouncedChannels ==
  ASSUME announced \in 0..MaxChannels
  PROVE  1..announced \subseteq Channels
  BY MaxChannelsAssumption DEF Channels

(* Which await an operation begins at. *)
LEMMA Starts ==
  ASSUME announced \in 0..MaxChannels, subs \subseteq Channels \X Users,
         NEW s \in Slots, NEW u
  PROVE  /\ StartCreate(s, u) =>
              \E q \in Ops : q.doc \in Docs /\ Begin(s, u, "name", q)
         /\ StartSearch(s, u) => \E q \in Ops : Begin(s, u, "search", q)
         /\ StartGet(s, u) =>
              \E q \in Ops : q.channel \in Channels /\ Begin(s, u, "get", q)
         /\ StartAdd(s, u) =>
              \E q \in Ops : q.channel \in Channels /\ q.doc \in Docs /\ Begin(s, u, "add", q)
         /\ StartUpdate(s, u) \/ StartDelete(s, u) =>
              \E q \in Ops : q.channel \in Channels /\ q.doc \in Docs /\ Begin(s, u, "read", q)
         /\ StartUnsubscribe(s, u) =>
              \E q \in Ops : q.channel \in Channels /\ q.doc \in Docs /\ Begin(s, u, "leave", q)
         /\ StartRevoke(s, u) =>
              \E q \in Ops : q.channel \in Channels /\ q.doc \in Docs /\ Begin(s, u, "revoke", q)
<1>1. ASSUME StartCreate(s, u)
      PROVE  \E q \in Ops : q.doc \in Docs /\ Begin(s, u, "name", q)
  <2>1. PICK doc \in Docs : Begin(s, u, "name", [Idle EXCEPT !.doc = doc])
    BY <1>1 DEF StartCreate
  <2> DEFINE q == [Idle EXCEPT !.doc = doc]
  <2>2. q \in Ops /\ q.doc = doc
    BY DEF Idle, Ops, PCs, NoAnswer, Answers
  <2>3. Begin(s, u, "name", q)
    BY <2>1
  <2> HIDE DEF q
  <2> QED
    BY <2>2, <2>3
<1>2. ASSUME StartSearch(s, u)
      PROVE  \E q \in Ops : Begin(s, u, "search", q)
  BY <1>2, Constant DEF StartSearch
<1>3. ASSUME StartGet(s, u)
      PROVE  \E q \in Ops : q.channel \in Channels /\ Begin(s, u, "get", q)
  <2>1. PICK c \in Channels : Begin(s, u, "get", [Idle EXCEPT !.channel = c])
    BY <1>3, AnnouncedChannels DEF StartGet
  <2> DEFINE q == [Idle EXCEPT !.channel = c]
  <2>2. q \in Ops /\ q.channel = c
    BY DEF Idle, Ops, PCs, NoAnswer, Answers
  <2>3. Begin(s, u, "get", q)
    BY <2>1
  <2> HIDE DEF q
  <2> QED
    BY <2>2, <2>3
<1>4. ASSUME StartAdd(s, u)
      PROVE  \E q \in Ops : q.channel \in Channels /\ q.doc \in Docs /\ Begin(s, u, "add", q)
  <2>1. PICK c \in Channels, doc \in Docs :
          Begin(s, u, "add", [Idle EXCEPT !.channel = c, !.doc = doc])
    BY <1>4, AnnouncedChannels DEF StartAdd
  <2> DEFINE q == [Idle EXCEPT !.channel = c, !.doc = doc]
  <2>2. q \in Ops /\ q.channel = c /\ q.doc = doc
    BY DEF Idle, Ops, PCs, NoAnswer, Answers
  <2>3. Begin(s, u, "add", q)
    BY <2>1
  <2> HIDE DEF q
  <2> QED
    BY <2>2, <2>3
<1>5. ASSUME StartUpdate(s, u) \/ StartDelete(s, u)
      PROVE  \E q \in Ops : q.channel \in Channels /\ q.doc \in Docs /\ Begin(s, u, "read", q)
  <2>1. PICK c \in Channels, doc \in Docs, deletes \in BOOLEAN :
          Begin(s, u, "read", [Idle EXCEPT !.channel = c, !.doc = doc, !.deletes = deletes])
    BY <1>5, AnnouncedChannels DEF StartUpdate, StartDelete, StartChange
  <2> DEFINE q == [Idle EXCEPT !.channel = c, !.doc = doc, !.deletes = deletes]
  <2>2. q \in Ops /\ q.channel = c /\ q.doc = doc
    <3>1. q.channel = c /\ q.doc = doc
      BY DEF Idle
    <3>2. [Idle EXCEPT !.channel = c, !.doc = doc] \in Ops
      BY DEF Idle, Ops, PCs, NoAnswer, Answers
    <3>3. q = [[Idle EXCEPT !.channel = c, !.doc = doc] EXCEPT !.deletes = deletes]
      BY DEF Idle
    <3> QED
      BY <3>1, <3>2, <3>3 DEF Ops
  <2>3. Begin(s, u, "read", q)
    BY <2>1
  <2> HIDE DEF q
  <2> QED
    BY <2>2, <2>3
<1>6. ASSUME NEW label, NEW own \in subs, StartOwn(s, u, label, own)
      PROVE  \E q \in Ops : q.channel \in Channels /\ q.doc \in Docs /\ Begin(s, u, label, q)
  <2>1. PICK c \in Channels, w \in Users : own[1] = c /\ own[2] = w
    OBVIOUS
  <2> DEFINE doc == [Missing EXCEPT !.author = w]
             q == [Idle EXCEPT !.channel = c, !.doc = doc]
  <2>2. doc \in Docs
    BY DEF Missing, Docs
  <2>3. Begin(s, u, label, q)
    BY <1>6, <2>1 DEF StartOwn
  <2> HIDE DEF doc
  <2>4. q \in Ops /\ q.channel = c /\ q.doc = doc
    BY <2>2 DEF Idle, Ops, PCs, NoAnswer, Answers
  <2> HIDE DEF q
  <2> QED
    BY <2>2, <2>3, <2>4
<1> QED
  BY <1>1, <1>2, <1>3, <1>4, <1>5, <1>6 DEF StartUnsubscribe, StartRevoke

(* What is not done any more leaves what is stored as it is. *)
LEMMA DropKeeps ==
  ASSUME DirectoryInv, UNCHANGED <<announced, database, complete, dropped>>,
         op' \in [Slots -> Ops], added' \in [Slots -> SUBSET Channels],
         \A t \in Slots : op'[t] = Idle \/ (op'[t] = op[t] /\ added'[t] = added[t])
  PROVE  DirectoryInv'
<1>1. /\ announced' = announced /\ states' = states /\ subs' = subs /\ info' = info
      /\ complete' = complete /\ dropped' = dropped
  BY DEF database
<1>2. DirectoryTypeOK' /\ AuthorSubscribed'
  BY <1>1 DEF DirectoryInv, DirectoryTypeOK, AuthorSubscribed
<1>3. OpsInv'
  BY <1>1, IdleFields DEF DirectoryInv, OpsInv, OpInv, Own, Leaving
<1>4. WritesOwn'
  BY <1>1, IdleFields DEF DirectoryInv, WritesOwn, Listed
<1> QED
  BY <1>2, <1>3, <1>4 DEF DirectoryInv

------------------------------------------------------------------------------
(* Requests *)

(* What the middlewares have made sure of, when a request is past them. *)
Passed(r) ==
  LET chain == RouteTo[r.call].chain IN
  /\ \A i \in DOMAIN chain : Result(r, chain[i]) = next
  /\ "auth" \in Range(chain) => r.user \in Users
ReqInv(r) ==
  r.by = "pending" =>
    /\ r.sender \in Users
    /\ r.at \in {"lock", "handler"} => Passed(r)
    /\ r.at = "handler" /\ "lock" \in Range(RouteTo[r.call].chain) => r.locked

RequestsInv ==
  /\ req \in [Slots -> Requests] /\ sent \in 0..MaxRequests
  /\ \A s \in Slots : ReqInv(req[s])

GatewayInv == DirectoryInv /\ RequestsInv

LEMMA Prepared ==
  ASSUME RequestsInv
  PROVE  HandlersPrepared
<1> SUFFICES ASSUME NEW s \in Slots, AtHandler(s)
             PROVE  HandlerOf(s).needs \subseteq Provided(req[s])
  BY DEF HandlersPrepared
<1> DEFINE r == req[s]
           chain == RouteOf(s).chain
<1>1. r \in Requests /\ ReqInv(r) /\ Backed(RouteOf(s))
  BY RouteOfBacked DEF RequestsInv
<1>2. /\ \A i \in DOMAIN chain : Result(r, chain[i]) = next
      /\ "auth" \in Range(chain) => r.user \in Users
      /\ "lock" \in Range(chain) => r.locked
  BY <1>1 DEF AtHandler, Pending, ReqInv, Passed, RouteOf
<1>3. \A m \in Range(chain) : Result(r, m) = next
  BY <1>2 DEF Range
<1>4. ASSUME {"validate", "sanitize"} \subseteq Range(chain)
      PROVE  r.body = "valid"
  <2>1. validate(r) = 0 /\ mongodbSanitizer(r) = 0
    BY <1>3, <1>4 DEF Result, next
  <2>2. r.body \in {"valid", "invalid", "operators"}
    BY <1>1 DEF Requests, Bodies
  <2> QED
    BY <2>1, <2>2 DEF validate, mongodbSanitizer, next
<1>5. r.user \in Users => r.user # NoUser
  BY NoUserAssumption
<1>6. /\ HandlerOf(s).needs \subseteq {"user", "clean", "lock"}
      /\ "user" \in HandlerOf(s).needs => r.user # NoUser
      /\ "clean" \in HandlerOf(s).needs => r.body = "valid"
      /\ "lock" \in HandlerOf(s).needs => r.locked
  BY <1>1, <1>2, <1>4, <1>5 DEF Backed, SeesTo, HandlerOf, Needs
<1> QED
  BY <1>6 DEF Provided

(* Slot s holds r; the request in every other slot is as it was. *)
Hold(s, r) == req' = [req EXCEPT ![s] = r]

LEMMA HoldKeeps ==
  ASSUME RequestsInv, NEW s \in Slots, NEW r \in Requests, Hold(s, r), ReqInv(r),
         sent' \in 0..MaxRequests
  PROVE  RequestsInv'
<1>1. /\ req' \in [Slots -> Requests] /\ req'[s] = r
      /\ \A t \in Slots : t # s => req'[t] = req[t]
  BY DEF RequestsInv, Hold
<1>2. ASSUME NEW t \in Slots
      PROVE  ReqInv(req'[t])
  <2>1. CASE t = s
    BY <1>1, <2>1
  <2>2. CASE t # s
    BY <1>1, <2>2 DEF RequestsInv
  <2> QED
    BY <2>1, <2>2
<1> QED
  BY <1>1, <1>2 DEF RequestsInv, ReqInv, Passed

LEMMA NoRequestFields ==
  /\ NoRequest \in Requests
  /\ NoRequest.by = "connection" /\ ReqInv(NoRequest)
  BY DEF NoRequest, Requests, Tokens, Bodies, Parts, ReqInv

LEMMA AnswerHolds ==
  ASSUME NEW s \in Slots, NEW part \in Parts, part # "pending", NEW status \in Nat,
         Answer(s, part, status)
  PROVE  \E r \in Requests : /\ Hold(s, r) /\ ReqInv(r)
                             /\ r.by = part /\ r.status = status
<1> DEFINE r == [NoRequest EXCEPT !.by = part, !.status = status]
<1>1. r \in Requests /\ r.by = part /\ r.status = status
  BY DEF NoRequest, Requests, Tokens, Bodies
<1>2. Hold(s, r)
  BY DEF Answer, Hold
<1> HIDE DEF r
<1> QED
  BY <1>1, <1>2 DEF ReqInv

LEMMA AnswerKeeps ==
  ASSUME RequestsInv, NEW s \in Slots, NEW part \in Parts, part # "pending",
         NEW status \in Nat, Answer(s, part, status), UNCHANGED sent
  PROVE  RequestsInv'
<1>1. PICK r \in Requests : Hold(s, r) /\ ReqInv(r)
  BY AnswerHolds
<1> QED
  BY <1>1, HoldKeeps DEF RequestsInv

LEMMA SendKeeps ==
  ASSUME RequestsInv, NEW s \in Slots, NEW call \in Calls, NEW sender \in Users,
         NEW key \in BOOLEAN, NEW token \in Tokens, NEW body \in Bodies,
         Send(s, call, sender, key, token, body)
  PROVE  RequestsInv'
<1> DEFINE r == [NoRequest EXCEPT !.call = call, !.sender = sender, !.key = key,
                                  !.token = token, !.body = body, !.by = "pending"]
<1>1. r \in Requests /\ r.sender = sender /\ r.at = "server"
  BY DEF NoRequest, Requests, Parts
<1>2. Hold(s, r)
  BY DEF Send, Hold
<1> HIDE DEF r
<1>3. ReqInv(r)
  BY <1>1 DEF ReqInv
<1>4. sent' \in 0..MaxRequests
  BY MaxRequestsAssumption DEF Send, RequestsInv
<1> QED
  BY <1>1, <1>2, <1>3, <1>4, HoldKeeps

LEMMA Results ==
  ASSUME NEW r \in Requests, NEW m \in MiddlewareNames
  PROVE  Result(r, m) \in Nat
  BY DEF Result, MiddlewareNames, Requests, Tokens, hasValidApiKey, isAuth, validate,
         mongodbSanitizer, next

(* Where a request is makes no difference to the middlewares. *)
LEMMA SameResult ==
  ASSUME NEW r, NEW q, r.key = q.key, r.token = q.token, r.body = q.body, NEW m
  PROVE  Result(r, m) = Result(q, m)
<1>1. hasValidApiKey(r) = hasValidApiKey(q) /\ isAuth(r) = isAuth(q)
  BY DEF hasValidApiKey, isAuth
<1>2. validate(r) = validate(q) /\ mongodbSanitizer(r) = mongodbSanitizer(q)
  BY DEF validate, mongodbSanitizer
<1> QED
  BY <1>1, <1>2 DEF Result

(* The middlewares that are called in one turn: the first that refuses answers. *)
LEMMA MiddlewaresKeep ==
  ASSUME RequestsInv, NEW s \in Slots, Pending(s), Middlewares(s), UNCHANGED sent
  PROVE  RequestsInv'
<1> DEFINE chain == RouteOf(s).chain
           refused == {i \in DOMAIN chain : Result(req[s], chain[i]) # next}
           first == CHOOSE i \in refused : \A j \in refused : i <= j
<1>1. req \in [Slots -> Requests] /\ req[s] \in Requests /\ ReqInv(req[s])
  BY DEF RequestsInv
<1>2. chain \in Seq(MiddlewareNames)
  BY <1>1, RouteOfBacked DEF Backed, SeesTo
<1>3. CASE refused # {}
  <2>1. refused \in SUBSET Nat
    BY <1>2
  <2>2. first \in refused
    BY <1>3, <2>1, Least
  <2>3. chain[first] \in MiddlewareNames
    <3>1. first \in DOMAIN chain
      BY <2>2
    <3>2. \A i \in DOMAIN chain : chain[i] \in MiddlewareNames
      BY <1>2
    <3> QED
      BY <3>1, <3>2
  <2>4. PICK part \in MiddlewareNames : part = chain[first]
    BY <2>3
  <2>5. part \in Parts /\ part # "pending"
    BY DEF MiddlewareNames, Parts
  <2>6. PICK status \in Nat : status = Result(req[s], part)
    BY <1>1, Results
  <2>7. Answer(s, part, status)
    BY <1>3, <2>4, <2>6 DEF Middlewares
  <2> QED
    BY <2>5, <2>7, AnswerKeeps
<1>4. CASE refused = {}
  <2>1. PICK at \in {"lock", "handler"} :
          at = IF "lock" \in Range(chain) THEN "lock" ELSE "handler"
    OBVIOUS
  <2>2. PICK user \in Users \cup {NoUser} :
          user = IF "auth" \in Range(chain) THEN req[s].sender ELSE NoUser
    BY <1>1 DEF Requests
  <2>3. PICK r : r = [req[s] EXCEPT !.at = at, !.user = user]
    OBVIOUS
  <2>4. /\ r \in Requests /\ r.at = at /\ r.user = user /\ r.call = req[s].call
        /\ r.sender = req[s].sender /\ r.key = req[s].key /\ r.token = req[s].token
        /\ r.body = req[s].body
    BY <1>1, <2>3 DEF Requests
  <2>5. req' = [req EXCEPT ![s].at = at, ![s].user = user]
    BY <1>4, <2>1, <2>2 DEF Middlewares
  <2>6. Hold(s, r)
    BY <1>1, <2>3, <2>5 DEF Hold
  <2>7. RouteTo[r.call].chain = chain
    BY <2>4 DEF RouteOf
  <2>8. \A i \in DOMAIN chain : Result(r, chain[i]) = next
    BY <1>4, <2>4, SameResult
  <2>9. "auth" \in Range(chain) => r.user \in Users
    BY <1>1, <2>2, <2>4 DEF ReqInv, Pending
  <2>10. ReqInv(r)
    BY <1>1, <2>1, <2>4, <2>7, <2>8, <2>9 DEF ReqInv, Passed, Pending
  <2> QED
    BY <2>4, <2>6, <2>10, HoldKeeps DEF RequestsInv
<1> QED
  BY <1>3, <1>4

LEMMA LockKeeps ==
  ASSUME RequestsInv, NEW s \in Slots, Pending(s), lock(s), UNCHANGED sent
  PROVE  RequestsInv'
<1>1. req \in [Slots -> Requests] /\ req[s] \in Requests /\ ReqInv(req[s])
  BY DEF RequestsInv
<1>2. ASSUME NEW status \in {423, 500}, Answer(s, "lock", status)
      PROVE  RequestsInv'
  BY <1>2, AnswerKeeps DEF Parts
<1>3. CASE req' = [req EXCEPT ![s].at = "handler", ![s].locked = TRUE]
  <2>1. PICK r : r = [req[s] EXCEPT !.at = "handler", !.locked = TRUE]
    OBVIOUS
  <2>2. /\ r \in Requests /\ r.at = "handler" /\ r.locked /\ r.user = req[s].user
        /\ r.call = req[s].call /\ r.sender = req[s].sender /\ r.key = req[s].key
        /\ r.token = req[s].token /\ r.body = req[s].body
    BY <1>1, <2>1 DEF Requests
  <2>3. Hold(s, r)
    BY <1>1, <1>3, <2>1 DEF Hold
  <2>4. Passed(req[s])
    BY <1>1 DEF ReqInv, Pending, lock
  <2>5. Passed(r)
    <3>1. \A m : Result(r, m) = Result(req[s], m)
      BY <2>2, SameResult
    <3> QED
      BY <2>2, <2>4, <3>1 DEF Passed
  <2>6. ReqInv(r)
    BY <1>1, <2>2, <2>5 DEF ReqInv, Pending
  <2> QED
    BY <2>2, <2>3, <2>6, HoldKeeps DEF RequestsInv
<1> QED
  BY <1>2, <1>3 DEF lock

LEMMA MiddlewareKeeps ==
  ASSUME GatewayInv, NEW s \in Slots, Middleware(s)
  PROVE  RequestsInv'
<1>1. CASE NotFound(s)
  BY <1>1, AnswerKeeps DEF GatewayInv, NotFound, Middleware, Parts
<1> QED
  BY <1>1, MiddlewaresKeep, LockKeeps DEF GatewayInv, Middleware

LEMMA HandleKeeps ==
  ASSUME GatewayInv, NEW s \in Slots, Handle(s)
  PROVE  RequestsInv'
<1>1. Backed(RouteOf(s))
  BY RouteOfBacked DEF GatewayInv, RequestsInv
<1>2. PICK status \in {HandlerOf(s).success, 500} \cup HandlerOf(s).refusals :
        Answer(s, "handler", status)
  BY DEF Handle
<1>3. status \in Nat
  BY <1>1 DEF Backed, HandlerOf
<1> QED
  BY <1>2, <1>3, AnswerKeeps DEF Handle, GatewayInv, Parts

LEMMA AnswerDirectoryKeeps ==
  ASSUME GatewayInv, NEW s \in Slots, AnswerDirectory(s)
  PROVE  GatewayInv'
<1>1. op \in [Slots -> Ops] /\ added \in [Slots -> SUBSET Channels]
  BY DEF GatewayInv, DirectoryInv, DirectoryTypeOK
<1>2. DirectoryInv'
  <2>1. /\ op' \in [Slots -> Ops] /\ added' \in [Slots -> SUBSET Channels]
        /\ \A t \in Slots : op'[t] = Idle \/ (op'[t] = op[t] /\ added'[t] = added[t])
    BY <1>1, Constant DEF AnswerDirectory
  <2>2. UNCHANGED <<announced, database, complete, dropped>>
    BY DEF AnswerDirectory
  <2> QED
    BY <2>1, <2>2, DropKeeps DEF GatewayInv
<1>3. RequestsInv'
  <2>1. CASE Pending(s)
    <3>1. op[s].answer.status \in {0, 200, 201, 400, 401, 404, 409, 500}
      BY <1>1 DEF Ops, Answers
    <3>2. PICK status \in Nat : status = op[s].answer.status
      BY <3>1
    <3> QED
      BY <2>1, <3>2, AnswerKeeps DEF AnswerDirectory, GatewayInv, Parts
  <2>2. CASE ~Pending(s)
    BY <2>2 DEF AnswerDirectory, GatewayInv, RequestsInv, ReqInv, Passed
  <2> QED
    BY <2>1, <2>2
<1> QED
  BY <1>2, <1>3 DEF GatewayInv

LEMMA HandleDirectoryKeeps ==
  ASSUME GatewayInv, NEW s \in Slots, HandleDirectory(s)
  PROVE  DirectoryInv'
<1>1. PICK u \in Users \cup {NoUser} : u = req[s].user
  BY DEF GatewayInv, RequestsInv, Requests
<1>2. announced \in 0..MaxChannels /\ subs \subseteq Channels \X Users
  BY DEF GatewayInv, DirectoryInv, DirectoryTypeOK
<1>3. \/ StartCreate(s, u) \/ StartSearch(s, u) \/ StartGet(s, u) \/ StartAdd(s, u)
      \/ StartUpdate(s, u) \/ StartDelete(s, u) \/ StartUnsubscribe(s, u) \/ StartRevoke(s, u)
  BY <1>1 DEF HandleDirectory
<1>4. \E q \in Ops :
        \/ q.doc \in Docs /\ Begin(s, u, "name", q)
        \/ Begin(s, u, "search", q)
        \/ q.channel \in Channels /\ Begin(s, u, "get", q)
        \/ q.channel \in Channels /\ q.doc \in Docs /\ Begin(s, u, "add", q)
        \/ q.channel \in Channels /\ q.doc \in Docs /\ Begin(s, u, "read", q)
        \/ q.channel \in Channels /\ q.doc \in Docs /\ Begin(s, u, "leave", q)
        \/ q.channel \in Channels /\ q.doc \in Docs /\ Begin(s, u, "revoke", q)
  BY <1>2, <1>3, Starts
<1> QED
  BY <1>4, BeginKeeps DEF GatewayInv

LEMMA SameDirectory ==
  ASSUME DirectoryInv, UNCHANGED directory
  PROVE  DirectoryInv'
  BY DEF directory, database, DirectoryInv, DirectoryTypeOK, OpsInv, OpInv, AuthorSubscribed,
         WritesOwn, Listed, Own, Leaving

LEMMA SameRequests ==
  ASSUME RequestsInv, UNCHANGED <<req, sent>>
  PROVE  RequestsInv'
  BY DEF RequestsInv, ReqInv, Passed

LEMMA CrashKeeps ==
  ASSUME GatewayInv, NEW paths, Crash(paths)
  PROVE  GatewayInv'
<1>1. op \in [Slots -> Ops] /\ added \in [Slots -> SUBSET Channels]
  BY DEF GatewayInv, DirectoryInv, DirectoryTypeOK
<1>2. DirectoryInv'
  <2>1. PICK stopped : /\ op' = [t \in Slots |-> IF t \in stopped THEN Idle ELSE op[t]]
                       /\ added' = [t \in Slots |-> IF t \in stopped THEN {} ELSE added[t]]
    BY DEF Crash
  <2>2. /\ op' \in [Slots -> Ops] /\ added' \in [Slots -> SUBSET Channels]
        /\ \A t \in Slots : op'[t] = Idle \/ (op'[t] = op[t] /\ added'[t] = added[t])
    BY <1>1, <2>1, Constant
  <2>3. UNCHANGED <<announced, database, complete, dropped>>
    BY DEF Crash
  <2> QED
    BY <2>2, <2>3, DropKeeps DEF GatewayInv
<1>3. RequestsInv'
  <2>1. /\ req' \in [Slots -> Requests]
        /\ \A t \in Slots : req'[t] = NoRequest \/ req'[t] = req[t]
    BY NoRequestFields DEF Crash, GatewayInv, RequestsInv
  <2>2. \A t \in Slots : ReqInv(req'[t])
    BY <2>1, NoRequestFields DEF GatewayInv, RequestsInv
  <2>3. sent' = sent
    BY DEF Crash
  <2> QED
    BY <2>1, <2>2, <2>3 DEF GatewayInv, RequestsInv, ReqInv, Passed
<1> QED
  BY <1>2, <1>3 DEF GatewayInv

LEMMA GatewayStep ==
  ASSUME GatewayInv, [Next]_vars
  PROVE  GatewayInv'
<1>1. ASSUME NEW s \in Slots, NEW call \in Calls, NEW sender \in Users, NEW key \in BOOLEAN,
             NEW token \in Tokens, NEW body \in Bodies,
             Send(s, call, sender, key, token, body)
      PROVE  GatewayInv'
  BY <1>1, SendKeeps, SameDirectory DEF GatewayInv, Send
<1>2. ASSUME NEW s \in Slots, Work(s)
      PROVE  GatewayInv'
  <2>1. CASE Middleware(s)
    BY <2>1, MiddlewareKeeps, SameDirectory DEF GatewayInv, Middleware
  <2>2. CASE Handle(s)
    BY <2>2, HandleKeeps, SameDirectory DEF GatewayInv, Handle
  <2>3. CASE HandleDirectory(s)
    BY <2>3, HandleDirectoryKeeps, SameRequests DEF GatewayInv, HandleDirectory
  <2>4. CASE AnswerDirectory(s)
    BY <2>4, AnswerDirectoryKeeps
  <2>5. CASE DirectoryStep(s) /\ UNCHANGED <<req, sent>>
    BY <2>5, DirectoryStepKeeps, SameRequests DEF GatewayInv
  <2> QED
    BY <1>2, <2>1, <2>2, <2>3, <2>4, <2>5 DEF Work
<1>3. ASSUME NEW s \in Slots, Fail(s)
      PROVE  GatewayInv'
  BY <1>3, DirectoryStepKeeps, SameRequests DEF GatewayInv, Fail
<1>4. ASSUME NEW s \in Slots, Disconnect(s)
      PROVE  GatewayInv'
  BY <1>4, AnswerKeeps, SameDirectory DEF GatewayInv, Disconnect, Parts
<1>5. ASSUME NEW paths, Crash(paths)
      PROVE  GatewayInv'
  BY <1>5, CrashKeeps
<1>6. CASE UNCHANGED vars
  BY <1>6, SameDirectory, SameRequests DEF vars, GatewayInv
<1> QED
  BY <1>1, <1>2, <1>3, <1>4, <1>5, <1>6 DEF Next, Serve

LEMMA GatewayStart ==
  ASSUME GatewayInit
  PROVE  GatewayInv
<1>1. DirectoryInv
  <2>1. \A s \in Slots : op[s] = Idle
    BY DEF GatewayInit, Init
  <2>2. DirectoryTypeOK
    BY Constant, MaxChannelsAssumption DEF GatewayInit, Init, DirectoryTypeOK
  <2>3. OpsInv /\ WritesOwn /\ AuthorSubscribed
    BY <2>1, IdleFields DEF GatewayInit, Init, OpsInv, OpInv, WritesOwn, AuthorSubscribed, Leaving
  <2> QED
    BY <2>2, <2>3 DEF DirectoryInv
<1>2. RequestsInv
  BY NoRequestFields, MaxRequestsAssumption DEF GatewayInit, RequestsInv
<1> QED
  BY <1>1, <1>2 DEF GatewayInv

(* The inductive invariant: types, what an operation has in hand at each await, what
   the middlewares have made sure of, and who may be about to write. *)
THEOREM GatewayInvariant == Spec => []GatewayInv
<1>1. GatewayInit => GatewayInv
  BY GatewayStart
<1>2. GatewayInv /\ [Next]_vars => GatewayInv'
  BY GatewayStep
<1> QED
  BY <1>1, <1>2, PTL DEF Spec

------------------------------------------------------------------------------
(* What the runs check *)

(* Requests, operations and documents have their types. *)
THEOREM GatewayTypes == Spec => []TypeOK
<1>1. GatewayInv => TypeOK
  BY DEF GatewayInv, DirectoryInv, RequestsInv, TypeOK
<1> QED
  BY <1>1, GatewayInvariant, PTL

(* A channel that ChannelService.create has listed has the state and the subscription
   of the author it is listed with, until somebody asks to remove her subscription of
   it: DELETE of a subscription, or its author revoking herself. *)
THEOREM AuthorsSubscribed == Spec => []AuthorSubscribed
<1>1. GatewayInv => AuthorSubscribed
  BY DEF GatewayInv, DirectoryInv
<1> QED
  BY <1>1, GatewayInvariant, PTL

(* No route leads to a handler without what the handler relies on. *)
THEOREM NoneUnprepared == Spec => []HandlersPrepared
<1>1. GatewayInv => HandlersPrepared
  BY Prepared DEF GatewayInv
<1> QED
  BY <1>1, GatewayInvariant, PTL

(* What is listed changes in three ways only, two of which take a channel that is
   not listed. *)
LEMMA ListedChanges ==
  ASSUME GatewayInv, [Next]_vars, NEW c \in Channels, Listed(c), info'[c] # info[c]
  PROVE  \E s \in Slots : op[s].channel = c /\ WriteChange(s)
<1>1. \E s \in Slots : DirectoryStep(s)
  BY DEF Next, Serve, Work, Send, Middleware, Handle, HandleDirectory, AnswerDirectory, Fail,
         DirectoryFail, Disconnect, Crash, StartCreate, StartSearch, StartGet, StartAdd,
         StartUpdate, StartDelete, StartChange, StartUnsubscribe, StartRevoke, StartOwn, Begin,
         directory, database, vars
<1>2. PICK s \in Slots : DirectoryStep(s)
  BY <1>1
<1>3. /\ info \in [Channels -> Docs \cup {Missing}] /\ OpInv(op[s])
  BY DEF GatewayInv, DirectoryInv, DirectoryTypeOK, OpsInv
<1>4. AddInfo(s) \/ Add(s) \/ WriteChange(s)
  BY <1>2 DEF DirectoryStep, create, change, CheckName, Announce, AddState, AddSubscription,
              Get, Search, ReadForChange, leave, ReadForUnsubscribe, Unsubscribe, ReadForRevoke,
              DropState, DropSubscription, database
<1>5. CASE AddInfo(s) \/ Add(s)
  <2>1. List(op[s].channel, op[s].doc) /\ ~Refused(op[s].channel, op[s].doc)
    BY <1>5 DEF AddInfo, Add
  <2>2. op[s].channel # c
    BY <2>1 DEF Refused
  <2> QED
    BY <1>3, <2>1, <2>2 DEF List
<1>6. CASE WriteChange(s)
  <2>1. PICK d \in Channels : d = op[s].channel /\ op[s].doc \in Docs
    BY <1>3, <1>6 DEF OpInv, WriteChange
  <2>2. c = d
    BY <1>3, <1>6, <2>1, Written
  <2> QED
    BY <1>6, <2>1, <2>2
<1> QED
  BY <1>4, <1>5, <1>6

(* A listed channel is changed or removed by its author or an admin only, unless it
   was added after its author was looked at. *)
THEOREM OwnersChange == Spec => ChangedByOwner
<1>1. ASSUME GatewayInv, [Next]_vars, NEW c \in Channels, Listed(c), info'[c] # info[c]
      PROVE  \E s \in Slots : /\ Changes(s, c)
                              /\ op[s].user \in {info[c].author} \cup Admins \/ c \in added[s]
  <2>1. PICK s \in Slots : op[s].channel = c /\ WriteChange(s)
    BY <1>1, ListedChanges
  <2>2. /\ op \in [Slots -> Ops] /\ info \in [Channels -> Docs \cup {Missing}]
        /\ op[s].doc \in Docs /\ op[s].pc = "write"
        /\ c \notin added[s] => op[s].user \in {info[c].author} \cup Admins
    BY <1>1, <2>1 DEF GatewayInv, DirectoryInv, DirectoryTypeOK, OpsInv, OpInv, WritesOwn,
                      WriteChange
  <2>3. \E status \in {200, 404} : Finish(s, status)
    BY <1>1, <2>1, <2>2, Written
  <2>4. op'[s].pc = "done"
    BY <2>2, <2>3, MovedFinish, Moved
  <2> QED
    BY <2>1, <2>2, <2>4 DEF Changes
<1>2. GatewayInv /\ [Next]_vars =>
        \A c \in Channels : Listed(c) /\ info'[c] # info[c] =>
          \E s \in Slots : /\ Changes(s, c)
                           /\ op[s].user \in {info[c].author} \cup Admins \/ c \in added[s]
  BY <1>1
<1> QED
  BY <1>2, GatewayInvariant, PTL DEF Spec, ChangedByOwner

(* What an operation that ends in this step tells is for its user to know. *)
TellsWell(s) ==
  Tells(s) =>
    /\ \A c \in op'[s].answer.told : MayKnow(op[s].user, c)
    /\ \A c \in op'[s].answer.lists : MayKnowList(op[s].user, c)

LEMMA OneTells ==
  ASSUME DirectoryInv, NEW s \in Slots, NEW o \in Ops, Set(s, o),
         o.pc = "done" =>
           /\ \A c \in o.answer.told : MayKnow(op[s].user, c)
           /\ \A c \in o.answer.lists : MayKnowList(op[s].user, c)
  PROVE  \A t \in Slots : TellsWell(t)
<1>1. op \in [Slots -> Ops]
  BY DEF DirectoryInv, DirectoryTypeOK
<1> QED
  BY <1>1, Moved DEF TellsWell, Tells

LEMMA TellTells ==
  ASSUME DirectoryInv, NEW s \in Slots, NEW answer \in Answers, Tell(s, answer),
         \A c \in answer.told : MayKnow(op[s].user, c),
         \A c \in answer.lists : MayKnowList(op[s].user, c)
  PROVE  \A t \in Slots : TellsWell(t)
<1>1. op \in [Slots -> Ops]
  BY DEF DirectoryInv, DirectoryTypeOK
<1>2. PICK o \in Ops : Set(s, o) /\ o.answer = answer
  BY <1>1, MovedTell
<1> QED
  BY <1>2, OneTells

LEMMA FinishTells ==
  ASSUME DirectoryInv, NEW s \in Slots,
         NEW status \in {200, 201, 400, 401, 404, 409, 500}, Finish(s, status)
  PROVE  \A t \in Slots : TellsWell(t)
<1> DEFINE a == [NoAnswer EXCEPT !.status = status]
<1>1. a \in Answers /\ a.told = {} /\ a.lists = {}
  BY DEF NoAnswer, Answers
<1>2. Tell(s, a)
  BY DEF Finish
<1> HIDE DEF a
<1> QED
  BY <1>1, <1>2, TellTells

LEMMA GotoTells ==
  ASSUME DirectoryInv, NEW s \in Slots, NEW label \in PCs, label # "done", Goto(s, label)
  PROVE  \A t \in Slots : TellsWell(t)
<1>1. op \in [Slots -> Ops]
  BY DEF DirectoryInv, DirectoryTypeOK
<1>2. PICK o \in Ops : Set(s, o) /\ o.pc = label
  BY <1>1, MovedGoto
<1> QED
  BY <1>2, OneTells

LEMMA SeesMayKnow ==
  ASSUME NEW u, NEW c
  PROVE  /\ Sees(info[c], u) => MayKnow(u, c)
         /\ Sees(info[c], u) /\ SeesList(info[c], u) => MayKnowList(u, c)
         /\ isAuthorizedAdmin(u) \/ u = info[c].author => MayKnowList(u, c)
  BY DEF Sees, SeesList, MayKnow, MayKnowList, isAuthorizedAdmin, isInVisibilityList

LEMMA GetTells ==
  ASSUME DirectoryInv, NEW s \in Slots, Get(s)
  PROVE  \A t \in Slots : TellsWell(t)
<1>1. op[s].channel \in Channels
  BY DEF Get, DirectoryInv, OpsInv, OpInv
<1>2. PICK c \in Channels : c = op[s].channel
  BY <1>1
<1> DEFINE u == op[s].user
<1>3. PICK answer \in Answers : answer = ChannelInfoFor(c, u)
  BY InfoForTyped
<1>4. Tell(s, answer)
  BY <1>2, <1>3 DEF Get
<1>5. /\ \A d \in answer.told : Sees(info[d], u)
      /\ \A d \in answer.lists : Sees(info[d], u) /\ SeesList(info[d], u)
  <2>1. CASE Listed(c)
    <3> DEFINE told == {d \in {c} : Sees(info[d], u)}
               lists == {d \in {c} : Sees(info[d], u) /\ SeesList(info[d], u)}
    <3>1. answer = [status |-> 200, told |-> told, lists |-> lists]
      BY <1>3, <2>1 DEF ChannelInfoFor
    <3> QED
      BY <3>1
  <2>2. CASE ~Listed(c)
    BY <1>3, <2>2 DEF ChannelInfoFor, NoAnswer
  <2> QED
    BY <2>1, <2>2
<1> QED
  BY <1>4, <1>5, SeesMayKnow, TellTells

LEMMA SearchTells ==
  ASSUME DirectoryInv, NEW s \in Slots, Search(s)
  PROVE  \A t \in Slots : TellsWell(t)
  BY Searched, SeesMayKnow, TellTells

LEMMA StepTells ==
  ASSUME DirectoryInv, NEW s \in Slots, DirectoryStep(s) \/ DirectoryFail(s)
  PROVE  \A t \in Slots : TellsWell(t)
<1>1. op \in [Slots -> Ops] /\ OpInv(op[s])
  BY DEF DirectoryInv, DirectoryTypeOK, OpsInv
<1>2. CASE \E status \in {200, 201, 400, 401, 404, 409, 500} : Finish(s, status)
  BY <1>2, FinishTells
<1>3. CASE Get(s) \/ Search(s)
  BY <1>3, GetTells, SearchTells
<1>4. CASE \E label \in {"announce", "subscription", "info", "write", "unsubscribe", "dropState",
                        "dropSubscription"} : Goto(s, label)
  BY <1>4, GotoTells DEF PCs
<1>5. CASE Announce(s)
  <2>1. op' = [op EXCEPT ![s].pc = "state", ![s].channel = announced + 1]
    BY <1>5 DEF Announce
  <2>2. op'[s].pc = "state" /\ \A t \in Slots : t # s => op'[t] = op[t]
    BY <1>1, <2>1 DEF Ops
  <2> QED
    BY <2>2 DEF TellsWell, Tells
<1> QED
  BY <1>2, <1>3, <1>4, <1>5
     DEF DirectoryStep, DirectoryFail, create, change, CheckName, AddState, AddSubscription,
         AddInfo, Add, ReadForChange, WriteChange, leave, ReadForUnsubscribe, Unsubscribe,
         ReadForRevoke, DropState, DropSubscription

(* Neither a search nor a single look tells anybody of what is hidden from her. *)
THEOREM HiddenKept == Spec => HiddenStaysHidden
<1>1. ASSUME GatewayInv, [Next]_vars, NEW t \in Slots
      PROVE  TellsWell(t)
  <2>1. /\ op \in [Slots -> Ops] /\ announced \in 0..MaxChannels /\ DirectoryInv
        /\ subs \subseteq Channels \X Users
    BY <1>1 DEF GatewayInv, DirectoryInv, DirectoryTypeOK
  <2>2. CASE op'[t] = op[t] \/ op'[t] = Idle
    BY <2>2, IdleFields DEF TellsWell, Tells
  <2>3. CASE \E s \in Slots : DirectoryStep(s) \/ DirectoryFail(s)
    BY <2>1, <2>3, StepTells
  <2>4. ASSUME NEW s \in Slots, HandleDirectory(s)
        PROVE  TellsWell(t)
    <3>1. PICK u \in Users \cup {NoUser} : u = req[s].user
      BY <1>1 DEF GatewayInv, RequestsInv, Requests
    <3>2. \E label \in {"name", "search", "get", "add", "read", "leave", "revoke"}, q \in Ops :
            Begin(s, u, label, q)
      BY <2>1, <2>4, <3>1, Starts DEF HandleDirectory
    <3>3. PICK label \in PCs, q \in Ops : label # "done" /\ Begin(s, u, label, q)
      BY <3>2 DEF PCs
    <3>4. \E o \in Ops : Set(s, o) /\ o.pc = label
      BY <2>1, <3>3, MovedBegin
    <3> QED
      BY <2>1, <3>3, <3>4, OneTells
  <2>5. CASE Next /\ ~(\E s \in Slots : \/ DirectoryStep(s) \/ DirectoryFail(s)
                                       \/ HandleDirectory(s))
    BY <2>1, <2>2, <2>5 DEF Next, Serve, Work, Send, Middleware, Handle, AnswerDirectory, Fail,
                            Disconnect, Crash, directory
  <2>6. CASE UNCHANGED vars
    BY <2>2, <2>6 DEF vars, directory
  <2> QED
    BY <1>1, <2>3, <2>4, <2>5, <2>6
<1>2. GatewayInv /\ [Next]_vars =>
        \A s \in Slots : Tells(s) =>
          /\ \A c \in op'[s].answer.told : MayKnow(op[s].user, c)
          /\ \A c \in op'[s].answer.lists : MayKnowList(op[s].user, c)
  BY <1>1 DEF TellsWell
<1> QED
  BY <1>2, GatewayInvariant, PTL DEF Spec, HiddenStaysHidden

------------------------------------------------------------------------------
(* Calls *)

(* What a request line begins with: a method, the path of a router and a step. *)
Looks(line, method, router, step, len) ==
  Len(line) = len /\ line[1] = method /\ line[2] = router /\ line[3] = step
IsLine(line) == DOMAIN line = 1..Len(line) /\ Len(line) \in {3, 4}

LEMMA LooksOf ==
  ASSUME NEW m, NEW r, NEW t, NEW p
  PROVE  /\ IsLine(<<m, r, t>>) /\ Looks(<<m, r, t>>, m, r, t, 3)
         /\ IsLine(<<m, r, t, p>>) /\ Looks(<<m, r, t, p>>, m, r, t, 4)
  BY DEF IsLine, Looks

LEMMA MatchesItself ==
  ASSUME NEW line, IsLine(line)
  PROVE  Matches(line, line)
  BY DEF Matches

LEMMA Unlike ==
  ASSUME NEW line, NEW path, IsLine(line), IsLine(path),
         NEW m, NEW r, NEW t, NEW n \in {3, 4}, Looks(line, m, r, t, n),
         NEW m2, NEW r2, NEW t2, NEW n2 \in {3, 4}, Looks(path, m2, r2, t2, n2),
         m # P, r # P,
         n # n2 \/ m # m2 \/ r # r2 \/ (t # t2 /\ t # P)
  PROVE  ~Matches(line, path)
<1>1. Len(line) = Len(path) => {1, 2, 3} \subseteq DOMAIN line
  BY DEF IsLine, Looks
<1> QED
  BY <1>1 DEF Matches, Looks

(* What is documented of r is what it does, unless it is one of the divergences. *)
AsDocumented(r) ==
  LET d == r.documented IN
  \/ /\ d.line = r.line /\ d.success = r.handler.success
     /\ "auth" \in Range(r.chain) => d.token
  \/ Call(d.line, d.token, d.success) \in Divergences
NoSuccess(statuses) == statuses \cap 200..299 = {}

(* No route of a router, which serves what begins with one of names, hides one that
   is registered after it. *)
Apart(router, names) ==
  /\ router \in Seq(Range(router))
  /\ \A i \in DOMAIN router :
       /\ IsLine(router[i].line) /\ router[i].line[2] \in names
       /\ AsDocumented(router[i]) /\ NoSuccess(router[i].handler.refusals)
       /\ \A j \in DOMAIN router : j < i => ~Matches(router[j].line, router[i].line)

LEMMA JoinedApart ==
  ASSUME NEW p, NEW q, NEW M, NEW N, Apart(p, M), Apart(q, N), M \cap N = {}, P \notin M
  PROVE  Apart(p \o q, M \cup N)
<1> DEFINE S == Range(p) \cup Range(q)
<1>1. p \in Seq(S) /\ q \in Seq(S)
  BY DEF Apart
<1>2. p \o q \in Seq(Range(p \o q))
  <2>1. p \o q \in Seq(S)
    BY <1>1
  <2> QED
    BY <2>1, OwnRange
<1>3. \A i \in DOMAIN (p \o q) :
        \/ i \in DOMAIN p /\ (p \o q)[i] = p[i]
        \/ i - Len(p) \in DOMAIN q /\ (p \o q)[i] = q[i - Len(p)] /\ i > Len(p)
  BY <1>1
<1>4. \A i \in DOMAIN p, j \in DOMAIN q : ~Matches(p[i].line, q[j].line)
  BY DEF Apart, Matches, IsLine
<1>5. ASSUME NEW i \in DOMAIN (p \o q), NEW j \in DOMAIN (p \o q), j < i
      PROVE  ~Matches((p \o q)[j].line, (p \o q)[i].line)
  <2>1. DOMAIN p = 1..Len(p) /\ DOMAIN q = 1..Len(q) /\ Len(p) \in Nat /\ i \in Nat /\ j \in Nat
    BY <1>1
  <2>2. CASE i \in DOMAIN p
    BY <1>1, <1>5, <2>1, <2>2 DEF Apart
  <2>3. CASE i > Len(p) /\ j \in DOMAIN p
    BY <1>1, <1>3, <1>4, <2>1, <2>3
  <2>4. CASE i > Len(p) /\ j > Len(p)
    <3>1. PICK k \in DOMAIN q, l \in DOMAIN q :
            k = i - Len(p) /\ l = j - Len(p) /\ (p \o q)[i] = q[k] /\ (p \o q)[j] = q[l]
      BY <1>3, <2>1, <2>4
    <3>2. l < k
      BY <1>5, <2>1, <3>1
    <3> QED
      BY <3>1, <3>2 DEF Apart
  <2> QED
    BY <1>3, <2>1, <2>2, <2>3, <2>4
<1>6. \A i \in DOMAIN (p \o q) :
        LET r == (p \o q)[i] IN
        /\ IsLine(r.line) /\ r.line[2] \in M \cup N
        /\ AsDocumented(r) /\ NoSuccess(r.handler.refusals)
  BY <1>3 DEF Apart
<1> QED
  BY <1>2, <1>5, <1>6 DEF Apart

(* The chains on which no token is asked for. *)
LEMMA NoAuth ==
  /\ "auth" \notin Range(<<"apiKey">>)
  /\ "auth" \notin Range(<<"apiKey", "sanitize">>)
  /\ "auth" \notin Range(<<"apiKey", "sanitize", "validate">>)
  /\ "auth" \notin Range(<<"apiKey", "validate", "sanitize">>)
  BY DEF Range

LEMMA RouteDiverges ==
  ASSUME NEW line, NEW chain, NEW handler, NEW token, NEW success,
         Call(line, token, success) \in Divergences
  PROVE  AsDocumented(Route(line, chain, handler, token, success))
  BY DEF Route, AsDocumented

LEMMA NoneSucceeds ==
  /\ NoSuccess({}) /\ NoSuccess({400}) /\ NoSuccess({401}) /\ NoSuccess({404})
  /\ NoSuccess({409}) /\ NoSuccess({400, 401}) /\ NoSuccess({400, 409})
  /\ NoSuccess({404, 409}) /\ NoSuccess({400, 401, 404})
  BY DEF NoSuccess

LEMMA ChannelInfoRouterApart == Apart(channelInfoRouter, {"channel-info"})
<1> DEFINE line(n) == channelInfoRouter[n].line
<1>1. /\ line(1) = <<"GET", "channel-info", "search">>
      /\ line(2) = <<"GET", "channel-info", "channel", P>>
      /\ line(3) = <<"POST", "channel-info", "channel">>
      /\ line(4) = <<"PUT", "channel-info", "channel">>
      /\ line(5) = <<"DELETE", "channel-info", "channel", P>>
  BY DEF channelInfoRouter, Route, searchChannelInfoRoute, getChannelInfoRoute,
         addChannelInfoRoute, updateChannelInfoRoute, deleteChannelInfoRoute
<1> HIDE DEF line
<1>2. /\ IsLine(line(1)) /\ Looks(line(1), "GET", "channel-info", "search", 3)
      /\ IsLine(line(2)) /\ Looks(line(2), "GET", "channel-info", "channel", 4)
      /\ IsLine(line(3)) /\ Looks(line(3), "POST", "channel-info", "channel", 3)
      /\ IsLine(line(4)) /\ Looks(line(4), "PUT", "channel-info", "channel", 3)
      /\ IsLine(line(5)) /\ Looks(line(5), "DELETE", "channel-info", "channel", 4)
  BY <1>1, LooksOf DEF P
<1>3. ~Matches(line(1), line(2))
  BY <1>2, Unlike DEF P
<1>4. /\ ~Matches(line(1), line(3)) /\ ~Matches(line(2), line(3))
  BY <1>2, Unlike DEF P
<1>5. /\ ~Matches(line(1), line(4)) /\ ~Matches(line(2), line(4)) /\ ~Matches(line(3), line(4))
  BY <1>2, Unlike DEF P
<1>6. /\ ~Matches(line(1), line(5)) /\ ~Matches(line(2), line(5)) /\ ~Matches(line(3), line(5))
      /\ ~Matches(line(4), line(5))
  BY <1>2, Unlike DEF P
<1>7. /\ AsDocumented(searchChannelInfoRoute) /\ AsDocumented(addChannelInfoRoute)
      /\ AsDocumented(updateChannelInfoRoute) /\ AsDocumented(deleteChannelInfoRoute)
  BY NoAuth DEF AsDocumented, Route, Handler, Token, NoToken, searchChannelInfoRoute,
         addChannelInfoRoute, updateChannelInfoRoute, deleteChannelInfoRoute, searchChannelInfo,
         addChannelInfo, updateChannelInfo, deleteChannelInfo
<1>8. AsDocumented(getChannelInfoRoute)
  BY RouteDiverges DEF Divergences, getChannelInfoRoute, ChannelInfo, IdentityFind, IdentityAdd
<1>9. /\ NoSuccess(searchChannelInfoRoute.handler.refusals)
      /\ NoSuccess(getChannelInfoRoute.handler.refusals)
      /\ NoSuccess(addChannelInfoRoute.handler.refusals)
      /\ NoSuccess(updateChannelInfoRoute.handler.refusals)
      /\ NoSuccess(deleteChannelInfoRoute.handler.refusals)
  BY NoneSucceeds
     DEF Route, Handler, searchChannelInfoRoute, getChannelInfoRoute,
         addChannelInfoRoute, updateChannelInfoRoute, deleteChannelInfoRoute, searchChannelInfo,
         getChannelInfo, addChannelInfo, updateChannelInfo, deleteChannelInfo
<1>10. /\ DOMAIN channelInfoRouter = 1..5 /\ channelInfoRouter \in Seq(Range(channelInfoRouter))
       /\ \A i \in 1..5 :
            AsDocumented(channelInfoRouter[i]) /\ NoSuccess(channelInfoRouter[i].handler.refusals)
  BY <1>7, <1>8, <1>9 DEF channelInfoRouter, Range
<1>11. \A i \in 1..5 : IsLine(line(i)) /\ line(i)[2] = "channel-info"
  BY <1>2 DEF Looks
<1>12. \A i, j \in 1..5 : j < i => ~Matches(line(j), line(i))
  BY <1>3, <1>4, <1>5, <1>6
<1> QED
  BY <1>10, <1>11, <1>12 DEF Apart, line

LEMMA ChannelRouterApart == Apart(channelRouter, {"channels"})
<1> DEFINE line(n) == channelRouter[n].line
<1>1. /\ line(1) = <<"POST", "channels", "create">>
      /\ line(2) = <<"POST", "channels", "logs", P>>
      /\ line(3) = <<"GET", "channels", "logs", P>>
      /\ line(4) = <<"GET", "channels", "history", P>>
      /\ line(5) = <<"POST", "channels", "validate", P>>
      /\ line(6) = <<"POST", "channels", "re-import", P>>
  BY DEF channelRouter, Route, createChannelRoute, addLogRoute, getLogsRoute, getHistoryRoute,
         validateLogsRoute, reimportRoute
<1> HIDE DEF line
<1>2. /\ IsLine(line(1)) /\ Looks(line(1), "POST", "channels", "create", 3)
      /\ IsLine(line(2)) /\ Looks(line(2), "POST", "channels", "logs", 4)
      /\ IsLine(line(3)) /\ Looks(line(3), "GET", "channels", "logs", 4)
      /\ IsLine(line(4)) /\ Looks(line(4), "GET", "channels", "history", 4)
      /\ IsLine(line(5)) /\ Looks(line(5), "POST", "channels", "validate", 4)
      /\ IsLine(line(6)) /\ Looks(line(6), "POST", "channels", "re-import", 4)
  BY <1>1, LooksOf DEF P
<1>3. ~Matches(line(1), line(2))
  BY <1>2, Unlike DEF P
<1>4. /\ ~Matches(line(1), line(3)) /\ ~Matches(line(2), line(3))
  BY <1>2, Unlike DEF P
<1>5. /\ ~Matches(line(1), line(4)) /\ ~Matches(line(2), line(4)) /\ ~Matches(line(3), line(4))
  BY <1>2, Unlike DEF P
<1>6. /\ ~Matches(line(1), line(5)) /\ ~Matches(line(2), line(5)) /\ ~Matches(line(3), line(5))
      /\ ~Matches(line(4), line(5))
  BY <1>2, Unlike DEF P
<1>7. /\ ~Matches(line(1), line(6)) /\ ~Matches(line(2), line(6)) /\ ~Matches(line(3), line(6))
      /\ ~Matches(line(4), line(6)) /\ ~Matches(line(5), line(6))
  BY <1>2, Unlike DEF P
<1>8. /\ AsDocumented(createChannelRoute) /\ AsDocumented(addLogRoute)
      /\ AsDocumented(getLogsRoute) /\ AsDocumented(getHistoryRoute)
      /\ AsDocumented(validateLogsRoute) /\ AsDocumented(reimportRoute)
  BY NoAuth DEF AsDocumented, Route, Handler, Token, NoToken, createChannelRoute, addLogRoute,
         getLogsRoute, getHistoryRoute, validateLogsRoute, reimportRoute, createChannel, addLog,
         getLogs, getHistory, validateLogs, reimport
<1>9. /\ NoSuccess(createChannelRoute.handler.refusals)
      /\ NoSuccess(addLogRoute.handler.refusals) /\ NoSuccess(getLogsRoute.handler.refusals)
      /\ NoSuccess(getHistoryRoute.handler.refusals)
      /\ NoSuccess(validateLogsRoute.handler.refusals)
      /\ NoSuccess(reimportRoute.handler.refusals)
  BY NoneSucceeds
     DEF Route, Handler, createChannelRoute, addLogRoute, getLogsRoute,
         getHistoryRoute, validateLogsRoute, reimportRoute, createChannel, addLog, getLogs,
         getHistory, validateLogs, reimport
<1>10. /\ DOMAIN channelRouter = 1..6 /\ channelRouter \in Seq(Range(channelRouter))
       /\ \A i \in 1..6 :
            AsDocumented(channelRouter[i]) /\ NoSuccess(channelRouter[i].handler.refusals)
  BY <1>8, <1>9 DEF channelRouter, Range
<1>11. \A i \in 1..6 : IsLine(line(i)) /\ line(i)[2] = "channels"
  BY <1>2 DEF Looks
<1>12. \A i, j \in 1..6 : j < i => ~Matches(line(j), line(i))
  BY <1>3, <1>4, <1>5, <1>6, <1>7
<1> QED
  BY <1>10, <1>11, <1>12 DEF Apart, line

LEMMA SubscriptionRouterApart == Apart(subscriptionRouter, {"subscriptions"})
<1> DEFINE line(n) == subscriptionRouter[n].line
<1>1. /\ line(1) = <<"GET", "subscriptions", "state", P>>
      /\ line(2) = <<"PUT", "subscriptions", "state", P>>
      /\ line(3) = <<"GET", "subscriptions", P>> /\ line(4) = <<"GET", "subscriptions", P, P>>
      /\ line(5) = <<"POST", "subscriptions", "request", P>>
      /\ line(6) = <<"POST", "subscriptions", "authorize", P>>
      /\ line(7) = <<"POST", "subscriptions", "revoke", P>>
      /\ line(8) = <<"POST", "subscriptions", P, P>>
      /\ line(9) = <<"PUT", "subscriptions", P, P>>
      /\ line(10) = <<"DELETE", "subscriptions", P, P>>
  BY DEF subscriptionRouter, Route, getSubscriptionStateRoute, updateSubscriptionStateRoute,
         getSubscriptionsRoute, getSubscriptionByIdentityRoute, requestSubscriptionRoute,
         authorizeSubscriptionRoute, revokeSubscriptionRoute, addSubscriptionRoute,
         updateSubscriptionRoute, deleteSubscriptionRoute
<1> HIDE DEF line
<1>2. /\ IsLine(line(1)) /\ Looks(line(1), "GET", "subscriptions", "state", 4)
      /\ IsLine(line(2)) /\ Looks(line(2), "PUT", "subscriptions", "state", 4)
      /\ IsLine(line(3)) /\ Looks(line(3), "GET", "subscriptions", P, 3)
      /\ IsLine(line(4)) /\ Looks(line(4), "GET", "subscriptions", P, 4)
      /\ IsLine(line(5)) /\ Looks(line(5), "POST", "subscriptions", "request", 4)
      /\ IsLine(line(6)) /\ Looks(line(6), "POST", "subscriptions", "authorize", 4)
      /\ IsLine(line(7)) /\ Looks(line(7), "POST", "subscriptions", "revoke", 4)
      /\ IsLine(line(8)) /\ Looks(line(8), "POST", "subscriptions", P, 4)
      /\ IsLine(line(9)) /\ Looks(line(9), "PUT", "subscriptions", P, 4)
      /\ IsLine(line(10)) /\ Looks(line(10), "DELETE", "subscriptions", P, 4)
  BY <1>1, LooksOf DEF P
<1>3. ~Matches(line(1), line(2))
  BY <1>2, Unlike DEF P
<1>4. /\ ~Matches(line(1), line(3)) /\ ~Matches(line(2), line(3))
  BY <1>2, Unlike DEF P
<1>5. /\ ~Matches(line(1), line(4)) /\ ~Matches(line(2), line(4)) /\ ~Matches(line(3), line(4))
  BY <1>2, Unlike DEF P
<1>6. /\ ~Matches(line(1), line(5)) /\ ~Matches(line(2), line(5)) /\ ~Matches(line(3), line(5))
      /\ ~Matches(line(4), line(5))
  BY <1>2, Unlike DEF P
<1>7. /\ ~Matches(line(1), line(6)) /\ ~Matches(line(2), line(6)) /\ ~Matches(line(3), line(6))
      /\ ~Matches(line(4), line(6)) /\ ~Matches(line(5), line(6))
  BY <1>2, Unlike DEF P
<1>8. /\ ~Matches(line(1), line(7)) /\ ~Matches(line(2), line(7)) /\ ~Matches(line(3), line(7))
      /\ ~Matches(line(4), line(7)) /\ ~Matches(line(5), line(7)) /\ ~Matches(line(6), line(7))
  BY <1>2, Unlike DEF P
<1>9. /\ ~Matches(line(1), line(8)) /\ ~Matches(line(2), line(8)) /\ ~Matches(line(3), line(8))
      /\ ~Matches(line(4), line(8)) /\ ~Matches(line(5), line(8)) /\ ~Matches(line(6), line(8))
      /\ ~Matches(line(7), line(8))
  BY <1>2, Unlike DEF P
<1>10. /\ ~Matches(line(1), line(9)) /\ ~Matches(line(2), line(9)) /\ ~Matches(line(3), line(9))
       /\ ~Matches(line(4), line(9)) /\ ~Matches(line(5), line(9)) /\ ~Matches(line(6), line(9))
       /\ ~Matches(line(7), line(9)) /\ ~Matches(line(8), line(9))
  BY <1>2, Unlike DEF P
<1>11. /\ ~Matches(line(1), line(10)) /\ ~Matches(line(2), line(10))
       /\ ~Matches(line(3), line(10)) /\ ~Matches(line(4), line(10))
       /\ ~Matches(line(5), line(10)) /\ ~Matches(line(6), line(10))
       /\ ~Matches(line(7), line(10)) /\ ~Matches(line(8), line(10))
       /\ ~Matches(line(9), line(10))
  BY <1>2, Unlike DEF P
<1>12. /\ AsDocumented(getSubscriptionStateRoute) /\ AsDocumented(updateSubscriptionStateRoute)
       /\ AsDocumented(getSubscriptionsRoute) /\ AsDocumented(getSubscriptionByIdentityRoute)
       /\ AsDocumented(requestSubscriptionRoute) /\ AsDocumented(authorizeSubscriptionRoute)
       /\ AsDocumented(revokeSubscriptionRoute) /\ AsDocumented(addSubscriptionRoute)
       /\ AsDocumented(updateSubscriptionRoute) /\ AsDocumented(deleteSubscriptionRoute)
  BY NoAuth DEF AsDocumented, Route, Handler, Token, NoToken, getSubscriptionStateRoute,
         updateSubscriptionStateRoute, getSubscriptionsRoute, getSubscriptionByIdentityRoute,
         requestSubscriptionRoute, authorizeSubscriptionRoute, revokeSubscriptionRoute,
         addSubscriptionRoute, updateSubscriptionRoute, deleteSubscriptionRoute,
         getSubscriptionState, updateSubscriptionState, getSubscriptions,
         getSubscriptionByIdentity, requestSubscription, authorizeSubscription,
         revokeSubscription, addSubscription, updateSubscription, deleteSubscription
<1>13. /\ NoSuccess(getSubscriptionStateRoute.handler.refusals)
       /\ NoSuccess(updateSubscriptionStateRoute.handler.refusals)
       /\ NoSuccess(getSubscriptionsRoute.handler.refusals)
       /\ NoSuccess(getSubscriptionByIdentityRoute.handler.refusals)
       /\ NoSuccess(requestSubscriptionRoute.handler.refusals)
       /\ NoSuccess(authorizeSubscriptionRoute.handler.refusals)
       /\ NoSuccess(revokeSubscriptionRoute.handler.refusals)
       /\ NoSuccess(addSubscriptionRoute.handler.refusals)
       /\ NoSuccess(updateSubscriptionRoute.handler.refusals)
       /\ NoSuccess(deleteSubscriptionRoute.handler.refusals)
  BY NoneSucceeds
     DEF Route, Handler, getSubscriptionStateRoute, updateSubscriptionStateRoute,
         getSubscriptionsRoute, getSubscriptionByIdentityRoute, requestSubscriptionRoute,
         authorizeSubscriptionRoute, revokeSubscriptionRoute, addSubscriptionRoute,
         updateSubscriptionRoute, deleteSubscriptionRoute, getSubscriptionState,
         updateSubscriptionState, getSubscriptions, getSubscriptionByIdentity,
         requestSubscription, authorizeSubscription, revokeSubscription, addSubscription,
         updateSubscription, deleteSubscription
<1>14. /\ DOMAIN subscriptionRouter = 1..10 /\ subscriptionRouter \in Seq(Range(subscriptionRouter))
       /\ \A i \in 1..10 :
            AsDocumented(subscriptionRouter[i]) /\ NoSuccess(subscriptionRouter[i].handler.refusals)
  BY <1>12, <1>13 DEF subscriptionRouter, Range
<1>15. \A i \in 1..10 : IsLine(line(i)) /\ line(i)[2] = "subscriptions"
  BY <1>2 DEF Looks
<1>16. \A i, j \in 1..10 : j < i => ~Matches(line(j), line(i))
  BY <1>3, <1>4, <1>5, <1>6, <1>7, <1>8, <1>9, <1>10, <1>11
<1> QED
  BY <1>14, <1>15, <1>16 DEF Apart, line

LEMMA IdentityRouterApart == Apart(identityRouter, {"identities"})
<1> DEFINE line(n) == identityRouter[n].line
<1>1. /\ line(1) = <<"POST", "identities", "create">>
      /\ line(2) = <<"GET", "identities", "key-pair">>
      /\ line(3) = <<"GET", "identities", "search">>
      /\ line(4) = <<"GET", "identities", "identity", P>>
      /\ line(5) = <<"POST", "identities", "identity">>
      /\ line(6) = <<"PUT", "identities", "identity">>
      /\ line(7) = <<"DELETE", "identities", "identity", P>>
  BY DEF identityRouter, Route, createIdentityRoute, getKeyPairRoute, searchUsersRoute,
         getUserRoute, addUserRoute, updateUserRoute, deleteUserRoute
<1> HIDE DEF line
<1>2. /\ IsLine(line(1)) /\ Looks(line(1), "POST", "identities", "create", 3)
      /\ IsLine(line(2)) /\ Looks(line(2), "GET", "identities", "key-pair", 3)
      /\ IsLine(line(3)) /\ Looks(line(3), "GET", "identities", "search", 3)
      /\ IsLine(line(4)) /\ Looks(line(4), "GET", "identities", "identity", 4)
      /\ IsLine(line(5)) /\ Looks(line(5), "POST", "identities", "identity", 3)
      /\ IsLine(line(6)) /\ Looks(line(6), "PUT", "identities", "identity", 3)
      /\ IsLine(line(7)) /\ Looks(line(7), "DELETE", "identities", "identity", 4)
  BY <1>1, LooksOf DEF P
<1>3. ~Matches(line(1), line(2))
  BY <1>2, Unlike DEF P
<1>4. /\ ~Matches(line(1), line(3)) /\ ~Matches(line(2), line(3))
  BY <1>2, Unlike DEF P
<1>5. /\ ~Matches(line(1), line(4)) /\ ~Matches(line(2), line(4)) /\ ~Matches(line(3), line(4))
  BY <1>2, Unlike DEF P
<1>6. /\ ~Matches(line(1), line(5)) /\ ~Matches(line(2), line(5)) /\ ~Matches(line(3), line(5))
      /\ ~Matches(line(4), line(5))
  BY <1>2, Unlike DEF P
<1>7. /\ ~Matches(line(1), line(6)) /\ ~Matches(line(2), line(6)) /\ ~Matches(line(3), line(6))
      /\ ~Matches(line(4), line(6)) /\ ~Matches(line(5), line(6))
  BY <1>2, Unlike DEF P
<1>8. /\ ~Matches(line(1), line(7)) /\ ~Matches(line(2), line(7)) /\ ~Matches(line(3), line(7))
      /\ ~Matches(line(4), line(7)) /\ ~Matches(line(5), line(7)) /\ ~Matches(line(6), line(7))
  BY <1>2, Unlike DEF P
<1>9. /\ AsDocumented(createIdentityRoute) /\ AsDocumented(searchUsersRoute)
      /\ AsDocumented(updateUserRoute) /\ AsDocumented(deleteUserRoute)
  BY NoAuth DEF AsDocumented, Route, Handler, Token, NoToken, createIdentityRoute,
         searchUsersRoute, updateUserRoute, deleteUserRoute, createIdentity, searchUsers,
         updateUser, deleteUser
<1>10. AsDocumented(getKeyPairRoute)
  BY DEF AsDocumented, getKeyPairRoute, Route, Token, Divergences
<1>11. AsDocumented(getUserRoute)
  BY RouteDiverges DEF Divergences, getUserRoute, ChannelInfo, IdentityFind, IdentityAdd
<1>12. AsDocumented(addUserRoute)
  BY RouteDiverges DEF Divergences, addUserRoute, ChannelInfo, IdentityFind, IdentityAdd
<1>13. /\ NoSuccess(createIdentityRoute.handler.refusals)
       /\ NoSuccess(getKeyPairRoute.handler.refusals)
       /\ NoSuccess(searchUsersRoute.handler.refusals)
       /\ NoSuccess(getUserRoute.handler.refusals) /\ NoSuccess(addUserRoute.handler.refusals)
       /\ NoSuccess(updateUserRoute.handler.refusals)
       /\ NoSuccess(deleteUserRoute.handler.refusals)
  BY NoneSucceeds
     DEF Route, Handler, createIdentityRoute, getKeyPairRoute, searchUsersRoute,
         getUserRoute, addUserRoute, updateUserRoute, deleteUserRoute, createIdentity,
         getKeyPair, searchUsers, getUser, addUser, updateUser, deleteUser
<1>14. /\ DOMAIN identityRouter = 1..7 /\ identityRouter \in Seq(Range(identityRouter))
       /\ \A i \in 1..7 :
            AsDocumented(identityRouter[i]) /\ NoSuccess(identityRouter[i].handler.refusals)
  BY <1>9, <1>10, <1>11, <1>12, <1>13 DEF identityRouter, Range
<1>15. \A i \in 1..7 : IsLine(line(i)) /\ line(i)[2] = "identities"
  BY <1>2 DEF Looks
<1>16. \A i, j \in 1..7 : j < i => ~Matches(line(j), line(i))
  BY <1>3, <1>4, <1>5, <1>6, <1>7, <1>8
<1> QED
  BY <1>14, <1>15, <1>16 DEF Apart, line

LEMMA AuthenticationRouterApart == Apart(authenticationRouter, {"authentication"})
<1> DEFINE line(n) == authenticationRouter[n].line
<1>1. /\ line(1) = <<"GET", "authentication", "prove-ownership", P>>
      /\ line(2) = <<"POST", "authentication", "prove-ownership", P>>
      /\ line(3) = <<"POST", "authentication", "verify-jwt">>
  BY DEF authenticationRouter, Route, getNonceRoute, proveOwnershipRoute, verifyJwtRoute
<1> HIDE DEF line
<1>2. /\ IsLine(line(1)) /\ Looks(line(1), "GET", "authentication", "prove-ownership", 4)
      /\ IsLine(line(2)) /\ Looks(line(2), "POST", "authentication", "prove-ownership", 4)
      /\ IsLine(line(3)) /\ Looks(line(3), "POST", "authentication", "verify-jwt", 3)
  BY <1>1, LooksOf DEF P
<1>3. ~Matches(line(1), line(2))
  BY <1>2, Unlike DEF P
<1>4. /\ ~Matches(line(1), line(3)) /\ ~Matches(line(2), line(3))
  BY <1>2, Unlike DEF P
<1>5. /\ AsDocumented(getNonceRoute) /\ AsDocumented(proveOwnershipRoute)
      /\ AsDocumented(verifyJwtRoute)
  BY NoAuth DEF AsDocumented, Route, Handler, Token, NoToken, getNonceRoute,
         proveOwnershipRoute, verifyJwtRoute, getNonce, proveOwnership, verifyJwt
<1>6. /\ NoSuccess(getNonceRoute.handler.refusals)
      /\ NoSuccess(proveOwnershipRoute.handler.refusals)
      /\ NoSuccess(verifyJwtRoute.handler.refusals)
  BY NoneSucceeds
     DEF Route, Handler, getNonceRoute, proveOwnershipRoute, verifyJwtRoute,
         getNonce, proveOwnership, verifyJwt
<1>7. /\ DOMAIN authenticationRouter = 1..3 /\ authenticationRouter \in Seq(Range(authenticationRouter))
      /\ \A i \in 1..3 :
           AsDocumented(authenticationRouter[i]) /\ NoSuccess(authenticationRouter[i].handler.refusals)
  BY <1>5, <1>6 DEF authenticationRouter, Range
<1>8. \A i \in 1..3 : IsLine(line(i)) /\ line(i)[2] = "authentication"
  BY <1>2 DEF Looks
<1>9. \A i, j \in 1..3 : j < i => ~Matches(line(j), line(i))
  BY <1>3, <1>4
<1> QED
  BY <1>7, <1>8, <1>9 DEF Apart, line

LEMMA VerificationRouterApart == Apart(verificationRouter, {"verification"})
<1> DEFINE line(n) == verificationRouter[n].line
<1>1. /\ line(1) = <<"GET", "verification", "latest-document", P>>
      /\ line(2) = <<"POST", "verification", "trusted-roots">>
      /\ line(3) = <<"GET", "verification", "trusted-roots">>
      /\ line(4) = <<"DELETE", "verification", "trusted-roots", P>>
      /\ line(5) = <<"POST", "verification", "create-credential">>
      /\ line(6) = <<"POST", "verification", "check-credential">>
      /\ line(7) = <<"POST", "verification", "check-presentation">>
      /\ line(8) = <<"POST", "verification", "revoke-credential">>
  BY DEF verificationRouter, Route, getLatestDocumentRoute, addTrustedRootIdentityRoute,
         getTrustedRootIdentitiesRoute, removeTrustedRootIdentityRoute,
         createVerifiableCredentialRoute, checkVerifiableCredentialRoute,
         checkVerifiablePresentationRoute, revokeVerifiableCredentialRoute
<1> HIDE DEF line
<1>2. /\ IsLine(line(1)) /\ Looks(line(1), "GET", "verification", "latest-document", 4)
      /\ IsLine(line(2)) /\ Looks(line(2), "POST", "verification", "trusted-roots", 3)
      /\ IsLine(line(3)) /\ Looks(line(3), "GET", "verification", "trusted-roots", 3)
      /\ IsLine(line(4)) /\ Looks(line(4), "DELETE", "verification", "trusted-roots", 4)
      /\ IsLine(line(5)) /\ Looks(line(5), "POST", "verification", "create-credential", 3)
      /\ IsLine(line(6)) /\ Looks(line(6), "POST", "verification", "check-credential", 3)
      /\ IsLine(line(7)) /\ Looks(line(7), "POST", "verification", "check-presentation", 3)
      /\ IsLine(line(8)) /\ Looks(line(8), "POST", "verification", "revoke-credential", 3)
  BY <1>1, LooksOf DEF P
<1>3. ~Matches(line(1), line(2))
  BY <1>2, Unlike DEF P
<1>4. /\ ~Matches(line(1), line(3)) /\ ~Matches(line(2), line(3))
  BY <1>2, Unlike DEF P
<1>5. /\ ~Matches(line(1), line(4)) /\ ~Matches(line(2), line(4)) /\ ~Matches(line(3), line(4))
  BY <1>2, Unlike DEF P
<1>6. /\ ~Matches(line(1), line(5)) /\ ~Matches(line(2), line(5)) /\ ~Matches(line(3), line(5))
      /\ ~Matches(line(4), line(5))
  BY <1>2, Unlike DEF P
<1>7. /\ ~Matches(line(1), line(6)) /\ ~Matches(line(2), line(6)) /\ ~Matches(line(3), line(6))
      /\ ~Matches(line(4), line(6)) /\ ~Matches(line(5), line(6))
  BY <1>2, Unlike DEF P
<1>8. /\ ~Matches(line(1), line(7)) /\ ~Matches(line(2), line(7)) /\ ~Matches(line(3), line(7))
      /\ ~Matches(line(4), line(7)) /\ ~Matches(line(5), line(7)) /\ ~Matches(line(6), line(7))
  BY <1>2, Unlike DEF P
<1>9. /\ ~Matches(line(1), line(8)) /\ ~Matches(line(2), line(8)) /\ ~Matches(line(3), line(8))
      /\ ~Matches(line(4), line(8)) /\ ~Matches(line(5), line(8)) /\ ~Matches(line(6), line(8))
      /\ ~Matches(line(7), line(8))
  BY <1>2, Unlike DEF P
<1>10. /\ AsDocumented(getLatestDocumentRoute) /\ AsDocumented(addTrustedRootIdentityRoute)
       /\ AsDocumented(getTrustedRootIdentitiesRoute)
       /\ AsDocumented(removeTrustedRootIdentityRoute)
       /\ AsDocumented(createVerifiableCredentialRoute)
       /\ AsDocumented(checkVerifiableCredentialRoute)
       /\ AsDocumented(checkVerifiablePresentationRoute)
       /\ AsDocumented(revokeVerifiableCredentialRoute)
  BY NoAuth DEF AsDocumented, Route, Handler, Token, NoToken, getLatestDocumentRoute,
         addTrustedRootIdentityRoute, getTrustedRootIdentitiesRoute,
         removeTrustedRootIdentityRoute, createVerifiableCredentialRoute,
         checkVerifiableCredentialRoute, checkVerifiablePresentationRoute,
         revokeVerifiableCredentialRoute, getLatestDocument, addTrustedRootIdentity,
         getTrustedRootIdentities, removeTrustedRootIdentity, createVerifiableCredential,
         checkVerifiableCredential, checkVerifiablePresentation, revokeVerifiableCredential
<1>11. /\ NoSuccess(getLatestDocumentRoute.handler.refusals)
       /\ NoSuccess(addTrustedRootIdentityRoute.handler.refusals)
       /\ NoSuccess(getTrustedRootIdentitiesRoute.handler.refusals)
       /\ NoSuccess(removeTrustedRootIdentityRoute.handler.refusals)
       /\ NoSuccess(createVerifiableCredentialRoute.handler.refusals)
       /\ NoSuccess(checkVerifiableCredentialRoute.handler.refusals)
       /\ NoSuccess(checkVerifiablePresentationRoute.handler.refusals)
       /\ NoSuccess(revokeVerifiableCredentialRoute.handler.refusals)
  BY NoneSucceeds
     DEF Route, Handler, getLatestDocumentRoute, addTrustedRootIdentityRoute,
         getTrustedRootIdentitiesRoute, removeTrustedRootIdentityRoute,
         createVerifiableCredentialRoute, checkVerifiableCredentialRoute,
         checkVerifiablePresentationRoute, revokeVerifiableCredentialRoute, getLatestDocument,
         addTrustedRootIdentity, getTrustedRootIdentities, removeTrustedRootIdentity,
         createVerifiableCredential, checkVerifiableCredential, checkVerifiablePresentation,
         revokeVerifiableCredential
<1>12. /\ DOMAIN verificationRouter = 1..8 /\ verificationRouter \in Seq(Range(verificationRouter))
       /\ \A i \in 1..8 :
            AsDocumented(verificationRouter[i]) /\ NoSuccess(verificationRouter[i].handler.refusals)
  BY <1>10, <1>11 DEF verificationRouter, Range
<1>13. \A i \in 1..8 : IsLine(line(i)) /\ line(i)[2] = "verification"
  BY <1>2 DEF Looks
<1>14. \A i, j \in 1..8 : j < i => ~Matches(line(j), line(i))
  BY <1>3, <1>4, <1>5, <1>6, <1>7, <1>8, <1>9
<1> QED
  BY <1>12, <1>13, <1>14 DEF Apart, line

LEMMA RangeJoined ==
  ASSUME NEW p, NEW q, NEW M, NEW N, Apart(p, M), Apart(q, N)
  PROVE  Range(p) \subseteq Range(p \o q) /\ Range(q) \subseteq Range(p \o q)
<1> DEFINE S == Range(p) \cup Range(q)
<1>1. p \in Seq(S) /\ q \in Seq(S)
  BY DEF Apart
<1>2. \A i \in DOMAIN p : i \in DOMAIN (p \o q) /\ (p \o q)[i] = p[i]
  BY <1>1
<1>3. \A i \in DOMAIN q : Len(p) + i \in DOMAIN (p \o q) /\ (p \o q)[Len(p) + i] = q[i]
  BY <1>1
<1> QED
  BY <1>2, <1>3 DEF Range

LEMMA RoutersApart ==
  /\ \E names : Apart(routers, names)
  /\ Range(channelInfoRouter) \subseteq Routes /\ Range(channelRouter) \subseteq Routes
  /\ Range(subscriptionRouter) \subseteq Routes /\ Range(identityRouter) \subseteq Routes
  /\ Range(authenticationRouter) \subseteq Routes /\ Range(verificationRouter) \subseteq Routes
<1> DEFINE two == channelInfoRouter \o channelRouter
           three == two \o subscriptionRouter
           four == three \o identityRouter
           five == four \o authenticationRouter
           names2 == {"channel-info"} \cup {"channels"}
           names3 == names2 \cup {"subscriptions"}
           names4 == names3 \cup {"identities"}
           names5 == names4 \cup {"authentication"}
<1>1. Apart(two, names2)
  BY JoinedApart, ChannelInfoRouterApart, ChannelRouterApart DEF P
<1>2. Apart(three, names3)
  BY <1>1, JoinedApart, SubscriptionRouterApart DEF P
<1>3. Apart(four, names4)
  BY <1>2, JoinedApart, IdentityRouterApart DEF P
<1>4. Apart(five, names5)
  BY <1>3, JoinedApart, AuthenticationRouterApart DEF P
<1>5. Apart(five \o verificationRouter, names5 \cup {"verification"})
  BY <1>4, JoinedApart, VerificationRouterApart DEF P
<1>6. Range(channelInfoRouter) \subseteq Range(two) /\ Range(channelRouter) \subseteq Range(two)
  BY RangeJoined, ChannelInfoRouterApart, ChannelRouterApart
<1>7. Range(two) \subseteq Range(three) /\ Range(subscriptionRouter) \subseteq Range(three)
  BY <1>1, RangeJoined, SubscriptionRouterApart
<1>8. Range(three) \subseteq Range(four) /\ Range(identityRouter) \subseteq Range(four)
  BY <1>2, RangeJoined, IdentityRouterApart
<1>9. Range(four) \subseteq Range(five) /\ Range(authenticationRouter) \subseteq Range(five)
  BY <1>3, RangeJoined, AuthenticationRouterApart
<1>10. Range(five) \subseteq Routes /\ Range(verificationRouter) \subseteq Routes
  BY <1>4, RangeJoined, VerificationRouterApart DEF routers, Routes
<1>11. routers = five \o verificationRouter
  BY DEF routers
<1> HIDE DEF two, three, four, five
<1> QED
  BY <1>5, <1>6, <1>7, <1>8, <1>9, <1>10, <1>11

(* Every route is the one that serves its own line. *)
LEMMA OwnRoute ==
  ASSUME NEW r \in Routes
  PROVE  /\ Dispatch(r.line) = r
         /\ IsLine(r.line) /\ AsDocumented(r) /\ NoSuccess(r.handler.refusals)
<1>1. PICK names : Apart(routers, names)
  BY RoutersApart
<1>2. PICK i \in DOMAIN routers : r = routers[i]
  BY DEF Routes, Range
<1>3. IsLine(r.line) /\ AsDocumented(r) /\ NoSuccess(r.handler.refusals)
  BY <1>1, <1>2 DEF Apart
<1> DEFINE found == {j \in DOMAIN routers : Matches(routers[j].line, r.line)}
           first == CHOOSE j \in found : \A k \in found : j <= k
<1>4. i \in found
  BY <1>2, <1>3, MatchesItself
<1>5. found \in SUBSET Nat
  BY <1>1 DEF Apart
<1>6. \A j \in found : ~(j < i)
  BY <1>1, <1>2 DEF Apart
<1>7. first \in found /\ \A k \in found : first <= k
  BY <1>4, <1>5, Least
<1>8. first = i
  BY <1>4, <1>5, <1>6, <1>7
<1>9. Dispatch(r.line) = routers[first]
  BY <1>4 DEF Dispatch
<1> QED
  BY <1>2, <1>3, <1>8, <1>9

(* r is the route that the clients mean by line. *)
Meant(r, line) == r \in Routes /\ r.line = line /\ r.documented.line = line

LEMMA SdkRoutes ==
  /\ \A line \in (ChannelClient \cup IdentityClient) \ {ChannelReimport} :
       \E r \in Routes : Meant(r, line)
  /\ \A line \in {AuthenticateGetNonce, AuthenticatePost} :
       \E r \in Routes : Meant(r, line) /\ "auth" \notin Range(r.chain)
<1>1. /\ searchChannelInfoRoute \in Routes /\ getChannelInfoRoute \in Routes
      /\ addChannelInfoRoute \in Routes /\ updateChannelInfoRoute \in Routes
      /\ deleteChannelInfoRoute \in Routes
  BY RoutersApart DEF channelInfoRouter, Range
<1>2. /\ Meant(searchChannelInfoRoute, ChannelSearch) /\ Meant(getChannelInfoRoute, ChannelInfo)
      /\ Meant(addChannelInfoRoute, ChannelAdd) /\ Meant(updateChannelInfoRoute, ChannelUpdate)
      /\ Meant(deleteChannelInfoRoute, ChannelRemove)
  BY <1>1 DEF Meant, Route, searchChannelInfoRoute, getChannelInfoRoute, addChannelInfoRoute,
         updateChannelInfoRoute, deleteChannelInfoRoute, ChannelSearch, ChannelInfo, ChannelAdd,
         ChannelUpdate, ChannelRemove
<1>3. /\ createChannelRoute \in Routes /\ addLogRoute \in Routes /\ getLogsRoute \in Routes
      /\ getHistoryRoute \in Routes /\ validateLogsRoute \in Routes
  BY RoutersApart DEF channelRouter, Range
<1>4. /\ Meant(createChannelRoute, ChannelCreate) /\ Meant(addLogRoute, ChannelWrite)
      /\ Meant(getLogsRoute, ChannelRead) /\ Meant(getHistoryRoute, ChannelReadHistory)
      /\ Meant(validateLogsRoute, ChannelValidate)
  BY <1>3 DEF Meant, Route, createChannelRoute, addLogRoute, getLogsRoute, getHistoryRoute,
         validateLogsRoute, ChannelCreate, ChannelWrite, ChannelRead, ChannelReadHistory,
         ChannelValidate
<1>5. /\ getSubscriptionsRoute \in Routes /\ getSubscriptionByIdentityRoute \in Routes
      /\ requestSubscriptionRoute \in Routes /\ authorizeSubscriptionRoute \in Routes
      /\ revokeSubscriptionRoute \in Routes /\ addSubscriptionRoute \in Routes
      /\ updateSubscriptionRoute \in Routes /\ deleteSubscriptionRoute \in Routes
  BY RoutersApart DEF subscriptionRouter, Range
<1>6. /\ Meant(getSubscriptionsRoute, ChannelFindAllSubscriptions)
      /\ Meant(getSubscriptionByIdentityRoute, ChannelFindSubscription)
      /\ Meant(requestSubscriptionRoute, ChannelRequestSubscription)
      /\ Meant(authorizeSubscriptionRoute, ChannelAuthorizeSubscription)
      /\ Meant(revokeSubscriptionRoute, ChannelRevokeSubscription)
      /\ Meant(addSubscriptionRoute, ChannelAddSubscription)
      /\ Meant(updateSubscriptionRoute, ChannelUpdateSubscription)
      /\ Meant(deleteSubscriptionRoute, ChannelRemoveSubscription)
  BY <1>5 DEF Meant, Route, getSubscriptionsRoute, getSubscriptionByIdentityRoute,
         requestSubscriptionRoute, authorizeSubscriptionRoute, revokeSubscriptionRoute,
         addSubscriptionRoute, updateSubscriptionRoute, deleteSubscriptionRoute,
         ChannelFindAllSubscriptions, ChannelFindSubscription, ChannelRequestSubscription,
         ChannelAuthorizeSubscription, ChannelRevokeSubscription, ChannelAddSubscription,
         ChannelUpdateSubscription, ChannelRemoveSubscription
<1>7. /\ createIdentityRoute \in Routes /\ searchUsersRoute \in Routes
      /\ getUserRoute \in Routes /\ addUserRoute \in Routes /\ updateUserRoute \in Routes
      /\ deleteUserRoute \in Routes
  BY RoutersApart DEF identityRouter, Range
<1>8. /\ Meant(createIdentityRoute, IdentityCreate) /\ Meant(searchUsersRoute, IdentitySearch)
      /\ Meant(getUserRoute, IdentityFind) /\ Meant(addUserRoute, IdentityAdd)
      /\ Meant(updateUserRoute, IdentityUpdate) /\ Meant(deleteUserRoute, IdentityRemove)
  BY <1>7 DEF Meant, Route, createIdentityRoute, searchUsersRoute, getUserRoute, addUserRoute,
         updateUserRoute, deleteUserRoute, IdentityCreate, IdentitySearch, IdentityFind,
         IdentityAdd, IdentityUpdate, IdentityRemove
<1>9. /\ verifyJwtRoute \in Routes /\ getNonceRoute \in Routes /\ proveOwnershipRoute \in Routes
  BY RoutersApart DEF authenticationRouter, Range
<1>10. /\ Meant(verifyJwtRoute, IdentityVerifyJwt) /\ Meant(getNonceRoute, AuthenticateGetNonce)
       /\ Meant(proveOwnershipRoute, AuthenticatePost)
  BY <1>9 DEF Meant, Route, verifyJwtRoute, getNonceRoute, proveOwnershipRoute,
         IdentityVerifyJwt, AuthenticateGetNonce, AuthenticatePost
<1>11. /\ getLatestDocumentRoute \in Routes /\ addTrustedRootIdentityRoute \in Routes
       /\ getTrustedRootIdentitiesRoute \in Routes /\ removeTrustedRootIdentityRoute \in Routes
       /\ createVerifiableCredentialRoute \in Routes
       /\ checkVerifiableCredentialRoute \in Routes
       /\ revokeVerifiableCredentialRoute \in Routes
  BY RoutersApart DEF verificationRouter, Range
<1>12. /\ Meant(getLatestDocumentRoute, IdentityLatestDocument)
       /\ Meant(addTrustedRootIdentityRoute, IdentityAddTrustedAuthority)
       /\ Meant(getTrustedRootIdentitiesRoute, IdentityGetTrustedAuthorities)
       /\ Meant(removeTrustedRootIdentityRoute, IdentityRemoveTrustedAuthority)
       /\ Meant(createVerifiableCredentialRoute, IdentityCreateCredential)
       /\ Meant(checkVerifiableCredentialRoute, IdentityCheckCredential)
       /\ Meant(revokeVerifiableCredentialRoute, IdentityRevokeCredential)
  BY <1>11 DEF Meant, Route, getLatestDocumentRoute, addTrustedRootIdentityRoute,
         getTrustedRootIdentitiesRoute, removeTrustedRootIdentityRoute,
         createVerifiableCredentialRoute, checkVerifiableCredentialRoute,
         revokeVerifiableCredentialRoute, IdentityLatestDocument, IdentityAddTrustedAuthority,
         IdentityGetTrustedAuthorities, IdentityRemoveTrustedAuthority,
         IdentityCreateCredential, IdentityCheckCredential, IdentityRevokeCredential
<1>13. /\ "auth" \notin Range(getNonceRoute.chain)
       /\ "auth" \notin Range(proveOwnershipRoute.chain)
  BY NoAuth DEF Route, getNonceRoute, proveOwnershipRoute
<1>14. \A line \in ChannelClient \ {ChannelReimport} : \E r \in Routes : Meant(r, line)
  BY <1>2, <1>4, <1>6 DEF ChannelClient, Meant
<1>15. \A line \in IdentityClient : \E r \in Routes : Meant(r, line)
  BY <1>8, <1>10, <1>12 DEF IdentityClient, Meant
<1> QED
  BY <1>14, <1>15, <1>10, <1>13 DEF Meant

(* A call that is no divergence reaches the route meant, which asks for a token only
   if the client was told so, and succeeds with the status it was told. *)
Serves(r, call) ==
  /\ r \in Routes /\ r.documented.line = call.line
  /\ "auth" \in Range(r.chain) => call.token
  /\ call.success # 0 => r.handler.success = call.success
  /\ NoSuccess(r.handler.refusals)

LEMMA CallServed ==
  ASSUME NEW call \in Calls, call \notin Divergences
  PROVE  Serves(Dispatch(call.line), call)
<1>1. CASE \E line \in {AuthenticateGetNonce, AuthenticatePost} : call = Call(line, NoToken, 0)
  <2>1. PICK line \in {AuthenticateGetNonce, AuthenticatePost} : call = Call(line, NoToken, 0)
    BY <1>1
  <2>2. PICK r \in Routes : Meant(r, line) /\ "auth" \notin Range(r.chain)
    BY SdkRoutes
  <2>3. call.line = line /\ call.success = 0
    BY <2>1 DEF Call
  <2> QED
    BY <2>2, <2>3, OwnRoute DEF Serves, Meant
<1>2. CASE \E line \in ChannelClient \cup IdentityClient : call = Call(line, Token, 0)
  <2>1. PICK line \in ChannelClient \cup IdentityClient : call = Call(line, Token, 0)
    BY <1>2
  <2>2. line # ChannelReimport
    BY <2>1 DEF Divergences
  <2>3. PICK r \in Routes : Meant(r, line)
    BY <2>2, SdkRoutes
  <2>4. call.line = line /\ call.success = 0 /\ call.token
    BY <2>1 DEF Call, Token
  <2> QED
    BY <2>3, <2>4, OwnRoute DEF Serves, Meant
<1>3. CASE call \in DocumentedCalls
  <2>1. PICK r \in Routes :
          call = Call(r.documented.line, r.documented.token, r.documented.success)
    BY <1>3 DEF DocumentedCalls
  <2>2. /\ r.documented.line = r.line /\ r.documented.success = r.handler.success
        /\ "auth" \in Range(r.chain) => r.documented.token
    BY <2>1, OwnRoute DEF AsDocumented
  <2>3. /\ call.line = r.line /\ call.success = r.handler.success
        /\ call.token = r.documented.token
    BY <2>1, <2>2 DEF Call
  <2> QED
    BY <2>2, <2>3, OwnRoute DEF Serves
<1> QED
  BY <1>1, <1>2, <1>3 DEF Calls, SdkCalls

(* What an operation of the directory may still succeed with. *)
Leads(o, success) ==
  /\ o.pc \in {"name", "announce", "state", "subscription", "info", "add"} => success = 201
  /\ o.pc \in {"get", "search", "read", "write"} \cup Leaving => success = 200
  /\ o.pc = "done" /\ o.answer.status \in 200..299 => success = o.answer.status

LEMMA TellLeads ==
  ASSUME op \in [Slots -> Ops], NEW s \in Slots, NEW success, NEW answer \in Answers,
         Tell(s, answer), answer.status \in 200..299 => success = answer.status
  PROVE  Leads(op'[s], success) /\ \A t \in Slots : t # s => op'[t] = op[t]
<1>1. PICK o \in Ops : Set(s, o) /\ o.pc = "done" /\ o.answer = answer
  BY MovedTell
<1> QED
  BY <1>1, Moved DEF Leads, Leaving

LEMMA FinishLeads ==
  ASSUME op \in [Slots -> Ops], NEW s \in Slots, NEW success,
         NEW status \in {200, 201, 400, 401, 404, 409, 500}, Finish(s, status),
         status \in 200..299 => success = status
  PROVE  Leads(op'[s], success) /\ \A t \in Slots : t # s => op'[t] = op[t]
<1>1. PICK o \in Ops : Set(s, o) /\ o.pc = "done" /\ o.answer.status = status
  BY MovedFinish
<1> QED
  BY <1>1, Moved DEF Leads, Leaving

LEMMA GotoLeads ==
  ASSUME op \in [Slots -> Ops], NEW s \in Slots, NEW success, Leads(op[s], success),
         NEW label \in PCs, Goto(s, label),
         \/ op[s].pc = "name" /\ label = "announce"
         \/ op[s].pc = "state" /\ label = "subscription"
         \/ op[s].pc = "subscription" /\ label = "info"
         \/ op[s].pc = "read" /\ label = "write"
         \/ op[s].pc \in Leaving /\ label \in Leaving
  PROVE  Leads(op'[s], success) /\ \A t \in Slots : t # s => op'[t] = op[t]
<1>1. PICK o \in Ops : Set(s, o) /\ o.pc = label
  BY MovedGoto
<1> QED
  BY <1>1, Moved DEF Leads, Leaving

LEMMA StepLeads ==
  ASSUME DirectoryInv, NEW s \in Slots, DirectoryStep(s) \/ DirectoryFail(s), NEW success,
         Leads(op[s], success)
  PROVE  Leads(op'[s], success) /\ \A t \in Slots : t # s => op'[t] = op[t]
<1>1. op \in [Slots -> Ops]
  BY DEF DirectoryInv, DirectoryTypeOK
<1>2. CASE CheckName(s)
  BY <1>1, <1>2, GotoLeads, FinishLeads DEF CheckName, PCs
<1>3. CASE Announce(s)
  <2>1. op' = [op EXCEPT ![s].pc = "state", ![s].channel = announced + 1] /\ op[s].pc = "announce"
    BY <1>3 DEF Announce
  <2>2. op'[s].pc = "state" /\ \A t \in Slots : t # s => op'[t] = op[t]
    BY <1>1, <2>1 DEF Ops
  <2> QED
    BY <2>1, <2>2 DEF Leads, Leaving
<1>4. CASE AddState(s) \/ AddSubscription(s)
  BY <1>1, <1>4, GotoLeads DEF AddState, AddSubscription, PCs
<1>5. CASE AddInfo(s) \/ Add(s)
  <2>1. success = 201 /\ (Finish(s, 500) \/ Finish(s, 201))
    BY <1>5 DEF AddInfo, Add, Leads
  <2> QED
    BY <1>1, <2>1, FinishLeads
<1>6. CASE Get(s)
  <2>1. PICK answer \in Answers : answer = ChannelInfoFor(op[s].channel, op[s].user)
    BY <1>6, InfoForTyped DEF Get, DirectoryInv, OpsInv, OpInv
  <2>2. success = 200 /\ Tell(s, answer)
    BY <1>6, <2>1 DEF Get, Leads
  <2>3. answer.status \in {200, 500}
    BY <2>1 DEF ChannelInfoFor, NoAnswer
  <2> QED
    BY <1>1, <2>2, <2>3, TellLeads
<1>7. CASE Search(s)
  <2>1. PICK answer : Tell(s, answer) /\ answer.status = 200
    BY <1>7 DEF Search
  <2>2. op' = [op EXCEPT ![s].pc = "done", ![s].answer = answer] /\ success = 200
    BY <1>7, <2>1 DEF Search, Leads, Tell
  <2> QED
    BY <1>1, <2>1, <2>2 DEF Leads, Ops, Leaving
<1>8. CASE ReadForChange(s)
  BY <1>1, <1>8, GotoLeads, FinishLeads DEF ReadForChange, PCs
<1>9. CASE WriteChange(s)
  <2>1. success = 200 /\ (Finish(s, 200) \/ Finish(s, 404))
    BY <1>9 DEF WriteChange, Leads
  <2> QED
    BY <1>1, <2>1, FinishLeads
<1>10. CASE DirectoryFail(s)
  BY <1>1, <1>10, FinishLeads DEF DirectoryFail
<1>11. CASE leave(s)
  <2>1. op[s].pc \in Leaving /\ success = 200
    BY <1>11 DEF leave, ReadForUnsubscribe, Unsubscribe, ReadForRevoke, DropState,
                DropSubscription, Leads, Leaving
  <2>2. \/ \E status \in {200, 400, 401, 404, 500} : Finish(s, status)
        \/ \E label \in Leaving : Goto(s, label)
    BY <1>11 DEF leave, ReadForUnsubscribe, Unsubscribe, ReadForRevoke, DropState,
                DropSubscription, Leaving
  <2>3. CASE \E status \in {200, 400, 401, 404, 500} : Finish(s, status)
    BY <1>1, <2>1, <2>3, FinishLeads
  <2>4. CASE \E label \in Leaving : Goto(s, label)
    BY <1>1, <2>1, <2>4, GotoLeads DEF Leaving, PCs
  <2> QED
    BY <2>2, <2>3, <2>4
<1> QED
  BY <1>2, <1>3, <1>4, <1>5, <1>6, <1>7, <1>8, <1>9, <1>10, <1>11
     DEF DirectoryStep, create, change

(* What is done for a request is what its handler does. *)
LeadsOn(s) ==
  Pending(s) =>
    /\ req[s].call \in Calls
    /\ req[s].at # "handler" => op[s] = Idle
    /\ Leads(op[s], HandlerOf(s).success)
ServedInv == \A s \in Slots : LeadsOn(s)

LEMMA IdleLeads == \A success : Leads(Idle, success)
  BY IdleFields DEF Leads, Leaving

LEMMA SendLeads ==
  ASSUME GatewayInv, NEW s \in Slots, NEW call \in Calls, NEW sender \in Users,
         NEW key \in BOOLEAN, NEW token \in Tokens, NEW body \in Bodies,
         Send(s, call, sender, key, token, body)
  PROVE  LeadsOn(s)' /\ \A t \in Slots : t # s => req'[t] = req[t] /\ op'[t] = op[t]
<1> DEFINE r == [NoRequest EXCEPT !.call = call, !.sender = sender, !.key = key,
                                  !.token = token, !.body = body, !.by = "pending"]
<1>1. r.call = call
  BY DEF NoRequest
<1>2. Hold(s, r) /\ UNCHANGED directory /\ op[s] = Idle
  BY DEF Send, Hold
<1> HIDE DEF r
<1>3. /\ req'[s] = r /\ op'[s] = Idle
      /\ \A t \in Slots : t # s => req'[t] = req[t] /\ op'[t] = op[t]
  BY <1>2 DEF Hold, directory, GatewayInv, RequestsInv
<1> QED
  BY <1>1, <1>3, IdleLeads DEF LeadsOn

LEMMA AnswerEnds ==
  ASSUME req \in [Slots -> Requests], NEW s \in Slots, NEW part \in Parts, part # "pending",
         NEW status \in Nat, Answer(s, part, status)
  PROVE  /\ req'[s].by = part /\ req'[s].status = status
         /\ \A t \in Slots : t # s => req'[t] = req[t]
<1>1. PICK r \in Requests : Hold(s, r) /\ r.by = part /\ r.status = status
  BY AnswerHolds
<1> QED
  BY <1>1 DEF Hold

(* The middlewares that are called in one turn let the request go on, or one of them
   answers it. *)
LEMMA MiddlewaresEnd ==
  ASSUME RequestsInv, NEW s \in Slots, Middlewares(s)
  PROVE  \/ \E part \in MiddlewareNames, status \in Nat :
              /\ part \in Range(RouteOf(s).chain) /\ Result(req[s], part) # next
              /\ Answer(s, part, status)
         \/ /\ req'[s].call = req[s].call /\ req'[s].by = req[s].by
            /\ \A t \in Slots : t # s => req'[t] = req[t]
<1> DEFINE chain == RouteOf(s).chain
           refused == {i \in DOMAIN chain : Result(req[s], chain[i]) # next}
           first == CHOOSE i \in refused : \A j \in refused : i <= j
<1>1. req \in [Slots -> Requests] /\ chain \in Seq(MiddlewareNames)
  BY RouteOfBacked DEF Backed, SeesTo, RequestsInv
<1>2. CASE refused # {}
  <2>1. refused \in SUBSET Nat
    BY <1>1
  <2>2. first \in refused
    BY <1>2, <2>1, Least
  <2>3. first \in DOMAIN chain /\ Result(req[s], chain[first]) # next
    BY <2>2
  <2>4. PICK part \in MiddlewareNames : part = chain[first] /\ part \in Range(chain)
    <3>1. \A i \in DOMAIN chain : chain[i] \in MiddlewareNames
      BY <1>1
    <3>2. chain[first] \in Range(chain)
      BY <2>3 DEF Range
    <3> QED
      BY <2>3, <3>1, <3>2
  <2>5. PICK status \in Nat : status = Result(req[s], part)
    BY <1>1, Results
  <2>6. Answer(s, part, status)
    BY <1>2, <2>4, <2>5 DEF Middlewares
  <2> QED
    BY <2>3, <2>4, <2>6
<1>3. CASE refused = {}
  <2>1. PICK at, user : req' = [req EXCEPT ![s].at = at, ![s].user = user]
    BY <1>3 DEF Middlewares
  <2> QED
    BY <1>1, <2>1 DEF Requests
<1> QED
  BY <1>2, <1>3

LEMMA MiddlewareLeads ==
  ASSUME GatewayInv, ServedInv, NEW s \in Slots, Middleware(s)
  PROVE  LeadsOn(s)' /\ \A t \in Slots : t # s => req'[t] = req[t] /\ op'[t] = op[t]
<1>1. /\ req \in [Slots -> Requests] /\ RequestsInv /\ LeadsOn(s) /\ Pending(s)
      /\ op' = op
  BY DEF GatewayInv, RequestsInv, ServedInv, Middleware, directory
<1>2. ASSUME NEW part \in Parts, part # "pending", NEW status \in Nat, Answer(s, part, status)
      PROVE  LeadsOn(s)' /\ \A t \in Slots : t # s => req'[t] = req[t] /\ op'[t] = op[t]
  BY <1>1, <1>2, AnswerEnds DEF LeadsOn, Pending
<1>3. ASSUME op[s] = Idle, req'[s].call = req[s].call,
             \A t \in Slots : t # s => req'[t] = req[t]
      PROVE  LeadsOn(s)' /\ \A t \in Slots : t # s => req'[t] = req[t] /\ op'[t] = op[t]
  BY <1>1, <1>3, IdleLeads DEF LeadsOn
<1>4. CASE NotFound(s)
  BY <1>2, <1>4 DEF NotFound, Parts
<1>5. CASE Middlewares(s)
  <2>1. op[s] = Idle
    BY <1>1, <1>5 DEF LeadsOn, Middlewares
  <2> QED
    BY <1>1, <1>2, <1>3, <1>5, <2>1, MiddlewaresEnd DEF MiddlewareNames, Parts
<1>6. CASE lock(s)
  <2>1. op[s] = Idle
    BY <1>1, <1>6 DEF LeadsOn, lock
  <2>2. CASE \E status \in {423, 500} : Answer(s, "lock", status)
    BY <1>2, <2>2 DEF Parts
  <2>3. CASE req' = [req EXCEPT ![s].at = "handler", ![s].locked = TRUE]
    BY <1>1, <1>3, <2>1, <2>3 DEF Requests
  <2> QED
    BY <1>6, <2>2, <2>3 DEF lock
<1> QED
  BY <1>4, <1>5, <1>6 DEF Middleware

LEMMA HandlerSucceeds ==
  /\ createChannel.success = 201 /\ addChannelInfo.success = 201
  /\ searchChannelInfo.success = 200 /\ getChannelInfo.success = 200
  /\ updateChannelInfo.success = 200 /\ deleteChannelInfo.success = 200
  /\ deleteSubscription.success = 200 /\ revokeSubscription.success = 200
  BY DEF createChannel, addChannelInfo, searchChannelInfo, getChannelInfo, updateChannelInfo,
         deleteChannelInfo, deleteSubscription, revokeSubscription, Handler

(* An operation begins with what its handler may succeed with. *)
LEMMA HandleLeads ==
  ASSUME GatewayInv, ServedInv, NEW s \in Slots, HandleDirectory(s)
  PROVE  LeadsOn(s)' /\ \A t \in Slots : t # s => req'[t] = req[t] /\ op'[t] = op[t]
<1>1. /\ op \in [Slots -> Ops] /\ announced \in 0..MaxChannels /\ LeadsOn(s)
      /\ subs \subseteq Channels \X Users
      /\ Pending(s) /\ req[s].at = "handler" /\ req' = req
  BY DEF GatewayInv, DirectoryInv, DirectoryTypeOK, ServedInv, HandleDirectory, AtHandler
<1>2. PICK u \in Users \cup {NoUser} : u = req[s].user
  BY DEF GatewayInv, RequestsInv, Requests
<1> DEFINE success == HandlerOf(s).success
<1>3. \E q \in Ops :
        \/ success = 201 /\ Begin(s, u, "name", q)
        \/ success = 201 /\ Begin(s, u, "add", q)
        \/ success = 200 /\ Begin(s, u, "get", q)
        \/ success = 200 /\ Begin(s, u, "search", q)
        \/ success = 200 /\ Begin(s, u, "read", q)
        \/ success = 200 /\ Begin(s, u, "leave", q)
        \/ success = 200 /\ Begin(s, u, "revoke", q)
  BY <1>1, <1>2, Starts, HandlerSucceeds DEF HandleDirectory
<1>4. PICK q \in Ops, label \in PCs :
        /\ Begin(s, u, label, q)
        /\ \/ label \in {"name", "add"} /\ success = 201
           \/ label \in {"get", "search", "read", "leave", "revoke"} /\ success = 200
  BY <1>3 DEF PCs
<1>5. PICK o \in Ops : Set(s, o) /\ o.pc = label
  BY <1>1, <1>4, MovedBegin
<1>6. Leads(o, success)
  BY <1>4, <1>5 DEF Leads, Leaving
<1>7. op'[s] = o /\ \A t \in Slots : t # s => op'[t] = op[t]
  BY <1>1, <1>5, Moved
<1>8. HandlerOf(s)' = HandlerOf(s)
  BY <1>1 DEF HandlerOf, RouteOf
<1> QED
  BY <1>1, <1>6, <1>7, <1>8 DEF LeadsOn

LEMMA SameLeads ==
  ASSUME NEW t \in Slots, LeadsOn(t), req'[t] = req[t], op'[t] = op[t] \/ op'[t] = Idle
  PROVE  LeadsOn(t)'
  BY IdleLeads DEF LeadsOn, Pending, HandlerOf, RouteOf

(* Only slot s is touched, and its request led on or answered. *)
LEMMA OneLeads ==
  ASSUME ServedInv, NEW s \in Slots, LeadsOn(s)',
         \A t \in Slots : t # s => req'[t] = req[t] /\ op'[t] = op[t]
  PROVE  ServedInv'
  BY SameLeads DEF ServedInv

LEMMA ServedStep ==
  ASSUME GatewayInv, ServedInv, [Next]_vars
  PROVE  ServedInv'
<1>1. /\ req \in [Slots -> Requests] /\ op \in [Slots -> Ops] /\ DirectoryInv
  BY DEF GatewayInv, RequestsInv, DirectoryInv, DirectoryTypeOK
<1>2. ASSUME NEW s \in Slots, NEW call \in Calls, NEW sender \in Users, NEW key \in BOOLEAN,
             NEW token \in Tokens, NEW body \in Bodies,
             Send(s, call, sender, key, token, body)
      PROVE  ServedInv'
  BY <1>2, SendLeads, OneLeads
<1>3. ASSUME NEW s \in Slots, Middleware(s)
      PROVE  ServedInv'
  BY <1>3, MiddlewareLeads, OneLeads
<1>4. ASSUME NEW s \in Slots, NEW part \in Parts, part # "pending", NEW status \in Nat,
             Answer(s, part, status), op' = op
      PROVE  ServedInv'
  BY <1>1, <1>4, AnswerEnds, OneLeads DEF LeadsOn, Pending
<1>5. ASSUME NEW s \in Slots, Handle(s)
      PROVE  ServedInv'
  <2>1. PICK status \in Nat : Answer(s, "handler", status)
    BY <1>1, <1>5, RouteOfBacked DEF Handle, Backed, HandlerOf
  <2> QED
    BY <1>4, <1>5, <2>1 DEF Parts, Handle, directory
<1>6. ASSUME NEW s \in Slots, HandleDirectory(s)
      PROVE  ServedInv'
  BY <1>6, HandleLeads, OneLeads
<1>7. ASSUME NEW s \in Slots, AnswerDirectory(s)
      PROVE  ServedInv'
  <2>1. op'[s] = Idle /\ \A t \in Slots : t # s => op'[t] = op[t]
    BY <1>1, <1>7 DEF AnswerDirectory
  <2>2. LeadsOn(s)' /\ \A t \in Slots : t # s => req'[t] = req[t]
    <3>1. CASE Pending(s)
      <4>1. PICK status \in Nat : status = op[s].answer.status
        BY <1>1 DEF Ops, Answers
      <4>2. Answer(s, "handler", status)
        BY <1>7, <3>1, <4>1 DEF AnswerDirectory
      <4> QED
        BY <1>1, <4>2, AnswerEnds DEF LeadsOn, Pending, Parts
    <3>2. CASE ~Pending(s)
      BY <1>7, <3>2 DEF AnswerDirectory, LeadsOn, Pending
    <3> QED
      BY <3>1, <3>2
  <2> QED
    BY <2>1, <2>2, OneLeads
<1>8. ASSUME NEW s \in Slots, DirectoryStep(s) \/ DirectoryFail(s), req' = req
      PROVE  ServedInv'
  <2>1. \A t \in Slots : t # s => op'[t] = op[t]
    <3>1. \E success : Leads(op[s], success)
      BY DEF Leads, Leaving
    <3> QED
      BY <1>1, <1>8, <3>1, StepLeads
  <2>2. ASSUME Pending(s)
        PROVE  op[s] # Idle /\ Leads(op'[s], HandlerOf(s).success)
    <3>1. op[s].pc # "idle"
      BY <1>8 DEF DirectoryStep, DirectoryFail, create, change, CheckName, Announce, AddState,
                  AddSubscription, AddInfo, Get, Search, Add, ReadForChange, WriteChange, leave,
                  ReadForUnsubscribe, Unsubscribe, ReadForRevoke, DropState, DropSubscription
    <3>2. Leads(op[s], HandlerOf(s).success)
      BY <2>2 DEF ServedInv, LeadsOn
    <3> QED
      BY <1>1, <1>8, <3>1, <3>2, StepLeads, IdleFields
  <2>3. HandlerOf(s)' = HandlerOf(s) /\ (Pending(s)' <=> Pending(s))
    BY <1>8 DEF HandlerOf, RouteOf, Pending
  <2>4. LeadsOn(s)'
    BY <1>8, <2>2, <2>3 DEF ServedInv, LeadsOn
  <2> QED
    BY <1>8, <2>1, <2>4, OneLeads
<1>9. ASSUME NEW paths, Crash(paths)
      PROVE  ServedInv'
  <2>1. \A t \in Slots : /\ op'[t] = Idle \/ op'[t] = op[t]
                         /\ req'[t] = NoRequest \/ req'[t] = req[t]
    BY <1>9 DEF Crash
  <2>2. ASSUME NEW t \in Slots
        PROVE  LeadsOn(t)'
    <3>1. CASE req'[t] = NoRequest
      BY <3>1, NoRequestFields DEF LeadsOn, Pending
    <3>2. CASE req'[t] = req[t]
      BY <2>1, <3>2, SameLeads DEF ServedInv
    <3> QED
      BY <2>1, <3>1, <3>2
  <2> QED
    BY <2>2 DEF ServedInv
<1>10. ASSUME NEW s \in Slots, Disconnect(s)
       PROVE  ServedInv'
  BY <1>4, <1>10 DEF Disconnect, directory, Parts
<1>11. CASE UNCHANGED vars
  BY <1>11, SameLeads DEF vars, directory, ServedInv
<1> QED
  BY <1>2, <1>3, <1>5, <1>6, <1>7, <1>8, <1>9, <1>10, <1>11 DEF Next, Serve, Work, Fail

(* No middleware turns away who does as she was told. *)
LEMMA NoneRefuses ==
  ASSUME NEW r, NEW route, AsTold(r), Serves(route, r.call), NEW part \in MiddlewareNames,
         part \in Range(route.chain)
  PROVE  Result(r, part) = next
<1>1. CASE part = "auth"
  <2>1. r.token = "valid"
    BY <1>1 DEF AsTold, Serves
  <2> QED
    BY <1>1, <2>1 DEF Result, isAuth
<1>2. CASE part # "auth"
  <2>1. hasValidApiKey(r) = next /\ validate(r) = next /\ mongodbSanitizer(r) = next
    BY DEF AsTold, hasValidApiKey, validate, mongodbSanitizer
  <2> QED
    BY <1>2, <2>1 DEF Result, MiddlewareNames
<1> QED
  BY <1>1, <1>2

(* How a request of such a client may end: the lock, its handler, or nowhere. *)
EndsWell(s) ==
  \/ req'[s].by \in {"lock", "connection"}
  \/ /\ req'[s].by = "handler"
     /\ req'[s].status \in 200..299 => req'[s].status = HandlerOf(s).success

LEMMA ServedEnd ==
  ASSUME GatewayInv, ServedInv, [Next]_vars, NEW s \in Slots, Pending(s), ~Pending(s)',
         AsTold(req[s]), Serves(RouteOf(s), req[s].call)
  PROVE  EndsWell(s)
<1>1. /\ req \in [Slots -> Requests] /\ op \in [Slots -> Ops] /\ RequestsInv /\ DirectoryInv
  BY DEF GatewayInv, RequestsInv, DirectoryInv, DirectoryTypeOK
<1>2. CASE Middleware(s)
  <2>1. ~NotFound(s)
    <3>1. ~IsLine(NoRoute.line)
      BY DEF NoRoute, Route, IsLine
    <3> QED
      BY <3>1, OwnRoute DEF NotFound, Serves
  <2>2. CASE Middlewares(s)
    <3>1. \A part \in MiddlewareNames, status \in Nat :
            ~(/\ part \in Range(RouteOf(s).chain) /\ Result(req[s], part) # next
              /\ Answer(s, part, status))
      BY NoneRefuses
    <3> QED
      BY <1>1, <2>2, <3>1, MiddlewaresEnd DEF Pending
  <2>3. CASE lock(s)
    <3>1. CASE \E status \in {423, 500} : Answer(s, "lock", status)
      BY <1>1, <3>1, AnswerEnds DEF Parts, EndsWell
    <3>2. CASE req' = [req EXCEPT ![s].at = "handler", ![s].locked = TRUE]
      BY <1>1, <3>2 DEF Pending, Requests
    <3> QED
      BY <2>3, <3>1, <3>2 DEF lock
  <2> QED
    BY <1>2, <2>1, <2>2, <2>3 DEF Middleware
<1>3. CASE Handle(s)
  <2>1. PICK status \in Nat : /\ Answer(s, "handler", status)
                              /\ status \in {HandlerOf(s).success, 500} \cup HandlerOf(s).refusals
    BY <1>1, <1>3, RouteOfBacked DEF Handle, Backed, HandlerOf
  <2>2. status \in 200..299 => status = HandlerOf(s).success
    BY <2>1 DEF Serves, NoSuccess, HandlerOf
  <2> QED
    BY <1>1, <2>1, <2>2, AnswerEnds DEF Parts, EndsWell
<1>4. CASE AnswerDirectory(s)
  <2>1. PICK status \in Nat : status = op[s].answer.status
    BY <1>1 DEF Ops, Answers
  <2>2. Answer(s, "handler", status)
    BY <1>4, <2>1 DEF AnswerDirectory
  <2>3. status \in 200..299 => status = HandlerOf(s).success
    BY <1>4, <2>1 DEF AnswerDirectory, ServedInv, LeadsOn, Leads
  <2> QED
    BY <1>1, <2>2, <2>3, AnswerEnds DEF Parts, EndsWell
<1>5. CASE Disconnect(s)
  BY <1>1, <1>5, AnswerEnds DEF Disconnect, Parts, EndsWell
<1>6. CASE \E paths : Crash(paths)
  <2>1. req'[s] = NoRequest \/ req'[s] = req[s]
    BY <1>6 DEF Crash
  <2> QED
    BY <2>1, NoRequestFields DEF Pending, EndsWell
<1>7. req'[s] # req[s]
  BY DEF Pending
<1>8. ASSUME NEW t \in Slots, t # s
      PROVE  /\ ~Middleware(t) /\ ~Handle(t) /\ ~AnswerDirectory(t) /\ ~Disconnect(t)
             /\ \A call, sender, key, token, body : ~Send(t, call, sender, key, token, body)
  <2>1. \A part, status : ~Answer(t, part, status)
    BY <1>1, <1>7, <1>8 DEF Answer
  <2>2. ~Middleware(t)
    BY <1>1, <1>7, <1>8, <2>1 DEF Middleware, NotFound, Middlewares, lock
  <2> QED
    BY <1>1, <1>7, <1>8, <2>1, <2>2 DEF Handle, AnswerDirectory, Disconnect, Send
<1>9. /\ ~HandleDirectory(s) /\ \A call, sender, key, token, body :
                                  ~Send(s, call, sender, key, token, body)
      /\ req' # req
  BY <1>7 DEF HandleDirectory, Send
<1>10. \A t \in Slots : ~HandleDirectory(t) /\ ~Fail(t) /\ ~UNCHANGED <<req, sent>>
  BY <1>9 DEF HandleDirectory, Fail
<1> QED
  BY <1>2, <1>3, <1>4, <1>5, <1>6, <1>8, <1>9, <1>10 DEF Next, Serve, Work, vars

(* A client that does as it was told is served as it was told, by the lock's leave. *)
THEOREM CallsAreServed == Spec => CallsServed
<1>1. GatewayInit => ServedInv
  BY NoRequestFields DEF GatewayInit, ServedInv, LeadsOn, Pending
<1>2. GatewayInv /\ ServedInv /\ [Next]_vars => ServedInv'
  BY ServedStep
<1>3. ASSUME GatewayInv, ServedInv, [Next]_vars, NEW s \in Slots, Pending(s), AsTold(req[s]),
             ~Pending(s)'
      PROVE  /\ req'[s].by \notin {"route", "apiKey", "auth", "validate", "sanitize"}
             /\ RouteOf(s).documented.line = req[s].call.line
             /\ req'[s].by = "handler" /\ req'[s].status \in 200..299 /\ req[s].call.success # 0
                  => req'[s].status = req[s].call.success
  <2>1. req[s].call \in Calls /\ req[s].call \notin Divergences
    BY <1>3 DEF ServedInv, LeadsOn, AsTold
  <2>2. RouteOf(s) = Dispatch(req[s].call.line)
    BY <2>1 DEF RouteOf, RouteTo
  <2>3. Serves(RouteOf(s), req[s].call)
    BY <2>1, <2>2, CallServed
  <2>4. EndsWell(s)
    BY <1>3, <2>3, ServedEnd
  <2> QED
    BY <2>3, <2>4 DEF EndsWell, Serves, HandlerOf
<1>4. GatewayInv /\ ServedInv /\ [Next]_vars =>
        \A s \in Slots : Pending(s) /\ AsTold(req[s]) /\ ~Pending(s)' =>
          /\ req'[s].by \notin {"route", "apiKey", "auth", "validate", "sanitize"}
          /\ RouteOf(s).documented.line = req[s].call.line
          /\ req'[s].by = "handler" /\ req'[s].status \in 200..299 /\ req[s].call.success # 0
               => req'[s].status = req[s].call.success
  BY <1>3
<1> QED
  BY <1>1, <1>2, <1>4, GatewayInvariant, PTL DEF Spec, CallsServed
==============================================================================

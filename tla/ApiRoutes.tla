------------------------------ MODULE ApiRoutes ------------------------------
(***************************************************************************)
(* The routes of the two servers, audit-trail-gw and ssi-bridge: what each *)
(* router registers, and what its @openapi comment says of it.             *)
(*                                                                         *)
(* A request line is a method and a path, in which P is a parameter.  A    *)
(* chain is what the request goes through before its handler: apiKey, auth *)
(* (isAuth), validate, sanitize (mongodbSanitizer), and lock (channelLock, *)
(* or basicLock with the CredentialLock).                                  *)
(***************************************************************************)
EXTENDS Naturals, Sequences

P == "parameter"

(* What a handler answers, 500 apart, and what it relies on: "user", that
   req.user is set; "clean", that the body, which goes into a document or a
   query, is valid and without operators; "lock", that nobody else changes the
   state of the user's subscription, or the root's identity document. *)
Handler(name, success, refusals, needs) ==
  [name |-> name, success |-> success, refusals |-> refusals, needs |-> needs]

Token == TRUE
NoToken == FALSE

(* token, success: what the comment says of BearerAuth, and of the answer; it
   asks for the api key everywhere (routers/swagger.ts). *)
Route(line, chain, handler, token, success) ==
  [line |-> line, chain |-> chain, handler |-> handler,
   documented |-> [line |-> line, token |-> token, success |-> success]]

------------------------------------------------------------------------------
(* Handlers *)

searchChannelInfo == Handler("searchChannelInfo", 200, {}, {"user"})
getChannelInfo == Handler("getChannelInfo", 200, {400}, {"user"})
addChannelInfo == Handler("addChannelInfo", 201, {404}, {"user", "clean"})
updateChannelInfo == Handler("updateChannelInfo", 200, {404}, {"user", "clean"})
deleteChannelInfo == Handler("deleteChannelInfo", 200, {400}, {"user"})
createChannel == Handler("createChannel", 201, {400, 409}, {"user", "clean"})
addLog == Handler("addLog", 200, {400}, {"user", "clean", "lock"})
getLogs == Handler("getLogs", 200, {400}, {"user", "lock"})
getHistory == Handler("getHistory", 200, {400}, {})
validateLogs == Handler("validateLogs", 200, {400}, {"user"})
reimport == Handler("reimport", 200, {400}, {"user", "lock"})
getSubscriptionState == Handler("getSubscriptionState", 200, {400}, {"user"})
updateSubscriptionState == Handler("updateSubscriptionState", 200, {400}, {"user", "clean"})
getSubscriptions == Handler("getSubscriptions", 200, {400}, {})
getSubscriptionByIdentity == Handler("getSubscriptionByIdentity", 200, {400}, {})
requestSubscription == Handler("requestSubscription", 201, {400}, {"user", "clean", "lock"})
authorizeSubscription == Handler("authorizeSubscription", 200, {400}, {"user", "clean", "lock"})
revokeSubscription == Handler("revokeSubscription", 200, {400}, {"user", "clean", "lock"})
addSubscription == Handler("addSubscription", 201, {400}, {"clean"})
updateSubscription == Handler("updateSubscription", 200, {400, 401, 404}, {"user", "clean"})
deleteSubscription == Handler("deleteSubscription", 200, {400, 401, 404}, {"user"})
createIdentity == Handler("createIdentity", 201, {409}, {"clean"})
getKeyPair == Handler("getKeyPair", 200, {400}, {})
searchUsers == Handler("searchUsers", 200, {}, {})
getUser == Handler("getUser", 200, {400}, {"user"})
addUser == Handler("addUser", 201, {404, 409}, {"clean"})
updateUser == Handler("updateUser", 200, {404}, {"user", "clean"})
deleteUser == Handler("deleteUser", 200, {400}, {"user"})
getNonce == Handler("getNonce", 200, {400}, {})
proveOwnership == Handler("proveOwnership", 200, {400}, {})
verifyJwt == Handler("verifyJwt", 200, {}, {})
getLatestDocument == Handler("getLatestDocument", 200, {400}, {})
addTrustedRootIdentity == Handler("addTrustedRootIdentity", 200, {401}, {"user", "clean"})
getTrustedRootIdentities == Handler("getTrustedRootIdentities", 200, {}, {})
removeTrustedRootIdentity == Handler("removeTrustedRootIdentity", 200, {400, 401}, {"user"})
createVerifiableCredential == Handler("createVerifiableCredential", 200, {}, {"user", "clean", "lock"})
checkVerifiableCredential == Handler("checkVerifiableCredential", 200, {}, {"clean"})
checkVerifiablePresentation == Handler("checkVerifiablePresentation", 200, {400}, {"clean"})
revokeVerifiableCredential == Handler("revokeVerifiableCredential", 200, {}, {"user", "clean", "lock"})

------------------------------------------------------------------------------
(* Routes *)

(* audit-trail-gw: /channel-info *)
searchChannelInfoRoute == Route(<<"GET", "channel-info", "search">>,
  <<"apiKey", "auth">>, searchChannelInfo, Token, 200)
getChannelInfoRoute == Route(<<"GET", "channel-info", "channel", P>>,
  <<"apiKey", "auth">>, getChannelInfo, NoToken, 200)
addChannelInfoRoute == Route(<<"POST", "channel-info", "channel">>,
  <<"apiKey", "auth", "validate", "sanitize">>, addChannelInfo, Token, 201)
(* A plausible bug: whoever has the api key may change what is listed. *)
updateChannelInfoRouteOpen == Route(<<"PUT", "channel-info", "channel">>,
  <<"apiKey", "validate", "sanitize">>, updateChannelInfo, Token, 200)

updateChannelInfoRoute == Route(<<"PUT", "channel-info", "channel">>,
  <<"apiKey", "auth", "validate", "sanitize">>, updateChannelInfo, Token, 200)

deleteChannelInfoRoute == Route(<<"DELETE", "channel-info", "channel", P>>,
  <<"apiKey", "auth">>, deleteChannelInfo, Token, 200)

(* audit-trail-gw: /channels *)
createChannelRoute == Route(<<"POST", "channels", "create">>,
  <<"apiKey", "auth", "validate", "sanitize">>, createChannel, Token, 201)
addLogRoute == Route(<<"POST", "channels", "logs", P>>,
  <<"apiKey", "auth", "validate", "sanitize", "lock">>, addLog, Token, 200)
getLogsRoute == Route(<<"GET", "channels", "logs", P>>,
  <<"apiKey", "auth", "lock">>, getLogs, Token, 200)
getHistoryRoute == Route(<<"GET", "channels", "history", P>>,
  <<"apiKey">>, getHistory, NoToken, 200)
validateLogsRoute == Route(<<"POST", "channels", "validate", P>>,
  <<"apiKey", "auth", "validate", "sanitize", "lock">>, validateLogs, Token, 200)
reimportRoute == Route(<<"POST", "channels", "re-import", P>>,
  <<"apiKey", "auth", "sanitize", "lock">>, reimport, Token, 200)

(* audit-trail-gw: /subscriptions *)
getSubscriptionStateRoute == Route(<<"GET", "subscriptions", "state", P>>,
  <<"apiKey", "auth">>, getSubscriptionState, Token, 200)
updateSubscriptionStateRoute == Route(<<"PUT", "subscriptions", "state", P>>,
  <<"apiKey", "validate", "auth", "sanitize">>, updateSubscriptionState, Token, 200)
getSubscriptionsRoute == Route(<<"GET", "subscriptions", P>>,
  <<"apiKey", "auth">>, getSubscriptions, Token, 200)
getSubscriptionByIdentityRoute == Route(<<"GET", "subscriptions", P, P>>,
  <<"apiKey", "auth">>, getSubscriptionByIdentity, Token, 200)
requestSubscriptionRoute == Route(<<"POST", "subscriptions", "request", P>>,
  <<"apiKey", "auth", "validate", "sanitize", "lock">>, requestSubscription, Token, 201)
authorizeSubscriptionRoute == Route(<<"POST", "subscriptions", "authorize", P>>,
  <<"apiKey", "auth", "validate", "sanitize", "lock">>, authorizeSubscription, Token, 200)
revokeSubscriptionRoute == Route(<<"POST", "subscriptions", "revoke", P>>,
  <<"apiKey", "auth", "validate", "sanitize", "lock">>, revokeSubscription, Token, 200)
addSubscriptionRoute == Route(<<"POST", "subscriptions", P, P>>,
  <<"apiKey", "validate", "auth", "sanitize">>, addSubscription, Token, 201)
updateSubscriptionRoute == Route(<<"PUT", "subscriptions", P, P>>,
  <<"apiKey", "validate", "auth", "sanitize">>, updateSubscription, Token, 200)
deleteSubscriptionRoute == Route(<<"DELETE", "subscriptions", P, P>>,
  <<"apiKey", "auth">>, deleteSubscription, Token, 200)

(* ssi-bridge: /identities *)
createIdentityRoute == Route(<<"POST", "identities", "create">>,
  <<"apiKey", "validate", "sanitize">>, createIdentity, Token, 201)
getKeyPairRoute ==
  [Route(<<"GET", "identities", "key-pair">>, <<"apiKey", "sanitize">>, getKeyPair, Token, 200)
     EXCEPT !.documented.line = <<"POST", "identities", "key-pair">>]
searchUsersRoute == Route(<<"GET", "identities", "search">>,
  <<"apiKey", "auth">>, searchUsers, Token, 200)
getUserRoute == Route(<<"GET", "identities", "identity", P>>,
  <<"apiKey", "auth">>, getUser, NoToken, 200)
addUserRoute == Route(<<"POST", "identities", "identity">>,
  <<"apiKey", "validate", "sanitize">>, addUser, NoToken, 200)
updateUserRoute == Route(<<"PUT", "identities", "identity">>,
  <<"apiKey", "auth", "validate", "sanitize">>, updateUser, Token, 200)
deleteUserRoute == Route(<<"DELETE", "identities", "identity", P>>,
  <<"apiKey", "auth">>, deleteUser, Token, 200)

(* ssi-bridge: /authentication *)
getNonceRoute == Route(<<"GET", "authentication", "prove-ownership", P>>,
  <<"apiKey">>, getNonce, NoToken, 200)
proveOwnershipRoute == Route(<<"POST", "authentication", "prove-ownership", P>>,
  <<"apiKey", "sanitize", "validate">>, proveOwnership, NoToken, 200)
verifyJwtRoute == Route(<<"POST", "authentication", "verify-jwt">>,
  <<"apiKey", "sanitize", "validate">>, verifyJwt, NoToken, 200)

(* ssi-bridge: /verification *)
getLatestDocumentRoute == Route(<<"GET", "verification", "latest-document", P>>,
  <<"apiKey">>, getLatestDocument, NoToken, 200)
addTrustedRootIdentityRoute == Route(<<"POST", "verification", "trusted-roots">>,
  <<"apiKey", "auth", "validate", "sanitize">>, addTrustedRootIdentity, Token, 200)
getTrustedRootIdentitiesRoute == Route(<<"GET", "verification", "trusted-roots">>,
  <<"apiKey">>, getTrustedRootIdentities, NoToken, 200)
removeTrustedRootIdentityRoute == Route(<<"DELETE", "verification", "trusted-roots", P>>,
  <<"apiKey", "auth">>, removeTrustedRootIdentity, Token, 200)
createVerifiableCredentialRoute == Route(<<"POST", "verification", "create-credential">>,
  <<"apiKey", "auth", "validate", "sanitize", "lock">>, createVerifiableCredential, Token, 200)
checkVerifiableCredentialRoute == Route(<<"POST", "verification", "check-credential">>,
  <<"apiKey", "validate", "sanitize">>, checkVerifiableCredential, NoToken, 200)
checkVerifiablePresentationRoute == Route(<<"POST", "verification", "check-presentation">>,
  <<"apiKey", "validate", "sanitize">>, checkVerifiablePresentation, NoToken, 200)
revokeVerifiableCredentialRoute == Route(<<"POST", "verification", "revoke-credential">>,
  <<"apiKey", "auth", "validate", "sanitize", "lock">>, revokeVerifiableCredential, Token, 200)

------------------------------------------------------------------------------
(* Routers, in the order of registration. *)

channelInfoRouter ==
  <<searchChannelInfoRoute, getChannelInfoRoute, addChannelInfoRoute,
    updateChannelInfoRoute, deleteChannelInfoRoute>>
channelRouter ==
  <<createChannelRoute, addLogRoute, getLogsRoute, getHistoryRoute, validateLogsRoute,
    reimportRoute>>
subscriptionRouter ==
  <<getSubscriptionStateRoute, updateSubscriptionStateRoute, getSubscriptionsRoute,
    getSubscriptionByIdentityRoute, requestSubscriptionRoute,
    authorizeSubscriptionRoute, revokeSubscriptionRoute, addSubscriptionRoute,
    updateSubscriptionRoute, deleteSubscriptionRoute>>
identityRouter ==
  <<createIdentityRoute, getKeyPairRoute, searchUsersRoute, getUserRoute, addUserRoute,
    updateUserRoute, deleteUserRoute>>
authenticationRouter ==
  <<getNonceRoute, proveOwnershipRoute, verifyJwtRoute>>
verificationRouter ==
  <<getLatestDocumentRoute, addTrustedRootIdentityRoute, getTrustedRootIdentitiesRoute,
    removeTrustedRootIdentityRoute, createVerifiableCredentialRoute,
    checkVerifiableCredentialRoute, checkVerifiablePresentationRoute,
    revokeVerifiableCredentialRoute>>

Range(f) == {f[i] : i \in DOMAIN f}

Matches(line, path) ==
  /\ Len(line) = Len(path)
  /\ \A i \in DOMAIN line : line[i] \in {P, path[i]}

(* A plausible bug: the routes with the most parameters come first. *)
routersReversed ==
  LET r == subscriptionRouter IN
  channelInfoRouter \o channelRouter \o [i \in DOMAIN r |-> r[Len(r) + 1 - i]]
    \o identityRouter \o authenticationRouter \o verificationRouter

routers ==
  channelInfoRouter \o channelRouter \o subscriptionRouter
    \o identityRouter \o authenticationRouter \o verificationRouter

Routes == Range(routers)

(* The first route that matches; none is answered with 404. *)
NoRoute == Route(<<>>, <<>>, Handler("none", 404, {}, {}), NoToken, 404)
Dispatch(path) ==
  LET found == {i \in DOMAIN routers : Matches(routers[i].line, path)} IN
  IF found = {} THEN NoRoute
  ELSE routers[CHOOSE i \in found : \A j \in found : i <= j]

==============================================================================

------------------------------- MODULE SdkCalls -------------------------------
(***************************************************************************)
(* What the clients of clients/client-sdk send: the request line of every  *)
(* method of ChannelClient and IdentityClient, and of the two calls of     *)
(* BaseClient.authenticate.                                                *)
(*                                                                         *)
(* post, get, put and delete of BaseClient send the api key they are given *)
(* and, once authenticate has got one, the token; nobody renews a token    *)
(* that has expired.                                                       *)
(***************************************************************************)
EXTENDS ApiRoutes

AuthenticateGetNonce == <<"GET", "authentication", "prove-ownership", P>>
AuthenticatePost == <<"POST", "authentication", "prove-ownership", P>>

ChannelCreate == <<"POST", "channels", "create">>
ChannelWrite == <<"POST", "channels", "logs", P>>
ChannelRead == <<"GET", "channels", "logs", P>>
ChannelReadHistory == <<"GET", "channels", "history", P>>
ChannelValidate == <<"POST", "channels", "validate", P>>
ChannelReimport == <<"POST", "re-import", P>>
ChannelSearch == <<"GET", "channel-info", "search">>
ChannelInfo == <<"GET", "channel-info", "channel", P>>
ChannelAdd == <<"POST", "channel-info", "channel">>
ChannelUpdate == <<"PUT", "channel-info", "channel">>
ChannelRemove == <<"DELETE", "channel-info", "channel", P>>
ChannelFindAllSubscriptions == <<"GET", "subscriptions", P>>
ChannelFindSubscription == <<"GET", "subscriptions", P, P>>
ChannelRequestSubscription == <<"POST", "subscriptions", "request", P>>
ChannelAuthorizeSubscription == <<"POST", "subscriptions", "authorize", P>>
ChannelRevokeSubscription == <<"POST", "subscriptions", "revoke", P>>
ChannelAddSubscription == <<"POST", "subscriptions", P, P>>
ChannelUpdateSubscription == <<"PUT", "subscriptions", P, P>>
ChannelRemoveSubscription == <<"DELETE", "subscriptions", P, P>>

IdentityCreate == <<"POST", "identities", "create">>
IdentitySearch == <<"GET", "identities", "search">>
IdentityFind == <<"GET", "identities", "identity", P>>
IdentityAdd == <<"POST", "identities", "identity">>
IdentityUpdate == <<"PUT", "identities", "identity">>
IdentityRemove == <<"DELETE", "identities", "identity", P>>
IdentityLatestDocument == <<"GET", "verification", "latest-document", P>>
IdentityAddTrustedAuthority == <<"POST", "verification", "trusted-roots">>
IdentityGetTrustedAuthorities == <<"GET", "verification", "trusted-roots">>
IdentityRemoveTrustedAuthority == <<"DELETE", "verification", "trusted-roots", P>>
IdentityCreateCredential == <<"POST", "verification", "create-credential">>
IdentityCheckCredential == <<"POST", "verification", "check-credential">>
IdentityRevokeCredential == <<"POST", "verification", "revoke-credential">>
IdentityVerifyJwt == <<"POST", "authentication", "verify-jwt">>

ChannelClient ==
  {ChannelCreate, ChannelWrite, ChannelRead, ChannelReadHistory, ChannelValidate,
   ChannelReimport, ChannelSearch, ChannelInfo, ChannelAdd, ChannelUpdate,
   ChannelRemove, ChannelFindAllSubscriptions, ChannelFindSubscription,
   ChannelRequestSubscription, ChannelAuthorizeSubscription,
   ChannelRevokeSubscription, ChannelAddSubscription, ChannelUpdateSubscription,
   ChannelRemoveSubscription}

IdentityClient ==
  {IdentityCreate, IdentitySearch, IdentityFind, IdentityAdd, IdentityUpdate,
   IdentityRemove, IdentityLatestDocument, IdentityAddTrustedAuthority,
   IdentityGetTrustedAuthorities, IdentityRemoveTrustedAuthority,
   IdentityCreateCredential, IdentityCheckCredential, IdentityRevokeCredential,
   IdentityVerifyJwt}

(* A call: the request line, whether its sender was told to have a token, and
   the status promised for success, 0 if none is.  The methods of a client
   that has logged in send a token with everything. *)
Call(line, token, success) == [line |-> line, token |-> token, success |-> success]

SdkCalls ==
  {Call(line, NoToken, 0) : line \in {AuthenticateGetNonce, AuthenticatePost}}
    \cup {Call(line, Token, 0) : line \in ChannelClient \cup IdentityClient}

DocumentedCalls ==
  {Call(r.documented.line, r.documented.token, r.documented.success) : r \in Routes}

Calls == SdkCalls \cup DocumentedCalls

==============================================================================

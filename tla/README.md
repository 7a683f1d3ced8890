# TLA+ models of the IOTA e-commerce tools

The repository holds two HTTP services over a shared MongoDB and the IOTA
tangle, and the clients that call them:

- `src/api/audit-trail-gw` keeps *channels*: append-only logs on the tangle,
  whose messages are encrypted for the subscribers the author has authorized;
- `src/api/ssi-bridge` keeps *identities*: users, their keys, the verifiable
  credentials issued for them and the bitmap with which these are revoked;
- `src/api/shared-modules`, `src/clients`, `src/dashboard` are a library, an SDK of
  HTTP wrappers and demos, and a web front end.

Both services are node.js processes: a handler runs undisturbed from one `await`
to the next, any other handler may run at an `await`, and several replicas may
serve one database. A document of the database changes atomically, two
documents never do. A message on the tangle is there for good.

## Inventory

| Component | State | Operations | What is hard | What makes it correct |
| --- | --- | --- | --- | --- |
| Request lock (`middlewares/concurrency-lock.ts` in both services) | one document per lock name, with a TTL index | look, insert, remove at `finish`; expiry after 55 s | look and insert are two steps; whoever answers removes the document; crashes and closed clients leave it behind | no two handlers under a name; the lock is always freed; no request hangs |
| Channel subscriptions (`services/subscription-service.ts`, `routes/subscription`) | one document and one state per subscriber, two id lists in channel-info, keyloads on the tangle | request, authorize, revoke, DELETE; POST and PUT of documents | handlers of several awaits under different locks; `Promise.all` that fails leaves calls behind; DELETE under no lock | the keys named by keyloads match what the author granted and revoked |
| In-process mutex (`utils/lock`) | a queue per key | acquire, release | a caller that throws must release | first come first served, nobody waits for ever |
| Channel logs (`services/channel-service.ts`) | the subscriber's state, the cached logs, messages on the tangle | create, fetch, add, validate, re-import | state saved before the cache; a publication is not undone by a failure | no message is lost or cached twice |
| Channel info (`services/channel-info-service.ts`) | one document per channel with its author, unique name, topics, visibility and the id lists | create, search, add, update, delete | read and written in two steps; creating it is the last of four writes; deleting it leaves the rest behind | a channel is seen by those who may see it and changed by its author |
| Log transformer (`utils/channel-log-transformer`) | none | mask and restore a log, compare it with the tangle | undefined, null and values that count as false are treated differently on the way | what is restored is what was added; what was added is valid |
| Streams adapter (`services/streams-service.ts`) | none, streams state is passed in and out | publish, fetch, subscribe, keyload | calls are slow and may fail | |
| Credentials and revocation (`services/verification-service.ts`, `ssi-service.ts`) | credential documents with an index, one bitmap per range of indices, the chain of identity documents on the tangle, credentials copied to the user | issue, check, revoke, revoke all of a user | index read, used and stored later; publications on top of a predecessor; the copy in the user document | an index is used once, a revocation takes effect and revokes nothing else |
| Users and identities (`services/user-service.ts`) | user documents with unique names, encrypted keys | create, add, update, delete | user saved before keys; name looked for before it is taken | names are unique, keys belong to users |
| Trusted roots | a set of ids | add, remove | the setup looks before it adds | the root identity is trusted |
| Authentication (`services/authentication-service.ts`) | one nonce per user | get nonce, prove ownership | a nonce is overwritten; user and nonce are read one after the other | a proof is good for the last nonce only, a token says what the user was |
| Authorization, middlewares | none | predicates in front of handlers | | a handler finds what it relies on |
| Routers, client SDK | none | routes with their chain and documentation; a request line per method | the first route that matches wins; router, documentation and SDK are three texts | whoever does as documented is served |
| Server setup (`setup/key-generator.ts`, `tools/setup-admin-identity`) | the root identity, its keys, bitmap and credential | run at every start | crash between its steps, two replicas | repeating it ends in one valid root |
| Shared modules, dashboard, demos | none of the system's | | | |

Interactions: the routers put the request lock in front of some routes
(`channelLock` in front of adding, fetching and re-importing logs and of
requesting, authorizing and revoking subscriptions; `basicLock` in front of
creating and revoking credentials). The name of a channel lock has the channel
and the *user* in it, so an author's requests exclude each other and exclude no
subscriber's. The subscription service is called by the channel service when a
channel is created; both call the streams adapter, and the channel service
fetches messages into the cache for the caller only. Deleting a user revokes
her credentials through the verification service, without its lock.

## Plan

All that was planned is there:

1. `ConcurrencyLock`: the lock in front of nearly everything else;
2. `ChannelSubscriptions`: the access control of a channel;
3. `Credentials`: issuing and revoking with the index, the bitmap and the chain
   of identity documents; deleting a user and running the setup beside them;
   `CredentialRegister`, the abstract specification it implements;
4. `ChannelLogs`, with `ChannelLogData` for what becomes of a single log;
5. `Identities`: setups, users, tokens and trusted roots;
6. `ApiRoutes`, `SdkCalls`, `ChannelDirectory` and `Gateway`, which composes
   them: from the call of a client to the answer of a handler.

What would come next: an abstract access list that the subscriptions implement,
by the invariant of `ChannelAccessProofs`; that invariant beside the DELETE of one
user; the composition of the request lock with the author's operations.

## Modules

| Module | Models |
| --- | --- |
| `ConcurrencyLock` | the request lock |
| `MCConcurrencyLock` | three requests, for TLC |
| `ConcurrencyLockProofs` | its theorems |
| `ChannelSubscriptions` | the subscriptions of one channel |
| `MCChannelSubscriptions`, `MCChannelWorlds` | instances for TLC |
| `ChannelSubscriptionsProofs` | its theorems about types and waiters |
| `ChannelAccessProofs` | its theorems about who reads what |
| `ChannelListsProofs` | and about the documents and lists of a quiet channel |
| `ChannelLogData` | functions: what becomes of one log, validation, pages |
| `ChannelLogs` | states and caches of the users of one channel |
| `MCChannelLogs` | instances for TLC |
| `ChannelLogsProofs` | its theorems |
| `CredentialRegister` | abstract: what issuing and revoking promise |
| `Credentials` | credentials, bitmaps, the lists of the users |
| `MCCredentials`, `MCCredentialWorlds` | instances for TLC |
| `CredentialsProofs` | its theorems, the lists of the users included, and that it implements the register |
| `Identities` | users, keys, roots, tokens; setups, tool and server |
| `MCIdentities` | instances for TLC |
| `IdentitiesProofs` | its theorems |
| `ApiRoutes` | routes, chains, handlers, dispatch |
| `SdkCalls` | the calls of the client SDK and of the documentation |
| `ChannelDirectory` | channel-info and the creation of a channel |
| `Gateway` | requests through routers, middlewares and handlers |
| `MCGateway` | instances for TLC |
| `GatewayProofs` | the theorems of the directory and the gateway |

### ConcurrencyLock

One lock name. `pc[r]` is where request `r` is in `basicLock`: before and after
`getLock`, at `insertLock`, in the handler, at the removal in the `finish`
listener. `lock` is whether the document exists. `GetLock` answers 423 if it
does, `InsertLock` writes it (the `_id` is unique, a second insert throws),
`Rollback` is the catch block, `Finish` the event, `RemoveLock` the removal it
causes, which looks at no owner. `Expire` is the TTL index, `CloseClient` a
connection that closes before the answer, which never emits `finish`, `Crash`
the exit of the process. The history variables say whether the removal of a
running holder's document (a *theft*) has happened and who did it first.

The lock does not exclude: a refused request removes the document of the
holder (`lock_refused`, a counterexample of three requests and no fault). What
does hold, and is checked and proved: until a document of a running holder has
been removed by somebody else no two handlers run (`ExclusiveUntilTheft`), and
the first such removal is never the work of a request that was granted the lock
(`GrantedNeverStealsFirst`).

### ChannelSubscriptions

One private channel. `right`, `authorized` and `readers` are the fields
`accessRights`, `isAuthorized` and (as the set of keys the keyload names)
`keyloadLink` of the subscription documents; `state` the subscription-state
documents; `requestedIds` and `subscriberIds` the lists of channel-info, which
every writer reads and writes back in two steps; `queue` the mutex of
`sendKeyload`; `op[s]` the request in slot `s` with the await it is suspended
at. A slot is one user's request for a subscription, one DELETE of a user's
subscription, or one request of the author: her authorizations and revocations
share the author's channel lock, so there is one author slot.

A batch in the queue is the set of `sendKeyload` calls of one `Promise.all`.
When one of them throws, the handler answers at once (`live` becomes FALSE),
the request lock is released, and the calls behind it are served all the same,
beside the author's next request. This is what the properties are about:
`GrantedReadEverywhere` and `RevokedLockedOut` say that these keyloads never
take back what a later request has granted or revoked, which depends on the
mutex being first come first served.

`MCChannelWorlds` says which of the rarer things may happen in a behaviour:
nothing but requests of every right (`quiet`), rejected calls and restarts
among readers (`faults`), or DELETE of a subscription among readers. All three
are one run.

A branch of a writer is keyed once, when she is authorized: who is authorized
later never reads it, who is revoked goes on reading it
(`subscriptions_revoked_writer`). `GrantedReadEverywhere` and `RevokedLockedOut`
are therefore about the branches of readers.

Not in the model: POST and PUT of whole documents by API clients; the
`public` and `privatePlus` channel types; duplicates in the id lists, which are
sets here. The logs that authorize and revoke fetch for the author on the way
are in `ChannelLogs`.

### ChannelLogs and ChannelLogData

`ChannelLogs` is one channel of one of the three types. A log is its number on
the `tangle`. `seen[u]` is how far the saved subscription state of `u` has read,
`stateKey[u]` which password it is encrypted with, `cache[u]` her documents in
channel-data, `member` and `states` who has a subscription and a state
document. A request of `u` imports the state into an object (`op[s].sub`),
fetches (`op[s].got`) or syncs with it and saves it again. Requests of one user
queue for the mutex of the process (`Inside`); the author's authorizations and
revocations do not take it, and the channel-lock in front of all of them is
what keeps them apart, so `Parallel` gives the author one slot and a subscriber
two.

`CacheExact` is what the cache is for: outside a request, what it holds is what
the saved state has read, neither more (it would be fetched again, and the
insert of the whole fetch stops at the duplicate) nor less (it would never be
fetched again). The code breaks it when it stops between two writes that belong
together and when `getMessages` leaves out a message whose details it cannot
have, of which it tells nobody; `troubled` remembers the users concerned, and a
re-import that leaves nothing out makes it exact again. What the code never
does, whatever fails: it caches no log of others ahead of the state
(`OnlyOwnLogsAhead`), and it saves no state that has read less than the one
before (`StateNeverRewinds`).

For the author it does not hold: `authorizeSubscription` fetches her logs "before
syncing state", but each keyload syncs once more and the state is saved in the
end, so that a log published meanwhile is in her state and not in her cache
(`logs_author`, without any failure), and an author cannot re-import.
For the same reason `CacheExact` counts the author only when nobody authorizes.
A second thing TLC shows, by `CacheReadable`, which no run states because nothing
in the repository promises it: in a `privatePlus` channel this fetch encrypts the
author's state and logs with the password of the service and not with the
key shared with her, so that she can read neither.

`ChannelLogData` has the functions, over all four kinds of values a field may
have (undefined, null, counting as false, any other): `getPayloads` and
`getChannelLog`, the document of the cache and back, `validateLogs` and the pages of
`getLogs`. `AddedLogsValidate` says a log that was added, cached and posted again is
valid, unless its payload is `0`, `""` or `false`, which `addChannelData` leaves
out. `AnswersExact` compares `validateLogs` with a reference definition,
`PagesExact` says the pages are a partition. Dates are left out.

### Credentials and CredentialRegister

`vcs` are the stored credentials by index: the subject, and the bitmap and key
the signed credential names for ever. `revoked` is `isRevoked`, `saved` the
bitmaps the database knows, `listed` and `doc` the `verifiableCredentials` of
the user documents and whether there is a document at all (a *ghost* is what
`addUserVC` upserts for a subject without one). The tangle holds one chain of
identity documents of the issuer, of which the model keeps the latest:
`bitmaps` and the `bits` set in them. A handler resolves the latest document,
changes it and publishes it naming the message it has resolved. Which of
two messages with the same predecessor counts is decided by the identity
library, outside `src/`; the model assumes the first one does, so `latest` in a
suspended request says whether what it has resolved still is the latest, and a
document published after it is not changes nothing.

`op[s]` is the request in slot `s` with the await it is suspended at. The
`Locked` slots issue and revoke under the credential-lock, one at a time as
long as the lock holds; a `Deletes` slot is a DELETE of a user, which with
revoke-credentials starts a call in a `Bulk` slot for each of her credentials
and waits for all; `Setup` is `keyGeneration` of setup-api from the bitmap
on. `SetupBeside` says whether it runs before the server, as documented, or
beside it, as docker-compose (`depends_on` does not wait) and a second
replica allow.

`CredentialRegister` is what someone who checks credentials relies on: a
credential is unknown, then good, then revoked if somebody asked for it, and
nothing else ever happens to it. `RegisterSpec` says `Credentials` implements
it, with `standing` (is the bit the credential names set?) computed from the
stored credentials and the bits on the tangle. `ListExact` excuses the
credentials of which a request ended half-way (`loose`), since the code undoes
nothing; `RevokedOnTangle` and `SavedPublished` need no excuse, for the
document is published first.

What the model shows beyond the runs, with other values of the constants:

- with two requests under the lock and two bitmaps `RegisterSpec` fails: one
  issuance between the two reads of `getNextCredentialIndex` across the border
  of two bitmaps gives a credential the bit of another one; within one bitmap
  it holds, because `_id` makes the second of two credentials with one
  index fail. The same goes for a setup that issues beside the server;
- with `SetupBeside`, `SavedPublished` fails: the document with a new bitmap may
  be the one that does not count, and the bitmap is saved all the same;
- a bitmap is only ever created by the setup. A credential whose index has gone
  past the last one cannot be revoked until the setup runs again, and if
  a whole range went by in between, never.

Not in the model: the check itself, who may issue or revoke, PUT of a user with a
list of credentials, the creation of the root identity (`Init` is the state
after a first complete setup; see `Identities` for how it is reached).

### Identities

Several processes write the same collections: the server, of which each client's
request is a slot, any number of `setup-api` processes, and the tool that makes
the first admin. `users` are the user documents (name, role, whether it is the
root), `keys` the identities with stored keys, `trusted` the trusted roots,
`nonce` who was given the latest nonce of an identity, `jwt` the token each client
holds, `server` the root identity the running server has found. `created`
numbers the identities on the tangle, which nobody can undo.

`keyGeneration` is modelled await by await up to the trusted roots, where
`Credentials` goes on; a setup that finds a root without keys ends without an
error, and one that finds two throws. The server exits without a root identity
and is started again by its container (`StartServer`). Nothing but the unique
index on `username` keeps two setups that both found no root from
registering one each, and with two no setup and no server starts again. `OneRoot` says
that the setups do not bring this about, whatever fails and whoever is deleted. Clients
can: the body of POST `/identities/create` and `/identities/identity` may say
`isServerIdentity` (`asRoot` in the model), which is stored as it is, and PUT renames
the root like any user, so that a setup which looked for a root earlier gets its
name. `claimed` remembers the identities clients have registered as roots or renamed,
and `OneRoot` leaves them out: it is about the others. Without the first excuse one
request refutes it, without the second the world with a late setup does (see Runs).
`createIdentity` stores the user before the keys; a setup that stops in between
leaves `Stuck`, a root identity nobody can act for and no setup repairs, and
`FirstServed` excuses exactly that. With the keys first, `KeysHaveOwner` would fail.

A token is good until it expires, whatever becomes of its user (DELETE leaves
keys, nonces and tokens). `TokenRoleHeld` says that it was at least honest once:
its role is one the user had between the request for the nonce and the answer
(`held`), although user and nonce are read at different times and
any request for a nonce overwrites the one before. A `Manager` does in these
routes what a `User` does and is not told apart. `verifyIdentity` counts as right.

`NamesUnique` (no two users of one name) is the index itself in this model and is
checked as part of the inductive invariant of the proofs only.

### ApiRoutes, SdkCalls, ChannelDirectory and Gateway

`ApiRoutes` has the routes of both servers in the order they are registered:
method and path, the chain of middlewares, the handler with the statuses it may
answer and what it relies on (a user, a clean body, the lock), and what
the `@openapi` comment says (token, status). `Dispatch` takes the first route that
matches, as Express does. `SdkCalls` has the request line of every method of the
SDK; `Calls` joins them with the documented ones.

`ChannelDirectory` is channel-info: `create`, which announces a channel on the tangle
and then stores state, subscription and directory entry; GET and search with
their two versions of who may see what; adding, changing and removing by
author or admin. Names are unique among the listed channels by an index, and
`create` looks for them long before; who comes second leaves a
channel with a state and a subscription that is not listed. `AuthorSubscribed` says
the converse: what `create` has listed has the rest. That lasts until somebody asks to
remove the author's own subscription of that channel, which is refused nowhere: DELETE of
`/subscriptions/{channel}/{author}`, by herself or by whoever is listed as author
(`ReadForUnsubscribe`, `Unsubscribe`), leaves the state; POST of
`/subscriptions/revoke` that names herself (`ReadForRevoke`, `DropState`,
`DropSubscription`) takes both and fails at last, since the state it wants to save is
gone. `dropped` remembers the channels this was done to. The documents are pairs of
channel and user, so that a channel another user lists with somebody
else's address, or one that is removed and listed again, is told apart; those of
subscribers are in `ChannelSubscriptions`. `ChangedByOwner` excuses a channel that
was removed and added again between the look at its author and the write: that race is a
hazard it does not cover.

`Gateway` composes them: `Send`, dispatch, the chain of middlewares in one turn,
the lock (as a chance to be refused, `ConcurrencyLock` has the rest), then the
handler: those of the directory step by step, the others by their answers.
`CallsServed` says that a client who does as it was told by the
documentation or the SDK is turned away by nothing but the lock, is dispatched to the
handler meant, and gets the status promised for success. Five calls are
not (`Divergences`): GET of a channel-info and of an identity are documented without
a token and ask for one; key-pair is documented as POST and is GET; adding an
identity is documented with 200 and answers 201; `reimport` of the SDK posts to
`/re-import` instead of `/channels/re-import`.
`HandlersPrepared` says that whichever route brings a request to a handler, what it
relies on is there. Not in the model: which documents a search criterion
selects, pages of a search (which are cut before hidden channels are left out),
metrics and server information, bodies beyond valid, invalid and
with operators; timeouts but for the connection that is lost at any moment.

## Runs

| Run | Shows | Bounds |
| --- | --- | --- |
| `lock_faults` | with every fault: exclusion until theft, the holder's document is hers, the lock is always freed, no request hangs | three requests: a holder, a second in the window between look and insert, and a third that is let in by what the two do |
| `lock_refused` | violated: two handlers under one name, without faults | three requests |
| `subscriptions_worlds` | a quiet channel: keys, lists and documents agree; a rejected call and restarts anywhere, or DELETE of a subscription between any two steps: keys agree with what was granted and revoked | two subscribers, of every right in the quiet channel; a third adds nothing, since keys are compared in pairs; one rejected call |
| `subscriptions_live` | with every fault and DELETE: requests of the author end | one subscriber, two rejected calls |
| `subscriptions_revoked_writer` | violated: a writer's branch still names a revoked key | two subscribers |
| `credentials_lock` | rejected calls and restarts: types, `RevokedOnTangle`, `SavedPublished`, `ListExact`, `RegisterSpec` | two users, one of them the server; three credentials in two bitmaps of two, so that both a full bitmap and the first of the next one occur; lists of two, so that one is full |
| `credentials_beside` | DELETE beside the lock, or setup-api beside the server with every fault: `RegisterSpec` | three credentials in two bitmaps: she may have two, revoked at once while a third is issued or revoked; beside a setup two credentials in one bitmap, see above |
| `credentials_deleted` | violated: a DELETE loses one of two revocations, without faults | one bitmap, so that every credential has one |
| `logs_faults` | every type of channel, every right and every kind of request: caches and states agree, states never rewind; and the functions over all logs | the author and a subscriber with two requests at once; two logs, so that one is old and one new in a fetch; one fault |
| `logs_author` | violated: a log published while the author authorizes never reaches her cache | two logs, no faults |
| `identities` | from the empty database: one root, complete setups, the server is served; from a running server: owners of keys, honest tokens; beside a late setup: one root but for what clients claimed | two setups, the tool; two clients, one new name; three identities (the root, the admin or a second attempt, a client's). From the running server two requests with one fault, or four without (an admin logs in, renames, deletes or promotes while somebody else asks for a nonce and logs in); two beside a setup that found no root, which is what a log-in and a renaming take |
| `gateway` | one request of any call with any key, token and body; two of the directory, or that remove the author's own subscription; three that add, change or remove | one channel to begin with, listed or not, one name or none; two users besides the admin; admins only in the first kind; of several requests those that name a channel do not hide it |

`MaxIssued` bounds the credentials; `BitmapSize` (100000) and `MaxNumberOfVc`
(100) are constants of the code. `MaxFailures` bounds the number of rejected calls, restarts are not bounded.
Symmetry of the subscribers is used by the runs without temporal properties.
Deadlock is not checked for the subscriptions: everybody may stop asking.
DELETE and faults are in different worlds because together they break
`GrantedReadEverywhere` and `RevokedLockedOut`: a revocation that fails after it
removed the state, a DELETE and a new request of the same user, and a keyload
that still waits in the mutex finds the new document by its id and
authorizes it, though nobody did.

Fairness. In `ConcurrencyLock` the steps of a request that wait for the database
or the handler are weakly fair, since the driver's promises are settled, and so is the
TTL index, whose monitor runs every minute; crashes, closed connections and new requests are not.
In `ChannelSubscriptions` the steps of the author's handlers and of the mutex
are weakly fair, for the same reason; requests of users are not.
In `Identities` the steps of each setup and the start of the server are weakly fair:
docker-compose starts both containers again when they stop; clients, the tool and
faults are not. In `Gateway` the steps of a request that has been received are
weakly fair together; that a call fails, a connection is lost or a request sent
never is. `AnsweredAlone` is checked for one request at a time, since
others cannot hold it up but through the lock.

## Proofs

`ConcurrencyLockProofs`, for any set of requests and of faults: `LockTypes`,
`ExclusionUntilTheft`, `HolderOwns`, `FirstThief`. The inductive invariant ties the document,
the requests that are past the insert and the history together: before the
first theft the only request past the insert is the owner of the document.

`ChannelSubscriptionsProofs`, for any users, author slots, rights and faults:
`ChannelTypes` and `NoLostWakeup`. Type correctness alone is not inductive: a
keyload wakes up the handler of its batch, and the handler must be at an await
it can go on from, which is what `WaitersServed` says; the two are proved together,
one lemma per kind of step (steps that touch no waiting handler, steps that send a batch, the steps of
the head of the queue, and those that end a handler).

`ChannelAccessProofs`, for any users, rights and faults, any number of rejected calls
and restarts: `GrantedReads` and `RevokedStaysOut`. They assume `Undisturbed`: one
request of the author at a time, which the channel-lock makes true, and no
DELETE (see Runs). Neither property is inductive, since both speak of keyloads that are
on the tangle and the next step may send one that has waited since a request
that failed long ago. `AccessInv` therefore speaks of those in the mutex too: each of
them names everybody who is granted and nobody who is revoked (`UserInv`). That this is
so when a later request changes who is granted needs the order of the queue (`QueueInv`):
who waits has the last batch in it, and what it does next it does on an empty
queue. `SlotInv` says at every await that the list of readers the request has read
is still the list (`Listed`) and what its keyloads so far have done for the one it
authorizes (`Granting`) or revokes (`Revoking`).

`ChannelListsProofs`, for any users and rights: `ListIsExact` and `DocsArePaired`, in the
world where no call fails and nobody deletes. They assume `OneOfAuthor`, which the
channel-lock makes true, and that no user is called "quiet" (`NamesApart`, about the names
`MCChannelWorlds` has for its worlds). Between requests the list is exact; within one
it is exact but for what the request still has to do (`Lists`: a user already keyed
and not yet listed, or one removed and still listed), and what the request has read of the
list to write it back later is still the list (`HasRead`), since no other
request writes it. That the user a request is about stays as she was when it
looked at her (`About`) is not a matter of the lock, for her own request runs beside it:
it rests on `Asks`, who asks for a subscription has none, so that what she adds is
never the subscription the author is at. A keyload changes documents only
when its turn in the mutex comes, and it finds them there (`Sent`). `Pairs` names the two
awaits, one of the request and one of the revocation, at which a state document and a
subscription do not exist together.

`CredentialsProofs`, for any users, bitmap size, list size and faults, one slot
under the lock and the setup before the server: `CredentialTypes` and
`CredentialsImplementRegister`, whatever is deleted beside the lock. Setting a
bit is a step of the register only if no other credential names that bit, so
`CredentialInv` says that every stored credential names the bit
`revokeVerifiableCredential` computes from its index (`BitsOwn`; the map from
index to bit is one to one, `BitsDiffer`), and that the bits set are those of
credentials somebody asked to revoke (`BitsAsked`), hence never the bit of a
credential still to come. The first is inductive only with what a suspended
issuance knows: the bitmap it computed is that of the next index, and the index
it read is the next one, because indices have no gaps (`Dense`) and nobody
else is issuing (`OneAtATime`, `SetupAlone`). Without deletions at all
`ChainInv` adds that the one active request still has the latest document
when it publishes, which gives `RevokedIsOnTangle` and `SavedIsPublished`.
`ListsExact` is proved under the same conditions (`OneActive`). The request
under way may be between any two of its writes, so `ListInv` says what each
await leaves to do: which credential the slot is about, and that the list it
has read is the one it will replace (`Lists`); every other credential is settled
or was left half-way by a request that failed (`Settled`, `loose`).

`IdentitiesProofs`, for any clients, setups, tools, names, requests and faults:
`IdentityTypes`, `OneRootKept`, `KeysOwned`, `SetupsComplete` and `TokenRoles`. `OneRoot`
follows from facts that are inductive together: no two registered users have one
name (`NamesUnique`); every root that is not in `claimed` has the name of the root
identity (`RootNamed`), since whoever renames it claims it; and a process that is not a
client's and is about to register a root gives it that name (`SetupNames`). `KeysHaveOwner` and `SetupComplete` need to
know what a suspended process has done already: who is at the save of
keys, or beyond, has registered its identity, and a setup past the check of the keys
has found or stored them. `TokenRoleHeld` is an action property: the role a login
has read, and the role its user has now, are in `held` as long as the login is
suspended (`RolesKnown`), and only its own steps change what it has read.

`ChannelLogsProofs`, for any users, types of channel, rights, operations, requests side by
side (one of the author), number of logs and faults: `LogTypes`, `StatesNeverRewind`,
`OwnLogsAhead`, `FetchedOnce` and `CachesExact`. The properties say what holds between requests; the
invariant says at every await what the object in memory has read (`ReadOn`: never
less than the saved state once it has fetched), that what was fetched is new to the
cache (`NewOnly`), and that what the object has read is in the cache or on its way
there (`Whole`). All of it rests on `Alone`: no two requests of one user are under way. For
a subscriber that is the mutex, for the author, whose authorizations do not take
it, the assumption that `Parallel[Author] = 1`, which the channel-lock makes true.
With `Alone` a step leaves everything of the others as it is (`Others`), so that
each lemma about a step looks at one request and one user only.

The same module has the theorems about the functions of `ChannelLogData`, which the
runs evaluate over small sequences and the proofs cover for all of them. `ValidIfReceived`:
the answer of `validateLogs` is that of the first log received under the link, which is a
matter of the least index (`Least`). `PagesOnce`: a log is on one page, by division with
remainder, and `PageHolds`, where on it. `AddedIsValid` follows the fields of a log through
the cache one by one. `AnswersAreExact`, `PagesAreExact` and `AddedLogsAreValid` are the
properties of the runs, derived from these.

`GatewayProofs`, for any users, channels, names and number of requests, whatever fails:
`GatewayTypes`, `NoneUnprepared`, `AuthorsSubscribed`, `OwnersChange`, `HiddenKept` and
`CallsAreServed`. They assume that "nobody", the name for a request without a token, is not
a user (`NoUserAssumption`). `NoneUnprepared` is about the table of routes and the chains at
once: what a handler relies on is seen to by some middleware of the first route that matches,
for all 39 routes. For the channels the invariant (`DirectoryInv`) says what a suspended
operation has in hand: a `create` that is about to list a channel has stored its state and
subscription, and they are there still unless the channel is in `dropped`; and who is about to write is the author, or an admin, of what is listed now
unless `added` says that it was listed since she was looked at. `RequestsInv` says what the
middlewares have made sure of for a request that is past them.

`CallsAreServed` has a static half and a dynamic one. `Apart` says of a router that no
route hides a later one, and is put together router by router (`JoinedApart`), so every
route is the one that serves its own line (`OwnRoute`); `SdkRoutes` finds the route that
each method of client-sdk means, and `CallServed` concludes that a call outside
`Divergences` gets there, asks for a token only if the client was told so, and may succeed
with the documented status only. `ServedInv` then ties a pending request to the operation
that runs for it: what the operation may still succeed with (`Leads`) is what the route's
handler promises, through every await, failure, lost connection and crash.

In each proof there is one lemma per kind of step; what a step leaves alone is
shown once for all of them.

Only model-checked: the liveness properties (`LockIsFreed`, `EveryRequestEnds`,
`AuthorRequestsEnd`, `FirstServed`, `AnsweredAlone`), which the prover cannot reach;
`RegisterSpec` beside a setup; and of `ChannelSubscriptions` what holds beside DELETE. With
two author slots, which is what the author's lock allows once stolen, TLC refutes
`GrantedReadEverywhere`.

## Not modelled

The streams and identity libraries and the tangle, of which the models use
what the code does with their answers; the schemas of bodies, logging, metrics and
configuration; encryption and signatures beyond with which key or over
which nonce; the shared modules, which are used through what their calls do to one
document; the dashboard and the demos, which keep no state of the system.

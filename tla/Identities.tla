------------------------------ MODULE Identities ------------------------------
(***************************************************************************)
(* The users of the ssi-bridge, their identities and who they may act as:  *)
(* services/user-service, authentication-service and authorization-service *)
(* with their routes and collections, the trusted roots, setup-api         *)
(* (setup/key-generator), the start of the server and the tool that makes  *)
(* the first admin.                                                        *)
(*                                                                         *)
(* An identity is a document on the tangle and the private keys of who has *)
(* it created; the bridge keeps a user document for it and, if asked to,   *)
(* the keys.  Identities are numbered in the order of their creation.      *)
(* Several processes write the same collections: the server, each setup-   *)
(* api, and the tool.  op[s].pc is the await at which the request, or the  *)
(* process, in slot s is suspended.                                        *)
(***************************************************************************)
EXTENDS Naturals, FiniteSets

CONSTANTS
  Clients,     \* who sends requests to the server, one at a time
  Setups,      \* the setup-api processes
  Tools,       \* the processes of the admin tool
  Requests,    \* what clients ask for, see AllRequests
  UserNames,   \* the names users choose
  RootName,    \* username of config/server-identity.json
  AdminName,   \* what the tool chooses
  Faults,      \* what goes wrong, see FaultKinds
  MaxFaults,   \* bound: how often
  MaxRequests, \* bound: how many requests the clients send
  MaxIds       \* bound: how many identities are created

AllRequests == {"create", "add", "update", "delete", "login", "trust"}

FaultKinds ==
  {"fail",    \* a call to the tangle or the database is rejected
   "crash"}   \* a process is killed; setup-api and the server are started again

ASSUME SlotsAssumption ==
  Clients \cap Setups = {} /\ Clients \cap Tools = {} /\ Setups \cap Tools = {}
ASSUME RequestsAssumption == Requests \subseteq AllRequests
ASSUME IdentityFaultsAssumption == Faults \subseteq FaultKinds /\ MaxFaults \in Nat
ASSUME BoundsAssumption == MaxRequests \in Nat /\ MaxIds \in Nat

Slots == Clients \cup Setups \cup Tools
Ids == 1..MaxIds
Names == UserNames \cup {RootName, AdminName}
Roles == {"User", "Admin"}  \* a Manager does here what a User does

VARIABLES
  created,  \* how many identities there are on the tangle
  users,    \* users: a document, or Missing, for every identity
  keys,     \* identity-keys: the identities with stored keys
  trusted,  \* trusted-roots
  nonce,    \* auth: the slot that was given the latest nonce of an identity,
            \* "none" if nobody was
  jwt,      \* the token each client holds, NoToken if it has none
  server,   \* the root identity the running server has found, 0 if it is down
  op,       \* what is being done
  faults,   \* how often something went wrong
  asked,    \* how many requests were sent
  owners,   \* history: the identities that were registered at some time
  done,     \* history: the root identities a setup has finished with
  untrusted, \* history: the identities an admin has removed as trusted roots
  claimed,  \* history: the identities a client has registered as a root, or given
            \* another name
  held      \* history: the roles the user had since a client's login began

store == <<users, keys, trusted, nonce>>
history == <<owners, done, untrusted, claimed, held>>
vars == <<created, store, jwt, server, op, faults, asked, history>>

------------------------------------------------------------------------------

NoName == "none"
Docs == [name: Names \cup {NoName}, role: Roles, root: BOOLEAN]
Missing == [name |-> NoName, role |-> "User", root |-> FALSE]
Registered(i) == users[i] # Missing
Roots == {i \in Ids : Registered(i) /\ users[i].root}

Tokens == [id: Ids, role: Roles]
NoToken == [id |-> 0, role |-> "User"]

PCs == {"idle", "check", "tangle", "insert", "save", "keys", "user", "trust", "addTrust",
        "over", "credential", "role", "sign", "verify"}

(* id: the identity this is about; name: the one it is to have; role: the one
   a login has read; stored: storeIdentity; asRoot: isServerIdentity; root: the root
   the tool has found. *)
Ops == [pc: PCs, id: Ids \cup {0}, name: Names, role: Roles, stored: BOOLEAN,
        asRoot: BOOLEAN, root: Ids \cup {0}]
Idle == [pc |-> "idle", id |-> 0, name |-> RootName, role |-> "User", stored |-> FALSE,
         asRoot |-> FALSE, root |-> 0]

Goto(s, label) == op' = [op EXCEPT ![s].pc = label]
End(s) == op' = [op EXCEPT ![s] = Idle]
Stop(p) == op' = [op EXCEPT ![p] = [Idle EXCEPT !.pc = "over"]]  \* exits with 0
Begin(s, label, o) == op' = [op EXCEPT ![s] = [o EXCEPT !.pc = label]]

Fault(kind) ==
  /\ kind \in Faults
  /\ faults < MaxFaults
  /\ faults' = faults + 1

(* The unique index on username of setup/database-seeder.  getUserByUsername
   finds at most one document. *)
NameTaken(n) == \E i \in Ids : users[i].name = n

(* Before any setup. *)
Empty ==
  /\ created = 0
  /\ users = [i \in Ids |-> Missing]
  /\ keys = {} /\ trusted = {}
  /\ nonce = [i \in Ids |-> "none"]
  /\ jwt = [c \in Clients |-> NoToken]
  /\ server = 0
  /\ op = [s \in Slots |-> Idle]
  /\ faults = 0
  /\ owners = {} /\ done = {} /\ untrusted = {} /\ claimed = {}
  /\ held = [c \in Clients |-> {}]

Init == Empty /\ asked = 0

(* Roles are remembered for the clients whose login is about identity i. *)
Remember(i, role) ==
  held' = [c \in Clients |-> IF op[c].id = i /\ op[c].pc \in {"sign", "verify"}
                               THEN held[c] \cup {role} ELSE held[c]]

------------------------------------------------------------------------------
(* UserService.createIdentity, for the route, setup-api and the tool. *)

(* A plausible bug: the keys are kept as soon as there are some. *)
CreateOnTangleKeysFirst(s) ==
  /\ op[s].pc = "tangle"
  /\ created < MaxIds
  /\ created' = created + 1
  /\ keys' = IF op[s].stored THEN keys \cup {created + 1} ELSE keys
  /\ op' = [op EXCEPT ![s].pc = "insert", ![s].id = created + 1]
  /\ UNCHANGED <<users, trusted, nonce, jwt, server, faults, asked, history>>

(* A new document is published, for which nobody has a user document yet; for
   a client, decodeUserId throws next if her token is no longer valid. *)
CreateOnTangle(s) ==
  /\ op[s].pc = "tangle"
  /\ created < MaxIds
  /\ created' = created + 1
  /\ \/ op' = [op EXCEPT ![s].pc = "insert", ![s].id = created + 1]
     \/ s \in Clients /\ End(s)
  /\ UNCHANGED <<store, jwt, server, faults, asked, history>>

(* A plausible bug: the collection has no unique index. *)
InsertUserUnchecked(i, n, isRoot) ==
  users' = [users EXCEPT ![i] = IF Registered(i) THEN @
              ELSE [name |-> n, role |-> "User", root |-> isRoot]]

(* A plausible bug: the mark of the root identity is not stored. *)
InsertUserPlain(i, n, isRoot) ==
  users' = [users EXCEPT ![i] = IF Registered(i) \/ NameTaken(n) THEN @
              ELSE [name |-> n, role |-> "User", root |-> FALSE]]

(* insertOne: _id and username are unique, whatever was asked has role User. *)
InsertUser(i, n, isRoot) ==
  users' = [users EXCEPT ![i] = IF Registered(i) \/ NameTaken(n) THEN @
              ELSE [name |-> n, role |-> "User", root |-> isRoot]]

Inserted(i) == ~Registered(i) /\ users'[i] # Missing

(* addUser resolves the document on the tangle before it inserts the user, who is
   a root identity if the body says so: that of a client may, like that of setup-api. *)
CreateUser(s) ==
  LET i == op[s].id IN
  /\ op[s].pc = "insert"
  /\ InsertUser(i, op[s].name, op[s].asRoot)
  /\ IF ~Inserted(i) THEN End(s) /\ UNCHANGED <<owners, claimed, held>>
     ELSE /\ owners' = owners \cup {i}
          /\ claimed' = IF s \in Clients /\ op[s].asRoot THEN claimed \cup {i} ELSE claimed
          /\ Remember(i, "User")
          /\ IF op[s].stored THEN Goto(s, "save")
             ELSE IF s \in Tools THEN Goto(s, "credential") ELSE End(s)
  /\ UNCHANGED <<created, keys, trusted, nonce, jwt, server, faults, asked, done, untrusted>>

SaveKeys(s) ==
  /\ op[s].pc = "save"
  /\ keys' = keys \cup {op[s].id}
  /\ IF s \in Setups THEN Goto(s, "user") ELSE End(s)
  /\ UNCHANGED <<created, users, trusted, nonce, jwt, server, faults, asked, history>>

createIdentity(s) == CreateOnTangle(s) \/ CreateUser(s) \/ SaveKeys(s)

------------------------------------------------------------------------------
(* setup-api and the start of the server. *)

(* More than one root identity is an error. *)
FindRoot(p) ==
  /\ op[p] = Idle
  /\ \/ /\ Roots = {}
        /\ Begin(p, "tangle", [Idle EXCEPT !.name = RootName, !.stored = TRUE, !.asRoot = TRUE])
     \/ \E r \in Roots : Roots = {r} /\ Begin(p, "keys", [Idle EXCEPT !.id = r])
  /\ UNCHANGED <<created, store, jwt, server, faults, asked, history>>

(* Without the keys setup-api ends here, and not with an error. *)
CheckKeys(p) ==
  /\ op[p].pc = "keys"
  /\ IF op[p].id \in keys THEN Goto(p, "user") ELSE Stop(p)
  /\ UNCHANGED <<created, store, jwt, server, faults, asked, history>>

GetRootUser(p) ==
  /\ op[p].pc = "user"
  /\ IF Registered(op[p].id) THEN Goto(p, "trust") ELSE End(p)
  /\ UNCHANGED <<created, store, jwt, server, faults, asked, history>>

(* A plausible bug: whether there are trusted roots is all that is looked at. *)
ReadTrustedAny(p) ==
  /\ op[p].pc = "trust"
  /\ IF trusted # {} THEN Stop(p) /\ done' = done \cup {op[p].id}
                     ELSE Goto(p, "addTrust") /\ UNCHANGED done
  /\ UNCHANGED <<created, store, jwt, server, faults, asked, owners, untrusted, claimed, held>>

(* What follows, the bitmap and the credential, belongs to Credentials. *)
ReadTrusted(p) ==
  /\ op[p].pc = "trust"
  /\ IF op[p].id \in trusted THEN Stop(p) /\ done' = done \cup {op[p].id}
                             ELSE Goto(p, "addTrust") /\ UNCHANGED done
  /\ UNCHANGED <<created, store, jwt, server, faults, asked, owners, untrusted, claimed, held>>

(* A second insert of the same _id throws. *)
AddTrustedRoot(p) ==
  /\ op[p].pc = "addTrust"
  /\ trusted' = trusted \cup {op[p].id}
  /\ IF op[p].id \in trusted THEN End(p) /\ UNCHANGED done
                             ELSE Stop(p) /\ done' = done \cup {op[p].id}
  /\ UNCHANGED <<created, users, keys, nonce, jwt, server, faults, asked, owners,
                 untrusted, claimed, held>>

keyGeneration(p) ==
  \/ FindRoot(p) \/ CheckKeys(p) \/ GetRootUser(p) \/ ReadTrusted(p) \/ AddTrustedRoot(p)

(* The one root identity with keys; 0 if there is none. *)
RootIdentityId == IF Cardinality(Roots) = 1 /\ Roots \subseteq keys
                    THEN CHOOSE r \in Roots : TRUE ELSE 0

(* Without a root identity the server exits and is started again. *)
StartServer ==
  /\ server = 0
  /\ RootIdentityId # 0
  /\ server' = RootIdentityId
  /\ UNCHANGED <<created, store, jwt, op, faults, asked, history>>

------------------------------------------------------------------------------
(* The tool, which needs no server.  Its names are random; to keep a bound it is
   run until there is one admin. *)

StartTool(t) ==
  /\ op[t] = Idle
  /\ ~NameTaken(AdminName)
  /\ Begin(t, "tangle", [Idle EXCEPT !.name = AdminName, !.root = RootIdentityId])
  /\ UNCHANGED <<created, store, jwt, server, faults, asked, history>>

(* Without a root issueVerifiableCredential throws, and the new identity has no
   role; the credential itself belongs to Credentials. *)
IssueAdminCredential(t) ==
  /\ op[t].pc = "credential"
  /\ IF op[t].root # 0 THEN Goto(t, "role") ELSE End(t)
  /\ UNCHANGED <<created, store, jwt, server, faults, asked, history>>

(* A plausible bug: a role that there is not. *)
SetAdminRoleLower(t) ==
  /\ op[t].pc = "role"
  /\ users' = [users EXCEPT ![op[t].id].role = "admin"]
  /\ UNCHANGED held
  /\ End(t)
  /\ UNCHANGED <<created, keys, trusted, nonce, jwt, server, faults, asked, owners, done,
                 untrusted, claimed>>

SetAdminRole(t) ==
  LET i == op[t].id IN
  /\ op[t].pc = "role"
  /\ users' = [users EXCEPT ![i] = IF Registered(i) THEN [@ EXCEPT !.role = "Admin"] ELSE @]
  /\ IF Registered(i) THEN Remember(i, "Admin") ELSE UNCHANGED held
  /\ End(t)
  /\ UNCHANGED <<created, keys, trusted, nonce, jwt, server, faults, asked, owners, done,
                 untrusted, claimed>>

setupAdminIdentity(t) == StartTool(t) \/ IssueAdminCredential(t) \/ SetAdminRole(t)

------------------------------------------------------------------------------
(* Requests of clients. *)

Asks(c, request) ==
  /\ request \in Requests
  /\ server # 0
  /\ op[c] = Idle
  /\ asked < MaxRequests
  /\ asked' = asked + 1

(* POST /create and POST /identity start by looking for the name. *)
StartCreate(c) ==
  \/ /\ Asks(c, "create")
     /\ \E n \in UserNames, stored, asRoot \in BOOLEAN :
          Begin(c, "check", [Idle EXCEPT !.name = n, !.stored = stored, !.asRoot = asRoot])
     /\ UNCHANGED <<created, store, jwt, server, faults, history>>
  \/ /\ Asks(c, "add")
     /\ \E n \in UserNames, asRoot \in BOOLEAN, i \in 1..created :
          Begin(c, "check", [Idle EXCEPT !.name = n, !.id = i, !.asRoot = asRoot])
     /\ UNCHANGED <<created, store, jwt, server, faults, history>>

CheckName(c) ==
  /\ op[c].pc = "check"
  /\ IF NameTaken(op[c].name) THEN End(c)
     ELSE Goto(c, IF op[c].id = 0 THEN "tangle" ELSE "insert")
  /\ UNCHANGED <<created, store, jwt, server, faults, asked, history>>

isAuthorizedAdmin(token) == token.role = "Admin"
isAuthorized(token, i) == token.id = i \/ isAuthorizedAdmin(token)

(* PUT: one update, which the unique index may refuse.  Only an admin may pass
   a role; whoever is the root identity may be renamed like any other. *)
UpdateUser(c) ==
  LET token == jwt[c] IN
  /\ Asks(c, "update")
  /\ \E i \in 1..created, n \in UserNames, r \in Roles :
       /\ token # NoToken /\ isAuthorized(token, i) /\ Registered(i)
       /\ \/ /\ users[i].name = n \/ ~NameTaken(n)
             /\ users' = [users EXCEPT ![i].name = n]
             /\ claimed' = IF users[i].name = n THEN claimed ELSE claimed \cup {i}
             /\ UNCHANGED held
          \/ /\ isAuthorizedAdmin(token)
             /\ users' = [users EXCEPT ![i].role = r]
             /\ Remember(i, r)
             /\ UNCHANGED claimed
  /\ UNCHANGED <<created, keys, trusted, nonce, jwt, server, op, faults, owners, done, untrusted>>

(* DELETE; the keys, the nonce and the tokens stay.  What becomes of the
   credentials is modelled by Credentials. *)
DeleteUser(c) ==
  /\ Asks(c, "delete")
  /\ \E i \in 1..created :
       /\ jwt[c] # NoToken /\ isAuthorized(jwt[c], i) /\ Registered(i)
       /\ users' = [users EXCEPT ![i] = Missing]
       /\ Remember(i, "User")
  /\ UNCHANGED <<created, keys, trusted, nonce, jwt, server, op, faults, owners, done,
                 untrusted, claimed>>

(* POST and DELETE of trusted roots; an _id that is there cannot be inserted,
   one that is not cannot be removed. *)
ChangeTrustedRoots(c) ==
  /\ Asks(c, "trust")
  /\ isAuthorizedAdmin(jwt[c])
  /\ \E i \in 1..created :
       \/ trusted' = trusted \cup {i} /\ UNCHANGED untrusted
       \/ trusted' = trusted \ {i} /\ untrusted' = untrusted \cup (trusted \cap {i})
  /\ UNCHANGED <<created, users, keys, nonce, jwt, server, op, faults, owners, done, claimed, held>>

(* A client logs in as an identity whose private key it has.  The nonce given
   last replaces the one before. *)
GetNonce(c) ==
  /\ Asks(c, "login")
  /\ \E i \in 1..created :
       /\ nonce' = [nonce EXCEPT ![i] = c]
       /\ Begin(c, "sign", [Idle EXCEPT !.id = i])
       /\ held' = [held EXCEPT ![c] = {users[i].role}]
  /\ UNCHANGED <<created, users, keys, trusted, jwt, server, faults, owners, done,
                 untrusted, claimed>>

(* proveOwnership: the user is read first; who has no document is a User. *)
ReadUser(c) ==
  /\ op[c].pc = "sign"
  /\ server # 0
  /\ op' = [op EXCEPT ![c].pc = "verify", ![c].role = users[op[c].id].role]
  /\ UNCHANGED <<created, store, jwt, server, faults, asked, history>>

(* A plausible bug: who has a token already is given one like it. *)
VerifyNonceRenews(c) ==
  /\ op[c].pc = "verify"
  /\ jwt' = [jwt EXCEPT ![c] =
       IF nonce[op[c].id] # c THEN @
       ELSE [id |-> op[c].id, role |-> IF @.id = op[c].id THEN @.role ELSE op[c].role]]
  /\ End(c)
  /\ UNCHANGED <<created, store, server, faults, asked, history>>

(* Then the nonce is, and the signature must be over that one. *)
VerifyNonce(c) ==
  /\ op[c].pc = "verify"
  /\ jwt' = [jwt EXCEPT ![c] = IF nonce[op[c].id] = c THEN [id |-> op[c].id, role |-> op[c].role]
                                                      ELSE @]
  /\ End(c)
  /\ UNCHANGED <<created, store, server, faults, asked, history>>

authenticate(c) == GetNonce(c) \/ ReadUser(c) \/ VerifyNonce(c)

(* jwtExpiration *)
ExpireToken(c) ==
  /\ jwt[c] # NoToken
  /\ jwt' = [jwt EXCEPT ![c] = NoToken]
  /\ UNCHANGED <<created, store, server, op, faults, asked, history>>

ClientStep(c) ==
  \/ StartCreate(c) \/ CheckName(c)
  \/ UpdateUser(c) \/ DeleteUser(c) \/ ChangeTrustedRoots(c)
  \/ authenticate(c) \/ ExpireToken(c)

------------------------------------------------------------------------------
(* Failures. *)

Fail(s) ==
  /\ Fault("fail")
  /\ op[s] # Idle
  /\ End(s)
  /\ UNCHANGED <<created, store, jwt, server, asked, history>>

(* A client that has a nonce to sign survives the server. *)
Crash(process) ==
  /\ Fault("crash")
  /\ op' = [s \in Slots |-> IF s \in process /\ ~(s \in Clients /\ op[s].pc = "sign")
                             THEN Idle ELSE op[s]]
  /\ server' = IF process = Clients THEN 0 ELSE server
  /\ UNCHANGED <<created, store, jwt, asked, history>>

Processes == {Clients} \cup {{p} : p \in Setups \cup Tools}

Next ==
  \/ \E s \in Slots : createIdentity(s) \/ Fail(s)
  \/ \E p \in Setups : keyGeneration(p)
  \/ StartServer
  \/ \E t \in Tools : setupAdminIdentity(t)
  \/ \E c \in Clients : ClientStep(c)
  \/ \E process \in Processes : Crash(process)

Spec == Init /\ [][Next]_vars

(* The containers of setup-api and of the server are started again when they
   have stopped (docker-compose.yml: restart), and the calls of setup-api are
   answered or rejected some day. *)
Fairness ==
  /\ \A p \in Setups : WF_vars(keyGeneration(p) \/ createIdentity(p))
  /\ WF_vars(StartServer)

FairSpec == Spec /\ Fairness

------------------------------------------------------------------------------

TypeOK ==
  /\ created \in 0..MaxIds
  /\ users \in [Ids -> Docs]
  /\ keys \subseteq Ids /\ trusted \subseteq Ids
  /\ nonce \in [Ids -> Clients \cup {"none"}]
  /\ jwt \in [Clients -> Tokens \cup {NoToken}]
  /\ server \in Ids \cup {0}
  /\ op \in [Slots -> Ops]
  /\ faults \in Nat /\ asked \in Nat
  /\ owners \subseteq Ids /\ done \subseteq Ids
  /\ untrusted \subseteq Ids /\ claimed \subseteq Ids
  /\ held \in [Clients -> SUBSET Roles]

(* No two users have the same name, although the routes look for it long before
   they insert and PUT does not look for it at all. *)
NamesUnique ==
  \A i, j \in Ids : Registered(i) /\ Registered(j) /\ users[i].name = users[j].name => i = j

(* Setups that run side by side and have all seen that there is no root identity
   register one, whatever fails and whoever removes it meanwhile: there are two roots,
   and no server would start again, only if a client has registered one as well or has
   renamed the one there was, so that a setup got its name. *)
OneRoot == Cardinality(Roots \ claimed) <= 1

(* Private keys are kept only for identities that were registered: a creation
   that is refused or interrupted leaves none behind. *)
KeysHaveOwner == keys \subseteq owners

(* The root identity of a setup that ran to its end has its keys and is trusted,
   unless an admin has removed it, whatever other setups did meanwhile. *)
SetupComplete == done \subseteq keys /\ done \subseteq trusted \cup untrusted

(* A token carries a role its user had while she was logging in: neither one she
   had lost before nor one she only got after. *)
LoggedIn(c) ==
  /\ op[c].pc = "verify" /\ op'[c] = Idle /\ faults' = faults
  /\ nonce[op[c].id] = c
TokenRoleHeld ==
  [][\A c \in Clients : LoggedIn(c) => jwt'[c].role \in held[c]]_vars

(* A root identity without keys, which nobody is going to save. *)
Stuck ==
  \E r \in Roots : r \notin keys /\ \A s \in Slots : ~(op[s].pc = "save" /\ op[s].id = r)

(* Whatever fails, the server is served some day, unless a setup was interrupted
   between the user document and the keys of the root identity. *)
FirstServed == <>(server # 0 \/ Stuck)

==============================================================================

----------------------------- MODULE ChannelLogs -----------------------------
(***************************************************************************)
(* The logs of one channel (services/channel-service.ts): what the users   *)
(* with a subscription publish on the tangle, how far the saved state of   *)
(* each of them has read it, and what of it is in her cache, the           *)
(* channel-data collection.                                                *)
(*                                                                         *)
(* A request imports the saved state into a subscription object in memory, *)
(* works on that, and exports it again at some point.  The requests of one *)
(* user exclude each other by a mutex of the process; authorizing and      *)
(* revoking, which read and save the author's state as well                *)
(* (services/subscription-service.ts), do not take it and rely on the      *)
(* channel-lock in front of all these routes.                              *)
(*                                                                         *)
(* A log is its number on the tangle; what it holds is the business of     *)
(* ChannelLogData.  The streams library is external: fetching returns what *)
(* the object has not read yet, syncing reads on without returning         *)
(* anything, and the publisher has read her own message.                   *)
(***************************************************************************)
EXTENDS ChannelLogData

CONSTANTS
  Author,       \* the author of the channel
  Subscribers,  \* who else has a subscription
  Parallel,     \* how many requests of a user are served side by side: one of
                \* the author, whose authorizations rely on the channel-lock
  Types,        \* the kinds of channel, see AllTypes
  Rights,       \* what a subscription may grant, see AllRights
  Operations,   \* what is asked for, see AllOperations
  MaxLogs,      \* bound: how many logs are published
  Faults,       \* what goes wrong, see FaultKinds
  MaxFaults     \* bound: how often

Users == Subscribers \cup {Author}
AllTypes == {"private", "privatePlus", "public"}
AllRights == {"Read", "Write", "ReadAndWrite"}  \* Audit grants what Read does
UserOperations == {"get", "add", "reimport", "validate"}
AuthorOperations == {"authorize", "revoke"}
AllOperations == UserOperations \cup AuthorOperations

FaultKinds ==
  {"fail",     \* a call to the tangle or the database is rejected
   "crash"}    \* the process exits and is started again

ASSUME LogAuthorAssumption == Author \notin Subscribers
ASSUME ParallelAssumption == Parallel \in [Users -> Nat \ {0}] /\ Parallel[Author] = 1
ASSUME TypesAssumption == Types \subseteq AllTypes
ASSUME LogRightsAssumption == Rights \subseteq AllRights
ASSUME OperationsAssumption == Operations \subseteq AllOperations
ASSUME MaxLogsAssumption == MaxLogs \in Nat
ASSUME LogFaultsAssumption == Faults \subseteq FaultKinds /\ MaxFaults \in Nat

Requests == UNION {{u} \X (1..Parallel[u]) : u \in Users}
Logs == 1..MaxLogs

(* With which password a state or a payload is encrypted: that of the service
   or, in a privatePlus channel, the key shared with the user. *)
Keys == {"service", "shared"}

VARIABLES
  type,      \* channel-info: the type of the channel
  right,     \* subscriptions: accessRights
  member,    \* subscriptions: the users with a document
  tangle,    \* who published the logs, in the order of their publication
  states,    \* the users with a subscription-state document
  seen,      \* the logs a saved state has read
  stateKey,  \* what a saved state is encrypted with
  cache,     \* channel-data: the cached logs of each user, with their key
  op,        \* the requests being served
  faults,    \* how often something went wrong
  troubled   \* history: the users of whom a request was cut short or left out a log

channel == <<type, right>>
vars == <<channel, member, tangle, states, seen, stateKey, cache, op, faults, troubled>>

------------------------------------------------------------------------------

PCs == {"idle", "remove", "fetch", "save", "insert", "sync", "publish",
        "insertOwn", "saveOwn", "removeState", "removeDoc", "removeData", "saveAuthor"}

(* sub: what the subscription object has read; got: what fetching returned;
   own: the log that was published, zero if there is none; whom: the
   subscriber a revocation is about. *)
Ops == [pc: PCs, kind: AllOperations, sub: SUBSET Logs, got: SUBSET Logs,
        own: Logs \cup {0}, whom: Users]

Idle == [pc |-> "idle", kind |-> "get", sub |-> {}, got |-> {}, own |-> 0, whom |-> Author]

Published == 1..Len(tangle)
Cached(u) == {doc.log : doc \in cache[u]}
Documents(logs, key) == {[log |-> l, key |-> key] : l \in logs}

Reader(u) == right[u] # "Write"
Writer(u) == right[u] # "Read"

(* A plausible bug: the shared key is not handed over by the route. *)
PasswordUnset == IF type = "privatePlus" THEN "undefined" ELSE "service"

(* getPassword: the routes demand the shared key for a privatePlus channel and
   refuse it for all others. *)
Password == IF type = "privatePlus" THEN "shared" ELSE "service"

(* The private fetchLogs of the subscription service knows one password. *)
FetchPassword(kind) == IF kind \in AuthorOperations THEN "service" ELSE Password

Goto(s, label) == op' = [op EXCEPT ![s].pc = label]
End(s) == op' = [op EXCEPT ![s] = Idle]

(* Something goes wrong. *)
Fault(kind) ==
  /\ kind \in Faults
  /\ faults < MaxFaults
  /\ faults' = faults + 1

(* create: the author has a document and a state, encrypted as she reads it.
   The subscribers, who may only read a public channel, were authorized before
   the first log. *)
Init ==
  /\ type \in Types
  /\ right \in [Users -> Rights \cup {"Read", "ReadAndWrite"}]
  /\ right[Author] = "ReadAndWrite"
  /\ \A u \in Subscribers : right[u] \in (IF type = "public" THEN {"Read"} ELSE Rights)
  /\ member = Users
  /\ tangle = <<>>
  /\ states = Users
  /\ seen = [u \in Users |-> {}]
  /\ stateKey = [u \in Users |-> Password]
  /\ cache = [u \in Users |-> {}]
  /\ op = [s \in Requests |-> Idle]
  /\ faults = 0
  /\ troubled = {}

------------------------------------------------------------------------------
(* The requests under the mutex. *)

(* Who has acquired the mutex of her user and not released it. *)
Inside(s) == op[s].pc # "idle" /\ op[s].kind \in UserOperations

(* What the access rights refuse; the state of an author cannot be reset, and
   who has no subscription cannot be revoked. *)
Refused(u, kind) ==
  \/ kind \in {"get", "reimport", "validate"} /\ ~Reader(u)
  \/ kind = "add" /\ ~Writer(u)
  \/ kind = "reimport" /\ u = Author
  \/ kind = "revoke" /\ Subscribers \cap member = {}

(* Where a request goes on with the state it has imported.  The logs of a
   public channel are read from the tangle without a state, and validating
   syncs an object that is thrown away: neither leaves a trace. *)
FirstStep(u, kind) ==
  CASE kind = "validate" \/ (kind = "get" /\ type = "public") -> "idle"
    [] kind = "reimport" -> "remove"
    [] kind = "add" /\ ~Reader(u) -> "sync"
    [] OTHER -> "fetch"

(* The document and the state are read and the state is decrypted, else the
   request throws; a state that is reset has read nothing. *)
Load(s, kind) ==
  LET u == s[1] IN
  /\ kind \in Operations
  /\ op[s] = Idle
  /\ op' = IF \/ u \notin member \cap states
              \/ Refused(u, kind)
              \/ stateKey[u] # Password
              \/ FirstStep(u, kind) = "idle"
             THEN op
             ELSE [op EXCEPT ![s].pc = FirstStep(u, kind),
                             ![s].kind = kind,
                             ![s].sub = IF kind = "reimport" THEN {} ELSE seen[u]]
  /\ UNCHANGED <<channel, member, tangle, states, seen, stateKey, cache, faults, troubled>>

(* A plausible bug: every request has a mutex of its own. *)
StartAtOnce(s) == \E kind \in UserOperations : Load(s, kind)

(* Requests of the same user wait for the mutex and do nothing until then. *)
Start(s) ==
  /\ \A t \in Requests : t[1] = s[1] => ~Inside(t)
  /\ \E kind \in UserOperations : Load(s, kind)

(* A plausible bug: what is cached stays. *)
RemoveNothing(s) ==
  /\ op[s].pc = "remove"
  /\ Goto(s, "fetch")
  /\ UNCHANGED <<channel, member, tangle, states, seen, stateKey, cache, faults, troubled>>

Remove(s) ==
  /\ op[s].pc = "remove"
  /\ cache' = [cache EXCEPT ![s[1]] = {}]
  /\ Goto(s, "fetch")
  /\ UNCHANGED <<channel, member, tangle, states, seen, stateKey, faults, troubled>>

(* A plausible bug: the logs are cached before the state is saved. *)
FetchCaches(s) ==
  /\ op[s].pc = "fetch"
  /\ op' = [op EXCEPT ![s].pc = "save", ![s].sub = Published]
  /\ cache' = [cache EXCEPT ![s[1]] = @ \cup Documents(Published \ op[s].sub, Password)]
  /\ UNCHANGED <<channel, member, tangle, states, seen, stateKey, faults, troubled>>

(* getMessages asks until nothing new comes.  It leaves out, and tells nobody, the
   messages whose details cannot be had. *)
Fetch(s) ==
  LET new == Published \ op[s].sub IN
  /\ op[s].pc = "fetch"
  /\ \E got \in SUBSET new :
       /\ op' = [op EXCEPT ![s].pc = "save", ![s].sub = Published, ![s].got = got]
       /\ IF got = new
            THEN UNCHANGED <<faults, troubled>>
            ELSE Fault("fail") /\ troubled' = troubled \cup {s[1]}
  /\ UNCHANGED <<channel, member, tangle, states, seen, stateKey, cache>>

(* What comes after the fetched logs are saved. *)
AfterFetch(kind) ==
  CASE kind = "add" -> "publish"
    [] kind \in AuthorOperations -> "sync"
    [] OTHER -> "idle"

(* Whose cache is as good as new when this step succeeds, with no message left out. *)
Reimported(s) == IF op[s].kind = "reimport" /\ op[s].got = op[s].sub THEN {s[1]} ELSE {}

Continue(s, label) ==
  IF label = "idle" THEN End(s)
                    ELSE op' = [op EXCEPT ![s].pc = label, ![s].got = {}]

SavedState(s, key) ==
  /\ seen' = [seen EXCEPT ![s[1]] = op[s].sub]
  /\ stateKey' = [stateKey EXCEPT ![s[1]] = key]

(* updateSubscriptionState throws when there is no document to update.  The
   state is saved before the logs are. *)
Save(s) ==
  /\ op[s].pc = "save"
  /\ IF s[1] \notin states
       THEN End(s) /\ UNCHANGED <<seen, stateKey>>
       ELSE IF op[s].got = {} /\ op[s].kind \in AuthorOperations
       THEN Goto(s, "sync") /\ UNCHANGED <<seen, stateKey>>
       ELSE /\ SavedState(s, FetchPassword(op[s].kind))
            /\ IF op[s].got = {} THEN Continue(s, AfterFetch(op[s].kind))
                                  ELSE Goto(s, "insert")
  /\ troubled' = IF op[s].got = {} THEN troubled \ Reimported(s) ELSE troubled
  /\ UNCHANGED <<channel, member, tangle, states, cache, faults>>

(* insertMany stops at the first log that is in the cache and throws; the
   order of the logs is the library's. *)
Insert(s) ==
  LET u == s[1]
      twice == op[s].got \cap Cached(u)
  IN
  /\ op[s].pc = "insert"
  /\ \E stored \in SUBSET op[s].got :
       /\ IF twice = {} THEN stored = op[s].got ELSE stored \cap twice = {}
       /\ cache' = [cache EXCEPT ![u] = @ \cup Documents(stored, FetchPassword(op[s].kind))]
  /\ IF twice = {} THEN Continue(s, AfterFetch(op[s].kind)) ELSE End(s)
  /\ troubled' = troubled \ Reimported(s)
  /\ UNCHANGED <<channel, member, tangle, states, seen, stateKey, faults>>

Sync(s) ==
  /\ op[s].pc = "sync"
  /\ op' = [op EXCEPT ![s].sub = Published,
                      ![s].pc = CASE op[s].kind = "add" -> "publish"
                                  [] op[s].kind = "authorize" -> "saveAuthor"
                                  [] OTHER -> "removeState"]
  /\ UNCHANGED <<channel, member, tangle, states, seen, stateKey, cache, faults, troubled>>

(* send_signed_packet and then get_link_details: the second may be rejected
   with the log published.  Beyond the bound nothing is published. *)
Publish(s) ==
  LET log == Len(tangle) + 1 IN
  /\ op[s].pc = "publish"
  /\ \/ /\ log \in Logs
        /\ tangle' = Append(tangle, s[1])
        /\ op' = [op EXCEPT ![s].pc = "insertOwn", ![s].own = log, ![s].sub = @ \cup {log}]
        /\ UNCHANGED faults
     \/ /\ log \in Logs
        /\ tangle' = Append(tangle, s[1])
        /\ Fault("fail")
        /\ End(s)
     \/ /\ log \notin Logs
        /\ End(s)
        /\ UNCHANGED <<tangle, faults>>
  /\ UNCHANGED <<channel, member, states, seen, stateKey, cache, troubled>>

InsertOwn(s) ==
  /\ op[s].pc = "insertOwn"
  /\ IF op[s].own \in Cached(s[1])
       THEN End(s) /\ UNCHANGED cache
       ELSE /\ cache' = [cache EXCEPT ![s[1]] = @ \cup Documents({op[s].own}, Password)]
            /\ Goto(s, "saveOwn")
  /\ UNCHANGED <<channel, member, tangle, states, seen, stateKey, faults, troubled>>

(* The state as it is in memory by now is exported and saved. *)
SaveOwn(s) ==
  /\ op[s].pc \in {"saveOwn", "saveAuthor"}
  /\ IF s[1] \in states THEN SavedState(s, Password) ELSE UNCHANGED <<seen, stateKey>>
  /\ End(s)
  /\ UNCHANGED <<channel, member, tangle, states, cache, faults, troubled>>

LogStep(s) ==
  \/ Remove(s) \/ Fetch(s) \/ Save(s) \/ Insert(s)
  \/ Sync(s) \/ Publish(s) \/ InsertOwn(s) \/ SaveOwn(s)

------------------------------------------------------------------------------
(* The author's authorizations and revocations: fetch with the author's state,
   sync before each keyload, and save the state as the last thing.  The
   keyloads are those of ChannelSubscriptions; here it matters what they make
   of the states and the caches. *)

StartKeyload(s) ==
  /\ s[1] = Author
  /\ \E kind \in AuthorOperations : Load(s, kind)

RemoveState(s) ==
  /\ op[s].pc = "removeState"
  /\ \E u \in Subscribers :
       /\ states' = states \ {u}
       /\ op' = [op EXCEPT ![s].pc = "removeDoc", ![s].whom = u]
  /\ UNCHANGED <<channel, member, tangle, seen, stateKey, cache, faults, troubled>>

RemoveDoc(s) ==
  /\ op[s].pc = "removeDoc"
  /\ member' = member \ {op[s].whom}
  /\ Goto(s, "removeData")
  /\ UNCHANGED <<channel, tangle, states, seen, stateKey, cache, faults, troubled>>

RemoveData(s) ==
  /\ op[s].pc = "removeData"
  /\ cache' = [cache EXCEPT ![op[s].whom] = {}]
  /\ Goto(s, "saveAuthor")
  /\ UNCHANGED <<channel, member, tangle, states, seen, stateKey, faults, troubled>>

RevokeStep(s) == RemoveState(s) \/ RemoveDoc(s) \/ RemoveData(s)

------------------------------------------------------------------------------
(* Failures. *)

(* Between two writes that belong together: the saved state and the fetched
   logs, the published log and the saved state, the emptied cache and the
   saved state that goes with it. *)
HalfWay(s) ==
  \/ op[s].pc \in {"insert", "saveOwn"}
  \/ op[s].kind = "reimport" /\ op[s].pc \in {"fetch", "save"}

Fail(s) ==
  /\ Fault("fail")
  /\ op[s] # Idle
  /\ End(s)
  /\ troubled' = IF HalfWay(s) THEN troubled \cup {s[1]} ELSE troubled
  /\ UNCHANGED <<channel, member, tangle, states, seen, stateKey, cache>>

Crash ==
  /\ Fault("crash")
  /\ op' = [s \in Requests |-> Idle]
  /\ troubled' = troubled \cup {s[1] : s \in {t \in Requests : HalfWay(t)}}
  /\ UNCHANGED <<channel, member, tangle, states, seen, stateKey, cache>>

Next ==
  \/ \E s \in Requests :
       \/ Start(s) \/ StartKeyload(s)
       \/ LogStep(s) \/ RevokeStep(s)
       \/ Fail(s)
  \/ Crash

Spec == Init /\ [][Next]_vars

------------------------------------------------------------------------------

TypeOK ==
  /\ type \in AllTypes
  /\ right \in [Users -> AllRights]
  /\ member \subseteq Users
  /\ tangle \in Seq(Users) /\ Len(tangle) <= MaxLogs
  /\ states \subseteq Users
  /\ seen \in [Users -> SUBSET Logs]
  /\ stateKey \in [Users -> Keys]
  /\ cache \in [Users -> SUBSET [log: Logs, key: Keys]]
  /\ op \in [Requests -> Ops]
  /\ faults \in Nat
  /\ troubled \subseteq Users

Quiet(u) == \A s \in Requests : s[1] = u => op[s] = Idle

(* What the author loses when she authorizes is not counted here, see
   AuthorMissesNothing. *)
Counted(u) == u \in Subscribers \/ Operations \cap AuthorOperations = {}

(* The cache of a reader holds exactly the logs her saved state has read, so
   that no log is lost and none will be fetched twice, whatever others publish
   and whatever failed or restarted elsewhere; a request of hers that is cut
   short between two writes, or a message left out of a fetch, may break that,
   and a re-import that succeeds restores it. *)
CacheExact ==
  \A u \in member \cap states :
    Reader(u) /\ Quiet(u) /\ Counted(u) /\ u \notin troubled => Cached(u) = seen[u]

(* No fetched log is in the cache already, so that the insert of the fetched
   logs does not throw half-way, unless a request was cut short before. *)
NothingFetchedTwice ==
  \A s \in Requests :
    op[s].pc = "insert" /\ s[1] \notin troubled => op[s].got \cap Cached(s[1]) = {}

(* Even after failures and restarts the cache is ahead of the saved state by
   logs of the user herself only. *)
OnlyOwnLogsAhead ==
  \A u \in member \cap states : Quiet(u) => \A l \in Cached(u) \ seen[u] : tangle[l] = u

(* A saved state never forgets what it has read, in spite of reset_state and
   of the copies of it that requests hold in memory. *)
StateNeverRewinds == [][\A u \in Users : seen[u] \subseteq seen'[u]]_vars

(* "fetch prev logs before syncing state": the logs the author's state has read
   are in her cache after she has authorized or revoked somebody too. *)
AuthorMissesNothing ==
  Quiet(Author) /\ Author \notin troubled => seen[Author] \subseteq Cached(Author)

(* What getLogs reads from the cache it can decrypt. *)
CacheReadable ==
  \A u \in Users : \A doc \in cache[u] : doc.key = Password

==============================================================================

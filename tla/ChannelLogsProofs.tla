--------------------------- MODULE ChannelLogsProofs ---------------------------
(***************************************************************************)
(* What ChannelLogs guarantees for every number of users, requests and     *)
(* logs, whatever fails: types, that a saved state never rewinds, and how  *)
(* far the cache of a user and her saved state may differ.                 *)
(*                                                                         *)
(* Alone says what the mutex and the channel-lock are for.  With it a step *)
(* leaves everything of the other users and of the other requests of the   *)
(* same user as it is (Others), and the invariant has to be looked at for  *)
(* the request that moves (SlotInv) and for its user (UserInv) only.       *)
(*                                                                         *)
(* The last part is about the functions of ChannelLogData, for all logs    *)
(* and sequences of logs.                                                  *)
(***************************************************************************)
EXTENDS MCChannelLogs, FiniteSetTheorems, SequenceTheorems, TLAPS

(* Two requests of a user are never served at once. *)
Alone ==
  \A s, t \in Requests :
    s[1] = t[1] /\ op[s].pc # "idle" /\ op[t].pc # "idle" => s = t

(* Which operation gets where. *)
KindsOf(s) ==
  IF op[s].pc = "idle" THEN op[s] = Idle ELSE
    /\ op[s].kind \in Operations
    /\ op[s].kind \in AuthorOperations => s[1] = Author
    /\ op[s].pc = "remove" => op[s].kind = "reimport"
    /\ op[s].pc = "sync" =>
         op[s].kind \in AuthorOperations \/ (op[s].kind = "add" /\ ~Reader(s[1]))
    /\ op[s].pc \in {"removeState", "removeDoc", "removeData", "saveAuthor"} =>
         op[s].kind \in AuthorOperations

(* How far the object in memory is ahead of the saved state. *)
ReadOn(s) ==
  /\ op[s].sub \subseteq Published
  /\ op[s].got \subseteq op[s].sub
  /\ op[s].pc \notin {"idle", "remove", "fetch"} => seen[s[1]] \subseteq op[s].sub
  /\ op[s].pc = "insert" => seen[s[1]] = op[s].sub
  /\ op[s].pc \in {"insertOwn", "saveOwn"} =>
       op[s].own \in op[s].sub /\ tangle[op[s].own] = s[1]

(* A re-import starts from nothing. *)
Emptied(s) ==
  op[s].kind = "reimport" =>
    /\ op[s].pc \in {"remove", "fetch"} => op[s].sub = {}
    /\ op[s].pc \in {"fetch", "save", "insert"} => Cached(s[1]) = {}

(* What is fetched is new to the cache. *)
NewOnly(s) ==
  s[1] \notin troubled =>
    /\ op[s].pc = "fetch" => Cached(s[1]) \subseteq op[s].sub
    /\ op[s].pc \in {"save", "insert"} => op[s].got \cap Cached(s[1]) = {}
    /\ op[s].pc = "saveOwn" /\ s[1] \in states => Cached(s[1]) \subseteq op[s].sub

(* Whose cache has to be complete. *)
Complete(u) == u \in states /\ u \notin troubled /\ Reader(u) /\ Counted(u)

(* What the object in memory has read is in the cache or on its way there. *)
Whole(s) ==
  Complete(s[1]) =>
    /\ op[s].pc \in {"fetch", "publish", "saveOwn"} => op[s].sub \subseteq Cached(s[1])
    /\ op[s].pc \in {"save", "insert"} => op[s].sub \subseteq Cached(s[1]) \cup op[s].got
    /\ op[s].pc = "insertOwn" => op[s].sub \subseteq Cached(s[1]) \cup {op[s].own}

(* The cache of a subscriber is removed after her state. *)
Gone(s) == op[s].pc \in {"removeDoc", "removeData"} => op[s].whom \notin states

SlotInv(s) ==
  KindsOf(s) /\ ReadOn(s) /\ Emptied(s) /\ NewOnly(s) /\ Whole(s) /\ Gone(s)

(* The cache is ahead of the saved state between two writes only. *)
NotAhead(u) ==
  /\ u \in states /\ u \notin troubled
  /\ \A s \in Requests : s[1] = u => op[s].pc # "saveOwn"
  => Cached(u) \subseteq seen[u]

(* And so is the saved state of the cache. *)
NotBehind(u) ==
  /\ Complete(u)
  /\ \A s \in Requests : s[1] = u => ~HalfWay(s)
  => seen[u] \subseteq Cached(u)

UserInv(u) ==
  /\ seen[u] \subseteq Published
  /\ Cached(u) \subseteq Published
  /\ \A l \in Cached(u) : l \notin seen[u] => tangle[l] = u
  /\ NotAhead(u)
  /\ NotBehind(u)

Slots == \A s \in Requests : SlotInv(s)
Owners == \A u \in Users : UserInv(u)

LogInv == TypeOK /\ Alone /\ Slots /\ Owners

------------------------------------------------------------------------------
(* What the ways to move a request do to op. *)

LEMMA IdleKnown ==
  /\ Idle \in Ops
  /\ Idle.pc = "idle" /\ Idle.sub = {} /\ Idle.got = {} /\ Idle.kind = "get"
  BY LogAuthorAssumption, MaxLogsAssumption
     DEF Idle, Ops, PCs, AllOperations, UserOperations, AuthorOperations, Users

LEMMA OneOfTheAuthor ==
  ASSUME NEW s \in Requests, NEW t \in Requests, s[1] = Author, t[1] = Author
  PROVE  s = t
<1>1. Parallel[Author] = 1
  BY ParallelAssumption
<1>2. s = <<Author, 1>> /\ t = <<Author, 1>>
  BY <1>1 DEF Requests
<1> QED
  BY <1>2

LEMMA Requested ==
  ASSUME NEW s \in Requests
  PROVE  s[1] \in Users
  BY DEF Requests

LEMMA Moved ==
  ASSUME op \in [Requests -> Ops], NEW s \in Requests, NEW o \in Ops,
         op' = [op EXCEPT ![s] = o]
  PROVE  /\ op' \in [Requests -> Ops]
         /\ op'[s] = o
         /\ \A t \in Requests : t # s => op'[t] = op[t]
  OBVIOUS

LEMMA MovedEnd ==
  ASSUME op \in [Requests -> Ops], NEW s \in Requests, End(s)
  PROVE  /\ op' \in [Requests -> Ops]
         /\ op'[s] = Idle
         /\ \A t \in Requests : t # s => op'[t] = op[t]
  BY Moved, IdleKnown DEF End

LEMMA MovedGoto ==
  ASSUME op \in [Requests -> Ops], NEW s \in Requests, NEW label \in PCs, Goto(s, label)
  PROVE  /\ op' \in [Requests -> Ops]
         /\ op'[s].pc = label /\ op'[s].kind = op[s].kind /\ op'[s].sub = op[s].sub
         /\ op'[s].got = op[s].got /\ op'[s].own = op[s].own /\ op'[s].whom = op[s].whom
         /\ \A t \in Requests : t # s => op'[t] = op[t]
<1> DEFINE o == [op[s] EXCEPT !.pc = label]
<1>1. /\ o \in Ops /\ o.pc = label /\ o.kind = op[s].kind /\ o.sub = op[s].sub
      /\ o.got = op[s].got /\ o.own = op[s].own /\ o.whom = op[s].whom
  BY DEF Ops
<1>2. op' = [op EXCEPT ![s] = o]
  BY DEF Goto
<1> HIDE DEF o
<1> QED
  BY <1>1, <1>2, Moved

(* Continue, when it does not end the request. *)
LEMMA MovedContinue ==
  ASSUME op \in [Requests -> Ops], NEW s \in Requests, NEW label \in PCs, label # "idle",
         Continue(s, label)
  PROVE  /\ op' \in [Requests -> Ops]
         /\ op'[s].pc = label /\ op'[s].kind = op[s].kind /\ op'[s].sub = op[s].sub
         /\ op'[s].got = {}
         /\ \A t \in Requests : t # s => op'[t] = op[t]
<1> DEFINE o == [op[s] EXCEPT !.pc = label, !.got = {}]
<1>1. /\ o \in Ops /\ o.pc = label /\ o.kind = op[s].kind /\ o.sub = op[s].sub
      /\ o.got = {}
  BY DEF Ops
<1>2. op' = [op EXCEPT ![s] = o]
  BY DEF Continue
<1> HIDE DEF o
<1> QED
  BY <1>1, <1>2, Moved

LEMMA MovedLoad ==
  ASSUME op \in [Requests -> Ops], NEW s \in Requests, op[s] = Idle,
         NEW label \in PCs, NEW kind \in AllOperations, NEW sub \in SUBSET Logs,
         op' = [op EXCEPT ![s].pc = label, ![s].kind = kind, ![s].sub = sub]
  PROVE  /\ op' \in [Requests -> Ops]
         /\ op'[s].pc = label /\ op'[s].kind = kind /\ op'[s].sub = sub
         /\ op'[s].got = {}
         /\ \A t \in Requests : t # s => op'[t] = op[t]
<1> DEFINE o == [op[s] EXCEPT !.pc = label, !.kind = kind, !.sub = sub]
<1>1. o \in Ops /\ o.pc = label /\ o.kind = kind /\ o.sub = sub /\ o.got = op[s].got
  BY DEF Ops
<1>2. op' = [op EXCEPT ![s] = o]
  OBVIOUS
<1>3. op[s].got = {}
  BY IdleKnown
<1> HIDE DEF o
<1> QED
  BY <1>1, <1>2, <1>3, Moved

LEMMA MovedFetch ==
  ASSUME op \in [Requests -> Ops], NEW s \in Requests,
         NEW sub \in SUBSET Logs, NEW got \in SUBSET Logs,
         op' = [op EXCEPT ![s].pc = "save", ![s].sub = sub, ![s].got = got]
  PROVE  /\ op' \in [Requests -> Ops]
         /\ op'[s].pc = "save" /\ op'[s].kind = op[s].kind /\ op'[s].sub = sub
         /\ op'[s].got = got
         /\ \A t \in Requests : t # s => op'[t] = op[t]
<1> DEFINE o == [op[s] EXCEPT !.pc = "save", !.sub = sub, !.got = got]
<1>1. o \in Ops /\ o.pc = "save" /\ o.kind = op[s].kind /\ o.sub = sub /\ o.got = got
  BY DEF Ops, PCs
<1>2. op' = [op EXCEPT ![s] = o]
  OBVIOUS
<1> HIDE DEF o
<1> QED
  BY <1>1, <1>2, Moved

LEMMA MovedSync ==
  ASSUME op \in [Requests -> Ops], NEW s \in Requests, NEW label \in PCs,
         NEW sub \in SUBSET Logs,
         op' = [op EXCEPT ![s].sub = sub, ![s].pc = label]
  PROVE  /\ op' \in [Requests -> Ops]
         /\ op'[s].pc = label /\ op'[s].kind = op[s].kind /\ op'[s].sub = sub
         /\ op'[s].got = op[s].got
         /\ \A t \in Requests : t # s => op'[t] = op[t]
<1> DEFINE o == [op[s] EXCEPT !.sub = sub, !.pc = label]
<1>1. o \in Ops /\ o.pc = label /\ o.kind = op[s].kind /\ o.sub = sub /\ o.got = op[s].got
  BY DEF Ops
<1>2. op' = [op EXCEPT ![s] = o]
  OBVIOUS
<1> HIDE DEF o
<1> QED
  BY <1>1, <1>2, Moved

LEMMA MovedPublish ==
  ASSUME op \in [Requests -> Ops], NEW s \in Requests, NEW log \in Logs,
         op' = [op EXCEPT ![s].pc = "insertOwn", ![s].own = log, ![s].sub = @ \cup {log}]
  PROVE  /\ op' \in [Requests -> Ops]
         /\ op'[s].pc = "insertOwn" /\ op'[s].kind = op[s].kind
         /\ op'[s].sub = op[s].sub \cup {log} /\ op'[s].got = op[s].got /\ op'[s].own = log
         /\ \A t \in Requests : t # s => op'[t] = op[t]
<1> DEFINE sub == op[s].sub \cup {log}
           o == [op[s] EXCEPT !.pc = "insertOwn", !.own = log, !.sub = sub]
<1>1. sub \in SUBSET Logs
  BY DEF Ops
<1>2. op' = [op EXCEPT ![s] = o]
  OBVIOUS
<1>3. /\ o \in Ops /\ o.pc = "insertOwn" /\ o.kind = op[s].kind /\ o.sub = sub
      /\ o.got = op[s].got /\ o.own = log
  <2> HIDE DEF sub
  <2> QED
    BY <1>1 DEF Ops, PCs
<1> HIDE DEF o
<1> QED
  BY <1>2, <1>3, Moved

LEMMA MovedRemoveState ==
  ASSUME op \in [Requests -> Ops], NEW s \in Requests, NEW u \in Users,
         op' = [op EXCEPT ![s].pc = "removeDoc", ![s].whom = u]
  PROVE  /\ op' \in [Requests -> Ops]
         /\ op'[s].pc = "removeDoc" /\ op'[s].kind = op[s].kind /\ op'[s].sub = op[s].sub
         /\ op'[s].got = op[s].got /\ op'[s].whom = u
         /\ \A t \in Requests : t # s => op'[t] = op[t]
<1> DEFINE o == [op[s] EXCEPT !.pc = "removeDoc", !.whom = u]
<1>1. /\ o \in Ops /\ o.pc = "removeDoc" /\ o.kind = op[s].kind /\ o.sub = op[s].sub
      /\ o.got = op[s].got /\ o.whom = u
  BY DEF Ops, PCs
<1>2. op' = [op EXCEPT ![s] = o]
  OBVIOUS
<1> HIDE DEF o
<1> QED
  BY <1>1, <1>2, Moved

------------------------------------------------------------------------------
(* Types *)

LEMMA KeysKnown ==
  /\ Password \in Keys
  /\ \A kind \in AllOperations : FetchPassword(kind) \in Keys
  BY DEF Password, FetchPassword, Keys

LEMMA DocumentsTyped ==
  ASSUME NEW logs \in SUBSET Logs, NEW key \in Keys
  PROVE  Documents(logs, key) \subseteq [log: Logs, key: Keys]
  BY DEF Documents

LEMMA PublishedTyped ==
  ASSUME TypeOK
  PROVE  Published \subseteq Logs
  BY MaxLogsAssumption DEF TypeOK, Published, Logs

LEMMA CacheTyped ==
  ASSUME cache \in [Users -> SUBSET [log: Logs, key: Keys]], NEW u \in Users,
         NEW docs \in SUBSET [log: Logs, key: Keys], cache' = [cache EXCEPT ![u] = docs]
  PROVE  /\ cache' \in [Users -> SUBSET [log: Logs, key: Keys]]
         /\ cache'[u] = docs
         /\ \A v \in Users : v # u => cache'[v] = cache[v]
  OBVIOUS

LEMMA StateTyped ==
  ASSUME seen \in [Users -> SUBSET Logs], stateKey \in [Users -> Keys],
         op \in [Requests -> Ops], NEW s \in Requests, NEW key \in Keys, SavedState(s, key)
  PROVE  /\ seen' \in [Users -> SUBSET Logs] /\ stateKey' \in [Users -> Keys]
         /\ seen'[s[1]] = op[s].sub
         /\ \A v \in Users : v # s[1] => seen'[v] = seen[v]
<1>1. op[s].sub \in SUBSET Logs /\ s[1] \in Users
  BY Requested DEF Ops
<1> DEFINE sub == op[s].sub
<1>2. seen' = [seen EXCEPT ![s[1]] = sub] /\ stateKey' = [stateKey EXCEPT ![s[1]] = key]
  BY DEF SavedState
<1>3. sub \in SUBSET Logs
  BY <1>1
<1> HIDE DEF sub
<1>4. /\ seen' \in [Users -> SUBSET Logs] /\ stateKey' \in [Users -> Keys]
      /\ seen'[s[1]] = sub
      /\ \A v \in Users : v # s[1] => seen'[v] = seen[v]
  BY <1>1, <1>2, <1>3
<1> QED
  BY <1>4 DEF sub

LEMMA Appended ==
  ASSUME TypeOK, NEW u \in Users, Len(tangle) + 1 \in Logs, tangle' = Append(tangle, u)
  PROVE  /\ tangle' \in Seq(Users) /\ Len(tangle') = Len(tangle) + 1 /\ Len(tangle') <= MaxLogs
         /\ tangle'[Len(tangle) + 1] = u
         /\ \A l \in Published : tangle'[l] = tangle[l]
         /\ Published' = Published \cup {Len(tangle) + 1}
<1>1. tangle \in Seq(Users) /\ MaxLogs \in Nat /\ Len(tangle) + 1 <= MaxLogs /\ Len(tangle) \in Nat
  BY MaxLogsAssumption DEF TypeOK, Logs
<1>2. /\ tangle' \in Seq(Users) /\ Len(tangle') = Len(tangle) + 1
      /\ tangle'[Len(tangle) + 1] = u
      /\ \A l \in 1..Len(tangle) : tangle'[l] = tangle[l]
  BY <1>1
<1>3. 1..(Len(tangle) + 1) = (1..Len(tangle)) \cup {Len(tangle) + 1}
  BY <1>1
<1> QED
  BY <1>1, <1>2, <1>3 DEF Published

(* What the steps do to op, where the record of the request stays in Ops. *)
LEMMA LoadMoves ==
  ASSUME TypeOK, NEW s \in Requests, NEW kind \in AllOperations, Load(s, kind)
  PROVE  \/ op' = op
         \/ /\ op' \in [Requests -> Ops]
            /\ op[s].pc = "idle" /\ kind \in Operations
            /\ s[1] \in states /\ s[1] \in member /\ ~Refused(s[1], kind)
            /\ op'[s].pc = FirstStep(s[1], kind) /\ op'[s].pc \in {"remove", "sync", "fetch"}
            /\ op'[s].kind = kind /\ op'[s].got = {}
            /\ op'[s].sub = IF kind = "reimport" THEN {} ELSE seen[s[1]]
            /\ \A t \in Requests : t # s => op'[t] = op[t]
<1> DEFINE label == FirstStep(s[1], kind)
           sub == IF kind = "reimport" THEN {} ELSE seen[s[1]]
<1>1. op' = op \/ /\ op' = [op EXCEPT ![s].pc = label, ![s].kind = kind, ![s].sub = sub]
                  /\ op[s] = Idle /\ kind \in Operations
                  /\ s[1] \in states /\ s[1] \in member /\ ~Refused(s[1], kind)
                  /\ label # "idle"
  BY DEF Load
<1>2. label \in {"idle", "remove", "sync", "fetch"} /\ label \in PCs
  BY DEF FirstStep, PCs
<1>3. sub \in SUBSET Logs
  BY Requested DEF TypeOK
<1>4. op \in [Requests -> Ops]
  BY DEF TypeOK
<1> SUFFICES ASSUME op' # op
             PROVE  /\ op' \in [Requests -> Ops]
                    /\ op[s].pc = "idle" /\ kind \in Operations
                    /\ s[1] \in states /\ s[1] \in member /\ ~Refused(s[1], kind)
                    /\ op'[s].pc = label /\ op'[s].pc \in {"remove", "sync", "fetch"}
                    /\ op'[s].kind = kind /\ op'[s].got = {}
                    /\ op'[s].sub = sub
                    /\ \A t \in Requests : t # s => op'[t] = op[t]
  OBVIOUS
<1> HIDE DEF label, sub
<1>5. /\ op' = [op EXCEPT ![s].pc = label, ![s].kind = kind, ![s].sub = sub]
      /\ op[s] = Idle /\ kind \in Operations
      /\ s[1] \in states /\ s[1] \in member /\ ~Refused(s[1], kind)
      /\ label \in {"remove", "sync", "fetch"}
  BY <1>1, <1>2
<1>6. /\ op' \in [Requests -> Ops]
      /\ op'[s].pc = label /\ op'[s].kind = kind /\ op'[s].sub = sub
      /\ op'[s].got = {}
      /\ \A t \in Requests : t # s => op'[t] = op[t]
  BY <1>2, <1>3, <1>4, <1>5, MovedLoad
<1>7. op[s].pc = "idle"
  BY <1>5, IdleKnown
<1> QED
  BY <1>5, <1>6, <1>7

LEMMA TypesKept ==
  ASSUME TypeOK, Slots, [Next]_vars
  PROVE  TypeOK'
<1>0. /\ op \in [Requests -> Ops] /\ cache \in [Users -> SUBSET [log: Logs, key: Keys]]
      /\ faults \in Nat /\ MaxFaults \in Nat
  BY LogFaultsAssumption DEF TypeOK
<1> DEFINE Rest == UNCHANGED <<channel, tangle, seen, stateKey, cache>>
<1>1. ASSUME NEW s \in Requests, Start(s) \/ StartKeyload(s)
      PROVE  TypeOK'
  <2>1. PICK kind \in AllOperations : Load(s, kind)
    BY <1>1 DEF Start, StartKeyload, AllOperations
  <2>2. op' \in [Requests -> Ops]
    BY <2>1, <1>0, LoadMoves
  <2> QED
    BY <2>1, <2>2 DEF Load, TypeOK, channel
<1>2. ASSUME NEW s \in Requests, Remove(s)
      PROVE  TypeOK'
  <2>1. op' \in [Requests -> Ops]
    BY <1>0, <1>2, MovedGoto DEF Remove, PCs
  <2>2. cache' \in [Users -> SUBSET [log: Logs, key: Keys]]
    BY <1>0, <1>2, Requested, CacheTyped DEF Remove
  <2> QED
    BY <1>2, <2>1, <2>2 DEF Remove, TypeOK, channel
<1>3. ASSUME NEW s \in Requests, Fetch(s)
      PROVE  TypeOK'
  <2>1. PICK got \in SUBSET (Published \ op[s].sub) :
          /\ op' = [op EXCEPT ![s].pc = "save", ![s].sub = Published, ![s].got = got]
          /\ \/ UNCHANGED <<faults, troubled>>
             \/ Fault("fail") /\ troubled' = troubled \cup {s[1]}
    BY <1>3 DEF Fetch
  <2>2. Published \in SUBSET Logs /\ got \in SUBSET Logs
    BY PublishedTyped
  <2>3. op' \in [Requests -> Ops]
    <3> DEFINE sub == Published
    <3>1. sub \in SUBSET Logs
          /\ op' = [op EXCEPT ![s].pc = "save", ![s].sub = sub, ![s].got = got]
      BY <2>1, <2>2
    <3> HIDE DEF sub
    <3> QED
      BY <1>0, <2>2, <3>1, MovedFetch
  <2>4. faults' \in Nat /\ troubled' \subseteq Users
    BY <1>0, <2>1, Requested DEF Fault, TypeOK
  <2> QED
    BY <1>3, <2>3, <2>4 DEF Fetch, TypeOK, channel
<1>4. ASSUME NEW s \in Requests, NEW label \in PCs, Continue(s, label)
      PROVE  op' \in [Requests -> Ops]
  <2>1. CASE label = "idle"
    BY <1>0, <1>4, <2>1, MovedEnd DEF Continue
  <2>2. CASE label # "idle"
    BY <1>0, <1>4, <2>2, MovedContinue
  <2> QED
    BY <2>1, <2>2
<1>5. \A kind : AfterFetch(kind) \in PCs
  BY DEF AfterFetch, PCs
<1>6. ASSUME NEW s \in Requests, Save(s)
      PROVE  TypeOK'
  <2>1. op' \in [Requests -> Ops]
    <3>1. \/ End(s) \/ Goto(s, "sync") \/ Goto(s, "insert") \/ Continue(s, AfterFetch(op[s].kind))
      BY <1>6 DEF Save
    <3> QED
      BY <1>0, <1>4, <1>5, <3>1, MovedEnd, MovedGoto DEF PCs
  <2>2. seen' \in [Users -> SUBSET Logs] /\ stateKey' \in [Users -> Keys]
    <3>1. \/ UNCHANGED <<seen, stateKey>>
          \/ SavedState(s, FetchPassword(op[s].kind))
      BY <1>6 DEF Save
    <3>2. FetchPassword(op[s].kind) \in Keys
      BY <1>0, KeysKnown DEF Ops
    <3> QED
      BY <1>0, <3>1, <3>2, StateTyped DEF TypeOK
  <2> QED
    BY <1>6, <2>1, <2>2 DEF Save, TypeOK, channel
<1>7. ASSUME NEW s \in Requests, Insert(s)
      PROVE  TypeOK'
  <2>1. op' \in [Requests -> Ops]
    <3>1. \/ End(s) \/ Continue(s, AfterFetch(op[s].kind))
      BY <1>7 DEF Insert
    <3> QED
      BY <1>0, <1>4, <1>5, <3>1, MovedEnd
  <2>2. cache' \in [Users -> SUBSET [log: Logs, key: Keys]]
    <3>1. PICK stored \in SUBSET op[s].got :
            cache' = [cache EXCEPT ![s[1]] = @ \cup Documents(stored, FetchPassword(op[s].kind))]
      BY <1>7 DEF Insert
    <3> DEFINE docs == cache[s[1]] \cup Documents(stored, FetchPassword(op[s].kind))
    <3>2. stored \in SUBSET Logs /\ FetchPassword(op[s].kind) \in Keys
      BY <1>0, KeysKnown DEF Ops
    <3>3. docs \in SUBSET [log: Logs, key: Keys] /\ cache' = [cache EXCEPT ![s[1]] = docs]
      BY <1>0, <3>1, <3>2, DocumentsTyped, Requested
    <3> HIDE DEF docs
    <3> QED
      BY <1>0, <3>3, CacheTyped, Requested
  <2> QED
    BY <1>7, <2>1, <2>2 DEF Insert, TypeOK, channel
<1>8. ASSUME NEW s \in Requests, Sync(s)
      PROVE  TypeOK'
  <2> DEFINE sub == Published
             label == CASE op[s].kind = "add" -> "publish"
                        [] op[s].kind = "authorize" -> "saveAuthor"
                        [] OTHER -> "removeState"
  <2>1. /\ op' = [op EXCEPT ![s].sub = sub, ![s].pc = label]
        /\ label \in PCs /\ sub \in SUBSET Logs
    BY <1>8, PublishedTyped DEF Sync, PCs
  <2> HIDE DEF sub, label
  <2>2. op' \in [Requests -> Ops]
    BY <1>0, <2>1, MovedSync
  <2> QED
    BY <1>8, <2>2 DEF Sync, TypeOK, channel
<1>9. ASSUME NEW s \in Requests, Publish(s)
      PROVE  TypeOK'
  <2>1. CASE End(s) /\ UNCHANGED <<tangle, faults>>
    BY <1>0, <1>9, <2>1, MovedEnd DEF Publish, TypeOK, channel
  <2>2. CASE Len(tangle) + 1 \in Logs /\ tangle' = Append(tangle, s[1])
    <3>1. tangle' \in Seq(Users) /\ Len(tangle') <= MaxLogs
      BY <2>2, Appended, Requested
    <3> DEFINE log == Len(tangle) + 1
    <3>2. \/ End(s)
          \/ op' = [op EXCEPT ![s].pc = "insertOwn", ![s].own = log, ![s].sub = @ \cup {log}]
      BY <1>9 DEF Publish
    <3>3. log \in Logs
      BY <2>2
    <3> HIDE DEF log
    <3>4. op' \in [Requests -> Ops]
      BY <1>0, <3>2, <3>3, MovedEnd, MovedPublish
    <3>5. faults' \in Nat
      BY <1>0, <1>9 DEF Publish, Fault
    <3> QED
      BY <1>9, <3>1, <3>4, <3>5 DEF Publish, TypeOK, channel
  <2> QED
    BY <1>9, <2>1, <2>2 DEF Publish
<1>10. ASSUME NEW s \in Requests, InsertOwn(s)
       PROVE  TypeOK'
  <2>1. op' \in [Requests -> Ops]
    BY <1>0, <1>10, MovedEnd, MovedGoto DEF InsertOwn, PCs
  <2>2. CASE UNCHANGED cache
    BY <1>10, <2>1, <2>2 DEF InsertOwn, TypeOK, channel
  <2>3. CASE cache' = [cache EXCEPT ![s[1]] = @ \cup Documents({op[s].own}, Password)]
             /\ op[s].own \in Logs
    <3> DEFINE docs == cache[s[1]] \cup Documents({op[s].own}, Password)
    <3>1. docs \in SUBSET [log: Logs, key: Keys] /\ cache' = [cache EXCEPT ![s[1]] = docs]
      BY <1>0, <2>3, KeysKnown, DocumentsTyped, Requested
    <3> HIDE DEF docs
    <3>2. cache' \in [Users -> SUBSET [log: Logs, key: Keys]]
      BY <1>0, <3>1, CacheTyped, Requested
    <3> QED
      BY <1>10, <2>1, <3>2 DEF InsertOwn, TypeOK, channel
  <2>4. op[s].own \in Logs
    <3>1. op[s].sub \subseteq Logs
      BY <1>0 DEF Ops
    <3> QED
      BY <1>10, <3>1 DEF InsertOwn, Slots, SlotInv, ReadOn
  <2> QED
    BY <1>10, <2>2, <2>3, <2>4 DEF InsertOwn
<1>11. ASSUME NEW s \in Requests, SaveOwn(s)
       PROVE  TypeOK'
  <2>1. op' \in [Requests -> Ops]
    BY <1>0, <1>11, MovedEnd DEF SaveOwn
  <2>2. seen' \in [Users -> SUBSET Logs] /\ stateKey' \in [Users -> Keys]
    BY <1>0, <1>11, KeysKnown, StateTyped DEF SaveOwn, TypeOK
  <2> QED
    BY <1>11, <2>1, <2>2 DEF SaveOwn, TypeOK, channel
<1>12. ASSUME NEW s \in Requests, RemoveState(s)
       PROVE  TypeOK'
  <2>1. PICK u \in Subscribers :
          /\ states' = states \ {u}
          /\ op' = [op EXCEPT ![s].pc = "removeDoc", ![s].whom = u]
    BY <1>12 DEF RemoveState
  <2>2. op' \in [Requests -> Ops]
    BY <1>0, <2>1, MovedRemoveState DEF Users
  <2> QED
    BY <1>12, <2>1, <2>2 DEF RemoveState, TypeOK, channel
<1>13. ASSUME NEW s \in Requests, RemoveDoc(s)
       PROVE  TypeOK'
  <2>1. op' \in [Requests -> Ops]
    BY <1>0, <1>13, MovedGoto DEF RemoveDoc, PCs
  <2> QED
    BY <1>13, <2>1 DEF RemoveDoc, TypeOK, channel
<1>14. ASSUME NEW s \in Requests, RemoveData(s)
       PROVE  TypeOK'
  <2>1. op' \in [Requests -> Ops]
    BY <1>0, <1>14, MovedGoto DEF RemoveData, PCs
  <2>2. cache' \in [Users -> SUBSET [log: Logs, key: Keys]]
    BY <1>0, <1>14, CacheTyped DEF RemoveData, Ops
  <2> QED
    BY <1>14, <2>1, <2>2 DEF RemoveData, TypeOK, channel
<1>15. ASSUME NEW s \in Requests, Fail(s)
       PROVE  TypeOK'
  <2>1. op' \in [Requests -> Ops] /\ faults' \in Nat /\ troubled' \subseteq Users
    BY <1>0, <1>15, MovedEnd, Requested DEF Fail, Fault, TypeOK
  <2> QED
    BY <1>15, <2>1 DEF Fail, TypeOK, channel
<1>16. CASE Crash
  <2>1. op' \in [Requests -> Ops] /\ faults' \in Nat /\ troubled' \subseteq Users
    BY <1>0, <1>16, IdleKnown, Requested DEF Crash, Fault, TypeOK
  <2> QED
    BY <1>16, <2>1 DEF Crash, TypeOK, channel
<1>17. CASE UNCHANGED vars
  BY <1>17 DEF vars, TypeOK, channel
<1> QED
  BY <1>1, <1>2, <1>3, <1>6, <1>7, <1>8, <1>9, <1>10, <1>11, <1>12, <1>13, <1>14, <1>15,
     <1>16, <1>17
     DEF Next, LogStep, RevokeStep

------------------------------------------------------------------------------
(* What a step of one request leaves to all others. *)

Others(s) ==
  /\ \A t \in Requests : t # s => op'[t] = op[t]
  /\ \A t \in Requests : t # s /\ t[1] = s[1] => op[t] = Idle
  /\ \A u \in Users : u # s[1] =>
       /\ seen'[u] = seen[u]
       /\ cache'[u] = cache[u] \/ (u \notin states /\ cache'[u] = {})
       /\ u \in troubled' <=> u \in troubled
  /\ states' \subseteq states
  /\ type' = type /\ right' = right
  /\ Published \subseteq Published'
  /\ \A l \in Published : tangle'[l] = tangle[l]

LEMMA CachedSame ==
  ASSUME NEW u \in Users, cache'[u] = cache[u]
  PROVE  Cached(u)' = Cached(u)
  BY DEF Cached

LEMMA CachedEmpty ==
  ASSUME NEW u \in Users, cache'[u] = {}
  PROVE  Cached(u)' = {}
  BY DEF Cached

LEMMA CachedMore ==
  ASSUME NEW u \in Users, NEW logs, NEW key, cache'[u] = cache[u] \cup Documents(logs, key)
  PROVE  Cached(u)' = Cached(u) \cup logs
<1>1. \A l \in logs : \E doc \in Documents(logs, key) : doc.log = l
  <2> SUFFICES ASSUME NEW l \in logs
               PROVE  \E doc \in Documents(logs, key) : doc.log = l
    OBVIOUS
  <2>1. [log |-> l, key |-> key] \in Documents(logs, key)
    BY DEF Documents
  <2> QED
    BY <2>1
<1>2. \A doc \in Documents(logs, key) : doc.log \in logs
  BY DEF Documents
<1> QED
  BY <1>1, <1>2 DEF Cached

LEMMA OthersCached ==
  ASSUME NEW s \in Requests, Others(s), NEW u \in Users, u # s[1]
  PROVE  /\ Cached(u)' \subseteq Cached(u)
         /\ u \in states => Cached(u)' = Cached(u)
  BY CachedSame, CachedEmpty DEF Others

LEMMA IdleSlot ==
  ASSUME NEW s \in Requests, op'[s] = Idle
  PROVE  SlotInv(s)'
  BY IdleKnown DEF SlotInv, KindsOf, ReadOn, Emptied, NewOnly, Whole, Gone

(* The other requests. *)
LEMMA OthersSlots ==
  ASSUME Slots, NEW s \in Requests, Others(s), NEW t \in Requests, t # s
  PROVE  SlotInv(t)'
<1> DEFINE u == t[1]
<1>1. op'[t] = op[t] /\ SlotInv(t) /\ states' \subseteq states /\ u \in Users
  BY Requested DEF Slots, Others
<1>2. CASE u = s[1]
  BY <1>1, <1>2, IdleSlot DEF Others
<1>3. CASE u # s[1]
  <2>1. /\ Cached(u)' \subseteq Cached(u)
        /\ u \in states => Cached(u)' = Cached(u)
    BY <1>1, <1>3, OthersCached
  <2>2. /\ seen'[u] = seen[u] /\ (u \in troubled' <=> u \in troubled)
        /\ type' = type /\ right' = right
        /\ Published \subseteq Published' /\ \A l \in Published : tangle'[l] = tangle[l]
    BY <1>1, <1>3 DEF Others
  <2>3. KindsOf(t)'
    BY <1>1, <2>2 DEF SlotInv, KindsOf, Reader
  <2>4. ReadOn(t)'
    BY <1>1, <2>2 DEF SlotInv, ReadOn
  <2>5. Emptied(t)'
    BY <1>1, <2>1 DEF SlotInv, Emptied
  <2>6. NewOnly(t)'
    BY <1>1, <2>1, <2>2 DEF SlotInv, NewOnly
  <2>7. Whole(t)'
    BY <1>1, <2>1, <2>2 DEF SlotInv, Whole, Complete, Reader, Counted
  <2>8. Gone(t)'
    BY <1>1 DEF SlotInv, Gone
  <2> QED
    BY <2>3, <2>4, <2>5, <2>6, <2>7, <2>8 DEF SlotInv
<1> QED
  BY <1>2, <1>3

(* The other users. *)
LEMMA OthersOwners ==
  ASSUME Owners, NEW s \in Requests, Others(s), NEW u \in Users, u # s[1]
  PROVE  UserInv(u)'
<1>1. /\ Cached(u)' \subseteq Cached(u)
      /\ u \in states => Cached(u)' = Cached(u)
  BY OthersCached
<1>2. /\ seen'[u] = seen[u] /\ (u \in troubled' <=> u \in troubled)
      /\ type' = type /\ right' = right /\ states' \subseteq states
      /\ Published \subseteq Published' /\ \A l \in Published : tangle'[l] = tangle[l]
  BY DEF Others
<1>3. \A t \in Requests : t[1] = u => op'[t] = op[t]
  BY DEF Others
<1>4. UserInv(u)
  BY DEF Owners
<1>5. (seen[u] \subseteq Published)' /\ (Cached(u) \subseteq Published)'
  BY <1>1, <1>2, <1>4 DEF UserInv
<1>6. (\A l \in Cached(u) : l \notin seen[u] => tangle[l] = u)'
  BY <1>1, <1>2, <1>4 DEF UserInv
<1>7. NotAhead(u)'
  BY <1>1, <1>2, <1>3, <1>4 DEF UserInv, NotAhead
<1>8. NotBehind(u)'
  <2>1. Complete(u)' => Complete(u) /\ u \in states
    BY <1>2 DEF Complete, Reader, Counted
  <2>2. \A t \in Requests : t[1] = u => (HalfWay(t)' <=> HalfWay(t))
    BY <1>3 DEF HalfWay
  <2>3. NotBehind(u)
    BY <1>4 DEF UserInv
  <2>4. (\A t \in Requests : t[1] = u => ~HalfWay(t))'
        => \A t \in Requests : t[1] = u => ~HalfWay(t)
    BY <2>2
  <2>5. Complete(u)' /\ (\A t \in Requests : t[1] = u => ~HalfWay(t))'
        => (seen[u] \subseteq Cached(u))'
    BY <1>1, <1>2, <2>1, <2>3, <2>4 DEF NotBehind
  <2> QED
    BY <2>5 DEF NotBehind
<1> QED
  BY <1>5, <1>6, <1>7, <1>8 DEF UserInv

LEMMA AloneKept ==
  ASSUME Alone, NEW s \in Requests, Others(s)
  PROVE  Alone'
<1> SUFFICES ASSUME NEW t \in Requests, NEW r \in Requests, t[1] = r[1],
                    op'[t].pc # "idle", op'[r].pc # "idle", t # r
             PROVE  FALSE
  BY DEF Alone
<1>1. \A q \in Requests : q # s /\ q[1] = s[1] => op'[q].pc = "idle"
  BY IdleKnown DEF Others
<1>2. t # s /\ r # s
  BY <1>1
<1>3. op'[t] = op[t] /\ op'[r] = op[r]
  BY <1>2 DEF Others
<1> QED
  BY <1>3 DEF Alone

------------------------------------------------------------------------------
(* What is left to show of a step of one request. *)

Good(s) == Others(s) /\ SlotInv(s)' /\ UserInv(s[1])'

LEMMA GoodKept ==
  ASSUME LogInv, TypeOK', NEW s \in Requests, Good(s)
  PROVE  LogInv'
<1>1. Alone'
  BY AloneKept DEF LogInv, Good
<1>2. Slots'
  BY OthersSlots DEF LogInv, Good, Slots
<1>3. Owners'
  BY OthersOwners DEF LogInv, Good, Owners
<1> QED
  BY <1>1, <1>2, <1>3 DEF LogInv

LEMMA Lonely ==
  ASSUME Alone, Slots, NEW s \in Requests, op[s].pc # "idle"
  PROVE  \A t \in Requests : t # s /\ t[1] = s[1] => op[t] = Idle
<1>1. \A t \in Requests : t # s /\ t[1] = s[1] => op[t].pc = "idle"
  BY DEF Alone
<1> QED
  BY <1>1 DEF Slots, SlotInv, KindsOf

(* A step that leaves the states and the caches of the other users alone. *)
LEMMA OthersPlain ==
  ASSUME Alone, Slots, NEW s \in Requests, op[s].pc # "idle",
         \A t \in Requests : t # s => op'[t] = op[t],
         \A u \in Users : u # s[1] =>
           seen'[u] = seen[u] /\ cache'[u] = cache[u] /\ (u \in troubled' <=> u \in troubled),
         UNCHANGED <<type, right, tangle>>, states' \subseteq states
  PROVE  Others(s)
  BY Lonely DEF Others, Published

LEMMA AheadBefore ==
  ASSUME Owners, NEW s \in Requests, op[s].pc # "saveOwn",
         \A t \in Requests : t # s /\ t[1] = s[1] => op[t] = Idle,
         s[1] \in states, s[1] \notin troubled
  PROVE  Cached(s[1]) \subseteq seen[s[1]]
<1>1. \A t \in Requests : t[1] = s[1] => op[t].pc # "saveOwn"
  BY IdleKnown
<1> QED
  BY <1>1, Requested DEF Owners, UserInv, NotAhead

LEMMA IdleNotHalfWay ==
  ASSUME NEW s \in Requests, op[s] = Idle
  PROVE  ~HalfWay(s)
  BY IdleKnown DEF HalfWay

LEMMA BehindBefore ==
  ASSUME Owners, NEW s \in Requests, ~HalfWay(s),
         \A t \in Requests : t # s /\ t[1] = s[1] => op[t] = Idle,
         Complete(s[1])
  PROVE  seen[s[1]] \subseteq Cached(s[1])
<1>1. \A t \in Requests : t[1] = s[1] => ~HalfWay(t)
  BY IdleNotHalfWay
<1> QED
  BY <1>1, Requested DEF Owners, UserInv, NotBehind

LEMMA UserAfter ==
  ASSUME NEW s \in Requests,
         (seen[s[1]] \subseteq Published)', (Cached(s[1]) \subseteq Published)',
         (\A l \in Cached(s[1]) : l \notin seen[s[1]] => tangle[l] = s[1])',
         (s[1] \in states /\ s[1] \notin troubled /\ op[s].pc # "saveOwn"
            => Cached(s[1]) \subseteq seen[s[1]])',
         (Complete(s[1]) /\ ~HalfWay(s) => seen[s[1]] \subseteq Cached(s[1]))'
  PROVE  UserInv(s[1])'
<1>1. NotAhead(s[1])'
  BY DEF NotAhead
<1>2. NotBehind(s[1])'
  <2>1. (\A t \in Requests : t[1] = s[1] => ~HalfWay(t))' => ~HalfWay(s)'
    OBVIOUS
  <2> QED
    BY <2>1 DEF NotBehind
<1> QED
  BY <1>1, <1>2 DEF UserInv

(* A step that leaves alone what UserInv is about. *)
LEMMA UserSame ==
  ASSUME Owners, NEW s \in Requests, Others(s),
         seen'[s[1]] = seen[s[1]], cache'[s[1]] = cache[s[1]],
         s[1] \in troubled => s[1] \in troubled' \/ s[1] \notin states',
         op[s].pc = "saveOwn" => s[1] \in troubled' \/ s[1] \notin states',
         HalfWay(s) => HalfWay(s)' \/ s[1] \in troubled' \/ s[1] \notin states'
  PROVE  UserInv(s[1])'
<1> DEFINE u == s[1]
<1>1. UserInv(u) /\ Cached(u)' = Cached(u)
  BY Requested, CachedSame DEF Owners
<1>2. /\ type' = type /\ right' = right /\ states' \subseteq states
      /\ Published \subseteq Published' /\ \A l \in Published : tangle'[l] = tangle[l]
      /\ \A t \in Requests : t # s /\ t[1] = s[1] => op[t] = Idle
  BY DEF Others
<1>3. (seen[u] \subseteq Published)' /\ (Cached(u) \subseteq Published)'
  BY <1>1, <1>2 DEF UserInv
<1>4. (\A l \in Cached(u) : l \notin seen[u] => tangle[l] = u)'
  BY <1>1, <1>2 DEF UserInv
<1>5. (u \in states /\ u \notin troubled /\ op[s].pc # "saveOwn"
         => Cached(u) \subseteq seen[u])'
  <2> SUFFICES ASSUME u \in states', u \notin troubled'
               PROVE  (Cached(u) \subseteq seen[u])'
    OBVIOUS
  <2>1. op[s].pc # "saveOwn" /\ u \in states /\ u \notin troubled
    BY <1>2
  <2> QED
    BY <1>1, <1>2, <2>1, AheadBefore
<1>6. (Complete(u) /\ ~HalfWay(s) => seen[u] \subseteq Cached(u))'
  <2> SUFFICES ASSUME Complete(u)', ~HalfWay(s)'
               PROVE  (seen[u] \subseteq Cached(u))'
    OBVIOUS
  <2>1. Complete(u) /\ u \in states' /\ u \notin troubled'
    BY <1>2 DEF Complete, Reader, Counted
  <2>2. ~HalfWay(s)
    BY <2>1
  <2> QED
    BY <1>1, <1>2, <2>1, <2>2, BehindBefore
<1> QED
  BY <1>3, <1>4, <1>5, <1>6, UserAfter

------------------------------------------------------------------------------
(* The steps *)

LEMMA LoadGood ==
  ASSUME LogInv, NEW s \in Requests, Start(s) \/ StartKeyload(s)
  PROVE  Good(s) \/ UNCHANGED vars
<1> DEFINE u == s[1]
<1> USE DEF LogInv
<1>1. PICK kind \in AllOperations :
        /\ Load(s, kind)
        /\ kind \in AuthorOperations => u = Author
        /\ \A t \in Requests : t # s /\ t[1] = u => op[t].pc = "idle"
  <2>1. CASE Start(s)
    <3>1. PICK kind \in UserOperations : Load(s, kind)
      BY <2>1 DEF Start
    <3>2. kind \notin AuthorOperations
      BY DEF UserOperations, AuthorOperations
    <3>3. ASSUME NEW t \in Requests, t # s, t[1] = u, op[t].pc # "idle"
          PROVE  FALSE
      <4>1. ~Inside(t)
        BY <2>1, <3>3 DEF Start
      <4>2. op[t].kind \in AuthorOperations
        BY <3>3, <4>1, OperationsAssumption
           DEF Inside, Slots, SlotInv, KindsOf, AllOperations
      <4>3. t[1] = Author
        BY <3>3, <4>2 DEF Slots, SlotInv, KindsOf
      <4> QED
        BY <3>3, <4>3, OneOfTheAuthor
    <3> QED
      BY <3>1, <3>2, <3>3 DEF AllOperations
  <2>2. CASE StartKeyload(s)
    BY <2>2, OneOfTheAuthor DEF StartKeyload, AllOperations
  <2> QED
    BY <2>1, <2>2
<1>2. CASE op' = op
  BY <1>1, <1>2 DEF Load, vars
<1>3. CASE op' # op
  <2>1. /\ op[s].pc = "idle" /\ kind \in Operations /\ u \in states /\ ~Refused(u, kind)
        /\ op'[s].pc = FirstStep(u, kind) /\ op'[s].pc \in {"remove", "sync", "fetch"}
        /\ op'[s].kind = kind /\ op'[s].got = {}
        /\ op'[s].sub = IF kind = "reimport" THEN {} ELSE seen[u]
        /\ \A t \in Requests : t # s => op'[t] = op[t]
    BY <1>1, <1>3, LoadMoves
  <2>2. UNCHANGED <<channel, member, tangle, states, seen, stateKey, cache, faults, troubled>>
    BY <1>1 DEF Load
  <2>3. \A t \in Requests : t # s /\ t[1] = u => op[t] = Idle
    BY <1>1 DEF Slots, SlotInv, KindsOf
  <2>4. Others(s)
    BY <2>1, <2>2, <2>3 DEF Others, channel, Published
  <2>5. op[s] = Idle
    BY <2>1 DEF Slots, SlotInv, KindsOf
  <2>6. /\ u \notin troubled => Cached(u) \subseteq seen[u]
        /\ Complete(u) => seen[u] \subseteq Cached(u)
    BY <2>1, <2>3, <2>5, IdleNotHalfWay, AheadBefore, BehindBefore
  <2>7. seen[u] \subseteq Published
    BY Requested DEF Owners, UserInv
  <2>8. /\ op'[s].pc = "remove" <=> kind = "reimport"
        /\ op'[s].pc = "sync" => kind = "add" /\ ~Reader(u)
    BY <2>1 DEF FirstStep
  <2>9. Cached(u)' = Cached(u) /\ Published' = Published /\ u \in Users
    BY <2>2, Requested, CachedSame DEF Published
  <2>10. UserInv(u)'
    <3>1. ~HalfWay(s) /\ op[s].pc # "saveOwn"
      BY <2>1, <2>5, IdleNotHalfWay
    <3> QED
      BY <2>2, <2>4, <3>1, UserSame
  <2>11. KindsOf(s)'
    BY <1>1, <2>1, <2>2, <2>8 DEF KindsOf, Reader, channel
  <2>12. ReadOn(s)'
    BY <2>1, <2>2, <2>7, <2>8, <2>9 DEF ReadOn
  <2>13. Emptied(s)' /\ Gone(s)'
    BY <2>1, <2>8 DEF Emptied, Gone
  <2>14. NewOnly(s)'
    BY <2>1, <2>2, <2>6, <2>8, <2>9 DEF NewOnly
  <2>15. Whole(s)'
    BY <2>1, <2>2, <2>6, <2>8, <2>9 DEF Whole, Complete, Reader, Counted, channel
  <2> QED
    BY <2>4, <2>10, <2>11, <2>12, <2>13, <2>14, <2>15 DEF Good, SlotInv
<1> QED
  BY <1>2, <1>3

LEMMA RemoveGood ==
  ASSUME LogInv, NEW s \in Requests, Remove(s)
  PROVE  Good(s)
<1> DEFINE u == s[1]
<1> USE DEF LogInv
<1>1. /\ op[s].pc = "remove" /\ op[s].kind = "reimport" /\ SlotInv(s) /\ u \in Users
      /\ UNCHANGED <<channel, member, tangle, states, seen, stateKey, faults, troubled>>
  BY Requested DEF Remove, Slots, SlotInv, KindsOf
<1>2. /\ op'[s].pc = "fetch" /\ op'[s].kind = op[s].kind /\ op'[s].sub = op[s].sub
      /\ op'[s].got = op[s].got
      /\ \A t \in Requests : t # s => op'[t] = op[t]
  BY MovedGoto DEF Remove, PCs, TypeOK
<1>3. cache'[u] = {} /\ \A v \in Users : v # u => cache'[v] = cache[v]
  BY <1>1, CacheTyped DEF Remove, TypeOK
<1>4. Cached(u)' = {}
  BY <1>1, <1>3, CachedEmpty
<1>5. Others(s)
  BY <1>1, <1>2, <1>3, OthersPlain DEF channel
<1>6. HalfWay(s)'
  BY <1>1, <1>2 DEF HalfWay
<1>7. UserInv(u)'
  <2>1. (seen[u] \subseteq Published)'
    BY <1>1 DEF Owners, UserInv, Published
  <2> QED
    BY <1>4, <1>6, <2>1, UserAfter
<1>8. KindsOf(s)' /\ ReadOn(s)' /\ Gone(s)'
  BY <1>1, <1>2 DEF SlotInv, KindsOf, ReadOn, Gone, Published, channel
<1>9. Emptied(s)' /\ NewOnly(s)' /\ Whole(s)'
  BY <1>1, <1>2, <1>4 DEF SlotInv, Emptied, NewOnly, Whole
<1> QED
  BY <1>5, <1>7, <1>8, <1>9 DEF Good, SlotInv

LEMMA FetchGood ==
  ASSUME LogInv, NEW s \in Requests, Fetch(s)
  PROVE  Good(s)
<1> DEFINE u == s[1]
<1> USE DEF LogInv
<1>1. PICK got \in SUBSET (Published \ op[s].sub) :
        /\ op' = [op EXCEPT ![s].pc = "save", ![s].sub = Published, ![s].got = got]
        /\ \/ got = Published \ op[s].sub /\ UNCHANGED troubled
           \/ troubled' = troubled \cup {u}
  BY DEF Fetch
<1>2. /\ op[s].pc = "fetch" /\ SlotInv(s) /\ u \in Users
      /\ UNCHANGED <<channel, member, tangle, states, seen, stateKey, cache>>
  BY Requested DEF Fetch, Slots
<1>3. /\ op'[s].pc = "save" /\ op'[s].kind = op[s].kind /\ op'[s].sub = Published
      /\ op'[s].got = got
      /\ \A t \in Requests : t # s => op'[t] = op[t]
  <2> DEFINE o == [op[s] EXCEPT !.pc = "save", !.sub = Published, !.got = got]
  <2>1. Published \in SUBSET Logs /\ got \in SUBSET Logs /\ op \in [Requests -> Ops]
    BY PublishedTyped DEF TypeOK
  <2>2. /\ o \in Ops /\ o.pc = "save" /\ o.kind = op[s].kind /\ o.sub = Published
        /\ o.got = got
    BY <2>1 DEF Ops, PCs
  <2>3. op' = [op EXCEPT ![s] = o]
    BY <1>1
  <2> HIDE DEF o
  <2> QED
    BY <2>1, <2>2, <2>3, Moved
<1>4. Others(s)
  BY <1>1, <1>2, <1>3, OthersPlain DEF channel
<1>5. Cached(u)' = Cached(u) /\ Published' = Published
  BY <1>2, CachedSame DEF Published
<1>6. UserInv(u)'
  <2>1. HalfWay(s) => HalfWay(s)'
    BY <1>2, <1>3 DEF HalfWay
  <2> QED
    BY <1>1, <1>2, <1>4, <2>1, UserSame
<1>7. KindsOf(s)' /\ Gone(s)'
  <2>1. /\ op[s].kind \in Operations
        /\ op[s].kind \in AuthorOperations => u = Author
    BY <1>2 DEF SlotInv, KindsOf
  <2> QED
    BY <1>3, <2>1 DEF KindsOf, Gone
<1>8. ReadOn(s)'
  BY <1>2, <1>3, <1>5 DEF ReadOn, Owners, UserInv
<1>9. Emptied(s)'
  BY <1>2, <1>3, <1>5 DEF SlotInv, Emptied
<1>10. NewOnly(s)'
  <2>1. u \notin troubled' => u \notin troubled
    BY <1>1
  <2>2. u \notin troubled => Cached(u) \subseteq op[s].sub
    BY <1>2 DEF SlotInv, NewOnly
  <2> QED
    BY <1>3, <1>5, <2>1, <2>2 DEF NewOnly
<1>11. Whole(s)'
  <2>1. Complete(u)' => Complete(u) /\ u \notin troubled'
    BY <1>1, <1>2 DEF Complete, Reader, Counted, channel
  <2>2. u \notin troubled' => got = Published \ op[s].sub
    BY <1>1
  <2>3. Complete(u) => op[s].sub \subseteq Cached(u)
    BY <1>2 DEF SlotInv, Whole
  <2> QED
    BY <1>3, <1>5, <2>1, <2>2, <2>3 DEF Whole
<1> QED
  BY <1>4, <1>6, <1>7, <1>8, <1>9, <1>10, <1>11 DEF Good, SlotInv

(* What goes on or ends after the fetched logs are saved. *)
LEMMA ContinueMoves ==
  ASSUME op \in [Requests -> Ops], NEW s \in Requests, Continue(s, AfterFetch(op[s].kind))
  PROVE  /\ \A t \in Requests : t # s => op'[t] = op[t]
         /\ \/ op'[s] = Idle
            \/ /\ op'[s].kind = op[s].kind /\ op'[s].sub = op[s].sub /\ op'[s].got = {}
               /\ \/ op'[s].pc = "publish"
                  \/ op'[s].pc = "sync" /\ op[s].kind \in AuthorOperations
<1> DEFINE label == AfterFetch(op[s].kind)
<1>1. \/ label = "idle" \/ label = "publish"
      \/ label = "sync" /\ op[s].kind \in AuthorOperations
  BY DEF AfterFetch
<1>2. label \in PCs /\ Continue(s, label)
  BY <1>1 DEF PCs
<1> HIDE DEF label
<1>3. CASE label = "idle"
  BY <1>2, <1>3, MovedEnd DEF Continue
<1>4. CASE label # "idle"
  BY <1>1, <1>2, <1>4, MovedContinue
<1> QED
  BY <1>3, <1>4

LEMMA SaveGood ==
  ASSUME LogInv, NEW s \in Requests, Save(s)
  PROVE  Good(s)
<1> DEFINE u == s[1]
<1> USE DEF LogInv
<1>1. /\ op[s].pc = "save" /\ SlotInv(s) /\ UserInv(u) /\ u \in Users
      /\ op \in [Requests -> Ops] /\ op[s].kind \in AllOperations
      /\ UNCHANGED <<channel, member, tangle, states, cache, faults>>
      /\ troubled' = IF op[s].got = {} THEN troubled \ Reimported(s) ELSE troubled
  BY Requested DEF Save, Slots, Owners, TypeOK, Ops
<1>2. /\ Reimported(s) \subseteq {u}
      /\ u \in Reimported(s) => op[s].kind = "reimport" /\ op[s].got = op[s].sub
  BY DEF Reimported
<1>3. \A v \in Users : v # u => (v \in troubled' <=> v \in troubled)
  BY <1>1, <1>2
<1>4. Cached(u)' = Cached(u) /\ Published' = Published
  BY <1>1, CachedSame DEF Published
<1>5. /\ op[s].kind \in Operations
      /\ op[s].kind \in AuthorOperations => u = Author
  BY <1>1 DEF SlotInv, KindsOf
<1>6. CASE u \notin states
  <2>1. op'[s] = Idle /\ (\A t \in Requests : t # s => op'[t] = op[t]) /\ seen' = seen
    BY <1>1, <1>6, MovedEnd DEF Save
  <2>2. Others(s)
    BY <1>1, <1>3, <2>1, OthersPlain DEF channel
  <2>3. UserInv(u)'
    BY <1>1, <1>6, <2>1, <2>2, UserSame
  <2> QED
    BY <2>1, <2>2, <2>3, IdleSlot DEF Good
<1>7. CASE u \in states /\ op[s].got = {} /\ op[s].kind \in AuthorOperations
  <2>1. Goto(s, "sync") /\ seen' = seen
    BY <1>7 DEF Save
  <2>2. /\ op'[s].pc = "sync" /\ op'[s].kind = op[s].kind /\ op'[s].sub = op[s].sub
        /\ op'[s].got = op[s].got
        /\ \A t \in Requests : t # s => op'[t] = op[t]
    BY <1>1, <2>1, MovedGoto DEF PCs
  <2>3. Others(s)
    BY <1>1, <1>3, <2>1, <2>2, OthersPlain DEF channel
  <2>4. op[s].kind # "reimport" /\ ~HalfWay(s)
    BY <1>1, <1>7 DEF AuthorOperations, HalfWay
  <2>5. u \in troubled => u \in troubled'
    BY <1>1, <1>2, <2>4
  <2>6. UserInv(u)'
    BY <1>1, <2>1, <2>3, <2>4, <2>5, UserSame
  <2>7. ReadOn(s)'
    BY <1>1, <1>4, <2>1, <2>2 DEF SlotInv, ReadOn
  <2>8. KindsOf(s)' /\ Emptied(s)' /\ NewOnly(s)' /\ Whole(s)' /\ Gone(s)'
    BY <1>5, <1>7, <2>2 DEF KindsOf, Emptied, NewOnly, Whole, Gone
  <2> QED
    BY <2>3, <2>6, <2>7, <2>8 DEF Good, SlotInv
<1>8. CASE /\ u \in states
           /\ ~(op[s].got = {} /\ op[s].kind \in AuthorOperations)
  <2>1. SavedState(s, FetchPassword(op[s].kind))
    BY <1>8 DEF Save
  <2>2. seen'[u] = op[s].sub /\ \A v \in Users : v # u => seen'[v] = seen[v]
    BY <1>1, <2>1, KeysKnown, StateTyped DEF TypeOK
  <2>3. seen[u] \subseteq op[s].sub /\ op[s].sub \subseteq Published
    BY <1>1 DEF SlotInv, ReadOn
  (* Nothing is ahead of the new state, and what it has read and the cache
     has not is got. *)
  <2>4. u \notin troubled' => Cached(u) \subseteq op[s].sub
    <3>1. CASE u \notin troubled
      <4>1. Cached(u) \subseteq seen[u]
        BY <1>1, <1>8, <3>1, Lonely, AheadBefore
      <4> QED
        BY <2>3, <4>1
    <3>2. CASE u \in troubled /\ u \notin troubled'
      <4>1. op[s].kind = "reimport"
        BY <1>1, <1>2, <3>2
      <4> QED
        BY <1>1, <4>1 DEF SlotInv, Emptied
    <3> QED
      BY <3>1, <3>2
  <2>5. Complete(u)' => op[s].sub \subseteq Cached(u) \cup op[s].got
    <3>1. Complete(u)' => Complete(u) \/ u \in troubled
      BY <1>1 DEF Complete, Reader, Counted, channel
    <3>2. Complete(u) => op[s].sub \subseteq Cached(u) \cup op[s].got
      BY <1>1 DEF SlotInv, Whole
    <3>3. u \in troubled /\ u \notin troubled' => op[s].got = op[s].sub
      BY <1>1, <1>2
    <3> QED
      BY <3>1, <3>2, <3>3 DEF Complete
  <2>6. (seen[u] \subseteq Published)' /\ (Cached(u) \subseteq Published)'
    BY <1>1, <1>4, <2>2, <2>3 DEF UserInv
  <2>7. (\A l \in Cached(u) : l \notin seen[u] => tangle[l] = u)'
    BY <1>1, <1>4, <2>2, <2>3 DEF UserInv
  <2>8. CASE op[s].got = {}
    <3>1. Continue(s, AfterFetch(op[s].kind))
      BY <1>8, <2>8 DEF Save
    <3>2. /\ \A t \in Requests : t # s => op'[t] = op[t]
          /\ \/ op'[s] = Idle
             \/ /\ op'[s].kind = op[s].kind /\ op'[s].sub = op[s].sub /\ op'[s].got = {}
                /\ \/ op'[s].pc = "publish"
                   \/ op'[s].pc = "sync" /\ op[s].kind \in AuthorOperations
      BY <1>1, <3>1, ContinueMoves
    <3>3. Others(s)
      BY <1>1, <1>3, <2>2, <3>2, OthersPlain DEF channel
    <3>4. UserInv(u)'
      BY <1>4, <2>2, <2>4, <2>5, <2>6, <2>7, <2>8, UserAfter
    <3>5. CASE op'[s] = Idle
      BY <3>3, <3>4, <3>5, IdleSlot DEF Good
    <3>6. CASE op'[s] # Idle
      <4>1. ReadOn(s)'
        BY <1>4, <2>2, <2>3, <3>2, <3>6 DEF ReadOn
      <4>2. KindsOf(s)' /\ Emptied(s)' /\ NewOnly(s)' /\ Gone(s)'
        BY <1>5, <3>2, <3>6 DEF KindsOf, Emptied, NewOnly, Gone
      <4>3. Whole(s)'
        BY <1>4, <2>5, <2>8, <3>2, <3>6 DEF Whole
      <4> QED
        BY <3>3, <3>4, <4>1, <4>2, <4>3 DEF Good, SlotInv
    <3> QED
      BY <3>5, <3>6
  <2>9. CASE op[s].got # {}
    <3>1. Goto(s, "insert") /\ troubled' = troubled
      BY <1>1, <1>8, <2>9 DEF Save
    <3>2. /\ op'[s].pc = "insert" /\ op'[s].kind = op[s].kind /\ op'[s].sub = op[s].sub
          /\ op'[s].got = op[s].got
          /\ \A t \in Requests : t # s => op'[t] = op[t]
      BY <1>1, <3>1, MovedGoto DEF PCs
    <3>3. Others(s)
      BY <1>1, <1>3, <2>2, <3>2, OthersPlain DEF channel
    <3>4. UserInv(u)'
      <4>1. HalfWay(s)'
        BY <3>2 DEF HalfWay
      <4> QED
        BY <1>4, <2>2, <2>4, <2>6, <2>7, <4>1, UserAfter
    <3>5. KindsOf(s)' /\ Gone(s)'
      BY <1>5, <3>2 DEF KindsOf, Gone
    <3>6. ReadOn(s)'
      BY <1>1, <1>4, <2>2, <2>3, <3>2 DEF SlotInv, ReadOn
    <3>7. Emptied(s)' /\ NewOnly(s)'
      BY <1>1, <1>4, <3>1, <3>2 DEF SlotInv, Emptied, NewOnly
    <3>8. Whole(s)'
      BY <1>4, <2>5, <3>2 DEF Whole
    <3> QED
      BY <3>3, <3>4, <3>5, <3>6, <3>7, <3>8 DEF Good, SlotInv
  <2> QED
    BY <2>8, <2>9
<1> QED
  BY <1>6, <1>7, <1>8

LEMMA InsertGood ==
  ASSUME LogInv, NEW s \in Requests, Insert(s)
  PROVE  Good(s)
<1> DEFINE u == s[1]
           twice == op[s].got \cap Cached(u)
<1> USE DEF LogInv
<1>1. /\ op[s].pc = "insert" /\ SlotInv(s) /\ UserInv(u) /\ u \in Users
      /\ op \in [Requests -> Ops] /\ op[s].kind \in AllOperations /\ op[s].got \in SUBSET Logs
      /\ UNCHANGED <<channel, member, tangle, states, seen, stateKey, faults>>
      /\ troubled' = troubled \ Reimported(s)
  BY Requested DEF Insert, Slots, Owners, TypeOK, Ops
<1>2. PICK stored \in SUBSET op[s].got :
        /\ twice = {} => stored = op[s].got
        /\ cache' = [cache EXCEPT ![u] = @ \cup Documents(stored, FetchPassword(op[s].kind))]
  BY DEF Insert
<1>3. /\ Cached(u)' = Cached(u) \cup stored
      /\ \A v \in Users : v # u => cache'[v] = cache[v]
  <2> DEFINE key == FetchPassword(op[s].kind)
             docs == cache[u] \cup Documents(stored, key)
  <2>1. key \in Keys /\ stored \in SUBSET Logs
    BY <1>1, KeysKnown
  <2>2. cache' = [cache EXCEPT ![u] = docs] /\ docs \in SUBSET [log: Logs, key: Keys]
    BY <1>1, <1>2, <2>1, DocumentsTyped DEF TypeOK
  <2>3. cache'[u] = docs /\ \A v \in Users : v # u => cache'[v] = cache[v]
    <3> HIDE DEF docs
    <3> QED
      BY <1>1, <2>2, CacheTyped DEF TypeOK
  <2> HIDE DEF key
  <2> QED
    BY <1>1, <2>3, CachedMore
<1>4. /\ Reimported(s) \subseteq {u}
      /\ u \in Reimported(s) => op[s].kind = "reimport" /\ op[s].got = op[s].sub
  BY DEF Reimported
<1>5. /\ \A t \in Requests : t # s => op'[t] = op[t]
      /\ \/ op'[s] = Idle
         \/ /\ op'[s].kind = op[s].kind /\ op'[s].sub = op[s].sub /\ op'[s].got = {}
            /\ \/ op'[s].pc = "publish"
               \/ op'[s].pc = "sync" /\ op[s].kind \in AuthorOperations
  <2>1. End(s) \/ Continue(s, AfterFetch(op[s].kind))
    BY DEF Insert
  <2> QED
    BY <1>1, <2>1, MovedEnd, ContinueMoves
<1>6. Others(s)
  BY <1>1, <1>3, <1>4, <1>5, OthersPlain DEF channel
<1>7. seen[u] = op[s].sub /\ stored \subseteq op[s].sub
  BY <1>1 DEF SlotInv, ReadOn
<1>8. u \notin troubled => op[s].got \cap Cached(u) = {}
  BY <1>1 DEF SlotInv, NewOnly
<1>9. u \in troubled /\ u \notin troubled' =>
        Cached(u) = {} /\ op[s].got = op[s].sub
  BY <1>1, <1>4 DEF SlotInv, Emptied
<1>10. (u \in states /\ u \notin troubled => Cached(u) \subseteq seen[u])'
  <2>1. u \in states /\ u \notin troubled => Cached(u) \subseteq seen[u]
    BY <1>1, Lonely, AheadBefore
  <2> QED
    BY <1>1, <1>3, <1>7, <1>9, <2>1
<1>11. Complete(u)' => op[s].sub \subseteq Cached(u)'
  <2>1. Complete(u)' => u \notin troubled' /\ (Complete(u) \/ u \in troubled)
    BY <1>1 DEF Complete, Reader, Counted, channel
  <2>2. Complete(u) => op[s].sub \subseteq Cached(u) \cup op[s].got
    BY <1>1 DEF SlotInv, Whole
  <2>3. u \notin troubled' => twice = {} /\ stored = op[s].got
    BY <1>2, <1>8, <1>9
  <2> QED
    BY <1>3, <1>9, <2>1, <2>2, <2>3
<1>12. UserInv(u)'
  <2>1. (seen[u] \subseteq Published)' /\ Published' = Published
    BY <1>1 DEF UserInv, Published
  <2>2. (Cached(u) \subseteq Published)'
    BY <1>1, <1>3, <1>7, <2>1 DEF UserInv
  <2>3. (\A l \in Cached(u) : l \notin seen[u] => tangle[l] = u)'
    BY <1>1, <1>3, <1>7 DEF UserInv
  <2>4. (Complete(u) => seen[u] \subseteq Cached(u))'
    BY <1>1, <1>7, <1>11
  <2> QED
    BY <1>10, <2>1, <2>2, <2>3, <2>4, UserAfter
<1>13. CASE op'[s] = Idle
  BY <1>6, <1>12, <1>13, IdleSlot DEF Good
<1>14. CASE op'[s] # Idle
  <2>1. /\ op[s].kind \in Operations
        /\ op[s].kind \in AuthorOperations => u = Author
    BY <1>1 DEF SlotInv, KindsOf
  <2>2. ReadOn(s)'
    BY <1>1, <1>5, <1>7, <1>14 DEF SlotInv, ReadOn, Published
  <2>3. KindsOf(s)' /\ Emptied(s)' /\ NewOnly(s)' /\ Gone(s)'
    BY <1>5, <1>14, <2>1 DEF KindsOf, Emptied, NewOnly, Gone
  <2>4. Whole(s)'
    BY <1>5, <1>11, <1>14 DEF Whole
  <2> QED
    BY <1>6, <1>12, <2>2, <2>3, <2>4 DEF Good, SlotInv
<1> QED
  BY <1>13, <1>14

LEMMA SyncGood ==
  ASSUME LogInv, NEW s \in Requests, Sync(s)
  PROVE  Good(s)
<1> DEFINE u == s[1]
           label == CASE op[s].kind = "add" -> "publish"
                      [] op[s].kind = "authorize" -> "saveAuthor"
                      [] OTHER -> "removeState"
<1> USE DEF LogInv
<1>1. /\ op[s].pc = "sync" /\ SlotInv(s) /\ UserInv(u) /\ u \in Users
      /\ op \in [Requests -> Ops]
      /\ op' = [op EXCEPT ![s].sub = Published, ![s].pc = label]
      /\ UNCHANGED <<channel, member, tangle, states, seen, stateKey, cache, faults, troubled>>
  BY Requested DEF Sync, Slots, Owners, TypeOK
<1>2. label \in {"publish", "saveAuthor", "removeState"} /\ label \in PCs
  BY DEF PCs
<1>3. label = "publish" <=> op[s].kind = "add"
  OBVIOUS
<1>4. /\ op'[s].pc = label /\ op'[s].kind = op[s].kind /\ op'[s].sub = Published
      /\ op'[s].got = op[s].got
      /\ \A t \in Requests : t # s => op'[t] = op[t]
  <2> HIDE DEF label
  <2> DEFINE o == [op[s] EXCEPT !.sub = Published, !.pc = label]
  <2>1. Published \in SUBSET Logs
    BY PublishedTyped
  <2>2. /\ o \in Ops /\ o.pc = label /\ o.kind = op[s].kind /\ o.sub = Published
        /\ o.got = op[s].got
    BY <1>1, <1>2, <2>1 DEF Ops
  <2>3. op' = [op EXCEPT ![s] = o]
    BY <1>1
  <2> HIDE DEF o
  <2> QED
    BY <1>1, <2>2, <2>3, Moved
<1>5. Others(s)
  BY <1>1, <1>4, OthersPlain DEF channel
<1>6. UserInv(u)'
  <2>1. ~HalfWay(s)
    BY <1>1 DEF HalfWay
  <2> QED
    BY <1>1, <1>5, <2>1, UserSame
<1>7. /\ op[s].kind \in Operations
      /\ op[s].kind \in AuthorOperations => u = Author
      /\ op[s].kind \in AuthorOperations \/ (op[s].kind = "add" /\ ~Reader(u))
  BY <1>1 DEF SlotInv, KindsOf
<1> HIDE DEF label
<1>8. KindsOf(s)' /\ Emptied(s)' /\ NewOnly(s)' /\ Gone(s)'
  BY <1>2, <1>3, <1>4, <1>7 DEF KindsOf, Emptied, NewOnly, Gone
<1>9. ReadOn(s)'
  <2>1. op[s].got \subseteq Published /\ seen[u] \subseteq Published /\ Published' = Published
    BY <1>1 DEF SlotInv, ReadOn, UserInv, Published
  <2> QED
    BY <1>1, <1>2, <1>4, <2>1 DEF ReadOn
<1>10. Whole(s)'
  (* A reader gets here by authorizing or revoking only, and is not counted. *)
  <2>1. Complete(u)' => Complete(u)
    BY <1>1 DEF Complete, Reader, Counted, channel
  <2>2. op'[s].pc = "publish" => ~Reader(u)
    BY <1>3, <1>4, <1>7 DEF AuthorOperations
  <2> QED
    BY <1>2, <1>4, <2>1, <2>2 DEF Whole, Complete
<1> QED
  BY <1>5, <1>6, <1>8, <1>9, <1>10 DEF Good, SlotInv

LEMMA PublishGood ==
  ASSUME LogInv, NEW s \in Requests, Publish(s)
  PROVE  Good(s)
<1> DEFINE u == s[1]
           log == Len(tangle) + 1
<1> USE DEF LogInv
<1>1. /\ op[s].pc = "publish" /\ SlotInv(s) /\ u \in Users
      /\ op \in [Requests -> Ops]
      /\ UNCHANGED <<channel, member, states, seen, stateKey, cache, troubled>>
  BY Requested DEF Publish, Slots, TypeOK
<1>2. /\ \A t \in Requests : t # s /\ t[1] = u => op[t] = Idle
      /\ ~HalfWay(s) /\ op[s].pc # "saveOwn"
  BY <1>1, Lonely DEF HalfWay
<1>3. CASE End(s) /\ UNCHANGED tangle
  <2>1. op'[s] = Idle /\ \A t \in Requests : t # s => op'[t] = op[t]
    BY <1>1, <1>3, MovedEnd
  <2>2. Others(s)
    BY <1>1, <1>3, <2>1, OthersPlain DEF channel
  <2> QED
    BY <1>1, <1>2, <2>1, <2>2, UserSame, IdleSlot DEF Good
<1>4. CASE /\ log \in Logs /\ tangle' = Append(tangle, u)
           /\ \/ End(s)
              \/ op' = [op EXCEPT ![s].pc = "insertOwn", ![s].own = log, ![s].sub = @ \cup {log}]
  <2>1. /\ Published' = Published \cup {log} /\ tangle'[log] = u
        /\ \A l \in Published : tangle'[l] = tangle[l]
    BY <1>1, <1>4, Appended
  <2>2. CASE End(s)
    <3>1. op'[s] = Idle /\ \A t \in Requests : t # s => op'[t] = op[t]
      BY <1>1, <2>2, MovedEnd
    <3>2. Others(s)
      BY <1>1, <1>2, <2>1, <3>1 DEF Others, channel
    <3> QED
      BY <1>1, <1>2, <3>1, <3>2, UserSame, IdleSlot DEF Good
  <2>3. CASE op' = [op EXCEPT ![s].pc = "insertOwn", ![s].own = log, ![s].sub = @ \cup {log}]
    <3>1. /\ op'[s].pc = "insertOwn" /\ op'[s].kind = op[s].kind
          /\ op'[s].sub = op[s].sub \cup {log} /\ op'[s].got = op[s].got /\ op'[s].own = log
          /\ \A t \in Requests : t # s => op'[t] = op[t]
      <4>1. log \in Logs
        BY <1>4
      <4> HIDE DEF log
      <4> QED
        BY <1>1, <2>3, <4>1, MovedPublish
    <3>2. Others(s)
      BY <1>1, <1>2, <2>1, <3>1 DEF Others, channel
    <3>3. UserInv(u)'
      BY <1>1, <1>2, <3>2, UserSame
    <3>4. Cached(u)' = Cached(u)
      BY <1>1, CachedSame
    <3> HIDE DEF log
    <3>5. ReadOn(s)'
      BY <1>1, <2>1, <3>1 DEF SlotInv, ReadOn
    <3>6. KindsOf(s)' /\ Emptied(s)' /\ NewOnly(s)' /\ Gone(s)'
      BY <1>1, <3>1 DEF SlotInv, KindsOf, Emptied, NewOnly, Gone
    <3>7. Whole(s)'
      <4>1. Complete(u)' => Complete(u)
        BY <1>1 DEF Complete, Reader, Counted, channel
      <4>2. Complete(u) => op[s].sub \subseteq Cached(u)
        BY <1>1 DEF SlotInv, Whole
      <4> QED
        BY <3>1, <3>4, <4>1, <4>2 DEF Whole
    <3> QED
      BY <3>2, <3>3, <3>5, <3>6, <3>7 DEF Good, SlotInv
  <2> QED
    BY <1>4, <2>2, <2>3
<1> QED
  BY <1>3, <1>4 DEF Publish

LEMMA InsertOwnGood ==
  ASSUME LogInv, NEW s \in Requests, InsertOwn(s)
  PROVE  Good(s)
<1> DEFINE u == s[1]
<1> USE DEF LogInv
<1>1. /\ op[s].pc = "insertOwn" /\ SlotInv(s) /\ UserInv(u) /\ u \in Users
      /\ op \in [Requests -> Ops]
      /\ UNCHANGED <<channel, member, tangle, states, seen, stateKey, faults, troubled>>
  BY Requested DEF InsertOwn, Slots, Owners, TypeOK
<1>2. /\ \A t \in Requests : t # s /\ t[1] = u => op[t] = Idle
      /\ ~HalfWay(s) /\ op[s].pc # "saveOwn"
  BY <1>1, Lonely DEF HalfWay
<1>3. CASE End(s) /\ UNCHANGED cache
  <2>1. op'[s] = Idle /\ \A t \in Requests : t # s => op'[t] = op[t]
    BY <1>1, <1>3, MovedEnd
  <2>2. Others(s)
    BY <1>1, <1>3, <2>1, OthersPlain DEF channel
  <2> QED
    BY <1>1, <1>2, <1>3, <2>1, <2>2, UserSame, IdleSlot DEF Good
<1>4. CASE /\ cache' = [cache EXCEPT ![u] = @ \cup Documents({op[s].own}, Password)]
           /\ Goto(s, "saveOwn")
  <2>1. /\ op'[s].pc = "saveOwn" /\ op'[s].kind = op[s].kind /\ op'[s].sub = op[s].sub
        /\ op'[s].got = op[s].got /\ op'[s].own = op[s].own
        /\ \A t \in Requests : t # s => op'[t] = op[t]
    BY <1>1, <1>4, MovedGoto DEF PCs
  <2>2. /\ seen[u] \subseteq op[s].sub /\ op[s].sub \subseteq Published
        /\ op[s].own \in op[s].sub /\ tangle[op[s].own] = u
    BY <1>1 DEF SlotInv, ReadOn
  <2>3. /\ Cached(u)' = Cached(u) \cup {op[s].own}
        /\ \A v \in Users : v # u => cache'[v] = cache[v]
    <3> DEFINE logs == {op[s].own}
               docs == cache[u] \cup Documents(logs, Password)
    <3>1. op[s].own \in Logs /\ logs \in SUBSET Logs
      BY <2>2, PublishedTyped
    <3>2. cache' = [cache EXCEPT ![u] = docs] /\ docs \in SUBSET [log: Logs, key: Keys]
      BY <1>1, <1>4, <3>1, KeysKnown, DocumentsTyped DEF TypeOK
    <3>3. cache'[u] = docs /\ \A v \in Users : v # u => cache'[v] = cache[v]
      <4> HIDE DEF docs
      <4> QED
        BY <1>1, <3>2, CacheTyped DEF TypeOK
    <3> QED
      BY <1>1, <3>3, CachedMore
  <2>4. Others(s)
    BY <1>1, <2>1, <2>3, OthersPlain DEF channel
  <2>5. Complete(u)' => Complete(u)
    BY <1>1 DEF Complete, Reader, Counted, channel
  <2>6. UserInv(u)'
    <3>1. (seen[u] \subseteq Published)' /\ (Cached(u) \subseteq Published)'
      BY <1>1, <2>2, <2>3 DEF UserInv, Published
    <3>2. (\A l \in Cached(u) : l \notin seen[u] => tangle[l] = u)'
      BY <1>1, <2>2, <2>3 DEF UserInv
    <3>3. HalfWay(s)'
      BY <2>1 DEF HalfWay
    <3> QED
      BY <2>1, <3>1, <3>2, <3>3, UserAfter
  <2>7. ReadOn(s)'
    BY <1>1, <2>1, <2>2 DEF SlotInv, ReadOn, Published
  <2>8. KindsOf(s)' /\ Emptied(s)' /\ Gone(s)'
    BY <1>1, <2>1 DEF SlotInv, KindsOf, Emptied, Gone
  <2>9. NewOnly(s)'
    <3>1. u \in states /\ u \notin troubled => Cached(u) \subseteq seen[u]
      BY <1>2, AheadBefore
    <3> QED
      BY <1>1, <2>1, <2>2, <2>3, <3>1 DEF NewOnly
  <2>10. Whole(s)'
    BY <1>1, <2>1, <2>3, <2>5 DEF SlotInv, Whole
  <2> QED
    BY <2>4, <2>6, <2>7, <2>8, <2>9, <2>10 DEF Good, SlotInv
<1> QED
  BY <1>3, <1>4 DEF InsertOwn

LEMMA SaveOwnGood ==
  ASSUME LogInv, NEW s \in Requests, SaveOwn(s)
  PROVE  Good(s)
<1> DEFINE u == s[1]
<1> USE DEF LogInv
<1>1. /\ op[s].pc \in {"saveOwn", "saveAuthor"} /\ SlotInv(s) /\ UserInv(u) /\ u \in Users
      /\ op \in [Requests -> Ops]
      /\ UNCHANGED <<channel, member, tangle, states, cache, faults, troubled>>
  BY Requested DEF SaveOwn, Slots, Owners, TypeOK
<1>2. op'[s] = Idle /\ \A t \in Requests : t # s => op'[t] = op[t]
  BY <1>1, MovedEnd DEF SaveOwn
<1>3. Cached(u)' = Cached(u) /\ Published' = Published
  BY <1>1, CachedSame DEF Published
<1>4. /\ \A v \in Users : v # u => seen'[v] = seen[v]
      /\ seen'[u] = IF u \in states THEN op[s].sub ELSE seen[u]
  BY <1>1, KeysKnown, StateTyped DEF SaveOwn, TypeOK
<1>5. Others(s)
  BY <1>1, <1>2, <1>4, OthersPlain DEF channel
<1>6. seen[u] \subseteq op[s].sub /\ op[s].sub \subseteq Published
  BY <1>1 DEF SlotInv, ReadOn
<1>7. UserInv(u)'
  <2>1. (seen[u] \subseteq Published)' /\ (Cached(u) \subseteq Published)'
    BY <1>1, <1>3, <1>4, <1>6 DEF UserInv
  <2>2. (\A l \in Cached(u) : l \notin seen[u] => tangle[l] = u)'
    BY <1>1, <1>3, <1>4, <1>6 DEF UserInv
  <2>3. (u \in states /\ u \notin troubled => Cached(u) \subseteq seen[u])'
    <3> SUFFICES ASSUME u \in states, u \notin troubled
                 PROVE  Cached(u) \subseteq op[s].sub
      BY <1>1, <1>3, <1>4
    <3>1. CASE op[s].pc = "saveOwn"
      BY <1>1, <3>1 DEF SlotInv, NewOnly
    <3>2. CASE op[s].pc = "saveAuthor"
      BY <1>1, <1>6, <3>2, Lonely, AheadBefore
    <3> QED
      BY <1>1, <3>1, <3>2
  <2>4. (Complete(u) => seen[u] \subseteq Cached(u))'
    <3>1. Complete(u)' => Complete(u)
      BY <1>1 DEF Complete, Reader, Counted, channel
    <3>2. CASE op[s].pc = "saveOwn"
      BY <1>1, <1>3, <1>4, <3>1, <3>2 DEF SlotInv, Whole, Complete
    <3>3. CASE op[s].pc = "saveAuthor"
      <4>1. u = Author /\ op[s].kind \in Operations \cap AuthorOperations
        BY <1>1, <3>3 DEF SlotInv, KindsOf
      <4>2. ~Counted(u)
        BY <4>1, LogAuthorAssumption DEF Counted
      <4> QED
        BY <3>1, <4>2 DEF Complete
    <3> QED
      BY <1>1, <3>2, <3>3
  <2> QED
    BY <2>1, <2>2, <2>3, <2>4, UserAfter
<1> QED
  BY <1>2, <1>5, <1>7, IdleSlot DEF Good

LEMMA RemoveStateGood ==
  ASSUME LogInv, NEW s \in Requests, RemoveState(s)
  PROVE  Good(s)
<1> DEFINE u == s[1]
<1> USE DEF LogInv
<1>1. /\ op[s].pc = "removeState" /\ SlotInv(s) /\ u \in Users
      /\ op \in [Requests -> Ops]
      /\ UNCHANGED <<channel, member, tangle, seen, stateKey, cache, faults, troubled>>
  BY Requested DEF RemoveState, Slots, TypeOK
<1>2. PICK w \in Users :
        /\ states' = states \ {w}
        /\ op' = [op EXCEPT ![s].pc = "removeDoc", ![s].whom = w]
  BY DEF RemoveState, Users
<1>3. /\ op'[s].pc = "removeDoc" /\ op'[s].kind = op[s].kind /\ op'[s].sub = op[s].sub
      /\ op'[s].got = op[s].got /\ op'[s].whom = w
      /\ \A t \in Requests : t # s => op'[t] = op[t]
  BY <1>1, <1>2, MovedRemoveState
<1>4. Others(s)
  BY <1>1, <1>2, <1>3, OthersPlain DEF channel
<1>5. UserInv(u)'
  <2>1. ~HalfWay(s)
    BY <1>1 DEF HalfWay
  <2> QED
    BY <1>1, <1>4, <2>1, UserSame
<1>6. KindsOf(s)' /\ ReadOn(s)' /\ Gone(s)'
  BY <1>1, <1>2, <1>3 DEF SlotInv, KindsOf, ReadOn, Gone, Published
<1>7. Emptied(s)' /\ NewOnly(s)' /\ Whole(s)'
  BY <1>3 DEF Emptied, NewOnly, Whole
<1> QED
  BY <1>4, <1>5, <1>6, <1>7 DEF Good, SlotInv

LEMMA RemoveDocGood ==
  ASSUME LogInv, NEW s \in Requests, RemoveDoc(s)
  PROVE  Good(s)
<1> DEFINE u == s[1]
<1> USE DEF LogInv
<1>1. /\ op[s].pc = "removeDoc" /\ SlotInv(s) /\ u \in Users
      /\ op \in [Requests -> Ops]
      /\ UNCHANGED <<channel, tangle, states, seen, stateKey, cache, faults, troubled>>
  BY Requested DEF RemoveDoc, Slots, TypeOK
<1>2. /\ op'[s].pc = "removeData" /\ op'[s].kind = op[s].kind /\ op'[s].sub = op[s].sub
      /\ op'[s].got = op[s].got /\ op'[s].whom = op[s].whom
      /\ \A t \in Requests : t # s => op'[t] = op[t]
  BY <1>1, MovedGoto DEF RemoveDoc, PCs
<1>3. Others(s)
  BY <1>1, <1>2, OthersPlain DEF channel
<1>4. UserInv(u)'
  <2>1. ~HalfWay(s)
    BY <1>1 DEF HalfWay
  <2> QED
    BY <1>1, <1>3, <2>1, UserSame
<1>5. KindsOf(s)' /\ ReadOn(s)' /\ Gone(s)'
  BY <1>1, <1>2 DEF SlotInv, KindsOf, ReadOn, Gone, Published
<1>6. Emptied(s)' /\ NewOnly(s)' /\ Whole(s)'
  BY <1>2 DEF Emptied, NewOnly, Whole
<1> QED
  BY <1>3, <1>4, <1>5, <1>6 DEF Good, SlotInv

LEMMA RemoveDataGood ==
  ASSUME LogInv, NEW s \in Requests, RemoveData(s)
  PROVE  Good(s)
<1> DEFINE u == s[1]
           w == op[s].whom
<1> USE DEF LogInv
<1>1. /\ op[s].pc = "removeData" /\ SlotInv(s) /\ UserInv(u) /\ u \in Users
      /\ op \in [Requests -> Ops] /\ w \in Users
      /\ UNCHANGED <<channel, member, tangle, states, seen, stateKey, faults, troubled>>
  BY Requested DEF RemoveData, Slots, Owners, TypeOK, Ops
<1>2. /\ op'[s].pc = "saveAuthor" /\ op'[s].kind = op[s].kind /\ op'[s].sub = op[s].sub
      /\ op'[s].got = op[s].got
      /\ \A t \in Requests : t # s => op'[t] = op[t]
  BY <1>1, MovedGoto DEF RemoveData, PCs
<1>3. cache'[w] = {} /\ \A v \in Users : v # w => cache'[v] = cache[v]
  BY <1>1, CacheTyped DEF RemoveData, TypeOK
<1>4. w \notin states
  BY <1>1 DEF SlotInv, Gone
<1>5. Others(s)
  <2>1. \A t \in Requests : t # s /\ t[1] = u => op[t] = Idle
    BY <1>1, Lonely
  <2>2. \A v \in Users : v # u => cache'[v] = cache[v] \/ (v \notin states /\ cache'[v] = {})
    BY <1>3, <1>4
  <2> QED
    BY <1>1, <1>2, <2>1, <2>2 DEF Others, Published, channel
<1>6. UserInv(u)'
  <2>1. CASE w # u
    <3>1. ~HalfWay(s) /\ op[s].pc # "saveOwn"
      BY <1>1 DEF HalfWay
    <3> QED
      BY <1>1, <1>3, <1>5, <2>1, <3>1, UserSame
  <2>2. CASE w = u
    <3>1. Cached(u)' = {}
      BY <1>1, <1>3, <2>2, CachedEmpty
    <3>2. u \notin states'
      BY <1>1, <1>4, <2>2
    <3>3. (seen[u] \subseteq Published)'
      BY <1>1 DEF UserInv, Published
    <3>4. ~Complete(u)'
      BY <3>2 DEF Complete
    <3> QED
      BY <3>1, <3>2, <3>3, <3>4, UserAfter
  <2> QED
    BY <2>1, <2>2
<1>7. KindsOf(s)' /\ ReadOn(s)' /\ Gone(s)'
  BY <1>1, <1>2 DEF SlotInv, KindsOf, ReadOn, Gone, Published
<1>8. Emptied(s)' /\ NewOnly(s)' /\ Whole(s)'
  BY <1>2 DEF Emptied, NewOnly, Whole
<1> QED
  BY <1>5, <1>6, <1>7, <1>8 DEF Good, SlotInv

LEMMA FailGood ==
  ASSUME LogInv, NEW s \in Requests, Fail(s)
  PROVE  Good(s)
<1> DEFINE u == s[1]
<1> USE DEF LogInv
<1>1. /\ op[s] # Idle /\ SlotInv(s) /\ u \in Users
      /\ op \in [Requests -> Ops]
      /\ troubled' = IF HalfWay(s) THEN troubled \cup {u} ELSE troubled
      /\ UNCHANGED <<channel, member, tangle, states, seen, stateKey, cache>>
  BY Requested DEF Fail, Slots, TypeOK
<1>2. op[s].pc # "idle"
  BY <1>1 DEF SlotInv, KindsOf
<1>3. op'[s] = Idle /\ \A t \in Requests : t # s => op'[t] = op[t]
  BY <1>1, MovedEnd DEF Fail
<1>4. Others(s)
  BY <1>1, <1>2, <1>3, OthersPlain DEF channel
<1>5. UserInv(u)'
  <2>1. op[s].pc = "saveOwn" => HalfWay(s)
    BY DEF HalfWay
  <2> QED
    BY <1>1, <1>4, <2>1, UserSame
<1> QED
  BY <1>3, <1>4, <1>5, IdleSlot DEF Good

LEMMA CrashKept ==
  ASSUME LogInv, TypeOK', Crash
  PROVE  LogInv'
<1> USE DEF LogInv
<1>1. /\ \A s \in Requests : op'[s] = Idle
      /\ troubled' = troubled \cup {s[1] : s \in {t \in Requests : HalfWay(t)}}
      /\ UNCHANGED <<channel, member, tangle, states, seen, stateKey, cache>>
  BY DEF Crash
<1>2. Alone'
  BY <1>1, IdleKnown DEF Alone
<1>3. Slots'
  BY <1>1, IdleSlot DEF Slots
<1>4. ASSUME NEW u \in Users
      PROVE  UserInv(u)'
  <2>1. UserInv(u) /\ Cached(u)' = Cached(u) /\ Published' = Published
    BY <1>1, CachedSame DEF Owners, Published
  <2>2. u \notin troubled' =>
          u \notin troubled /\ \A t \in Requests : t[1] = u => ~HalfWay(t)
    BY <1>1
  <2>3. \A t \in Requests : ~HalfWay(t) => op[t].pc # "saveOwn"
    BY DEF HalfWay
  <2>4. NotAhead(u)'
    BY <1>1, <2>1, <2>2, <2>3 DEF UserInv, NotAhead
  <2>5. Complete(u)' => Complete(u) /\ u \notin troubled'
    BY <1>1 DEF Complete, Reader, Counted, channel
  <2>6. NotBehind(u)'
    <3>1. Complete(u)' => seen[u] \subseteq Cached(u)
      BY <2>1, <2>2, <2>5 DEF UserInv, NotBehind
    <3> QED
      BY <1>1, <2>1, <3>1 DEF NotBehind
  <2>7. (seen[u] \subseteq Published)' /\ (Cached(u) \subseteq Published)'
    BY <1>1, <2>1 DEF UserInv
  <2>8. (\A l \in Cached(u) : l \notin seen[u] => tangle[l] = u)'
    BY <1>1, <2>1 DEF UserInv
  <2> QED
    BY <2>4, <2>6, <2>7, <2>8 DEF UserInv
<1> QED
  BY <1>2, <1>3, <1>4 DEF Owners

LEMMA StutterKept ==
  ASSUME LogInv, UNCHANGED vars
  PROVE  LogInv'
<1>1. /\ UNCHANGED <<type, right, member, tangle, states, seen, stateKey, cache, op, faults, troubled>>
  BY DEF vars, channel
<1>2. Published' = Published /\ \A u \in Users : Cached(u)' = Cached(u)
  BY <1>1, CachedSame DEF Published
<1>3. \A s \in Requests : HalfWay(s)' <=> HalfWay(s)
  BY <1>1 DEF HalfWay
<1>4. \A u \in Users : Complete(u)' <=> Complete(u)
  BY <1>1 DEF Complete, Reader, Counted
<1>5. TypeOK' /\ Alone'
  BY <1>1 DEF LogInv, TypeOK, Alone
<1>6. ASSUME NEW s \in Requests
      PROVE  SlotInv(s)'
  <2>1. SlotInv(s) /\ s[1] \in Users
    BY Requested DEF LogInv, Slots
  <2>2. KindsOf(s)' /\ ReadOn(s)' /\ Gone(s)'
    BY <1>1, <1>2, <2>1 DEF SlotInv, KindsOf, ReadOn, Gone, Reader
  <2>3. Emptied(s)' /\ NewOnly(s)' /\ Whole(s)'
    BY <1>1, <1>2, <1>4, <2>1 DEF SlotInv, Emptied, NewOnly, Whole
  <2> QED
    BY <2>2, <2>3 DEF SlotInv
<1>7. ASSUME NEW u \in Users
      PROVE  UserInv(u)'
  <2>1. UserInv(u)
    BY DEF LogInv, Owners
  <2>2. NotAhead(u)'
    BY <1>1, <1>2, <2>1 DEF UserInv, NotAhead
  <2>3. NotBehind(u)'
    <3>1. (\A s \in Requests : s[1] = u => ~HalfWay(s))'
            => \A s \in Requests : s[1] = u => ~HalfWay(s)
      BY <1>3
    <3>2. Complete(u)' /\ (\A s \in Requests : s[1] = u => ~HalfWay(s))'
            => (seen[u] \subseteq Cached(u))'
      BY <1>1, <1>2, <1>4, <2>1, <3>1 DEF UserInv, NotBehind
    <3> QED
      BY <3>2 DEF NotBehind
  <2> QED
    BY <1>1, <1>2, <2>1, <2>2, <2>3 DEF UserInv
<1> QED
  BY <1>5, <1>6, <1>7 DEF LogInv, Slots, Owners

LEMMA InitEstablishes == Init => LogInv
<1> SUFFICES ASSUME Init
             PROVE  LogInv
  OBVIOUS
<1> USE DEF Init
<1>1. TypeOK
  <2>1. op \in [Requests -> Ops]
    BY IdleKnown
  <2>2. type \in AllTypes /\ right \in [Users -> AllRights]
    BY TypesAssumption, LogRightsAssumption DEF AllRights, AllTypes
  <2>3. tangle \in Seq(Users) /\ Len(tangle) <= MaxLogs
    BY MaxLogsAssumption
  <2> QED
    BY <2>1, <2>2, <2>3, KeysKnown DEF TypeOK
<1>2. Alone
  BY IdleKnown DEF Alone
<1>3. Slots
  BY IdleKnown DEF Slots, SlotInv, KindsOf, ReadOn, Emptied, NewOnly, Whole, Gone
<1>4. Owners
  BY DEF Owners, UserInv, NotAhead, NotBehind, Cached
<1> QED
  BY <1>1, <1>2, <1>3, <1>4 DEF LogInv

LEMMA NextKeeps == LogInv /\ [Next]_vars => LogInv'
<1> SUFFICES ASSUME LogInv, [Next]_vars
             PROVE  LogInv'
  OBVIOUS
<1>1. TypeOK'
  BY TypesKept DEF LogInv
<1>2. ASSUME NEW s \in Requests, Start(s) \/ StartKeyload(s)
      PROVE  LogInv'
  BY <1>1, <1>2, LoadGood, GoodKept, StutterKept
<1>3. ASSUME NEW s \in Requests, LogStep(s)
      PROVE  LogInv'
  <2>1. Good(s)
    BY <1>3, RemoveGood, FetchGood, SaveGood, InsertGood, SyncGood, PublishGood,
       InsertOwnGood, SaveOwnGood
       DEF LogStep
  <2> QED
    BY <1>1, <2>1, GoodKept
<1>4. ASSUME NEW s \in Requests, RevokeStep(s)
      PROVE  LogInv'
  <2>1. Good(s)
    BY <1>4, RemoveStateGood, RemoveDocGood, RemoveDataGood DEF RevokeStep
  <2> QED
    BY <1>1, <2>1, GoodKept
<1>5. ASSUME NEW s \in Requests, Fail(s)
      PROVE  LogInv'
  BY <1>1, <1>5, FailGood, GoodKept
<1>6. CASE Crash
  BY <1>1, <1>6, CrashKept
<1>7. CASE UNCHANGED vars
  BY <1>7, StutterKept
<1> QED
  BY <1>2, <1>3, <1>4, <1>5, <1>6, <1>7 DEF Next

LEMMA LogInvariant == Spec => []LogInv
<1>1. Init => LogInv
  BY InitEstablishes
<1>2. LogInv /\ [Next]_vars => LogInv'
  BY NextKeeps
<1> QED
  BY <1>1, <1>2, PTL DEF Spec

------------------------------------------------------------------------------
(* The theorems *)

(* Every variable keeps its type; no cached document is about a log that does
   not exist. *)
THEOREM LogTypes == Spec => []TypeOK
<1>1. LogInv => TypeOK
  BY DEF LogInv
<1> QED
  BY <1>1, LogInvariant, PTL

(* A saved state never forgets what it has read, however many requests of the
   user hold a copy of it and wherever they fail. *)
THEOREM StatesNeverRewind == Spec => StateNeverRewinds
<1>1. ASSUME LogInv, Next
      PROVE  \A u \in Users : seen[u] \subseteq seen'[u]
  <2> SUFFICES ASSUME seen' # seen
               PROVE  \A u \in Users : seen[u] \subseteq seen'[u]
    OBVIOUS
  <2>1. PICK s \in Requests : (Save(s) \/ SaveOwn(s)) /\ s[1] \in states
    <3>1. ASSUME NEW s \in Requests, Start(s) \/ StartKeyload(s) \/ RevokeStep(s) \/ Fail(s)
          PROVE  FALSE
      BY <3>1 DEF Start, StartKeyload, Load, RevokeStep, RemoveState, RemoveDoc, RemoveData, Fail
    <3>2. ASSUME NEW s \in Requests,
                 \/ Remove(s) \/ Fetch(s) \/ Insert(s) \/ Sync(s) \/ Publish(s)
                 \/ InsertOwn(s)
          PROVE  FALSE
      BY <3>2 DEF Remove, Fetch, Insert, Sync, Publish, InsertOwn
    <3>3. ~Crash
      BY DEF Crash
    <3>4. PICK s \in Requests : Save(s) \/ SaveOwn(s)
      BY <1>1, <3>1, <3>2, <3>3, Zenon DEF Next, LogStep
    <3>5. s[1] \in states
      BY <3>4 DEF Save, SaveOwn
    <3> QED
      BY <3>4, <3>5
  <2>2. /\ op[s].pc \in {"save", "saveOwn", "saveAuthor"}
        /\ \E key \in Keys : SavedState(s, key)
    <3>1. op[s].kind \in AllOperations
      BY <1>1 DEF LogInv, TypeOK, Ops
    <3> QED
      BY <2>1, <3>1, KeysKnown DEF Save, SaveOwn
  <2>3. seen[s[1]] \subseteq op[s].sub
    BY <1>1, <2>2 DEF LogInv, Slots, SlotInv, ReadOn
  <2>4. /\ seen'[s[1]] = op[s].sub
        /\ \A v \in Users : v # s[1] => seen'[v] = seen[v]
    BY <1>1, <2>2, StateTyped DEF LogInv, TypeOK
  <2> QED
    BY <2>3, <2>4
<1>2. LogInv /\ [Next]_vars => [\A u \in Users : seen[u] \subseteq seen'[u]]_vars
  BY <1>1
<1> QED
  BY <1>2, LogInvariant, PTL DEF Spec, StateNeverRewinds

(* Whatever failed or restarted, the cache of a user is ahead of her saved
   state by logs of her own only. *)
THEOREM OwnLogsAhead == Spec => []OnlyOwnLogsAhead
<1>1. LogInv => OnlyOwnLogsAhead
  <2> SUFFICES ASSUME LogInv, NEW u \in Users, NEW l \in Cached(u) \ seen[u]
               PROVE  tangle[l] = u
    BY DEF OnlyOwnLogsAhead, LogInv, TypeOK
  <2> QED
    BY DEF LogInv, Owners, UserInv
<1> QED
  BY <1>1, LogInvariant, PTL

(* No request that saves fetched logs finds one of them in the cache, unless
   a request of the user was cut short before. *)
THEOREM FetchedOnce == Spec => []NothingFetchedTwice
<1>1. LogInv => NothingFetchedTwice
  BY DEF LogInv, Slots, SlotInv, NewOnly, NothingFetchedTwice
<1> QED
  BY <1>1, LogInvariant, PTL

(* Between the requests of a reader her cache is what her saved state has
   read, for any number of users and parallel requests, unless a request of
   hers was cut short and none has re-imported since. *)
THEOREM CachesExact == Spec => []CacheExact
<1>1. LogInv => CacheExact
  <2> SUFFICES ASSUME LogInv, NEW u \in member \cap states, Reader(u), Quiet(u), Counted(u),
                      u \notin troubled
               PROVE  Cached(u) = seen[u]
    BY DEF CacheExact
  <2>1. u \in Users /\ UserInv(u) /\ Complete(u)
    BY DEF LogInv, TypeOK, Owners, Complete
  <2>2. \A s \in Requests : s[1] = u => op[s].pc # "saveOwn" /\ ~HalfWay(s)
    BY IdleKnown, IdleNotHalfWay DEF Quiet
  <2>3. Cached(u) \subseteq seen[u]
    BY <2>1, <2>2 DEF UserInv, NotAhead
  <2>4. seen[u] \subseteq Cached(u)
    BY <2>1, <2>2 DEF UserInv, NotBehind
  <2> QED
    BY <2>3, <2>4
<1> QED
  BY <1>1, LogInvariant, PTL

------------------------------------------------------------------------------
(* The functions of ChannelLogData. *)

Fields == {"type", "metadata", "publicPayload", "payload"}

LEMMA LogFields ==
  ASSUME NEW log \in ChannelLogs
  PROVE  /\ DOMAIN log = Fields
         /\ \A f \in Fields : log[f] \in Kinds
  BY DEF ChannelLogs, Fields

(* A reader receives what was sent. *)
LEMMA TangleKeeps ==
  ASSUME NEW log \in ChannelLogs
  PROVE  OnTangle(log) = log
  BY DEF ChannelLogs, OnTangle, getChannelLog, getPayloads

(* The cache keeps all but the payload, and what is left of that. *)
LEMMA CacheKeeps ==
  ASSUME NEW log \in ChannelLogs
  PROVE  /\ ReadBack(log) \in ChannelLogs
         /\ \A f \in Fields \ {"payload"} : ReadBack(log)[f] = log[f]
         /\ ReadBack(log).payload = IF log.payload = "value" THEN "value" ELSE "undefined"
<1> DEFINE doc == ToDocument(log)
<1>1. /\ DOMAIN doc = Fields
      /\ \A f \in Fields \ {"payload"} : doc[f] = log[f]
      /\ doc["payload"] = IF log.payload = "value" THEN "encrypted" ELSE "null"
  BY LogFields DEF ToDocument, Fields
<1>2. /\ ReadBack(log) = FromDocument(doc)
  BY DEF ReadBack
<1> QED
  BY <1>1, <1>2, LogFields DEF FromDocument, ChannelLogs, Fields, Kinds, ToDocument

(* Whatever fields a log lacks, what was added, cached and read again is valid unless
   its payload is 0, "" or false. *)
LEMMA AddedIsValid ==
  ASSUME NEW log \in ChannelLogs
  PROVE  SameFields(ReadBack(log), OnTangle(log)) <=> log.payload # "falsy"
<1>1. OnTangle(log) = log /\ DOMAIN ReadBack(log) = Fields
  BY TangleKeeps, CacheKeeps, LogFields
<1>2. \A f \in Fields \ {"payload"} : ReadBack(log)[f] = log[f]
  BY CacheKeeps
<1>3. ReadBack(log).payload = IF log.payload = "value" THEN "value" ELSE "undefined"
  BY CacheKeeps
<1>4. SameFields(ReadBack(log), log) <=>
        \/ ReadBack(log).payload = log.payload
        \/ ~Defined(ReadBack(log).payload) /\ ~Defined(log.payload)
  BY <1>1, <1>2 DEF SameFields, Fields
<1>5. log.payload \in Kinds
  BY LogFields DEF Fields
<1> QED
  BY <1>1, <1>3, <1>4, <1>5 DEF Defined, Kinds
(* A set of numbers has a least one. *)
LEMMA Least ==
  ASSUME NEW T \in SUBSET Nat, T # {}
  PROVE  \E x \in T : \A y \in T : x <= y
<1> DEFINE R == OpToRel(<, Nat)
<1>1. IsWellFoundedOn(R, Nat)
  BY NatLessThanWellFounded
<1>2. \A x, y \in Nat : <<y, x>> \in R <=> y < x
  BY DEF OpToRel
<1> HIDE DEF R
<1>3. PICK x \in T : \A y \in T : ~(<<y, x>> \in R)
  BY <1>1, WFMin
<1>4. ASSUME NEW y \in T
      PROVE  x <= y
  <2>1. x \in Nat /\ y \in Nat /\ ~(<<y, x>> \in R)
    BY <1>3
  <2>2. ~(y < x)
    BY <1>2, <2>1
  <2> QED
    BY <2>1, <2>2
<1> QED
  BY <1>4

(* The answer about a posted log is yes if and only if its link was received
   and the first log received under it has the same fields. *)
THEOREM ValidIfReceived ==
  ASSUME NEW received, DOMAIN received \subseteq Nat, NEW posted, NEW i \in DOMAIN posted
  PROVE  validateLogs(posted, received)[i] <=>
           \E j \in DOMAIN received :
             /\ received[j].link = posted[i].link
             /\ \A k \in DOMAIN received : received[k].link = posted[i].link => j <= k
             /\ SameFields(posted[i].log, received[j].log)
<1> DEFINE found == {j \in DOMAIN received : received[j].link = posted[i].link}
           first == CHOOSE j \in found : \A k \in found : j <= k
<1>1. validateLogs(posted, received)[i] =
        (found # {} /\ SameFields(posted[i].log, received[first].log))
  BY DEF validateLogs
<1>2. ASSUME found # {}
      PROVE  first \in found /\ \A k \in found : first <= k
  <2>1. \E j \in found : \A k \in found : j <= k
    BY <1>2, Least
  <2> QED
    BY <2>1
<1>3. ASSUME NEW j \in found, \A k \in found : j <= k
      PROVE  j = first
  <2>1. first \in found /\ \A k \in found : first <= k
    BY <1>2, <1>3
  <2> HIDE DEF first
  <2> QED
    BY <1>3, <2>1
<1>4. ASSUME validateLogs(posted, received)[i]
      PROVE  /\ first \in found /\ \A k \in found : first <= k
             /\ SameFields(posted[i].log, received[first].log)
  BY <1>1, <1>2, <1>4
<1>5. ASSUME NEW j \in found, \A k \in found : j <= k,
             SameFields(posted[i].log, received[j].log)
      PROVE  validateLogs(posted, received)[i]
  <2>1. j = first
    BY <1>3, <1>5
  <2> QED
    BY <1>1, <1>5, <2>1
<1> HIDE DEF first
<1> QED
  BY <1>4, <1>5

(* A page holds the logs from its number times the limit on, and no others. *)
LEMMA PageHolds ==
  ASSUME NEW S, NEW logs \in Seq(S), NEW limit \in Nat \ {0}, NEW page \in Nat
  PROVE  /\ \A j : j \in DOMAIN getChannelData(logs, limit, page)
                   <=> j \in 1..limit /\ page * limit + j <= Len(logs)
         /\ \A j \in DOMAIN getChannelData(logs, limit, page) :
              getChannelData(logs, limit, page)[j] = logs[page * limit + j]
<1> DEFINE skip == page * limit
           last == IF skip + limit < Len(logs) THEN skip + limit ELSE Len(logs)
           p == SubSeq(logs, 1 + skip, last)
<1>1. skip \in Nat /\ (page = 0 => skip = 0) /\ Len(logs) \in Nat
  OBVIOUS
<1>2. getChannelData(logs, limit, page) = p
  <2>1. (IF page > 0 THEN page * limit ELSE 0) = skip
    BY <1>1
  <2> HIDE DEF skip
  <2> QED
    BY <2>1 DEF getChannelData, Page
<1> HIDE DEF skip
<1>3. last \in Nat /\ 1 + skip \in Nat /\ last <= Len(logs)
  BY <1>1
<1>4. \A i \in 1 + skip .. last : logs[i] \in S
  BY <1>1, <1>3, ElementOfSeq
<1> HIDE DEF last
<1>5. /\ p \in Seq(S) /\ Len(p) = (IF 1 + skip <= last THEN last - (1 + skip) + 1 ELSE 0)
      /\ \A j \in 1 .. last - (1 + skip) + 1 : p[j] = logs[1 + skip + j - 1]
  BY <1>3, <1>4, SubSeqProperties
<1> HIDE DEF p
<1>6. DOMAIN p = 1 .. last - skip
  BY <1>1, <1>3, <1>5, LenProperties
<1>7. \A j : j \in 1 .. last - skip <=> j \in 1..limit /\ skip + j <= Len(logs)
  BY <1>1, <1>3 DEF last
<1>8. ASSUME NEW j \in DOMAIN p
      PROVE  p[j] = logs[skip + j]
  <2>1. j \in 1 .. last - (1 + skip) + 1 /\ 1 + skip + j - 1 = skip + j
    BY <1>1, <1>3, <1>6
  <2> QED
    BY <1>5, <2>1
<1> QED
  BY <1>2, <1>6, <1>7, <1>8 DEF skip

(* Multiples of the limit are that far apart. *)
LEMMA PagesApart ==
  ASSUME NEW limit \in Nat \ {0}, NEW p \in Nat, NEW q \in Nat, p < q
  PROVE  p * limit + limit <= q * limit
<1>1. PICK d \in Nat : q = p + 1 + d
  <2>1. q - p - 1 \in Nat /\ q = p + 1 + (q - p - 1)
    OBVIOUS
  <2> QED
    BY <2>1
<1>2. (p + 1 + d) * limit = p * limit + limit + d * limit /\ d * limit \in Nat
      /\ p * limit \in Nat
  OBVIOUS
<1> QED
  BY <1>1, <1>2

(* Every log is on one page. *)
LEMMA OnePage ==
  ASSUME NEW limit \in Nat \ {0}, NEW i \in Nat \ {0}
  PROVE  \E p \in Nat : \A q \in Nat : (\E j \in 1..limit : q * limit + j = i) <=> q = p
<1> DEFINE T == {p \in Nat : p * limit + limit >= i}
<1>1. \A p \in Nat : p * limit \in Nat
  OBVIOUS
<1>2. i - 1 \in T
  <2>1. (i - 1) * limit >= i - 1
    OBVIOUS
  <2> QED
    BY <1>1, <2>1
<1>3. PICK p \in T : \A q \in T : p <= q
  BY <1>2, Least
<1>4. p * limit < i
  <2>1. CASE p = 0
    BY <2>1
  <2>2. CASE p # 0
    <3>1. p - 1 \in Nat /\ p - 1 \notin T
      BY <1>3, <2>2
    <3>2. (p - 1) * limit + limit = p * limit /\ (p - 1) * limit \in Nat
      BY <3>1
    <3> QED
      BY <3>1, <3>2
  <2> QED
    BY <2>1, <2>2
<1>5. i - p * limit \in 1..limit /\ p * limit + (i - p * limit) = i
  BY <1>1, <1>3, <1>4
<1>6. ASSUME NEW q \in Nat, NEW j \in 1..limit, q * limit + j = i
      PROVE  q = p
  <2>1. q * limit \in Nat /\ p * limit \in Nat /\ p \in Nat
    BY <1>1
  <2>2. ~(p < q)
    BY <1>3, <1>6, <2>1, PagesApart
  <2>3. ~(q < p)
    BY <1>4, <1>6, <2>1, PagesApart
  <2> QED
    BY <2>1, <2>2, <2>3
<1> HIDE DEF T
<1>7. p \in Nat
  BY <1>3 DEF T
<1> QED
  BY <1>5, <1>6, <1>7

(* The i-th log is on page p and on no other. *)
OnlyOn(logs, limit, i, p) ==
  \A q \in Nat : (\E j \in DOMAIN getChannelData(logs, limit, q) : q * limit + j = i) <=> q = p

(* Reading page after page gives every log exactly once, for all logs and every
   limit: there is one page with it. *)
THEOREM PagesOnce ==
  ASSUME NEW S, NEW logs \in Seq(S), NEW limit \in Nat \ {0}, NEW i \in 1..Len(logs)
  PROVE  \E p \in Nat : OnlyOn(logs, limit, i, p)
<1>1. i \in Nat \ {0} /\ Len(logs) \in Nat /\ i <= Len(logs)
  OBVIOUS
<1>2. PICK p \in Nat : \A q \in Nat : (\E j \in 1..limit : q * limit + j = i) <=> q = p
  BY <1>1, OnePage
<1>3. ASSUME NEW q \in Nat
      PROVE  (\E j \in DOMAIN getChannelData(logs, limit, q) : q * limit + j = i)
               <=> (\E j \in 1..limit : q * limit + j = i)
  <2>1. \A j : j \in DOMAIN getChannelData(logs, limit, q)
                <=> j \in 1..limit /\ q * limit + j <= Len(logs)
    BY PageHolds
  <2> QED
    BY <1>1, <2>1
<1> QED
  BY <1>2, <1>3 DEF OnlyOn

(* Reading page after page gives every log exactly once and in order, for the
   lengths and limits PagesPartition names: what holds for all of them. *)
THEOREM PagesAreExact == Spec => []PagesExact
<1>1. ASSUME NEW n \in 0..5, NEW limit \in 1..3
      PROVE  LET logs == [i \in 1..n |-> i]
                 pages == n \div limit
             IN /\ \A i \in 1..n :
                     Cardinality({page \in 0..pages :
                       \E j \in DOMAIN getChannelData(logs, limit, page) :
                         getChannelData(logs, limit, page)[j] = i}) = 1
                /\ \A page \in 0..pages, j \in 1..limit :
                     j \in DOMAIN getChannelData(logs, limit, page)
                       => getChannelData(logs, limit, page)[j] = page * limit + j
  <2> DEFINE logs == [i \in 1..n |-> i]
             pages == n \div limit
             holding(i) == {page \in 0..pages :
                             \E j \in DOMAIN getChannelData(logs, limit, page) :
                               getChannelData(logs, limit, page)[j] = i}
  <2>1. logs \in Seq(Nat) /\ Len(logs) = n /\ \A i \in 1..n : logs[i] = i
    OBVIOUS
  <2>2. limit \in Nat \ {0}
    OBVIOUS
  <2>3. pages \in Nat /\ \A p \in Nat : p * limit < n => p <= pages
    <3>1. CASE limit = 1
      BY <3>1
    <3>2. CASE limit = 2
      BY <3>2
    <3>3. CASE limit = 3
      BY <3>3
    <3> QED
      BY <3>1, <3>2, <3>3
  <2> HIDE DEF logs, pages
  <2>4. ASSUME NEW page \in Nat, NEW j \in DOMAIN getChannelData(logs, limit, page)
        PROVE  /\ getChannelData(logs, limit, page)[j] = page * limit + j
               /\ page * limit < n
    <3>1. /\ j \in 1..limit /\ page * limit + j <= Len(logs)
          /\ getChannelData(logs, limit, page)[j] = logs[page * limit + j]
      BY <2>1, <2>2, PageHolds
    <3>2. page * limit + j \in 1..n /\ page * limit < n
      BY <2>1, <2>2, <3>1
    <3> QED
      BY <2>1, <3>1, <3>2
  <2>5. ASSUME NEW i \in 1..n
        PROVE  Cardinality(holding(i)) = 1
    <3>1. PICK p \in Nat : OnlyOn(logs, limit, i, p)
      <4>1. logs \in Seq(Nat) /\ i \in 1..Len(logs)
        BY <2>1
      <4> QED
        BY <2>2, <4>1, PagesOnce
    <3>2. p \in 0..pages
      BY <2>3, <2>4, <3>1 DEF OnlyOn
    <3>3. \A q \in 0..pages : q \in holding(i) <=> q = p
      BY <2>3, <2>4, <3>1 DEF OnlyOn
    <3>4. holding(i) = {p}
      BY <3>2, <3>3
    <3> QED
      BY <3>4, FS_Singleton
  <2>6. \A page \in 0..pages : page \in Nat
    BY <2>3
  <2> QED
    BY <2>4, <2>5, <2>6, Zenon DEF logs, pages
<1>2. PagesPartition
  BY <1>1 DEF PagesPartition
<1> QED
  BY <1>2, PTL DEF PagesExact
(* A log that was added, cached, read again and posted is valid, unless its
   payload is 0, "" or false. *)
THEOREM AddedLogsAreValid == Spec => []AddedLogsValidate
<1>1. CachedLogsValidate
  BY AddedIsValid DEF CachedLogsValidate
<1> QED
  BY <1>1, PTL DEF AddedLogsValidate

(* When every link was received once, the answer is that of the one log
   received under it, whatever the order. *)
LEMMA ValidWithOnce ==
  ASSUME NEW received, DOMAIN received \subseteq Nat, NEW posted, NEW i \in DOMAIN posted,
         NEW j \in DOMAIN received, received[j].link = posted[i].link,
         \A k \in DOMAIN received : received[k].link = posted[i].link => k = j
  PROVE  validateLogs(posted, received)[i] <=> SameFields(posted[i].log, received[j].log)
  BY ValidIfReceived

LEMMA SameIffAgree ==
  ASSUME NEW x \in ChannelLogs, NEW y \in ChannelLogs
  PROVE  SameFields(x, y) <=>
           \A f \in DOMAIN x : x[f] # y[f] => {x[f], y[f]} = {"undefined", "null"}
<1>1. ASSUME NEW f \in DOMAIN x
      PROVE  (x[f] = y[f] \/ (~Defined(x[f]) /\ ~Defined(y[f])))
               <=> (x[f] # y[f] => {x[f], y[f]} = {"undefined", "null"})
  <2>1. x[f] \in Kinds /\ y[f] \in Kinds
    BY LogFields
  <2>2. {x[f], y[f]} = {"undefined", "null"}
          <=> \/ x[f] = "undefined" /\ y[f] = "null"
              \/ x[f] = "null" /\ y[f] = "undefined"
    OBVIOUS
  <2> QED
    BY <2>1, <2>2 DEF Defined, Kinds
<1> QED
  BY <1>1 DEF SameFields

(* Every posted log gets the answer of the tangle, in its place. *)
THEOREM AnswersAreExact == Spec => []AnswersExact
<1> DEFINE Samples == {log \in ChannelLogs : log.type = "value" /\ log.metadata = "null"
                                             /\ log.publicPayload # "falsy"}
           Entries == [link: {1, 2}, log: Samples]
           agrees(x, y) == \A f \in DOMAIN x : x[f] # y[f] => {x[f], y[f]} = {"undefined", "null"}
<1>1. ASSUME NEW a \in Samples, NEW b \in Samples, NEW p \in Entries
      PROVE  validateLogs(<<[link |-> 3, log |-> p.log], p>>,
                          <<[link |-> 2, log |-> OnTangle(b)], [link |-> 1, log |-> OnTangle(a)]>>)
               = <<FALSE, agrees(p.log, [l \in {1, 2} |-> IF l = 1 THEN a ELSE b][p.link])>>
  <2> DEFINE posted == <<[link |-> 3, log |-> p.log], p>>
             received == <<[link |-> 2, log |-> OnTangle(b)], [link |-> 1, log |-> OnTangle(a)]>>
             answers == validateLogs(posted, received)
             there == [l \in {1, 2} |-> IF l = 1 THEN a ELSE b][p.link]
             verdict == agrees(p.log, there)
  <2>1. /\ a \in ChannelLogs /\ b \in ChannelLogs /\ p.log \in ChannelLogs /\ p.link \in {1, 2}
        /\ there = (IF p.link = 1 THEN a ELSE b)
    OBVIOUS
  <2>2. OnTangle(a) = a /\ OnTangle(b) = b
    BY <2>1, TangleKeeps
  <2>3. /\ DOMAIN received = {1, 2} /\ received[1].link = 2 /\ received[2].link = 1
        /\ received[1].log = b /\ received[2].log = a
    BY <2>2
  <2>4. DOMAIN posted = 1..2 /\ posted[1].link = 3 /\ posted[2] = p
    OBVIOUS
  <2>5. answers[1] = FALSE
    <3>9. 1 \in DOMAIN posted
      BY <2>4
    <3>1. DOMAIN received \subseteq Nat
      BY <2>3
    <3>2. ~(\E j \in DOMAIN received : received[j].link = posted[1].link)
      BY <2>3, <2>4
    <3>3. answers[1] <=> FALSE
      <4> HIDE DEF posted, received
      <4> QED
        BY <3>1, <3>2, <3>9, ValidIfReceived
    <3>4. answers[1] \in BOOLEAN
      BY <2>4 DEF validateLogs
    <3> QED
      BY <3>3, <3>4, Zenon
  <2>6. answers[2] = verdict
    <3>1. PICK j \in {1, 2} : received[j].link = p.link
      BY <2>1, <2>3
    <3>2. \A k \in DOMAIN received : received[k].link = posted[2].link => k = j
      BY <2>3, <2>4, <3>1 DEF OnlyOn
    <3>3. received[j].log = there
      BY <2>1, <2>3, <3>1
    <3>4. answers[2] <=> SameFields(p.log, there)
      <4>1. 2 \in DOMAIN posted /\ j \in DOMAIN received /\ DOMAIN received \subseteq Nat
        BY <2>3, <2>4
      <4>2. received[j].link = posted[2].link
        BY <2>4, <3>1
      <4> HIDE DEF posted, received
      <4> QED
        BY <2>4, <3>2, <3>3, <4>1, <4>2, ValidWithOnce
    <3>5. SameFields(p.log, there) <=> verdict
      <4>1. there \in ChannelLogs
        BY <2>1
      <4> HIDE DEF there
      <4> QED
        BY <2>1, <4>1, SameIffAgree
    <3>6. answers[2] \in BOOLEAN
      BY <2>4 DEF validateLogs
    <3>7. verdict \in BOOLEAN
      OBVIOUS
    <3> HIDE DEF verdict, answers
    <3> QED
      BY <3>4, <3>5, <3>6, <3>7, Zenon
  <2>7. answers = [i \in 1..2 |-> answers[i]]
    BY <2>4 DEF validateLogs
  <2> HIDE DEF answers, verdict
  <2>8. ASSUME NEW v, NEW w, answers[1] = v, answers[2] = w
        PROVE  answers = <<v, w>>
    BY <2>7, <2>8
  <2>9. answers = <<FALSE, verdict>>
    BY <2>5, <2>6, <2>8, Zenon
  <2> QED
    BY <2>9 DEF answers, verdict
<1>2. ValidationExact
  BY <1>1 DEF ValidationExact
<1> QED
  BY <1>2, PTL DEF AnswersExact

================================================================================

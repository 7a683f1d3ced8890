--------------------------- MODULE IdentitiesProofs ---------------------------
(***************************************************************************)
(* What Identities guarantees for every number of clients, setups and      *)
(* tools, whatever fails: types, one root identity of the setups, no keys  *)
(* without an owner, setups that are complete, tokens with a role held.    *)
(*                                                                         *)
(* The invariant has one part for each: what a slot has in hand at each    *)
(* await (Located, SetupNames, SaveOwned, SetupKeys, RolesKnown) is what   *)
(* makes the property inductive.                                           *)
(***************************************************************************)
EXTENDS Identities, FiniteSetTheorems, TLAPS

(* At these awaits the identity is known. *)
Located ==
  \A s \in Slots :
    op[s].pc \in {"insert", "save", "keys", "user", "trust", "addTrust", "credential", "role",
                  "sign", "verify"} => op[s].id \in Ids

TypeInv == TypeOK /\ Located

------------------------------------------------------------------------------
(* What the four ways to move a slot do to op. *)

LEMMA Known ==
  /\ Idle \in Ops
  /\ Missing \in Docs
  /\ Idle.pc = "idle" /\ Idle.name = RootName /\ Idle.id = 0 /\ Idle.role = "User"
  /\ Idle.asRoot = FALSE
  BY DEF Idle, Ops, PCs, Names, Roles, Missing, Docs

LEMMA Moved ==
  ASSUME op \in [Slots -> Ops], NEW s \in Slots, NEW o \in Ops, op' = [op EXCEPT ![s] = o]
  PROVE  /\ op' \in [Slots -> Ops]
         /\ op'[s] = o
         /\ \A t \in Slots : t # s => op'[t] = op[t]
  OBVIOUS

LEMMA MovedGoto ==
  ASSUME op \in [Slots -> Ops], NEW s \in Slots, NEW label \in PCs, Goto(s, label)
  PROVE  /\ op' \in [Slots -> Ops]
         /\ op'[s].pc = label /\ op'[s].id = op[s].id /\ op'[s].name = op[s].name
         /\ op'[s].role = op[s].role /\ op'[s].asRoot = op[s].asRoot
         /\ \A t \in Slots : t # s => op'[t] = op[t]
<1> DEFINE o == [op[s] EXCEPT !.pc = label]
<1>1. /\ o \in Ops /\ o.pc = label /\ o.id = op[s].id /\ o.name = op[s].name
      /\ o.role = op[s].role /\ o.asRoot = op[s].asRoot
  BY DEF Ops
<1>2. op' = [op EXCEPT ![s] = o]
  BY DEF Goto
<1> HIDE DEF o
<1> QED
  BY <1>1, <1>2, Moved

LEMMA MovedEnd ==
  ASSUME op \in [Slots -> Ops], NEW s \in Slots, End(s)
  PROVE  /\ op' \in [Slots -> Ops]
         /\ op'[s] = Idle
         /\ \A t \in Slots : t # s => op'[t] = op[t]
  BY Moved, Known DEF End

LEMMA MovedStop ==
  ASSUME op \in [Slots -> Ops], NEW s \in Slots, Stop(s)
  PROVE  /\ op' \in [Slots -> Ops]
         /\ op'[s].pc = "over" /\ op'[s].name = RootName
         /\ \A t \in Slots : t # s => op'[t] = op[t]
<1> DEFINE o == [Idle EXCEPT !.pc = "over"]
<1>1. o \in Ops /\ o.pc = "over" /\ o.name = RootName
  BY DEF Idle, Ops, PCs, Names, Roles
<1>2. op' = [op EXCEPT ![s] = o]
  BY DEF Stop
<1> HIDE DEF o
<1> QED
  BY <1>1, <1>2, Moved

LEMMA MovedBegin ==
  ASSUME op \in [Slots -> Ops], NEW s \in Slots, NEW label \in PCs, NEW o \in Ops,
         Begin(s, label, o)
  PROVE  /\ op' \in [Slots -> Ops]
         /\ op'[s].pc = label /\ op'[s].id = o.id /\ op'[s].name = o.name
         /\ op'[s].role = o.role /\ op'[s].asRoot = o.asRoot
         /\ \A t \in Slots : t # s => op'[t] = op[t]
<1> DEFINE q == [o EXCEPT !.pc = label]
<1>1. /\ q \in Ops /\ q.pc = label /\ q.id = o.id /\ q.name = o.name /\ q.role = o.role
      /\ q.asRoot = o.asRoot
  BY DEF Ops
<1>2. op' = [op EXCEPT ![s] = q]
  BY DEF Begin
<1> HIDE DEF q
<1> QED
  BY <1>1, <1>2, Moved

(* What CreateOnTangle does to a slot that goes on. *)
LEMMA MovedInsert ==
  ASSUME op \in [Slots -> Ops], NEW s \in Slots, NEW i \in Ids,
         op' = [op EXCEPT ![s].pc = "insert", ![s].id = i]
  PROVE  /\ op' \in [Slots -> Ops]
         /\ op'[s].pc = "insert" /\ op'[s].id = i /\ op'[s].name = op[s].name
         /\ op'[s].asRoot = op[s].asRoot
         /\ \A t \in Slots : t # s => op'[t] = op[t]
<1> DEFINE o == [op[s] EXCEPT !.pc = "insert", !.id = i]
<1>1. /\ o \in Ops /\ o.pc = "insert" /\ o.id = i /\ o.name = op[s].name
      /\ o.asRoot = op[s].asRoot
  BY DEF Ops, PCs
<1>2. op' = [op EXCEPT ![s] = o]
  OBVIOUS
<1> HIDE DEF o
<1> QED
  BY <1>1, <1>2, Moved

(* What ReadUser does. *)
LEMMA MovedRole ==
  ASSUME op \in [Slots -> Ops], NEW s \in Slots, NEW r \in Roles,
         op' = [op EXCEPT ![s].pc = "verify", ![s].role = r]
  PROVE  /\ op' \in [Slots -> Ops]
         /\ op'[s].pc = "verify" /\ op'[s].id = op[s].id /\ op'[s].name = op[s].name
         /\ op'[s].role = r
         /\ \A t \in Slots : t # s => op'[t] = op[t]
<1> DEFINE o == [op[s] EXCEPT !.pc = "verify", !.role = r]
<1>1. /\ o \in Ops /\ o.pc = "verify" /\ o.id = op[s].id /\ o.name = op[s].name
      /\ o.role = r
  BY DEF Ops, PCs
<1>2. op' = [op EXCEPT ![s] = o]
  OBVIOUS
<1> HIDE DEF o
<1> QED
  BY <1>1, <1>2, Moved

(* A crash leaves every slot idle or as it was. *)
LEMMA MovedCrash ==
  ASSUME op \in [Slots -> Ops], NEW process \in Processes, Crash(process)
  PROVE  /\ op' \in [Slots -> Ops]
         /\ \A t \in Slots : op'[t] = Idle \/ op'[t] = op[t]
  BY Known DEF Crash

(* The one way a user document comes into the collection. *)
LEMMA Inserts ==
  ASSUME users \in [Ids -> Docs], NEW i \in Ids, NEW n \in Names, NEW isRoot \in BOOLEAN,
         InsertUser(i, n, isRoot)
  PROVE  /\ users' \in [Ids -> Docs]
         /\ \A j \in Ids : j # i => users'[j] = users[j]
         /\ \/ users'[i] = users[i]
            \/ /\ ~Registered(i) /\ ~NameTaken(n)
               /\ users'[i] = [name |-> n, role |-> "User", root |-> isRoot]
<1>1. [name |-> n, role |-> "User", root |-> isRoot] \in Docs
  BY DEF Docs, Roles
<1> QED
  BY <1>1 DEF InsertUser

------------------------------------------------------------------------------
(* Types *)

LEMMA Constant ==
  /\ 0 \in Nat /\ MaxIds \in Nat /\ Clients \subseteq Slots /\ Setups \subseteq Slots
  /\ Tools \subseteq Slots /\ RootName \in Names /\ AdminName \in Names
  /\ UserNames \subseteq Names
  /\ IsFiniteSet(Ids)
<1>1. IsFiniteSet(Ids)
  BY FS_Interval, BoundsAssumption DEF Ids
<1> QED
  BY <1>1, BoundsAssumption DEF Slots, Names

LEMMA RootsFinite == IsFiniteSet(Roots) /\ Roots \subseteq Ids
  BY Constant, FS_Subset DEF Roots

(* The server and the tool find an identity, or none. *)
LEMMA RootFound == RootIdentityId \in Ids \cup {0}
<1>1. CASE Cardinality(Roots) = 1 /\ Roots \subseteq keys
  <2>1. Roots # {}
    BY <1>1, FS_EmptySet
  <2>2. (CHOOSE r \in Roots : TRUE) \in Roots
    BY <2>1
  <2> QED
    BY <1>1, <2>2, RootsFinite DEF RootIdentityId
<1>2. CASE ~(Cardinality(Roots) = 1 /\ Roots \subseteq keys)
  BY <1>2 DEF RootIdentityId
<1> QED
  BY <1>1, <1>2

LEMMA Remembers ==
  ASSUME held \in [Clients -> SUBSET Roles], NEW i, NEW role \in Roles, Remember(i, role)
  PROVE  held' \in [Clients -> SUBSET Roles]
  BY DEF Remember

(* What a step does to op keeps its type, and the identity known where it is
   needed. *)
LEMMA OpStep ==
  ASSUME TypeInv, [Next]_vars
  PROVE  op' \in [Slots -> Ops] /\ Located'
<1> USE DEF TypeInv, Located
<1>0. op \in [Slots -> Ops] /\ created \in 0..MaxIds
  BY DEF TypeOK
<1>1. ASSUME NEW s \in Slots, CreateOnTangle(s)
      PROVE  op' \in [Slots -> Ops] /\ Located'
  <2>1. created + 1 \in Ids
    BY <1>0, <1>1, BoundsAssumption DEF CreateOnTangle, Ids
  <2>2. CASE op' = [op EXCEPT ![s].pc = "insert", ![s].id = created + 1]
    <3> DEFINE i == created + 1
    <3>1. i \in Ids /\ op' = [op EXCEPT ![s].pc = "insert", ![s].id = i]
      BY <2>1, <2>2
    <3> HIDE DEF i
    <3> QED
      BY <1>0, <3>1, MovedInsert
  <2>3. CASE End(s)
    BY <1>0, <2>3, MovedEnd, Known
  <2> QED
    BY <1>1, <2>2, <2>3 DEF CreateOnTangle
<1>2. ASSUME NEW s \in Slots, CreateUser(s)
      PROVE  op' \in [Slots -> Ops] /\ Located'
  <2>1. /\ End(s) \/ Goto(s, "save") \/ Goto(s, "credential")
        /\ op[s].id \in Ids
    BY <1>2 DEF CreateUser
  <2> QED
    BY <1>0, <2>1, MovedEnd, MovedGoto, Known DEF PCs
<1>3. ASSUME NEW s \in Slots, SaveKeys(s)
      PROVE  op' \in [Slots -> Ops] /\ Located'
  <2>1. (End(s) \/ Goto(s, "user")) /\ op[s].id \in Ids
    BY <1>3 DEF SaveKeys
  <2> QED
    BY <1>0, <2>1, MovedEnd, MovedGoto, Known DEF PCs
<1>4. ASSUME NEW s \in Slots, Fail(s)
      PROVE  op' \in [Slots -> Ops] /\ Located'
  BY <1>0, <1>4, MovedEnd, Known DEF Fail
<1>5. ASSUME NEW p \in Setups, FindRoot(p)
      PROVE  op' \in [Slots -> Ops] /\ Located'
  <2>1. CASE Begin(p, "tangle", [Idle EXCEPT !.name = RootName, !.stored = TRUE, !.asRoot = TRUE])
    <3> DEFINE o == [Idle EXCEPT !.name = RootName, !.stored = TRUE, !.asRoot = TRUE]
    <3>1. o \in Ops /\ Begin(p, "tangle", o)
      BY <2>1 DEF Idle, Ops, PCs, Names, Roles
    <3> HIDE DEF o
    <3> QED
      BY <1>0, <3>1, MovedBegin, Constant DEF PCs
  <2>2. ASSUME NEW r \in Roots, Begin(p, "keys", [Idle EXCEPT !.id = r])
        PROVE  op' \in [Slots -> Ops] /\ Located'
    <3> DEFINE o == [Idle EXCEPT !.id = r]
    <3>1. o \in Ops /\ o.id = r /\ r \in Ids /\ Begin(p, "keys", o)
      BY <2>2, RootsFinite DEF Idle, Ops, PCs, Names, Roles
    <3> HIDE DEF o
    <3> QED
      BY <1>0, <3>1, MovedBegin, Constant DEF PCs
  <2> QED
    BY <1>5, <2>1, <2>2 DEF FindRoot
<1>6. ASSUME NEW p \in Setups, CheckKeys(p) \/ GetRootUser(p) \/ ReadTrusted(p)
      PROVE  op' \in [Slots -> Ops] /\ Located'
  <2>1. /\ op[p].id \in Ids
        /\ Goto(p, "user") \/ Goto(p, "trust") \/ Goto(p, "addTrust") \/ End(p) \/ Stop(p)
    BY <1>6, Constant DEF CheckKeys, GetRootUser, ReadTrusted
  <2> QED
    BY <1>0, <2>1, MovedEnd, MovedStop, MovedGoto, Known, Constant DEF PCs
<1>7. ASSUME NEW p \in Setups, AddTrustedRoot(p)
      PROVE  op' \in [Slots -> Ops] /\ Located'
  <2>1. End(p) \/ Stop(p)
    BY <1>7 DEF AddTrustedRoot
  <2> QED
    BY <1>0, <2>1, MovedEnd, MovedStop, Known, Constant
<1>8. ASSUME NEW t \in Tools, StartTool(t)
      PROVE  op' \in [Slots -> Ops] /\ Located'
  <2> DEFINE r == RootIdentityId
             o == [Idle EXCEPT !.name = AdminName, !.root = r]
  <2>1. r \in Ids \cup {0}
    BY RootFound
  <2> HIDE DEF r
  <2>2. o \in Ops
    BY <2>1 DEF Idle, Ops, PCs, Names, Roles
  <2>3. Begin(t, "tangle", o)
    BY <1>8 DEF StartTool, r
  <2> HIDE DEF o
  <2> QED
    BY <1>0, <2>2, <2>3, MovedBegin, Constant DEF PCs
<1>9. ASSUME NEW t \in Tools, IssueAdminCredential(t) \/ SetAdminRole(t)
      PROVE  op' \in [Slots -> Ops] /\ Located'
  <2>1. op[t].id \in Ids /\ (Goto(t, "role") \/ End(t))
    BY <1>9, Constant DEF IssueAdminCredential, SetAdminRole
  <2> QED
    BY <1>0, <2>1, MovedEnd, MovedGoto, Known, Constant DEF PCs
<1>10. ASSUME NEW c \in Clients, StartCreate(c)
       PROVE  op' \in [Slots -> Ops] /\ Located'
  <2>1. CASE \E n \in UserNames, stored, asRoot \in BOOLEAN :
               Begin(c, "check", [Idle EXCEPT !.name = n, !.stored = stored, !.asRoot = asRoot])
    <3>1. PICK n \in UserNames, stored, asRoot \in BOOLEAN :
            Begin(c, "check", [Idle EXCEPT !.name = n, !.stored = stored, !.asRoot = asRoot])
      BY <2>1
    <3> DEFINE o == [Idle EXCEPT !.name = n, !.stored = stored, !.asRoot = asRoot]
    <3>2. o \in Ops /\ Begin(c, "check", o)
      BY <3>1 DEF Idle, Ops, PCs, Names, Roles
    <3> HIDE DEF o
    <3> QED
      BY <1>0, <3>2, MovedBegin, Constant DEF PCs
  <2>2. CASE \E n \in UserNames, asRoot \in BOOLEAN, i \in 1..created :
               Begin(c, "check", [Idle EXCEPT !.name = n, !.id = i, !.asRoot = asRoot])
    <3>1. PICK n \in UserNames, asRoot \in BOOLEAN, i \in 1..created :
            Begin(c, "check", [Idle EXCEPT !.name = n, !.id = i, !.asRoot = asRoot])
      BY <2>2
    <3> DEFINE o == [Idle EXCEPT !.name = n, !.id = i, !.asRoot = asRoot]
    <3>2. i \in Ids
      BY <1>0, BoundsAssumption DEF Ids
    <3>3. o \in Ops /\ Begin(c, "check", o)
      BY <3>1, <3>2 DEF Idle, Ops, PCs, Names, Roles
    <3> HIDE DEF o
    <3> QED
      BY <1>0, <3>3, MovedBegin, Constant DEF PCs
  <2> QED
    BY <1>10, <2>1, <2>2 DEF StartCreate
<1>11. ASSUME NEW c \in Clients, CheckName(c)
       PROVE  op' \in [Slots -> Ops] /\ Located'
  <2>1. \/ End(c)
        \/ op[c].id = 0 /\ Goto(c, "tangle")
        \/ op[c].id # 0 /\ Goto(c, "insert")
    BY <1>11 DEF CheckName
  <2>2. op[c].id \in Ids \cup {0}
    BY <1>0, Constant DEF Ops
  <2> QED
    BY <1>0, <2>1, <2>2, MovedEnd, MovedGoto, Known, Constant DEF PCs
<1>12. ASSUME NEW c \in Clients, GetNonce(c)
       PROVE  op' \in [Slots -> Ops] /\ Located'
  <2>1. PICK i \in 1..created : Begin(c, "sign", [Idle EXCEPT !.id = i])
    BY <1>12 DEF GetNonce
  <2> DEFINE o == [Idle EXCEPT !.id = i]
  <2>2. i \in Ids
    BY <1>0, BoundsAssumption DEF Ids
  <2>3. o \in Ops /\ o.id = i /\ Begin(c, "sign", o)
    BY <2>1, <2>2 DEF Idle, Ops, PCs, Names, Roles
  <2> HIDE DEF o
  <2>4. /\ op' \in [Slots -> Ops] /\ op'[c].id = i
        /\ \A t \in Slots : t # c => op'[t] = op[t]
    BY <1>0, <2>3, MovedBegin, Constant DEF PCs
  <2> QED
    BY <2>2, <2>4
<1>13. ASSUME NEW c \in Clients, ReadUser(c)
       PROVE  op' \in [Slots -> Ops] /\ Located'
  <2> DEFINE r == users[op[c].id].role
  <2>1. op[c].id \in Ids
    BY <1>13, Constant DEF ReadUser
  <2>2. r \in Roles
    BY <2>1 DEF TypeOK, Docs
  <2>3. op' = [op EXCEPT ![c].pc = "verify", ![c].role = r]
    BY <1>13 DEF ReadUser
  <2> HIDE DEF r
  <2>4. /\ op' \in [Slots -> Ops] /\ op'[c].id = op[c].id
        /\ \A t \in Slots : t # c => op'[t] = op[t]
    BY <1>0, <2>2, <2>3, MovedRole, Constant
  <2> QED
    BY <2>1, <2>4
<1>14. ASSUME NEW c \in Clients, VerifyNonce(c)
       PROVE  op' \in [Slots -> Ops] /\ Located'
  BY <1>0, <1>14, MovedEnd, Known, Constant DEF VerifyNonce
<1>15. ASSUME NEW process \in Processes, Crash(process)
       PROVE  op' \in [Slots -> Ops] /\ Located'
  BY <1>0, <1>15, MovedCrash, Known
<1>16. CASE UNCHANGED op
  BY <1>0, <1>16
<1> QED
  BY <1>1, <1>2, <1>3, <1>4, <1>5, <1>6, <1>7, <1>8, <1>9, <1>10, <1>11, <1>12, <1>13,
     <1>14, <1>15, <1>16
     DEF Next, createIdentity, keyGeneration, setupAdminIdentity, ClientStep, authenticate,
         StartServer, UpdateUser, DeleteUser, ChangeTrustedRoots, ExpireToken, vars

(* The other variables: what a step writes into them is of their type. *)
LEMMA TypeStep ==
  ASSUME TypeInv, [Next]_vars
  PROVE  TypeOK'
<1>0. op' \in [Slots -> Ops]
  BY OpStep
<1> USE DEF TypeInv
<1>1. ASSUME NEW s \in Slots, CreateOnTangle(s)
      PROVE  TypeOK'
  BY <1>0, <1>1, BoundsAssumption DEF CreateOnTangle, TypeOK, store, history
<1>2. ASSUME NEW s \in Slots, CreateUser(s)
      PROVE  TypeOK'
  <2> DEFINE i == op[s].id  n == op[s].name
  <2>1. i \in Ids /\ n \in Names
    BY <1>2 DEF CreateUser, Located, TypeOK, Ops
  <2>2. users' \in [Ids -> Docs]
    <3> DEFINE isRoot == op[s].asRoot
    <3>1. isRoot \in BOOLEAN
      BY DEF TypeOK, Ops
    <3>2. InsertUser(i, n, isRoot)
      BY <1>2, Zenon DEF CreateUser
    <3> HIDE DEF isRoot, i, n
    <3> QED
      BY <2>1, <3>1, <3>2, Inserts DEF TypeOK
  <2>3. held' = held \/ Remember(i, "User")
    BY <1>2 DEF CreateUser
  <2>4. held' \in [Clients -> SUBSET Roles]
    BY <2>3, Remembers DEF TypeOK, Roles
  <2>5. owners' \subseteq Ids /\ claimed' \subseteq Ids
    BY <1>2, <2>1 DEF CreateUser, TypeOK
  <2> HIDE DEF i, n
  <2> QED
    BY <1>0, <1>2, <2>2, <2>4, <2>5 DEF CreateUser, TypeOK
<1>3. ASSUME NEW s \in Slots, SaveKeys(s)
      PROVE  TypeOK'
  BY <1>0, <1>3 DEF SaveKeys, TypeOK, Located, history
<1>4. ASSUME NEW s \in Slots, Fail(s)
      PROVE  TypeOK'
  BY <1>0, <1>4 DEF Fail, Fault, TypeOK, store, history
<1>5. ASSUME NEW p \in Setups, FindRoot(p) \/ CheckKeys(p) \/ GetRootUser(p)
      PROVE  TypeOK'
  BY <1>0, <1>5 DEF FindRoot, CheckKeys, GetRootUser, TypeOK, store, history
<1>6. ASSUME NEW p \in Setups, ReadTrusted(p) \/ AddTrustedRoot(p)
      PROVE  TypeOK'
  <2>1. op[p].id \in Ids
    BY <1>6, Constant DEF ReadTrusted, AddTrustedRoot, Located
  <2> QED
    BY <1>0, <1>6, <2>1 DEF ReadTrusted, AddTrustedRoot, TypeOK, store
<1>7. CASE StartServer
  BY <1>0, <1>7, RootFound DEF StartServer, TypeOK, store, history
<1>8. ASSUME NEW t \in Tools, StartTool(t) \/ IssueAdminCredential(t)
      PROVE  TypeOK'
  BY <1>0, <1>8 DEF StartTool, IssueAdminCredential, TypeOK, store, history
<1>9. ASSUME NEW t \in Tools, SetAdminRole(t)
      PROVE  TypeOK'
  <2> DEFINE i == op[t].id
  <2>1. i \in Ids
    BY <1>9, Constant DEF SetAdminRole, Located
  <2>2. users[i] \in Docs
    BY <2>1 DEF TypeOK
  <2>3. [users[i] EXCEPT !.role = "Admin"] \in Docs
    BY <2>2 DEF Docs, Roles
  <2>4. users' \in [Ids -> Docs]
    BY <1>9, <2>1, <2>2, <2>3 DEF SetAdminRole, TypeOK
  <2>5. held' = held \/ Remember(i, "Admin")
    BY <1>9 DEF SetAdminRole
  <2>6. held' \in [Clients -> SUBSET Roles]
    BY <2>5, Remembers DEF TypeOK, Roles
  <2> HIDE DEF i
  <2> QED
    BY <1>0, <1>9, <2>4, <2>6 DEF SetAdminRole, TypeOK
<1>10. ASSUME NEW c \in Clients, StartCreate(c) \/ CheckName(c)
       PROVE  TypeOK'
  <2>1. /\ UNCHANGED <<created, store, jwt, server, faults, history>>
        /\ asked' = asked \/ asked' = asked + 1
    BY <1>10 DEF StartCreate, CheckName, Asks
  <2> QED
    BY <1>0, <2>1 DEF TypeOK, store, history
<1>11. ASSUME NEW c \in Clients, UpdateUser(c)
       PROVE  TypeOK'
  <2>1. PICK i \in 1..created, n \in UserNames, r \in Roles :
          /\ \/ users' = [users EXCEPT ![i].name = n] /\ UNCHANGED held
             \/ users' = [users EXCEPT ![i].role = r] /\ Remember(i, r)
          /\ claimed' \in {claimed, claimed \cup {i}}
    BY <1>11 DEF UpdateUser
  <2>2. i \in Ids /\ n \in Names
    BY Constant, BoundsAssumption DEF TypeOK, Ids
  <2>3. users[i] \in Docs
    BY <2>2 DEF TypeOK
  <2>4. [users[i] EXCEPT !.name = n] \in Docs /\ [users[i] EXCEPT !.role = r] \in Docs
    BY <2>2, <2>3 DEF Docs
  <2>5. users' \in [Ids -> Docs]
    BY <2>1, <2>4 DEF TypeOK
  <2>6. held' \in [Clients -> SUBSET Roles]
    BY <2>1, Remembers DEF TypeOK
  <2>7. claimed' \subseteq Ids
    BY <2>1, <2>2 DEF TypeOK
  <2> QED
    BY <1>0, <1>11, <2>5, <2>6, <2>7 DEF UpdateUser, Asks, TypeOK
<1>12. ASSUME NEW c \in Clients, DeleteUser(c)
       PROVE  TypeOK'
  <2>1. PICK i \in 1..created : users' = [users EXCEPT ![i] = Missing] /\ Remember(i, "User")
    BY <1>12 DEF DeleteUser
  <2>2. users' \in [Ids -> Docs]
    BY <2>1, Known DEF TypeOK
  <2>3. held' \in [Clients -> SUBSET Roles]
    BY <2>1, Remembers DEF TypeOK, Roles
  <2> QED
    BY <1>0, <1>12, <2>2, <2>3 DEF DeleteUser, Asks, TypeOK
<1>13. ASSUME NEW c \in Clients, ChangeTrustedRoots(c)
       PROVE  TypeOK'
  <2>1. 1..created \subseteq Ids
    BY BoundsAssumption DEF TypeOK, Ids
  <2> QED
    BY <1>0, <1>13, <2>1 DEF ChangeTrustedRoots, Asks, TypeOK
<1>14. ASSUME NEW c \in Clients, GetNonce(c)
       PROVE  TypeOK'
  <2>1. PICK i \in 1..created :
          nonce' = [nonce EXCEPT ![i] = c] /\ held' = [held EXCEPT ![c] = {users[i].role}]
    BY <1>14 DEF GetNonce
  <2>2. users[i].role \in Roles
    BY BoundsAssumption DEF TypeOK, Ids, Docs
  <2>3. held' \in [Clients -> SUBSET Roles] /\ nonce' \in [Ids -> Clients \cup {"none"}]
    BY <2>1, <2>2 DEF TypeOK
  <2> QED
    BY <1>0, <1>14, <2>3 DEF GetNonce, Asks, TypeOK
<1>15. ASSUME NEW c \in Clients, ReadUser(c)
       PROVE  TypeOK'
  BY <1>0, <1>15 DEF ReadUser, TypeOK, store, history
<1>16. ASSUME NEW c \in Clients, VerifyNonce(c)
       PROVE  TypeOK'
  <2> DEFINE token == [id |-> op[c].id, role |-> op[c].role]
  <2>1. op[c] \in Ops /\ op[c].id \in Ids
    BY <1>16, Constant DEF VerifyNonce, Located, TypeOK
  <2>2. token \in Tokens
    BY <2>1 DEF Tokens, Ops
  <2>3. jwt' = jwt \/ jwt' = [jwt EXCEPT ![c] = token]
    BY <1>16 DEF VerifyNonce, TypeOK
  <2> HIDE DEF token
  <2>4. jwt' \in [Clients -> Tokens \cup {NoToken}]
    BY <2>2, <2>3 DEF TypeOK
  <2> QED
    BY <1>0, <1>16, <2>4 DEF VerifyNonce, TypeOK, store, history
<1>17. ASSUME NEW c \in Clients, ExpireToken(c)
       PROVE  TypeOK'
  <2>1. jwt' \in [Clients -> Tokens \cup {NoToken}]
    BY <1>17 DEF ExpireToken, TypeOK
  <2> QED
    BY <1>0, <1>17, <2>1 DEF ExpireToken, TypeOK, store, history
<1>18. ASSUME NEW process \in Processes, Crash(process)
       PROVE  TypeOK'
  BY <1>0, <1>18 DEF Crash, Fault, TypeOK, store, history
<1>19. CASE UNCHANGED vars
  BY <1>19 DEF vars, TypeOK, store, history
<1> QED
  BY <1>1, <1>2, <1>3, <1>4, <1>5, <1>6, <1>7, <1>8, <1>9, <1>10, <1>11, <1>12, <1>13,
     <1>14, <1>15, <1>16, <1>17, <1>18, <1>19
     DEF Next, createIdentity, keyGeneration, setupAdminIdentity, ClientStep, authenticate

LEMMA InitTypeInv == Init => TypeInv
<1> SUFFICES ASSUME Init PROVE TypeInv
  OBVIOUS
<1>1. op \in [Slots -> Ops] /\ Located
  BY Known DEF Init, Empty, Located
<1>2. users \in [Ids -> Docs]
  BY Known DEF Init, Empty
<1> QED
  BY <1>1, <1>2, BoundsAssumption DEF Init, Empty, TypeInv, TypeOK

(* TypeInv holds in every reachable state. *)
THEOREM TypesKept == Spec => []TypeInv
<1>1. TypeInv /\ [Next]_vars => TypeInv'
  BY OpStep, TypeStep DEF TypeInv
<1> QED
  BY <1>1, InitTypeInv, PTL DEF Spec

(* Types: every variable of the identities stays in its domain. *)
THEOREM IdentityTypes == Spec => []TypeOK
<1>1. TypeInv => TypeOK
  BY DEF TypeInv
<1> QED
  BY <1>1, TypesKept, PTL

------------------------------------------------------------------------------
(* Names and the root identity *)

(* Who creates a root identity and is not a client gives it its name, which it has
   until a client claims it. *)
SetupNames == \A s \in Slots \ Clients : op[s].asRoot = FALSE \/ op[s].name = RootName
RootNamed ==
  \A i \in Ids : Registered(i) /\ users[i].root /\ i \notin claimed => users[i].name = RootName

NameInv == NamesUnique /\ RootNamed /\ SetupNames

(* The ways users changes, but for a creation. *)
Renames(i, n) ==
  /\ Registered(i)
  /\ users[i].name = n \/ (~NameTaken(n) /\ i \in claimed')
  /\ users' = [users EXCEPT ![i].name = n]
Promotes(i, r) == Registered(i) /\ users' = [users EXCEPT ![i].role = r]
Deletes(i) == users' = [users EXCEPT ![i] = Missing]

UsersChange ==
  /\ claimed \subseteq claimed'
  /\ \/ users' = users
     \/ \E s \in Slots : CreateUser(s)
     \/ \E i \in Ids, n \in Names : Renames(i, n)
     \/ \E i \in Ids, r \in Roles : Promotes(i, r)
     \/ \E i \in Ids : Deletes(i)

LEMMA UsersStep ==
  ASSUME TypeInv, [Next]_vars
  PROVE  UsersChange
<1>0. 1..created \subseteq Ids
  BY BoundsAssumption DEF TypeInv, TypeOK, Ids
<1>1. ASSUME NEW t \in Tools, SetAdminRole(t)
      PROVE  UsersChange
  <2> DEFINE i == op[t].id
  <2>1. i \in Ids /\ users \in [Ids -> Docs]
    BY <1>1, Constant DEF SetAdminRole, TypeInv, Located, TypeOK
  <2>2. users' = [users EXCEPT ![i] = IF Registered(i) THEN [users[i] EXCEPT !.role = "Admin"]
                                                       ELSE users[i]]
    BY <1>1, <2>1 DEF SetAdminRole
  <2> HIDE DEF i
  <2>3. claimed \subseteq claimed'
    BY <1>1 DEF SetAdminRole
  <2>4. CASE Registered(i)
    <3>1. Promotes(i, "Admin")
      BY <2>1, <2>2, <2>4 DEF Promotes
    <3> QED
      BY <2>1, <2>3, <3>1 DEF Roles, UsersChange
  <2>5. CASE ~Registered(i)
    BY <2>1, <2>2, <2>3, <2>5 DEF UsersChange
  <2> QED
    BY <2>4, <2>5
<1>2. ASSUME NEW c \in Clients, UpdateUser(c)
      PROVE  UsersChange
  <2>1. PICK i \in 1..created, n \in UserNames, r \in Roles : Renames(i, n) \/ Promotes(i, r)
    BY <1>2 DEF UpdateUser, Renames, Promotes
  <2>2. i \in Ids /\ n \in Names /\ claimed \subseteq claimed'
    BY <1>0, <1>2, Constant DEF UpdateUser
  <2> QED
    BY <2>1, <2>2 DEF UsersChange
<1>3. ASSUME NEW c \in Clients, DeleteUser(c)
      PROVE  UsersChange
  BY <1>0, <1>3 DEF DeleteUser, Deletes, UsersChange
<1>4. ASSUME NEW s \in Slots, CreateUser(s)
      PROVE  UsersChange
  BY <1>4 DEF CreateUser, UsersChange
<1>5. CASE users' = users /\ claimed' = claimed
  BY <1>5 DEF UsersChange
<1>6. ASSUME NEW s \in Slots, CreateOnTangle(s) \/ SaveKeys(s) \/ Fail(s)
      PROVE  users' = users /\ claimed' = claimed
  BY <1>6 DEF CreateOnTangle, SaveKeys, Fail, store, history
<1>7. ASSUME NEW p \in Setups, keyGeneration(p)
      PROVE  users' = users /\ claimed' = claimed
  BY <1>7 DEF keyGeneration, FindRoot, CheckKeys, GetRootUser, ReadTrusted, AddTrustedRoot,
              store, history
<1>8. ASSUME NEW t \in Tools, StartTool(t) \/ IssueAdminCredential(t)
      PROVE  users' = users /\ claimed' = claimed
  BY <1>8 DEF StartTool, IssueAdminCredential, store, history
<1>9. ASSUME NEW c \in Clients,
             \/ StartCreate(c) \/ CheckName(c) \/ ChangeTrustedRoots(c)
             \/ authenticate(c) \/ ExpireToken(c)
      PROVE  users' = users /\ claimed' = claimed
  BY <1>9 DEF StartCreate, CheckName, ChangeTrustedRoots, authenticate, GetNonce, ReadUser,
              VerifyNonce, ExpireToken, store, history
<1>10. ASSUME StartServer \/ (\E process \in Processes : Crash(process)) \/ UNCHANGED vars
       PROVE  users' = users /\ claimed' = claimed
  BY <1>10 DEF StartServer, Crash, store, history, vars
<1>11. ASSUME NEW s \in Slots, createIdentity(s) \/ Fail(s)
       PROVE  UsersChange
  BY <1>4, <1>5, <1>6, <1>11 DEF createIdentity
<1>12. ASSUME NEW t \in Tools, setupAdminIdentity(t)
       PROVE  UsersChange
  BY <1>1, <1>5, <1>8, <1>12 DEF setupAdminIdentity
<1>13. ASSUME NEW c \in Clients, ClientStep(c)
       PROVE  UsersChange
  BY <1>2, <1>3, <1>5, <1>9, <1>13 DEF ClientStep
<1> QED
  BY <1>5, <1>7, <1>10, <1>11, <1>12, <1>13 DEF Next

(* What a creation does to users. *)
LEMMA UsersCreated ==
  ASSUME TypeInv, NEW s \in Slots, CreateUser(s)
  PROVE  /\ op[s].id \in Ids /\ op[s].name \in Names
         /\ \A j \in Ids : j # op[s].id => users'[j] = users[j]
         /\ \/ users' = users
            \/ /\ ~NameTaken(op[s].name) /\ Inserted(op[s].id)
               /\ users'[op[s].id].name = op[s].name
               /\ users'[op[s].id].role = "User"
               /\ users'[op[s].id].root => op[s].asRoot
<1> DEFINE i == op[s].id  n == op[s].name  isRoot == op[s].asRoot
<1>1. i \in Ids /\ n \in Names /\ users \in [Ids -> Docs]
  BY DEF CreateUser, TypeInv, Located, TypeOK, Ops
<1>2. isRoot \in BOOLEAN
  BY DEF TypeInv, TypeOK, Ops
<1>3. InsertUser(i, n, isRoot)
  BY Zenon DEF CreateUser
<1>4. isRoot => op[s].asRoot
  OBVIOUS
<1> HIDE DEF i, n, isRoot
<1>5. /\ users' \in [Ids -> Docs]
      /\ \A j \in Ids : j # i => users'[j] = users[j]
      /\ \/ users'[i] = users[i]
         \/ /\ ~NameTaken(n) /\ ~Registered(i)
            /\ users'[i] = [name |-> n, role |-> "User", root |-> isRoot]
  BY <1>1, <1>2, <1>3, Inserts
<1>6. CASE users'[i] = users[i]
  <2>1. users' = users
    BY <1>1, <1>5, <1>6
  <2> QED
    BY <1>1, <1>5, <2>1 DEF i, n
<1>7. CASE /\ ~NameTaken(n) /\ ~Registered(i)
           /\ users'[i] = [name |-> n, role |-> "User", root |-> isRoot]
  <2>1. users'[i].name = n /\ users'[i].role = "User" /\ users'[i].root = isRoot
    BY <1>7
  <2>2. users'[i].root => op[s].asRoot
    BY <1>4, <2>1
  <2>3. CASE users' = users
    BY <1>1, <1>5, <2>3 DEF i, n
  <2>4. CASE users' # users
    <3>1. Inserted(i)
      BY <1>1, <1>5, <1>7, <2>4 DEF Inserted, Registered
    <3> QED
      BY <1>1, <1>5, <1>7, <2>1, <2>2, <3>1 DEF i, n
  <2> QED
    BY <2>3, <2>4
<1> QED
  BY <1>5, <1>6, <1>7 DEF i, n

(* A setup creates the root identity under its name, the tool creates none. *)
LEMMA SetupNamesStep ==
  ASSUME TypeInv, SetupNames, [Next]_vars
  PROVE  SetupNames'
<1>0. op \in [Slots -> Ops]
  BY DEF TypeInv, TypeOK
<1> USE DEF SetupNames
<1>1. ASSUME NEW s \in Slots, createIdentity(s) \/ Fail(s)
      PROVE  SetupNames'
  <2>1. CASE CreateOnTangle(s)
    <3>1. CASE End(s)
      BY <1>0, <3>1, MovedEnd, Known, Constant
    <3>2. CASE op' = [op EXCEPT ![s].pc = "insert", ![s].id = created + 1]
      <4>1. created + 1 \in Ids
        BY <2>1, BoundsAssumption DEF CreateOnTangle, Ids, TypeInv, TypeOK
      <4> DEFINE i == created + 1
      <4>2. i \in Ids /\ op' = [op EXCEPT ![s].pc = "insert", ![s].id = i]
        BY <3>2, <4>1
      <4> HIDE DEF i
      <4> QED
        BY <1>0, <4>2, MovedInsert, Constant
    <3> QED
      BY <2>1, <3>1, <3>2 DEF CreateOnTangle
  <2>2. CASE CreateUser(s) \/ SaveKeys(s) \/ Fail(s)
    <3>1. End(s) \/ Goto(s, "save") \/ Goto(s, "credential") \/ Goto(s, "user")
      BY <2>2 DEF CreateUser, SaveKeys, Fail
    <3> QED
      BY <1>0, <3>1, MovedEnd, MovedGoto, Known, Constant DEF PCs
  <2> QED
    BY <1>1, <2>1, <2>2 DEF createIdentity
<1>2. ASSUME NEW p \in Setups, FindRoot(p)
      PROVE  SetupNames'
  <2>1. CASE Begin(p, "tangle", [Idle EXCEPT !.name = RootName, !.stored = TRUE, !.asRoot = TRUE])
    <3> DEFINE o == [Idle EXCEPT !.name = RootName, !.stored = TRUE, !.asRoot = TRUE]
    <3>1. o \in Ops /\ o.name = RootName /\ Begin(p, "tangle", o)
      BY <2>1 DEF Idle, Ops, PCs, Names, Roles
    <3> HIDE DEF o
    <3> QED
      BY <1>0, <3>1, MovedBegin, Constant DEF PCs
  <2>2. ASSUME NEW r \in Roots, Begin(p, "keys", [Idle EXCEPT !.id = r])
        PROVE  SetupNames'
    <3> DEFINE o == [Idle EXCEPT !.id = r]
    <3>1. o \in Ops /\ o.name = RootName /\ Begin(p, "keys", o)
      BY <2>2, RootsFinite DEF Idle, Ops, PCs, Names, Roles
    <3> HIDE DEF o
    <3> QED
      BY <1>0, <3>1, MovedBegin, Constant DEF PCs
  <2> QED
    BY <1>2, <2>1, <2>2 DEF FindRoot
<1>3. ASSUME NEW p \in Setups,
             CheckKeys(p) \/ GetRootUser(p) \/ ReadTrusted(p) \/ AddTrustedRoot(p)
      PROVE  SetupNames'
  <2>1. Goto(p, "user") \/ Goto(p, "trust") \/ Goto(p, "addTrust") \/ End(p) \/ Stop(p)
    BY <1>3 DEF CheckKeys, GetRootUser, ReadTrusted, AddTrustedRoot
  <2> QED
    BY <1>0, <2>1, MovedEnd, MovedStop, MovedGoto, Known, Constant DEF PCs
<1>4. ASSUME NEW c \in Clients, \A t \in Slots : t # c => op'[t] = op[t]
      PROVE  SetupNames'
  BY <1>4
<1>5. ASSUME NEW process \in Processes, Crash(process)
      PROVE  SetupNames'
  BY <1>0, <1>5, MovedCrash, Known, Constant
<1>6. CASE UNCHANGED op
  BY <1>6
<1>7. ASSUME NEW t \in Tools, setupAdminIdentity(t)
      PROVE  SetupNames'
  <2>1. CASE StartTool(t)
    <3> DEFINE r == RootIdentityId
               o == [Idle EXCEPT !.name = AdminName, !.root = r]
    <3>1. r \in Ids \cup {0}
      BY RootFound
    <3> HIDE DEF r
    <3>2. o \in Ops /\ o.asRoot = FALSE
      BY <3>1 DEF Idle, Ops, PCs, Names, Roles
    <3>3. Begin(t, "tangle", o)
      BY <2>1 DEF StartTool, r
    <3> HIDE DEF o
    <3> QED
      BY <1>0, <3>2, <3>3, MovedBegin, Constant DEF PCs
  <2>2. CASE IssueAdminCredential(t) \/ SetAdminRole(t)
    <3>1. Goto(t, "role") \/ End(t)
      BY <2>2 DEF IssueAdminCredential, SetAdminRole
    <3> QED
      BY <1>0, <3>1, MovedEnd, MovedGoto, Known, Constant DEF PCs
  <2> QED
    BY <1>7, <2>1, <2>2 DEF setupAdminIdentity
<1>8. ASSUME NEW c \in Clients, ClientStep(c)
      PROVE  \A u \in Slots : u # c => op'[u] = op[u]
  BY <1>0, <1>8, Constant DEF ClientStep, StartCreate, CheckName, UpdateUser, DeleteUser,
     ChangeTrustedRoots, authenticate, GetNonce, ReadUser, VerifyNonce, ExpireToken, Begin,
     Goto, End
<1> QED
  BY <1>1, <1>2, <1>3, <1>4, <1>5, <1>6, <1>7, <1>8
     DEF Next, keyGeneration, StartServer, vars

(* A name that is free is taken at most once: by a creation or a renaming. *)
LEMMA NamesStep ==
  ASSUME TypeInv, NameInv, [Next]_vars
  PROVE  NamesUnique' /\ RootNamed'
<1>0. users \in [Ids -> Docs]
  BY DEF TypeInv, TypeOK
<1> USE DEF NameInv, NamesUnique, RootNamed, Registered
<1>1. claimed \subseteq claimed'
  BY UsersStep DEF UsersChange
<1>2. CASE users' = users
  BY <1>2, <1>1
<1>3. ASSUME NEW s \in Slots, CreateUser(s)
      PROVE  NamesUnique' /\ RootNamed'
  <2>1. CASE users' = users
    BY <1>2, <2>1
  <2>2. CASE users' # users
    <3>1. PICK i \in Ids, n \in Names : i = op[s].id /\ n = op[s].name
      BY <1>3, UsersCreated
    <3>2. /\ \A j \in Ids : j # i => users'[j] = users[j]
          /\ ~NameTaken(n) /\ users'[i].name = n
      BY <1>3, <2>2, <3>1, UsersCreated
    <3>3. users'[i].root => i \in claimed' \/ n = RootName
      <4>1. users'[i].root => op[s].asRoot
        BY <1>3, <2>2, <3>1, UsersCreated
      <4>2. op[s].asRoot /\ s \in Clients => i \in claimed'
        BY <1>3, <2>2, <3>1, UsersCreated DEF CreateUser
      <4>3. op[s].asRoot /\ s \notin Clients => n = RootName
        BY <3>1 DEF SetupNames
      <4> QED
        BY <4>1, <4>2, <4>3
    <3> QED
      BY <1>1, <3>2, <3>3 DEF NameTaken
  <2> QED
    BY <2>1, <2>2
<1>4. ASSUME NEW i \in Ids, NEW n \in Names, Renames(i, n)
      PROVE  NamesUnique' /\ RootNamed'
  <2>1. /\ users'[i].name = n /\ users'[i].root = users[i].root
        /\ \A j \in Ids : j # i => users'[j] = users[j]
    BY <1>0, <1>4 DEF Renames, Docs
  <2> QED
    BY <1>4, <1>1, <2>1 DEF Renames, NameTaken
<1>5. ASSUME NEW i \in Ids, NEW r \in Roles, Promotes(i, r)
      PROVE  NamesUnique' /\ RootNamed'
  <2>1. /\ users'[i].name = users[i].name /\ users'[i].root = users[i].root
        /\ \A j \in Ids : j # i => users'[j] = users[j]
    BY <1>0, <1>5 DEF Promotes, Docs
  <2> QED
    BY <1>5, <1>1, <2>1 DEF Promotes
<1>6. ASSUME NEW i \in Ids, Deletes(i)
      PROVE  NamesUnique' /\ RootNamed'
  <2>1. users'[i] = Missing /\ \A j \in Ids : j # i => users'[j] = users[j]
    BY <1>0, <1>6 DEF Deletes
  <2> QED
    BY <1>1, <2>1
<1> QED
  BY <1>2, <1>3, <1>4, <1>5, <1>6, UsersStep DEF UsersChange

(* Names are unique, and that of the root a setup has registered is its own until a
   client claims it. *)
THEOREM NamesKept == Spec => []NameInv
<1>1. Init => NameInv
  <2> SUFFICES ASSUME Init PROVE NameInv
    OBVIOUS
  <2>1. \A i \in Ids : ~Registered(i)
    BY DEF Init, Empty, Registered
  <2>2. SetupNames
    BY Known, Constant DEF Init, Empty, SetupNames
  <2> QED
    BY <2>1, <2>2 DEF NameInv, NamesUnique, RootNamed
<1>2. TypeInv /\ NameInv /\ [Next]_vars => NameInv'
  BY SetupNamesStep, NamesStep DEF NameInv
<1> QED
  BY <1>1, <1>2, TypesKept, PTL DEF Spec

(* Setups that run side by side register one root identity, whatever fails or is removed
   (KeyGenerator.keyGeneration, the index on username): another one is registered, or
   its name taken away, by a client. *)
THEOREM OneRootKept == Spec => []OneRoot
<1>1. NameInv => OneRoot
  <2> SUFFICES ASSUME NameInv PROVE OneRoot
    OBVIOUS
  <2> DEFINE R == Roots \ claimed
  <2>1. \A i, j \in R : i = j
    BY DEF NameInv, NamesUnique, RootNamed, Roots
  <2>2. CASE R = {}
    BY <2>2, FS_EmptySet DEF OneRoot
  <2>3. CASE R # {}
    <3>1. PICK r \in R : R = {r}
      BY <2>1, <2>3
    <3>2. Cardinality({r}) = 1
      BY FS_Singleton
    <3> QED
      BY <3>1, <3>2 DEF OneRoot
  <2> QED
    BY <2>2, <2>3
<1> QED
  BY <1>1, NamesKept, PTL

------------------------------------------------------------------------------
(* Keys and setups *)

SaveOwned == \A s \in Slots : op[s].pc = "save" => op[s].id \in owners
SetupKeys ==
  \A p \in Setups : op[p].pc \in {"user", "trust", "addTrust"} => op[p].id \in keys

OwnInv == KeysHaveOwner /\ SaveOwned /\ SetupComplete /\ SetupKeys

(* A slot moves to where it has something in hand only by the step that puts it
   there; what others have stays good. *)
LEMMA OwnStep ==
  ASSUME TypeInv, OwnInv, [Next]_vars
  PROVE  OwnInv'
<1>0. op \in [Slots -> Ops] /\ created \in 0..MaxIds
  BY DEF TypeInv, TypeOK
<1> USE DEF OwnInv, KeysHaveOwner, SaveOwned, SetupComplete, SetupKeys
<1>1. ASSUME NEW s \in Slots, CreateOnTangle(s)
      PROVE  OwnInv'
  <2>1. CASE End(s)
    BY <1>0, <1>1, <2>1, MovedEnd, Known, Constant DEF CreateOnTangle, store, history
  <2>2. CASE op' = [op EXCEPT ![s].pc = "insert", ![s].id = created + 1]
    <3> DEFINE i == created + 1
    <3>1. i \in Ids /\ op' = [op EXCEPT ![s].pc = "insert", ![s].id = i]
      BY <1>0, <1>1, <2>2, BoundsAssumption DEF CreateOnTangle, Ids
    <3> HIDE DEF i
    <3>2. op'[s].pc = "insert" /\ \A t \in Slots : t # s => op'[t] = op[t]
      BY <1>0, <3>1, MovedInsert
    <3> QED
      BY <1>1, <3>2, Constant DEF CreateOnTangle, store, history
  <2> QED
    BY <1>1, <2>1, <2>2 DEF CreateOnTangle
<1>2. ASSUME NEW s \in Slots, CreateUser(s)
      PROVE  OwnInv'
  <2>1. CASE End(s)
    BY <1>0, <1>2, <2>1, MovedEnd, Known, Constant DEF CreateUser
  <2>2. CASE Goto(s, "credential")
    BY <1>0, <1>2, <2>2, MovedGoto, Constant DEF CreateUser, PCs
  <2>3. CASE Goto(s, "save") /\ ~End(s)
    <3>1. owners' = owners \cup {op[s].id}
      BY <1>2, <2>3 DEF CreateUser
    <3>2. /\ op'[s].pc = "save" /\ op'[s].id = op[s].id
          /\ \A t \in Slots : t # s => op'[t] = op[t]
      BY <1>0, <2>3, MovedGoto DEF PCs
    <3> QED
      BY <1>2, <3>1, <3>2, Constant DEF CreateUser
  <2> QED
    BY <1>2, <2>1, <2>2, <2>3 DEF CreateUser
<1>3. ASSUME NEW s \in Slots, SaveKeys(s)
      PROVE  OwnInv'
  <2>1. CASE s \in Setups /\ Goto(s, "user")
    BY <1>0, <1>3, <2>1, MovedGoto, Constant DEF SaveKeys, PCs, history
  <2>2. CASE End(s)
    BY <1>0, <1>3, <2>2, MovedEnd, Known, Constant DEF SaveKeys, history
  <2> QED
    BY <1>3, <2>1, <2>2 DEF SaveKeys
<1>4. ASSUME NEW s \in Slots, Fail(s)
      PROVE  OwnInv'
  BY <1>0, <1>4, MovedEnd, Known, Constant DEF Fail, store, history
<1>5. ASSUME NEW p \in Setups, FindRoot(p)
      PROVE  OwnInv'
  <2>1. ASSUME NEW label \in {"tangle", "keys"}, NEW o \in Ops, Begin(p, label, o)
        PROVE  OwnInv'
    BY <1>0, <1>5, <2>1, MovedBegin, Constant DEF FindRoot, PCs, store, history
  <2>2. /\ [Idle EXCEPT !.name = RootName, !.stored = TRUE, !.asRoot = TRUE] \in Ops
        /\ \A r \in Roots : [Idle EXCEPT !.id = r] \in Ops
    BY RootsFinite DEF Idle, Ops, PCs, Names, Roles
  <2> QED
    BY <1>5, <2>1, <2>2 DEF FindRoot
<1>6. ASSUME NEW p \in Setups, CheckKeys(p)
      PROVE  OwnInv'
  <2>1. CASE op[p].id \in keys /\ Goto(p, "user")
    BY <1>0, <1>6, <2>1, MovedGoto, Constant DEF CheckKeys, PCs, store, history
  <2>2. CASE Stop(p)
    BY <1>0, <1>6, <2>2, MovedStop, Constant DEF CheckKeys, store, history
  <2> QED
    BY <1>6, <2>1, <2>2 DEF CheckKeys
<1>7. ASSUME NEW p \in Setups, GetRootUser(p)
      PROVE  OwnInv'
  <2>1. CASE Goto(p, "trust")
    BY <1>0, <1>7, <2>1, MovedGoto, Constant DEF GetRootUser, PCs, store, history
  <2>2. CASE End(p)
    BY <1>0, <1>7, <2>2, MovedEnd, Known, Constant DEF GetRootUser, store, history
  <2> QED
    BY <1>7, <2>1, <2>2 DEF GetRootUser
<1>8. ASSUME NEW p \in Setups, ReadTrusted(p)
      PROVE  OwnInv'
  <2>1. CASE op[p].id \in trusted /\ Stop(p) /\ done' = done \cup {op[p].id}
    BY <1>0, <1>8, <2>1, MovedStop, Constant DEF ReadTrusted, store
  <2>2. CASE Goto(p, "addTrust") /\ UNCHANGED done
    BY <1>0, <1>8, <2>2, MovedGoto, Constant DEF ReadTrusted, PCs, store
  <2> QED
    BY <1>8, <2>1, <2>2 DEF ReadTrusted
<1>9. ASSUME NEW p \in Setups, AddTrustedRoot(p)
      PROVE  OwnInv'
  <2>1. CASE Stop(p) /\ done' = done \cup {op[p].id}
    BY <1>0, <1>9, <2>1, MovedStop, Constant DEF AddTrustedRoot
  <2>2. CASE End(p) /\ UNCHANGED done
    BY <1>0, <1>9, <2>2, MovedEnd, Known, Constant DEF AddTrustedRoot
  <2> QED
    BY <1>9, <2>1, <2>2 DEF AddTrustedRoot
<1>10. ASSUME NEW s \in Clients \cup Tools, NEW label \in PCs \ {"save"},
              op'[s].pc = label,
              \A t \in Slots : t # s => op'[t] = op[t],
              keys' = keys, owners' = owners, done' = done,
              trusted \subseteq trusted' \cup untrusted', untrusted \subseteq untrusted'
       PROVE  OwnInv'
  <2>1. \A p \in Setups : op'[p] = op[p]
    BY <1>10, Constant, SlotsAssumption
  <2> QED
    BY <1>10, <2>1, Constant
<1>11. CASE UNCHANGED <<op, keys, owners, done, trusted, untrusted>>
  BY <1>11
<1>12. ASSUME NEW process \in Processes, Crash(process)
       PROVE  OwnInv'
  <2>1. \A t \in Slots : op'[t] = Idle \/ op'[t] = op[t]
    BY <1>0, <1>12, MovedCrash
  <2> QED
    BY <1>12, <2>1, Known, Constant DEF Crash, store, history
<1>13. ASSUME NEW t \in Tools, setupAdminIdentity(t)
       PROVE  OwnInv'
  <2>1. CASE StartTool(t)
    <3> DEFINE r == RootIdentityId
               o == [Idle EXCEPT !.name = AdminName, !.root = r]
    <3>1. r \in Ids \cup {0}
      BY RootFound
    <3> HIDE DEF r
    <3>2. o \in Ops
      BY <3>1 DEF Idle, Ops, PCs, Names, Roles
    <3>3. Begin(t, "tangle", o)
      BY <2>1 DEF StartTool, r
    <3> HIDE DEF o
    <3>4. op'[t].pc = "tangle" /\ \A u \in Slots : u # t => op'[u] = op[u]
      BY <1>0, <3>2, <3>3, MovedBegin, Constant DEF PCs
    <3> QED
      BY <1>10, <2>1, <3>4 DEF StartTool, store, history, PCs
  <2>2. CASE Goto(t, "role") /\ UNCHANGED <<store, history>>
    <3>1. op'[t].pc = "role" /\ \A u \in Slots : u # t => op'[u] = op[u]
      BY <1>0, <2>2, MovedGoto, Constant DEF PCs
    <3> QED
      BY <1>10, <2>2, <3>1 DEF store, history, PCs
  <2>3. CASE End(t) /\ UNCHANGED <<keys, trusted, owners, done, untrusted>>
    <3>1. op'[t].pc = "idle" /\ \A u \in Slots : u # t => op'[u] = op[u]
      BY <1>0, <2>3, MovedEnd, Known, Constant
    <3> QED
      BY <1>10, <2>3, <3>1 DEF PCs
  <2> QED
    BY <1>13, <2>1, <2>2, <2>3
       DEF setupAdminIdentity, IssueAdminCredential, SetAdminRole, store, history
<1>14. ASSUME NEW c \in Clients, StartCreate(c) \/ CheckName(c) \/ authenticate(c)
       PROVE  OwnInv'
  <2>1. /\ op'[c].pc \in {"check", "tangle", "insert", "idle", "sign", "verify"}
        /\ \A t \in Slots : t # c => op'[t] = op[t]
    <3>1. CASE StartCreate(c)
      BY <1>0, <3>1, Constant DEF StartCreate, Begin, Ops, Idle
    <3>2. CASE CheckName(c)
      BY <1>0, <3>2, Known, Constant DEF CheckName, Goto, End, Ops
    <3>3. CASE GetNonce(c)
      BY <1>0, <3>3, Constant DEF GetNonce, Begin, Ops, Idle
    <3>4. CASE ReadUser(c)
      BY <1>0, <3>4, Constant DEF ReadUser, Ops
    <3>5. CASE VerifyNonce(c)
      BY <1>0, <3>5, MovedEnd, Known, Constant DEF VerifyNonce
    <3> QED
      BY <1>14, <3>1, <3>2, <3>3, <3>4, <3>5 DEF authenticate
  <2>2. UNCHANGED <<keys, owners, done, trusted, untrusted>>
    BY <1>14 DEF StartCreate, CheckName, authenticate, GetNonce, ReadUser, VerifyNonce,
       store, history
  <2> QED
    BY <1>10, <2>1, <2>2 DEF PCs
<1>15. ASSUME NEW c \in Clients, ChangeTrustedRoots(c)
       PROVE  OwnInv'
  BY <1>15 DEF ChangeTrustedRoots
<1>16. ASSUME NEW c \in Clients, UpdateUser(c) \/ DeleteUser(c) \/ ExpireToken(c)
       PROVE  OwnInv'
  BY <1>11, <1>16 DEF UpdateUser, DeleteUser, ExpireToken, store, history
<1>17. ASSUME StartServer \/ UNCHANGED vars
       PROVE  OwnInv'
  BY <1>11, <1>17 DEF StartServer, vars, store, history
<1> QED
  BY <1>1, <1>2, <1>3, <1>4, <1>5, <1>6, <1>7, <1>8, <1>9, <1>12, <1>13, <1>14, <1>15,
     <1>16, <1>17 DEF Next, createIdentity, keyGeneration, ClientStep

LEMMA OwnKept == Spec => []OwnInv
<1>1. Init => OwnInv
  BY Known, Constant DEF Init, Empty, OwnInv, KeysHaveOwner, SaveOwned, SetupComplete, SetupKeys
<1> QED
  BY <1>1, OwnStep, TypesKept, PTL DEF Spec

(* Stored private keys belong to identities that were registered
   (UserService.createIdentity saves them last). *)
THEOREM KeysOwned == Spec => []KeysHaveOwner
<1>1. OwnInv => KeysHaveOwner
  BY DEF OwnInv
<1> QED
  BY <1>1, OwnKept, PTL

(* A setup that ran to its end leaves a root identity with keys that is trusted
   (KeyGenerator.keyGeneration). *)
THEOREM SetupsComplete == Spec => []SetupComplete
<1>1. OwnInv => SetupComplete
  BY DEF OwnInv
<1> QED
  BY <1>1, OwnKept, PTL

------------------------------------------------------------------------------
(* Roles of tokens *)

(* While a client logs in, held has the role its user has, and from its reading
   on the one that was read. *)
RolesKnown ==
  \A c \in Clients :
    /\ op[c].pc \in {"sign", "verify"} => users[op[c].id].role \in held[c]
    /\ op[c].pc = "verify" => op[c].role \in held[c]

(* A role that changes is remembered for whoever is logging in. *)
LEMMA Remembered ==
  ASSUME TypeInv, RolesKnown, NEW i \in Ids, NEW role \in Roles, Remember(i, role),
         users' \in [Ids -> Docs],
         \A j \in Ids : j # i => users'[j] = users[j],
         users'[i].role = role,
         \A c \in Clients : op[c].pc \in {"sign", "verify"} => op'[c] = op[c],
         \A c \in Clients : op'[c].pc \in {"sign", "verify"} => op'[c] = op[c]
  PROVE  RolesKnown'
<1> SUFFICES ASSUME NEW c \in Clients, op'[c].pc \in {"sign", "verify"}
             PROVE  /\ users'[op'[c].id].role \in held'[c]
                    /\ op'[c].pc = "verify" => op'[c].role \in held'[c]
  BY DEF RolesKnown
<1>1. op'[c] = op[c] /\ op[c].id \in Ids
  BY Constant DEF TypeInv, Located
<1>2. held'[c] = IF op[c].id = i THEN held[c] \cup {role} ELSE held[c]
  BY <1>1 DEF Remember
<1> QED
  BY <1>1, <1>2 DEF RolesKnown

(* A step that changes no role and moves nobody into a login keeps what is known. *)
LEMMA RolesLeft ==
  ASSUME TypeInv, RolesKnown, held' = held,
         \A j \in Ids : users'[j].role = users[j].role,
         \A c \in Clients : op'[c].pc \in {"sign", "verify"} => op'[c] = op[c]
  PROVE  RolesKnown'
<1> SUFFICES ASSUME NEW c \in Clients, op'[c].pc \in {"sign", "verify"}
             PROVE  /\ users'[op'[c].id].role \in held'[c]
                    /\ op'[c].pc = "verify" => op'[c].role \in held'[c]
  BY DEF RolesKnown
<1>1. op'[c] = op[c] /\ op[c].id \in Ids
  BY Constant DEF TypeInv, Located
<1> QED
  BY <1>1 DEF RolesKnown

(* A slot that moves to an await outside of a login leaves the others' alone. *)
NoLogin(s) ==
  /\ op'[s].pc \notin {"sign", "verify"}
  /\ \A t \in Slots : t # s => op'[t] = op[t]

LEMMA NoLogins ==
  ASSUME TypeInv, [Next]_vars, NEW s \in Slots,
         \/ createIdentity(s) \/ Fail(s)
         \/ s \in Setups /\ keyGeneration(s)
         \/ s \in Tools /\ setupAdminIdentity(s)
         \/ s \in Clients /\ (StartCreate(s) \/ CheckName(s) \/ VerifyNonce(s))
  PROVE  NoLogin(s)
<1>0. op \in [Slots -> Ops]
  BY DEF TypeInv, TypeOK
<1>1. CASE CreateOnTangle(s)
  BY <1>0, <1>1, MovedEnd, Known DEF CreateOnTangle, NoLogin, Ops
<1>2. CASE CreateUser(s) \/ SaveKeys(s) \/ Fail(s)
  <2>1. End(s) \/ Goto(s, "save") \/ Goto(s, "credential") \/ Goto(s, "user")
    BY <1>2 DEF CreateUser, SaveKeys, Fail
  <2> QED
    BY <1>0, <2>1, MovedEnd, MovedGoto, Known DEF PCs, NoLogin
<1>3. CASE s \in Setups /\ keyGeneration(s)
  <2>1. CASE FindRoot(s)
    BY <1>0, <2>1 DEF FindRoot, Begin, NoLogin, Idle, Ops
  <2>2. CASE CheckKeys(s) \/ GetRootUser(s) \/ ReadTrusted(s) \/ AddTrustedRoot(s)
    <3>1. Goto(s, "user") \/ Goto(s, "trust") \/ Goto(s, "addTrust") \/ End(s) \/ Stop(s)
      BY <2>2 DEF CheckKeys, GetRootUser, ReadTrusted, AddTrustedRoot
    <3> QED
      BY <1>0, <3>1, MovedEnd, MovedStop, MovedGoto, Known DEF PCs, NoLogin
  <2> QED
    BY <1>3, <2>1, <2>2 DEF keyGeneration
<1>4. CASE s \in Tools /\ setupAdminIdentity(s)
  <2>1. CASE StartTool(s)
    BY <1>0, <2>1 DEF StartTool, Begin, NoLogin, Idle, Ops
  <2>2. CASE IssueAdminCredential(s) \/ SetAdminRole(s)
    <3>1. Goto(s, "role") \/ End(s)
      BY <2>2 DEF IssueAdminCredential, SetAdminRole
    <3> QED
      BY <1>0, <3>1, MovedEnd, MovedGoto, Known DEF PCs, NoLogin
  <2> QED
    BY <1>4, <2>1, <2>2 DEF setupAdminIdentity
<1>5. CASE StartCreate(s)
  <2>0. 1..created \subseteq Ids /\ UserNames \subseteq Names /\ Idle \in Ops
    BY BoundsAssumption DEF TypeInv, TypeOK, Ids, Idle, Ops, PCs, Names, Roles
  <2>1. CASE \E n \in UserNames, stored, asRoot \in BOOLEAN :
               Begin(s, "check", [Idle EXCEPT !.name = n, !.stored = stored, !.asRoot = asRoot])
    <3>1. PICK n \in UserNames, stored, asRoot \in BOOLEAN :
            Begin(s, "check", [Idle EXCEPT !.name = n, !.stored = stored, !.asRoot = asRoot])
      BY <2>1
    <3>2. [Idle EXCEPT !.name = n, !.stored = stored, !.asRoot = asRoot] \in Ops
      BY <2>0, <3>1 DEF Ops
    <3> QED
      BY <1>0, <3>1, <3>2, MovedBegin DEF PCs, NoLogin
  <2>2. CASE \E n \in UserNames, asRoot \in BOOLEAN, i \in 1..created :
               Begin(s, "check", [Idle EXCEPT !.name = n, !.id = i, !.asRoot = asRoot])
    <3>1. PICK n \in UserNames, asRoot \in BOOLEAN, i \in 1..created :
            Begin(s, "check", [Idle EXCEPT !.name = n, !.id = i, !.asRoot = asRoot])
      BY <2>2
    <3>2. [Idle EXCEPT !.name = n, !.id = i, !.asRoot = asRoot] \in Ops
      BY <2>0, <3>1 DEF Ops
    <3> QED
      BY <1>0, <3>1, <3>2, MovedBegin DEF PCs, NoLogin
  <2> QED
    BY <1>5, <2>1, <2>2 DEF StartCreate
<1>6. CASE CheckName(s) \/ VerifyNonce(s)
  <2>1. Goto(s, "tangle") \/ Goto(s, "insert") \/ End(s)
    BY <1>6 DEF CheckName, VerifyNonce
  <2> QED
    BY <1>0, <2>1, MovedEnd, MovedGoto, Known DEF PCs, NoLogin
<1> QED
  BY <1>1, <1>2, <1>3, <1>4, <1>5, <1>6 DEF createIdentity

LEMMA RolesStep ==
  ASSUME TypeInv, RolesKnown, [Next]_vars
  PROVE  RolesKnown'
<1>0. /\ op \in [Slots -> Ops] /\ users \in [Ids -> Docs] /\ users' \in [Ids -> Docs]
      /\ held \in [Clients -> SUBSET Roles]
  BY TypeStep DEF TypeInv, TypeOK
<1>1. ASSUME NEW s \in Slots, NoLogin(s), held' = held,
             \A j \in Ids : users'[j].role = users[j].role
      PROVE  RolesKnown'
  BY <1>1, RolesLeft, Constant DEF NoLogin
<1>2. ASSUME NEW s \in Slots, CreateUser(s)
      PROVE  RolesKnown'
  <2>1. NoLogin(s)
    BY <1>2, NoLogins DEF createIdentity
  <2>2. CASE users' = users /\ held' = held
    BY <1>1, <2>1, <2>2
  <2>3. CASE users' # users \/ held' # held
    <3>1. /\ op[s].id \in Ids
          /\ \A j \in Ids : j # op[s].id => users'[j] = users[j]
          /\ users' = users \/ users'[op[s].id].role = "User"
      BY <1>2, UsersCreated
    <3>2. Inserted(op[s].id)
      <4> SUFFICES ASSUME ~Inserted(op[s].id)
                   PROVE  FALSE
        OBVIOUS
      <4>1. users'[op[s].id] = users[op[s].id]
        <5>1. CASE Registered(op[s].id)
          BY <1>0, <1>2, <3>1, <5>1 DEF CreateUser, InsertUser
        <5>2. CASE ~Registered(op[s].id)
          BY <5>2 DEF Inserted, Registered
        <5> QED
          BY <5>1, <5>2
      <4>2. users' = users
        BY <1>0, <3>1, <4>1
      <4>3. held' = held
        BY <1>2 DEF CreateUser
      <4> QED
        BY <2>3, <4>2, <4>3
    <3>3. Remember(op[s].id, "User") /\ users' # users
      BY <1>2, <3>2 DEF CreateUser, Inserted, Registered
    <3>4. op[s].pc = "insert"
      BY <1>2 DEF CreateUser
    <3> QED
      BY <1>0, <2>1, <3>1, <3>3, <3>4, Remembered, Constant DEF NoLogin, Roles
  <2> QED
    BY <2>2, <2>3
<1>3. ASSUME NEW s \in Slots, CreateOnTangle(s) \/ SaveKeys(s) \/ Fail(s)
      PROVE  RolesKnown'
  <2>1. NoLogin(s)
    BY <1>3, NoLogins DEF createIdentity
  <2> QED
    BY <1>1, <1>3, <2>1 DEF CreateOnTangle, SaveKeys, Fail, store, history
<1>4. ASSUME NEW p \in Setups, keyGeneration(p)
      PROVE  RolesKnown'
  <2>1. NoLogin(p)
    BY <1>4, NoLogins, Constant
  <2> QED
    BY <1>1, <1>4, <2>1, Constant DEF keyGeneration, FindRoot, CheckKeys, GetRootUser,
       ReadTrusted, AddTrustedRoot, store, history
<1>5. ASSUME NEW t \in Tools, setupAdminIdentity(t)
      PROVE  RolesKnown'
  <2>1. NoLogin(t)
    BY <1>5, NoLogins, Constant
  <2>2. CASE users' = users /\ held' = held
    BY <1>1, <2>1, <2>2, Constant
  <2>3. CASE SetAdminRole(t) /\ ~(users' = users /\ held' = held)
    <3> DEFINE i == op[t].id
    <3>1. op[t].pc = "role" /\ i \in Ids /\ Registered(i)
      BY <1>0, <2>3, Constant DEF SetAdminRole, TypeInv, Located
    <3>2. /\ users' = [users EXCEPT ![i] = [users[i] EXCEPT !.role = "Admin"]]
          /\ Remember(i, "Admin")
      BY <1>0, <2>3, <3>1 DEF SetAdminRole
    <3> HIDE DEF i
    <3>3. users'[i].role = "Admin" /\ \A j \in Ids : j # i => users'[j] = users[j]
      BY <1>0, <3>1, <3>2 DEF Docs
    <3> QED
      BY <1>0, <2>1, <3>1, <3>2, <3>3, Remembered, Constant DEF NoLogin, Roles
  <2> QED
    BY <1>5, <2>2, <2>3 DEF setupAdminIdentity, StartTool, IssueAdminCredential, store, history
<1>6. ASSUME NEW c \in Clients, StartCreate(c) \/ CheckName(c) \/ VerifyNonce(c)
      PROVE  RolesKnown'
  <2>1. NoLogin(c)
    BY <1>6, NoLogins, Constant
  <2> QED
    BY <1>1, <1>6, <2>1, Constant DEF StartCreate, CheckName, VerifyNonce, store, history
<1>7. ASSUME NEW c \in Clients, UpdateUser(c) \/ DeleteUser(c)
      PROVE  RolesKnown'
  <2>1. op' = op /\ 1..created \subseteq Ids
    BY <1>7, BoundsAssumption DEF UpdateUser, DeleteUser, TypeInv, TypeOK, Ids
  <2>2. ASSUME NEW i \in Ids, NEW n, users' = [users EXCEPT ![i].name = n], held' = held
        PROVE  RolesKnown'
    BY <1>0, <2>1, <2>2, RolesLeft DEF Docs
  <2>3. ASSUME NEW i \in Ids, NEW r \in Roles, Remember(i, r),
               users' = [users EXCEPT ![i].role = r] \/ (users' = [users EXCEPT ![i] = Missing]
                                                         /\ r = "User")
        PROVE  RolesKnown'
    <3>1. users'[i].role = r /\ \A j \in Ids : j # i => users'[j] = users[j]
      BY <1>0, <2>3 DEF Docs, Missing
    <3> QED
      BY <1>0, <2>1, <2>3, <3>1, Remembered
  <2> QED
    BY <1>7, <2>1, <2>2, <2>3 DEF UpdateUser, DeleteUser, Roles
<1>8. ASSUME NEW c \in Clients, GetNonce(c)
      PROVE  RolesKnown'
  <2>1. PICK i \in 1..created : /\ Begin(c, "sign", [Idle EXCEPT !.id = i])
                                /\ held' = [held EXCEPT ![c] = {users[i].role}]
    BY <1>8 DEF GetNonce
  <2>2. /\ op'[c].pc = "sign" /\ op'[c].id = i
        /\ \A t \in Slots : t # c => op'[t] = op[t]
    BY <1>0, <2>1, Constant DEF Begin, Idle, Ops
  <2>3. users' = users
    BY <1>8 DEF GetNonce
  <2> QED
    BY <1>0, <2>1, <2>2, <2>3, Constant DEF RolesKnown
<1>9. ASSUME NEW c \in Clients, ReadUser(c)
      PROVE  RolesKnown'
  <2>1. /\ op[c].pc = "sign" /\ op'[c].pc = "verify" /\ op'[c].id = op[c].id
        /\ op'[c].role = users[op[c].id].role
        /\ \A t \in Slots : t # c => op'[t] = op[t]
    BY <1>0, <1>9, Constant DEF ReadUser, Ops
  <2>2. users' = users /\ held' = held
    BY <1>9 DEF ReadUser, store, history
  <2> QED
    BY <2>1, <2>2, Constant DEF RolesKnown
<1>10. ASSUME NEW process \in Processes, Crash(process)
       PROVE  RolesKnown'
  <2>1. \A t \in Slots : op'[t] = Idle \/ op'[t] = op[t]
    BY <1>0, <1>10, MovedCrash
  <2> QED
    BY <1>10, <2>1, Known, Constant, RolesLeft DEF Crash, store, history
<1>11. ASSUME \/ StartServer \/ UNCHANGED vars
              \/ \E c \in Clients : ChangeTrustedRoots(c) \/ ExpireToken(c)
       PROVE  RolesKnown'
  BY <1>11, RolesLeft DEF StartServer, ChangeTrustedRoots, ExpireToken, vars, store, history
<1> QED
  BY <1>2, <1>3, <1>4, <1>5, <1>6, <1>7, <1>8, <1>9, <1>10, <1>11
     DEF Next, createIdentity, ClientStep, authenticate

(* A token is only made by the step that checks the nonce. *)
LEMMA LoginStep ==
  ASSUME TypeInv, [Next]_vars, NEW c \in Clients, LoggedIn(c)
  PROVE  VerifyNonce(c)
<1>0. op \in [Slots -> Ops] /\ c \in Slots /\ faults \in Nat /\ op'[c] # op[c]
  BY Known, Constant DEF LoggedIn, TypeInv, TypeOK
<1>1. op[c].pc = "verify"
  BY DEF LoggedIn
<1>2. ASSUME NEW s \in Slots, createIdentity(s)
      PROVE  FALSE
  <2>1. NoLogin(s) /\ op[s].pc # "verify"
    BY <1>2, NoLogins DEF createIdentity, CreateOnTangle, CreateUser, SaveKeys
  <2> QED
    BY <1>0, <1>1, <2>1 DEF NoLogin
<1>3. ASSUME (\E s \in Slots : Fail(s)) \/ (\E process \in Processes : Crash(process))
      PROVE  FALSE
  <2>1. faults' = faults + 1
    BY <1>3 DEF Fail, Crash, Fault
  <2> QED
    BY <1>0, <2>1 DEF LoggedIn
<1>4. ASSUME NEW s \in Setups \cup Tools, keyGeneration(s) \/ setupAdminIdentity(s),
             s \in Setups => keyGeneration(s), s \in Tools => setupAdminIdentity(s)
      PROVE  FALSE
  <2>1. NoLogin(s) /\ s # c
    BY <1>4, NoLogins, SlotsAssumption, Constant
  <2> QED
    BY <1>0, <2>1 DEF NoLogin
<1>5. ASSUME NEW d \in Clients, ClientStep(d), ~VerifyNonce(c)
      PROVE  FALSE
  <2>1. CASE StartCreate(d) \/ CheckName(d) \/ VerifyNonce(d)
    <3>1. NoLogin(d)
      BY <2>1, NoLogins, Constant
    <3>2. d = c
      BY <1>0, <3>1 DEF NoLogin
    <3> QED
      BY <1>1, <1>5, <2>1, <3>2, Known DEF StartCreate, Asks, CheckName
  <2>2. CASE UpdateUser(d) \/ DeleteUser(d) \/ ChangeTrustedRoots(d) \/ ExpireToken(d)
    BY <1>0, <2>2 DEF UpdateUser, DeleteUser, ChangeTrustedRoots, ExpireToken
  <2>3. CASE GetNonce(d) \/ ReadUser(d)
    <3>1. op[d].pc # "verify" /\ \A t \in Slots : t # d => op'[t] = op[t]
      BY <1>0, <2>3, Known, Constant DEF GetNonce, ReadUser, Asks, Begin
    <3> QED
      BY <1>0, <1>1, <3>1
  <2> QED
    BY <1>5, <2>1, <2>2, <2>3 DEF ClientStep, authenticate
<1>6. ASSUME StartServer \/ UNCHANGED vars
      PROVE  FALSE
  BY <1>0, <1>6 DEF StartServer, vars
<1> QED
  BY <1>2, <1>3, <1>4, <1>5, <1>6, SlotsAssumption DEF Next

(* A token carries a role its user had while she was logging in
   (AuthenticationService.authenticate reads the user before it verifies). *)
THEOREM TokenRoles == Spec => TokenRoleHeld
<1>1. Init => RolesKnown
  BY Known, Constant DEF Init, Empty, RolesKnown
<1>2. Spec => []RolesKnown
  BY <1>1, RolesStep, TypesKept, PTL DEF Spec
<1>3. ASSUME TypeInv, RolesKnown, [Next]_vars, NEW c \in Clients, LoggedIn(c)
      PROVE  jwt'[c].role \in held[c]
  <2>1. VerifyNonce(c)
    BY <1>3, LoginStep
  <2>2. jwt'[c] = [id |-> op[c].id, role |-> op[c].role]
    BY <1>3, <2>1 DEF VerifyNonce, LoggedIn, TypeInv, TypeOK
  <2>3. jwt'[c].role = op[c].role
    BY <2>2
  <2> QED
    BY <1>3, <2>3 DEF RolesKnown, LoggedIn
<1>4. TypeInv /\ RolesKnown /\ [Next]_vars
        => [\A c \in Clients : LoggedIn(c) => jwt'[c].role \in held[c]]_vars
  BY <1>3
<1> QED
  BY <1>2, <1>4, TypesKept, PTL DEF Spec, TokenRoleHeld

==============================================================================

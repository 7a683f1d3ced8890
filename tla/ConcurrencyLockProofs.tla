------------------------ MODULE ConcurrencyLockProofs ------------------------
(***************************************************************************)
(* What ConcurrencyLock guarantees for every set of requests and every     *)
(* selection of faults.  The inductive invariant LockInv says that, as     *)
(* long as no document was stolen, the document is the one of whoever is   *)
(* being served under the lock; two holders would both own it.             *)
(***************************************************************************)
EXTENDS ConcurrencyLock, TLAPS

LockInv ==
  /\ TypeOK
  /\ OutcomeOK
  /\ HolderOwnsLock
  /\ GrantedNeverStealsFirst

LEMMA InitLockInv == Init => LockInv
  BY NoRequestAssumption DEF Init, LockInv, TypeOK, OutcomeOK, HolderOwnsLock,
     GrantedNeverStealsFirst, Holding, InFlight, PCs, Outcomes, Causes

(* Every step keeps the types.  A removal records the outcome of whoever
   removes, which OutcomeOK says is not "none" by then. *)
LEMMA TypeStep == TypeOK /\ OutcomeOK /\ [Next]_vars => TypeOK'
<1> SUFFICES ASSUME TypeOK, OutcomeOK, [Next]_vars
             PROVE  TypeOK'
  OBVIOUS
<1> USE DEF TypeOK, PCs, Outcomes, Causes
<1>1. ASSUME NEW r \in Requests, Receive(r)
      PROVE  TypeOK'
  BY <1>1 DEF Receive, Goto
<1>2. ASSUME NEW r \in Requests, GetLock(r)
      PROVE  TypeOK'
  BY <1>2 DEF GetLock, Goto, Answer
<1>3. ASSUME NEW r \in Requests, InsertLock(r)
      PROVE  TypeOK'
  BY <1>3 DEF InsertLock, Goto, Answer
<1>4. ASSUME NEW r \in Requests, RemoveLock(r), outcome[r] # "none"
      PROVE  lockDoc' \in Requests \cup {NoRequest} /\ thefts' \subseteq Causes
  BY <1>4 DEF RemoveLock, Holding
<1>5. ASSUME NEW r \in Requests, Rollback(r)
      PROVE  TypeOK'
  BY <1>4, <1>5 DEF Rollback, Goto, OutcomeOK
<1>6. ASSUME NEW r \in Requests, HandlerDone(r)
      PROVE  TypeOK'
  BY <1>6 DEF HandlerDone, Goto
<1>7. ASSUME NEW r \in Requests, Finish(r)
      PROVE  TypeOK'
  BY <1>7 DEF Finish, Goto
<1>8. ASSUME NEW r \in Requests, Release(r)
      PROVE  TypeOK'
  BY <1>4, <1>8 DEF Release, Goto, OutcomeOK
<1>9. ASSUME NEW r \in Requests, CloseClient(r)
      PROVE  TypeOK'
  BY <1>9 DEF CloseClient
<1>10. CASE Expire
  BY <1>10 DEF Expire
<1>11. CASE Crash
  BY <1>11 DEF Crash
<1>12. CASE UNCHANGED vars
  BY <1>12 DEF vars
<1> QED
  BY <1>1, <1>2, <1>3, <1>5, <1>6, <1>7, <1>8, <1>9, <1>10, <1>11, <1>12
     DEF Next, Serve

(* What an await says of the outcome stays true. *)
LEMMA OutcomeStep == TypeOK /\ OutcomeOK /\ [Next]_vars => OutcomeOK'
<1> SUFFICES ASSUME TypeOK, OutcomeOK, [Next]_vars
             PROVE  OutcomeOK'
  OBVIOUS
<1> USE DEF TypeOK, OutcomeOK
<1>1. ASSUME NEW r \in Requests, Serve(r) \/ Receive(r)
      PROVE  OutcomeOK'
  BY <1>1 DEF Serve, Receive, GetLock, InsertLock, Rollback, HandlerDone,
     Finish, Release, Goto, Answer
<1>2. CASE Crash
  BY <1>2 DEF Crash, InFlight
<1>3. ASSUME NEW r \in Requests, CloseClient(r)
      PROVE  OutcomeOK'
  BY <1>3 DEF CloseClient
<1>4. CASE Expire
  BY <1>4 DEF Expire
<1>5. CASE UNCHANGED vars
  BY <1>5 DEF vars
<1> QED
  BY <1>1, <1>2, <1>3, <1>4, <1>5 DEF Next

(* Nobody but the holder removes its document without a theft being recorded,
   and nobody becomes a holder beside an existing document. *)
LEMMA HolderStep == LockInv /\ [Next]_vars => HolderOwnsLock'
<1> SUFFICES ASSUME LockInv, [Next]_vars, thefts' = {},
                    NEW h \in Requests, Holding(h)'
             PROVE  lockDoc' = h
  BY DEF HolderOwnsLock
<1> USE DEF LockInv, TypeOK, OutcomeOK, HolderOwnsLock, Holding, InFlight
<1>1. ASSUME NEW r \in Requests, Receive(r) \/ HandlerDone(r) \/ Finish(r)
      PROVE  lockDoc' = h
  BY <1>1 DEF Receive, HandlerDone, Finish, Goto
<1>2. ASSUME NEW r \in Requests, GetLock(r)
      PROVE  lockDoc' = h
  BY <1>2 DEF GetLock, Goto, Answer
<1>3. ASSUME NEW r \in Requests, InsertLock(r)
      PROVE  lockDoc' = h
  BY <1>3, NoRequestAssumption DEF InsertLock, Goto, Answer
<1>4. ASSUME NEW r \in Requests, Rollback(r) \/ Release(r)
      PROVE  lockDoc' = h
  BY <1>4, NoRequestAssumption DEF Rollback, Release, RemoveLock, Goto
<1>5. ASSUME NEW r \in Requests, CloseClient(r)
      PROVE  lockDoc' = h
  BY <1>5 DEF CloseClient
<1>6. CASE Expire
  BY <1>6, NoRequestAssumption DEF Expire
<1>7. CASE Crash
  BY <1>7 DEF Crash
<1>8. CASE UNCHANGED vars
  BY <1>8 DEF vars
<1> QED
  BY <1>1, <1>2, <1>3, <1>4, <1>5, <1>6, <1>7, <1>8 DEF Next, Serve

(* While nothing is stolen a granted request removes its own document only. *)
LEMMA StealStep == LockInv /\ [Next]_vars => GrantedNeverStealsFirst'
<1> SUFFICES ASSUME LockInv, [Next]_vars
             PROVE  GrantedNeverStealsFirst'
  OBVIOUS
<1> USE DEF LockInv, TypeOK, HolderOwnsLock, GrantedNeverStealsFirst
<1>1. ASSUME NEW r \in Requests, RemoveLock(r), pc[r] \in {"rollback", "release"}
      PROVE  GrantedNeverStealsFirst'
  <2>1. CASE outcome[r] = "granted" /\ thefts = {}
    BY <1>1, <2>1 DEF RemoveLock, Holding, InFlight
  <2>2. CASE outcome[r] # "granted" \/ thefts # {}
    BY <1>1, <2>2 DEF RemoveLock
  <2> QED
    BY <2>1, <2>2
<1>2. CASE Expire
  BY <1>2 DEF Expire
<1>3. CASE UNCHANGED thefts
  BY <1>3
<1> QED
  BY <1>1, <1>2, <1>3 DEF Next, Serve, Receive, GetLock, InsertLock, Rollback,
     HandlerDone, Finish, Release, CloseClient, Crash, vars

(* LockInv holds in every reachable state. *)
THEOREM LockInvariant == Spec => []LockInv
<1>1. Init => LockInv
  BY InitLockInv
<1>2. LockInv /\ [Next]_vars => LockInv'
  BY TypeStep, OutcomeStep, HolderStep, StealStep DEF LockInv
<1> QED
  BY <1>1, <1>2, PTL DEF Spec

(* Types: the variables of the request lock stay in their domains. *)
THEOREM LockTypes == Spec => []TypeOK
<1>1. LockInv => TypeOK
  BY DEF LockInv
<1> QED
  BY <1>1, LockInvariant, PTL

(* Two handlers never run under the lock side by side before the document of a
   running holder was removed (basicLock). *)
THEOREM ExclusionUntilTheft == Spec => []ExclusiveUntilTheft
<1>1. LockInv => ExclusiveUntilTheft
  <2> SUFFICES ASSUME LockInv, thefts = {},
                      NEW r \in Requests, NEW s \in Requests,
                      pc[r] = "handler", pc[s] = "handler"
               PROVE  r = s
    BY DEF ExclusiveUntilTheft, MutualExclusion
  <2>1. Holding(r) /\ Holding(s)
    BY DEF LockInv, OutcomeOK, Holding, InFlight
  <2> QED
    BY <2>1 DEF LockInv, HolderOwnsLock
<1> QED
  BY <1>1, LockInvariant, PTL

(* The first theft is never the work of a request that was granted the lock
   (responseCompleted of a served request). *)
THEOREM FirstThief == Spec => []GrantedNeverStealsFirst
<1>1. LockInv => GrantedNeverStealsFirst
  BY DEF LockInv
<1> QED
  BY <1>1, LockInvariant, PTL

(* Until a document is stolen, the one there is belongs to whoever is being
   served under the lock. *)
THEOREM HolderOwns == Spec => []HolderOwnsLock
<1>1. LockInv => HolderOwnsLock
  BY DEF LockInv
<1> QED
  BY <1>1, LockInvariant, PTL
==============================================================================

-------------------------- MODULE CredentialsProofs --------------------------
(***************************************************************************)
(* Credentials implements CredentialRegister as long as one request at a   *)
(* time is let in by the credential-lock and setup-api is run before the   *)
(* server, for all users, deletions, bitmap sizes and faults.              *)
(*                                                                         *)
(* A step of the bitmap is a step of the register only if every credential *)
(* names a bit of its own and the set bits are those of credentials        *)
(* somebody asked to revoke.  The first rests on the two reads of the next *)
(* index, which nobody else moves in between; that is what CredentialInv   *)
(* adds to the types.                                                      *)
(***************************************************************************)
EXTENDS Credentials, TLAPS

OneAtATime == (\E l : LockSlots = {l}) /\ ~SetupBeside

Issuing == {"is.bitmap", "is.index", "is.add", "is.readUser", "is.writeUser"}
Revoking == {"rv.resolve", "rv.publish", "rv.mark", "rv.readUser", "rv.writeUser"}
Deleting == {"de.list", "de.wait", "de.user"}

(* The indices are taken without gaps. *)
Dense == \E n \in 1 .. MaxIssued : issued = 0 .. n - 1

(* What a handler suspended with o knows of the indices that are taken, the
   next one and the revocations asked for. *)
Knows(s, o, taken, next, requested) ==
  /\ o.pc \in Issuing => s \in Locked \cup {Setup}
  /\ o.pc \in {"is.index", "is.add"} => o.bitmap = getBitmapIndex(next)
  /\ o.pc = "is.add" => o.index = next
  /\ o.pc \in {"is.readUser", "is.writeUser"} => o.index \in taken
  /\ o.pc \in Revoking => o.index \in requested
  /\ o.pc \in Deleting => o.list \subseteq requested

OpsKnow == \A s \in Slots : Knows(s, op[s], issued, NextIndex, asked)

(* While the setup runs, nobody is served. *)
SetupAlone == op[Setup] = Idle \/ \A s \in Slots \ {Setup} : op[s] = Idle

BitsOwn == \A i \in issued : vcs[i].bit = BitOf(i)
BitsAsked == bits \subseteq {BitOf(i) : i \in asked}

CredentialInv ==
  /\ TypeOK
  /\ Dense
  /\ OpsKnow
  /\ SetupAlone
  /\ BitsOwn
  /\ BitsAsked

------------------------------------------------------------------------------
(* Bits and indices. *)

(* Two credentials never share a bit (getBitmapIndex and bitmapSize). *)
LEMMA BitTypes == \A i \in Nat : BitOf(i) \in Nat \X Nat
  BY SizesAssumption DEF BitOf, getBitmapIndex

LEMMA DivMod == \A i \in Nat : i = BitmapSize * (i \div BitmapSize) + (i % BitmapSize)
  BY SizesAssumption

LEMMA BitsDiffer == \A i, j \in Nat : BitOf(i) = BitOf(j) => i = j
<1> SUFFICES ASSUME NEW i \in Nat, NEW j \in Nat, BitOf(i) = BitOf(j)
             PROVE  i = j
  OBVIOUS
<1>1. i \div BitmapSize = j \div BitmapSize /\ i % BitmapSize = j % BitmapSize
  BY DEF BitOf, getBitmapIndex
<1>2. i = BitmapSize * (i \div BitmapSize) + (i % BitmapSize)
  BY DivMod
<1>3. j = BitmapSize * (j \div BitmapSize) + (j % BitmapSize)
  BY DivMod
<1> QED
  BY <1>1, <1>2, <1>3

(* NextIndex is the first index that is free. *)
LEMMA NextFree ==
  ASSUME NEW n \in 1 .. MaxIssued, issued = 0 .. n - 1
  PROVE  NextIndex = n
<1> DEFINE P(m) == /\ \A i \in issued : i < m
                   /\ m = 0 \/ m - 1 \in issued
<1>1. n \in 0 .. MaxIssued /\ P(n)
  BY SizesAssumption
<1>2. ASSUME NEW m \in 0 .. MaxIssued, P(m)
      PROVE  m = n
  BY <1>2, SizesAssumption
<1> QED
  BY <1>1, <1>2 DEF NextIndex

LEMMA InitCredentialInv == Init => CredentialInv
<1> SUFFICES ASSUME Init
             PROVE  CredentialInv
  OBVIOUS
<1> USE DEF Init
<1>1. issued = {0} /\ 0 \in Indices /\ vcs[0] = [user |-> Server, bit |-> BitOf(0)]
  BY SizesAssumption DEF issued, Indices
<1>2. Idle \in Ops
  BY <1>1, ServerAssumption DEF Idle, Ops, PCs
<1>3. TypeOK
  BY <1>1, <1>2, BitTypes, ServerAssumption DEF TypeOK
<1>4. Dense
  BY <1>1, SizesAssumption DEF Dense
<1>5. OpsKnow
  BY DEF OpsKnow, Knows, Idle, Issuing, Revoking, Deleting
<1>6. BitsOwn /\ BitsAsked
  BY <1>1 DEF BitsOwn, BitsAsked
<1>7. SetupAlone
  BY DEF SetupAlone, Slots
<1> QED
  BY <1>3, <1>4, <1>5, <1>6, <1>7 DEF CredentialInv

------------------------------------------------------------------------------
(* The steps. *)

LEMMA Unmoved ==
  ASSUME vcs' = vcs
  PROVE  /\ issued' = issued
         /\ NextIndex' = NextIndex
         /\ Dense => Dense'
         /\ BitsOwn => BitsOwn'
  BY DEF issued, NextIndex, Dense, BitsOwn

(* Storing a credential: the index is the first one that is free, and its bit
   is the one a revocation will look for. *)
LEMMA AddStep ==
  ASSUME CredentialInv, NEW s \in Locked \cup {Setup}, IssueAdd(s), op[s].index \notin issued
  PROVE  /\ issued' = issued \cup {NextIndex}
         /\ op[s].index = NextIndex
         /\ Dense'
         /\ BitsOwn'
         /\ vcs'[NextIndex].user = op[s].user
<1> DEFINE n == op[s].index
<1>1. n = NextIndex /\ op[s].bitmap = getBitmapIndex(NextIndex) /\ n \in Indices
  BY DEF CredentialInv, OpsKnow, Knows, IssueAdd, TypeOK, Ops, Slots
<1>2. /\ issued' = issued \cup {n}
      /\ \A i \in issued : vcs'[i] = vcs[i]
      /\ vcs'[n] = [user |-> op[s].user, bit |-> BitOf(n)]
  BY <1>1 DEF IssueAdd, issued, BitOf
<1>3. Dense'
  <2> PICK k \in 1 .. MaxIssued : issued = 0 .. k - 1
    BY DEF CredentialInv, Dense
  <2>1. n = k
    BY <1>1, NextFree
  <2>2. k + 1 \in 1 .. MaxIssued /\ issued' = 0 .. (k + 1) - 1
    BY <1>1, <1>2, <2>1, SizesAssumption DEF Indices
  <2> QED
    BY <2>2 DEF Dense
<1>4. BitsOwn'
  BY <1>2 DEF CredentialInv, BitsOwn, BitOf, getBitmapIndex
<1>5. vcs'[n].user = op[s].user
  BY <1>2
<1> QED
  BY <1>1, <1>2, <1>3, <1>4, <1>5


LEMMA IdleOp ==
  /\ Idle \in Ops
  /\ \A s, taken, next, requested : Knows(s, Idle, taken, next, requested)
<1>1. 0 \in Indices
  BY SizesAssumption DEF Indices
<1> QED
  BY <1>1, ServerAssumption DEF Idle, Ops, PCs, Knows, Issuing, Revoking, Deleting

LEMMA NextInNat == Dense => NextIndex \in Nat
<1> SUFFICES ASSUME Dense
             PROVE  NextIndex \in Nat
  OBVIOUS
<1> PICK k \in 1 .. MaxIssued : issued = 0 .. k - 1
  BY DEF Dense
<1>1. NextIndex = k
  BY NextFree
<1> QED
  BY <1>1

(* A step of one request that stores no credential: the others know what they
   knew. *)
LEMMA OneMoves ==
  ASSUME CredentialInv, vcs' = vcs, asked \subseteq asked',
         NEW s \in Slots, NEW o \in Ops, op' = [op EXCEPT ![s] = o],
         Knows(s, o, issued, NextIndex, asked')
  PROVE  op' \in [Slots -> Ops] /\ OpsKnow'
<1>1. op' \in [Slots -> Ops]
  BY DEF CredentialInv, TypeOK
<1>2. \A t \in Slots : Knows(t, op'[t], issued, NextIndex, asked')
  BY DEF CredentialInv, TypeOK, OpsKnow, Knows
<1> QED
  BY <1>1, <1>2, Unmoved DEF OpsKnow

(* The same for a step that publishes. *)
LEMMA PublishMoves ==
  ASSUME CredentialInv, vcs' = vcs, asked' = asked,
         NEW s \in Slots, NEW label \in PCs, Published(s, label),
         Knows(s, [op[s] EXCEPT !.pc = label, !.latest = FALSE], issued, NextIndex, asked)
  PROVE  op' \in [Slots -> Ops] /\ OpsKnow'
<1>1. op \in [Slots -> Ops] /\ OpsKnow
  BY DEF CredentialInv, TypeOK
<1>2. ASSUME NEW t \in Slots
      PROVE  op'[t] \in Ops /\ Knows(t, op'[t], issued, NextIndex, asked)
  <2>1. CASE t = s
    BY <1>1, <2>1 DEF Published, Ops
  <2>2. CASE t # s
    <3>1. op'[t] = op[t] \/ op'[t] = [op[t] EXCEPT !.latest = FALSE]
      BY <2>2 DEF Published
    <3>2. op[t] \in Ops /\ Knows(t, op[t], issued, NextIndex, asked)
      BY <1>1 DEF OpsKnow
    <3>3. op'[t] \in Ops
      BY <3>1, <3>2 DEF Ops
    <3>4. /\ op'[t].pc = op[t].pc /\ op'[t].index = op[t].index
          /\ op'[t].bitmap = op[t].bitmap /\ op'[t].list = op[t].list
      BY <3>1, <3>2 DEF Ops
    <3> QED
      BY <3>2, <3>3, <3>4 DEF Knows
  <2> QED
    BY <2>1, <2>2
<1>3. op' \in [Slots -> Ops]
  BY <1>2 DEF Published
<1> QED
  BY <1>2, <1>3, Unmoved DEF OpsKnow

(* Each request keeps to its domain, and goes on with what it knows. *)
LEMMA OpStep ==
  ASSUME OneAtATime, CredentialInv, [Next]_vars
  PROVE  op' \in [Slots -> Ops] /\ OpsKnow'
<1> DEFINE Good == op' \in [Slots -> Ops] /\ OpsKnow'
<1> DEFINE May(s, o) == o \in Ops /\ Knows(s, o, issued, NextIndex, asked')
<1>0. /\ op \in [Slots -> Ops]
      /\ OpsKnow
      /\ issued \subseteq Indices /\ asked \subseteq issued
      /\ \A i \in issued : vcs[i].user \in Users
      /\ listed \in [Users -> SUBSET Indices]
      /\ NextIndex \in Nat /\ getBitmapIndex(NextIndex) \in Nat
  BY NextInNat, BitTypes DEF CredentialInv, TypeOK, BitOf
<1>a. ASSUME vcs' = vcs, asked \subseteq asked', NEW s \in Slots, NEW o,
             May(s, o), op' = [op EXCEPT ![s] = o]
      PROVE  Good
  BY <1>a, OneMoves
<1>b. ASSUME NEW s \in Slots, End(s), vcs' = vcs, asked' = asked
      PROVE  Good
  BY <1>a, <1>b, IdleOp DEF End
<1>c. Locked \subseteq Slots /\ Bulk \subseteq Slots /\ Setup \in Slots
  BY DEF Slots
<1>1. ASSUME NEW s \in Locked, IssueStart(s)
      PROVE  Good
  <2> PICK u \in Users : op' = [op EXCEPT ![s] = Started("is.bitmap", u)]
    BY <1>1 DEF IssueStart
  <2>1. Started("is.bitmap", u) \in Ops
    BY IdleOp DEF Started, Ops, PCs
  <2>2. May(s, Started("is.bitmap", u))
    BY <2>1 DEF Started, Idle, Knows, Issuing, Revoking, Deleting
  <2> QED
    BY <1>1, <1>a, <1>c, <2>2 DEF IssueStart, history, db
<1>2. ASSUME NEW s \in Locked \cup {Setup}, IssueReadBitmap(s)
      PROVE  Good
  <2> DEFINE o == [op[s] EXCEPT !.bitmap = getBitmapIndex(NextIndex), !.pc = "is.index"]
  <2>1. May(s, o)
    BY <1>0, <1>2, <1>c
    DEF IssueReadBitmap, Ops, PCs, Knows, Issuing, Revoking, Deleting
  <2>2. op' = [op EXCEPT ![s] = o]
    BY <1>2 DEF IssueReadBitmap
  <2>3. vcs' = vcs /\ asked' = asked
    BY <1>2 DEF IssueReadBitmap, history, db
  <2> QED
    BY <1>a, <1>c, <2>1, <2>2, <2>3
<1>3. ASSUME NEW s \in Locked \cup {Setup}, IssueReadIndex(s)
      PROVE  Good
  <2> DEFINE o == [op[s] EXCEPT !.index = NextIndex, !.pc = "is.add"]
  <2>1. NextIndex \in Indices
    BY <1>0, <1>3, SizesAssumption DEF IssueReadIndex, Indices
  <2>2. May(s, o)
    BY <1>0, <1>3, <1>c, <2>1
    DEF IssueReadIndex, Ops, PCs, OpsKnow, Knows, Issuing, Revoking, Deleting
  <2>3. op' = [op EXCEPT ![s] = o]
    BY <1>3 DEF IssueReadIndex
  <2>4. vcs' = vcs /\ asked' = asked
    BY <1>3 DEF IssueReadIndex, history, db
  <2> QED
    BY <1>a, <1>c, <2>2, <2>3, <2>4
<1>4. ASSUME NEW s \in Locked \cup {Setup}, IssueAdd(s)
      PROVE  Good
  <2>1. CASE op[s].index \in issued
    BY <1>4, <1>b, <1>c, <2>1 DEF IssueAdd, history
  <2>2. CASE op[s].index \notin issued
    <3>1. issued' = issued \cup {op[s].index} /\ asked' = asked
      BY <1>4, <2>2, AddStep DEF IssueAdd, history
    <3>2. op' = [op EXCEPT ![s].pc = "is.readUser"]
      BY <1>4, <2>2 DEF IssueAdd, Goto
    <3>3. op' \in [Slots -> Ops]
      <4>1. [op[s] EXCEPT !.pc = "is.readUser"] \in Ops
        BY <1>0, <1>c DEF Ops, PCs
      <4> QED
        BY <1>0, <3>2, <4>1
    <3>4. ASSUME NEW t \in Slots, t # s
          PROVE  Knows(t, op'[t], issued', NextIndex', asked')
      <4>1. op[t].pc = "idle" \/ t \notin Locked \cup {Setup}
        <5>1. op[s] # Idle
          BY <1>4 DEF IssueAdd, Idle
        <5>2. CASE s = Setup \/ t = Setup
          <6>1. op[t] = Idle
            BY <1>c, <3>4, <5>1, <5>2 DEF CredentialInv, SetupAlone
          <6> QED
            BY <6>1 DEF Idle
        <5>3. CASE s # Setup /\ t # Setup
          BY <3>4, <5>3 DEF OneAtATime, Locked
        <5> QED
          BY <5>2, <5>3
      <4> QED
        BY <1>0, <3>1, <3>2, <3>4, <4>1 DEF OpsKnow, Knows, Issuing
    <3>5. Knows(s, op'[s], issued', NextIndex', asked')
      BY <1>0, <1>4, <1>c, <3>1, <3>2 DEF Knows, Issuing, Revoking, Deleting
    <3> QED
      BY <3>3, <3>4, <3>5 DEF OpsKnow
  <2> QED
    BY <2>1, <2>2
<1>5. ASSUME NEW s \in Locked \cup {Setup}, IssueReadUser(s)
      PROVE  Good
  <2> DEFINE o == [op[s] EXCEPT !.list = listed[op[s].user], !.pc = "is.writeUser"]
  <2>1. vcs' = vcs /\ asked' = asked
    BY <1>5 DEF IssueReadUser, db
  <2>2. May(s, o)
    <3>1. op[s] \in Ops /\ Knows(s, op[s], issued, NextIndex, asked)
      BY <1>0, <1>c DEF OpsKnow
    <3>2. o \in Ops
      BY <1>0, <3>1 DEF Ops, PCs
    <3>3. o.pc = "is.writeUser" /\ o.index = op[s].index
      BY <3>1 DEF Ops
    <3>4. Knows(s, o, issued, NextIndex, asked')
      BY <1>5, <2>1, <3>1, <3>3 DEF IssueReadUser, Knows, Issuing, Revoking, Deleting
    <3> QED
      BY <3>2, <3>4
  <2>3. End(s) \/ op' = [op EXCEPT ![s] = o]
    BY <1>5 DEF IssueReadUser
  <2> QED
    BY <1>a, <1>b, <1>c, <2>1, <2>2, <2>3
<1>6. ASSUME NEW s \in Locked \cup {Setup}, IssueWriteUser(s)
      PROVE  Good
  BY <1>6, <1>b, <1>c DEF IssueWriteUser, history, db
<1>7. ASSUME NEW i \in issued
      PROVE  /\ StartedRevoke(i) \in Ops
             /\ \A s \in Slots : i \in asked' =>
                  Knows(s, StartedRevoke(i), issued, NextIndex, asked')
  <2>1. i \in Indices /\ vcs[i].user \in Users
    BY <1>0, <1>7
  <2>2. StartedRevoke(i) \in Ops
    BY <2>1, IdleOp DEF StartedRevoke, Ops, PCs
  <2> QED
    BY <2>2 DEF StartedRevoke, Idle, Knows, Issuing, Revoking, Deleting
<1>8. ASSUME NEW s \in Locked, RevokeStart(s)
      PROVE  Good
  <2> PICK i \in issued : /\ op' = [op EXCEPT ![s] = StartedRevoke(i)]
                          /\ asked' = asked \cup {i}
    BY <1>8 DEF RevokeStart
  <2> QED
    BY <1>7, <1>8, <1>a, <1>c DEF RevokeStart, db
<1>9. ASSUME NEW s \in Locked \cup Bulk, RevokeResolve(s)
      PROVE  Good
  <2> DEFINE o == [op[s] EXCEPT !.latest = TRUE, !.pc = "rv.publish"]
  <2>1. vcs' = vcs /\ asked' = asked
    BY <1>9 DEF RevokeResolve, db, history
  <2>2. May(s, o)
    <3>1. op[s] \in Ops /\ Knows(s, op[s], issued, NextIndex, asked)
      BY <1>0, <1>c DEF OpsKnow
    <3>2. o \in Ops
      BY <1>0, <3>1 DEF Ops, PCs
    <3>3. o.pc = "rv.publish" /\ o.index = op[s].index
      BY <3>1 DEF Ops
    <3>4. Knows(s, o, issued, NextIndex, asked')
      BY <1>9, <2>1, <3>1, <3>3 DEF RevokeResolve, Knows, Issuing, Revoking, Deleting
    <3> QED
      BY <3>2, <3>4
  <2>3. End(s) \/ op' = [op EXCEPT ![s] = o]
    BY <1>9 DEF RevokeResolve
  <2> QED
    BY <1>a, <1>b, <1>c, <2>1, <2>2, <2>3
<1>10. ASSUME NEW s \in Locked \cup Bulk, RevokePublish(s)
       PROVE  Good
  <2> DEFINE o == [op[s] EXCEPT !.pc = "rv.mark", !.latest = FALSE]
  <2>1. vcs' = vcs /\ asked' = asked /\ Published(s, "rv.mark")
    BY <1>10 DEF RevokePublish, db, history
  <2>2. Knows(s, o, issued, NextIndex, asked)
    BY <1>0, <1>10, <1>c
    DEF RevokePublish, Ops, OpsKnow, Knows, Issuing, Revoking, Deleting
  <2>3. "rv.mark" \in PCs
    BY DEF PCs
  <2> QED
    BY <1>c, <2>1, <2>2, <2>3, PublishMoves
<1>11. ASSUME NEW s \in Locked \cup Bulk, RevokeMark(s)
       PROVE  Good
  <2> DEFINE o == [op[s] EXCEPT !.pc = "rv.readUser"]
  <2>1. May(s, o)
    <3>1. op[s] \in Ops /\ Knows(s, op[s], issued, NextIndex, asked)
      BY <1>0, <1>c DEF OpsKnow
    <3>2. o \in Ops
      BY <1>0, <3>1 DEF Ops, PCs
    <3>3. o.pc = "rv.readUser" /\ o.index = op[s].index
      BY <3>1 DEF Ops
    <3>4. Knows(s, o, issued, NextIndex, asked')
      BY <1>11, <3>1, <3>3 DEF RevokeMark, history, Knows, Issuing, Revoking, Deleting
    <3> QED
      BY <3>2, <3>4
  <2>2. op' = [op EXCEPT ![s] = o]
    BY <1>0, <1>11, <1>c DEF RevokeMark, Goto
  <2> QED
    BY <1>11, <1>a, <1>c, <2>1, <2>2 DEF RevokeMark, history
<1>12. ASSUME NEW s \in Locked \cup Bulk, RevokeReadUser(s)
       PROVE  Good
  <2> DEFINE o == [op[s] EXCEPT !.list = listed[op[s].user], !.pc = "rv.writeUser"]
  <2>1. vcs' = vcs /\ asked' = asked
    BY <1>12 DEF RevokeReadUser, db
  <2>2. May(s, o)
    <3>1. op[s] \in Ops /\ Knows(s, op[s], issued, NextIndex, asked)
      BY <1>0, <1>c DEF OpsKnow
    <3>2. o \in Ops
      BY <1>0, <3>1 DEF Ops, PCs
    <3>3. o.pc = "rv.writeUser" /\ o.index = op[s].index
      BY <3>1 DEF Ops
    <3>4. Knows(s, o, issued, NextIndex, asked')
      BY <1>12, <2>1, <3>1, <3>3 DEF RevokeReadUser, Knows, Issuing, Revoking, Deleting
    <3> QED
      BY <3>2, <3>4
  <2>3. End(s) \/ op' = [op EXCEPT ![s] = o]
    BY <1>12 DEF RevokeReadUser
  <2> QED
    BY <1>a, <1>b, <1>c, <2>1, <2>2, <2>3
<1>13. ASSUME NEW s \in Locked \cup Bulk, RevokeWriteUser(s)
       PROVE  Good
  BY <1>13, <1>b, <1>c DEF RevokeWriteUser, db
<1>14. ASSUME NEW u \in Users, AddUser(u)
       PROVE  Good
  BY <1>0, <1>14, Unmoved DEF AddUser, db, history, OpsKnow
<1>15. ASSUME NEW u \in Deleted, DeleteStart(u)
       PROVE  Good
  <2> DEFINE s == <<"delete", u>>
  <2> PICK label \in {"de.list", "de.user"} : op' = [op EXCEPT ![s] = Started(label, u)]
    BY <1>15 DEF DeleteStart
  <2>1. s \in Slots
    BY DEF Slots, Deletes
  <2>2. Started(label, u) \in Ops
    BY IdleOp, DeletedAssumption DEF Started, Ops, PCs
  <2>3. May(s, Started(label, u))
    BY <2>2 DEF Started, Idle, Knows, Issuing, Revoking, Deleting
  <2>4. vcs' = vcs /\ asked' = asked
    BY <1>15 DEF DeleteStart, db, history
  <2> HIDE DEF s
  <2> QED
    BY <1>a, <2>1, <2>3, <2>4
<1>16. ASSUME NEW u \in Deleted, DeleteList(u)
       PROVE  Good
  <2> DEFINE s == <<"delete", u>>
             mine == CredentialsOf(u)
  <2>1. s \in Slots /\ mine \subseteq issued
    BY DEF Slots, Deletes, CredentialsOf
  <2>2. vcs' = vcs /\ asked' = asked \cup mine
    BY <1>16 DEF DeleteList, db
  <2>3. ASSUME NEW t \in Slots
        PROVE  op'[t] \in Ops /\ Knows(t, op'[t], issued, NextIndex, asked')
    <3>1. CASE t = s
      <4>1. op'[s] = [op[s] EXCEPT !.pc = "de.wait", !.list = mine]
        BY <1>16, <2>1 DEF DeleteList
      <4> QED
        <5>1. op[s] \in Ops
          BY <1>0, <2>1
        <5>2. op'[s] \in Ops
          BY <1>0, <2>1, <4>1, <5>1 DEF Ops, PCs
        <5>3. op'[s].pc = "de.wait" /\ op'[s].list = mine
          BY <4>1, <5>1 DEF Ops
        <5>4. Knows(s, op'[s], issued, NextIndex, asked')
          BY <2>2, <5>3 DEF Knows, Issuing, Revoking, Deleting
        <5> QED
          BY <3>1, <5>2, <5>4
    <3>2. CASE t # s /\ \E i \in mine : t = <<"bulk", i>>
      <4>1. PICK i \in mine : t = <<"bulk", i>>
        BY <3>2
      <4>2. op'[t] = StartedRevoke(i)
        BY <1>16, <3>2, <4>1 DEF DeleteList
      <4> QED
        BY <1>7, <2>1, <2>2, <4>2
    <3>3. CASE t # s /\ ~\E i \in mine : t = <<"bulk", i>>
      <4>1. op'[t] = op[t]
        BY <1>16, <3>3 DEF DeleteList
      <4> QED
        BY <1>0, <2>2, <4>1 DEF OpsKnow, Knows
    <3> QED
      BY <3>1, <3>2, <3>3
  <2>4. op' \in [Slots -> Ops]
    BY <1>16, <2>3 DEF DeleteList
  <2> QED
    BY <2>2, <2>3, <2>4, Unmoved DEF OpsKnow
<1>17. ASSUME NEW u \in Deleted, DeleteUser(u)
       PROVE  Good
  <2>1. <<"delete", u>> \in Slots
    BY DEF Slots, Deletes
  <2> QED
    BY <1>17, <1>b, <2>1 DEF DeleteUser, db
<1>18. CASE SetupStart
  <2> DEFINE o == [Started("su.bitmap", Server) EXCEPT !.list = listed[Server]]
  <2>1. May(Setup, o)
    BY <1>0, IdleOp, ServerAssumption
    DEF Started, Idle, Ops, PCs, Knows, Issuing, Revoking, Deleting
  <2> QED
    BY <1>18, <1>a, <1>c, <2>1 DEF SetupStart, db, history
<1>d. ASSUME BitmapFound, vcs' = vcs, asked' = asked
      PROVE  Good
  <2>1. May(Setup, Started("is.bitmap", Server))
    BY IdleOp, ServerAssumption
    DEF Started, Idle, Ops, PCs, Knows, Issuing, Revoking, Deleting
  <2>2. May(Setup, Idle)
    BY IdleOp
  <2> QED
    BY <1>a, <1>c, <1>d, <2>1, <2>2 DEF BitmapFound
<1>19. CASE SetupGetBitmap
  <2> DEFINE o == [op[Setup] EXCEPT !.bitmap = getBitmapIndex(NextIndex),
                                    !.pc = "su.resolve"]
  <2>1. vcs' = vcs /\ asked' = asked
    BY <1>19 DEF SetupGetBitmap, db, history
  <2>2. May(Setup, o)
    <3>1. op[Setup] \in Ops
      BY <1>0, <1>c
    <3>2. o \in Ops
      BY <1>0, <3>1 DEF Ops, PCs
    <3>3. o.pc = "su.resolve"
      BY <3>1 DEF Ops
    <3> QED
      BY <3>2, <3>3 DEF Knows, Issuing, Revoking, Deleting
  <2>3. BitmapFound \/ op' = [op EXCEPT ![Setup] = o]
    BY <1>19 DEF SetupGetBitmap
  <2> QED
    BY <1>a, <1>c, <1>d, <2>1, <2>2, <2>3
<1>20. CASE SetupResolve
  <2> DEFINE o == [op[Setup] EXCEPT !.latest = TRUE, !.pc = "su.publish"]
  <2>1. May(Setup, o)
    <3>1. op[Setup] \in Ops
      BY <1>0, <1>c
    <3>2. o \in Ops
      BY <1>0, <3>1 DEF Ops, PCs
    <3>3. o.pc = "su.publish"
      BY <3>1 DEF Ops
    <3> QED
      BY <3>2, <3>3 DEF Knows, Issuing, Revoking, Deleting
  <2>2. op' = [op EXCEPT ![Setup] = o] /\ vcs' = vcs /\ asked' = asked
    BY <1>20 DEF SetupResolve, db, history
  <2> QED
    BY <1>a, <1>c, <2>1, <2>2
<1>21. CASE SetupPublish
  <2> DEFINE o == [op[Setup] EXCEPT !.pc = "su.save", !.latest = FALSE]
  <2>1. vcs' = vcs /\ asked' = asked /\ Published(Setup, "su.save")
    BY <1>21 DEF SetupPublish, db, history
  <2>2. Knows(Setup, o, issued, NextIndex, asked)
    BY <1>0, <1>c DEF Ops, Knows, Issuing, Revoking, Deleting
  <2>3. "su.save" \in PCs
    BY DEF PCs
  <2> QED
    BY <1>c, <2>1, <2>2, <2>3, PublishMoves
<1>22. CASE SetupSave
  BY <1>22, <1>d DEF SetupSave, history
<1>23. ASSUME NEW s \in Slots, Fail(s)
       PROVE  Good
  BY <1>23, <1>b DEF Fail, db
<1>24. CASE Crash
  <2>1. op' \in [Slots -> Ops] /\ \A t \in Slots : op'[t] = Idle \/ op'[t] = op[t]
    BY <1>0, <1>24, IdleOp DEF Crash
  <2>2. vcs' = vcs /\ asked' = asked
    BY <1>24 DEF Crash, db
  <2> QED
    BY <1>0, <2>1, <2>2, IdleOp, Unmoved DEF OpsKnow
<1>25. CASE UNCHANGED vars
  BY <1>0, <1>25, Unmoved DEF vars, db, history, OpsKnow
<1> QED
  BY <1>1, <1>2, <1>3, <1>4, <1>5, <1>6, <1>8, <1>9, <1>10, <1>11, <1>12, <1>13,
     <1>14, <1>15, <1>16, <1>17, <1>18, <1>19, <1>20, <1>21, <1>22, <1>23, <1>24,
     <1>25
  DEF Next, Issue, Revoke, Delete, keyGeneration

(* The types of all variables but op. *)
DataOK ==
  /\ issued \subseteq Indices
  /\ \A i \in issued : vcs[i] \in [user: Users, bit: Nat \X Nat]
  /\ revoked \subseteq issued
  /\ bitmaps \subseteq Nat
  /\ bits \subseteq Nat \X Nat
  /\ saved \subseteq Nat
  /\ doc \in [Users -> {"user", "none", "ghost"}]
  /\ listed \in [Users -> SUBSET Indices]
  /\ asked \subseteq issued
  /\ cleared \subseteq asked
  /\ loose \subseteq issued

LEMMA DataStep ==
  ASSUME CredentialInv, [Next]_vars
  PROVE  DataOK'
<1>0. /\ TypeOK
      /\ DataOK
      /\ \A s \in Slots : op[s] \in Ops /\ Knows(s, op[s], issued, NextIndex, asked)
      /\ NextIndex \in Nat /\ getBitmapIndex(NextIndex) \in Nat
  BY NextInNat, BitTypes DEF CredentialInv, OpsKnow, TypeOK, BitOf, DataOK
<1>1. \A slots \in SUBSET Slots : HalfWay(slots) \subseteq issued
  BY <1>0 DEF HalfWay, Knows, Issuing, Revoking, DataOK
<1>2. \A s \in Slots : HalfWay({s}) \subseteq issued
  BY <1>0 DEF HalfWay, Knows, Issuing, Revoking, DataOK
<1>3. Locked \subseteq Slots /\ Bulk \subseteq Slots /\ Setup \in Slots
  BY DEF Slots
<1>4. ASSUME UNCHANGED <<db, chain, users, history>>
      PROVE  DataOK'
  BY <1>0, <1>4 DEF db, chain, users, history, DataOK, issued
<1>5. ASSUME NEW s \in Locked, IssueStart(s)
      PROVE  DataOK'
  BY <1>4, <1>5 DEF IssueStart
<1>5a. ASSUME NEW s \in Locked \cup {Setup}, IssueReadBitmap(s) \/ IssueReadIndex(s)
       PROVE  DataOK'
  BY <1>4, <1>5a DEF IssueReadBitmap, IssueReadIndex
<1>6. ASSUME NEW s \in Locked \cup {Setup}, IssueAdd(s)
      PROVE  DataOK'
  <2> USE DEF IssueAdd, chain, users, history
  <2>1. CASE op[s].index \in issued
    BY <1>0, <1>6, <2>1 DEF DataOK, issued
  <2>2. CASE op[s].index \notin issued
    <3>1. op[s].index \in Indices /\ op[s].user \in Users /\ op[s].bitmap \in Nat
      BY <1>0, <1>3 DEF Ops
    <3>2. <<op[s].bitmap, op[s].index % BitmapSize>> \in Nat \X Nat
      BY <3>1, SizesAssumption DEF Indices
    <3>3. /\ issued' = issued \cup {op[s].index}
          /\ \A i \in issued : vcs'[i] = vcs[i]
          /\ vcs'[op[s].index] = [user |-> op[s].user,
                                  bit |-> <<op[s].bitmap, op[s].index % BitmapSize>>]
      BY <1>6, <2>2 DEF issued
    <3>4. UNCHANGED <<revoked, saved, bitmaps, bits, doc, listed, asked, cleared, loose>>
      BY <1>6
    <3> QED
      BY <1>0, <3>1, <3>2, <3>3, <3>4 DEF DataOK
  <2> QED
    BY <2>1, <2>2
<1>7. ASSUME NEW s \in Locked \cup {Setup}, IssueReadUser(s)
      PROVE  DataOK'
  <2>1. op[s].index \in issued
    BY <1>0, <1>3, <1>7 DEF IssueReadUser, Knows, Issuing
  <2> QED
    BY <1>0, <1>7, <2>1 DEF IssueReadUser, db, chain, users, DataOK, issued
<1>8. ASSUME NEW s \in Locked \cup {Setup}, IssueWriteUser(s)
      PROVE  DataOK'
  BY <1>0, <1>3, <1>8 DEF IssueWriteUser, db, chain, history, Ops, DataOK, issued
<1>9. ASSUME NEW s \in Locked, RevokeStart(s)
      PROVE  DataOK'
  BY <1>0, <1>9 DEF RevokeStart, db, chain, users, DataOK, issued
<1>10. ASSUME NEW s \in Locked \cup Bulk, RevokeResolve(s)
       PROVE  DataOK'
  BY <1>4, <1>10 DEF RevokeResolve
<1>11. ASSUME NEW s \in Locked \cup Bulk, RevokePublish(s)
       PROVE  DataOK'
  <2>1. BitOf(op[s].index) \in Nat \X Nat
    BY <1>0, <1>3, BitTypes DEF Ops, Indices
  <2> QED
    BY <1>0, <1>11, <2>1 DEF RevokePublish, db, users, history, DataOK, issued
<1>12. ASSUME NEW s \in Locked \cup Bulk, RevokeMark(s)
       PROVE  DataOK'
  <2>1. op[s].index \in issued
    BY <1>0, <1>3, <1>12 DEF RevokeMark, Knows, Revoking, DataOK
  <2> QED
    BY <1>0, <1>12, <2>1 DEF RevokeMark, chain, users, history, DataOK, issued
<1>13. ASSUME NEW s \in Locked \cup Bulk, RevokeReadUser(s)
       PROVE  DataOK'
  <2>1. op[s].index \in issued
    BY <1>0, <1>3, <1>13 DEF RevokeReadUser, Knows, Revoking, DataOK
  <2> QED
    BY <1>0, <1>13, <2>1 DEF RevokeReadUser, db, chain, users, DataOK, issued
<1>14. ASSUME NEW s \in Locked \cup Bulk, RevokeWriteUser(s)
       PROVE  DataOK'
  BY <1>0, <1>3, <1>14
  DEF RevokeWriteUser, Knows, Revoking, db, chain, Ops, DataOK, issued
<1>15. ASSUME NEW u \in Users, AddUser(u)
       PROVE  DataOK'
  BY <1>0, <1>15 DEF AddUser, db, chain, history, DataOK, issued
<1>16. ASSUME NEW u \in Deleted, DeleteStart(u)
       PROVE  DataOK'
  BY <1>4, <1>16 DEF DeleteStart
<1>17. ASSUME NEW u \in Deleted, DeleteList(u)
       PROVE  DataOK'
  BY <1>0, <1>17 DEF DeleteList, CredentialsOf, db, chain, users, DataOK, issued
<1>18. ASSUME NEW u \in Deleted, DeleteUser(u)
       PROVE  DataOK'
  <2>1. op[<<"delete", u>>].list \subseteq asked
    BY <1>0, <1>18 DEF DeleteUser, Slots, Deletes, Knows, Deleting
  <2> QED
    BY <1>0, <1>18, <2>1 DEF DeleteUser, db, chain, DataOK, issued
<1>19. CASE SetupStart \/ SetupGetBitmap \/ SetupResolve
  <2>1. UNCHANGED <<db, chain, users, history>>
    BY <1>19 DEF SetupStart, SetupGetBitmap, SetupResolve
  <2> QED
    BY <1>4, <2>1
<1>20. CASE SetupPublish
  <2>1. op[Setup].bitmap \in Nat
    BY <1>0, <1>3 DEF Ops
  <2>2. bitmaps' = bitmaps \/ bitmaps' = bitmaps \cup {op[Setup].bitmap}
    BY <1>20 DEF SetupPublish
  <2> QED
    BY <1>0, <1>20, <2>1, <2>2 DEF SetupPublish, db, users, history, DataOK, issued
<1>21. CASE SetupSave
  BY <1>0, <1>3, <1>21 DEF SetupSave, chain, users, history, Ops, DataOK, issued
<1>22. ASSUME NEW s \in Slots, Fail(s)
       PROVE  DataOK'
  BY <1>0, <1>2, <1>22 DEF Fail, db, chain, users, DataOK, issued
<1>23. CASE Crash
  <2> PICK process \in SUBSET Slots : loose' = loose \cup HalfWay(process)
    BY <1>3, <1>23 DEF Crash
  <2> QED
    BY <1>0, <1>1, <1>23 DEF Crash, db, chain, users, DataOK, issued
<1>24. CASE UNCHANGED vars
  BY <1>4, <1>24 DEF vars
<1> QED
  BY <1>5, <1>5a, <1>6, <1>7, <1>8, <1>9, <1>10, <1>11, <1>12, <1>13, <1>14, <1>15,
     <1>16, <1>17, <1>18, <1>19, <1>20, <1>21, <1>22, <1>23, <1>24
  DEF Next, Issue, Revoke, Delete, keyGeneration

(* What the steps say of the bits: IssueAdd alone stores a credential and
   RevokePublish alone sets a bit, for a request somebody made.  All others at
   most ask for revocations. *)
Asks == /\ vcs' = vcs /\ bits' = bits
        /\ \E cs \in SUBSET issued : asked' = asked \cup cs
Stores == /\ bits' = bits /\ asked' = asked
          /\ \E s \in Locked \cup {Setup} : IssueAdd(s) /\ op[s].index \notin issued
SetsBit == /\ vcs' = vcs /\ asked' = asked
           /\ \E i \in asked : bits' = bits \cup {BitOf(i)}

LEMMA StepKinds ==
  ASSUME CredentialInv, [Next]_vars
  PROVE  Asks \/ Stores \/ SetsBit
<1>1. ASSUME vcs' = vcs, bits' = bits, asked' = asked
      PROVE  Asks
  <2>1. {} \in SUBSET issued /\ asked' = asked \cup {}
    BY <1>1
  <2> QED
    BY <1>1, <2>1 DEF Asks
<1>2. ASSUME NEW s \in Locked \cup {Setup}, IssueAdd(s)
      PROVE  Asks \/ Stores
  BY <1>1, <1>2 DEF IssueAdd, chain, history, Stores
<1>3. ASSUME NEW s \in Locked, RevokeStart(s)
      PROVE  Asks
  <2> PICK i \in issued : asked' = asked \cup {i}
    BY <1>3 DEF RevokeStart
  <2> QED
    BY <1>3 DEF RevokeStart, db, chain, Asks
<1>4. ASSUME NEW s \in Locked \cup Bulk, RevokePublish(s)
      PROVE  Asks \/ SetsBit
  <2>1. op[s].index \in asked
    BY <1>4 DEF CredentialInv, OpsKnow, Knows, Revoking, RevokePublish, Slots
  <2> QED
    BY <1>1, <1>4, <2>1 DEF RevokePublish, db, history, SetsBit
<1>5. ASSUME NEW u \in Deleted, DeleteList(u)
      PROVE  Asks
  BY <1>5 DEF DeleteList, CredentialsOf, db, chain, Asks
<1>6. ASSUME NEW s \in Locked \cup {Setup}, \/ IssueStart(s) \/ IssueReadBitmap(s)
                                           \/ IssueReadIndex(s) \/ IssueReadUser(s)
                                           \/ IssueWriteUser(s)
      PROVE  Asks
  BY <1>1, <1>6
  DEF IssueStart, IssueReadBitmap, IssueReadIndex, IssueReadUser, IssueWriteUser,
      db, chain, history
<1>7. ASSUME NEW s \in Locked \cup Bulk, \/ RevokeResolve(s) \/ RevokeMark(s)
                                         \/ RevokeReadUser(s) \/ RevokeWriteUser(s)
      PROVE  Asks
  BY <1>1, <1>7
  DEF RevokeResolve, RevokeMark, RevokeReadUser, RevokeWriteUser, db, chain, history
<1>8. ASSUME NEW u \in Users, AddUser(u) \/ DeleteStart(u) \/ DeleteUser(u)
      PROVE  Asks
  BY <1>1, <1>8 DEF AddUser, DeleteStart, DeleteUser, db, chain, history
<1>9. ASSUME SetupStart \/ keyGeneration
      PROVE  Asks
  <2>1. vcs' = vcs /\ bits' = bits /\ asked' = asked
    BY <1>9 DEF SetupStart, keyGeneration, SetupGetBitmap, SetupResolve, SetupPublish,
       SetupSave, BitmapFound, db, chain, history
  <2> QED
    BY <1>1, <2>1
<1>10. ASSUME (\E s \in Slots : Fail(s)) \/ Crash \/ UNCHANGED vars
       PROVE  Asks
  BY <1>1, <1>10 DEF Fail, Crash, vars, db, chain, history
<1> QED
  BY <1>2, <1>3, <1>4, <1>5, <1>6, <1>7, <1>8, <1>9, <1>10, DeletedAssumption
  DEF Next, Issue, Revoke, Delete

LEMMA BitStep ==
  ASSUME CredentialInv, [Next]_vars
  PROVE  Dense' /\ BitsOwn' /\ BitsAsked'
<1>0. Dense /\ BitsOwn /\ BitsAsked
  BY DEF CredentialInv
<1>1. Dense' /\ BitsOwn'
  BY <1>0, StepKinds, Unmoved, AddStep DEF Asks, Stores, SetsBit
<1>2. asked \subseteq asked'
  BY StepKinds DEF Asks, Stores, SetsBit
<1>3. bits' = bits \/ \E i \in asked : bits' = bits \cup {BitOf(i)}
  BY StepKinds DEF Asks, Stores, SetsBit
<1>4. BitsAsked'
  BY <1>0, <1>2, <1>3 DEF BitsAsked, BitOf, getBitmapIndex
<1> QED
  BY <1>1, <1>4

(* While the setup runs nobody wakes up another request, and it starts when
   there is none. *)
LEMMA AloneStep ==
  ASSUME OneAtATime, CredentialInv, [Next]_vars
  PROVE  SetupAlone'
<1> DEFINE Alone(s) == \A t \in Slots \ {s} : op[t] = Idle => op'[t] = Idle
<1>0. op \in [Slots -> Ops] /\ SetupAlone
  BY DEF CredentialInv, TypeOK
<1>1. Setup \in Slots /\ Locked \subseteq Slots /\ Bulk \subseteq Slots /\ Deletes \subseteq Slots
  BY DEF Slots
<1>2. Setup \notin Locked \cup Bulk \cup Deletes
  BY DEF Setup, Locked, Bulk, Deletes
<1>3. ASSUME NEW s \in Slots, op[s] # Idle, Alone(s)
      PROVE  SetupAlone'
  BY <1>0, <1>1, <1>3 DEF SetupAlone
<1>4. ASSUME NEW s \in Slots, NEW o, op' = [op EXCEPT ![s] = o]
      PROVE  Alone(s)
  BY <1>0, <1>4
<1>5. ASSUME NEW s \in Slots, NEW label, Published(s, label)
      PROVE  Alone(s)
  <2>1. [Idle EXCEPT !.latest = FALSE] = Idle
    <3>1. Idle \in Ops /\ Idle.latest = FALSE
      BY IdleOp DEF Idle
    <3> QED
      BY <3>1 DEF Ops
  <2>2. ASSUME NEW t \in Slots \ {s}, op[t] = Idle
        PROVE  op'[t] = Idle
    <3>1. op'[t] = op[t] \/ op'[t] = [op[t] EXCEPT !.latest = FALSE]
      BY <1>5, <2>2 DEF Published
    <3> QED
      BY <2>1, <2>2, <3>1
  <2> QED
    BY <2>2
<1>6. ASSUME NEW s \in Slots \ {Setup}, NEW o, Serving, op' = [op EXCEPT ![s] = o]
      PROVE  SetupAlone'
  BY <1>0, <1>1, <1>6 DEF Serving, OneAtATime, SetupAlone
<1>7. ASSUME NEW s \in Locked, IssueStart(s) \/ RevokeStart(s)
      PROVE  SetupAlone'
  <2>1. \E o : op' = [op EXCEPT ![s] = o]
    BY <1>7 DEF IssueStart, RevokeStart
  <2> QED
    BY <1>1, <1>2, <1>6, <1>7, <2>1 DEF IssueStart, RevokeStart
<1>8. ASSUME NEW s \in Locked \cup {Setup}, Issue(s)
      PROVE  SetupAlone'
  <2>1. op[s] # Idle
    BY <1>8 DEF Issue, IssueReadBitmap, IssueReadIndex, IssueAdd, IssueReadUser,
       IssueWriteUser, Idle
  <2>2. Alone(s)
    BY <1>0, <1>8 DEF Issue, IssueReadBitmap, IssueReadIndex, IssueAdd, IssueReadUser,
       IssueWriteUser, End, Goto
  <2> QED
    BY <1>1, <1>3, <2>1, <2>2
<1>9. ASSUME NEW s \in Locked \cup Bulk, Revoke(s)
      PROVE  SetupAlone'
  <2>1. op[s] # Idle
    BY <1>9 DEF Revoke, RevokeResolve, RevokePublish, RevokeMark, RevokeReadUser,
       RevokeWriteUser, Idle
  <2>2. Alone(s)
    BY <1>0, <1>1, <1>5, <1>9 DEF Revoke, RevokeResolve, RevokePublish, RevokeMark,
       RevokeReadUser, RevokeWriteUser, End, Goto
  <2> QED
    BY <1>1, <1>3, <2>1, <2>2
<1>10. ASSUME NEW u \in Users, AddUser(u)
       PROVE  SetupAlone'
  BY <1>0, <1>10 DEF AddUser, SetupAlone
<1>11. ASSUME NEW u \in Deleted
       PROVE  <<"delete", u>> \in Slots \ {Setup}
  BY <1>1, <1>2 DEF Deletes
<1>12. ASSUME NEW u \in Deleted, DeleteStart(u)
       PROVE  SetupAlone'
  <2>1. \E o : op' = [op EXCEPT ![<<"delete", u>>] = o]
    BY <1>12 DEF DeleteStart
  <2> QED
    BY <1>6, <1>11, <1>12, <2>1 DEF DeleteStart
<1>13. ASSUME NEW u \in Deleted, DeleteList(u)
       PROVE  SetupAlone'
  <2>1. op[<<"delete", u>>] # Idle
    BY <1>13 DEF DeleteList, Idle
  <2>2. op[Setup] = Idle
    BY <1>0, <1>11, <2>1 DEF SetupAlone
  <2>3. \A i \in CredentialsOf(u) : Setup # <<"bulk", i>>
    BY DEF Setup
  <2>4. op'[Setup] = op[Setup]
    BY <1>1, <1>11, <1>13, <2>3 DEF DeleteList
  <2> QED
    BY <2>2, <2>4 DEF SetupAlone
<1>14. ASSUME NEW u \in Deleted, DeleteUser(u)
       PROVE  SetupAlone'
  <2>1. op[<<"delete", u>>] # Idle
    BY <1>14 DEF DeleteUser, Idle
  <2>2. Alone(<<"delete", u>>)
    BY <1>4, <1>11, <1>14 DEF DeleteUser, End
  <2> QED
    BY <1>3, <1>11, <2>1, <2>2
<1>15. CASE SetupStart
  BY <1>0, <1>15 DEF SetupStart, OneAtATime, SetupAlone
<1>16. CASE keyGeneration
  <2>1. op[Setup] # Idle
    BY <1>16 DEF keyGeneration, SetupGetBitmap, SetupResolve, SetupPublish, SetupSave,
       Idle
  <2>2. Published(Setup, "su.save") \/ \E o : op' = [op EXCEPT ![Setup] = o]
    BY <1>0, <1>16 DEF keyGeneration, SetupGetBitmap, SetupResolve, SetupPublish,
       SetupSave, BitmapFound
  <2>3. Alone(Setup)
    BY <1>1, <1>4, <1>5, <2>2
  <2> QED
    BY <1>1, <1>3, <2>1, <2>3
<1>17. ASSUME NEW s \in Slots, Fail(s)
       PROVE  SetupAlone'
  BY <1>3, <1>4, <1>17 DEF Fail, End
<1>18. CASE Crash
  <2>1. \A t \in Slots : op'[t] = Idle \/ op'[t] = op[t]
    BY <1>18 DEF Crash
  <2> QED
    BY <1>0, <1>1, <2>1 DEF SetupAlone
<1>19. CASE UNCHANGED vars
  BY <1>0, <1>19 DEF vars, SetupAlone
<1> QED
  BY <1>7, <1>8, <1>9, <1>10, <1>12, <1>13, <1>14, <1>15, <1>16, <1>17, <1>18, <1>19
  DEF Next, Delete

LEMMA CredentialStep ==
  OneAtATime /\ CredentialInv /\ [Next]_vars => CredentialInv'
<1> SUFFICES ASSUME OneAtATime, CredentialInv, [Next]_vars
             PROVE  CredentialInv'
  OBVIOUS
<1>1. op' \in [Slots -> Ops] /\ OpsKnow'
  BY OpStep
<1>2. TypeOK'
  BY <1>1, DataStep DEF TypeOK, DataOK
<1> QED
  BY <1>1, <1>2, AloneStep, BitStep DEF CredentialInv

------------------------------------------------------------------------------
(* The theorems. *)

(* With a lock that excludes, every credential has a bit of its own, the one
   revokeVerifiableCredential computes from its index, and the bits set on the
   tangle belong to credentials somebody asked to revoke. *)
THEOREM CredentialInvariant ==
  ASSUME OneAtATime
  PROVE  Spec => []CredentialInv
<1>1. CredentialInv /\ [Next]_vars => CredentialInv'
  BY CredentialStep
<1> QED
  BY <1>1, InitCredentialInv, PTL DEF Spec

(* The types of the database, the identity document and the requests. *)
THEOREM CredentialTypes ==
  ASSUME OneAtATime
  PROVE  Spec => []TypeOK
<1>1. CredentialInv => TypeOK
  BY DEF CredentialInv
<1> QED
  BY <1>1, CredentialInvariant, PTL

------------------------------------------------------------------------------
(* Credentials implements CredentialRegister. *)

LEMMA InitRefines == Init => Register!Init
  BY DEF Init, Register!Init, standing

(* A step that stores a credential is Issue: the bit it gets is nobody's yet,
   for the set bits belong to credentials that are stored. *)
LEMMA StoresIsIssue ==
  ASSUME CredentialInv, Stores
  PROVE  Register!Next
<1> PICK s \in Locked \cup {Setup} : IssueAdd(s) /\ op[s].index \notin issued
  BY DEF Stores
<1> DEFINE n == op[s].index
<1>1. /\ n \in Indices /\ asked \subseteq issued /\ issued \subseteq Indices
      /\ BitsOwn /\ BitsAsked
  BY DEF CredentialInv, TypeOK, Ops, Slots
<1>2. issued' = issued \cup {n} /\ BitsOwn'
  BY AddStep
<1>3. BitOf(n) \notin bits
  BY <1>1, BitsDiffer DEF BitsAsked, Indices
<1>4. \A i \in issued : vcs'[i] = vcs[i]
  BY DEF IssueAdd, issued
<1>5. vcs'[n].bit = BitOf(n)
  BY <1>2 DEF BitsOwn, BitOf, getBitmapIndex
<1>6. bits' = bits /\ asked' = asked
  BY DEF Stores
<1>7. standing[n] = "unknown" /\ standing \in [Indices -> {"unknown", "good", "revoked"}]
  BY <1>1 DEF standing
<1>8. \A i \in Indices : standing'[i] = IF i = n THEN "good" ELSE standing[i]
  BY <1>1, <1>2, <1>3, <1>4, <1>5, <1>6 DEF standing
<1>9. standing' = [standing EXCEPT ![n] = "good"]
  BY <1>7, <1>8 DEF standing
<1> QED
  BY <1>1, <1>6, <1>7, <1>9 DEF Register!Next, Register!Issue

(* A step that sets a bit revokes the credential whose bit this is and no other,
   or was done before. *)
LEMMA SetsBitIsRevoke ==
  ASSUME CredentialInv, SetsBit
  PROVE  Register!Next \/ UNCHANGED <<standing, asked>>
<1> PICK i \in asked : bits' = bits \cup {BitOf(i)}
  BY DEF SetsBit
<1>1. /\ i \in issued /\ issued \subseteq Indices /\ BitsOwn
  BY DEF CredentialInv, TypeOK
<1>2. vcs' = vcs /\ asked' = asked /\ issued' = issued
  BY DEF SetsBit, issued
<1>3. \A j \in issued : vcs[j].bit = BitOf(i) <=> j = i
  BY <1>1, BitsDiffer DEF BitsOwn, Indices
<1>4. standing \in [Indices -> {"unknown", "good", "revoked"}]
  BY DEF standing
<1>5. CASE BitOf(i) \in bits
  <2>1. bits' = bits
    BY <1>5
  <2> QED
    BY <1>2, <2>1 DEF standing
<1>6. CASE BitOf(i) \notin bits
  <2>1. standing[i] = "good"
    BY <1>1, <1>3, <1>6 DEF standing
  <2>2. \A j \in Indices : standing'[j] = IF j = i THEN "revoked" ELSE standing[j]
    BY <1>1, <1>2, <1>3 DEF standing
  <2>3. standing' = [standing EXCEPT ![i] = "revoked"]
    BY <1>4, <2>2 DEF standing
  <2> QED
    BY <1>1, <1>2, <2>1, <2>3 DEF Register!Next, Register!Revoke
<1> QED
  BY <1>5, <1>6

LEMMA StepRefines ==
  CredentialInv /\ [Next]_vars => [Register!Next]_<<standing, asked>>
<1> SUFFICES ASSUME CredentialInv, [Next]_vars
             PROVE  [Register!Next]_<<standing, asked>>
  OBVIOUS
<1>1. CASE Asks
  <2> PICK cs \in SUBSET issued : asked' = asked \cup cs
    BY <1>1 DEF Asks
  <2>1. standing' = standing
    BY <1>1 DEF Asks, standing, issued
  <2>2. cs \in SUBSET Indices /\ \A c \in cs : standing[c] # "unknown"
    BY DEF CredentialInv, TypeOK, standing
  <2> QED
    BY <2>1, <2>2 DEF Register!Next, Register!Ask
<1> QED
  BY <1>1, StepKinds, StoresIsIssue, SetsBitIsRevoke

(* Whatever is published beside the lock, fails or is repeated after a crash: a
   credential is good from the moment it is stored, a revocation is final, and
   it concerns the credential it was asked for alone. *)
THEOREM CredentialsImplementRegister ==
  ASSUME OneAtATime
  PROVE  Spec => RegisterSpec
<1>1. CredentialInv /\ [Next]_vars => [Register!Next]_<<standing, asked>>
  BY StepRefines
<1> QED
  BY <1>1, InitRefines, CredentialInvariant, PTL DEF Spec, RegisterSpec, Register!Spec

------------------------------------------------------------------------------
(* The database and the tangle agree when nobody is deleted beside the lock.
   Then one request at a time is active, nobody publishes between its resolving
   and its publishing, and what it writes to the database is on the tangle. *)

OneActive == OneAtATime /\ Deleted = {}

(* What a handler suspended with o knows of the identity document. *)
Kept(o, there, set) ==
  /\ o.pc \in {"rv.publish", "su.publish"} => o.latest
  /\ o.pc = "rv.mark" => BitOf(o.index) \in set
  /\ o.pc = "su.save" => o.bitmap \in there

OpsKept == \A s \in Slots : Kept(op[s], bitmaps, bits)
NoBulk == \A s \in Slots : s \in Locked \cup {Setup} \/ op[s] = Idle

ChainInv ==
  /\ OpsKept
  /\ NoBulk
  /\ RevokedOnTangle
  /\ SavedPublished

LEMMA InitChainInv == Init => ChainInv
<1> SUFFICES ASSUME Init
             PROVE  ChainInv
  OBVIOUS
<1>1. OpsKept /\ NoBulk
  BY DEF Init, OpsKept, NoBulk, Kept, Idle
<1>2. RevokedOnTangle /\ SavedPublished
  BY DEF Init, RevokedOnTangle, SavedPublished
<1> QED
  BY <1>1, <1>2 DEF ChainInv

(* Whoever is active, is so alone. *)
LEMMA Solo ==
  ASSUME OneActive, CredentialInv, ChainInv, NEW s \in Slots, op[s] # Idle
  PROVE  s \in Locked \cup {Setup} /\ \A t \in Slots \ {s} : op[t] = Idle
<1>1. s \in Locked \cup {Setup}
  BY DEF ChainInv, NoBulk
<1>2. ASSUME NEW t \in Slots \ {s}, op[t] # Idle
      PROVE  FALSE
  <2>1. t \in Locked \cup {Setup}
    BY <1>2 DEF ChainInv, NoBulk
  <2>2. s = Setup \/ t = Setup
    BY <1>1, <1>2, <2>1 DEF OneActive, OneAtATime, Locked
  <2> QED
    BY <1>2, <2>2 DEF CredentialInv, SetupAlone, Slots
<1> QED
  BY <1>1, <1>2

(* A step of one request: it goes on with what it knows of the document. *)
LEMMA KeptMoves ==
  ASSUME CredentialInv, ChainInv, NEW s \in Locked \cup {Setup}, NEW o,
         op' = [op EXCEPT ![s] = o], Kept(o, bitmaps', bits'),
         bitmaps \subseteq bitmaps', bits \subseteq bits'
  PROVE  OpsKept' /\ NoBulk'
<1>1. op \in [Slots -> Ops] /\ s \in Slots
  BY DEF CredentialInv, TypeOK, Slots
<1>2. ASSUME NEW t \in Slots
      PROVE  Kept(op'[t], bitmaps', bits') /\ (t \in Locked \cup {Setup} \/ op'[t] = Idle)
  BY <1>1 DEF ChainInv, OpsKept, NoBulk, Kept
<1> QED
  BY <1>2 DEF OpsKept, NoBulk, Kept, BitOf, getBitmapIndex

(* The same for a step that publishes. *)
LEMMA KeptPublishes ==
  ASSUME OneActive, CredentialInv, ChainInv, NEW s \in Slots, op[s] # Idle,
         NEW label, Published(s, label),
         Kept([op[s] EXCEPT !.pc = label, !.latest = FALSE], bitmaps', bits')
  PROVE  OpsKept' /\ NoBulk'
<1>1. ASSUME NEW t \in Slots \ {s}
      PROVE  op'[t].pc = "idle" /\ op'[t] = Idle
  <2>1. op[t] = Idle
    BY <1>1, Solo
  <2>2. [Idle EXCEPT !.latest = FALSE] = Idle
    <3>1. Idle \in Ops /\ Idle.latest = FALSE
      BY IdleOp DEF Idle
    <3> QED
      BY <3>1 DEF Ops
  <2>3. op'[t] = op[t] \/ op'[t] = [op[t] EXCEPT !.latest = FALSE]
    BY <1>1 DEF Published
  <2>4. op'[t] = Idle
    BY <2>1, <2>2, <2>3
  <2> QED
    BY <2>4 DEF Idle
<1>2. op'[s] = [op[s] EXCEPT !.pc = label, !.latest = FALSE]
  BY DEF Published
<1>3. s \in Locked \cup {Setup}
  BY Solo
<1>4. ASSUME NEW t \in Slots
      PROVE  Kept(op'[t], bitmaps', bits')
  <2>1. CASE t = s
    BY <1>2, <2>1
  <2>2. CASE t # s
    BY <1>1, <2>2 DEF Kept
  <2> QED
    BY <2>1, <2>2
<1> QED
  BY <1>1, <1>3, <1>4 DEF OpsKept, NoBulk, Kept, BitOf, getBitmapIndex

LEMMA ChainStep ==
  ASSUME OneActive, CredentialInv, CredentialInv', ChainInv, [Next]_vars
  PROVE  ChainInv'
<1> DEFINE Moves == OpsKept' /\ NoBulk'
<1> DEFINE Harmless(o) == o.pc \notin {"rv.publish", "su.publish", "rv.mark", "su.save"}
<1>0. /\ op \in [Slots -> Ops]
      /\ OpsKept /\ NoBulk /\ RevokedOnTangle /\ SavedPublished
      /\ revoked \subseteq issued
      /\ BitsOwn /\ BitsOwn'
      /\ Setup \in Slots /\ Locked \subseteq Slots
  BY DEF CredentialInv, TypeOK, ChainInv, Slots
<1>a. ASSUME NEW s \in Locked \cup {Setup}, NEW o, op' = [op EXCEPT ![s] = o],
             Harmless(o), chain' = chain
      PROVE  Moves
  BY <1>a, KeptMoves DEF Kept, chain
<1>b. ASSUME Moves, bits' = bits, bitmaps' = bitmaps, revoked' = revoked,
             saved' = saved
      PROVE  ChainInv'
  <2>1. \A i \in revoked : vcs'[i].bit = vcs[i].bit
    <3>1. issued \subseteq issued'
      <4>1. CASE vcs' = vcs
        BY <4>1 DEF issued
      <4>2. CASE \E s \in Locked \cup {Setup} : IssueAdd(s) /\ op[s].index \notin issued
        BY <4>2, AddStep
      <4> QED
        BY <4>1, <4>2, StepKinds DEF Asks, Stores, SetsBit
    <3> QED
      BY <1>0, <3>1 DEF BitsOwn, BitOf, getBitmapIndex
  <2> QED
    BY <1>0, <1>b, <2>1 DEF ChainInv, RevokedOnTangle, SavedPublished
<1>c. ASSUME NEW s \in Locked \cup {Setup}, NEW o, op' = [op EXCEPT ![s] = o],
             Harmless(o), UNCHANGED <<revoked, saved, chain>>
      PROVE  ChainInv'
  BY <1>a, <1>b, <1>c DEF chain
<1>1. ASSUME NEW s \in Locked, IssueStart(s)
      PROVE  ChainInv'
  <2>1. \E u \in Users : op' = [op EXCEPT ![s] = Started("is.bitmap", u)]
    BY <1>1 DEF IssueStart
  <2>2. \A u \in Users : Harmless(Started("is.bitmap", u))
    BY DEF Started, Idle
  <2> QED
    BY <1>1, <1>c, <2>1, <2>2 DEF IssueStart, db
<1>2. ASSUME NEW s \in Locked \cup {Setup}, Issue(s)
      PROVE  ChainInv'
  <2>1. \E o : Harmless(o) /\ op' = [op EXCEPT ![s] = o]
    <3> DEFINE o1 == [op[s] EXCEPT !.bitmap = getBitmapIndex(NextIndex), !.pc = "is.index"]
               o2 == [op[s] EXCEPT !.index = NextIndex, !.pc = "is.add"]
               o3 == [op[s] EXCEPT !.pc = "is.readUser"]
               o4 == [op[s] EXCEPT !.list = listed[op[s].user], !.pc = "is.writeUser"]
    <3>1. Harmless(Idle)
      BY DEF Idle
    <3>2. Harmless(o1) /\ Harmless(o2) /\ Harmless(o3) /\ Harmless(o4)
      BY <1>0 DEF Ops
    <3>3. CASE IssueReadBitmap(s)
      <4>1. op' = [op EXCEPT ![s] = o1]
        BY <3>3 DEF IssueReadBitmap
      <4> QED
        BY <3>2, <4>1
    <3>4. CASE IssueReadIndex(s)
      <4>1. op' = [op EXCEPT ![s] = o2]
        BY <3>4 DEF IssueReadIndex
      <4> QED
        BY <3>2, <4>1
    <3>5. CASE IssueAdd(s)
      <4>1. op' = [op EXCEPT ![s] = Idle] \/ op' = [op EXCEPT ![s] = o3]
        BY <3>5 DEF IssueAdd, End, Goto
      <4> QED
        BY <3>1, <3>2, <4>1
    <3>6. CASE IssueReadUser(s)
      <4>1. op' = [op EXCEPT ![s] = Idle] \/ op' = [op EXCEPT ![s] = o4]
        BY <3>6 DEF IssueReadUser, End
      <4> QED
        BY <3>1, <3>2, <4>1
    <3>7. CASE IssueWriteUser(s)
      BY <3>1, <3>7 DEF IssueWriteUser, End
    <3> QED
      BY <1>2, <3>3, <3>4, <3>5, <3>6, <3>7 DEF Issue
  <2>2. UNCHANGED <<revoked, saved, chain>>
    BY <1>2 DEF Issue, IssueReadBitmap, IssueReadIndex, IssueAdd, IssueReadUser,
       IssueWriteUser, db
  <2> QED
    BY <1>c, <2>1, <2>2
<1>3. ASSUME NEW s \in Locked, RevokeStart(s)
      PROVE  ChainInv'
  <2>1. \E i \in issued : op' = [op EXCEPT ![s] = StartedRevoke(i)]
    BY <1>3 DEF RevokeStart
  <2>2. \A i \in issued : Harmless(StartedRevoke(i))
    BY DEF StartedRevoke, Idle
  <2> QED
    BY <1>3, <1>c, <2>1, <2>2 DEF RevokeStart, db
<1>4. ASSUME NEW s \in Slots, op[s].pc # "idle"
      PROVE  op[s] # Idle /\ s \in Locked \cup {Setup}
  <2>1. op[s] # Idle
    BY <1>4 DEF Idle
  <2> QED
    BY <2>1, Solo
<1>5. ASSUME NEW s \in Locked \cup Bulk, Revoke(s)
      PROVE  s \in Slots /\ s \in Locked \cup {Setup} /\ op[s] # Idle
  <2>1. s \in Slots
    BY DEF Slots
  <2>2. op[s].pc # "idle"
    BY <1>5 DEF Revoke, RevokeResolve, RevokePublish, RevokeMark, RevokeReadUser,
       RevokeWriteUser
  <2> QED
    BY <1>4, <2>1, <2>2
<1>6. ASSUME NEW s \in Locked \cup Bulk, RevokeResolve(s)
      PROVE  ChainInv'
  <2> DEFINE o == [op[s] EXCEPT !.latest = TRUE, !.pc = "rv.publish"]
  <2>1. s \in Slots /\ s \in Locked \cup {Setup}
    BY <1>5, <1>6 DEF Revoke
  <2>2. Kept(o, bitmaps, bits) /\ Harmless(Idle)
    BY <1>0, <2>1 DEF Kept, Idle, Ops
  <2>3. bits' = bits /\ bitmaps' = bitmaps /\ revoked' = revoked /\ saved' = saved
    BY <1>6 DEF RevokeResolve, db, chain
  <2>4. End(s) \/ op' = [op EXCEPT ![s] = o]
    BY <1>6 DEF RevokeResolve
  <2>5. CASE End(s)
    BY <1>c, <2>1, <2>2, <2>3, <2>5 DEF End, chain
  <2>6. CASE op' = [op EXCEPT ![s] = o]
    BY <1>b, <2>1, <2>2, <2>3, <2>6, KeptMoves
  <2> QED
    BY <2>4, <2>5, <2>6
<1>7. ASSUME NEW s \in Locked \cup Bulk, RevokePublish(s)
      PROVE  ChainInv'
  <2> DEFINE o == [op[s] EXCEPT !.pc = "rv.mark", !.latest = FALSE]
  <2>1. s \in Slots /\ op[s] # Idle
    BY <1>5, <1>7 DEF Revoke
  <2>2. bits' = bits \cup {BitOf(op[s].index)}
    BY <1>0, <1>7, <2>1 DEF RevokePublish, OpsKept, Kept
  <2>3. o.pc = "rv.mark" /\ o.index = op[s].index
    BY <1>0, <2>1 DEF Ops
  <2>4. Kept(o, bitmaps', bits')
    BY <2>2, <2>3 DEF Kept
  <2>5. Moves
    BY <1>7, <2>1, <2>4, KeptPublishes DEF RevokePublish
  <2>6. vcs' = vcs /\ revoked' = revoked /\ saved' = saved /\ bitmaps' = bitmaps
    BY <1>7 DEF RevokePublish, db
  <2> QED
    BY <1>0, <2>2, <2>5, <2>6 DEF ChainInv, RevokedOnTangle, SavedPublished
<1>8. ASSUME NEW s \in Locked \cup Bulk, RevokeMark(s)
      PROVE  ChainInv'
  <2> DEFINE i == op[s].index
  <2>1. s \in Slots /\ s \in Locked \cup {Setup}
    BY <1>5, <1>8 DEF Revoke
  <2>2. BitOf(i) \in bits
    BY <1>0, <1>8, <2>1 DEF RevokeMark, OpsKept, Kept
  <2>3. i \in issued
    BY <1>8, <2>1 DEF CredentialInv, TypeOK, OpsKnow, Knows, Revoking, RevokeMark
  <2>4. vcs[i].bit \in bits
    BY <1>0, <2>2, <2>3 DEF BitsOwn
  <2>5. Harmless([op[s] EXCEPT !.pc = "rv.readUser"])
    BY <1>0, <2>1 DEF Ops
  <2>6. Moves
    BY <1>8, <1>a, <2>1, <2>5 DEF RevokeMark, Goto
  <2>7. vcs' = vcs /\ revoked' = revoked \cup {i} /\ saved' = saved
        /\ bits' = bits /\ bitmaps' = bitmaps
    BY <1>8 DEF RevokeMark, chain
  <2> QED
    BY <1>0, <2>4, <2>6, <2>7 DEF ChainInv, RevokedOnTangle, SavedPublished
<1>9. ASSUME NEW s \in Locked \cup Bulk, RevokeReadUser(s) \/ RevokeWriteUser(s)
      PROVE  ChainInv'
  <2>1. s \in Slots /\ s \in Locked \cup {Setup}
    BY <1>5, <1>9 DEF Revoke
  <2>2. Harmless(Idle)
    BY DEF Idle
  <2>3. Harmless([op[s] EXCEPT !.list = listed[op[s].user], !.pc = "rv.writeUser"])
    BY <1>0, <2>1 DEF Ops
  <2>4. \E o : Harmless(o) /\ op' = [op EXCEPT ![s] = o]
    BY <1>9, <2>2, <2>3 DEF RevokeReadUser, RevokeWriteUser, End
  <2>5. UNCHANGED <<revoked, saved, chain>>
    BY <1>9 DEF RevokeReadUser, RevokeWriteUser, db
  <2> QED
    BY <1>c, <2>1, <2>4, <2>5
<1>10. ASSUME NEW u \in Users, AddUser(u)
       PROVE  ChainInv'
  BY <1>0, <1>b, <1>10 DEF AddUser, db, chain, OpsKept, NoBulk, Kept, BitOf,
     getBitmapIndex
<1>11. CASE SetupStart
  <2>1. Harmless([Started("su.bitmap", Server) EXCEPT !.list = listed[Server]])
    BY DEF Started, Idle
  <2> QED
    BY <1>11, <1>c, <2>1 DEF SetupStart, db
<1>12. Harmless(IF op[Setup].list = {} THEN Started("is.bitmap", Server) ELSE Idle)
  BY DEF Started, Idle
<1>13. CASE SetupGetBitmap
  <2>1. Harmless([op[Setup] EXCEPT !.bitmap = getBitmapIndex(NextIndex),
                                   !.pc = "su.resolve"])
    BY <1>0 DEF Ops
  <2>2. \E o : Harmless(o) /\ op' = [op EXCEPT ![Setup] = o]
    BY <1>12, <1>13, <2>1 DEF SetupGetBitmap, BitmapFound
  <2>3. UNCHANGED <<revoked, saved, chain>>
    BY <1>13 DEF SetupGetBitmap, db
  <2> QED
    BY <1>c, <2>2, <2>3
<1>14. CASE SetupResolve
  <2> DEFINE o == [op[Setup] EXCEPT !.latest = TRUE, !.pc = "su.publish"]
  <2>1. Kept(o, bitmaps, bits)
    BY <1>0 DEF Kept, Ops
  <2>2. bits' = bits /\ bitmaps' = bitmaps /\ revoked' = revoked /\ saved' = saved
    BY <1>14 DEF SetupResolve, db, chain
  <2>3. op' = [op EXCEPT ![Setup] = o]
    BY <1>14 DEF SetupResolve
  <2> QED
    BY <1>b, <2>1, <2>2, <2>3, KeptMoves
<1>15. CASE SetupPublish
  <2> DEFINE o == [op[Setup] EXCEPT !.pc = "su.save", !.latest = FALSE]
  <2>1. op[Setup] # Idle
    BY <1>0, <1>4, <1>15 DEF SetupPublish
  <2>2. bitmaps' = bitmaps \cup {op[Setup].bitmap}
    BY <1>0, <1>15 DEF SetupPublish, OpsKept, Kept
  <2>3. o.pc = "su.save" /\ o.bitmap = op[Setup].bitmap
    BY <1>0 DEF Ops
  <2>4. Kept(o, bitmaps', bits')
    BY <2>2, <2>3 DEF Kept
  <2>5. Moves
    BY <1>0, <1>15, <2>1, <2>4, KeptPublishes DEF SetupPublish
  <2>6. vcs' = vcs /\ revoked' = revoked /\ saved' = saved /\ bits' = bits
    BY <1>15 DEF SetupPublish, db
  <2> QED
    BY <1>0, <2>2, <2>5, <2>6 DEF ChainInv, RevokedOnTangle, SavedPublished
<1>16. CASE SetupSave
  <2>1. op[Setup].bitmap \in bitmaps
    BY <1>0, <1>16 DEF SetupSave, OpsKept, Kept
  <2>2. Moves
    BY <1>12, <1>16, <1>a DEF SetupSave, BitmapFound
  <2>3. vcs' = vcs /\ revoked' = revoked /\ saved' = saved \cup {op[Setup].bitmap}
        /\ bits' = bits /\ bitmaps' = bitmaps
    BY <1>16 DEF SetupSave, chain
  <2> QED
    BY <1>0, <2>1, <2>2, <2>3 DEF ChainInv, RevokedOnTangle, SavedPublished
<1>17. ASSUME NEW s \in Slots, Fail(s)
       PROVE  ChainInv'
  <2>1. s \in Locked \cup {Setup}
    BY <1>17, Solo DEF Fail
  <2>2. Harmless(Idle)
    BY DEF Idle
  <2> QED
    BY <1>17, <1>c, <2>1, <2>2 DEF Fail, End, db
<1>18. CASE Crash
  <2>1. \A t \in Slots : op'[t] = Idle \/ op'[t] = op[t]
    BY <1>18 DEF Crash
  <2>2. Kept(Idle, bitmaps, bits)
    BY DEF Kept, Idle
  <2>3. bits' = bits /\ bitmaps' = bitmaps
    BY <1>18 DEF Crash, chain
  <2>4. Moves
    BY <1>0, <2>1, <2>2, <2>3 DEF OpsKept, NoBulk, Kept, BitOf, getBitmapIndex
  <2> QED
    BY <1>18, <1>b, <2>3, <2>4 DEF Crash, db, chain
<1>19. CASE UNCHANGED vars
  BY <1>0, <1>b, <1>19 DEF vars, db, chain, OpsKept, NoBulk, Kept, BitOf,
     getBitmapIndex
<1> QED
  BY <1>1, <1>2, <1>3, <1>6, <1>7, <1>8, <1>9, <1>10, <1>11, <1>13, <1>14, <1>15,
     <1>16, <1>17, <1>18, <1>19
  DEF Next, Revoke, keyGeneration, OneActive

THEOREM ChainInvariant ==
  ASSUME OneActive
  PROVE  Spec => []ChainInv
<1>1. OneAtATime
  BY DEF OneActive
<1>2. CredentialInv /\ CredentialInv' /\ ChainInv /\ [Next]_vars => ChainInv'
  BY ChainStep
<1> QED
  BY <1>1, <1>2, InitChainInv, CredentialInvariant, PTL DEF Spec

(* Whatever fails or crashes: the database calls no credential revoked whose bit
   is not set on the tangle. *)
THEOREM RevokedIsOnTangle ==
  ASSUME OneActive
  PROVE  Spec => []RevokedOnTangle
<1>1. ChainInv => RevokedOnTangle
  BY DEF ChainInv
<1> QED
  BY <1>1, ChainInvariant, PTL

(* Wherever a setup has stopped, the next one creates again what it finds
   missing: a bitmap in the database is on the tangle. *)
THEOREM SavedIsPublished ==
  ASSUME OneActive
  PROVE  Spec => []SavedPublished
<1>1. ChainInv => SavedPublished
  BY DEF ChainInv
<1> QED
  BY <1>1, ChainInvariant, PTL

------------------------------------------------------------------------------
(* The lists of the user documents.  Whoever writes a list has read it before;
   under the lock nobody else has written it since.  A credential that is not
   settled is one of which the request that is active is half-way, or of which
   one has ended half-way.  AddUser makes a document that knows no credentials,
   so it must find none that is settled. *)

Listing == {"is.readUser", "is.writeUser"}

(* What a handler suspended with o knows of its credential and of the list. *)
Lists(o) ==
  /\ o.pc \in Listing \cup Revoking => o.index \in issued /\ vcs[o.index].user = o.user
  /\ o.pc \in Listing => o.index \notin revoked
  /\ o.pc \in {"rv.readUser", "rv.writeUser"} => o.index \in revoked
  /\ o.pc \in {"is.writeUser", "rv.writeUser"} => o.list = listed[o.user]

Settled(i) ==
  LET u == vcs[i].user IN
  /\ doc[u] # "none"
  /\ doc[u] = "user" => (i \in listed[u] <=> i \notin revoked)

ListInv ==
  /\ \A s \in Slots : Lists(op[s])
  /\ \A i \in issued : i \in loose \cup HalfWay(Slots) \/ Settled(i)

LEMMA InitListInv == Init => ListInv
<1> SUFFICES ASSUME Init
             PROVE  ListInv
  OBVIOUS
<1>1. issued = {0} /\ vcs[0].user = Server /\ 0 \notin revoked
  BY DEF Init, issued
<1>2. Settled(0)
  BY <1>1, ServerAssumption DEF Init, Settled
<1>3. \A s \in Slots : Lists(op[s])
  BY DEF Init, Lists, Idle, Listing, Revoking
<1> QED
  BY <1>1, <1>2, <1>3 DEF ListInv

(* The credential the handler suspended with o is half-way with. *)
Half(o) ==
  IF o.pc \in {"is.readUser", "is.writeUser", "rv.mark", "rv.readUser", "rv.writeUser"}
    THEN {o.index} ELSE {}

LEMMA HalfOfSlots ==
  /\ HalfWay(Slots) = UNION {Half(op[s]) : s \in Slots}
  /\ \A s : HalfWay({s}) = Half(op[s])
  BY DEF HalfWay, Half

LEMMA HalfOfSolo ==
  ASSUME NEW s \in Slots, \A t \in Slots \ {s} : op[t] = Idle
  PROVE  HalfWay(Slots) = Half(op[s])
<1>1. Half(Idle) = {}
  BY DEF Half, Idle
<1>2. HalfWay(Slots) = UNION {Half(op[t]) : t \in Slots}
  BY HalfOfSlots
<1>3. \A t \in Slots \ {s} : Half(op[t]) = {}
  BY <1>1
<1> QED
  BY <1>2, <1>3

LEMMA HalfOfSoloNext ==
  ASSUME NEW s \in Slots, \A t \in Slots \ {s} : op'[t] = Idle
  PROVE  HalfWay(Slots)' = Half(op'[s])
<1>1. Half(Idle) = {}
  BY DEF Half, Idle
<1>2. HalfWay(Slots)' = UNION {Half(op'[t]) : t \in Slots}
  BY DEF HalfWay, Half
<1>3. \A t \in Slots \ {s} : Half(op'[t]) = {}
  BY <1>1
<1> QED
  BY <1>2, <1>3

(* A step of the one request that is active: what it goes on with is right, and
   a credential it leaves behind is loose or settled. *)
LEMMA ListMoves ==
  ASSUME NEW s \in Slots,
         \A t \in Slots \ {s} : op[t] = Idle /\ op'[t] = Idle,
         Lists(op[s])',
         \A i \in issued' : i \in loose' \cup Half(op'[s]) \/ Settled(i)'
  PROVE  ListInv'
<1>1. HalfWay(Slots)' = Half(op'[s])
  BY HalfOfSoloNext
<1>2. ASSUME NEW t \in Slots
      PROVE  Lists(op[t])'
  <2>1. CASE t = s
    BY <2>1
  <2>2. CASE t # s
    BY <2>2 DEF Lists, Idle, Listing, Revoking
  <2> QED
    BY <2>1, <2>2
<1> QED
  BY <1>1, <1>2 DEF ListInv

(* The same for a step that changes neither credentials nor documents. *)
LEMMA ListStays ==
  ASSUME CredentialInv, ListInv, NEW s \in Slots, NEW o,
         \A t \in Slots \ {s} : op[t] = Idle /\ op'[t] = Idle, op'[s] = o,
         UNCHANGED <<vcs, revoked, users>>,
         Lists(o), loose \cup Half(op[s]) \subseteq loose' \cup Half(o)
  PROVE  ListInv'
<1>1. vcs' = vcs /\ revoked' = revoked /\ doc' = doc /\ listed' = listed
      /\ issued' = issued
  BY DEF users, issued
<1>2. Lists(op[s])'
  BY <1>1 DEF Lists
<1>3. \A i \in issued : Settled(i)' = Settled(i)
  BY <1>1 DEF Settled
<1>4. \A i \in issued : i \in loose \cup Half(op[s]) \/ Settled(i)
  BY HalfOfSolo DEF ListInv
<1>5. \A i \in issued' : i \in loose' \cup Half(op'[s]) \/ Settled(i)'
  BY <1>1, <1>3, <1>4
<1> QED
  BY <1>2, <1>5, ListMoves

(* What one request's step leaves of the others. *)
LEMMA OthersIdle ==
  ASSUME OneActive, CredentialInv, ChainInv, NEW s \in Slots, op[s] # Idle,
         NEW o, op' = [op EXCEPT ![s] = o]
  PROVE  op'[s] = o /\ \A t \in Slots \ {s} : op[t] = Idle /\ op'[t] = Idle
  BY Solo DEF CredentialInv, TypeOK

LEMMA PublishIdle ==
  ASSUME OneActive, CredentialInv, ChainInv, NEW s \in Slots, op[s] # Idle,
         NEW label, Published(s, label)
  PROVE  /\ op'[s] = [op[s] EXCEPT !.pc = label, !.latest = FALSE]
         /\ \A t \in Slots \ {s} : op[t] = Idle /\ op'[t] = Idle
<1>1. ASSUME NEW t \in Slots \ {s}
      PROVE  op[t] = Idle /\ op'[t] = Idle
  <2>1. op[t] = Idle
    BY Solo
  <2>2. [Idle EXCEPT !.latest = FALSE] = Idle
    <3>1. Idle \in Ops /\ Idle.latest = FALSE
      BY IdleOp DEF Idle
    <3> QED
      BY <3>1 DEF Ops
  <2>3. op'[t] = op[t] \/ op'[t] = [op[t] EXCEPT !.latest = FALSE]
    BY DEF Published
  <2> QED
    BY <2>1, <2>2, <2>3
<1>2. op'[s] = [op[s] EXCEPT !.pc = label, !.latest = FALSE]
  BY DEF Published
<1> QED
  BY <1>1, <1>2

(* Requests start when no other is active. *)
LEMMA StartIdle ==
  ASSUME OneActive, CredentialInv, ChainInv, NEW s \in Locked, Serving, op[s] = Idle,
         NEW o, op' = [op EXCEPT ![s] = o]
  PROVE  op'[s] = o /\ \A t \in Slots \ {s} : op[t] = Idle /\ op'[t] = Idle
<1>1. op \in [Slots -> Ops] /\ s \in Slots
  BY DEF CredentialInv, TypeOK, Slots
<1>2. op[Setup] = Idle
  BY DEF Serving, OneActive, OneAtATime
<1>3. ASSUME NEW t \in Slots \ {s}
      PROVE  op[t] = Idle
  <2>1. CASE t \in Locked
    BY <1>3, <2>1 DEF OneActive, OneAtATime, Locked
  <2>2. CASE t = Setup
    BY <1>2, <2>2
  <2>3. CASE t \notin Locked \cup {Setup}
    BY <2>3 DEF ChainInv, NoBulk
  <2> QED
    BY <2>1, <2>2, <2>3
<1> QED
  BY <1>1, <1>3

------------------------------------------------------------------------------
(* The steps that change a credential or a document. *)

LEMMA AddLists ==
  ASSUME OneActive, CredentialInv, CredentialInv', ChainInv, ListInv,
         NEW s \in Locked \cup {Setup}, IssueAdd(s), op[s].index \notin issued
  PROVE  ListInv'
<1> DEFINE n == op[s].index
           o == [op[s] EXCEPT !.pc = "is.readUser"]
<1>1. s \in Slots /\ op[s] \in Ops /\ op[s] # Idle
  BY DEF CredentialInv, TypeOK, Slots, IssueAdd, Idle
<1>2. op' = [op EXCEPT ![s] = o]
  BY DEF IssueAdd, Goto
<1>3. op'[s] = o /\ \A t \in Slots \ {s} : op[t] = Idle /\ op'[t] = Idle
  BY <1>1, <1>2, OthersIdle
<1>4. o.pc = "is.readUser" /\ o.index = n /\ o.user = op[s].user
  BY <1>1 DEF Ops
<1>5. /\ issued' = issued \cup {n}
      /\ vcs'[n].user = op[s].user
      /\ \A i \in issued : vcs'[i] = vcs[i]
  BY AddStep DEF IssueAdd, issued
<1>6. revoked' = revoked /\ doc' = doc /\ listed' = listed /\ loose' = loose
      /\ n \notin revoked
  BY DEF IssueAdd, users, history, CredentialInv, TypeOK
<1>7. Lists(op[s])'
  BY <1>3, <1>4, <1>5, <1>6 DEF Lists, Listing, Revoking
<1>8. \A i \in issued : Settled(i)' = Settled(i)
  BY <1>5, <1>6 DEF Settled
<1>9. Half(op[s]) = {} /\ Half(op'[s]) = {n}
  BY <1>3, <1>4 DEF Half, IssueAdd
<1>10. \A i \in issued : i \in loose \/ Settled(i)
  BY <1>1, <1>3, <1>9, HalfOfSolo DEF ListInv
<1>11. \A i \in issued' : i \in loose' \cup Half(op'[s]) \/ Settled(i)'
  BY <1>5, <1>6, <1>8, <1>9, <1>10
<1> QED
  BY <1>1, <1>3, <1>7, <1>11, ListMoves

(* addUserVC: nothing the list has had is lost, and the credential is settled. *)
LEMMA WriteLists ==
  ASSUME OneActive, CredentialInv, ChainInv, ListInv,
         NEW s \in Locked \cup {Setup}, IssueWriteUser(s)
  PROVE  ListInv'
<1>0. PICK n, u : n = op[s].index /\ u = op[s].user
  OBVIOUS
<1>1. s \in Slots /\ op[s] \in Ops /\ op[s] # Idle /\ u \in Users
  BY <1>0 DEF CredentialInv, TypeOK, Slots, IssueWriteUser, Idle, Ops
<1>2. op'[s] = Idle /\ \A t \in Slots \ {s} : op[t] = Idle /\ op'[t] = Idle
  BY <1>1, OthersIdle DEF IssueWriteUser, End
<1>3. n \in issued /\ vcs[n].user = u /\ n \notin revoked /\ op[s].list = listed[u]
  BY <1>0, <1>1 DEF ListInv, Lists, IssueWriteUser, Listing
<1>4. /\ vcs' = vcs /\ issued' = issued /\ revoked' = revoked /\ loose' = loose
      /\ listed' = [listed EXCEPT ![u] = listed[u] \cup {n}]
      /\ doc' = [doc EXCEPT ![u] = IF @ = "none" THEN "ghost" ELSE @]
  BY <1>0, <1>3 DEF IssueWriteUser, db, history, issued
<1>5. /\ listed \in [Users -> SUBSET Indices] /\ doc \in [Users -> {"user", "none", "ghost"}]
      /\ \A i \in issued : vcs[i].user \in Users
  BY DEF CredentialInv, TypeOK
<1>6. Settled(n)'
  BY <1>1, <1>3, <1>4, <1>5 DEF Settled
<1>7. ASSUME NEW i \in issued, i # n, Settled(i)
      PROVE  Settled(i)'
  BY <1>1, <1>4, <1>5, <1>7 DEF Settled
<1>8. Half(op[s]) = {n}
  BY <1>0 DEF Half, IssueWriteUser
<1>9. \A i \in issued : i \in loose \cup {n} \/ Settled(i)
  BY <1>1, <1>2, <1>8, HalfOfSolo DEF ListInv
<1>10. \A i \in issued' : i \in loose' \cup Half(op'[s]) \/ Settled(i)'
  BY <1>4, <1>6, <1>7, <1>9
<1>11. Lists(op[s])'
  BY <1>2 DEF Lists, Idle, Listing, Revoking
<1> QED
  BY <1>1, <1>2, <1>10, <1>11, ListMoves

(* What a revocation in hand is about. *)
LEMMA RevokeSlot ==
  ASSUME OneActive, CredentialInv, ChainInv, ListInv, NEW s \in Locked \cup Bulk,
         Revoke(s)
  PROVE  /\ s \in Slots /\ op[s] \in Ops /\ op[s] # Idle
         /\ op[s].index \in issued /\ vcs[op[s].index].user = op[s].user
         /\ op[s].user \in Users
<1>1. s \in Slots /\ op[s] \in Ops
  BY DEF CredentialInv, TypeOK, Slots
<1>2. op[s].pc \in Revoking
  BY DEF Revoke, RevokeResolve, RevokePublish, RevokeMark, RevokeReadUser,
     RevokeWriteUser, Revoking
<1>3. op[s] # Idle
  BY <1>2 DEF Revoking, Idle
<1>4. Lists(op[s])
  BY <1>1 DEF ListInv
<1> QED
  BY <1>1, <1>2, <1>3, <1>4 DEF Lists, Ops

LEMMA MarkLists ==
  ASSUME OneActive, CredentialInv, ChainInv, ListInv,
         NEW s \in Locked \cup Bulk, RevokeMark(s)
  PROVE  ListInv'
<1> DEFINE n == op[s].index
           o == [op[s] EXCEPT !.pc = "rv.readUser"]
<1>1. /\ s \in Slots /\ op[s] \in Ops /\ op[s] # Idle
      /\ n \in issued /\ vcs[n].user = op[s].user
  BY RevokeSlot DEF Revoke
<1>2. op' = [op EXCEPT ![s] = o]
  BY DEF RevokeMark, Goto
<1>3. op'[s] = o /\ \A t \in Slots \ {s} : op[t] = Idle /\ op'[t] = Idle
  BY <1>1, <1>2, OthersIdle
<1>4. o.pc = "rv.readUser" /\ o.index = n /\ o.user = op[s].user
  BY <1>1 DEF Ops
<1>5. /\ vcs' = vcs /\ issued' = issued /\ doc' = doc /\ listed' = listed
      /\ loose' = loose /\ revoked' = revoked \cup {n}
  BY DEF RevokeMark, users, history, issued
<1>6. Lists(op[s])'
  BY <1>1, <1>3, <1>4, <1>5 DEF Lists, Listing, Revoking
<1>7. \A i \in issued : i # n => Settled(i)' = Settled(i)
  BY <1>5 DEF Settled
<1>8. Half(op[s]) = {n} /\ Half(op'[s]) = {n}
  BY <1>3, <1>4 DEF Half, RevokeMark
<1>9. \A i \in issued : i \in loose \cup {n} \/ Settled(i)
  BY <1>1, <1>3, <1>8, HalfOfSolo DEF ListInv
<1>10. \A i \in issued' : i \in loose' \cup Half(op'[s]) \/ Settled(i)'
  BY <1>5, <1>7, <1>8, <1>9
<1> QED
  BY <1>1, <1>3, <1>6, <1>10, ListMoves

(* removeUserVC: of the list only the credential revoked is missing. *)
LEMMA RemoveLists ==
  ASSUME OneActive, CredentialInv, ChainInv, ListInv,
         NEW s \in Locked \cup Bulk, RevokeWriteUser(s)
  PROVE  ListInv'
<1>0. PICK n, u : n = op[s].index /\ u = op[s].user
  OBVIOUS
<1>1. /\ s \in Slots /\ op[s] \in Ops /\ op[s] # Idle
      /\ n \in issued /\ vcs[n].user = u /\ u \in Users
  BY <1>0, RevokeSlot DEF Revoke
<1>2. op'[s] = Idle /\ \A t \in Slots \ {s} : op[t] = Idle /\ op'[t] = Idle
  BY <1>1, OthersIdle DEF RevokeWriteUser, End
<1>3. n \in revoked /\ op[s].list = listed[u]
  BY <1>0, <1>1 DEF ListInv, Lists, RevokeWriteUser
<1>4. vcs' = vcs /\ issued' = issued /\ revoked' = revoked /\ doc' = doc
  BY DEF RevokeWriteUser, db, issued
<1>5. /\ listed \in [Users -> SUBSET Indices]
      /\ \A i \in issued : vcs[i].user \in Users
  BY DEF CredentialInv, TypeOK
<1>6. Half(op[s]) = {n}
  BY <1>0 DEF Half, RevokeWriteUser
<1>7. \A i \in issued : i \in loose \cup {n} \/ Settled(i)
  BY <1>1, <1>2, <1>6, HalfOfSolo DEF ListInv
<1>8. Lists(op[s])'
  BY <1>2 DEF Lists, Idle, Listing, Revoking
<1>9. CASE doc[u] = "none"
  <2>1. loose' = loose \cup {n} /\ listed' = listed
    BY <1>0, <1>9 DEF RevokeWriteUser
  <2>2. \A i \in issued : Settled(i)' = Settled(i)
    BY <1>4, <2>1 DEF Settled
  <2>3. \A i \in issued' : i \in loose' \cup Half(op'[s]) \/ Settled(i)'
    BY <1>4, <1>7, <2>1, <2>2
  <2> QED
    BY <1>1, <1>2, <1>8, <2>3, ListMoves
<1>10. CASE doc[u] # "none"
  <2>1. loose' = loose \ {n} /\ listed' = [listed EXCEPT ![u] = listed[u] \ {n}]
    BY <1>0, <1>3, <1>10 DEF RevokeWriteUser
  <2>2. Settled(n)'
    BY <1>1, <1>3, <1>4, <1>5, <1>10, <2>1 DEF Settled
  <2>3. ASSUME NEW i \in issued, i # n, Settled(i)
        PROVE  Settled(i)'
    BY <1>1, <1>4, <1>5, <2>1, <2>3 DEF Settled
  <2>4. \A i \in issued' : i \in loose' \cup Half(op'[s]) \/ Settled(i)'
    BY <1>4, <1>7, <2>1, <2>2, <2>3
  <2> QED
    BY <1>1, <1>2, <1>8, <2>4, ListMoves
<1> QED
  BY <1>9, <1>10

(* A user is added whose credentials, if there are any, are not settled. *)
LEMMA UserLists ==
  ASSUME CredentialInv, ListInv, NEW u \in Users, AddUser(u)
  PROVE  ListInv'
<1>1. /\ vcs' = vcs /\ issued' = issued /\ revoked' = revoked /\ listed' = listed
      /\ op' = op /\ loose' = loose /\ doc[u] = "none"
      /\ doc' = [doc EXCEPT ![u] = "user"]
  BY DEF AddUser, db, history, issued
<1>2. \A i \in issued : vcs[i].user \in Users
  BY DEF CredentialInv, TypeOK
<1>3. ASSUME NEW i \in issued, Settled(i)
      PROVE  Settled(i)'
  BY <1>1, <1>2, <1>3 DEF Settled, CredentialInv, TypeOK
<1>4. HalfWay(Slots)' = HalfWay(Slots)
  BY <1>1 DEF HalfWay
<1>5. \A s \in Slots : Lists(op[s])'
  BY <1>1 DEF ListInv, Lists
<1> QED
  BY <1>1, <1>3, <1>4, <1>5 DEF ListInv

------------------------------------------------------------------------------

LEMMA ListStep ==
  ASSUME OneActive, CredentialInv, CredentialInv', ChainInv, ListInv, [Next]_vars
  PROVE  ListInv'
<1>0. /\ op \in [Slots -> Ops]
      /\ Setup \in Slots /\ Locked \subseteq Slots /\ Bulk \subseteq Slots
      /\ issued \subseteq Indices
      /\ \A s \in Slots : Lists(op[s])
  BY DEF CredentialInv, TypeOK, Slots, ListInv
<1>a. Half(Idle) = {} /\ Lists(Idle)
  BY DEF Half, Lists, Idle, Listing, Revoking
<1>b. ASSUME NEW s \in Slots, NEW o, op[s] # Idle, op' = [op EXCEPT ![s] = o],
             UNCHANGED <<vcs, revoked, users>>, Lists(o),
             loose \cup Half(op[s]) \subseteq loose' \cup Half(o)
      PROVE  ListInv'
  BY <1>b, OthersIdle, ListStays
<1>c. ASSUME NEW s \in Slots, NEW o, op[s] # Idle, op' = [op EXCEPT ![s] = o],
             o.pc \notin Listing \cup Revoking, Half(op[s]) = {},
             UNCHANGED <<vcs, revoked, users, loose>>
      PROVE  ListInv'
  <2>1. Lists(o) /\ Half(o) = {}
    BY <1>c DEF Lists, Half, Listing, Revoking
  <2> QED
    BY <1>b, <1>c, <2>1
<1>d. \A s \in Slots : op[s].pc # "idle" => op[s] # Idle
  BY DEF Idle
<1>1. ASSUME NEW s \in Locked, IssueStart(s)
      PROVE  ListInv'
  <2>1. PICK u \in Users : op' = [op EXCEPT ![s] = Started("is.bitmap", u)]
    BY <1>1 DEF IssueStart
  <2>2. /\ Lists(Started("is.bitmap", u))
        /\ Half(op[s]) = {} /\ Half(Started("is.bitmap", u)) = {}
    BY <1>1 DEF IssueStart, Started, Idle, Lists, Half, Listing, Revoking
  <2> QED
    BY <1>0, <1>1, <2>1, <2>2, StartIdle, ListStays DEF IssueStart, db, history
<1>2. ASSUME NEW s \in Locked \cup {Setup}, IssueReadBitmap(s)
      PROVE  ListInv'
  <2> DEFINE o == [op[s] EXCEPT !.bitmap = getBitmapIndex(NextIndex), !.pc = "is.index"]
  <2>1. op' = [op EXCEPT ![s] = o] /\ o.pc \notin Listing \cup Revoking
    BY <1>0, <1>2 DEF IssueReadBitmap, Ops, Listing, Revoking
  <2>2. Half(op[s]) = {} /\ op[s] # Idle
    BY <1>0, <1>2 DEF IssueReadBitmap, Half, Idle
  <2> QED
    BY <1>0, <1>2, <1>c, <2>1, <2>2 DEF IssueReadBitmap, db, history
<1>3. ASSUME NEW s \in Locked \cup {Setup}, IssueReadIndex(s)
      PROVE  ListInv'
  <2> DEFINE o == [op[s] EXCEPT !.index = NextIndex, !.pc = "is.add"]
  <2>1. op' = [op EXCEPT ![s] = o] /\ o.pc \notin Listing \cup Revoking
    BY <1>0, <1>3 DEF IssueReadIndex, Ops, Listing, Revoking
  <2>2. Half(op[s]) = {} /\ op[s] # Idle
    BY <1>0, <1>3 DEF IssueReadIndex, Half, Idle
  <2> QED
    BY <1>0, <1>3, <1>c, <2>1, <2>2 DEF IssueReadIndex, db, history
<1>4. ASSUME NEW s \in Locked \cup {Setup}, IssueAdd(s), op[s].index \in issued
      PROVE  ListInv'
  <2>1. op' = [op EXCEPT ![s] = Idle] /\ Half(op[s]) = {} /\ op[s] # Idle
    BY <1>4 DEF IssueAdd, End, Half, Idle
  <2> QED
    BY <1>0, <1>4, <1>a, <1>b, <2>1 DEF IssueAdd, history
<1>5. ASSUME NEW s \in Locked \cup {Setup}, IssueReadUser(s)
      PROVE  ListInv'
  <2> DEFINE o == [op[s] EXCEPT !.list = listed[op[s].user], !.pc = "is.writeUser"]
  <2>1. Half(op[s]) = {op[s].index} /\ op[s] # Idle /\ Lists(op[s])
    BY <1>0, <1>5 DEF IssueReadUser, Half, Idle
  <2>2. UNCHANGED <<vcs, revoked, users>>
    BY <1>5 DEF IssueReadUser, db
  <2>3. CASE End(s) /\ loose' = loose \cup {op[s].index}
    BY <1>0, <1>a, <1>b, <2>1, <2>2, <2>3 DEF End
  <2>4. CASE op' = [op EXCEPT ![s] = o] /\ loose' = loose
    <3>1. /\ o.pc = "is.writeUser" /\ o.index = op[s].index /\ o.user = op[s].user
          /\ o.list = listed[op[s].user]
      BY <1>0 DEF Ops
    <3>2. Lists(o) /\ Half(o) = {op[s].index}
      BY <1>5, <2>1, <3>1 DEF IssueReadUser, Lists, Half, Listing, Revoking
    <3> QED
      BY <1>0, <1>b, <2>1, <2>2, <2>4, <3>2
  <2> QED
    BY <1>5, <2>3, <2>4 DEF IssueReadUser
<1>6. ASSUME NEW s \in Locked, RevokeStart(s)
      PROVE  ListInv'
  <2>1. PICK i \in issued : op' = [op EXCEPT ![s] = StartedRevoke(i)]
    BY <1>6 DEF RevokeStart
  <2>2. /\ Lists(StartedRevoke(i))
        /\ Half(op[s]) = {} /\ Half(StartedRevoke(i)) = {}
    BY <1>6 DEF RevokeStart, StartedRevoke, Idle, Lists, Half, Listing, Revoking
  <2> QED
    BY <1>0, <1>6, <2>1, <2>2, StartIdle, ListStays DEF RevokeStart, db
<1>7. ASSUME NEW s \in Locked \cup Bulk, RevokeResolve(s)
      PROVE  ListInv'
  <2> DEFINE o == [op[s] EXCEPT !.latest = TRUE, !.pc = "rv.publish"]
  <2>1. Half(op[s]) = {} /\ op[s] # Idle /\ Lists(op[s])
    BY <1>0, <1>7 DEF RevokeResolve, Half, Idle
  <2>2. UNCHANGED <<vcs, revoked, users, loose>>
    BY <1>7 DEF RevokeResolve, db, history
  <2>3. CASE End(s)
    BY <1>0, <1>a, <1>b, <2>1, <2>2, <2>3 DEF End
  <2>4. CASE op' = [op EXCEPT ![s] = o]
    <3>1. /\ o.pc = "rv.publish" /\ o.index = op[s].index /\ o.user = op[s].user
      BY <1>0 DEF Ops
    <3>2. Lists(o) /\ Half(o) = {}
      BY <1>7, <2>1, <3>1 DEF RevokeResolve, Lists, Half, Listing, Revoking
    <3> QED
      BY <1>0, <1>b, <2>1, <2>2, <2>4, <3>2
  <2> QED
    BY <1>7, <2>3, <2>4 DEF RevokeResolve
<1>8. ASSUME NEW s \in Locked \cup Bulk, RevokePublish(s)
      PROVE  ListInv'
  <2> DEFINE o == [op[s] EXCEPT !.pc = "rv.mark", !.latest = FALSE]
  <2>1. Half(op[s]) = {} /\ op[s] # Idle /\ Lists(op[s])
    BY <1>0, <1>8 DEF RevokePublish, Half, Idle
  <2>2. UNCHANGED <<vcs, revoked, users, loose>>
    BY <1>8 DEF RevokePublish, db, history
  <2>3. o.pc = "rv.mark" /\ o.index = op[s].index /\ o.user = op[s].user
    BY <1>0 DEF Ops
  <2>4. Lists(o) /\ loose \cup Half(op[s]) \subseteq loose \cup Half(o)
    BY <1>8, <2>1, <2>3 DEF RevokePublish, Lists, Half, Listing, Revoking
  <2>5. op'[s] = o /\ \A t \in Slots \ {s} : op[t] = Idle /\ op'[t] = Idle
    BY <1>0, <1>8, <2>1, PublishIdle DEF RevokePublish
  <2> QED
    BY <1>0, <2>2, <2>4, <2>5, ListStays
<1>9. ASSUME NEW s \in Locked \cup Bulk, RevokeReadUser(s)
      PROVE  ListInv'
  <2> DEFINE o == [op[s] EXCEPT !.list = listed[op[s].user], !.pc = "rv.writeUser"]
  <2>1. Half(op[s]) = {op[s].index} /\ op[s] # Idle /\ Lists(op[s])
    BY <1>0, <1>9 DEF RevokeReadUser, Half, Idle
  <2>2. UNCHANGED <<vcs, revoked, users>>
    BY <1>9 DEF RevokeReadUser, db
  <2>3. CASE End(s) /\ loose' = loose \cup {op[s].index}
    BY <1>0, <1>a, <1>b, <2>1, <2>2, <2>3 DEF End
  <2>4. CASE op' = [op EXCEPT ![s] = o] /\ loose' = loose
    <3>1. /\ o.pc = "rv.writeUser" /\ o.index = op[s].index /\ o.user = op[s].user
          /\ o.list = listed[op[s].user]
      BY <1>0 DEF Ops
    <3>2. Lists(o) /\ Half(o) = {op[s].index}
      BY <1>9, <2>1, <3>1 DEF RevokeReadUser, Lists, Half, Listing, Revoking
    <3> QED
      BY <1>0, <1>b, <2>1, <2>2, <2>4, <3>2
  <2> QED
    BY <1>9, <2>3, <2>4 DEF RevokeReadUser
<1>10. CASE SetupStart
  <2> DEFINE o == [Started("su.bitmap", Server) EXCEPT !.list = listed[Server]]
  <2>1. \A t \in Slots : op[t] = Idle
    BY <1>10 DEF SetupStart, OneActive, OneAtATime
  <2>2. op' = [op EXCEPT ![Setup] = o] /\ UNCHANGED <<vcs, revoked, users, loose>>
    BY <1>10 DEF SetupStart, db, history
  <2>3. o.pc = "su.bitmap"
    BY DEF Started, Idle
  <2>4. Lists(o) /\ Half(o) = {}
    BY <2>3 DEF Lists, Half, Listing, Revoking
  <2>5. op'[Setup] = o /\ \A t \in Slots \ {Setup} : op[t] = Idle /\ op'[t] = Idle
    BY <1>0, <2>1, <2>2
  <2> QED
    BY <1>0, <1>a, <2>1, <2>2, <2>4, <2>5, ListStays
<1>11. CASE keyGeneration
  <2>1. UNCHANGED <<vcs, revoked, users, loose>>
    BY <1>11 DEF keyGeneration, SetupGetBitmap, SetupResolve, SetupPublish, SetupSave,
       db, history
  <2>2. Half(op[Setup]) = {} /\ op[Setup] # Idle
    BY <1>11 DEF keyGeneration, SetupGetBitmap, SetupResolve, SetupPublish, SetupSave,
       Half, Idle
  <2> DEFINE o1 == IF op[Setup].list = {} THEN Started("is.bitmap", Server) ELSE Idle
             o2 == [op[Setup] EXCEPT !.bitmap = getBitmapIndex(NextIndex),
                                     !.pc = "su.resolve"]
             o3 == [op[Setup] EXCEPT !.latest = TRUE, !.pc = "su.publish"]
             o4 == [op[Setup] EXCEPT !.pc = "su.save", !.latest = FALSE]
  <2>3. o1.pc \notin Listing \cup Revoking
    BY DEF Started, Idle, Listing, Revoking
  <2>4. o2.pc = "su.resolve" /\ o3.pc = "su.publish" /\ o4.pc = "su.save"
    BY <1>0 DEF Ops
  <2>5. /\ o2.pc \notin Listing \cup Revoking /\ o3.pc \notin Listing \cup Revoking
        /\ o4.pc \notin Listing \cup Revoking
    BY <2>4 DEF Listing, Revoking
  <2>6. CASE op' = [op EXCEPT ![Setup] = o1]
    BY <1>0, <1>c, <2>1, <2>2, <2>3, <2>6
  <2>7. CASE op' = [op EXCEPT ![Setup] = o2]
    BY <1>0, <1>c, <2>1, <2>2, <2>5, <2>7
  <2>8. CASE op' = [op EXCEPT ![Setup] = o3]
    BY <1>0, <1>c, <2>1, <2>2, <2>5, <2>8
  <2>9. CASE SetupPublish
    <3>1. op'[Setup] = o4 /\ \A t \in Slots \ {Setup} : op[t] = Idle /\ op'[t] = Idle
      BY <1>0, <2>2, <2>9, PublishIdle DEF SetupPublish
    <3>2. Lists(o4) /\ Half(o4) = {}
      BY <2>4 DEF Lists, Half, Listing, Revoking
    <3> QED
      BY <1>0, <2>1, <2>2, <3>1, <3>2, ListStays
  <2> QED
    BY <1>11, <2>6, <2>7, <2>8, <2>9 DEF keyGeneration, SetupGetBitmap, SetupResolve,
       SetupSave, BitmapFound
<1>12. ASSUME NEW s \in Slots, Fail(s)
       PROVE  ListInv'
  <2>1. HalfWay({s}) = Half(op[s])
    BY HalfOfSlots
  <2>2. UNCHANGED <<vcs, revoked, users>> /\ op[s] # Idle
    BY <1>12 DEF Fail, db
  <2> QED
    BY <1>12, <1>a, <1>b, <2>1, <2>2 DEF Fail, End
<1>13. CASE Crash
  <2>1. PICK process \in {Slots \ {Setup}, {Setup}} :
          /\ \E s \in process : op[s] # Idle
          /\ op' = [s \in Slots |-> IF s \in process THEN Idle ELSE op[s]]
          /\ loose' = loose \cup HalfWay(process)
    BY <1>13 DEF Crash
  <2>2. PICK s \in process : op[s] # Idle
    BY <2>1
  <2>3. s \in Slots /\ \A t \in Slots \ {s} : op[t] = Idle
    BY <1>0, <2>2, Solo
  <2>4. op'[s] = Idle /\ \A t \in Slots \ {s} : op[t] = Idle /\ op'[t] = Idle
    BY <2>1, <2>2, <2>3
  <2>5. Half(op[s]) \subseteq HalfWay(process)
    BY <2>2 DEF Half, HalfWay
  <2>6. UNCHANGED <<vcs, revoked, users>>
    BY <1>13 DEF Crash, db
  <2> QED
    BY <1>a, <2>1, <2>3, <2>4, <2>5, <2>6, ListStays
<1>14. CASE UNCHANGED vars
  <2>1. /\ vcs' = vcs /\ revoked' = revoked /\ doc' = doc /\ listed' = listed
        /\ op' = op /\ loose' = loose /\ issued' = issued
    BY <1>14 DEF vars, db, users, history, issued
  <2>2. HalfWay(Slots)' = HalfWay(Slots) /\ \A i \in issued : Settled(i)' = Settled(i)
    BY <2>1 DEF HalfWay, Settled
  <2>3. \A s \in Slots : Lists(op[s])'
    BY <1>0, <2>1 DEF Lists
  <2> QED
    BY <2>1, <2>2, <2>3 DEF ListInv
<1> QED
  BY <1>1, <1>2, <1>3, <1>4, <1>5, <1>6, <1>7, <1>8, <1>9, <1>10, <1>11, <1>12, <1>13,
     <1>14, AddLists, WriteLists, MarkLists, RemoveLists, UserLists
  DEF Next, Issue, Revoke, OneActive

THEOREM ListInvariant ==
  ASSUME OneActive
  PROVE  Spec => []ListInv
<1>1. OneAtATime
  BY DEF OneActive
<1>2. CredentialInv /\ CredentialInv' /\ ChainInv /\ ListInv /\ [Next]_vars => ListInv'
  BY ListStep
<1> QED
  BY <1>1, <1>2, InitListInv, CredentialInvariant, ChainInvariant, PTL DEF Spec

(* With one request let in at a time the document of a registered user lists her
   credentials that are not revoked and no other, whatever fails or crashes, but
   for those of which a request is half-way or has ended half-way. *)
THEOREM ListsExact ==
  ASSUME OneActive
  PROVE  Spec => []ListExact
<1>1. ListInv => ListExact
  BY DEF ListInv, ListExact, Settled
<1> QED
  BY <1>1, ListInvariant, PTL

==============================================================================

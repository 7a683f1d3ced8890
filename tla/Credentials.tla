----------------------------- MODULE Credentials -----------------------------
(***************************************************************************)
(* Verifiable credentials of the ssi-bridge: services/verification-service *)
(* and ssi-service, database/verifiable-credentials, revocation-bitmap and *)
(* user, and what setup/key-generator does once there is a root identity.  *)
(*                                                                         *)
(* A credential is revoked by setting its bit in a bitmap that is part of  *)
(* the issuer's identity document.  The document is a chain of messages on *)
(* the tangle: a handler resolves the latest one, changes it and publishes *)
(* the result with the id of the message it has resolved.  Of two messages *)
(* that name the same predecessor the first is the one that counts (this   *)
(* is the identity library's part), so a published document replaces the   *)
(* latest one only if that still is the one its handler had resolved.      *)
(*                                                                         *)
(* op[s].pc is the await at which the request in slot s is suspended.      *)
(***************************************************************************)
EXTENDS Integers, FiniteSets

CONSTANTS
  Users,         \* who may get credentials
  Server,        \* the server's own identity, the issuer
  LockSlots,     \* how many requests under the credential-lock are served side
                 \* by side: one as long as the lock holds
  Deleted,       \* the users that are deleted, which is not under the lock;
                 \* without the server the setup would make a new root identity
  SetupBeside,   \* whether setup-api runs beside the server, or before it
  Faults,        \* what goes wrong, see FaultKinds
  BitmapSize,    \* how many credentials share a bitmap, 100000 in the code
  MaxNumberOfVc, \* how many credentials a user document lists, 100 in the code
  MaxIssued      \* bound: how many credentials are issued

FaultKinds ==
  {"fail",    \* a call to the tangle or the database is rejected
   "crash"}   \* a process exits and is started again

ASSUME ServerAssumption == Server \in Users
ASSUME DeletedAssumption == Deleted \subseteq Users \ {Server}
ASSUME SetupAssumption == SetupBeside \in BOOLEAN
ASSUME CredentialFaultsAssumption == Faults \subseteq FaultKinds
ASSUME SizesAssumption ==
  /\ BitmapSize \in Nat \ {0}
  /\ MaxNumberOfVc \in Nat \ {0}
  /\ MaxIssued \in Nat \ {0}

Indices == 0 .. MaxIssued - 1

Locked == {"lock"} \X LockSlots
Deletes == {"delete"} \X Deleted
Bulk == {"bulk"} \X Indices     \* the calls of revokeVerifiableCredentials
Setup == <<"setup", Server>>
Slots == Locked \cup Deletes \cup Bulk \cup {Setup}

VARIABLES
  vcs,      \* the stored credentials by index: their subject, and the bitmap
            \* and key in it that the signed credential itself names
  revoked,  \* the credentials stored as isRevoked
  bitmaps,  \* the bitmaps of the latest identity document
  bits,     \* the bits set in them, as pairs of bitmap and key
  saved,    \* the bitmaps the database knows
  doc,      \* users: "user", "none" if there is no document, "ghost" if all it
            \* has is a list of credentials
  listed,   \* users: verifiableCredentials, by index
  op,       \* the requests being served
  asked,    \* history: the credentials somebody asked to revoke
  cleared,  \* history: those a DELETE with revoke-credentials has answered for
  loose     \* history: those of which a request ended half-way

db == <<vcs, revoked, saved>>
chain == <<bitmaps, bits>>
users == <<doc, listed>>
history == <<asked, cleared, loose>>
vars == <<db, chain, users, op, history>>

------------------------------------------------------------------------------

issued == DOMAIN vcs

(* maxIndex + 1, or 0 when there is no credential. *)
NextIndex == CHOOSE n \in 0 .. MaxIssued :
  /\ \A i \in issued : i < n
  /\ n = 0 \/ n - 1 \in issued

getBitmapIndex(i) == i \div BitmapSize

(* A plausible bug: the key is looked for in the first bitmap. *)
BitOfFirstBitmap(i) == <<0, i % BitmapSize>>

(* A plausible bug: the key is the index itself. *)
BitOfNoModulo(i) == <<getBitmapIndex(i), i>>

(* Where a revocation looks for the bit of a stored credential. *)
BitOf(i) == <<getBitmapIndex(i), i % BitmapSize>>

(* user and index: the credential the request is about; bitmap: the bitmap it
   has computed; list: the credentials of the user it has read; latest: whether
   the message it has resolved still is the latest. *)
Idle == [pc |-> "idle", user |-> Server, index |-> 0, bitmap |-> 0,
         list |-> {}, latest |-> FALSE]

Started(label, u) == [Idle EXCEPT !.pc = label, !.user = u]

Goto(s, label) == op' = [op EXCEPT ![s].pc = label]

End(s) == op' = [op EXCEPT ![s] = Idle]

Serving == SetupBeside \/ op[Setup] = Idle

Init ==
  /\ vcs = [i \in {0} |-> [user |-> Server, bit |-> BitOf(0)]]
  /\ revoked = {}
  /\ bitmaps = {0}
  /\ bits = {}
  /\ saved = {0}
  /\ doc = [u \in Users |-> IF u = Server THEN "user" ELSE "none"]
  /\ listed = [u \in Users |-> IF u = Server THEN {0} ELSE {}]
  /\ op = [s \in Slots |-> Idle]
  /\ asked = {} /\ cleared = {} /\ loose = {}

------------------------------------------------------------------------------
(* issueVerifiableCredential *)

IssueStart(s) ==
  /\ Serving
  /\ op[s] = Idle
  /\ NextIndex < MaxIssued
  /\ \E u \in Users : op' = [op EXCEPT ![s] = Started("is.bitmap", u)]
  /\ UNCHANGED <<db, chain, users, history>>

(* A plausible bug: the bitmap of the last credential, not of the next. *)
IssueReadBitmapOfLast(s) ==
  /\ op[s].pc = "is.bitmap"
  /\ op' = [op EXCEPT ![s].bitmap = getBitmapIndex(NextIndex - 1),
                      ![s].pc = "is.index"]
  /\ UNCHANGED <<db, chain, users, history>>

IssueReadBitmap(s) ==
  /\ op[s].pc = "is.bitmap"
  /\ op' = [op EXCEPT ![s].bitmap = getBitmapIndex(NextIndex), ![s].pc = "is.index"]
  /\ UNCHANGED <<db, chain, users, history>>

(* The index is read a second time, then the keys of the issuer. *)
IssueReadIndex(s) ==
  /\ op[s].pc = "is.index"
  /\ NextIndex < MaxIssued
  /\ op' = [op EXCEPT ![s].index = NextIndex, ![s].pc = "is.add"]
  /\ UNCHANGED <<db, chain, users, history>>

(* The credential is signed and stored; a second one of an index throws. *)
IssueAdd(s) ==
  LET n == op[s].index IN
  /\ op[s].pc = "is.add"
  /\ IF n \in issued
       THEN End(s) /\ UNCHANGED vcs
       ELSE /\ vcs' = [i \in issued \cup {n} |->
                         IF i = n THEN [user |-> op[s].user,
                                        bit |-> <<op[s].bitmap, n % BitmapSize>>]
                                  ELSE vcs[i]]
            /\ Goto(s, "is.readUser")
  /\ UNCHANGED <<revoked, saved, chain, users, history>>

(* addUserVC reads the list and writes it back, upsert: TRUE. *)
IssueReadUser(s) ==
  LET list == listed[op[s].user] IN
  /\ op[s].pc = "is.readUser"
  /\ IF Cardinality(list) >= MaxNumberOfVc
       THEN End(s) /\ loose' = loose \cup {op[s].index}
       ELSE /\ op' = [op EXCEPT ![s].list = list, ![s].pc = "is.writeUser"]
            /\ UNCHANGED loose
  /\ UNCHANGED <<db, chain, users, asked, cleared>>

(* A plausible bug: the credentials read are not written back. *)
IssueWriteUserAlone(s) ==
  /\ op[s].pc = "is.writeUser"
  /\ listed' = [listed EXCEPT ![op[s].user] = {op[s].index}]
  /\ End(s)
  /\ UNCHANGED <<db, chain, doc, history>>

IssueWriteUser(s) ==
  LET u == op[s].user IN
  /\ op[s].pc = "is.writeUser"
  /\ listed' = [listed EXCEPT ![u] = op[s].list \cup {op[s].index}]
  /\ doc' = [doc EXCEPT ![u] = IF @ = "none" THEN "ghost" ELSE @]
  /\ End(s)
  /\ UNCHANGED <<db, chain, history>>

Issue(s) ==
  \/ IssueReadBitmap(s) \/ IssueReadIndex(s) \/ IssueAdd(s)
  \/ IssueReadUser(s) \/ IssueWriteUser(s)

------------------------------------------------------------------------------
(* revokeVerifiableCredential *)

StartedRevoke(i) ==
  [Idle EXCEPT !.pc = "rv.resolve", !.user = vcs[i].user, !.index = i]

(* The route finds the credential by its signature. *)
RevokeStart(s) ==
  /\ Serving
  /\ op[s] = Idle
  /\ \E i \in issued :
       /\ op' = [op EXCEPT ![s] = StartedRevoke(i)]
       /\ asked' = asked \cup {i}
  /\ UNCHANGED <<db, chain, users, cleared, loose>>

(* restoreIdentity; revokeCredentials throws when the document has no such
   bitmap. *)
RevokeResolve(s) ==
  /\ op[s].pc = "rv.resolve"
  /\ IF getBitmapIndex(op[s].index) \in bitmaps
       THEN op' = [op EXCEPT ![s].latest = TRUE, ![s].pc = "rv.publish"]
       ELSE End(s)
  /\ UNCHANGED <<db, chain, users, history>>

(* A plausible bug: revoking starts from an empty bitmap. *)
RevokePublishAnew(s) ==
  /\ op[s].pc = "rv.publish"
  /\ bits' = IF op[s].latest THEN {BitOf(op[s].index)} ELSE bits
  /\ op' = [t \in Slots |-> IF t = s THEN [op[s] EXCEPT !.pc = "rv.mark", !.latest = FALSE]
                            ELSE IF op[s].latest THEN [op[t] EXCEPT !.latest = FALSE]
                            ELSE op[t]]
  /\ UNCHANGED <<db, bitmaps, users, history>>

(* publishSignedDoc: the others' documents have lost their predecessor. *)
Published(s, label) ==
  op' = [t \in Slots |-> IF t = s THEN [op[s] EXCEPT !.pc = label, !.latest = FALSE]
                         ELSE IF op[s].latest THEN [op[t] EXCEPT !.latest = FALSE]
                         ELSE op[t]]

RevokePublish(s) ==
  /\ op[s].pc = "rv.publish"
  /\ bits' = IF op[s].latest THEN bits \cup {BitOf(op[s].index)} ELSE bits
  /\ Published(s, "rv.mark")
  /\ UNCHANGED <<db, bitmaps, users, history>>

(* A plausible bug: credentials are counted from one. *)
RevokeMarkNext(s) ==
  /\ op[s].pc = "rv.mark"
  /\ revoked' = revoked \cup {op[s].index + 1}
  /\ Goto(s, "rv.readUser")
  /\ UNCHANGED <<vcs, saved, chain, users, history>>

RevokeMark(s) ==
  /\ op[s].pc = "rv.mark"
  /\ revoked' = revoked \cup {op[s].index}
  /\ Goto(s, "rv.readUser")
  /\ UNCHANGED <<vcs, saved, chain, users, history>>

(* removeUserVC cannot read the list of a document that is gone, and does not
   write one. *)
RevokeReadUser(s) ==
  LET u == op[s].user IN
  /\ op[s].pc = "rv.readUser"
  /\ IF doc[u] = "none"
       THEN End(s) /\ loose' = loose \cup {op[s].index}
       ELSE /\ op' = [op EXCEPT ![s].list = listed[u], ![s].pc = "rv.writeUser"]
            /\ UNCHANGED loose
  /\ UNCHANGED <<db, chain, users, asked, cleared>>

RevokeWriteUser(s) ==
  LET u == op[s].user
      i == op[s].index
  IN
  /\ op[s].pc = "rv.writeUser"
  /\ IF doc[u] = "none"
       THEN loose' = loose \cup {i} /\ UNCHANGED listed
       ELSE /\ listed' = [listed EXCEPT ![u] = op[s].list \ {i}]
            /\ loose' = loose \ {i}
  /\ End(s)
  /\ UNCHANGED <<db, chain, doc, asked, cleared>>

Revoke(s) ==
  \/ RevokeResolve(s) \/ RevokePublish(s) \/ RevokeMark(s)
  \/ RevokeReadUser(s) \/ RevokeWriteUser(s)

------------------------------------------------------------------------------
(* Users: POST /identities/identity with an identity of one's own, and DELETE. *)

AddUser(u) ==
  /\ Serving
  /\ doc[u] = "none"
  /\ doc' = [doc EXCEPT ![u] = "user"]
  /\ UNCHANGED <<db, chain, listed, op, history>>

DeleteStart(u) ==
  LET s == <<"delete", u>> IN
  /\ Serving
  /\ op[s] = Idle
  /\ \E label \in {"de.list", "de.user"} :
       op' = [op EXCEPT ![s] = Started(label, u)]
  /\ UNCHANGED <<db, chain, users, history>>

CredentialsOf(u) == {i \in issued : vcs[i].user = u /\ i \notin revoked}

(* revokeVerifiableCredentials: all of them at once. *)
DeleteList(u) ==
  LET s == <<"delete", u>>
      mine == CredentialsOf(u)
  IN
  /\ op[s].pc = "de.list"
  /\ op' = [t \in Slots |-> IF t = s THEN [op[s] EXCEPT !.pc = "de.wait", !.list = mine]
                            ELSE IF \E i \in mine : t = <<"bulk", i>>
                              THEN StartedRevoke(t[2])
                            ELSE op[t]]
  /\ asked' = asked \cup mine
  /\ UNCHANGED <<db, chain, users, cleared, loose>>

(* Every call catches its own errors, so Promise.all waits for the last of
   them and the user is deleted whatever became of them. *)
DeleteUser(u) ==
  LET s == <<"delete", u>> IN
  /\ op[s].pc \in {"de.wait", "de.user"}
  /\ \A i \in op[s].list : op[<<"bulk", i>>] = Idle
  /\ doc' = [doc EXCEPT ![u] = "none"]
  /\ listed' = [listed EXCEPT ![u] = {}]
  /\ cleared' = cleared \cup op[s].list
  /\ End(s)
  /\ UNCHANGED <<db, chain, asked, loose>>

Delete(u) == DeleteList(u) \/ DeleteUser(u)

------------------------------------------------------------------------------
(* keyGeneration, run by setup-api, reads the user document of the server,
   looks for the bitmap of the next index (issuing does not) and issues a
   credential to the server if the document lists none. *)

SetupStart ==
  /\ \A s \in Slots : ~SetupBeside \/ s = Setup => op[s] = Idle
  /\ op' = [op EXCEPT ![Setup] = [Started("su.bitmap", Server) EXCEPT
                                    !.list = listed[Server]]]
  /\ UNCHANGED <<db, chain, users, history>>

BitmapFound ==
  op' = [op EXCEPT ![Setup] =
           IF op[Setup].list = {} THEN Started("is.bitmap", Server) ELSE Idle]

(* A plausible bug: the bitmap is saved before it is published. *)
SetupSaveFirst ==
  LET b == getBitmapIndex(NextIndex) IN
  /\ op[Setup].pc = "su.bitmap"
  /\ saved' = saved \cup {b}
  /\ IF b \in saved
       THEN BitmapFound
       ELSE op' = [op EXCEPT ![Setup].bitmap = b, ![Setup].pc = "su.resolve"]
  /\ UNCHANGED <<vcs, revoked, chain, users, history>>

SetupGetBitmap ==
  LET b == getBitmapIndex(NextIndex) IN
  /\ op[Setup].pc = "su.bitmap"
  /\ IF b \in saved
       THEN BitmapFound
       ELSE op' = [op EXCEPT ![Setup].bitmap = b, ![Setup].pc = "su.resolve"]
  /\ UNCHANGED <<db, chain, users, history>>

SetupResolve ==
  /\ op[Setup].pc = "su.resolve"
  /\ op' = [op EXCEPT ![Setup].latest = TRUE, ![Setup].pc = "su.publish"]
  /\ UNCHANGED <<db, chain, users, history>>

(* insertService leaves a bitmap that is there as it is. *)
SetupPublish ==
  /\ op[Setup].pc = "su.publish"
  /\ bitmaps' = IF op[Setup].latest THEN bitmaps \cup {op[Setup].bitmap} ELSE bitmaps
  /\ Published(Setup, "su.save")
  /\ UNCHANGED <<db, bits, users, history>>

SetupSave ==
  /\ op[Setup].pc = "su.save"
  /\ saved' = saved \cup {op[Setup].bitmap}
  /\ BitmapFound
  /\ UNCHANGED <<vcs, revoked, chain, users, history>>

keyGeneration ==
  SetupGetBitmap \/ SetupResolve \/ SetupPublish \/ SetupSave

------------------------------------------------------------------------------
(* Failures. *)

(* The credentials of which a request of these slots is half-way. *)
HalfWay(slots) ==
  {op[s].index : s \in {t \in slots : op[t].pc \in
     {"is.readUser", "is.writeUser", "rv.mark", "rv.readUser", "rv.writeUser"}}}

(* The call the handler is suspended at is rejected. *)
Fail(s) ==
  /\ "fail" \in Faults
  /\ op[s] # Idle
  /\ op[s].pc # "de.wait"
  /\ End(s)
  /\ loose' = loose \cup HalfWay({s})
  /\ UNCHANGED <<db, chain, users, asked, cleared>>

(* The server or setup-api exits. *)
Crash ==
  /\ "crash" \in Faults
  /\ \E process \in {Slots \ {Setup}, {Setup}} :
       /\ \E s \in process : op[s] # Idle
       /\ op' = [s \in Slots |-> IF s \in process THEN Idle ELSE op[s]]
       /\ loose' = loose \cup HalfWay(process)
  /\ UNCHANGED <<db, chain, users, asked, cleared>>

Next ==
  \/ \E s \in Locked : IssueStart(s) \/ RevokeStart(s)
  \/ \E s \in Locked \cup {Setup} : Issue(s)
  \/ \E s \in Locked \cup Bulk : Revoke(s)
  \/ \E u \in Users : AddUser(u)
  \/ \E u \in Deleted : DeleteStart(u) \/ Delete(u)
  \/ SetupStart
  \/ keyGeneration
  \/ \E s \in Slots : Fail(s)
  \/ Crash

Spec == Init /\ [][Next]_vars

------------------------------------------------------------------------------

PCs ==
  {"idle", "is.bitmap", "is.index", "is.add", "is.readUser", "is.writeUser",
   "rv.resolve", "rv.publish", "rv.mark", "rv.readUser", "rv.writeUser",
   "de.list", "de.wait", "de.user",
   "su.bitmap", "su.resolve", "su.publish", "su.save"}

Ops == [pc: PCs, user: Users, index: Indices, bitmap: Nat, list: SUBSET Indices,
        latest: BOOLEAN]

TypeOK ==
  /\ issued \subseteq Indices
  /\ \A i \in issued : vcs[i] \in [user: Users, bit: Nat \X Nat]
  /\ revoked \subseteq issued
  /\ bitmaps \subseteq Nat
  /\ bits \subseteq Nat \X Nat
  /\ saved \subseteq Nat
  /\ doc \in [Users -> {"user", "none", "ghost"}]
  /\ listed \in [Users -> SUBSET Indices]
  /\ op \in [Slots -> Ops]
  /\ asked \subseteq issued
  /\ cleared \subseteq asked
  /\ loose \subseteq issued

(* The database calls no credential revoked that a check against the tangle
   would still accept: the document is published first, and under the lock
   nobody publishes in between. *)
RevokedOnTangle == \A i \in revoked : vcs[i].bit \in bits

(* What a DELETE with revoke-credentials says: whoever checks the credentials
   of the deleted user finds all of them revoked. *)
DeletedRevoked == \A i \in cleared : vcs[i].bit \in bits

(* A bitmap the setup finds in the database, and so does not create again, is
   on the tangle, wherever an earlier setup has stopped. *)
SavedPublished == saved \subseteq bitmaps

(* A registered user's document lists her credentials that are not revoked and
   no other, but for those of which a request is half-way or ended half-way. *)
ListExact ==
  \A i \in issued :
    \/ i \in loose \cup HalfWay(Slots)
    \/ doc[vcs[i].user] = "user" =>
         (i \in listed[vcs[i].user] <=> i \notin revoked)

(* What a check against the identity document finds; a credential of a bitmap
   that does not exist is refused all the same and counts as "good" here. *)
standing == [i \in Indices |->
  IF i \notin issued THEN "unknown"
  ELSE IF vcs[i].bit \in bits THEN "revoked" ELSE "good"]

(* Revocations concern the one credential they were asked for and are final,
   even if documents are published beside the lock. *)
Register == INSTANCE CredentialRegister WITH Credentials <- Indices
RegisterSpec == Register!Spec

==============================================================================

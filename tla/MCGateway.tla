------------------------------ MODULE MCGateway ------------------------------
(* Instances of Gateway for TLC. *)
EXTENDS Gateway

(* "any": one request of any kind; "directory": two of the channel directory;
   "changes": three that add, change or remove what is listed.  Admins are in the
   first. *)
VARIABLE world

ContainingNames == [n \in Names |-> {n}]

(* A channel of alice's is there already, or was until she removed it. *)
WorldInit ==
  /\ world \in {"any", "directory", "changes"}
  /\ announced = 1 /\ states = {<<1, "alice">>} /\ subs = {<<1, "alice">>}
  /\ \E doc \in Docs \cup {Missing} :
       /\ IF doc = Missing THEN world = "any"
          ELSE doc.author = "alice" /\ doc.visible = {} /\ doc.name = NoName
       /\ info = [c \in Channels |-> IF c = 1 THEN doc ELSE Missing]
  /\ complete = {c \in Channels : Listed(c)}
  /\ op = [s \in Slots |-> Idle] /\ added = [s \in Slots |-> {}] /\ dropped = {}
  /\ req = [s \in Slots |-> NoRequest]
  /\ sent = CASE world = "any" -> MaxRequests - 1
              [] world = "directory" -> MaxRequests - 2
              [] world = "changes" -> MaxRequests - 3

CallsTo(handlers) ==
  {c \in Calls : c.token /\ c.success # 0 /\ Dispatch(c.line).handler \in handlers}
DirectoryCalls ==
  [directory |-> CallsTo(DirectoryHandlers \cup {deleteSubscription, revokeSubscription}),
   changes |-> CallsTo({addChannelInfo, updateChannelInfo, deleteChannelInfo})]

(* Of two requests or three, those that give a name to a channel neither hide it
   nor put anybody on its list. *)
NamedIsPlain(o) == o.doc.name # NoName => ~o.doc.hidden /\ o.doc.visible = {}

(* Requests of the directory come as they should be; slots are used in order. *)
WorldNext ==
  /\ \/ /\ world = "any"
        /\ \E call \in Calls, sender \in Users, key \in BOOLEAN, token \in Tokens,
             body \in Bodies : Send(1, call, sender, key, token, body)
     \/ /\ world # "any"
        /\ \E s \in Slots, call \in DirectoryCalls[world], sender \in Users \ Admins :
             /\ \A t \in Slots : t < s => op[t] # Idle \/ Pending(t)
             /\ Send(s, call, sender, TRUE, "valid", "valid")
     \/ Serve
  /\ world # "any" => \A s \in Slots : NamedIsPlain(op'[s])
  /\ UNCHANGED world

(* Fairness is assumed, and liveness checked, of a single request. *)
WorldSpec ==
  /\ WorldInit /\ [][WorldNext]_<<vars, world>>
  /\ WF_vars(world = "any" /\ Work(1))

AnsweredAlone == world = "any" /\ Pending(1) ~> ~Pending(1)
==============================================================================

--------------------------- MODULE MCChannelWorlds ---------------------------
(***************************************************************************)
(* ChannelSubscriptions for TLC, with two subscribers.  What is rare does  *)
(* not happen all at once: a behaviour belongs to one of several worlds,   *)
(* which say what may happen in it besides the requests of the subscribers *)
(* and of the author.                                                      *)
(***************************************************************************)
EXTENDS MCChannelSubscriptions

VARIABLE
  world  \* "quiet": all kinds of rights, nothing fails and nobody deletes;
         \* "faults": readers, a call is rejected and the process restarts;
         \* a user: readers, and DELETE is called for her subscription

Worlds == {"quiet", "faults"} \cup Deleted

worldVars == <<vars, world>>

WorldInit == Init /\ world \in Worlds

WorldNext ==
  /\ UNCHANGED world
  /\ \/ \E u \in Subscribers :
          /\ RequestStart(u)
          /\ world # "quiet" => op'[<<"request", u>>].right \in {"none", "Read"}
     \/ \E u \in Subscribers : Request(u)
     \/ \E s \in AuthorOps : AuthorizeStart(s) \/ Authorize(s) \/ RevokeStart(s) \/ Revoke(s)
     \/ world \in Deleted /\ (DeleteStart(world) \/ Delete(world))
     \/ Keyload /\ (world # "faults" => UNCHANGED failures)
     \/ world = "faults" /\ (Crash \/ \E s \in Slots : Fail(s))

WorldSpec == WorldInit /\ [][WorldNext]_worldVars

(* SubscriberListExact and DocsPaired are for quiet channels only. *)
QuietListExact == world = "quiet" => SubscriberListExact
QuietDocsPaired == world = "quiet" => DocsPaired

==============================================================================

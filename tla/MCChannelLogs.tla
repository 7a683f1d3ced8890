---------------------------- MODULE MCChannelLogs ----------------------------
(* Instances of ChannelLogs for TLC: the author, whose requests are served one
   by one, and a subscriber with two requests under the mutex of the process. *)
EXTENDS ChannelLogs, TLC

CONSTANTS author, reader

OneForTheAuthor == (author :> 1) @@ (reader :> 2)

(* The functions of ChannelLogData have no state.  Their properties are
   evaluated before the first request only. *)
Fresh == tangle = <<>> /\ member = Users /\ faults = 0 /\ \A s \in Requests : op[s] = Idle

(* What was added, cached and read again is valid, see CachedLogsValidate. *)
AddedLogsValidate == Fresh => CachedLogsValidate

(* The answer of validate is right for every posted log, see ValidationExact. *)
AnswersExact == Fresh => ValidationExact

(* The pages of getLogs are a partition of the logs, see PagesPartition. *)
PagesExact == Fresh => PagesPartition

==============================================================================

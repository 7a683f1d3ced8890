--------------------------- MODULE ChannelLogData ---------------------------
(***************************************************************************)
(* What becomes of one log on its way through the audit-trail-gw: split    *)
(* into a public and a masked payload and published, read from the tangle  *)
(* and put together again (utils/channel-log-transformer), cached with its *)
(* payload encrypted and read from the cache in pages                      *)
(* (database/channel-data.ts), and compared with the tangle when it is     *)
(* validated.                                                              *)
(*                                                                         *)
(* A field of a log matters by its kind: JavaScript and the database treat *)
(* undefined, null and the values that count as false (0, "", false)       *)
(* differently from all others.                                            *)
(***************************************************************************)
EXTENDS Naturals, Sequences, FiniteSets

Kinds == {"undefined", "null", "falsy", "value"}

(* ChannelLog: its date is not part of the model, for every log has one. *)
ChannelLogs == [type: Kinds, metadata: Kinds, publicPayload: Kinds, payload: Kinds]

Defined(kind) == kind \notin {"undefined", "null"}

(* JSON.parse(JSON.stringify(..)): fields that are undefined are left out and
   so are undefined again, null stays null. *)
getPayloads(log) ==
  [masked |-> [data |-> log.payload],
   public |-> [metadata |-> log.metadata, type |-> log.type, data |-> log.publicPayload]]

(* A plausible bug: the data of the two payloads are mixed up. *)
getChannelLogSwapped(public, masked) ==
  [type |-> public.type, metadata |-> public.metadata,
   payload |-> public.data, publicPayload |-> masked.data]

getChannelLog(public, masked) ==
  [type |-> public.type, metadata |-> public.metadata,
   payload |-> masked.data, publicPayload |-> public.data]

(* The log as every reader receives it from the tangle. *)
OnTangle(log) == getChannelLog(getPayloads(log).public, getPayloads(log).masked)

(* addChannelData: the payload is encrypted if it counts as true and left out
   else; the driver stores an undefined field as null. *)
ToDocument(log) ==
  [log EXCEPT !.payload = IF log.payload = "value" THEN "encrypted" ELSE "null"]

(* getChannelData: what is not null is decrypted. *)
FromDocument(doc) ==
  [doc EXCEPT !.payload = IF doc.payload = "null" THEN "undefined" ELSE "value"]

ReadBack(log) == FromDocument(ToDocument(log))

(* A plausible bug: fields that are null are compared too. *)
SameFieldsStrict(log, other) == log = other

(* isEqual of what is left without undefined and null. *)
SameFields(log, other) ==
  \A field \in DOMAIN log :
    \/ log[field] = other[field]
    \/ ~Defined(log[field]) /\ ~Defined(other[field])

(* validateLogs: posted and received are sequences of [link, log].  `find`
   takes the first entry of the link. *)
validateLogs(posted, received) ==
  [i \in DOMAIN posted |->
     LET found == {j \in DOMAIN received : received[j].link = posted[i].link}
         first == CHOOSE j \in found : \A k \in found : j <= k
     IN  found # {} /\ SameFields(posted[i].log, received[first].log)]

(* A plausible bug: the index counts logs and not pages. *)
PageByLog(logs, limit, index) ==
  SubSeq(logs, 1 + index, IF index + limit < Len(logs) THEN index + limit ELSE Len(logs))

(* skip and limit of the query, on the sorted logs. *)
Page(logs, limit, index) ==
  LET skip == IF index > 0 THEN index * limit ELSE 0 IN
  SubSeq(logs, 1 + skip, IF skip + limit < Len(logs) THEN skip + limit ELSE Len(logs))

(* The route: a limit of zero, which stands for a missing limit or a missing
   index too, means all logs. *)
getChannelData(logs, limit, index) ==
  IF limit = 0 THEN logs ELSE Page(logs, limit, index)

------------------------------------------------------------------------------
(* Properties of these functions, over all logs and small sequences. *)

(* A log that was added, cached, read from the cache and posted to validate is
   valid, whatever fields it lacks or has as null, unless its payload is 0, ""
   or false: addChannelData leaves those out, and the author of the log is
   told her own log differs from the one on the tangle. *)
CachedLogsValidate ==
  \A log \in ChannelLogs :
    SameFields(ReadBack(log), OnTangle(log)) <=> log.payload # "falsy"

(* Every posted log gets one answer, in its place, and the answer is yes if and
   only if the tangle has the link with the same data: neither a forged field,
   nor an unknown link, nor the order in which messages were received matters. *)
ValidationExact ==
  LET Samples == {log \in ChannelLogs : log.type = "value" /\ log.metadata = "null"
                                        /\ log.publicPayload # "falsy"}
      Entries == [link: {1, 2}, log: Samples]
  IN \A a, b \in Samples : \A p \in Entries :
       LET received == <<[link |-> 2, log |-> OnTangle(b)], [link |-> 1, log |-> OnTangle(a)]>>
           tangle == [l \in {1, 2} |-> IF l = 1 THEN a ELSE b]
           agrees(x, y) == \A f \in DOMAIN x : x[f] # y[f] => {x[f], y[f]} = {"undefined", "null"}
           unknown == [link |-> 3, log |-> p.log]
       IN validateLogs(<<unknown, p>>, received)
            = <<FALSE, agrees(p.log, tangle[p.link])>>

(* Reading page after page gives every log exactly once and in order. *)
PagesPartition ==
  \A n \in 0..5, limit \in 1..3 :
    LET logs == [i \in 1..n |-> i]
        pages == n \div limit
    IN /\ \A i \in 1..n :
            Cardinality({page \in 0..pages :
              \E j \in DOMAIN getChannelData(logs, limit, page) :
                getChannelData(logs, limit, page)[j] = i}) = 1
       /\ \A page \in 0..pages, j \in 1..limit :
            j \in DOMAIN getChannelData(logs, limit, page)
              => getChannelData(logs, limit, page)[j] = page * limit + j

==============================================================================

---------------------------- MODULE ControlPings ----------------------------
(***************************************************************************)
(* Control's liveness requests (map.go: answerControlPing, called by the   *)
(* map loop for every response, and controlPingWorker).  A request is its  *)
(* URL.  The map loop must not block, so requests go into a bounded        *)
(* channel; pingPending under pingMu keeps duplicates out of it, and       *)
(* lastPingURL under c.mu those already answered.  The worker receives     *)
(* from the channel without either lock.                                   *)
(***************************************************************************)
EXTENDS Integers, Sequences

CONSTANTS
  URLs,
  PingCapacity,  \* capacity of pingWake
  NoURL

ASSUME PingConstants == NoURL \notin URLs /\ PingCapacity \in Nat \ {0}

VARIABLES
  pingWake,     \* the channel
  pingPending,
  lastPingURL,
  asking,       \* the map loop in answerControlPing: url, and how far it is
  answering     \* the worker: url, and how far it is

pingVars == <<pingWake, pingPending, lastPingURL, asking, answering>>

Nothing == [url |-> NoURL, at |-> "idle"]

PingInit ==
  /\ pingWake = <<>> /\ pingPending = {} /\ lastPingURL = NoURL
  /\ asking = Nothing /\ answering = Nothing

\* pingMu is free: the map loop is not between the send and the entry.
PingMuFree == asking.at # "sent"

-----------------------------------------------------------------------------
\* A map response with a ping that was not just answered.
PingArrives(url) ==
  /\ asking = Nothing /\ lastPingURL # url
  /\ asking' = [url |-> url, at |-> "checked"]
  /\ UNCHANGED <<pingWake, pingPending, lastPingURL, answering>>

\* With pingMu: a duplicate, a full channel, or a send.
EnqueuePing ==
  /\ asking.at = "checked" /\ PingMuFree
  /\ IF asking.url \in pingPending \/ Len(pingWake) >= PingCapacity
     THEN asking' = Nothing /\ UNCHANGED pingWake
     ELSE /\ pingWake' = Append(pingWake, asking.url)
          /\ asking' = [asking EXCEPT !.at = "sent"]
  /\ UNCHANGED <<pingPending, lastPingURL, answering>>

\* Still with pingMu, which is then released.
MarkPending ==
  /\ asking.at = "sent"
  /\ pingPending' = pingPending \cup {asking.url}
  /\ asking' = Nothing
  /\ UNCHANGED <<pingWake, lastPingURL, answering>>

-----------------------------------------------------------------------------
TakePing ==
  /\ answering = Nothing /\ pingWake # <<>>
  /\ answering' = [url |-> Head(pingWake), at |-> "request"]
  /\ pingWake' = Tail(pingWake)
  /\ UNCHANGED <<pingPending, lastPingURL, asking>>

\* AnswerPing returns, after 15 seconds at the latest.
AnswerPing(ok) ==
  /\ answering.at = "request"
  /\ lastPingURL' = IF ok THEN answering.url ELSE lastPingURL
  /\ answering' = [answering EXCEPT !.at = "done"]
  /\ UNCHANGED <<pingWake, pingPending, asking>>

\* Mutant: the entry is deleted without the lock.
ForgetUnlocked ==
  /\ answering.at = "done"
  /\ pingPending' = pingPending \ {answering.url}
  /\ answering' = Nothing
  /\ UNCHANGED <<pingWake, lastPingURL, asking>>

ForgetPending ==
  /\ answering.at = "done" /\ PingMuFree
  /\ pingPending' = pingPending \ {answering.url}
  /\ answering' = Nothing
  /\ UNCHANGED <<pingWake, lastPingURL, asking>>

PingWorker == TakePing \/ (\E ok \in BOOLEAN : AnswerPing(ok)) \/ ForgetPending

PingNext ==
  \/ \E url \in URLs : PingArrives(url)
  \/ EnqueuePing \/ MarkPending
  \/ PingWorker

PingSpec == PingInit /\ [][PingNext]_pingVars

\* Both goroutines run: AnswerPing has a deadline, answerControlPing never blocks.
PingFairness == WF_pingVars(EnqueuePing \/ MarkPending) /\ WF_pingVars(PingWorker)

-----------------------------------------------------------------------------
(* Properties.                                                             *)

Queued == {pingWake[i] : i \in DOMAIN pingWake}
InHand == {answering.url} \ {NoURL}
Distinct == \A i, j \in DOMAIN pingWake : pingWake[i] = pingWake[j] => i = j

\* Whenever pingMu is free, pingPending is exactly what is in the channel or in
\* the worker's hands, and nothing is there twice: an entry left behind would
\* suppress that URL for good, although the worker may take a ping before it is
\* entered and the entries change in other steps than the channel.
PendingExact ==
  PingMuFree =>
    pingPending = Queued \cup InHand /\ Queued \cap InHand = {} /\ Distinct

\* A request in pingPending leaves it, answered or not, so that control can ask
\* again with the same URL.
PendingClears == \A url \in URLs : url \in pingPending ~> url \notin pingPending

-----------------------------------------------------------------------------
(* The inductive invariant behind PendingExact.                            *)

PingTypeOK ==
  /\ pingWake \in Seq(URLs) /\ pingPending \in SUBSET URLs
  /\ asking = Nothing \/ asking \in [url : URLs, at : {"checked", "sent"}]
  /\ answering = Nothing \/ answering \in [url : URLs, at : {"request", "done"}]

\* The ping that has been sent and not yet been entered.
Unentered == IF asking.at = "sent" THEN {asking.url} ELSE {}

\* With pingMu held too: what is in the channel or in hand is entered or is about
\* to be, and is there once.  The worker may have taken the unentered ping, but
\* cannot have forgotten it.
PingInv ==
  /\ PingTypeOK
  /\ pingPending \cup Unentered = Queued \cup InHand
  /\ pingPending \cap Unentered = {} /\ Queued \cap InHand = {} /\ Distinct
=============================================================================

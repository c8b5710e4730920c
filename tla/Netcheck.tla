------------------------------ MODULE Netcheck ------------------------------
(***************************************************************************)
(* DERP latency rounds of the bind (internal/tailnet/netcheck.go, stun.go):*)
(* kickDiscovery begins a round, a goroutine per region sends a STUN       *)
(* request, the UDP readers match the replies with the pending requests,   *)
(* and finishDERPCheck waits for them, measures over HTTPS when none came, *)
(* and reports.  Close and Open may come between any two steps.            *)
(*                                                                         *)
(* A round is named by its id, a request by its round and region; of a     *)
(* latency only the round that measured it is kept.  The fields of a round *)
(* are those of derpCheck: once it is superseded nothing reads them.       *)
(* Replies are lost, delayed and duplicated (a duplicate finds no pending  *)
(* request).  Time may pass at any point, so a timer may always fire.      *)
(***************************************************************************)
EXTENDS Integers, FiniteSets

CONSTANTS
  Regions,               \* the regions of the map that can be a home
  STUNRegions,           \* those with a STUN node
  MaxRounds, MaxGen      \* bounds: rounds begun, openings

ASSUME NetcheckConstants ==
  /\ MaxRounds \in Nat /\ MaxGen \in Nat
  /\ IsFiniteSet(Regions) /\ STUNRegions \subseteq Regions

Rounds == 1..MaxRounds
Gens == 1..MaxGen
Probes == Rounds \X Regions
None == <<>>

VARIABLES
  open, gen, conn,       \* Bind.open; the opening; conn is not nil
  derpCheckID,
  derpCheck,             \* the id of the current round, 0 for nil
  derpLatency,           \* the round that measured each region, 0 for none
  stunPending,           \* the requests whose transaction is known
  stun,                  \* the openings whose public endpoint the bind lists
  full, targets, remaining, latencies, stunDone,  \* the fields of derpCheck
  ctx,                   \* the opening each round belongs to
  query,                 \* querySTUN of each request
  reader, probe,         \* readUDP of each opening, in handleSTUN with a probe
  finish,                \* finishDERPCheck of each round
  https,                 \* the regions it is measuring
  reported, fullReported \* history: the last round reported, the last full one

bindVars == <<open, gen, conn>>
roundVars == <<derpCheck, full, targets, ctx>>
stunVars == <<stunPending, query>>
readerVars == <<reader, probe, stun>>
finishVars == <<finish, https>>
reportVars == <<derpLatency, reported, fullReported>>
vars == <<bindVars, derpCheckID, roundVars, remaining, latencies,
          stunDone, stunVars, readerVars, finishVars, reportVars>>

FlagType ==
  /\ open \in BOOLEAN /\ conn \in BOOLEAN /\ full \in BOOLEAN /\ stunDone \in BOOLEAN

CountType ==
  /\ gen \in 0..MaxGen
  /\ derpCheckID \in 0..MaxRounds /\ derpCheck \in 0..derpCheckID
  /\ remaining \in 0..Cardinality(Regions)
  /\ reported \in 0..MaxRounds /\ fullReported \in 0..MaxRounds

TableType ==
  /\ derpLatency \in [Regions -> 0..MaxRounds] /\ latencies \in [Regions -> 0..MaxRounds]
  /\ stunPending \in SUBSET Probes /\ stun \in SUBSET Gens /\ targets \in SUBSET Regions
  /\ ctx \in [Rounds -> 0..MaxGen]
  /\ query \in [Probes -> {"none", "start", "unsent", "failed"}]
  /\ reader \in [Gens -> {"none", "read", "record", "mapped", "unmapped", "store"}]
  /\ probe \in [Gens -> Probes \cup {None}]
  /\ finish \in [Rounds -> {"none", "wait", "https"}]
  /\ https \in [Rounds -> SUBSET Regions]

TypeOK == FlagType /\ CountType /\ TableType

Live(i) == open /\ ctx[i] = gen
Unmeasured == [r \in Regions |-> 0]

\* derpCheck is nil.
NoRound ==
  /\ derpCheck' = 0 /\ full' = FALSE /\ targets' = {} /\ remaining' = 0
  /\ latencies' = Unmeasured /\ stunDone' = FALSE
  /\ UNCHANGED ctx

-----------------------------------------------------------------------------
(* The bind and its clock.                                                 *)

\* Open resets the check, the requests and the endpoints; UDP may be missing.
Open(udp) ==
  /\ ~open /\ gen < MaxGen
  /\ open' = TRUE /\ gen' = gen + 1 /\ conn' = udp
  /\ stun' = {} /\ stunPending' = {}
  /\ NoRound
  /\ reader' = [reader EXCEPT ![gen + 1] = IF udp THEN "read" ELSE "none"]
  /\ UNCHANGED <<derpCheckID, query, probe, finishVars, reportVars>>

Close ==
  /\ open
  /\ open' = FALSE /\ conn' = FALSE
  /\ UNCHANGED <<gen, derpCheckID, roundVars, remaining, latencies, stunDone,
                 stunVars, readerVars, finishVars, reportVars>>

\* kickDiscovery when it returns early: the bind is closed or the last check too
\* recent, or there is nothing to probe.  Old endpoints are dropped in any case,
\* old requests only after the first two checks; a round lasts seconds, a request
\* is old after a minute, so none of the current round is.
KickReturns ==
  /\ stun' \in SUBSET stun
  /\ stunPending' \in SUBSET stunPending
  /\ \A p \in stunPending \ stunPending' : open /\ p[1] # derpCheck
  /\ UNCHANGED <<bindVars, derpCheckID, roundVars, remaining, latencies, stunDone,
                 query, reader, probe, finishVars, reportVars>>

\* kickDiscovery, past its early returns; the intervals between checks, and
\* between full ones, may have passed.  A full check has every region; old
\* requests and endpoints are dropped.
KickDiscovery(f, ts) ==
  LET i == derpCheckID + 1
      asked == IF conn THEN ts \cap STUNRegions ELSE {}
  IN
  /\ open /\ derpCheckID < MaxRounds /\ ts # {}
  /\ f => ts = Regions
  /\ derpCheckID' = i /\ derpCheck' = i
  /\ full' = f /\ targets' = ts /\ latencies' = Unmeasured
  /\ remaining' = Cardinality(asked) /\ stunDone' = (asked = {})
  /\ ctx' = [ctx EXCEPT ![i] = gen]
  /\ query' = [p \in Probes |-> IF p[1] = i /\ p[2] \in asked THEN "start" ELSE query[p]]
  /\ finish' = [finish EXCEPT ![i] = "wait"]
  /\ stunPending' \in SUBSET stunPending /\ stun' \in SUBSET stun
  /\ UNCHANGED <<bindVars, reader, probe, https, reportVars>>

-----------------------------------------------------------------------------
(* completeSTUNProbe and recordDERPLatency, by id of the round.            *)

CompleteSTUNProbe(i) ==
  IF derpCheck = i /\ remaining # 0
  THEN remaining' = remaining - 1 /\ stunDone' = (stunDone \/ remaining = 1)
  ELSE UNCHANGED <<remaining, stunDone>>

\* Mutant: the id is not compared.
RecordAny(i, r) ==
  latencies' = IF derpCheck # 0 THEN [latencies EXCEPT ![r] = i] ELSE latencies

\* Of two measurements the shorter is kept.
RecordDERPLatency(i, r) ==
  latencies' = IF derpCheck = i THEN [latencies EXCEPT ![r] = i] ELSE latencies

-----------------------------------------------------------------------------
(* querySTUN.                                                              *)

\* The node has no address, or the bind is another one by now; or the writes
\* have failed.
QueryCompletes(p) ==
  /\ query[p] \in {"start", "failed"}
  /\ query' = [query EXCEPT ![p] = "none"]
  /\ CompleteSTUNProbe(p[1])
  /\ UNCHANGED <<bindVars, derpCheckID, roundVars, latencies, stunPending,
                 readerVars, finishVars, reportVars>>

\* The transaction is noted, then the request is written; it may not go out.
QueryBegin(p, sent) ==
  /\ query[p] = "start" /\ Live(p[1]) /\ conn
  /\ query' = [query EXCEPT ![p] = IF sent THEN "none" ELSE "unsent"]
  /\ stunPending' = stunPending \cup {p}
  /\ UNCHANGED <<bindVars, derpCheckID, roundVars, remaining, latencies, stunDone,
                 readerVars, finishVars, reportVars>>

\* Mutant: the transaction is left behind.
Remembered(p) == stunPending

Forgotten(p) == stunPending \ {p}

\* No address could be written to.
WriteFails(p) ==
  /\ query[p] = "unsent"
  /\ query' = [query EXCEPT ![p] = "failed"]
  /\ stunPending' = Forgotten(p)
  /\ UNCHANGED <<bindVars, derpCheckID, roundVars, remaining, latencies, stunDone,
                 readerVars, finishVars, reportVars>>

-----------------------------------------------------------------------------
(* readUDP and handleSTUN.                                                 *)

\* A reply is read from the socket the request went out on, and its transaction
\* taken; a reply without an address only completes the probe.
HandleSTUN(g, p, ok) ==
  /\ reader[g] = "read"
  /\ p \in stunPending /\ query[p] = "none" /\ ctx[p[1]] = g
  /\ stunPending' = stunPending \ {p}
  /\ reader' = [reader EXCEPT ![g] = IF ok THEN "record" ELSE "unmapped"]
  /\ probe' = [probe EXCEPT ![g] = p]
  /\ UNCHANGED <<bindVars, derpCheckID, roundVars, remaining, latencies, stunDone,
                 query, stun, finishVars, reportVars>>

HandleRecord(g) ==
  /\ reader[g] = "record"
  /\ RecordDERPLatency(probe[g][1], probe[g][2])
  /\ reader' = [reader EXCEPT ![g] = "mapped"]
  /\ UNCHANGED <<bindVars, derpCheckID, roundVars, remaining, stunDone, stunVars,
                 probe, stun, finishVars, reportVars>>

HandleComplete(g) ==
  /\ reader[g] \in {"mapped", "unmapped"}
  /\ CompleteSTUNProbe(probe[g][1])
  /\ reader' = [reader EXCEPT ![g] = IF @ = "mapped" THEN "store" ELSE "read"]
  /\ probe' = [probe EXCEPT ![g] = None]
  /\ UNCHANGED <<bindVars, derpCheckID, roundVars, latencies, stunVars, stun,
                 finishVars, reportVars>>

\* The endpoint is listed, whatever has become of the bind.
HandleStore(g) ==
  /\ reader[g] = "store"
  /\ stun' = stun \cup {g}
  /\ reader' = [reader EXCEPT ![g] = "read"]
  /\ UNCHANGED <<bindVars, derpCheckID, roundVars, remaining, latencies, stunDone,
                 stunVars, probe, finishVars, reportVars>>

-----------------------------------------------------------------------------
(* finishDERPCheck.                                                        *)

\* The bind was closed; derpCheck keeps the round until the next Open.
Cancelled(i) ==
  /\ finish[i] = "wait" /\ ~Live(i)
  /\ finish' = [finish EXCEPT ![i] = "none"]
  /\ UNCHANGED <<bindVars, derpCheckID, roundVars, remaining, latencies, stunDone,
                 stunVars, readerVars, https, reportVars>>

\* Mutant: there is no timer.
WaitedForAll(i) ==
  /\ finish[i] = "wait" /\ derpCheck = i /\ stunDone
  /\ https' = [https EXCEPT ![i] =
       IF latencies = Unmeasured THEN targets ELSE {}]
  /\ finish' = [finish EXCEPT ![i] = "https"]
  /\ UNCHANGED <<bindVars, derpCheckID, roundVars, remaining, latencies, stunDone,
                 stunVars, readerVars, reportVars>>

\* stunDone has a token, or the timer fires, which it may at any time.  Without
\* a STUN latency every target is measured over HTTPS.
Waited(i) ==
  /\ finish[i] = "wait" /\ derpCheck = i
  /\ https' = [https EXCEPT ![i] =
       IF latencies = Unmeasured THEN targets ELSE {}]
  /\ finish' = [finish EXCEPT ![i] = "https"]
  /\ UNCHANGED <<bindVars, derpCheckID, roundVars, remaining, latencies, stunDone,
                 stunVars, readerVars, reportVars>>

\* measureDERPHTTPSLatency returns, with a latency or an error.
Measured(i, r, ok) ==
  /\ finish[i] = "https" /\ r \in https[i]
  /\ https' = [https EXCEPT ![i] = @ \ {r}]
  /\ IF ok THEN RecordDERPLatency(i, r) ELSE UNCHANGED latencies
  /\ UNCHANGED <<bindVars, derpCheckID, roundVars, remaining, stunDone, stunVars,
                 readerVars, finish, reportVars>>

\* Another round has begun, or the bind was opened again.
Superseded(i) ==
  /\ finish[i] = "wait" \/ (finish[i] = "https" /\ https[i] = {})
  /\ derpCheck # i
  /\ finish' = [finish EXCEPT ![i] = "none"]
  /\ UNCHANGED <<bindVars, derpCheckID, roundVars, remaining, latencies, stunDone,
                 stunVars, readerVars, https, reportVars>>

\* A full round replaces the latencies, another one adds to them.
Merged(i) ==
  [r \in Regions |-> IF latencies[r] # 0 \/ full
                     THEN latencies[r] ELSE derpLatency[r]]

\* The report; its callback follows the unlock.
Commit(i) ==
  /\ finish[i] = "https" /\ https[i] = {} /\ derpCheck = i
  /\ derpLatency' = Merged(i)
  /\ reported' = i /\ fullReported' = IF full THEN i ELSE fullReported
  /\ finish' = [finish EXCEPT ![i] = "none"]
  /\ NoRound
  /\ UNCHANGED <<bindVars, derpCheckID, stunVars, readerVars, https>>

-----------------------------------------------------------------------------
Init ==
  /\ open = FALSE /\ gen = 0 /\ conn = FALSE
  /\ derpCheckID = 0 /\ derpCheck = 0 /\ derpLatency = Unmeasured
  /\ stunPending = {} /\ stun = {} /\ full = FALSE /\ targets = {} /\ remaining = 0
  /\ latencies = Unmeasured /\ stunDone = FALSE /\ ctx = [i \in Rounds |-> 0]
  /\ query = [p \in Probes |-> "none"]
  /\ reader = [g \in Gens |-> "none"] /\ probe = [g \in Gens |-> None]
  /\ finish = [i \in Rounds |-> "none"] /\ https = [i \in Rounds |-> {}]
  /\ reported = 0 /\ fullReported = 0

Query(p) ==
  (\E sent \in BOOLEAN : QueryBegin(p, sent)) \/ WriteFails(p) \/ QueryCompletes(p)
Handle(g) == HandleRecord(g) \/ HandleComplete(g) \/ HandleStore(g)
Finish(i) ==
  \/ Cancelled(i) \/ Waited(i) \/ Superseded(i) \/ Commit(i)
  \/ \E r \in Regions, ok \in BOOLEAN : Measured(i, r, ok)

Next ==
  \/ \E udp \in BOOLEAN : Open(udp)
  \/ Close
  \/ KickReturns
  \/ \E f \in BOOLEAN, ts \in SUBSET Regions : KickDiscovery(f, ts)
  \/ \E p \in Probes : Query(p) \/ \E g \in Gens, ok \in BOOLEAN : HandleSTUN(g, p, ok)
  \/ \E g \in Gens : Handle(g)
  \/ \E i \in Rounds : Finish(i)

Spec == Init /\ [][Next]_vars

\* Goroutines are scheduled and timers fire; nothing is assumed of the replies.
FairSpec == Spec /\ \A i \in Rounds : WF_vars(Finish(i))

-----------------------------------------------------------------------------
(* Properties.                                                             *)

\* A request that completeSTUNProbe has not counted: about to be sent, waiting
\* for a reply, failed, or in the hands of a reader.
Unanswered(p) ==
  \/ query[p] \in {"start", "failed"}
  \/ p \in stunPending
  \/ \E g \in Gens : probe[g] = p

Outstanding(i) == {p \in Probes : p[1] = i /\ Unanswered(p)}

\* remaining counts the outstanding requests of the current round of an open
\* bind, and the round is released early only when there is none.
RemainingExact ==
  derpCheck # 0 =>
    /\ remaining = Cardinality(Outstanding(derpCheck))
    /\ stunDone => remaining = 0

\* A round holds only what its own probes measured of its own targets, however
\* late the replies to an earlier round are.
OwnMeasurements ==
  \A r \in Regions : latencies[r] # 0 => latencies[r] = derpCheck /\ r \in targets

\* No latency that the bind orders regions by is older than the last full round.
FreshAfterFull == \A r \in Regions : derpLatency[r] # 0 => derpLatency[r] >= fullReported

\* Latencies of an earlier round survive neither in a round nor past a full one.
MeasurementsCurrent == OwnMeasurements /\ FreshAfterFull

\* Reports are made in the order of the rounds, and a bind that was opened
\* again never reports a round of an earlier opening.
ReportsAscend ==
  [][reported' # reported => reported' > reported /\ ctx[reported'] = gen]_vars

\* A round ends unless the bind is closed, whatever becomes of the replies.
RoundEnds == \A i \in Rounds : derpCheck = i ~> derpCheck # i \/ ~open

\* Rounds end, and those that report do so in order.
RoundsInOrder == ReportsAscend /\ RoundEnds

\* "Public endpoints come from STUN requests sent on the same gonnect-created UDP
\* socket" (ARCHITECTURE.md).  Not an invariant of the code: handleSTUN stores a
\* reply it took before Close and Open.
EndpointOfThisSocket == open => stun \subseteq {gen}

-----------------------------------------------------------------------------
(* The inductive invariant behind RemainingExact, MeasurementsCurrent and  *)
(* ReportsAscend.                                                          *)

\* A reader has a probe in hand while it is in handleSTUN, up to the completion,
\* and openings to come have no reader.
ReaderInv ==
  \A g \in Gens :
    /\ g > gen => reader[g] = "none"
    /\ probe[g] # None <=> reader[g] \in {"record", "mapped", "unmapped"}

\* A request is in one place: with querySTUN before it is noted or after it was
\* forgotten, noted, or in the hands of one reader.  Rounds to come have none.
PlaceInv ==
  /\ \A p \in Probes :
       /\ query[p] \in {"start", "failed"} => p \notin stunPending
       /\ p[1] > derpCheckID => query[p] = "none" /\ p \notin stunPending
       /\ \A g \in Gens : probe[g] = p =>
            query[p] = "none" /\ p \notin stunPending /\ p[1] <= derpCheckID
  /\ \A g, h \in Gens : probe[g] = probe[h] /\ probe[g] # None => g = h

\* What belongs to the current round: its opening, its requests, which stay noted
\* while they are written, and its targets.
UnderWay(p) == query[p] # "none" \/ p \in stunPending \/ \E g \in Gens : probe[g] = p

RoundInv ==
  derpCheck # 0 =>
    /\ ctx[derpCheck] = gen /\ reported < derpCheck
    /\ \A p \in Probes : p[1] = derpCheck =>
         /\ query[p] = "unsent" => p \in stunPending
         /\ UnderWay(p) => p[2] \in targets
    /\ finish[derpCheck] = "https" => https[derpCheck] \subseteq targets

OrderInv == fullReported <= reported /\ reported <= derpCheckID

NetcheckInv ==
  /\ TypeOK /\ ReaderInv /\ PlaceInv /\ RoundInv /\ OrderInv
  /\ RemainingExact /\ MeasurementsCurrent
=============================================================================

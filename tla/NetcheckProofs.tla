--------------------------- MODULE NetcheckProofs ---------------------------
(***************************************************************************)
(* Proofs about the measuring of relay regions: the rounds of probes       *)
(* (Netcheck), and the choice of the regions to probe and of the home from *)
(* what they measured (DerpHome).                                          *)
(***************************************************************************)
EXTENDS Netcheck, DerpHome, FiniteSetTheorems, TLAPS

-----------------------------------------------------------------------------
(***************************************************************************)
(* Netcheck: NetcheckInv is inductive, for any finite set of regions and   *)
(* any number of rounds and generations.  The counter of a round is the    *)
(* number of its probes that are somewhere on their way, so what is needed *)
(* is where a probe can be (PlaceInv, ReaderInv) and that what is on its   *)
(* way belongs to the current round (RoundInv).                            *)
(***************************************************************************)

\* What a probe is.
LEMMA ProbeParts ==
  /\ \A p \in Probes : p = <<p[1], p[2]>> /\ p[1] \in Rounds /\ p[2] \in Regions
  /\ \A i \in Rounds, r \in Regions : <<i, r>> \in Probes
  /\ None \notin Probes
BY DEF Probes, None

\* Only finitely many probes are on their way.
LEMMA OutstandingFinite ==
  ASSUME NEW i
  PROVE  IsFiniteSet(Outstanding(i)) /\ Cardinality(Outstanding(i)) \in Nat
<1>1. IsFiniteSet(Rounds)
  BY NetcheckConstants, FS_Interval DEF Rounds
<1>2. IsFiniteSet(Probes)
  BY <1>1, NetcheckConstants, FS_Product, Zenon DEF Probes
<1>3. Outstanding(i) \in SUBSET Probes
  BY Zenon DEF Outstanding
<1> QED
  BY <1>2, <1>3, FS_Subset, FS_CardinalityType, Zenon

\* NetcheckInv holds of a new bind.
LEMMA InitNetcheck == Init => NetcheckInv
<1> SUFFICES ASSUME Init PROVE NetcheckInv
  BY Zenon
<1>1. /\ open = FALSE /\ conn = FALSE /\ full = FALSE /\ stunDone = FALSE
  BY Zenon DEF Init
<1>2. FlagType
  BY <1>1, Zenon DEF FlagType
<1>3. /\ gen = 0 /\ derpCheckID = 0 /\ derpCheck = 0 /\ derpLatency = Unmeasured
      /\ stunPending = {} /\ stun = {} /\ targets = {} /\ remaining = 0
      /\ latencies = Unmeasured /\ ctx = [i \in Rounds |-> 0]
      /\ query = [p \in Probes |-> "none"]
      /\ reader = [g \in Gens |-> "none"] /\ probe = [g \in Gens |-> None]
      /\ finish = [i \in Rounds |-> "none"] /\ https = [i \in Rounds |-> {}]
      /\ reported = 0 /\ fullReported = 0
  BY Zenon DEF Init
<1>4. CountType
  BY <1>3, NetcheckConstants, FS_CardinalityType DEF CountType
<1>5. TableType
  BY <1>3, NetcheckConstants DEF TableType, Unmeasured
<1>6. ReaderInv /\ PlaceInv
  BY <1>3, ProbeParts, Zenon DEF ReaderInv, PlaceInv
<1>7. RoundInv /\ OrderInv /\ RemainingExact
  BY <1>3 DEF RoundInv, OrderInv, RemainingExact
<1>8. MeasurementsCurrent
  BY <1>3, Zenon DEF MeasurementsCurrent, OwnMeasurements, FreshAfterFull, Unmeasured
<1> QED
  BY <1>2, <1>4, <1>5, <1>6, <1>7, <1>8, Zenon DEF NetcheckInv, TypeOK

\* What the steps of querySTUN, of the readers and of finishDERPCheck leave alone.
LEMMA QueryFrame ==
  ASSUME NEW p \in Probes, Query(p)
  PROVE  UNCHANGED <<open, gen, conn, derpCheckID, derpCheck, full, targets, ctx, latencies,
                     reader, probe, stun, finish, https, derpLatency, reported, fullReported>>
<1>1. UNCHANGED <<bindVars, derpCheckID, roundVars, latencies, readerVars, finishVars, reportVars>>
  BY Zenon DEF Query, QueryBegin, WriteFails, QueryCompletes
<1> QED
  BY <1>1, Zenon DEF bindVars, roundVars, readerVars, finishVars, reportVars

\* What the handling of a STUN answer leaves alone.
LEMMA HandleFrame ==
  ASSUME NEW g \in Gens,
         \/ Handle(g)
         \/ \E p \in Probes, ok \in BOOLEAN : HandleSTUN(g, p, ok)
  PROVE  UNCHANGED <<open, gen, conn, derpCheckID, derpCheck, full, targets, ctx, query,
                     finish, https, derpLatency, reported, fullReported>>
<1>1. UNCHANGED <<bindVars, derpCheckID, roundVars, query, finishVars, reportVars>>
  BY Zenon DEF Handle, HandleSTUN, HandleRecord, HandleComplete, HandleStore, stunVars
<1> QED
  BY <1>1, Zenon DEF bindVars, roundVars, finishVars, reportVars

\* The steps of finishDERPCheck but the report.
FinishQuiet(i) ==
  \/ Cancelled(i) \/ Waited(i) \/ Superseded(i)
  \/ \E r \in Regions, ok \in BOOLEAN : Measured(i, r, ok)

\* What waiting for a round leaves alone.
LEMMA FinishFrame ==
  ASSUME NEW i \in Rounds, FinishQuiet(i)
  PROVE  UNCHANGED <<open, gen, conn, derpCheckID, derpCheck, full, targets, ctx, remaining,
                     stunDone, stunPending, query, reader, probe, stun, derpLatency,
                     reported, fullReported>>
<1>1. UNCHANGED <<bindVars, derpCheckID, roundVars, remaining, stunDone, stunVars,
                  readerVars, reportVars>>
  BY Zenon DEF FinishQuiet, Cancelled, Waited, Superseded, Measured
<1> QED
  BY <1>1, Zenon DEF bindVars, roundVars, stunVars, readerVars, reportVars

\* What the end of a round does.
LEMMA CommitEffect ==
  ASSUME NEW i \in Rounds, Commit(i)
  PROVE  /\ derpCheck' = 0 /\ derpCheck = i /\ targets' = {} /\ remaining' = 0
         /\ latencies' = Unmeasured /\ finish' = [finish EXCEPT ![i] = "none"]
         /\ derpLatency' = Merged(i) /\ reported' = i
         /\ fullReported' = IF full THEN i ELSE fullReported
         /\ UNCHANGED <<open, gen, conn, derpCheckID, ctx, stunPending, query, reader, probe,
                        stun, https>>
         /\ full' = FALSE /\ stunDone' = FALSE
<1>1. UNCHANGED <<bindVars, derpCheckID, stunVars, readerVars, https>>
  BY Zenon DEF Commit
<1>2. UNCHANGED <<open, gen, conn, derpCheckID, stunPending, query, reader, probe, stun, https>>
  BY <1>1, Zenon DEF bindVars, stunVars, readerVars
<1> QED
  BY <1>2, Zenon DEF Commit, NoRound

\* What closing leaves alone.
LEMMA CloseFrame ==
  ASSUME Close \/ UNCHANGED vars
  PROVE  UNCHANGED <<gen, derpCheckID, derpCheck, full, targets, ctx, remaining, latencies,
                     stunDone, stunPending, query, reader, probe, stun, finish, https,
                     derpLatency, reported, fullReported>>
<1>1. UNCHANGED <<gen, derpCheckID, roundVars, remaining, latencies, stunDone, stunVars,
                  readerVars, finishVars, reportVars>>
  BY Zenon DEF Close, vars, bindVars
<1> QED
  BY <1>1, Zenon DEF roundVars, stunVars, readerVars, finishVars, reportVars

\* What opening does.
LEMMA OpenEffect ==
  ASSUME NEW udp \in BOOLEAN, Open(udp)
  PROVE  /\ gen < MaxGen /\ gen' = gen + 1 /\ stun' = {} /\ stunPending' = {}
         /\ derpCheck' = 0 /\ targets' = {} /\ remaining' = 0 /\ latencies' = Unmeasured
         /\ reader' = [reader EXCEPT ![gen + 1] = IF udp THEN "read" ELSE "none"]
         /\ UNCHANGED <<derpCheckID, ctx, query, probe, finish, https, derpLatency, reported,
                        fullReported>>
<1>1. UNCHANGED <<derpCheckID, query, probe, finishVars, reportVars>>
  BY Zenon DEF Open
<1>2. UNCHANGED <<finish, https, derpLatency, reported, fullReported>>
  BY <1>1, Zenon DEF finishVars, reportVars
<1> QED
  BY <1>1, <1>2, Zenon DEF Open, NoRound

\* The regions whose STUN nodes are asked.
Asked(ts) == IF conn THEN ts \cap STUNRegions ELSE {}

\* What the beginning of a round does.
LEMMA KickEffect ==
  ASSUME NEW f \in BOOLEAN, NEW ts \in SUBSET Regions, KickDiscovery(f, ts)
  PROVE  /\ derpCheckID < MaxRounds
         /\ derpCheckID' = derpCheckID + 1 /\ derpCheck' = derpCheckID + 1
         /\ targets' = ts /\ latencies' = Unmeasured
         /\ remaining' = Cardinality(Asked(ts))
         /\ ctx' = [ctx EXCEPT ![derpCheckID + 1] = gen]
         /\ query' = [p \in Probes |-> IF p[1] = derpCheckID + 1 /\ p[2] \in Asked(ts)
                                       THEN "start" ELSE query[p]]
         /\ finish' = [finish EXCEPT ![derpCheckID + 1] = "wait"]
         /\ stunPending' \in SUBSET stunPending /\ stun' \in SUBSET stun
         /\ UNCHANGED <<open, gen, conn, reader, probe, https, derpLatency, reported, fullReported>>
         /\ full' = f /\ stunDone' = (Asked(ts) = {})
<1>1. UNCHANGED <<bindVars, reader, probe, https, reportVars>>
  BY Zenon DEF KickDiscovery
<1>2. UNCHANGED <<open, gen, conn, derpLatency, reported, fullReported>>
  BY <1>1, Zenon DEF bindVars, reportVars
<1> QED
  BY <1>1, <1>2, Zenon DEF KickDiscovery, Asked

\* A kick that returns early only drops old endpoints and requests.
LEMMA ReturnEffect ==
  ASSUME KickReturns
  PROVE  /\ stun' \in SUBSET stun /\ stunPending' \in SUBSET stunPending
         /\ \A p \in stunPending : p[1] = derpCheck => p \in stunPending'
         /\ UNCHANGED <<open, gen, conn, derpCheckID, derpCheck, full, targets, ctx, remaining,
                        latencies, stunDone, query, reader, probe, finish, https, derpLatency,
                        reported, fullReported>>
<1>1. UNCHANGED <<bindVars, derpCheckID, roundVars, remaining, latencies, stunDone, query,
                  reader, probe, finishVars, reportVars>>
  BY Zenon DEF KickReturns
<1>2. UNCHANGED <<open, gen, conn, derpCheck, full, targets, ctx, finish, https, derpLatency,
                  reported, fullReported>>
  BY <1>1, Zenon DEF bindVars, roundVars, finishVars, reportVars
<1> QED
  BY <1>1, <1>2, Zenon DEF KickReturns

\* The effect of completeSTUNProbe on the counters.
LEMMA CompleteEffect ==
  ASSUME CountType, NEW i, CompleteSTUNProbe(i)
  PROVE  /\ remaining' \in 0..Cardinality(Regions)
         /\ derpCheck = i /\ remaining # 0 => remaining' = remaining - 1
         /\ derpCheck # i => remaining' = remaining
         /\ stunDone' \in BOOLEAN \/ stunDone' = stunDone
         /\ stunDone' => stunDone \/ (derpCheck = i /\ remaining = 1)
<1>1. CASE derpCheck = i /\ remaining # 0
  <2>1. remaining' = remaining - 1
    BY <1>1, Zenon DEF CompleteSTUNProbe
  <2>2. stunDone' = (stunDone \/ remaining = 1)
    BY <1>1, Zenon DEF CompleteSTUNProbe
  <2>3. remaining' \in 0..Cardinality(Regions)
    BY <1>1, <2>1, NetcheckConstants, FS_CardinalityType DEF CountType
  <2>4. stunDone' \in BOOLEAN /\ (stunDone' => stunDone \/ remaining = 1)
    BY <2>2, Zenon
  <2> QED
    BY <1>1, <2>1, <2>3, <2>4, Zenon
<1>2. CASE ~(derpCheck = i /\ remaining # 0)
  <2>1. UNCHANGED <<remaining, stunDone>>
    BY <1>2, Zenon DEF CompleteSTUNProbe
  <2>2. stunDone' = stunDone /\ (stunDone' => stunDone)
    BY <2>1, Zenon
  <2> QED
    BY <1>2, <2>1, <2>2, Zenon DEF CountType
<1> QED
  BY <1>1, <1>2, Zenon

\* Every step keeps the types of the flags,
LEMMA FlagStep == TypeOK /\ [Next]_vars => FlagType'
<1> SUFFICES ASSUME TypeOK, [Next]_vars PROVE FlagType'
  BY Zenon
<1>0. FlagType /\ CountType
  BY Zenon DEF TypeOK
<1>1. ASSUME NEW udp \in BOOLEAN, Open(udp) PROVE FlagType'
  BY <1>1, Zenon DEF Open, NoRound, FlagType
<1>2. CASE Close
  BY <1>0, <1>2, Zenon DEF Close, FlagType, roundVars
<1>3. ASSUME NEW f \in BOOLEAN, NEW ts \in SUBSET Regions, KickDiscovery(f, ts) PROVE FlagType'
  <2>1. full' = f /\ stunDone' = (Asked(ts) = {}) /\ UNCHANGED <<open, conn>>
    BY <1>3, KickEffect, Zenon
  <2> QED
    BY <1>0, <2>1, Zenon DEF FlagType
<1>4. ASSUME NEW p \in Probes, Query(p) PROVE FlagType'
  <2>1. UNCHANGED <<open, conn, full>>
    BY <1>4, QueryFrame, Zenon
  <2>2. stunDone' \in BOOLEAN \/ stunDone' = stunDone
    <3>1. CASE QueryCompletes(p)
      BY <1>0, <3>1, CompleteEffect, Zenon DEF QueryCompletes
    <3>2. CASE WriteFails(p) \/ \E sent \in BOOLEAN : QueryBegin(p, sent)
      BY <3>2, Zenon DEF WriteFails, QueryBegin
    <3> QED
      BY <1>4, <3>1, <3>2, Zenon DEF Query
  <2> QED
    BY <1>0, <2>1, <2>2, Zenon DEF FlagType
<1>5. ASSUME NEW g \in Gens, \/ Handle(g)
                             \/ \E p \in Probes, ok \in BOOLEAN : HandleSTUN(g, p, ok)
      PROVE  FlagType'
  <2>1. UNCHANGED <<open, conn, full>>
    BY <1>5, HandleFrame, Zenon
  <2>2. stunDone' \in BOOLEAN \/ stunDone' = stunDone
    <3>1. CASE HandleComplete(g)
      BY <1>0, <3>1, CompleteEffect, Zenon DEF HandleComplete
    <3>2. CASE \/ HandleRecord(g) \/ HandleStore(g)
               \/ \E p \in Probes, ok \in BOOLEAN : HandleSTUN(g, p, ok)
      BY <3>2, Zenon DEF HandleRecord, HandleStore, HandleSTUN
    <3> QED
      BY <1>5, <3>1, <3>2, Zenon DEF Handle
  <2> QED
    BY <1>0, <2>1, <2>2, Zenon DEF FlagType
<1>6. ASSUME NEW i \in Rounds, FinishQuiet(i) PROVE FlagType'
  BY <1>0, <1>6, FinishFrame, Zenon DEF FlagType
<1>7. ASSUME NEW i \in Rounds, Commit(i) PROVE FlagType'
  BY <1>0, <1>7, CommitEffect, Zenon DEF FlagType
<1>8. CASE UNCHANGED vars
  BY <1>0, <1>8, Zenon DEF FlagType, vars, bindVars, roundVars
<1>9. CASE KickReturns
  BY <1>0, <1>9, ReturnEffect, Zenon DEF FlagType
<1> QED
  BY <1>1, <1>2, <1>3, <1>4, <1>5, <1>6, <1>7, <1>8, <1>9, Zenon DEF Next, Finish, FinishQuiet

\* of the counters,
LEMMA CountStep == TypeOK /\ [Next]_vars => CountType'
<1> SUFFICES ASSUME TypeOK, [Next]_vars PROVE CountType'
  BY Zenon
<1>0. CountType
  BY Zenon DEF TypeOK
<1>1. ASSUME NEW udp \in BOOLEAN, Open(udp) PROVE CountType'
  <2>1. /\ gen < MaxGen /\ gen' = gen + 1 /\ derpCheck' = 0 /\ remaining' = 0
        /\ UNCHANGED <<derpCheckID, reported, fullReported>>
    BY <1>1, OpenEffect, Zenon
  <2> QED
    BY <1>0, <2>1, NetcheckConstants, FS_CardinalityType DEF CountType
<1>2. CASE Close \/ UNCHANGED vars
  BY <1>0, <1>2, CloseFrame, Zenon DEF CountType
<1>3. ASSUME NEW f \in BOOLEAN, NEW ts \in SUBSET Regions, KickDiscovery(f, ts) PROVE CountType'
  <2>1. /\ derpCheckID < MaxRounds
        /\ derpCheckID' = derpCheckID + 1 /\ derpCheck' = derpCheckID + 1
        /\ remaining' = Cardinality(Asked(ts)) /\ UNCHANGED <<gen, reported, fullReported>>
    BY <1>3, KickEffect, Zenon
  <2>2. Cardinality(Asked(ts)) \in 0..Cardinality(Regions)
    <3>1. Asked(ts) \in SUBSET Regions
      BY Zenon DEF Asked
    <3> QED
      BY <3>1, NetcheckConstants, FS_Subset, FS_CardinalityType
  <2> QED
    BY <1>0, <2>1, <2>2, NetcheckConstants DEF CountType
<1>4. ASSUME NEW p \in Probes, Query(p) PROVE CountType'
  <2>1. UNCHANGED <<gen, derpCheckID, derpCheck, reported, fullReported>>
    BY <1>4, QueryFrame, Zenon
  <2>2. CASE QueryCompletes(p)
    BY <1>0, <2>1, <2>2, CompleteEffect, Zenon DEF QueryCompletes, CountType
  <2>3. CASE UNCHANGED remaining
    BY <1>0, <2>1, <2>3, Zenon DEF CountType
  <2> QED
    BY <1>4, <2>2, <2>3, Zenon DEF Query, WriteFails, QueryBegin
<1>5. ASSUME NEW g \in Gens, \/ Handle(g)
                             \/ \E p \in Probes, ok \in BOOLEAN : HandleSTUN(g, p, ok)
      PROVE  CountType'
  <2>1. UNCHANGED <<gen, derpCheckID, derpCheck, reported, fullReported>>
    BY <1>5, HandleFrame, Zenon
  <2>2. CASE HandleComplete(g)
    BY <1>0, <2>1, <2>2, CompleteEffect, Zenon DEF HandleComplete, CountType
  <2>3. CASE UNCHANGED remaining
    BY <1>0, <2>1, <2>3, Zenon DEF CountType
  <2> QED
    BY <1>5, <2>2, <2>3, Zenon DEF Handle, HandleRecord, HandleStore, HandleSTUN
<1>6. ASSUME NEW i \in Rounds, FinishQuiet(i) PROVE CountType'
  BY <1>0, <1>6, FinishFrame, Zenon DEF CountType
<1>7. ASSUME NEW i \in Rounds, Commit(i) PROVE CountType'
  <2>1. /\ derpCheck' = 0 /\ remaining' = 0 /\ reported' = i
        /\ fullReported' \in {i, fullReported} /\ UNCHANGED <<gen, derpCheckID>>
    BY <1>7, CommitEffect, Zenon
  <2> QED
    BY <1>0, <2>1, NetcheckConstants, FS_CardinalityType DEF CountType, Rounds
<1>8. CASE KickReturns
  BY <1>0, <1>8, ReturnEffect, Zenon DEF CountType
<1> QED
  BY <1>1, <1>2, <1>3, <1>4, <1>5, <1>6, <1>7, <1>8, Zenon DEF Next, Finish, FinishQuiet

\* Nothing measured is a table of latencies.
LEMMA UnmeasuredType == Unmeasured \in [Regions -> 0..MaxRounds]
BY NetcheckConstants DEF Unmeasured

\* A latency is recorded in the current round or not at all.
LEMMA RecordEffect ==
  ASSUME TableType, NEW i \in Rounds, NEW r \in Regions, RecordDERPLatency(i, r)
  PROVE  /\ latencies' \in [Regions -> 0..MaxRounds]
         /\ derpCheck # i => latencies' = latencies
         /\ \A q \in Regions : latencies'[q] # latencies[q] =>
              q = r /\ latencies'[q] = i /\ derpCheck = i
BY NetcheckConstants DEF TableType, RecordDERPLatency, Rounds

\* and of the tables.
LEMMA TableStep == TypeOK /\ ReaderInv /\ [Next]_vars => TableType'
<1> SUFFICES ASSUME TypeOK, ReaderInv, [Next]_vars PROVE TableType'
  BY Zenon
<1>0. TableType /\ CountType
  BY Zenon DEF TypeOK
<1>1. ASSUME NEW udp \in BOOLEAN, Open(udp) PROVE TableType'
  <2>1. /\ stun' = {} /\ stunPending' = {} /\ targets' = {} /\ latencies' = Unmeasured
        /\ reader' = [reader EXCEPT ![gen + 1] = IF udp THEN "read" ELSE "none"]
        /\ UNCHANGED <<ctx, query, probe, finish, https, derpLatency>>
    BY <1>1, OpenEffect, Zenon
  <2>2. reader' \in [Gens -> {"none", "read", "record", "mapped", "unmapped", "store"}]
    BY <1>0, <2>1, Zenon DEF TableType
  <2> QED
    BY <1>0, <2>1, <2>2, UnmeasuredType, Zenon DEF TableType
<1>2. CASE Close \/ UNCHANGED vars
  BY <1>0, <1>2, CloseFrame, Zenon DEF TableType
<1>3. ASSUME NEW f \in BOOLEAN, NEW ts \in SUBSET Regions, KickDiscovery(f, ts) PROVE TableType'
  <2>1. /\ targets' = ts /\ latencies' = Unmeasured
        /\ ctx' = [ctx EXCEPT ![derpCheckID + 1] = gen]
        /\ query' = [p \in Probes |-> IF p[1] = derpCheckID + 1 /\ p[2] \in Asked(ts)
                                      THEN "start" ELSE query[p]]
        /\ finish' = [finish EXCEPT ![derpCheckID + 1] = "wait"]
        /\ stunPending' \in SUBSET stunPending /\ stun' \in SUBSET stun
        /\ UNCHANGED <<reader, probe, https, derpLatency>>
    BY <1>3, KickEffect, Zenon
  <2>2. query' \in [Probes -> {"none", "start", "unsent", "failed"}]
    BY <1>0, <2>1, Zenon DEF TableType
  <2>3. ctx' \in [Rounds -> 0..MaxGen] /\ finish' \in [Rounds -> {"none", "wait", "https"}]
    BY <1>0, <2>1, Zenon DEF TableType, CountType
  <2>4. stunPending' \in SUBSET Probes /\ stun' \in SUBSET Gens
    BY <1>0, <2>1, Zenon DEF TableType
  <2> QED
    BY <1>0, <2>1, <2>2, <2>3, <2>4, UnmeasuredType, Zenon DEF TableType
<1>4. ASSUME NEW p \in Probes, Query(p) PROVE TableType'
  <2>1. UNCHANGED <<targets, ctx, latencies, reader, probe, stun, finish, https, derpLatency>>
    BY <1>4, QueryFrame, Zenon
  <2>2. /\ \E at \in {"none", "unsent", "failed"} : query' = [query EXCEPT ![p] = at]
        /\ stunPending' \in {stunPending, stunPending \cup {p}, stunPending \ {p}}
    BY <1>4, Zenon DEF Query, QueryBegin, WriteFails, Forgotten, QueryCompletes
  <2>3. query' \in [Probes -> {"none", "start", "unsent", "failed"}]
    BY <1>0, <2>2, Zenon DEF TableType
  <2>4. stunPending' \in SUBSET Probes
    BY <1>0, <2>2, Zenon DEF TableType
  <2> QED
    BY <1>0, <2>1, <2>3, <2>4, Zenon DEF TableType
<1>5. ASSUME NEW g \in Gens, NEW p \in Probes, NEW ok \in BOOLEAN, HandleSTUN(g, p, ok)
      PROVE  TableType'
  <2>1. UNCHANGED <<targets, ctx, query, finish, https, derpLatency>>
    BY <1>5, HandleFrame, Zenon
  <2>2. /\ UNCHANGED <<latencies, stun>> /\ stunPending' = stunPending \ {p}
        /\ reader' = [reader EXCEPT ![g] = IF ok THEN "record" ELSE "unmapped"]
        /\ probe' = [probe EXCEPT ![g] = p]
    BY <1>5, Zenon DEF HandleSTUN
  <2>3. reader' \in [Gens -> {"none", "read", "record", "mapped", "unmapped", "store"}]
    BY <1>0, <2>2, Zenon DEF TableType
  <2>4. probe' \in [Gens -> Probes \cup {None}] /\ stunPending' \in SUBSET Probes
    BY <1>0, <2>2, Zenon DEF TableType
  <2> QED
    BY <1>0, <2>1, <2>2, <2>3, <2>4, Zenon DEF TableType
<1>6. ASSUME NEW g \in Gens, Handle(g) PROVE TableType'
  <2>1. UNCHANGED <<targets, ctx, query, finish, https, derpLatency>>
    BY <1>6, HandleFrame, Zenon
  <2>2. UNCHANGED stunPending
    BY <1>6, Zenon DEF Handle, HandleRecord, HandleComplete, HandleStore, stunVars
  <2>3. reader' \in [Gens -> {"none", "read", "record", "mapped", "unmapped", "store"}]
    <3>1. \E at \in {"read", "mapped", "store"} : reader' = [reader EXCEPT ![g] = at]
      BY <1>6, Zenon DEF Handle, HandleRecord, HandleComplete, HandleStore
    <3> QED
      BY <1>0, <3>1, Zenon DEF TableType
  <2>4. probe' \in [Gens -> Probes \cup {None}] /\ stun' \in SUBSET Gens
    <3>1. /\ probe' = probe \/ probe' = [probe EXCEPT ![g] = None]
          /\ stun' = stun \/ stun' = stun \cup {g}
      BY <1>6, Zenon DEF Handle, HandleRecord, HandleComplete, HandleStore
    <3> QED
      BY <1>0, <3>1, Zenon DEF TableType
  <2>5. latencies' \in [Regions -> 0..MaxRounds]
    <3>1. CASE HandleRecord(g)
      <4>1. probe[g] \in Probes
        BY <1>0, <3>1, Zenon DEF ReaderInv, HandleRecord, TableType
      <4> QED
        BY <1>0, <3>1, <4>1, ProbeParts, RecordEffect, Zenon DEF HandleRecord
    <3>2. CASE HandleComplete(g) \/ HandleStore(g)
      BY <1>0, <3>2, Zenon DEF HandleComplete, HandleStore, TableType
    <3> QED
      BY <1>6, <3>1, <3>2, Zenon DEF Handle
  <2> QED
    BY <1>0, <2>1, <2>2, <2>3, <2>4, <2>5, Zenon DEF TableType
<1>7. ASSUME NEW i \in Rounds, FinishQuiet(i) PROVE TableType'
  <2>1. UNCHANGED <<targets, ctx, stunPending, query, reader, probe, stun, derpLatency>>
    BY <1>7, FinishFrame, Zenon
  <2>2. CASE Cancelled(i) \/ Waited(i) \/ Superseded(i)
    <3>1. /\ UNCHANGED latencies
          /\ \E at \in {"none", "https"} : finish' = [finish EXCEPT ![i] = at]
          /\ https' = https \/ \E s \in {targets, {}} : https' = [https EXCEPT ![i] = s]
      BY <2>2, Zenon DEF Cancelled, Waited, Superseded
    <3>2. finish' \in [Rounds -> {"none", "wait", "https"}]
      BY <1>0, <3>1, Zenon DEF TableType
    <3>3. https' \in [Rounds -> SUBSET Regions]
      BY <1>0, <3>1 DEF TableType
    <3> QED
      BY <1>0, <2>1, <3>1, <3>2, <3>3, Zenon DEF TableType
  <2>3. ASSUME NEW r \in Regions, NEW ok \in BOOLEAN, Measured(i, r, ok) PROVE TableType'
    <3>1. /\ UNCHANGED finish /\ https' = [https EXCEPT ![i] = @ \ {r}]
          /\ RecordDERPLatency(i, r) \/ UNCHANGED latencies
      BY <2>3, Zenon DEF Measured
    <3>2. https' \in [Rounds -> SUBSET Regions]
      BY <1>0, <3>1, Zenon DEF TableType
    <3>3. latencies' \in [Regions -> 0..MaxRounds]
      BY <1>0, <3>1, RecordEffect, Zenon DEF TableType
    <3> QED
      BY <1>0, <2>1, <3>1, <3>2, <3>3, Zenon DEF TableType
  <2> QED
    BY <1>7, <2>2, <2>3, Zenon DEF FinishQuiet
<1>8. ASSUME NEW i \in Rounds, Commit(i) PROVE TableType'
  <2>1. /\ targets' = {} /\ latencies' = Unmeasured /\ finish' = [finish EXCEPT ![i] = "none"]
        /\ derpLatency' = Merged(i)
        /\ UNCHANGED <<ctx, stunPending, query, reader, probe, stun, https>>
    BY <1>8, CommitEffect, Zenon
  <2>2. finish' \in [Rounds -> {"none", "wait", "https"}] /\ targets' \in SUBSET Regions
    BY <1>0, <2>1, Zenon DEF TableType
  <2>3. Merged(i) \in [Regions -> 0..MaxRounds]
    BY <1>0, Zenon DEF TableType, Merged
  <2> QED
    BY <1>0, <2>1, <2>2, <2>3, UnmeasuredType, Zenon DEF TableType
<1>9. CASE KickReturns
  <2>1. stunPending' \in SUBSET Probes /\ stun' \in SUBSET Gens
    BY <1>0, <1>9, ReturnEffect, Zenon DEF TableType
  <2> QED
    BY <1>0, <1>9, <2>1, ReturnEffect, Zenon DEF TableType
<1> QED
  BY <1>1, <1>2, <1>3, <1>4, <1>5, <1>6, <1>7, <1>8, <1>9, Zenon DEF Next, Finish, FinishQuiet

\* Every step keeps what a reader has at hand,
LEMMA ReaderStep == TypeOK /\ ReaderInv /\ [Next]_vars => ReaderInv'
<1> SUFFICES ASSUME TypeOK, ReaderInv, [Next]_vars PROVE ReaderInv'
  BY Zenon
<1>0. /\ gen \in Nat /\ None \notin Probes
      /\ reader \in [Gens -> {"none", "read", "record", "mapped", "unmapped", "store"}]
      /\ probe \in [Gens -> Probes \cup {None}]
  BY ProbeParts DEF TypeOK, CountType, TableType
<1>1. ASSUME NEW udp \in BOOLEAN, Open(udp) PROVE ReaderInv'
  <2>1. /\ gen' = gen + 1 /\ UNCHANGED probe
        /\ reader' = [reader EXCEPT ![gen + 1] = IF udp THEN "read" ELSE "none"]
    BY <1>1, OpenEffect, Zenon
  <2>2. \A g \in Gens : /\ g # gen + 1 => reader'[g] = reader[g]
                        /\ g = gen + 1 => reader'[g] \in {"read", "none"}
    BY <1>0, <2>1, Zenon
  <2> QED
    BY <1>0, <2>1, <2>2 DEF ReaderInv, Gens
<1>2. CASE UNCHANGED <<gen, reader, probe>>
  BY <1>2, Zenon DEF ReaderInv
<1>3. ASSUME NEW g \in Gens, NEW p \in Probes, NEW ok \in BOOLEAN, HandleSTUN(g, p, ok)
      PROVE  ReaderInv'
  <2>1. /\ UNCHANGED gen /\ reader[g] = "read" /\ probe' = [probe EXCEPT ![g] = p]
        /\ reader' = [reader EXCEPT ![g] = IF ok THEN "record" ELSE "unmapped"]
    BY <1>3, Zenon DEF HandleSTUN, bindVars
  <2> QED
    BY <1>0, <2>1, Zenon DEF ReaderInv
<1>4. ASSUME NEW g \in Gens, Handle(g) PROVE ReaderInv'
  <2>1. UNCHANGED gen
    BY <1>4, HandleFrame, Zenon
  <2>2. CASE HandleRecord(g)
    <3>1. /\ UNCHANGED probe /\ reader[g] = "record"
          /\ reader' = [reader EXCEPT ![g] = "mapped"]
      BY <2>2, Zenon DEF HandleRecord
    <3> QED
      BY <1>0, <2>1, <3>1, Zenon DEF ReaderInv
  <2>3. CASE HandleComplete(g)
    <3>1. /\ probe' = [probe EXCEPT ![g] = None] /\ reader[g] \in {"mapped", "unmapped"}
          /\ reader' = [reader EXCEPT ![g] = IF @ = "mapped" THEN "store" ELSE "read"]
      BY <2>3, Zenon DEF HandleComplete
    <3> QED
      BY <1>0, <2>1, <3>1, Zenon DEF ReaderInv
  <2>4. CASE HandleStore(g)
    <3>1. /\ UNCHANGED probe /\ reader[g] = "store"
          /\ reader' = [reader EXCEPT ![g] = "read"]
      BY <2>4, Zenon DEF HandleStore
    <3> QED
      BY <1>0, <2>1, <3>1, Zenon DEF ReaderInv
  <2> QED
    BY <1>4, <2>2, <2>3, <2>4, Zenon DEF Handle
<1>5. ASSUME NEW f \in BOOLEAN, NEW ts \in SUBSET Regions, KickDiscovery(f, ts) PROVE ReaderInv'
  BY <1>2, <1>5, KickEffect, Zenon
<1>6. ASSUME NEW p \in Probes, Query(p) PROVE ReaderInv'
  BY <1>2, <1>6, QueryFrame, Zenon
<1>7. ASSUME NEW i \in Rounds, FinishQuiet(i) \/ Commit(i) PROVE ReaderInv'
  BY <1>2, <1>7, FinishFrame, CommitEffect, Zenon
<1>8. CASE Close \/ UNCHANGED vars
  BY <1>2, <1>8, CloseFrame, Zenon
<1>9. CASE KickReturns
  BY <1>2, <1>9, ReturnEffect, Zenon
<1> QED
  BY <1>1, <1>3, <1>4, <1>5, <1>6, <1>7, <1>8, <1>9, Zenon DEF Next, Finish, FinishQuiet

\* Where the steps move a request: querySTUN ...
LEMMA QueryMoves ==
  ASSUME TableType, NEW p \in Probes, Query(p)
  PROVE  /\ \A q \in Probes \ {p} :
              query'[q] = query[q] /\ (q \in stunPending' <=> q \in stunPending)
         /\ \/ /\ QueryCompletes(p) /\ query[p] \in {"start", "failed"} /\ query'[p] = "none"
               /\ stunPending' = stunPending
            \/ /\ query[p] = "start" /\ query'[p] \in {"none", "unsent"} /\ p \in stunPending'
               /\ UNCHANGED <<remaining, stunDone>>
            \/ /\ query[p] = "unsent" /\ query'[p] = "failed" /\ p \notin stunPending'
               /\ UNCHANGED <<remaining, stunDone>>
<1>0. query \in [Probes -> {"none", "start", "unsent", "failed"}]
  BY Zenon DEF TableType
<1>1. CASE QueryCompletes(p)
  <2>1. /\ query[p] \in {"start", "failed"} /\ query' = [query EXCEPT ![p] = "none"]
        /\ stunPending' = stunPending
    BY <1>1, Zenon DEF QueryCompletes
  <2> QED
    BY <1>0, <1>1, <2>1, Zenon
<1>2. ASSUME NEW sent \in BOOLEAN, QueryBegin(p, sent)
      PROVE  /\ \A q \in Probes \ {p} :
                  query'[q] = query[q] /\ (q \in stunPending' <=> q \in stunPending)
             /\ query[p] = "start" /\ query'[p] \in {"none", "unsent"} /\ p \in stunPending'
             /\ UNCHANGED <<remaining, stunDone>>
  <2>1. /\ query[p] = "start" /\ query' = [query EXCEPT ![p] = IF sent THEN "none" ELSE "unsent"]
        /\ stunPending' = stunPending \cup {p} /\ UNCHANGED <<remaining, stunDone>>
    BY <1>2, Zenon DEF QueryBegin
  <2> QED
    BY <1>0, <2>1, Zenon
<1>3. CASE WriteFails(p)
  <2>1. /\ query[p] = "unsent" /\ query' = [query EXCEPT ![p] = "failed"]
        /\ stunPending' = stunPending \ {p} /\ UNCHANGED <<remaining, stunDone>>
    BY <1>3, Zenon DEF WriteFails, Forgotten
  <2> QED
    BY <1>0, <2>1, Zenon
<1> QED
  BY <1>1, <1>2, <1>3, Zenon DEF Query

\* ... and the readers.
LEMMA TakeMoves ==
  ASSUME TableType, NEW g \in Gens, NEW p \in Probes, NEW ok \in BOOLEAN, HandleSTUN(g, p, ok)
  PROVE  /\ reader[g] = "read" /\ p \in stunPending /\ query[p] = "none"
         /\ stunPending' = stunPending \ {p} /\ UNCHANGED <<remaining, stunDone>>
         /\ probe'[g] = p /\ \A h \in Gens \ {g} : probe'[h] = probe[h]
<1>1. /\ reader[g] = "read" /\ p \in stunPending /\ query[p] = "none"
      /\ stunPending' = stunPending \ {p} /\ UNCHANGED <<remaining, stunDone>>
      /\ probe' = [probe EXCEPT ![g] = p]
  BY Zenon DEF HandleSTUN
<1>2. probe \in [Gens -> Probes \cup {None}]
  BY Zenon DEF TableType
<1>3. probe'[g] = p /\ \A h \in Gens \ {g} : probe'[h] = probe[h]
  BY <1>1, <1>2, Zenon
<1> QED
  BY <1>1, <1>3, Zenon

\* A reader completes its probe once, or does nothing to the counter.
LEMMA HandleMoves ==
  ASSUME TableType, ReaderInv, NEW g \in Gens, Handle(g)
  PROVE  /\ UNCHANGED stunPending
         /\ \/ UNCHANGED <<probe, remaining, stunDone>>
            \/ /\ probe[g] \in Probes /\ CompleteSTUNProbe(probe[g][1])
               /\ probe'[g] = None /\ \A h \in Gens \ {g} : probe'[h] = probe[h]
<1>1. UNCHANGED stunPending
  BY Zenon DEF Handle, HandleRecord, HandleComplete, HandleStore, stunVars
<1>2. CASE HandleRecord(g) \/ HandleStore(g)
  BY <1>1, <1>2, Zenon DEF HandleRecord, HandleStore
<1>3. CASE HandleComplete(g)
  <2>1. /\ probe' = [probe EXCEPT ![g] = None] /\ reader[g] \in {"mapped", "unmapped"}
        /\ CompleteSTUNProbe(probe[g][1])
    BY <1>3, Zenon DEF HandleComplete
  <2>2. probe \in [Gens -> Probes \cup {None}]
    BY Zenon DEF TableType
  <2>3. probe[g] \in Probes
    BY <2>1, <2>2, Zenon DEF ReaderInv
  <2>4. probe'[g] = None /\ \A h \in Gens \ {g} : probe'[h] = probe[h]
    BY <2>1, <2>2, Zenon
  <2> QED
    BY <1>1, <2>1, <2>3, <2>4, Zenon
<1> QED
  BY <1>2, <1>3, Zenon DEF Handle

\* A new round sends requests that are nowhere yet.
LEMMA KickMoves ==
  ASSUME TypeOK, NEW f \in BOOLEAN, NEW ts \in SUBSET Regions, KickDiscovery(f, ts)
  PROVE  /\ \A p \in Probes : /\ p[1] # derpCheckID' => query'[p] = query[p]
                              /\ p[1] = derpCheckID' => query'[p] =
                                   IF p[2] \in Asked(ts) THEN "start" ELSE query[p]
                              /\ p \in stunPending' => p \in stunPending
         /\ UNCHANGED probe /\ derpCheckID' = derpCheckID + 1 /\ derpCheck' = derpCheckID'
         /\ derpCheckID \in Nat /\ derpCheckID' \in Rounds
<1>1. /\ derpCheckID < MaxRounds
      /\ derpCheckID' = derpCheckID + 1 /\ derpCheck' = derpCheckID + 1 /\ UNCHANGED probe
      /\ query' = [p \in Probes |-> IF p[1] = derpCheckID + 1 /\ p[2] \in Asked(ts)
                                    THEN "start" ELSE query[p]]
      /\ stunPending' \in SUBSET stunPending
  BY KickEffect, Zenon
<1>2. derpCheckID \in 0..MaxRounds
  BY Zenon DEF TypeOK, CountType
<1> QED
  BY <1>1, <1>2, NetcheckConstants DEF Rounds

\* where a probe can be,
LEMMA PlaceStep == TypeOK /\ ReaderInv /\ PlaceInv /\ [Next]_vars => PlaceInv'
<1> SUFFICES ASSUME TypeOK, ReaderInv, PlaceInv, [Next]_vars PROVE PlaceInv'
  BY Zenon
<1>0. TableType /\ derpCheckID \in Nat /\ None \notin Probes
  BY ProbeParts DEF TypeOK, CountType
<1>a. \A p \in Probes : p[1] \in Nat
  BY ProbeParts DEF Rounds
<1>1. ASSUME NEW udp \in BOOLEAN, Open(udp) PROVE PlaceInv'
  <2>1. stunPending' = {} /\ UNCHANGED <<query, probe, derpCheckID>>
    BY <1>1, OpenEffect, Zenon
  <2> QED
    BY <2>1, Zenon DEF PlaceInv
<1>2. CASE UNCHANGED <<query, stunPending, probe, derpCheckID>>
  BY <1>2, Zenon DEF PlaceInv
<1>3. ASSUME NEW f \in BOOLEAN, NEW ts \in SUBSET Regions, KickDiscovery(f, ts) PROVE PlaceInv'
  <2>1. /\ \A p \in Probes : /\ p[1] # derpCheckID' => query'[p] = query[p]
                             /\ p \in stunPending' => p \in stunPending
        /\ UNCHANGED probe /\ derpCheckID' = derpCheckID + 1
    BY <1>3, KickMoves, Zenon
  <2> QED
    BY <1>0, <1>a, <2>1 DEF PlaceInv
<1>4. ASSUME NEW p \in Probes, Query(p) PROVE PlaceInv'
  <2>1. UNCHANGED <<probe, derpCheckID>>
    BY <1>4, QueryFrame, Zenon
  <2>2. /\ \A q \in Probes \ {p} :
             query'[q] = query[q] /\ (q \in stunPending' <=> q \in stunPending)
        /\ query[p] # "none" /\ (query'[p] \in {"start", "failed"} => p \notin stunPending')
    BY <1>0, <1>4, QueryMoves, Zenon
  <2> QED
    BY <2>1, <2>2, Zenon DEF PlaceInv
<1>5. ASSUME NEW g \in Gens, NEW p \in Probes, NEW ok \in BOOLEAN, HandleSTUN(g, p, ok)
      PROVE  PlaceInv'
  <2>1. UNCHANGED <<query, derpCheckID>>
    BY <1>5, HandleFrame, Zenon
  <2>2. /\ p \in stunPending /\ query[p] = "none" /\ stunPending' = stunPending \ {p}
        /\ probe'[g] = p /\ \A h \in Gens \ {g} : probe'[h] = probe[h]
    BY <1>0, <1>5, TakeMoves
  <2> QED
    BY <1>0, <1>a, <2>1, <2>2 DEF PlaceInv
<1>6. ASSUME NEW g \in Gens, Handle(g) PROVE PlaceInv'
  <2>1. UNCHANGED <<query, derpCheckID>>
    BY <1>6, HandleFrame, Zenon
  <2>2. /\ UNCHANGED stunPending
        /\ \/ UNCHANGED probe
           \/ probe'[g] = None /\ \A h \in Gens \ {g} : probe'[h] = probe[h]
    BY <1>0, <1>6, HandleMoves, Zenon
  <2> QED
    BY <1>0, <2>1, <2>2 DEF PlaceInv
<1>7. ASSUME NEW i \in Rounds, FinishQuiet(i) \/ Commit(i) PROVE PlaceInv'
  BY <1>2, <1>7, FinishFrame, CommitEffect, Zenon
<1>8. CASE Close \/ UNCHANGED vars
  BY <1>2, <1>8, CloseFrame, Zenon
<1>9. CASE KickReturns
  <2>1. stunPending' \in SUBSET stunPending /\ UNCHANGED <<query, probe, derpCheckID>>
    BY <1>9, ReturnEffect, Zenon
  <2> QED
    BY <2>1, Zenon DEF PlaceInv
<1> QED
  BY <1>1, <1>3, <1>4, <1>5, <1>6, <1>7, <1>8, <1>9, Zenon DEF Next, Finish, FinishQuiet

\* what belongs to the current round,
LEMMA RoundStep ==
  TypeOK /\ ReaderInv /\ PlaceInv /\ RoundInv /\ OrderInv /\ [Next]_vars => RoundInv'
<1> SUFFICES ASSUME TypeOK, ReaderInv, PlaceInv, RoundInv, OrderInv, [Next]_vars PROVE RoundInv'
  BY Zenon
<1>0. TableType /\ derpCheckID \in Nat /\ None \notin Probes /\ reported \in Nat
  BY ProbeParts DEF TypeOK, CountType
<1>a. ctx \in [Rounds -> 0..MaxGen] /\ finish \in [Rounds -> {"none", "wait", "https"}]
  BY <1>0, Zenon DEF TableType
<1>b. https \in [Rounds -> SUBSET Regions]
  BY <1>0, Zenon DEF TableType
<1>1. ASSUME derpCheck' = 0 PROVE RoundInv'
  BY <1>1, Zenon DEF RoundInv
\* Steps that only move requests.
<1>2. ASSUME UNCHANGED <<derpCheck, ctx, gen, reported, targets, finish, https>>,
             \A p \in Probes : /\ UnderWay(p)' => UnderWay(p)
                               /\ query'[p] = "unsent" =>
                                    p \in stunPending' \/ (query[p] = "unsent" /\ p \notin stunPending)
      PROVE  RoundInv'
  <2>1. ASSUME derpCheck # 0, NEW p \in Probes, p[1] = derpCheck
        PROVE  (query'[p] = "unsent" => p \in stunPending') /\ (UnderWay(p)' => p[2] \in targets)
    <3>1. (query[p] = "unsent" => p \in stunPending) /\ (UnderWay(p) => p[2] \in targets)
      BY <2>1, Zenon DEF RoundInv
    <3> QED
      BY <1>2, <3>1, Zenon
  <2>2. derpCheck # 0 => /\ ctx[derpCheck] = gen /\ reported < derpCheck
                         /\ finish[derpCheck] = "https" => https[derpCheck] \subseteq targets
    BY Zenon DEF RoundInv
  <2> QED
    BY <1>2, <2>1, <2>2, Zenon DEF RoundInv
<1>3. ASSUME NEW f \in BOOLEAN, NEW ts \in SUBSET Regions, KickDiscovery(f, ts) PROVE RoundInv'
  <2>1. /\ \A p \in Probes : /\ p[1] = derpCheckID' => query'[p] =
                                  IF p[2] \in Asked(ts) THEN "start" ELSE query[p]
                             /\ p \in stunPending' => p \in stunPending
        /\ UNCHANGED probe /\ derpCheckID' = derpCheckID + 1 /\ derpCheck' = derpCheckID'
        /\ derpCheckID' \in Rounds
    BY <1>3, KickMoves, Zenon
  <2>2. /\ targets' = ts /\ ctx' = [ctx EXCEPT ![derpCheckID + 1] = gen]
        /\ finish' = [finish EXCEPT ![derpCheckID + 1] = "wait"] /\ UNCHANGED <<gen, reported>>
    BY <1>3, KickEffect, Zenon
  <2>3. ctx'[derpCheck'] = gen /\ finish'[derpCheck'] = "wait" /\ reported < derpCheck'
    BY <1>0, <1>a, <2>1, <2>2 DEF OrderInv
  <2>4. ASSUME NEW p \in Probes, p[1] = derpCheck'
        PROVE  /\ query'[p] # "unsent" /\ (UnderWay(p)' => p[2] \in ts)
    <3>1. query[p] = "none" /\ p \notin stunPending /\ \A g \in Gens : probe[g] # p
      BY <1>0, <2>1, <2>4 DEF PlaceInv
    <3>2. Asked(ts) \subseteq ts
      BY Zenon DEF Asked
    <3> QED
      BY <2>1, <2>4, <3>1, <3>2, Zenon DEF UnderWay
  <2> QED
    BY <2>2, <2>3, <2>4, Zenon DEF RoundInv
<1>4. ASSUME NEW p \in Probes, Query(p) PROVE RoundInv'
  <2>1. UNCHANGED <<derpCheck, ctx, gen, reported, targets, finish, https, probe>>
    BY <1>4, QueryFrame, Zenon
  <2>2. /\ \A q \in Probes \ {p} :
             query'[q] = query[q] /\ (q \in stunPending' <=> q \in stunPending)
        /\ query[p] # "none" /\ (query'[p] = "unsent" => p \in stunPending')
    BY <1>0, <1>4, QueryMoves, Zenon
  <2>3. \A q \in Probes : /\ UnderWay(q)' => UnderWay(q)
                          /\ query'[q] = "unsent" =>
                               q \in stunPending' \/ (query[q] = "unsent" /\ q \notin stunPending)
    BY <2>1, <2>2, Zenon DEF UnderWay
  <2> QED
    BY <1>2, <2>1, <2>3, Zenon
<1>5. ASSUME NEW g \in Gens, NEW p \in Probes, NEW ok \in BOOLEAN, HandleSTUN(g, p, ok)
      PROVE  RoundInv'
  <2>1. UNCHANGED <<derpCheck, ctx, gen, reported, targets, finish, https, query>>
    BY <1>5, HandleFrame, Zenon
  <2>2. /\ p \in stunPending /\ query[p] = "none" /\ stunPending' = stunPending \ {p}
        /\ probe'[g] = p /\ \A h \in Gens \ {g} : probe'[h] = probe[h]
    BY <1>0, <1>5, TakeMoves
  <2>3. \A q \in Probes : /\ UnderWay(q)' => UnderWay(q)
                          /\ query'[q] = "unsent" =>
                               q \in stunPending' \/ (query[q] = "unsent" /\ q \notin stunPending)
    BY <2>1, <2>2, Zenon DEF UnderWay
  <2> QED
    BY <1>2, <2>1, <2>3, Zenon
<1>6. ASSUME NEW g \in Gens, Handle(g) PROVE RoundInv'
  <2>1. UNCHANGED <<derpCheck, ctx, gen, reported, targets, finish, https, query>>
    BY <1>6, HandleFrame, Zenon
  <2>2. /\ UNCHANGED stunPending
        /\ \/ UNCHANGED probe
           \/ probe'[g] = None /\ \A h \in Gens \ {g} : probe'[h] = probe[h]
    BY <1>0, <1>6, HandleMoves, Zenon
  <2>3. \A q \in Probes : /\ UnderWay(q)' => UnderWay(q)
                          /\ query'[q] = "unsent" =>
                               q \in stunPending' \/ (query[q] = "unsent" /\ q \notin stunPending)
    BY <1>0, <2>1, <2>2, Zenon DEF UnderWay
  <2> QED
    BY <1>2, <2>1, <2>3, Zenon
<1>7. ASSUME NEW i \in Rounds, FinishQuiet(i) PROVE RoundInv'
  <2>1. UNCHANGED <<derpCheck, ctx, gen, reported, targets, query, stunPending, probe>>
    BY <1>7, FinishFrame, Zenon
  <2>2. \A p : UnderWay(p)' <=> UnderWay(p)
    BY <2>1, Zenon DEF UnderWay
  <2>3. \A j \in Rounds : finish'[j] = "https" =>
          \/ https'[j] \subseteq targets
          \/ finish[j] = "https" /\ https'[j] \subseteq https[j]
    <3>1. \/ /\ finish' = [finish EXCEPT ![i] = "none"] /\ UNCHANGED https
          \/ /\ finish' = [finish EXCEPT ![i] = "https"]
             /\ \E s \in {targets, {}} : https' = [https EXCEPT ![i] = s]
          \/ /\ UNCHANGED finish /\ \E r \in Regions : https' = [https EXCEPT ![i] = @ \ {r}]
      BY <1>7, Zenon DEF FinishQuiet, Cancelled, Waited, Superseded, Measured
    <3>2. CASE finish' = [finish EXCEPT ![i] = "none"] /\ UNCHANGED https
      BY <1>a, <3>2, Zenon
    <3>3. CASE /\ finish' = [finish EXCEPT ![i] = "https"]
               /\ \E s \in {targets, {}} : https' = [https EXCEPT ![i] = s]
      BY <1>a, <1>b, <3>3, Zenon
    <3>4. CASE UNCHANGED finish /\ \E r \in Regions : https' = [https EXCEPT ![i] = @ \ {r}]
      BY <1>a, <1>b, <3>4, Zenon
    <3> QED
      BY <3>1, <3>2, <3>3, <3>4, Zenon
  <2>4. derpCheck # 0 => derpCheck \in Rounds
    BY NetcheckConstants DEF TypeOK, CountType, Rounds
  <2> QED
    BY <2>1, <2>2, <2>3, <2>4, Zenon DEF RoundInv
<1>8. CASE Close \/ UNCHANGED vars
  BY <1>8, CloseFrame, Zenon DEF RoundInv, UnderWay
<1>9. CASE KickReturns
  <2>1. /\ UNCHANGED <<derpCheck, ctx, gen, reported, targets, finish, https, query, probe>>
        /\ stunPending' \in SUBSET stunPending
        /\ \A p \in stunPending : p[1] = derpCheck => p \in stunPending'
    BY <1>9, ReturnEffect, Zenon
  <2>2. ASSUME derpCheck # 0, NEW p \in Probes, p[1] = derpCheck
        PROVE  (query'[p] = "unsent" => p \in stunPending') /\ (UnderWay(p)' => p[2] \in targets)
    <3>1. (query[p] = "unsent" => p \in stunPending) /\ (UnderWay(p) => p[2] \in targets)
      BY <2>2, Zenon DEF RoundInv
    <3> QED
      BY <2>1, <2>2, <3>1, Zenon DEF UnderWay
  <2>3. derpCheck # 0 => /\ ctx[derpCheck] = gen /\ reported < derpCheck
                         /\ finish[derpCheck] = "https" => https[derpCheck] \subseteq targets
    BY Zenon DEF RoundInv
  <2> QED
    BY <2>1, <2>2, <2>3, Zenon DEF RoundInv
<1> QED
  BY <1>1, <1>3, <1>4, <1>5, <1>6, <1>7, <1>8, <1>9, OpenEffect, CommitEffect, Zenon
     DEF Next, Finish, FinishQuiet

\* the order of the rounds,
LEMMA OrderStep == TypeOK /\ RoundInv /\ OrderInv /\ [Next]_vars => OrderInv'
<1> SUFFICES ASSUME TypeOK, RoundInv, OrderInv, [Next]_vars PROVE OrderInv'
  BY Zenon
<1>0. /\ derpCheckID \in Nat /\ derpCheck \in Nat /\ derpCheck <= derpCheckID
      /\ reported \in Nat /\ fullReported \in Nat
  BY NetcheckConstants DEF TypeOK, CountType
<1>1. CASE UNCHANGED <<derpCheckID, reported, fullReported>>
  BY <1>1, Zenon DEF OrderInv
<1>2. ASSUME NEW f \in BOOLEAN, NEW ts \in SUBSET Regions, KickDiscovery(f, ts) PROVE OrderInv'
  <2>1. derpCheckID' = derpCheckID + 1 /\ UNCHANGED <<reported, fullReported>>
    BY <1>2, KickEffect, Zenon
  <2> QED
    BY <1>0, <2>1 DEF OrderInv
<1>3. ASSUME NEW i \in Rounds, Commit(i) PROVE OrderInv'
  <2>1. /\ derpCheck = i /\ reported' = i /\ fullReported' \in {i, fullReported}
        /\ UNCHANGED derpCheckID
    BY <1>3, CommitEffect, Zenon
  <2>2. i # 0
    BY DEF Rounds
  <2> QED
    BY <1>0, <2>1, <2>2 DEF OrderInv, RoundInv
<1>4. ASSUME NEW udp \in BOOLEAN, Open(udp) PROVE OrderInv'
  BY <1>1, <1>4, OpenEffect, Zenon
<1>5. ASSUME NEW p \in Probes, Query(p) PROVE OrderInv'
  BY <1>1, <1>5, QueryFrame, Zenon
<1>6. ASSUME NEW g \in Gens, \/ Handle(g)
                             \/ \E p \in Probes, ok \in BOOLEAN : HandleSTUN(g, p, ok)
      PROVE  OrderInv'
  BY <1>1, <1>6, HandleFrame, Zenon
<1>7. ASSUME NEW i \in Rounds, FinishQuiet(i) PROVE OrderInv'
  BY <1>1, <1>7, FinishFrame, Zenon
<1>8. CASE Close \/ UNCHANGED vars
  BY <1>1, <1>8, CloseFrame, Zenon
<1>9. CASE KickReturns
  BY <1>1, <1>9, ReturnEffect, Zenon
<1> QED
  BY <1>2, <1>3, <1>4, <1>5, <1>6, <1>7, <1>8, <1>9, Zenon DEF Next, Finish, FinishQuiet

\* Steps that complete no request ...
LEMMA SameOutstanding ==
  ASSUME RemainingExact, UNCHANGED <<derpCheck, remaining>>, stunDone' => stunDone,
         \A q \in Probes : q[1] = derpCheck => (Unanswered(q)' <=> Unanswered(q))
  PROVE  RemainingExact'
<1>1. Outstanding(derpCheck)' = Outstanding(derpCheck)
  BY Zenon DEF Outstanding, Unanswered
<1> QED
  BY <1>1, Zenon DEF RemainingExact

\* ... and steps that complete one.
LEMMA OneCompleted ==
  ASSUME CountType, RemainingExact, NEW p \in Probes, UNCHANGED derpCheck,
         CompleteSTUNProbe(p[1]), Unanswered(p), ~Unanswered(p)',
         \A q \in Probes \ {p} : Unanswered(q)' <=> Unanswered(q)
  PROVE  RemainingExact'
<1>1. /\ derpCheck = p[1] /\ remaining # 0 => remaining' = remaining - 1
      /\ derpCheck # p[1] => remaining' = remaining
      /\ stunDone' => stunDone \/ (derpCheck = p[1] /\ remaining = 1)
  BY CompleteEffect, Zenon
<1>2. CASE derpCheck # p[1]
  <2>1. \A q \in Probes : q[1] = derpCheck => (Unanswered(q)' <=> Unanswered(q))
    BY <1>2, Zenon
  <2>2. UNCHANGED <<derpCheck, remaining>> /\ (stunDone' => stunDone)
    BY <1>1, <1>2, Zenon
  <2> QED
    BY <2>1, <2>2, SameOutstanding, Zenon
<1>3. CASE derpCheck = p[1]
  <2>1. Outstanding(derpCheck)' = Outstanding(derpCheck) \ {p} /\ p \in Outstanding(derpCheck)
    BY <1>3, Zenon DEF Outstanding
  <2>2. /\ Cardinality(Outstanding(derpCheck)') = Cardinality(Outstanding(derpCheck)) - 1
        /\ Cardinality(Outstanding(derpCheck)) \in Nat \ {0}
    BY <2>1, OutstandingFinite, FS_RemoveElement, FS_EmptySet, Zenon
  <2>3. derpCheck # 0
    BY <1>3, ProbeParts DEF Rounds
  <2>4. remaining = Cardinality(Outstanding(derpCheck)) /\ (stunDone => remaining = 0)
    BY <2>3, Zenon DEF RemainingExact
  <2>5. remaining' = Cardinality(Outstanding(derpCheck)') /\ (stunDone' => remaining' = 0)
    BY <1>1, <1>3, <2>2, <2>4
  <2> QED
    BY <2>5, Zenon DEF RemainingExact
<1> QED
  BY <1>2, <1>3, Zenon

\* A new round waits for the requests it is about to send.
LEMMA KickRemaining ==
  ASSUME TypeOK, PlaceInv, NEW f \in BOOLEAN, NEW ts \in SUBSET Regions, KickDiscovery(f, ts)
  PROVE  RemainingExact'
<1>1. /\ \A p \in Probes : /\ p[1] = derpCheckID' => query'[p] =
                                IF p[2] \in Asked(ts) THEN "start" ELSE query[p]
                           /\ p \in stunPending' => p \in stunPending
      /\ UNCHANGED probe /\ derpCheckID' = derpCheckID + 1 /\ derpCheck' = derpCheckID'
      /\ derpCheckID' \in Rounds /\ derpCheckID \in Nat
  BY KickMoves, Zenon
<1>2. remaining' = Cardinality(Asked(ts))
  BY KickEffect, Zenon
<1>3. stunDone' => Asked(ts) = {}
  BY KickEffect, Zenon
<1>4. Asked(ts) \subseteq Regions
  BY Zenon DEF Asked
<1>5. \A p \in Probes : p[1] = derpCheck' => (Unanswered(p)' <=> p[2] \in Asked(ts))
  <2> SUFFICES ASSUME NEW p \in Probes, p[1] = derpCheck'
               PROVE  Unanswered(p)' <=> p[2] \in Asked(ts)
    BY Zenon
  <2>1. query[p] = "none" /\ p \notin stunPending /\ \A g \in Gens : probe[g] # p
    BY <1>1, ProbeParts DEF PlaceInv, Rounds
  <2> QED
    BY <1>1, <2>1, Zenon DEF Unanswered
<1>6. Outstanding(derpCheck)' = {derpCheck'} \X Asked(ts)
  BY <1>1, <1>4, <1>5, ProbeParts DEF Outstanding
<1>7. IsFiniteSet(Asked(ts)) /\ IsFiniteSet({derpCheck'}) /\ Cardinality({derpCheck'}) = 1
  BY <1>4, NetcheckConstants, FS_Subset, FS_Singleton, Zenon
<1>8. Cardinality({derpCheck'} \X Asked(ts)) = Cardinality({derpCheck'}) * Cardinality(Asked(ts))
  BY <1>7, FS_Product, Zenon
<1>9. Cardinality(Outstanding(derpCheck)') = Cardinality(Asked(ts))
  BY <1>6, <1>7, <1>8, FS_CardinalityType
<1> QED
  BY <1>2, <1>3, <1>9, FS_EmptySet, Zenon DEF RemainingExact

\* the count of the probes that are on their way,
LEMMA RemainingStep ==
  TypeOK /\ ReaderInv /\ PlaceInv /\ RoundInv /\ RemainingExact /\ [Next]_vars => RemainingExact'
<1> SUFFICES ASSUME TypeOK, ReaderInv, PlaceInv, RoundInv, RemainingExact, [Next]_vars
             PROVE  RemainingExact'
  BY Zenon
<1>0. TableType /\ CountType /\ None \notin Probes
  BY ProbeParts, Zenon DEF TypeOK
<1>1. ASSUME derpCheck' = 0 PROVE RemainingExact'
  BY <1>1, Zenon DEF RemainingExact
<1>2. CASE UNCHANGED <<derpCheck, remaining, stunDone, query, stunPending, probe>>
  BY <1>2, Zenon DEF RemainingExact, Outstanding, Unanswered
<1>3. ASSUME NEW p \in Probes, Query(p) PROVE RemainingExact'
  <2>1. UNCHANGED <<derpCheck, probe>>
    BY <1>3, QueryFrame, Zenon
  <2>2. \A q \in Probes \ {p} :
          query'[q] = query[q] /\ (q \in stunPending' <=> q \in stunPending)
    BY <1>0, <1>3, QueryMoves, Zenon
  <2>3. \A q \in Probes \ {p} : Unanswered(q)' <=> Unanswered(q)
    BY <2>1, <2>2, Zenon DEF Unanswered
  <2>4. CASE /\ QueryCompletes(p) /\ query[p] \in {"start", "failed"} /\ query'[p] = "none"
             /\ stunPending' = stunPending
    <3>1. CompleteSTUNProbe(p[1])
      BY <2>4, Zenon DEF QueryCompletes
    <3>2. Unanswered(p) /\ ~Unanswered(p)'
      BY <2>1, <2>4, Zenon DEF Unanswered, PlaceInv
    <3> QED
      BY <1>0, <2>1, <2>3, <3>1, <3>2, OneCompleted, Zenon
  <2>5. CASE /\ query[p] = "start" /\ query'[p] \in {"none", "unsent"} /\ p \in stunPending'
             /\ UNCHANGED <<remaining, stunDone>>
    <3>1. Unanswered(p)' /\ Unanswered(p)
      BY <2>5, Zenon DEF Unanswered
    <3> QED
      BY <2>1, <2>3, <2>5, <3>1, SameOutstanding, Zenon
  <2>6. CASE /\ query[p] = "unsent" /\ query'[p] = "failed" /\ p \notin stunPending'
             /\ UNCHANGED <<remaining, stunDone>>
    <3>1. Unanswered(p)' /\ (p[1] = derpCheck => Unanswered(p))
      BY <2>6, ProbeParts DEF Unanswered, RoundInv, Rounds
    <3> QED
      BY <2>1, <2>3, <2>6, <3>1, SameOutstanding, Zenon
  <2> QED
    BY <1>0, <1>3, <2>4, <2>5, <2>6, QueryMoves, Zenon
<1>4. ASSUME NEW g \in Gens, NEW p \in Probes, NEW ok \in BOOLEAN, HandleSTUN(g, p, ok)
      PROVE  RemainingExact'
  <2>1. UNCHANGED <<derpCheck, query>>
    BY <1>4, HandleFrame, Zenon
  <2>2. /\ reader[g] = "read" /\ p \in stunPending /\ stunPending' = stunPending \ {p}
        /\ probe'[g] = p /\ \A h \in Gens \ {g} : probe'[h] = probe[h]
    BY <1>0, <1>4, TakeMoves
  <2>3. UNCHANGED <<remaining, stunDone>>
    BY <1>0, <1>4, TakeMoves, Zenon
  <2>4. probe[g] = None
    BY <2>2, Zenon DEF ReaderInv
  <2>5. \A q \in Probes : Unanswered(q)' <=> Unanswered(q)
    BY <1>0, <2>1, <2>2, <2>4, Zenon DEF Unanswered
  <2> QED
    BY <2>1, <2>3, <2>5, SameOutstanding, Zenon
<1>5. ASSUME NEW g \in Gens, Handle(g) PROVE RemainingExact'
  <2>1. UNCHANGED <<derpCheck, query>>
    BY <1>5, HandleFrame, Zenon
  <2>2. UNCHANGED stunPending
    BY <1>0, <1>5, HandleMoves, Zenon
  <2>3. CASE UNCHANGED <<probe, remaining, stunDone>>
    BY <1>2, <2>1, <2>2, <2>3, Zenon
  <2>4. CASE /\ probe[g] \in Probes /\ CompleteSTUNProbe(probe[g][1])
             /\ probe'[g] = None /\ \A h \in Gens \ {g} : probe'[h] = probe[h]
    <3> DEFINE p == probe[g]
    <3>1. query[p] = "none" /\ p \notin stunPending /\ \A h \in Gens \ {g} : probe[h] # p
      BY <1>0, <2>4, Zenon DEF PlaceInv
    <3>2. Unanswered(p)
      BY Zenon DEF Unanswered
    <3>3. query'[p] = "none" /\ p \notin stunPending' /\ \A h \in Gens : probe'[h] # p
      BY <1>0, <2>1, <2>2, <2>4, <3>1, Zenon
    <3>4. \A q \in Probes \ {p} : Unanswered(q)' <=> Unanswered(q)
      BY <1>0, <2>1, <2>2, <2>4, Zenon DEF Unanswered
    <3>5. PICK q \in Probes : q = p
      BY <2>4, Zenon
    <3>6. Unanswered(q) /\ ~Unanswered(q)' /\ CompleteSTUNProbe(q[1])
      BY <2>4, <3>2, <3>3, <3>5, Zenon DEF Unanswered
    <3> QED
      BY <1>0, <2>1, <3>4, <3>5, <3>6, OneCompleted, Zenon
  <2> QED
    BY <1>0, <1>5, <2>3, <2>4, HandleMoves, Zenon
<1>6. ASSUME NEW i \in Rounds, FinishQuiet(i) PROVE RemainingExact'
  BY <1>2, <1>6, FinishFrame, Zenon
<1>7. CASE Close \/ UNCHANGED vars
  BY <1>2, <1>7, CloseFrame, Zenon
<1>8. CASE KickReturns
  <2>1. /\ UNCHANGED <<derpCheck, remaining, stunDone, query, probe>>
        /\ stunPending' \in SUBSET stunPending
        /\ \A p \in stunPending : p[1] = derpCheck => p \in stunPending'
    BY <1>8, ReturnEffect, Zenon
  <2>2. \A q \in Probes : q[1] = derpCheck => (Unanswered(q)' <=> Unanswered(q))
    BY <2>1, Zenon DEF Unanswered
  <2> QED
    BY <2>1, <2>2, SameOutstanding, Zenon
<1> QED
  BY <1>1, <1>3, <1>4, <1>5, <1>6, <1>7, <1>8, OpenEffect, CommitEffect, KickRemaining, Zenon
     DEF Next, Finish, FinishQuiet

\* and whose measurements the bind has.
LEMMA MeasurementsStep ==
  TypeOK /\ ReaderInv /\ RoundInv /\ OrderInv /\ MeasurementsCurrent /\ [Next]_vars
    => MeasurementsCurrent'
<1> SUFFICES ASSUME TypeOK, ReaderInv, RoundInv, OrderInv, MeasurementsCurrent, [Next]_vars
             PROVE  MeasurementsCurrent'
  BY Zenon
<1>0. TableType /\ CountType /\ OwnMeasurements /\ FreshAfterFull
  BY Zenon DEF TypeOK, MeasurementsCurrent
<1>1. UNCHANGED <<derpLatency, fullReported>> => FreshAfterFull'
  BY <1>0, Zenon DEF FreshAfterFull
<1>2. latencies' = Unmeasured => OwnMeasurements'
  BY Zenon DEF OwnMeasurements, Unmeasured
<1>3. CASE UNCHANGED <<latencies, derpCheck, targets, derpLatency, fullReported>>
  BY <1>0, <1>1, <1>3, Zenon DEF MeasurementsCurrent, OwnMeasurements
<1>4. ASSUME NEW i \in Rounds, NEW r \in Regions, RecordDERPLatency(i, r),
             derpCheck = i => r \in targets,
             UNCHANGED <<derpCheck, targets, derpLatency, fullReported>>
      PROVE  MeasurementsCurrent'
  <2>1. \A q \in Regions : latencies'[q] # latencies[q] =>
          q = r /\ latencies'[q] = i /\ derpCheck = i
    BY <1>0, <1>4, RecordEffect, Zenon
  <2>2. OwnMeasurements'
    BY <1>0, <1>4, <2>1, Zenon DEF OwnMeasurements
  <2> QED
    BY <1>1, <1>4, <2>2, Zenon DEF MeasurementsCurrent
<1>5. ASSUME NEW g \in Gens, HandleRecord(g) PROVE MeasurementsCurrent'
  <2>1. reader[g] = "record" /\ RecordDERPLatency(probe[g][1], probe[g][2])
    BY <1>5, Zenon DEF HandleRecord
  <2>2. UNCHANGED <<derpCheck, targets, derpLatency, fullReported>>
    BY <1>5, HandleFrame, Zenon DEF Handle
  <2>3. probe[g] \in Probes
    BY <1>0, <2>1, Zenon DEF ReaderInv, TableType
  <2>4. probe[g][1] \in Rounds /\ probe[g][2] \in Regions
    BY <2>3, ProbeParts, Zenon
  <2>5. UnderWay(probe[g]) /\ probe[g][1] # 0
    BY <2>4 DEF UnderWay, Rounds
  <2>6. derpCheck = probe[g][1] => probe[g][2] \in targets
    BY <2>3, <2>5, Zenon DEF RoundInv
  <2> QED
    BY <1>4, <2>1, <2>2, <2>4, <2>6, Zenon
<1>6. ASSUME NEW i \in Rounds, FinishQuiet(i) PROVE MeasurementsCurrent'
  <2>1. UNCHANGED <<derpCheck, targets, derpLatency, fullReported>>
    BY <1>6, FinishFrame, Zenon
  <2>2. CASE UNCHANGED latencies
    BY <1>3, <2>1, <2>2, Zenon
  <2>3. ASSUME NEW r \in Regions, r \in https[i], finish[i] = "https", RecordDERPLatency(i, r)
        PROVE  MeasurementsCurrent'
    <3>1. i # 0
      BY DEF Rounds
    <3>2. derpCheck = i => r \in targets
      BY <2>3, <3>1, Zenon DEF RoundInv
    <3> QED
      BY <1>4, <2>1, <2>3, <3>2, Zenon
  <2> QED
    BY <1>6, <2>2, <2>3, Zenon DEF FinishQuiet, Cancelled, Waited, Superseded, Measured
<1>7. ASSUME NEW i \in Rounds, Commit(i) PROVE MeasurementsCurrent'
  <2>1. /\ derpCheck = i /\ latencies' = Unmeasured /\ derpLatency' = Merged(i)
        /\ fullReported' = IF full THEN i ELSE fullReported
    BY <1>7, CommitEffect, Zenon
  <2>2. /\ i \in Nat \ {0} /\ fullReported \in Nat /\ fullReported <= i
        /\ latencies \in [Regions -> Nat] /\ derpLatency \in [Regions -> Nat]
    BY <1>0, <2>1, NetcheckConstants DEF Rounds, CountType, TableType, RoundInv, OrderInv
  <2>3. ASSUME NEW r \in Regions, derpLatency'[r] # 0 PROVE derpLatency'[r] >= fullReported'
    <3>1. derpLatency'[r] = IF latencies[r] # 0 \/ full THEN latencies[r] ELSE derpLatency[r]
      BY <2>1, Zenon DEF Merged
    <3>2. latencies[r] # 0 => latencies[r] = i
      BY <1>0, <2>1, Zenon DEF OwnMeasurements
    <3>3. derpLatency[r] # 0 => derpLatency[r] >= fullReported
      BY <1>0, Zenon DEF FreshAfterFull
    <3> QED
      BY <2>1, <2>2, <2>3, <3>1, <3>2, <3>3
  <2>4. FreshAfterFull'
    BY <2>3, Zenon DEF FreshAfterFull
  <2> QED
    BY <1>2, <2>1, <2>4, Zenon DEF MeasurementsCurrent
<1>8. ASSUME NEW udp \in BOOLEAN, Open(udp) PROVE MeasurementsCurrent'
  BY <1>1, <1>2, <1>8, OpenEffect, Zenon DEF MeasurementsCurrent
<1>9. ASSUME NEW f \in BOOLEAN, NEW ts \in SUBSET Regions, KickDiscovery(f, ts)
      PROVE  MeasurementsCurrent'
  BY <1>1, <1>2, <1>9, KickEffect, Zenon DEF MeasurementsCurrent
<1>10. ASSUME NEW p \in Probes, Query(p) PROVE MeasurementsCurrent'
  BY <1>3, <1>10, QueryFrame, Zenon
<1>11. ASSUME NEW g \in Gens, \/ HandleComplete(g) \/ HandleStore(g)
                              \/ \E p \in Probes, ok \in BOOLEAN : HandleSTUN(g, p, ok)
       PROVE  MeasurementsCurrent'
  <2>1. UNCHANGED <<derpCheck, targets, derpLatency, fullReported>>
    BY <1>11, HandleFrame, Zenon DEF Handle
  <2>2. UNCHANGED latencies
    BY <1>11, Zenon DEF HandleComplete, HandleStore, HandleSTUN
  <2> QED
    BY <1>3, <2>1, <2>2, Zenon
<1>12. CASE Close \/ UNCHANGED vars
  BY <1>3, <1>12, CloseFrame, Zenon
<1>13. CASE KickReturns
  BY <1>3, <1>13, ReturnEffect, Zenon
<1> QED
  BY <1>5, <1>6, <1>7, <1>8, <1>9, <1>10, <1>11, <1>12, <1>13, Zenon
     DEF Next, Handle, Finish, FinishQuiet

\* So every step keeps NetcheckInv.
LEMMA NetcheckStep == NetcheckInv /\ [Next]_vars => NetcheckInv'
BY FlagStep, CountStep, TableStep, ReaderStep, PlaceStep, RoundStep, OrderStep,
   RemainingStep, MeasurementsStep, Zenon DEF NetcheckInv, TypeOK

\* The inductive invariant of the latency rounds, for any regions, rounds and
\* openings.
THEOREM NetcheckAlways == Spec => []NetcheckInv
BY InitNetcheck, NetcheckStep, PTL DEF Spec

\* completeSTUNProbe counts every request of the current round exactly once,
\* whatever is lost, late or fails, so a round ends early only when all replies
\* are in.
THEOREM RemainingCounts == Spec => []RemainingExact
<1>1. NetcheckInv => RemainingExact
  BY Zenon DEF NetcheckInv
<1> QED
  BY <1>1, NetcheckAlways, PTL

\* No measurement of another round gets into a round, and none older than the last
\* full round into the latencies that regions are ordered by.
THEOREM MeasurementsStayCurrent == Spec => []MeasurementsCurrent
<1>1. NetcheckInv => MeasurementsCurrent
  BY Zenon DEF NetcheckInv
<1> QED
  BY <1>1, NetcheckAlways, PTL

\* finishDERPCheck reports rounds in ascending order, and only rounds of the
\* present opening of the bind.
THEOREM ReportsAscending == Spec => ReportsAscend
<1>1. NetcheckInv /\ [Next]_vars =>
        [reported' # reported => reported' > reported /\ ctx[reported'] = gen]_vars
  <2> SUFFICES ASSUME NetcheckInv, [Next]_vars, reported' # reported
               PROVE  reported' > reported /\ ctx[reported'] = gen
    BY Zenon
  <2>1. PICK i \in Rounds : Commit(i)
    <3>1. ASSUME NEW g \in Gens, \/ Handle(g)
                                 \/ \E p \in Probes, ok \in BOOLEAN : HandleSTUN(g, p, ok)
          PROVE  UNCHANGED reported
      BY <3>1, HandleFrame, Zenon
    <3>2. ASSUME NEW f \in BOOLEAN, NEW ts \in SUBSET Regions, KickDiscovery(f, ts)
          PROVE  UNCHANGED reported
      BY <3>2, KickEffect, Zenon
    <3>3. ASSUME NEW udp \in BOOLEAN, Open(udp) PROVE UNCHANGED reported
      BY <3>3, OpenEffect, Zenon
    <3>4. CASE Close \/ UNCHANGED vars
      BY <3>4, CloseFrame, Zenon
    <3>5. ASSUME NEW p \in Probes, Query(p) PROVE UNCHANGED reported
      BY <3>5, QueryFrame, Zenon
    <3>6. ASSUME NEW i \in Rounds, FinishQuiet(i) PROVE UNCHANGED reported
      BY <3>6, FinishFrame, Zenon
    <3>7. CASE KickReturns
      BY <3>7, ReturnEffect, Zenon
    <3> QED
      BY <3>1, <3>2, <3>3, <3>4, <3>5, <3>6, <3>7, Zenon DEF Next, Finish, FinishQuiet
  <2>2. derpCheck = i /\ reported' = i
    BY <2>1, CommitEffect, Zenon
  <2>a. i # 0
    BY DEF Rounds
  <2>3. ctx[i] = gen /\ reported < i
    BY <2>2, <2>a, Zenon DEF NetcheckInv, RoundInv
  <2> QED
    BY <2>2, <2>3, Zenon DEF NetcheckInv, TypeOK, CountType, Rounds
<1> QED
  BY <1>1, NetcheckAlways, PTL DEF Spec, ReportsAscend

-----------------------------------------------------------------------------
(***************************************************************************)
(* DerpHome: the loop over the latencies and the order of the probes are   *)
(* induction arguments, over the regions visited and over the number of    *)
(* regions to sort.  Each takes the least natural number for which its     *)
(* claim fails (LeastNat) and shows that it holds there.                   *)
(***************************************************************************)

\* A set of naturals that is not empty has a least element: proofs by induction
\* take the least counterexample.
LEMMA LeastNat ==
  ASSUME NEW T \in SUBSET Nat, T # {}
  PROVE  \E m \in T : \A k \in T : m <= k
<1>1. PICK m \in T : \A k \in T : ~(<<k, m>> \in OpToRel(<, Nat))
  BY WFMin, NatLessThanWellFounded
<1>2. \A k \in T : ~(k < m)
  BY <1>1 DEF OpToRel
<1> QED
  BY <1>2

\* b has the loop's variable after each of the first n regions.
Loop(b, n, regions, latency, order) ==
  b = [i \in 0..n |-> IF i = 0 THEN 0 ELSE VisitLatency(regions, latency, order[i], b[i - 1])]

\* There is such a b without a region,
LEMMA LoopBegins ==
  ASSUME NEW regions, NEW latency, NEW order
  PROVE  \E b : Loop(b, 0, regions, latency, order)
<1> DEFINE b == [i \in 0..0 |-> 0]
<1>1. Loop(b, 0, regions, latency, order)
  BY DEF Loop
<1> QED
  BY <1>1, Zenon

\* and with one region more.
LEMMA LoopGoesOn ==
  ASSUME NEW regions, NEW latency, NEW order, NEW n \in Nat \ {0},
         \E b : Loop(b, n - 1, regions, latency, order)
  PROVE  \E b : Loop(b, n, regions, latency, order)
<1>1. PICK b : Loop(b, n - 1, regions, latency, order)
  BY Zenon
<1> DEFINE c == [i \in 0..n |-> IF i = n THEN VisitLatency(regions, latency, order[n], b[n - 1])
                                         ELSE b[i]]
<1>2. Loop(c, n, regions, latency, order)
  BY <1>1 DEF Loop
<1> QED
  BY <1>2, Zenon

\* The recursive function is the loop.
LEMMA BestLoop ==
  ASSUME NEW regions, NEW latency, NEW order
  PROVE  Loop(BestAfter(regions, latency, order), N, regions, latency, order)
<1> DEFINE P(n) == \E b : Loop(b, n, regions, latency, order)
           T == {n \in 0..N : ~P(n)}
           R(b) == Loop(b, N, regions, latency, order)
<1>1. P(0)
  BY LoopBegins, Zenon
<1>2. ASSUME NEW n \in Nat \ {0}, P(n - 1) PROVE P(n)
  BY <1>2, LoopGoesOn, Zenon
<1>3. BestAfter(regions, latency, order) = CHOOSE b : R(b)
  BY DEF BestAfter, Loop
<1> HIDE DEF P
<1>4. \A n \in 0..N : P(n)
  <2> SUFFICES ASSUME T # {} PROVE FALSE
    BY Zenon
  <2>1. PICK m \in T : \A k \in T : m <= k
    <3>1. T \in SUBSET Nat
      BY HomeConstants
    <3> QED
      BY <3>1, LeastNat, Zenon
  <2>2. m \in Nat \ {0}
    BY <1>1, <2>1, HomeConstants
  <2>3. m - 1 \in 0..N /\ ~(m <= m - 1)
    BY <2>2, HomeConstants
  <2>4. P(m - 1)
    BY <2>1, <2>3, Zenon
  <2> QED
    BY <1>2, <2>1, <2>2, <2>4, Zenon
<1>5. \E b : R(b)
  <2>1. N \in 0..N
    BY HomeConstants
  <2> QED
    BY <1>4, <2>1, Zenon DEF P
<1> HIDE DEF R
<1>6. R(BestAfter(regions, latency, order))
  BY <1>3, <1>5, Zenon
<1> QED
  BY <1>6, Zenon DEF R

\* x is the fastest of the measured regions S, the one with the least number
\* among equally fast ones, and 0 if there is none.
Winner(S, latency, x) ==
  IF S = {} THEN x = 0
  ELSE x \in S /\ \A s \in S : \/ latency[x] < latency[s]
                               \/ latency[x] = latency[s] /\ x <= s

\* The regions of a map that have a latency.
WithLatency(regions, latency) == {r \in regions : latency[r] # 0}

\* One region changes the winner as the loop does.
LEMMA VisitWins ==
  ASSUME NEW regions \in SUBSET RegionIDs, NEW latency \in [RegionIDs -> Nat],
         NEW S \in SUBSET WithLatency(regions, latency), NEW r \in RegionIDs, NEW x,
         Winner(S, latency, x)
  PROVE  Winner(S \cup ({r} \cap WithLatency(regions, latency)), latency,
                VisitLatency(regions, latency, r, x))
<1> DEFINE M == WithLatency(regions, latency)
           y == VisitLatency(regions, latency, r, x)
<1>0. M \subseteq RegionIDs /\ S \subseteq RegionIDs /\ 0 \notin RegionIDs
  <2>1. M \subseteq RegionIDs /\ S \subseteq RegionIDs
    BY Zenon DEF WithLatency
  <2>2. 0 \notin RegionIDs
    BY DEF RegionIDs
  <2> QED
    BY <2>1, <2>2, Zenon
<1>1. CASE r \notin M
  <2>1. y = x
    BY <1>1, Zenon DEF WithLatency, VisitLatency
  <2>2. S \cup ({r} \cap M) = S
    BY <1>1, Zenon
  <2> QED
    BY <2>1, <2>2, Zenon
<1>2. CASE r \in M
  <2>1. S \cup ({r} \cap M) = S \cup {r}
    BY <1>2, Zenon
  <2>2. y = IF Better(latency, r, x) THEN r ELSE x
    BY <1>2, Zenon DEF WithLatency, VisitLatency
  <2>3. CASE S = {}
    <3>1. y = r
      BY <2>2, <2>3, Zenon DEF Winner, Better
    <3>2. S \cup {r} = {r} /\ latency[r] = latency[r] /\ r <= r
      BY <2>3 DEF RegionIDs
    <3> QED
      BY <2>1, <3>1, <3>2, Zenon DEF Winner
  <2>4. CASE S # {}
    <3>1. /\ x \in S /\ x \in RegionIDs /\ x # 0
          /\ \A s \in S : latency[x] < latency[s] \/ (latency[x] = latency[s] /\ x <= s)
      BY <1>0, <2>4, Zenon DEF Winner
    <3>2. \A s \in S : s \in RegionIDs /\ latency[s] \in Nat
      BY <1>0, Zenon
    <3>3. y \in S \cup {r} /\ \A s \in S \cup {r} : \/ latency[y] < latency[s]
                                                    \/ latency[y] = latency[s] /\ y <= s
      <4>1. CASE Better(latency, r, x)
        <5>1. y = r
          BY <2>2, <4>1, Zenon
        <5>2. latency[r] < latency[x] \/ (latency[r] = latency[x] /\ r < x)
          BY <3>1, <4>1, Zenon DEF Better
        <5> QED
          BY <3>1, <3>2, <5>1, <5>2 DEF RegionIDs
      <4>2. CASE ~Better(latency, r, x)
        <5>1. y = x
          BY <2>2, <4>2, Zenon
        <5>2. ~(latency[r] < latency[x]) /\ ~(latency[r] = latency[x] /\ r < x)
          BY <4>2, Zenon DEF Better
        <5> QED
          BY <3>1, <3>2, <5>1, <5>2 DEF RegionIDs
      <4> QED
        BY <4>1, <4>2, Zenon
    <3>4. S \cup {r} # {}
      BY Zenon
    <3> HIDE DEF y
    <3> QED
      BY <2>1, <3>3, <3>4, Zenon DEF Winner, y
  <2> QED
    BY <2>3, <2>4, Zenon
<1> QED
  BY <1>1, <1>2, Zenon

\* Whatever order the regions are visited in, the loop ends with the winner of
\* the measured ones.
LEMMA BestWins ==
  ASSUME NEW regions \in SUBSET RegionIDs, NEW latency \in [RegionIDs -> Nat], NEW order \in Orders
  PROVE  Winner(WithLatency(regions, latency), latency, BestAfter(regions, latency, order)[N])
<1> DEFINE M == WithLatency(regions, latency)
           b == BestAfter(regions, latency, order)
           Seen(i) == {order[j] : j \in 1..i}
           P(i) == Winner(Seen(i) \cap M, latency, b[i])
           T == {n \in 0..N : ~P(n)}
<1>0. b = [i \in 0..N |-> IF i = 0 THEN 0 ELSE VisitLatency(regions, latency, order[i], b[i - 1])]
  <2>1. Loop(b, N, regions, latency, order)
    BY BestLoop, Zenon
  <2> QED
    BY <2>1 DEF Loop
<1> HIDE DEF b
<1>1. P(0)
  <2>1. b[0] = 0
    BY <1>0, HomeConstants
  <2>2. Seen(0) \cap M = {}
    OBVIOUS
  <2> QED
    BY <2>1, <2>2, Zenon DEF Winner
<1>2. ASSUME NEW n \in 1..N, P(n - 1) PROVE P(n)
  <2>1. b[n] = VisitLatency(regions, latency, order[n], b[n - 1])
    BY <1>0, HomeConstants
  <2>2. order[n] \in RegionIDs
    BY Zenon DEF Orders, Bijection, Injection
  <2>3. Seen(n) = Seen(n - 1) \cup {order[n]}
    <3>1. 1..n = (1..(n - 1)) \cup {n}
      BY HomeConstants
    <3> QED
      BY <3>1, Zenon
  <2>4. (Seen(n - 1) \cap M) \cup ({order[n]} \cap M) = Seen(n) \cap M
    BY <2>3, Zenon
  <2>5. Seen(n - 1) \cap M \in SUBSET M
    BY Zenon
  <2> HIDE DEF Seen
  <2> QED
    BY <1>2, <2>1, <2>2, <2>4, <2>5, VisitWins, Zenon
<1>3. Seen(N) = RegionIDs
  <2>1. order \in [1..N -> RegionIDs] /\ \A r \in RegionIDs : \E j \in 1..N : order[j] = r
    BY Zenon DEF Orders, Bijection, Surjection, Injection
  <2> QED
    BY <2>1, Zenon
<1>4. M \subseteq RegionIDs
  BY Zenon DEF WithLatency
<1> HIDE DEF P
<1>5. \A n \in 0..N : P(n)
  <2> SUFFICES ASSUME T # {} PROVE FALSE
    BY Zenon
  <2>1. PICK m \in T : \A k \in T : m <= k
    <3>1. T \in SUBSET Nat
      BY HomeConstants
    <3> QED
      BY <3>1, LeastNat, Zenon
  <2>2. m \in 1..N
    BY <1>1, <2>1, HomeConstants
  <2>3. m - 1 \in 0..N /\ ~(m <= m - 1)
    BY <2>2, HomeConstants
  <2>4. P(m - 1)
    BY <2>1, <2>3, Zenon
  <2> QED
    BY <1>2, <2>1, <2>2, <2>4, Zenon
<1>6. P(N)
  <2>1. N \in 0..N
    BY HomeConstants
  <2> QED
    BY <1>5, <2>1, Zenon
<1>7. Seen(N) \cap M = M
  BY <1>3, <1>4, Zenon
<1> QED
  BY <1>6, <1>7, Zenon DEF P, b

\* There is one winner.
LEMMA OneWinner ==
  ASSUME NEW latency \in [RegionIDs -> Nat], NEW S \in SUBSET RegionIDs, NEW x, NEW y,
         Winner(S, latency, x), Winner(S, latency, y)
  PROVE  x = y
<1>1. CASE S = {}
  BY <1>1, Zenon DEF Winner
<1>2. CASE S # {}
  <2>1. /\ x \in S /\ y \in S /\ x \in RegionIDs /\ y \in RegionIDs
        /\ latency[x] \in Nat /\ latency[y] \in Nat
        /\ latency[x] < latency[y] \/ (latency[x] = latency[y] /\ x <= y)
        /\ latency[y] < latency[x] \/ (latency[y] = latency[x] /\ y <= x)
    BY <1>2, Zenon DEF Winner
  <2> QED
    BY <2>1 DEF RegionIDs
<1> QED
  BY <1>1, <1>2, Zenon

\* choosePreferredDERP keeps the current home or takes the first region.
LEMMA PreferredFacts ==
  ASSUME NEW regions \in SUBSET RegionIDs, NEW current
  PROVE  /\ regions = {} => ChoosePreferredDERP(regions, current) = 0
         /\ regions # {} => ChoosePreferredDERP(regions, current) \in regions
         /\ current \in regions => ChoosePreferredDERP(regions, current) = current
<1>1. regions # {} => \E r \in regions : \A s \in regions : r <= s
  <2>1. regions \in SUBSET Nat
    BY HomeConstants DEF RegionIDs
  <2> QED
    BY <2>1, LeastNat, Zenon
<1> QED
  BY <1>1, Zenon DEF ChoosePreferredDERP

\* choosePreferredDERPMeasured once its loop has found best.
Chosen(regions, current, latency, best) ==
  IF best = 0 THEN ChoosePreferredDERP(regions, current)
  ELSE IF /\ current \in regions /\ latency[current] # 0
          /\ latency[current] <= latency[best] \/ Sticky(latency[current], latency[best])
       THEN current
       ELSE best

\* What a home chosen from a map and its latencies is like.
GoodHome(regions, current, latency, home) ==
  /\ IF regions = {} THEN home = 0 ELSE home \in regions
  /\ \A r \in regions : latency[r] # 0 =>
       latency[home] # 0 /\ ~MuchFaster(latency[r], latency[home], 2)
  /\ home # current /\ current \in regions /\ latency[current] # 0 =>
       MuchFaster(latency[home], latency[current], 0)

\* A home chosen for the fastest region is a good one, and would be chosen again.
LEMMA ChosenFacts ==
  ASSUME NEW regions \in SUBSET RegionIDs, NEW latency \in [RegionIDs -> Nat],
         NEW current, NEW best, Winner(WithLatency(regions, latency), latency, best)
  PROVE  /\ GoodHome(regions, current, latency, Chosen(regions, current, latency, best))
         /\ Chosen(regions, Chosen(regions, current, latency, best), latency, best)
              = Chosen(regions, current, latency, best)
<1> DEFINE M == WithLatency(regions, latency)
           home == Chosen(regions, current, latency, best)
<1>0. M \subseteq regions /\ regions \subseteq RegionIDs
  BY Zenon DEF WithLatency
<1>00. 0 \notin RegionIDs
  BY DEF RegionIDs
<1>1. CASE M = {}
  <2>1. best = 0
    BY <1>1, Zenon DEF Winner
  <2>2. \A x : Chosen(regions, x, latency, best) = ChoosePreferredDERP(regions, x)
    BY <2>1, Zenon DEF Chosen
  <2>3. \A r \in regions : latency[r] = 0
    BY <1>1, Zenon DEF WithLatency
  <2>4. IF regions = {} THEN home = 0 ELSE home \in regions
    <3>1. home = ChoosePreferredDERP(regions, current)
      BY <2>2, Zenon
    <3>2. CASE regions = {}
      BY <3>1, <3>2, PreferredFacts, Zenon
    <3>3. CASE regions # {}
      <4>1. ChoosePreferredDERP(regions, current) \in regions
        BY <3>3, PreferredFacts, Zenon
      <4> QED
        BY <3>1, <3>3, <4>1, Zenon
    <3> QED
      BY <3>2, <3>3, Zenon
  <2>5. Chosen(regions, home, latency, best) = home
    <3>1. CASE regions = {}
      <4>1. \A x : ChoosePreferredDERP(regions, x) = 0
        BY <3>1, PreferredFacts, Zenon
      <4> HIDE DEF home
      <4> QED
        BY <2>2, <2>4, <3>1, <4>1, Zenon
    <3>2. CASE regions # {}
      BY <2>2, <2>4, <3>2, PreferredFacts, Zenon
    <3> QED
      BY <3>1, <3>2, Zenon
  <2> HIDE DEF home
  <2>6. GoodHome(regions, current, latency, home)
    BY <2>3, <2>4, Zenon DEF GoodHome
  <2> QED
    BY <2>5, <2>6, Zenon DEF home
<1>2. CASE M # {}
  <2>1. /\ best \in M
        /\ \A r \in M : latency[best] < latency[r] \/ (latency[best] = latency[r] /\ best <= r)
    BY <1>2, Zenon DEF Winner
  <2>2. best \in regions /\ best \in RegionIDs /\ best # 0 /\ latency[best] # 0
    BY <1>0, <1>00, <2>1, Zenon DEF WithLatency
  <2>3. \A r \in regions : latency[r] \in Nat
    BY <1>0, Zenon
  <2>4. \A r \in regions : latency[r] # 0 => latency[best] <= latency[r]
    <3>1. \A r \in regions : latency[r] # 0 => r \in M
      BY Zenon DEF WithLatency
    <3> QED
      BY <2>1, <2>2, <2>3, <3>1
  <2>5. CASE /\ current \in regions /\ latency[current] # 0
             /\ latency[current] <= latency[best] \/ Sticky(latency[current], latency[best])
    <3>1. home = current
      BY <2>2, <2>5, Zenon DEF Chosen
    <3>2. Chosen(regions, home, latency, best) = home
      BY <3>1, Zenon
    <3>3. \A r \in regions : latency[r] # 0 => ~MuchFaster(latency[r], latency[current], 2)
      <4> SUFFICES ASSUME NEW r \in regions, latency[r] # 0
                   PROVE  ~MuchFaster(latency[r], latency[current], 2)
        BY Zenon
      <4>1. /\ latency[r] \in Nat /\ latency[current] \in Nat /\ latency[best] \in Nat
            /\ latency[best] <= latency[r]
        BY <2>2, <2>3, <2>4, <2>5, Zenon
      <4>2. \/ latency[current] <= latency[best]
            \/ latency[current] - latency[best] < Margin
            \/ latency[best] > (latency[current] \div 3) * 2
        BY <2>5, Zenon DEF Sticky
      <4> QED
        BY <4>1, <4>2 DEF MuchFaster, Margin
    <3>4. regions # {}
      BY <2>5, Zenon
    <3>5. GoodHome(regions, current, latency, current)
      BY <2>5, <3>3, <3>4, Zenon DEF GoodHome
    <3> QED
      BY <3>1, <3>2, <3>5, Zenon
  <2>6. CASE ~(/\ current \in regions /\ latency[current] # 0
               /\ latency[current] <= latency[best] \/ Sticky(latency[current], latency[best]))
    <3>1. home = best
      BY <2>2, <2>6, Zenon DEF Chosen
    <3>2. latency[best] <= latency[best]
      BY <2>2
    <3>3. Chosen(regions, home, latency, best) = home
      BY <2>2, <3>1, <3>2, Zenon DEF Chosen
    <3>4. \A r \in regions : latency[r] # 0 => ~MuchFaster(latency[r], latency[best], 2)
      BY <2>2, <2>3, <2>4 DEF MuchFaster, Margin
    <3>5. ASSUME current \in regions, latency[current] # 0
          PROVE  MuchFaster(latency[best], latency[current], 0)
      <4>1. latency[current] \in Nat /\ latency[best] \in Nat
        BY <2>2, <2>3, <3>5, Zenon
      <4>2. /\ ~(latency[current] - latency[best] < Margin)
            /\ ~(latency[best] > (latency[current] \div 3) * 2)
        BY <2>6, <3>5, Zenon DEF Sticky
      <4> QED
        BY <4>1, <4>2 DEF MuchFaster, Margin
    <3>6. regions # {}
      BY <2>2, Zenon
    <3>7. GoodHome(regions, current, latency, best)
      BY <2>2, <3>4, <3>5, <3>6, Zenon DEF GoodHome
    <3> QED
      BY <3>1, <3>3, <3>7, Zenon
  <2> QED
    BY <2>5, <2>6, Zenon
<1> QED
  BY <1>1, <1>2, Zenon

\* The latencies can be visited.
LEMMA OrdersExist == Orders # {}
<1> DEFINE o == [i \in 1..N |-> i]
<1>1. o \in Orders
  BY DEF Orders, RegionIDs, Bijection, Injection, Surjection, IsInjective
<1> QED
  BY <1>1, Zenon

\* Every order of the visits chooses the same.
LEMMA ChoiceOfOrder ==
  ASSUME NEW regions \in SUBSET RegionIDs, NEW latency \in [RegionIDs -> Nat]
  PROVE  \E best : /\ Winner(WithLatency(regions, latency), latency, best)
                   /\ \A current, order : order \in Orders =>
                        ChooseMeasured(regions, current, latency, order)
                          = Chosen(regions, current, latency, best)
<1>1. Orders # {}
  BY OrdersExist, Zenon
<1>2. PICK o \in Orders : TRUE
  BY <1>1, Zenon
<1> DEFINE best == BestAfter(regions, latency, o)[N]
<1>3. Winner(WithLatency(regions, latency), latency, best)
  BY BestWins, Zenon
<1>4. WithLatency(regions, latency) \in SUBSET RegionIDs
  BY Zenon DEF WithLatency
<1>5. ASSUME NEW current, NEW order \in Orders
      PROVE  ChooseMeasured(regions, current, latency, order)
               = Chosen(regions, current, latency, best)
  <2>1. BestAfter(regions, latency, order)[N] = best
    BY <1>3, <1>4, BestWins, OneWinner, Zenon
  <2> QED
    BY <2>1, Zenon DEF ChooseMeasured, Chosen
<1> QED
  BY <1>3, <1>5, Zenon

\* What is chosen from the latencies of a map: facts of the home after a step.
LEMMA ChoiceFacts ==
  ASSUME NEW regions \in SUBSET RegionIDs, NEW latency \in [RegionIDs -> Nat], NEW current,
         NEW home \in {ChooseMeasured(regions, current, latency, o) : o \in Orders}
  PROVE  GoodHome(regions, current, latency, home)
<1>1. PICK best : /\ Winner(WithLatency(regions, latency), latency, best)
                  /\ \A c, order : order \in Orders =>
                       ChooseMeasured(regions, c, latency, order)
                         = Chosen(regions, c, latency, best)
  BY ChoiceOfOrder, Zenon
<1>2. home = Chosen(regions, current, latency, best)
  BY <1>1, Zenon
<1> QED
  BY <1>1, <1>2, ChosenFacts, Zenon

\* New latencies are latencies.
LEMMA ReplacedType ==
  ASSUME NEW old \in [RegionIDs -> Nat], NEW report \in [RegionIDs -> Nat], NEW whole
  PROVE  Replaced(old, whole, report) \in [RegionIDs -> Nat]
BY Zenon DEF Replaced

\* What a step does to the home: both kinds choose from the new latencies and
\* the new map.
LEMMA StepChooses ==
  ASSUME HomeTypeOK, HomeNext
  PROVE  /\ usable' \in SUBSET RegionIDs /\ measured' \in [RegionIDs -> Nat]
         /\ bindLatency' \in [RegionIDs -> Nat]
         /\ preferred' \in {ChooseMeasured(usable', preferred, measured', o) : o \in Orders}
<1>1. ASSUME NEW whole \in BOOLEAN, Round(whole)
      PROVE  /\ usable' \in SUBSET RegionIDs /\ measured' \in [RegionIDs -> Nat]
             /\ bindLatency' \in [RegionIDs -> Nat]
             /\ preferred' \in {ChooseMeasured(usable', preferred, measured', o) : o \in Orders}
  <2> DEFINE probed == Range(Targets(whole))
             complete == whole /\ Cardinality(usable) <= MaxFull
             report(answers) == [r \in RegionIDs |-> IF r \in probed THEN answers[r] ELSE 0]
  <2>1. PICK answers \in [probed -> Latencies \cup {0}] :
               /\ bindLatency' = Replaced(bindLatency, complete, report(answers))
               /\ measured' = Replaced(measured, complete, report(answers))
    BY <1>1, Zenon DEF Round
  <2>2. report(answers) \in [RegionIDs -> Nat]
    <3> HIDE DEF probed
    <3>1. Latencies \cup {0} \subseteq Nat /\ 0 \in Nat
      BY HomeConstants
    <3>2. \A r \in probed : answers[r] \in Nat
      BY <3>1, Zenon
    <3> QED
      BY <3>1, <3>2, Zenon
  <2>3. measured' \in [RegionIDs -> Nat] /\ bindLatency' \in [RegionIDs -> Nat]
    <3> HIDE DEF report, complete
    <3> QED
      BY <2>1, <2>2, ReplacedType, Zenon DEF HomeTypeOK
  <2>4. usable' = usable /\ usable' \in SUBSET RegionIDs
    BY <1>1, Zenon DEF Round, HomeTypeOK
  <2> QED
    BY <1>1, <2>3, <2>4, Zenon DEF Round
<1>2. ASSUME NEW regions \in SUBSET RegionIDs, NewMap(regions)
      PROVE  /\ usable' \in SUBSET RegionIDs /\ measured' \in [RegionIDs -> Nat]
             /\ bindLatency' \in [RegionIDs -> Nat]
             /\ preferred' \in {ChooseMeasured(usable', preferred, measured', o) : o \in Orders}
  <2>1. measured' \in [RegionIDs -> Nat]
    BY <1>2 DEF NewMap, HomeTypeOK
  <2>2. usable' = regions /\ bindLatency' = bindLatency
    BY <1>2, Zenon DEF NewMap
  <2> QED
    BY <1>2, <2>1, <2>2, Zenon DEF NewMap, HomeTypeOK
<1> QED
  BY <1>1, <1>2, Zenon DEF HomeNext

\* HomeInv holds before the first map,
LEMMA HomeInitial == HomeInit => HomeInv
BY HomeConstants DEF HomeInit, HomeInv, HomeTypeOK, HomeUsable, HomeNearBest

\* and after every round and every map.
LEMMA HomeStep ==
  ASSUME HomeInv, [HomeNext]_derpHomeVars
  PROVE  HomeInv'
<1>0. CASE UNCHANGED derpHomeVars
  BY <1>0, Zenon DEF HomeInv, HomeTypeOK, HomeUsable, HomeNearBest, derpHomeVars
<1> SUFFICES ASSUME HomeNext PROVE HomeInv'
  BY <1>0, Zenon
<1>1. /\ usable' \in SUBSET RegionIDs /\ measured' \in [RegionIDs -> Nat]
      /\ bindLatency' \in [RegionIDs -> Nat]
      /\ preferred' \in {ChooseMeasured(usable', preferred, measured', o) : o \in Orders}
  BY StepChooses, Zenon DEF HomeInv
<1>2. /\ IF usable' = {} THEN preferred' = 0 ELSE preferred' \in usable'
      /\ \A r \in usable' : measured'[r] # 0 =>
           measured'[preferred'] # 0 /\ ~MuchFaster(measured'[r], measured'[preferred'], 2)
  <2>1. GoodHome(usable', preferred, measured', preferred')
    BY <1>1, ChoiceFacts, Zenon
  <2> QED
    BY <2>1, Zenon DEF GoodHome
<1>3. preferred' \in RegionIDs \cup {0}
  BY <1>1, <1>2, Zenon
<1> QED
  BY <1>1, <1>2, <1>3, Zenon DEF HomeInv, HomeTypeOK, HomeUsable, HomeNearBest

\* Choosing again changes nothing, whatever the order of the visits.
LEMMA ChoosesAlike ==
  ASSUME HomeTypeOK
  PROVE  ChoiceStable
<1> DEFINE Homes(c) == {ChooseMeasured(usable, c, measured, o) : o \in Orders}
<1> SUFFICES ASSUME usable # {}, NEW c \in RegionIDs \cup {0}
             PROVE  \E home \in Homes(c) : Homes(c) = {home} /\ Homes(home) = {home}
  BY Zenon DEF ChoiceStable
<1>1. usable \in SUBSET RegionIDs /\ measured \in [RegionIDs -> Nat]
  BY Zenon DEF HomeTypeOK
<1>2. PICK best : /\ Winner(WithLatency(usable, measured), measured, best)
                  /\ \A d, order : order \in Orders =>
                       ChooseMeasured(usable, d, measured, order)
                         = Chosen(usable, d, measured, best)
  BY <1>1, ChoiceOfOrder, Zenon
<1>3. Orders # {}
  BY OrdersExist, Zenon
<1>4. \A d : Homes(d) = {Chosen(usable, d, measured, best)}
  BY <1>2, <1>3, Zenon
<1> HIDE DEF Homes
<1>5. Chosen(usable, Chosen(usable, c, measured, best), measured, best)
        = Chosen(usable, c, measured, best)
  <2>1. Winner(WithLatency(usable, measured), measured, best)
    BY <1>2, Zenon
  <2> QED
    BY ONLY <1>1, <2>1, ChosenFacts, Zenon
<1> QED
  BY <1>4, <1>5, Zenon

\* The home is usable and near the best region after any reports and maps, and
\* the order of Go's maps decides nothing.
THEOREM WellChosen == HomeSpec => []HomeWellChosen
<1>1. HomeInit => HomeInv
  BY HomeInitial, Zenon
<1>2. HomeInv /\ [HomeNext]_derpHomeVars => HomeInv'
  BY HomeStep, Zenon
<1>3. HomeInv => HomeWellChosen
  BY ChoosesAlike, Zenon DEF HomeInv, HomeWellChosen
<1> QED
  BY <1>1, <1>2, <1>3, PTL DEF HomeSpec

\* A home that is still usable and measured gives way only to a much faster one.
THEOREM Stays == HomeSpec => HomeSticky
<1> DEFINE Moved == preferred' # preferred /\ preferred # 0 =>
                      \/ preferred \notin usable'
                      \/ measured'[preferred] = 0
                      \/ MuchFaster(measured'[preferred'], measured'[preferred], 0)
<1>1. HomeInit => HomeInv
  BY HomeInitial, Zenon
<1>2. HomeInv /\ [HomeNext]_derpHomeVars => HomeInv'
  BY HomeStep, Zenon
<1>3. HomeInv /\ [HomeNext]_derpHomeVars => [Moved]_derpHomeVars
  <2>1. HomeInv /\ HomeNext => Moved
    <3> SUFFICES ASSUME HomeInv, HomeNext PROVE Moved
      BY Zenon
    <3>1. /\ usable' \in SUBSET RegionIDs /\ measured' \in [RegionIDs -> Nat]
          /\ preferred' \in {ChooseMeasured(usable', preferred, measured', o) : o \in Orders}
      BY StepChooses, Zenon DEF HomeInv
    <3>2. GoodHome(usable', preferred, measured', preferred')
      BY <3>1, ChoiceFacts, Zenon
    <3> QED
      BY <3>2, Zenon DEF GoodHome
  <2> QED
    BY <2>1, Zenon
<1> QED
  BY <1>1, <1>2, <1>3, PTL DEF HomeSpec, HomeSticky

-----------------------------------------------------------------------------
(* The regions to probe.                                                   *)

\* Some region comes before all the others.
LEMMA FirstExists ==
  ASSUME NEW S \in SUBSET RegionIDs, S # {}, NEW latest \in [RegionIDs -> Nat]
  PROVE  \E f \in S : \A s \in S \ {f} : Before(latest, f, s)
<1> DEFINE M == WithLatency(S, latest)
<1>0. /\ M \subseteq S /\ M \subseteq RegionIDs
      /\ \A s \in S : s \in M <=> latest[s] # 0
  BY Zenon DEF WithLatency
<1>1. CASE M = {}
  <2>1. \A s \in S : latest[s] = 0
    BY <1>0, <1>1, Zenon
  <2>2. S \in SUBSET Nat
    BY HomeConstants DEF RegionIDs
  <2>3. PICK f \in S : \A s \in S : f <= s
    BY <2>2, LeastNat, Zenon
  <2>4. \A s \in S \ {f} : f < s
    BY <2>2, <2>3
  <2> QED
    BY <2>1, <2>4, Zenon DEF Before
<1>2. CASE M # {}
  <2>1. PICK o \in Orders : TRUE
    BY OrdersExist, Zenon
  <2> DEFINE f == BestAfter(S, latest, o)[N]
  <2>2. Winner(M, latest, f)
    BY BestWins, Zenon
  <2> HIDE DEF f, M
  <2>3. f \in M /\ \A s \in M : latest[f] < latest[s] \/ (latest[f] = latest[s] /\ f <= s)
    BY <1>2, <2>2, Zenon DEF Winner
  <2>4. f \in S /\ latest[f] # 0
    BY <1>0, <2>3, Zenon
  <2>5. \A s \in M \ {f} : latest[f] < latest[s] \/ (latest[f] = latest[s] /\ f < s)
    BY <1>0, <2>3 DEF RegionIDs
  <2>6. \A s \in S \ {f} : Before(latest, f, s)
    BY <1>0, <2>4, <2>5, Zenon DEF Before
  <2> QED
    BY <2>4, <2>6, Zenon
<1> QED
  BY <1>1, <1>2, Zenon

\* Of two regions one comes before the other, and not both.
LEMMA BeforeOneWay ==
  ASSUME NEW latest \in [RegionIDs -> Nat], NEW a \in RegionIDs, NEW c \in RegionIDs,
         Before(latest, a, c)
  PROVE  ~Before(latest, c, a)
<1>1. latest[a] \in Nat /\ latest[c] \in Nat
  BY Zenon
<1> QED
  BY <1>1 DEF Before, RegionIDs

\* s lists the n regions of S in the order of the probes.
Lists(s, n, S, latest) ==
  /\ s \in [1..n -> S]
  /\ \A i, j \in 1..n : s[i] = s[j] => i = j
  /\ \A r \in S : \E i \in 1..n : s[i] = r
  /\ \A i, j \in 1..n : i < j => Before(latest, s[i], s[j])

\* The first region, and then a list of the others.
LEMMA ListGrows ==
  ASSUME NEW S \in SUBSET RegionIDs, NEW latest, NEW n \in Nat, NEW t, NEW f \in S,
         Lists(t, n, S \ {f}, latest), \A s \in S \ {f} : Before(latest, f, s)
  PROVE  \E s : Lists(s, n + 1, S, latest)
<1> DEFINE s == [i \in 1..(n + 1) |-> IF i = 1 THEN f ELSE t[i - 1]]
<1>0. \A i \in 1..(n + 1) : i # 1 => i - 1 \in 1..n
  OBVIOUS
<1>1. \A i \in 1..(n + 1) : i # 1 => s[i] = t[i - 1] /\ s[i] \in S \ {f}
  BY <1>0, Zenon DEF Lists
<1>2. 1 \in 1..(n + 1)
  OBVIOUS
<1>3. s[1] = f
  BY <1>2, Zenon
<1>4. s \in [1..(n + 1) -> S]
  BY <1>0, Zenon DEF Lists
<1> HIDE DEF s
<1>5. \A i, j \in 1..(n + 1) : s[i] = s[j] => i = j
  <2> SUFFICES ASSUME NEW i \in 1..(n + 1), NEW j \in 1..(n + 1), s[i] = s[j] PROVE i = j
    BY Zenon
  <2>1. CASE i = 1 \/ j = 1
    BY <1>1, <1>3, <2>1, Zenon
  <2>2. CASE i # 1 /\ j # 1
    <3>0. i - 1 \in 1..n /\ j - 1 \in 1..n /\ t[i - 1] = t[j - 1]
      BY <1>0, <1>1, <2>2, Zenon
    <3>1. i - 1 = j - 1
      BY <3>0, Zenon DEF Lists
    <3> QED
      BY <3>1
  <2> QED
    BY <2>1, <2>2, Zenon
<1>6. \A r \in S : \E i \in 1..(n + 1) : s[i] = r
  <2> SUFFICES ASSUME NEW r \in S PROVE \E i \in 1..(n + 1) : s[i] = r
    BY Zenon
  <2>1. CASE r = f
    BY <1>2, <1>3, <2>1, Zenon
  <2>2. CASE r # f
    <3>1. PICK i \in 1..n : t[i] = r
      BY <2>2, Zenon DEF Lists
    <3>2. i + 1 \in 1..(n + 1) /\ i + 1 # 1 /\ (i + 1) - 1 = i
      OBVIOUS
    <3>3. s[i + 1] = t[(i + 1) - 1]
      BY <1>1, <3>2, Zenon
    <3> QED
      BY <3>1, <3>2, <3>3
  <2> QED
    BY <2>1, <2>2, Zenon
<1>7. \A i, j \in 1..(n + 1) : i < j => Before(latest, s[i], s[j])
  <2> SUFFICES ASSUME NEW i \in 1..(n + 1), NEW j \in 1..(n + 1), i < j
               PROVE  Before(latest, s[i], s[j])
    BY Zenon
  <2>1. j # 1 /\ (i # 1 => i - 1 < j - 1)
    OBVIOUS
  <2>2. CASE i = 1
    BY <1>1, <1>3, <2>1, <2>2, Zenon
  <2>3. CASE i # 1
    <3>1. i - 1 \in 1..n /\ j - 1 \in 1..n /\ i - 1 < j - 1
      BY <1>0, <2>1, <2>3, Zenon
    <3>2. Before(latest, t[i - 1], t[j - 1])
      BY <3>1, Zenon DEF Lists
    <3> QED
      BY <1>1, <2>1, <2>3, <3>2, Zenon
  <2> QED
    BY <2>2, <2>3, Zenon
<1>8. Lists(s, n + 1, S, latest)
  BY <1>4, <1>5, <1>6, <1>7, Zenon DEF Lists
<1> QED
  BY <1>8, Zenon

\* Every map is finite.
LEMMA RegionsFinite ==
  ASSUME NEW S \in SUBSET RegionIDs
  PROVE  IsFiniteSet(S) /\ Cardinality(S) \in Nat
<1>1. IsFiniteSet(RegionIDs)
  BY FS_Interval, HomeConstants DEF RegionIDs
<1> QED
  BY <1>1, FS_Subset, FS_CardinalityType, Zenon

\* Every set of regions can be listed in the order of the probes.
LEMMA ListExists ==
  ASSUME NEW latest \in [RegionIDs -> Nat], NEW S \in SUBSET RegionIDs
  PROVE  \E s : Lists(s, Cardinality(S), S, latest)
<1> DEFINE P(n) == \A U \in SUBSET RegionIDs : Cardinality(U) = n => \E s : Lists(s, n, U, latest)
           T == {n \in Nat : ~P(n)}
<1>1. P(0)
  <2> SUFFICES ASSUME NEW U \in SUBSET RegionIDs, Cardinality(U) = 0
               PROVE  \E s : Lists(s, 0, U, latest)
    BY Zenon
  <2>1. U = {}
    BY RegionsFinite, FS_EmptySet, Zenon
  <2> DEFINE s == [i \in 1..0 |-> i]
  <2>2. Lists(s, 0, U, latest)
    BY <2>1 DEF Lists
  <2> QED
    BY <2>2, Zenon
<1>2. ASSUME NEW n \in Nat, P(n) PROVE P(n + 1)
  <2> SUFFICES ASSUME NEW U \in SUBSET RegionIDs, Cardinality(U) = n + 1
               PROVE  \E s : Lists(s, n + 1, U, latest)
    BY Zenon
  <2>1. U # {}
    <3>1. n + 1 # 0
      OBVIOUS
    <3> QED
      BY <3>1, FS_EmptySet, Zenon
  <2>2. PICK f \in U : \A s \in U \ {f} : Before(latest, f, s)
    BY <2>1, FirstExists, Zenon
  <2>3. Cardinality(U \ {f}) = n
    <3>1. Cardinality(U \ {f}) = Cardinality(U) - 1
      BY RegionsFinite, FS_RemoveElement, Zenon
    <3> QED
      BY <3>1
  <2>4. U \ {f} \in SUBSET RegionIDs
    BY Zenon
  <2>5. PICK t : Lists(t, n, U \ {f}, latest)
    BY <1>2, <2>3, <2>4, Zenon
  <2> QED
    BY <2>2, <2>5, ListGrows, Zenon
<1> HIDE DEF P
<1>3. \A n \in Nat : P(n)
  <2> SUFFICES ASSUME T # {} PROVE FALSE
    BY Zenon
  <2>1. PICK m \in T : \A k \in T : m <= k
    <3>1. T \in SUBSET Nat
      BY Zenon
    <3> QED
      BY <3>1, LeastNat, Zenon
  <2>2. m \in Nat /\ m # 0
    BY <1>1, <2>1, Zenon
  <2>3. m - 1 \in Nat /\ ~(m <= m - 1) /\ (m - 1) + 1 = m
    BY <2>2
  <2>4. P(m - 1)
    BY <2>1, <2>3, Zenon
  <2>5. P((m - 1) + 1)
    BY <1>2, <2>3, <2>4, Zenon
  <2> QED
    BY <2>1, <2>3, <2>5, Zenon
<1> QED
  BY <1>3, RegionsFinite, Zenon DEF P

\* So the order of the probes is the sorted one.
LEMMA SortedLists ==
  ASSUME NEW latest \in [RegionIDs -> Nat], NEW S \in SUBSET RegionIDs
  PROVE  Lists(Sorted(S, latest), Cardinality(S), S, latest)
<1> DEFINE n == Cardinality(S)
           s == Sorted(S, latest)
           Q(u) == /\ u \in [1..n -> S]
                   /\ \A i, j \in DOMAIN u : i < j => Before(latest, u[i], u[j])
<1>1. \E u : Q(u)
  <2>1. PICK u : Lists(u, n, S, latest)
    BY ListExists, Zenon
  <2> HIDE DEF n
  <2>2. Q(u)
    BY <2>1, Zenon DEF Lists
  <2> QED
    BY <2>2, Zenon
<1>2. Q(s)
  BY <1>1, Zenon DEF Sorted
<1> HIDE DEF s
<1>3. s \in [1..n -> S] /\ \A i, j \in 1..n : i < j => Before(latest, s[i], s[j])
  BY <1>2, Zenon
<1>4. IsFiniteSet(S) /\ n \in Nat
  BY RegionsFinite, Zenon
<1>5. Cardinality(1..n) = n
  <2> HIDE DEF n
  <2> QED
    BY <1>4, FS_Interval
<1>6. \A i, j \in 1..n : s[i] = s[j] => i = j
  <2> SUFFICES ASSUME NEW i \in 1..n, NEW j \in 1..n, s[i] = s[j], i # j
               PROVE  FALSE
    BY Zenon
  <2>1. i < j \/ j < i
    <3> HIDE DEF n
    <3> QED
      BY <1>4
  <2>2. Before(latest, s[i], s[i]) /\ s[i] \in RegionIDs
    BY <1>3, <2>1, Zenon
  <2> QED
    BY <2>2, BeforeOneWay, Zenon
<1>7. s \in Injection(1..n, S)
  BY <1>3, <1>6, Zenon DEF Injection, IsInjective
<1>8. s \in Surjection(1..n, S)
  BY <1>4, <1>5, <1>7, FS_Injection, Zenon
<1>9. \A r \in S : \E i \in 1..n : s[i] = r
  BY <1>8, Zenon DEF Surjection
<1> QED
  BY <1>3, <1>6, <1>9, Zenon DEF Lists, s

\* t is a list of m regions of S without repetitions that has home and the first
\* region if s has them.
Limited(t, m, S, s, n, home, limit) ==
  /\ m <= limit /\ t \in [1..m -> S] /\ Len(t) = m
  /\ \A i, j \in 1..m : t[i] = t[j] => i = j
  /\ home \in Range(s) => home \in Range(t)
  /\ n # 0 => s[1] \in Range(t)

\* The limit leaves a list without repetitions, with the home and the first
\* region if they were in it.
LEMMA LimitFacts ==
  ASSUME NEW S, NEW n \in Nat, NEW s \in [1..n -> S], NEW home, NEW limit \in Nat \ {0, 1},
         \A i, j \in 1..n : s[i] = s[j] => i = j
  PROVE  \E m \in Nat : Limited(LimitTargets(s, home, limit), m, S, s, n, home, limit)
<1> DEFINE selected == SubSeq(s, 1, limit)
           t == LimitTargets(s, home, limit)
<1>0. Len(s) = n /\ DOMAIN s = 1..n
  OBVIOUS
<1>1. CASE n <= limit
  <2>1. t = s
    BY <1>0, <1>1, Zenon DEF LimitTargets
  <2>2. n # 0 => 1 \in 1..n
    OBVIOUS
  <2>3. n # 0 => s[1] \in Range(s)
    BY <1>0, <2>2, Zenon DEF Range
  <2> HIDE DEF t
  <2>4. Limited(t, n, S, s, n, home, limit)
    BY <1>0, <1>1, <2>1, <2>3, Zenon DEF Limited
  <2> QED
    BY <2>4, Zenon DEF t
<1>2. CASE ~(n <= limit)
  <2>1. selected = [i \in 1..limit |-> s[i]]
    BY <1>0, <1>2
  <2>2. \A i \in 1..limit : i \in 1..n
    BY <1>2
  <2>3. 1 \in 1..limit /\ limit \in 1..limit /\ 1 # limit /\ limit <= limit
    OBVIOUS
  <2>4. t = IF home \in Range(s) \ Range(selected) THEN [selected EXCEPT ![limit] = home]
                                                   ELSE selected
    BY <1>0, <1>2, Zenon DEF LimitTargets
  <2> HIDE DEF selected, t
  <2>5. selected \in [1..limit -> S] /\ \A i \in 1..limit : selected[i] = s[i]
    BY <2>1, <2>2, Zenon
  <2>6. Range(s) \subseteq S
    BY <1>0 DEF Range
  <2>7. CASE home \in Range(s) \ Range(selected)
    <3>1. t = [selected EXCEPT ![limit] = home] /\ home \in S
      BY <2>4, <2>6, <2>7, Zenon
    <3>2. t \in [1..limit -> S]
      BY <2>5, <3>1, Zenon
    <3>3. t[limit] = home /\ \A i \in 1..limit : i # limit => t[i] = s[i]
      BY <2>3, <2>5, <3>1, Zenon
    <3>4. \A i \in 1..limit : s[i] # home
      BY <2>5, <2>7, Zenon DEF Range
    <3>5. \A i, j \in 1..limit : t[i] = t[j] => i = j
      BY <2>2, <3>3, <3>4, Zenon
    <3>6. t[1] = s[1]
      BY <2>3, <3>3, Zenon
    <3>7. home \in Range(t) /\ s[1] \in Range(t)
      BY <2>3, <3>2, <3>3, <3>6, Zenon DEF Range
    <3>8. Len(t) = limit
      BY <3>2
    <3>9. Limited(t, limit, S, s, n, home, limit)
      BY <2>3, <3>2, <3>5, <3>7, <3>8, Zenon DEF Limited
    <3> QED
      BY <3>9, Zenon DEF t
  <2>8. CASE home \notin Range(s) \ Range(selected)
    <3>1. t = selected
      BY <2>4, <2>8, Zenon
    <3>2. t \in [1..limit -> S] /\ \A i, j \in 1..limit : t[i] = t[j] => i = j
      BY <2>2, <2>5, <3>1, Zenon
    <3>3. s[1] \in Range(t)
      BY <2>3, <2>5, <3>1, Zenon DEF Range
    <3>4. home \in Range(s) => home \in Range(t)
      BY <2>8, <3>1, Zenon
    <3>5. Len(t) = limit
      BY <3>2
    <3>6. Limited(t, limit, S, s, n, home, limit)
      BY <2>3, <3>2, <3>3, <3>4, <3>5, Zenon DEF Limited
    <3> QED
      BY <3>6, Zenon DEF t
  <2> QED
    BY <2>7, <2>8, Zenon
<1> QED
  BY <1>1, <1>2, Zenon

\* A list without repetitions is as long as the set of its elements is large.
LEMMA ListSize ==
  ASSUME NEW S, NEW m \in Nat, NEW t \in [1..m -> S],
         \A i, j \in 1..m : t[i] = t[j] => i = j
  PROVE  Cardinality(Range(t)) = m /\ Range(t) \subseteq S
<1>1. t \in Bijection(1..m, Range(t))
  BY Zenon DEF Bijection, Injection, Surjection, IsInjective, Range
<1>2. ExistsBijection(1..m, Range(t))
  BY <1>1, Zenon DEF ExistsBijection
<1>3. IsFiniteSet(1..m) /\ Cardinality(1..m) = m
  BY FS_Interval
<1>4. Range(t) \subseteq S
  BY Zenon DEF Range
<1> QED
  BY <1>2, <1>3, <1>4, FS_Bijection, Zenon

\* The targets are what a round should probe.
LEMMA TargetsProbed ==
  ASSUME HomeTypeOK
  PROVE  TargetsSound
<1> SUFFICES ASSUME usable # {}, NEW whole \in BOOLEAN
             PROVE  LET probed == Targets(whole) IN
                    /\ Len(probed) = Cardinality(Range(probed)) /\ Range(probed) \subseteq usable
                    /\ Len(probed) <= IF whole THEN MaxFull ELSE MaxIncremental
                    /\ preferred \in usable => preferred \in Range(probed)
                    /\ \A r \in usable : (\A s \in usable \ {r} : Before(bindLatency, r, s)) =>
                         r \in Range(probed)
  BY Zenon DEF TargetsSound
<1> DEFINE n == Cardinality(usable)
           s == Sorted(usable, bindLatency)
           limit == IF whole THEN MaxFull ELSE MaxIncremental
           t == LimitTargets(s, preferred, limit)
<1>0. usable \in SUBSET RegionIDs /\ bindLatency \in [RegionIDs -> Nat]
  BY Zenon DEF HomeTypeOK
<1>1. n \in Nat /\ n # 0
  BY <1>0, RegionsFinite, FS_EmptySet, Zenon
<1>2. Lists(s, n, usable, bindLatency)
  BY <1>0, SortedLists, Zenon
<1>3. limit \in Nat \ {0, 1}
  BY HomeConstants, Zenon
<1>4. Targets(whole) = t
  BY Zenon DEF Targets
<1> HIDE DEF n, s, limit
<1>5. /\ s \in [1..n -> usable] /\ \A i, j \in 1..n : s[i] = s[j] => i = j
      /\ \A i, j \in 1..n : i < j => Before(bindLatency, s[i], s[j])
      /\ \A r \in usable : \E i \in 1..n : s[i] = r
  BY <1>2, Zenon DEF Lists
<1>61. PICK m \in Nat : Limited(t, m, usable, s, n, preferred, limit)
  BY <1>1, <1>3, <1>5, LimitFacts, Zenon
<1> HIDE DEF t
<1>6. /\ m <= limit /\ t \in [1..m -> usable] /\ Len(t) = m
      /\ \A i, j \in 1..m : t[i] = t[j] => i = j
      /\ preferred \in Range(s) => preferred \in Range(t)
      /\ n # 0 => s[1] \in Range(t)
  BY <1>61, Zenon DEF Limited
<1>7. Cardinality(Range(t)) = m /\ Range(t) \subseteq usable
  BY <1>6, ListSize, Zenon
<1>8. preferred \in usable => preferred \in Range(t)
  BY <1>5, <1>6, Zenon DEF Range
<1>9. ASSUME NEW r \in usable, \A x \in usable \ {r} : Before(bindLatency, r, x)
      PROVE  r \in Range(t)
  <2>1. PICK i \in 1..n : s[i] = r
    BY <1>5, Zenon
  <2>2. 1 \in 1..n
    BY <1>1
  <2>3. s[1] = r
    <3> SUFFICES ASSUME s[1] # r PROVE FALSE
      BY Zenon
    <3>1. i # 1
      BY <2>1, Zenon
    <3>2. 1 < i
      BY <2>1, <3>1
    <3>3. Before(bindLatency, s[1], r) /\ s[1] \in usable
      BY <1>5, <2>1, <2>2, <3>2, Zenon
    <3>4. Before(bindLatency, r, s[1])
      BY <1>9, <3>3, Zenon
    <3> QED
      BY <1>0, <3>3, <3>4, BeforeOneWay, Zenon
  <2> QED
    BY <1>1, <1>6, <2>3, Zenon
<1> QED
  BY <1>4, <1>6, <1>7, <1>8, <1>9, Zenon DEF limit

\* Every round probes the home and the fastest region, within its limit.
THEOREM ProbesSound == HomeSpec => []TargetsSound
<1>1. HomeInit => HomeInv
  BY HomeInitial, Zenon
<1>2. HomeInv /\ [HomeNext]_derpHomeVars => HomeInv'
  BY HomeStep, Zenon
<1>3. HomeInv => TargetsSound
  BY TargetsProbed, Zenon DEF HomeInv
<1> QED
  BY <1>1, <1>2, <1>3, PTL DEF HomeSpec
=============================================================================

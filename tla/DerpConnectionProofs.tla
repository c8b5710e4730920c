------------------------ MODULE DerpConnectionProofs ------------------------
(***************************************************************************)
(* Proofs about DerpManager, second part: DerpInv is inductive, and with   *)
(* it connections have an owner until they are closed, attempts are        *)
(* coalesced, and the maps agree.                                          *)
(***************************************************************************)
EXTENDS DerpManagerProofs

\* DerpInv holds of a new manager.
LEMMA InitDerp == Init => DerpInv
<1> SUFFICES ASSUME Init PROVE DerpInv
  BY Zenon
<1>1. DerpBase
  BY InitBase, Zenon
<1> USE DerpConstants DEF Init
<1>2. RemovalInv
  BY Zenon DEF RemovalInv
<1>3. StopInv
  BY Zenon DEF StopInv, Procs
<1>4. TokenInv
  BY Zenon DEF TokenInv, HasToken, Procs
<1>5. UpdateInv
  BY Zenon DEF UpdateInv, Updating, Procs
<1>6. NoConnectionLeak
  BY Zenon DEF NoConnectionLeak
<1> QED
  BY <1>1, <1>2, <1>3, <1>4, <1>5, <1>6, Zenon DEF DerpInv

\* What a map removes is visited before the update unlocks the manager.
LEMMA RemovalStep == DerpInv /\ [Next]_vars => RemovalInv'
<1> SUFFICES ASSUME DerpInv, [Next]_vars PROVE RemovalInv'
  BY Zenon
<1>a. TypeOK /\ PlaceInv /\ MutexInv /\ SlotInv /\ RemovalInv
  BY Zenon DEF DerpInv, DerpBase
<1>0. /\ slots \in [Regions -> Slots \cup {Null}] /\ mapLock \in Updaters \cup {Null}
      /\ todo \in [Updaters \cup {Closer} -> SUBSET Slots] /\ pc \in [Procs -> Places]
      /\ mapv \in SUBSET Regions
      /\ PlaceInv /\ MutexInv /\ SlotInv /\ RemovalInv
  BY <1>a, Zenon DEF TypeOK, SharedType, SlotType, LocalType
<1> USE DerpConstants DEF RemovalInv, MutexInv, SlotInv, PlaceInv, InUse, Procs,
                          bindVars, managerVars, slotVars, localVars, Goto
<1>1. ASSUME NEW p \in Procs, \/ Send(p) \/ Ensure(p) \/ NoSlot(p) \/ EnsureCAS(p)
                              \/ EnsureLoad(p) \/ GetClient(p) \/ Dial(p)
                              \/ Handshake(p) \/ DialFails(p) \/ Write(p) \/ Fail(p)
                              \/ Clear(p) \/ CloseConn(p) \/ UpdateDERPMap(p)
      PROVE  RemovalInv'
  <2>1. UNCHANGED <<slots, mapv, mapLock, todo>>
    BY <1>1, Zenon DEF Send, Ensure, NoSlot, EnsureCAS, CompareAndSwap, Leave,
                       EnsureLoad, GetClient, Return, Dial, Handshake, Live,
                       DialFails, Unlocked, Write, Fail, Clear, AfterClear,
                       Disconnected, DropLock, CloseConn, UpdateDERPMap, Changed
  <2> QED
    BY <1>0, <2>1, Zenon
<1>2. CASE \/ Open \/ Close \/ Visited \/ Shutdown
  <2>1. UNCHANGED <<slots, mapv, mapLock, todo>>
    BY <1>2, Zenon DEF Open, Close, Visited, Shutdown
  <2> QED
    BY <1>0, <2>1, Zenon
<1>3. ASSUME NEW p \in Procs, NEW r \in Regions, FindSlot(p, r)
      PROVE  RemovalInv'
  BY <1>0, <1>3 DEF FindSlot
<1>4. ASSUME NEW p \in Procs, NEW c \in Clients, Connect(p, c)
      PROVE  RemovalInv'
  BY <1>0, <1>4, Zenon DEF Connect
<1>5. ASSUME NEW p \in Updaters, NEW v \in SUBSET Regions, TakeMap(p, v)
      PROVE  RemovalInv'
  BY <1>0, <1>5, Zenon DEF TakeMap
<1>6. ASSUME NEW p \in Procs, LockMap(p)
      PROVE  RemovalInv'
  BY <1>0, <1>6 DEF LockMap
<1>7. ASSUME NEW p \in Procs, NEW s \in Slots, UpdateSlot(p, s)
      PROVE  RemovalInv'
  BY <1>0, <1>7 DEF UpdateSlot, ClosedOf, Deleted
<1>8. ASSUME NEW p \in Procs, UnlockMap(p)
      PROVE  RemovalInv'
  BY <1>0, <1>8 DEF UnlockMap
<1>9. CASE CloseConnections
  BY <1>0, <1>9, Zenon DEF CloseConnections
<1>10. ASSUME NEW s \in Slots, VisitSlot(s)
      PROVE  RemovalInv'
  BY <1>0, <1>10 DEF VisitSlot
<1>11. CASE Stop
  BY <1>0, <1>11, Zenon DEF Stop
<1>12. CASE UNCHANGED vars
  BY <1>0, <1>12, Zenon DEF vars
<1> QED
  BY <1>1, <1>2, <1>3, <1>4, <1>5, <1>6, <1>7, <1>8, <1>9, <1>10, <1>11, <1>12,
     Zenon DEF Next, Step, CloserStep

\* Behind the closer of a closed manager no slot has a client or a dial that is past
\* its context: the closer waits for the lock of such a dial.
LEMMA StopStep == DerpInv /\ [Next]_vars => StopInv'
<1> SUFFICES ASSUME DerpInv, [Next]_vars PROVE StopInv'
  BY Zenon
<1>a. TypeOK /\ PlaceInv /\ HoldInv /\ MutexInv /\ SlotInv /\ StopInv
  BY Zenon DEF DerpInv, DerpBase
<1>0. /\ pc \in [Procs -> Places] /\ at \in [Procs -> Slots \cup {Null}]
      /\ client \in [Slots -> Clients \cup {Null}]
      /\ todo \in [Updaters \cup {Closer} -> SUBSET Slots]
      /\ slotLock \in [Slots -> Procs \cup {Null}]
      /\ slots \in [Regions -> Slots \cup {Null}]
      /\ PlaceInv /\ HoldInv /\ MutexInv /\ SlotInv /\ StopInv
  BY <1>a, Zenon DEF TypeOK, SharedType, SlotType, LocalType
<1> USE DerpConstants DEF StopInv, PlaceInv, HoldInv, Procs, bindVars, managerVars,
                          slotVars, localVars, Goto
<1>1. ASSUME NEW p \in Procs, \/ Send(p) \/ Ensure(p) \/ NoSlot(p) \/ Handshake(p)
                              \/ Fail(p)
      PROVE  StopInv'
  BY <1>0, <1>1 DEF Send, Ensure, NoSlot, Handshake, Live, Fail
<1>2. CASE \/ Open \/ Close \/ CloseConnections \/ Visited \/ Shutdown
  BY <1>0, <1>2 DEF Open, Close, CloseConnections, Visited, Shutdown
<1>3. ASSUME NEW p \in Procs, NEW r \in Regions, FindSlot(p, r)
      PROVE  StopInv'
  BY <1>0, <1>3, Zenon DEF FindSlot
<1>4. ASSUME NEW p \in Procs, EnsureCAS(p)
      PROVE  StopInv'
  BY <1>0, <1>4 DEF EnsureCAS, CompareAndSwap, Leave
<1>5. ASSUME NEW p \in Procs, EnsureLoad(p)
      PROVE  StopInv'
  BY <1>0, <1>5 DEF EnsureLoad, Leave
<1>6. ASSUME NEW p \in Procs, GetClient(p)
      PROVE  StopInv'
  BY <1>0, <1>6 DEF GetClient, Return, Leave
<1>7. ASSUME NEW p \in Procs, Dial(p)
      PROVE  StopInv'
  BY <1>0, <1>7 DEF Dial
<1>8. ASSUME NEW p \in Procs, DialFails(p)
      PROVE  StopInv'
  BY <1>0, <1>8, Zenon DEF DialFails, Unlocked, Return, Leave
<1>9. ASSUME NEW p \in Procs, NEW c \in Clients, Connect(p, c)
      PROVE  StopInv'
  BY <1>0, <1>9 DEF Connect
<1>10. ASSUME NEW p \in Procs, Write(p)
      PROVE  StopInv'
  BY <1>0, <1>10 DEF Write, Leave
<1>11. ASSUME NEW p \in Procs, Clear(p)
      PROVE  StopInv'
  <2>1. at[p] \in Slots /\ \A q \in Procs : pc[q] = "upgrade" => at[q] # at[p]
    BY <1>0, <1>11 DEF Clear, MutexInv, Dialling
  <2>2. /\ UNCHANGED <<open, closed, todo>> /\ pc' = [pc EXCEPT ![p] = pc'[p]]
        /\ pc'[p] \in {AfterClear(p), "close"}
        /\ \A q \in Procs \ {p} : at'[q] = at[q]
        /\ client' = client \/ client' = [client EXCEPT ![at[p]] = Null]
        /\ p = Closer => client' = [client EXCEPT ![at[p]] = Null]
    BY <1>0, <1>11, SMTT(30) DEF Clear, Leave
  <2> QED
    BY <1>0, <1>11, <2>1, <2>2, SMTT(30) DEF AfterClear, Clear
<1>12. ASSUME NEW p \in Procs, CloseConn(p)
      PROVE  StopInv'
  BY <1>0, <1>12 DEF CloseConn, AfterClear, Leave
<1>13. ASSUME NEW p \in Updaters, NEW v \in SUBSET Regions, TakeMap(p, v)
      PROVE  StopInv'
  BY <1>0, <1>13, Zenon DEF TakeMap
<1>14. ASSUME NEW p \in Procs, UpdateDERPMap(p)
      PROVE  StopInv'
  BY <1>0, <1>14 DEF UpdateDERPMap, Changed
<1>15. ASSUME NEW p \in Procs, LockMap(p)
      PROVE  StopInv'
  BY <1>0, <1>15 DEF LockMap
<1>16. ASSUME NEW p \in Procs, NEW s \in Slots, UpdateSlot(p, s)
      PROVE  StopInv'
  BY <1>0, <1>16 DEF UpdateSlot, ClosedOf, Deleted
<1>17. ASSUME NEW p \in Procs, UnlockMap(p)
      PROVE  StopInv'
  BY <1>0, <1>17 DEF UnlockMap
<1>18. ASSUME NEW s \in Slots, VisitSlot(s)
      PROVE  StopInv'
  BY <1>0, <1>18 DEF VisitSlot
<1>19. CASE Stop
  <2>1. \A s \in Slots : client[s] # Null \/ config[s] => s \in InUse
    BY <1>0, Zenon DEF SlotInv
  <2>2. \A q \in Procs : pc[q] = "upgrade" => q # Null /\ at[q] \in Slots /\ config[at[q]]
    BY <1>0 DEF MutexInv, Dialling
  <2> QED
    BY <1>0, <1>19, <2>1, <2>2 DEF Stop
<1>20. CASE UNCHANGED vars
  BY <1>0, <1>20, Zenon DEF vars
<1> QED
  BY <1>1, <1>2, <1>3, <1>4, <1>5, <1>6, <1>7, <1>8, <1>9, <1>10, <1>11, <1>12,
     <1>13, <1>14, <1>15, <1>16, <1>17, <1>18, <1>19, <1>20,
     Zenon DEF Next, Step, CloserStep

\* connecting is passed on, and given back by the one who has it.
LEMMA TokenStep == DerpInv /\ [Next]_vars => TokenInv'
<1> SUFFICES ASSUME DerpInv, [Next]_vars PROVE TokenInv'
  BY Zenon
<1>a. TypeOK /\ PlaceInv /\ HoldInv /\ TokenInv
  BY Zenon DEF DerpInv, DerpBase
<1>0. /\ pc \in [Procs -> Places] /\ at \in [Procs -> Slots \cup {Null}]
      /\ connecting \in [Slots -> BOOLEAN]
      /\ PlaceInv /\ HoldInv /\ TokenInv
  BY <1>a, Zenon DEF TypeOK, SharedType, SlotType, LocalType
<1> USE DerpConstants DEF TokenInv, PlaceInv, HoldInv, Procs, bindVars, managerVars,
                          slotVars, localVars, Goto
<1>1. ASSUME NEW p \in Procs, \/ Send(p) \/ Ensure(p) \/ NoSlot(p) \/ Handshake(p)
                              \/ Fail(p)
      PROVE  TokenInv'
  BY <1>0, <1>1, SMTT(30) DEF Send, Ensure, NoSlot, Handshake, Live, Fail, HasToken
<1>2. CASE \/ Open \/ Close \/ CloseConnections \/ Visited \/ Shutdown
  BY <1>0, <1>2, SMTT(30) DEF Open, Close, CloseConnections, Visited, Shutdown, HasToken
<1>3. ASSUME NEW p \in Procs, NEW r \in Regions, FindSlot(p, r)
      PROVE  TokenInv'
  BY <1>0, <1>3, SMTT(30) DEF FindSlot, HasToken
<1>4. ASSUME NEW p \in Procs, EnsureCAS(p)
      PROVE  TokenInv'
  <2>1. at[p] \in Slots /\ pc[p] = "cas" /\ p \notin Workers /\ ~HasToken(p, at[p])
    BY <1>0, <1>4, Zenon DEF EnsureCAS, HasToken
  <2>2. \A s \in Slots : connecting'[s] <=> connecting[s] \/ s = at[p]
    BY <1>0, <1>4, <2>1, Zenon DEF EnsureCAS
  <2>3. \A q \in Procs \ {p} : pc'[q] = pc[q] /\ at'[q] = at[q]
    BY <1>0, <1>4 DEF EnsureCAS, Leave
  <2>4. /\ connecting[at[p]] => pc'[p] = "idle"
        /\ ~connecting[at[p]] => pc'[p] = "load" /\ at'[p] = at[p]
    BY <1>0, <1>4 DEF EnsureCAS, CompareAndSwap, Leave
  <2>5. \A s \in Slots, q \in Procs :
          HasToken(q, s)' <=> IF q = p THEN ~connecting[at[p]] /\ s = at[p]
                                       ELSE HasToken(q, s)
    BY <2>1, <2>3, <2>4, Zenon DEF HasToken
  <2> QED
    BY <1>0, <2>1, <2>2, <2>5
<1>5. ASSUME NEW p \in Procs, EnsureLoad(p)
      PROVE  TokenInv'
  <2>1. at[p] \in Slots /\ pc[p] = "load" /\ p \notin Workers
    BY <1>0, <1>5, Zenon DEF EnsureLoad
  <2>2. \A s \in Slots : HasToken(p, s) <=> s = at[p]
    BY <2>1, Zenon DEF HasToken
  <2>3. CASE connected[at[p]]
    <3>1. /\ \A s \in Slots : connecting'[s] <=> connecting[s] /\ s # at[p]
          /\ pc'[p] = "idle" /\ \A q \in Procs \ {p} : pc'[q] = pc[q] /\ at'[q] = at[q]
      BY <1>0, <1>5, <2>1, <2>3 DEF EnsureLoad, Leave
    <3>2. \A s \in Slots, q \in Procs : HasToken(q, s)' <=> q # p /\ HasToken(q, s)
      BY <2>1, <3>1, Zenon DEF HasToken
    <3> QED
      BY <1>0, <2>1, <2>2, <3>1, <3>2
  <2>4. CASE ~connected[at[p]]
    <3>1. PICK w \in Workers :
            /\ pc[w] = "idle"
            /\ pc' = [pc EXCEPT ![p] = "idle", ![w] = "get"]
            /\ at' = [at EXCEPT ![p] = Null, ![w] = at[p]]
            /\ UNCHANGED <<has, connecting>>
      BY <1>5, <2>4, Zenon DEF EnsureLoad
    <3>2. /\ pc'[p] = "idle" /\ pc'[w] = "get" /\ at'[w] = at[p] /\ w # p
          /\ \A q \in Procs \ {p, w} : pc'[q] = pc[q] /\ at'[q] = at[q]
      BY <1>0, <2>1, <3>1, Zenon
    <3>3. \A s \in Slots, q \in Procs :
            HasToken(q, s)' <=> IF q = w THEN s = at[p] ELSE q # p /\ HasToken(q, s)
      BY <2>1, <3>1, <3>2, ZenonT(30) DEF HasToken
    <3> QED
      BY <1>0, <2>1, <2>2, <3>1, <3>3
  <2> QED
    BY <2>3, <2>4, Zenon
<1>6. ASSUME NEW p \in Procs, GetClient(p)
      PROVE  TokenInv'
  <2>1. at[p] \in Slots /\ pc[p] = "get" /\ p \in Senders \cup Workers
    BY <1>0, <1>6, Zenon DEF GetClient
  <2>2. \A s \in Slots : HasToken(p, s) <=> p \in Workers /\ s = at[p]
    BY <2>1, Zenon DEF HasToken
  <2>3. \A s \in Slots : connecting'[s] <=> connecting[s] /\ (p \in Workers => s # at[p])
    BY <1>0, <1>6, <2>1, SMTT(30) DEF GetClient, Return, Leave
  <2>4. /\ p \in Workers => pc'[p] = "idle"
        /\ pc'[p] # "load" /\ \A q \in Procs \ {p} : pc'[q] = pc[q] /\ at'[q] = at[q]
    BY <1>0, <1>6, <2>1, SMTT(30) DEF GetClient, Return, Leave
  <2>5. \A s \in Slots, q \in Procs : HasToken(q, s)' <=> q # p /\ HasToken(q, s)
    BY <2>1, <2>4, Zenon DEF HasToken
  <2> QED
    BY <1>0, <2>1, <2>2, <2>3, <2>5
<1>7. ASSUME NEW p \in Procs, Dial(p)
      PROVE  TokenInv'
  BY <1>0, <1>7 DEF Dial, HasToken
<1>8. ASSUME NEW p \in Procs, DialFails(p)
      PROVE  TokenInv'
  BY <1>0, <1>8, SMTT(30) DEF DialFails, Unlocked, Return, Leave, HasToken
<1>9. ASSUME NEW p \in Procs, NEW c \in Clients, Connect(p, c)
      PROVE  TokenInv'
  <2>1. at[p] \in Slots /\ pc[p] = "upgrade" /\ p \in Senders \cup Workers /\ p # c
    BY <1>0, <1>9, Zenon DEF Connect
  <2>2. \A s \in Slots : HasToken(p, s) <=> p \in Workers /\ s = at[p]
    BY <2>1, Zenon DEF HasToken
  <2>3. \A s \in Slots : connecting'[s] <=> connecting[s] /\ (p \in Workers => s # at[p])
    BY <1>0, <1>9, <2>1, SMTT(30) DEF Connect
  <2>4. /\ p \in Workers => pc'[p] = "idle"
        /\ pc'[p] # "load" /\ pc'[c] = "read" /\ pc[c] \notin {"load"}
        /\ \A q \in Procs \ {p, c} : pc'[q] = pc[q] /\ at'[q] = at[q]
    BY <1>0, <1>9, <2>1, Zenon DEF Connect
  <2>5. \A s \in Slots, q \in Procs : HasToken(q, s)' <=> q # p /\ HasToken(q, s)
    BY <2>1, <2>4, Zenon DEF HasToken
  <2> QED
    BY <1>0, <2>1, <2>2, <2>3, <2>5
<1>10. ASSUME NEW p \in Procs, Write(p)
      PROVE  TokenInv'
  BY <1>0, <1>10, SMTT(30) DEF Write, Leave, HasToken
<1>11. ASSUME NEW p \in Procs, Clear(p)
      PROVE  TokenInv'
  <2>1. p \notin Workers /\ pc'[p] # "load" /\ pc[p] # "load"
    <3>1. pc[p] = "clear" /\ pc'[p] \in {"visit", "done", "idle", "close"}
      BY <1>0, <1>11, SMTT(30) DEF Clear, AfterClear, Leave
    <3> QED
      BY <1>0, <3>1, Zenon
  <2>2. UNCHANGED connecting /\ \A q \in Procs \ {p} : at'[q] = at[q] /\ pc'[q] = pc[q]
    BY <1>0, <1>11, SMTT(30) DEF Clear, Leave
  <2>3. \A s \in Slots, q \in Procs : HasToken(q, s)' <=> HasToken(q, s)
    BY <2>1, <2>2, Zenon DEF HasToken
  <2> QED
    BY <1>0, <2>2, <2>3, Zenon
<1>12. ASSUME NEW p \in Procs, CloseConn(p)
      PROVE  TokenInv'
  BY <1>0, <1>12, SMTT(30) DEF CloseConn, AfterClear, Leave, HasToken
<1>13. ASSUME NEW p \in Updaters, NEW v \in SUBSET Regions, TakeMap(p, v)
      PROVE  TokenInv'
  BY <1>0, <1>13, SMTT(30) DEF TakeMap, HasToken
<1>14. ASSUME NEW p \in Procs, UpdateDERPMap(p)
      PROVE  TokenInv'
  BY <1>0, <1>14 DEF UpdateDERPMap, Changed, HasToken
<1>15. ASSUME NEW p \in Procs, LockMap(p)
      PROVE  TokenInv'
  BY <1>0, <1>15, SMTT(30) DEF LockMap, HasToken
<1>16. ASSUME NEW p \in Procs, NEW s \in Slots, UpdateSlot(p, s)
      PROVE  TokenInv'
  BY <1>0, <1>16, SMTT(30) DEF UpdateSlot, ClosedOf, Deleted, HasToken
<1>17. ASSUME NEW p \in Procs, UnlockMap(p)
      PROVE  TokenInv'
  BY <1>0, <1>17, SMTT(30) DEF UnlockMap, HasToken
<1>18. ASSUME NEW s \in Slots, VisitSlot(s)
      PROVE  TokenInv'
  BY <1>0, <1>18 DEF VisitSlot, HasToken
<1>19. CASE Stop
  BY <1>0, <1>19 DEF Stop, HasToken
<1>20. CASE UNCHANGED vars
  BY <1>0, <1>20 DEF vars, HasToken
<1> QED
  BY <1>1, <1>2, <1>3, <1>4, <1>5, <1>6, <1>7, <1>8, <1>9, <1>10, <1>11, <1>12,
     <1>13, <1>14, <1>15, <1>16, <1>17, <1>18, <1>19, <1>20,
     Zenon DEF Next, Step, CloserStep

\* An update that does not overlap another carries the map all the way.
LEMMA UpdateStep == DerpInv /\ [Next]_vars => UpdateInv'
<1> SUFFICES ASSUME DerpInv, [Next]_vars PROVE UpdateInv'
  BY Zenon
<1>a. TypeOK /\ PlaceInv /\ HoldInv /\ UpdateInv
  BY Zenon DEF DerpInv, DerpBase
<1>0. /\ pc \in [Procs -> Places] /\ want \in [Updaters -> SUBSET Regions]
      /\ mapv \in SUBSET Regions
      /\ PlaceInv /\ HoldInv /\ UpdateInv
  BY <1>a, Zenon DEF TypeOK, SharedType, SlotType, LocalType
<1> USE DerpConstants DEF UpdateInv, Updating, PlaceInv, Procs, bindVars,
                          managerVars, slotVars, localVars, Goto
<1>1. ASSUME NEW p \in Procs, \/ Send(p) \/ Ensure(p) \/ NoSlot(p) \/ Handshake(p)
                              \/ Fail(p)
      PROVE  UpdateInv'
  BY <1>0, <1>1, SMTT(30) DEF Send, Ensure, NoSlot, Handshake, Live, Fail
<1>2. CASE \/ Open \/ Close \/ CloseConnections \/ Visited \/ Shutdown
  BY <1>0, <1>2, SMTT(30) DEF Open, Close, CloseConnections, Visited, Shutdown
<1>3. ASSUME NEW p \in Procs, NEW r \in Regions, FindSlot(p, r)
      PROVE  UpdateInv'
  BY <1>0, <1>3, SMTT(30) DEF FindSlot
<1>4. ASSUME NEW p \in Procs, EnsureCAS(p)
      PROVE  UpdateInv'
  BY <1>0, <1>4 DEF EnsureCAS, CompareAndSwap, Leave
<1>5. ASSUME NEW p \in Procs, EnsureLoad(p)
      PROVE  UpdateInv'
  BY <1>0, <1>5 DEF EnsureLoad, Leave
<1>6. ASSUME NEW p \in Procs, GetClient(p)
      PROVE  UpdateInv'
  BY <1>0, <1>6, SMTT(30) DEF GetClient, Return, Leave
<1>7. ASSUME NEW p \in Procs, Dial(p)
      PROVE  UpdateInv'
  BY <1>0, <1>7, Zenon DEF Dial
<1>8. ASSUME NEW p \in Procs, DialFails(p)
      PROVE  UpdateInv'
  BY <1>0, <1>8, Zenon DEF DialFails, Unlocked, Return, Leave
<1>9. ASSUME NEW p \in Procs, NEW c \in Clients, Connect(p, c)
      PROVE  UpdateInv'
  BY <1>0, <1>9 DEF Connect
<1>10. ASSUME NEW p \in Procs, Write(p)
      PROVE  UpdateInv'
  BY <1>0, <1>10 DEF Write, Leave
<1>11. ASSUME NEW p \in Procs, Clear(p)
      PROVE  UpdateInv'
  BY <1>0, <1>11 DEF Clear, AfterClear, Disconnected, DropLock, Leave
<1>12. ASSUME NEW p \in Procs, CloseConn(p)
      PROVE  UpdateInv'
  BY <1>0, <1>12, Zenon DEF CloseConn, AfterClear, Leave
<1>13. ASSUME NEW p \in Updaters, NEW v \in SUBSET Regions, TakeMap(p, v)
      PROVE  UpdateInv'
  BY <1>0, <1>13, Zenon DEF TakeMap
<1>14. ASSUME NEW p \in Procs, UpdateDERPMap(p)
      PROVE  UpdateInv'
  BY <1>0, <1>14 DEF UpdateDERPMap, Changed
<1>15. ASSUME NEW p \in Procs, LockMap(p)
      PROVE  UpdateInv'
  BY <1>0, <1>15 DEF LockMap
<1>16. ASSUME NEW p \in Procs, NEW s \in Slots, UpdateSlot(p, s)
      PROVE  UpdateInv'
  BY <1>0, <1>16, Zenon DEF UpdateSlot, ClosedOf, Deleted
<1>17. ASSUME NEW p \in Procs, UnlockMap(p)
      PROVE  UpdateInv'
  BY <1>0, <1>17 DEF UnlockMap
<1>18. ASSUME NEW s \in Slots, VisitSlot(s)
      PROVE  UpdateInv'
  BY <1>0, <1>18, Zenon DEF VisitSlot
<1>19. CASE Stop
  BY <1>0, <1>19, Zenon DEF Stop
<1>20. CASE UNCHANGED vars
  BY <1>0, <1>20, Zenon DEF vars
<1> QED
  BY <1>1, <1>2, <1>3, <1>4, <1>5, <1>6, <1>7, <1>8, <1>9, <1>10, <1>11, <1>12,
     <1>13, <1>14, <1>15, <1>16, <1>17, <1>18, <1>19, <1>20,
     Zenon DEF Next, Step, CloserStep

\* An open connection stays within reach.
LEMMA LeakStep == DerpInv /\ [Next]_vars => NoConnectionLeak'
<1> SUFFICES ASSUME DerpInv, [Next]_vars PROVE NoConnectionLeak'
  BY Zenon
<1>a. TypeOK /\ PlaceInv /\ HoldInv /\ MutexInv /\ SlotInv /\ NoConnectionLeak
  BY Zenon DEF DerpInv, DerpBase
<1>0. /\ pc \in [Procs -> Places] /\ conn \in [Clients -> {"none", "open", "closed"}]
      /\ has \in [Procs -> Clients \cup {Null}]
      /\ client \in [Slots -> Clients \cup {Null}]
      /\ slots \in [Regions -> Slots \cup {Null}] /\ at \in [Procs -> Slots \cup {Null}]
      /\ slotLock \in [Slots -> Procs \cup {Null}]
      /\ todo \in [Updaters \cup {Closer} -> SUBSET Slots]
      /\ PlaceInv /\ HoldInv /\ MutexInv /\ SlotInv /\ NoConnectionLeak
  BY <1>a, Zenon DEF TypeOK, SharedType, SlotType, LocalType
<1> USE DerpConstants DEF NoConnectionLeak, InUse, Procs, HoldInv, bindVars,
                          managerVars, slotVars, localVars, Goto
<1>1. ASSUME NEW p \in Procs, \/ Send(p) \/ Ensure(p) \/ NoSlot(p) \/ Handshake(p)
                              \/ Fail(p)
      PROVE  NoConnectionLeak'
  BY <1>0, <1>1, SMTT(30) DEF Send, Ensure, NoSlot, Handshake, Live, Fail
<1>2. CASE \/ Open \/ Close \/ CloseConnections \/ Visited \/ Shutdown
  BY <1>0, <1>2, SMTT(30) DEF Open, Close, CloseConnections, Visited, Shutdown
<1>3. ASSUME NEW p \in Procs, NEW r \in Regions, FindSlot(p, r)
      PROVE  NoConnectionLeak'
  BY <1>0, <1>3, SMTT(30) DEF FindSlot
<1>4. ASSUME NEW p \in Procs, EnsureCAS(p)
      PROVE  NoConnectionLeak'
  BY <1>0, <1>4, SMTT(30) DEF EnsureCAS, CompareAndSwap, Leave
<1>5. ASSUME NEW p \in Procs, EnsureLoad(p)
      PROVE  NoConnectionLeak'
  BY <1>0, <1>5, SMTT(30) DEF EnsureLoad, Leave
<1>6. ASSUME NEW p \in Procs, GetClient(p)
      PROVE  NoConnectionLeak'
  BY <1>0, <1>6, SMTT(30) DEF GetClient, Return, Leave
<1>7. ASSUME NEW p \in Procs, Dial(p)
      PROVE  NoConnectionLeak'
  BY <1>0, <1>7, SMTT(30) DEF Dial
<1>8. ASSUME NEW p \in Procs, DialFails(p)
      PROVE  NoConnectionLeak'
  BY <1>0, <1>8 DEF DialFails, Unlocked, Return, Leave
<1>9. ASSUME NEW p \in Procs, NEW c \in Clients, Connect(p, c)
      PROVE  NoConnectionLeak'
  <2>1. /\ slotLock[at[p]] = p /\ at[p] \in Slots /\ p # Null /\ p # c
        /\ pc[c] = "idle" /\ pc[p] = "upgrade"
    BY <1>0, <1>9, SMTT(30) DEF Connect, MutexInv, Dialling, PlaceInv
  <2>2. client[at[p]] = Null /\ at[p] \in InUse
    BY <1>0, <2>1, Zenon DEF MutexInv, SlotInv
  <2>3. /\ UNCHANGED slots /\ client' = [client EXCEPT ![at[p]] = c]
        /\ conn' = [conn EXCEPT ![c] = "open"]
    BY <1>9, Zenon DEF Connect
  <2>4. \A q \in Procs : pc[q] = "close" => pc'[q] = "close" /\ has'[q] = has[q]
    BY <1>0, <1>9, <2>1, Zenon DEF Connect
  <2> QED
    BY <1>0, <2>1, <2>2, <2>3, <2>4, SMTT(30)
<1>10. ASSUME NEW p \in Procs, Write(p)
      PROVE  NoConnectionLeak'
  BY <1>0, <1>10, SMTT(30) DEF Write, Leave
<1>11. ASSUME NEW p \in Procs, Clear(p)
      PROVE  NoConnectionLeak'
  BY <1>0, <1>11, SMTT(30) DEF Clear, AfterClear, Disconnected, DropLock, Leave
<1>12. ASSUME NEW p \in Procs, CloseConn(p)
      PROVE  NoConnectionLeak'
  BY <1>0, <1>12, SMTT(30) DEF CloseConn, AfterClear, Leave
<1>13. ASSUME NEW p \in Updaters, NEW v \in SUBSET Regions, TakeMap(p, v)
      PROVE  NoConnectionLeak'
  BY <1>0, <1>13, SMTT(30) DEF TakeMap
<1>14. ASSUME NEW p \in Procs, UpdateDERPMap(p)
      PROVE  NoConnectionLeak'
  BY <1>0, <1>14, SMTT(30) DEF UpdateDERPMap, Changed
<1>15. ASSUME NEW p \in Procs, LockMap(p)
      PROVE  NoConnectionLeak'
  BY <1>0, <1>15, SMTT(30) DEF LockMap
<1>16. ASSUME NEW p \in Procs, NEW s \in Slots, UpdateSlot(p, s)
      PROVE  NoConnectionLeak'
  BY <1>0, <1>16, SMTT(30) DEF UpdateSlot, ClosedOf, Deleted
<1>17. ASSUME NEW p \in Procs, UnlockMap(p)
      PROVE  NoConnectionLeak'
  BY <1>0, <1>17, SMTT(30) DEF UnlockMap
<1>18. ASSUME NEW s \in Slots, VisitSlot(s)
      PROVE  NoConnectionLeak'
  BY <1>0, <1>18, SMTT(30) DEF VisitSlot
<1>19. CASE Stop
  BY <1>0, <1>19, SMTT(30) DEF Stop
<1>20. CASE UNCHANGED vars
  BY <1>0, <1>20, SMTT(30) DEF vars
<1> QED
  BY <1>1, <1>2, <1>3, <1>4, <1>5, <1>6, <1>7, <1>8, <1>9, <1>10, <1>11, <1>12,
     <1>13, <1>14, <1>15, <1>16, <1>17, <1>18, <1>19, <1>20,
     Zenon DEF Next, Step, CloserStep

\* The invariant, for any goroutines, slots and connections.
THEOREM DerpAlways == Spec => []DerpInv
<1>1. DerpInv /\ [Next]_vars => DerpInv'
  <2> SUFFICES ASSUME DerpInv, [Next]_vars PROVE DerpInv'
    BY Zenon
  <2>1. DerpBase'
    BY BaseStep, Zenon DEF DerpInv
  <2>2. RemovalInv' /\ StopInv' /\ TokenInv' /\ UpdateInv' /\ NoConnectionLeak'
    BY RemovalStep, StopStep, TokenStep, UpdateStep, LeakStep, Zenon
  <2> QED
    BY <2>1, <2>2, Zenon DEF DerpInv
<1> QED
  BY InitDerp, <1>1, PTL DEF Spec

\* No open connection is lost, none outlives its region in the map, and none is
\* left or still to come when Shutdown has returned.
THEOREM Owned == Spec => []ConnectionsOwned
<1>1. DerpInv => ConnectionsOwned
  <2> SUFFICES ASSUME DerpInv PROVE ConnectionsOwned
    BY Zenon
  <2>1. NoConnectionLeak
    BY Zenon DEF DerpInv
  <2>2. NothingAfterShutdown
    BY Zenon DEF DerpInv, StopInv, NothingAfterShutdown
  <2>3. RemovedIsClosed
    BY Zenon DEF DerpInv, RemovalInv, RemovedIsClosed
  <2> QED
    BY <2>1, <2>2, <2>3, Zenon DEF ConnectionsOwned
<1> QED
  BY DerpAlways, <1>1, PTL

\* The flag ensureAsync reads without the lock agrees with the client, and no two
\* of the goroutines it starts connect one slot.
THEOREM Coalesced == Spec => []AttemptsCoalesced
<1>1. DerpInv => AttemptsCoalesced
  <2> SUFFICES ASSUME DerpInv PROVE AttemptsCoalesced
    BY Zenon
  <2>1. FlagAgrees
    BY Zenon DEF DerpInv, DerpBase, SlotInv, FlagAgrees
  <2>2. OneAttempt
    <3> SUFFICES ASSUME NEW v \in Workers, NEW w \in Workers, v # w,
                        pc[v] # "idle", pc[w] # "idle", at[v] = at[w]
                 PROVE  FALSE
      BY Zenon DEF OneAttempt
    <3>1. v \in Procs /\ w \in Procs
      BY Zenon DEF Procs
    <3>2. at[v] \in Slots
      BY <3>1, Zenon DEF DerpInv, DerpBase, PlaceInv, HoldInv
    <3>3. HasToken(v, at[v]) /\ HasToken(w, at[v])
      BY Zenon DEF HasToken
    <3> QED
      BY <3>1, <3>2, <3>3, Zenon DEF DerpInv, TokenInv
  <2> QED
    BY <2>1, <2>2, Zenon DEF AttemptsCoalesced
<1> QED
  BY DerpAlways, <1>1, PTL

\* Bind and manager end up with the client's map unless updates overlapped.
THEOREM MapsFollow == Spec => []MapsAgree
<1>1. DerpInv => MapsAgree
  BY Zenon DEF DerpInv, UpdateInv, MapsAgree, Updating
<1> QED
  BY DerpAlways, <1>1, PTL
=============================================================================

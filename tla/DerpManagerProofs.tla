-------------------------- MODULE DerpManagerProofs --------------------------
(***************************************************************************)
(* Proofs about DerpManager, first part: DerpBase is inductive, for any    *)
(* regions, slots, connections, maps and goroutines of each kind.  Locks   *)
(* are held by those who say so, and a slot out of use stays empty.        *)
(***************************************************************************)
EXTENDS DerpManager, TLAPS

\* DerpBase holds of a new manager.
LEMMA InitBase == Init => DerpBase
<1> SUFFICES ASSUME Init PROVE DerpBase
  BY Zenon
<1> USE DerpConstants DEF Init
<1>1. SharedType
  <2>1. open \in BOOLEAN /\ closed \in BOOLEAN
    BY Zenon
  <2>2. maps \in 0..MaxMaps /\ gen \in 0..MaxGen
    OBVIOUS
  <2>3. /\ cmap \in SUBSET Regions /\ bmap \in SUBSET Regions /\ mapv \in SUBSET Regions
        /\ made \in SUBSET Slots /\ mapLock \in Updaters \cup {Null}
    BY Zenon
  <2>4. /\ slots \in [Regions -> Slots \cup {Null}]
        /\ conn \in [Clients -> {"none", "open", "closed"}]
    BY Zenon
  <2> QED
    BY <2>1, <2>2, <2>3, <2>4, Zenon DEF SharedType
<1>2. SlotType
  <2>1. /\ config \in [Slots -> BOOLEAN] /\ connecting \in [Slots -> BOOLEAN]
        /\ connected \in [Slots -> BOOLEAN]
    BY Zenon
  <2>2. /\ client \in [Slots -> Clients \cup {Null}]
        /\ slotLock \in [Slots -> Procs \cup {Null}]
    BY Zenon
  <2> QED
    BY <2>1, <2>2, Zenon DEF SlotType
<1>3. LocalType
  <2>1. crossed \in BOOLEAN
    BY Zenon
  <2>2. ctx \in [Senders -> 0..MaxGen]
    OBVIOUS
  <2>3. pc \in [Procs -> Places]
    BY Zenon DEF Places
  <2>4. /\ at \in [Procs -> Slots \cup {Null}] /\ has \in [Procs -> Clients \cup {Null}]
        /\ want \in [Updaters -> SUBSET Regions]
        /\ todo \in [Updaters \cup {Closer} -> SUBSET Slots]
    BY Zenon
  <2> QED
    BY <2>1, <2>2, <2>3, <2>4, Zenon DEF LocalType
<1>4. PlaceInv /\ HoldInv
  BY Zenon DEF PlaceInv, HoldInv, Procs
<1>5. MutexInv
  BY Zenon DEF MutexInv, Dialling, Procs
<1>6. SlotInv
  BY Zenon DEF SlotInv, InUse
<1> QED
  BY <1>1, <1>2, <1>3, <1>4, <1>5, <1>6, Zenon DEF DerpBase, TypeOK

\* Every step keeps the types of the shared state,
LEMMA SharedTypeStep == DerpBase /\ [Next]_vars => SharedType'
<1> SUFFICES ASSUME DerpBase, [Next]_vars PROVE SharedType'
  BY Zenon
<1>a. TypeOK /\ HoldInv
  BY Zenon DEF DerpBase
<1>0. /\ has \in [Procs -> Clients \cup {Null}] /\ want \in [Updaters -> SUBSET Regions]
      /\ SharedType /\ HoldInv
  BY <1>a, Zenon DEF TypeOK, SharedType, SlotType, LocalType
<1> USE DerpConstants DEF SharedType, HoldInv, Procs, bindVars, managerVars,
                          slotVars, localVars, Goto
<1>1. ASSUME NEW p \in Procs, \/ Send(p) \/ Ensure(p) \/ NoSlot(p) \/ EnsureCAS(p)
                              \/ EnsureLoad(p) \/ GetClient(p) \/ Dial(p)
                              \/ Handshake(p) \/ DialFails(p) \/ Write(p) \/ Fail(p)
                              \/ Clear(p)
      PROVE  SharedType'
  <2>1. UNCHANGED <<cmap, maps, bmap, open, gen, closed, mapv, slots, mapLock, made, conn>>
    BY <1>1, Zenon DEF Send, Ensure, NoSlot, EnsureCAS, CompareAndSwap, Leave,
                       EnsureLoad, GetClient, Return, Dial, Handshake, Live,
                       DialFails, Unlocked, Write, Fail, Clear, AfterClear,
                       Disconnected, DropLock
  <2> QED
    BY <1>0, <2>1, Zenon
<1>2. CASE \/ CloseConnections \/ Visited \/ Shutdown
  <2>1. UNCHANGED <<cmap, maps, bmap, open, gen, closed, mapv, slots, mapLock, made, conn>>
    BY <1>2, Zenon DEF CloseConnections, Visited, Shutdown
  <2> QED
    BY <1>0, <2>1, Zenon
<1>3. ASSUME NEW p \in Procs, NEW r \in Regions, FindSlot(p, r)
      PROVE  SharedType'
  <2>1. CASE slots[r] # Null
    BY <1>0, <1>3, <2>1, Zenon DEF FindSlot
  <2>2. CASE slots[r] = Null
    <3>1. PICK s \in Slots \ made :
            made' = made \cup {s} /\ slots' = [slots EXCEPT ![r] = s]
      BY <1>3, <2>2, Zenon DEF FindSlot
    <3> QED
      BY <1>0, <1>3, <3>1, Zenon DEF FindSlot
  <2> QED
    BY <2>1, <2>2, Zenon
<1>4. ASSUME NEW p \in Procs, NEW c \in Clients, Connect(p, c)
      PROVE  SharedType'
  BY <1>0, <1>4, Zenon DEF Connect
<1>5. ASSUME NEW p \in Procs, CloseConn(p)
      PROVE  SharedType'
  BY <1>0, <1>5, Zenon DEF CloseConn, AfterClear, Leave
<1>6. ASSUME NEW p \in Updaters, NEW v \in SUBSET Regions, TakeMap(p, v)
      PROVE  SharedType'
  BY <1>0, <1>6 DEF TakeMap
<1>7. ASSUME NEW p \in Procs, UpdateDERPMap(p)
      PROVE  SharedType'
  BY <1>0, <1>7, Zenon DEF UpdateDERPMap, Changed
<1>8. ASSUME NEW p \in Procs, LockMap(p)
      PROVE  SharedType'
  BY <1>0, <1>8 DEF LockMap
<1>9. ASSUME NEW p \in Procs, NEW s \in Slots, UpdateSlot(p, s)
      PROVE  SharedType'
  <2>1. conn' \in [Clients -> {"none", "open", "closed"}]
    BY <1>0, <1>9 DEF UpdateSlot, ClosedOf
  <2>2. slots' \in [Regions -> Slots \cup {Null}]
    BY <1>0, <1>9 DEF UpdateSlot, Deleted
  <2> QED
    BY <1>0, <1>9, <2>1, <2>2, Zenon DEF UpdateSlot
<1>10. ASSUME NEW p \in Procs, UnlockMap(p)
      PROVE  SharedType'
  BY <1>0, <1>10, Zenon DEF UnlockMap
<1>11. CASE Open
  BY <1>0, <1>11 DEF Open
<1>12. CASE Close
  BY <1>0, <1>12, Zenon DEF Close
<1>13. ASSUME NEW s \in Slots, VisitSlot(s)
      PROVE  SharedType'
  BY <1>0, <1>13, Zenon DEF VisitSlot
<1>14. CASE Stop
  BY <1>0, <1>14, Zenon DEF Stop
<1>15. CASE UNCHANGED vars
  BY <1>0, <1>15, Zenon DEF vars
<1> QED
  BY <1>1, <1>2, <1>3, <1>4, <1>5, <1>6, <1>7, <1>8, <1>9, <1>10, <1>11, <1>12,
     <1>13, <1>14, <1>15, Zenon DEF Next, Step, CloserStep

\* of the slots,
LEMMA SlotTypeStep == DerpBase /\ [Next]_vars => SlotType'
<1> SUFFICES ASSUME DerpBase, [Next]_vars PROVE SlotType'
  BY Zenon
<1>a. TypeOK /\ HoldInv
  BY Zenon DEF DerpBase
<1>0. /\ slots \in [Regions -> Slots \cup {Null}] /\ at \in [Procs -> Slots \cup {Null}]
      /\ SlotType /\ HoldInv
  BY <1>a, Zenon DEF TypeOK, SharedType, SlotType, LocalType
<1> USE DerpConstants DEF SlotType, HoldInv, Procs, bindVars, managerVars, slotVars,
                          localVars, Goto
<1>1. ASSUME NEW p \in Procs, \/ Send(p) \/ Ensure(p) \/ NoSlot(p) \/ Handshake(p)
                              \/ Write(p) \/ Fail(p) \/ CloseConn(p)
                              \/ UpdateDERPMap(p) \/ LockMap(p) \/ UnlockMap(p)
      PROVE  SlotType'
  <2>1. UNCHANGED <<config, client, connecting, connected, slotLock>>
    BY <1>1, Zenon DEF Send, Ensure, NoSlot, Handshake, Live, Write, Leave, Fail,
                       CloseConn, AfterClear, UpdateDERPMap, Changed, LockMap,
                       UnlockMap
  <2> QED
    BY <1>0, <2>1, Zenon
<1>2. CASE \/ Open \/ Close \/ CloseConnections \/ Visited \/ Shutdown \/ Stop
  <2>1. UNCHANGED <<config, client, connecting, connected, slotLock>>
    BY <1>2, Zenon DEF Open, Close, CloseConnections, Visited, Shutdown, Stop
  <2> QED
    BY <1>0, <2>1, Zenon
<1>3. ASSUME NEW p \in Procs, NEW r \in Regions, FindSlot(p, r)
      PROVE  SlotType'
  <2>1. config' = config \/ \E s \in Slots : config' = [config EXCEPT ![s] = TRUE]
    BY <1>3, Zenon DEF FindSlot
  <2> QED
    BY <1>0, <1>3, <2>1, Zenon DEF FindSlot
<1>4. ASSUME NEW p \in Procs, EnsureCAS(p)
      PROVE  SlotType'
  BY <1>0, <1>4, Zenon DEF EnsureCAS, CompareAndSwap, Leave
<1>5. ASSUME NEW p \in Procs, EnsureLoad(p)
      PROVE  SlotType'
  <2>1. \/ connecting' = [connecting EXCEPT ![at[p]] = FALSE]
        \/ connecting' = connecting
    BY <1>5, Zenon DEF EnsureLoad
  <2> QED
    BY <1>0, <1>5, <2>1, Zenon DEF EnsureLoad
<1>6. ASSUME NEW p \in Procs, GetClient(p)
      PROVE  SlotType'
  <2>1. at[p] \in Slots
    BY <1>0, <1>6, Zenon DEF GetClient, HoldInv
  <2>2. connected' \in [Slots -> BOOLEAN]
    BY <1>0, <1>6, <2>1, Zenon DEF GetClient
  <2>3. \/ connecting' = [connecting EXCEPT ![at[p]] = FALSE]
        \/ connecting' = connecting
    BY <1>6, Zenon DEF GetClient, Return
  <2> QED
    BY <1>0, <1>6, <2>2, <2>3, ZenonT(30) DEF GetClient
<1>7. ASSUME NEW p \in Procs, Dial(p)
      PROVE  SlotType'
  BY <1>0, <1>7, Zenon DEF Dial
<1>8. ASSUME NEW p \in Procs, DialFails(p)
      PROVE  SlotType'
  BY <1>0, <1>8, Zenon DEF DialFails, Unlocked, Return, Leave
<1>9. ASSUME NEW p \in Procs, NEW c \in Clients, Connect(p, c)
      PROVE  SlotType'
  BY <1>0, <1>9, Zenon DEF Connect
<1>10. ASSUME NEW p \in Procs, Clear(p)
      PROVE  SlotType'
  <2>1. /\ client' = client \/ client' = [client EXCEPT ![at[p]] = Null]
        /\ connected' = connected \/ connected' = [connected EXCEPT ![at[p]] = FALSE]
        /\ UNCHANGED <<config, connecting, slotLock>>
    BY <1>10, Zenon DEF Clear, Disconnected, DropLock
  <2> QED
    BY <1>0, <2>1, Zenon
<1>11. ASSUME NEW p \in Updaters, NEW v \in SUBSET Regions, TakeMap(p, v)
      PROVE  SlotType'
  BY <1>0, <1>11, Zenon DEF TakeMap
<1>12. ASSUME NEW p \in Procs, NEW s \in Slots, UpdateSlot(p, s)
      PROVE  SlotType'
  <2>1. config' \in [Slots -> BOOLEAN]
    BY <1>0, <1>12, Zenon DEF UpdateSlot
  <2>2. client' \in [Slots -> Clients \cup {Null}]
    BY <1>0, <1>12 DEF UpdateSlot
  <2>3. connected' \in [Slots -> BOOLEAN]
    <3>1. \/ connected' = [connected EXCEPT ![s] = @ /\ client[s] = Null]
          \/ connected' = connected
      BY <1>12, Zenon DEF UpdateSlot
    <3> QED
      BY <1>0, <3>1, Zenon
  <2> QED
    BY <1>0, <1>12, <2>1, <2>2, <2>3, Zenon DEF UpdateSlot
<1>13. ASSUME NEW s \in Slots, VisitSlot(s)
      PROVE  SlotType'
  BY <1>0, <1>13, Zenon DEF VisitSlot
<1>14. CASE UNCHANGED vars
  BY <1>0, <1>14, Zenon DEF vars
<1> QED
  BY <1>1, <1>2, <1>3, <1>4, <1>5, <1>6, <1>7, <1>8, <1>9, <1>10, <1>11, <1>12,
     <1>13, <1>14, Zenon DEF Next, Step, CloserStep

\* and of the goroutines.
LEMMA LocalTypeStep == DerpBase /\ [Next]_vars => LocalType'
<1> SUFFICES ASSUME DerpBase, [Next]_vars PROVE LocalType'
  BY Zenon
<1>a. TypeOK /\ HoldInv
  BY Zenon DEF DerpBase
<1>0. /\ gen \in 0..MaxGen /\ slots \in [Regions -> Slots \cup {Null}]
      /\ client \in [Slots -> Clients \cup {Null}]
      /\ LocalType /\ HoldInv
  BY <1>a, Zenon DEF TypeOK, SharedType, SlotType, LocalType
<1> USE DerpConstants DEF LocalType, HoldInv, Procs, Places, InUse, bindVars,
                          managerVars, slotVars, localVars, Goto
<1>1. ASSUME NEW p \in Procs, \/ Send(p) \/ Ensure(p) \/ NoSlot(p) \/ Handshake(p)
                              \/ Fail(p)
      PROVE  LocalType'
  BY <1>0, <1>1 DEF Send, Ensure, NoSlot, Handshake, Live, Fail
<1>2. CASE \/ Open \/ Close \/ CloseConnections \/ Visited \/ Shutdown
  BY <1>0, <1>2 DEF Open, Close, CloseConnections, Visited, Shutdown
<1>3. ASSUME NEW p \in Procs, NEW r \in Regions, FindSlot(p, r)
      PROVE  LocalType'
  <2>1. \E s \in Slots : at' = [at EXCEPT ![p] = s]
    BY <1>0, <1>3, Zenon DEF FindSlot
  <2> QED
    BY <1>0, <1>3, <2>1 DEF FindSlot
<1>4. ASSUME NEW p \in Procs, EnsureCAS(p)
      PROVE  LocalType'
  BY <1>0, <1>4 DEF EnsureCAS, CompareAndSwap, Leave
<1>5. ASSUME NEW p \in Procs, EnsureLoad(p)
      PROVE  LocalType'
  <2>1. CASE connected[at[p]]
    BY <1>0, <1>5, <2>1 DEF EnsureLoad, Leave
  <2>2. CASE ~connected[at[p]]
    <3>1. PICK w \in Workers :
            /\ pc' = [pc EXCEPT ![p] = "idle", ![w] = "get"]
            /\ at' = [at EXCEPT ![p] = Null, ![w] = at[p]]
            /\ UNCHANGED has
      BY <1>5, <2>2, Zenon DEF EnsureLoad
    <3> QED
      BY <1>0, <1>5, <3>1, Zenon DEF EnsureLoad
  <2> QED
    BY <2>1, <2>2, Zenon
<1>6. ASSUME NEW p \in Procs, GetClient(p)
      PROVE  LocalType'
  BY <1>0, <1>6 DEF GetClient, Return, Leave
<1>7. ASSUME NEW p \in Procs, Dial(p)
      PROVE  LocalType'
  BY <1>0, <1>7, Zenon DEF Dial
<1>8. ASSUME NEW p \in Procs, DialFails(p)
      PROVE  LocalType'
  BY <1>0, <1>8, Zenon DEF DialFails, Unlocked, Return, Leave
<1>9. ASSUME NEW p \in Procs, NEW c \in Clients, Connect(p, c)
      PROVE  LocalType'
  BY <1>0, <1>9, Zenon DEF Connect
<1>10. ASSUME NEW p \in Procs, Write(p)
      PROVE  LocalType'
  BY <1>0, <1>10, Zenon DEF Write, Leave
<1>11. ASSUME NEW p \in Procs, Clear(p)
      PROVE  LocalType'
  <2>1. client[at[p]] \in Clients \cup {Null}
    BY <1>0, <1>11, Zenon DEF Clear, HoldInv
  <2>2. /\ has' = [has EXCEPT ![p] = Null] \/ has' = [has EXCEPT ![p] = client[at[p]]]
        /\ at' = at \/ at' = [at EXCEPT ![p] = Null]
        /\ UNCHANGED localVars
    BY <1>11, Zenon DEF Clear, Leave
  <2>3. pc' \in {[pc EXCEPT ![p] = l] : l \in {"visit", "done", "idle", "close"}}
    BY <1>11, Zenon DEF Clear, AfterClear, Leave
  <2> QED
    BY <1>0, <2>1, <2>2, <2>3
<1>12. ASSUME NEW p \in Procs, CloseConn(p)
      PROVE  LocalType'
  BY <1>0, <1>12, Zenon DEF CloseConn, AfterClear, Leave
<1>13. ASSUME NEW p \in Updaters, NEW v \in SUBSET Regions, TakeMap(p, v)
      PROVE  LocalType'
  BY <1>0, <1>13, Zenon DEF TakeMap
<1>14. ASSUME NEW p \in Procs, UpdateDERPMap(p)
      PROVE  LocalType'
  BY <1>0, <1>14, Zenon DEF UpdateDERPMap, Changed
<1>15. ASSUME NEW p \in Procs, LockMap(p)
      PROVE  LocalType'
  BY <1>0, <1>15 DEF LockMap
<1>16. ASSUME NEW p \in Procs, NEW s \in Slots, UpdateSlot(p, s)
      PROVE  LocalType'
  BY <1>0, <1>16, Zenon DEF UpdateSlot, ClosedOf, Deleted
<1>17. ASSUME NEW p \in Procs, UnlockMap(p)
      PROVE  LocalType'
  BY <1>0, <1>17, Zenon DEF UnlockMap
<1>18. ASSUME NEW s \in Slots, VisitSlot(s)
      PROVE  LocalType'
  BY <1>0, <1>18, Zenon DEF VisitSlot
<1>19. CASE Stop
  BY <1>0, <1>19, Zenon DEF Stop
<1>20. CASE UNCHANGED vars
  BY <1>0, <1>20, Zenon DEF vars
<1> QED
  BY <1>1, <1>2, <1>3, <1>4, <1>5, <1>6, <1>7, <1>8, <1>9, <1>10, <1>11, <1>12,
     <1>13, <1>14, <1>15, <1>16, <1>17, <1>18, <1>19, <1>20,
     Zenon DEF Next, Step, CloserStep

\* Every goroutine stays among the places of its kind.
LEMMA PlaceStep == DerpBase /\ [Next]_vars => PlaceInv'
<1> SUFFICES ASSUME DerpBase, [Next]_vars PROVE PlaceInv'
  BY Zenon
<1>a. TypeOK /\ PlaceInv /\ HoldInv
  BY Zenon DEF DerpBase
<1>0. /\ pc \in [Procs -> Places] /\ conn \in [Clients -> {"none", "open", "closed"}]
      /\ PlaceInv /\ HoldInv
  BY <1>a, Zenon DEF TypeOK, SharedType, SlotType, LocalType
<1> USE DerpConstants DEF PlaceInv, Procs, bindVars, managerVars, slotVars,
                          localVars, Goto
<1>1. ASSUME NEW p \in Procs, \/ Send(p) \/ Ensure(p) \/ NoSlot(p) \/ Handshake(p)
                              \/ Fail(p)
      PROVE  PlaceInv'
  BY <1>0, <1>1 DEF Send, Ensure, NoSlot, Handshake, Live, Fail
<1>2. CASE \/ Open \/ Close \/ CloseConnections \/ Visited \/ Shutdown
  BY <1>0, <1>2 DEF Open, Close, CloseConnections, Visited, Shutdown
<1>3. ASSUME NEW p \in Procs, NEW r \in Regions, FindSlot(p, r)
      PROVE  PlaceInv'
  BY <1>0, <1>3 DEF FindSlot
<1>4. ASSUME NEW p \in Procs, EnsureCAS(p)
      PROVE  PlaceInv'
  BY <1>0, <1>4 DEF EnsureCAS, CompareAndSwap, Leave
<1>5. ASSUME NEW p \in Procs, EnsureLoad(p)
      PROVE  PlaceInv'
  BY <1>0, <1>5 DEF EnsureLoad, Leave
<1>6. ASSUME NEW p \in Procs, GetClient(p)
      PROVE  PlaceInv'
  BY <1>0, <1>6 DEF GetClient, Return, Leave
<1>7. ASSUME NEW p \in Procs, Dial(p)
      PROVE  PlaceInv'
  BY <1>0, <1>7, Zenon DEF Dial
<1>8. ASSUME NEW p \in Procs, DialFails(p)
      PROVE  PlaceInv'
  BY <1>0, <1>8, Zenon DEF DialFails, Unlocked, Return, Leave
<1>9. ASSUME NEW p \in Procs, NEW c \in Clients, Connect(p, c)
      PROVE  PlaceInv'
  BY <1>0, <1>9 DEF Connect
<1>10. ASSUME NEW p \in Procs, Write(p)
      PROVE  PlaceInv'
  BY <1>0, <1>10, Zenon DEF Write, Leave
<1>11. ASSUME NEW p \in Procs, Clear(p)
      PROVE  PlaceInv'
  BY <1>0, <1>11 DEF Clear, AfterClear, Disconnected, DropLock, Leave
<1>12. ASSUME NEW p \in Procs, CloseConn(p)
      PROVE  PlaceInv'
  BY <1>0, <1>12 DEF CloseConn, AfterClear, Leave
<1>13. ASSUME NEW p \in Updaters, NEW v \in SUBSET Regions, TakeMap(p, v)
      PROVE  PlaceInv'
  BY <1>0, <1>13 DEF TakeMap
<1>14. ASSUME NEW p \in Procs, UpdateDERPMap(p)
      PROVE  PlaceInv'
  BY <1>0, <1>14 DEF UpdateDERPMap, Changed
<1>15. ASSUME NEW p \in Procs, LockMap(p)
      PROVE  PlaceInv'
  BY <1>0, <1>15 DEF LockMap
<1>16. ASSUME NEW p \in Procs, NEW s \in Slots, UpdateSlot(p, s)
      PROVE  PlaceInv'
  BY <1>0, <1>16, Zenon DEF UpdateSlot, ClosedOf, Deleted
<1>17. ASSUME NEW p \in Procs, UnlockMap(p)
      PROVE  PlaceInv'
  BY <1>0, <1>17 DEF UnlockMap
<1>18. ASSUME NEW s \in Slots, VisitSlot(s)
      PROVE  PlaceInv'
  BY <1>0, <1>18, Zenon DEF VisitSlot
<1>19. CASE Stop
  BY <1>0, <1>19, Zenon DEF Stop
<1>20. CASE UNCHANGED vars
  BY <1>0, <1>20, Zenon DEF vars
<1> QED
  BY <1>1, <1>2, <1>3, <1>4, <1>5, <1>6, <1>7, <1>8, <1>9, <1>10, <1>11, <1>12,
     <1>13, <1>14, <1>15, <1>16, <1>17, <1>18, <1>19, <1>20,
     Zenon DEF Next, Step, CloserStep

\* A goroutine has the slot it works on, the closer asks for no particular client,
\* and a connection is given to a reader that has not started.
LEMMA HoldStep == DerpBase /\ [Next]_vars => HoldInv'
<1> SUFFICES ASSUME DerpBase, [Next]_vars PROVE HoldInv'
  BY Zenon
<1>a. TypeOK /\ PlaceInv /\ HoldInv
  BY Zenon DEF DerpBase
<1>0. /\ pc \in [Procs -> Places] /\ at \in [Procs -> Slots \cup {Null}]
      /\ has \in [Procs -> Clients \cup {Null}]
      /\ conn \in [Clients -> {"none", "open", "closed"}]
      /\ slots \in [Regions -> Slots \cup {Null}]
      /\ client \in [Slots -> Clients \cup {Null}]
      /\ PlaceInv /\ HoldInv
  BY <1>a, Zenon DEF TypeOK, SharedType, SlotType, LocalType
<1> USE DerpConstants DEF PlaceInv, HoldInv, Procs, bindVars, managerVars, slotVars,
                          localVars, Goto
<1>1. ASSUME NEW p \in Procs, \/ Send(p) \/ Ensure(p) \/ NoSlot(p) \/ Handshake(p)
                              \/ Fail(p)
      PROVE  HoldInv'
  BY <1>0, <1>1, SMTT(30) DEF Send, Ensure, NoSlot, Handshake, Live, Fail
<1>2. CASE \/ Open \/ Close \/ CloseConnections \/ Visited \/ Shutdown
  BY <1>0, <1>2 DEF Open, Close, CloseConnections, Visited, Shutdown
<1>3. ASSUME NEW p \in Procs, NEW r \in Regions, FindSlot(p, r)
      PROVE  HoldInv'
  BY <1>0, <1>3 DEF FindSlot
<1>4. ASSUME NEW p \in Procs, EnsureCAS(p)
      PROVE  HoldInv'
  BY <1>0, <1>4 DEF EnsureCAS, CompareAndSwap, Leave
<1>5. ASSUME NEW p \in Procs, EnsureLoad(p)
      PROVE  HoldInv'
  BY <1>0, <1>5 DEF EnsureLoad, Leave
<1>6. ASSUME NEW p \in Procs, GetClient(p)
      PROVE  HoldInv'
  BY <1>0, <1>6 DEF GetClient, Return, Leave
<1>7. ASSUME NEW p \in Procs, Dial(p)
      PROVE  HoldInv'
  BY <1>0, <1>7 DEF Dial
<1>8. ASSUME NEW p \in Procs, DialFails(p)
      PROVE  HoldInv'
  BY <1>0, <1>8, Zenon DEF DialFails, Unlocked, Return, Leave
<1>9. ASSUME NEW p \in Procs, NEW c \in Clients, Connect(p, c)
      PROVE  HoldInv'
  BY <1>0, <1>9 DEF Connect
<1>10. ASSUME NEW p \in Procs, Write(p)
      PROVE  HoldInv'
  BY <1>0, <1>10 DEF Write, Leave
<1>11. ASSUME NEW p \in Procs, Clear(p)
      PROVE  HoldInv'
  BY <1>0, <1>11 DEF Clear, AfterClear, Disconnected, DropLock, Leave
<1>12. ASSUME NEW p \in Procs, CloseConn(p)
      PROVE  HoldInv'
  BY <1>0, <1>12 DEF CloseConn, AfterClear, Leave
<1>13. ASSUME NEW p \in Updaters, NEW v \in SUBSET Regions, TakeMap(p, v)
      PROVE  HoldInv'
  BY <1>0, <1>13 DEF TakeMap
<1>14. ASSUME NEW p \in Procs, UpdateDERPMap(p)
      PROVE  HoldInv'
  BY <1>0, <1>14 DEF UpdateDERPMap, Changed
<1>15. ASSUME NEW p \in Procs, LockMap(p)
      PROVE  HoldInv'
  BY <1>0, <1>15 DEF LockMap
<1>16. ASSUME NEW p \in Procs, NEW s \in Slots, UpdateSlot(p, s)
      PROVE  HoldInv'
  BY <1>0, <1>16, SMTT(30) DEF UpdateSlot, ClosedOf, Deleted
<1>17. ASSUME NEW p \in Procs, UnlockMap(p)
      PROVE  HoldInv'
  BY <1>0, <1>17 DEF UnlockMap
<1>18. ASSUME NEW s \in Slots, VisitSlot(s)
      PROVE  HoldInv'
  BY <1>0, <1>18, Zenon DEF VisitSlot
<1>19. CASE Stop
  BY <1>0, <1>19, Zenon DEF Stop
<1>20. CASE UNCHANGED vars
  BY <1>0, <1>20, Zenon DEF vars
<1> QED
  BY <1>1, <1>2, <1>3, <1>4, <1>5, <1>6, <1>7, <1>8, <1>9, <1>10, <1>11, <1>12,
     <1>13, <1>14, <1>15, <1>16, <1>17, <1>18, <1>19, <1>20,
     Zenon DEF Next, Step, CloserStep

\* A slot is locked across steps by its dialler alone, and the manager by an update.
LEMMA LockStep == DerpBase /\ [Next]_vars => MutexInv'
<1> SUFFICES ASSUME DerpBase, [Next]_vars PROVE MutexInv'
  BY Zenon
<1>a. TypeOK /\ PlaceInv /\ HoldInv /\ MutexInv
  BY Zenon DEF DerpBase
<1>0. /\ pc \in [Procs -> Places] /\ at \in [Procs -> Slots \cup {Null}]
      /\ slotLock \in [Slots -> Procs \cup {Null}]
      /\ client \in [Slots -> Clients \cup {Null}] /\ config \in [Slots -> BOOLEAN]
      /\ mapLock \in Updaters \cup {Null} /\ slots \in [Regions -> Slots \cup {Null}]
      /\ PlaceInv /\ HoldInv /\ MutexInv
  BY <1>a, Zenon DEF TypeOK, SharedType, SlotType, LocalType
<1> USE DerpConstants DEF PlaceInv, HoldInv, MutexInv, Dialling, Procs, bindVars,
                          managerVars, slotVars, localVars, Goto
<1>1. ASSUME NEW p \in Procs, \/ Send(p) \/ Ensure(p) \/ NoSlot(p) \/ Handshake(p)
                              \/ Fail(p)
      PROVE  MutexInv'
  BY <1>0, <1>1, SMTT(30) DEF Send, Ensure, NoSlot, Handshake, Live, Fail
<1>2. CASE \/ Open \/ Close \/ CloseConnections \/ Visited \/ Shutdown
  BY <1>0, <1>2, SMTT(30) DEF Open, Close, CloseConnections, Visited, Shutdown
<1>3. ASSUME NEW p \in Procs, NEW r \in Regions, FindSlot(p, r)
      PROVE  MutexInv'
  <2>1. UNCHANGED <<slotLock, client, mapLock, closed>>
    BY <1>3, Zenon DEF FindSlot
  <2>2. /\ pc[p] = "lookup" /\ pc'[p] \in {"get", "cas"}
        /\ \A q \in Procs \ {p} : pc'[q] = pc[q] /\ at'[q] = at[q]
    BY <1>0, <1>3, SMTT(30) DEF FindSlot
  <2>3. \A s \in Slots : config[s] => config'[s]
    BY <1>0, <1>3, SMTT(30) DEF FindSlot
  <2> QED
    BY <1>0, <2>1, <2>2, <2>3, SMTT(30)
<1>4. ASSUME NEW p \in Procs, EnsureCAS(p)
      PROVE  MutexInv'
  BY <1>0, <1>4, SMTT(30) DEF EnsureCAS, CompareAndSwap, Leave
<1>5. ASSUME NEW p \in Procs, EnsureLoad(p)
      PROVE  MutexInv'
  BY <1>0, <1>5, SMTT(30) DEF EnsureLoad, Leave
<1>6. ASSUME NEW p \in Procs, GetClient(p)
      PROVE  MutexInv'
  BY <1>0, <1>6, SMTT(30) DEF GetClient, Return, Leave
<1>7. ASSUME NEW p \in Procs, Dial(p)
      PROVE  MutexInv'
  BY <1>0, <1>7, SMTT(30) DEF Dial
<1>8. ASSUME NEW p \in Procs, DialFails(p)
      PROVE  MutexInv'
  BY <1>0, <1>8, SMTT(30) DEF DialFails, Unlocked, Return, Leave
<1>9. ASSUME NEW p \in Procs, NEW c \in Clients, Connect(p, c)
      PROVE  MutexInv'
  BY <1>0, <1>9, SMTT(30) DEF Connect
<1>10. ASSUME NEW p \in Procs, Write(p)
      PROVE  MutexInv'
  BY <1>0, <1>10, SMTT(30) DEF Write, Leave
<1>11. ASSUME NEW p \in Procs, Clear(p)
      PROVE  MutexInv'
  BY <1>0, <1>11, SMTT(30) DEF Clear, AfterClear, Disconnected, DropLock, Leave
<1>12. ASSUME NEW p \in Procs, CloseConn(p)
      PROVE  MutexInv'
  BY <1>0, <1>12, SMTT(30) DEF CloseConn, AfterClear, Leave
<1>13. ASSUME NEW p \in Updaters, NEW v \in SUBSET Regions, TakeMap(p, v)
      PROVE  MutexInv'
  BY <1>0, <1>13, SMTT(30) DEF TakeMap
<1>14. ASSUME NEW p \in Procs, UpdateDERPMap(p)
      PROVE  MutexInv'
  BY <1>0, <1>14, SMTT(30) DEF UpdateDERPMap, Changed
<1>15. ASSUME NEW p \in Procs, LockMap(p)
      PROVE  MutexInv'
  BY <1>0, <1>15, SMTT(30) DEF LockMap
<1>16. ASSUME NEW p \in Procs, NEW s \in Slots, UpdateSlot(p, s)
      PROVE  MutexInv'
  BY <1>0, <1>16, SMTT(30) DEF UpdateSlot, ClosedOf, Deleted
<1>17. ASSUME NEW p \in Procs, UnlockMap(p)
      PROVE  MutexInv'
  BY <1>0, <1>17, SMTT(30) DEF UnlockMap
<1>18. ASSUME NEW s \in Slots, VisitSlot(s)
      PROVE  MutexInv'
  BY <1>0, <1>18, SMTT(30) DEF VisitSlot
<1>19. CASE Stop
  BY <1>0, <1>19, SMTT(30) DEF Stop
<1>20. CASE UNCHANGED vars
  BY <1>0, <1>20, Zenon DEF vars
<1> QED
  BY <1>1, <1>2, <1>3, <1>4, <1>5, <1>6, <1>7, <1>8, <1>9, <1>10, <1>11, <1>12,
     <1>13, <1>14, <1>15, <1>16, <1>17, <1>18, <1>19, <1>20,
     Zenon DEF Next, Step, CloserStep

\* What updateMap leaves of a slot whose region is gone.
LEMMA SlotRemoved ==
  ASSUME slots \in [Regions -> Slots \cup {Null}], config \in [Slots -> BOOLEAN],
         client \in [Slots -> Clients \cup {Null}], connected \in [Slots -> BOOLEAN],
         \A s \in Slots : connected[s] <=> client[s] # Null,
         NEW p, NEW s \in Slots, UpdateSlot(p, s),
         \A r \in Regions : slots[r] = s => r \notin mapv
  PROVE  /\ ~config'[s] /\ client'[s] = Null /\ ~connected'[s]
         /\ \A t \in Slots \ {s} : /\ config'[t] = config[t] /\ client'[t] = client[t]
                                   /\ connected'[t] = connected[t]
         /\ \A r \in Regions : slots'[r] = IF slots[r] = s THEN Null ELSE slots[r]
<1>1. ~config'[s]
  BY Zenon DEF UpdateSlot
<1>2. client'[s] = Null
  BY Zenon DEF UpdateSlot
<1>3. connected'[s] <=> connected[s] /\ client[s] = Null
  BY Zenon DEF UpdateSlot
<1>4. \A t \in Slots \ {s} : /\ config'[t] = config[t] /\ client'[t] = client[t]
                             /\ connected'[t] = connected[t]
  BY Zenon DEF UpdateSlot
<1>5. \A r \in Regions : slots'[r] = IF slots[r] = s THEN Null ELSE slots[r]
  BY Zenon DEF UpdateSlot, Deleted
<1> QED
  BY <1>1, <1>2, <1>3, <1>4, <1>5, Zenon

\* A slot that is not in use is left without config and client, so a dial that holds
\* its lock ends in a slot in use.
LEMMA SlotStep == DerpBase /\ [Next]_vars => SlotInv'
<1> SUFFICES ASSUME DerpBase, [Next]_vars PROVE SlotInv'
  BY Zenon
<1>a. TypeOK /\ PlaceInv /\ HoldInv /\ MutexInv /\ SlotInv
  BY Zenon DEF DerpBase
<1>0. /\ slots \in [Regions -> Slots \cup {Null}] /\ made \in SUBSET Slots
      /\ config \in [Slots -> BOOLEAN] /\ client \in [Slots -> Clients \cup {Null}]
      /\ connected \in [Slots -> BOOLEAN] /\ slotLock \in [Slots -> Procs \cup {Null}]
      /\ at \in [Procs -> Slots \cup {Null}]
      /\ PlaceInv /\ HoldInv /\ MutexInv /\ SlotInv
  BY <1>a, Zenon DEF TypeOK, SharedType, SlotType, LocalType
<1> USE DerpConstants DEF SlotInv, HoldInv, MutexInv, InUse, Procs, bindVars,
                          managerVars, slotVars, localVars, Goto
<1>1. ASSUME NEW p \in Procs, \/ Send(p) \/ Ensure(p) \/ NoSlot(p) \/ EnsureCAS(p)
                              \/ EnsureLoad(p) \/ Dial(p) \/ Handshake(p)
                              \/ DialFails(p) \/ Write(p) \/ Fail(p) \/ CloseConn(p)
                              \/ UpdateDERPMap(p) \/ LockMap(p) \/ UnlockMap(p)
      PROVE  SlotInv'
  <2>1. UNCHANGED <<slots, made, config, client, connected>>
    BY <1>1, Zenon DEF Send, Ensure, NoSlot, EnsureCAS, CompareAndSwap, Leave,
                       EnsureLoad, Dial, Handshake, Live, DialFails, Unlocked,
                       Return, Write, Fail, CloseConn, AfterClear, UpdateDERPMap,
                       Changed, LockMap, UnlockMap
  <2> QED
    BY <1>0, <2>1, Zenon
<1>2. CASE \/ Open \/ Close \/ CloseConnections \/ Visited \/ Shutdown \/ Stop
  <2>1. UNCHANGED <<slots, made, config, client, connected>>
    BY <1>2, Zenon DEF Open, Close, CloseConnections, Visited, Shutdown, Stop
  <2> QED
    BY <1>0, <2>1, Zenon
<1>3. ASSUME NEW p \in Procs, NEW r \in Regions, FindSlot(p, r)
      PROVE  SlotInv'
  BY <1>0, <1>3, SMTT(30) DEF FindSlot
<1>4. ASSUME NEW p \in Procs, GetClient(p)
      PROVE  SlotInv'
  BY <1>0, <1>4, SMTT(30) DEF GetClient, Return, Leave
<1>5. ASSUME NEW p \in Procs, NEW c \in Clients, Connect(p, c)
      PROVE  SlotInv'
  <2>1. slotLock[at[p]] = p /\ at[p] \in Slots /\ p # Null
    BY <1>0, <1>5, SMTT(30) DEF Connect, Dialling, Procs, PlaceInv
  <2>2. client[at[p]] = Null /\ config[at[p]]
    BY <1>0, <2>1, Zenon
  <2> QED
    BY <1>0, <1>5, <2>1, <2>2, SMTT(30) DEF Connect
<1>6. ASSUME NEW p \in Procs, Clear(p)
      PROVE  SlotInv'
  BY <1>0, <1>6, SMTT(30) DEF Clear, AfterClear, Disconnected, DropLock, Leave
<1>7. ASSUME NEW p \in Updaters, NEW v \in SUBSET Regions, TakeMap(p, v)
      PROVE  SlotInv'
  BY <1>0, <1>7, Zenon DEF TakeMap
<1>8. ASSUME NEW p \in Procs, NEW s \in Slots, UpdateSlot(p, s)
      PROVE  SlotInv'
  <2>1. UNCHANGED made
    BY <1>8, Zenon DEF UpdateSlot
  <2>2. CASE \A r \in Regions : slots[r] = s => r \notin mapv
    <3>1. /\ ~config'[s] /\ client'[s] = Null /\ ~connected'[s]
          /\ \A t \in Slots \ {s} : /\ config'[t] = config[t] /\ client'[t] = client[t]
                                    /\ connected'[t] = connected[t]
          /\ \A r \in Regions : slots'[r] = IF slots[r] = s THEN Null ELSE slots[r]
      BY <1>0, <1>8, <2>2, SlotRemoved, Zenon
    <3> QED
      BY <1>0, <2>1, <3>1, SMTT(30)
  <2>3. CASE ~ \A r \in Regions : slots[r] = s => r \notin mapv
    <3>1. UNCHANGED <<client, connected, slots>>
      BY <1>8, <2>3, Zenon DEF UpdateSlot
    <3>2. \A t \in Slots \ {s} : config'[t] = config[t]
      BY <1>0, <1>8, SMTT(30) DEF UpdateSlot
    <3> QED
      BY <1>0, <2>1, <2>3, <3>1, <3>2, Zenon
  <2> QED
    BY <2>2, <2>3, Zenon
<1>9. ASSUME NEW s \in Slots, VisitSlot(s)
      PROVE  SlotInv'
  BY <1>0, <1>9, Zenon DEF VisitSlot
<1>10. CASE UNCHANGED vars
  BY <1>0, <1>10, Zenon DEF vars
<1> QED
  BY <1>1, <1>2, <1>3, <1>4, <1>5, <1>6, <1>7, <1>8, <1>9, <1>10,
     Zenon DEF Next, Step, CloserStep

\* Every step keeps DerpBase.
LEMMA BaseStep == DerpBase /\ [Next]_vars => DerpBase'
<1> SUFFICES ASSUME DerpBase, [Next]_vars PROVE DerpBase'
  BY Zenon
<1>1. TypeOK'
  BY SharedTypeStep, SlotTypeStep, LocalTypeStep, Zenon DEF TypeOK
<1>2. PlaceInv' /\ HoldInv' /\ MutexInv' /\ SlotInv'
  BY PlaceStep, HoldStep, LockStep, SlotStep, Zenon
<1> QED
  BY <1>1, <1>2, Zenon DEF DerpBase
=============================================================================

---------------------------- MODULE DerpManager ----------------------------
(***************************************************************************)
(* The DERP relay connections of the bind (internal/tailnet/derp.go) and   *)
(* the parts of Bind that drive them (bind.go): a slot per region with at  *)
(* most one client connection, dialled on demand under the slot's lock by  *)
(* senders and by the background goroutine of ensureAsync, dropped by      *)
(* failed sends, readers, map updates that remove the region, Close and    *)
(* Shutdown.                                                               *)
(*                                                                         *)
(* A step is one critical section or one blocking operation.  A map is the *)
(* set of regions it has; addresses, TLS and frames are left out: a dial   *)
(* may fail at any time, and a connection may break at any time.           *)
(***************************************************************************)
EXTENDS Integers, FiniteSets

CONSTANTS
  Regions,
  Senders,            \* goroutines in derpManager.send
  Ensurers,           \* maintain, which calls ensureAsync
  Updaters,           \* callers of UpdateDERPMap
  Workers,            \* goroutines started by ensureAsync
  Closer,             \* the goroutine that closes, reopens, shuts down
  Slots, Clients,     \* the derpRegionSlots and derpClients made, and readers
  MaxGen, MaxMaps,    \* bounds: openings of the bind, maps received
  Null

ASSUME DerpConstants ==
  /\ MaxGen \in Nat /\ MaxMaps \in Nat
  /\ Null \notin Slots \cup Clients \cup Senders \cup Updaters \cup Workers
  /\ Senders \cap (Ensurers \cup Updaters \cup Workers \cup Clients) = {}
  /\ Updaters \cap (Ensurers \cup Workers \cup Clients) = {}
  /\ Workers \cap (Ensurers \cup Clients) = {} /\ Ensurers \cap Clients = {}
  /\ Closer \notin Senders \cup Ensurers \cup Updaters \cup Workers \cup Clients

Procs == Senders \cup Ensurers \cup Updaters \cup Workers \cup Clients \cup {Closer}

VARIABLES
  cmap, maps,          \* the client's map, and how many it has received
  bmap,                \* Bind.derpMap
  open, gen,           \* Bind.open; Bind.ctx is live while open in this gen
  closed, mapv, slots, \* derpManager: closed (and ctx cancelled), mapv, slots
  mapLock,             \* derpManager.mu, when it is held across steps
  made,                \* the slots made so far; for each slot:
  config, client,      \*   config is not nil; client
  connecting, connected,
  slotLock,            \*   mu, when it is held across steps
  conn,                \* the connection of each client
  pc, at, has,         \* where each goroutine is, its slot, its client
  ctx,                 \* the generation whose ctx a sender has
  want,                \* the map an updater installs
  todo,                \* slots left to visit by updateMap, closeConnections, close
  crossed              \* history: an update began while another was under way

managerVars == <<closed, mapv, slots, mapLock, made>>
slotVars == <<config, client, connecting, connected, slotLock>>
bindVars == <<cmap, maps, bmap, open, gen>>
localVars == <<ctx, want, todo, crossed>>
vars == <<bindVars, managerVars, slotVars, conn, pc, at, has, localVars>>

\* Where a goroutine can be between two steps.
Places == {"idle", "lookup", "get", "dial", "upgrade", "write", "clear", "close", "cas",
           "load", "read", "lock", "visit", "collect", "stop", "done"}

SharedType ==
  /\ cmap \in SUBSET Regions /\ maps \in 0..MaxMaps /\ bmap \in SUBSET Regions
  /\ open \in BOOLEAN /\ gen \in 0..MaxGen /\ closed \in BOOLEAN
  /\ mapv \in SUBSET Regions /\ slots \in [Regions -> Slots \cup {Null}]
  /\ mapLock \in Updaters \cup {Null} /\ made \in SUBSET Slots
  /\ conn \in [Clients -> {"none", "open", "closed"}]
SlotType ==
  /\ config \in [Slots -> BOOLEAN] /\ client \in [Slots -> Clients \cup {Null}]
  /\ connecting \in [Slots -> BOOLEAN] /\ connected \in [Slots -> BOOLEAN]
  /\ slotLock \in [Slots -> Procs \cup {Null}]
LocalType ==
  /\ pc \in [Procs -> Places]
  /\ at \in [Procs -> Slots \cup {Null}] /\ has \in [Procs -> Clients \cup {Null}]
  /\ ctx \in [Senders -> 0..MaxGen] /\ want \in [Updaters -> SUBSET Regions]
  /\ todo \in [Updaters \cup {Closer} -> SUBSET Slots] /\ crossed \in BOOLEAN
TypeOK == SharedType /\ SlotType /\ LocalType

Goto(p, l) == pc' = [pc EXCEPT ![p] = l]

\* The call returns: its locals are gone.
Leave(p, l) ==
  /\ Goto(p, l)
  /\ at' = [at EXCEPT ![p] = Null] /\ has' = [has EXCEPT ![p] = Null]
InUse == {s \in Slots : \E r \in Regions : slots[r] = s}

-----------------------------------------------------------------------------
(* send and ensureAsync find or make the slot of a region.                 *)

\* Bind.Send reads b.ctx; a bind that was never opened has none.
Send(p) ==
  /\ p \in Senders /\ pc[p] = "idle" /\ open
  /\ ctx' = [ctx EXCEPT ![p] = gen]
  /\ Goto(p, "lookup")
  /\ UNCHANGED <<bindVars, managerVars, slotVars, conn, at, has, want, todo, crossed>>

\* A tick of maintain.
Ensure(p) ==
  /\ p \in Ensurers /\ pc[p] = "idle" /\ open
  /\ Goto(p, "lookup")
  /\ UNCHANGED <<bindVars, managerVars, slotVars, conn, at, has, localVars>>

\* The context of the call has not been cancelled.
Live(p) == IF p \in Senders THEN open /\ ctx[p] = gen ELSE ~closed

\* send finds its context cancelled, or derpManager.slot fails: the manager is
\* closed, or the map lacks the region.
NoSlot(p) ==
  /\ pc[p] = "lookup" /\ mapLock = Null
  /\ closed \/ mapv # Regions \/ ~Live(p)
  /\ Goto(p, "idle")
  /\ UNCHANGED <<bindVars, managerVars, slotVars, conn, at, has, localVars>>

\* It returns the slot of region r, a new one if it has to.
FindSlot(p, r) ==
  /\ pc[p] = "lookup" /\ mapLock = Null
  /\ ~closed /\ r \in mapv
  /\ IF slots[r] # Null
     THEN /\ at' = [at EXCEPT ![p] = slots[r]]
          /\ UNCHANGED <<slots, made, config>>
     ELSE \E s \in Slots \ made :
            /\ made' = made \cup {s}
            /\ slots' = [slots EXCEPT ![r] = s]
            /\ config' = [config EXCEPT ![s] = TRUE]
            /\ at' = [at EXCEPT ![p] = s]
  /\ Goto(p, IF p \in Senders THEN "get" ELSE "cas")
  /\ UNCHANGED <<bindVars, closed, mapv, mapLock, client, connecting, connected,
                 slotLock, conn, has, localVars>>

\* Mutant: connecting is stored, not compared and swapped.
Swap(s) == TRUE

\* connecting.CompareAndSwap(false, true) succeeds.
CompareAndSwap(s) == ~connecting[s]

\* ensureAsync: one connection attempt at a time.
EnsureCAS(p) ==
  /\ pc[p] = "cas"
  /\ connecting' = [connecting EXCEPT ![at[p]] = TRUE]
  /\ IF ~CompareAndSwap(at[p]) THEN Leave(p, "idle")
                          ELSE Goto(p, "load") /\ UNCHANGED <<at, has>>
  /\ UNCHANGED <<bindVars, managerVars, config, client, connected, slotLock, conn,
                 localVars>>

\* Then nothing to do, or a goroutine to start.
EnsureLoad(p) ==
  /\ pc[p] = "load"
  /\ IF connected[at[p]]
     THEN /\ connecting' = [connecting EXCEPT ![at[p]] = FALSE]
          /\ Leave(p, "idle")
     ELSE \E w \in Workers :
            /\ pc[w] = "idle"
            /\ pc' = [pc EXCEPT ![p] = "idle", ![w] = "get"]
            /\ at' = [at EXCEPT ![p] = Null, ![w] = at[p]]
            /\ UNCHANGED <<has, connecting>>
  /\ UNCHANGED <<bindVars, managerVars, config, client, connected, slotLock, conn,
                 localVars>>

-----------------------------------------------------------------------------
(* getClient, under the lock of the slot, by senders and workers.          *)

\* ensureAsync's goroutine ends by resetting connecting; a failed send returns.
Return(p) ==
  /\ Leave(p, "idle")
  /\ connecting' = IF p \in Workers THEN [connecting EXCEPT ![at[p]] = FALSE] ELSE connecting

\* The slot has a client, which is used, or no region, which is an error.
GetClient(p) ==
  LET s == at[p] IN
  /\ pc[p] = "get" /\ slotLock[s] = Null
  /\ client[s] # Null \/ ~config[s]
  /\ connected' = [connected EXCEPT ![s] = @ \/ client[s] # Null]
  /\ IF client[s] # Null /\ p \in Senders
     THEN /\ has' = [has EXCEPT ![p] = client[s]]
          /\ Goto(p, "write")
          /\ UNCHANGED <<connecting, at>>
     ELSE Return(p)
  /\ UNCHANGED <<bindVars, managerVars, config, client, slotLock, conn, localVars>>

\* Otherwise it dials, keeping the lock.
Dial(p) ==
  LET s == at[p] IN
  /\ pc[p] = "get" /\ slotLock[s] = Null
  /\ client[s] = Null /\ config[s]
  /\ slotLock' = [slotLock EXCEPT ![s] = p]
  /\ Goto(p, "dial")
  /\ UNCHANGED <<bindVars, managerVars, config, client, connecting, connected, conn, at,
                 has, localVars>>

\* dialDERP as far as the TLS handshake, which the context cancels.
Handshake(p) ==
  /\ pc[p] = "dial" /\ Live(p)
  /\ Goto(p, "upgrade")
  /\ UNCHANGED <<bindVars, managerVars, slotVars, conn, at, has, localVars>>

\* Mutant: the slot stays locked when the dial fails.
Locked(s) == slotLock

Unlocked(s) == [slotLock EXCEPT ![s] = Null]

\* dialDERP fails, at any stage, and closes what it has opened.
DialFails(p) ==
  /\ pc[p] \in {"dial", "upgrade"}
  /\ slotLock' = Unlocked(at[p])
  /\ Return(p)
  /\ UNCHANGED <<bindVars, managerVars, config, client, connected, conn, localVars>>

\* The rest of dialDERP looks at deadlines only.  The reader starts.
Connect(p, c) ==
  LET s == at[p] IN
  /\ pc[p] = "upgrade" /\ conn[c] = "none"
  /\ conn' = [conn EXCEPT ![c] = "open"]
  /\ client' = [client EXCEPT ![s] = c]
  /\ connected' = [connected EXCEPT ![s] = TRUE]
  /\ slotLock' = [slotLock EXCEPT ![s] = Null]
  /\ pc' = [pc EXCEPT ![c] = "read", ![p] = IF p \in Senders THEN "write" ELSE "idle"]
  /\ at' = [at EXCEPT ![c] = s, ![p] = IF p \in Senders THEN s ELSE Null]
  /\ has' = [has EXCEPT ![c] = c, ![p] = IF p \in Senders THEN c ELSE Null]
  /\ connecting' = IF p \in Workers THEN [connecting EXCEPT ![s] = FALSE] ELSE connecting
  /\ UNCHANGED <<bindVars, managerVars, config, localVars>>

\* client.send succeeds.
Write(p) ==
  /\ pc[p] = "write" /\ conn[has[p]] = "open"
  /\ Leave(p, "idle")
  /\ UNCHANGED <<bindVars, managerVars, slotVars, conn, localVars>>

\* client.send fails, or the reader's connection does: both call clear.
Fail(p) ==
  /\ pc[p] \in {"write", "read"}
  /\ Goto(p, "clear")
  /\ UNCHANGED <<bindVars, managerVars, slotVars, conn, at, has, localVars>>

-----------------------------------------------------------------------------
(* clear(expected), by senders, readers, and with nil by the closer.       *)

AfterClear(p) ==
  IF p = Closer THEN "visit" ELSE IF p \in Clients THEN "done" ELSE "idle"

Disconnected(s) == [connected EXCEPT ![s] = FALSE]

\* The early return unlocks the slot.
DropLock(p) == slotLock

Clear(p) ==
  LET s == at[p] IN
  /\ pc[p] = "clear" /\ slotLock[s] = Null
  /\ IF has[p] # Null /\ client[s] # has[p]
     THEN /\ Leave(p, AfterClear(p))
          /\ slotLock' = DropLock(p)
          /\ UNCHANGED <<client, connected>>
     ELSE /\ client' = [client EXCEPT ![s] = Null]
          /\ connected' = Disconnected(s)
          /\ UNCHANGED slotLock
          /\ IF client[s] = Null
             THEN Leave(p, AfterClear(p))
             ELSE /\ has' = [has EXCEPT ![p] = client[s]]
                  /\ Goto(p, "close")
                  /\ UNCHANGED at
  /\ UNCHANGED <<bindVars, managerVars, config, connecting, conn, localVars>>

\* client.close, after the slot is unlocked.
CloseConn(p) ==
  /\ pc[p] = "close"
  /\ conn' = [conn EXCEPT ![has[p]] = "closed"]
  /\ Leave(p, AfterClear(p))
  /\ UNCHANGED <<bindVars, managerVars, slotVars, localVars>>

-----------------------------------------------------------------------------
(* UpdateDERPMap and updateMap.                                            *)

Updating == {p \in Updaters : pc[p] # "idle"}

\* The map loop (applyMapResponse) takes a new map from the control server, or
\* onDERPLatency the one the client has, and calls Bind.UpdateDERPMap.
TakeMap(p, v) ==
  /\ p \in Updaters /\ pc[p] = "idle"
  /\ IF v = cmap THEN UNCHANGED maps ELSE maps < MaxMaps /\ maps' = maps + 1
  /\ cmap' = v
  /\ want' = [want EXCEPT ![p] = v]
  /\ crossed' = (crossed \/ Updating # {})
  /\ Goto(p, "collect")
  /\ UNCHANGED <<bmap, open, gen, managerVars, slotVars, conn, at, has, ctx, todo>>

\* Mutant: nothing to do while the bind is closed.
OpenAndChanged(p) == open /\ bmap # want[p]

Changed(p) == bmap # want[p]

\* Its first critical section; an unchanged map with an unchanged home region,
\* which is left out, ends it.
UpdateDERPMap(p) ==
  /\ p \in Updaters /\ pc[p] = "collect"
  /\ bmap' = want[p]
  /\ Goto(p, "lock") \/ (~Changed(p) /\ Goto(p, "idle"))
  /\ UNCHANGED <<cmap, maps, open, gen, managerVars, slotVars, conn, at, has, localVars>>

\* updateMap takes the manager's lock and keeps it over the slots'.
LockMap(p) ==
  /\ p \in Updaters /\ pc[p] = "lock" /\ mapLock = Null
  /\ IF closed
     THEN Goto(p, "idle") /\ UNCHANGED <<mapv, mapLock, todo>>
     ELSE /\ mapLock' = p /\ mapv' = want[p]
          /\ todo' = [todo EXCEPT ![p] = InUse]
          /\ Goto(p, "visit")
  /\ UNCHANGED <<bindVars, closed, slots, made, slotVars, conn, at, has, ctx, want, crossed>>

\* Mutant: the client of the slot is dropped, not closed.
Dropped(s) == conn

ClosedOf(s) == [c \in Clients |-> IF c = client[s] THEN "closed" ELSE conn[c]]

Deleted(s) == [r \in Regions |-> IF slots[r] = s THEN Null ELSE slots[r]]

\* The slot of a removed region loses its client, its config and its place.
UpdateSlot(p, s) ==
  LET removed == \A r \in Regions : slots[r] = s => r \notin mapv IN
  /\ p \in Updaters /\ pc[p] = "visit" /\ s \in todo[p] /\ slotLock[s] = Null
  /\ config' = [config EXCEPT ![s] = ~removed]
  /\ IF removed
     THEN /\ conn' = ClosedOf(s)
          /\ client' = [client EXCEPT ![s] = Null]
          /\ connected' = [connected EXCEPT ![s] = @ /\ client[s] = Null]
          /\ slots' = Deleted(s)
     ELSE UNCHANGED <<conn, client, connected, slots>>
  /\ todo' = [todo EXCEPT ![p] = @ \ {s}]
  /\ UNCHANGED <<bindVars, closed, mapv, mapLock, made, connecting, slotLock, pc, at, has,
                 ctx, want, crossed>>

\* Then ensureAsync for the home region, if there is one.
UnlockMap(p) ==
  /\ p \in Updaters /\ pc[p] = "visit" /\ todo[p] = {}
  /\ mapLock' = Null
  /\ Goto(p, "lookup") \/ Goto(p, "idle")
  /\ UNCHANGED <<bindVars, closed, mapv, slots, made, slotVars, conn, at, has, localVars>>

-----------------------------------------------------------------------------
(* Bind.Open, Close and Shutdown.                                          *)

Open ==
  /\ pc[Closer] = "idle" /\ ~open /\ gen < MaxGen
  /\ open' = TRUE /\ gen' = gen + 1
  /\ UNCHANGED <<cmap, maps, bmap, managerVars, slotVars, conn, pc, at, has, localVars>>

\* Close cancels b.ctx and goes on to closeConnections.
Close ==
  /\ pc[Closer] = "idle" /\ open
  /\ open' = FALSE
  /\ Goto(Closer, "collect")
  /\ UNCHANGED <<cmap, maps, bmap, gen, managerVars, slotVars, conn, at, has, localVars>>

CloseConnections ==
  /\ pc[Closer] = "collect" /\ mapLock = Null
  /\ todo' = [todo EXCEPT ![Closer] = InUse]
  /\ Goto(Closer, "visit")
  /\ UNCHANGED <<bindVars, managerVars, slotVars, conn, at, has, ctx, want, crossed>>

VisitSlot(s) ==
  /\ pc[Closer] = "visit" /\ s \in todo[Closer]
  /\ at' = [at EXCEPT ![Closer] = s] /\ has' = [has EXCEPT ![Closer] = Null]
  /\ todo' = [todo EXCEPT ![Closer] = @ \ {s}]
  /\ Goto(Closer, "clear")
  /\ UNCHANGED <<bindVars, managerVars, slotVars, conn, ctx, want, crossed>>

\* closeConnections returns; so does close, and with it Shutdown.
Visited ==
  /\ pc[Closer] = "visit" /\ todo[Closer] = {}
  /\ Goto(Closer, IF closed THEN "done" ELSE "idle")
  /\ UNCHANGED <<bindVars, managerVars, slotVars, conn, at, has, localVars>>

\* Shutdown has closed the bind and goes on to derpManager.close.
Shutdown ==
  /\ pc[Closer] = "idle" /\ ~open
  /\ Goto(Closer, "stop")
  /\ UNCHANGED <<bindVars, managerVars, slotVars, conn, at, has, localVars>>

\* derpManager.close cancels the manager's context too.
Stop ==
  /\ pc[Closer] = "stop" /\ mapLock = Null
  /\ closed' = TRUE
  /\ todo' = [todo EXCEPT ![Closer] = InUse]
  /\ Goto(Closer, "visit")
  /\ UNCHANGED <<bindVars, mapv, slots, mapLock, made, slotVars, conn, at, has, ctx, want,
                 crossed>>

-----------------------------------------------------------------------------
Init ==
  /\ cmap = {} /\ maps = 0 /\ bmap = {} /\ open = FALSE /\ gen = 0
  /\ closed = FALSE /\ mapv = {} /\ slots = [r \in Regions |-> Null] /\ mapLock = Null
  /\ made = {} /\ config = [s \in Slots |-> FALSE] /\ client = [s \in Slots |-> Null]
  /\ connecting = [s \in Slots |-> FALSE] /\ connected = [s \in Slots |-> FALSE]
  /\ slotLock = [s \in Slots |-> Null] /\ conn = [c \in Clients |-> "none"]
  /\ pc = [p \in Procs |-> "idle"] /\ at = [p \in Procs |-> Null]
  /\ has = [p \in Procs |-> Null] /\ ctx = [p \in Senders |-> 0]
  /\ want = [p \in Updaters |-> {}] /\ todo = [p \in Updaters \cup {Closer} |-> {}]
  /\ crossed = FALSE

\* What a goroutine does once it has begun.
Step(p) ==
  \/ NoSlot(p) \/ \E r \in Regions : FindSlot(p, r)
  \/ EnsureCAS(p) \/ EnsureLoad(p)
  \/ GetClient(p) \/ Dial(p) \/ Handshake(p) \/ DialFails(p)
  \/ \E c \in Clients : Connect(p, c)
  \/ Write(p) \/ Clear(p) \/ CloseConn(p)
  \/ Fail(p) /\ conn[has[p]] = "closed"
  \/ UpdateDERPMap(p) \/ LockMap(p) \/ \E s \in Slots : UpdateSlot(p, s) \/ UnlockMap(p)
CloserStep ==
  \/ CloseConnections \/ \E s \in Slots : VisitSlot(s) \/ Visited \/ Stop
  \/ Clear(Closer) \/ CloseConn(Closer)

Next ==
  \/ \E p \in Procs : Send(p) \/ Ensure(p) \/ Step(p) \/ Fail(p)
  \/ \E p \in Updaters, v \in SUBSET Regions : TakeMap(p, v)
  \/ Open \/ Close \/ Shutdown \/ CloserStep

Spec == Init /\ [][Next]_vars

\* Goroutines are scheduled, dials end by their timeouts, and a mutex is not
\* withheld for ever from one that waits for it.
Fairness == \A p \in Procs : SF_vars(IF p = Closer THEN CloserStep ELSE Step(p))
FairSpec == Spec /\ Fairness

-----------------------------------------------------------------------------
(* Properties.                                                             *)

\* No connection is lost: an open one is the client of a slot the manager has,
\* or some goroutine has unlinked it and is about to close it.
NoConnectionLeak ==
  \A c \in Clients : conn[c] = "open" =>
    \/ \E s \in InUse : client[s] = c
    \/ \E p \in Procs : pc[p] = "close" /\ has[p] = c

\* When Shutdown has returned no slot has a client, and none will get one,
\* although senders and background goroutines may still hold its slots.
NothingAfterShutdown ==
  pc[Closer] = "done" => \A s \in Slots : client[s] = Null

\* ensureAsync reads connected without the lock: outside critical sections the
\* flag agrees with the client, so a lost connection is always noticed.
FlagAgrees ==
  \A s \in Slots : slotLock[s] = Null => (connected[s] <=> client[s] # Null)

\* ensureAsync coalesces: no two of its goroutines connect one slot.
OneAttempt ==
  \A v, w \in Workers : v # w /\ pc[v] # "idle" /\ pc[w] # "idle" => at[v] # at[w]

\* A region that the map lacks has no connection once updateMap has returned.
RemovedIsClosed ==
  mapLock = Null /\ ~closed => \A r \in Regions \ mapv : slots[r] = Null

\* Bind and manager end up with the client's map, unless updates overlapped:
\* onDERPLatency and the map loop take the map and install it in two steps.
MapsAgree ==
  Updating = {} /\ ~crossed => bmap = cmap /\ (mapv = bmap \/ closed)

\* A connection lives as long as its slot, its region in the map and the manager.
ConnectionsOwned == NoConnectionLeak /\ NothingAfterShutdown /\ RemovedIsClosed

\* A slot is connected in the background when it has lost its connection, and
\* then by one goroutine at a time.
AttemptsCoalesced == FlagAgrees /\ OneAttempt

\* Shutdown returns, whoever dials, sends or updates the map.
ShutdownReturns == pc[Closer] = "stop" ~> pc[Closer] = "done"

\* The reader of a connection that was closed ends.
ReaderEnds == \A c \in Clients : conn[c] = "closed" ~> pc[c] = "done"

\* The flag that suppresses connection attempts is always reset.
AttemptEnds == \A s \in Slots : connecting[s] ~> ~connecting[s]

\* Nobody waits for ever on the locks that are held across dials.
NothingWaits == ShutdownReturns /\ ReaderEnds /\ AttemptEnds
-----------------------------------------------------------------------------
(* The inductive invariant.                                                *)

\* Where the goroutines of each kind can be.
PlaceInv ==
  /\ \A p \in Senders : pc[p] \in {"idle", "lookup", "get", "dial", "upgrade", "write",
                                   "clear", "close"}
  /\ \A p \in Ensurers : pc[p] \in {"idle", "lookup", "cas", "load"}
  /\ \A p \in Updaters : pc[p] \in {"idle", "collect", "lock", "visit", "lookup", "cas",
                                    "load"}
  /\ \A p \in Workers : pc[p] \in {"idle", "get", "dial", "upgrade"}
  /\ \A p \in Clients : pc[p] \in {"idle", "read", "clear", "close", "done"}
  /\ pc[Closer] \in {"idle", "collect", "visit", "clear", "close", "stop", "done"}

\* What they have there; a reader starts with its connection.
HoldInv ==
  /\ \A p \in Procs :
       pc[p] \in {"get", "dial", "upgrade", "write", "clear", "close", "cas", "load", "read"}
         => at[p] \in Slots
  /\ pc[Closer] = "clear" => has[Closer] = Null
  /\ \A c \in Clients : conn[c] = "none" => pc[c] = "idle"

Dialling(p) == pc[p] \in {"dial", "upgrade"}

\* A lock is held across steps by the goroutine that dials, or updates the map.
MutexInv ==
  /\ \A p \in Procs : Dialling(p) => slotLock[at[p]] = p
  /\ \A s \in Slots : slotLock[s] # Null =>
       /\ Dialling(slotLock[s]) /\ at[slotLock[s]] = s
       /\ client[s] = Null /\ config[s]
  /\ \A p \in Updaters : pc[p] = "visit" <=> mapLock = p
  /\ closed => mapLock = Null

\* A slot belongs to one region; one without a region has neither config nor
\* client, so that nobody dials for it.
SlotInv ==
  /\ \A r \in Regions : slots[r] # Null => slots[r] \in made
  /\ \A q, r \in Regions : slots[q] = slots[r] /\ slots[q] # Null => q = r
  /\ \A s \in Slots : config[s] \/ client[s] # Null => s \in InUse
  /\ \A s \in Slots : connected[s] <=> client[s] # Null

\* A removed region keeps its slot only until updateMap has visited it.
RemovalInv ==
  \A r \in Regions \ mapv : slots[r] # Null => mapLock # Null /\ slots[r] \in todo[mapLock]

\* Once the manager is closed, whoever has or may still get a client is ahead of
\* the closer; a dial that is past its context counts.
StopInv ==
  /\ pc[Closer] = "stop" \/ closed => ~open
  /\ closed => pc[Closer] \in {"visit", "clear", "close", "done"}
  /\ pc[Closer] = "done" => closed /\ todo[Closer] = {}
  /\ closed => \A s \in Slots :
       client[s] # Null \/ (\E p \in Procs : pc[p] = "upgrade" /\ at[p] = s) =>
         s \in todo[Closer] \/ (pc[Closer] = "clear" /\ at[Closer] = s)

\* connecting is a token: it is with the goroutine that has swapped it, or with
\* the one that it started.
HasToken(p, s) ==
  (pc[p] = "load" \/ (p \in Workers /\ pc[p] # "idle")) /\ at[p] = s

TokenInv ==
  \A s \in Slots :
    /\ \A p \in Procs : HasToken(p, s) => connecting[s]
    /\ \A p, q \in Procs : HasToken(p, s) /\ HasToken(q, s) => p = q

\* Updates that do not overlap carry the client's map through the bind to the
\* manager.
UpdateInv ==
  ~crossed =>
    /\ \A p, q \in Updating : p = q
    /\ \A p \in Updating : want[p] = cmap
    /\ (\A p \in Updaters : pc[p] # "collect") => bmap = cmap
    /\ (\A p \in Updaters : pc[p] # "lock") => mapv = bmap \/ closed

\* The part that is inductive by itself, and the rest.
DerpBase == TypeOK /\ PlaceInv /\ HoldInv /\ MutexInv /\ SlotInv
DerpInv ==
  DerpBase /\ RemovalInv /\ StopInv /\ TokenInv /\ UpdateInv /\ NoConnectionLeak
=============================================================================

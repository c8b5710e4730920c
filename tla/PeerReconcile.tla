---------------------------- MODULE PeerReconcile ----------------------------
(***************************************************************************)
(* Peer reconciliation of Client: how the control server's peers reach the *)
(* wgo device and the tailnet bind, who may call reconcilePeers when, and  *)
(* how attachment, device closure and Close interleave with it             *)
(* (map.go, client.go, device.go, confirmation.go).                        *)
(*                                                                         *)
(* reconcilePeers holds deviceMu (read) and reconcileMu from start to end, *)
(* and c.mu only around its bookkeeping, so a session is several steps:    *)
(* one snapshot, then for every key one read of the device's spec and one  *)
(* write, then the final cleanup.  Holders of deviceMu for writing         *)
(* (AttachDevice, the device watcher) are one step each and need the       *)
(* session to be over.                                                     *)
(***************************************************************************)
EXTENDS Integers, FiniteSets

CONSTANTS
  NodeIDs,        \* control node IDs, also used as the stable peer ID
  Keys,           \* node public keys
  Addrs,          \* UDP addresses
  Nodes,          \* the control nodes a map response may carry
  ForeignSpecs,   \* the specs another controller may write
  PathUpdates,    \* the path updates the bind may report
  ConfirmPeers,   \* Options.ConfirmPeers
  UseDefault,     \* Options.UseDefaultTransportForDirectPeers
  Callers,        \* the callers of reconcilePeers in this instance
  MaxDev,         \* bound on the number of device attachments
  Null            \* absent node, key, address, spec or endpoint

AllCallers == {"map", "worker", "confirm", "latency", "attach"}
Workers == {"map", "worker", "health"}        \* launchRuntimeLocked, in c.wg

(***************************************************************************)
(* A peer endpoint is the logical node key on this client's transport, or  *)
(* a UDP address on wgo's default transport.                               *)
(***************************************************************************)
Logical(k) == [transport |-> "tailscale", address |-> k]
Direct(a) == [transport |-> "default", address |-> a]
Endpoints == {Logical(k) : k \in Keys} \cup {Direct(a) : a \in Addrs}
Bodies == [endpoint : Endpoints, ips : {n.ips : n \in Nodes}]
OwnSpecs == [body : Bodies, by : {"us"}]
Specs == OwnSpecs \cup ForeignSpecs \cup {Null}

PathStates == [kind : {"none", "derp", "direct"}, direct : Addrs \cup {Null},
               recovery : BOOLEAN, recoveryDirect : Addrs \cup {Null}]
NoPath == [kind |-> "none", direct |-> Null,
           recovery |-> FALSE, recoveryDirect |-> Null]

ASSUME ReconcileConstants ==
  /\ Null \notin NodeIDs \cup Keys \cup Addrs \cup Nodes
  /\ Nodes \subseteq [ips : {n.ips : n \in Nodes}, key : Keys,
                      static : Addrs \cup {Null}, usable : BOOLEAN]
  /\ Null \notin OwnSpecs \cup Bodies \cup Endpoints
  /\ Null \notin ForeignSpecs
  /\ ForeignSpecs \subseteq
       [body : [endpoint : Endpoints \cup {Null},
                ips : {s.body.ips : s \in ForeignSpecs}],
        by : {"other"}]
  /\ PathUpdates \subseteq [kind : {"derp", "direct"}, direct : Addrs \cup {Null}]
  /\ ConfirmPeers \in BOOLEAN /\ UseDefault \in BOOLEAN
  /\ Callers \subseteq AllCallers
  /\ MaxDev \in Nat \ {0}

VARIABLES
  peers, confirmed,       \* c.peers by node ID, c.confirmed
  applied,                \* c.applied: endpoint last written for each key
  local, published,       \* keys with a peerLocal entry; those with .applied
  failed, path,           \* those with .err; their path fields
  bindPeers,              \* keys configured in the tailnet bind
  wake,                   \* a token in c.reconcileWake
  dev, open, specs,       \* attachment generation, API usable, its specs
  transport, watch,       \* tracked transport installed; device watchers
  phase, closed, ctxDone, \* progress of Close, c.closed, context cancelled
  accepting,              \* c.state is neither Stopping nor Stopped
  closeErr, alive,        \* Close's cleanup error; live workers of c.wg
  pc,                     \* in reconcilePeers: call, wait (deviceMu), in
  stage, todo, cur, seen, \* the session under reconcileMu
  desired, owned,         \* its snapshots of the wanted and applied peers
  late                    \* history: a session began after the cleanup

viewVars == <<peers, confirmed>>
peerVars == <<applied, local, published, failed, path, bindPeers>>
devVars  == <<dev, open, specs, transport, watch>>
lifeVars == <<phase, closed, ctxDone, accepting, closeErr, alive>>
sessVars == <<stage, todo, cur, seen, desired, owned>>
vars == <<viewVars, peerVars, wake, devVars, lifeVars, pc, sessVars, late>>

TypeOK ==
  /\ peers \in [NodeIDs -> Nodes \cup {Null}]
  /\ confirmed \in SUBSET NodeIDs
  /\ applied \in [Keys -> Endpoints \cup {Null}]
  /\ local \in SUBSET Keys /\ published \in SUBSET Keys
  /\ failed \in SUBSET Keys /\ bindPeers \in SUBSET Keys
  /\ path \in [Keys -> PathStates]
  /\ wake \in BOOLEAN
  /\ dev \in 1..MaxDev /\ open \in BOOLEAN /\ transport \in BOOLEAN
  /\ specs \in [Keys -> Specs]
  /\ watch \in SUBSET (1..MaxDev)
  /\ phase \in {"live", "stopping", "released", "stopped"}
  /\ closed \in BOOLEAN /\ ctxDone \in BOOLEAN /\ closeErr \in BOOLEAN
  /\ accepting \in BOOLEAN
  /\ alive \in SUBSET Workers
  /\ pc \in [Callers -> {"idle", "call", "wait", "in"}]
  /\ stage \in {"none", "remove", "apply", "close"}
  /\ todo \in SUBSET Keys /\ cur \in Keys \cup {Null}
  /\ seen \in Specs
  /\ desired \in [Keys -> Bodies \cup {Null}]
  /\ owned \in [Keys -> Endpoints \cup {Null}]
  /\ late \in BOOLEAN

AppliedKeys == {k \in Keys : applied[k] # Null}

-----------------------------------------------------------------------------
(***************************************************************************)
(* The desired peers: control nodes that are usable (a key, not expired,   *)
(* not peer-API only) and confirmed, with the endpoint peerEndpoint picks  *)
(* from the path state read in the same critical section.  node.static is  *)
(* firstUsableEndpoint of a WireGuard-only or DERP-less peer.              *)
(***************************************************************************)
Admitted(n) ==
  /\ peers[n] # Null
  /\ peers[n].usable
  /\ ConfirmPeers => n \in confirmed

PeerEndpoint(node) ==
  LET p == path[node.key] IN
  IF UseDefault /\ ~p.recovery /\ p.kind = "direct" /\ p.direct # Null
  THEN Direct(p.direct)
  ELSE IF UseDefault /\ ~p.recovery /\ node.static # Null
       THEN Direct(node.static)
       ELSE Logical(node.key)

Wanted(k) == {[endpoint |-> PeerEndpoint(peers[n]), ips |-> peers[n].ips] :
                n \in {m \in NodeIDs : Admitted(m) /\ peers[m].key = k}}

Snapshot(d) == \A k \in Keys : IF Wanted(k) = {} THEN d[k] = Null
                                                 ELSE d[k] \in Wanted(k)

\* peerSpecStillOwned: only the endpoint tells whose spec it is.
StillOwned(spec, endpoint) == spec.body.endpoint = endpoint

Forget(ks) ==                        \* delete(c.peerLocal, key) for key in ks
  /\ local' = local \ ks
  /\ published' = published \ ks
  /\ failed' = failed \ ks
  /\ path' = [k \in Keys |-> IF k \in ks THEN NoPath ELSE path[k]]

SetPeerError(k) ==
  /\ local' = local \cup {k}
  /\ failed' = failed \cup {k}

-----------------------------------------------------------------------------
(* Callers of reconcilePeers and the state changes that make them call it. *)

Become(c, from, to) ==
  c \in Callers /\ pc[c] = from /\ pc' = [pc EXCEPT ![c] = to]

\* applyMapResponse, its peer part: any full or delta update of c.peers.
ApplyMapResponse(next) ==
  /\ "map" \in alive
  /\ Become("map", "idle", "call")
  /\ peers' = next
  /\ UNCHANGED <<confirmed, peerVars, wake, devVars, lifeVars, sessVars, late>>

ConfirmPeer(n) ==
  /\ accepting
  /\ peers[n] # Null
  /\ Become("confirm", "idle", "call")
  /\ confirmed' = confirmed \cup {n}
  /\ UNCHANGED <<peers, peerVars, wake, devVars, lifeVars, sessVars, late>>

RevokePeerConfirmation(n) ==
  /\ accepting
  /\ n \in confirmed
  /\ Become("confirm", "idle", "call")
  /\ confirmed' = confirmed \ {n}
  /\ UNCHANGED <<peers, peerVars, wake, devVars, lifeVars, sessVars, late>>

\* onDERPLatency moved the home region: it runs in a goroutine of the bind.
OnDERPLatency ==
  /\ accepting
  /\ Become("latency", "idle", "call")
  /\ UNCHANGED <<viewVars, peerVars, wake, devVars, lifeVars, sessVars, late>>

\* Mutants of OnPath: no wake-up of the reconciler; a recovery mark that
\* outlives the address it was set for.
OnPathEffect(k, u, wakes, keep) ==
  /\ accepting
  /\ k \in local \/ \E n \in NodeIDs : peers[n] # Null /\ peers[n].key = k
  /\ path[k].kind # u.kind \/ path[k].direct # u.direct
  /\ local' = local \cup {k}
  /\ path' = [path EXCEPT ![k] =
       [kind |-> u.kind, direct |-> u.direct,
        recovery |-> keep /\ path[k].recovery,
        recoveryDirect |-> IF keep THEN path[k].recoveryDirect ELSE Null]]
  /\ wake' = (wake \/ wakes)
  /\ UNCHANGED <<viewVars, applied, published, failed, bindPeers, devVars,
                 lifeVars, pc, sessVars, late>>
OnPathNoWake(k, u) == OnPathEffect(k, u, FALSE, FALSE)
OnPathKeepsRecovery(k, u) == OnPathEffect(k, u, UseDefault, TRUE)

\* onPath, called back by the bind with a new path for key k.
OnPath(k, u) ==
  LET p == path[k]
      moved == p.kind # u.kind \/ p.direct # u.direct
      keep == u.kind = "direct" /\ u.direct = p.recoveryDirect
  IN
  /\ accepting
  /\ k \in local \/ \E n \in NodeIDs : peers[n] # Null /\ peers[n].key = k
  /\ moved
  /\ local' = local \cup {k}
  /\ path' = [path EXCEPT ![k] =
       [kind |-> u.kind, direct |-> u.direct,
        recovery |-> keep /\ p.recovery,
        recoveryDirect |-> IF keep THEN p.recoveryDirect ELSE Null]]
  /\ wake' = (wake \/ UseDefault)
  /\ UNCHANGED <<viewVars, applied, published, failed, bindPeers, devVars,
                 lifeVars, pc, sessVars, late>>

\* recoverStaleDirectPaths: which stale peers are past the grace period and
\* not connected is the device's and the clock's choice.
StaleDirect == {k \in published :
  /\ path[k].kind = "direct" /\ path[k].direct # Null /\ ~path[k].recovery
  /\ applied[k] = Direct(path[k].direct)
  /\ specs[k] # Null}

RecoverStaleDirectPaths(ks) ==
  /\ "health" \in alive /\ UseDefault
  /\ open
  /\ ks # {} /\ ks \subseteq StaleDirect
  /\ path' = [k \in Keys |->
       IF k \in ks THEN [kind |-> "direct", direct |-> path[k].direct,
                         recovery |-> TRUE, recoveryDirect |-> path[k].direct]
                   ELSE path[k]]
  /\ wake' = TRUE
  /\ UNCHANGED <<viewVars, applied, local, published, failed, bindPeers,
                 devVars, lifeVars, pc, sessVars, late>>

\* peerReconciler takes the coalesced wake-up.
PeerReconciler ==
  /\ "worker" \in alive
  /\ wake
  /\ wake' = FALSE
  /\ Become("worker", "idle", "call")
  /\ UNCHANGED <<viewVars, peerVars, devVars, lifeVars, sessVars, late>>

-----------------------------------------------------------------------------
(* reconcilePeers, step by step.                                           *)

\* Nothing to do on a closed API.
ReconcileSkip(c) ==
  /\ ~open
  /\ Become(c, "call", "idle")
  /\ UNCHANGED <<viewVars, peerVars, wake, devVars, lifeVars, sessVars, late>>

\* A usable API: deviceMu is held for reading while reconcileMu is awaited.
ReconcileStart(c) ==
  /\ open
  /\ Become(c, "call", "wait")
  /\ UNCHANGED <<viewVars, peerVars, wake, devVars, lifeVars, sessVars, late>>

ReconcileBegin(c) ==
  /\ stage = "none"
  /\ Become(c, "wait", "in")
  /\ desired' \in {d \in [Keys -> Bodies \cup {Null}] : Snapshot(d)}
  /\ owned' = applied
  /\ stage' = "remove"
  /\ todo' = {k \in AppliedKeys : desired'[k] = Null}
  /\ late' = (late \/ phase \in {"released", "stopped"})
  /\ UNCHANGED <<viewVars, peerVars, wake, devVars, lifeVars, cur, seen>>

\* api.PeerSpec of an applied key that is no longer wanted.
RemoveCheck(k) ==
  /\ stage \in {"remove", "close"} /\ cur = Null /\ k \in todo
  /\ cur' = k
  /\ seen' = specs[k]
  /\ UNCHANGED <<viewVars, peerVars, wake, devVars, lifeVars, pc, stage, todo,
                 desired, owned, late>>

\* Mutant: the peer is deleted whoever wrote its spec.
DeletesAny(k) == TRUE

MayDelete(k) == seen # Null => StillOwned(seen, owned[k])

RemoveDone ==
  /\ cur' = Null
  /\ seen' = Null
  /\ todo' = todo \ {cur}
  /\ UNCHANGED <<viewVars, wake, dev, open, transport, watch, phase, closed,
                 ctxDone, accepting, alive, pc, stage, desired, owned, late>>

\* DeleteTrackedPeer failed: the peer stays applied for a later attempt.
RemoveFails ==
  /\ stage = "remove" /\ cur # Null /\ MayDelete(cur)
  /\ SetPeerError(cur)
  /\ RemoveDone
  /\ UNCHANGED <<applied, published, path, bindPeers, specs, closeErr>>

RemoveSucceeds ==
  /\ stage = "remove" /\ cur # Null
  /\ MayDelete(cur) => open
  /\ specs' = IF MayDelete(cur) THEN [specs EXCEPT ![cur] = Null] ELSE specs
  /\ bindPeers' = bindPeers \ {cur}
  /\ applied' = [applied EXCEPT ![cur] = Null]
  /\ Forget({cur})
  /\ RemoveDone
  /\ UNCHANGED closeErr

RemoveFinish ==
  /\ stage = "remove" /\ cur = Null /\ todo = {}
  /\ stage' = "apply"
  /\ todo' = {k \in Keys : desired[k] # Null}
  /\ UNCHANGED <<viewVars, peerVars, wake, devVars, lifeVars, pc, cur, seen,
                 desired, owned, late>>

\* Another controller replaced the spec this client had written.
ApplyStolen(k) ==
  /\ stage = "apply" /\ cur = Null /\ k \in todo
  /\ owned[k] # Null /\ specs[k] # Null /\ ~StillOwned(specs[k], owned[k])
  /\ applied' = [applied EXCEPT ![k] = Null]
  /\ published' = published \ {k}
  /\ bindPeers' = bindPeers \ {k}
  /\ SetPeerError(k)
  /\ todo' = todo \ {k}
  /\ UNCHANGED <<viewVars, path, wake, devVars, lifeVars, pc, stage, cur, seen,
                 desired, owned, late>>

\* The key already has a spec on another transport: ErrPeerConflict.
ApplyConflict(k) ==
  /\ stage = "apply" /\ cur = Null /\ k \in todo
  /\ owned[k] = Null /\ specs[k] # Null
  /\ specs[k].body.endpoint # Null
       => specs[k].body.endpoint.transport # "tailscale"
  /\ SetPeerError(k)
  /\ todo' = todo \ {k}
  /\ UNCHANGED <<viewVars, applied, published, path, bindPeers, wake, devVars,
                 lifeVars, pc, stage, cur, seen, desired, owned, late>>

ApplyCheck(k) ==
  /\ stage = "apply" /\ cur = Null /\ k \in todo
  /\ specs[k] # Null =>
       IF owned[k] # Null THEN StillOwned(specs[k], owned[k])
       ELSE /\ specs[k].body.endpoint # Null
            /\ specs[k].body.endpoint.transport = "tailscale"
  /\ cur' = k
  /\ seen' = specs[k]
  /\ UNCHANGED <<viewVars, peerVars, wake, devVars, lifeVars, pc, stage, todo,
                 desired, owned, late>>

NeedsUpsert(k) == owned[k] # Null /\ seen # Null => seen.body # desired[k]

ApplyDone ==
  /\ cur' = Null
  /\ seen' = Null
  /\ todo' = todo \ {cur}
  /\ UNCHANGED <<viewVars, wake, dev, open, transport, watch, lifeVars, pc,
                 stage, desired, owned, late>>

\* Mutant: a failed upsert leaves the new peer in the bind.
ApplyFailsKeepsBind ==
  /\ stage = "apply" /\ cur # Null /\ NeedsUpsert(cur)
  /\ bindPeers' = bindPeers \cup {cur}
  /\ SetPeerError(cur)
  /\ ApplyDone
  /\ UNCHANGED <<applied, published, path, specs>>

\* UpsertTrackedPeer failed; bind.UpdatePeer is undone for a new peer only.
ApplyFails ==
  /\ stage = "apply" /\ cur # Null /\ NeedsUpsert(cur)
  /\ bindPeers' = IF owned[cur] = Null THEN bindPeers \ {cur}
                                       ELSE bindPeers \cup {cur}
  /\ SetPeerError(cur)
  /\ ApplyDone
  /\ UNCHANGED <<applied, published, path, specs>>

ApplySucceeds ==
  /\ stage = "apply" /\ cur # Null
  /\ NeedsUpsert(cur) => open
  /\ specs' = IF NeedsUpsert(cur)
              THEN [specs EXCEPT ![cur] = [body |-> desired[cur], by |-> "us"]]
              ELSE specs
  /\ bindPeers' = bindPeers \cup {cur}
  /\ applied' = [applied EXCEPT ![cur] = desired[cur].endpoint]
  /\ local' = local \cup {cur}
  /\ published' = published \cup {cur}
  /\ failed' = failed \ {cur}
  /\ ApplyDone
  /\ UNCHANGED path

\* The locks are released and the locals are gone.
SessionOver ==
  /\ stage' = "none"
  /\ desired' = [k \in Keys |-> Null]
  /\ owned' = [k \in Keys |-> Null]
  /\ UNCHANGED <<todo, cur, seen>>

ReconcileEnd(c) ==
  /\ stage = "apply" /\ cur = Null /\ todo = {}
  /\ Become(c, "in", "idle")
  /\ Forget({k \in Keys : desired[k] = Null /\ applied[k] = Null})
  /\ SessionOver
  /\ UNCHANGED <<viewVars, applied, bindPeers, wake, devVars, lifeVars, late>>

-----------------------------------------------------------------------------
(* The device API.                                                         *)

\* deviceMu can be taken for writing.
DeviceUnlocked ==
  /\ stage = "none"
  /\ \A c \in Callers : pc[c] \notin {"wait", "in"}

\* clearAppliedDeviceLocked: recovery marks survive, paths do not.
ClearAppliedDevice ==
  /\ applied' = [k \in Keys |-> Null]
  /\ published' = {}
  /\ path' = [k \in Keys |-> IF k \in local
                THEN [kind |-> "none", direct |-> Null,
                      recovery |-> path[k].recovery,
                      recoveryDirect |-> path[k].recoveryDirect]
                ELSE path[k]]
  /\ bindPeers' = bindPeers \ local
  /\ UNCHANGED <<local, failed>>

\* AttachDevice up to its reconcilePeers; lifeMu is held until that returns.
AttachDevice ==
  /\ ~closed
  /\ ~open
  /\ DeviceUnlocked
  /\ dev < MaxDev
  /\ Become("attach", "idle", "call")
  /\ ClearAppliedDevice
  /\ dev' = dev + 1
  /\ open' = TRUE
  /\ transport' = TRUE
  /\ specs' \in [Keys -> ForeignSpecs \cup {Null}]
  /\ watch' = watch \cup {dev + 1}
  /\ UNCHANGED <<viewVars, wake, lifeVars, sessVars, late>>

\* External: a closing API has released every tracked resource first.
DeviceCloses ==
  /\ open
  /\ open' = FALSE
  /\ transport' = FALSE
  /\ specs' = [k \in Keys |-> Null]
  /\ UNCHANGED <<viewVars, peerVars, wake, dev, watch, lifeVars, pc, sessVars,
                 late>>

DeviceClosed(g) == g < dev \/ ~open

\* Mutant: the watcher does not compare generations.
WatchAnyGeneration(g) ==
  /\ g \in watch /\ DeviceClosed(g)
  /\ DeviceUnlocked
  /\ ClearAppliedDevice
  /\ watch' = watch \ {g}
  /\ UNCHANGED <<viewVars, wake, dev, open, specs, transport, lifeVars, pc,
                 sessVars, late>>

\* watchDeviceLocked: the watcher of generation g saw its API close.
WatchDevice(g) ==
  /\ g \in watch /\ DeviceClosed(g)
  /\ DeviceUnlocked
  /\ IF dev = g THEN ClearAppliedDevice ELSE UNCHANGED peerVars
  /\ watch' = watch \ {g}
  /\ UNCHANGED <<viewVars, wake, dev, open, specs, transport, lifeVars, pc,
                 sessVars, late>>

WatchCancelled(g) ==
  /\ g \in watch /\ ctxDone
  /\ watch' = watch \ {g}
  /\ UNCHANGED <<viewVars, peerVars, wake, dev, open, specs, transport,
                 lifeVars, pc, sessVars, late>>

\* External: another controller of the same device writes or deletes a spec.
OtherController(k, s) ==
  /\ open
  /\ specs[k] # s
  /\ specs' = [specs EXCEPT ![k] = s]
  /\ UNCHANGED <<viewVars, peerVars, wake, dev, open, transport, watch,
                 lifeVars, pc, sessVars, late>>

-----------------------------------------------------------------------------
(* Close.                                                                  *)

CloseBegin ==
  /\ ~closed
  /\ "attach" \in Callers => pc["attach"] = "idle"      \* lifeMu is free
  /\ closed' = TRUE
  /\ phase' = "stopping"
  /\ accepting' = FALSE
  /\ UNCHANGED <<viewVars, peerVars, wake, devVars, ctxDone, closeErr, alive,
                 pc, sessVars, late>>

\* cancel(), by Close or, while the client is live, by the Start context.
ContextEnds ==
  /\ ~ctxDone
  /\ ctxDone' = TRUE
  /\ UNCHANGED <<viewVars, peerVars, wake, devVars, phase, closed, accepting,
                 closeErr, alive, pc, sessVars, late>>

\* reportError, setInteraction, setTerminalError or the end of authenticate
\* in the control goroutine assigns c.state although Close set Stopping.
ControlSetsState ==
  /\ "map" \in alive
  /\ phase = "stopping" /\ ~accepting
  /\ accepting' = TRUE
  /\ UNCHANGED <<viewVars, peerVars, wake, devVars, phase, closed, ctxDone,
                 closeErr, alive, pc, sessVars, late>>

\* Mutant: the map loop does not observe the cancelled context.
MapLoopStays(w) ==
  /\ w \in alive /\ ctxDone /\ w # "map"
  /\ w \in Callers => pc[w] = "idle"
  /\ alive' = alive \ {w}
  /\ UNCHANGED <<viewVars, peerVars, wake, devVars, phase, closed, ctxDone,
                 accepting, closeErr, pc, sessVars, late>>

\* The loops of the workers receive from ctx.Done and return.
WorkerExit(w) ==
  /\ w \in alive /\ ctxDone
  /\ w \in Callers => pc[w] = "idle"
  /\ alive' = alive \ {w}
  /\ UNCHANGED <<viewVars, peerVars, wake, devVars, phase, closed, ctxDone,
                 accepting, closeErr, pc, sessVars, late>>

\* wg.Wait returned; removeOwnedPeers takes its locks and clones c.applied.
CloseRemove ==
  /\ phase = "stopping" /\ ctxDone
  /\ alive = {} /\ watch = {}
  /\ stage = "none"
  /\ stage' = "close"
  /\ owned' = applied
  /\ todo' = AppliedKeys
  /\ UNCHANGED <<viewVars, peerVars, wake, devVars, lifeVars, pc, cur, seen,
                 desired, late>>

\* Mutant: a failed deletion is not reported by Close.
CloseIgnoresFailure(fails) ==
  /\ stage = "close" /\ cur # Null
  /\ ~fails /\ MayDelete(cur) => open
  /\ specs' = IF MayDelete(cur) /\ ~fails THEN [specs EXCEPT ![cur] = Null]
                                          ELSE specs
  /\ bindPeers' = bindPeers \ {cur}
  /\ RemoveDone
  /\ UNCHANGED <<applied, local, published, failed, path, closeErr>>

\* One key of removeOwnedPeers: ErrDeviceClosed is not reported.
CloseRemovePeer(fails) ==
  /\ stage = "close" /\ cur # Null
  /\ fails => MayDelete(cur)
  /\ ~fails /\ MayDelete(cur) => open
  /\ closeErr' = (closeErr \/ (fails /\ open))
  /\ specs' = IF MayDelete(cur) /\ ~fails THEN [specs EXCEPT ![cur] = Null]
                                          ELSE specs
  /\ bindPeers' = bindPeers \ {cur}
  /\ RemoveDone
  /\ UNCHANGED <<applied, local, published, failed, path>>

CloseForget ==
  /\ stage = "close" /\ cur = Null /\ todo = {}
  /\ applied' = [k \in Keys |-> IF owned[k] # Null THEN Null ELSE applied[k]]
  /\ Forget({k \in Keys : owned[k] # Null})
  /\ SessionOver
  /\ phase' = "released"
  /\ UNCHANGED <<viewVars, bindPeers, wake, devVars, closed, ctxDone, accepting,
                 closeErr, alive, pc, late>>

\* RemoveTrackedTransport, bind.Shutdown, StateStopped, close(done).
CloseFinish(fails) ==
  /\ phase = "released"
  /\ phase' = "stopped"
  /\ accepting' = FALSE
  /\ transport' = (transport /\ fails)
  /\ closeErr' = (closeErr \/ (fails /\ open))
  /\ UNCHANGED <<viewVars, peerVars, wake, dev, open, specs, watch, closed,
                 ctxDone, alive, pc, sessVars, late>>

-----------------------------------------------------------------------------
\* Start has launched the workers and the watcher of the first device.
Init ==
  /\ peers = [n \in NodeIDs |-> Null]
  /\ confirmed \in SUBSET NodeIDs                    \* from the cache
  /\ applied = [k \in Keys |-> Null]
  /\ local = {} /\ published = {} /\ failed = {} /\ bindPeers = {}
  /\ path = [k \in Keys |-> NoPath]
  /\ wake = FALSE
  /\ dev = 1 /\ open = TRUE /\ transport = TRUE /\ watch = {1}
  /\ specs \in [Keys -> ForeignSpecs \cup {Null}]
  /\ phase = "live" /\ closed = FALSE /\ ctxDone = FALSE /\ accepting = TRUE
  /\ closeErr = FALSE /\ alive = Workers
  /\ pc = [c \in Callers |-> "idle"]
  /\ stage = "none" /\ todo = {} /\ cur = Null /\ seen = Null
  /\ desired = [k \in Keys |-> Null] /\ owned = [k \in Keys |-> Null]
  /\ late = FALSE

Trigger ==
  \/ \E next \in [NodeIDs -> Nodes \cup {Null}] : ApplyMapResponse(next)
  \/ \E n \in NodeIDs : ConfirmPeer(n) \/ RevokePeerConfirmation(n)
  \/ OnDERPLatency
  \/ \E k \in Keys, u \in PathUpdates : OnPath(k, u)
  \/ \E ks \in SUBSET Keys : RecoverStaleDirectPaths(ks)
  \/ PeerReconciler

Session ==
  \/ \E c \in Callers : \/ ReconcileSkip(c) \/ ReconcileStart(c)
                        \/ ReconcileBegin(c) \/ ReconcileEnd(c)
  \/ \E k \in Keys : RemoveCheck(k) \/ ApplyStolen(k) \/ ApplyConflict(k)
                       \/ ApplyCheck(k)
  \/ RemoveFails \/ RemoveSucceeds \/ RemoveFinish
  \/ ApplyFails \/ ApplySucceeds

Device ==
  \/ AttachDevice
  \/ DeviceCloses
  \/ \E g \in 1..MaxDev : WatchDevice(g) \/ WatchCancelled(g)
  \/ \E k \in Keys, s \in ForeignSpecs \cup {Null} : OtherController(k, s)

Shutdown ==
  \/ CloseBegin \/ ContextEnds \/ ControlSetsState
  \/ \E w \in Workers : WorkerExit(w)
  \/ CloseRemove \/ CloseForget
  \/ \E fails \in BOOLEAN : CloseRemovePeer(fails) \/ CloseFinish(fails)

Next == Trigger \/ Session \/ Device \/ Shutdown

Spec == Init /\ [][Next]_vars

(***************************************************************************)
(* Fairness: goroutines run, device calls return, and Go's mutexes hand    *)
(* over to a starving waiter, so a caller waiting for reconcileMu gets it. *)
(***************************************************************************)
SessionStep ==
  \/ \E c \in Callers : ReconcileEnd(c)
  \/ \E k \in Keys : RemoveCheck(k) \/ ApplyStolen(k) \/ ApplyConflict(k)
                       \/ ApplyCheck(k)
  \/ RemoveFails \/ RemoveSucceeds \/ RemoveFinish
  \/ ApplyFails \/ ApplySucceeds
  \/ \E fails \in BOOLEAN : CloseRemovePeer(fails)
  \/ CloseForget

Fairness ==
  /\ WF_vars(SessionStep)
  /\ \A c \in Callers : /\ WF_vars(ReconcileStart(c) \/ ReconcileSkip(c))
                        /\ SF_vars(ReconcileBegin(c))
  /\ WF_vars(PeerReconciler)
  /\ SF_vars(\E w \in Workers : WorkerExit(w))
  /\ WF_vars(\E g \in 1..MaxDev : WatchCancelled(g))
  /\ WF_vars(closed /\ ContextEnds)
  /\ WF_vars(ctxDone /\ CloseBegin)          \* the goroutine Start spawns
  /\ SF_vars(CloseRemove)
  /\ WF_vars(\E fails \in BOOLEAN : CloseFinish(fails))

FairSpec == Spec /\ Fairness

-----------------------------------------------------------------------------
(***************************************************************************)
(* The three records of what is published agree whenever no cleanup by     *)
(* removeOwnedPeers is under way: c.applied, peerLocal[key].applied, and   *)
(* the peers admitted to the bind (so traffic is relayed for exactly the   *)
(* peers wgo was given).  reconcilePeers updates them at nine places.      *)
(***************************************************************************)
BindTracksApplied ==
  stage # "close" => /\ bindPeers = AppliedKeys
                     /\ published = AppliedKeys

(***************************************************************************)
(* When nothing is running or requested, the device holds what control and *)
(* the confirmations ask for: a wanted peer is applied or its error is     *)
(* recorded, an applied peer is wanted or its failed removal is recorded,  *)
(* and a spec this client wrote is the wanted one.  It needs every change  *)
(* of the inputs to end in a reconcilePeers that reads the newer value,    *)
(* and a stale device watcher not to clear the next device's bookkeeping.  *)
(***************************************************************************)
Quiescent == /\ phase = "live" /\ open /\ stage = "none" /\ ~wake
             /\ \A c \in Callers : pc[c] = "idle"

Settled(k) ==
  /\ Wanted(k) # {} => applied[k] # Null \/ k \in failed
  /\ applied[k] # Null => Wanted(k) # {} \/ k \in failed
  /\ /\ applied[k] # Null /\ k \notin failed
     /\ specs[k] # Null /\ specs[k].by = "us"
     => /\ specs[k].body \in Wanted(k)
        /\ applied[k] = specs[k].body.endpoint

Converged == Quiescent => \A k \in Keys : Settled(k)

(***************************************************************************)
(* A client step never deletes or overwrites a spec of another controller  *)
(* that it saw: what it changes is absent, its own, on its own transport,  *)
(* has the endpoint it wrote, or was changed after PeerSpec was read.      *)
(***************************************************************************)
OtherSpecsUntouched ==
  [][\A k \in Keys :
       /\ cur = k /\ cur' # k
       /\ specs'[k] # specs[k]
       /\ specs[k] # Null
       => \/ specs[k].by = "us"
          \/ /\ specs[k].body.endpoint # Null
             /\ specs[k].body.endpoint.transport = "tailscale"
          \/ specs[k].body.endpoint = owned[k]
          \/ specs[k] # seen]_vars

(***************************************************************************)
(* Once removeOwnedPeers has run, only a caller outside c.wg that was let  *)
(* in by its own check of c.state (ConfirmPeer, RevokePeerConfirmation or  *)
(* onDERPLatency) can still be in or before reconcilePeers.                *)
(***************************************************************************)
OnlyAdmittedCallersLate ==
  phase \in {"released", "stopped"} =>
    /\ alive = {} /\ watch = {}
    /\ \A c \in Callers : pc[c] # "idle" => c \in {"confirm", "latency"}

(***************************************************************************)
(* Close without an error leaves no peer and no transport of this client   *)
(* on the device, provided no such late caller began a session.            *)
(***************************************************************************)
ReleasedUnlessLate ==
  phase = "stopped" /\ ~closeErr /\ ~late =>
    /\ AppliedKeys = {} /\ bindPeers = {}
    /\ ~transport
    /\ \A k \in Keys : specs[k] = Null \/ specs[k].by = "other"

\* What Close leaves behind: callers it let in before, and nothing on the device
\* unless one of them began a session.
CleanAfterClose == OnlyAdmittedCallersLate /\ ReleasedUnlessLate

\* "Done is closed after client resources have been fully released."
ReleasedAfterDone ==
  phase = "stopped" /\ ~closeErr =>
    \A k \in Keys : specs[k] = Null \/ specs[k].by = "other"

(***************************************************************************)
(* A direct-path recovery mark belongs to the current direct address.      *)
(***************************************************************************)
RecoveryIsForCurrentPath ==
  \A k \in Keys : path[k].recovery =>
    /\ path[k].recoveryDirect # Null
    /\ path[k].kind = "direct" => path[k].direct = path[k].recoveryDirect

(***************************************************************************)
(* The facts that make the invariants above inductive.                     *)
(***************************************************************************)
OwnSpec(k) == specs[k] # Null /\ specs[k].by = "us"

\* What a session's snapshots still say about the shared maps.
SessionInv ==
  /\ stage = "none" => cur = Null /\ todo = {}
  /\ cur # Null => cur \in todo
  /\ stage = "remove" => \A k \in Keys :
       /\ k \in todo => desired[k] = Null
       /\ k \in todo \/ desired[k] # Null => owned[k] = applied[k]
  /\ stage = "apply" => \A k \in todo : /\ desired[k] # Null
                                        /\ owned[k] = applied[k]
  /\ stage = "close" => owned = applied /\ todo \subseteq AppliedKeys

\* A spec that ApplyCheck let pass has the endpoint this client wrote, or is
\* on this client's transport.
SeenInv ==
  stage = "apply" /\ cur # Null /\ seen # Null =>
    IF owned[cur] # Null THEN StillOwned(seen, owned[cur])
    ELSE /\ seen.body.endpoint # Null
         /\ seen.body.endpoint.transport = "tailscale"

\* While removeOwnedPeers runs, the bind still has the peers left to do.
PeerInv ==
  /\ published = AppliedKeys
  /\ published \subseteq local
  /\ bindPeers = IF stage = "close" THEN todo ELSE AppliedKeys

\* A spec this client wrote is recorded as applied, with its endpoint.
DeviceInv ==
  /\ ~open => ~transport /\ \A k \in Keys : specs[k] = Null
  /\ \A k \in Keys : OwnSpec(k) =>
       \/ applied[k] = specs[k].body.endpoint
       \/ closeErr
  /\ cur # Null => (OwnSpec(cur) => seen = specs[cur])
  /\ stage = "close" => \A k \in Keys : OwnSpec(k) => k \in todo \/ closeErr

LifeInv ==
  /\ closed <=> phase # "live"
  /\ stage = "close" => phase = "stopping"
  /\ stage = "close" \/ phase \in {"released", "stopped"} =>
       closed /\ alive = {} /\ watch = {}
  /\ closed => \A c \in Callers : c = "attach" => pc[c] = "idle"
  /\ \A c \in Callers \cap {"map", "worker"} : pc[c] # "idle" => c \in alive
  /\ \A c \in Callers : pc[c] = "in" => stage \in {"remove", "apply"}
  /\ \A c, d \in Callers : pc[c] = "in" /\ pc[d] = "in" => c = d

\* What the cleanup of Close leaves behind.
CleanInv ==
  /\ phase \in {"released", "stopped"} /\ ~late =>
       stage = "none" /\ AppliedKeys = {}
  /\ phase = "stopped" /\ ~closeErr => ~transport

\* A call of reconcilePeers is to come that will read the inputs again.
Recalled == wake \/ \E c \in Callers : pc[c] \in {"call", "wait"}

\* What a session has done for key k is what its snapshot asks for.
Reached(k) ==
  IF desired[k] = Null THEN applied[k] = Null \/ k \in failed
  ELSE /\ applied[k] # Null \/ k \in failed
       /\ applied[k] # Null /\ k \notin failed /\ OwnSpec(k)
            => specs[k].body = desired[k] /\ applied[k] = desired[k].endpoint

\* With no call to come, the snapshot of the session in progress is what is
\* wanted still, and the keys it is done with have reached it.
ConvergeInv ==
  phase = "live" /\ open /\ ~Recalled =>
    /\ stage = "none" => \A k \in Keys : Settled(k)
    /\ stage \in {"remove", "apply"} =>
         /\ Snapshot(desired)
         /\ \A k \in Keys \ todo : stage = "apply" \/ desired[k] = Null => Reached(k)

IndInv == TypeOK /\ SessionInv /\ SeenInv /\ PeerInv /\ DeviceInv /\ LifeInv
            /\ CleanInv /\ RecoveryIsForCurrentPath

\* Close, once begun, finishes, whatever sessions were under way; and the end
\* of the Start context begins it.
CloseCompletes == closed \/ ctxDone ~> phase = "stopped"

\* Every call of reconcilePeers returns, the peer reconciler's included.
CallsReturn == \A c \in Callers : pc[c] # "idle" ~> pc[c] = "idle"

\* Close and every call of reconcilePeers end, whoever holds the locks first.
Completes == CloseCompletes /\ CallsReturn
=============================================================================

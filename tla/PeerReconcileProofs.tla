------------------------- MODULE PeerReconcileProofs -------------------------
(***************************************************************************)
(* Proofs about PeerReconcile.  IndInv is the inductive invariant: the     *)
(* types, what a session's snapshots still guarantee (SessionInv,          *)
(* SeenInv), the agreement of the three records of published peers         *)
(* (PeerInv), ownership of the specs on the device (DeviceInv), and who    *)
(* can still be running in each phase of Close (LifeInv).  Each conjunct   *)
(* has its own step lemma with one case per action.  Convergence rests on  *)
(* IndInv and on ConvergeInv, which says what a session in progress has    *)
(* achieved when no further call is to come.                               *)
(***************************************************************************)
EXTENDS PeerReconcile, TLAPS

\* Every action keeps the types; a session's cur is wanted when it is applied.
LEMMA TypeStep == IndInv /\ [Next]_vars => TypeOK'
<1> SUFFICES ASSUME IndInv, [Next]_vars PROVE TypeOK'
  BY Zenon
<1> USE ReconcileConstants DEF IndInv, TypeOK, SessionInv,
          viewVars, peerVars, devVars, lifeVars, sessVars
<1>1. ASSUME NEW next \in [NodeIDs -> Nodes \cup {Null}], ApplyMapResponse(next)
      PROVE  TypeOK'
  BY <1>1 DEF ApplyMapResponse, Become
<1>2. ASSUME NEW n \in NodeIDs, ConfirmPeer(n)
      PROVE  TypeOK'
  BY <1>2 DEF ConfirmPeer, Become
<1>3. ASSUME NEW n \in NodeIDs, RevokePeerConfirmation(n)
      PROVE  TypeOK'
  BY <1>3 DEF RevokePeerConfirmation, Become
<1>4. CASE OnDERPLatency
  BY <1>4 DEF OnDERPLatency, Become
<1>5. ASSUME NEW k \in Keys, NEW u \in PathUpdates, OnPath(k, u)
      PROVE  TypeOK'
  BY <1>5, SMTT(30) DEF OnPath, PathStates
<1>6. ASSUME NEW ks \in SUBSET Keys, RecoverStaleDirectPaths(ks)
      PROVE  TypeOK'
  BY <1>6, SMTT(30) DEF RecoverStaleDirectPaths, StaleDirect, PathStates
<1>7. CASE PeerReconciler
  <2>1. wake' \in BOOLEAN
    BY <1>7, Zenon DEF PeerReconciler
  <2> QED
    BY <1>7, <2>1 DEF PeerReconciler, Become
<1>8. ASSUME NEW c \in Callers, ReconcileSkip(c)
      PROVE  TypeOK'
  BY <1>8 DEF ReconcileSkip, Become
<1>9. ASSUME NEW c \in Callers, ReconcileStart(c)
      PROVE  TypeOK'
  BY <1>9 DEF ReconcileStart, Become
<1>10. ASSUME NEW c \in Callers, ReconcileBegin(c)
      PROVE  TypeOK'
  BY <1>10 DEF ReconcileBegin, Become, AppliedKeys
<1>11. ASSUME NEW c \in Callers, ReconcileEnd(c)
      PROVE  TypeOK'
  BY <1>11 DEF ReconcileEnd, Become, Forget, SessionOver, PathStates, NoPath
<1>12. ASSUME NEW k \in Keys, RemoveCheck(k)
      PROVE  TypeOK'
  BY <1>12 DEF RemoveCheck
<1>13. ASSUME NEW k \in Keys, ApplyStolen(k)
      PROVE  TypeOK'
  BY <1>13 DEF ApplyStolen, SetPeerError
<1>14. ASSUME NEW k \in Keys, ApplyConflict(k)
      PROVE  TypeOK'
  BY <1>14 DEF ApplyConflict, SetPeerError
<1>15. ASSUME NEW k \in Keys, ApplyCheck(k)
      PROVE  TypeOK'
  BY <1>15 DEF ApplyCheck
<1>16. CASE RemoveFails
  BY <1>16 DEF RemoveFails, SetPeerError, RemoveDone, Specs
<1>17. CASE RemoveSucceeds
  BY <1>17 DEF RemoveSucceeds, Forget, RemoveDone, PathStates, NoPath, Specs
<1>18. CASE RemoveFinish
  BY <1>18 DEF RemoveFinish
<1>19. CASE ApplyFails
  BY <1>19 DEF ApplyFails, SetPeerError, ApplyDone, Specs
<1>20. CASE ApplySucceeds
  BY <1>20, SMTT(30) DEF ApplySucceeds, ApplyDone, Bodies, Specs, OwnSpecs
<1>21. CASE AttachDevice
  BY <1>21
  DEF AttachDevice, Become, ClearAppliedDevice, DeviceUnlocked, PathStates, Specs
<1>22. CASE DeviceCloses
  <2>1. open' \in BOOLEAN /\ transport' \in BOOLEAN
    BY <1>22, Zenon DEF DeviceCloses
  <2>2. specs' \in [Keys -> Specs]
    BY <1>22, Zenon DEF DeviceCloses, Specs
  <2> QED
    BY <1>22, <2>1, <2>2 DEF DeviceCloses
<1>23. ASSUME NEW g \in 1..MaxDev, WatchDevice(g)
      PROVE  TypeOK'
  BY <1>23 DEF WatchDevice, ClearAppliedDevice, DeviceUnlocked, PathStates
<1>24. ASSUME NEW g \in 1..MaxDev, WatchCancelled(g)
      PROVE  TypeOK'
  BY <1>24 DEF WatchCancelled
<1>25. ASSUME NEW k \in Keys, NEW s \in ForeignSpecs \cup {Null}, OtherController(k, s)
      PROVE  TypeOK'
  BY <1>25 DEF OtherController, Specs
<1>26. CASE CloseBegin
  BY <1>26, Zenon DEF CloseBegin
<1>27. CASE ContextEnds
  BY <1>27 DEF ContextEnds
<1>28. CASE ControlSetsState
  BY <1>28 DEF ControlSetsState
<1>29. ASSUME NEW w \in Workers, WorkerExit(w)
      PROVE  TypeOK'
  BY <1>29 DEF WorkerExit
<1>30. CASE CloseRemove
  BY <1>30, Zenon DEF CloseRemove, AppliedKeys
<1>31. CASE CloseForget
  BY <1>31 DEF CloseForget, Forget, SessionOver, PathStates, NoPath
<1>32. ASSUME NEW fails \in BOOLEAN, CloseRemovePeer(fails)
      PROVE  TypeOK'
  BY <1>32 DEF CloseRemovePeer, RemoveDone, Specs
<1>33. ASSUME NEW fails \in BOOLEAN, CloseFinish(fails)
      PROVE  TypeOK'
  BY <1>33, Zenon DEF CloseFinish
<1>34. CASE UNCHANGED vars
  BY <1>34 DEF vars
<1> QED
  BY <1>1, <1>2, <1>3, <1>4, <1>5, <1>6, <1>7, <1>8, <1>9, <1>10, <1>11,
     <1>12, <1>13, <1>14, <1>15, <1>16, <1>17, <1>18, <1>19, <1>20, <1>21,
     <1>22, <1>23, <1>24, <1>25, <1>26, <1>27, <1>28, <1>29, <1>30, <1>31,
     <1>32, <1>33, <1>34, Zenon
  DEF Next, Trigger, Session, Device, Shutdown

\* The snapshots of a session stay valid for the keys it has not handled yet.
LEMMA SnapshotStep == IndInv /\ [Next]_vars => SessionInv'
<1> SUFFICES ASSUME IndInv, [Next]_vars PROVE SessionInv'
  BY Zenon
<1> USE ReconcileConstants DEF IndInv, TypeOK, SessionInv, AppliedKeys,
          viewVars, peerVars, devVars, lifeVars, sessVars
<1>1. ASSUME NEW next \in [NodeIDs -> Nodes \cup {Null}], ApplyMapResponse(next)
      PROVE  SessionInv'
  BY <1>1, Zenon DEF ApplyMapResponse, Become
<1>2. ASSUME NEW n \in NodeIDs, ConfirmPeer(n)
      PROVE  SessionInv'
  BY <1>2, Zenon DEF ConfirmPeer, Become
<1>3. ASSUME NEW n \in NodeIDs, RevokePeerConfirmation(n)
      PROVE  SessionInv'
  BY <1>3, Zenon DEF RevokePeerConfirmation, Become
<1>4. CASE OnDERPLatency
  BY <1>4, Zenon DEF OnDERPLatency, Become
<1>5. ASSUME NEW k \in Keys, NEW u \in PathUpdates, OnPath(k, u)
      PROVE  SessionInv'
  BY <1>5, Zenon DEF OnPath
<1>6. ASSUME NEW ks \in SUBSET Keys, RecoverStaleDirectPaths(ks)
      PROVE  SessionInv'
  BY <1>6, Zenon DEF RecoverStaleDirectPaths, StaleDirect
<1>7. CASE PeerReconciler
  BY <1>7, Zenon DEF PeerReconciler, Become
<1>8. ASSUME NEW c \in Callers, ReconcileSkip(c)
      PROVE  SessionInv'
  BY <1>8, Zenon DEF ReconcileSkip, Become
<1>9. ASSUME NEW c \in Callers, ReconcileStart(c)
      PROVE  SessionInv'
  BY <1>9, Zenon DEF ReconcileStart, Become
<1>10. ASSUME NEW c \in Callers, ReconcileBegin(c)
      PROVE  SessionInv'
  BY <1>10, Zenon DEF ReconcileBegin, Become
<1>11. ASSUME NEW c \in Callers, ReconcileEnd(c)
      PROVE  SessionInv'
  BY <1>11, Zenon DEF ReconcileEnd, Become, Forget, SessionOver
<1>12. ASSUME NEW k \in Keys, RemoveCheck(k)
      PROVE  SessionInv'
  BY <1>12, Zenon DEF RemoveCheck
<1>13. ASSUME NEW k \in Keys, ApplyStolen(k)
      PROVE  SessionInv'
  BY <1>13, Zenon DEF ApplyStolen, SetPeerError
<1>14. ASSUME NEW k \in Keys, ApplyConflict(k)
      PROVE  SessionInv'
  BY <1>14, Zenon DEF ApplyConflict, SetPeerError
<1>15. ASSUME NEW k \in Keys, ApplyCheck(k)
      PROVE  SessionInv'
  BY <1>15, Zenon DEF ApplyCheck
<1>16. CASE RemoveFails
  BY <1>16, Zenon DEF RemoveFails, SetPeerError, RemoveDone
<1>17. CASE RemoveSucceeds
  BY <1>17 DEF RemoveSucceeds, Forget, RemoveDone
<1>18. CASE RemoveFinish
  BY <1>18, Zenon DEF RemoveFinish
<1>19. CASE ApplyFails
  BY <1>19, Zenon DEF ApplyFails, SetPeerError, ApplyDone
<1>20. CASE ApplySucceeds
  BY <1>20, Zenon DEF ApplySucceeds, ApplyDone
<1>21. CASE AttachDevice
  BY <1>21, Zenon DEF AttachDevice, Become, ClearAppliedDevice, DeviceUnlocked
<1>22. CASE DeviceCloses
  BY <1>22, Zenon DEF DeviceCloses
<1>23. ASSUME NEW g \in 1..MaxDev, WatchDevice(g)
      PROVE  SessionInv'
  BY <1>23, Zenon DEF WatchDevice, ClearAppliedDevice, DeviceUnlocked
<1>24. ASSUME NEW g \in 1..MaxDev, WatchCancelled(g)
      PROVE  SessionInv'
  BY <1>24, Zenon DEF WatchCancelled
<1>25. ASSUME NEW k \in Keys, NEW s \in ForeignSpecs \cup {Null}, OtherController(k, s)
      PROVE  SessionInv'
  BY <1>25, Zenon DEF OtherController
<1>26. CASE CloseBegin
  BY <1>26, Zenon DEF CloseBegin
<1>27. CASE ContextEnds
  BY <1>27, Zenon DEF ContextEnds
<1>28. CASE ControlSetsState
  BY <1>28, Zenon DEF ControlSetsState
<1>29. ASSUME NEW w \in Workers, WorkerExit(w)
      PROVE  SessionInv'
  BY <1>29, Zenon DEF WorkerExit
<1>30. CASE CloseRemove
  BY <1>30, Zenon DEF CloseRemove
<1>31. CASE CloseForget
  BY <1>31, Zenon DEF CloseForget, Forget, SessionOver
<1>32. ASSUME NEW fails \in BOOLEAN, CloseRemovePeer(fails)
      PROVE  SessionInv'
  BY <1>32, Zenon DEF CloseRemovePeer, RemoveDone
<1>33. ASSUME NEW fails \in BOOLEAN, CloseFinish(fails)
      PROVE  SessionInv'
  BY <1>33, Zenon DEF CloseFinish
<1>34. CASE UNCHANGED vars
  BY <1>34 DEF vars
<1> QED
  BY <1>1, <1>2, <1>3, <1>4, <1>5, <1>6, <1>7, <1>8, <1>9, <1>10, <1>11,
     <1>12, <1>13, <1>14, <1>15, <1>16, <1>17, <1>18, <1>19, <1>20, <1>21,
     <1>22, <1>23, <1>24, <1>25, <1>26, <1>27, <1>28, <1>29, <1>30, <1>31,
     <1>32, <1>33, <1>34, Zenon
  DEF Next, Trigger, Session, Device, Shutdown

\* Only ApplyCheck fills seen in the apply stage.
LEMMA SeenStep == IndInv /\ [Next]_vars => SeenInv'
<1> SUFFICES ASSUME IndInv, [Next]_vars PROVE SeenInv'
  BY Zenon
<1> USE ReconcileConstants DEF IndInv, SeenInv, StillOwned,
          viewVars, peerVars, devVars, lifeVars, sessVars
<1>1. ASSUME NEW next \in [NodeIDs -> Nodes \cup {Null}], ApplyMapResponse(next)
      PROVE  SeenInv'
  BY <1>1, Zenon DEF ApplyMapResponse, Become
<1>2. ASSUME NEW n \in NodeIDs, ConfirmPeer(n)
      PROVE  SeenInv'
  BY <1>2, Zenon DEF ConfirmPeer, Become
<1>3. ASSUME NEW n \in NodeIDs, RevokePeerConfirmation(n)
      PROVE  SeenInv'
  BY <1>3, Zenon DEF RevokePeerConfirmation, Become
<1>4. CASE OnDERPLatency
  BY <1>4, Zenon DEF OnDERPLatency, Become
<1>5. ASSUME NEW k \in Keys, NEW u \in PathUpdates, OnPath(k, u)
      PROVE  SeenInv'
  BY <1>5, Zenon DEF OnPath
<1>6. ASSUME NEW ks \in SUBSET Keys, RecoverStaleDirectPaths(ks)
      PROVE  SeenInv'
  BY <1>6, Zenon DEF RecoverStaleDirectPaths, StaleDirect
<1>7. CASE PeerReconciler
  BY <1>7, Zenon DEF PeerReconciler, Become
<1>8. ASSUME NEW c \in Callers, ReconcileSkip(c)
      PROVE  SeenInv'
  BY <1>8, Zenon DEF ReconcileSkip, Become
<1>9. ASSUME NEW c \in Callers, ReconcileStart(c)
      PROVE  SeenInv'
  BY <1>9, Zenon DEF ReconcileStart, Become
<1>10. ASSUME NEW c \in Callers, ReconcileBegin(c)
      PROVE  SeenInv'
  BY <1>10, Zenon DEF ReconcileBegin, Become, SessionInv
<1>11. ASSUME NEW c \in Callers, ReconcileEnd(c)
      PROVE  SeenInv'
  BY <1>11, Zenon DEF ReconcileEnd, Become, Forget, SessionOver
<1>12. ASSUME NEW k \in Keys, RemoveCheck(k)
      PROVE  SeenInv'
  BY <1>12, Zenon DEF RemoveCheck
<1>13. ASSUME NEW k \in Keys, ApplyStolen(k)
      PROVE  SeenInv'
  BY <1>13, Zenon DEF ApplyStolen, SetPeerError
<1>14. ASSUME NEW k \in Keys, ApplyConflict(k)
      PROVE  SeenInv'
  BY <1>14, Zenon DEF ApplyConflict, SetPeerError
<1>15. ASSUME NEW k \in Keys, ApplyCheck(k)
      PROVE  SeenInv'
  BY <1>15, Zenon DEF ApplyCheck
<1>16. CASE RemoveFails
  BY <1>16, Zenon DEF RemoveFails, SetPeerError, RemoveDone
<1>17. CASE RemoveSucceeds
  BY <1>17, Zenon DEF RemoveSucceeds, Forget, RemoveDone
<1>18. CASE RemoveFinish
  BY <1>18, Zenon DEF RemoveFinish, SessionInv
<1>19. CASE ApplyFails
  BY <1>19, Zenon DEF ApplyFails, SetPeerError, ApplyDone
<1>20. CASE ApplySucceeds
  BY <1>20, Zenon DEF ApplySucceeds, ApplyDone
<1>21. CASE AttachDevice
  BY <1>21, Zenon DEF AttachDevice, Become, ClearAppliedDevice, DeviceUnlocked
<1>22. CASE DeviceCloses
  BY <1>22, Zenon DEF DeviceCloses
<1>23. ASSUME NEW g \in 1..MaxDev, WatchDevice(g)
      PROVE  SeenInv'
  BY <1>23, Zenon DEF WatchDevice, ClearAppliedDevice, DeviceUnlocked
<1>24. ASSUME NEW g \in 1..MaxDev, WatchCancelled(g)
      PROVE  SeenInv'
  BY <1>24, Zenon DEF WatchCancelled
<1>25. ASSUME NEW k \in Keys, NEW s \in ForeignSpecs \cup {Null}, OtherController(k, s)
      PROVE  SeenInv'
  BY <1>25, Zenon DEF OtherController
<1>26. CASE CloseBegin
  BY <1>26, Zenon DEF CloseBegin
<1>27. CASE ContextEnds
  BY <1>27, Zenon DEF ContextEnds
<1>28. CASE ControlSetsState
  BY <1>28, Zenon DEF ControlSetsState
<1>29. ASSUME NEW w \in Workers, WorkerExit(w)
      PROVE  SeenInv'
  BY <1>29, Zenon DEF WorkerExit
<1>30. CASE CloseRemove
  BY <1>30, Zenon DEF CloseRemove
<1>31. CASE CloseForget
  BY <1>31, Zenon DEF CloseForget, Forget, SessionOver
<1>32. ASSUME NEW fails \in BOOLEAN, CloseRemovePeer(fails)
      PROVE  SeenInv'
  BY <1>32, Zenon DEF CloseRemovePeer, RemoveDone
<1>33. ASSUME NEW fails \in BOOLEAN, CloseFinish(fails)
      PROVE  SeenInv'
  BY <1>33, Zenon DEF CloseFinish
<1>34. CASE UNCHANGED vars
  BY <1>34, Zenon DEF vars
<1> QED
  BY <1>1, <1>2, <1>3, <1>4, <1>5, <1>6, <1>7, <1>8, <1>9, <1>10, <1>11,
     <1>12, <1>13, <1>14, <1>15, <1>16, <1>17, <1>18, <1>19, <1>20, <1>21,
     <1>22, <1>23, <1>24, <1>25, <1>26, <1>27, <1>28, <1>29, <1>30, <1>31,
     <1>32, <1>33, <1>34, Zenon
  DEF Next, Trigger, Session, Device, Shutdown

\* The records of published peers are changed together.
LEMMA PeerStep == IndInv /\ [Next]_vars => PeerInv'
<1> SUFFICES ASSUME IndInv, [Next]_vars PROVE PeerInv'
  BY Zenon
<1> USE ReconcileConstants DEF IndInv, TypeOK, SessionInv, PeerInv, AppliedKeys,
          viewVars, peerVars, devVars, lifeVars, sessVars
<1>1. ASSUME NEW next \in [NodeIDs -> Nodes \cup {Null}], ApplyMapResponse(next)
      PROVE  PeerInv'
  BY <1>1 DEF ApplyMapResponse, Become
<1>2. ASSUME NEW n \in NodeIDs, ConfirmPeer(n)
      PROVE  PeerInv'
  BY <1>2 DEF ConfirmPeer, Become
<1>3. ASSUME NEW n \in NodeIDs, RevokePeerConfirmation(n)
      PROVE  PeerInv'
  BY <1>3 DEF RevokePeerConfirmation, Become
<1>4. CASE OnDERPLatency
  BY <1>4 DEF OnDERPLatency, Become
<1>5. ASSUME NEW k \in Keys, NEW u \in PathUpdates, OnPath(k, u)
      PROVE  PeerInv'
  BY <1>5 DEF OnPath
<1>6. ASSUME NEW ks \in SUBSET Keys, RecoverStaleDirectPaths(ks)
      PROVE  PeerInv'
  BY <1>6 DEF RecoverStaleDirectPaths, StaleDirect
<1>7. CASE PeerReconciler
  BY <1>7 DEF PeerReconciler, Become
<1>8. ASSUME NEW c \in Callers, ReconcileSkip(c)
      PROVE  PeerInv'
  BY <1>8 DEF ReconcileSkip, Become
<1>9. ASSUME NEW c \in Callers, ReconcileStart(c)
      PROVE  PeerInv'
  BY <1>9 DEF ReconcileStart, Become
<1>10. ASSUME NEW c \in Callers, ReconcileBegin(c)
      PROVE  PeerInv'
  BY <1>10 DEF ReconcileBegin, Become
<1>11. ASSUME NEW c \in Callers, ReconcileEnd(c)
      PROVE  PeerInv'
  BY <1>11 DEF ReconcileEnd, Become, Forget, SessionOver
<1>12. ASSUME NEW k \in Keys, RemoveCheck(k)
      PROVE  PeerInv'
  BY <1>12 DEF RemoveCheck
<1>13. ASSUME NEW k \in Keys, ApplyStolen(k)
      PROVE  PeerInv'
  BY <1>13 DEF ApplyStolen, SetPeerError
<1>14. ASSUME NEW k \in Keys, ApplyConflict(k)
      PROVE  PeerInv'
  BY <1>14 DEF ApplyConflict, SetPeerError
<1>15. ASSUME NEW k \in Keys, ApplyCheck(k)
      PROVE  PeerInv'
  BY <1>15 DEF ApplyCheck
<1>16. CASE RemoveFails
  BY <1>16 DEF RemoveFails, SetPeerError, RemoveDone
<1>17. CASE RemoveSucceeds
  BY <1>17 DEF RemoveSucceeds, Forget, RemoveDone
<1>18. CASE RemoveFinish
  BY <1>18 DEF RemoveFinish
<1>19. CASE ApplyFails
  BY <1>19 DEF ApplyFails, SetPeerError, ApplyDone
<1>20. CASE ApplySucceeds
  <2>1. desired[cur] \in Bodies /\ cur \in Keys
    BY <1>20, Zenon DEF ApplySucceeds
  <2>2. desired[cur].endpoint \in Endpoints /\ desired[cur].endpoint # Null
    BY <2>1 DEF Bodies
  <2>3. stage' = "apply"
    BY <1>20, Zenon DEF ApplySucceeds, ApplyDone
  <2>4. AppliedKeys' = AppliedKeys \cup {cur}
    BY <1>20, <2>1, <2>2 DEF ApplySucceeds
  <2> QED
    BY <1>20, <2>1, <2>3, <2>4, Zenon DEF ApplySucceeds, ApplyDone
<1>21. CASE AttachDevice
  BY <1>21 DEF AttachDevice, Become, ClearAppliedDevice, DeviceUnlocked
<1>22. CASE DeviceCloses
  BY <1>22 DEF DeviceCloses
<1>23. ASSUME NEW g \in 1..MaxDev, WatchDevice(g)
      PROVE  PeerInv'
  BY <1>23 DEF WatchDevice, ClearAppliedDevice, DeviceUnlocked
<1>24. ASSUME NEW g \in 1..MaxDev, WatchCancelled(g)
      PROVE  PeerInv'
  BY <1>24 DEF WatchCancelled
<1>25. ASSUME NEW k \in Keys, NEW s \in ForeignSpecs \cup {Null}, OtherController(k, s)
      PROVE  PeerInv'
  BY <1>25 DEF OtherController
<1>26. CASE CloseBegin
  BY <1>26 DEF CloseBegin
<1>27. CASE ContextEnds
  BY <1>27 DEF ContextEnds
<1>28. CASE ControlSetsState
  BY <1>28 DEF ControlSetsState
<1>29. ASSUME NEW w \in Workers, WorkerExit(w)
      PROVE  PeerInv'
  BY <1>29 DEF WorkerExit
<1>30. CASE CloseRemove
  BY <1>30 DEF CloseRemove
<1>31. CASE CloseForget
  BY <1>31 DEF CloseForget, Forget, SessionOver
<1>32. ASSUME NEW fails \in BOOLEAN, CloseRemovePeer(fails)
      PROVE  PeerInv'
  BY <1>32 DEF CloseRemovePeer, RemoveDone
<1>33. ASSUME NEW fails \in BOOLEAN, CloseFinish(fails)
      PROVE  PeerInv'
  BY <1>33 DEF CloseFinish
<1>34. CASE UNCHANGED vars
  BY <1>34 DEF vars
<1> QED
  BY <1>1, <1>2, <1>3, <1>4, <1>5, <1>6, <1>7, <1>8, <1>9, <1>10, <1>11,
     <1>12, <1>13, <1>14, <1>15, <1>16, <1>17, <1>18, <1>19, <1>20, <1>21,
     <1>22, <1>23, <1>24, <1>25, <1>26, <1>27, <1>28, <1>29, <1>30, <1>31,
     <1>32, <1>33, <1>34, Zenon
  DEF Next, Trigger, Session, Device, Shutdown

\* A spec written by this client stays recorded until it is deleted.
LEMMA DeviceStep == IndInv /\ [Next]_vars => DeviceInv'
<1> SUFFICES ASSUME IndInv, [Next]_vars PROVE DeviceInv'
  BY Zenon
<1> USE ReconcileConstants DEF IndInv, TypeOK, SessionInv, DeviceInv, OwnSpec, AppliedKeys,
          viewVars, peerVars, devVars, lifeVars, sessVars
<1>1. ASSUME NEW next \in [NodeIDs -> Nodes \cup {Null}], ApplyMapResponse(next)
      PROVE  DeviceInv'
  BY <1>1, Zenon DEF ApplyMapResponse, Become
<1>2. ASSUME NEW n \in NodeIDs, ConfirmPeer(n)
      PROVE  DeviceInv'
  BY <1>2, Zenon DEF ConfirmPeer, Become
<1>3. ASSUME NEW n \in NodeIDs, RevokePeerConfirmation(n)
      PROVE  DeviceInv'
  BY <1>3, Zenon DEF RevokePeerConfirmation, Become
<1>4. CASE OnDERPLatency
  BY <1>4, Zenon DEF OnDERPLatency, Become
<1>5. ASSUME NEW k \in Keys, NEW u \in PathUpdates, OnPath(k, u)
      PROVE  DeviceInv'
  BY <1>5, Zenon DEF OnPath
<1>6. ASSUME NEW ks \in SUBSET Keys, RecoverStaleDirectPaths(ks)
      PROVE  DeviceInv'
  BY <1>6, Zenon DEF RecoverStaleDirectPaths, StaleDirect
<1>7. CASE PeerReconciler
  BY <1>7, Zenon DEF PeerReconciler, Become
<1>8. ASSUME NEW c \in Callers, ReconcileSkip(c)
      PROVE  DeviceInv'
  BY <1>8, Zenon DEF ReconcileSkip, Become
<1>9. ASSUME NEW c \in Callers, ReconcileStart(c)
      PROVE  DeviceInv'
  BY <1>9, Zenon DEF ReconcileStart, Become
<1>10. ASSUME NEW c \in Callers, ReconcileBegin(c)
      PROVE  DeviceInv'
  BY <1>10, Zenon DEF ReconcileBegin, Become
<1>11. ASSUME NEW c \in Callers, ReconcileEnd(c)
      PROVE  DeviceInv'
  BY <1>11, Zenon DEF ReconcileEnd, Become, Forget, SessionOver
<1>12. ASSUME NEW k \in Keys, RemoveCheck(k)
      PROVE  DeviceInv'
  BY <1>12, Zenon DEF RemoveCheck
<1>13. ASSUME NEW k \in Keys, ApplyStolen(k)
      PROVE  DeviceInv'
  BY <1>13 DEF ApplyStolen, SetPeerError, StillOwned
<1>14. ASSUME NEW k \in Keys, ApplyConflict(k)
      PROVE  DeviceInv'
  BY <1>14, Zenon DEF ApplyConflict, SetPeerError
<1>15. ASSUME NEW k \in Keys, ApplyCheck(k)
      PROVE  DeviceInv'
  BY <1>15, Zenon DEF ApplyCheck
<1>16. CASE RemoveFails
  BY <1>16, Zenon DEF RemoveFails, SetPeerError, RemoveDone
<1>17. CASE RemoveSucceeds
  BY <1>17 DEF RemoveSucceeds, Forget, RemoveDone, MayDelete, StillOwned
<1>18. CASE RemoveFinish
  BY <1>18, Zenon DEF RemoveFinish
<1>19. CASE ApplyFails
  BY <1>19, Zenon DEF ApplyFails, SetPeerError, ApplyDone
<1>20. CASE ApplySucceeds
  BY <1>20 DEF ApplySucceeds, ApplyDone, NeedsUpsert
<1>21. CASE AttachDevice
  BY <1>21 DEF AttachDevice, Become, ClearAppliedDevice, DeviceUnlocked
<1>22. CASE DeviceCloses
  BY <1>22 DEF DeviceCloses
<1>23. ASSUME NEW g \in 1..MaxDev, WatchDevice(g)
      PROVE  DeviceInv'
  BY <1>23 DEF WatchDevice, ClearAppliedDevice, DeviceUnlocked, DeviceClosed
<1>24. ASSUME NEW g \in 1..MaxDev, WatchCancelled(g)
      PROVE  DeviceInv'
  BY <1>24, Zenon DEF WatchCancelled
<1>25. ASSUME NEW k \in Keys, NEW s \in ForeignSpecs \cup {Null}, OtherController(k, s)
      PROVE  DeviceInv'
  BY <1>25 DEF OtherController
<1>26. CASE CloseBegin
  BY <1>26, Zenon DEF CloseBegin
<1>27. CASE ContextEnds
  BY <1>27, Zenon DEF ContextEnds
<1>28. CASE ControlSetsState
  BY <1>28, Zenon DEF ControlSetsState
<1>29. ASSUME NEW w \in Workers, WorkerExit(w)
      PROVE  DeviceInv'
  BY <1>29, Zenon DEF WorkerExit
<1>30. CASE CloseRemove
  <2>1. ASSUME NEW k \in Keys, OwnSpec(k) PROVE specs[k].body.endpoint # Null
    <3>1. specs[k] \in OwnSpecs
      BY <2>1 DEF Specs
    <3>2. specs[k].body \in Bodies
      BY <3>1, Zenon DEF OwnSpecs
    <3> QED
      BY <3>2 DEF Bodies
  <2> QED
    BY <1>30, <2>1 DEF CloseRemove
<1>31. CASE CloseForget
  BY <1>31, Zenon DEF CloseForget, Forget, SessionOver
<1>32. ASSUME NEW fails \in BOOLEAN, CloseRemovePeer(fails)
      PROVE  DeviceInv'
  BY <1>32, SMTT(30) DEF CloseRemovePeer, RemoveDone, MayDelete, StillOwned
<1>33. ASSUME NEW fails \in BOOLEAN, CloseFinish(fails)
      PROVE  DeviceInv'
  BY <1>33, Zenon DEF CloseFinish
<1>34. CASE UNCHANGED vars
  BY <1>34, Zenon DEF vars
<1> QED
  BY <1>1, <1>2, <1>3, <1>4, <1>5, <1>6, <1>7, <1>8, <1>9, <1>10, <1>11,
     <1>12, <1>13, <1>14, <1>15, <1>16, <1>17, <1>18, <1>19, <1>20, <1>21,
     <1>22, <1>23, <1>24, <1>25, <1>26, <1>27, <1>28, <1>29, <1>30, <1>31,
     <1>32, <1>33, <1>34, Zenon
  DEF Next, Trigger, Session, Device, Shutdown

\* Workers, watchers and attachments are over before the cleanup begins.
LEMMA LifeStep == IndInv /\ [Next]_vars => LifeInv'
<1> SUFFICES ASSUME IndInv, [Next]_vars PROVE LifeInv'
  BY Zenon
<1>0. /\ pc \in [Callers -> {"idle", "call", "wait", "in"}]
      /\ phase \in {"live", "stopping", "released", "stopped"}
      /\ LifeInv
  BY Zenon DEF IndInv, TypeOK
<1> USE DEF LifeInv,
          viewVars, peerVars, devVars, lifeVars, sessVars
<1>1. ASSUME NEW next \in [NodeIDs -> Nodes \cup {Null}], ApplyMapResponse(next)
      PROVE  LifeInv'
  BY <1>0, <1>1, Zenon DEF ApplyMapResponse, Become
<1>2. ASSUME NEW n \in NodeIDs, ConfirmPeer(n)
      PROVE  LifeInv'
  BY <1>0, <1>2, Zenon DEF ConfirmPeer, Become
<1>3. ASSUME NEW n \in NodeIDs, RevokePeerConfirmation(n)
      PROVE  LifeInv'
  BY <1>0, <1>3, Zenon DEF RevokePeerConfirmation, Become
<1>4. CASE OnDERPLatency
  BY <1>0, <1>4, Zenon DEF OnDERPLatency, Become
<1>5. ASSUME NEW k \in Keys, NEW u \in PathUpdates, OnPath(k, u)
      PROVE  LifeInv'
  BY <1>0, <1>5, Zenon DEF OnPath
<1>6. ASSUME NEW ks \in SUBSET Keys, RecoverStaleDirectPaths(ks)
      PROVE  LifeInv'
  BY <1>0, <1>6, Zenon DEF RecoverStaleDirectPaths, StaleDirect
<1>7. CASE PeerReconciler
  BY <1>0, <1>7, Zenon DEF PeerReconciler, Become
<1>8. ASSUME NEW c \in Callers, ReconcileSkip(c)
      PROVE  LifeInv'
  BY <1>0, <1>8, Zenon DEF ReconcileSkip, Become
<1>9. ASSUME NEW c \in Callers, ReconcileStart(c)
      PROVE  LifeInv'
  BY <1>0, <1>9, Zenon DEF ReconcileStart, Become
<1>10. ASSUME NEW c \in Callers, ReconcileBegin(c)
      PROVE  LifeInv'
  BY <1>0, <1>10, Zenon DEF ReconcileBegin, Become
<1>11. ASSUME NEW c \in Callers, ReconcileEnd(c)
      PROVE  LifeInv'
  BY <1>0, <1>11, Zenon DEF ReconcileEnd, Become, Forget, SessionOver
<1>12. ASSUME NEW k \in Keys, RemoveCheck(k)
      PROVE  LifeInv'
  BY <1>0, <1>12, Zenon DEF RemoveCheck
<1>13. ASSUME NEW k \in Keys, ApplyStolen(k)
      PROVE  LifeInv'
  BY <1>0, <1>13, Zenon DEF ApplyStolen, SetPeerError
<1>14. ASSUME NEW k \in Keys, ApplyConflict(k)
      PROVE  LifeInv'
  BY <1>0, <1>14, Zenon DEF ApplyConflict, SetPeerError
<1>15. ASSUME NEW k \in Keys, ApplyCheck(k)
      PROVE  LifeInv'
  BY <1>0, <1>15, Zenon DEF ApplyCheck
<1>16. CASE RemoveFails
  BY <1>0, <1>16, Zenon DEF RemoveFails, SetPeerError, RemoveDone
<1>17. CASE RemoveSucceeds
  BY <1>0, <1>17, Zenon DEF RemoveSucceeds, Forget, RemoveDone
<1>18. CASE RemoveFinish
  BY <1>0, <1>18, Zenon DEF RemoveFinish
<1>19. CASE ApplyFails
  BY <1>0, <1>19, Zenon DEF ApplyFails, SetPeerError, ApplyDone
<1>20. CASE ApplySucceeds
  BY <1>0, <1>20, Zenon DEF ApplySucceeds, ApplyDone
<1>21. CASE AttachDevice
  BY <1>0, <1>21, Zenon DEF AttachDevice, Become, ClearAppliedDevice, DeviceUnlocked
<1>22. CASE DeviceCloses
  BY <1>0, <1>22, Zenon DEF DeviceCloses
<1>23. ASSUME NEW g \in 1..MaxDev, WatchDevice(g)
      PROVE  LifeInv'
  BY <1>0, <1>23, Zenon DEF WatchDevice, ClearAppliedDevice, DeviceUnlocked
<1>24. ASSUME NEW g \in 1..MaxDev, WatchCancelled(g)
      PROVE  LifeInv'
  BY <1>0, <1>24, Zenon DEF WatchCancelled
<1>25. ASSUME NEW k \in Keys, NEW s \in ForeignSpecs \cup {Null}, OtherController(k, s)
      PROVE  LifeInv'
  BY <1>0, <1>25, Zenon DEF OtherController
<1>26. CASE CloseBegin
  BY <1>0, <1>26, Zenon DEF CloseBegin
<1>27. CASE ContextEnds
  BY <1>0, <1>27, Zenon DEF ContextEnds
<1>28. CASE ControlSetsState
  BY <1>0, <1>28, Zenon DEF ControlSetsState
<1>29. ASSUME NEW w \in Workers, WorkerExit(w)
      PROVE  LifeInv'
  BY <1>0, <1>29, Zenon DEF WorkerExit
<1>30. CASE CloseRemove
  BY <1>0, <1>30, Zenon DEF CloseRemove
<1>31. CASE CloseForget
  BY <1>0, <1>31, Zenon DEF CloseForget, Forget, SessionOver
<1>32. ASSUME NEW fails \in BOOLEAN, CloseRemovePeer(fails)
      PROVE  LifeInv'
  BY <1>0, <1>32, Zenon DEF CloseRemovePeer, RemoveDone
<1>33. ASSUME NEW fails \in BOOLEAN, CloseFinish(fails)
      PROVE  LifeInv'
  BY <1>0, <1>33, Zenon DEF CloseFinish
<1>34. CASE UNCHANGED vars
  BY <1>0, <1>34, Zenon DEF vars
<1> QED
  BY <1>1, <1>2, <1>3, <1>4, <1>5, <1>6, <1>7, <1>8, <1>9, <1>10, <1>11,
     <1>12, <1>13, <1>14, <1>15, <1>16, <1>17, <1>18, <1>19, <1>20, <1>21,
     <1>22, <1>23, <1>24, <1>25, <1>26, <1>27, <1>28, <1>29, <1>30, <1>31,
     <1>32, <1>33, <1>34, Zenon
  DEF Next, Trigger, Session, Device, Shutdown

\* Nothing is applied again unless a late caller begins a session.
LEMMA CleanStep == IndInv /\ [Next]_vars => CleanInv'
<1> SUFFICES ASSUME IndInv, [Next]_vars PROVE CleanInv'
  BY Zenon
<1>0. /\ applied \in [Keys -> Endpoints \cup {Null}]
      /\ CleanInv /\ LifeInv
  BY Zenon DEF IndInv, TypeOK
<1> USE DEF CleanInv, AppliedKeys,
          viewVars, peerVars, devVars, lifeVars, sessVars
<1>1. ASSUME NEW next \in [NodeIDs -> Nodes \cup {Null}], ApplyMapResponse(next)
      PROVE  CleanInv'
  BY <1>0, <1>1, Zenon DEF ApplyMapResponse, Become
<1>2. ASSUME NEW n \in NodeIDs, ConfirmPeer(n)
      PROVE  CleanInv'
  BY <1>0, <1>2, Zenon DEF ConfirmPeer, Become
<1>3. ASSUME NEW n \in NodeIDs, RevokePeerConfirmation(n)
      PROVE  CleanInv'
  BY <1>0, <1>3, Zenon DEF RevokePeerConfirmation, Become
<1>4. CASE OnDERPLatency
  BY <1>0, <1>4, Zenon DEF OnDERPLatency, Become
<1>5. ASSUME NEW k \in Keys, NEW u \in PathUpdates, OnPath(k, u)
      PROVE  CleanInv'
  BY <1>0, <1>5, Zenon DEF OnPath
<1>6. ASSUME NEW ks \in SUBSET Keys, RecoverStaleDirectPaths(ks)
      PROVE  CleanInv'
  BY <1>0, <1>6, Zenon DEF RecoverStaleDirectPaths, StaleDirect
<1>7. CASE PeerReconciler
  BY <1>0, <1>7, Zenon DEF PeerReconciler, Become
<1>8. ASSUME NEW c \in Callers, ReconcileSkip(c)
      PROVE  CleanInv'
  BY <1>0, <1>8, Zenon DEF ReconcileSkip, Become
<1>9. ASSUME NEW c \in Callers, ReconcileStart(c)
      PROVE  CleanInv'
  BY <1>0, <1>9, Zenon DEF ReconcileStart, Become
<1>10. ASSUME NEW c \in Callers, ReconcileBegin(c)
      PROVE  CleanInv'
  BY <1>0, <1>10, Zenon DEF ReconcileBegin, Become
<1>11. ASSUME NEW c \in Callers, ReconcileEnd(c)
      PROVE  CleanInv'
  BY <1>0, <1>11, Zenon DEF ReconcileEnd, Become, Forget, SessionOver
<1>12. ASSUME NEW k \in Keys, RemoveCheck(k)
      PROVE  CleanInv'
  BY <1>0, <1>12, Zenon DEF RemoveCheck
<1>13. ASSUME NEW k \in Keys, ApplyStolen(k)
      PROVE  CleanInv'
  BY <1>0, <1>13, Zenon DEF ApplyStolen, SetPeerError
<1>14. ASSUME NEW k \in Keys, ApplyConflict(k)
      PROVE  CleanInv'
  BY <1>0, <1>14, Zenon DEF ApplyConflict, SetPeerError
<1>15. ASSUME NEW k \in Keys, ApplyCheck(k)
      PROVE  CleanInv'
  BY <1>0, <1>15, Zenon DEF ApplyCheck
<1>16. CASE RemoveFails
  BY <1>0, <1>16, Zenon DEF RemoveFails, SetPeerError, RemoveDone
<1>17. CASE RemoveSucceeds
  BY <1>0, <1>17, Zenon DEF RemoveSucceeds, Forget, RemoveDone
<1>18. CASE RemoveFinish
  BY <1>0, <1>18, Zenon DEF RemoveFinish
<1>19. CASE ApplyFails
  BY <1>0, <1>19, Zenon DEF ApplyFails, SetPeerError, ApplyDone
<1>20. CASE ApplySucceeds
  BY <1>0, <1>20, Zenon DEF ApplySucceeds, ApplyDone
<1>21. CASE AttachDevice
  BY <1>0, <1>21, Zenon
  DEF AttachDevice, Become, ClearAppliedDevice, DeviceUnlocked, LifeInv
<1>22. CASE DeviceCloses
  BY <1>0, <1>22, Zenon DEF DeviceCloses
<1>23. ASSUME NEW g \in 1..MaxDev, WatchDevice(g)
      PROVE  CleanInv'
  BY <1>0, <1>23, Zenon DEF WatchDevice, ClearAppliedDevice, DeviceUnlocked
<1>24. ASSUME NEW g \in 1..MaxDev, WatchCancelled(g)
      PROVE  CleanInv'
  BY <1>0, <1>24, Zenon DEF WatchCancelled
<1>25. ASSUME NEW k \in Keys, NEW s \in ForeignSpecs \cup {Null}, OtherController(k, s)
      PROVE  CleanInv'
  BY <1>0, <1>25, Zenon DEF OtherController
<1>26. CASE CloseBegin
  BY <1>0, <1>26, Zenon DEF CloseBegin
<1>27. CASE ContextEnds
  BY <1>0, <1>27, Zenon DEF ContextEnds
<1>28. CASE ControlSetsState
  BY <1>0, <1>28, Zenon DEF ControlSetsState
<1>29. ASSUME NEW w \in Workers, WorkerExit(w)
      PROVE  CleanInv'
  BY <1>0, <1>29, Zenon DEF WorkerExit
<1>30. CASE CloseRemove
  BY <1>0, <1>30, Zenon DEF CloseRemove
<1>31. CASE CloseForget
  BY <1>0, <1>31, Zenon DEF CloseForget, Forget, SessionOver, IndInv, SessionInv
<1>32. ASSUME NEW fails \in BOOLEAN, CloseRemovePeer(fails)
      PROVE  CleanInv'
  BY <1>0, <1>32, Zenon DEF CloseRemovePeer, RemoveDone
<1>33. ASSUME NEW fails \in BOOLEAN, CloseFinish(fails)
      PROVE  CleanInv'
  BY <1>0, <1>33, Zenon DEF CloseFinish, IndInv, DeviceInv
<1>34. CASE UNCHANGED vars
  BY <1>0, <1>34, Zenon DEF vars
<1> QED
  BY <1>1, <1>2, <1>3, <1>4, <1>5, <1>6, <1>7, <1>8, <1>9, <1>10, <1>11,
     <1>12, <1>13, <1>14, <1>15, <1>16, <1>17, <1>18, <1>19, <1>20, <1>21,
     <1>22, <1>23, <1>24, <1>25, <1>26, <1>27, <1>28, <1>29, <1>30, <1>31,
     <1>32, <1>33, <1>34, Zenon
  DEF Next, Trigger, Session, Device, Shutdown

\* A recovery mark is dropped when the path moves to another address.
LEMMA RecoveryStep == IndInv /\ [Next]_vars => RecoveryIsForCurrentPath'
<1> SUFFICES ASSUME IndInv, [Next]_vars PROVE RecoveryIsForCurrentPath'
  BY Zenon
<1>0. path \in [Keys -> PathStates] /\ RecoveryIsForCurrentPath
  BY Zenon DEF IndInv, TypeOK
<1> USE DEF RecoveryIsForCurrentPath,
          viewVars, peerVars, devVars, lifeVars, sessVars
<1>1. ASSUME NEW next \in [NodeIDs -> Nodes \cup {Null}], ApplyMapResponse(next)
      PROVE  RecoveryIsForCurrentPath'
  BY <1>0, <1>1, Zenon DEF ApplyMapResponse, Become
<1>2. ASSUME NEW n \in NodeIDs, ConfirmPeer(n)
      PROVE  RecoveryIsForCurrentPath'
  BY <1>0, <1>2, Zenon DEF ConfirmPeer, Become
<1>3. ASSUME NEW n \in NodeIDs, RevokePeerConfirmation(n)
      PROVE  RecoveryIsForCurrentPath'
  BY <1>0, <1>3, Zenon DEF RevokePeerConfirmation, Become
<1>4. CASE OnDERPLatency
  BY <1>0, <1>4, Zenon DEF OnDERPLatency, Become
<1>5. ASSUME NEW k \in Keys, NEW u \in PathUpdates, OnPath(k, u)
      PROVE  RecoveryIsForCurrentPath'
  BY <1>0, <1>5, Zenon DEF OnPath, PathStates
<1>6. ASSUME NEW ks \in SUBSET Keys, RecoverStaleDirectPaths(ks)
      PROVE  RecoveryIsForCurrentPath'
  BY <1>0, <1>6, Zenon DEF RecoverStaleDirectPaths, StaleDirect, PathStates
<1>7. CASE PeerReconciler
  BY <1>0, <1>7, Zenon DEF PeerReconciler, Become
<1>8. ASSUME NEW c \in Callers, ReconcileSkip(c)
      PROVE  RecoveryIsForCurrentPath'
  BY <1>0, <1>8, Zenon DEF ReconcileSkip, Become
<1>9. ASSUME NEW c \in Callers, ReconcileStart(c)
      PROVE  RecoveryIsForCurrentPath'
  BY <1>0, <1>9, Zenon DEF ReconcileStart, Become
<1>10. ASSUME NEW c \in Callers, ReconcileBegin(c)
      PROVE  RecoveryIsForCurrentPath'
  BY <1>0, <1>10, Zenon DEF ReconcileBegin, Become
<1>11. ASSUME NEW c \in Callers, ReconcileEnd(c)
      PROVE  RecoveryIsForCurrentPath'
  BY <1>0, <1>11, Zenon
  DEF ReconcileEnd, Become, Forget, SessionOver, PathStates, NoPath
<1>12. ASSUME NEW k \in Keys, RemoveCheck(k)
      PROVE  RecoveryIsForCurrentPath'
  BY <1>0, <1>12, Zenon DEF RemoveCheck
<1>13. ASSUME NEW k \in Keys, ApplyStolen(k)
      PROVE  RecoveryIsForCurrentPath'
  BY <1>0, <1>13, Zenon DEF ApplyStolen, SetPeerError
<1>14. ASSUME NEW k \in Keys, ApplyConflict(k)
      PROVE  RecoveryIsForCurrentPath'
  BY <1>0, <1>14, Zenon DEF ApplyConflict, SetPeerError
<1>15. ASSUME NEW k \in Keys, ApplyCheck(k)
      PROVE  RecoveryIsForCurrentPath'
  BY <1>0, <1>15, Zenon DEF ApplyCheck
<1>16. CASE RemoveFails
  BY <1>0, <1>16, Zenon DEF RemoveFails, SetPeerError, RemoveDone
<1>17. CASE RemoveSucceeds
  BY <1>0, <1>17, Zenon DEF RemoveSucceeds, Forget, RemoveDone, PathStates, NoPath
<1>18. CASE RemoveFinish
  BY <1>0, <1>18, Zenon DEF RemoveFinish
<1>19. CASE ApplyFails
  BY <1>0, <1>19, Zenon DEF ApplyFails, SetPeerError, ApplyDone
<1>20. CASE ApplySucceeds
  BY <1>0, <1>20, Zenon DEF ApplySucceeds, ApplyDone
<1>21. CASE AttachDevice
  BY <1>0, <1>21, Zenon
  DEF AttachDevice, Become, ClearAppliedDevice, DeviceUnlocked, PathStates
<1>22. CASE DeviceCloses
  BY <1>0, <1>22, Zenon DEF DeviceCloses
<1>23. ASSUME NEW g \in 1..MaxDev, WatchDevice(g)
      PROVE  RecoveryIsForCurrentPath'
  BY <1>0, <1>23
  DEF WatchDevice, ClearAppliedDevice, DeviceUnlocked, PathStates
<1>24. ASSUME NEW g \in 1..MaxDev, WatchCancelled(g)
      PROVE  RecoveryIsForCurrentPath'
  BY <1>0, <1>24, Zenon DEF WatchCancelled
<1>25. ASSUME NEW k \in Keys, NEW s \in ForeignSpecs \cup {Null}, OtherController(k, s)
      PROVE  RecoveryIsForCurrentPath'
  BY <1>0, <1>25, Zenon DEF OtherController
<1>26. CASE CloseBegin
  BY <1>0, <1>26, Zenon DEF CloseBegin
<1>27. CASE ContextEnds
  BY <1>0, <1>27, Zenon DEF ContextEnds
<1>28. CASE ControlSetsState
  BY <1>0, <1>28, Zenon DEF ControlSetsState
<1>29. ASSUME NEW w \in Workers, WorkerExit(w)
      PROVE  RecoveryIsForCurrentPath'
  BY <1>0, <1>29, Zenon DEF WorkerExit
<1>30. CASE CloseRemove
  BY <1>0, <1>30, Zenon DEF CloseRemove
<1>31. CASE CloseForget
  BY <1>0, <1>31, Zenon DEF CloseForget, Forget, SessionOver, PathStates, NoPath
<1>32. ASSUME NEW fails \in BOOLEAN, CloseRemovePeer(fails)
      PROVE  RecoveryIsForCurrentPath'
  BY <1>0, <1>32, Zenon DEF CloseRemovePeer, RemoveDone
<1>33. ASSUME NEW fails \in BOOLEAN, CloseFinish(fails)
      PROVE  RecoveryIsForCurrentPath'
  BY <1>0, <1>33, Zenon DEF CloseFinish
<1>34. CASE UNCHANGED vars
  BY <1>0, <1>34, Zenon DEF vars
<1> QED
  BY <1>1, <1>2, <1>3, <1>4, <1>5, <1>6, <1>7, <1>8, <1>9, <1>10, <1>11,
     <1>12, <1>13, <1>14, <1>15, <1>16, <1>17, <1>18, <1>19, <1>20, <1>21,
     <1>22, <1>23, <1>24, <1>25, <1>26, <1>27, <1>28, <1>29, <1>30, <1>31,
     <1>32, <1>33, <1>34, Zenon
  DEF Next, Trigger, Session, Device, Shutdown

\* The initial state satisfies the inductive invariant.
LEMMA InitInv == Init => IndInv
<1> SUFFICES ASSUME Init PROVE IndInv
  BY Zenon
<1> USE ReconcileConstants DEF Init
<1>1. TypeOK
  <2>1. path \in [Keys -> PathStates]
    BY Zenon DEF PathStates, NoPath
  <2>2. specs \in [Keys -> Specs] /\ seen \in Specs
    BY Zenon DEF Specs
  <2>3. dev \in 1..MaxDev /\ watch \in SUBSET (1..MaxDev)
    OBVIOUS
  <2>4. /\ wake \in BOOLEAN /\ open \in BOOLEAN /\ transport \in BOOLEAN
        /\ closed \in BOOLEAN /\ ctxDone \in BOOLEAN /\ closeErr \in BOOLEAN
        /\ accepting \in BOOLEAN /\ late \in BOOLEAN
    BY Zenon
  <2> QED
    BY <2>1, <2>2, <2>3, <2>4, Zenon DEF TypeOK, Workers
<1>2. SessionInv /\ SeenInv /\ PeerInv
  BY Zenon DEF SessionInv, SeenInv, PeerInv, AppliedKeys
<1>3. DeviceInv
  BY Zenon DEF DeviceInv, OwnSpec
<1>4. LifeInv /\ CleanInv
  BY Zenon DEF LifeInv, CleanInv
<1>5. RecoveryIsForCurrentPath
  BY Zenon DEF RecoveryIsForCurrentPath, NoPath
<1> QED
  BY <1>1, <1>2, <1>3, <1>4, <1>5, Zenon DEF IndInv

\* The inductive invariant holds in every reachable state, for every set of
\* nodes, keys, callers and any number of device attachments.
THEOREM Invariance == Spec => []IndInv
<1>1. IndInv /\ [Next]_vars => IndInv'
  <2> SUFFICES ASSUME IndInv, [Next]_vars PROVE IndInv'
    BY Zenon
  <2>1. TypeOK' /\ SessionInv' /\ SeenInv' /\ PeerInv'
    BY TypeStep, SnapshotStep, SeenStep, PeerStep, Zenon
  <2>2. DeviceInv' /\ LifeInv' /\ CleanInv' /\ RecoveryIsForCurrentPath'
    BY DeviceStep, LifeStep, CleanStep, RecoveryStep, Zenon
  <2> QED
    BY <2>1, <2>2, Zenon DEF IndInv
<1> QED
  BY InitInv, <1>1, PTL DEF Spec

\* Type correctness of the reconciler's state.
THEOREM TypeCorrect == Spec => []TypeOK
<1>1. IndInv => TypeOK
  BY Zenon DEF IndInv
<1> QED
  BY Invariance, <1>1, PTL

\* Outside removeOwnedPeers the bind, c.applied and peerLocal agree on which
\* peers are published.
THEOREM BindAgrees == Spec => []BindTracksApplied
<1>1. IndInv => BindTracksApplied
  BY Zenon DEF IndInv, PeerInv, BindTracksApplied
<1> QED
  BY Invariance, <1>1, PTL

\* After the cleanup only ConfirmPeer, RevokePeerConfirmation or onDERPLatency
\* can still reach reconcilePeers.
THEOREM LateCallers == Spec => []OnlyAdmittedCallersLate
<1>1. IndInv => OnlyAdmittedCallersLate
  BY ReconcileConstants, Zenon
  DEF IndInv, TypeOK, LifeInv, OnlyAdmittedCallersLate, AllCallers
<1> QED
  BY Invariance, <1>1, PTL

\* A Close that reports no error, with no session after the cleanup, leaves
\* no peer and no transport of this client behind.
THEOREM Released == Spec => []ReleasedUnlessLate
<1>1. IndInv => ReleasedUnlessLate
  <2> SUFFICES ASSUME IndInv, phase = "stopped", ~closeErr, ~late
               PROVE  /\ AppliedKeys = {} /\ bindPeers = {} /\ ~transport
                      /\ \A k \in Keys : specs[k] = Null \/ specs[k].by = "other"
    BY Zenon DEF ReleasedUnlessLate
  <2>1. stage = "none" /\ AppliedKeys = {} /\ ~transport
    BY Zenon DEF IndInv, CleanInv
  <2>2. bindPeers = {}
    BY <2>1, Zenon DEF IndInv, PeerInv
  <2>3. ASSUME NEW k \in Keys, specs[k] # Null, specs[k].by # "other"
        PROVE  FALSE
    <3>1. specs[k] \in OwnSpecs
      BY <2>3, ReconcileConstants DEF IndInv, TypeOK, Specs
    <3>2. specs[k].by = "us" /\ specs[k].body \in Bodies
      BY <3>1, Zenon DEF OwnSpecs
    <3>3. specs[k].body.endpoint # Null
      BY <3>2, ReconcileConstants, Zenon DEF Bodies
    <3>4. applied[k] = specs[k].body.endpoint
      BY <2>3, <3>2, Zenon DEF IndInv, DeviceInv, OwnSpec
    <3> QED
      BY <2>1, <3>3, <3>4, Zenon DEF AppliedKeys
  <2> QED
    BY <2>1, <2>2, <2>3, Zenon
<1> QED
  BY Invariance, <1>1, PTL

\* A recovery mark set by directPathHealthWorker is for the direct address in
\* use, so a new direct path is never suppressed by an old mark.
THEOREM RecoveryCurrent == Spec => []RecoveryIsForCurrentPath
<1>1. IndInv => RecoveryIsForCurrentPath
  BY Zenon DEF IndInv
<1> QED
  BY Invariance, <1>1, PTL

\* No step of a session deletes or overwrites a spec of another controller
\* that PeerSpec reported, except one on this client's transport address or
\* with the endpoint this client wrote.
THEOREM OtherSpecsKept == Spec => OtherSpecsUntouched
<1> DEFINE Kept ==
      \A k \in Keys :
       /\ cur = k /\ cur' # k
       /\ specs'[k] # specs[k]
       /\ specs[k] # Null
       => \/ specs[k].by = "us"
          \/ /\ specs[k].body.endpoint # Null
             /\ specs[k].body.endpoint.transport = "tailscale"
          \/ specs[k].body.endpoint = owned[k]
          \/ specs[k] # seen
<1>1. IndInv /\ [Next]_vars => Kept
  <2> SUFFICES ASSUME IndInv, [Next]_vars, NEW k \in Keys,
                      cur = k, cur' # k, specs'[k] # specs[k], specs[k] # Null,
                      specs[k] = seen
               PROVE  \/ /\ specs[k].body.endpoint # Null
                         /\ specs[k].body.endpoint.transport = "tailscale"
                      \/ specs[k].body.endpoint = owned[k]
    BY Zenon
  <2> USE DEF viewVars, peerVars, devVars, lifeVars, sessVars
  <2>1. CASE RemoveSucceeds
    BY <2>1, Zenon DEF RemoveSucceeds, RemoveDone, MayDelete, StillOwned, IndInv, TypeOK
  <2>2. CASE ApplySucceeds
    BY <2>2, Zenon DEF ApplySucceeds, IndInv, SeenInv, StillOwned
  <2>3. ASSUME NEW fails \in BOOLEAN, CloseRemovePeer(fails)
        PROVE  specs[k].body.endpoint = owned[k]
    BY <2>3, Zenon DEF CloseRemovePeer, RemoveDone, MayDelete, StillOwned, IndInv, TypeOK
  <2>4. CASE Trigger
    BY <2>4, Zenon DEF Trigger, ApplyMapResponse, ConfirmPeer, RevokePeerConfirmation,
                OnDERPLatency, OnPath, RecoverStaleDirectPaths, PeerReconciler
  <2>5. CASE Device
    BY <2>5, Zenon DEF Device, AttachDevice, DeviceCloses, WatchDevice, WatchCancelled,
                OtherController
  <2>6. CASE Session
    BY <2>1, <2>2, <2>6, Zenon
    DEF Session, ReconcileSkip, ReconcileStart, ReconcileBegin, ReconcileEnd, SessionOver,
        RemoveCheck, ApplyStolen, ApplyConflict, ApplyCheck, RemoveFails,
        RemoveFinish, ApplyFails
  <2>7. CASE Shutdown
    BY <2>3, <2>7, Zenon DEF Shutdown, CloseBegin, ContextEnds, ControlSetsState,
                      WorkerExit, CloseRemove,
                      CloseForget, CloseFinish, SessionOver
  <2> QED
    BY <2>4, <2>5, <2>6, <2>7, Zenon DEF Next, vars
<1> QED
  BY Invariance, <1>1, PTL DEF Spec, OtherSpecsUntouched

\* After Close only callers it had let in before are left, and nothing of this
\* client is on the device unless one of them began a session.
THEOREM CleanClose == Spec => []CleanAfterClose
<1>1. OnlyAdmittedCallersLate /\ ReleasedUnlessLate => CleanAfterClose
  BY Zenon DEF CleanAfterClose
<1> QED
  BY LateCallers, Released, <1>1, PTL

-----------------------------------------------------------------------------
(* Convergence: every change of the inputs leads to a call that reads it.  *)

\* What is wanted of a key depends on its path only where direct peers use
\* wgo's default transport ...
LEMMA WantedKept ==
  ASSUME NEW k \in Keys, UNCHANGED <<peers, confirmed>>, path'[k] = path[k] \/ ~UseDefault
  PROVE  Wanted(k)' = Wanted(k)
<1>1. peers' = peers /\ confirmed' = confirmed
  BY Zenon
<1>2. \A n \in NodeIDs : Admitted(n)' <=> Admitted(n)
  BY <1>1, Zenon DEF Admitted
<1>3. \A n \in NodeIDs : peers[n].key = k => PeerEndpoint(peers[n])' = PeerEndpoint(peers[n])
  BY <1>1, Zenon DEF PeerEndpoint
<1> QED
  BY <1>1, <1>2, <1>3 DEF Wanted

\* ... and whether anything is, not at all.
LEMMA WantedNone ==
  ASSUME NEW k \in Keys, UNCHANGED <<peers, confirmed>>
  PROVE  Wanted(k)' = {} <=> Wanted(k) = {}
<1>1. peers' = peers /\ confirmed' = confirmed
  BY Zenon
<1>2. \A n \in NodeIDs : Admitted(n)' <=> Admitted(n)
  BY <1>1, Zenon DEF Admitted
<1>3. Wanted(k) = {} <=> \A n \in NodeIDs : ~(Admitted(n) /\ peers[n].key = k)
  BY DEF Wanted
<1>4. Wanted(k)' = {} <=> \A n \in NodeIDs : ~(Admitted(n)' /\ peers'[n].key = k)
  BY DEF Wanted
<1> QED
  BY <1>1, <1>2, <1>3, <1>4, Zenon

\* What is wanted is a spec body.
LEMMA WantedBodies ==
  ASSUME TypeOK, NEW k \in Keys
  PROVE  Wanted(k) \subseteq Bodies
<1> SUFFICES ASSUME NEW n \in NodeIDs, peers[n] # Null
             PROVE  [endpoint |-> PeerEndpoint(peers[n]), ips |-> peers[n].ips] \in Bodies
  BY DEF Wanted, Admitted
<1>1. /\ peers[n] \in Nodes /\ peers[n].key \in Keys
      /\ peers[n].static \in Addrs \cup {Null}
  BY ReconcileConstants DEF TypeOK
<1>2. path[peers[n].key].direct \in Addrs \cup {Null}
  BY <1>1 DEF TypeOK, PathStates
<1>3. PeerEndpoint(peers[n]) \in Endpoints
  BY <1>1, <1>2, Zenon DEF PeerEndpoint, Endpoints
<1> QED
  BY <1>1, <1>3, Zenon DEF Bodies

\* A snapshot stays right as long as the inputs and the paths of the wanted
\* keys do.
LEMMA SnapshotKept ==
  ASSUME TypeOK, UNCHANGED <<peers, confirmed, desired>>, Snapshot(desired),
         \A k \in Keys : desired[k] = Null \/ path'[k] = path[k] \/ ~UseDefault
  PROVE  Snapshot(desired)'
<1> SUFFICES ASSUME NEW k \in Keys
             PROVE  IF Wanted(k)' = {} THEN desired'[k] = Null ELSE desired'[k] \in Wanted(k)'
  BY Zenon DEF Snapshot
<1>1. peers' = peers /\ confirmed' = confirmed /\ desired' = desired
  BY Zenon
<1>2. IF Wanted(k) = {} THEN desired[k] = Null ELSE desired[k] \in Wanted(k)
  BY Zenon DEF Snapshot
<1>3. Wanted(k)' = {} <=> Wanted(k) = {}
  BY <1>1, WantedNone, Zenon
<1>4. Null \notin Wanted(k)
  BY WantedBodies, ReconcileConstants, Zenon
<1>5. CASE desired[k] = Null
  BY <1>1, <1>2, <1>3, <1>4, <1>5, Zenon
<1>6. CASE path'[k] = path[k] \/ ~UseDefault
  <2>1. Wanted(k)' = Wanted(k)
    BY <1>1, <1>6, WantedKept, Zenon
  <2> QED
    BY <1>1, <1>2, <2>1, Zenon
<1> QED
  BY <1>5, <1>6, Zenon

\* What the device holds for k was at most taken away or replaced by others.
NotOurs(k) == specs'[k] = specs[k] \/ specs'[k] = Null \/ specs'[k].by # "us"

\* Then a settled key stays settled, as long as the same is wanted of it ...
LEMMA SettledKept ==
  ASSUME NEW k \in Keys, Settled(k), Wanted(k)' = Wanted(k), applied'[k] = applied[k],
         k \in failed' <=> k \in failed, NotOurs(k)
  PROVE  Settled(k)'
BY Zenon DEF Settled, NotOurs

\* ... and a key that reached its snapshot stays there.
LEMMA ReachedKept ==
  ASSUME NEW k \in Keys, Reached(k), desired' = desired, applied'[k] = applied[k],
         k \in failed' <=> k \in failed, NotOurs(k)
  PROVE  Reached(k)'
BY Zenon DEF Reached, OwnSpec, NotOurs

\* A step that changes no input and no record of the session keeps the invariant.
LEMMA ConvergeKept ==
  ASSUME TypeOK, ConvergeInv,
         UNCHANGED <<peers, confirmed, desired, stage, todo, applied, failed>>,
         path' = path \/ ~UseDefault,
         \A k \in Keys : NotOurs(k),
         phase' = "live" /\ open' /\ ~Recalled' => phase = "live" /\ open /\ ~Recalled
  PROVE  ConvergeInv'
<1> SUFFICES ASSUME phase = "live" /\ open /\ ~Recalled
             PROVE  /\ stage' = "none" => \A k \in Keys : Settled(k)'
                    /\ stage' \in {"remove", "apply"} =>
                         /\ Snapshot(desired)'
                         /\ \A k \in Keys \ todo' :
                              stage' = "apply" \/ desired'[k] = Null => Reached(k)'
  BY Zenon DEF ConvergeInv
<1>0. /\ peers' = peers /\ confirmed' = confirmed /\ desired' = desired
      /\ stage' = stage /\ todo' = todo /\ applied' = applied /\ failed' = failed
  BY Zenon
<1>1. \A k \in Keys : Wanted(k)' = Wanted(k)
  BY <1>0, WantedKept, Zenon
<1>2. ASSUME stage = "none", NEW k \in Keys
      PROVE  Settled(k)'
  <2>1. Settled(k)
    BY <1>2, Zenon DEF ConvergeInv
  <2> QED
    BY <1>0, <1>1, <2>1, SettledKept, Zenon
<1>3. ASSUME stage \in {"remove", "apply"}
      PROVE  Snapshot(desired)'
  <2>1. Snapshot(desired)
    BY <1>3, Zenon DEF ConvergeInv
  <2> QED
    BY <1>0, <2>1, SnapshotKept, Zenon
<1>4. ASSUME stage \in {"remove", "apply"}, NEW k \in Keys \ todo,
             stage = "apply" \/ desired[k] = Null
      PROVE  Reached(k)'
  <2>1. Reached(k)
    BY <1>4, Zenon DEF ConvergeInv
  <2> QED
    BY <1>0, <2>1, ReachedKept, Zenon
<1> QED
  BY <1>0, <1>2, <1>3, <1>4, Zenon

\* A step of a session that finishes one key keeps the invariant when that key
\* has reached what the snapshot asks for.
LEMMA ConvergeOne ==
  ASSUME TypeOK, ConvergeInv, NEW x \in Keys,
         stage \in {"remove", "apply"}, stage = "remove" => desired[x] = Null,
         UNCHANGED <<peers, confirmed, desired, stage, phase, open, wake, pc>>,
         todo' = todo \ {x},
         \A k \in Keys \ {x} : /\ applied'[k] = applied[k] /\ specs'[k] = specs[k]
                               /\ k \in failed' <=> k \in failed
         ,
         \A k \in Keys : desired[k] = Null \/ path'[k] = path[k],
         Reached(x)'
  PROVE  ConvergeInv'
<1>0. /\ peers' = peers /\ confirmed' = confirmed /\ desired' = desired
      /\ stage' = stage /\ phase' = phase /\ open' = open /\ wake' = wake /\ pc' = pc
  BY Zenon
<1>1. Recalled' <=> Recalled
  BY <1>0 DEF Recalled
<1> SUFFICES ASSUME phase = "live" /\ open /\ ~Recalled
             PROVE  /\ Snapshot(desired)'
                    /\ \A k \in Keys \ todo' :
                         stage' = "apply" \/ desired'[k] = Null => Reached(k)'
  BY <1>0, <1>1 DEF ConvergeInv
<1>2. Snapshot(desired)'
  <2>1. Snapshot(desired)
    BY Zenon DEF ConvergeInv
  <2> QED
    BY <1>0, <2>1, SnapshotKept, Zenon
<1>3. ASSUME NEW k \in Keys \ todo', stage = "apply" \/ desired[k] = Null
      PROVE  Reached(k)'
  <2>1. CASE k = x
    BY <2>1, Zenon
  <2>2. CASE k # x
    <3>1. k \in Keys \ todo
      BY <1>3, <2>2, Zenon
    <3>2. Reached(k)
      BY <1>3, <3>1, Zenon DEF ConvergeInv
    <3> QED
      BY <1>0, <2>2, <3>2, ReachedKept, Zenon DEF NotOurs
  <2> QED
    BY <2>1, <2>2, Zenon
<1> QED
  BY <1>0, <1>2, <1>3, Zenon
\* A step that changes none of it keeps it.
LEMMA ConvergeSame ==
  ASSUME TypeOK, ConvergeInv,
         UNCHANGED <<peers, confirmed, desired, stage, todo, applied, failed, path, specs>>,
         UNCHANGED <<phase, open, wake, pc>>
  PROVE  ConvergeInv'
<1>1. Recalled' <=> Recalled
  BY DEF Recalled
<1>2. phase' = "live" /\ open' => phase = "live" /\ open
  OBVIOUS
<1>3. path' = path /\ \A k \in Keys : NotOurs(k)
  BY Zenon DEF NotOurs
<1> QED
  BY <1>1, <1>2, <1>3, ConvergeKept, Zenon

\* A step that calls reconcilePeers owes nothing.
LEMMA ConvergeCalled ==
  ASSUME TypeOK, NEW c, NEW from, NEW to \in {"call", "wait"}, Become(c, from, to)
  PROVE  ConvergeInv'
<1>1. c \in Callers /\ pc'[c] = to
  BY Zenon DEF TypeOK, Become
<1> QED
  BY <1>1, Zenon DEF ConvergeInv, Recalled

\* Every change of the inputs is followed by a call that reads them, and a
\* session brings every key to its snapshot.
LEMMA ConvergeStep == IndInv /\ ConvergeInv /\ [Next]_vars => ConvergeInv'
<1> SUFFICES ASSUME IndInv, ConvergeInv, [Next]_vars PROVE ConvergeInv'
  BY Zenon
<1>0. TypeOK /\ SessionInv /\ DeviceInv /\ LifeInv
  BY Zenon DEF IndInv
<1> USE DEF viewVars, peerVars, devVars, lifeVars, sessVars
<1>1. ASSUME NEW next \in [NodeIDs -> Nodes \cup {Null}], ApplyMapResponse(next)
      PROVE  ConvergeInv'
  BY <1>0, <1>1, ConvergeCalled, Zenon DEF ApplyMapResponse
<1>2. ASSUME NEW n \in NodeIDs, ConfirmPeer(n)
      PROVE  ConvergeInv'
  BY <1>0, <1>2, ConvergeCalled, Zenon DEF ConfirmPeer
<1>3. ASSUME NEW n \in NodeIDs, RevokePeerConfirmation(n)
      PROVE  ConvergeInv'
  BY <1>0, <1>3, ConvergeCalled, Zenon DEF RevokePeerConfirmation
<1>4. CASE OnDERPLatency
  BY <1>0, <1>4, ConvergeCalled, Zenon DEF OnDERPLatency
<1>5. ASSUME NEW k \in Keys, NEW u \in PathUpdates, OnPath(k, u)
      PROVE  ConvergeInv'
  <2>1. CASE UseDefault
    <3>1. wake'
      BY <1>5, <2>1 DEF OnPath
    <3> QED
      BY <3>1, Zenon DEF ConvergeInv, Recalled
  <2>2. CASE ~UseDefault
    <3>1. wake' <=> wake
      BY <1>0, <1>5, <2>2 DEF OnPath, TypeOK
    <3>2. Recalled' <=> Recalled
      BY <1>5, <3>1, Zenon DEF OnPath, Recalled
    <3>3. phase' = phase /\ open' = open
      BY <1>5, Zenon DEF OnPath
    <3>4. phase' = "live" /\ open' /\ ~Recalled' => phase = "live" /\ open /\ ~Recalled
      BY <3>2, <3>3
    <3>5. \A x \in Keys : NotOurs(x)
      BY <1>5, Zenon DEF OnPath, NotOurs
    <3>6. UNCHANGED <<peers, confirmed, desired, stage, todo, applied, failed>>
      BY <1>5, Zenon DEF OnPath
    <3> QED
      BY <1>0, <2>2, <3>4, <3>5, <3>6, ConvergeKept, Zenon
  <2> QED
    BY <2>1, <2>2, Zenon
<1>6. ASSUME NEW ks \in SUBSET Keys, RecoverStaleDirectPaths(ks)
      PROVE  ConvergeInv'
  BY <1>6 DEF RecoverStaleDirectPaths, ConvergeInv, Recalled
<1>7. CASE PeerReconciler
  BY <1>0, <1>7, ConvergeCalled, Zenon DEF PeerReconciler
<1>8. ASSUME NEW c \in Callers, ReconcileSkip(c)
      PROVE  ConvergeInv'
  <2>1. ~open'
    BY <1>8 DEF ReconcileSkip
  <2> QED
    BY <2>1, Zenon DEF ConvergeInv
<1>9. ASSUME NEW c \in Callers, ReconcileStart(c)
      PROVE  ConvergeInv'
  BY <1>0, <1>9, ConvergeCalled, Zenon DEF ReconcileStart
<1>10. ASSUME NEW c \in Callers, ReconcileBegin(c)
      PROVE  ConvergeInv'
  <2>1. stage' = "remove"
    BY <1>10, Zenon DEF ReconcileBegin
  <2>2. Snapshot(desired)'
    <3>1. \A k \in Keys : Wanted(k)' = Wanted(k)
      BY <1>10, WantedKept, Zenon DEF ReconcileBegin
    <3> QED
      BY <1>10, <3>1, Zenon DEF ReconcileBegin, Snapshot
  <2>3. ASSUME NEW k \in Keys \ todo', desired'[k] = Null
        PROVE  Reached(k)'
    BY <1>10, <2>3, Zenon DEF ReconcileBegin, Reached, AppliedKeys
  <2> QED
    BY <2>1, <2>2, <2>3, Zenon DEF ConvergeInv
<1>11. ASSUME NEW c \in Callers, ReconcileEnd(c)
      PROVE  ConvergeInv'
  <2>1. Recalled => Recalled'
    BY <1>0, <1>11 DEF ReconcileEnd, Become, Recalled, TypeOK
  <2>2. phase' = phase /\ open' = open /\ stage' = "none"
    BY <1>11, Zenon DEF ReconcileEnd, SessionOver
  <2> SUFFICES ASSUME phase = "live" /\ open /\ ~Recalled, NEW k \in Keys
               PROVE  Settled(k)'
    BY <2>1, <2>2 DEF ConvergeInv
  <2>3. Snapshot(desired) /\ Reached(k)
    BY <1>11, Zenon DEF ConvergeInv, ReconcileEnd
  <2>4. /\ applied' = applied /\ specs' = specs
        /\ peers' = peers /\ confirmed' = confirmed
    BY <1>11, Zenon DEF ReconcileEnd
  <2>5. Null \notin Wanted(k)
    BY <1>0, WantedBodies, ReconcileConstants, Zenon
  <2>6. CASE desired[k] = Null /\ applied[k] = Null
    <3>1. Wanted(k) = {}
      BY <2>3, <2>5, <2>6, Zenon DEF Snapshot
    <3>2. Wanted(k)' = {}
      BY <2>4, <3>1, WantedNone, Zenon
    <3> QED
      BY <2>4, <2>6, <3>2, Zenon DEF Settled
  <2>7. CASE ~(desired[k] = Null /\ applied[k] = Null)
    <3>1. path'[k] = path[k] /\ (k \in failed' <=> k \in failed)
      BY <1>11, <2>7, Zenon DEF ReconcileEnd, Forget
    <3>2. Wanted(k)' = Wanted(k)
      BY <2>4, <3>1, WantedKept, Zenon
    <3>3. Settled(k)
      BY <2>3, <2>5, <2>7, Zenon DEF Snapshot, Reached, Settled, OwnSpec
    <3> QED
      BY <2>4, <3>1, <3>2, <3>3, SettledKept, Zenon DEF NotOurs
  <2> QED
    BY <2>6, <2>7, Zenon
<1>12. ASSUME NEW k \in Keys, RemoveCheck(k)
      PROVE  ConvergeInv'
  BY <1>0, <1>12, ConvergeSame, Zenon DEF RemoveCheck
<1>13. ASSUME NEW k \in Keys, ApplyStolen(k)
      PROVE  ConvergeInv'
  <2>1. Reached(k)'
    BY <1>0, <1>13, Zenon DEF ApplyStolen, SetPeerError, SessionInv, Reached
  <2>2. \A j \in Keys \ {k} : /\ applied'[j] = applied[j] /\ specs'[j] = specs[j]
                              /\ j \in failed' <=> j \in failed
    BY <1>0, <1>13, Zenon DEF ApplyStolen, SetPeerError, TypeOK
  <2> QED
    BY <1>0, <1>13, <2>1, <2>2, ConvergeOne, Zenon DEF ApplyStolen
<1>14. ASSUME NEW k \in Keys, ApplyConflict(k)
      PROVE  ConvergeInv'
  <2>1. Reached(k)'
    BY <1>0, <1>14, Zenon DEF ApplyConflict, SetPeerError, SessionInv, Reached
  <2>2. \A j \in Keys \ {k} : /\ applied'[j] = applied[j] /\ specs'[j] = specs[j]
                              /\ j \in failed' <=> j \in failed
    BY <1>14, Zenon DEF ApplyConflict, SetPeerError
  <2> QED
    BY <1>0, <1>14, <2>1, <2>2, ConvergeOne, Zenon DEF ApplyConflict
<1>15. ASSUME NEW k \in Keys, ApplyCheck(k)
      PROVE  ConvergeInv'
  BY <1>0, <1>15, ConvergeSame, Zenon DEF ApplyCheck
<1>16. CASE RemoveFails
  <2>0. PICK x \in Keys : x = cur /\ desired[x] = Null
    BY <1>0, <1>16, Zenon DEF RemoveFails, TypeOK, SessionInv
  <2>1. Reached(x)'
    BY <1>16, <2>0, Zenon DEF RemoveFails, RemoveDone, SetPeerError, Reached
  <2>2. \A j \in Keys \ {x} : /\ applied'[j] = applied[j] /\ specs'[j] = specs[j]
                              /\ j \in failed' <=> j \in failed
    BY <1>16, <2>0, Zenon DEF RemoveFails, SetPeerError
  <2> QED
    BY <1>0, <1>16, <2>0, <2>1, <2>2, ConvergeOne, Zenon DEF RemoveFails, RemoveDone
<1>17. CASE RemoveSucceeds
  <2>0. PICK x \in Keys : x = cur /\ desired[x] = Null
    BY <1>0, <1>17, Zenon DEF RemoveSucceeds, TypeOK, SessionInv
  <2>1. Reached(x)'
    BY <1>0, <1>17, <2>0, Zenon DEF RemoveSucceeds, RemoveDone, TypeOK, Reached
  <2>2. \A j \in Keys \ {x} : /\ applied'[j] = applied[j] /\ specs'[j] = specs[j]
                              /\ j \in failed' <=> j \in failed
    BY <1>0, <1>17, <2>0 DEF RemoveSucceeds, Forget, TypeOK
  <2>3. \A j \in Keys : desired[j] = Null \/ path'[j] = path[j]
    BY <1>17, <2>0, Zenon DEF RemoveSucceeds, Forget
  <2>4. /\ UNCHANGED <<peers, confirmed, desired, stage, phase, open, wake, pc>>
        /\ stage = "remove" /\ todo' = todo \ {x}
    BY <1>17, <2>0, Zenon DEF RemoveSucceeds, RemoveDone
  <2> QED
    BY <1>0, <2>0, <2>1, <2>2, <2>3, <2>4, ConvergeOne, Zenon
<1>18. CASE RemoveFinish
  <2>1. Recalled' <=> Recalled
    BY <1>18 DEF RemoveFinish, Recalled
  <2>2. phase' = phase /\ open' = open /\ stage' = "apply"
    BY <1>18, Zenon DEF RemoveFinish
  <2> SUFFICES ASSUME phase = "live" /\ open /\ ~Recalled
               PROVE  Snapshot(desired)' /\ \A k \in Keys \ todo' : Reached(k)'
    BY <2>1, <2>2 DEF ConvergeInv
  <2>3. Snapshot(desired)'
    BY <1>0, <1>18, SnapshotKept, Zenon DEF RemoveFinish, ConvergeInv
  <2>4. ASSUME NEW k \in Keys \ todo'
        PROVE  Reached(k)'
    <3>1. desired[k] = Null /\ k \notin todo
      BY <1>18, <2>4, Zenon DEF RemoveFinish
    <3>2. Reached(k)
      BY <1>18, <3>1, Zenon DEF RemoveFinish, ConvergeInv
    <3> QED
      BY <1>18, <3>2, ReachedKept, Zenon DEF RemoveFinish, NotOurs
  <2> QED
    BY <2>3, <2>4, Zenon
<1>19. CASE ApplyFails
  <2>0. PICK x \in Keys : x = cur /\ desired[x] # Null
    BY <1>0, <1>19, Zenon DEF ApplyFails, TypeOK, SessionInv
  <2>1. Reached(x)'
    BY <1>19, <2>0, Zenon DEF ApplyFails, ApplyDone, SetPeerError, Reached
  <2>2. \A j \in Keys \ {x} : /\ applied'[j] = applied[j] /\ specs'[j] = specs[j]
                              /\ j \in failed' <=> j \in failed
    BY <1>19, <2>0, Zenon DEF ApplyFails, SetPeerError
  <2> QED
    BY <1>0, <1>19, <2>0, <2>1, <2>2, ConvergeOne, Zenon DEF ApplyFails, ApplyDone
<1>20. CASE ApplySucceeds
  <2>0. PICK x \in Keys : x = cur /\ desired[x] \in Bodies
    BY <1>0, <1>20, Zenon DEF ApplySucceeds, TypeOK, SessionInv
  <2>1. desired[x] # Null /\ desired[x].endpoint # Null
    BY <2>0, ReconcileConstants DEF Bodies
  <2>2. applied'[x] = desired[x].endpoint /\ desired' = desired
    BY <1>0, <1>20, <2>0, Zenon DEF ApplySucceeds, ApplyDone, TypeOK
  <2>3. OwnSpec(x)' => specs'[x].body = desired[x]
    <3>1. CASE NeedsUpsert(x)
      <4>1. specs'[x] = [body |-> desired[x], by |-> "us"]
        BY <1>0, <1>20, <2>0, <3>1, Zenon DEF ApplySucceeds, TypeOK
      <4> QED
        BY <4>1
    <3>2. CASE ~NeedsUpsert(x)
      BY <1>0, <1>20, <2>0, <3>2, Zenon DEF ApplySucceeds, NeedsUpsert, DeviceInv, OwnSpec
    <3> QED
      BY <3>1, <3>2, Zenon
  <2>4. Reached(x)'
    BY <2>1, <2>2, <2>3, Zenon DEF Reached
  <2>5. \A j \in Keys \ {x} : /\ applied'[j] = applied[j] /\ specs'[j] = specs[j]
                              /\ j \in failed' <=> j \in failed
    BY <1>0, <1>20, <2>0 DEF ApplySucceeds, TypeOK
  <2>6. /\ UNCHANGED <<peers, confirmed, desired, stage, phase, open, wake, pc>>
        /\ stage = "apply" /\ todo' = todo \ {x} /\ path' = path
    BY <1>20, <2>0, Zenon DEF ApplySucceeds, ApplyDone
  <2> QED
    BY <1>0, <2>4, <2>5, <2>6, ConvergeOne, Zenon
<1>21. CASE AttachDevice
  BY <1>0, <1>21, ConvergeCalled, Zenon DEF AttachDevice
<1>22. CASE DeviceCloses
  <2>1. ~open'
    BY <1>22, Zenon DEF DeviceCloses
  <2> QED
    BY <2>1, Zenon DEF ConvergeInv
<1>23. ASSUME NEW g \in 1..MaxDev, WatchDevice(g)
      PROVE  ConvergeInv'
  <2>1. CASE dev = g
    <3>1. ~open'
      BY <1>0, <1>23, <2>1 DEF WatchDevice, DeviceClosed, TypeOK
    <3> QED
      BY <3>1, Zenon DEF ConvergeInv
  <2>2. CASE dev # g
    BY <1>0, <1>23, <2>2, ConvergeSame, Zenon DEF WatchDevice
  <2> QED
    BY <2>1, <2>2, Zenon
<1>24. ASSUME NEW g \in 1..MaxDev, WatchCancelled(g)
      PROVE  ConvergeInv'
  BY <1>0, <1>24, ConvergeSame, Zenon DEF WatchCancelled
<1>25. ASSUME NEW k \in Keys, NEW s \in ForeignSpecs \cup {Null}, OtherController(k, s)
      PROVE  ConvergeInv'
  <2>1. \A x \in Keys : NotOurs(x)
    <3>1. s = Null \/ s.by # "us"
      BY ReconcileConstants
    <3> QED
      BY <1>0, <1>25, <3>1, Zenon DEF OtherController, NotOurs, TypeOK
  <2>2. Recalled' <=> Recalled
    BY <1>25 DEF OtherController, Recalled
  <2>3. phase' = phase /\ open' = open
    BY <1>25, Zenon DEF OtherController
  <2>4. phase' = "live" /\ open' /\ ~Recalled' => phase = "live" /\ open /\ ~Recalled
    BY <2>2, <2>3
  <2>5. /\ UNCHANGED <<peers, confirmed, desired, stage, todo, applied, failed>>
        /\ path' = path
    BY <1>25, Zenon DEF OtherController
  <2> QED
    BY <1>0, <2>1, <2>4, <2>5, ConvergeKept, Zenon
<1>26. CASE CloseBegin
  BY <1>26, Zenon DEF CloseBegin, ConvergeInv
<1>27. CASE ContextEnds
  BY <1>0, <1>27, ConvergeSame, Zenon DEF ContextEnds
<1>28. CASE ControlSetsState
  BY <1>0, <1>28, ConvergeSame, Zenon DEF ControlSetsState
<1>29. ASSUME NEW w \in Workers, WorkerExit(w)
      PROVE  ConvergeInv'
  BY <1>0, <1>29, ConvergeSame, Zenon DEF WorkerExit
<1>30. CASE CloseRemove
  BY <1>30, Zenon DEF CloseRemove, ConvergeInv
<1>31. CASE CloseForget
  BY <1>31, Zenon DEF CloseForget, ConvergeInv
<1>32. ASSUME NEW fails \in BOOLEAN, CloseRemovePeer(fails)
      PROVE  ConvergeInv'
  BY <1>0, <1>32, Zenon DEF CloseRemovePeer, RemoveDone, LifeInv, ConvergeInv
<1>33. ASSUME NEW fails \in BOOLEAN, CloseFinish(fails)
      PROVE  ConvergeInv'
  BY <1>33, Zenon DEF CloseFinish, ConvergeInv
<1>34. CASE UNCHANGED vars
  BY <1>0, <1>34, ConvergeSame, Zenon DEF vars
<1> QED
  BY <1>1, <1>2, <1>3, <1>4, <1>5, <1>6, <1>7, <1>8, <1>9, <1>10, <1>11,
     <1>12, <1>13, <1>14, <1>15, <1>16, <1>17, <1>18, <1>19, <1>20, <1>21,
     <1>22, <1>23, <1>24, <1>25, <1>26, <1>27, <1>28, <1>29, <1>30, <1>31,
     <1>32, <1>33, <1>34, Zenon
  DEF Next, Trigger, Session, Device, Shutdown

\* When nothing runs and no call is to come, the device holds what control and
\* the confirmations ask for, or an error is recorded for the peer.
THEOREM Converges == Spec => []Converged
<1>1. Init => ConvergeInv
  <2> SUFFICES ASSUME Init PROVE ConvergeInv
    BY Zenon
  <2>1. stage = "none" /\ peers = [n \in NodeIDs |-> Null] /\ applied = [k \in Keys |-> Null]
    BY Zenon DEF Init
  <2>2. ASSUME NEW k \in Keys PROVE Settled(k)
    <3>1. Wanted(k) = {}
      BY <2>1 DEF Wanted, Admitted
    <3> QED
      BY <2>1, <3>1, Zenon DEF Settled
  <2> QED
    BY <2>1, <2>2, Zenon DEF ConvergeInv
<1>2. ConvergeInv => Converged
  BY Zenon DEF ConvergeInv, Converged, Quiescent, Recalled
<1> QED
  BY Invariance, ConvergeStep, <1>1, <1>2, PTL DEF Spec
=============================================================================

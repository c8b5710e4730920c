---------------------------- MODULE ClientProofs ----------------------------
(***************************************************************************)
(* Proofs about the life of a client (Lifecycle), about what it tells      *)
(* control of its endpoints and home region (EndpointReports) and about    *)
(* the names it resolves (MagicDNS).                                       *)
(***************************************************************************)
EXTENDS Lifecycle, EndpointReports, MagicDNS, TLAPS

-----------------------------------------------------------------------------
(***************************************************************************)
(* Lifecycle: PhaseInv says who can exist in each phase of the client's    *)
(* life and AuthInv that only an authenticated goroutine is in the map     *)
(* loop; with them the safety properties are inductive.                    *)
(***************************************************************************)

\* Every action keeps the types.
LEMMA TypeStep == IndInv /\ [Next]_vars => TypeOK'
<1> SUFFICES ASSUME IndInv, [Next]_vars PROVE TypeOK'
  BY Zenon
<1>0. TypeOK
  BY Zenon DEF IndInv
<1> USE LifecycleConstants DEF TypeOK, States, Authenticating, Mapping, Finishing,
          viewVars, lifeVars, devVars, ctlVars
<1>1. CASE StartBegin
  BY <1>0, <1>1 DEF StartBegin
<1>2. CASE StartFails
  BY <1>0, <1>2 DEF StartFails
<1>3. CASE StartDone
  <2>1. runtime' \in BOOLEAN
    BY <1>0, <1>3, Zenon DEF TypeOK, StartDone
  <2> QED
    BY <1>0, <1>3, <2>1 DEF StartDone
<1>4. CASE AttachDevice
  <2>1. open' \in BOOLEAN /\ runtime' \in BOOLEAN
    BY <1>0, <1>4, Zenon DEF TypeOK, AttachDevice
  <2>2. gen' \in 0..MaxGen /\ watch' \in SUBSET (1..MaxGen)
    <3>1. gen + 1 \in 1..MaxGen /\ gen' = gen + 1
      BY <1>0, <1>4 DEF AttachDevice
    <3>2. watch' = watch \/ watch' = watch \cup {gen + 1}
      BY <1>0, <1>4, Zenon DEF AttachDevice
    <3>3. watch \in SUBSET (1..MaxGen)
      BY <1>0, Zenon
    <3>4. watch' \in SUBSET (1..MaxGen)
      BY <3>1, <3>2, <3>3, Zenon
    <3> QED
      BY <3>1, <3>4
  <2>3. /\ state' \in States
        /\ lastErr' \in {"none", "device", "expired", "other"}
    BY <1>0, <1>4, Zenon DEF AttachDevice, RestoreState
  <2>4. ctl' \in {"off", "exit"} \cup Authenticating \cup Mapping \cup Finishing
    BY <1>0, <1>4, Zenon DEF AttachDevice
  <2> QED
    BY <1>0, <1>4, <2>1, <2>2, <2>3, <2>4 DEF AttachDevice
<1>5. CASE DeviceCloses
  <2>1. open' \in BOOLEAN
    BY <1>0, <1>5, Zenon DEF DeviceCloses
  <2> QED
    BY <1>0, <1>5, <2>1 DEF DeviceCloses
<1>6. ASSUME NEW g \in 1..MaxGen, WatchDevice(g)
      PROVE  TypeOK'
  BY <1>0, <1>6 DEF WatchDevice, ShuttingDown
<1>7. ASSUME NEW g \in 1..MaxGen, WatchCancelled(g)
      PROVE  TypeOK'
  BY <1>0, <1>7 DEF WatchCancelled
<1>8. CASE RegisterFails
  BY <1>0, <1>8 DEF RegisterFails, Control
<1>9. CASE ReportRegisterError
  BY <1>0, <1>9 DEF ReportRegisterError, Control
<1>10. CASE RegisterExpired
  BY <1>0, <1>10
  DEF RegisterExpired, Control, SetInteraction, NewInteraction, Interactions
<1>11. ASSUME NEW url \in URLs, RegisterURL(url)
      PROVE  TypeOK'
  BY <1>0, <1>11
  DEF RegisterURL, Control, SetInteraction, NewInteraction, Interactions
<1>12. CASE RegisterOK
  BY <1>0, <1>12 DEF RegisterOK, Control
<1>13. CASE WaitOver
  <2>1. resume' \in SUBSET {"called", "token"}
    BY <1>0, <1>13, Zenon DEF TypeOK, WaitOver
  <2> QED
    BY <1>0, <1>13, <2>1 DEF WaitOver, Control
<1>14. CASE AuthenticateCancelled
  BY <1>0, <1>14 DEF AuthenticateCancelled, Control
<1>15. CASE SetTerminalError
  BY <1>0, <1>15 DEF SetTerminalError, Control
<1>16. CASE TerminalExit
  BY <1>0, <1>16 DEF TerminalExit, Control
<1>17. ASSUME NEW exp \in BOOLEAN, NEW url \in URLs \cup {Null}, ApplyMapResponse(exp, url)
      PROVE  TypeOK'
  BY <1>0, <1>17, SMTT(30) DEF ApplyMapResponse, Interactions
<1>18. CASE MapStreamEnds
  BY <1>0, <1>18 DEF MapStreamEnds, Control
<1>19. CASE ReportMapError
  BY <1>0, <1>19 DEF ReportMapError, Control
<1>20. CASE MapReconnect
  BY <1>0, <1>20 DEF MapReconnect, Control
<1>21. CASE MapLoopExit
  BY <1>0, <1>21 DEF MapLoopExit, Control
<1>22. CASE ResumeInteraction
  <2>1. resume' \in SUBSET {"called", "token"}
    BY <1>0, <1>22, Zenon DEF TypeOK, ResumeInteraction
  <2> QED
    BY <1>0, <1>22, <2>1 DEF ResumeInteraction, ShuttingDown
<1>22a. CASE ResumeSend
  <2>1. resume' \in SUBSET {"called", "token"}
    BY <1>22a, Zenon DEF ResumeSend
  <2> QED
    BY <1>0, <1>22a, <2>1 DEF ResumeSend
<1>23. CASE ErrorReported
  BY <1>0, <1>23 DEF ErrorReported
<1>24. ASSUME NEW how \in {"cancelled", "deadline"}, ParentEnds(how)
      PROVE  TypeOK'
  BY <1>0, <1>24 DEF ParentEnds
<1>25. CASE CloseNotStarted
  BY <1>0, <1>25 DEF CloseNotStarted
<1>26. CASE CloseBegin
  BY <1>0, <1>26 DEF CloseBegin
<1>27. CASE CloseCancel
  BY <1>0, <1>27 DEF CloseCancel
<1>28. CASE CloseWait
  BY <1>0, <1>28 DEF CloseWait
<1>29. CASE CloseStopped
  <2>1. terminal' \in BOOLEAN
    BY <1>0, <1>29, Zenon DEF TypeOK, CloseStopped
  <2> QED
    BY <1>0, <1>29, <2>1 DEF CloseStopped
<1>30. CASE CloseDone
  BY <1>0, <1>30 DEF CloseDone
<1>31. CASE UNCHANGED vars
  BY <1>0, <1>31 DEF vars
<1> QED
  BY <1>1, <1>2, <1>3, <1>4, <1>5, <1>6, <1>7, <1>8, <1>9, <1>10, <1>11,
     <1>12, <1>13, <1>14, <1>15, <1>16, <1>17, <1>18, <1>19, <1>20, <1>21,
     <1>22, <1>22a, <1>23, <1>24, <1>25, <1>26, <1>27, <1>28, <1>29, <1>30, <1>31, Zenon
  DEF Next, Attachment, ControlGoroutine, Application, Shutdown

\* Workers and watchers end before Close goes past its wait.
LEMMA PhaseStep == IndInv /\ [Next]_vars => PhaseInv'
<1> SUFFICES ASSUME IndInv, [Next]_vars PROVE PhaseInv'
  BY Zenon
<1>0. PhaseInv /\ ctx \in {"none", "live", "cancelled", "deadline"}
  BY Zenon DEF IndInv, TypeOK
<1> USE DEF PhaseInv, ContextOver,
          viewVars, lifeVars, devVars, ctlVars
<1>1. CASE StartBegin
  BY <1>0, <1>1, Zenon DEF StartBegin
<1>2. CASE StartFails
  BY <1>0, <1>2, Zenon DEF StartFails
<1>3. CASE StartDone
  BY <1>0, <1>3, Zenon DEF StartDone
<1>4. CASE AttachDevice
  BY <1>0, <1>4, Zenon DEF AttachDevice, RestoreState, ShuttingDown
<1>5. CASE DeviceCloses
  BY <1>0, <1>5, Zenon DEF DeviceCloses
<1>6. ASSUME NEW g \in 1..MaxGen, WatchDevice(g)
      PROVE  PhaseInv'
  BY <1>0, <1>6, Zenon DEF WatchDevice, ShuttingDown
<1>7. ASSUME NEW g \in 1..MaxGen, WatchCancelled(g)
      PROVE  PhaseInv'
  BY <1>0, <1>7, Zenon DEF WatchCancelled
<1>8. CASE RegisterFails
  BY <1>0, <1>8, Zenon DEF RegisterFails, Control
<1>9. CASE ReportRegisterError
  BY <1>0, <1>9, Zenon DEF ReportRegisterError, Control
<1>10. CASE RegisterExpired
  BY <1>0, <1>10, Zenon DEF RegisterExpired, Control, SetInteraction, NewInteraction
<1>11. ASSUME NEW url \in URLs, RegisterURL(url)
      PROVE  PhaseInv'
  BY <1>0, <1>11, Zenon DEF RegisterURL, Control, SetInteraction, NewInteraction
<1>12. CASE RegisterOK
  BY <1>0, <1>12, Zenon DEF RegisterOK, Control
<1>13. CASE WaitOver
  BY <1>0, <1>13, Zenon DEF WaitOver, Control
<1>14. CASE AuthenticateCancelled
  BY <1>0, <1>14, Zenon DEF AuthenticateCancelled, Control
<1>15. CASE SetTerminalError
  BY <1>0, <1>15, Zenon DEF SetTerminalError, Control
<1>16. CASE TerminalExit
  BY <1>0, <1>16, Zenon DEF TerminalExit, Control
<1>17. ASSUME NEW exp \in BOOLEAN, NEW url \in URLs \cup {Null}, ApplyMapResponse(exp, url)
      PROVE  PhaseInv'
  BY <1>0, <1>17, Zenon DEF ApplyMapResponse
<1>18. CASE MapStreamEnds
  BY <1>0, <1>18, Zenon DEF MapStreamEnds, Control
<1>19. CASE ReportMapError
  BY <1>0, <1>19, Zenon DEF ReportMapError, Control
<1>20. CASE MapReconnect
  BY <1>0, <1>20, Zenon DEF MapReconnect, Control
<1>21. CASE MapLoopExit
  BY <1>0, <1>21, Zenon DEF MapLoopExit, Control
<1>22. CASE ResumeInteraction
  BY <1>0, <1>22, Zenon DEF ResumeInteraction, ShuttingDown
<1>22a. CASE ResumeSend
  BY <1>0, <1>22a, Zenon DEF ResumeSend
<1>23. CASE ErrorReported
  BY <1>0, <1>23, Zenon DEF ErrorReported
<1>24. ASSUME NEW how \in {"cancelled", "deadline"}, ParentEnds(how)
      PROVE  PhaseInv'
  BY <1>0, <1>24, Zenon DEF ParentEnds
<1>25. CASE CloseNotStarted
  BY <1>0, <1>25, Zenon DEF CloseNotStarted
<1>26. CASE CloseBegin
  BY <1>0, <1>26, Zenon DEF CloseBegin
<1>27. CASE CloseCancel
  BY <1>0, <1>27, Zenon DEF CloseCancel
<1>28. CASE CloseWait
  BY <1>0, <1>28, Zenon DEF CloseWait
<1>29. CASE CloseStopped
  BY <1>0, <1>29, Zenon DEF CloseStopped
<1>30. CASE CloseDone
  BY <1>0, <1>30, Zenon DEF CloseDone
<1>31. CASE UNCHANGED vars
  BY <1>0, <1>31, Zenon DEF vars
<1> QED
  BY <1>1, <1>2, <1>3, <1>4, <1>5, <1>6, <1>7, <1>8, <1>9, <1>10, <1>11,
     <1>12, <1>13, <1>14, <1>15, <1>16, <1>17, <1>18, <1>19, <1>20, <1>21,
     <1>22, <1>22a, <1>23, <1>24, <1>25, <1>26, <1>27, <1>28, <1>29, <1>30, <1>31, Zenon
  DEF Next, Attachment, ControlGoroutine, Application, Shutdown

\* The map loop is entered by a successful registration only.
LEMMA AuthStep == IndInv /\ [Next]_vars => AuthInv'
<1> SUFFICES ASSUME IndInv, [Next]_vars PROVE AuthInv'
  BY Zenon
<1>0. AuthInv /\ PhaseInv /\ ctl \in {"off", "exit"} \cup Authenticating \cup Mapping \cup Finishing
  BY Zenon DEF IndInv, TypeOK
<1> USE DEF AuthInv, Authenticating, Mapping, Finishing,
          viewVars, lifeVars, devVars, ctlVars
<1>1. CASE StartBegin
  BY <1>0, <1>1, Zenon DEF StartBegin
<1>2. CASE StartFails
  BY <1>0, <1>2, Zenon DEF StartFails
<1>3. CASE StartDone
  BY <1>0, <1>3, Zenon DEF StartDone, PhaseInv
<1>4. CASE AttachDevice
  BY <1>0, <1>4, Zenon DEF AttachDevice, RestoreState, ShuttingDown, PhaseInv
<1>5. CASE DeviceCloses
  BY <1>0, <1>5, Zenon DEF DeviceCloses
<1>6. ASSUME NEW g \in 1..MaxGen, WatchDevice(g)
      PROVE  AuthInv'
  BY <1>0, <1>6, Zenon DEF WatchDevice, ShuttingDown
<1>7. ASSUME NEW g \in 1..MaxGen, WatchCancelled(g)
      PROVE  AuthInv'
  BY <1>0, <1>7, Zenon DEF WatchCancelled
<1>8. CASE RegisterFails
  BY <1>0, <1>8, Zenon DEF RegisterFails, Control
<1>9. CASE ReportRegisterError
  BY <1>0, <1>9, Zenon DEF ReportRegisterError, Control
<1>10. CASE RegisterExpired
  BY <1>0, <1>10, Zenon DEF RegisterExpired, Control, SetInteraction, NewInteraction
<1>11. ASSUME NEW url \in URLs, RegisterURL(url)
      PROVE  AuthInv'
  BY <1>0, <1>11, Zenon DEF RegisterURL, Control, SetInteraction, NewInteraction
<1>12. CASE RegisterOK
  BY <1>0, <1>12, Zenon DEF RegisterOK, Control, PhaseInv
<1>13. CASE WaitOver
  BY <1>0, <1>13, Zenon DEF WaitOver, Control
<1>14. CASE AuthenticateCancelled
  BY <1>0, <1>14, Zenon DEF AuthenticateCancelled, Control
<1>15. CASE SetTerminalError
  BY <1>0, <1>15, Zenon DEF SetTerminalError, Control
<1>16. CASE TerminalExit
  BY <1>0, <1>16, Zenon DEF TerminalExit, Control
<1>17. ASSUME NEW exp \in BOOLEAN, NEW url \in URLs \cup {Null}, ApplyMapResponse(exp, url)
      PROVE  AuthInv'
  BY <1>0, <1>17, Zenon DEF ApplyMapResponse
<1>18. CASE MapStreamEnds
  BY <1>0, <1>18, Zenon DEF MapStreamEnds, Control
<1>19. CASE ReportMapError
  BY <1>0, <1>19, Zenon DEF ReportMapError, Control
<1>20. CASE MapReconnect
  BY <1>0, <1>20, Zenon DEF MapReconnect, Control
<1>21. CASE MapLoopExit
  BY <1>0, <1>21, Zenon DEF MapLoopExit, Control
<1>22. CASE ResumeInteraction
  BY <1>0, <1>22, Zenon DEF ResumeInteraction, ShuttingDown
<1>22a. CASE ResumeSend
  BY <1>0, <1>22a, Zenon DEF ResumeSend
<1>23. CASE ErrorReported
  BY <1>0, <1>23, Zenon DEF ErrorReported
<1>24. ASSUME NEW how \in {"cancelled", "deadline"}, ParentEnds(how)
      PROVE  AuthInv'
  BY <1>0, <1>24, Zenon DEF ParentEnds
<1>25. CASE CloseNotStarted
  BY <1>0, <1>25, Zenon DEF CloseNotStarted
<1>26. CASE CloseBegin
  BY <1>0, <1>26, Zenon DEF CloseBegin
<1>27. CASE CloseCancel
  BY <1>0, <1>27, Zenon DEF CloseCancel
<1>28. CASE CloseWait
  BY <1>0, <1>28, Zenon DEF CloseWait
<1>29. CASE CloseStopped
  BY <1>0, <1>29, Zenon DEF CloseStopped
<1>30. CASE CloseDone
  BY <1>0, <1>30, Zenon DEF CloseDone
<1>31. CASE UNCHANGED vars
  BY <1>0, <1>31, Zenon DEF vars
<1> QED
  BY <1>1, <1>2, <1>3, <1>4, <1>5, <1>6, <1>7, <1>8, <1>9, <1>10, <1>11,
     <1>12, <1>13, <1>14, <1>15, <1>16, <1>17, <1>18, <1>19, <1>20, <1>21,
     <1>22, <1>22a, <1>23, <1>24, <1>25, <1>26, <1>27, <1>28, <1>29, <1>30, <1>31, Zenon
  DEF Next, Attachment, ControlGoroutine, Application, Shutdown

\* Only registration shows or withdraws an authentication URL.
LEMMA InteractionStep == IndInv /\ [Next]_vars => InteractionMatchesControl'
<1> SUFFICES ASSUME IndInv, [Next]_vars PROVE InteractionMatchesControl'
  BY Zenon
<1>0. InteractionMatchesControl /\ AuthInv /\ PhaseInv /\ TypeOK
  BY Zenon DEF IndInv
<1> USE LifecycleConstants DEF InteractionMatchesControl, AuthInv, Authenticating, Mapping,
       Finishing,
          viewVars, lifeVars, devVars, ctlVars
<1>1. CASE StartBegin
  BY <1>0, <1>1, Zenon DEF StartBegin
<1>2. CASE StartFails
  BY <1>0, <1>2, Zenon DEF StartFails
<1>3. CASE StartDone
  BY <1>0, <1>3, Zenon DEF StartDone
<1>4. CASE AttachDevice
  BY <1>0, <1>4, Zenon DEF AttachDevice, RestoreState, ShuttingDown
<1>5. CASE DeviceCloses
  BY <1>0, <1>5, Zenon DEF DeviceCloses
<1>6. ASSUME NEW g \in 1..MaxGen, WatchDevice(g)
      PROVE  InteractionMatchesControl'
  BY <1>0, <1>6, Zenon DEF WatchDevice, ShuttingDown
<1>7. ASSUME NEW g \in 1..MaxGen, WatchCancelled(g)
      PROVE  InteractionMatchesControl'
  BY <1>0, <1>7, Zenon DEF WatchCancelled
<1>8. CASE RegisterFails
  BY <1>0, <1>8, Zenon DEF RegisterFails, Control
<1>9. CASE ReportRegisterError
  BY <1>0, <1>9, Zenon DEF ReportRegisterError, Control
<1>10. CASE RegisterExpired
  BY <1>0, <1>10, Zenon DEF RegisterExpired, Control, SetInteraction, NewInteraction
<1>11. ASSUME NEW url \in URLs, RegisterURL(url)
      PROVE  InteractionMatchesControl'
  <2>1. ~auth /\ auth' = auth
    BY <1>0, <1>11, Zenon DEF RegisterURL, Control
  <2>2. inter' # Null /\ inter'.kind = "authenticate"
    <3>1. CASE inter # Null /\ inter.kind = "authenticate" /\ inter.url = url
      BY <1>0, <1>11, <3>1, Zenon DEF RegisterURL, SetInteraction
    <3>2. CASE ~(inter # Null /\ inter.kind = "authenticate" /\ inter.url = url)
      <4>1. lastID \in Nat /\ lastID < MaxID
        BY <1>0, <1>11, <3>2 DEF RegisterURL, SetInteraction, NewInteraction, TypeOK
      <4>2. inter' = [id |-> lastID + 1, kind |-> "authenticate", url |-> url]
        BY <1>0, <1>11, <3>2, Zenon DEF RegisterURL, SetInteraction, NewInteraction
      <4>3. inter' \in Interactions
        BY <4>1, <4>2 DEF Interactions
      <4> QED
        BY <4>2, <4>3, Zenon
    <3> QED
      BY <3>1, <3>2, Zenon
  <2> QED
    BY <2>1, <2>2, Zenon
<1>12. CASE RegisterOK
  BY <1>0, <1>12, Zenon DEF RegisterOK, Control
<1>13. CASE WaitOver
  BY <1>0, <1>13, Zenon DEF WaitOver, Control
<1>14. CASE AuthenticateCancelled
  BY <1>0, <1>14, Zenon DEF AuthenticateCancelled, Control
<1>15. CASE SetTerminalError
  BY <1>0, <1>15, Zenon DEF SetTerminalError, Control
<1>16. CASE TerminalExit
  BY <1>0, <1>16, Zenon DEF TerminalExit, Control
<1>17. ASSUME NEW exp \in BOOLEAN, NEW url \in URLs \cup {Null}, ApplyMapResponse(exp, url)
      PROVE  InteractionMatchesControl'
  BY <1>0, <1>17, Zenon DEF ApplyMapResponse
<1>18. CASE MapStreamEnds
  BY <1>0, <1>18, Zenon DEF MapStreamEnds, Control
<1>19. CASE ReportMapError
  BY <1>0, <1>19, Zenon DEF ReportMapError, Control
<1>20. CASE MapReconnect
  BY <1>0, <1>20, Zenon DEF MapReconnect, Control
<1>21. CASE MapLoopExit
  BY <1>0, <1>21, Zenon DEF MapLoopExit, Control
<1>22. CASE ResumeInteraction
  BY <1>0, <1>22, Zenon DEF ResumeInteraction, ShuttingDown
<1>22a. CASE ResumeSend
  BY <1>0, <1>22a, Zenon DEF ResumeSend
<1>23. CASE ErrorReported
  BY <1>0, <1>23, Zenon DEF ErrorReported
<1>24. ASSUME NEW how \in {"cancelled", "deadline"}, ParentEnds(how)
      PROVE  InteractionMatchesControl'
  BY <1>0, <1>24, Zenon DEF ParentEnds
<1>25. CASE CloseNotStarted
  BY <1>0, <1>25, Zenon DEF CloseNotStarted
<1>26. CASE CloseBegin
  BY <1>0, <1>26, Zenon DEF CloseBegin
<1>27. CASE CloseCancel
  BY <1>0, <1>27, Zenon DEF CloseCancel
<1>28. CASE CloseWait
  BY <1>0, <1>28, Zenon DEF CloseWait
<1>29. CASE CloseStopped
  BY <1>0, <1>29, Zenon DEF CloseStopped
<1>30. CASE CloseDone
  BY <1>0, <1>30, Zenon DEF CloseDone
<1>31. CASE UNCHANGED vars
  BY <1>0, <1>31, Zenon DEF vars
<1> QED
  BY <1>1, <1>2, <1>3, <1>4, <1>5, <1>6, <1>7, <1>8, <1>9, <1>10, <1>11,
     <1>12, <1>13, <1>14, <1>15, <1>16, <1>17, <1>18, <1>19, <1>20, <1>21,
     <1>22, <1>22a, <1>23, <1>24, <1>25, <1>26, <1>27, <1>28, <1>29, <1>30, <1>31, Zenon
  DEF Next, Attachment, ControlGoroutine, Application, Shutdown

\* Attaching clears the error and outdates the old watcher.
LEMMA DeviceErrorStep == IndInv /\ [Next]_vars => DeviceErrorIsCurrent'
<1> SUFFICES ASSUME IndInv, [Next]_vars PROVE DeviceErrorIsCurrent'
  BY Zenon
<1>0. DeviceErrorIsCurrent /\ PhaseInv /\ gen \in 0..MaxGen /\ open \in BOOLEAN
  BY Zenon DEF IndInv, TypeOK
<1> USE DEF DeviceErrorIsCurrent,
          viewVars, lifeVars, devVars, ctlVars
<1>1. CASE StartBegin
  BY <1>0, <1>1, Zenon DEF StartBegin
<1>2. CASE StartFails
  BY <1>0, <1>2, Zenon DEF StartFails
<1>3. CASE StartDone
  BY <1>0, <1>3, Zenon DEF StartDone
<1>4. CASE AttachDevice
  BY <1>0, <1>4, Zenon DEF AttachDevice, RestoreState, ShuttingDown, PhaseInv
<1>5. CASE DeviceCloses
  BY <1>0, <1>5, Zenon DEF DeviceCloses
<1>6. ASSUME NEW g \in 1..MaxGen, WatchDevice(g)
      PROVE  DeviceErrorIsCurrent'
  BY <1>0, <1>6 DEF WatchDevice, ShuttingDown
<1>7. ASSUME NEW g \in 1..MaxGen, WatchCancelled(g)
      PROVE  DeviceErrorIsCurrent'
  BY <1>0, <1>7, Zenon DEF WatchCancelled
<1>8. CASE RegisterFails
  BY <1>0, <1>8, Zenon DEF RegisterFails, Control
<1>9. CASE ReportRegisterError
  BY <1>0, <1>9, Zenon DEF ReportRegisterError, Control
<1>10. CASE RegisterExpired
  BY <1>0, <1>10, Zenon DEF RegisterExpired, Control, SetInteraction, NewInteraction
<1>11. ASSUME NEW url \in URLs, RegisterURL(url)
      PROVE  DeviceErrorIsCurrent'
  BY <1>0, <1>11, Zenon DEF RegisterURL, Control, SetInteraction, NewInteraction
<1>12. CASE RegisterOK
  BY <1>0, <1>12, Zenon DEF RegisterOK, Control
<1>13. CASE WaitOver
  BY <1>0, <1>13, Zenon DEF WaitOver, Control
<1>14. CASE AuthenticateCancelled
  BY <1>0, <1>14, Zenon DEF AuthenticateCancelled, Control
<1>15. CASE SetTerminalError
  BY <1>0, <1>15, Zenon DEF SetTerminalError, Control
<1>16. CASE TerminalExit
  BY <1>0, <1>16, Zenon DEF TerminalExit, Control
<1>17. ASSUME NEW exp \in BOOLEAN, NEW url \in URLs \cup {Null}, ApplyMapResponse(exp, url)
      PROVE  DeviceErrorIsCurrent'
  BY <1>0, <1>17, Zenon DEF ApplyMapResponse
<1>18. CASE MapStreamEnds
  BY <1>0, <1>18, Zenon DEF MapStreamEnds, Control
<1>19. CASE ReportMapError
  BY <1>0, <1>19, Zenon DEF ReportMapError, Control
<1>20. CASE MapReconnect
  BY <1>0, <1>20, Zenon DEF MapReconnect, Control
<1>21. CASE MapLoopExit
  BY <1>0, <1>21, Zenon DEF MapLoopExit, Control
<1>22. CASE ResumeInteraction
  BY <1>0, <1>22, Zenon DEF ResumeInteraction, ShuttingDown
<1>22a. CASE ResumeSend
  BY <1>0, <1>22a, Zenon DEF ResumeSend
<1>23. CASE ErrorReported
  BY <1>0, <1>23, Zenon DEF ErrorReported
<1>24. ASSUME NEW how \in {"cancelled", "deadline"}, ParentEnds(how)
      PROVE  DeviceErrorIsCurrent'
  BY <1>0, <1>24, Zenon DEF ParentEnds
<1>25. CASE CloseNotStarted
  BY <1>0, <1>25, Zenon DEF CloseNotStarted
<1>26. CASE CloseBegin
  BY <1>0, <1>26, Zenon DEF CloseBegin
<1>27. CASE CloseCancel
  BY <1>0, <1>27, Zenon DEF CloseCancel
<1>28. CASE CloseWait
  BY <1>0, <1>28, Zenon DEF CloseWait
<1>29. CASE CloseStopped
  BY <1>0, <1>29, Zenon DEF CloseStopped
<1>30. CASE CloseDone
  BY <1>0, <1>30, Zenon DEF CloseDone
<1>31. CASE UNCHANGED vars
  BY <1>0, <1>31, Zenon DEF vars
<1> QED
  BY <1>1, <1>2, <1>3, <1>4, <1>5, <1>6, <1>7, <1>8, <1>9, <1>10, <1>11,
     <1>12, <1>13, <1>14, <1>15, <1>16, <1>17, <1>18, <1>19, <1>20, <1>21,
     <1>22, <1>22a, <1>23, <1>24, <1>25, <1>26, <1>27, <1>28, <1>29, <1>30, <1>31, Zenon
  DEF Next, Attachment, ControlGoroutine, Application, Shutdown

\* Every writer of Running has authenticated.
LEMMA RunningStep == IndInv /\ [Next]_vars => RunningIsAuthenticated'
<1> SUFFICES ASSUME IndInv, [Next]_vars PROVE RunningIsAuthenticated'
  BY Zenon
<1>0. RunningIsAuthenticated /\ AuthInv /\ PhaseInv
  BY Zenon DEF IndInv
<1> USE DEF RunningIsAuthenticated, AuthInv, Mapping,
          viewVars, lifeVars, devVars, ctlVars
<1>1. CASE StartBegin
  BY <1>0, <1>1, Zenon DEF StartBegin
<1>2. CASE StartFails
  BY <1>0, <1>2, Zenon DEF StartFails
<1>3. CASE StartDone
  BY <1>0, <1>3, Zenon DEF StartDone, PhaseInv
<1>4. CASE AttachDevice
  BY <1>0, <1>4, Zenon DEF AttachDevice, RestoreState, ShuttingDown
<1>5. CASE DeviceCloses
  BY <1>0, <1>5, Zenon DEF DeviceCloses
<1>6. ASSUME NEW g \in 1..MaxGen, WatchDevice(g)
      PROVE  RunningIsAuthenticated'
  BY <1>0, <1>6, Zenon DEF WatchDevice, ShuttingDown
<1>7. ASSUME NEW g \in 1..MaxGen, WatchCancelled(g)
      PROVE  RunningIsAuthenticated'
  BY <1>0, <1>7, Zenon DEF WatchCancelled
<1>8. CASE RegisterFails
  BY <1>0, <1>8, Zenon DEF RegisterFails, Control
<1>9. CASE ReportRegisterError
  BY <1>0, <1>9, Zenon DEF ReportRegisterError, Control
<1>10. CASE RegisterExpired
  BY <1>0, <1>10, Zenon DEF RegisterExpired, Control, SetInteraction, NewInteraction
<1>11. ASSUME NEW url \in URLs, RegisterURL(url)
      PROVE  RunningIsAuthenticated'
  BY <1>0, <1>11, Zenon DEF RegisterURL, Control, SetInteraction, NewInteraction
<1>12. CASE RegisterOK
  BY <1>0, <1>12, Zenon DEF RegisterOK, Control, PhaseInv
<1>13. CASE WaitOver
  BY <1>0, <1>13, Zenon DEF WaitOver, Control
<1>14. CASE AuthenticateCancelled
  BY <1>0, <1>14, Zenon DEF AuthenticateCancelled, Control
<1>15. CASE SetTerminalError
  BY <1>0, <1>15, Zenon DEF SetTerminalError, Control
<1>16. CASE TerminalExit
  BY <1>0, <1>16, Zenon DEF TerminalExit, Control
<1>17. ASSUME NEW exp \in BOOLEAN, NEW url \in URLs \cup {Null}, ApplyMapResponse(exp, url)
      PROVE  RunningIsAuthenticated'
  BY <1>0, <1>17, Zenon DEF ApplyMapResponse
<1>18. CASE MapStreamEnds
  BY <1>0, <1>18, Zenon DEF MapStreamEnds, Control
<1>19. CASE ReportMapError
  BY <1>0, <1>19, Zenon DEF ReportMapError, Control
<1>20. CASE MapReconnect
  BY <1>0, <1>20, Zenon DEF MapReconnect, Control
<1>21. CASE MapLoopExit
  BY <1>0, <1>21, Zenon DEF MapLoopExit, Control
<1>22. CASE ResumeInteraction
  BY <1>0, <1>22, Zenon DEF ResumeInteraction, ShuttingDown
<1>22a. CASE ResumeSend
  BY <1>0, <1>22a, Zenon DEF ResumeSend
<1>23. CASE ErrorReported
  BY <1>0, <1>23, Zenon DEF ErrorReported
<1>24. ASSUME NEW how \in {"cancelled", "deadline"}, ParentEnds(how)
      PROVE  RunningIsAuthenticated'
  BY <1>0, <1>24, Zenon DEF ParentEnds
<1>25. CASE CloseNotStarted
  BY <1>0, <1>25, Zenon DEF CloseNotStarted
<1>26. CASE CloseBegin
  BY <1>0, <1>26, Zenon DEF CloseBegin
<1>27. CASE CloseCancel
  BY <1>0, <1>27, Zenon DEF CloseCancel
<1>28. CASE CloseWait
  BY <1>0, <1>28, Zenon DEF CloseWait
<1>29. CASE CloseStopped
  BY <1>0, <1>29, Zenon DEF CloseStopped
<1>30. CASE CloseDone
  BY <1>0, <1>30, Zenon DEF CloseDone
<1>31. CASE UNCHANGED vars
  BY <1>0, <1>31, Zenon DEF vars
<1> QED
  BY <1>1, <1>2, <1>3, <1>4, <1>5, <1>6, <1>7, <1>8, <1>9, <1>10, <1>11,
     <1>12, <1>13, <1>14, <1>15, <1>16, <1>17, <1>18, <1>19, <1>20, <1>21,
     <1>22, <1>22a, <1>23, <1>24, <1>25, <1>26, <1>27, <1>28, <1>29, <1>30, <1>31, Zenon
  DEF Next, Attachment, ControlGoroutine, Application, Shutdown

\* The initial state satisfies the inductive invariant.
LEMMA InitInv == Init => IndInv
<1> SUFFICES ASSUME Init PROVE IndInv
  BY Zenon
<1> USE LifecycleConstants DEF Init
<1>1. TypeOK
  <2>1. /\ terminal \in BOOLEAN /\ started \in BOOLEAN /\ runtime \in BOOLEAN
        /\ closed \in BOOLEAN /\ open \in BOOLEAN /\ auth \in BOOLEAN
        /\ expired \in BOOLEAN /\ followup \in BOOLEAN /\ resume \in SUBSET {"called", "token"}
        /\ done \in BOOLEAN
    BY Zenon
  <2> QED
    BY <2>1 DEF TypeOK, States
<1>2. PhaseInv /\ AuthInv
  BY Zenon DEF PhaseInv, AuthInv, Mapping
<1>3. InteractionMatchesControl /\ DeviceErrorIsCurrent /\ RunningIsAuthenticated
  BY Zenon DEF InteractionMatchesControl, DeviceErrorIsCurrent, RunningIsAuthenticated
<1> QED
  BY <1>1, <1>2, <1>3, Zenon DEF IndInv

\* The inductive invariant, for any URLs and any number of attachments and
\* interactions.
THEOREM Invariance == Spec => []IndInv
<1>1. IndInv /\ [Next]_vars => IndInv'
  BY TypeStep, PhaseStep, AuthStep, InteractionStep, DeviceErrorStep,
     RunningStep, Zenon DEF IndInv
<1> QED
  BY InitInv, <1>1, PTL DEF Spec

\* A closed Done channel means that the goroutines of the client are gone.
THEOREM DoneQuiet == Spec => []DoneIsQuiet
<1>1. IndInv => DoneIsQuiet
  BY Zenon DEF IndInv, PhaseInv, DoneIsQuiet
<1> QED
  BY Invariance, <1>1, PTL

\* A waiting client shows its authentication URL; an authenticated one none.
THEOREM InteractionMatches == Spec => []InteractionMatchesControl
<1>1. IndInv => InteractionMatchesControl
  BY Zenon DEF IndInv
<1> QED
  BY Invariance, <1>1, PTL

\* The state is Running only of a registered client whose runtime has started.
THEOREM RunningAuthenticated == Spec => []RunningIsAuthenticated
<1>1. IndInv => RunningIsAuthenticated
  BY Zenon DEF IndInv
<1> QED
  BY Invariance, <1>1, PTL

\* ErrDeviceClosed is shown only while the attached API is closed.
THEOREM DeviceErrorCurrent == Spec => []DeviceErrorIsCurrent
<1>1. IndInv => DeviceErrorIsCurrent
  BY Zenon DEF IndInv
<1> QED
  BY Invariance, <1>1, PTL

\* Nothing changes c.state after Close has set Stopped.
THEOREM StoppedFinal == Spec => StoppedIsFinal
<1>1. IndInv /\ [Next]_vars => (state = "Stopped" => state' = "Stopped")
  <2> SUFFICES ASSUME IndInv, [Next]_vars, state = "Stopped"
               PROVE  state' = "Stopped"
    BY Zenon
  <2>1. closed /\ ctl \in {"off", "exit"} /\ life # "start" /\ ShuttingDown
    BY Zenon DEF IndInv, PhaseInv, ShuttingDown
  <2> USE DEF viewVars, lifeVars, devVars, ctlVars
  <2>2. CASE Attachment
    BY <2>1, <2>2, Zenon DEF Attachment, StartBegin, StartFails, StartDone, AttachDevice,
                      DeviceCloses, WatchDevice, WatchCancelled
  <2>3. CASE ControlGoroutine
    BY <2>1, <2>3, Zenon
    DEF ControlGoroutine, Control, RegisterFails, ReportRegisterError,
        RegisterExpired, RegisterURL, RegisterOK, WaitOver, AuthenticateCancelled,
        SetTerminalError, TerminalExit, ApplyMapResponse, MapStreamEnds,
        ReportMapError, MapReconnect, MapLoopExit
  <2>4. CASE Application
    BY <2>4, Zenon DEF Application, ResumeInteraction, ResumeSend, ErrorReported, ParentEnds
  <2>5. CASE Shutdown
    BY <2>1, <2>5, Zenon DEF Shutdown, CloseNotStarted, CloseBegin, CloseCancel, CloseWait,
                      CloseStopped, CloseDone
  <2> QED
    BY <2>2, <2>3, <2>4, <2>5, Zenon DEF Next, vars
<1> QED
  BY Invariance, <1>1, PTL DEF Spec, StoppedIsFinal

\* The device error and the Running state that Snapshot reports are so.
THEOREM ReportCurrent == Spec => []ReportIsCurrent
<1>1. DeviceErrorIsCurrent /\ RunningIsAuthenticated => ReportIsCurrent
  BY Zenon DEF ReportIsCurrent
<1> QED
  BY DeviceErrorCurrent, RunningAuthenticated, <1>1, PTL

-----------------------------------------------------------------------------
(***************************************************************************)
(* EndpointReports: ReportInv is inductive, for any notifiers and any      *)
(* number of changes.  Every list of the bind and every home region is     *)
(* told to control already or is on its way, and ControlInformed is what   *)
(* is left once nothing is on its way.                                     *)
(***************************************************************************)

\* Nothing is on its way when the client starts.
LEMMA InitReport == ReportInit => ReportInv
<1> SUFFICES ASSUME ReportInit PROVE ReportInv
  BY Zenon
<1>1. /\ bindEp = 0 /\ clientEp = 0 /\ newestEp = 0 /\ home = 0
      /\ notifier = [g \in Notifiers |-> [at |-> "idle", ep |-> 0]]
      /\ updater = [at |-> "wait", req |-> Blank]
      /\ mapper = [at |-> "register", req |-> Blank]
      /\ newestTold = Blank
  BY Zenon DEF ReportInit
<1>2. ~authenticated
  BY Zenon DEF ReportInit
<1>3. ReportTypeOK /\ NothingInvented /\ BindListComing
  BY <1>1 DEF ReportTypeOK, NothingInvented, BindListComing, Request, Blank
<1> QED
  BY <1>2, <1>3, Zenon DEF ReportInv, ListTold, HomeTold

\* The goroutines of the bind.
LEMMA NotifierStep ==
  ASSUME ReportInv, NEW g \in Notifiers, ChangeEndpoints(g) \/ Notify(g)
  PROVE  ReportInv'
<1>0. ReportTypeOK /\ NothingInvented /\ BindListComing /\ ListTold /\ HomeTold
  BY Zenon DEF ReportInv
<1>1. /\ UNCHANGED <<home, homeSignal, authenticated, updater, mapper, newestTold, lost>>
      /\ wake => wake'
  <2>1. UNCHANGED <<homeVars, authenticated, updater, mapper, controlVars, lost>>
    BY Zenon DEF ChangeEndpoints, Notify, ReadEndpoints, StoreEndpoints, SignalEndpoints
  <2>2. wake' \/ UNCHANGED wake
    BY Zenon DEF ChangeEndpoints, Notify, ReadEndpoints, StoreEndpoints, SignalEndpoints
  <2>3. wake => wake'
    BY <2>2, Zenon
  <2> QED
    BY <2>1, <2>3, Zenon DEF homeVars, controlVars
<1>2. HomeTold'
  BY <1>0, <1>1, Zenon DEF HomeTold, UpdateComing
<1>3. notifier \in [Notifiers -> [at : {"idle", "changed", "read", "stored"}, ep : Nat]]
  BY <1>0, Zenon DEF ReportTypeOK
<1>4. CASE ChangeEndpoints(g)
  <2>1. /\ bindEp' = bindEp + 1 /\ UNCHANGED <<clientEp, newestEp, wake>>
        /\ notifier' = [notifier EXCEPT ![g].at = "changed"]
    BY <1>4, Zenon DEF ChangeEndpoints, NotifierTo
  <2>2. /\ notifier' \in [Notifiers -> [at : {"idle", "changed", "read", "stored"}, ep : Nat]]
        /\ notifier'[g].at = "changed" /\ NotifierAt(g, "idle")
        /\ \A n \in Notifiers : notifier'[n].ep = notifier[n].ep
        /\ \A n \in Notifiers \ {g} : notifier'[n].at = notifier[n].at
    BY <1>3, <1>4, <2>1, Zenon DEF ChangeEndpoints
  <2>3. ReportTypeOK' /\ NothingInvented'
    BY <1>0, <1>1, <2>1, <2>2 DEF ReportTypeOK, NothingInvented, Request
  <2>4. BindListComing'
    BY <2>2, Zenon DEF BindListComing, NotifierAt
  <2>5. ListTold'
    BY <1>0, <1>1, <2>1, <2>2, Zenon DEF ListTold, UpdateComing, NotifierAt
  <2> QED
    BY <1>2, <2>3, <2>4, <2>5, Zenon DEF ReportInv
<1>5. CASE ReadEndpoints(g)
  <2>1. /\ UNCHANGED <<bindEp, clientEp, newestEp, wake>>
        /\ notifier' = [notifier EXCEPT ![g] = [at |-> "read", ep |-> bindEp]]
    BY <1>5, Zenon DEF ReadEndpoints
  <2>2. bindEp \in Nat /\ notifier[g].at = "changed"
    BY <1>0, <1>5, Zenon DEF ReportTypeOK, ReadEndpoints, NotifierAt
  <2>3. /\ notifier' \in [Notifiers -> [at : {"idle", "changed", "read", "stored"}, ep : Nat]]
        /\ notifier'[g].at = "read" /\ notifier'[g].ep = bindEp
        /\ \A n \in Notifiers \ {g} : notifier'[n] = notifier[n]
    BY <1>3, <2>1, <2>2, Zenon
  <2>4. ReportTypeOK' /\ NothingInvented'
    BY <1>0, <1>1, <2>1, <2>2, <2>3 DEF ReportTypeOK, NothingInvented, Request
  <2>5. BindListComing'
    BY <2>1, <2>3, Zenon DEF BindListComing, NotifierAt
  <2>6. ListTold'
    BY <1>0, <1>1, <2>1, <2>2, <2>3, Zenon DEF ListTold, UpdateComing, NotifierAt
  <2> QED
    BY <1>2, <2>4, <2>5, <2>6, Zenon DEF ReportInv
<1>6. CASE StoreEndpoints(g)
  <2>1. /\ UNCHANGED <<bindEp, wake>> /\ clientEp' = notifier[g].ep
        /\ newestEp' = Larger(newestEp, notifier[g].ep)
        /\ notifier' = [notifier EXCEPT ![g].at = "stored"]
    BY <1>6, Zenon DEF StoreEndpoints, NotifierTo
  <2>2. /\ notifier' \in [Notifiers -> [at : {"idle", "changed", "read", "stored"}, ep : Nat]]
        /\ notifier'[g].at = "stored" /\ notifier[g].at = "read" /\ notifier[g].ep \in Nat
        /\ \A n \in Notifiers : notifier'[n].ep = notifier[n].ep
        /\ \A n \in Notifiers \ {g} : notifier'[n].at = notifier[n].at
    BY <1>3, <1>6, <2>1, Zenon DEF StoreEndpoints, NotifierAt
  <2>3. ReportTypeOK' /\ NothingInvented'
    BY <1>0, <1>1, <2>1, <2>2 DEF ReportTypeOK, NothingInvented, Request, Larger
  <2>4. /\ bindEp \in Nat /\ newestEp \in Nat /\ newestEp <= bindEp
        /\ \A n \in Notifiers : notifier[n].ep <= bindEp
    BY <1>0, Zenon DEF ReportTypeOK, NothingInvented
  <2>5. newestEp = bindEp => newestEp' = bindEp
    BY <2>1, <2>2, <2>4 DEF Larger
  <2>6. notifier[g].ep = bindEp => newestEp' = bindEp
    BY <2>1, <2>2, <2>4 DEF Larger
  <2>7. BindListComing'
    BY <1>0, <2>1, <2>2, <2>5, <2>6, Zenon DEF BindListComing, NotifierAt
  <2>8. ListTold'
    BY <2>2, Zenon DEF ListTold, NotifierAt
  <2> QED
    BY <1>2, <2>3, <2>7, <2>8, Zenon DEF ReportInv
<1>7. CASE SignalEndpoints(g)
  <2>1. /\ UNCHANGED <<bindEp, clientEp, newestEp>>
        /\ notifier' = [notifier EXCEPT ![g] = [at |-> "idle", ep |-> 0]]
    BY <1>7, Zenon DEF SignalEndpoints, NotifierDone
  <2>2. wake'
    BY <1>7, Zenon DEF SignalEndpoints
  <2>3. /\ notifier' \in [Notifiers -> [at : {"idle", "changed", "read", "stored"}, ep : Nat]]
        /\ notifier'[g].ep = 0 /\ notifier[g].at = "stored"
        /\ \A n \in Notifiers \ {g} : notifier'[n] = notifier[n]
    <3>1. notifier[g].at = "stored"
      BY <1>7, Zenon DEF SignalEndpoints, NotifierAt
    <3> QED
      BY <1>3, <2>1, <3>1, Zenon
  <2>4. ReportTypeOK' /\ NothingInvented'
    BY <1>0, <1>1, <2>1, <2>3 DEF ReportTypeOK, NothingInvented, Request
  <2>5. BindListComing'
    BY <1>0, <2>1, <2>3, Zenon DEF BindListComing, NotifierAt
  <2>6. ListTold'
    BY <2>2, Zenon DEF ListTold, UpdateComing
  <2> QED
    BY <1>2, <2>4, <2>5, <2>6, Zenon DEF ReportInv
<1> QED
  BY <1>4, <1>5, <1>6, <1>7, Zenon DEF Notify

\* onDERPLatency, and the home in a map response.
LEMMA HomeStep ==
  ASSUME ReportInv, LatencyHome \/ LatencySignal \/ MapHome \/ MapSignal
  PROVE  ReportInv'
<1>0. ReportTypeOK /\ NothingInvented /\ BindListComing /\ ListTold /\ HomeTold
  BY Zenon DEF ReportInv
<1>1. /\ UNCHANGED <<bindEp, notifier, clientEp, newestEp, authenticated, updater,
                     newestTold, lost>>
      /\ wake => wake'
  <2>1. UNCHANGED <<bindVars, authenticated, updater, controlVars, lost>>
    BY Zenon DEF LatencyHome, LatencySignal, MapHome, MapSignal
  <2>2. wake' \/ UNCHANGED wake
    BY Zenon DEF LatencyHome, LatencySignal, MapHome, MapSignal
  <2>3. wake => wake'
    BY <2>2, Zenon
  <2> QED
    BY <2>1, <2>3, Zenon DEF bindVars, controlVars
<1>2. home' \in {home, home + 1} /\ home' \in Nat
  <2>1. home' = home \/ home' = home + 1
    BY Zenon DEF LatencyHome, LatencySignal, MapHome, MapSignal, homeVars
  <2> QED
    BY <1>0, <2>1 DEF ReportTypeOK
<1>3. ASSUME NEW step \in {"apply", "stream"}, mapper' = [mapper EXCEPT !.at = step]
      PROVE  /\ mapper' \in [at : {"register", "signal", "build", "home", "send",
                                    "stream", "apply"},
                              req : Request]
             /\ mapper'.at = step /\ mapper'.req = mapper.req
  BY <1>0, <1>3, Zenon DEF ReportTypeOK
<1>4. ASSUME \/ UNCHANGED mapper
             \/ \E step \in {"apply", "stream"} : mapper' = [mapper EXCEPT !.at = step],
             mapper.at = "signal" => mapper'.at = "signal" \/ wake', HomeTold'
      PROVE  ReportInv'
  <2>1. /\ mapper' \in [at : {"register", "signal", "build", "home", "send",
                                    "stream", "apply"},
                         req : Request]
        /\ mapper'.req = mapper.req
    BY <1>0, <1>3, <1>4, Zenon DEF ReportTypeOK
  <2>2. ReportTypeOK'
    BY <1>0, <1>1, <1>2, <2>1, Zenon DEF ReportTypeOK
  <2>3. NothingInvented'
    BY <1>0, <1>1, <1>2, <2>1 DEF NothingInvented, ReportTypeOK, Request
  <2>4. ListTold' /\ BindListComing'
    BY <1>0, <1>1, <1>4, Zenon DEF ListTold, BindListComing, UpdateComing, NotifierAt
  <2> QED
    BY <1>4, <2>2, <2>3, <2>4, Zenon DEF ReportInv
<1>5. CASE LatencyHome
  <2>1. homeSignal' /\ UNCHANGED mapper
    BY <1>5, Zenon DEF LatencyHome
  <2>2. HomeTold'
    BY <2>1, Zenon DEF HomeTold
  <2> QED
    BY <1>4, <2>1, <2>2, Zenon
<1>6. CASE LatencySignal
  <2>1. wake' /\ UNCHANGED mapper
    BY <1>6, Zenon DEF LatencySignal
  <2>2. HomeTold'
    BY <2>1, Zenon DEF HomeTold, UpdateComing
  <2> QED
    BY <1>4, <2>1, <2>2, Zenon
<1>7. CASE MapHome
  <2>1. mapper.at = "stream" /\ mapper' = [mapper EXCEPT !.at = "apply"]
    BY <1>7, Zenon DEF MapHome, MapperTo
  <2>2. HomeTold'
    BY <1>3, <2>1, Zenon DEF HomeTold
  <2> QED
    BY <1>4, <2>1, <2>2, Zenon
<1>8. CASE MapSignal
  <2>1. mapper' = [mapper EXCEPT !.at = "stream"]
    BY <1>8, Zenon DEF MapSignal, MapperTo
  <2>2. wake'
    BY <1>8, Zenon DEF MapSignal
  <2>3. HomeTold'
    BY <2>2, Zenon DEF HomeTold, UpdateComing
  <2> QED
    BY <1>4, <2>1, <2>2, <2>3, Zenon
<1> QED
  BY <1>5, <1>6, <1>7, <1>8, Zenon

\* A request of either kind adds to what control was told.
LEMMA ReceivedTold ==
  ASSUME newestTold \in Request, NEW req \in Request, Received(req),
         newestEp \in Nat, home \in Nat, newestTold.ep <= newestEp, newestTold.home <= home,
         req.ep <= newestEp, req.home <= home
  PROVE  /\ newestTold' \in Request
         /\ newestTold'.ep <= newestEp /\ newestTold'.home <= home
         /\ newestTold.ep = newestEp \/ req.ep = newestEp => newestTold'.ep = newestEp
         /\ newestTold.home = home \/ req.home = home => newestTold'.home = home
BY DEF Received, Request, Larger

\* The updater tells what it read after it was woken.
LEMMA UpdaterInv ==
  ASSUME ReportInv, UpdaterStep
  PROVE  ReportInv'
<1>0. ReportTypeOK /\ NothingInvented /\ BindListComing /\ ListTold /\ HomeTold
  BY Zenon DEF ReportInv
<1>1. UNCHANGED <<bindEp, notifier, clientEp, newestEp, home, homeSignal, authenticated, mapper>>
  BY Zenon DEF UpdaterStep, UpdaterWakes, UpdaterChecks, UpdaterReads, UpdaterReadsHome,
               UpdateReceived, UpdateFails, bindVars, homeVars
<1>2. /\ updater \in [at : {"wait", "woken", "build", "home", "send"}, req : Request]
      /\ updater.req \in Request /\ newestTold \in Request
      /\ clientEp \in Nat /\ newestEp \in Nat /\ home \in Nat
      /\ updater.req.ep \in Nat /\ clientEp <= newestEp
      /\ updater.req.ep <= newestEp /\ updater.req.home <= home
      /\ newestTold.ep <= newestEp /\ newestTold.home <= home
  BY <1>0, Zenon DEF ReportTypeOK, NothingInvented, Request
<1>3. ASSUME updater' \in [at : {"wait", "woken", "build", "home", "send"}, req : Request],
             updater'.req.ep <= newestEp, updater'.req.home <= home,
             newestTold' \in Request, newestTold'.ep <= newestEp, newestTold'.home <= home,
             ListTold', HomeTold'
      PROVE  ReportInv'
  <2>1. ReportTypeOK'
    BY <1>0, <1>1, <1>3, Zenon DEF ReportTypeOK
  <2>2. NothingInvented'
    BY <1>0, <1>1, <1>3, Zenon DEF NothingInvented
  <2>3. BindListComing'
    BY <1>0, <1>1, Zenon DEF BindListComing, NotifierAt
  <2> QED
    BY <1>3, <2>1, <2>2, <2>3, Zenon DEF ReportInv
<1>4. CASE UpdaterWakes \/ UpdaterChecks
  <2>1. PICK step \in {"wait", "woken", "build"} :
          /\ updater' = [updater EXCEPT !.at = step] /\ UNCHANGED newestTold
          /\ step = "wait" => ~authenticated
    BY <1>4, Zenon DEF UpdaterWakes, UpdaterChecks, UpdaterTo, controlVars
  <2>2. /\ updater' \in [at : {"wait", "woken", "build", "home", "send"}, req : Request]
        /\ updater'.at = step /\ updater'.req = updater.req
    BY <1>2, <2>1, Zenon
  <2>3. ListTold' /\ HomeTold'
    BY <1>1, <2>1, <2>2, Zenon DEF ListTold, HomeTold, UpdateComing
  <2> QED
    BY <1>2, <1>3, <2>1, <2>2, <2>3, Zenon
<1>5. CASE UpdaterReads
  <2>1. /\ updater' = [at |-> "home", req |-> [ep |-> clientEp, home |-> 0]]
        /\ UNCHANGED newestTold
    BY <1>5, Zenon DEF UpdaterReads, controlVars
  <2>2. updater'.at = "home" /\ updater'.req.ep = clientEp
    BY <2>1, Zenon
  <2>3. ListTold' /\ HomeTold'
    BY <1>1, <2>2, Zenon DEF ListTold, HomeTold
  <2> QED
    BY <1>2, <1>3, <2>1, <2>3 DEF Request
<1>6. CASE UpdaterReadsHome
  <2>1. /\ updater' = [at |-> "send", req |-> [updater.req EXCEPT !.home = home]]
        /\ updater.at = "home" /\ UNCHANGED <<newestTold, wake, lost>>
    BY <1>6, Zenon DEF UpdaterReadsHome, controlVars
  <2>2. /\ updater' \in [at : {"wait", "woken", "build", "home", "send"}, req : Request]
        /\ updater'.at = "send" /\ updater'.req.ep = updater.req.ep
        /\ updater'.req.home = home
    BY <1>2, <2>1, Zenon DEF Request
  <2>3. HomeTold'
    BY <1>1, <2>2, Zenon DEF HomeTold
  <2>4. ListTold'
    BY <1>0, <1>1, <2>1, <2>2, Zenon DEF ListTold, UpdateComing, NotifierAt
  <2> QED
    BY <1>2, <1>3, <2>1, <2>2, <2>3, <2>4
<1>7. CASE UpdateReceived
  <2>1. /\ updater' = [at |-> "wait", req |-> Blank] /\ Received(updater.req)
        /\ updater.at = "send" /\ UNCHANGED <<wake, lost>>
    BY <1>7, Zenon DEF UpdateReceived
  <2>2. /\ newestTold' \in Request
        /\ newestTold'.ep <= newestEp /\ newestTold'.home <= home
        /\ newestTold.ep = newestEp \/ updater.req.ep = newestEp => newestTold'.ep = newestEp
        /\ newestTold.home = home \/ updater.req.home = home => newestTold'.home = home
    BY <1>2, <2>1, ReceivedTold, Zenon
  <2>3. ListTold'
    BY <1>0, <1>1, <2>1, <2>2, Zenon DEF ListTold, UpdateComing, NotifierAt
  <2>4. HomeTold'
    BY <1>0, <1>1, <2>1, <2>2, Zenon DEF HomeTold, UpdateComing
  <2> QED
    BY <1>2, <1>3, <2>1, <2>2, <2>3, <2>4 DEF Blank, Request
<1>8. CASE UpdateFails
  <2>1. updater' = [at |-> "wait", req |-> Blank] /\ (UNCHANGED newestTold \/ Received(updater.req))
    BY <1>8, Zenon DEF UpdateFails, controlVars
  <2>2. newestTold' \in Request /\ newestTold'.ep <= newestEp /\ newestTold'.home <= home
    BY <1>2, <2>1, ReceivedTold, Zenon
  <2>3. lost'
    BY <1>8, Zenon DEF UpdateFails
  <2>4. ListTold' /\ HomeTold'
    BY <2>3, Zenon DEF ListTold, HomeTold
  <2> QED
    BY <1>2, <1>3, <2>1, <2>2, <2>4 DEF Blank, Request
<1> QED
  BY <1>4, <1>5, <1>6, <1>7, <1>8, Zenon DEF UpdaterStep

\* run and the requests of mapLoop.
LEMMA MapperInv ==
  ASSUME ReportInv,
         \/ Authenticate \/ RunSignals \/ MapperReads \/ MapperReadsHome
         \/ StreamOpens \/ StreamFails
  PROVE  ReportInv'
<1>0. ReportTypeOK /\ NothingInvented /\ BindListComing /\ ListTold /\ HomeTold
  BY Zenon DEF ReportInv
<1>1. /\ UNCHANGED <<bindEp, notifier, clientEp, newestEp, home, homeSignal, updater, lost>>
      /\ wake => wake'
  <2>1. UNCHANGED <<bindVars, homeVars, updater, lost>>
    BY Zenon
    DEF Authenticate, RunSignals, MapperReads, MapperReadsHome, StreamOpens, StreamFails
  <2>2. wake' \/ UNCHANGED wake
    BY Zenon
    DEF Authenticate, RunSignals, MapperReads, MapperReadsHome, StreamOpens, StreamFails
  <2>3. wake => wake'
    BY <2>2, Zenon
  <2> QED
    BY <2>1, <2>3, Zenon DEF bindVars, homeVars
<1>2. /\ mapper \in [at : {"register", "signal", "build", "home", "send", "stream", "apply"},
                      req : Request]
      /\ mapper.req \in Request /\ newestTold \in Request
      /\ clientEp \in Nat /\ newestEp \in Nat /\ home \in Nat /\ clientEp <= newestEp
      /\ mapper.req.ep <= newestEp /\ mapper.req.home <= home
      /\ newestTold.ep <= newestEp /\ newestTold.home <= home
  BY <1>0, Zenon DEF ReportTypeOK, NothingInvented, Request
<1>3. ASSUME mapper' \in [at : {"register", "signal", "build", "home", "send", "stream", "apply"},
                          req : Request],
             mapper'.req.ep <= newestEp, mapper'.req.home <= home,
             newestTold' \in Request, newestTold'.ep <= newestEp, newestTold'.home <= home,
             ListTold', HomeTold'
      PROVE  ReportInv'
  <2>1. ReportTypeOK'
    BY <1>0, <1>1, <1>3, Zenon DEF ReportTypeOK
  <2>2. NothingInvented'
    BY <1>0, <1>1, <1>3, Zenon DEF NothingInvented
  <2>3. BindListComing'
    BY <1>0, <1>1, Zenon DEF BindListComing, NotifierAt
  <2> QED
    BY <1>3, <2>1, <2>2, <2>3, Zenon DEF ReportInv
<1>4. CASE Authenticate \/ RunSignals
  <2>1. PICK step \in {"signal", "build"} :
          /\ mapper' = [mapper EXCEPT !.at = step] /\ UNCHANGED newestTold
          /\ step = "build" => wake'
    BY <1>4, Zenon DEF Authenticate, RunSignals, MapperTo, controlVars
  <2>2. /\ mapper' \in [at : {"register", "signal", "build", "home", "send",
                                    "stream", "apply"},
                         req : Request]
        /\ mapper'.at = step /\ mapper'.req = mapper.req
    BY <1>2, <2>1, Zenon
  <2>3. ListTold' /\ HomeTold'
    BY <2>1, <2>2, Zenon DEF ListTold, HomeTold, UpdateComing
  <2> QED
    BY <1>2, <1>3, <2>1, <2>2, <2>3, Zenon
<1>5. ASSUME mapper.at \in {"build", "home", "send", "stream"}, UNCHANGED authenticated,
             newestTold.ep = newestEp => newestTold'.ep = newestEp,
             newestTold.home = home => newestTold'.home = home
      PROVE  ListTold' /\ HomeTold'
  <2>1. mapper.at # "signal" /\ mapper.at # "apply"
    BY <1>5, Zenon
  <2> QED
    BY <1>0, <1>1, <1>5, <2>1, Zenon DEF ListTold, HomeTold, UpdateComing, NotifierAt
<1>6. CASE MapperReads
  <2>1. /\ mapper' = [at |-> "home", req |-> [ep |-> clientEp, home |-> 0]]
        /\ mapper.at = "build" /\ UNCHANGED <<newestTold, authenticated>>
    BY <1>6, Zenon DEF MapperReads, controlVars
  <2> QED
    BY <1>2, <1>3, <1>5, <2>1 DEF Request
<1>7. CASE MapperReadsHome
  <2>1. /\ mapper' = [at |-> "send", req |-> [mapper.req EXCEPT !.home = home]]
        /\ mapper.at = "home" /\ UNCHANGED <<newestTold, authenticated>>
    BY <1>7, Zenon DEF MapperReadsHome, controlVars
  <2> QED
    BY <1>2, <1>3, <1>5, <2>1 DEF Request
<1>8. CASE StreamOpens \/ StreamFails
  <2>1. PICK step \in {"stream", "build"} :
          /\ mapper' = [at |-> step, req |-> Blank]
          /\ mapper.at \in {"send", "stream"} /\ UNCHANGED authenticated
          /\ UNCHANGED newestTold \/ Received(mapper.req)
    BY <1>8, Zenon DEF StreamOpens, StreamFails, controlVars
  <2>2. /\ newestTold' \in Request
        /\ newestTold'.ep <= newestEp /\ newestTold'.home <= home
        /\ newestTold.ep = newestEp => newestTold'.ep = newestEp
        /\ newestTold.home = home => newestTold'.home = home
    BY <1>2, <2>1, ReceivedTold, Zenon
  <2> QED
    BY <1>2, <1>3, <1>5, <2>1, <2>2 DEF Blank, Request
<1> QED
  BY <1>4, <1>6, <1>7, <1>8, Zenon

\* Control ends up informed, for any goroutines and any number of changes: once
\* nothing is on its way it has the bind's endpoints and the client's home, with
\* the exceptions of the code (see ControlInformed).
THEOREM Informed == ReportSpec => []ControlInformed
<1>1. ReportInv /\ [ReportNext]_reportVars => ReportInv'
  <2>1. ReportInv /\ UNCHANGED reportVars => ReportInv'
    <3> SUFFICES ASSUME ReportInv, UNCHANGED reportVars PROVE ReportInv'
      BY Zenon
    <3>1. UNCHANGED <<bindEp, notifier, clientEp, newestEp, home, homeSignal, wake,
                      authenticated, updater, mapper, newestTold, lost>>
      BY Zenon DEF reportVars, bindVars, homeVars, controlVars
    <3>2. ReportTypeOK' /\ NothingInvented'
      BY <3>1, Zenon DEF ReportInv, ReportTypeOK, NothingInvented
    <3>3. BindListComing'
      BY <3>1, Zenon DEF ReportInv, BindListComing, NotifierAt
    <3>4. ListTold' /\ HomeTold'
      BY <3>1, Zenon DEF ReportInv, ListTold, HomeTold, UpdateComing, NotifierAt
    <3> QED
      BY <3>2, <3>3, <3>4, Zenon DEF ReportInv
  <2> QED
    BY <2>1, NotifierStep, HomeStep, UpdaterInv, MapperInv, Zenon DEF ReportNext, MapperStep
<1>2. ReportInv => ControlInformed
  <2> SUFFICES ASSUME ReportInv, authenticated, ReportsQuiet, ~lost, clientEp = newestEp
               PROVE  newestTold = [ep |-> bindEp, home |-> home]
    BY Zenon DEF ControlInformed
  <2>1. /\ ~wake /\ ~homeSignal /\ updater.at = "wait" /\ mapper.at = "stream"
        /\ \A g \in Notifiers : notifier[g].at = "idle"
    BY Zenon DEF ReportsQuiet, NotifierAt
  <2>2. newestTold.ep = newestEp
    BY <2>1, Zenon DEF ReportInv, ListTold, UpdateComing, NotifierAt
  <2>3. newestEp = bindEp
    BY <2>1, Zenon DEF ReportInv, BindListComing, NotifierAt
  <2>4. newestTold.home = home
    BY <2>1, Zenon DEF ReportInv, HomeTold, UpdateComing
  <2> QED
    BY <2>2, <2>3, <2>4, Zenon DEF ReportInv, ReportTypeOK, Request
<1> QED
  BY <1>1, <1>2, InitReport, PTL DEF ReportSpec

-----------------------------------------------------------------------------
(***************************************************************************)
(* MagicDNS: DNSInv is inductive, for any names, records and list of       *)
(* candidates: the search has seen names the candidate stands for only,    *)
(* and what it has not followed yet is pending.                            *)
(***************************************************************************)

\* A set of names that the aliases of the view do not lead out of.
ClosedUnderAliases(s) == \A r \in view : r[1] \in s /\ r[2] \in DNSNames => r[2] \in s

\* The names a name stands for are the least such set that it is in.
LEMMA StandsForLeast ==
  ASSUME NEW name \in DNSNames
  PROVE  /\ name \in StandsFor(name) /\ StandsFor(name) \subseteq DNSNames
         /\ ClosedUnderAliases(StandsFor(name))
         /\ \A s \in SUBSET DNSNames :
              name \in s /\ ClosedUnderAliases(s) => StandsFor(name) \subseteq s
BY Zenon DEF StandsFor, ClosedUnderAliases

\* What is seen once nothing is left to visit is what the candidate stands for.
LEMMA SearchComplete ==
  ASSUME SearchInv, pending = {}
  PROVE  answer = AddressesOf(Candidates[tried])
<1>1. Candidates[tried] \in DNSNames
  BY Zenon DEF SearchInv, DNSNames
<1>2. seen \subseteq StandsFor(Candidates[tried]) /\ Candidates[tried] \in seen
  BY Zenon DEF SearchInv
<1>3. seen \in SUBSET DNSNames
  BY <1>1, <1>2, StandsForLeast, Zenon
<1>4. ClosedUnderAliases(seen)
  BY Zenon DEF SearchInv, ClosedUnderAliases
<1>5. seen = StandsFor(Candidates[tried])
  BY <1>1, <1>2, <1>3, <1>4, StandsForLeast, Zenon
<1>6. answer = {r[2] : r \in {q \in view : q[1] \in seen /\ Wanted(q[2])}}
  BY Zenon DEF SearchInv
<1> QED
  BY <1>5, <1>6, Zenon DEF AddressesOf

\* Before a lookup nothing is searched.
LEMMA InitDNS == DNSInit => DNSInv
BY DEF DNSInit, DNSInv, DNSIdle

\* A search keeps its view and what it wants.
LEMMA SameView ==
  ASSUME UNCHANGED <<view, network>>
  PROVE  /\ \A value : Wanted(value)' <=> Wanted(value)
         /\ \A name : StandsFor(name)' = StandsFor(name)
         /\ \A name : AddressesOf(name)' = AddressesOf(name)
BY Zenon DEF Wanted, StandsFor, AddressesOf

\* A lookup begins with the first candidate.
LEMMA LookupStep ==
  ASSUME DNSInv, LookupNetIP
  PROVE  DNSInv'
<1>1. /\ tried = 0 /\ tried' = 1 /\ pending' = {Candidates[1]}
      /\ UNCHANGED <<seen, answer, returned>> /\ DNSIdle
  BY Zenon DEF LookupNetIP, DNSInv
<1>2. 1 \in DOMAIN Candidates /\ Candidates[1] \in DNSNames
  BY DNSConstants
<1>3. Candidates[1] \in StandsFor(Candidates[1])'
  BY <1>2, Zenon DEF StandsFor
<1>4. SearchInv'
  BY <1>1, <1>2, <1>3, Zenon DEF SearchInv, DNSIdle
<1>5. EarlierEmpty'
  BY <1>1 DEF EarlierEmpty, DNSIdle
<1> QED
  BY <1>1, <1>4, <1>5 DEF DNSInv

\* The search follows one pending name.
LEMMA ResolveStep ==
  ASSUME DNSInv, NEW name \in DNSNames, Resolve(name)
  PROVE  DNSInv'
<1>1. name \in pending /\ UNCHANGED <<view, network, tried, returned>>
  BY Zenon DEF Resolve
<1>2. tried \in Nat /\ tried # 0 /\ SearchInv /\ EarlierEmpty
  BY <1>1, Zenon DEF DNSInv, DNSIdle
<1> DEFINE start == Candidates[tried]
<1>3. start \in DNSNames
  BY <1>2, Zenon DEF SearchInv, DNSNames
<1>4. ~returned /\ ~returned'
  BY <1>1, <1>2, Zenon DEF EarlierEmpty
<1>5. EarlierEmpty'
  BY <1>1, <1>2, <1>4, SameView, Zenon DEF EarlierEmpty
<1>6. CASE name \in seen
  <2>1. pending' = pending \ {name} /\ UNCHANGED <<seen, answer>>
    BY <1>6, Zenon DEF Resolve, ResolveDNSName
  <2>2. SearchInv'
    BY <1>1, <1>2, <1>6, <2>1, SameView, Zenon DEF SearchInv
  <2> QED
    BY <1>1, <1>2, <1>5, <2>2, Zenon DEF DNSInv
<1>7. CASE name \notin seen
  <2> DEFINE values == {r[2] : r \in {q \in view : q[1] = name}}
  <2>1. /\ pending' = (pending \ {name}) \cup (values \cap DNSNames)
        /\ seen' = seen \cup {name}
        /\ answer' = answer \cup {v \in values : Wanted(v)}
    BY <1>7, Zenon DEF Resolve, ResolveDNSName, Visit
  <2>2. name \in StandsFor(start)
    BY <1>1, <1>2, Zenon DEF SearchInv
  <2>3. values \cap DNSNames \subseteq StandsFor(start)
    BY <1>3, <2>2, StandsForLeast DEF ClosedUnderAliases
  <2>4. seen' \cup pending' = seen \cup pending \cup (values \cap DNSNames)
    BY <1>1, <2>1, Zenon
  <2>5. seen' \cup pending' \subseteq StandsFor(start) /\ start \in seen' \cup pending'
    BY <1>2, <2>3, <2>4, Zenon DEF SearchInv
  <2>6. \A r \in view : r[1] \in seen' /\ r[2] \in DNSNames => r[2] \in seen' \cup pending'
    BY <1>2, <2>1, <2>4, Zenon DEF SearchInv
  <2>7. answer' = {r[2] : r \in {q \in view : q[1] \in seen' /\ Wanted(q[2])}}
    <3>1. answer = {r[2] : r \in {q \in view : q[1] \in seen /\ Wanted(q[2])}}
      BY <1>2, Zenon DEF SearchInv
    <3> QED
      BY <2>1, <3>1, Zenon
  <2>8. SearchInv'
    BY <1>1, <1>2, <2>5, <2>6, <2>7, SameView, Zenon DEF SearchInv
  <2> QED
    BY <1>1, <1>2, <1>5, <2>8, Zenon DEF DNSInv
<1> QED
  BY <1>6, <1>7, Zenon

\* A search that is over ends the lookup or goes on with the next candidate.
LEMMA CandidateStep ==
  ASSUME DNSInv, CandidateDone
  PROVE  DNSInv'
<1>1. /\ tried # 0 /\ pending = {} /\ ~returned
      /\ UNCHANGED <<view, network, answer>>
  BY Zenon DEF CandidateDone
<1>2. tried \in Nat /\ SearchInv /\ EarlierEmpty
  BY <1>1, Zenon DEF DNSInv
<1>3. answer = AddressesOf(Candidates[tried])
  BY <1>1, <1>2, SearchComplete, Zenon
<1>4. CASE answer = {} /\ tried < Len(Candidates)
  <2>1. /\ tried' = tried + 1 /\ pending' = {Candidates[tried']}
        /\ seen' = {} /\ UNCHANGED returned
    BY <1>4, Zenon DEF CandidateDone
  <2>2. tried' \in DOMAIN Candidates /\ tried' \in Nat /\ tried' # 0
    BY <1>2, <1>4, <2>1, DNSConstants
  <2>3. Candidates[tried'] \in StandsFor(Candidates[tried'])
    BY <2>2, StandsForLeast, Zenon DEF DNSNames
  <2>4. SearchInv'
    BY <1>1, <1>4, <2>1, <2>2, <2>3, SameView, Zenon DEF SearchInv
  <2>5. \A i \in 1..(tried' - 1) : i \in 1..(tried - 1) \/ i = tried
    BY <1>2, <2>1
  <2>6. EarlierEmpty'
    BY <1>1, <1>2, <1>3, <1>4, <2>1, <2>5, SameView, Zenon DEF EarlierEmpty
  <2> QED
    BY <2>2, <2>4, <2>6, Zenon DEF DNSInv
<1>5. CASE ~(answer = {} /\ tried < Len(Candidates))
  <2>1. UNCHANGED <<tried, pending, seen>>
    BY <1>5, Zenon DEF CandidateDone
  <2>2. answer = {} => tried = Len(Candidates)
    BY <1>2, <1>5, DNSConstants, SMTT(30) DEF SearchInv
  <2>3. SearchInv'
    BY <1>1, <1>2, <2>1, SameView, Zenon DEF SearchInv
  <2>4. EarlierEmpty'
    BY <1>1, <1>2, <2>1, <2>2, SameView, Zenon DEF EarlierEmpty
  <2> QED
    BY <1>1, <1>2, <2>1, <2>3, <2>4, Zenon DEF DNSInv
<1> QED
  BY <1>4, <1>5, Zenon

\* New records do not change the view that a lookup searches.
LEMMA OtherDNSStep ==
  ASSUME DNSInv, RecordsReplaced \/ UNCHANGED dnsVars
  PROVE  DNSInv'
<1>1. UNCHANGED <<view, network, tried, pending, seen, answer, returned>>
  BY Zenon DEF RecordsReplaced, dnsVars
<1>2. SearchInv => SearchInv'
  BY <1>1, SameView, Zenon DEF SearchInv
<1>3. EarlierEmpty => EarlierEmpty'
  BY <1>1, SameView, Zenon DEF EarlierEmpty
<1> QED
  BY <1>1, <1>2, <1>3, Zenon DEF DNSInv, DNSIdle

\* For any names, records and replacements of them: what a lookup returns is what
\* one copy of the records gives the first candidate that has an address.
THEOREM LookupExact == DNSSpec => []AnswerExact
<1>1. DNSInv /\ [DNSNext]_dnsVars => DNSInv'
  BY LookupStep, ResolveStep, CandidateStep, OtherDNSStep, Zenon DEF DNSNext
<1>2. DNSInv => AnswerExact
  <2> SUFFICES ASSUME DNSInv, returned
               PROVE  /\ answer = AddressesOf(Candidates[tried])
                      /\ \A i \in 1..(tried - 1) : AddressesOf(Candidates[i]) = {}
                      /\ answer = {} => tried = Len(Candidates)
    BY Zenon DEF AnswerExact
  <2>1. SearchInv /\ EarlierEmpty
    BY Zenon DEF DNSInv, DNSIdle
  <2> QED
    BY <2>1, SearchComplete, Zenon DEF EarlierEmpty
<1> QED
  BY <1>1, <1>2, InitDNS, PTL DEF DNSSpec
=============================================================================

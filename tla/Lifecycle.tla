------------------------------ MODULE Lifecycle ------------------------------
(***************************************************************************)
(* The lifecycle and control state of Client: Start, AttachDevice, the     *)
(* control goroutine (authenticate, then mapLoop), human interactions, the *)
(* device watchers and Close (client.go, device.go, map.go).               *)
(*                                                                         *)
(* Every critical section of c.mu is one step.  lifeMu serialises Start,   *)
(* AttachDevice and the first part of Close; the control goroutine checks  *)
(* the context before, and not together with, its writes of c.state.       *)
(***************************************************************************)
EXTENDS Integers, FiniteSets

CONSTANTS
  URLs,      \* authentication and browser URLs the control server may send
  MaxGen,    \* bound on device attachments
  MaxID,     \* bound on interaction IDs
  Null

States == {"New", "Starting", "NeedsAuthentication", "Running", "Degraded",
           "Stopping", "Stopped"}
Interactions == [id : 1..MaxID, kind : {"authenticate", "expired", "control-url"},
                 url : URLs \cup {Null}]

ASSUME LifecycleConstants ==
  /\ MaxGen \in Nat \ {0} /\ MaxID \in Nat
  /\ Null \notin URLs \cup Interactions

VARIABLES
  state, lastErr, terminal,  \* c.state; what c.lastError says; terminalError
  started, runtime, closed,  \* lifeMu-protected flags
  life,                      \* "start" while Start holds lifeMu
  ctx,                       \* none, live, cancelled or deadline
  gen, open, watch,          \* deviceGeneration, API usable, its watchers
  auth, inter, lastID,       \* authenticated, c.interaction, interactionID
  expired, browser,          \* c.self.Expired, lastBrowserURL
  ctl, followup,             \* the control goroutine
  resume,                    \* a token in c.resume, and a caller about to send one
  closer, done               \* progress of Close; done is closed

viewVars == <<state, lastErr, terminal, auth, inter, lastID, expired, browser>>
lifeVars == <<started, runtime, closed, life, ctx>>
devVars  == <<gen, open, watch>>
ctlVars  == <<ctl, followup, resume>>
vars == <<viewVars, lifeVars, devVars, ctlVars, closer, done>>

Authenticating == {"register", "failed", "backoff", "poll"}
Mapping == {"map", "mapfailed", "mapwait"}
Finishing == {"expired", "deadline", "terminal"}

TypeOK ==
  /\ state \in States
  /\ lastErr \in {"none", "device", "expired", "other"} /\ terminal \in BOOLEAN
  /\ started \in BOOLEAN /\ runtime \in BOOLEAN /\ closed \in BOOLEAN
  /\ life \in {"free", "start"}
  /\ ctx \in {"none", "live", "cancelled", "deadline"}
  /\ gen \in 0..MaxGen /\ open \in BOOLEAN /\ watch \in SUBSET (1..MaxGen)
  /\ auth \in BOOLEAN
  /\ inter \in Interactions \cup {Null} /\ lastID \in 0..MaxID
  /\ expired \in BOOLEAN /\ browser \in URLs \cup {Null}
  /\ ctl \in {"off", "exit"} \cup Authenticating \cup Mapping \cup Finishing
  /\ followup \in BOOLEAN /\ resume \in SUBSET {"called", "token"}
  /\ closer \in {"none", "stopping", "waiting", "released", "stopped"}
  /\ done \in BOOLEAN

ShuttingDown == state \in {"Stopping", "Stopped"}
ContextOver == ctx \in {"cancelled", "deadline"}

-----------------------------------------------------------------------------
(* Start, AttachDevice and the device.                                     *)

StartBegin ==
  /\ life = "free" /\ ~closed /\ ~started
  /\ life' = "start"
  /\ ctx' = "live"
  /\ state' = "Starting"
  /\ UNCHANGED <<lastErr, terminal, auth, inter, lastID, expired, browser,
                 started, runtime, closed, devVars, ctlVars, closer, done>>

\* initializeRuntime failed: the cache, the keys or the transport.
StartFails ==
  /\ life = "start" /\ open
  /\ life' = "free"
  /\ ctx' = "none"
  /\ state' = "New"
  /\ UNCHANGED <<lastErr, terminal, auth, inter, lastID, expired, browser,
                 started, runtime, closed, devVars, ctlVars, closer, done>>

\* With a usable API the runtime is initialised and its workers launched.
StartDone ==
  /\ life = "start"
  /\ open => gen < MaxGen
  /\ life' = "free"
  /\ started' = TRUE
  /\ runtime' = open
  /\ gen' = IF open THEN gen + 1 ELSE gen
  /\ watch' = IF open THEN {gen + 1} ELSE {}
  /\ ctl' = IF open THEN "register" ELSE "off"
  /\ lastErr' = IF open THEN "none" ELSE lastErr
  /\ UNCHANGED <<state, terminal, auth, inter, lastID, expired, browser, closed,
                 ctx, open, followup, resume, closer, done>>

\* restoreStateAfterDeviceAttach, given the error text it reads.
RestoreState(err) ==
  IF ShuttingDown \/ err # "device"
  THEN state' = state /\ lastErr' = err
  ELSE /\ lastErr' = "none"
       /\ state' = IF auth THEN "Running"
                   ELSE IF inter # Null THEN "NeedsAuthentication"
                   ELSE "Starting"

AttachDevice ==
  /\ life = "free" /\ ~closed /\ ~open
  /\ gen < MaxGen
  /\ open' = TRUE
  /\ gen' = gen + 1
  /\ IF ~started
     THEN UNCHANGED <<state, lastErr, runtime, watch, ctl>>
     ELSE /\ RestoreState(IF runtime THEN lastErr ELSE "none")
          /\ runtime' = TRUE
          /\ watch' = watch \cup {gen + 1}
          /\ ctl' = IF runtime THEN ctl ELSE "register"
  /\ UNCHANGED <<terminal, auth, inter, lastID, expired, browser, started,
                 closed, life, ctx, followup, resume, closer, done>>

\* External: the owner of the API closes it.
DeviceCloses ==
  /\ open
  /\ open' = FALSE
  /\ UNCHANGED <<viewVars, lifeVars, gen, watch, ctlVars, closer, done>>

\* Mutant: the watcher does not compare generations.
WatchAnyGeneration(g) ==
  /\ g \in watch /\ (g < gen \/ ~open)
  /\ watch' = watch \ {g}
  /\ IF ~ShuttingDown
     THEN state' = "Degraded" /\ lastErr' = "device"
     ELSE UNCHANGED <<state, lastErr>>
  /\ UNCHANGED <<terminal, auth, inter, lastID, expired, browser, lifeVars, gen,
                 open, ctlVars, closer, done>>

\* watchDeviceLocked with reportClosedDevice.
WatchDevice(g) ==
  /\ g \in watch /\ (g < gen \/ ~open)
  /\ watch' = watch \ {g}
  /\ IF gen = g /\ ~ShuttingDown
     THEN state' = "Degraded" /\ lastErr' = "device"
     ELSE UNCHANGED <<state, lastErr>>
  /\ UNCHANGED <<terminal, auth, inter, lastID, expired, browser, lifeVars, gen,
                 open, ctlVars, closer, done>>

WatchCancelled(g) ==
  /\ g \in watch /\ ContextOver
  /\ watch' = watch \ {g}
  /\ UNCHANGED <<viewVars, lifeVars, gen, open, ctlVars, closer, done>>

-----------------------------------------------------------------------------
(* The control goroutine: authenticate.                                    *)

Control(from, to) == ctl \in from /\ ctl' = to

NewInteraction(kind, url) ==
  /\ lastID < MaxID
  /\ lastID' = lastID + 1
  /\ inter' = [id |-> lastID + 1, kind |-> kind, url |-> url]

SetInteraction(kind, url) ==
  IF inter # Null /\ inter.kind = kind /\ inter.url = url
  THEN UNCHANGED <<inter, lastID>>
  ELSE NewInteraction(kind, url)

\* A transport error or an error in the response, before reportError.
RegisterFails ==
  /\ Control({"register"}, "failed")
  /\ UNCHANGED <<viewVars, lifeVars, devVars, followup, resume, closer, done>>

ReportRegisterError ==
  /\ Control({"failed"}, "backoff")
  /\ lastErr' = "other"
  /\ state' = "Degraded"
  /\ UNCHANGED <<terminal, auth, inter, lastID, expired, browser, lifeVars,
                 devVars, followup, resume, closer, done>>

RegisterExpired ==
  /\ Control({"register"}, "expired")
  /\ SetInteraction("expired", Null)
  /\ state' = "Degraded"
  /\ lastErr' = "expired"
  /\ UNCHANGED <<terminal, auth, expired, browser, lifeVars, devVars, followup,
                 resume, closer, done>>

RegisterURL(url) ==
  /\ Control({"register"}, "poll")
  /\ followup' = TRUE
  /\ SetInteraction("authenticate", url)
  /\ state' = "NeedsAuthentication"
  /\ UNCHANGED <<lastErr, terminal, auth, expired, browser, lifeVars, devVars,
                 resume, closer, done>>

\* Mutant: success leaves the authentication request on display.
RegisterKeepsInteraction ==
  /\ Control({"register"}, "map")
  /\ auth' = TRUE
  /\ state' = "Running"
  /\ lastErr' = "none"
  /\ UNCHANGED <<terminal, inter, lastID, expired, browser, lifeVars, devVars,
                 followup, resume, closer, done>>

RegisterOK ==
  /\ Control({"register"}, "map")
  /\ auth' = TRUE
  /\ inter' = Null
  /\ state' = "Running"
  /\ lastErr' = "none"
  /\ UNCHANGED <<terminal, lastID, expired, browser, lifeVars, devVars, followup,
                 resume, closer, done>>

\* Mutant: only ResumeInteraction ends the wait.
WaitForResume ==
  /\ "token" \in resume
  /\ Control({"backoff", "poll"}, "register")
  /\ resume' = resume \ {"token"}
  /\ UNCHANGED <<viewVars, lifeVars, devVars, followup, closer, done>>

\* waitOrResume: the timer, or the token of ResumeInteraction.
WaitOver ==
  /\ Control({"backoff", "poll"}, "register")
  /\ resume' \in {resume, resume \ {"token"}}
  /\ UNCHANGED <<viewVars, lifeVars, devVars, followup, closer, done>>

\* authenticate returns ctx.Err(); run treats a deadline as a failure.
AuthenticateCancelled ==
  /\ ContextOver
  /\ Control({"register", "backoff", "poll"},
             IF ctx = "deadline" THEN "deadline" ELSE "exit")
  /\ UNCHANGED <<viewVars, lifeVars, devVars, followup, resume, closer, done>>

SetTerminalError ==
  /\ Control({"expired", "deadline"}, "terminal")
  /\ terminal' = TRUE
  /\ lastErr' = IF ctl = "expired" THEN "expired" ELSE "other"
  /\ state' = "Degraded"
  /\ UNCHANGED <<auth, inter, lastID, expired, browser, lifeVars, devVars,
                 followup, resume, closer, done>>

TerminalExit ==
  /\ ContextOver
  /\ Control({"terminal"}, "exit")
  /\ UNCHANGED <<viewVars, lifeVars, devVars, followup, resume, closer, done>>

-----------------------------------------------------------------------------
(* The control goroutine: mapLoop, and applyMapResponse's part in c.state. *)

\* A response that leaves self with Expired = exp and may carry a browser URL.
ApplyMapResponse(exp, url) ==
  LET pops == url # Null /\ url # browser
      expires == exp /\ ~expired
      shown == IF pops THEN "control-url"
               ELSE IF inter = Null THEN Null ELSE inter.kind
      cleared == ~exp /\ expired /\ shown = "expired"
      count == (IF pops THEN 1 ELSE 0) + (IF expires THEN 1 ELSE 0)
  IN
  /\ ctl = "map"
  /\ lastID + count <= MaxID
  /\ lastID' = lastID + count
  /\ browser' = IF pops THEN url ELSE browser
  /\ inter' = IF expires
                THEN [id |-> lastID + count, kind |-> "expired", url |-> Null]
              ELSE IF cleared THEN Null
              ELSE IF pops
                THEN [id |-> lastID + 1, kind |-> "control-url", url |-> url]
              ELSE inter
  /\ expired' = exp
  /\ \/ exp /\ state' = "Degraded" /\ lastErr' = "expired"
     \/ /\ ~exp /\ state = "Degraded" /\ (shown = "expired" => cleared)
        /\ state' = "Running" /\ lastErr' = "none"
     \/ /\ ~exp /\ (state = "Degraded" => shown = "expired" /\ ~cleared)
        /\ UNCHANGED <<state, lastErr>>
  /\ UNCHANGED <<terminal, auth, lifeVars, devVars, ctlVars, closer, done>>

\* The stream ended and the context was still live when it was checked.
MapStreamEnds ==
  /\ ctx = "live"
  /\ Control({"map"}, "mapfailed")
  /\ UNCHANGED <<viewVars, lifeVars, devVars, followup, resume, closer, done>>

ReportMapError ==
  /\ Control({"mapfailed"}, "mapwait")
  /\ lastErr' = "other"
  /\ state' = "Degraded"
  /\ UNCHANGED <<terminal, auth, inter, lastID, expired, browser, lifeVars,
                 devVars, followup, resume, closer, done>>

MapReconnect ==
  /\ Control({"mapwait"}, "map")
  /\ UNCHANGED <<viewVars, lifeVars, devVars, followup, resume, closer, done>>

MapLoopExit ==
  /\ ContextOver
  /\ Control({"map", "mapwait"}, "exit")
  /\ UNCHANGED <<viewVars, lifeVars, devVars, followup, resume, closer, done>>

-----------------------------------------------------------------------------
(* The application, and Close.                                             *)

\* Only the ID of the current interaction is accepted.  The token is sent after
\* c.mu is released, when that interaction may be over.
ResumeInteraction ==
  /\ ~ShuttingDown
  /\ inter # Null
  /\ IF inter.kind = "control-url"
     THEN inter' = Null /\ UNCHANGED resume
     ELSE resume' = resume \cup {"called"} /\ UNCHANGED inter
  /\ UNCHANGED <<state, lastErr, terminal, auth, lastID, expired, browser,
                 lifeVars, devVars, ctl, followup, closer, done>>

\* A full c.resume is left as it is; other callers may be about to send too.
ResumeSend ==
  /\ "called" \in resume
  /\ resume' \in {{"token"}, {"called", "token"}}
  /\ UNCHANGED <<viewVars, lifeVars, devVars, ctl, followup, closer, done>>

\* reportError(err, "") of endpointUpdater, or setPeerError: text only.
ErrorReported ==
  /\ runtime /\ lastErr # "other"
  /\ lastErr' = "other"
  /\ UNCHANGED <<state, terminal, auth, inter, lastID, expired, browser,
                 lifeVars, devVars, ctlVars, closer, done>>

\* The context given to Start is cancelled or runs out of time.
ParentEnds(how) ==
  /\ ctx = "live"
  /\ ctx' = how
  /\ UNCHANGED <<viewVars, started, runtime, closed, life, devVars, ctlVars,
                 closer, done>>

CloseNotStarted ==
  /\ life = "free" /\ ~closed /\ ~started
  /\ closed' = TRUE
  /\ state' = "Stopped"
  /\ done' = TRUE
  /\ UNCHANGED <<lastErr, terminal, auth, inter, lastID, expired, browser,
                 started, runtime, life, ctx, devVars, ctlVars, closer>>

CloseBegin ==
  /\ life = "free" /\ ~closed /\ started
  /\ closed' = TRUE
  /\ state' = "Stopping"
  /\ closer' = "stopping"
  /\ UNCHANGED <<lastErr, terminal, auth, inter, lastID, expired, browser,
                 started, runtime, life, ctx, devVars, ctlVars, done>>

CloseCancel ==
  /\ closer = "stopping"
  /\ closer' = "waiting"
  /\ ctx' = IF ctx = "live" THEN "cancelled" ELSE ctx
  /\ UNCHANGED <<viewVars, started, runtime, closed, life, devVars, ctlVars,
                 done>>

\* Mutants: Close does not wait for the watchers, or for run.
CloseWaitsFor(ready) ==
  /\ closer = "waiting"
  /\ ready
  /\ closer' = "released"
  /\ UNCHANGED <<viewVars, lifeVars, devVars, ctlVars, done>>
CloseSkipsWatchers == CloseWaitsFor(ctl \in {"off", "exit"})
CloseSkipsControl == CloseWaitsFor(watch = {})

\* wg.Wait returns; then removeOwnedPeers and the transport (PeerReconcile).
CloseWait ==
  /\ closer = "waiting"
  /\ ctl \in {"off", "exit"} /\ watch = {}
  /\ closer' = "released"
  /\ UNCHANGED <<viewVars, lifeVars, devVars, ctlVars, done>>

CloseStopped ==
  /\ closer = "released"
  /\ closer' = "stopped"
  /\ state' = "Stopped"
  /\ terminal' \in {terminal, TRUE}              \* a cleanup error is joined
  /\ UNCHANGED <<lastErr, auth, inter, lastID, expired, browser, lifeVars,
                 devVars, ctlVars, done>>

CloseDone ==
  /\ closer = "stopped" /\ ~done
  /\ done' = TRUE
  /\ UNCHANGED <<viewVars, lifeVars, devVars, ctlVars, closer>>

-----------------------------------------------------------------------------
Init ==
  /\ state = "New" /\ lastErr = "none" /\ terminal = FALSE
  /\ started = FALSE /\ runtime = FALSE /\ closed = FALSE /\ life = "free"
  /\ ctx = "none"
  /\ gen = 0 /\ open \in BOOLEAN /\ watch = {}      \* New's optional API
  /\ auth = FALSE /\ inter = Null /\ lastID = 0
  /\ expired = FALSE /\ browser = Null
  /\ ctl = "off" /\ followup = FALSE /\ resume = {}
  /\ closer = "none" /\ done = FALSE

Attachment ==
  \/ StartBegin \/ StartFails \/ StartDone
  \/ AttachDevice \/ DeviceCloses
  \/ \E g \in 1..MaxGen : WatchDevice(g) \/ WatchCancelled(g)

ControlGoroutine ==
  \/ RegisterFails \/ ReportRegisterError \/ RegisterExpired \/ RegisterOK
  \/ \E url \in URLs : RegisterURL(url)
  \/ WaitOver \/ AuthenticateCancelled \/ SetTerminalError \/ TerminalExit
  \/ \E exp \in BOOLEAN, url \in URLs \cup {Null} : ApplyMapResponse(exp, url)
  \/ MapStreamEnds \/ ReportMapError \/ MapReconnect \/ MapLoopExit

Application ==
  \/ ResumeInteraction \/ ResumeSend \/ ErrorReported
  \/ \E how \in {"cancelled", "deadline"} : ParentEnds(how)

Shutdown ==
  \/ CloseNotStarted \/ CloseBegin \/ CloseCancel \/ CloseWait
  \/ CloseStopped \/ CloseDone

Next == Attachment \/ ControlGoroutine \/ Application \/ Shutdown

Spec == Init /\ [][Next]_vars

(***************************************************************************)
(* Fairness.  Goroutines run and lifeMu is handed over; a select that has  *)
(* the ended context among its ready cases infinitely often takes it       *)
(* (strong fairness), and a control server that is asked again and again   *)
(* in the end accepts the node.                                            *)
(***************************************************************************)
Fairness ==
  /\ WF_vars(StartDone)
  /\ WF_vars(ReportRegisterError \/ SetTerminalError \/ ReportMapError)
  /\ SF_vars(AuthenticateCancelled \/ TerminalExit \/ MapLoopExit)
  /\ WF_vars(\E g \in 1..MaxGen : WatchCancelled(g))
  /\ WF_vars(ContextOver /\ CloseBegin)
  /\ WF_vars(CloseCancel \/ CloseWait \/ CloseStopped \/ CloseDone)
  /\ WF_vars(WaitOver)
  /\ SF_vars(RegisterOK)

FairSpec == Spec /\ Fairness

-----------------------------------------------------------------------------
(***************************************************************************)
(* Stopped is the last state: no goroutine that writes c.state outlives    *)
(* the wait group, and Start and AttachDevice are refused.                 *)
(***************************************************************************)
StoppedIsFinal == [][state = "Stopped" => state' = "Stopped"]_vars

(***************************************************************************)
(* When Done is closed, the control goroutine and every device watcher are *)
(* gone, the context has ended, and the client says Stopped.               *)
(***************************************************************************)
DoneIsQuiet ==
  done => /\ ctl \in {"off", "exit"} /\ watch = {}
          /\ state = "Stopped"
          /\ started => ContextOver

(***************************************************************************)
(* A person is asked to authenticate exactly while the client waits for    *)
(* it: a polling control goroutine has an authentication URL on display,   *)
(* and no such request survives authentication.                            *)
(***************************************************************************)
InteractionMatchesControl ==
  /\ ctl = "poll" => inter # Null /\ inter.kind = "authenticate"
  /\ auth /\ inter # Null => inter.kind # "authenticate"

(***************************************************************************)
(* ErrDeviceClosed is shown only while the attached API is closed: a       *)
(* replacement clears it, and the replaced API's watcher cannot set it.    *)
(***************************************************************************)
DeviceErrorIsCurrent == lastErr = "device" => ~open

\* Running is reported only for an authenticated node with a live identity.
RunningIsAuthenticated == state = "Running" => auth /\ runtime

\* What Snapshot reports of the device and of the registration is so.
ReportIsCurrent == DeviceErrorIsCurrent /\ RunningIsAuthenticated

(***************************************************************************)
(* The lifecycle diagram's only edge out of Stopping: "Stopping -->        *)
(* Stopped".  Not a property of the code: authenticate, setInteraction and *)
(* reportError assign c.state without looking at it.                       *)
(***************************************************************************)
StoppingOnlyStops ==
  [][state = "Stopping" => state' \in {"Stopping", "Stopped"}]_vars

(***************************************************************************)
(* What makes the invariants inductive: who can exist in each phase, and   *)
(* that only an authenticated goroutine is in the map loop.                *)
(***************************************************************************)
PhaseInv ==
  /\ life = "start" => ~started /\ ~closed /\ ctx # "none"
  /\ ~started => /\ ctl = "off" /\ watch = {} /\ ~runtime
                 /\ closer = "none" /\ lastErr = "none"
  /\ started => ctx # "none"
  /\ started /\ closed <=> closer # "none"
  /\ ctl # "off" => runtime
  /\ started /\ ~runtime => watch = {}
  /\ closer \in {"waiting", "released", "stopped"} => ContextOver
  /\ closer \in {"released", "stopped"} => ctl \in {"off", "exit"} /\ watch = {}
  /\ closer = "stopped" => state = "Stopped"
  /\ state = "Stopped" => closed /\ (started => closer = "stopped")
  /\ state = "Stopping" => closed
  /\ done => closed /\ state = "Stopped"

AuthInv ==
  /\ ctl \in Mapping => auth
  /\ auth => ctl \in Mapping \cup {"exit"}
  /\ auth => runtime

IndInv == /\ TypeOK /\ PhaseInv /\ AuthInv /\ InteractionMatchesControl
          /\ DeviceErrorIsCurrent /\ RunningIsAuthenticated

\* The end of the Start context, or Close, leads to a closed Done channel.
ShutdownCompletes == (ContextOver /\ started) \/ closed ~> done

\* Close, or the end of the Start context, stops the client, and for good.
StopsForGood == ShutdownCompletes /\ StoppedIsFinal

\* Authentication never gets stuck: it succeeds, fails for good or is ended.
AuthenticationProgress ==
  ctl \in Authenticating ~> auth \/ ctl \in Finishing \cup {"exit"}
=============================================================================

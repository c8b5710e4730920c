--------------------------- MODULE EndpointReports ---------------------------
(***************************************************************************)
(* How control learns this node's endpoints and home region.  Goroutines   *)
(* of the bind change its endpoints and call notifyEndpoints               *)
(* (internal/tailnet/bind.go, stun.go, netcheck.go); onEndpoints stores    *)
(* the list and fills a wake-up channel of capacity one; endpointUpdater   *)
(* sends a MapUpdate (client.go).  The map loop's own MapStream request    *)
(* carries the same data, and so may overtake or be overtaken.             *)
(*                                                                         *)
(* A list of endpoints, and a home, is the number of the change that made  *)
(* it.                                                                     *)
(***************************************************************************)
EXTENDS Integers

CONSTANTS
  Notifiers,      \* goroutines that change the bind's endpoints: readUDP, maintain
  MaxEndpoints,   \* bound on the changes of endpoints
  MaxHomes        \* bound on the changes of the home

ASSUME ReportConstants == MaxEndpoints \in Nat /\ MaxHomes \in Nat

VARIABLES
  bindEp,         \* the endpoints in the bind
  notifier,       \* each one's step and the list it has read
  clientEp,       \* c.endpoints
  home,           \* c.preferredDERP
  homeSignal,     \* onDERPLatency has changed the home and not yet signalled
  wake,           \* endpointWake holds a token
  authenticated,
  updater,        \* endpointUpdater: its step and its request
  mapper,         \* run and mapLoop: its step and its request
  control,        \* what control was told last
  newestEp,       \* history: the newest list stored in the client
  newestTold,     \* history: the newest list and home control has received
  lost            \* history: the updater's last request failed

bindVars == <<bindEp, notifier, clientEp, newestEp>>
homeVars == <<home, homeSignal>>
controlVars == <<control, newestTold>>
reportVars == <<bindVars, homeVars, wake, authenticated, updater, mapper, controlVars, lost>>

Blank == [ep |-> 0, home |-> 0]
Larger(a, b) == IF a > b THEN a ELSE b

ReportInit ==
  /\ bindEp = 0 /\ clientEp = 0 /\ newestEp = 0 /\ home = 0 /\ homeSignal = FALSE
  /\ notifier = [g \in Notifiers |-> [at |-> "idle", ep |-> 0]]
  /\ wake = FALSE /\ authenticated = FALSE
  /\ updater = [at |-> "wait", req |-> Blank]
  /\ mapper = [at |-> "register", req |-> Blank]
  /\ control = Blank /\ newestTold = Blank /\ lost = FALSE

-----------------------------------------------------------------------------
(* notifyEndpoints and onEndpoints, in one of the bind's goroutines.       *)

NotifierAt(g, step) == notifier[g].at = step
NotifierTo(g, step) == notifier' = [notifier EXCEPT ![g].at = step]
NotifierDone(g) == notifier' = [notifier EXCEPT ![g] = [at |-> "idle", ep |-> 0]]

\* Open, refreshLocalEndpoints, a first STUN reply or a pruned one, under b.mu.
ChangeEndpoints(g) ==
  /\ NotifierAt(g, "idle") /\ bindEp < MaxEndpoints
  /\ bindEp' = bindEp + 1
  /\ NotifierTo(g, "changed")
  /\ UNCHANGED <<clientEp, newestEp, homeVars, wake, authenticated, updater, mapper,
                 controlVars, lost>>

\* CurrentEndpoints.
ReadEndpoints(g) ==
  /\ NotifierAt(g, "changed")
  /\ notifier' = [notifier EXCEPT ![g] = [at |-> "read", ep |-> bindEp]]
  /\ UNCHANGED <<bindEp, clientEp, newestEp, homeVars, wake, authenticated, updater, mapper,
                 controlVars, lost>>

\* onEndpoints stores the list under c.mu ...
StoreEndpoints(g) ==
  /\ NotifierAt(g, "read")
  /\ clientEp' = notifier[g].ep /\ newestEp' = Larger(newestEp, notifier[g].ep)
  /\ NotifierTo(g, "stored")
  /\ UNCHANGED <<bindEp, homeVars, wake, authenticated, updater, mapper, controlVars, lost>>

\* ... and signals once it is released.
SignalEndpoints(g) ==
  /\ NotifierAt(g, "stored")
  /\ wake' = TRUE
  /\ NotifierDone(g)
  /\ UNCHANGED <<bindEp, clientEp, newestEp, homeVars, authenticated, updater, mapper,
                 controlVars, lost>>

Notify(g) ==
  ReadEndpoints(g) \/ StoreEndpoints(g) \/ SignalEndpoints(g)

-----------------------------------------------------------------------------
(* onDERPLatency, which reconciles the peers before it signals.            *)

LatencyHome ==
  /\ ~homeSignal /\ home < MaxHomes
  /\ home' = home + 1 /\ homeSignal' = TRUE
  /\ UNCHANGED <<bindVars, wake, authenticated, updater, mapper, controlVars, lost>>

LatencySignal ==
  /\ homeSignal
  /\ homeSignal' = FALSE /\ wake' = TRUE
  /\ UNCHANGED <<bindVars, home, authenticated, updater, mapper, controlVars, lost>>

-----------------------------------------------------------------------------
(* endpointUpdater.                                                        *)

UpdaterTo(step) == updater' = [updater EXCEPT !.at = step]

UpdaterWakes ==
  /\ updater.at = "wait" /\ wake
  /\ wake' = FALSE /\ UpdaterTo("woken")
  /\ UNCHANGED <<bindVars, homeVars, authenticated, mapper, controlVars, lost>>

UpdaterChecks ==
  /\ updater.at = "woken"
  /\ UpdaterTo(IF authenticated THEN "build" ELSE "wait")
  /\ UNCHANGED <<bindVars, homeVars, wake, authenticated, mapper, controlVars, lost>>

\* mapRequest reads the endpoints, hostinfo the home, under c.mu each.
UpdaterReads ==
  /\ updater.at = "build"
  /\ updater' = [at |-> "home", req |-> [ep |-> clientEp, home |-> 0]]
  /\ lost' = FALSE
  /\ UNCHANGED <<bindVars, homeVars, wake, authenticated, mapper, controlVars>>

UpdaterReadsHome ==
  /\ updater.at = "home"
  /\ updater' = [at |-> "send", req |-> [updater.req EXCEPT !.home = home]]
  /\ UNCHANGED <<bindVars, homeVars, wake, authenticated, mapper, controlVars, lost>>

\* control (external) takes what the request says.
Received(req) ==
  /\ control' = req
  /\ newestTold' = [ep |-> Larger(newestTold.ep, req.ep),
                    home |-> Larger(newestTold.home, req.home)]

UpdateReceived ==
  /\ updater.at = "send"
  /\ Received(updater.req)
  /\ updater' = [at |-> "wait", req |-> Blank]
  /\ UNCHANGED <<bindVars, homeVars, wake, authenticated, mapper, lost>>

\* MapUpdate fails, within 20 seconds; the error is only reported, and the
\* request may have been received.
UpdateFails ==
  /\ updater.at = "send"
  /\ UNCHANGED controlVars \/ Received(updater.req)
  /\ updater' = [at |-> "wait", req |-> Blank]
  /\ lost' = TRUE
  /\ UNCHANGED <<bindVars, homeVars, wake, authenticated, mapper>>

-----------------------------------------------------------------------------
(* run: authenticate, signal, and mapLoop.                                 *)

MapperTo(step) == mapper' = [mapper EXCEPT !.at = step]

Authenticate ==
  /\ mapper.at = "register"
  /\ authenticated' = TRUE /\ MapperTo("signal")
  /\ UNCHANGED <<bindVars, homeVars, wake, updater, controlVars, lost>>

RunSignals ==
  /\ mapper.at = "signal"
  /\ wake' = TRUE /\ MapperTo("build")
  /\ UNCHANGED <<bindVars, homeVars, authenticated, updater, controlVars, lost>>

MapperReads ==
  /\ mapper.at = "build"
  /\ mapper' = [at |-> "home", req |-> [ep |-> clientEp, home |-> 0]]
  /\ UNCHANGED <<bindVars, homeVars, wake, authenticated, updater, controlVars, lost>>

MapperReadsHome ==
  /\ mapper.at = "home"
  /\ mapper' = [at |-> "send", req |-> [mapper.req EXCEPT !.home = home]]
  /\ UNCHANGED <<bindVars, homeVars, wake, authenticated, updater, controlVars, lost>>

StreamOpens ==
  /\ mapper.at = "send"
  /\ Received(mapper.req)
  /\ mapper' = [at |-> "stream", req |-> Blank]
  /\ UNCHANGED <<bindVars, homeVars, wake, authenticated, updater, lost>>

\* The request fails, received or not, or the stream does, and the loop begins
\* again after a pause.
StreamFails ==
  /\ \/ mapper.at \in {"send", "stream"} /\ UNCHANGED controlVars
     \/ mapper.at = "send" /\ Received(mapper.req)
  /\ mapper' = [at |-> "build", req |-> Blank]
  /\ UNCHANGED <<bindVars, homeVars, wake, authenticated, updater, lost>>

\* Mutant: applyMapResponse does not signal a new home.
MapHomeQuietly ==
  /\ mapper.at = "stream" /\ home < MaxHomes
  /\ home' = home + 1
  /\ UNCHANGED <<bindVars, homeSignal, wake, authenticated, updater, mapper, controlVars, lost>>

\* applyMapResponse changes the home ...
MapHome ==
  /\ mapper.at = "stream" /\ home < MaxHomes
  /\ home' = home + 1 /\ MapperTo("apply")
  /\ UNCHANGED <<bindVars, homeSignal, wake, authenticated, updater, controlVars, lost>>

\* ... and signals at its end.
MapSignal ==
  /\ mapper.at = "apply"
  /\ wake' = TRUE /\ MapperTo("stream")
  /\ UNCHANGED <<bindVars, homeVars, authenticated, updater, controlVars, lost>>

UpdaterStep ==
  \/ UpdaterWakes \/ UpdaterChecks \/ UpdaterReads \/ UpdaterReadsHome
  \/ UpdateReceived \/ UpdateFails

MapperStep ==
  \/ Authenticate \/ RunSignals \/ MapperReads \/ MapperReadsHome
  \/ StreamOpens \/ StreamFails \/ MapHome \/ MapSignal

ReportNext ==
  \/ \E g \in Notifiers : ChangeEndpoints(g) \/ Notify(g)
  \/ LatencyHome \/ LatencySignal
  \/ UpdaterStep \/ MapperStep

ReportSpec == ReportInit /\ [][ReportNext]_reportVars

\* Goroutines run; MapUpdate returns, as it has a timeout.
ReportFairness ==
  /\ \A g \in Notifiers : WF_reportVars(Notify(g))
  /\ WF_reportVars(LatencySignal) /\ WF_reportVars(UpdaterStep)
  /\ WF_reportVars(RunSignals \/ MapSignal)

-----------------------------------------------------------------------------
(* Properties.                                                             *)

\* Nothing is on its way from the bind to control.
ReportsQuiet ==
  /\ \A g \in Notifiers : NotifierAt(g, "idle")
  /\ ~homeSignal /\ ~wake /\ updater.at = "wait" /\ mapper.at = "stream"

\* Once nothing is on its way, control has the bind's endpoints and the client's
\* home, however changes, wake-ups, authentication and the two kinds of requests
\* interleaved.  The exceptions are the ones the code has: the last update failed,
\* an older list was stored after a newer one, or an older request arrived after
\* a newer one.
ControlInformed ==
  authenticated /\ ReportsQuiet /\ ~lost /\ clientEp = newestEp /\ control = newestTold =>
    control = [ep |-> bindEp, home |-> home]

\* Endpoints stored in an authenticated client reach control, with the same
\* exceptions, or are replaced.
EndpointsReachControl ==
  \A ep \in 1..MaxEndpoints :
    authenticated /\ clientEp = ep ~>
      \/ control.ep = ep
      \/ clientEp # ep \/ clientEp # newestEp
      \/ lost \/ control # newestTold

-----------------------------------------------------------------------------
(* The inductive invariant behind ControlInformed.                         *)

Request == [ep : Nat, home : Nat]

ReportTypeOK ==
  /\ bindEp \in Nat /\ clientEp \in Nat /\ newestEp \in Nat /\ home \in Nat
  /\ notifier \in [Notifiers -> [at : {"idle", "changed", "read", "stored"}, ep : Nat]]
  /\ updater \in [at : {"wait", "woken", "build", "home", "send"}, req : Request]
  /\ mapper \in [at : {"register", "signal", "build", "home", "send", "stream", "apply"},
                  req : Request]
  /\ newestTold \in Request

\* Nobody knows of a list or a home that was not there.
NothingInvented ==
  /\ newestEp <= bindEp /\ \A g \in Notifiers : notifier[g].ep <= bindEp
  /\ clientEp <= newestEp
  /\ \A known \in {updater.req, mapper.req, newestTold} :
       known.ep <= newestEp /\ known.home <= home

\* The bind's list has been stored, or a notifier is about to read or store it.
BindListComing ==
  \/ newestEp = bindEp
  \/ \E g \in Notifiers : \/ NotifierAt(g, "changed")
                          \/ NotifierAt(g, "read") /\ notifier[g].ep = bindEp

\* The updater has been woken or will be.
UpdateComing ==
  wake \/ mapper.at = "signal" \/ updater.at \in {"woken", "build"}

\* The newest list, while it is the client's, was told or is going to be.
ListTold ==
  authenticated /\ ~lost /\ clientEp = newestEp =>
    \/ newestTold.ep = newestEp \/ UpdateComing
    \/ \E g \in Notifiers : NotifierAt(g, "stored")
    \/ updater.at \in {"home", "send"} /\ updater.req.ep = newestEp

\* And so was the home.
HomeTold ==
  authenticated /\ ~lost =>
    \/ newestTold.home = home \/ UpdateComing
    \/ homeSignal \/ mapper.at = "apply" \/ updater.at = "home"
    \/ updater.at = "send" /\ updater.req.home = home

ReportInv ==
  ReportTypeOK /\ NothingInvented /\ BindListComing /\ ListTold /\ HomeTold
=============================================================================

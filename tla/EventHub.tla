------------------------------ MODULE EventHub ------------------------------
(***************************************************************************)
(* Change notifications: the revision counter of Client (bumpLocked and    *)
(* eventLocked), eventHub (subscribe, publish, close) and the subscribers, *)
(* which receive an event and then call Snapshot.                          *)
(*                                                                         *)
(* An event is its revision.  A change bumps the revision and builds its   *)
(* events in one critical section of c.mu and publishes them after         *)
(* releasing it, so publications of different goroutines interleave.       *)
(* Start bumps first and builds its events once it has succeeded; when it  *)
(* fails there is none.  publish holds h.mu while it offers the event to   *)
(* each channel; receivers take events out of a channel without that lock, *)
(* between any two of its channel operations.                              *)
(***************************************************************************)
EXTENDS Integers, Sequences

CONSTANTS
  Producers,  \* goroutines and callers that change the client
  Subs,       \* subscriptions, each made at most once
  Buffer,     \* the buffer size each one asks for
  MaxEvents,  \* bound on the events of one change
  MaxRev,     \* bound on the revision
  Starter,    \* the goroutine that calls Client.Start
  Closer,     \* the goroutine that runs Client.Close
  None

ASSUME EventHubConstants ==
  /\ Starter # Closer /\ Starter \notin Producers /\ Closer \notin Producers
  /\ None \notin Producers \cup {Starter, Closer} \cup Subs
  /\ Buffer \in [Subs -> Int]
  /\ MaxEvents \in Nat \ {0} /\ MaxRev \in Nat

Publishers == Producers \cup {Starter, Closer}

VARIABLES
  rev,      \* c.revision
  start,    \* progress of Start, which may be called again after it failed
  began,    \* history: the revision of the last Start
  silent,   \* history: the revisions of the Starts that failed
  pend,     \* events a goroutine has built and not yet published
  lock,     \* the goroutine in publish, holding h.mu
  todo,     \* channels publish has not yet visited
  full,     \* the channel publish found full, and what it does next
  chan,     \* none, open, closed by the hub, or cancelled
  buf,      \* events in the channel
  hub,      \* h.closed
  closing,  \* progress of Close
  stopped,  \* history: the revision at which the state became Stopped
  last,     \* history: the last event publish offered to the channel
  got,      \* the last event received
  reader,   \* woken between receiving an event and calling Snapshot
  snap      \* revision of the last Snapshot

startVars == <<start, began, silent>>
clientVars == <<rev, startVars, closing, stopped>>
hubVars == <<lock, todo, full>>
readVars == <<got, reader, snap>>
vars == <<clientVars, pend, hubVars, chan, buf, hub, last, readVars>>

Capacity(s) == IF Buffer[s] < 1 THEN 1 ELSE Buffer[s]

TypeOK ==
  /\ rev \in 0..MaxRev
  /\ start \in {"no", "starting", "failed", "started"}
  /\ began \in 0..MaxRev /\ silent \in SUBSET (1..MaxRev)
  /\ pend \in [Publishers -> Seq(1..MaxRev)]
  /\ lock \in Publishers \cup {None}
  /\ todo \in SUBSET Subs
  /\ full \in [sub : Subs \cup {None}, next : {"drop", "resend"}]
  /\ chan \in [Subs -> {"none", "open", "closed", "cancelled"}]
  /\ buf \in [Subs -> Seq(1..MaxRev)]
  /\ \A s \in Subs : Len(buf[s]) <= Capacity(s)
  /\ hub \in {"open", "closed"}
  /\ closing \in {"no", "stopping", "stopped"}
  /\ stopped \in 0..MaxRev
  /\ last \in [Subs -> 0..MaxRev] /\ got \in [Subs -> 0..MaxRev]
  /\ reader \in [Subs -> {"idle", "woken"}]
  /\ snap \in [Subs -> 0..MaxRev]

-----------------------------------------------------------------------------
(* Changes of the client.                                                  *)

\* bumpLocked and n calls of eventLocked in one critical section of c.mu.
Bump(p, n) ==
  /\ pend[p] = <<>> /\ lock # p
  /\ rev < MaxRev
  /\ rev' = rev + 1
  /\ pend' = [pend EXCEPT ![p] = [i \in 1..n |-> rev + 1]]
  /\ UNCHANGED <<hubVars, chan, buf, hub, last, readVars>>

\* applyMapResponse, setInteraction, reportError, onPath, ConfirmPeer, ...: there
\* is nothing to change before the first Start.
Change(p, n) ==
  /\ start # "no"
  /\ Bump(p, n)
  /\ UNCHANGED <<startVars, closing, stopped>>

\* Start has lifeMu from here until it has published its events or has failed.
StartBegin ==
  /\ closing = "no" /\ start \in {"no", "failed"}
  /\ rev < MaxRev
  /\ rev' = rev + 1
  /\ start' = "starting" /\ began' = rev + 1
  /\ UNCHANGED <<silent, closing, stopped, pend, hubVars, chan, buf, hub, last, readVars>>

\* initializeRuntime failed: neither an event nor another revision.
StartFails ==
  /\ start = "starting"
  /\ start' = "failed"
  /\ silent' = silent \cup {began}
  /\ UNCHANGED <<rev, began, closing, stopped, pend, hubVars, chan, buf, hub, last, readVars>>

\* The two events have the revision of the moment, not Start's own.
StartDone ==
  /\ start = "starting"
  /\ start' = "started"
  /\ pend' = [pend EXCEPT ![Starter] = <<rev, rev>>]
  /\ UNCHANGED <<rev, began, silent, closing, stopped, hubVars, chan, buf, hub, last, readVars>>

CloseStopping ==
  /\ closing = "no" /\ start = "started" /\ pend[Starter] = <<>>
  /\ Bump(Closer, 2)
  /\ closing' = "stopping"
  /\ UNCHANGED <<startVars, stopped>>

\* The last change of Close; a client that has not started has no other.
CloseStopped ==
  /\ closing = "stopping" \/ (closing = "no" /\ start \in {"no", "failed"})
  /\ Bump(Closer, 1)
  /\ closing' = "stopped"
  /\ stopped' = rev + 1
  /\ UNCHANGED startVars

-----------------------------------------------------------------------------
(* eventHub.                                                               *)

Idle == [sub |-> None, next |-> "drop"]

PublishBegin(p) ==
  /\ lock = None /\ pend[p] # <<>>
  /\ hub = "open"
  /\ lock' = p
  /\ todo' = {s \in Subs : chan[s] = "open"}
  /\ UNCHANGED <<clientVars, pend, full, chan, buf, hub, last, readVars>>

PublishClosed(p) ==
  /\ lock = None /\ pend[p] # <<>>
  /\ hub = "closed"
  /\ pend' = [pend EXCEPT ![p] = Tail(pend[p])]
  /\ UNCHANGED <<clientVars, hubVars, chan, buf, hub, last, readVars>>

\* The event is in the channel of s and the loop goes on.
Deliver(s) ==
  /\ buf' = [buf EXCEPT ![s] = Append(buf[s], Head(pend[lock]))]
  /\ last' = [last EXCEPT ![s] = Head(pend[lock])]
  /\ todo' = todo \ {s}
  /\ full' = Idle
  /\ UNCHANGED <<clientVars, pend, lock, chan, hub, readVars>>

\* Mutant: publish gives up once it has made room.
GiveUp(s) ==
  /\ lock # None /\ full = [sub |-> s, next |-> "resend"]
  /\ last' = [last EXCEPT ![s] = Head(pend[lock])]
  /\ todo' = todo \ {s}
  /\ full' = Idle
  /\ UNCHANGED <<clientVars, pend, lock, chan, buf, hub, readVars>>

\* case ch <- event
Send(s) ==
  /\ lock # None /\ full.sub = None /\ s \in todo
  /\ Len(buf[s]) < Capacity(s)
  /\ Deliver(s)

\* Mutant: a full channel is waited for.
BlockWhenFull(s) == FALSE /\ UNCHANGED vars

\* default: the channel is full
SendFull(s) ==
  /\ lock # None /\ full.sub = None /\ s \in todo
  /\ Len(buf[s]) >= Capacity(s)
  /\ full' = [sub |-> s, next |-> "drop"]
  /\ UNCHANGED <<clientVars, pend, lock, todo, chan, buf, hub, last, readVars>>

\* case <-ch, or its default when the receiver has emptied the channel
DropOldest(s) ==
  /\ lock # None /\ full = [sub |-> s, next |-> "drop"]
  /\ buf' = [buf EXCEPT ![s] = IF buf[s] = <<>> THEN <<>> ELSE Tail(buf[s])]
  /\ full' = [sub |-> s, next |-> "resend"]
  /\ UNCHANGED <<clientVars, pend, lock, todo, chan, hub, last, readVars>>

\* The second case ch <- event, or its default.
Resend(s) ==
  /\ lock # None /\ full = [sub |-> s, next |-> "resend"]
  /\ IF Len(buf[s]) < Capacity(s)
     THEN Deliver(s)
     ELSE /\ last' = [last EXCEPT ![s] = Head(pend[lock])]
          /\ todo' = todo \ {s}
          /\ full' = Idle
          /\ UNCHANGED <<clientVars, pend, lock, chan, buf, hub, readVars>>

PublishEnd ==
  /\ lock # None /\ todo = {}
  /\ pend' = [pend EXCEPT ![lock] = Tail(pend[lock])]
  /\ lock' = None
  /\ UNCHANGED <<clientVars, todo, full, chan, buf, hub, last, readVars>>

\* subscribe; the subscriber then calls Snapshot for its starting point.
Subscribe(s) ==
  /\ lock = None /\ chan[s] = "none"
  /\ chan' = [chan EXCEPT ![s] = IF hub = "closed" THEN "closed" ELSE "open"]
  /\ reader' = [reader EXCEPT ![s] = "woken"]
  /\ UNCHANGED <<clientVars, pend, hubVars, buf, hub, last, got, snap>>

\* The function subscribe returns; after the hub closed it does nothing.
Cancel(s) ==
  /\ lock = None /\ chan[s] = "open"
  /\ chan' = [chan EXCEPT ![s] = "cancelled"]
  /\ UNCHANGED <<clientVars, pend, hubVars, buf, hub, last, readVars>>

\* Mutant: close is called before the last event is published.
CloseBeforePublish ==
  /\ lock = None /\ hub = "open" /\ closing = "stopped"
  /\ hub' = "closed"
  /\ chan' = [s \in Subs |-> IF chan[s] = "open" THEN "closed" ELSE chan[s]]
  /\ UNCHANGED <<clientVars, pend, hubVars, buf, last, readVars>>

\* eventHub.close, called by Client.Close after its last publication.
HubClose ==
  /\ lock = None /\ hub = "open"
  /\ closing = "stopped" /\ pend[Closer] = <<>>
  /\ hub' = "closed"
  /\ chan' = [s \in Subs |-> IF chan[s] = "open" THEN "closed" ELSE chan[s]]
  /\ UNCHANGED <<clientVars, pend, hubVars, buf, last, readVars>>

-----------------------------------------------------------------------------
(* The subscriber.                                                         *)

Receive(s) ==
  /\ reader[s] = "idle" /\ buf[s] # <<>>
  /\ got' = [got EXCEPT ![s] = Head(buf[s])]
  /\ buf' = [buf EXCEPT ![s] = Tail(buf[s])]
  /\ reader' = [reader EXCEPT ![s] = "woken"]
  /\ UNCHANGED <<clientVars, pend, hubVars, chan, hub, last, snap>>

Snapshot(s) ==
  /\ reader[s] = "woken"
  /\ snap' = [snap EXCEPT ![s] = rev]
  /\ reader' = [reader EXCEPT ![s] = "idle"]
  /\ UNCHANGED <<clientVars, pend, hubVars, chan, buf, hub, last, got>>

Init ==
  /\ rev = 0 /\ closing = "no" /\ stopped = 0
  /\ start = "no" /\ began = 0 /\ silent = {}
  /\ pend = [p \in Publishers |-> <<>>]
  /\ lock = None /\ todo = {} /\ full = Idle
  /\ chan = [s \in Subs |-> "none"] /\ buf = [s \in Subs |-> <<>>]
  /\ hub = "open"
  /\ last = [s \in Subs |-> 0] /\ got = [s \in Subs |-> 0]
  /\ reader = [s \in Subs |-> "idle"] /\ snap = [s \in Subs |-> 0]

Publish ==
  \/ \E p \in Publishers : PublishBegin(p) \/ PublishClosed(p)
  \/ \E s \in Subs : Send(s) \/ SendFull(s) \/ DropOldest(s) \/ Resend(s)
  \/ PublishEnd

Read == \E s \in Subs : Receive(s) \/ Snapshot(s)

Next ==
  \/ \E p \in Producers, n \in 1..MaxEvents : Change(p, n)
  \/ StartBegin \/ StartFails \/ StartDone
  \/ CloseStopping \/ CloseStopped \/ HubClose
  \/ Publish
  \/ \E s \in Subs : Subscribe(s) \/ Cancel(s)
  \/ Read

Spec == Init /\ [][Next]_vars

\* Goroutines run, and the cache and the device that Start calls return.  No
\* fairness for receiving: a subscriber may be slow.
Fairness ==
  /\ WF_vars(StartFails \/ StartDone)
  /\ \A p \in Publishers : SF_vars(PublishBegin(p) \/ PublishClosed(p))
  /\ WF_vars(\E s \in Subs : Send(s) \/ SendFull(s) \/ DropOldest(s) \/ Resend(s))
  /\ WF_vars(PublishEnd)
FairSpec == Spec /\ Fairness

\* The subscribers keep receiving.
Reading == \A s \in Subs : WF_vars(Receive(s)) /\ WF_vars(Snapshot(s))

-----------------------------------------------------------------------------
(* Properties.                                                             *)

\* The publication in progress, if any, has yet to offer p's event to s.
Coming(p, s) ==
  \/ lock # p /\ pend[p] # <<>>
  \/ lock = p /\ (s \in todo \/ Len(pend[p]) > 1)

\* The Snapshot of s lacks a revision other than those that Start has not
\* announced: of Starts that failed, or of the one that has not returned.
Unannounced == silent \cup (IF start = "starting" THEN {began} ELSE {})
Behind(s) == \E r \in (snap[s] + 1)..rev : r \notin Unannounced

\* A subscriber of an open hub whose Snapshot is out of date will be woken:
\* an event is in its channel, it is about to call Snapshot, or a goroutine
\* still has an event to offer it.  Dropping events never loses a wake-up; only
\* the revision of a Start that failed comes without one.
Wakes(s) ==
  chan[s] = "open" /\ Behind(s) =>
    \/ buf[s] # <<>>
    \/ reader[s] = "woken"
    \/ \E p \in Publishers : Coming(p, s)
NoLostWakeup == \A s \in Subs : Wakes(s)

\* "Preserve the newest notification when a subscriber is behind": the last
\* event publish offered to a channel is the newest one in it, or has been
\* received, whatever the receiver did between publish's channel operations
\* (except where publish has made room in the channel and not yet used it).
HoldsNewest(s) ==
  full # [sub |-> s, next |-> "resend"] =>
    last[s] = IF buf[s] = <<>> THEN got[s] ELSE buf[s][Len(buf[s])]
NewestKept == \A s \in Subs : HoldsNewest(s)

\* Events dropped from a full channel lose neither the wake-up nor the newest.
WakesWithNewest == NoLostWakeup /\ NewestKept

\* publish never sends on a closed channel, which would panic: while it holds
\* h.mu no cancel function and no close can close a channel it will visit.
NoSendOnClosed ==
  \A s \in todo : chan[s] = "open"

\* A subscriber that has drained the channel Close closed, or that subscribed
\* later, has called Snapshot after the change to Stopped.
StoppedIsSeen ==
  \A s \in Subs :
    chan[s] = "closed" /\ buf[s] = <<>> /\ reader[s] = "idle" =>
      stopped > 0 /\ snap[s] >= stopped

\* "Subscribers receive coalescable Event hints whose revisions never regress"
\* (ARCHITECTURE.md): each event received is at least as new as the one before.
\* Not a property of the code: events are published after c.mu is released, in
\* any order.
RevisionsNeverRegress ==
  [][\A s \in Subs : reader'[s] = "woken" => got'[s] >= got[s]]_vars

\* "slow consumers do not block map processing" (ARCHITECTURE.md): publish
\* returns although nobody receives.
PublishReturns == lock # None ~> lock = None

\* A reading subscriber sees every change: for each revision, it calls Snapshot
\* at that revision or later, or its channel is closed, or the revision is that
\* of a Start that failed.
EveryChangeSeen ==
  Reading => \A s \in Subs, r \in 1..MaxRev :
    (chan[s] = "open" /\ rev >= r) ~> (snap[s] >= r \/ chan[s] # "open" \/ r \in silent)

\* Slow subscribers block nobody, and reading ones learn of every change.
EventsArrive == PublishReturns /\ EveryChangeSeen

-----------------------------------------------------------------------------
(* The inductive invariant of the proofs.                                  *)

\* The holder of h.mu has an event to publish, and the channel it found full is
\* one it has still to visit, with room once the oldest event is out.
HubInv ==
  /\ lock # None => pend[lock] # <<>>
  /\ lock = None => todo = {}
  /\ full.sub # None => lock # None /\ full.sub \in todo
  /\ full.next = "resend" => full.sub # None /\ Len(buf[full.sub]) < Capacity(full.sub)

\* Start publishes nothing before it has succeeded.
StartInv ==
  /\ start = "starting" => began \in 1..rev
  /\ start # "started" => pend[Starter] = <<>>

\* Channels stay closed; Close closes the hub after its last publication.
CloseInv ==
  /\ hub = "closed" => closing = "stopped" /\ pend[Closer] = <<>>
  /\ \A s \in Subs : chan[s] = "open" => hub = "open"
  /\ \A s \in Subs : chan[s] = "closed" => hub = "closed"
  /\ closing # "stopped" => stopped = 0
  /\ closing = "stopped" => stopped > 0
  /\ stopped <= rev

\* NoLostWakeup for the change to Stopped, which Close's own event announces;
\* another publication may drop that event, but only to put its own in.
LearnsStopped(s) ==
  \/ chan[s] \in {"none", "cancelled"}
  \/ snap[s] >= stopped \/ buf[s] # <<>> \/ reader[s] = "woken"
  \/ Coming(Closer, s) \/ full = [sub |-> s, next |-> "resend"]
StoppedComing == \A s \in Subs : LearnsStopped(s)

IndInv ==
  /\ TypeOK /\ HubInv /\ StartInv /\ CloseInv /\ NoSendOnClosed
  /\ NewestKept /\ NoLostWakeup /\ StoppedComing
=============================================================================

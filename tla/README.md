# A TLA+ model of wgo-tailscale

wgo-tailscale is a Go client that joins a Tailscale network with a wgo WireGuard
device it does not own. Much of it is concurrent state: a control goroutine, map
responses, device watchers, path callbacks, UDP and DERP readers, latency rounds
and API calls all change the same tables under a handful of mutexes, and most of
them release a lock between looking and acting. The modules here model those
parts; TLC checks them on small instances, and TLAPS proves the main safety
properties for every value of the constants.

Line numbers in the properties and in `PROJECT.json` refer to the files in `src/`.

## The system

| Part | Code | Module |
| --- | --- | --- |
| Client lifecycle: Start, AttachDevice, authentication, map loop, interactions, Close | `client.go`, `device.go`, `map.go` | `Lifecycle` |
| Peer reconciliation with the wgo device and the bind | `map.go`, `client.go`, `device.go`, `confirmation.go` | `PeerReconcile` |
| Map response reducer and resumed sessions | `map.go` | `NetworkMap` |
| Revisions, events, subscriptions, snapshots | `events.go`, `views.go`, `client.go` | `EventHub` |
| Identity and confirmations across processes | `cache.go`, `confirmation.go`, `client.go` | `ConfirmCache` |
| Reports of endpoints and home to control | `client.go`, `map.go`, `bind.go` | `EndpointReports` |
| Control pings | `map.go`, `client.go` | `ControlPings` |
| ACL and its export to a firewall | `acl.go` | `AccessRules` |
| MagicDNS resolver | `dns.go`, `views.go` | `MagicDNS` |
| Peer table of the bind, DISCO | `internal/tailnet/bind.go`, `disco.go` | `PeerTable` |
| DERP connections | `internal/tailnet/derp.go`, `bind.go` | `DerpManager` |
| Latency rounds, STUN, HTTPS fallback | `internal/tailnet/netcheck.go`, `stun.go` | `Netcheck` |
| Choice of the home DERP region | `netcheck.go`, `map.go`, `client.go` | `DerpHome` |
| Control connection after the handshake | `internal/controlproto/noise.go` | `NoiseConn`, `ByteStream` |

How they interact: the control goroutine (`Lifecycle`) reads map responses from a
connection (`NoiseConn`) and applies them (`NetworkMap`). They change the peers
that `PeerReconcile` publishes to the device and to the bind's table
(`PeerTable`), the DERP map that `DerpManager` connects to and `DerpHome` chooses
from, the rules and records that `AccessRules` and `MagicDNS` serve, and they
queue pings (`ControlPings`). The bind reports endpoints (`EndpointReports`), paths
and latencies (`PeerTable`, `Netcheck`) back to the client, which tells control and
reconciles again. Decisions of the application are kept by `ConfirmCache`. A change
bumps the revision and publishes events (`EventHub`); the one exception is a Start
that fails, whose revision nobody announces.

## Modules

A step of every module is one critical section of the lock that protects the
state, or one call of the outside world between two of them. Where a function
unlocks and locks again, it is several actions, and what it remembers across the
gap is a variable. `PeerReconcile` and `Netcheck` merge a few such steps, as said
below.

**Lifecycle.** `state`, `lastErr`, `inter`, `auth`, ... are the fields of Client
with those roles; `ctl` is where the control goroutine stands (registering,
backing off, polling, in the map stream, finishing), `closer` where Close stands,
`watch` the set of device watchers still running. `resume` has the token in
`c.resume`, and the calls of `ResumeInteraction` that have checked the interaction
and not yet sent theirs. Deliberately free: what the control server answers, when
the device closes, when the Start context ends (cancelled or by its deadline).

**PeerReconcile.** `applied`, `published` (`peerLocal[key].applied`) and
`bindPeers` are the three records of what was published; `specs` is the device,
which another controller also writes. One session of `reconcilePeers` is
`ReconcileBegin` (the snapshot), then for each key a read of `PeerSpec` and a
write, in any order of keys, as Go maps are visited. `pc` says for each caller
whether it has passed its own state check and waits, or is in the session. Every
call of the device API may fail. A node is a record of key, static endpoint,
allowed IPs and whether it may be published; two nodes may carry the same key. For
one key, the call of the bind, the write to the device and the bookkeeping under
`c.mu` are one step (`RemoveSucceeds`, `ApplySucceeds`, `ApplyFails`,
`ApplyStolen`). In the code they are three, but `reconcileMu` and `deviceMu` are
held throughout, and nothing that looks at two of the records does so without one
of these. Initially Start has launched the workers for the first device.

**NetworkMap.** `peers`, `named` and `filters` are the client's map, `handle` and
`sequence` what `mapRequest` would name. Control's map at every sequence number is
`sessionLog`; a response is any encoding (full list, whole nodes, removals,
patches, named filters, all filters) of the difference between two of them, and a
stream may break, be refused and be resumed at any point. A node's name stands for
all fields that only a whole node replaces, its expiry for all that a patch may
change.

**EventHub.** An event is its revision. `pend` holds what a goroutine has built
under `c.mu` and not yet published. Start bumps the revision, and builds its
events, with the revision of that moment, only when `initializeRuntime` has
succeeded; the history `silent` has the revisions of the Starts that failed.
`publish` is up to three channel operations per subscriber, and receivers run
between any two of them.

**ConfirmCache.** `disk` is the blob behind the application's Store, `cache` and
`confirmed` the fields of Client; a process may end between any two steps, and a
failed Store may or may not have written. The histories `acked` and `unsure` say
what callers were told.

**EndpointReports.** A list of endpoints is the number of the change that made it.
`notifier` is a goroutine of the bind between reading the list, storing it in the
client and filling `endpointWake`; `updater` and `mapper` are the two goroutines
whose requests carry the list and the home to control.

**ControlPings.** `pingWake` is the channel, `pingPending` the record of queued
URLs; the two are changed in different steps, by the map loop and the worker.

**PeerTable.** `known`, `disco`, `eps`, `cand`, `learned`, `direct`, `probed` are
the fields of `peerState`; `byDisco` and `byAddr` the indexes; `reader` and
`relay` the packets that UDP and DERP readers hold after looking up the sender
and before they lock again. Time is abstract: whatever may have expired is
chosen. History variables (`via`, `asked`, `shared`, `contested`, `dropped`)
record facts the code does not keep; no guard reads them.

**DerpManager.** Slots, clients and connections with the two locks that are held
across blocking operations (`derpManager.mu` in `updateMap`, `slot.mu` during a
dial), the flags `connecting` and `connected`, and the goroutines: senders,
`maintain`, the background goroutine of `ensureAsync`, a reader per connection,
callers of `UpdateDERPMap`, and one that opens, closes and shuts down.

**Netcheck.** Rounds, requests named by round and region, the fields of
`derpCheck`, a UDP reader per opening of the bind, and `finishDERPCheck`. A reply
may be lost, late or duplicated, its address usable or not. A kick drops any of
the endpoints and requests that may be old, also when it returns early
(`KickReturns`); there none of the current round, as a request is old after a
minute and a round lasts seconds. `Commit` has the end of a round and the call of
`OnDERPLatency` after the unlock in one step.

**NoiseConn, ByteStream.** One direction of a connection: `Write` cuts bytes into
records sealed under a counting nonce. A record is sealed before the nonce is
counted: at the invalid nonce one more record is sealed, then the counting panics
and that record is not written. Partial and failed writes leave fragments, `Read`
returns part of a record at a time, `Close` of either end interrupts both.
`ByteStream` is the abstract specification: what comes out is what went in, in
order, without gap or repetition. `IsByteStream` instantiates it with the number
of bytes sealed, the bytes last returned, and the two ciphers.

**DerpHome, AccessRules, MagicDNS.** Algorithms as operators, each inside a small
state machine that supplies its inputs. `DerpHome` has `limitDERPProbeTargets`,
`choosePreferredDERP` and `choosePreferredDERPMeasured`, the last one a loop over
the latencies in every order in which Go may visit them; `bindLatency` and
`measured` are the fields `derpLatency` of Bind and of Client, in nanoseconds, so
that the integer division rounds as in the code. `AccessRules` has `ACLAllows` and
`FirewallConfig` over two address families, whose widths are constants, one mapped
into the other. `MagicDNS` has the resolution of aliases over a copy of the
records.

Definitions whose comment begins with "Mutant" are variants of the definition that
follows, with a plausible mistake; `PROJECT.json` names the property each one
violates.

## Runs

| Run | Checks | Shows |
| --- | --- | --- |
| `reconcile_confirm` | `BindTracksApplied` `CleanAfterClose` | A node rotates its key while confirmations come and go. The three records agree, Close cleans up. |
| `reconcile_devices` | `Converged` `Completes` | Two attachments with both watchers: a stale one clears nothing; Close and every call of `reconcilePeers` end. |
| `reconcile_direct` | `Converged` `RecoveryIsForCurrentPath` `OtherSpecsUntouched` | Direct peers on the default transport, recovery, another controller. |
| `reconcile_late` | `ReleasedAfterDone` (violated) | See "Known disagreements". |
| `lifecycle` | `DoneIsQuiet` `InteractionMatchesControl` `ReportIsCurrent` `StopsForGood` `AuthenticationProgress` | What the reported state means, who is alive after Done; shutdown ends, and for good; authentication does not get stuck. |
| `events` | `WakesWithNewest` `StoppedIsSeen` `EventsArrive` | Dropping events loses no wake-up and no final state; slow subscribers block nobody, reading ones see every change but a failed Start. |
| `peers` | `AddrExact` `DiscoExact` | Two peers exchange a DISCO key and addresses under the readers. |
| `peers_reopen` | `AddrExact` `ThrottledWasAsked` | One peer restarts while the bind is closed and reopened. |
| `derp` | `ConnectionsOwned` `AttemptsCoalesced` `MapsAgree`, no deadlock | Dials, sends, readers, `maintain`, maps with and without the region, Close, reopening, Shutdown. |
| `connections` | `NothingWaits`; `IsByteStream` `RecordsOrdered` `CloseReturns` | Nothing in the DERP manager waits for ever. A Noise connection implements a byte stream. |
| `netcheck` | `RemainingExact` `MeasurementsCurrent` `RoundsInOrder` | Overlapping rounds with lost and late replies, across Close and Open. |
| `parts` | see below | Seven parts, one per behaviour. |

A property that joins several statements of one subject is the conjunction of
definitions that stand before it in its module, each with a comment of its own:
`AddrExact`, for example, is `AddrSound`, `AddrComplete` and `CandidatesAgree`.

`connections` and `parts` check several components in one run. They do not share
state: each behaviour chooses a component, which moves while the others stay in
their initial states, so a property of one component is checked in exactly its
own behaviours. The parts of `parts`:

- `home`: `HomeWellChosen`, `HomeSticky`, `TargetsSound`. The documented 10 ms and
  one-third margins, ties, and the limit on targets; the choice does not depend on
  the order in which Go visits a map.
- `pings`: `PendingExact`, and `PendingClears` of `Progress`. An entry left in
  `pingPending` would suppress that URL for good, and none is.
- `reports`: `ControlInformed`, and `EndpointsReachControl` of `Progress`. When
  nothing is on its way any more, control has the current endpoints and home. The
  property lists the code's three exceptions: a failed update is not retried, two
  notifiers may store their lists in the opposite order, and two requests may
  arrive in it.
- `cache`: `CacheDurable`. Crashes and failed stores never change the identity
  control has seen, nor undo an acknowledged decision.
- `map`: `MapFollowsControl`, `ChangesRevised`. However encoded, broken and
  resumed, the client's map is control's map at the sequence number the client
  would resume from; nodes expire at their time; a change of peers, names, filters
  or session has its revision bumped. Two things are to be known: a patch that
  extends an expiry does not lift the mark of an expired node, and named filters
  are kept from one session to the next, so control (here, as a model of it) must
  clear them in the first response.
- `rules`: `PolicyExact`. The exported firewall policy allows the same packets as
  `ACLAllows`; splitting a range into prefixes is exact and ends at the last address
  of a family too.
- `dns`: `AnswerExact`, and `LookupReturns` of `Progress`. The answer is what
  reachability over the records of one copy gives, also with cycles of aliases.

Type invariants (`TypeOK` and the like) are part of the proved invariants and of no
run.

Deadlock is checked in `derp`, where waiting on locks is the question. The other
modules may stop: a client that is done takes no more steps, and bounded counters
run out.

### Known disagreements

One run ends in a counterexample; it checks what a comment says.

- `reconcile_late` (`ReleasedAfterDone`): "Done is closed after client resources
  have been fully released" (`client.go:396`). `ConfirmPeer`,
  `RevokePeerConfirmation` and `onDERPLatency` check the state, unlock, and
  reconcile later, outside the wait group. One that passed its check before Close
  publishes a peer after `removeOwnedPeers`. `CleanAfterClose` says that nothing
  else can.

Four more statements are kept as definitions beside the properties and are not
among the runs. The models violate each of them, by the steps described:

- `Lifecycle.StoppingOnlyStops`: the diagram's only edge out of Stopping is to
  Stopped (`ARCHITECTURE.md:185`). The control goroutine assigns the state without
  looking at it and may still report Running, Degraded or NeedsAuthentication.
  `StoppedIsFinal` holds all the same.
- `EventHub.RevisionsNeverRegress`: "revisions never regress"
  (`ARCHITECTURE.md:122`). Events are published after `c.mu` is released, so two
  goroutines may publish in the opposite order. Wake-ups are not affected.
- `PeerTable.DirectIsCurrent`: a reopened bind has no direct path of the closed
  socket (`bind_test.go:439`). A packet looked up before Close and applied after
  Open installs one.
- `Netcheck.EndpointOfThisSocket`: "public endpoints come from STUN requests sent on
  the same ... socket" (`ARCHITECTURE.md:75`). A reply taken before Close is stored
  after Open.

## Bounds

Two of everything that can conflict, one of what cannot.

- `PeerReconcile`: one node; two keys where it rotates its key; two attachments for
  the stale watcher; two addresses for a path that changes. Only the callers that
  matter to a run are in it; between them the runs have all five. Two nodes with
  one key are covered by the proofs, not by a run.
- `Lifecycle`: two attachments, so that one can be stale; three interactions, so
  that a third can come between two; two URLs, so that one can be replaced.
- `EventHub`: a producer, Start, which may fail and be called again, and Close; a
  subscriber that asks for no buffer and gets
  one place; revisions up to three (an event in the channel, one being published,
  one newer), up to two events for one change.
- `PeerTable`: two peers contend for two keys and two addresses; with a second
  opening, one peer, one probe and one ping. The limit on learned candidates is
  one, so that it is reached.
- `DerpManager`: one region that is added and removed, and two connections in
  `derp`; one connection in `connections`, where liveness makes the run larger. A
  second region shares only `derpManager.mu`, which the updater already contends
  for. A region that comes back, and so gets a second slot, is in no run; the
  proofs cover it.
- `Netcheck`: two rounds over two regions, one of them without STUN, two openings.
  Several requests of one round are in no run; the proofs cover them.
- `NoiseConn`: two writers of two records each, nonces that run out, a connection
  that fills. The code's invalid nonce is 2^64 - 1, here 3; it is a constant, and
  the proofs hold for any.
- `DerpHome`: three regions of which two are probed; the latencies lie on both
  sides of each margin: 22 and 12 ms are just 10 ms apart, 20 and 12 ms are not;
  20 ms is a third less than 32.999999 ms, 22 ms is not, by a nanosecond.
- `ControlPings`: three URLs for two places. `EndpointReports`: two notifiers, two
  changes of endpoints, one of the home. `ConfirmCache`: two peers, two callers, two
  node keys, three identities.
- `NetworkMap`: two nodes, two named filters, two changes, two sessions, one expiry
  that comes up.
- `AccessRules`: families of two and three bits with the first mapped into a block
  of the second; every range, prefix and address with every length. The proof covers
  32 and 128 bits.
- `MagicDNS`: three names, one address of each family, up to three records: enough
  for a branch, a join and a cycle.

Symmetry is used only in `reconcile_confirm` and `derp`, on keys, connections and
workers that no definition tells apart; neither checks a temporal
property.

## Fairness

- Goroutines that can run do run: weak fairness of the steps of a call.
- A mutex is not withheld for ever from one waiter (Go's mutexes have a
  starvation mode): strong fairness of the steps that take a lock others also
  take, in `PeerReconcile`, `EventHub`, `DerpManager` and Close of `NoiseConn`.
- `select` chooses at random among ready cases: strong fairness of the branch for
  the ended context in `Lifecycle` and `PeerReconcile`.
- Dials, requests and rounds have timeouts, so a step that waits for the network
  ends, by success or by failure. A read or write of a Noise connection is assumed
  to end only once the connection is closed.
- `AuthenticationProgress` alone assumes something of the control server: asked
  again and again, it accepts the node in the end. The property then says that the
  client does go on asking.
- Nothing is assumed of replies (`RoundsInOrder`), of subscribers (`PublishReturns`
  in `EventsArrive`), or of the success of a request (`Progress`). `EveryChangeSeen`
  is about subscribers that keep reading and says so in its premise.

## Proofs

Each proof module shows that an invariant holds initially and is preserved, with a
lemma for each conjunct and a case for each action, and that it implies the
property. The assumptions are the `ASSUME`s of the component modules: types of the
constants, that the null value is none of the others, that the kinds of goroutines
of `DerpManager` are disjoint, that `Netcheck` has finitely many regions, that a
bind probes at least two regions in a round, that IPv4 addresses are the shorter
ones and have a block among the IPv6 addresses, and that a query has a candidate
name. There is no bound on the sets.

Components that belong together share a module.

`PeerReconcileProofs`
- `BindAgrees`, `CleanClose` (from `LateCallers` and `Released`),
  `RecoveryCurrent`, `OtherSpecsKept`, `TypeCorrect`. The properties
  are not inductive because a session works from a copy of `c.applied`: `SessionInv`
  says which entries of the copy still agree with the shared map at each stage,
  `SeenInv` what the last `PeerSpec` told, `PeerInv` how the bind lags behind inside
  `removeOwnedPeers`, `DeviceInv` that every spec this client wrote is recorded (or
  Close reports an error), `LifeInv` which callers can exist in each phase,
  `CleanInv` what the cleanup leaves.
- `Converges`, for `Converged`: `ConvergeInv` speaks of the states in which no call
  is to come and a session may still run. Its snapshot is then what is wanted still,
  and each key it is done with has reached it or has an error.

`ClientProofs`
- `Lifecycle`: `DoneQuiet`, `InteractionMatches`, `ReportCurrent`, and
  `StoppedFinal`, the safety half of `StopsForGood`. `PhaseInv` says who can exist
  in each phase of the client's life, `AuthInv` that only an authenticated goroutine
  is in the map loop.
- `EndpointReports`: `Informed`. `ReportInv` says of the newest list and of the home
  that control has it or that somebody on the way still holds it or will read it:
  a notifier, a full `endpointWake`, an updater or mapper before its read
  (`BindListComing`, `ListTold`, `HomeTold`).
- `MagicDNS`: `LookupExact`. The addresses of a candidate are those of the least set
  of names closed under aliases; `SearchInv` keeps what was visited inside it and,
  with what is pending, closed, so at the end it is that set.

`MapProofs`
- `NetworkMap`: `FollowsControl`. `StreamInv` says
  that an open stream begins with a full map or continues the sequence number the
  client has applied. A lemma per encoding shows that applying it to the old map
  gives the new one. `Announced`, for `ChangesRevised`, is a fact about each single
  step that `applyMapResponse` takes.
- `EventHub`: `WakesNewest` (from `Wakeup` and `Newest`), `StoppedSeen`, and
  `SendSafe`: nothing is sent on a closed channel. `HubInv` describes the
  publication in progress, including that there is room once the oldest event was
  taken out; `StartInv` that a Start in progress has its revision and no events
  yet; `StoppedComing` is the wake-up invariant for the last change, which must
  also survive another publication dropping Close's event.

`ControlProofs`
- `NoiseConn`: `NoiseIsByteStream` (refinement), `RecordsInOrder`.
  `LogInv` says that the records sealed partition the bytes in the order of their
  nonces, `WireInv` that what is on the connection was sealed, `ReadInv` that while
  the receiver has its cipher, what it has read and buffered are the bytes under
  the nonces it has counted: so a Read hands out exactly the next ones. Records may
  be lost or cut on the way; the nonce that then does not fit ends the reading.
- `ConfirmCache`: `Durable`. `LoadedInv` covers
  the time between loading and the first store, `LiveInv` a process and its disk,
  `StoringInv` that one decision at a time is being stored, from a copy that is
  still current.
- `ControlPings`: `PingsExact`. With `pingMu` held a ping may be in the channel, or
  even in the worker's hands, before it is entered; `PingInv` counts the ones that
  are about to be entered as entered.

`DerpManagerProofs`, `DerpConnectionProofs`
- `Owned`, `Coalesced`, `MapsFollow`. `DerpBase` is inductive by itself: where
  each goroutine may stand (`PlaceInv`), what it holds there (`HoldInv`), who
  holds the locks (`MutexInv`), and that a slot without a region has neither
  config nor client (`SlotInv`). `DerpInv` adds that a removed slot is visited
  before the update unlocks the manager (`RemovalInv`), that after Close whoever
  has or may still get a client is ahead of the closer (`StopInv`), that the flag
  of `ensureAsync` belongs to one goroutine (`TokenInv`), and how far an update of
  the map has come (`UpdateInv`).

`NetcheckProofs`
- `Netcheck`: `RemainingCounts`, `MeasurementsStayCurrent`, and
  `ReportsAscending`, the safety part of `RoundsInOrder`. A request is in one
  place at a time (`PlaceInv`, `ReaderInv`), so the counter can be compared with
  the cardinality of the set of those on their way; `RoundInv` says that what is
  on its way to the current round belongs to it.
- `DerpHome`: `WellChosen`, `Stays`, `ProbesSound`. That the order of Go's map does
  not matter, and that the targets are the sorted ones, are proved by induction over
  the regions visited and over the number of regions to sort.

`PacketProofs`
- `PeerTable`: `AddressExact`, `KeyExact`, `ThrottleSound`. Soundness of one
  index needs that a removed peer holds nothing (`Blank`) and that candidates are
  rebuilt wherever their parts change (`CandidatesAgree`); completeness needs that
  the histories notice every key and address two peers hold (`SharedKnown`,
  `ContestedKnown`).
- `AccessRules`: `PolicyAlways`, for addresses of any width. The two loops of
  `addressRangePrefixes` are shown to take, from an address on, the largest
  aligned block that does not go past the end (`PrefixTaken`). Downwards from the
  last address, the prefixes then are adjacent and make up the range (`Chain`).
  There are at most 2w - 2 of them (`Short`): blocks first grow, each to at least
  twice the one before, until the end of the range limits one, and then shrink.
  With the other kinds of selectors this gives `SelectorExact`: a selector matches
  the addresses that its hosts contain. The rest is about rules that are skipped,
  and ports.

The provers cannot instantiate the induction theorems of the library, which take a
predicate. The inductions of `NetcheckProofs` and `PacketProofs` use
well-foundedness of the naturals instead: the numbers for which a claim fails form
a set, and a set of naturals has a least element (`LeastNat`, `Upwards`,
`Downwards`). A recursive function is a `CHOOSE`, so that it satisfies its own
equation is one of these inductions.

Only model-checked: all liveness properties, because the prover handles neither
fairness nor `ENABLED`: `Completes`, `StopsForGood`, `AuthenticationProgress`,
`EventsArrive`, `NothingWaits`, `CloseReturns`, `Progress`, and `RoundEnds` of
`RoundsInOrder`; and the absence of deadlock in `derp`. Every other property of a
passing run has a theorem.

## Not modelled

- Cryptography and the Noise handshake; a record opens under its own nonce and no
  other.
- Requests and JSON over `net/http` and `x/net/http2`: the connection pool, its
  dials and what `CloseIdleConnections` leaves open are decided in those
  libraries. `MapStream` and `MapUpdate` appear as deliveries of `NetworkMap` and
  `EndpointReports`.
- Parsing of STUN attributes, DISCO packets, names and selectors beyond the case
  distinctions of the handlers.
- In the send path, the choice among several direct candidates by interface, and
  the order in which Send and a pong report a path to the client.
- Fields of a map response that are replaced as they come (user profiles, domain,
  health), the copying of views, reverse DNS lookups. The same goes for
  `PeerSeenChange` and `OnlineChange` (`map.go:144`), which set two fields of a node
  that are only shown. `NetworkMap` lets every response carry `ControlTime`, and
  control leave the mark `Expired` of a node to the client.
- In `FirewallConfig`, the refusal of protocol numbers outside one byte
  (`acl.go:132`), and `Optimize` of the library, which is taken to keep the meaning
  of a policy.
- What runs inside a callback of the device while Close waits; a call of the device
  API returns.
- Whether two reports of latency rounds reach the client in the opposite order: the
  rounds of one opening of the bind are at least ten seconds apart (Open begins the
  interval anew, `bind.go:241`), and the next round repairs it.
- Blocked sockets: the answer to a DERP server's ping is written without a
  deadline (`derp.go:430`), and the answer to the upgrade request is read without
  one when the context has none (`internal/controlproto/client.go:179`); the
  models let both end.
- Options, errors, logging, and the end-to-end programs: no state of interest.
- Overlapping updates of the DERP map are excluded from `MapsAgree`: there the older
  map may stay until the next change.

----------------------------- MODULE PeerTable -----------------------------
(***************************************************************************)
(* The peer table of the tailnet bind and the DISCO protocol that keeps it *)
(* (internal/tailnet/bind.go and disco.go): the peers admitted by          *)
(* UpdatePeer, their candidates and direct path, the two indexes byDisco   *)
(* and byAddr, outstanding pings, and the goroutines that change them: the *)
(* UDP reader of each generation of the bind, the DERP reader, maintain,   *)
(* and probePeer in whichever goroutine calls it.                          *)
(*                                                                         *)
(* Each critical section of b.mu is one step.  Keys, addresses and         *)
(* transaction IDs are abstract; candidate lists are sets; what has        *)
(* expired is chosen freely, since observations are refreshed at           *)
(* arbitrary times.  The readers of all relays are one reader.             *)
(***************************************************************************)
EXTENDS Integers, FiniteSets

CONSTANTS
  Keys, Discos, Addrs,  \* node keys, DISCO keys, UDP addresses
  Configs,              \* the peer configurations the client may install
  MaxLearned,           \* maxLearnedPeerEndpoints
  MaxGen, MaxTx, MaxProbes,  \* bounds: openings, pings, probes in progress
  Null

ASSUME PeerTableConstants ==
  /\ Configs \subseteq [key : Keys, disco : Discos \cup {Null},
                        eps : SUBSET Addrs, rest : {0, 1}]
  /\ MaxLearned \in Nat /\ MaxGen \in Nat /\ MaxTx \in Nat /\ MaxProbes \in Nat
  /\ Null \notin Keys /\ Null \notin Discos /\ Null \notin Addrs

VARIABLES
  open, gen, sock,       \* b.open, b.generation; b.conn is not yet closed
  known,                 \* the keys in b.peers; for each of them:
  disco, eps, rest,      \*   config (rest: home region and WireGuard-only)
  cand, learned,         \*   candidates and learned
  direct,                \*   direct
  probed,                \*   lastProbe is less than 5 seconds ago
  byDisco, byAddr,       \* the indexes
  pending, lastTx,       \* b.pending; the last transaction ID used
  calls, probes,         \* calls of probePeer to come, and in progress
  reader, relay,         \* packets readUDP and the relay's reader handle
  via,                   \* history: the generation direct was seen in
  asked,                 \* history: candidates and generation of the last probe
  shared, contested,     \* history: DISCO keys, addresses two peers held
  dropped                \* history: endpoints UpdatePeer unindexed itself

peerVars == <<known, disco, eps, rest, cand, learned, direct, probed>>
indexVars == <<byDisco, byAddr>>
pingVars == <<pending, lastTx, calls, probes>>
readerVars == <<reader, relay>>
historyVars == <<via, asked, shared, contested, dropped>>
vars == <<open, gen, sock, peerVars, indexVars, pingVars, readerVars, historyVars>>

Idle == [stage |-> "idle"]
Packets == [stage : {"ping", "pong", "answered"}, node : Keys, addr : Addrs,
            tx : 0..MaxTx]
Offers == [stage : {"callme"}, node : Keys, addrs : SUBSET Addrs]
Exited == [stage |-> "exited"]

TableTypeOK ==
  /\ known \in SUBSET Keys
  /\ disco \in [Keys -> Discos \cup {Null}]
  /\ eps \in [Keys -> SUBSET Addrs]
  /\ cand \in [Keys -> SUBSET Addrs] /\ learned \in [Keys -> SUBSET Addrs]
  /\ direct \in [Keys -> Addrs \cup {Null}]
  /\ byDisco \in [Discos -> Keys \cup {Null}]
  /\ byAddr \in [Addrs -> Keys \cup {Null}]
  /\ shared \in SUBSET Discos /\ contested \in SUBSET Addrs
  /\ dropped \in SUBSET (Keys \X Addrs)
ProbeTypeOK ==
  /\ gen \in 0..MaxGen /\ via \in [Keys -> 0..MaxGen] /\ rest \in [Keys -> {0, 1}]
  /\ open \in BOOLEAN /\ sock \in BOOLEAN /\ probed \in [Keys -> BOOLEAN]
  /\ pending \in SUBSET [tx : 1..MaxTx, node : Keys, addr : Addrs]
  /\ lastTx \in 0..MaxTx
  /\ calls \in SUBSET Keys /\ probes \in SUBSET [node : Keys, todo : SUBSET Addrs]
  /\ asked \in [Keys -> [addrs : SUBSET Addrs, gen : 0..MaxGen]]
ReaderTypeOK ==
  /\ reader \in [1..MaxGen -> Packets \cup {Idle, Exited}]
  /\ relay \in Offers \cup {Idle}
TypeOK == TableTypeOK /\ ProbeTypeOK /\ ReaderTypeOK

Held(k) == cand[k] \cup {direct[k]}

\* The history variables after a step: an address is contested once two peers
\* hold it, and no longer dropped once it is indexed again.
Record ==
  /\ contested' = contested \cup
       {a \in Addrs : \E j, k \in Keys : j # k /\ a \in Held(j)' /\ a \in Held(k)'}
  /\ dropped' = {p \in dropped : byAddr'[p[2]] # p[1]}

-----------------------------------------------------------------------------
(* Opening and closing; b.peers survives.                                  *)

\* pruneLearnedCandidatesLocked for every peer, where old[k] has expired.
Pruned(old) ==
  /\ \A k \in Keys : old[k] \subseteq learned[k]
  /\ learned' = [k \in Keys |-> learned[k] \ old[k]]
  /\ cand' = [k \in Keys |-> IF old[k] = {} THEN cand[k] ELSE eps[k] \cup (learned[k] \ old[k])]

\* byAddr is cleared and rebuilt from the candidates.  The loop over b.peers runs
\* in any order: one of its holders gets an address.
Rebuild ==
  /\ byAddr' \in [Addrs -> Keys \cup {Null}]
  /\ \A a \in Addrs :
       IF \E k \in Keys : a \in cand'[k]
       THEN \E k \in Keys : byAddr'[a] = k /\ a \in cand'[k]
       ELSE byAddr'[a] = Null

\* The device serialises Open and Close, so the last socket is closed by now.
Open(old) ==
  /\ ~open /\ ~sock /\ gen < MaxGen
  /\ open' = TRUE /\ gen' = gen + 1 /\ sock' = TRUE
  /\ Pruned(old)
  /\ direct' = [k \in Keys |-> Null] /\ probed' = [k \in Keys |-> FALSE]
  /\ Rebuild
  /\ pending' = {}
  /\ via' = [k \in Keys |-> 0]
  /\ reader' = [reader EXCEPT ![gen + 1] = Idle]
  /\ UNCHANGED <<known, disco, eps, rest, byDisco, lastTx, calls, probes, relay, asked, shared>>
  /\ Record

Close ==
  /\ open
  /\ open' = FALSE
  /\ UNCHANGED <<gen, sock, peerVars, indexVars, pingVars, readerVars, historyVars>>

\* Close, after its unlock: readUDP gets no more packets from the socket.
CloseSocket ==
  /\ ~open /\ sock
  /\ sock' = FALSE
  /\ UNCHANGED <<open, gen, peerVars, indexVars, pingVars, readerVars, historyVars>>

-----------------------------------------------------------------------------
(* The client installs and removes peers.                                  *)

\* byAddr when the peer's own entries give way to c.eps.
Reindexed(c) ==
  [a \in Addrs |-> IF a \in c.eps THEN c.key
                   ELSE IF a \in cand[c.key] /\ byAddr[a] = c.key THEN Null
                   ELSE byAddr[a]]

\* Then for the direct path: it is dropped with its DISCO key, or kept.
DirectIndexed(c) ==
  LET f == Reindexed(c) IN
  [a \in Addrs |->
    IF a # direct[c.key] THEN f[a]
    ELSE IF disco[c.key] = c.disco THEN c.key
    ELSE IF f[a] = c.key THEN Null
    ELSE f[a]]

\* Mutant: the old key is deleted last.
DiscoDeletedLast(c) ==
  [d \in Discos |-> IF d = disco[c.key] THEN Null
                    ELSE IF d = c.disco THEN c.key
                    ELSE byDisco[d]]

DiscoIndexed(c) ==
  [d \in Discos |-> IF d = c.disco THEN c.key
                    ELSE IF d = disco[c.key] THEN Null
                    ELSE byDisco[d]]

\* Mutant: the throttle stays on.
StillThrottled(c) == probed

\* lastProbe is reset.
Unthrottled(c) == [probed EXCEPT ![c.key] = FALSE]

UpdatePeer(c) ==
  LET k == c.key IN
  /\ ~(k \in known /\ disco[k] = c.disco /\ eps[k] = c.eps /\ rest[k] = c.rest)
  /\ known' = known \cup {k}
  /\ disco' = [disco EXCEPT ![k] = c.disco]
  /\ eps' = [eps EXCEPT ![k] = c.eps] /\ rest' = [rest EXCEPT ![k] = c.rest]
  /\ cand' = [cand EXCEPT ![k] = c.eps] /\ learned' = [learned EXCEPT ![k] = {}]
  /\ probed' = Unthrottled(c)
  /\ byDisco' = DiscoIndexed(c)
  /\ byAddr' = DirectIndexed(c)
  /\ direct' = [direct EXCEPT ![k] = IF disco[k] = c.disco THEN direct[k] ELSE Null]
  /\ calls' = calls \cup {k}
  /\ via' = [via EXCEPT ![k] = IF disco[k] = c.disco THEN via[k] ELSE 0]
  /\ shared' = shared \cup {d \in Discos : d = c.disco /\ \E j \in known \ {k} : disco[j] = d}
  /\ contested' = contested \cup
       {a \in Addrs : \E j, l \in Keys : j # l /\ a \in Held(j)' /\ a \in Held(l)'}
  /\ dropped' = {p \in dropped : p[1] # k} \cup
       {p \in {k} \X c.eps : disco[k] # c.disco /\ p[2] = direct[k]}
  /\ UNCHANGED <<open, gen, sock, pending, lastTx, probes, readerVars, asked>>

\* Mutant: only the candidates of the peer are unindexed.
UnindexedCandidates(k) ==
  [a \in Addrs |-> IF a \in cand[k] /\ byAddr[a] = k THEN Null ELSE byAddr[a]]

Unindexed(k) ==
  [a \in Addrs |-> IF a \in Held(k) /\ byAddr[a] = k THEN Null ELSE byAddr[a]]

RemovePeer(k) ==
  /\ k \in known
  /\ known' = known \ {k}
  /\ byDisco' = [d \in Discos |-> IF d = disco[k] THEN Null ELSE byDisco[d]]
  /\ byAddr' = Unindexed(k)
  /\ disco' = [disco EXCEPT ![k] = Null]
  /\ eps' = [eps EXCEPT ![k] = {}] /\ rest' = [rest EXCEPT ![k] = 0]
  /\ cand' = [cand EXCEPT ![k] = {}] /\ learned' = [learned EXCEPT ![k] = {}]
  /\ direct' = [direct EXCEPT ![k] = Null] /\ probed' = [probed EXCEPT ![k] = FALSE]
  /\ pending' = {p \in pending : p.node # k}
  /\ via' = [via EXCEPT ![k] = 0]
  /\ dropped' = {p \in dropped : p[1] # k}
  /\ UNCHANGED <<open, gen, sock, lastTx, calls, probes, readerVars, asked, shared, contested>>

-----------------------------------------------------------------------------
(* Probing.                                                                *)

\* probePeer up to its first unlock; pings older than a minute are expired.
ProbeBegin(k, expired) ==
  /\ IF k \in known /\ disco[k] # Null /\ open /\ ~probed[k]
     THEN /\ Cardinality(probes) < MaxProbes
          /\ probed' = [probed EXCEPT ![k] = TRUE]
          /\ expired \subseteq pending
          /\ pending' = {p \in pending \ expired : p.node # k}
          /\ probes' = probes \cup {[node |-> k, todo |-> cand[k]]}
          /\ asked' = [asked EXCEPT ![k] = [addrs |-> cand[k], gen |-> gen]]
     ELSE /\ expired = {}
          /\ UNCHANGED <<probed, pending, probes, asked>>
  /\ calls' = calls \ {k}
  /\ UNCHANGED <<open, gen, sock, known, disco, eps, rest, cand, learned, direct,
                 indexVars, lastTx, readerVars, via, shared, contested, dropped>>

\* One iteration of its loop: register the ping and send it.
ProbePing(p, a) ==
  /\ p \in probes /\ a \in p.todo
  /\ lastTx < MaxTx
  /\ lastTx' = lastTx + 1
  /\ pending' = pending \cup {[tx |-> lastTx + 1, node |-> p.node, addr |-> a]}
  /\ probes' = (probes \ {p}) \cup {[node |-> p.node, todo |-> p.todo \ {a}]}
  /\ UNCHANGED <<open, gen, sock, peerVars, indexVars, calls, readerVars, historyVars>>

\* CallMeMaybe is sent over DERP and the call returns.
ProbeEnd(p) ==
  /\ p \in probes /\ p.todo = {}
  /\ probes' = probes \ {p}
  /\ UNCHANGED <<open, gen, sock, peerVars, indexVars, pending, lastTx, calls, readerVars,
                 historyVars>>

\* probePeer is due: maintain or a Send, five seconds after the last probe.
ProbeDue(k) ==
  /\ open /\ k \in known
  /\ probed[k] \/ k \notin calls
  /\ probed' = [probed EXCEPT ![k] = FALSE]
  /\ calls' = calls \cup {k}
  /\ UNCHANGED <<open, gen, sock, known, disco, eps, rest, cand, learned, direct,
                 indexVars, pending, lastTx, probes, readerVars, historyVars>>

\* A tick of maintain that finds learned candidates expired.
Maintain(old) ==
  /\ open
  /\ \E k \in Keys : old[k] # {}
  /\ Pruned(old)
  /\ byAddr' = [a \in Addrs |->
       IF \E k \in Keys : byAddr[a] = k /\ a \in old[k] /\ direct[k] # a
       THEN Null ELSE byAddr[a]]
  /\ calls' = calls \cup known
  /\ UNCHANGED <<open, gen, sock, known, disco, eps, rest, direct, probed, byDisco,
                 pending, lastTx, probes, readerVars, via, asked, shared>>
  /\ Record

-----------------------------------------------------------------------------
(* Packets.  A reader takes a packet from the socket or the relay and finds *)
(* the peer; it applies the packet under a later lock.                      *)

\* Where readUDP goes on: the reader whose socket is closed returns.
ReadNext(r) == IF sock /\ r = gen THEN Idle ELSE Exited

\* readUDP has a packet sealed with DISCO key d, and handleDisco finds the peer.
\* A ping's node key, when it has one, must be that peer's.
FindSender(r, d, kind, a, tx, claimed) ==
  LET node == byDisco[d] IN
  /\ reader[r] = Idle
  /\ kind = "ping" => tx = 0
  /\ kind = "pong" => tx \in 1..lastTx /\ claimed = Null
  /\ reader' = [reader EXCEPT ![r] =
       IF node \in known /\ claimed \in {Null, node}
       THEN [stage |-> kind, node |-> node, addr |-> a, tx |-> tx]
       ELSE ReadNext(r)]
  /\ UNCHANGED <<open, gen, sock, peerVars, indexVars, pingVars, relay, historyVars>>

\* The same for a CallMeMaybe: the relay names the node, which must own the key.
FindCaller(d, k, addrs) ==
  /\ relay = Idle /\ addrs # {}
  /\ k \in known /\ byDisco[d] = k
  /\ relay' = [stage |-> "callme", node |-> k, addrs |-> addrs]
  /\ UNCHANGED <<open, gen, sock, peerVars, indexVars, pingVars, reader, historyVars>>

\* Mutant: the old path is unindexed although it is a candidate.
PathReplaced(k, a) ==
  [b \in Addrs |-> IF b = a THEN k
                   ELSE IF b = direct[k] /\ byAddr[b] = k THEN Null
                   ELSE byAddr[b]]

PathIndexed(k, a) ==
  [b \in Addrs |-> IF b = a THEN k
                   ELSE IF b = direct[k] /\ b \notin cand[k] /\ byAddr[b] = k THEN Null
                   ELSE byAddr[b]]

\* setDirect, for a packet read by r.
SetDirect(k, a, r) ==
  IF k \notin known
  THEN UNCHANGED <<peerVars, indexVars, historyVars>>
  ELSE /\ byAddr' = PathIndexed(k, a)
       /\ direct' = [direct EXCEPT ![k] = a]
       /\ via' = [via EXCEPT ![k] = r]
       /\ UNCHANGED <<known, disco, eps, rest, cand, learned, probed, byDisco, asked, shared>>
       /\ Record

HandlePing(r) ==
  LET m == reader[r] IN
  /\ m.stage = "ping"
  /\ SetDirect(m.node, m.addr, r)
  /\ reader' = [reader EXCEPT ![r] = ReadNext(r)]
  /\ UNCHANGED <<open, gen, sock, pingVars, relay>>

\* The ping this pong answers is taken; without one the pong is ignored.
TakePing(r) ==
  LET m == reader[r] IN
  /\ m.stage = "pong"
  /\ pending' = {p \in pending : p.tx # m.tx}
  /\ reader' = [reader EXCEPT ![r] =
       IF \E p \in pending : p.tx = m.tx /\ p.node = m.node
       THEN [stage |-> "answered", node |-> m.node, addr |-> m.addr, tx |-> m.tx]
       ELSE ReadNext(r)]
  /\ UNCHANGED <<open, gen, sock, peerVars, indexVars, lastTx, calls, probes, relay,
                 historyVars>>

HandlePong(r) ==
  LET m == reader[r] IN
  /\ m.stage = "answered"
  /\ SetDirect(m.node, m.addr, r)
  /\ reader' = [reader EXCEPT ![r] = ReadNext(r)]
  /\ UNCHANGED <<open, gen, sock, pingVars, relay>>

\* rebuildPeerCandidates, if anything changed.
Rebuilt(k, old, new) ==
  IF old = {} /\ new = {} THEN cand[k] ELSE eps[k] \cup (learned[k] \ old) \cup new

LearnedIndexed(k, old, fresh) ==
  [a \in Addrs |-> IF a \in fresh THEN k
                   ELSE IF a \in old /\ byAddr[a] = k /\ direct[k] # a THEN Null
                   ELSE byAddr[a]]

\* addLearnedCandidatesLocked, where old has expired and there is room for new.
Learn(k, addrs, old, new) ==
  LET kept == learned[k] \ old
      more == addrs \ (eps[k] \cup kept)
  IN /\ old \subseteq learned[k] /\ new \subseteq more
     /\ Cardinality(kept \cup new) <= MaxLearned
     /\ new = more \/ Cardinality(kept \cup new) = MaxLearned
     /\ learned' = [learned EXCEPT ![k] = kept \cup new]
     /\ cand' = [cand EXCEPT ![k] = Rebuilt(k, old, new)]
     /\ byAddr' = LearnedIndexed(k, old, new \cup (addrs \cap kept))
     /\ calls' = IF old = {} /\ new = {} THEN calls ELSE calls \cup {k}

HandleCallMe(old, new) ==
  /\ relay.stage = "callme"
  /\ relay' = Idle
  /\ IF relay.node \in known
     THEN /\ Learn(relay.node, relay.addrs, old, new)
          /\ UNCHANGED <<known, disco, eps, rest, direct, probed, byDisco, via, asked, shared>>
          /\ Record
     ELSE /\ old = {} /\ new = {}
          /\ UNCHANGED <<peerVars, indexVars, calls, historyVars>>
  /\ UNCHANGED <<open, gen, sock, pending, lastTx, probes, reader>>

-----------------------------------------------------------------------------
Init ==
  /\ open = FALSE /\ gen = 0 /\ sock = FALSE
  /\ known = {} /\ disco = [k \in Keys |-> Null]
  /\ eps = [k \in Keys |-> {}] /\ rest = [k \in Keys |-> 0]
  /\ cand = [k \in Keys |-> {}] /\ learned = [k \in Keys |-> {}]
  /\ direct = [k \in Keys |-> Null] /\ probed = [k \in Keys |-> FALSE]
  /\ byDisco = [d \in Discos |-> Null] /\ byAddr = [a \in Addrs |-> Null]
  /\ pending = {} /\ lastTx = 0 /\ calls = {} /\ probes = {}
  /\ reader = [r \in 1..MaxGen |-> Exited] /\ relay = Idle
  /\ via = [k \in Keys |-> 0] /\ asked = [k \in Keys |-> [addrs |-> {}, gen |-> 0]]
  /\ shared = {} /\ contested = {} /\ dropped = {}

Next ==
  \/ \E old \in [Keys -> SUBSET Addrs] : Open(old) \/ Maintain(old)
  \/ Close \/ CloseSocket
  \/ \E c \in Configs : UpdatePeer(c)
  \/ \E k \in Keys : RemovePeer(k) \/ ProbeDue(k)
  \/ \E k \in calls, expired \in SUBSET pending : ProbeBegin(k, expired)
  \/ \E p \in probes : ProbeEnd(p) \/ \E a \in p.todo : ProbePing(p, a)
  \/ \E r \in 1..MaxGen, d \in Discos, kind \in {"ping", "pong"}, a \in Addrs,
        tx \in 0..MaxTx, claimed \in Keys \cup {Null} :
       FindSender(r, d, kind, a, tx, claimed)
  \/ \E d \in Discos, k \in Keys, addrs \in SUBSET Addrs : FindCaller(d, k, addrs)
  \/ \E r \in 1..MaxGen : HandlePing(r) \/ TakePing(r) \/ HandlePong(r)
  \/ \E old, new \in SUBSET Addrs : HandleCallMe(old, new)

Spec == Init /\ [][Next]_vars

-----------------------------------------------------------------------------
(* Properties.                                                             *)

\* readUDP attributes a WireGuard packet to byAddr[source]: that must be a
\* peer still admitted, which has the address as a candidate or as its path.
Owned(a) == byAddr[a] # Null => byAddr[a] \in known /\ a \in Held(byAddr[a])
AddrSound == \A a \in Addrs : Owned(a)

\* handleDisco trusts byDisco[sender]: that must be an admitted peer whose
\* current DISCO key is the sender's, whatever updates and removals came before.
DiscoSound ==
  \A d \in Discos : byDisco[d] # Null => byDisco[d] \in known /\ disco[byDisco[d]] = d

\* A peer's DISCO packets are found by its key, unless another peer was given
\* the same key (UpdatePeer and RemovePeer delete the entry whoever owns it).
DiscoComplete ==
  \A k \in known : disco[k] \in Discos \ shared => byDisco[disco[k]] = k

\* Packets from any address of a peer are attributed to it, unless two peers
\* have had that address, or UpdatePeer, changing the DISCO key, dropped the
\* new endpoint that was the old path.
Indexed(k, a) ==
  a \in Held(k) /\ a \notin contested /\ <<k, a>> \notin dropped => byAddr[a] = k
AddrComplete == \A k \in Keys, a \in Addrs : Indexed(k, a)

\* What probePeer pings is the control plane's endpoints and what the peer
\* offered, each once: rebuildPeerCandidates ran wherever either changed.
CandidatesAgree ==
  \A k \in Keys : cand[k] = eps[k] \cup learned[k] /\ learned[k] \cap eps[k] = {}

\* The index by address names a peer for exactly the addresses it holds, among
\* them the candidates as UpdatePeer, CallMeMaybe and expiry leave them.
AddrExact == AddrSound /\ AddrComplete /\ CandidatesAgree

\* The index by DISCO key names exactly the peer whose key it is.
DiscoExact == DiscoSound /\ DiscoComplete

\* A peer whose probes are being throttled was probed at every endpoint it has
\* now, in this opening of the bind: UpdatePeer and Open reset the throttle, so
\* new endpoints never wait behind the probe of old ones.
ThrottledWasAsked ==
  \A k \in known : probed[k] => eps[k] \subseteq asked[k].addrs /\ asked[k].gen = gen

\* Reopening the bind forgets direct paths: the one in use was seen on the
\* socket of this opening.  Not an invariant of the code: setDirect applies a
\* packet that was looked up before Close and Open.
DirectIsCurrent ==
  \A k \in Keys : direct[k] # Null => via[k] = gen

-----------------------------------------------------------------------------
(* The inductive invariant.                                                *)

\* Nothing is kept of a peer that is not in b.peers.
Blank ==
  \A k \in Keys \ known :
    disco[k] = Null /\ eps[k] = {} /\ learned[k] = {} /\ cand[k] = {} /\ direct[k] = Null

\* The history variables record what two peers hold.
SharedKnown ==
  \A j, k \in Keys : j # k /\ disco[j] = disco[k] /\ disco[j] # Null => disco[j] \in shared
Noticed(a, j, k) == j # k /\ a \in Held(j) /\ a \in Held(k) => a \in contested
ContestedKnown == \A a \in Addrs, j, k \in Keys : Noticed(a, j, k)

IndInv ==
  /\ TypeOK /\ Blank /\ CandidatesAgree
  /\ DiscoSound /\ SharedKnown /\ DiscoComplete
  /\ AddrSound /\ ContestedKnown /\ AddrComplete
  /\ ThrottledWasAsked
=============================================================================

----------------------------- MODULE NetworkMap -----------------------------
(***************************************************************************)
(* The reducer of map responses (map.go: applyMapResponse with             *)
(* applyPeerPatchLocked, markNodeExpired, flattenFiltersLocked) and the    *)
(* session it is resumed by: mapRequest names the session and the last     *)
(* sequence number applied, and after a broken stream control (external)   *)
(* either goes on from there or begins a new session with a full map.      *)
(*                                                                         *)
(* A node is its name, standing for all that only a whole node replaces,   *)
(* and its key expiry, standing for all that a patch may change.  Of the   *)
(* other parts, packet filters are modelled; DERP maps are in DerpHome,    *)
(* state and interactions in Lifecycle.                                    *)
(***************************************************************************)
EXTENDS Integers, Sequences, Functions

CONSTANTS
  NodeIDs,
  NodeNames,
  Expiries,      \* key expiries, 0 for none
  Rules,         \* contents of a packet filter
  MaxChanges,    \* bound on the changes at control
  MaxSessions,   \* bound on the sessions
  MaxTime,       \* bound on the clock
  Absent

ASSUME MapConstants ==
  /\ Expiries \subseteq Nat /\ MaxChanges \in Nat /\ MaxSessions \in Nat /\ MaxTime \in Nat
  /\ Absent \notin Rules

FilterNames == <<"base", "extra">>  \* in the order of sort.Strings

Node == [name : NodeNames, expiry : Expiries]
Peer == [name : NodeNames, expiry : Expiries, expired : BOOLEAN]
NodeTable == [NodeIDs -> Node \cup {Absent}]
FilterTable == [Range(FilterNames) -> Rules \cup {Absent}]

ASSUME AbsentIsNone == Absent \notin Node \cup Peer /\ Absent \notin NodeTable

VARIABLES
  truth,      \* control's nodes and filters
  changes,
  session,    \* number of control's current session, its handle
  sessionLog, \* control's map at each sequence number of the session
  stream,     \* what the open stream sends next, and the map it is relative to
  now,        \* the time, at control and by the client's reckoning from ControlTime
  handle,     \* c.info.MapSessionHandle, 0 for none
  sequence,   \* c.info.MapSequence
  peers,      \* c.peers: nodes with their Expired flag
  named,      \* c.namedFilters
  filters,    \* c.filters
  bumped,     \* the revisions the last step set to the new c.revision
  controlTime, \* c.controlTime, 0 for none
  extended    \* history: nodes marked expired whose expiry a patch then changed

truthVars == <<truth, changes, session, sessionLog>>
clientState == <<handle, sequence, peers, named, filters>>
mapVars == <<truthVars, stream, now, clientState, bumped, controlTime, extended>>

NoNodes == [n \in NodeIDs |-> Absent]
NoFilters == [f \in Range(FilterNames) |-> Absent]
EmptyMap == [nodes |-> NoNodes, filters |-> NoFilters]
Present(m) == {x \in DOMAIN m : m[x] # Absent}
Down == [up |-> FALSE, next |-> 0, from |-> 0, full |-> FALSE]

NetworkMapInit ==
  /\ truth = EmptyMap /\ changes = 0 /\ session = 0 /\ sessionLog = <<>> /\ stream = Down
  /\ now = 1 /\ handle = 0 /\ sequence = 0
  /\ peers = NoNodes /\ named = NoFilters /\ filters = <<>>
  /\ bumped = {} /\ controlTime = 0 /\ extended = {}

-----------------------------------------------------------------------------
(* applyMapResponse.  A response has the fields                            *)
(*   nodes    the full list, or Absent                                     *)
(*   changed  whole nodes, removed a set, patched new expiries             *)
(*   base     PacketFilter, or Absent                                      *)
(*   clear    PacketFilters has "*": nil                                   *)
(*   chunks   the other entries of PacketFilters, Absent for a nil one     *)

Fresh(node) == [name |-> node.name, expiry |-> node.expiry, expired |-> FALSE]

AfterFull(res, old) ==
  IF res.nodes = Absent THEN old
  ELSE [n \in NodeIDs |-> IF res.nodes[n] = Absent THEN Absent ELSE Fresh(res.nodes[n])]

AfterChanged(res, old) ==
  [n \in NodeIDs |-> IF n \in DOMAIN res.changed THEN Fresh(res.changed[n]) ELSE old[n]]

AfterRemoved(res, old) == [n \in NodeIDs |-> IF n \in res.removed THEN Absent ELSE old[n]]

\* applyPeerPatchLocked: a patch for an unknown node is ignored.
AfterPatch(res, old) ==
  [n \in NodeIDs |-> IF n \in DOMAIN res.patched /\ old[n] # Absent
                     THEN [old[n] EXCEPT !.expiry = res.patched[n]]
                     ELSE old[n]]

\* markNodeExpired, for every peer.
MarkExpired(old) ==
  [n \in NodeIDs |-> IF old[n] # Absent /\ old[n].expiry # 0 /\ old[n].expiry <= now
                     THEN [old[n] EXCEPT !.expired = TRUE]
                     ELSE old[n]]

AfterBase(res) == IF res.base = Absent THEN named ELSE [named EXCEPT !["base"] = res.base]

AfterClear(res) == IF res.clear THEN NoFilters ELSE AfterBase(res)

AfterFilters(res) ==
  [f \in DOMAIN named |-> IF f \in DOMAIN res.chunks THEN res.chunks[f] ELSE AfterClear(res)[f]]

\* What appends EventACL: each step of the three that changes something, also
\* when the next undoes it.
FiltersChanged(res) ==
  \/ AfterBase(res) # named
  \/ AfterClear(res) # AfterBase(res)
  \/ AfterFilters(res) # AfterClear(res)

\* flattenFiltersLocked: the named filters one after the other.
RulesOf(filter) == IF filter = Absent THEN <<>> ELSE <<filter>>
Flatten(f) == RulesOf(f[FilterNames[1]]) \o RulesOf(f[FilterNames[2]])

\* Mutant: a removed peer is not a change of the node-derived DNS records.
DNSChangedUnlessRemoved(res) ==
  AfterChanged(res, AfterFull(res, peers)) # peers

\* dnsNodesChanged: by the full list, by whole nodes or by removals.
DNSNodesChanged(res) ==
  LET full == AfterFull(res, peers)
      changed == AfterChanged(res, full)
  IN full # peers \/ changed # full \/ AfterRemoved(res, changed) # changed

ApplyMapResponse(res) ==
  LET removed == AfterRemoved(res, AfterChanged(res, AfterFull(res, peers)))
      patch == AfterPatch(res, removed)
      marked == MarkExpired(patch)
      acl == FiltersChanged(res)
      dns == DNSNodesChanged(res)
      net == dns \/ patch # removed \/ marked # patch
      meta == handle' # handle \/ sequence' # sequence \/ now # controlTime
  IN
  /\ peers' = marked
  /\ named' = AfterFilters(res)
  /\ filters' = IF acl THEN Flatten(named') ELSE filters
  /\ bumped' = (IF acl \/ net \/ meta THEN {"client"} ELSE {}) \cup (IF dns THEN {"dns"} ELSE {})
                 \cup (IF acl THEN {"acl"} ELSE {}) \cup (IF net THEN {"network"} ELSE {})
  /\ controlTime' = now
  /\ extended' = {n \in NodeIDs : /\ marked[n] # Absent /\ removed[n] = peers[n]
                                  /\ n \in extended \/ (patch[n] # removed[n] /\ removed[n].expired)}

\* Mutant: the sequence number is stored before the node key is compared.
RejectLate(k) ==
  /\ sequence' = k
  /\ stream' = Down /\ bumped' = {}
  /\ UNCHANGED <<truthVars, now, handle, peers, named, filters, controlTime, extended>>

\* A response for another node key: ErrControlNodeKeyMismatch ends the stream.
Reject(k) ==
  /\ stream' = Down /\ bumped' = {}
  /\ UNCHANGED <<truthVars, now, clientState, controlTime, extended>>

-----------------------------------------------------------------------------
(* Control (external).                                                     *)

Quiet == bumped' = {} /\ UNCHANGED <<now, clientState, controlTime, extended>>

ControlChanges ==
  /\ changes < MaxChanges /\ changes' = changes + 1
  /\ \/ \E n \in NodeIDs, name \in NodeNames, e \in Expiries :
          truth' = [truth EXCEPT !.nodes[n] = [name |-> name, expiry |-> e]]
     \/ \E n \in Present(truth.nodes) : truth' = [truth EXCEPT !.nodes[n] = Absent]
     \/ \E f \in Range(FilterNames), r \in Rules \cup {Absent} :
          truth' = [truth EXCEPT !.filters[f] = r]
  /\ truth' # truth
  /\ UNCHANGED <<session, sessionLog, stream>> /\ Quiet

\* Control puts its map into the session as the next response.
ControlSends ==
  /\ stream.up /\ sessionLog[Len(sessionLog)] # truth
  /\ sessionLog' = Append(sessionLog, truth)
  /\ UNCHANGED <<truth, changes, session, stream>> /\ Quiet

\* A request for the session control still has: it goes on after the number the
\* client names, response by response or with all of them in one.
ResumeSession ==
  /\ ~stream.up /\ handle = session /\ session # 0 /\ sequence \in 1..Len(sessionLog)
  /\ \E next \in (sequence + 1)..(Len(sessionLog) + 1) :
       stream' = [up |-> TRUE, next |-> next, from |-> sequence, full |-> FALSE]
  /\ UNCHANGED truthVars /\ Quiet

NewSession ==
  /\ ~stream.up /\ session < MaxSessions
  /\ session' = session + 1 /\ sessionLog' = <<truth>>
  /\ stream' = [up |-> TRUE, next |-> 1, from |-> 0, full |-> TRUE]
  /\ UNCHANGED <<truth, changes>> /\ Quiet

StreamBreaks ==
  /\ stream.up /\ stream' = Down
  /\ UNCHANGED truthVars /\ Quiet

\* A response that describes the step from one map to another: patches for the
\* nodes p, filters one by one or all over.
Response(old, new, full, p, all) ==
  LET differs == {n \in NodeIDs : new.nodes[n] # Absent /\ new.nodes[n] # old.nodes[n]}
      chunks == {f \in DOMAIN new.filters : new.filters[f] # old.filters[f]}
  IN
  [nodes |-> IF full THEN new.nodes ELSE Absent,
   changed |-> Restrict(new.nodes, IF full THEN {} ELSE differs \ p),
   removed |-> IF full THEN {}
               ELSE {n \in NodeIDs : old.nodes[n] # Absent /\ new.nodes[n] = Absent},
   patched |-> [n \in IF full THEN {} ELSE p |-> new.nodes[n].expiry],
   base |-> IF all \/ "base" \notin chunks THEN Absent ELSE new.filters["base"],
   clear |-> all,
   chunks |-> Restrict(new.filters, IF all THEN Present(new.filters) ELSE
                {f \in chunks : f = "base" => new.filters[f] = Absent})]

\* A node of which only the expiry differs may be patched.
Patchable(old, new) ==
  {n \in NodeIDs : /\ new.nodes[n] # Absent /\ old.nodes[n] # Absent
                   /\ new.nodes[n] # old.nodes[n] /\ new.nodes[n].name = old.nodes[n].name}

\* A full map clears the filters: the client keeps them from one session to the
\* next, so it relies on control for that.
Responses(old, new, full) ==
  UNION {{Response(old, new, full, p, all) : p \in SUBSET Patchable(old, new)}
         : all \in {full, TRUE}}

Previous == IF stream.from = 0 THEN EmptyMap ELSE sessionLog[stream.from]

DeliverResponse(k) ==
  /\ stream.up /\ stream.next = k /\ k <= Len(sessionLog)
  /\ \/ \E res \in Responses(Previous, sessionLog[k], stream.full) :
          /\ handle' = session /\ sequence' = k
          /\ ApplyMapResponse(res)
          /\ stream' = [up |-> TRUE, next |-> k + 1, from |-> k, full |-> FALSE]
          /\ UNCHANGED <<truthVars, now>>
     \/ Reject(k)

\* A keepalive, which like every response here carries the time; its other
\* fields are ignored.
KeepAlive ==
  /\ stream.up
  /\ UNCHANGED <<handle, sequence>>
  /\ ApplyMapResponse([nodes |-> Absent, changed |-> <<>>, removed |-> {}, patched |-> <<>>,
                       base |-> Absent, clear |-> FALSE, chunks |-> <<>>])
  /\ UNCHANGED <<truthVars, stream, now>>

TimePasses ==
  /\ now < MaxTime /\ now' = now + 1
  /\ bumped' = {}
  /\ UNCHANGED <<truthVars, stream, clientState, controlTime, extended>>

NetworkMapNext ==
  \/ ControlChanges \/ ControlSends \/ ResumeSession \/ NewSession \/ StreamBreaks
  \/ \E k \in 1..Len(sessionLog) : DeliverResponse(k)
  \/ KeepAlive \/ TimePasses

NetworkMapSpec == NetworkMapInit /\ [][NetworkMapNext]_mapVars

-----------------------------------------------------------------------------
(* Properties.                                                             *)

Known == [n \in NodeIDs |-> IF peers[n] = Absent THEN Absent
                            ELSE [name |-> peers[n].name, expiry |-> peers[n].expiry]]

\* The client's map is control's map at the sequence number the client would
\* name: full and partial responses, however encoded, streams that break at any
\* point, refused responses, resumed and new sessions never make it drift.
MapAtSequence ==
  handle = session /\ session # 0 =>
    sessionLog[sequence] = [nodes |-> Known, filters |-> named]

\* The flat packet filter is always the named ones in order, although it is
\* recomputed only when the reducer has seen a change.
FiltersAgree == filters = Flatten(named)

\* At each response every peer whose key has expired by then is marked, and no
\* other peer is, except one that was marked and then had its expiry changed by
\* a patch: a patch does not lift the mark.
ExpiryAgrees ==
  \A n \in Present(peers) :
    peers[n].expired # (peers[n].expiry # 0 /\ peers[n].expiry <= controlTime) =>
      peers[n].expired /\ n \in extended

\* The client's map, the filter it flattens and the marks it sets follow control.
MapFollowsControl == MapAtSequence /\ FiltersAgree /\ ExpiryAgrees

\* What an application sees of the peers, the filters and the session changes only
\* together with the revision it is told to compare: c.revision for all of them,
\* and the DNS, ACL and network revisions for the names, the filters and the peers.
ChangesRevised ==
  [][ /\ clientState' # clientState => "client" \in bumped'
      /\ filters' # filters => "acl" \in bumped'
      /\ peers' # peers => "network" \in bumped'
      /\ (\E n \in NodeIDs : (IF peers[n] = Absent THEN Absent ELSE peers[n].name) #
                             (IF peers'[n] = Absent THEN Absent ELSE peers'[n].name))
           => "dns" \in bumped' ]_mapVars

-----------------------------------------------------------------------------
(* The inductive invariant of MapProofs.                                   *)

Maps == [nodes : NodeTable, filters : FilterTable]

MapTypeOK ==
  /\ truth \in Maps /\ sessionLog \in Seq(Maps)
  /\ session \in Nat /\ handle \in Nat /\ sequence \in Nat
  /\ now \in Nat /\ controlTime \in Nat /\ controlTime <= now
  /\ stream \in [up : BOOLEAN, next : Nat, from : Nat, full : BOOLEAN]
  /\ peers \in [NodeIDs -> Peer \cup {Absent}] /\ named \in FilterTable

\* The client has a session of control's, and a number of the current one.
SessionInv ==
  /\ handle <= session /\ (session # 0 => sessionLog # <<>>)
  /\ handle = session /\ session # 0 => sequence \in 1..Len(sessionLog)

\* An open stream begins with a full map, or with the response after the one the
\* client has applied.
StreamInv ==
  stream.up =>
    /\ session # 0
    /\ stream.full => stream.from = 0 /\ stream.next = 1
    /\ ~stream.full => handle = session /\ stream.from = sequence

MapInv == MapTypeOK /\ SessionInv /\ StreamInv /\ MapAtSequence /\ FiltersAgree /\ ExpiryAgrees
=============================================================================

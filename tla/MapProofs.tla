----------------------------- MODULE MapProofs ------------------------------
(***************************************************************************)
(* Proofs about the network map that control sends (NetworkMap) and about  *)
(* the hub that announces its changes (EventHub).                          *)
(***************************************************************************)
EXTENDS NetworkMap, EventHub, TLAPS

-----------------------------------------------------------------------------
(***************************************************************************)
(* NetworkMap: MapInv is inductive, for any nodes, names, expiries and     *)
(* rules and any number of changes and sessions.  The heart is that every  *)
(* way of encoding the step from one map to another makes applyMapResponse *)
(* compute the other (ReducedNodes, ReducedFilters).                       *)
(***************************************************************************)

\* The names of the filters.
LEMMA FilterRange == Range(FilterNames) = {"base", "extra"}
BY DEF Range, FilterNames

\* The peers once a response has been applied.
Reduced(res) ==
  MarkExpired(AfterPatch(res, AfterRemoved(res, AfterChanged(res, AfterFull(res, peers)))))

\* What a peer is of a node of control's map.
Matches(peer, node) ==
  IF node = Absent THEN peer = Absent
  ELSE peer \in Peer /\ peer.name = node.name /\ peer.expiry = node.expiry

\* The fields of a response that are about nodes, with the nodes p patched ...
NodePart(res, old, new, entire, p) ==
  /\ \A n \in p : /\ new.nodes[n] # Absent /\ old.nodes[n] # Absent
                  /\ new.nodes[n].name = old.nodes[n].name
  /\ res.nodes = IF entire THEN new.nodes ELSE Absent
  /\ res.changed = Restrict(new.nodes, IF entire THEN {} ELSE
                     {n \in NodeIDs : new.nodes[n] # Absent
                                      /\ new.nodes[n] # old.nodes[n]} \ p)
  /\ res.removed = IF entire THEN {} ELSE
                     {n \in NodeIDs : old.nodes[n] # Absent /\ new.nodes[n] = Absent}
  /\ res.patched = [n \in IF entire THEN {} ELSE p |-> new.nodes[n].expiry]

\* ... and about filters, all over or one by one.
FilterPart(res, old, new, all) ==
  /\ res.base = (IF all \/ new.filters["base"] = old.filters["base"] THEN Absent
                 ELSE new.filters["base"])
  /\ res.clear = all
  /\ res.chunks = Restrict(new.filters,
       IF all THEN Present(new.filters) ELSE
         {f \in DOMAIN new.filters : /\ new.filters[f] # old.filters[f]
                                     /\ f = "base" => new.filters[f] = Absent})

\* What control puts in a response, by its parts.
LEMMA ResponseFields ==
  ASSUME NEW old \in Maps, NEW new \in Maps, NEW entire \in BOOLEAN,
         NEW res \in Responses(old, new, entire)
  PROVE  /\ \E p \in SUBSET NodeIDs : NodePart(res, old, new, entire, p)
         /\ \E all \in {entire, TRUE} : FilterPart(res, old, new, all)
<1>1. "base" \in DOMAIN new.filters
  BY FilterRange, Zenon DEF Maps, FilterTable
<1>2. PICK p \in SUBSET Patchable(old, new), all \in {entire, TRUE} :
        res = Response(old, new, entire, p, all)
  BY Zenon DEF Responses
<1>3. /\ p \in SUBSET NodeIDs
      /\ \A n \in p : /\ new.nodes[n] # Absent /\ old.nodes[n] # Absent
                      /\ new.nodes[n].name = old.nodes[n].name
  BY Zenon DEF Patchable
<1>4. /\ res.nodes = IF entire THEN new.nodes ELSE Absent
      /\ res.changed = Restrict(new.nodes, IF entire THEN {} ELSE
                         {n \in NodeIDs : new.nodes[n] # Absent
                                          /\ new.nodes[n] # old.nodes[n]} \ p)
      /\ res.removed = IF entire THEN {} ELSE
                         {n \in NodeIDs : old.nodes[n] # Absent /\ new.nodes[n] = Absent}
      /\ res.patched = [n \in IF entire THEN {} ELSE p |-> new.nodes[n].expiry]
  BY <1>2, Zenon DEF Response
<1>5. /\ res.base = (IF all \/ new.filters["base"] = old.filters["base"] THEN Absent
                     ELSE new.filters["base"])
      /\ res.clear = all
  BY <1>1, <1>2, Zenon DEF Response
<1>6. res.chunks = Restrict(new.filters,
        IF all THEN Present(new.filters) ELSE
          {f \in DOMAIN new.filters : /\ new.filters[f] # old.filters[f]
                                      /\ f = "base" => new.filters[f] = Absent})
  <2>1. {f \in {g \in DOMAIN new.filters : new.filters[g] # old.filters[g]} :
            f = "base" => new.filters[f] = Absent}
          = {f \in DOMAIN new.filters : /\ new.filters[f] # old.filters[f]
                                        /\ f = "base" => new.filters[f] = Absent}
    BY Zenon
  <2>2. res.chunks = Restrict(new.filters, IF all THEN Present(new.filters) ELSE
          {f \in {g \in DOMAIN new.filters : new.filters[g] # old.filters[g]} :
             f = "base" => new.filters[f] = Absent})
    BY <1>2, Zenon DEF Response
  <2> QED
    BY <2>1, <2>2, Zenon
<1>7. NodePart(res, old, new, entire, p)
  BY <1>3, <1>4, Zenon DEF NodePart
<1>8. FilterPart(res, old, new, all)
  BY <1>5, <1>6, Zenon DEF FilterPart
<1> QED
  BY <1>3, <1>7, <1>8, Zenon

\* Marking expired peers changes nothing that control sends.
LEMMA MarkKeeps ==
  ASSUME MapTypeOK, NEW n \in NodeIDs, NEW old, NEW node \in Node \cup {Absent},
         Matches(old[n], node)
  PROVE  Matches(MarkExpired(old)[n], node)
<1>1. CASE old[n] = Absent
  BY <1>1, Zenon DEF MarkExpired, Matches
<1>2. CASE old[n] # Absent
  <2>1. old[n] \in Peer /\ node # Absent /\ old[n].name = node.name /\ old[n].expiry = node.expiry
    BY <1>2, Zenon DEF Matches
  <2> DEFINE marked == [old[n] EXCEPT !.expired = TRUE]
  <2>2. marked \in Peer /\ marked.name = old[n].name /\ marked.expiry = old[n].expiry
    BY <2>1, Zenon DEF Peer
  <2>3. \/ MarkExpired(old)[n] = old[n]
        \/ MarkExpired(old)[n] = marked
    BY <1>2, Zenon DEF MarkExpired
  <2> HIDE DEF marked
  <2> QED
    BY <2>1, <2>2, <2>3, Zenon DEF Matches
<1> QED
  BY <1>1, <1>2, Zenon

\* A whole node becomes a peer that matches it.
LEMMA FreshMatches ==
  ASSUME NEW node \in Node
  PROVE  Fresh(node) \in Peer /\ Matches(Fresh(node), node) /\ Fresh(node).expired = FALSE
<1>1. node.name \in NodeNames /\ node.expiry \in Expiries /\ node # Absent
  BY AbsentIsNone, Zenon DEF Node
<1> QED
  BY <1>1, Zenon DEF Fresh, Peer, Matches

\* However the step from one map to the next is encoded, the peers match the
\* next map if they matched the one before; after a full list they always do.
LEMMA ReducedNodes ==
  ASSUME MapTypeOK, NEW old \in Maps, NEW new \in Maps, NEW entire \in BOOLEAN,
         NEW res \in Responses(old, new, entire),
         entire \/ \A n \in NodeIDs : Matches(peers[n], old.nodes[n])
  PROVE  \A n \in NodeIDs : Matches(Reduced(res)[n], new.nodes[n])
<1> SUFFICES ASSUME NEW n \in NodeIDs PROVE Matches(Reduced(res)[n], new.nodes[n])
  BY Zenon
<1>0. new.nodes \in NodeTable /\ new.nodes[n] \in Node \cup {Absent}
      /\ old.nodes[n] \in Node \cup {Absent} /\ new.nodes # Absent
  BY AbsentIsNone, Zenon DEF Maps, NodeTable
<1>a. PICK p \in SUBSET NodeIDs : NodePart(res, old, new, entire, p)
  BY ResponseFields, Zenon
<1>1. /\ \A m \in p : /\ new.nodes[m] # Absent /\ old.nodes[m] # Absent
                      /\ new.nodes[m].name = old.nodes[m].name
      /\ res.nodes = IF entire THEN new.nodes ELSE Absent
      /\ res.changed = Restrict(new.nodes, IF entire THEN {} ELSE
                         {m \in NodeIDs : new.nodes[m] # Absent
                                          /\ new.nodes[m] # old.nodes[m]} \ p)
      /\ res.removed = IF entire THEN {} ELSE
                         {m \in NodeIDs : old.nodes[m] # Absent /\ new.nodes[m] = Absent}
      /\ res.patched = [m \in IF entire THEN {} ELSE p |-> new.nodes[m].expiry]
  BY <1>a, Zenon DEF NodePart
<1> DEFINE f == AfterFull(res, peers)
           c == AfterChanged(res, f)
           r == AfterRemoved(res, c)
           q == AfterPatch(res, r)
<1>2. Matches(q[n], new.nodes[n])
  <2>1. CASE entire
    <3>1. f[n] = IF new.nodes[n] = Absent THEN Absent ELSE Fresh(new.nodes[n])
      BY <2>1, <1>0, <1>1, Zenon DEF AfterFull
    <3>2. DOMAIN res.changed = {} /\ res.removed = {} /\ DOMAIN res.patched = {}
      <4>1. /\ res.changed = Restrict(new.nodes, {}) /\ res.removed = {}
            /\ res.patched = [m \in {} |-> new.nodes[m].expiry]
        BY <2>1, <1>1, Zenon
      <4> QED
        BY <4>1, Zenon DEF Restrict
    <3> HIDE DEF f
    <3>3. q[n] = f[n]
      BY <3>2, Zenon DEF AfterChanged, AfterRemoved, AfterPatch
    <3> HIDE DEF q
    <3>4. CASE new.nodes[n] = Absent
      BY <3>1, <3>3, <3>4, Zenon DEF Matches
    <3>5. CASE new.nodes[n] # Absent
      BY <3>1, <3>3, <3>5, <1>0, FreshMatches, Zenon
    <3> QED
      BY <3>4, <3>5, Zenon
  <2>2. CASE ~entire
    <3>1. f[n] = peers[n] /\ Matches(peers[n], old.nodes[n])
      BY <2>2, <1>1, Zenon DEF AfterFull
    <3>2. /\ DOMAIN res.changed = {m \in NodeIDs : new.nodes[m] # Absent
                                                   /\ new.nodes[m] # old.nodes[m]} \ p
          /\ \A m \in DOMAIN res.changed : res.changed[m] = new.nodes[m]
          /\ res.removed = {m \in NodeIDs : old.nodes[m] # Absent /\ new.nodes[m] = Absent}
          /\ DOMAIN res.patched = p /\ \A m \in p : res.patched[m] = new.nodes[m].expiry
      BY <2>2, <1>1, Zenon DEF Restrict
    <3> HIDE DEF f
    <3>3. c[n] = IF n \in DOMAIN res.changed THEN Fresh(new.nodes[n]) ELSE peers[n]
      BY <3>1, <3>2, Zenon DEF AfterChanged
    <3> HIDE DEF c
    <3>4. r[n] = IF n \in res.removed THEN Absent ELSE c[n]
      BY Zenon DEF AfterRemoved
    <3> HIDE DEF r
    <3>5. q[n] = IF n \in p /\ r[n] # Absent
                 THEN [r[n] EXCEPT !.expiry = new.nodes[n].expiry] ELSE r[n]
      BY <3>2, Zenon DEF AfterPatch
    <3> HIDE DEF q
    <3>6. CASE new.nodes[n] = Absent
      <4>1. n \notin p /\ n \notin DOMAIN res.changed
        BY <3>2, <3>6, <1>1, Zenon
      <4>2. r[n] = Absent
        BY <4>1, <3>1, <3>2, <3>3, <3>4, <3>6, Zenon DEF Matches
      <4> QED
        BY <4>1, <4>2, <3>5, <3>6, Zenon DEF Matches
    <3>7. CASE n \in DOMAIN res.changed
      <4>1. n \notin p /\ n \notin res.removed /\ new.nodes[n] \in Node
        BY <3>2, <3>7, <1>0, Zenon
      <4> QED
        BY <4>1, <3>3, <3>4, <3>5, <3>7, FreshMatches, Zenon
    <3>8. CASE new.nodes[n] # Absent /\ n \in p
      <4>1. /\ n \notin res.removed /\ n \notin DOMAIN res.changed
            /\ old.nodes[n] # Absent /\ new.nodes[n].name = old.nodes[n].name
        BY <3>2, <3>8, <1>1, Zenon
      <4>2. r[n] = peers[n] /\ r[n] \in Peer /\ r[n].name = new.nodes[n].name
        BY <4>1, <3>1, <3>3, <3>4, Zenon DEF Matches
      <4>3. r[n] # Absent /\ new.nodes[n].expiry \in Expiries
        BY <4>2, <3>8, <1>0, AbsentIsNone, Zenon DEF Node
      <4>4. q[n] = [r[n] EXCEPT !.expiry = new.nodes[n].expiry]
        BY <4>3, <3>5, <3>8, Zenon
      <4>5. q[n] = [name |-> r[n].name, expiry |-> new.nodes[n].expiry, expired |-> r[n].expired]
        BY <4>2, <4>4, Zenon DEF Peer
      <4>6. q[n] \in Peer /\ q[n].name = new.nodes[n].name /\ q[n].expiry = new.nodes[n].expiry
        BY <4>2, <4>3, <4>5 DEF Peer
      <4> QED
        BY <4>6, <3>8, Zenon DEF Matches
    <3>9. CASE new.nodes[n] # Absent /\ n \notin p /\ n \notin DOMAIN res.changed
      <4>1. new.nodes[n] = old.nodes[n] /\ n \notin res.removed
        BY <3>2, <3>9, Zenon
      <4> QED
        BY <4>1, <3>1, <3>3, <3>4, <3>5, <3>9, Zenon
    <3> QED
      BY <3>6, <3>7, <3>8, <3>9, Zenon
  <2> QED
    BY <2>1, <2>2, Zenon
<1>3. Reduced(res) = MarkExpired(q)
  BY Zenon DEF Reduced
<1> HIDE DEF q
<1> QED
  BY <1>0, <1>2, <1>3, MarkKeeps, Zenon

\* The same for the named filters.
LEMMA ReducedFilters ==
  ASSUME MapTypeOK, NEW old \in Maps, NEW new \in Maps, NEW entire \in BOOLEAN,
         NEW res \in Responses(old, new, entire), entire \/ named = old.filters
  PROVE  AfterFilters(res) = new.filters
<1>0. /\ DOMAIN named = {"base", "extra"} /\ DOMAIN new.filters = {"base", "extra"}
      /\ new.filters = [f \in {"base", "extra"} |-> new.filters[f]]
  BY FilterRange, Zenon DEF MapTypeOK, Maps, FilterTable
<1>1. PICK all \in {entire, TRUE} : FilterPart(res, old, new, all)
  BY ResponseFields, Zenon
<1> USE <1>1 DEF FilterPart
<1>2. ASSUME NEW f \in {"base", "extra"} PROVE AfterFilters(res)[f] = new.filters[f]
  <2>1. CASE all
    <3>1. DOMAIN res.chunks = Present(new.filters) /\ AfterClear(res) = NoFilters
      BY <2>1, <1>1, Zenon DEF Restrict, AfterClear
    <3>2. f \in DOMAIN res.chunks <=> new.filters[f] # Absent
      BY <3>1, <1>0, <1>2, Zenon DEF Present
    <3>3. f \in DOMAIN res.chunks => res.chunks[f] = new.filters[f]
      BY <2>1, <1>1, Zenon DEF Restrict
    <3>4. NoFilters[f] = Absent
      BY FilterRange, Zenon DEF NoFilters
    <3> QED
      BY <3>1, <3>2, <3>3, <3>4, <1>0, <1>2, Zenon DEF AfterFilters
  <2>2. CASE ~all
    <3>1. ~entire /\ named = old.filters
      BY <2>2, Zenon
    <3>2. /\ DOMAIN res.chunks = {g \in DOMAIN new.filters :
                 /\ new.filters[g] # old.filters[g]
                 /\ g = "base" => new.filters[g] = Absent}
          /\ \A g \in DOMAIN res.chunks : res.chunks[g] = new.filters[g]
          /\ AfterClear(res) = AfterBase(res)
      BY <2>2, <1>1, Zenon DEF Restrict, AfterClear
    <3>3. f \in DOMAIN res.chunks <=> /\ new.filters[f] # old.filters[f]
                                      /\ f = "base" => new.filters[f] = Absent
      BY <3>2, <1>0, <1>2, Zenon
    <3>4. AfterFilters(res)[f] = IF f \in DOMAIN res.chunks THEN new.filters[f]
                                 ELSE AfterBase(res)[f]
      BY <3>2, <1>0, <1>2, Zenon DEF AfterFilters
    <3>5. f \notin DOMAIN res.chunks => AfterBase(res)[f] = new.filters[f]
      BY <3>1, <3>3, <2>2, <1>0, <1>1, <1>2, Zenon DEF AfterBase
    <3> QED
      BY <3>4, <3>5, Zenon
  <2> QED
    BY <2>1, <2>2, <1>1, Zenon
<1>3. AfterFilters(res) = [f \in {"base", "extra"} |-> AfterFilters(res)[f]]
  BY <1>0, Zenon DEF AfterFilters
<1> QED
  BY <1>0, <1>2, <1>3, Zenon

-----------------------------------------------------------------------------
(* Expiry.                                                                 *)

Removed(res) == AfterRemoved(res, AfterChanged(res, AfterFull(res, peers)))
Patched(res) == AfterPatch(res, Removed(res))

\* What the proof needs to know of a response.
WellFormed(res) ==
  /\ res.nodes = Absent \/ res.nodes \in NodeTable
  /\ \A n \in NodeIDs : n \in DOMAIN res.changed => res.changed[n] \in Node
  /\ \A n \in NodeIDs : n \in DOMAIN res.patched => res.patched[n] \in Expiries

\* Responses are well formed.
LEMMA ResponsesFormed ==
  ASSUME NEW old \in Maps, NEW new \in Maps, NEW entire \in BOOLEAN,
         NEW res \in Responses(old, new, entire)
  PROVE  WellFormed(res)
<1>0. new.nodes \in NodeTable /\ \A n \in NodeIDs : new.nodes[n] \in Node \cup {Absent}
  BY Zenon DEF Maps, NodeTable
<1>1. PICK p \in SUBSET NodeIDs : NodePart(res, old, new, entire, p)
  BY ResponseFields, Zenon
<1>2. CASE entire
  <2>1. /\ res.nodes = new.nodes /\ res.changed = Restrict(new.nodes, {})
        /\ res.patched = [n \in {} |-> new.nodes[n].expiry]
    BY <1>1, <1>2, Zenon DEF NodePart
  <2> QED
    BY <2>1, <1>0, Zenon DEF WellFormed, Restrict
<1>3. CASE ~entire
  <2>1. /\ res.nodes = Absent
        /\ res.changed = Restrict(new.nodes,
             {n \in NodeIDs : new.nodes[n] # Absent /\ new.nodes[n] # old.nodes[n]} \ p)
        /\ res.patched = [n \in p |-> new.nodes[n].expiry]
        /\ \A n \in p : new.nodes[n] # Absent
    BY <1>1, <1>3, Zenon DEF NodePart
  <2>2. \A n \in NodeIDs : n \in DOMAIN res.changed => res.changed[n] \in Node
    BY <2>1, <1>0, Zenon DEF Restrict
  <2>3. \A n \in NodeIDs : n \in DOMAIN res.patched => res.patched[n] \in Expiries
    BY <2>1, <1>0, Zenon DEF Node
  <2> QED
    BY <2>1, <2>2, <2>3, Zenon DEF WellFormed
<1> QED
  BY <1>2, <1>3, Zenon

\* Before patches a peer is the one there was, or whole and not marked.
LEMMA RemovedNode ==
  ASSUME MapTypeOK, NEW res, WellFormed(res), NEW n \in NodeIDs
  PROVE  \/ Removed(res)[n] = Absent \/ Removed(res)[n] = peers[n]
         \/ Removed(res)[n] \in Peer /\ Removed(res)[n].expired = FALSE
<1> DEFINE f == AfterFull(res, peers)
           c == AfterChanged(res, f)
<1>1. f[n] = Absent \/ f[n] = peers[n] \/ (f[n] \in Peer /\ f[n].expired = FALSE)
  <2>1. CASE res.nodes = Absent
    BY <2>1, Zenon DEF AfterFull
  <2>2. CASE res.nodes # Absent
    <3>1. res.nodes[n] \in Node \cup {Absent}
      BY <2>2, Zenon DEF WellFormed, NodeTable
    <3>2. f[n] = IF res.nodes[n] = Absent THEN Absent ELSE Fresh(res.nodes[n])
      BY <2>2, Zenon DEF AfterFull
    <3> HIDE DEF f
    <3> QED
      BY <3>1, <3>2, FreshMatches, Zenon
  <2> QED
    BY <2>1, <2>2, Zenon
<1> HIDE DEF f
<1>2. c[n] = f[n] \/ (c[n] \in Peer /\ c[n].expired = FALSE)
  <2>1. c[n] = IF n \in DOMAIN res.changed THEN Fresh(res.changed[n]) ELSE f[n]
    BY Zenon DEF AfterChanged
  <2> HIDE DEF c
  <2> QED
    BY <2>1, FreshMatches, Zenon DEF WellFormed
<1>3. Removed(res)[n] = IF n \in res.removed THEN Absent ELSE c[n]
  BY Zenon DEF Removed, AfterRemoved, f
<1> HIDE DEF c
<1> QED
  BY <1>1, <1>2, <1>3, Zenon

\* A patch keeps the mark.
LEMMA PatchedNode ==
  ASSUME MapTypeOK, NEW res, WellFormed(res), NEW n \in NodeIDs
  PROVE  IF Removed(res)[n] = Absent THEN Patched(res)[n] = Absent
         ELSE /\ Removed(res)[n] \in Peer /\ Patched(res)[n] \in Peer
              /\ Patched(res)[n].expired = Removed(res)[n].expired
              /\ Patched(res)[n].name = Removed(res)[n].name
<1> DEFINE r == Removed(res)[n]
<1>1. Patched(res)[n] = IF n \in DOMAIN res.patched /\ r # Absent
                        THEN [r EXCEPT !.expiry = res.patched[n]] ELSE r
  BY Zenon DEF Patched, AfterPatch
<1>2. r = Absent \/ r \in Peer
  BY RemovedNode, Zenon DEF MapTypeOK
<1> HIDE DEF r
<1>3. CASE r = Absent
  BY <1>1, <1>3, Zenon DEF r
<1>4. CASE r # Absent /\ n \in DOMAIN res.patched
  <2>1. r \in Peer /\ res.patched[n] \in Expiries
    BY <1>2, <1>4, Zenon DEF WellFormed
  <2> DEFINE q == [r EXCEPT !.expiry = res.patched[n]]
  <2>2. q \in Peer /\ q.expired = r.expired /\ q.name = r.name
    BY <2>1, Zenon DEF Peer
  <2>3. Patched(res)[n] = q
    BY <1>1, <1>4, Zenon
  <2> HIDE DEF q
  <2> QED
    BY <1>4, <2>1, <2>2, <2>3, Zenon DEF r
<1>5. CASE r # Absent /\ n \notin DOMAIN res.patched
  BY <1>1, <1>2, <1>5, Zenon DEF r
<1> QED
  BY <1>3, <1>4, <1>5, Zenon

\* Applying a response keeps the types of the peers and ExpiryAgrees.
LEMMA ExpiryStep ==
  ASSUME MapTypeOK, ExpiryAgrees, NEW res, WellFormed(res), ApplyMapResponse(res), now' = now
  PROVE  peers' \in [NodeIDs -> Peer \cup {Absent}] /\ ExpiryAgrees'
<1> DEFINE r == Removed(res)
           q == Patched(res)
           m == MarkExpired(q)
<1>1. peers' = m /\ controlTime' = now
  BY Zenon DEF ApplyMapResponse, Patched, Removed
<1>2. extended' = {n \in NodeIDs : /\ m[n] # Absent /\ r[n] = peers[n]
                                   /\ n \in extended \/ (q[n] # r[n] /\ r[n].expired)}
  BY Zenon DEF ApplyMapResponse, Patched, Removed
<1>3. DOMAIN m = NodeIDs
  BY Zenon DEF MarkExpired
<1>4. ASSUME NEW n \in NodeIDs
      PROVE  /\ m[n] \in Peer \cup {Absent}
             /\ m[n] # Absent /\ m[n].expired # (m[n].expiry # 0 /\ m[n].expiry <= now)
                  => m[n].expired /\ n \in extended'
  <2>1. m[n] = IF q[n] # Absent /\ q[n].expiry # 0 /\ q[n].expiry <= now
               THEN [q[n] EXCEPT !.expired = TRUE] ELSE q[n]
    BY Zenon DEF MarkExpired
  <2>2. IF r[n] = Absent THEN q[n] = Absent
        ELSE r[n] \in Peer /\ q[n] \in Peer /\ q[n].expired = r[n].expired
    BY PatchedNode, Zenon
  <2>3. r[n] = Absent \/ r[n] = peers[n] \/ (r[n] \in Peer /\ r[n].expired = FALSE)
    BY RemovedNode, Zenon
  <2> HIDE DEF m, q, r
  <2>4. CASE q[n] = Absent
    BY <2>1, <2>4, Zenon
  <2>5. CASE q[n] # Absent /\ q[n].expiry # 0 /\ q[n].expiry <= now
    <3>1. q[n] \in Peer /\ m[n] = [q[n] EXCEPT !.expired = TRUE]
      BY <2>1, <2>2, <2>5, Zenon
    <3>2. m[n] \in Peer /\ m[n].expiry = q[n].expiry /\ m[n].expired = TRUE
      BY <3>1, Zenon DEF Peer
    <3>3. m[n].expired = (m[n].expiry # 0 /\ m[n].expiry <= now)
      BY <3>2, <2>5, Zenon
    <3> QED
      BY <3>2, <3>3, Zenon
  <2>6. CASE q[n] # Absent /\ ~(q[n].expiry # 0 /\ q[n].expiry <= now)
    <3>1. m[n] = q[n] /\ q[n] \in Peer /\ r[n] \in Peer /\ r[n] # Absent
          /\ q[n].expired = r[n].expired
      BY <2>1, <2>2, <2>6, Zenon
    <3>2. ASSUME q[n].expired PROVE n \in extended'
      <4>1. r[n].expired
        BY <3>1, <3>2, Zenon
      <4>2. r[n] = peers[n]
        BY <2>3, <3>1, <4>1, Zenon
      <4>3. CASE q[n] # r[n]
        BY <1>2, <3>1, <2>6, <4>1, <4>2, <4>3, Zenon
      <4>4. CASE q[n] = r[n]
        <5>1. peers[n] = q[n] /\ peers[n].expired
          BY <4>1, <4>2, <4>4, Zenon
        <5>2. ~(peers[n].expiry # 0 /\ peers[n].expiry <= controlTime)
          <6>1. q[n].expiry \in Nat /\ controlTime \in Nat /\ now \in Nat /\ controlTime <= now
            BY <3>1, MapConstants, Zenon DEF Peer, MapTypeOK
          <6> QED
            BY <5>1, <2>6, <6>1
        <5>3. n \in Present(peers)
          BY <5>1, <2>6, Zenon DEF Present, MapTypeOK
        <5>4. peers[n].expired # (peers[n].expiry # 0 /\ peers[n].expiry <= controlTime)
          BY <5>1, <5>2, Zenon
        <5>5. n \in extended
          BY <5>3, <5>4, Zenon DEF ExpiryAgrees
        <5> QED
          BY <1>2, <3>1, <2>6, <4>2, <5>5, Zenon
      <4> QED
        BY <4>3, <4>4, Zenon
    <3>3. q[n].expired \in BOOLEAN
      BY <3>1, Zenon DEF Peer
    <3>4. m[n].expired # (m[n].expiry # 0 /\ m[n].expiry <= now) => q[n].expired
      BY <3>1, <3>3, <2>6, Zenon
    <3> QED
      BY <3>1, <3>2, <3>4, Zenon
  <2> QED
    BY <2>4, <2>5, <2>6, Zenon
<1>5. peers' \in [NodeIDs -> Peer \cup {Absent}]
  <2>1. m = [n \in NodeIDs |-> m[n]]
    BY Zenon DEF MarkExpired
  <2> HIDE DEF m
  <2> QED
    BY <1>1, <1>4, <2>1, Zenon
<1>6. ExpiryAgrees'
  <2> HIDE DEF m
  <2> SUFFICES ASSUME NEW n \in Present(peers)',
                      peers'[n].expired # (peers'[n].expiry # 0 /\ peers'[n].expiry <= controlTime')
               PROVE  peers'[n].expired /\ n \in extended'
    BY Zenon DEF ExpiryAgrees
  <2>1. n \in NodeIDs /\ m[n] # Absent
    BY <1>1, <1>3, Zenon DEF Present
  <2> QED
    BY <1>1, <1>4, <2>1, Zenon
<1> QED
  BY <1>5, <1>6, Zenon

-----------------------------------------------------------------------------
(* The steps.                                                              *)

\* The flat filters are recomputed unless the named ones stay the same.
LEMMA FiltersStep ==
  ASSUME FiltersAgree, NEW res, ApplyMapResponse(res)
  PROVE  named' = AfterFilters(res) /\ FiltersAgree'
<1>1. /\ named' = AfterFilters(res)
      /\ filters' = IF FiltersChanged(res) THEN Flatten(named') ELSE filters
  BY Zenon DEF ApplyMapResponse
<1>2. ~FiltersChanged(res) => AfterFilters(res) = named
  BY Zenon DEF FiltersChanged
<1> QED
  BY <1>1, <1>2, Zenon DEF FiltersAgree

\* What the client knows is a map exactly if every peer matches its node.
LEMMA KnownIsMap ==
  ASSUME MapTypeOK, NEW map \in Maps
  PROVE  map = [nodes |-> Known, filters |-> named]
           <=> map.filters = named /\ \A n \in NodeIDs : Matches(peers[n], map.nodes[n])
<1>1. map.nodes \in NodeTable /\ map = [nodes |-> map.nodes, filters |-> map.filters]
  BY Zenon DEF Maps
<1>2. ASSUME NEW n \in NodeIDs
      PROVE  Known[n] = map.nodes[n] <=> Matches(peers[n], map.nodes[n])
  <2>1. map.nodes[n] \in Node \cup {Absent} /\ peers[n] \in Peer \cup {Absent}
    BY <1>1, Zenon DEF NodeTable, MapTypeOK
  <2>2. CASE peers[n] = Absent
    <3>1. Known[n] = Absent
      BY <2>2, Zenon DEF Known
    <3> QED
      BY <2>1, <2>2, <3>1, AbsentIsNone, Zenon DEF Matches
  <2>3. CASE peers[n] # Absent
    <3>1. Known[n] = [name |-> peers[n].name, expiry |-> peers[n].expiry] /\ peers[n] \in Peer
      BY <2>1, <2>3, Zenon DEF Known
    <3>2. Known[n] \in Node
      BY <3>1 DEF Peer, Node
    <3>3. CASE map.nodes[n] = Absent
      BY <2>3, <3>2, <3>3, AbsentIsNone, Zenon DEF Matches
    <3>4. CASE map.nodes[n] \in Node
      <4>1. map.nodes[n] # Absent
        BY <3>4, AbsentIsNone, Zenon
      <4>2. map.nodes[n] = [name |-> map.nodes[n].name, expiry |-> map.nodes[n].expiry]
        BY <3>4, Zenon DEF Node
      <4> QED
        BY <3>1, <4>1, <4>2 DEF Matches
    <3> QED
      BY <2>1, <3>3, <3>4, Zenon
  <2> QED
    BY <2>2, <2>3, Zenon
<1>3. Known = map.nodes <=> \A n \in NodeIDs : Known[n] = map.nodes[n]
  <2>1. map.nodes = [n \in NodeIDs |-> map.nodes[n]]
    BY <1>1, Zenon DEF NodeTable
  <2>2. Known = [n \in NodeIDs |-> Known[n]]
    BY Zenon DEF Known
  <2> HIDE DEF Known
  <2> QED
    BY <2>1, <2>2, Zenon
<1>4. map = [nodes |-> Known, filters |-> named] <=> map.nodes = Known /\ map.filters = named
  BY <1>1
<1> QED
  BY <1>2, <1>3, <1>4, Zenon

\* The map of a new session has the type of one.
LEMMA EmptyMapType == EmptyMap \in Maps /\ NoFilters \in FilterTable
BY Zenon DEF EmptyMap, NoNodes, NoFilters, Maps, NodeTable, FilterTable

\* MapInv holds before the first response.
LEMMA InitMap == NetworkMapInit => MapInv
<1> SUFFICES ASSUME NetworkMapInit PROVE MapInv
  BY Zenon
<1> USE DEF NetworkMapInit
<1>1. MapTypeOK
  <2>1. peers \in [NodeIDs -> Peer \cup {Absent}]
    BY Zenon DEF NoNodes
  <2>2. stream \in [up : BOOLEAN, next : Nat, from : Nat, full : BOOLEAN]
    BY Zenon DEF Down
  <2> QED
    BY <2>1, <2>2, EmptyMapType DEF MapTypeOK
<1>2. SessionInv /\ StreamInv /\ MapAtSequence
  BY DEF SessionInv, StreamInv, MapAtSequence, Down
<1>3. FiltersAgree
  <2>1. Flatten(NoFilters) = <<>>
    <3>1. NoFilters["base"] = Absent /\ NoFilters["extra"] = Absent
      BY FilterRange, Zenon DEF NoFilters
    <3>2. RulesOf(Absent) = <<>>
      BY Zenon DEF RulesOf
    <3>3. FilterNames[1] = "base" /\ FilterNames[2] = "extra"
      BY Zenon DEF FilterNames
    <3> QED
      BY <3>1, <3>2, <3>3 DEF Flatten
  <2> QED
    BY <2>1, Zenon DEF FiltersAgree
<1>4. ExpiryAgrees
  BY Zenon DEF ExpiryAgrees, Present, NoNodes
<1> QED
  BY <1>1, <1>2, <1>3, <1>4, Zenon DEF MapInv

\* A response is accepted.
LEMMA AcceptStep ==
  ASSUME MapInv, NEW k \in 1..Len(sessionLog), stream.up, stream.next = k,
         NEW res \in Responses(Previous, sessionLog[k], stream.full),
         handle' = session, sequence' = k, ApplyMapResponse(res),
         stream' = [up |-> TRUE, next |-> k + 1, from |-> k, full |-> FALSE],
         UNCHANGED <<truthVars, now>>
  PROVE  MapInv'
<1> USE DEF MapInv
<1> DEFINE new == sessionLog[k]
<1>1. /\ new \in Maps /\ stream.full \in BOOLEAN /\ session \in Nat /\ session # 0
      /\ Len(sessionLog) \in Nat /\ k \in Nat
  BY DEF MapTypeOK, StreamInv
<1>2. /\ Previous \in Maps
      /\ stream.full \/ (/\ named = Previous.filters
                         /\ \A n \in NodeIDs : Matches(peers[n], Previous.nodes[n]))
  <2>1. CASE stream.full
    BY <2>1, EmptyMapType, Zenon DEF StreamInv, Previous
  <2>2. CASE ~stream.full
    <3>1. handle = session /\ stream.from = sequence /\ sequence \in 1..Len(sessionLog)
      BY <2>2, <1>1, Zenon DEF StreamInv, SessionInv
    <3>2. Previous = sessionLog[sequence] /\ Previous \in Maps
      BY <3>1 DEF Previous, MapTypeOK
    <3>3. Previous = [nodes |-> Known, filters |-> named]
      BY <3>1, <3>2, <1>1, Zenon DEF MapAtSequence
    <3> HIDE DEF MapInv
    <3>4. MapTypeOK
      BY Zenon DEF MapInv
    <3> QED
      BY <3>2, <3>3, <3>4, KnownIsMap, Zenon
  <2> QED
    BY <2>1, <2>2, Zenon
<1>3. WellFormed(res)
  BY <1>1, <1>2, ResponsesFormed, Zenon
<1>4. peers' \in [NodeIDs -> Peer \cup {Absent}] /\ ExpiryAgrees'
  BY <1>3, ExpiryStep, Zenon DEF truthVars
<1>5. named' = AfterFilters(res) /\ FiltersAgree'
  BY FiltersStep, Zenon
<1>6. named' = new.filters
  BY <1>1, <1>2, <1>5, ReducedFilters
<1>7. \A n \in NodeIDs : Matches(peers'[n], new.nodes[n])
  <2>1. peers' = Reduced(res)
    BY Zenon DEF ApplyMapResponse, Reduced
  <2> QED
    BY <1>1, <1>2, <2>1, ReducedNodes, Zenon
<1>8. MapTypeOK'
  <2>1. stream' \in [up : BOOLEAN, next : Nat, from : Nat, full : BOOLEAN]
    BY <1>1
  <2>2. controlTime' = now
    BY Zenon DEF ApplyMapResponse
  <2>3. named' \in FilterTable
    BY <1>1, <1>6, Zenon DEF Maps
  <2> QED
    BY <1>1, <1>4, <2>1, <2>2, <2>3 DEF MapTypeOK, truthVars
<1>9. SessionInv' /\ StreamInv'
  BY <1>1 DEF SessionInv, StreamInv, truthVars
<1>10. MapAtSequence'
  <2>1. sessionLog'[k] = new /\ new \in Maps
    BY <1>1, Zenon DEF truthVars
  <2> HIDE DEF new
  <2>2. new = [nodes |-> Known', filters |-> named']
    <3>1. new.nodes \in NodeTable /\ new = [nodes |-> new.nodes, filters |-> new.filters]
      BY <2>1, Zenon DEF Maps
    <3>2. ASSUME NEW n \in NodeIDs PROVE Known'[n] = new.nodes[n]
      <4>1. new.nodes[n] \in Node \cup {Absent}
        BY <3>1, Zenon DEF NodeTable
      <4>2. Known'[n] = IF peers'[n] = Absent THEN Absent
                        ELSE [name |-> peers'[n].name, expiry |-> peers'[n].expiry]
        BY Zenon DEF Known
      <4>3. CASE new.nodes[n] = Absent
        BY <1>7, <4>2, <4>3, Zenon DEF Matches
      <4>4. CASE new.nodes[n] # Absent
        <5>1. /\ peers'[n] \in Peer /\ peers'[n].name = new.nodes[n].name
              /\ peers'[n].expiry = new.nodes[n].expiry
          BY <1>7, <4>4, Zenon DEF Matches
        <5>2. peers'[n] # Absent
          BY <5>1, AbsentIsNone, Zenon
        <5>3. new.nodes[n] = [name |-> new.nodes[n].name, expiry |-> new.nodes[n].expiry]
          BY <4>1, <4>4, Zenon DEF Node
        <5> QED
          BY <4>2, <5>1, <5>2, <5>3, Zenon
      <4> QED
        BY <4>3, <4>4, Zenon
    <3>3. Known' = [n \in NodeIDs |-> Known'[n]]
      BY Zenon DEF Known
    <3>4. new.nodes = [n \in NodeIDs |-> new.nodes[n]]
      BY <3>1, Zenon DEF NodeTable
    <3> HIDE DEF Known
    <3> QED
      BY <3>1, <3>2, <3>3, <3>4, <1>6, Zenon
  <2> QED
    BY <2>1, <2>2, Zenon DEF MapAtSequence
<1> QED
  BY <1>4, <1>5, <1>8, <1>9, <1>10, Zenon

\* A keepalive: only marks of expiry change.
LEMMA KeepAliveStep ==
  ASSUME MapInv, KeepAlive
  PROVE  MapInv'
<1> USE DEF MapInv
<1> DEFINE res == [nodes |-> Absent, changed |-> <<>>, removed |-> {}, patched |-> <<>>,
                   base |-> Absent, clear |-> FALSE, chunks |-> <<>>]
<1>1. ApplyMapResponse(res) /\ UNCHANGED <<handle, sequence, truthVars, stream, now>>
  BY Zenon DEF KeepAlive
<1>2. /\ res.nodes = Absent /\ DOMAIN res.changed = {} /\ res.removed = {}
      /\ DOMAIN res.patched = {} /\ res.base = Absent /\ res.clear = FALSE
      /\ DOMAIN res.chunks = {}
  OBVIOUS
<1> HIDE DEF res
<1>3. WellFormed(res)
  BY <1>2, Zenon DEF WellFormed
<1>4. peers' \in [NodeIDs -> Peer \cup {Absent}] /\ ExpiryAgrees'
  BY <1>1, <1>3, ExpiryStep, Zenon
<1>5. named' = named /\ FiltersAgree'
  <2>1. named' = AfterFilters(res) /\ FiltersAgree'
    BY <1>1, FiltersStep, Zenon
  <2>2. AfterClear(res) = named
    BY <1>2, Zenon DEF AfterClear, AfterBase
  <2>3. AfterFilters(res) = [f \in DOMAIN named |-> named[f]]
    BY <1>2, <2>2, Zenon DEF AfterFilters
  <2>4. named = [f \in DOMAIN named |-> named[f]]
    BY Zenon DEF MapTypeOK, FilterTable
  <2> QED
    BY <2>1, <2>3, <2>4, Zenon
<1>6. ASSUME NEW n \in NodeIDs, NEW node \in Node \cup {Absent}, Matches(peers[n], node)
      PROVE  Matches(peers'[n], node)
  <2> DEFINE q == AfterPatch(res, AfterRemoved(res, AfterChanged(res, AfterFull(res, peers))))
  <2>1. q[n] = peers[n]
    BY <1>2, Zenon DEF AfterPatch, AfterRemoved, AfterChanged, AfterFull
  <2>2. peers' = MarkExpired(q)
    BY <1>1, Zenon DEF ApplyMapResponse
  <2> HIDE DEF q
  <2> QED
    BY <1>6, <2>1, <2>2, MarkKeeps, Zenon
<1>7. MapTypeOK'
  <2>1. controlTime' = now
    BY <1>1, Zenon DEF ApplyMapResponse
  <2> QED
    BY <1>1, <1>4, <1>5, <2>1 DEF MapTypeOK, truthVars
<1>8. SessionInv' /\ StreamInv'
  BY <1>1, Zenon DEF SessionInv, StreamInv, truthVars
<1>9. MapAtSequence'
  <2> SUFFICES ASSUME handle = session, session # 0
               PROVE  sessionLog[sequence] = [nodes |-> Known', filters |-> named']
    BY <1>1, Zenon DEF MapAtSequence, truthVars
  <2> DEFINE map == sessionLog[sequence]
  <2>1. map \in Maps /\ map = [nodes |-> Known, filters |-> named]
    BY DEF MapAtSequence, SessionInv, MapTypeOK
  <2> HIDE DEF map
  <2>2. map.nodes = Known /\ map.nodes \in NodeTable
    BY <2>1, Zenon DEF Maps
  <2>3. \A n \in NodeIDs : Matches(peers[n], map.nodes[n])
    BY <2>1, KnownIsMap, Zenon
  <2>4. ASSUME NEW n \in NodeIDs PROVE Known'[n] = Known[n]
    <3>1. map.nodes[n] \in Node \cup {Absent}
      BY <2>2, Zenon DEF NodeTable
    <3>2. Matches(peers[n], map.nodes[n]) /\ Matches(peers'[n], map.nodes[n])
      BY <2>3, <3>1, <1>6, Zenon
    <3>3. Absent \notin Peer
      BY AbsentIsNone, Zenon
    <3> QED
      BY <3>2, <3>3, Zenon DEF Known, Matches
  <2>5. Known' = Known
    BY <2>4, Zenon DEF Known
  <2> QED
    BY <2>1, <2>5, <1>5, Zenon DEF map
<1> QED
  BY <1>4, <1>5, <1>7, <1>8, <1>9, Zenon

\* Steps that leave what the client has alone.
LEMMA ClientRests ==
  ASSUME MapInv, UNCHANGED <<handle, sequence, peers, named, filters, controlTime, extended>>
  PROVE  FiltersAgree' /\ ExpiryAgrees' /\ Known' = Known
BY Zenon DEF MapInv, FiltersAgree, ExpiryAgrees, Known

\* Control changes its map.
LEMMA ChangeStep ==
  ASSUME MapInv, ControlChanges
  PROVE  MapInv'
<1> USE DEF MapInv
<1>1. UNCHANGED <<session, sessionLog, stream, now, handle, sequence, peers, named, filters,
                  controlTime, extended>>
  BY Zenon DEF ControlChanges, Quiet, clientState
<1>2. truth' \in Maps
  <2>0. truth \in Maps
    BY Zenon DEF MapTypeOK
  <2>1. ASSUME NEW n \in NodeIDs, NEW v \in Node \cup {Absent}
        PROVE  [truth EXCEPT !.nodes[n] = v] \in Maps
    BY <2>0, <2>1, Zenon DEF Maps, NodeTable
  <2>2. ASSUME NEW f \in Range(FilterNames), NEW v \in Rules \cup {Absent}
        PROVE  [truth EXCEPT !.filters[f] = v] \in Maps
    BY <2>0, <2>2, Zenon DEF Maps, FilterTable
  <2>3. CASE \E n \in NodeIDs, name \in NodeNames, e \in Expiries :
               truth' = [truth EXCEPT !.nodes[n] = [name |-> name, expiry |-> e]]
    BY <2>1, <2>3, Zenon DEF Node
  <2>4. CASE \E n \in Present(truth.nodes) : truth' = [truth EXCEPT !.nodes[n] = Absent]
    <3>1. DOMAIN truth.nodes = NodeIDs
      BY <2>0, Zenon DEF Maps, NodeTable
    <3> QED
      BY <2>1, <2>4, <3>1 DEF Present
  <2>5. CASE \E f \in Range(FilterNames), r \in Rules \cup {Absent} :
               truth' = [truth EXCEPT !.filters[f] = r]
    BY <2>2, <2>5, Zenon
  <2> QED
    BY <2>3, <2>4, <2>5, Zenon DEF ControlChanges
<1>3. MapTypeOK'
  BY <1>1, <1>2, Zenon DEF MapTypeOK
<1>4. SessionInv' /\ StreamInv'
  BY <1>1, Zenon DEF SessionInv, StreamInv
<1>5. MapAtSequence'
  BY <1>1, ClientRests, Zenon DEF MapAtSequence
<1> QED
  BY <1>1, <1>3, <1>4, <1>5, ClientRests, Zenon

\* Control adds a map to the session; those before it stay.
LEMMA ResponseStep ==
  ASSUME MapInv, ControlSends
  PROVE  MapInv'
<1> USE DEF MapInv
<1>1. /\ sessionLog' = Append(sessionLog, truth)
      /\ UNCHANGED <<truth, session, stream, now, handle, sequence, peers, named, filters,
                     controlTime, extended>>
  BY Zenon DEF ControlSends, Quiet, clientState
<1>2. truth \in Maps /\ sessionLog \in Seq(Maps)
  BY Zenon DEF MapTypeOK
<1>3. /\ sessionLog' \in Seq(Maps) /\ sessionLog' # <<>>
      /\ Len(sessionLog) \in Nat /\ Len(sessionLog') = Len(sessionLog) + 1
      /\ \A i \in 1..Len(sessionLog) : sessionLog'[i] = sessionLog[i]
  BY <1>1, <1>2
<1>4. MapTypeOK'
  BY <1>1, <1>3, Zenon DEF MapTypeOK
<1>5. SessionInv' /\ StreamInv'
  BY <1>1, <1>3 DEF SessionInv, StreamInv
<1>6. MapAtSequence'
  BY <1>1, <1>3, ClientRests, Zenon DEF MapAtSequence, SessionInv
<1> QED
  BY <1>1, <1>4, <1>5, <1>6, ClientRests, Zenon

\* A new session has another number than the client's.
LEMMA NewSessionStep ==
  ASSUME MapInv, NewSession
  PROVE  MapInv'
<1> USE DEF MapInv
<1>1. /\ session' = session + 1 /\ sessionLog' = <<truth>>
      /\ stream' = [up |-> TRUE, next |-> 1, from |-> 0, full |-> TRUE]
      /\ UNCHANGED <<truth, now, handle, sequence, peers, named, filters,
                     controlTime, extended>>
  BY Zenon DEF NewSession, Quiet, clientState
<1>2. truth \in Maps /\ session \in Nat /\ handle \in Nat /\ handle <= session
  BY Zenon DEF MapTypeOK, SessionInv
<1>3. MapTypeOK'
  <2>1. sessionLog' \in Seq(Maps) /\ session' \in Nat
    BY <1>1, <1>2
  <2>2. stream' \in [up : BOOLEAN, next : Nat, from : Nat, full : BOOLEAN]
    BY <1>1, Zenon
  <2> QED
    BY <1>1, <2>1, <2>2, Zenon DEF MapTypeOK
<1>4. handle' # session' /\ handle' <= session' /\ session' # 0 /\ sessionLog' # <<>>
  BY <1>1, <1>2
<1>5. SessionInv' /\ StreamInv' /\ MapAtSequence'
  BY <1>1, <1>4, Zenon DEF SessionInv, StreamInv, MapAtSequence
<1> QED
  BY <1>1, <1>3, <1>5, ClientRests, Zenon

\* Streams that end, by themselves or by a refused response, or are resumed, and
\* the clock.
LEMMA RestStep ==
  ASSUME MapInv,
         \/ ResumeSession \/ StreamBreaks \/ TimePasses \/ UNCHANGED mapVars
         \/ \E k \in 1..Len(sessionLog) : Reject(k)
  PROVE  MapInv'
<1> USE DEF MapInv
<1>1. UNCHANGED <<truth, session, sessionLog, handle, sequence, peers, named, filters,
                  controlTime, extended>>
  BY Zenon
  DEF ResumeSession, StreamBreaks, TimePasses, Reject, mapVars, truthVars, Quiet, clientState
<1>2. now' \in Nat /\ controlTime <= now'
  BY SMTT(30)
  DEF ResumeSession, StreamBreaks, TimePasses, Reject, mapVars, truthVars, Quiet, clientState,
      MapTypeOK
<1>3. /\ stream' \in [up : BOOLEAN, next : Nat, from : Nat, full : BOOLEAN]
      /\ StreamInv'
  <2>1. CASE stream' = stream
    BY <1>1, <2>1, Zenon DEF StreamInv, MapTypeOK
  <2>2. CASE stream' = Down
    BY <2>2, Zenon DEF StreamInv, Down
  <2>3. CASE ResumeSession
    <3>1. PICK next \in (sequence + 1)..(Len(sessionLog) + 1) :
            stream' = [up |-> TRUE, next |-> next, from |-> sequence, full |-> FALSE]
      BY <2>3, Zenon DEF ResumeSession
    <3>2. handle = session /\ session # 0 /\ sequence \in Nat /\ Len(sessionLog) \in Nat
      BY <2>3 DEF ResumeSession, MapTypeOK
    <3>3. next \in Nat
      BY <3>2
    <3> QED
      BY <1>1, <3>1, <3>2, <3>3, Zenon DEF StreamInv
  <2> QED
    BY <2>1, <2>2, <2>3, Zenon DEF StreamBreaks, TimePasses, Reject, mapVars
<1>4. MapTypeOK'
  BY <1>1, <1>2, <1>3, Zenon DEF MapTypeOK
<1>5. SessionInv'
  BY <1>1, Zenon DEF SessionInv
<1>6. MapAtSequence'
  BY <1>1, ClientRests, Zenon DEF MapAtSequence
<1> QED
  BY <1>1, <1>3, <1>4, <1>5, <1>6, ClientRests, Zenon

\* MapInv holds in every state of the reducer (applyMapResponse) and its
\* sessions (mapRequest, mapLoop), however long it runs.
THEOREM MapAlways == NetworkMapSpec => []MapInv
<1>1. MapInv /\ [NetworkMapNext]_mapVars => MapInv'
  <2> SUFFICES ASSUME MapInv, [NetworkMapNext]_mapVars PROVE MapInv'
    BY Zenon
  <2>1. ASSUME NEW k \in 1..Len(sessionLog), DeliverResponse(k) PROVE MapInv'
    <3>1. CASE Reject(k)
      BY <3>1, RestStep, Zenon
    <3>2. CASE \E res \in Responses(Previous, sessionLog[k], stream.full) :
                 /\ handle' = session /\ sequence' = k
                 /\ ApplyMapResponse(res)
                 /\ stream' = [up |-> TRUE, next |-> k + 1, from |-> k, full |-> FALSE]
                 /\ UNCHANGED <<truthVars, now>>
      <4>1. stream.up /\ stream.next = k
        BY <2>1, Zenon DEF DeliverResponse
      <4> QED
        BY <3>2, <4>1, AcceptStep, Zenon
    <3> QED
      BY <2>1, <3>1, <3>2, Zenon DEF DeliverResponse
  <2> QED
    BY <2>1, ChangeStep, ResponseStep, NewSessionStep, KeepAliveStep, RestStep, Zenon
    DEF NetworkMapNext
<1> QED
  BY InitMap, <1>1, PTL DEF NetworkMapSpec

\* The client's peers and filters are control's at the sequence number that
\* mapRequest would name, for any encoding of the changes and any breaks.
THEOREM MapFollows == NetworkMapSpec => []MapAtSequence
<1>1. MapInv => MapAtSequence
  BY Zenon DEF MapInv
<1> QED
  BY MapAlways, <1>1, PTL

\* c.filters is always what flattenFiltersLocked makes of c.namedFilters.
THEOREM FiltersFollow == NetworkMapSpec => []FiltersAgree
<1>1. MapInv => FiltersAgree
  BY Zenon DEF MapInv
<1> QED
  BY MapAlways, <1>1, PTL

\* markNodeExpired marks exactly the peers that have expired, but for a mark
\* that a later patch does not lift.
THEOREM ExpiryFollows == NetworkMapSpec => []ExpiryAgrees
<1>1. MapInv => ExpiryAgrees
  BY Zenon DEF MapInv
<1> QED
  BY MapAlways, <1>1, PTL

\* applyMapResponse keeps map, flat filter and expiry marks in step with control.
THEOREM FollowsControl == NetworkMapSpec => []MapFollowsControl
<1>1. MapAtSequence /\ FiltersAgree /\ ExpiryAgrees => MapFollowsControl
  BY Zenon DEF MapFollowsControl
<1> QED
  BY MapFollows, FiltersFollow, ExpiryFollows, <1>1, PTL

\* A response bumps the revisions of what it changes.
Revised ==
  /\ clientState' # clientState => "client" \in bumped'
  /\ filters' # filters => "acl" \in bumped'
  /\ peers' # peers => "network" \in bumped'
  /\ (\E n \in NodeIDs : (IF peers[n] = Absent THEN Absent ELSE peers[n].name) #
                         (IF peers'[n] = Absent THEN Absent ELSE peers'[n].name))
       => "dns" \in bumped'

\* A response that changes the map revises the views of what it changes.
LEMMA ApplyRevises ==
  ASSUME MapTypeOK, NEW res, WellFormed(res), ApplyMapResponse(res)
  PROVE  Revised
<1> DEFINE r == Removed(res)
           q == Patched(res)
           m == MarkExpired(q)
           dns == DNSNodesChanged(res)
           acl == FiltersChanged(res)
           net == dns \/ q # r \/ m # q
           meta == handle' # handle \/ sequence' # sequence \/ now # controlTime
<1>1. /\ peers' = m /\ named' = AfterFilters(res)
      /\ filters' = IF acl THEN Flatten(named') ELSE filters
  BY Zenon DEF ApplyMapResponse, Patched, Removed
<1>2. /\ acl \/ net \/ meta => "client" \in bumped'
      /\ acl => "acl" \in bumped'
      /\ net => "network" \in bumped'
      /\ dns => "dns" \in bumped'
  BY DEF ApplyMapResponse, Patched, Removed
<1>3. ~dns => r = peers
  BY Zenon DEF DNSNodesChanged, Removed
<1>4. ~acl => named' = named /\ filters' = filters
  BY <1>1, Zenon DEF FiltersChanged
<1>5. ~net => peers' = peers
  BY <1>1, <1>3, Zenon
<1>6. ASSUME ~dns, NEW n \in NodeIDs
      PROVE  (IF peers[n] = Absent THEN Absent ELSE peers[n].name) =
             (IF peers'[n] = Absent THEN Absent ELSE peers'[n].name)
  <2>1. IF peers[n] = Absent THEN q[n] = Absent
        ELSE q[n] \in Peer /\ q[n].name = peers[n].name
    BY <1>3, <1>6, PatchedNode, Zenon
  <2>2. m[n] = q[n] \/ (q[n] # Absent /\ m[n] = [q[n] EXCEPT !.expired = TRUE])
    <3> HIDE DEF q
    <3> QED
      BY Zenon DEF MarkExpired
  <2> HIDE DEF q, m
  <2>3. CASE m[n] = q[n]
    BY <1>1, <2>1, <2>3, AbsentIsNone, Zenon
  <2>4. CASE q[n] # Absent /\ m[n] = [q[n] EXCEPT !.expired = TRUE]
    <3>1. peers[n] # Absent /\ q[n] \in Peer /\ q[n].name = peers[n].name
      BY <2>1, <2>4, Zenon
    <3> DEFINE marked == [q[n] EXCEPT !.expired = TRUE]
    <3>2. marked \in Peer /\ marked.name = q[n].name
      BY <3>1, Zenon DEF Peer
    <3>3. m[n] = marked
      BY <2>4, Zenon
    <3> HIDE DEF marked
    <3> QED
      BY <1>1, <3>1, <3>2, <3>3, AbsentIsNone, Zenon
  <2> QED
    BY <2>2, <2>3, <2>4, Zenon
<1> HIDE DEF r, q, m, dns, acl, net, meta
<1>7. clientState' # clientState => acl \/ net \/ meta
  BY <1>4, <1>5, Zenon DEF clientState, meta
<1> QED
  BY <1>2, <1>4, <1>5, <1>6, <1>7, Zenon DEF Revised

\* Whatever an application can see of the map changes only together with the
\* revision that announces it: applyMapResponse compares every step it takes.
THEOREM Announced == NetworkMapSpec => ChangesRevised
<1>1. MapInv /\ [NetworkMapNext]_mapVars => Revised
  <2> SUFFICES ASSUME MapInv, [NetworkMapNext]_mapVars PROVE Revised
    BY Zenon
  <2>0. MapTypeOK
    BY Zenon DEF MapInv
  <2>1. ASSUME UNCHANGED clientState PROVE Revised
    BY <2>1, Zenon DEF Revised, clientState
  <2>2. ASSUME NEW k \in 1..Len(sessionLog), DeliverResponse(k) PROVE Revised
    <3>1. CASE Reject(k)
      BY <2>1, <3>1, Zenon DEF Reject
    <3>2. CASE ~Reject(k)
      <4>1. PICK res \in Responses(Previous, sessionLog[k], stream.full) : ApplyMapResponse(res)
        BY <2>2, <3>2, Zenon DEF DeliverResponse
      <4>2. sessionLog[k] \in Maps /\ stream.full \in BOOLEAN /\ Previous \in Maps
        <5>1. stream.up
          BY <2>2, <3>2, Zenon DEF DeliverResponse
        <5>2. stream.from = 0 \/ stream.from \in 1..Len(sessionLog)
          BY <5>1, Zenon DEF MapInv, StreamInv, SessionInv
        <5> QED
          BY <2>0, <5>2, EmptyMapType DEF MapTypeOK, Previous
      <4>3. WellFormed(res)
        BY <4>2, ResponsesFormed, Zenon
      <4> QED
        BY <2>0, <4>1, <4>3, ApplyRevises, Zenon
    <3> QED
      BY <3>1, <3>2, Zenon
  <2>3. CASE KeepAlive
    <3> DEFINE res == [nodes |-> Absent, changed |-> <<>>, removed |-> {}, patched |-> <<>>,
                       base |-> Absent, clear |-> FALSE, chunks |-> <<>>]
    <3>1. ApplyMapResponse(res)
      BY <2>3, Zenon DEF KeepAlive
    <3>2. res.nodes = Absent /\ DOMAIN res.changed = {} /\ DOMAIN res.patched = {}
      OBVIOUS
    <3> HIDE DEF res
    <3>3. WellFormed(res)
      BY <3>2, Zenon DEF WellFormed
    <3> QED
      BY <2>0, <3>1, <3>3, ApplyRevises, Zenon
  <2> QED
    BY <2>1, <2>2, <2>3, Zenon
    DEF NetworkMapNext, ControlChanges, ControlSends, ResumeSession, NewSession, StreamBreaks,
        TimePasses, Quiet, mapVars
<1>2. Revised =>
        [ /\ clientState' # clientState => "client" \in bumped'
          /\ filters' # filters => "acl" \in bumped'
          /\ peers' # peers => "network" \in bumped'
          /\ (\E n \in NodeIDs : (IF peers[n] = Absent THEN Absent ELSE peers[n].name) #
                                 (IF peers'[n] = Absent THEN Absent ELSE peers'[n].name))
               => "dns" \in bumped' ]_mapVars
  BY Zenon DEF Revised
<1> QED
  BY MapAlways, <1>1, <1>2, PTL DEF NetworkMapSpec, ChangesRevised

-----------------------------------------------------------------------------
(***************************************************************************)
(* EventHub: HubInv describes the publication in progress, StartInv that   *)
(* Start announces nothing before it has succeeded, CloseInv the order in  *)
(* which Close publishes and closes, and StoppedComing is the wake-up      *)
(* invariant for the final change.                                         *)
(***************************************************************************)

\* What taking an event from a channel or a list of events leaves.
LEMMA Pop ==
  ASSUME NEW S, NEW q \in Seq(S), q # <<>>
  PROVE  /\ Head(q) \in S /\ Tail(q) \in Seq(S) /\ Len(Tail(q)) = Len(q) - 1
         /\ Tail(q) # <<>> <=> Len(q) > 1
         /\ Tail(q) # <<>> => Tail(q)[Len(Tail(q))] = q[Len(q)]
         /\ Tail(q) = <<>> => Head(q) = q[Len(q)]
         /\ Len(q) \in Nat \ {0}
<1>1. Len(q) \in Nat \ {0}
  OBVIOUS
<1>2. /\ Head(q) \in S /\ Tail(q) \in Seq(S) /\ Len(Tail(q)) = Len(q) - 1
      /\ \A i \in 1..Len(Tail(q)) : Tail(q)[i] = q[i + 1]
  OBVIOUS
<1>3. Tail(q) # <<>> <=> Len(q) > 1
  <2>1. Tail(q) # <<>> => Len(Tail(q)) \in Nat \ {0}
    BY <1>2
  <2>2. Len(<<>>) = 0
    OBVIOUS
  <2>3. Tail(q) = <<>> => Len(Tail(q)) = 0
    BY <2>2, Zenon
  <2> QED
    BY <1>1, <1>2, <2>1, <2>3
<1>4. Tail(q) # <<>> => Tail(q)[Len(Tail(q))] = q[Len(q)]
  BY <1>1, <1>2, <1>3
<1>5. Tail(q) = <<>> => Head(q) = q[Len(q)]
  BY <1>1, <1>3
<1> QED
  BY <1>1, <1>2, <1>3, <1>4, <1>5, Zenon

\* subscribe gives every channel at least one slot.
LEMMA CapacityNat == \A s \in Subs : Capacity(s) \in Nat \ {0}
  BY EventHubConstants DEF Capacity

\* A channel whose contents are replaced by fewer events than it has room for.
LEMMA Replace ==
  ASSUME NEW b \in [Subs -> Seq(1..MaxRev)], \A t \in Subs : Len(b[t]) <= Capacity(t),
         NEW s \in Subs, NEW q \in Seq(1..MaxRev), Len(q) <= Capacity(s),
         NEW c, c = [b EXCEPT ![s] = q]
  PROVE  c \in [Subs -> Seq(1..MaxRev)] /\ \A t \in Subs : Len(c[t]) <= Capacity(t)
<1>1. c \in [Subs -> Seq(1..MaxRev)]
  BY Zenon
<1>2. ASSUME NEW t \in Subs PROVE Len(c[t]) <= Capacity(t)
  <2>1. c[t] = IF t = s THEN q ELSE b[t]
    BY Zenon
  <2> QED
    BY <2>1, Zenon
<1> QED
  BY <1>1, <1>2, Zenon

\* What adding one leaves.
LEMMA Push ==
  ASSUME NEW S, NEW q \in Seq(S), NEW e \in S
  PROVE  /\ Append(q, e) \in Seq(S) /\ Append(q, e) # <<>>
         /\ Len(Append(q, e)) = Len(q) + 1 /\ Len(q) \in Nat
         /\ Append(q, e)[Len(Append(q, e))] = e
  OBVIOUS

\* The same for the channel type.
LEMMA PushEvent ==
  \A q \in Seq(1..MaxRev), e \in 1..MaxRev :
    Append(q, e) # <<>> /\ Append(q, e)[Len(Append(q, e))] = e
  BY Push

\* The events of one change.
LEMMA Events ==
  ASSUME NEW r \in 1..MaxRev, NEW n \in Nat \ {0}
  PROVE  /\ [i \in 1..n |-> r] \in Seq(1..MaxRev)
         /\ [i \in 1..n |-> r] # <<>>
         /\ Len([i \in 1..n |-> r]) = n
<1> DEFINE q == [i \in 1..n |-> r]
<1>1. q \in Seq(1..MaxRev) /\ Len(q) = n
  OBVIOUS
<1>2. Len(<<>>) = 0
  BY Zenon
<1> QED
  BY <1>1, <1>2, Zenon

\* Taking the oldest event from the channel of a subscriber.
LEMMA TakeEvent ==
  ASSUME TypeOK, NEW s \in Subs, buf[s] # <<>>
  PROVE  /\ Tail(buf[s]) \in Seq(1..MaxRev) /\ Len(Tail(buf[s])) = Len(buf[s]) - 1
         /\ Head(buf[s]) \in 1..MaxRev /\ Len(buf[s]) \in Nat
<1>1. buf[s] \in Seq(1..MaxRev)
  BY Zenon DEF TypeOK
<1>2. Len(buf[s]) \in Nat
  BY <1>1
<1> QED
  BY <1>1, <1>2, Pop, Zenon

\* An event put in a channel with room keeps the types and the buffer bounds.
LEMMA DeliverType ==
  ASSUME TypeOK, NEW s \in Subs, Head(pend[lock]) \in 1..MaxRev,
         Len(buf[s]) < Capacity(s), Deliver(s)
  PROVE  TypeOK'
<1> DEFINE e == Head(pend[lock])
           q == Append(buf[s], e)
<1>1. buf \in [Subs -> Seq(1..MaxRev)] /\ (\A t \in Subs : Len(buf[t]) <= Capacity(t))
  BY Zenon DEF TypeOK
<1>2. q \in Seq(1..MaxRev) /\ Len(q) = Len(buf[s]) + 1 /\ Len(buf[s]) \in Nat
  BY <1>1, Push, Zenon
<1>3. Len(q) <= Capacity(s)
  <2> HIDE DEF q
  <2> QED
    BY <1>2, CapacityNat
<1>4. buf' = [buf EXCEPT ![s] = q]
  BY Zenon DEF Deliver
<1>5. buf' \in [Subs -> Seq(1..MaxRev)] /\ (\A t \in Subs : Len(buf'[t]) <= Capacity(t))
  <2> HIDE DEF q
  <2> QED
    BY <1>1, <1>2, <1>3, <1>4, Replace, Zenon
<1>6. last' \in [Subs -> 0..MaxRev]
  <2>1. last' = [last EXCEPT ![s] = e] /\ last \in [Subs -> 0..MaxRev]
    BY Zenon DEF Deliver, TypeOK
  <2>2. e \in 0..MaxRev
    BY EventHubConstants
  <2> HIDE DEF e
  <2> QED
    BY <2>1, <2>2, Zenon
<1>7. full' \in [sub : Subs \cup {None}, next : {"drop", "resend"}] /\ todo' \in SUBSET Subs
  BY Zenon DEF Deliver, Idle, TypeOK
<1>8. UNCHANGED <<clientVars, pend, lock, chan, hub, readVars>>
  BY Zenon DEF Deliver
<1> QED
  BY <1>5, <1>6, <1>7, <1>8, Zenon DEF TypeOK, clientVars, startVars, readVars

\* Every action keeps the types and the buffer bounds.
LEMMA TypeStep == IndInv /\ [Next]_vars => TypeOK'
<1> SUFFICES ASSUME IndInv, [Next]_vars PROVE TypeOK'
  BY Zenon
<1>0. TypeOK /\ HubInv
  BY EventHubConstants, CapacityNat, Zenon DEF IndInv
<1> USE EventHubConstants DEF TypeOK, HubInv, Publishers,
          clientVars, startVars, hubVars, readVars
<1>1. ASSUME NEW p \in Producers, NEW n \in 1..MaxEvents, Change(p, n)
      PROVE  TypeOK'
  <2>1. rev + 1 \in 1..MaxRev /\ n \in Nat \ {0} /\ p \in Publishers
    BY <1>0, <1>1, EventHubConstants DEF Change, Bump, Publishers
  <2>2. PICK q \in Seq(1..MaxRev) : q # <<>> /\ pend' = [pend EXCEPT ![p] = q]
    <3>1. /\ [i \in 1..n |-> rev + 1] \in Seq(1..MaxRev)
          /\ [i \in 1..n |-> rev + 1] # <<>>
      BY <2>1, Events, Zenon
    <3>2. pend' = [pend EXCEPT ![p] = [i \in 1..n |-> rev + 1]]
      BY <1>0, <1>1, Zenon DEF Change, Bump
    <3> QED
      BY <3>1, <3>2, Zenon
  <2>3. pend' \in [Publishers -> Seq(1..MaxRev)]
    BY <1>0, <2>1, <2>2, Zenon
  <2>4. /\ rev' = rev + 1 /\ closing' \in {"no", "stopping", "stopped"}
        /\ stopped' \in 0..MaxRev
        /\ UNCHANGED <<startVars, hubVars, chan, buf, hub, last, readVars>>
    BY <1>0, <1>1, <2>1, Zenon DEF Change, Bump
  <2>5. rev' \in 0..MaxRev
    BY <2>1, <2>4
  <2> QED
    BY <1>0, <2>3, <2>4, <2>5, Zenon
<1>2. CASE CloseStopping
  <2>1. rev + 1 \in 1..MaxRev /\ 2 \in Nat \ {0} /\ Closer \in Publishers
    BY <1>0, <1>2, EventHubConstants DEF CloseStopping, Bump, Publishers
  <2>2. PICK q \in Seq(1..MaxRev) : q # <<>> /\ pend' = [pend EXCEPT ![Closer] = q]
    <3>1. /\ [i \in 1..2 |-> rev + 1] \in Seq(1..MaxRev)
          /\ [i \in 1..2 |-> rev + 1] # <<>>
      BY <2>1, Events, Zenon
    <3>2. pend' = [pend EXCEPT ![Closer] = [i \in 1..2 |-> rev + 1]]
      BY <1>0, <1>2, Zenon DEF CloseStopping, Bump
    <3> QED
      BY <3>1, <3>2, Zenon
  <2>3. pend' \in [Publishers -> Seq(1..MaxRev)]
    BY <1>0, <2>1, <2>2, Zenon
  <2>4. /\ rev' = rev + 1 /\ closing' \in {"no", "stopping", "stopped"}
        /\ stopped' \in 0..MaxRev
        /\ UNCHANGED <<startVars, hubVars, chan, buf, hub, last, readVars>>
    BY <1>0, <1>2, <2>1, Zenon DEF CloseStopping, Bump
  <2>5. rev' \in 0..MaxRev
    BY <2>1, <2>4
  <2> QED
    BY <1>0, <2>3, <2>4, <2>5, Zenon
<1>3. CASE CloseStopped
  <2>1. rev + 1 \in 1..MaxRev /\ 1 \in Nat \ {0} /\ Closer \in Publishers
    BY <1>0, <1>3, EventHubConstants DEF CloseStopped, Bump, Publishers
  <2>2. PICK q \in Seq(1..MaxRev) : q # <<>> /\ pend' = [pend EXCEPT ![Closer] = q]
    <3>1. /\ [i \in 1..1 |-> rev + 1] \in Seq(1..MaxRev)
          /\ [i \in 1..1 |-> rev + 1] # <<>>
      BY <2>1, Events, Zenon
    <3>2. pend' = [pend EXCEPT ![Closer] = [i \in 1..1 |-> rev + 1]]
      BY <1>0, <1>3, Zenon DEF CloseStopped, Bump
    <3> QED
      BY <3>1, <3>2, Zenon
  <2>3. pend' \in [Publishers -> Seq(1..MaxRev)]
    BY <1>0, <2>1, <2>2, Zenon
  <2>4. /\ rev' = rev + 1 /\ closing' \in {"no", "stopping", "stopped"}
        /\ stopped' \in 0..MaxRev
        /\ UNCHANGED <<startVars, hubVars, chan, buf, hub, last, readVars>>
    BY <1>0, <1>3, <2>1 DEF CloseStopped, Bump
  <2>5. rev' \in 0..MaxRev
    BY <2>1, <2>4
  <2> QED
    BY <1>0, <2>3, <2>4, <2>5, Zenon
<1>4. CASE HubClose
  BY <1>0, <1>4, Zenon DEF HubClose
<1>5. ASSUME NEW p \in Publishers, PublishBegin(p)
      PROVE  TypeOK'
  BY <1>0, <1>5, Zenon DEF PublishBegin
<1>6. ASSUME NEW p \in Publishers, PublishClosed(p)
      PROVE  TypeOK'
  <2>1. Tail(pend[p]) \in Seq(1..MaxRev)
    BY <1>0, <1>6, Pop, Zenon DEF PublishClosed
  <2> QED
    BY <1>0, <1>6, <2>1, Zenon DEF PublishClosed
<1>7. ASSUME NEW s \in Subs, Send(s)
      PROVE  TypeOK'
  <2>1. Head(pend[lock]) \in 1..MaxRev
    BY <1>0, <1>7, Pop, Zenon DEF Send
  <2>2. Len(buf[s]) < Capacity(s) /\ Deliver(s)
    BY <1>7, Zenon DEF Send
  <2> QED
    BY <1>0, <2>1, <2>2, DeliverType, Zenon
<1>8. ASSUME NEW s \in Subs, SendFull(s)
      PROVE  TypeOK'
  BY <1>0, <1>8, Zenon DEF SendFull
<1>9. ASSUME NEW s \in Subs, DropOldest(s)
      PROVE  TypeOK'
  <2>1. buf[s] # <<>> => Tail(buf[s]) \in Seq(1..MaxRev) /\ Len(Tail(buf[s])) = Len(buf[s]) - 1
    BY <1>0, TakeEvent, Zenon
  <2>2. <<>> \in Seq(1..MaxRev) /\ Len(buf[s]) \in Nat
    BY <1>0, <1>9
  <2>3. buf' \in [Subs -> Seq(1..MaxRev)] /\ \A t \in Subs : Len(buf'[t]) <= Capacity(t)
    <3>1. CASE buf[s] = <<>>
      BY <1>0, <1>9, <3>1, Zenon DEF DropOldest
    <3>2. CASE buf[s] # <<>>
      <4>1. buf' = [buf EXCEPT ![s] = Tail(buf[s])]
        BY <1>9, <3>2, Zenon DEF DropOldest
      <4>2. Tail(buf[s]) \in Seq(1..MaxRev)
        BY <2>1, <3>2, Zenon
      <4>3. Len(Tail(buf[s])) <= Capacity(s)
        BY <1>0, <2>1, <2>2, <3>2, CapacityNat
      <4> QED
        BY <1>0, <4>1, <4>2, <4>3, Replace, Zenon
    <3> QED
      BY <3>1, <3>2, Zenon
  <2> QED
    BY <1>0, <1>9, <2>3, Zenon DEF DropOldest
<1>10. ASSUME NEW s \in Subs, Resend(s)
      PROVE  TypeOK'
  <2>1. Head(pend[lock]) \in 1..MaxRev
    BY <1>0, <1>10, Pop, Zenon DEF Resend
  <2>2. Len(buf[s]) < Capacity(s) /\ Deliver(s)
    BY <1>0, <1>10, Zenon DEF Resend
  <2> QED
    BY <1>0, <2>1, <2>2, DeliverType, Zenon
<1>11. CASE PublishEnd
  <2>1. Tail(pend[lock]) \in Seq(1..MaxRev)
    BY <1>0, <1>11, Pop, Zenon DEF PublishEnd
  <2> QED
    BY <1>0, <1>11, <2>1, Zenon DEF PublishEnd
<1>12. ASSUME NEW s \in Subs, Subscribe(s)
      PROVE  TypeOK'
  BY <1>0, <1>12, Zenon DEF Subscribe
<1>13. ASSUME NEW s \in Subs, Cancel(s)
      PROVE  TypeOK'
  BY <1>0, <1>13, Zenon DEF Cancel
<1>14. ASSUME NEW s \in Subs, Receive(s)
      PROVE  TypeOK'
  <2>1. /\ Tail(buf[s]) \in Seq(1..MaxRev) /\ Len(Tail(buf[s])) = Len(buf[s]) - 1
        /\ Head(buf[s]) \in 0..MaxRev /\ Len(buf[s]) \in Nat
    <3>1. buf[s] # <<>>
      BY <1>14, Zenon DEF Receive
    <3>2. /\ Tail(buf[s]) \in Seq(1..MaxRev) /\ Len(Tail(buf[s])) = Len(buf[s]) - 1
          /\ Head(buf[s]) \in 1..MaxRev /\ Len(buf[s]) \in Nat
      BY <1>0, <3>1, TakeEvent, Zenon
    <3> QED
      BY <3>2
  <2>2. buf' \in [Subs -> Seq(1..MaxRev)] /\ \A t \in Subs : Len(buf'[t]) <= Capacity(t)
    <3>1. buf' = [buf EXCEPT ![s] = Tail(buf[s])]
      BY <1>14, Zenon DEF Receive
    <3>2. Len(Tail(buf[s])) <= Capacity(s)
      BY <1>0, <2>1, CapacityNat
    <3> QED
      BY <1>0, <2>1, <3>1, <3>2, Replace, Zenon
  <2> QED
    BY <1>0, <1>14, <2>1, <2>2, Zenon DEF Receive
<1>15. ASSUME NEW s \in Subs, Snapshot(s)
      PROVE  TypeOK'
  BY <1>0, <1>15, Zenon DEF Snapshot
<1>16. CASE UNCHANGED vars
  BY <1>0, <1>16, Zenon DEF vars
<1>17. CASE StartBegin
  <2>1. rev + 1 \in 0..MaxRev
    BY <1>0, <1>17 DEF StartBegin
  <2> QED
    BY <1>0, <1>17, <2>1, Zenon DEF StartBegin
<1>18. CASE StartFails
  <2>1. began \in 1..MaxRev
    BY <1>0, <1>18 DEF StartFails, StartInv, IndInv
  <2> QED
    BY <1>0, <1>18, <2>1, Zenon DEF StartFails
<1>19. CASE StartDone
  <2>1. rev \in 1..MaxRev /\ Starter \in Publishers
    BY <1>0, <1>19 DEF StartDone, StartInv, IndInv
  <2>2. <<rev, rev>> \in Seq(1..MaxRev)
    BY <2>1
  <2> QED
    BY <1>0, <1>19, <2>1, <2>2, Zenon DEF StartDone
<1> QED
  BY <1>1, <1>2, <1>3, <1>4, <1>5, <1>6, <1>7, <1>8, <1>9, <1>10, <1>11,
     <1>12, <1>13, <1>14, <1>15, <1>16, <1>17, <1>18, <1>19, Zenon
  DEF Next, Publish, Read

\* Only the holder of h.mu consumes its event, and it visits open channels.
LEMMA HubStep == IndInv /\ [Next]_vars => HubInv'
<1> SUFFICES ASSUME IndInv, [Next]_vars PROVE HubInv'
  BY Zenon
<1>0. /\ rev \in Nat /\ pend \in [Publishers -> Seq(1..MaxRev)]
      /\ lock \in Publishers \cup {None} /\ todo \in SUBSET Subs
      /\ chan \in [Subs -> {"none", "open", "closed", "cancelled"}]
      /\ buf \in [Subs -> Seq(1..MaxRev)]
      /\ reader \in [Subs -> {"idle", "woken"}] /\ snap \in [Subs -> 0..MaxRev]
      /\ Closer \in Publishers /\ None \notin Publishers /\ None \notin Subs
      /\ full \in [sub : Subs \cup {None}, next : {"drop", "resend"}]
      /\ \A t \in Subs : /\ Capacity(t) \in Nat \ {0} /\ Len(buf[t]) <= Capacity(t)
                         /\ Len(buf[t]) \in Nat
      /\ HubInv
  BY EventHubConstants, CapacityNat DEF IndInv, TypeOK, HubInv, Publishers
<1> USE DEF HubInv,
          clientVars, startVars, hubVars, readVars
<1>1. ASSUME NEW p \in Producers, NEW n \in 1..MaxEvents, Change(p, n)
      PROVE  HubInv'
  <2>1. rev + 1 \in 1..MaxRev /\ n \in Nat \ {0} /\ p \in Publishers
    BY <1>0, <1>1, EventHubConstants DEF Change, Bump, Publishers
  <2>2. PICK q \in Seq(1..MaxRev) : q # <<>> /\ pend' = [pend EXCEPT ![p] = q]
    <3>1. /\ [i \in 1..n |-> rev + 1] \in Seq(1..MaxRev)
          /\ [i \in 1..n |-> rev + 1] # <<>>
      BY <2>1, Events, Zenon
    <3>2. pend' = [pend EXCEPT ![p] = [i \in 1..n |-> rev + 1]]
      BY <1>0, <1>1, Zenon DEF Change, Bump
    <3> QED
      BY <3>1, <3>2, Zenon
  <2> QED
    BY <1>0, <1>1, <2>2, Zenon DEF Change, Bump
<1>2. CASE CloseStopping
  <2>1. rev + 1 \in 1..MaxRev /\ 2 \in Nat \ {0} /\ Closer \in Publishers
    BY <1>0, <1>2, EventHubConstants DEF CloseStopping, Bump, Publishers
  <2>2. PICK q \in Seq(1..MaxRev) : q # <<>> /\ pend' = [pend EXCEPT ![Closer] = q]
    <3>1. /\ [i \in 1..2 |-> rev + 1] \in Seq(1..MaxRev)
          /\ [i \in 1..2 |-> rev + 1] # <<>>
      BY <2>1, Events, Zenon
    <3>2. pend' = [pend EXCEPT ![Closer] = [i \in 1..2 |-> rev + 1]]
      BY <1>0, <1>2, Zenon DEF CloseStopping, Bump
    <3> QED
      BY <3>1, <3>2, Zenon
  <2> QED
    BY <1>0, <1>2, <2>2, Zenon DEF CloseStopping, Bump
<1>3. CASE CloseStopped
  <2>1. rev + 1 \in 1..MaxRev /\ 1 \in Nat \ {0} /\ Closer \in Publishers
    BY <1>0, <1>3, EventHubConstants DEF CloseStopped, Bump, Publishers
  <2>2. PICK q \in Seq(1..MaxRev) : q # <<>> /\ pend' = [pend EXCEPT ![Closer] = q]
    <3>1. /\ [i \in 1..1 |-> rev + 1] \in Seq(1..MaxRev)
          /\ [i \in 1..1 |-> rev + 1] # <<>>
      BY <2>1, Events, Zenon
    <3>2. pend' = [pend EXCEPT ![Closer] = [i \in 1..1 |-> rev + 1]]
      BY <1>0, <1>3, Zenon DEF CloseStopped, Bump
    <3> QED
      BY <3>1, <3>2, Zenon
  <2> QED
    BY <1>0, <1>3, <2>2, Zenon DEF CloseStopped, Bump
<1>4. CASE HubClose
  BY <1>0, <1>4, Zenon DEF HubClose
<1>5. ASSUME NEW p \in Publishers, PublishBegin(p)
      PROVE  HubInv'
  BY <1>0, <1>5, Zenon DEF PublishBegin
<1>6. ASSUME NEW p \in Publishers, PublishClosed(p)
      PROVE  HubInv'
  BY <1>0, <1>6, Zenon DEF PublishClosed
<1>7. ASSUME NEW s \in Subs, Send(s)
      PROVE  HubInv'
  BY <1>0, <1>7, Zenon DEF Send, Deliver, Idle
<1>8. ASSUME NEW s \in Subs, SendFull(s)
      PROVE  HubInv'
  BY <1>0, <1>8, Zenon DEF SendFull
<1>9. ASSUME NEW s \in Subs, DropOldest(s)
      PROVE  HubInv'
  <2>1. buf[s] # <<>> => Len(Tail(buf[s])) = Len(buf[s]) - 1
    BY <1>0, TakeEvent
  <2>2. Len(<<>>) = 0
    BY Zenon
  <2> QED
    BY <1>0, <1>9, <2>1, <2>2 DEF DropOldest
<1>10. ASSUME NEW s \in Subs, Resend(s)
      PROVE  HubInv'
  BY <1>0, <1>10 DEF Resend, Deliver, Idle
<1>11. CASE PublishEnd
  BY <1>0, <1>11, Zenon DEF PublishEnd
<1>12. ASSUME NEW s \in Subs, Subscribe(s)
      PROVE  HubInv'
  BY <1>0, <1>12, Zenon DEF Subscribe
<1>13. ASSUME NEW s \in Subs, Cancel(s)
      PROVE  HubInv'
  BY <1>0, <1>13, Zenon DEF Cancel
<1>14. ASSUME NEW s \in Subs, Receive(s)
      PROVE  HubInv'
  <2>1. Len(Tail(buf[s])) = Len(buf[s]) - 1
    BY <1>0, <1>14, Pop, Zenon DEF Receive
  <2> QED
    BY <1>0, <1>14, <2>1 DEF Receive
<1>15. ASSUME NEW s \in Subs, Snapshot(s)
      PROVE  HubInv'
  BY <1>0, <1>15, Zenon DEF Snapshot
<1>16. CASE UNCHANGED vars
  BY <1>0, <1>16, Zenon DEF vars
<1>17. CASE StartBegin
  BY <1>0, <1>17, Zenon DEF StartBegin
<1>18. CASE StartFails
  BY <1>0, <1>18, Zenon DEF StartFails
<1>19. CASE StartDone
  <2>1. <<rev, rev>> # <<>>
    OBVIOUS
  <2> QED
    BY <1>0, <1>19, <2>1, Zenon DEF StartDone
<1> QED
  BY <1>1, <1>2, <1>3, <1>4, <1>5, <1>6, <1>7, <1>8, <1>9, <1>10, <1>11,
     <1>12, <1>13, <1>14, <1>15, <1>16, <1>17, <1>18, <1>19, Zenon
  DEF Next, Publish, Read

\* Start's revision is one of the client's, and only Start builds its events.
LEMMA StartStep == IndInv /\ [Next]_vars => StartInv'
<1> SUFFICES ASSUME IndInv, [Next]_vars PROVE StartInv'
  BY Zenon
<1>0. /\ rev \in Nat /\ began \in Nat /\ pend \in [Publishers -> Seq(1..MaxRev)]
      /\ Starter \in Publishers /\ Closer \in Publishers
      /\ Starter \notin Producers /\ Starter # Closer
      /\ lock \in Publishers \cup {None}
      /\ (lock # None => pend[lock] # <<>>) /\ StartInv
  BY EventHubConstants DEF IndInv, TypeOK, HubInv, Publishers
<1>1. CASE \/ \E p \in Producers, n \in 1..MaxEvents : Change(p, n)
           \/ CloseStopping \/ CloseStopped
  <2>1. /\ rev' = rev + 1 /\ start' = start /\ began' = began
        /\ pend'[Starter] = pend[Starter]
    BY <1>0, <1>1, Zenon DEF Change, CloseStopping, CloseStopped, Bump, startVars
  <2> QED
    BY <1>0, <2>1 DEF StartInv
<1>2. CASE StartBegin
  <2>1. /\ rev' = rev + 1 /\ began' = rev + 1 /\ pend' = pend
        /\ pend[Starter] = <<>>
    BY <1>0, <1>2, Zenon DEF StartBegin, StartInv
  <2> QED
    BY <1>0, <2>1 DEF StartInv
<1>3. CASE StartFails \/ StartDone
  BY <1>0, <1>3 DEF StartFails, StartDone, StartInv
<1>4. CASE Publish
  <2>1. start' = start /\ began' = began /\ rev' = rev
    BY <1>4, Zenon DEF Publish, PublishBegin, PublishClosed, Send, SendFull, DropOldest, Resend,
                Deliver, PublishEnd, clientVars, startVars
  <2>2. pend[Starter] = <<>> => pend'[Starter] = <<>>
    BY <1>0, <1>4, Zenon DEF Publish, PublishBegin, PublishClosed, Send, SendFull, DropOldest,
                Resend, Deliver, PublishEnd
  <2> QED
    BY <1>0, <2>1, <2>2, Zenon DEF StartInv
<1>5. CASE HubClose \/ (\E s \in Subs : Subscribe(s) \/ Cancel(s)) \/ Read \/ UNCHANGED vars
  <2>1. start' = start /\ began' = began /\ rev' = rev /\ pend' = pend
    BY <1>5, Zenon DEF HubClose, Subscribe, Cancel, Read, Receive, Snapshot, vars, clientVars,
                startVars
  <2> QED
    BY <1>0, <2>1, Zenon DEF StartInv
<1> QED
  BY <1>1, <1>2, <1>3, <1>4, <1>5, Zenon DEF Next

\* The hub closes once, after the last event of Close.
LEMMA CloseStep == IndInv /\ [Next]_vars => CloseInv'
<1> SUFFICES ASSUME IndInv, [Next]_vars PROVE CloseInv'
  BY Zenon
<1>0. /\ rev \in Nat /\ stopped \in Nat /\ pend \in [Publishers -> Seq(1..MaxRev)]
      /\ lock \in Publishers \cup {None} /\ MaxRev \in Nat
      /\ chan \in [Subs -> {"none", "open", "closed", "cancelled"}]
      /\ hub \in {"open", "closed"} /\ Closer \in Publishers
      /\ closing \in {"no", "stopping", "stopped"} /\ Closer \notin Producers
      /\ HubInv /\ CloseInv
  BY EventHubConstants, CapacityNat DEF IndInv, TypeOK, Publishers
<1> USE DEF CloseInv,
          clientVars, startVars, hubVars, readVars
<1>1. ASSUME NEW p \in Producers, NEW n \in 1..MaxEvents, Change(p, n)
      PROVE  CloseInv'
  BY <1>0, <1>1 DEF Change, Bump
<1>2. CASE CloseStopping
  <2>1. rev + 1 \in 1..MaxRev /\ 2 \in Nat \ {0} /\ Closer \in Publishers
    BY <1>0, <1>2, EventHubConstants DEF CloseStopping, Bump, Publishers
  <2>2. PICK q \in Seq(1..MaxRev) : q # <<>> /\ pend' = [pend EXCEPT ![Closer] = q]
    <3>1. /\ [i \in 1..2 |-> rev + 1] \in Seq(1..MaxRev)
          /\ [i \in 1..2 |-> rev + 1] # <<>>
      BY <2>1, Events, Zenon
    <3>2. pend' = [pend EXCEPT ![Closer] = [i \in 1..2 |-> rev + 1]]
      BY <1>0, <1>2, Zenon DEF CloseStopping, Bump
    <3> QED
      BY <3>1, <3>2, Zenon
  <2> QED
    BY <1>0, <1>2, <2>1, <2>2 DEF CloseStopping, Bump
<1>3. CASE CloseStopped
  <2>1. rev + 1 \in 1..MaxRev /\ 1 \in Nat \ {0} /\ Closer \in Publishers
    BY <1>0, <1>3, EventHubConstants DEF CloseStopped, Bump, Publishers
  <2>2. PICK q \in Seq(1..MaxRev) : q # <<>> /\ pend' = [pend EXCEPT ![Closer] = q]
    <3>1. /\ [i \in 1..1 |-> rev + 1] \in Seq(1..MaxRev)
          /\ [i \in 1..1 |-> rev + 1] # <<>>
      BY <2>1, Events, Zenon
    <3>2. pend' = [pend EXCEPT ![Closer] = [i \in 1..1 |-> rev + 1]]
      BY <1>0, <1>3, Zenon DEF CloseStopped, Bump
    <3> QED
      BY <3>1, <3>2, Zenon
  <2> QED
    BY <1>0, <1>3, <2>1, <2>2 DEF CloseStopped, Bump
<1>4. CASE HubClose
  BY <1>0, <1>4, Zenon DEF HubClose
<1>5. ASSUME NEW p \in Publishers, PublishBegin(p)
      PROVE  CloseInv'
  BY <1>0, <1>5, Zenon DEF PublishBegin
<1>6. ASSUME NEW p \in Publishers, PublishClosed(p)
      PROVE  CloseInv'
  <2>1. pend'[Closer] = <<>>
    BY <1>0, <1>6, Zenon DEF PublishClosed
  <2> QED
    BY <1>0, <1>6, <2>1, Zenon DEF PublishClosed
<1>7. ASSUME NEW s \in Subs, Send(s)
      PROVE  CloseInv'
  BY <1>0, <1>7, Zenon DEF Send, Deliver, Idle
<1>8. ASSUME NEW s \in Subs, SendFull(s)
      PROVE  CloseInv'
  BY <1>0, <1>8, Zenon DEF SendFull
<1>9. ASSUME NEW s \in Subs, DropOldest(s)
      PROVE  CloseInv'
  BY <1>0, <1>9, Zenon DEF DropOldest
<1>10. ASSUME NEW s \in Subs, Resend(s)
      PROVE  CloseInv'
  BY <1>0, <1>10, Zenon DEF Resend, Deliver, Idle
<1>11. CASE PublishEnd
  <2>1. hub = "closed" => lock # Closer
    BY <1>0, <1>11, Zenon DEF HubInv, PublishEnd
  <2> QED
    BY <1>0, <1>11, <2>1, Zenon DEF PublishEnd
<1>12. ASSUME NEW s \in Subs, Subscribe(s)
      PROVE  CloseInv'
  BY <1>0, <1>12, Zenon DEF Subscribe
<1>13. ASSUME NEW s \in Subs, Cancel(s)
      PROVE  CloseInv'
  BY <1>0, <1>13, Zenon DEF Cancel
<1>14. ASSUME NEW s \in Subs, Receive(s)
      PROVE  CloseInv'
  BY <1>0, <1>14, Zenon DEF Receive
<1>15. ASSUME NEW s \in Subs, Snapshot(s)
      PROVE  CloseInv'
  BY <1>0, <1>15, Zenon DEF Snapshot
<1>16. CASE UNCHANGED vars
  BY <1>0, <1>16, Zenon DEF vars
<1>17. CASE StartBegin
  BY <1>0, <1>17 DEF StartBegin
<1>18. CASE StartFails
  BY <1>0, <1>18, Zenon DEF StartFails
<1>19. CASE StartDone
  <2>1. Starter # Closer
    BY EventHubConstants, Zenon
  <2> QED
    BY <1>0, <1>19, <2>1, Zenon DEF StartDone
<1> QED
  BY <1>1, <1>2, <1>3, <1>4, <1>5, <1>6, <1>7, <1>8, <1>9, <1>10, <1>11,
     <1>12, <1>13, <1>14, <1>15, <1>16, <1>17, <1>18, <1>19, Zenon
  DEF Next, Publish, Read

\* Channels are closed by holders of h.mu only.
LEMMA SendStep == IndInv /\ [Next]_vars => NoSendOnClosed'
<1> SUFFICES ASSUME IndInv, [Next]_vars PROVE NoSendOnClosed'
  BY Zenon
<1>0. /\ todo \in SUBSET Subs
      /\ chan \in [Subs -> {"none", "open", "closed", "cancelled"}]
      /\ (lock = None => todo = {}) /\ NoSendOnClosed
  BY EventHubConstants, CapacityNat, Zenon DEF IndInv, TypeOK, HubInv
<1> USE DEF NoSendOnClosed,
          clientVars, startVars, hubVars, readVars
<1>1. ASSUME NEW p \in Producers, NEW n \in 1..MaxEvents, Change(p, n)
      PROVE  NoSendOnClosed'
  BY <1>0, <1>1, Zenon DEF Change, Bump
<1>2. CASE CloseStopping
  BY <1>0, <1>2, Zenon DEF CloseStopping, Bump
<1>3. CASE CloseStopped
  BY <1>0, <1>3, Zenon DEF CloseStopped, Bump
<1>4. CASE HubClose
  BY <1>0, <1>4, Zenon DEF HubClose
<1>5. ASSUME NEW p \in Publishers, PublishBegin(p)
      PROVE  NoSendOnClosed'
  BY <1>0, <1>5, Zenon DEF PublishBegin
<1>6. ASSUME NEW p \in Publishers, PublishClosed(p)
      PROVE  NoSendOnClosed'
  BY <1>0, <1>6, Zenon DEF PublishClosed
<1>7. ASSUME NEW s \in Subs, Send(s)
      PROVE  NoSendOnClosed'
  BY <1>0, <1>7, Zenon DEF Send, Deliver, Idle
<1>8. ASSUME NEW s \in Subs, SendFull(s)
      PROVE  NoSendOnClosed'
  BY <1>0, <1>8, Zenon DEF SendFull
<1>9. ASSUME NEW s \in Subs, DropOldest(s)
      PROVE  NoSendOnClosed'
  BY <1>0, <1>9, Zenon DEF DropOldest
<1>10. ASSUME NEW s \in Subs, Resend(s)
      PROVE  NoSendOnClosed'
  BY <1>0, <1>10, Zenon DEF Resend, Deliver, Idle
<1>11. CASE PublishEnd
  BY <1>0, <1>11, Zenon DEF PublishEnd
<1>12. ASSUME NEW s \in Subs, Subscribe(s)
      PROVE  NoSendOnClosed'
  BY <1>0, <1>12, Zenon DEF Subscribe
<1>13. ASSUME NEW s \in Subs, Cancel(s)
      PROVE  NoSendOnClosed'
  BY <1>0, <1>13, Zenon DEF Cancel
<1>14. ASSUME NEW s \in Subs, Receive(s)
      PROVE  NoSendOnClosed'
  BY <1>0, <1>14, Zenon DEF Receive
<1>15. ASSUME NEW s \in Subs, Snapshot(s)
      PROVE  NoSendOnClosed'
  BY <1>0, <1>15, Zenon DEF Snapshot
<1>16. CASE UNCHANGED vars
  BY <1>0, <1>16, Zenon DEF vars
<1>17. CASE StartBegin
  BY <1>0, <1>17, Zenon DEF StartBegin
<1>18. CASE StartFails
  BY <1>0, <1>18, Zenon DEF StartFails
<1>19. CASE StartDone
  BY <1>0, <1>19, Zenon DEF StartDone
<1> QED
  BY <1>1, <1>2, <1>3, <1>4, <1>5, <1>6, <1>7, <1>8, <1>9, <1>10, <1>11,
     <1>12, <1>13, <1>14, <1>15, <1>16, <1>17, <1>18, <1>19, Zenon
  DEF Next, Publish, Read

\* The end of a channel changes only when publish appends to it.
LEMMA NewestStep == IndInv /\ [Next]_vars => NewestKept'
<1> SUFFICES ASSUME IndInv, [Next]_vars, NEW t \in Subs PROVE HoldsNewest(t)'
  BY Zenon DEF NewestKept
<1>0. /\ rev \in Nat /\ pend \in [Publishers -> Seq(1..MaxRev)]
      /\ lock \in Publishers \cup {None} /\ todo \in SUBSET Subs
      /\ chan \in [Subs -> {"none", "open", "closed", "cancelled"}]
      /\ buf \in [Subs -> Seq(1..MaxRev)]
      /\ reader \in [Subs -> {"idle", "woken"}] /\ snap \in [Subs -> 0..MaxRev]
      /\ Closer \in Publishers /\ None \notin Publishers /\ None \notin Subs
      /\ full \in [sub : Subs \cup {None}, next : {"drop", "resend"}]
      /\ last \in [Subs -> 0..MaxRev] /\ got \in [Subs -> 0..MaxRev]
      /\ (lock # None => pend[lock] # <<>>)
      /\ HoldsNewest(t)
      /\ (full.next = "resend" => full.sub # None /\ Len(buf[full.sub]) < Capacity(full.sub))
  BY EventHubConstants, CapacityNat, SMTT(30) DEF IndInv, TypeOK, HubInv, NewestKept, Publishers
<1> USE EventHubConstants DEF HoldsNewest,
          clientVars, startVars, hubVars, readVars
<1>1. ASSUME NEW p \in Producers, NEW n \in 1..MaxEvents, Change(p, n)
      PROVE  HoldsNewest(t)'
  BY <1>0, <1>1, Zenon DEF Change, Bump
<1>2. CASE CloseStopping
  BY <1>0, <1>2, Zenon DEF CloseStopping, Bump
<1>3. CASE CloseStopped
  BY <1>0, <1>3, Zenon DEF CloseStopped, Bump
<1>4. CASE HubClose
  BY <1>0, <1>4, Zenon DEF HubClose
<1>5. ASSUME NEW p \in Publishers, PublishBegin(p)
      PROVE  HoldsNewest(t)'
  BY <1>0, <1>5, Zenon DEF PublishBegin
<1>6. ASSUME NEW p \in Publishers, PublishClosed(p)
      PROVE  HoldsNewest(t)'
  BY <1>0, <1>6, Zenon DEF PublishClosed
<1>7. ASSUME NEW s \in Subs, Send(s)
      PROVE  HoldsNewest(t)'
  <2>1. Head(pend[lock]) \in 1..MaxRev
    BY <1>0, <1>7, Pop, Zenon DEF Send
  <2>2. /\ Append(buf[s], Head(pend[lock])) # <<>>
        /\ Append(buf[s], Head(pend[lock]))[Len(Append(buf[s], Head(pend[lock])))]
             = Head(pend[lock])
    <3>1. PICK q \in Seq(1..MaxRev), e \in 1..MaxRev : q = buf[s] /\ e = Head(pend[lock])
      BY <1>0, <1>7, <2>1, Zenon
    <3>2. Append(q, e) # <<>> /\ Append(q, e)[Len(Append(q, e))] = e
      BY PushEvent, Zenon
    <3> QED
      BY <3>1, <3>2, Zenon
  <2>3. CASE t = s
    BY <1>0, <1>7, <2>2, <2>3, Zenon DEF Send, Deliver, Idle
  <2>4. CASE t # s
    BY <1>0, <1>7, <2>4, Zenon DEF Send, Deliver, Idle
  <2> QED
    BY <2>3, <2>4, Zenon
<1>8. ASSUME NEW s \in Subs, SendFull(s)
      PROVE  HoldsNewest(t)'
  BY <1>0, <1>8 DEF SendFull
<1>9. ASSUME NEW s \in Subs, DropOldest(s)
      PROVE  HoldsNewest(t)'
  <2>1. CASE t = s
    BY <1>0, <1>9, <2>1, Zenon DEF DropOldest
  <2>2. CASE t # s
    BY <1>0, <1>9, <2>2, Zenon DEF DropOldest
  <2> QED
    BY <2>1, <2>2, Zenon
<1>10. ASSUME NEW s \in Subs, Resend(s)
      PROVE  HoldsNewest(t)'
  <2>1. Head(pend[lock]) \in 1..MaxRev
    BY <1>0, <1>10, Pop, Zenon DEF Resend
  <2>2. /\ Append(buf[s], Head(pend[lock])) # <<>>
        /\ Append(buf[s], Head(pend[lock]))[Len(Append(buf[s], Head(pend[lock])))]
             = Head(pend[lock])
    <3>1. PICK q \in Seq(1..MaxRev), e \in 1..MaxRev : q = buf[s] /\ e = Head(pend[lock])
      BY <1>0, <1>10, <2>1, Zenon
    <3>2. Append(q, e) # <<>> /\ Append(q, e)[Len(Append(q, e))] = e
      BY PushEvent, Zenon
    <3> QED
      BY <3>1, <3>2, Zenon
  <2>3. CASE t = s
    BY <1>0, <1>10, <2>2, <2>3, Zenon DEF Resend, Deliver, Idle
  <2>4. CASE t # s
    BY <1>0, <1>10, <2>4, Zenon DEF Resend, Deliver, Idle
  <2> QED
    BY <2>3, <2>4, Zenon
<1>11. CASE PublishEnd
  BY <1>0, <1>11, Zenon DEF PublishEnd
<1>12. ASSUME NEW s \in Subs, Subscribe(s)
      PROVE  HoldsNewest(t)'
  BY <1>0, <1>12, Zenon DEF Subscribe
<1>13. ASSUME NEW s \in Subs, Cancel(s)
      PROVE  HoldsNewest(t)'
  BY <1>0, <1>13, Zenon DEF Cancel
<1>14. ASSUME NEW s \in Subs, Receive(s)
      PROVE  HoldsNewest(t)'
  <2>1. CASE t = s
    <3>1. /\ Tail(buf[s]) # <<>> => Tail(buf[s])[Len(Tail(buf[s]))] = buf[s][Len(buf[s])]
          /\ Tail(buf[s]) = <<>> => Head(buf[s]) = buf[s][Len(buf[s])]
      BY <1>0, <1>14, Pop, Zenon DEF Receive
    <3>2. /\ buf'[s] = Tail(buf[s]) /\ got'[s] = Head(buf[s]) /\ buf[s] # <<>>
          /\ last' = last /\ full' = full
      BY <1>0, <1>14, Zenon DEF Receive
    <3> QED
      BY <1>0, <2>1, <3>1, <3>2, Zenon
  <2>2. CASE t # s
    BY <1>0, <1>14, <2>2, Zenon DEF Receive
  <2> QED
    BY <2>1, <2>2, Zenon
<1>15. ASSUME NEW s \in Subs, Snapshot(s)
      PROVE  HoldsNewest(t)'
  BY <1>0, <1>15, Zenon DEF Snapshot
<1>16. CASE UNCHANGED vars
  BY <1>0, <1>16, Zenon DEF vars
<1>17. CASE StartBegin
  BY <1>0, <1>17, Zenon DEF StartBegin
<1>18. CASE StartFails
  BY <1>0, <1>18, Zenon DEF StartFails
<1>19. CASE StartDone
  BY <1>0, <1>19, Zenon DEF StartDone
<1> QED
  BY <1>1, <1>2, <1>3, <1>4, <1>5, <1>6, <1>7, <1>8, <1>9, <1>10, <1>11,
     <1>12, <1>13, <1>14, <1>15, <1>16, <1>17, <1>18, <1>19, Zenon
  DEF Next, Publish, Read

\* An event leaves a channel to wake the reader or to make room for another.
LEMMA WakeupStep == IndInv /\ [Next]_vars => NoLostWakeup'
<1> SUFFICES ASSUME IndInv, [Next]_vars, NEW t \in Subs PROVE Wakes(t)'
  BY Zenon DEF NoLostWakeup
<1>0. /\ rev \in Nat /\ pend \in [Publishers -> Seq(1..MaxRev)]
      /\ lock \in Publishers \cup {None} /\ todo \in SUBSET Subs
      /\ chan \in [Subs -> {"none", "open", "closed", "cancelled"}]
      /\ buf \in [Subs -> Seq(1..MaxRev)]
      /\ reader \in [Subs -> {"idle", "woken"}] /\ snap \in [Subs -> 0..MaxRev]
      /\ Closer \in Publishers /\ None \notin Publishers /\ None \notin Subs
      /\ (lock # None => pend[lock] # <<>>)
      /\ (lock = None => todo = {})
      /\ full \in [sub : Subs \cup {None}, next : {"drop", "resend"}]
      /\ (full.sub # None => lock # None /\ full.sub \in todo)
      /\ (full.next = "resend" => full.sub # None /\ Len(buf[full.sub]) < Capacity(full.sub))
      /\ (chan[t] = "open" => hub = "open")
      /\ StartInv /\ Wakes(t)
  BY EventHubConstants, CapacityNat, SMTT(30)
  DEF IndInv, TypeOK, HubInv, CloseInv, NoLostWakeup, Publishers
<1> USE EventHubConstants DEF Wakes, Coming,
          clientVars, startVars, hubVars, readVars
<1>a. ASSUME UNCHANGED <<rev, startVars>>, snap'[t] = snap[t]
      PROVE  Behind(t)' <=> Behind(t)
  BY <1>a, Zenon DEF Behind, Unannounced
<1>1. ASSUME NEW p \in Producers, NEW n \in 1..MaxEvents, Change(p, n)
      PROVE  Wakes(t)'
  <2>1. rev + 1 \in 1..MaxRev /\ n \in Nat \ {0} /\ p \in Publishers
    BY <1>0, <1>1, EventHubConstants DEF Change, Bump, Publishers
  <2>2. PICK q \in Seq(1..MaxRev) : q # <<>> /\ pend' = [pend EXCEPT ![p] = q]
    <3>1. /\ [i \in 1..n |-> rev + 1] \in Seq(1..MaxRev)
          /\ [i \in 1..n |-> rev + 1] # <<>>
      BY <2>1, Events, Zenon
    <3>2. pend' = [pend EXCEPT ![p] = [i \in 1..n |-> rev + 1]]
      BY <1>0, <1>1, Zenon DEF Change, Bump
    <3> QED
      BY <3>1, <3>2, Zenon
  <2>3. pend'[p] # <<>> /\ lock' # p /\ p \in Publishers
    BY <1>0, <1>1, <2>2, Zenon DEF Change, Bump, Publishers
  <2>4. Coming(p, t)'
    BY <2>3, Zenon
  <2> QED
    BY <2>3, <2>4, Zenon
<1>2. CASE CloseStopping
  <2>1. rev + 1 \in 1..MaxRev /\ 2 \in Nat \ {0} /\ Closer \in Publishers
    BY <1>0, <1>2, EventHubConstants DEF CloseStopping, Bump, Publishers
  <2>2. PICK q \in Seq(1..MaxRev) : q # <<>> /\ pend' = [pend EXCEPT ![Closer] = q]
    <3>1. /\ [i \in 1..2 |-> rev + 1] \in Seq(1..MaxRev)
          /\ [i \in 1..2 |-> rev + 1] # <<>>
      BY <2>1, Events, Zenon
    <3>2. pend' = [pend EXCEPT ![Closer] = [i \in 1..2 |-> rev + 1]]
      BY <1>0, <1>2, Zenon DEF CloseStopping, Bump
    <3> QED
      BY <3>1, <3>2, Zenon
  <2>3. pend'[Closer] # <<>> /\ lock' # Closer /\ Closer \in Publishers
    BY <1>0, <1>2, <2>2, Zenon DEF CloseStopping, Bump, Publishers
  <2>4. Coming(Closer, t)'
    BY <2>3, Zenon
  <2> QED
    BY <2>3, <2>4, Zenon
<1>3. CASE CloseStopped
  <2>1. rev + 1 \in 1..MaxRev /\ 1 \in Nat \ {0} /\ Closer \in Publishers
    BY <1>0, <1>3, EventHubConstants DEF CloseStopped, Bump, Publishers
  <2>2. PICK q \in Seq(1..MaxRev) : q # <<>> /\ pend' = [pend EXCEPT ![Closer] = q]
    <3>1. /\ [i \in 1..1 |-> rev + 1] \in Seq(1..MaxRev)
          /\ [i \in 1..1 |-> rev + 1] # <<>>
      BY <2>1, Events, Zenon
    <3>2. pend' = [pend EXCEPT ![Closer] = [i \in 1..1 |-> rev + 1]]
      BY <1>0, <1>3, Zenon DEF CloseStopped, Bump
    <3> QED
      BY <3>1, <3>2, Zenon
  <2>3. pend'[Closer] # <<>> /\ lock' # Closer /\ Closer \in Publishers
    BY <1>0, <1>3, <2>2, Zenon DEF CloseStopped, Bump, Publishers
  <2>4. Coming(Closer, t)'
    BY <2>3, Zenon
  <2> QED
    BY <2>3, <2>4, Zenon
<1>4. CASE HubClose
  BY <1>0, <1>4, Zenon DEF HubClose
<1>5. ASSUME NEW p \in Publishers, PublishBegin(p)
      PROVE  Wakes(t)'
  <2>0. Behind(t)' <=> Behind(t)
    BY <1>5, <1>a, Zenon DEF PublishBegin
  <2> QED
    BY <1>0, <1>5, <2>0, Zenon DEF PublishBegin
<1>6. ASSUME NEW p \in Publishers, PublishClosed(p)
      PROVE  Wakes(t)'
  BY <1>0, <1>6, Zenon DEF PublishClosed
<1>7. ASSUME NEW s \in Subs, Send(s)
      PROVE  Wakes(t)'
  <2>0. Behind(t)' <=> Behind(t)
    BY <1>7, <1>a, Zenon DEF Send, Deliver
  <2>1. Append(buf[s], Head(pend[lock])) # <<>>
    <3>1. Head(pend[lock]) \in 1..MaxRev
      BY <1>0, <1>7, Pop, Zenon DEF Send
    <3>2. PICK q \in Seq(1..MaxRev), e \in 1..MaxRev : q = buf[s] /\ e = Head(pend[lock])
      BY <1>0, <1>7, <3>1, Zenon
    <3>3. Append(q, e) # <<>>
      BY PushEvent, Zenon
    <3> QED
      BY <3>2, <3>3, Zenon
  <2>2. CASE t = s
    BY <1>0, <1>7, <2>1, <2>2, Zenon DEF Send, Deliver
  <2>3. CASE t # s
    BY <1>0, <1>7, <2>0, <2>3, Zenon DEF Send, Deliver
  <2> QED
    BY <2>2, <2>3, Zenon
<1>8. ASSUME NEW s \in Subs, SendFull(s)
      PROVE  Wakes(t)'
  <2>0. Behind(t)' <=> Behind(t)
    BY <1>8, <1>a, Zenon DEF SendFull
  <2> QED
    BY <1>0, <1>8, <2>0, Zenon DEF SendFull
<1>9. ASSUME NEW s \in Subs, DropOldest(s)
      PROVE  Wakes(t)'
  <2>0. Behind(t)' <=> Behind(t)
    BY <1>9, <1>a, Zenon DEF DropOldest
  <2>1. CASE t = s
    <3>1. PICK p \in Publishers : p = lock
      BY <1>0, <1>9, Zenon DEF DropOldest
    <3>2. Coming(p, t)'
      BY <1>0, <1>9, <2>1, <3>1, Zenon DEF DropOldest
    <3> QED
      BY <3>2, Zenon
  <2>2. CASE t # s
    BY <1>0, <1>9, <2>0, <2>2, Zenon DEF DropOldest
  <2> QED
    BY <2>1, <2>2, Zenon
<1>10. ASSUME NEW s \in Subs, Resend(s)
      PROVE  Wakes(t)'
  <2>0. Behind(t)' <=> Behind(t)
    BY <1>10, <1>a, Zenon DEF Resend, Deliver
  <2>1. Append(buf[s], Head(pend[lock])) # <<>>
    <3>1. Head(pend[lock]) \in 1..MaxRev
      BY <1>0, <1>10, Pop, Zenon DEF Resend
    <3>2. PICK q \in Seq(1..MaxRev), e \in 1..MaxRev : q = buf[s] /\ e = Head(pend[lock])
      BY <1>0, <1>10, <3>1, Zenon
    <3>3. Append(q, e) # <<>>
      BY PushEvent, Zenon
    <3> QED
      BY <3>2, <3>3, Zenon
  <2>2. CASE t = s
    BY <1>0, <1>10, <2>1, <2>2, Zenon DEF Resend, Deliver
  <2>3. CASE t # s
    BY <1>0, <1>10, <2>0, <2>3, Zenon DEF Resend, Deliver
  <2> QED
    BY <2>2, <2>3, Zenon
<1>11. CASE PublishEnd
  <2>0. Behind(t)' <=> Behind(t)
    BY <1>11, <1>a, Zenon DEF PublishEnd
  <2>1. \A p \in Publishers : Coming(p, t) => Coming(p, t)'
    <3> SUFFICES ASSUME NEW p \in Publishers, Coming(p, t) PROVE Coming(p, t)'
      BY Zenon
    <3>1. CASE p = lock
      <4>1. Tail(pend[p]) # <<>>
        BY <1>0, <1>11, <3>1, Pop, Zenon DEF PublishEnd
      <4> QED
        BY <1>0, <1>11, <3>1, <4>1, Zenon DEF PublishEnd
    <3>2. CASE p # lock
      BY <1>0, <1>11, <3>2, Zenon DEF PublishEnd
    <3> QED
      BY <3>1, <3>2, Zenon
  <2> HIDE DEF Coming
  <2> QED
    BY <1>0, <1>11, <2>0, <2>1, Zenon DEF PublishEnd
<1>12. ASSUME NEW s \in Subs, Subscribe(s)
      PROVE  Wakes(t)'
  <2>0. Behind(t)' <=> Behind(t)
    BY <1>12, <1>a, Zenon DEF Subscribe
  <2> QED
    BY <1>0, <1>12, <2>0, Zenon DEF Subscribe
<1>13. ASSUME NEW s \in Subs, Cancel(s)
      PROVE  Wakes(t)'
  <2>0. Behind(t)' <=> Behind(t)
    BY <1>13, <1>a, Zenon DEF Cancel
  <2> QED
    BY <1>0, <1>13, <2>0, Zenon DEF Cancel
<1>14. ASSUME NEW s \in Subs, Receive(s)
      PROVE  Wakes(t)'
  <2>0. Behind(t)' <=> Behind(t)
    BY <1>14, <1>a, Zenon DEF Receive
  <2> QED
    BY <1>0, <1>14, <2>0, Zenon DEF Receive
<1>15. ASSUME NEW s \in Subs, Snapshot(s)
      PROVE  Wakes(t)'
  <2>1. CASE t = s
    <3>1. snap'[t] = rev /\ rev' = rev
      BY <1>0, <1>15, <2>1, Zenon DEF Snapshot
    <3>2. (snap'[t] + 1)..rev' = {}
      BY <1>0, <3>1
    <3>3. ~Behind(t)'
      BY <3>2, Zenon DEF Behind
    <3> QED
      BY <3>3, Zenon
  <2>2. CASE t # s
    <3>1. snap'[t] = snap[t]
      BY <1>0, <1>15, <2>2, Zenon DEF Snapshot
    <3>2. Behind(t)' <=> Behind(t)
      BY <1>15, <3>1, <1>a, Zenon DEF Snapshot
    <3> QED
      BY <1>0, <1>15, <2>2, <3>2, Zenon DEF Snapshot
  <2> QED
    BY <2>1, <2>2, Zenon
<1>16. CASE UNCHANGED vars
  <2>0. Behind(t)' <=> Behind(t)
    BY <1>16, <1>a, Zenon DEF vars
  <2> QED
    BY <1>0, <1>16, <2>0, Zenon DEF vars
<1>17. CASE StartBegin
  <2>1. Behind(t)' => Behind(t)
    <3> SUFFICES ASSUME NEW r \in (snap'[t] + 1)..rev', r \notin Unannounced'
                 PROVE  Behind(t)
      BY Zenon DEF Behind
    <3>1. /\ rev' = rev + 1 /\ snap' = snap /\ silent' = silent
          /\ start' = "starting" /\ began' = rev + 1 /\ start # "starting"
      BY <1>17 DEF StartBegin
    <3>2. r # rev + 1 /\ r \notin Unannounced
      BY <3>1, Zenon DEF Unannounced
    <3>3. r \in (snap[t] + 1)..rev
      BY <1>0, <3>1, <3>2
    <3> QED
      BY <3>2, <3>3, Zenon DEF Behind
  <2> QED
    BY <1>0, <1>17, <2>1, Zenon DEF StartBegin
<1>18. CASE StartFails
  <2>1. Unannounced' = Unannounced
    BY <1>18 DEF StartFails, Unannounced
  <2>2. Behind(t)' <=> Behind(t)
    BY <1>18, <2>1, Zenon DEF StartFails, Behind
  <2> QED
    BY <1>0, <1>18, <2>2, Zenon DEF StartFails
<1>19. CASE StartDone
  <2>1. <<rev, rev>> # <<>> /\ Starter \in Publishers
    BY DEF Publishers
  <2>2. pend'[Starter] # <<>> /\ lock' # Starter
    BY <1>0, <1>19, <2>1, Zenon DEF StartDone, StartInv
  <2>3. Coming(Starter, t)'
    BY <2>2, Zenon
  <2> QED
    BY <2>1, <2>3, Zenon
<1> QED
  BY <1>1, <1>2, <1>3, <1>4, <1>5, <1>6, <1>7, <1>8, <1>9, <1>10, <1>11,
     <1>12, <1>13, <1>14, <1>15, <1>16, <1>17, <1>18, <1>19, Zenon
  DEF Next, Publish, Read

\* The same for the event that announces Stopped.
LEMMA StoppedStep == IndInv /\ [Next]_vars => StoppedComing'
<1> SUFFICES ASSUME IndInv, [Next]_vars, NEW t \in Subs PROVE LearnsStopped(t)'
  BY Zenon DEF StoppedComing
<1>0. /\ rev \in Nat /\ pend \in [Publishers -> Seq(1..MaxRev)]
      /\ lock \in Publishers \cup {None} /\ todo \in SUBSET Subs
      /\ chan \in [Subs -> {"none", "open", "closed", "cancelled"}]
      /\ buf \in [Subs -> Seq(1..MaxRev)]
      /\ reader \in [Subs -> {"idle", "woken"}] /\ snap \in [Subs -> 0..MaxRev]
      /\ Closer \in Publishers /\ None \notin Publishers /\ None \notin Subs
      /\ (lock # None => pend[lock] # <<>>)
      /\ (lock = None => todo = {})
      /\ full \in [sub : Subs \cup {None}, next : {"drop", "resend"}]
      /\ (full.sub # None => lock # None /\ full.sub \in todo)
      /\ (full.next = "resend" => full.sub # None /\ Len(buf[full.sub]) < Capacity(full.sub))
      /\ hub \in {"open", "closed"} /\ closing \in {"no", "stopping", "stopped"}
      /\ CloseInv /\ stopped \in Nat /\ Closer \notin Producers
      /\ LearnsStopped(t)
  BY EventHubConstants, CapacityNat, SMTT(30) DEF IndInv, TypeOK, HubInv, StoppedComing, Publishers
<1> USE EventHubConstants DEF LearnsStopped, Coming,
          clientVars, startVars, hubVars, readVars
<1>1. ASSUME NEW p \in Producers, NEW n \in 1..MaxEvents, Change(p, n)
      PROVE  LearnsStopped(t)'
  BY <1>0, <1>1, Zenon DEF Change, Bump
<1>2. CASE CloseStopping
  <2>1. rev + 1 \in 1..MaxRev /\ 2 \in Nat \ {0} /\ Closer \in Publishers
    BY <1>0, <1>2, EventHubConstants DEF CloseStopping, Bump, Publishers
  <2>2. PICK q \in Seq(1..MaxRev) : q # <<>> /\ pend' = [pend EXCEPT ![Closer] = q]
    <3>1. /\ [i \in 1..2 |-> rev + 1] \in Seq(1..MaxRev)
          /\ [i \in 1..2 |-> rev + 1] # <<>>
      BY <2>1, Events, Zenon
    <3>2. pend' = [pend EXCEPT ![Closer] = [i \in 1..2 |-> rev + 1]]
      BY <1>0, <1>2, Zenon DEF CloseStopping, Bump
    <3> QED
      BY <3>1, <3>2, Zenon
  <2>3. pend'[Closer] # <<>> /\ lock' # Closer
    BY <1>0, <1>2, <2>2, Zenon DEF CloseStopping, Bump
  <2>4. Coming(Closer, t)'
    BY <2>3, Zenon
  <2> QED
    BY <2>4, Zenon
<1>3. CASE CloseStopped
  <2>1. rev + 1 \in 1..MaxRev /\ 1 \in Nat \ {0} /\ Closer \in Publishers
    BY <1>0, <1>3, EventHubConstants DEF CloseStopped, Bump, Publishers
  <2>2. PICK q \in Seq(1..MaxRev) : q # <<>> /\ pend' = [pend EXCEPT ![Closer] = q]
    <3>1. /\ [i \in 1..1 |-> rev + 1] \in Seq(1..MaxRev)
          /\ [i \in 1..1 |-> rev + 1] # <<>>
      BY <2>1, Events, Zenon
    <3>2. pend' = [pend EXCEPT ![Closer] = [i \in 1..1 |-> rev + 1]]
      BY <1>0, <1>3, Zenon DEF CloseStopped, Bump
    <3> QED
      BY <3>1, <3>2, Zenon
  <2>3. pend'[Closer] # <<>> /\ lock' # Closer
    BY <1>0, <1>3, <2>2, Zenon DEF CloseStopped, Bump
  <2>4. Coming(Closer, t)'
    BY <2>3, Zenon
  <2> QED
    BY <2>4, Zenon
<1>4. CASE HubClose
  BY <1>0, <1>4, Zenon DEF HubClose
<1>5. ASSUME NEW p \in Publishers, PublishBegin(p)
      PROVE  LearnsStopped(t)'
  BY <1>0, <1>5, Zenon DEF PublishBegin, CloseInv
<1>6. ASSUME NEW p \in Publishers, PublishClosed(p)
      PROVE  LearnsStopped(t)'
  <2>1. p # Closer
    BY <1>0, <1>6, Zenon DEF PublishClosed, CloseInv
  <2> QED
    BY <1>0, <1>6, <2>1, Zenon DEF PublishClosed
<1>7. ASSUME NEW s \in Subs, Send(s)
      PROVE  LearnsStopped(t)'
  <2>1. Append(buf[s], Head(pend[lock])) # <<>>
    <3>1. Head(pend[lock]) \in 1..MaxRev
      BY <1>0, <1>7, Pop, Zenon DEF Send
    <3>2. PICK q \in Seq(1..MaxRev), e \in 1..MaxRev : q = buf[s] /\ e = Head(pend[lock])
      BY <1>0, <1>7, <3>1, Zenon
    <3>3. Append(q, e) # <<>>
      BY PushEvent, Zenon
    <3> QED
      BY <3>2, <3>3, Zenon
  <2>2. CASE t = s
    BY <1>0, <1>7, <2>1, <2>2, Zenon DEF Send, Deliver
  <2>3. CASE t # s
    BY <1>0, <1>7, <2>3 DEF Send, Deliver
  <2> QED
    BY <2>2, <2>3, Zenon
<1>8. ASSUME NEW s \in Subs, SendFull(s)
      PROVE  LearnsStopped(t)'
  BY <1>0, <1>8 DEF SendFull
<1>9. ASSUME NEW s \in Subs, DropOldest(s)
      PROVE  LearnsStopped(t)'
  <2>1. CASE t = s
    BY <1>0, <1>9, <2>1, Zenon DEF DropOldest
  <2>2. CASE t # s
    BY <1>0, <1>9, <2>2, Zenon DEF DropOldest
  <2> QED
    BY <2>1, <2>2, Zenon
<1>10. ASSUME NEW s \in Subs, Resend(s)
      PROVE  LearnsStopped(t)'
  <2>1. Append(buf[s], Head(pend[lock])) # <<>>
    <3>1. Head(pend[lock]) \in 1..MaxRev
      BY <1>0, <1>10, Pop, Zenon DEF Resend
    <3>2. PICK q \in Seq(1..MaxRev), e \in 1..MaxRev : q = buf[s] /\ e = Head(pend[lock])
      BY <1>0, <1>10, <3>1, Zenon
    <3>3. Append(q, e) # <<>>
      BY PushEvent, Zenon
    <3> QED
      BY <3>2, <3>3, Zenon
  <2>2. CASE t = s
    BY <1>0, <1>10, <2>1, <2>2, Zenon DEF Resend, Deliver
  <2>3. CASE t # s
    BY <1>0, <1>10, <2>3, Zenon DEF Resend, Deliver
  <2> QED
    BY <2>2, <2>3, Zenon
<1>11. CASE PublishEnd
  <2>1. Coming(Closer, t) => Coming(Closer, t)'
    <3>1. CASE Closer = lock
      <4>1. Len(pend[Closer]) > 1 => Tail(pend[Closer]) # <<>>
        BY <1>0, <1>11, <3>1, Pop, Zenon DEF PublishEnd
      <4> QED
        BY <1>0, <1>11, <3>1, <4>1, Zenon DEF PublishEnd
    <3>2. CASE Closer # lock
      BY <1>0, <1>11, <3>2, Zenon DEF PublishEnd
    <3> QED
      BY <3>1, <3>2, Zenon
  <2> HIDE DEF Coming
  <2> QED
    BY <1>0, <1>11, <2>1, Zenon DEF PublishEnd
<1>12. ASSUME NEW s \in Subs, Subscribe(s)
      PROVE  LearnsStopped(t)'
  BY <1>0, <1>12, Zenon DEF Subscribe, CloseInv
<1>13. ASSUME NEW s \in Subs, Cancel(s)
      PROVE  LearnsStopped(t)'
  BY <1>0, <1>13, Zenon DEF Cancel
<1>14. ASSUME NEW s \in Subs, Receive(s)
      PROVE  LearnsStopped(t)'
  BY <1>0, <1>14, Zenon DEF Receive
<1>15. ASSUME NEW s \in Subs, Snapshot(s)
      PROVE  LearnsStopped(t)'
  BY <1>0, <1>15, Zenon DEF Snapshot, CloseInv
<1>16. CASE UNCHANGED vars
  BY <1>0, <1>16, Zenon DEF vars
<1>17. CASE StartBegin
  BY <1>0, <1>17, Zenon DEF StartBegin
<1>18. CASE StartFails
  BY <1>0, <1>18, Zenon DEF StartFails
<1>19. CASE StartDone
  <2>1. Starter # Closer
    BY EventHubConstants, Zenon
  <2> QED
    BY <1>0, <1>19, <2>1, Zenon DEF StartDone
<1> QED
  BY <1>1, <1>2, <1>3, <1>4, <1>5, <1>6, <1>7, <1>8, <1>9, <1>10, <1>11,
     <1>12, <1>13, <1>14, <1>15, <1>16, <1>17, <1>18, <1>19, Zenon
  DEF Next, Publish, Read

\* Before the first change nothing is pending and nothing is subscribed.
LEMMA InitInv == Init => IndInv
<1> SUFFICES ASSUME Init PROVE IndInv
  BY Zenon
<1> USE EventHubConstants DEF Init, Idle
<1>1. TypeOK
  BY DEF TypeOK, Capacity, Publishers
<1>2. HubInv /\ CloseInv /\ NoSendOnClosed
  BY DEF HubInv, CloseInv, NoSendOnClosed
<1>2a. StartInv
  BY Zenon DEF StartInv, Publishers
<1>3. NewestKept /\ NoLostWakeup /\ StoppedComing
  BY Zenon DEF NewestKept, NoLostWakeup, StoppedComing, HoldsNewest, Wakes, LearnsStopped,
         TypeOK
<1> QED
  BY <1>1, <1>2, <1>2a, <1>3, Zenon DEF IndInv

\* The inductive invariant, for any subscribers, buffers and producers.
THEOREM Invariance == Spec => []IndInv
<1>1. IndInv /\ [Next]_vars => IndInv'
  BY TypeStep, HubStep, StartStep, CloseStep, SendStep, NewestStep, WakeupStep, StoppedStep,
     Zenon
  DEF IndInv
<1> QED
  BY InitInv, <1>1, PTL DEF Spec

\* Dropping events from a full channel never loses a wake-up.
THEOREM Wakeup == Spec => []NoLostWakeup
<1>1. IndInv => NoLostWakeup
  BY Zenon DEF IndInv
<1> QED
  BY Invariance, <1>1, PTL

\* The newest event offered to a channel is never the one dropped.
THEOREM Newest == Spec => []NewestKept
<1>1. IndInv => NewestKept
  BY Zenon DEF IndInv
<1> QED
  BY Invariance, <1>1, PTL

\* publish, cancel and close never make a send panic.
THEOREM SendSafe == Spec => []NoSendOnClosed
<1>1. IndInv => NoSendOnClosed
  BY Zenon DEF IndInv
<1> QED
  BY Invariance, <1>1, PTL

\* A drained, closed channel means that the subscriber has seen Stopped.
THEOREM StoppedSeen == Spec => []StoppedIsSeen
<1>1. IndInv => StoppedIsSeen
  <2> SUFFICES ASSUME IndInv, NEW s \in Subs, chan[s] = "closed",
                      buf[s] = <<>>, reader[s] = "idle"
               PROVE  stopped > 0 /\ snap[s] >= stopped
    BY Zenon DEF StoppedIsSeen
  <2>1. hub = "closed" /\ stopped > 0 /\ pend[Closer] = <<>>
    BY Zenon DEF IndInv, CloseInv
  <2>2. lock # Closer /\ full # [sub |-> s, next |-> "resend"]
    <3>1. Closer # None /\ s # None
      BY EventHubConstants, Zenon
    <3> QED
      BY <2>1, <3>1 DEF IndInv, HubInv, NoSendOnClosed
  <2> QED
    BY <2>1, <2>2, Zenon DEF IndInv, StoppedComing, LearnsStopped, Coming
<1> QED
  BY Invariance, <1>1, PTL

\* publish loses neither a wake-up nor the newest event of a full channel.
THEOREM WakesNewest == Spec => []WakesWithNewest
<1>1. NoLostWakeup /\ NewestKept => WakesWithNewest
  BY Zenon DEF WakesWithNewest
<1> QED
  BY Wakeup, Newest, <1>1, PTL
=============================================================================

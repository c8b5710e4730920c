---------------------------- MODULE ConfirmCache ----------------------------
(***************************************************************************)
(* The cache: what of the identity and of the confirmed peers survives the *)
(* process (cache.go: loadOrCreateCache, storeCache; client.go:            *)
(* initializeRuntime; confirmation.go: ConfirmPeer,                        *)
(* RevokePeerConfirmation).  The application's Store replaces the blob     *)
(* atomically or fails, and then may or may not have replaced it; the      *)
(* process may end between any two steps.                                  *)
(*                                                                         *)
(* The identity is one number for the machine key, the discovery key and   *)
(* the backend ID, which are created and stored together.                  *)
(***************************************************************************)
EXTENDS Integers

CONSTANTS
  Peers,     \* stable IDs
  Callers,   \* goroutines that confirm and revoke
  NodeKeys,  \* node keys a device may have
  MaxKeys,   \* bound on the identities created
  NoNode

ASSUME CacheConstants == NoNode \notin NodeKeys /\ MaxKeys \in Nat

VARIABLES
  disk,      \* the blob: node (NoNode for an empty one), key and confirmed peers
  process,   \* "down", "init" (initializeRuntime has the cache), "up", "stopping"
  cache,     \* the state loadOrCreateCache returned, then c.cache
  known,     \* the peers control has sent, in c.peers
  confirmed, \* c.confirmed
  call,      \* each caller's step, peer, decision and the copy of c.cache
  keys,      \* identities created so far
  presented, \* history: identities shown to control, with their node key
  acked,     \* history: the last decision acknowledged for each peer
  unsure     \* history: peers with a later decision that failed or was cut off

cacheVars == <<disk, process, cache, known, confirmed, call, keys, presented, acked, unsure>>

NoBlob == [node |-> NoNode, key |-> 0, peers |-> {}]
Resting == [at |-> "idle", peer |-> NoNode, yes |-> FALSE, copy |-> NoBlob]

CacheInit ==
  /\ disk = NoBlob /\ process = "down" /\ cache = NoBlob
  /\ known = {} /\ confirmed = {} /\ call = [c \in Callers |-> Resting]
  /\ keys = 0 /\ presented = {} /\ acked = {} /\ unsure = {}

-----------------------------------------------------------------------------
(* initializeRuntime.                                                      *)

\* loadOrCreateCache: a cache of another node key is refused, an identity that
\* is missing is created.
LoadCache(node) ==
  /\ process = "down" /\ disk.node \in {NoNode, node}
  /\ IF disk.key = 0
     THEN /\ keys < MaxKeys /\ keys' = keys + 1
          /\ cache' = [disk EXCEPT !.node = node, !.key = keys + 1]
     ELSE cache' = [disk EXCEPT !.node = node] /\ UNCHANGED keys
  /\ process' = "init"
  /\ UNCHANGED <<disk, known, confirmed, call, presented, acked, unsure>>

\* The runtime starts with the cache: from now on control sees the identity.
Started ==
  /\ process' = "up" /\ confirmed' = cache.peers
  /\ presented' = presented \cup {[node |-> cache.node, key |-> cache.key]}
  /\ UNCHANGED <<cache, known, call, keys, acked, unsure>>

\* storeCache succeeds.
StoreIdentity == process = "init" /\ disk' = cache /\ Started

\* storeCache fails, or a later step of initializeRuntime does after the store.
StartFails ==
  /\ process = "init"
  /\ disk' \in {disk, cache}
  /\ process' = "down" /\ cache' = NoBlob
  /\ UNCHANGED <<known, confirmed, call, keys, presented, acked, unsure>>

-----------------------------------------------------------------------------
(* ConfirmPeer and RevokePeerConfirmation.                                 *)

\* Mutant: cacheMu is not held while the cache is stored.
NobodyHolds == TRUE

\* cacheMu is free.
CacheMuFree == \A c \in Callers : call[c].at # "store"

MapSendsPeer(p) ==
  /\ process = "up" /\ p \notin known
  /\ known' = known \cup {p}
  /\ UNCHANGED <<disk, process, cache, confirmed, call, keys, presented, acked, unsure>>

MapRemovesPeer(p) ==
  /\ process = "up" /\ p \in known
  /\ known' = known \ {p}
  /\ UNCHANGED <<disk, process, cache, confirmed, call, keys, presented, acked, unsure>>

\* Under cacheMu and c.mu: the decision is in force, and a copy of the cache is
\* taken.  A caller that is refused changes nothing.
Decide(c, p, yes) ==
  /\ call[c].at = "idle" /\ CacheMuFree /\ process = "up"
  /\ p \in IF yes THEN known ELSE confirmed
  /\ confirmed' = IF yes THEN confirmed \cup {p} ELSE confirmed \ {p}
  /\ cache' = [cache EXCEPT !.peers = confirmed']
  /\ call' = [call EXCEPT ![c] = [at |-> "store", peer |-> p, yes |-> yes, copy |-> cache']]
  /\ unsure' = unsure \cup {p}
  /\ UNCHANGED <<disk, process, known, keys, presented, acked>>

\* storeCache succeeds, the peers are reconciled and the call returns nil.
StoreDecision(c) ==
  /\ call[c].at = "store" /\ process # "down"
  /\ disk' = call[c].copy
  /\ call' = [call EXCEPT ![c] = Resting]
  /\ acked' = IF call[c].yes THEN acked \cup {call[c].peer} ELSE acked \ {call[c].peer}
  /\ unsure' = unsure \ {call[c].peer}
  /\ UNCHANGED <<process, cache, known, confirmed, keys, presented>>

\* Store fails and the call returns its error; the decision stays in force.
StoreFails(c) ==
  /\ call[c].at = "store" /\ process # "down"
  /\ disk' \in {disk, call[c].copy}
  /\ call' = [call EXCEPT ![c] = Resting]
  /\ UNCHANGED <<process, cache, known, confirmed, keys, presented, acked, unsure>>

\* Client.Close: no decision begins any more, those under way go on.
BeginStop ==
  /\ process = "up" /\ process' = "stopping"
  /\ UNCHANGED <<disk, cache, known, confirmed, call, keys, presented, acked, unsure>>

\* The process ends, in the middle of a Store or anywhere.
ProcessEnds ==
  /\ process # "down"
  /\ disk' \in {disk} \cup {call[c].copy : c \in {c \in Callers : call[c].at = "store"}}
                      \cup (IF process = "init" THEN {cache} ELSE {})
  /\ process' = "down" /\ cache' = NoBlob /\ known' = {} /\ confirmed' = {}
  /\ call' = [c \in Callers |-> Resting]
  /\ UNCHANGED <<keys, presented, acked, unsure>>

CacheNext ==
  \/ \E node \in NodeKeys : LoadCache(node)
  \/ StoreIdentity \/ StartFails \/ BeginStop \/ ProcessEnds
  \/ \E p \in Peers : MapSendsPeer(p) \/ MapRemovesPeer(p)
  \/ \E c \in Callers : StoreDecision(c) \/ StoreFails(c)
  \/ \E c \in Callers, p \in Peers, yes \in BOOLEAN : Decide(c, p, yes)

CacheSpec == CacheInit /\ [][CacheNext]_cacheVars

-----------------------------------------------------------------------------
(* Properties.                                                             *)

\* Control only ever sees the identity in the cache: after crashes and failed
\* stores at any point, the node comes back with the same machine and discovery
\* keys, and only for the node key the cache is bound to.
IdentityPersists == presented \subseteq {[node |-> disk.node, key |-> disk.key]}

\* A confirmation or revocation that was acknowledged is what the next process
\* starts with, unless a later decision about that peer failed or was cut off;
\* decisions about other peers, failed ones too, never undo it.
AckedSurvives == \A p \in Peers \ unsure : p \in disk.peers <=> p \in acked

\* While the process is up and nobody is storing, what is in force differs from
\* the cache on disk only for decisions whose caller was told of a failure.
ForceMatchesDisk ==
  process = "up" /\ CacheMuFree =>
    \A p \in Peers \ unsure : p \in confirmed <=> p \in disk.peers

\* What survives crashes and failed stores: the identity, and the decisions.
CacheDurable == IdentityPersists /\ AckedSurvives /\ ForceMatchesDisk

-----------------------------------------------------------------------------
(* The inductive invariant of ControlProofs.                               *)

Blob == [node : NodeKeys \cup {NoNode}, key : Nat, peers : SUBSET Peers]

CacheTypeOK ==
  /\ disk \in Blob /\ cache \in Blob
  /\ process \in {"down", "init", "up", "stopping"}
  /\ known \in SUBSET Peers /\ confirmed \in SUBSET Peers
  /\ call \in [Callers -> [at : {"idle", "store"}, peer : Peers \cup {NoNode},
                          yes : BOOLEAN, copy : Blob]]
  /\ keys \in Nat /\ acked \in SUBSET Peers /\ unsure \in SUBSET Peers

Live == process \in {"up", "stopping"}
SameIdentity == cache.node = disk.node /\ cache.key = disk.key

\* The blob has a node key and an identity or neither, and has them once the
\* identity was shown.
DiskInv ==
  /\ disk.key # 0 <=> disk.node # NoNode
  /\ presented # {} => disk.key # 0

\* What is loaded but not yet stored is the blob, completed where it is empty.
LoadedInv ==
  process = "init" =>
    /\ cache.key # 0 /\ cache.node # NoNode /\ cache.peers = disk.peers
    /\ disk.key # 0 => SameIdentity

\* A live process has the identity on disk, and differs from it in unsure peers.
LiveInv ==
  Live =>
    /\ SameIdentity /\ disk.key # 0 /\ cache.peers = confirmed
    /\ \A p \in Peers \ unsure : p \in confirmed <=> p \in disk.peers

\* At most one decision is being stored, and its copy is still the cache.
StoringInv ==
  /\ \A c \in Callers : call[c].at = "store" =>
       /\ Live /\ call[c].copy = cache /\ call[c].peer \in unsure
       /\ call[c].peer \in confirmed <=> call[c].yes
  /\ \A c, d \in Callers : call[c].at = "store" /\ call[d].at = "store" => c = d

CacheInv ==
  CacheTypeOK /\ DiskInv /\ LoadedInv /\ LiveInv /\ StoringInv
    /\ IdentityPersists /\ AckedSurvives
=============================================================================

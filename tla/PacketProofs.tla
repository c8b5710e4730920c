---------------------------- MODULE PacketProofs ----------------------------
(***************************************************************************)
(* Proofs about what becomes of a packet: whose it is (PeerTable), and     *)
(* whether the access rules let it pass (AccessRules).                     *)
(***************************************************************************)
EXTENDS PeerTable, AccessRules, WellFoundedInduction, TLAPS

-----------------------------------------------------------------------------
(***************************************************************************)
(* PeerTable: the invariants of the two indexes are proved together with   *)
(* what they rest on.  A peer outside the table has no candidates, path or *)
(* key (Blank), candidates are rebuilt wherever their parts change         *)
(* (CandidatesAgree), and the history variables record every key and       *)
(* address that two peers hold (SharedKnown, ContestedKnown).              *)
(***************************************************************************)

\* A reader past its lookup holds a packet of a peer.
LEMMA ReaderType ==
  ASSUME TypeOK, NEW r \in 1..MaxGen, reader[r].stage \in {"ping", "pong", "answered"}
  PROVE  /\ reader[r].node \in Keys /\ reader[r].addr \in Addrs
         /\ reader[r].tx \in 0..MaxTx
<1>1. reader[r] \in Packets \cup {Idle, Exited}
  BY Zenon DEF TypeOK, ReaderTypeOK
<1>2. reader[r] # Idle /\ reader[r] # Exited
  BY DEF Idle, Exited
<1> QED
  BY <1>1, <1>2, Zenon DEF Packets

\* So does the relay's reader.
LEMMA RelayType ==
  ASSUME TypeOK, relay.stage = "callme"
  PROVE  relay.node \in Keys /\ relay.addrs \in SUBSET Addrs
<1>1. relay \in Offers \cup {Idle}
  BY Zenon DEF TypeOK, ReaderTypeOK
<1>2. relay # Idle
  BY DEF Idle
<1> QED
  BY <1>1, <1>2, Zenon DEF Offers

\* The configurations UpdatePeer is called with.
LEMMA ConfigType ==
  ASSUME NEW c \in Configs
  PROVE  /\ c.key \in Keys /\ c.disco \in Discos \cup {Null}
         /\ c.eps \in SUBSET Addrs /\ c.rest \in {0, 1}
  BY PeerTableConstants, Zenon

\* What the table and its indexes are made of.
tableVars == <<known, disco, eps, cand, learned, direct, byDisco, byAddr, shared,
               contested, dropped>>

\* What handling a ping or a pong, and a CallMeMaybe, may do to them.
Redirected(k, a) ==
  /\ k \in known
  /\ byAddr' = PathIndexed(k, a) /\ direct' = [direct EXCEPT ![k] = a]
  /\ UNCHANGED <<known, disco, eps, cand, learned, byDisco, shared>>
  /\ Record
Learned(k, addrs, old, new) ==
  /\ k \in known
  /\ Learn(k, addrs, old, new)
  /\ UNCHANGED <<known, disco, eps, direct, byDisco, shared>>
  /\ Record

\* Every other step leaves the table alone.
LEMMA Effect ==
  ASSUME IndInv, [Next]_vars
  PROVE  \/ \E old \in [Keys -> SUBSET Addrs] : Open(old) \/ Maintain(old)
         \/ \E c \in Configs : UpdatePeer(c)
         \/ \E k \in Keys : RemovePeer(k)
         \/ \E k \in Keys, a \in Addrs : Redirected(k, a)
         \/ \E k \in Keys, addrs, old, new \in SUBSET Addrs : Learned(k, addrs, old, new)
         \/ UNCHANGED tableVars
<1> DEFINE Goal == \/ \E k \in Keys, a \in Addrs : Redirected(k, a)
                   \/ \E k \in Keys, addrs, old, new \in SUBSET Addrs : Learned(k, addrs, old, new)
                   \/ UNCHANGED tableVars
<1> USE DEF vars, peerVars, indexVars, pingVars, readerVars, historyVars, tableVars
<1>1. CASE Close \/ CloseSocket \/ UNCHANGED vars
  BY <1>1, Zenon DEF Close, CloseSocket
<1>2. ASSUME NEW k \in Keys, ProbeDue(k) PROVE Goal
  BY <1>2, Zenon DEF ProbeDue
<1>3. ASSUME NEW k \in calls, NEW expired \in SUBSET pending, ProbeBegin(k, expired) PROVE Goal
  BY <1>3, Zenon DEF ProbeBegin
<1>4. ASSUME NEW p \in probes, ProbeEnd(p) PROVE Goal
  BY <1>4, Zenon DEF ProbeEnd
<1>5. ASSUME NEW p \in probes, NEW a \in p.todo, ProbePing(p, a) PROVE Goal
  BY <1>5, Zenon DEF ProbePing
<1>6. ASSUME NEW r \in 1..MaxGen, NEW d \in Discos, NEW kind \in {"ping", "pong"},
             NEW a \in Addrs, NEW tx \in 0..MaxTx, NEW claimed \in Keys \cup {Null},
             FindSender(r, d, kind, a, tx, claimed)
      PROVE  Goal
  BY <1>6, Zenon DEF FindSender
<1>7. ASSUME NEW d \in Discos, NEW k \in Keys, NEW addrs \in SUBSET Addrs,
             FindCaller(d, k, addrs)
      PROVE  Goal
  BY <1>7, Zenon DEF FindCaller
<1>8. ASSUME NEW r \in 1..MaxGen, TakePing(r) PROVE Goal
  BY <1>8, Zenon DEF TakePing
<1>9. ASSUME NEW r \in 1..MaxGen, HandlePing(r) \/ HandlePong(r) PROVE Goal
  <2>1. PICK k \in Keys, a \in Addrs : SetDirect(k, a, r)
    BY <1>9, ReaderType, Zenon DEF HandlePing, HandlePong, IndInv
  <2> QED
    BY <2>1, Zenon DEF SetDirect, Redirected
<1>10. ASSUME NEW old \in SUBSET Addrs, NEW new \in SUBSET Addrs, HandleCallMe(old, new)
       PROVE  Goal
  <2>1. relay.node \in Keys /\ relay.addrs \in SUBSET Addrs
    BY <1>10, RelayType, Zenon DEF HandleCallMe, IndInv
  <2>2. CASE relay.node \in known
    <3>1. Learned(relay.node, relay.addrs, old, new)
      BY <1>10, <2>2, Zenon DEF HandleCallMe, Learned
    <3> QED
      BY <2>1, <3>1, Zenon
  <2>3. CASE relay.node \notin known
    BY <1>10, <2>3, Zenon DEF HandleCallMe
  <2> QED
    BY <2>2, <2>3, Zenon
<1> HIDE DEF Goal
<1>11. \/ \E old \in [Keys -> SUBSET Addrs] : Open(old) \/ Maintain(old)
       \/ \E c \in Configs : UpdatePeer(c)
       \/ \E k \in Keys : RemovePeer(k)
       \/ Goal
  BY <1>1, <1>2, <1>3, <1>4, <1>5, <1>6, <1>7, <1>8, <1>9, <1>10, Zenon DEF Next, Goal
<1> QED
  BY <1>11, Zenon DEF Goal

\* What Record keeps of the history.
LEMMA Recorded ==
  ASSUME Record, NEW x \in Addrs, NEW j \in Keys, NEW l \in Keys
  PROVE  /\ x \in contested => x \in contested'
         /\ j # l /\ x \in Held(j)' /\ x \in Held(l)' => x \in contested'
         /\ <<j, x>> \in dropped => <<j, x>> \in dropped' \/ byAddr'[x] = j
  BY Zenon DEF Record

\* Every step keeps the types of the table and its indexes.
LEMMA TableTypeStep == IndInv /\ [Next]_vars => TableTypeOK'
<1> SUFFICES ASSUME IndInv, [Next]_vars PROVE TableTypeOK'
  BY Zenon
<1>0. TypeOK /\ TableTypeOK
  BY Zenon DEF IndInv, TypeOK, TableTypeOK
<1> USE PeerTableConstants DEF TableTypeOK,
          vars, peerVars, indexVars, pingVars, readerVars, historyVars
<1>1. ASSUME NEW old \in [Keys -> SUBSET Addrs], Open(old)
      PROVE  TableTypeOK'
  BY <1>0, <1>1 DEF Open, Pruned, Rebuild, Record
<1>2. ASSUME NEW old \in [Keys -> SUBSET Addrs], Maintain(old)
      PROVE  TableTypeOK'
  BY <1>0, <1>2, Zenon DEF Maintain, Pruned, Record
<1>3. ASSUME NEW c \in Configs, UpdatePeer(c)
      PROVE  TableTypeOK'
  <2>1. PICK k \in Keys, d \in Discos \cup {Null}, e \in SUBSET Addrs,
       f \in {0, 1} :
          f = c.rest /\ k = c.key /\ d = c.disco /\ e = c.eps
    BY <1>0, <1>3, ConfigType, Zenon
  <2> QED
    BY <1>0, <1>3, <2>1, Zenon DEF UpdatePeer, DiscoIndexed, DirectIndexed, Reindexed
<1>4. ASSUME NEW k \in Keys, RemovePeer(k)
      PROVE  TableTypeOK'
  BY <1>0, <1>4, Zenon DEF RemovePeer, Unindexed
<1>5. ASSUME NEW k \in Keys, NEW a \in Addrs, Redirected(k, a)
      PROVE  TableTypeOK'
  BY <1>0, <1>5, Zenon DEF Redirected, PathIndexed, Record
<1>6. ASSUME NEW k \in Keys, NEW addrs \in SUBSET Addrs,
             NEW old \in SUBSET Addrs, NEW new \in SUBSET Addrs, Learned(k, addrs, old, new)
      PROVE  TableTypeOK'
  BY <1>0, <1>6 DEF Learned, Learn, LearnedIndexed, Rebuilt, Record
<1>7. CASE UNCHANGED tableVars
  BY <1>0, <1>7, Zenon DEF tableVars
<1> QED
  BY <1>1, <1>2, <1>3, <1>4, <1>5, <1>6, <1>7, Effect, Zenon

\* The same for probes.
LEMMA ProbeTypeStep == IndInv /\ [Next]_vars => ProbeTypeOK'
<1> SUFFICES ASSUME IndInv, [Next]_vars PROVE ProbeTypeOK'
  BY Zenon
<1>0. TypeOK /\ ProbeTypeOK /\ cand \in [Keys -> SUBSET Addrs] /\ gen \in 0..MaxGen
      /\ known \in SUBSET Keys
  BY Zenon DEF IndInv, TypeOK, TableTypeOK, ProbeTypeOK
<1> USE PeerTableConstants DEF ProbeTypeOK,
          vars, peerVars, indexVars, pingVars, readerVars, historyVars
<1>1. ASSUME NEW old \in [Keys -> SUBSET Addrs], Open(old)
      PROVE  ProbeTypeOK'
  BY <1>0, <1>1 DEF Open
<1>2. ASSUME NEW old \in [Keys -> SUBSET Addrs], Maintain(old)
      PROVE  ProbeTypeOK'
  BY <1>0, <1>2, Zenon DEF Maintain
<1>3. CASE Close
  BY <1>0, <1>3, Zenon DEF Close
<1>4. CASE CloseSocket
  BY <1>0, <1>4, Zenon DEF CloseSocket
<1>5. ASSUME NEW c \in Configs, UpdatePeer(c)
      PROVE  ProbeTypeOK'
  <2>1. PICK k \in Keys, d \in Discos \cup {Null}, e \in SUBSET Addrs :
          k = c.key /\ d = c.disco /\ e = c.eps
    BY <1>0, <1>5, ConfigType, Zenon
  <2> QED
    BY <1>0, <1>5, <2>1 DEF UpdatePeer, Unthrottled
<1>6. ASSUME NEW k \in Keys, RemovePeer(k)
      PROVE  ProbeTypeOK'
  BY <1>0, <1>6 DEF RemovePeer
<1>7. ASSUME NEW k \in Keys, ProbeDue(k)
      PROVE  ProbeTypeOK'
  BY <1>0, <1>7, Zenon DEF ProbeDue
<1>8. ASSUME NEW k \in calls, NEW expired \in SUBSET pending, ProbeBegin(k, expired)
      PROVE  ProbeTypeOK'
  <2>1. k \in Keys
    BY <1>0, <1>8, Zenon
  <2>2. CASE k \in known /\ disco[k] # Null /\ open /\ ~probed[k]
    <3>1. /\ [node |-> k, todo |-> cand[k]] \in [node : Keys, todo : SUBSET Addrs]
          /\ [addrs |-> cand[k], gen |-> gen] \in [addrs : SUBSET Addrs, gen : 0..MaxGen]
      BY <1>0, <1>8, <2>1, Zenon
    <3>2. probed' \in [Keys -> BOOLEAN]
      BY <1>0, <1>8, <2>1, <2>2, Zenon DEF ProbeBegin
    <3>3. /\ pending' \in SUBSET [tx : 1..MaxTx, node : Keys, addr : Addrs]
          /\ probes' \in SUBSET [node : Keys, todo : SUBSET Addrs]
          /\ asked' \in [Keys -> [addrs : SUBSET Addrs, gen : 0..MaxGen]]
      BY <1>0, <1>8, <2>1, <2>2, <3>1 DEF ProbeBegin
    <3> QED
      BY <1>0, <1>8, <3>2, <3>3, Zenon DEF ProbeBegin
  <2>3. CASE ~(k \in known /\ disco[k] # Null /\ open /\ ~probed[k])
    BY <1>0, <1>8, <2>3, Zenon DEF ProbeBegin
  <2> QED
    BY <2>2, <2>3, Zenon
<1>9. ASSUME NEW p \in probes, ProbeEnd(p)
      PROVE  ProbeTypeOK'
  BY <1>0, <1>9, Zenon DEF ProbeEnd
<1>10. ASSUME NEW p \in probes, NEW a \in p.todo, ProbePing(p, a)
      PROVE  ProbeTypeOK'
  BY <1>0, <1>10 DEF ProbePing
<1>11. ASSUME NEW r \in 1..MaxGen, NEW d \in Discos, NEW kind \in {"ping", "pong"},
              NEW a \in Addrs, NEW tx \in 0..MaxTx, NEW claimed \in Keys \cup {Null},
              FindSender(r, d, kind, a, tx, claimed)
      PROVE  ProbeTypeOK'
  BY <1>0, <1>11, Zenon DEF FindSender
<1>12. ASSUME NEW d \in Discos, NEW k \in Keys, NEW addrs \in SUBSET Addrs, FindCaller(d, k, addrs)
      PROVE  ProbeTypeOK'
  BY <1>0, <1>12, Zenon DEF FindCaller
<1>13. ASSUME NEW r \in 1..MaxGen, HandlePing(r)
      PROVE  ProbeTypeOK'
  <2>1. PICK k \in Keys, a \in Addrs : SetDirect(k, a, r)
    BY <1>0, <1>13, ReaderType, Zenon DEF HandlePing, IndInv
  <2>2. CASE k \notin known
    BY <1>0, <1>13, <2>1, <2>2, Zenon DEF HandlePing, SetDirect
  <2>3. CASE k \in known
    BY <1>0, <1>13, <2>1, <2>3 DEF HandlePing, SetDirect
  <2> QED
    BY <2>2, <2>3, Zenon
<1>14. ASSUME NEW r \in 1..MaxGen, TakePing(r)
      PROVE  ProbeTypeOK'
  BY <1>0, <1>14, Zenon DEF TakePing
<1>15. ASSUME NEW r \in 1..MaxGen, HandlePong(r)
      PROVE  ProbeTypeOK'
  <2>1. PICK k \in Keys, a \in Addrs : SetDirect(k, a, r)
    BY <1>0, <1>15, ReaderType, Zenon DEF HandlePong, IndInv
  <2>2. CASE k \notin known
    BY <1>0, <1>15, <2>1, <2>2, Zenon DEF HandlePong, SetDirect
  <2>3. CASE k \in known
    BY <1>0, <1>15, <2>1, <2>3 DEF HandlePong, SetDirect
  <2> QED
    BY <2>2, <2>3, Zenon
<1>16. ASSUME NEW old \in SUBSET Addrs, NEW new \in SUBSET Addrs, HandleCallMe(old, new)
      PROVE  ProbeTypeOK'
  <2>1. CASE relay.node \notin known
    BY <1>0, <1>16, <2>1, Zenon DEF HandleCallMe
  <2>2. CASE relay.node \in known
    <3>1. PICK k \in Keys, addrs \in SUBSET Addrs :
            k \in known /\ Learn(k, addrs, old, new)
      BY <1>0, <1>16, <2>2, RelayType, Zenon DEF HandleCallMe, IndInv
    <3> QED
      BY <1>0, <1>16, <2>2, <3>1, Zenon DEF HandleCallMe, Learn
  <2> QED
    BY <2>1, <2>2, Zenon
<1>17. CASE UNCHANGED vars
  BY <1>0, <1>17, Zenon DEF vars
<1> QED
  BY <1>1, <1>2, <1>3, <1>4, <1>5, <1>6, <1>7, <1>8, <1>9, <1>10, <1>11,
     <1>12, <1>13, <1>14, <1>15, <1>16, <1>17, Zenon
  DEF Next

\* The same for the packets being handled.
LEMMA ReaderTypeStep == IndInv /\ [Next]_vars => ReaderTypeOK'
<1> SUFFICES ASSUME IndInv, [Next]_vars PROVE ReaderTypeOK'
  BY Zenon
<1>0. TypeOK /\ ReaderTypeOK /\ byDisco \in [Discos -> Keys \cup {Null}]
      /\ gen \in 0..MaxGen /\ lastTx \in 0..MaxTx /\ known \in SUBSET Keys
  BY Zenon DEF IndInv, TypeOK, TableTypeOK, ProbeTypeOK
<1> USE PeerTableConstants DEF ReaderTypeOK,
          vars, peerVars, indexVars, pingVars, readerVars, historyVars
<1>1. ASSUME NEW old \in [Keys -> SUBSET Addrs], Open(old)
      PROVE  ReaderTypeOK'
  BY <1>0, <1>1, Zenon DEF Open
<1>2. ASSUME NEW old \in [Keys -> SUBSET Addrs], Maintain(old)
      PROVE  ReaderTypeOK'
  BY <1>0, <1>2, Zenon DEF Maintain
<1>3. CASE Close
  BY <1>0, <1>3, Zenon DEF Close
<1>4. CASE CloseSocket
  BY <1>0, <1>4, Zenon DEF CloseSocket
<1>5. ASSUME NEW c \in Configs, UpdatePeer(c)
      PROVE  ReaderTypeOK'
  BY <1>0, <1>5, Zenon DEF UpdatePeer
<1>6. ASSUME NEW k \in Keys, RemovePeer(k)
      PROVE  ReaderTypeOK'
  BY <1>0, <1>6, Zenon DEF RemovePeer
<1>7. ASSUME NEW k \in Keys, ProbeDue(k)
      PROVE  ReaderTypeOK'
  BY <1>0, <1>7, Zenon DEF ProbeDue
<1>8. ASSUME NEW k \in calls, NEW expired \in SUBSET pending, ProbeBegin(k, expired)
      PROVE  ReaderTypeOK'
  BY <1>0, <1>8, Zenon DEF ProbeBegin
<1>9. ASSUME NEW p \in probes, ProbeEnd(p)
      PROVE  ReaderTypeOK'
  BY <1>0, <1>9, Zenon DEF ProbeEnd
<1>10. ASSUME NEW p \in probes, NEW a \in p.todo, ProbePing(p, a)
      PROVE  ReaderTypeOK'
  BY <1>0, <1>10, Zenon DEF ProbePing
<1>11. ASSUME NEW r \in 1..MaxGen, NEW d \in Discos, NEW kind \in {"ping", "pong"},
              NEW a \in Addrs, NEW tx \in 0..MaxTx, NEW claimed \in Keys \cup {Null},
              FindSender(r, d, kind, a, tx, claimed)
      PROVE  ReaderTypeOK'
  <2>1. byDisco[d] \in known => [stage |-> kind, node |-> byDisco[d], addr |-> a, tx |-> tx] \in Packets
    BY <1>0, <1>11, Zenon DEF Packets
  <2>2. ReadNext(r) \in {Idle, Exited}
    BY Zenon DEF ReadNext
  <2> QED
    BY <1>0, <1>11, <2>1, <2>2, Zenon DEF FindSender
<1>12. ASSUME NEW d \in Discos, NEW k \in Keys, NEW addrs \in SUBSET Addrs, FindCaller(d, k, addrs)
      PROVE  ReaderTypeOK'
  BY <1>0, <1>12, Zenon DEF FindCaller, Offers
<1>13. ASSUME NEW r \in 1..MaxGen, HandlePing(r)
      PROVE  ReaderTypeOK'
  BY <1>0, <1>13, Zenon DEF HandlePing, ReadNext
<1>14. ASSUME NEW r \in 1..MaxGen, TakePing(r)
      PROVE  ReaderTypeOK'
  <2>1. [stage |-> "answered", node |-> reader[r].node, addr |-> reader[r].addr,
         tx |-> reader[r].tx] \in Packets
    BY <1>0, <1>14, ReaderType, Zenon DEF TakePing, Packets
  <2>2. ReadNext(r) \in {Idle, Exited}
    BY Zenon DEF ReadNext
  <2> QED
    BY <1>0, <1>14, <2>1, <2>2, Zenon DEF TakePing
<1>15. ASSUME NEW r \in 1..MaxGen, HandlePong(r)
      PROVE  ReaderTypeOK'
  BY <1>0, <1>15, Zenon DEF HandlePong, ReadNext
<1>16. ASSUME NEW old \in SUBSET Addrs, NEW new \in SUBSET Addrs, HandleCallMe(old, new)
      PROVE  ReaderTypeOK'
  BY <1>0, <1>16, Zenon DEF HandleCallMe
<1>17. CASE UNCHANGED vars
  BY <1>0, <1>17, Zenon DEF vars
<1> QED
  BY <1>1, <1>2, <1>3, <1>4, <1>5, <1>6, <1>7, <1>8, <1>9, <1>10, <1>11,
     <1>12, <1>13, <1>14, <1>15, <1>16, <1>17, Zenon
  DEF Next

\* RemovePeer forgets everything, and nothing is added to a removed peer.
LEMMA BlankStep == IndInv /\ [Next]_vars => Blank'
<1> SUFFICES ASSUME IndInv, [Next]_vars PROVE Blank'
  BY Zenon
<1>0. /\ known \in SUBSET Keys /\ disco \in [Keys -> Discos \cup {Null}]
      /\ eps \in [Keys -> SUBSET Addrs] /\ cand \in [Keys -> SUBSET Addrs]
      /\ learned \in [Keys -> SUBSET Addrs] /\ direct \in [Keys -> Addrs \cup {Null}]
      /\ Blank /\ CandidatesAgree
  BY Zenon DEF IndInv, TypeOK, TableTypeOK
<1> USE DEF Blank,
          vars, peerVars, indexVars, pingVars, readerVars, historyVars
<1>1. ASSUME NEW old \in [Keys -> SUBSET Addrs], Open(old)
      PROVE  Blank'
  BY <1>0, <1>1, Zenon DEF Open, Pruned
<1>2. ASSUME NEW old \in [Keys -> SUBSET Addrs], Maintain(old)
      PROVE  Blank'
  BY <1>0, <1>2, Zenon DEF Maintain, Pruned
<1>3. ASSUME NEW c \in Configs, UpdatePeer(c)
      PROVE  Blank'
  <2>1. PICK k \in Keys, d \in Discos \cup {Null}, e \in SUBSET Addrs :
          k = c.key /\ d = c.disco /\ e = c.eps
    BY <1>0, <1>3, ConfigType, Zenon
  <2> QED
    BY <1>0, <1>3, <2>1, Zenon DEF UpdatePeer
<1>4. ASSUME NEW k \in Keys, RemovePeer(k)
      PROVE  Blank'
  BY <1>0, <1>4, Zenon DEF RemovePeer
<1>5. ASSUME NEW k \in Keys, NEW a \in Addrs, Redirected(k, a)
      PROVE  Blank'
  BY <1>0, <1>5, Zenon DEF Redirected
<1>6. ASSUME NEW k \in Keys, NEW addrs \in SUBSET Addrs,
             NEW old \in SUBSET Addrs, NEW new \in SUBSET Addrs, Learned(k, addrs, old, new)
      PROVE  Blank'
  BY <1>0, <1>6, Zenon DEF Learned, Learn, Rebuilt
<1>7. CASE UNCHANGED tableVars
  BY <1>0, <1>7, Zenon DEF tableVars
<1> QED
  BY <1>1, <1>2, <1>3, <1>4, <1>5, <1>6, <1>7, Effect, Zenon

\* Candidates are rebuilt wherever endpoints or learned candidates change.
LEMMA CandidatesStep == IndInv /\ [Next]_vars => CandidatesAgree'
<1> SUFFICES ASSUME IndInv, [Next]_vars PROVE CandidatesAgree'
  BY Zenon
<1>0. /\ known \in SUBSET Keys /\ disco \in [Keys -> Discos \cup {Null}]
      /\ eps \in [Keys -> SUBSET Addrs] /\ cand \in [Keys -> SUBSET Addrs]
      /\ learned \in [Keys -> SUBSET Addrs] /\ direct \in [Keys -> Addrs \cup {Null}]
      /\ Blank /\ CandidatesAgree
  BY Zenon DEF IndInv, TypeOK, TableTypeOK
<1> USE DEF CandidatesAgree,
          vars, peerVars, indexVars, pingVars, readerVars, historyVars
<1>1. ASSUME NEW old \in [Keys -> SUBSET Addrs], Open(old)
      PROVE  CandidatesAgree'
  BY <1>0, <1>1, Zenon DEF Open, Pruned
<1>2. ASSUME NEW old \in [Keys -> SUBSET Addrs], Maintain(old)
      PROVE  CandidatesAgree'
  BY <1>0, <1>2, Zenon DEF Maintain, Pruned
<1>3. ASSUME NEW c \in Configs, UpdatePeer(c)
      PROVE  CandidatesAgree'
  <2>1. PICK k \in Keys, d \in Discos \cup {Null}, e \in SUBSET Addrs :
          k = c.key /\ d = c.disco /\ e = c.eps
    BY <1>0, <1>3, ConfigType, Zenon
  <2> QED
    BY <1>0, <1>3, <2>1, Zenon DEF UpdatePeer
<1>4. ASSUME NEW k \in Keys, RemovePeer(k)
      PROVE  CandidatesAgree'
  BY <1>0, <1>4, Zenon DEF RemovePeer
<1>5. ASSUME NEW k \in Keys, NEW a \in Addrs, Redirected(k, a)
      PROVE  CandidatesAgree'
  BY <1>0, <1>5, Zenon DEF Redirected
<1>6. ASSUME NEW k \in Keys, NEW addrs \in SUBSET Addrs,
             NEW old \in SUBSET Addrs, NEW new \in SUBSET Addrs, Learned(k, addrs, old, new)
      PROVE  CandidatesAgree'
  BY <1>0, <1>6, Zenon DEF Learned, Learn, Rebuilt
<1>7. CASE UNCHANGED tableVars
  BY <1>0, <1>7, Zenon DEF tableVars
<1> QED
  BY <1>1, <1>2, <1>3, <1>4, <1>5, <1>6, <1>7, Effect, Zenon

\* The index by DISCO key names the owners of the keys.
LEMMA DiscoSoundStep == IndInv /\ [Next]_vars => DiscoSound'
<1> SUFFICES ASSUME IndInv, [Next]_vars PROVE DiscoSound'
  BY Zenon
<1>0. /\ known \in SUBSET Keys /\ disco \in [Keys -> Discos \cup {Null}]
      /\ byDisco \in [Discos -> Keys \cup {Null}] /\ Null \notin Keys /\ Null \notin Discos
      /\ Blank /\ DiscoSound /\ SharedKnown /\ DiscoComplete
  BY PeerTableConstants, Zenon DEF IndInv, TypeOK, TableTypeOK
<1> USE DEF DiscoSound,
          vars, peerVars, indexVars, pingVars, readerVars, historyVars
<1>1. ASSUME NEW old \in [Keys -> SUBSET Addrs], Open(old)
      PROVE  DiscoSound'
  BY <1>0, <1>1, Zenon DEF Open
<1>2. ASSUME NEW old \in [Keys -> SUBSET Addrs], Maintain(old)
      PROVE  DiscoSound'
  BY <1>0, <1>2, Zenon DEF Maintain
<1>3. ASSUME NEW c \in Configs, UpdatePeer(c)
      PROVE  DiscoSound'
  <2>1. PICK k \in Keys, d \in Discos \cup {Null}, e \in SUBSET Addrs :
          k = c.key /\ d = c.disco /\ e = c.eps
    BY <1>0, <1>3, ConfigType, Zenon
  <2> QED
    BY <1>0, <1>3, <2>1, Zenon DEF UpdatePeer, DiscoIndexed
<1>4. ASSUME NEW k \in Keys, RemovePeer(k)
      PROVE  DiscoSound'
  BY <1>0, <1>4, Zenon DEF RemovePeer
<1>5. ASSUME NEW k \in Keys, NEW a \in Addrs, Redirected(k, a)
      PROVE  DiscoSound'
  BY <1>0, <1>5, Zenon DEF Redirected
<1>6. ASSUME NEW k \in Keys, NEW addrs \in SUBSET Addrs,
             NEW old \in SUBSET Addrs, NEW new \in SUBSET Addrs, Learned(k, addrs, old, new)
      PROVE  DiscoSound'
  BY <1>0, <1>6, Zenon DEF Learned
<1>7. CASE UNCHANGED tableVars
  BY <1>0, <1>7, Zenon DEF tableVars
<1> QED
  BY <1>1, <1>2, <1>3, <1>4, <1>5, <1>6, <1>7, Effect, Zenon

\* A key that two peers have is recorded as shared.
LEMMA SharedStep == IndInv /\ [Next]_vars => SharedKnown'
<1> SUFFICES ASSUME IndInv, [Next]_vars PROVE SharedKnown'
  BY Zenon
<1>0. /\ known \in SUBSET Keys /\ disco \in [Keys -> Discos \cup {Null}]
      /\ byDisco \in [Discos -> Keys \cup {Null}] /\ Null \notin Keys /\ Null \notin Discos
      /\ Blank /\ DiscoSound /\ SharedKnown /\ DiscoComplete
  BY PeerTableConstants, Zenon DEF IndInv, TypeOK, TableTypeOK
<1> USE DEF SharedKnown,
          vars, peerVars, indexVars, pingVars, readerVars, historyVars
<1>1. ASSUME NEW old \in [Keys -> SUBSET Addrs], Open(old)
      PROVE  SharedKnown'
  BY <1>0, <1>1, Zenon DEF Open
<1>2. ASSUME NEW old \in [Keys -> SUBSET Addrs], Maintain(old)
      PROVE  SharedKnown'
  BY <1>0, <1>2, Zenon DEF Maintain
<1>3. ASSUME NEW c \in Configs, UpdatePeer(c)
      PROVE  SharedKnown'
  <2>1. PICK k \in Keys, d \in Discos \cup {Null}, e \in SUBSET Addrs :
          k = c.key /\ d = c.disco /\ e = c.eps
    BY <1>0, <1>3, ConfigType, Zenon
  <2> QED
    BY <1>0, <1>3, <2>1 DEF UpdatePeer, Blank
<1>4. ASSUME NEW k \in Keys, RemovePeer(k)
      PROVE  SharedKnown'
  BY <1>0, <1>4, Zenon DEF RemovePeer
<1>5. ASSUME NEW k \in Keys, NEW a \in Addrs, Redirected(k, a)
      PROVE  SharedKnown'
  BY <1>0, <1>5, Zenon DEF Redirected
<1>6. ASSUME NEW k \in Keys, NEW addrs \in SUBSET Addrs,
             NEW old \in SUBSET Addrs, NEW new \in SUBSET Addrs, Learned(k, addrs, old, new)
      PROVE  SharedKnown'
  BY <1>0, <1>6, Zenon DEF Learned
<1>7. CASE UNCHANGED tableVars
  BY <1>0, <1>7, Zenon DEF tableVars
<1> QED
  BY <1>1, <1>2, <1>3, <1>4, <1>5, <1>6, <1>7, Effect, Zenon

\* Every key that only one peer has had is indexed.
LEMMA DiscoCompleteStep == IndInv /\ [Next]_vars => DiscoComplete'
<1> SUFFICES ASSUME IndInv, [Next]_vars PROVE DiscoComplete'
  BY Zenon
<1>0. /\ known \in SUBSET Keys /\ disco \in [Keys -> Discos \cup {Null}]
      /\ byDisco \in [Discos -> Keys \cup {Null}] /\ Null \notin Keys /\ Null \notin Discos
      /\ Blank /\ DiscoSound /\ SharedKnown /\ DiscoComplete
  BY PeerTableConstants, Zenon DEF IndInv, TypeOK, TableTypeOK
<1> USE DEF DiscoComplete,
          vars, peerVars, indexVars, pingVars, readerVars, historyVars
<1>1. ASSUME NEW old \in [Keys -> SUBSET Addrs], Open(old)
      PROVE  DiscoComplete'
  BY <1>0, <1>1, Zenon DEF Open
<1>2. ASSUME NEW old \in [Keys -> SUBSET Addrs], Maintain(old)
      PROVE  DiscoComplete'
  BY <1>0, <1>2, Zenon DEF Maintain
<1>3. ASSUME NEW c \in Configs, UpdatePeer(c)
      PROVE  DiscoComplete'
  <2>1. PICK k \in Keys, d \in Discos \cup {Null}, e \in SUBSET Addrs :
          k = c.key /\ d = c.disco /\ e = c.eps
    BY <1>0, <1>3, ConfigType, Zenon
  <2> QED
    BY <1>0, <1>3, <2>1, Zenon DEF UpdatePeer, DiscoIndexed, SharedKnown, Blank
<1>4. ASSUME NEW k \in Keys, RemovePeer(k)
      PROVE  DiscoComplete'
  BY <1>0, <1>4, Zenon DEF RemovePeer, SharedKnown
<1>5. ASSUME NEW k \in Keys, NEW a \in Addrs, Redirected(k, a)
      PROVE  DiscoComplete'
  BY <1>0, <1>5, Zenon DEF Redirected
<1>6. ASSUME NEW k \in Keys, NEW addrs \in SUBSET Addrs,
             NEW old \in SUBSET Addrs, NEW new \in SUBSET Addrs, Learned(k, addrs, old, new)
      PROVE  DiscoComplete'
  BY <1>0, <1>6, Zenon DEF Learned
<1>7. CASE UNCHANGED tableVars
  BY <1>0, <1>7, Zenon DEF tableVars
<1> QED
  BY <1>1, <1>2, <1>3, <1>4, <1>5, <1>6, <1>7, Effect, Zenon

\* The index by address names peers that hold the addresses.
LEMMA AddrSoundStep == IndInv /\ [Next]_vars => AddrSound'
<1> SUFFICES ASSUME IndInv, [Next]_vars,
                    NEW x \in Addrs
             PROVE  Owned(x)'
  BY Zenon DEF AddrSound
<1>0. /\ known \in SUBSET Keys /\ disco \in [Keys -> Discos \cup {Null}]
      /\ eps \in [Keys -> SUBSET Addrs] /\ cand \in [Keys -> SUBSET Addrs]
      /\ learned \in [Keys -> SUBSET Addrs] /\ direct \in [Keys -> Addrs \cup {Null}]
      /\ byAddr \in [Addrs -> Keys \cup {Null}] /\ Null \notin Keys /\ Null \notin Addrs
      /\ dropped \in SUBSET (Keys \X Addrs)
      /\ Blank /\ CandidatesAgree /\ Owned(x)
  BY PeerTableConstants, Zenon DEF IndInv, TypeOK, TableTypeOK, AddrSound
<1> USE DEF Owned, Held,
          vars, peerVars, indexVars, pingVars, readerVars, historyVars
<1>1. ASSUME NEW old \in [Keys -> SUBSET Addrs], Open(old)
      PROVE  Owned(x)'
  <2>1. byAddr'[x] # Null => \E k \in Keys : byAddr'[x] = k /\ x \in cand'[k]
    BY <1>0, <1>1, Zenon DEF Open, Rebuild
  <2>2. ASSUME NEW k \in Keys, x \in cand'[k] PROVE k \in known
    BY <1>0, <1>1, <2>2, Zenon DEF Open, Pruned, Blank
  <2> QED
    BY <1>0, <1>1, <2>1, <2>2, Zenon DEF Open
<1>2. ASSUME NEW old \in [Keys -> SUBSET Addrs], Maintain(old)
      PROVE  Owned(x)'
  BY <1>0, <1>2 DEF Maintain, Pruned, CandidatesAgree
<1>3. ASSUME NEW c \in Configs, UpdatePeer(c)
      PROVE  Owned(x)'
  <2>1. PICK k \in Keys, d \in Discos \cup {Null}, e \in SUBSET Addrs :
          k = c.key /\ d = c.disco /\ e = c.eps
    BY <1>0, <1>3, ConfigType, Zenon
  <2> QED
    BY <1>0, <1>3, <2>1, Zenon DEF UpdatePeer, DirectIndexed, Reindexed
<1>4. ASSUME NEW k \in Keys, RemovePeer(k)
      PROVE  Owned(x)'
  BY <1>0, <1>4, Zenon DEF RemovePeer, Unindexed
<1>5. ASSUME NEW k \in Keys, NEW a \in Addrs, Redirected(k, a)
      PROVE  Owned(x)'
  BY <1>0, <1>5 DEF Redirected, PathIndexed
<1>6. ASSUME NEW k \in Keys, NEW addrs \in SUBSET Addrs,
             NEW old \in SUBSET Addrs, NEW new \in SUBSET Addrs, Learned(k, addrs, old, new)
      PROVE  Owned(x)'
  <2>2. Record /\ UNCHANGED <<direct, eps, known>>
    BY <1>0, <1>6, Zenon DEF Learned
  <2> DEFINE kept == learned[k] \ old
  <2>3. /\ cand' = [cand EXCEPT ![k] = eps[k] \cup kept \cup new]
        /\ cand[k] = eps[k] \cup learned[k] /\ old \subseteq learned[k]
    <3>1. cand[k] = eps[k] \cup learned[k] /\ old \subseteq learned[k]
      BY <1>0, <1>6, Zenon DEF Learned, Learn, CandidatesAgree
    <3>2. Rebuilt(k, old, new) = eps[k] \cup kept \cup new
      BY <3>1, Zenon DEF Rebuilt
    <3> QED
      BY <1>0, <1>6, <3>1, <3>2, Zenon DEF Learned, Learn
  <2>4. PICK fresh \in SUBSET Addrs :
          fresh = new \cup (addrs \cap kept) /\ byAddr' = LearnedIndexed(k, old, fresh)
    BY <1>0, <1>6, Zenon DEF Learned, Learn
  <2>5. byAddr'[x] = k /\ x \notin fresh => byAddr[x] = k /\ (x \notin old \/ direct[k] = x)
    BY <1>0, <1>6, <2>4, Zenon DEF LearnedIndexed
  <2>6. x \in fresh \/ (x \in cand[k] /\ x \notin old) => x \in cand'[k]
    BY <1>0, <1>6, <2>3, <2>4, Zenon
  <2>7. CASE byAddr'[x] = k
    BY <1>0, <1>6, <2>2, <2>5, <2>6, <2>7 DEF Learned
  <2>8. CASE byAddr'[x] # k
    BY <1>0, <1>6, <2>2, <2>3, <2>4, <2>8, Zenon DEF LearnedIndexed
  <2> QED
    BY <2>7, <2>8, Zenon
<1>7. CASE UNCHANGED tableVars
  BY <1>0, <1>7, Zenon DEF tableVars
<1> QED
  BY <1>1, <1>2, <1>3, <1>4, <1>5, <1>6, <1>7, Effect, Zenon

\* An address that two peers hold is recorded as contested.
LEMMA ContestedStep == IndInv /\ [Next]_vars => ContestedKnown'
<1> SUFFICES ASSUME IndInv, [Next]_vars,
                    NEW x \in Addrs, NEW j \in Keys, NEW l \in Keys
             PROVE  Noticed(x, j, l)'
  BY Zenon DEF ContestedKnown
<1>0. /\ known \in SUBSET Keys /\ disco \in [Keys -> Discos \cup {Null}]
      /\ eps \in [Keys -> SUBSET Addrs] /\ cand \in [Keys -> SUBSET Addrs]
      /\ learned \in [Keys -> SUBSET Addrs] /\ direct \in [Keys -> Addrs \cup {Null}]
      /\ byAddr \in [Addrs -> Keys \cup {Null}] /\ Null \notin Keys /\ Null \notin Addrs
      /\ dropped \in SUBSET (Keys \X Addrs)
      /\ Blank /\ CandidatesAgree /\ Noticed(x, j, l)
  BY PeerTableConstants, Zenon DEF IndInv, TypeOK, TableTypeOK, ContestedKnown
<1> USE DEF Noticed, Held,
          vars, peerVars, indexVars, pingVars, readerVars, historyVars
<1>1. ASSUME NEW old \in [Keys -> SUBSET Addrs], Open(old)
      PROVE  Noticed(x, j, l)'
  BY <1>0, <1>1, Zenon DEF Open, Record
<1>2. ASSUME NEW old \in [Keys -> SUBSET Addrs], Maintain(old)
      PROVE  Noticed(x, j, l)'
  BY <1>0, <1>2, Zenon DEF Maintain, Record
<1>3. ASSUME NEW c \in Configs, UpdatePeer(c)
      PROVE  Noticed(x, j, l)'
  <2>1. PICK k \in Keys, d \in Discos \cup {Null}, e \in SUBSET Addrs :
          k = c.key /\ d = c.disco /\ e = c.eps
    BY <1>0, <1>3, ConfigType, Zenon
  <2> QED
    BY <1>0, <1>3, <2>1, Zenon DEF UpdatePeer
<1>4. ASSUME NEW k \in Keys, RemovePeer(k)
      PROVE  Noticed(x, j, l)'
  BY <1>0, <1>4, Zenon DEF RemovePeer, Held
<1>5. ASSUME NEW k \in Keys, NEW a \in Addrs, Redirected(k, a)
      PROVE  Noticed(x, j, l)'
  BY <1>0, <1>5, Zenon DEF Redirected, Record
<1>6. ASSUME NEW k \in Keys, NEW addrs \in SUBSET Addrs,
             NEW old \in SUBSET Addrs, NEW new \in SUBSET Addrs, Learned(k, addrs, old, new)
      PROVE  Noticed(x, j, l)'
  BY <1>0, <1>6, Zenon DEF Learned, Learn, Record
<1>7. CASE UNCHANGED tableVars
  BY <1>0, <1>7, Zenon DEF tableVars
<1> QED
  BY <1>1, <1>2, <1>3, <1>4, <1>5, <1>6, <1>7, Effect, Zenon

\* Every address that only one peer has held is indexed.
LEMMA AddrCompleteStep == IndInv /\ [Next]_vars => AddrComplete'
<1> SUFFICES ASSUME IndInv, [Next]_vars,
                    NEW j \in Keys, NEW x \in Addrs
             PROVE  Indexed(j, x)'
  BY Zenon DEF AddrComplete
<1>0. /\ known \in SUBSET Keys /\ disco \in [Keys -> Discos \cup {Null}]
      /\ eps \in [Keys -> SUBSET Addrs] /\ cand \in [Keys -> SUBSET Addrs]
      /\ learned \in [Keys -> SUBSET Addrs] /\ direct \in [Keys -> Addrs \cup {Null}]
      /\ byAddr \in [Addrs -> Keys \cup {Null}] /\ Null \notin Keys /\ Null \notin Addrs
      /\ dropped \in SUBSET (Keys \X Addrs)
      /\ Blank /\ CandidatesAgree /\ Owned(x) /\ Indexed(j, x)
      /\ \A l \in Keys : Noticed(x, j, l)
  BY PeerTableConstants, Zenon
  DEF IndInv, TypeOK, TableTypeOK, AddrSound, ContestedKnown, AddrComplete
<1> USE DEF Indexed, Held,
          vars, peerVars, indexVars, pingVars, readerVars, historyVars
<1>1. ASSUME NEW old \in [Keys -> SUBSET Addrs], Open(old)
      PROVE  Indexed(j, x)'
  BY <1>0, <1>1, Zenon DEF Open, Pruned, Rebuild, Record
<1>2. ASSUME NEW old \in [Keys -> SUBSET Addrs], Maintain(old)
      PROVE  Indexed(j, x)'
  <2>1. /\ Record /\ direct' = direct
        /\ cand'[j] = IF old[j] = {} THEN cand[j] ELSE eps[j] \cup (learned[j] \ old[j])
        /\ old[j] \subseteq learned[j]
        /\ byAddr'[x] = IF \E k \in Keys : byAddr[x] = k /\ x \in old[k] /\ direct[k] # x
                        THEN Null ELSE byAddr[x]
    BY <1>2, Zenon DEF Maintain, Pruned
  <2>2. /\ x \in contested => x \in contested'
        /\ <<j, x>> \in dropped => <<j, x>> \in dropped' \/ byAddr'[x] = j
    BY <2>1, Recorded, Zenon
  <2>3. cand[j] = eps[j] \cup learned[j] /\ learned[j] \cap eps[j] = {}
    BY <1>0, Zenon DEF CandidatesAgree
  <2>4. x \in Held(j)' => x \in Held(j) /\ (x \in old[j] => direct[j] = x)
    BY <2>1, <2>3, Zenon
  <2>5. SUFFICES ASSUME x \in Held(j)', x \in Held(j), byAddr[x] = j PROVE byAddr'[x] = j
    BY <1>0, <2>2, <2>4, Zenon
  <2> QED
    BY <2>1, <2>4, <2>5, Zenon
<1>3. ASSUME NEW c \in Configs, UpdatePeer(c)
      PROVE  Indexed(j, x)'
  <2>1. PICK k \in Keys, d \in Discos \cup {Null}, e \in SUBSET Addrs :
          k = c.key /\ d = c.disco /\ e = c.eps
    BY <1>0, <1>3, ConfigType, Zenon
  <2> QED
    BY <1>0, <1>3, <2>1, Zenon DEF UpdatePeer, DirectIndexed, Reindexed, Noticed, Blank
<1>4. ASSUME NEW k \in Keys, RemovePeer(k)
      PROVE  Indexed(j, x)'
  BY <1>0, <1>4, Zenon DEF RemovePeer, Unindexed, Noticed
<1>5. ASSUME NEW k \in Keys, NEW a \in Addrs, Redirected(k, a)
      PROVE  Indexed(j, x)'
  <2>1. /\ Record /\ byAddr' = PathIndexed(k, a) /\ cand' = cand
        /\ direct' = [direct EXCEPT ![k] = a]
    BY <1>0, <1>5, Zenon DEF Redirected
  <2>2. /\ x \in contested => x \in contested'
        /\ j # k /\ x \in Held(j)' /\ x \in Held(k)' => x \in contested'
        /\ <<j, x>> \in dropped => <<j, x>> \in dropped' \/ byAddr'[x] = j
    BY <2>1, Recorded, Zenon
  <2>3. CASE j = k
    BY <1>0, <1>5, <2>1, <2>2, <2>3, Zenon DEF PathIndexed
  <2>4. CASE j # k
    BY <1>0, <1>5, <2>1, <2>2, <2>4, Zenon DEF PathIndexed, Noticed
  <2> QED
    BY <2>3, <2>4, Zenon
<1>6. ASSUME NEW k \in Keys, NEW addrs \in SUBSET Addrs,
             NEW old \in SUBSET Addrs, NEW new \in SUBSET Addrs, Learned(k, addrs, old, new)
      PROVE  Indexed(j, x)'
  <2>2. Record /\ UNCHANGED <<direct, eps, known>>
    BY <1>0, <1>6, Zenon DEF Learned
  <2> DEFINE kept == learned[k] \ old
  <2>3. /\ cand' = [cand EXCEPT ![k] = eps[k] \cup kept \cup new]
        /\ cand[k] = eps[k] \cup learned[k] /\ old \subseteq learned[k]
    <3>1. cand[k] = eps[k] \cup learned[k] /\ old \subseteq learned[k]
      BY <1>0, <1>6, Zenon DEF Learned, Learn, CandidatesAgree
    <3>2. Rebuilt(k, old, new) = eps[k] \cup kept \cup new
      BY <3>1, Zenon DEF Rebuilt
    <3> QED
      BY <1>0, <1>6, <3>1, <3>2, Zenon DEF Learned, Learn
  <2>4. PICK fresh \in SUBSET Addrs :
          fresh = new \cup (addrs \cap kept) /\ byAddr' = LearnedIndexed(k, old, fresh)
    BY <1>0, <1>6, Zenon DEF Learned, Learn
  <2>5. /\ x \in contested => x \in contested'
        /\ j # k /\ x \in Held(j)' /\ x \in Held(k)' => x \in contested'
        /\ <<j, x>> \in dropped => <<j, x>> \in dropped' \/ byAddr'[x] = j
    BY <2>2, Recorded, Zenon
  <2>6. x \in fresh => x \in cand'[k]
    BY <1>0, <1>6, <2>3, <2>4, Zenon
  <2>7. CASE j = k
    <3>1. x \in cand'[k] => x \in fresh \/ (x \in cand[k] /\ x \notin old)
      BY <1>0, <1>6, <2>3, <2>4, Zenon DEF CandidatesAgree
    <3> QED
      BY <1>0, <1>6, <2>2, <2>4, <2>5, <2>7, <3>1, Zenon DEF LearnedIndexed
  <2>8. CASE j # k
    <3>1. cand'[j] = cand[j]
      BY <1>0, <1>6, <2>3, <2>8, Zenon
    <3>2. x \in old => x \in cand[k]
      BY <2>3, Zenon
    <3> QED
      BY <1>0, <1>6, <2>2, <2>4, <2>5, <2>6, <2>8, <3>1, <3>2, Zenon DEF LearnedIndexed, Noticed
  <2> QED
    BY <2>7, <2>8, Zenon
<1>7. CASE UNCHANGED tableVars
  BY <1>0, <1>7, Zenon DEF tableVars
<1> QED
  BY <1>1, <1>2, <1>3, <1>4, <1>5, <1>6, <1>7, Effect, Zenon

\* Wherever endpoints or the generation change, the throttle is reset.
LEMMA ThrottledStep == IndInv /\ [Next]_vars => ThrottledWasAsked'
<1> SUFFICES ASSUME IndInv, [Next]_vars PROVE ThrottledWasAsked'
  BY Zenon
<1>0. /\ known \in SUBSET Keys /\ calls \in SUBSET Keys /\ gen \in 0..MaxGen
      /\ eps \in [Keys -> SUBSET Addrs] /\ cand \in [Keys -> SUBSET Addrs]
      /\ probed \in [Keys -> BOOLEAN]
      /\ asked \in [Keys -> [addrs : SUBSET Addrs, gen : 0..MaxGen]]
      /\ CandidatesAgree /\ ThrottledWasAsked
  BY Zenon DEF IndInv, TypeOK, TableTypeOK, ProbeTypeOK
<1> USE DEF ThrottledWasAsked,
          vars, peerVars, indexVars, pingVars, readerVars, historyVars
<1>1. ASSUME NEW old \in [Keys -> SUBSET Addrs], Open(old)
      PROVE  ThrottledWasAsked'
  BY <1>0, <1>1, Zenon DEF Open
<1>2. ASSUME NEW old \in [Keys -> SUBSET Addrs], Maintain(old)
      PROVE  ThrottledWasAsked'
  BY <1>0, <1>2, Zenon DEF Maintain
<1>3. CASE Close
  BY <1>0, <1>3, Zenon DEF Close
<1>4. CASE CloseSocket
  BY <1>0, <1>4, Zenon DEF CloseSocket
<1>5. ASSUME NEW c \in Configs, UpdatePeer(c)
      PROVE  ThrottledWasAsked'
  <2>1. PICK k \in Keys, d \in Discos \cup {Null}, e \in SUBSET Addrs :
          k = c.key /\ d = c.disco /\ e = c.eps
    BY <1>0, <1>5, ConfigType, Zenon
  <2> QED
    BY <1>0, <1>5, <2>1, Zenon DEF UpdatePeer, Unthrottled
<1>6. ASSUME NEW k \in Keys, RemovePeer(k)
      PROVE  ThrottledWasAsked'
  BY <1>0, <1>6, Zenon DEF RemovePeer
<1>7. ASSUME NEW k \in Keys, ProbeDue(k)
      PROVE  ThrottledWasAsked'
  BY <1>0, <1>7, Zenon DEF ProbeDue
<1>8. ASSUME NEW k \in calls, NEW expired \in SUBSET pending, ProbeBegin(k, expired)
      PROVE  ThrottledWasAsked'
  <2>1. k \in Keys
    BY <1>0, <1>8, Zenon
  <2>2. CASE k \in known /\ disco[k] # Null /\ open /\ ~probed[k]
    <3>1. asked' = [asked EXCEPT ![k] = [addrs |-> cand[k], gen |-> gen]] /\ eps[k] \subseteq cand[k]
      BY <1>0, <1>8, <2>1, <2>2, Zenon DEF ProbeBegin, CandidatesAgree
    <3>2. asked'[k].addrs = cand[k] /\ asked'[k].gen = gen
      BY <1>0, <1>8, <2>1, <3>1, Zenon
    <3>3. \A j \in Keys : j # k => asked'[j] = asked[j] /\ probed'[j] = probed[j]
      BY <1>0, <1>8, <2>1, <2>2, Zenon DEF ProbeBegin
    <3> QED
      BY <1>0, <1>8, <3>1, <3>2, <3>3, Zenon DEF ProbeBegin
  <2>3. CASE ~(k \in known /\ disco[k] # Null /\ open /\ ~probed[k])
    BY <1>0, <1>8, <2>3, Zenon DEF ProbeBegin
  <2> QED
    BY <2>2, <2>3, Zenon
<1>9. ASSUME NEW p \in probes, ProbeEnd(p)
      PROVE  ThrottledWasAsked'
  BY <1>0, <1>9, Zenon DEF ProbeEnd
<1>10. ASSUME NEW p \in probes, NEW a \in p.todo, ProbePing(p, a)
      PROVE  ThrottledWasAsked'
  BY <1>0, <1>10, Zenon DEF ProbePing
<1>11. ASSUME NEW r \in 1..MaxGen, NEW d \in Discos, NEW kind \in {"ping", "pong"},
              NEW a \in Addrs, NEW tx \in 0..MaxTx, NEW claimed \in Keys \cup {Null},
              FindSender(r, d, kind, a, tx, claimed)
      PROVE  ThrottledWasAsked'
  BY <1>0, <1>11, Zenon DEF FindSender
<1>12. ASSUME NEW d \in Discos, NEW k \in Keys, NEW addrs \in SUBSET Addrs, FindCaller(d, k, addrs)
      PROVE  ThrottledWasAsked'
  BY <1>0, <1>12, Zenon DEF FindCaller
<1>13. ASSUME NEW r \in 1..MaxGen, HandlePing(r)
      PROVE  ThrottledWasAsked'
  <2>1. PICK k \in Keys, a \in Addrs : SetDirect(k, a, r)
    BY <1>0, <1>13, ReaderType, Zenon DEF HandlePing, IndInv
  <2>2. CASE k \notin known
    BY <1>0, <1>13, <2>1, <2>2, Zenon DEF HandlePing, SetDirect
  <2>3. CASE k \in known
    BY <1>0, <1>13, <2>1, <2>3, Zenon DEF HandlePing, SetDirect
  <2> QED
    BY <2>2, <2>3, Zenon
<1>14. ASSUME NEW r \in 1..MaxGen, TakePing(r)
      PROVE  ThrottledWasAsked'
  BY <1>0, <1>14, Zenon DEF TakePing
<1>15. ASSUME NEW r \in 1..MaxGen, HandlePong(r)
      PROVE  ThrottledWasAsked'
  <2>1. PICK k \in Keys, a \in Addrs : SetDirect(k, a, r)
    BY <1>0, <1>15, ReaderType, Zenon DEF HandlePong, IndInv
  <2>2. CASE k \notin known
    BY <1>0, <1>15, <2>1, <2>2, Zenon DEF HandlePong, SetDirect
  <2>3. CASE k \in known
    BY <1>0, <1>15, <2>1, <2>3, Zenon DEF HandlePong, SetDirect
  <2> QED
    BY <2>2, <2>3, Zenon
<1>16. ASSUME NEW old \in SUBSET Addrs, NEW new \in SUBSET Addrs, HandleCallMe(old, new)
      PROVE  ThrottledWasAsked'
  <2>1. CASE relay.node \notin known
    BY <1>0, <1>16, <2>1, Zenon DEF HandleCallMe
  <2>2. CASE relay.node \in known
    <3>1. PICK k \in Keys, addrs \in SUBSET Addrs :
            k \in known /\ Learn(k, addrs, old, new)
      BY <1>0, <1>16, <2>2, RelayType, Zenon DEF HandleCallMe, IndInv
    <3> QED
      BY <1>0, <1>16, <2>2, <3>1, Zenon DEF HandleCallMe, Learn
  <2> QED
    BY <2>1, <2>2, Zenon
<1>17. CASE UNCHANGED vars
  BY <1>0, <1>17, Zenon DEF vars
<1> QED
  BY <1>1, <1>2, <1>3, <1>4, <1>5, <1>6, <1>7, <1>8, <1>9, <1>10, <1>11,
     <1>12, <1>13, <1>14, <1>15, <1>16, <1>17, Zenon
  DEF Next

\* The inductive invariant holds in every reachable state.
THEOREM Invariance == Spec => []IndInv
<1>1. Init => IndInv
  <2> SUFFICES ASSUME Init PROVE IndInv
    BY Zenon
  <2> USE PeerTableConstants DEF Init
  <2>1. TypeOK
    <3>1. TableTypeOK
      BY Zenon DEF TableTypeOK
    <3>2. ProbeTypeOK
      <4>1. probed \in [Keys -> BOOLEAN]
        BY Zenon
      <4>2. asked \in [Keys -> [addrs : SUBSET Addrs, gen : 0..MaxGen]]
        <5>1. asked = [k \in Keys |-> [addrs |-> {}, gen |-> 0]] /\ 0 \in 0..MaxGen
          OBVIOUS
        <5>2. [addrs |-> {}, gen |-> 0] \in [addrs : SUBSET Addrs, gen : 0..MaxGen]
          BY <5>1, Zenon
        <5> HIDE DEF Init
        <5> QED
          BY <5>1, <5>2, Zenon
      <4>3. open \in BOOLEAN /\ sock \in BOOLEAN
        BY Zenon
      <4>4. via \in [Keys -> 0..MaxGen] /\ rest \in [Keys -> {0, 1}] /\ gen \in 0..MaxGen
        OBVIOUS
      <4>5. pending = {} /\ probes = {} /\ calls = {} /\ lastTx \in 0..MaxTx
        OBVIOUS
      <4> HIDE DEF Init
      <4> QED
        BY <4>1, <4>2, <4>3, <4>4, <4>5, Zenon DEF ProbeTypeOK
    <3>3. ReaderTypeOK
      BY Zenon DEF ReaderTypeOK
    <3> QED
      BY <3>1, <3>2, <3>3, Zenon DEF TypeOK
  <2>2. Blank /\ CandidatesAgree
    BY Zenon DEF Blank, CandidatesAgree
  <2>3. DiscoSound /\ SharedKnown /\ DiscoComplete
    BY Zenon DEF DiscoSound, SharedKnown, DiscoComplete
  <2>4. AddrSound /\ ContestedKnown /\ AddrComplete
    BY Zenon DEF AddrSound, ContestedKnown, AddrComplete, Held, Owned, Noticed, Indexed
  <2>5. ThrottledWasAsked
    BY Zenon DEF ThrottledWasAsked
  <2> QED
    BY <2>1, <2>2, <2>3, <2>4, <2>5, Zenon DEF IndInv
<1>2. IndInv /\ [Next]_vars => IndInv'
  <2> SUFFICES ASSUME IndInv, [Next]_vars PROVE IndInv'
    BY Zenon
  <2> QED
    BY TableTypeStep, ProbeTypeStep, ReaderTypeStep, BlankStep, CandidatesStep,
       DiscoSoundStep, SharedStep,
       DiscoCompleteStep, AddrSoundStep, ContestedStep, AddrCompleteStep,
       ThrottledStep, Zenon
    DEF IndInv, TypeOK
<1> QED
  BY <1>1, <1>2, PTL DEF Spec

\* A packet is attributed to an admitted peer that holds its source address.
THEOREM AddressSound == Spec => []AddrSound
<1>1. IndInv => AddrSound
  BY Zenon DEF IndInv
<1> QED
  BY <1>1, Invariance, PTL

\* A DISCO packet is attributed to the admitted peer with the sender's key.
THEOREM KeySound == Spec => []DiscoSound
<1>1. IndInv => DiscoSound
  BY Zenon DEF IndInv
<1> QED
  BY <1>1, Invariance, PTL

\* Packets from an address only one peer has held are attributed to it.
THEOREM AddressComplete == Spec => []AddrComplete
<1>1. IndInv => AddrComplete
  BY Zenon DEF IndInv
<1> QED
  BY <1>1, Invariance, PTL

\* DISCO packets under a key only one peer has had are attributed to it.
THEOREM KeyComplete == Spec => []DiscoComplete
<1>1. IndInv => DiscoComplete
  BY Zenon DEF IndInv
<1> QED
  BY <1>1, Invariance, PTL

\* A throttled peer was probed at all its endpoints in this opening.
THEOREM ThrottleSound == Spec => []ThrottledWasAsked
<1>1. IndInv => ThrottledWasAsked
  BY Zenon DEF IndInv
<1> QED
  BY <1>1, Invariance, PTL

\* What probePeer pings is the endpoints of the control plane and those the peer
\* has offered, each once, wherever rebuildPeerCandidates is called from.
THEOREM CandidatesSound == Spec => []CandidatesAgree
<1>1. IndInv => CandidatesAgree
  BY Zenon DEF IndInv
<1> QED
  BY <1>1, Invariance, PTL

\* byAddr names a peer for exactly the addresses it holds, but for those two
\* peers have had and the one UpdatePeer drops.
THEOREM AddressExact == Spec => []AddrExact
<1>1. AddrSound /\ AddrComplete /\ CandidatesAgree => AddrExact
  BY Zenon DEF AddrExact
<1> QED
  BY AddressSound, AddressComplete, CandidatesSound, <1>1, PTL

\* byDisco names exactly the peer whose key it is, but for keys two have had.
THEOREM KeyExact == Spec => []DiscoExact
<1>1. DiscoSound /\ DiscoComplete => DiscoExact
  BY Zenon DEF DiscoExact
<1> QED
  BY KeySound, KeyComplete, <1>1, PTL

-----------------------------------------------------------------------------
(***************************************************************************)
(* AccessRules: the policy that is exported is the ACL.                    *)
(*                                                                         *)
(* The conversion computes in two loops, which the module writes as a      *)
(* recursive function and a choice of a least number: one takes prefixes   *)
(* from an address on until the end of a range is reached, the other finds *)
(* the length of each.  What they compute is proved by induction, from the *)
(* last address downwards (Downwards): the prefixes are adjacent and make  *)
(* up the range (Chain), and there are few of them (Short), for they are   *)
(* first larger and larger and then smaller and smaller.  An induction is  *)
(* stated with the set of the numbers for which its claim holds, and rests *)
(* on the least number that is not in it.                                  *)
(***************************************************************************)

\* A set of naturals that is not empty has a least element: proofs by induction
\* take the least counterexample.
LEMMA LeastNat ==
  ASSUME NEW T \in SUBSET Nat, T # {}
  PROVE  \E m \in T : \A k \in T : m <= k
<1>1. PICK m \in T : \A k \in T : ~(<<k, m>> \in OpToRel(<, Nat))
  BY WFMin, NatLessThanWellFounded
<1>2. \A k \in T : ~(k < m)
  BY <1>1 DEF OpToRel
<1> QED
  BY <1>2

\* Induction without a predicate: G is the set of numbers it holds for.
LEMMA Upwards ==
  ASSUME NEW n \in Nat, NEW G, 0 \in G, \A i \in 0..n : i \in G /\ i # n => i + 1 \in G
  PROVE  0..n \subseteq G
<1> DEFINE T == (0..n) \ G
<1> SUFFICES ASSUME T # {} PROVE FALSE
  BY Zenon
<1>1. PICK m \in T : \A k \in T : ~(<<k, m>> \in OpToRel(<, Nat))
  <2>1. T \subseteq Nat
    OBVIOUS
  <2> QED
    BY <2>1, WFMin, NatLessThanWellFounded
<1>2. m # 0 /\ m \in 0..n
  BY <1>1, Zenon
<1>3. m - 1 \in 0..n /\ m - 1 # n /\ (m - 1) + 1 = m /\ <<m - 1, m>> \in OpToRel(<, Nat)
  BY <1>2 DEF OpToRel
<1>4. m - 1 \in G
  BY <1>1, <1>3, Zenon
<1>5. (m - 1) + 1 \in G
  BY <1>3, <1>4, Zenon
<1> QED
  BY <1>1, <1>3, <1>5, Zenon

\* Counting down from n, the other numbers below.
LEMMA Mirrored ==
  ASSUME NEW n \in Nat, NEW i \in 0..n
  PROVE  /\ n - i \in 0..n /\ n - (n - i) = i
         /\ \A j \in 0..n : n - i < j => <<n - j, i>> \in OpToRel(<, Nat)
BY DEF OpToRel

\* The same from n downwards: each number follows from the larger ones.
LEMMA Downwards ==
  ASSUME NEW n \in Nat, NEW G, \A i \in 0..n : (\A j \in 0..n : i < j => j \in G) => i \in G
  PROVE  0..n \subseteq G
<1> DEFINE T == {k \in 0..n : n - k \notin G}
<1>0. ASSUME T # {} PROVE FALSE
  <2>1. PICK m \in T : \A k \in T : ~(<<k, m>> \in OpToRel(<, Nat))
    <3>1. T \subseteq Nat
      OBVIOUS
    <3> QED
      BY <1>0, <3>1, WFMin, NatLessThanWellFounded
  <2>2. n - m \in 0..n /\ n - m \notin G
    BY <2>1, Mirrored, Zenon
  <2>3. ASSUME NEW j \in 0..n, n - m < j PROVE j \in G
    <3>1. n - j \in 0..n /\ n - (n - j) = j
      BY Mirrored, Zenon
    <3>2. <<n - j, m>> \in OpToRel(<, Nat)
      BY <2>1, <2>3, Mirrored, Zenon
    <3>3. n - j \notin T
      BY <2>1, <3>2, Zenon
    <3>4. n - (n - j) \in G
      BY <3>1, <3>3, Zenon
    <3> HIDE DEF T
    <3> QED
      BY ONLY <3>1, <3>4, Zenon
  <2> QED
    BY <2>2, <2>3, Zenon
<1>1. ASSUME NEW i \in 0..n PROVE i \in G
  <2>1. n - i \in 0..n /\ n - (n - i) = i
    BY Mirrored, Zenon
  <2>2. n - i \notin T
    BY <1>0, Zenon
  <2>3. n - (n - i) \in G
    BY <2>1, <2>2, Zenon
  <2> HIDE DEF T
  <2> QED
    BY ONLY <2>1, <2>3, Zenon
<1> QED
  BY <1>1, Zenon

-----------------------------------------------------------------------------
(* Powers of two and alignment.                                            *)

\* p has the powers of two up to the n-th.
Doubles(p, n) == p = [k \in 0..n |-> IF k = 0 THEN 1 ELSE 2 * p[k - 1]]

\* There is such a function for every n,
LEMMA PowExists ==
  ASSUME NEW n \in Nat
  PROVE  \E p : Doubles(p, n)
<1> DEFINE G == {k \in 0..n : \E p : Doubles(p, k)}
<1>1. 0 \in G
  <2>1. Doubles([k \in 0..0 |-> 1], 0)
    BY DEF Doubles
  <2>2. 0 \in 0..n
    OBVIOUS
  <2> QED
    BY <2>1, <2>2, Zenon
<1>2. ASSUME NEW i \in 0..n, i \in G /\ i # n PROVE i + 1 \in G
  <2>1. PICK p : Doubles(p, i)
    BY <1>2, Zenon
  <2> DEFINE q == [k \in 0..(i + 1) |-> IF k = i + 1 THEN 2 * p[i] ELSE p[k]]
  <2>2. Doubles(q, i + 1)
    BY <2>1 DEF Doubles
  <2>3. i + 1 \in 0..n
    BY <1>2
  <2> QED
    BY <2>2, <2>3, Zenon
<1> HIDE DEF G
<1>3. n \in G
  <2>1. n \in 0..n
    OBVIOUS
  <2> QED
    BY <1>1, <1>2, <2>1, Upwards, Zenon
<1> QED
  BY <1>3, Zenon DEF G

\* and Pow2, which is chosen to be one, is one.
LEMMA PowRule == Doubles(Pow2, Bits6)
<1> DEFINE Q(p) == Doubles(p, Bits6)
<1>1. Pow2 = CHOOSE p : Q(p)
  BY DEF Pow2, Doubles
<1>2. \E p : Q(p)
  BY PowExists, RuleConstants, Zenon
<1> HIDE DEF Q
<1>3. Q(Pow2)
  BY <1>1, <1>2, Zenon
<1> QED
  BY <1>3, Zenon DEF Q

\* Powers of two: Pow2[0] = 1 and each is twice the one before.
LEMMA PowFacts ==
  /\ Pow2[0] = 1
  /\ \A k \in 0..Bits6 : Pow2[k] \in Nat \ {0}
  /\ \A k \in 0..Bits6 : k # Bits6 => k + 1 \in 0..Bits6 /\ Pow2[k + 1] = 2 * Pow2[k]
<1>1. Pow2 = [k \in 0..Bits6 |-> IF k = 0 THEN 1 ELSE 2 * Pow2[k - 1]]
  BY PowRule, Zenon DEF Doubles
<1>2. Bits6 \in Nat
  BY RuleConstants, Zenon
<1>3. Pow2[0] = 1
  BY <1>1, <1>2
<1>4. \A k \in 0..Bits6 : k # Bits6 => k + 1 \in 0..Bits6 /\ Pow2[k + 1] = 2 * Pow2[k]
  <2> SUFFICES ASSUME NEW k \in 0..Bits6, k # Bits6
               PROVE  k + 1 \in 0..Bits6 /\ Pow2[k + 1] = 2 * Pow2[k]
    BY Zenon
  <2>1. k + 1 \in 0..Bits6 /\ k + 1 # 0 /\ (k + 1) - 1 = k
    BY <1>2
  <2>2. Pow2[k + 1] = 2 * Pow2[(k + 1) - 1]
    BY <1>1, <2>1, Zenon
  <2> QED
    BY <2>1, <2>2, Zenon
<1> DEFINE G == {k \in 0..Bits6 : Pow2[k] \in Nat \ {0}}
<1>5. 0 \in G
  BY <1>2, <1>3
<1>6. ASSUME NEW i \in 0..Bits6, i \in G /\ i # Bits6 PROVE i + 1 \in G
  <2>1. Pow2[i] \in Nat \ {0} /\ i + 1 \in 0..Bits6 /\ Pow2[i + 1] = 2 * Pow2[i]
    BY <1>4, <1>6, Zenon
  <2>2. Pow2[i + 1] \in Nat \ {0}
    BY <2>1
  <2> QED
    BY <2>1, <2>2, Zenon
<1> HIDE DEF G
<1>7. 0..Bits6 \subseteq G
  BY <1>2, <1>5, <1>6, Upwards, Zenon
<1> QED
  BY <1>3, <1>4, <1>7, Zenon DEF G

\* A number without a remainder is a multiple.
LEMMA Divides ==
  ASSUME NEW n \in Nat, NEW p \in Nat \ {0}, n % p = 0
  PROVE  n \div p \in Nat /\ n = p * (n \div p)
<1>1. n \div p >= 0 /\ n \div p \in Int
  OBVIOUS
<1>2. n = p * (n \div p)
  OBVIOUS
<1> QED
  BY <1>1, <1>2

\* A quotient and a remainder of the right size are the only ones.
LEMMA ModIs ==
  ASSUME NEW n \in Nat, NEW p \in Nat \ {0}, NEW q \in Nat, NEW r \in 0..(p - 1), n = p * q + r
  PROVE  n % p = r /\ n \div p = q
OBVIOUS

\* What 2p divides, p divides.
LEMMA Halves ==
  ASSUME NEW n \in Nat, NEW p \in Nat \ {0}, n % (2 * p) = 0
  PROVE  n % p = 0
<1>1. n = p * (2 * (n \div (2 * p))) + 0
  OBVIOUS
<1>2. 2 * (n \div (2 * p)) \in Nat /\ 0 \in 0..(p - 1)
  OBVIOUS
<1> QED
  BY ONLY <1>1, <1>2, ModIs

\* The multiple of p after n.
LEMMA NextAligned ==
  ASSUME NEW n \in Nat, NEW p \in Nat \ {0}, n % p = 0
  PROVE  (n + p) % p = 0
<1>1. n + p = p * ((n \div p) + 1) + 0
  OBVIOUS
<1>2. (n \div p) + 1 \in Nat /\ 0 \in 0..(p - 1) /\ n + p \in Nat
  BY Divides
<1> QED
  BY ONLY <1>1, <1>2, ModIs, p \in Nat \ {0}, Zenon

\* If n is an odd multiple of p, the next multiple is one of 2p.
LEMMA NextAlignedTwice ==
  ASSUME NEW n \in Nat, NEW p \in Nat \ {0}, n % p = 0, n % (2 * p) # 0
  PROVE  (n + p) % (2 * p) = 0
<1> DEFINE q == n \div p
<1>1. n = p * q /\ q \in Nat
  BY Divides
<1> HIDE DEF q
<1>2. PICK h \in Nat : q = 2 * h \/ q = 2 * h + 1
  <2>1. q \div 2 \in Nat /\ (q = 2 * (q \div 2) \/ q = 2 * (q \div 2) + 1)
    BY <1>1
  <2> QED
    BY <2>1
<1>3. CASE q = 2 * h
  <2>1. n = (2 * p) * h + 0
    BY <1>1, <1>3
  <2>2. 0 \in 0..(2 * p - 1) /\ 2 * p \in Nat \ {0}
    OBVIOUS
  <2>3. n % (2 * p) = 0
    BY ONLY <2>1, <2>2, ModIs, n \in Nat, h \in Nat, Zenon
  <2> QED
    BY <2>3
<1>4. CASE q = 2 * h + 1
  <2>1. n + p = (2 * p) * (h + 1) + 0
    BY <1>1, <1>4
  <2>2. 0 \in 0..(2 * p - 1) /\ 2 * p \in Nat \ {0} /\ n + p \in Nat /\ h + 1 \in Nat
    OBVIOUS
  <2> QED
    BY ONLY <2>1, <2>2, ModIs, Zenon
<1> QED
  BY <1>2, <1>3, <1>4, Zenon

\* An address that is aligned to a block is aligned to every smaller one.
LEMMA Aligns ==
  ASSUME NEW k \in 0..Bits6, NEW n \in Nat, n % Pow2[k] = 0, NEW j \in 0..k
  PROVE  n % Pow2[j] = 0
<1> DEFINE G == {i \in 0..k : n % Pow2[i] = 0}
<1>0. Bits6 \in Nat
  BY RuleConstants, Zenon
<1>1. ASSUME NEW i \in 0..k, \A l \in 0..k : i < l => l \in G PROVE i \in G
  <2>1. CASE i = k
    BY <2>1, Zenon
  <2>2. CASE i # k
    <3>1. i + 1 \in 0..k /\ i < i + 1 /\ i \in 0..Bits6 /\ i # Bits6
      BY ONLY <1>0, <2>2, i \in 0..k, k \in 0..Bits6
    <3>2. n % Pow2[i + 1] = 0
      BY <1>1, <3>1, Zenon
    <3>3. Pow2[i] \in Nat \ {0} /\ n % (2 * Pow2[i]) = 0
      BY <3>1, <3>2, PowFacts, Zenon
    <3> QED
      BY <3>3, Halves, Zenon
  <2> QED
    BY <2>1, <2>2, Zenon
<1> HIDE DEF G
<1>2. k \in Nat
  BY <1>0
<1>3. 0..k \subseteq G
  BY <1>1, <1>2, Downwards, ZenonT(60)
<1> QED
  BY <1>3, Zenon DEF G

\* Powers of two grow.
LEMMA PowGrows ==
  ASSUME NEW k \in 0..Bits6, NEW j \in 0..k
  PROVE  Pow2[j] <= Pow2[k]
<1> DEFINE G == {i \in 0..k : Pow2[i] <= Pow2[k]}
<1>0. Bits6 \in Nat
  BY RuleConstants, Zenon
<1>1. ASSUME NEW i \in 0..k, \A l \in 0..k : i < l => l \in G PROVE i \in G
  <2>0. Pow2[k] \in Nat \ {0}
    BY PowFacts, Zenon
  <2>1. CASE i = k
    BY <2>0, <2>1
  <2>2. CASE i # k
    <3>1. i + 1 \in 0..k /\ i < i + 1 /\ i \in 0..Bits6 /\ i # Bits6
      BY ONLY <1>0, <2>2, i \in 0..k, k \in 0..Bits6
    <3>2. Pow2[i + 1] <= Pow2[k]
      BY <1>1, <3>1, Zenon
    <3>3. Pow2[i] \in Nat \ {0} /\ 2 * Pow2[i] <= Pow2[k]
      BY <3>1, <3>2, PowFacts, Zenon
    <3>4. Pow2[i] <= Pow2[k]
      BY ONLY <2>0, <3>3
    <3> QED
      BY <3>4, Zenon
  <2> QED
    BY <2>1, <2>2, Zenon
<1> HIDE DEF G
<1>2. k \in Nat
  BY <1>0
<1>3. 0..k \subseteq G
  BY <1>1, <1>2, Downwards, ZenonT(60)
<1> QED
  BY <1>3, Zenon DEF G

\* The loop takes the 2^k addresses from n for its next prefix: they are aligned,
\* none is past e, and twice as many would be one or the other.
Takes(n, e, w, k) ==
  /\ k \in 0..w /\ n % Pow2[k] = 0 /\ n + Pow2[k] - 1 <= e
  /\ k = w \/ n % Pow2[k + 1] # 0 \/ n + Pow2[k + 1] - 1 > e

\* The 2^k addresses from n.
Block(family, n, k) == [addr |-> <<family, n>>, bits |-> Width(family) - k]

\* Both families have addresses, of no more bits than IPv6.
LEMMA WidthFacts ==
  ASSUME NEW family \in {4, 6}
  PROVE  Width(family) \in 0..Bits6 /\ Width(family) \in Nat \ {0}
BY RuleConstants DEF Width

\* The 2^k addresses from n are the prefix of w - k bits, and end where they should.
LEMMA BlockFacts ==
  ASSUME NEW family \in {4, 6}, NEW n \in Nat, NEW k \in 0..Width(family)
  PROVE  /\ PrefixLastAddress(Block(family, n, k)) = <<family, n + Pow2[k] - 1>>
         /\ Masked(<<family, n>>, Width(family) - k)
              = [addr |-> <<family, n - (n % Pow2[k])>>, bits |-> Width(family) - k]
<1>1. Width(family) - (Width(family) - k) = k
  BY WidthFacts
<1>2. Size(<<family, n>>, Width(family) - k) = Pow2[k]
  BY <1>1 DEF Size
<1> QED
  BY <1>2 DEF PrefixLastAddress, Masked, Block

\* A candidate of the inner loop is a block that is aligned and not too long.
LEMMA FitsFacts ==
  ASSUME NEW family \in {4, 6}, NEW n \in Nat, NEW e \in Nat, NEW k \in 0..Width(family)
  PROVE  /\ Fits(<<family, n>>, <<family, e>>, Width(family) - k)
              <=> n % Pow2[k] = 0 /\ n + Pow2[k] - 1 <= e
         /\ n % Pow2[k] = 0 => Masked(<<family, n>>, Width(family) - k) = Block(family, n, k)
<1> DEFINE m == Masked(<<family, n>>, Width(family) - k)
<1>0. Pow2[k] \in Nat \ {0}
  <2>1. k \in 0..Bits6
    BY WidthFacts, RuleConstants
  <2> QED
    BY <2>1, PowFacts, Zenon
<1>1. m = [addr |-> <<family, n - (n % Pow2[k])>>, bits |-> Width(family) - k]
  BY BlockFacts, Zenon
<1> HIDE DEF m
<1>2. m.addr = <<family, n>> <=> n % Pow2[k] = 0
  <2>1. n % Pow2[k] \in Int
    BY <1>0
  <2>2. m.addr = <<family, n - (n % Pow2[k])>>
    BY <1>1
  <2>3. m.addr = <<family, n>> <=> n - (n % Pow2[k]) = n
    BY <2>2
  <2> QED
    BY <2>1, <2>3
<1>3. n % Pow2[k] = 0 => m = Block(family, n, k)
  BY <1>1 DEF Block
<1>4. n % Pow2[k] = 0 => PrefixLastAddress(m)[2] = n + Pow2[k] - 1
  <2>1. PrefixLastAddress(Block(family, n, k)) = <<family, n + Pow2[k] - 1>>
    BY BlockFacts, Zenon
  <2> QED
    BY <1>3, <2>1
<1>5. Fits(<<family, n>>, <<family, e>>, Width(family) - k)
        <=> m.addr = <<family, n>> /\ PrefixLastAddress(m)[2] <= e
  BY DEF Fits, m
<1> QED
  BY <1>2, <1>3, <1>4, <1>5, Zenon DEF m

\* The inner loop ends with the largest block that begins at n and is not too long.
LEMMA PrefixTaken ==
  ASSUME NEW family \in {4, 6}, NEW n \in Nat, NEW e \in Nat, n <= e
  PROVE  \E k : /\ Takes(n, e, Width(family), k)
                /\ PrefixAt(<<family, n>>, <<family, e>>) = Block(family, n, k)
<1> DEFINE w == Width(family)
           start == <<family, n>>
           end == <<family, e>>
           fits == {b \in 0..w : \A c \in b..(w - 1) : Fits(start, end, c)}
<1>0. w \in Nat \ {0} /\ w \in 0..Bits6
  BY WidthFacts, Zenon
<1>1. w \in fits
  <2>1. w \in 0..w /\ w..(w - 1) = {}
    <3> HIDE DEF w
    <3> QED
      BY <1>0
  <2> QED
    BY <2>1, Zenon
<1>2. fits \in SUBSET Nat /\ fits # {}
  <2>1. 0..w \subseteq Nat
    <3> HIDE DEF w
    <3> QED
      BY <1>0
  <2> QED
    BY <1>1, <2>1, Zenon
<1>3. \E b \in fits : \A c \in fits : b <= c
  BY <1>2, LeastNat, Zenon
<1> DEFINE b == CHOOSE x \in fits : \A c \in fits : x <= c
           k == w - b
<1>4. b \in fits /\ \A c \in fits : b <= c
  BY <1>3, Zenon
<1>5. PrefixAt(start, end) = Masked(start, b)
  <2>1. start[1] = family
    OBVIOUS
  <2> QED
    BY <2>1, Zenon DEF PrefixAt
<1> HIDE DEF b, w
<1>6. b \in 0..w /\ \A c \in b..(w - 1) : Fits(start, end, c)
  BY <1>4, Zenon
<1>7. k \in 0..w /\ w - k = b /\ k \in 0..Bits6
  <2>1. b \in 0..w
    BY <1>6, Zenon
  <2> QED
    BY ONLY <1>0, <2>1, RuleConstants
<1> HIDE DEF fits, k
<1>8. /\ Fits(start, end, b) <=> n % Pow2[k] = 0 /\ n + Pow2[k] - 1 <= e
      /\ n % Pow2[k] = 0 => Masked(start, b) = Block(family, n, k)
  BY <1>7, FitsFacts, Zenon DEF w
<1>9. n % Pow2[k] = 0 /\ n + Pow2[k] - 1 <= e
  <2>1. CASE k = 0
    <3>1. Pow2[0] = 1
      BY PowFacts, Zenon
    <3> QED
      BY <2>1, <3>1
  <2>2. CASE k # 0
    <3>1. b \in b..(w - 1)
      <4>1. b \in 0..w
        BY <1>6, Zenon
      <4> QED
        BY ONLY <1>0, <1>7, <2>2, <4>1
    <3> QED
      BY <1>6, <1>8, <3>1, Zenon
  <2> QED
    BY <2>1, <2>2, Zenon
<1>10. ASSUME k # w PROVE n % Pow2[k + 1] # 0 \/ n + Pow2[k + 1] - 1 > e
  <2>1. /\ b - 1 \in 0..w /\ w - (k + 1) = b - 1 /\ k + 1 \in 0..w /\ ~(b <= b - 1)
        /\ \A c \in (b - 1)..(w - 1) : c = b - 1 \/ c \in b..(w - 1)
    <3>1. b \in 0..w
      BY <1>6, Zenon
    <3> QED
      BY ONLY <1>0, <1>7, <1>10, <3>1
  <2>2. b - 1 \notin fits
    BY <1>4, <2>1, Zenon
  <2>3. ~Fits(start, end, b - 1)
    BY <1>6, <2>1, <2>2, Zenon DEF fits
  <2>4. Fits(start, end, b - 1) <=> n % Pow2[k + 1] = 0 /\ n + Pow2[k + 1] - 1 <= e
    BY <2>1, FitsFacts, Zenon DEF w
  <2>5. Pow2[k + 1] \in Nat
    BY <1>0, <2>1, PowFacts, RuleConstants
  <2>6. ~(n + Pow2[k + 1] - 1 <= e) => n + Pow2[k + 1] - 1 > e
    BY <2>5
  <2> QED
    BY <2>3, <2>4, <2>6, Zenon
<1>11. Takes(n, e, w, k)
  BY <1>7, <1>9, <1>10, Zenon DEF Takes
<1>12. PrefixAt(start, end) = Block(family, n, k)
  BY <1>5, <1>8, <1>9, Zenon
<1> QED
  BY <1>11, <1>12, Zenon DEF w

\* The prefixes from n on, where f has those from later addresses on.
From(family, n, e, f) ==
  LET p == PrefixAt(<<family, n>>, <<family, e>>)
      last == PrefixLastAddress(p)
  IN IF last[2] >= e THEN <<p>> ELSE <<p>> \o f[last[2] + 1]

\* One round of the outer loop, whatever the prefixes after it are.
LEMMA FromFacts ==
  ASSUME NEW family \in {4, 6}, NEW e \in Nat, NEW n \in 0..e
  PROVE  \E k : /\ Takes(n, e, Width(family), k)
                /\ \A f : From(family, n, e, f) = IF n + Pow2[k] - 1 >= e
                                               THEN <<Block(family, n, k)>>
                                               ELSE <<Block(family, n, k)>> \o f[n + Pow2[k]]
<1>0. n \in Nat /\ n <= e
  OBVIOUS
<1>1. PICK k : /\ Takes(n, e, Width(family), k)
               /\ PrefixAt(<<family, n>>, <<family, e>>) = Block(family, n, k)
  BY <1>0, PrefixTaken, Zenon
<1>2. k \in 0..Width(family)
  BY <1>1, Zenon DEF Takes
<1>3. PrefixLastAddress(Block(family, n, k)) = <<family, n + Pow2[k] - 1>>
  BY <1>0, <1>2, BlockFacts, Zenon
<1>4. PrefixLastAddress(Block(family, n, k))[2] = n + Pow2[k] - 1
  BY <1>3
<1>5. (n + Pow2[k] - 1) + 1 = n + Pow2[k]
  <2>1. k \in 0..Bits6
    BY <1>2, WidthFacts, RuleConstants
  <2>2. Pow2[k] \in Nat
    BY <2>1, PowFacts
  <2> QED
    BY <1>0, <2>2
<1>6. ASSUME NEW f
      PROVE  From(family, n, e, f) = IF n + Pow2[k] - 1 >= e
                                     THEN <<Block(family, n, k)>>
                                     ELSE <<Block(family, n, k)>> \o f[n + Pow2[k]]
  BY <1>1, <1>4, <1>5, Zenon DEF From
<1> QED
  BY <1>1, <1>6, Zenon

\* The next prefix begins later, but not past the end.
LEMMA TakesOn ==
  ASSUME NEW family \in {4, 6}, NEW e \in Nat, NEW n \in 0..e, NEW k,
         Takes(n, e, Width(family), k)
  PROVE  /\ k \in 0..Bits6 /\ k \in 0..Width(family) /\ Pow2[k] \in Nat \ {0}
         /\ n + Pow2[k] - 1 <= e
         /\ ~(n + Pow2[k] - 1 >= e) => n + Pow2[k] \in 0..e /\ n < n + Pow2[k]
<1>1. k \in 0..Width(family) /\ n + Pow2[k] - 1 <= e
  BY Zenon DEF Takes
<1>2. k \in 0..Bits6
  BY <1>1, WidthFacts, RuleConstants
<1>3. Pow2[k] \in Nat \ {0}
  BY <1>2, PowFacts, Zenon
<1>4. ~(n + Pow2[k] - 1 >= e) => n + Pow2[k] \in 0..e /\ n < n + Pow2[k]
  BY <1>3
<1> QED
  BY <1>1, <1>2, <1>3, <1>4, Zenon

\* f has the prefixes from each address of m..e on.
Prefixes(f, m, family, e) == f = [n \in m..e |-> From(family, n, e, f)]

\* There are such prefixes, from every address on,
LEMMA PrefixesExist ==
  ASSUME NEW family \in {4, 6}, NEW e \in Nat
  PROVE  \E f : Prefixes(f, 0, family, e)
<1> DEFINE G == {m \in 0..e : \E f : Prefixes(f, m, family, e)}
<1>1. ASSUME NEW i \in 0..e, \A j \in 0..e : i < j => j \in G PROVE i \in G
  <2>1. PICK g : \A j \in 0..e : i < j => g[j] = From(family, j, e, g)
    <3>1. CASE i = e
      <4>1. \A j \in 0..e : ~(i < j)
        BY ONLY <3>1, e \in Nat
      <4> QED
        BY <4>1, Zenon
    <3>2. CASE i # e
      <4>1. i + 1 \in 0..e /\ i < i + 1 /\ \A j \in 0..e : i < j => j \in (i + 1)..e
        BY ONLY <3>2, e \in Nat, i \in 0..e
      <4>2. PICK g : Prefixes(g, i + 1, family, e)
        BY <1>1, <4>1, Zenon
      <4>3. \A j \in (i + 1)..e : g[j] = From(family, j, e, g)
        BY <4>2, Zenon DEF Prefixes
      <4> QED
        BY <4>1, <4>3, Zenon
    <3> QED
      BY <3>1, <3>2, Zenon
  <2> DEFINE f == [n \in i..e |-> IF n = i THEN From(family, i, e, g) ELSE g[n]]
  <2>2. ASSUME NEW n \in i..e PROVE From(family, n, e, f) = From(family, n, e, g)
    <3>1. n \in 0..e /\ i <= n
      BY ONLY e \in Nat, i \in 0..e, n \in i..e
    <3>2. PICK k : /\ Takes(n, e, Width(family), k)
                   /\ \A h : From(family, n, e, h) = IF n + Pow2[k] - 1 >= e
                                                  THEN <<Block(family, n, k)>>
                                                  ELSE <<Block(family, n, k)>> \o h[n + Pow2[k]]
      BY <3>1, FromFacts, Zenon
    <3>3. CASE n + Pow2[k] - 1 >= e
      BY <3>2, <3>3, Zenon
    <3>4. CASE ~(n + Pow2[k] - 1 >= e)
      <4>1. n + Pow2[k] \in 0..e /\ n < n + Pow2[k]
        BY <3>1, <3>2, <3>4, TakesOn, Zenon
      <4>2. n + Pow2[k] \in i..e /\ n + Pow2[k] # i
        BY ONLY <3>1, <4>1, e \in Nat, i \in 0..e
      <4>3. f[n + Pow2[k]] = g[n + Pow2[k]]
        BY <4>2, Zenon
      <4> HIDE DEF f
      <4> QED
        BY <3>2, <3>4, <4>3, Zenon
    <3> QED
      BY <3>3, <3>4, Zenon
  <2>3. ASSUME NEW n \in i..e PROVE f[n] = From(family, n, e, f)
    <3>1. CASE n = i
      <4>1. f[n] = From(family, n, e, g)
        BY <3>1, Zenon
      <4> HIDE DEF f
      <4> QED
        BY <2>2, <4>1, Zenon
    <3>2. CASE n # i
      <4>1. n \in 0..e /\ i < n
        BY ONLY <3>2, e \in Nat, i \in 0..e, n \in i..e
      <4>2. f[n] = g[n]
        BY <3>2, Zenon
      <4>3. g[n] = From(family, n, e, g)
        BY <2>1, <4>1, Zenon
      <4> HIDE DEF f
      <4> QED
        BY <2>2, <4>2, <4>3, Zenon
    <3> QED
      BY <3>1, <3>2, Zenon
  <2>4. f = [n \in i..e |-> f[n]]
    BY Zenon
  <2> HIDE DEF f
  <2>5. Prefixes(f, i, family, e)
    BY <2>3, <2>4, Zenon DEF Prefixes
  <2> QED
    BY <2>5, Zenon
<1> HIDE DEF G
<1>2. 0 \in G
  <2>1. 0 \in 0..e
    OBVIOUS
  <2> QED
    BY <1>1, <2>1, Downwards, ZenonT(60)
<1> QED
  BY <1>2, Zenon DEF G

\* addressRangePrefixes takes prefixes until the end is reached.
LEMMA RangeIsLoop ==
  ASSUME NEW family \in {4, 6}, NEW e \in Nat, NEW s
  PROVE  \E f : /\ Prefixes(f, 0, family, e)
                /\ AddressRangePrefixes(<<family, s>>, <<family, e>>) = f[s]
<1> DEFINE Q(f) == Prefixes(f, 0, family, e)
           from == CHOOSE f : Q(f)
<1>1. AddressRangePrefixes(<<family, s>>, <<family, e>>) = from[s]
  <2>1. <<family, s>>[1] = family /\ <<family, s>>[2] = s /\ <<family, e>>[2] = e
    OBVIOUS
  <2> QED
    BY <2>1 DEF AddressRangePrefixes, Prefixes, From
<1>2. \E f : Q(f)
  BY PrefixesExist, Zenon
<1> HIDE DEF Q
<1>3. Q(from)
  BY <1>2, Zenon
<1> HIDE DEF from
<1> QED
  BY <1>1, <1>3, Zenon DEF Q

\* How many prefixes there are from n on: at most k if the 2^k addresses from n
\* are aligned and go past e, for each is then smaller than the one before; and
\* until then each is larger than the one before.  From 0 there are only smaller ones.
Short(count, n, e, w) ==
  /\ \A k \in 0..w : n % Pow2[k] = 0 /\ n + Pow2[k] - 1 > e => count <= k
  /\ n # 0 => \A k \in 0..(w - 1) : n % Pow2[k] = 0 =>
       count <= IF w = 1 THEN 1 ELSE 2 * w - 2 - k
  /\ n = 0 => count <= w

\* One prefix more.
OneMore(count, n, e, w, j) ==
  \/ n + Pow2[j] - 1 >= e /\ count = 1
  \/ /\ ~(n + Pow2[j] - 1 >= e)
     /\ \E others \in Nat : count = 1 + others /\ Short(others, n + Pow2[j], e, w)

\* After a block that could not be larger for the end, only smaller ones follow.
LEMMA ShrinkingStep ==
  ASSUME NEW family \in {4, 6}, NEW e \in Nat, NEW n \in 0..e, NEW j,
         Takes(n, e, Width(family), j), NEW count \in Nat,
         OneMore(count, n, e, Width(family), j),
         NEW k \in 0..Width(family), n % Pow2[k] = 0, n + Pow2[k] - 1 > e
  PROVE  count <= k
<1> DEFINE w == Width(family)
<1>0. w \in 0..Bits6 /\ w \in Nat \ {0} /\ Bits6 \in Nat
  BY WidthFacts, RuleConstants, Zenon
<1> HIDE DEF w
<1>1. /\ j \in 0..Bits6 /\ j \in 0..w /\ Pow2[j] \in Nat \ {0} /\ n + Pow2[j] - 1 <= e
      /\ ~(n + Pow2[j] - 1 >= e) => n + Pow2[j] \in 0..e /\ n < n + Pow2[j]
  BY TakesOn, Zenon DEF w
<1>2. k \in 0..Bits6 /\ Pow2[k] \in Nat \ {0}
  <2>1. k \in 0..Bits6
    <3>1. k \in 0..w
      BY Zenon DEF w
    <3> QED
      BY ONLY <1>0, <3>1
  <2> QED
    BY <2>1, PowFacts, Zenon
<1>3. j + 1 \in 0..k /\ j # w /\ j # Bits6
  <2>1. ~(k \in 0..j)
    <3>1. k \in 0..j => Pow2[k] <= Pow2[j]
      BY <1>1, PowGrows, Zenon
    <3> QED
      BY <1>1, <1>2, <3>1
  <2>2. k \in 0..w
    BY Zenon DEF w
  <2> QED
    BY ONLY <1>0, <1>1, <1>2, <2>1, <2>2
<1>4. CASE n + Pow2[j] - 1 >= e
  <2>1. count = 1
    BY <1>4, Zenon DEF OneMore
  <2> QED
    BY ONLY <1>1, <1>2, <1>3, <2>1
<1>5. CASE ~(n + Pow2[j] - 1 >= e)
  <2>1. PICK others \in Nat : count = 1 + others /\ Short(others, n + Pow2[j], e, w)
    BY <1>5, Zenon DEF OneMore, w
  <2>2. Pow2[j + 1] = 2 * Pow2[j]
    BY <1>1, <1>3, PowFacts, Zenon
  <2>3. n % Pow2[j + 1] = 0 /\ n % Pow2[j] = 0
    <3>1. n \in Nat
      BY ONLY e \in Nat, n \in 0..e
    <3>2. n % Pow2[j + 1] = 0
      BY <1>2, <1>3, <3>1, Aligns, Zenon
    <3> QED
      BY <3>2, Zenon DEF Takes
  <2>4. n + Pow2[j + 1] - 1 > e
    BY <1>3, <2>3, Zenon DEF Takes, w
  <2>5. (n + Pow2[j]) % Pow2[j] = 0
    <3>1. n \in Nat
      BY ONLY e \in Nat, n \in 0..e
    <3> QED
      BY <1>1, <2>3, <3>1, NextAligned, Zenon
  <2>6. (n + Pow2[j]) + Pow2[j] - 1 > e
    BY ONLY <1>1, <2>2, <2>4, e \in Nat, n \in 0..e
  <2>7. others <= j
    BY <1>1, <2>1, <2>5, <2>6, Zenon DEF Short
  <2> QED
    BY ONLY <1>1, <1>2, <1>3, <2>1, <2>7
<1> QED
  BY <1>4, <1>5, Zenon

\* A number below p is its own remainder.
LEMMA SmallRemainder ==
  ASSUME NEW n \in Nat, NEW p \in Nat \ {0}, n < p
  PROVE  n % p = n
<1>1. n = p * 0 + n /\ n \in 0..(p - 1) /\ 0 \in Nat
  OBVIOUS
<1> QED
  BY <1>1, ModIs, Zenon

\* One prefix more keeps the bounds on their number.
LEMMA ShortStep ==
  ASSUME NEW family \in {4, 6}, NEW e \in 0..(Pow2[Width(family)] - 1), NEW n \in 0..e, NEW j,
         Takes(n, e, Width(family), j), NEW count \in Nat,
         OneMore(count, n, e, Width(family), j)
  PROVE  Short(count, n, e, Width(family))
<1> DEFINE w == Width(family)
<1>0. w \in 0..Bits6 /\ w \in Nat \ {0} /\ Bits6 \in Nat /\ Pow2[w] \in Nat \ {0}
  BY WidthFacts, RuleConstants, PowFacts, Zenon
<1>00. e \in Nat /\ n \in Nat /\ n < Pow2[w] /\ e < Pow2[w]
  <2>1. e \in 0..(Pow2[w] - 1)
    BY Zenon
  <2> HIDE DEF w
  <2> QED
    BY ONLY <1>0, <2>1, n \in 0..e
<1>1. \A k \in 0..w : n % Pow2[k] = 0 /\ n + Pow2[k] - 1 > e => count <= k
  BY <1>00, ShrinkingStep, Zenon
<1>2. ASSUME n # 0, NEW k \in 0..(w - 1), n % Pow2[k] = 0
      PROVE  count <= IF w = 1 THEN 1 ELSE 2 * w - 2 - k
  <2>1. /\ j \in 0..Bits6 /\ j \in 0..w /\ Pow2[j] \in Nat \ {0} /\ n + Pow2[j] - 1 <= e
        /\ ~(n + Pow2[j] - 1 >= e) => n + Pow2[j] \in 0..e /\ n < n + Pow2[j]
    BY <1>00, TakesOn, Zenon
  <2>2. Takes(n, e, w, j) /\ OneMore(count, n, e, w, j)
    BY Zenon
  <2> HIDE DEF w
  <2>3. CASE n + Pow2[j] - 1 >= e
    <3>1. count = 1
      BY <2>2, <2>3, Zenon DEF OneMore
    <3> QED
      BY ONLY <1>0, <3>1, k \in 0..(w - 1)
  <2>4. CASE ~(n + Pow2[j] - 1 >= e)
    <3>1. PICK others \in Nat : count = 1 + others /\ Short(others, n + Pow2[j], e, w)
      BY <2>2, <2>4, Zenon DEF OneMore
    <3>2. j # w
      <4> SUFFICES ASSUME j = w PROVE FALSE
        BY Zenon
      <4>1. n + Pow2[w] - 1 <= e
        BY <2>1, Zenon
      <4> QED
        BY ONLY <1>0, <1>00, <1>2, <4>1
    <3>3. j # Bits6 /\ j + 1 \in 0..w /\ j + 1 \in 0..Bits6
      BY ONLY <1>0, <2>1, <3>2
    <3>4. Pow2[j + 1] = 2 * Pow2[j]
      BY <2>1, <3>3, PowFacts, Zenon
    <3>5. n % Pow2[w] # 0
      <4>1. n % Pow2[w] = n
        BY <1>0, <1>00, SmallRemainder, Zenon
      <4> QED
        BY <1>2, <4>1, Zenon
    <3>6. CASE n % Pow2[j + 1] = 0
      <4>1. n + Pow2[j + 1] - 1 > e
        BY <2>2, <3>2, <3>6, Zenon DEF Takes
      <4>2. count <= j + 1
        BY <1>1, <3>3, <3>6, <4>1, Zenon
      <4>3. j + 1 # w
        BY <3>5, <3>6, Zenon
      <4> QED
        BY ONLY <1>0, <2>1, <3>3, <4>2, <4>3, k \in 0..(w - 1), count \in Nat
    <3>7. CASE n % Pow2[j + 1] # 0
      <4>1. ~(j < k)
        <5> SUFFICES ASSUME j < k PROVE FALSE
          BY Zenon
        <5>1. j + 1 \in 0..k /\ k \in 0..Bits6
          BY ONLY <1>0, <2>1, j < k, k \in 0..(w - 1)
        <5>2. n % Pow2[j + 1] = 0
          BY <1>00, <1>2, <5>1, Aligns, Zenon
        <5> QED
          BY <3>7, <5>2, Zenon
      <4>2. (n + Pow2[j]) % Pow2[j + 1] = 0
        <5>1. n % Pow2[j] = 0
          BY <2>2, Zenon DEF Takes
        <5>2. n % (2 * Pow2[j]) # 0
          BY <3>4, <3>7, Zenon
        <5>3. (n + Pow2[j]) % (2 * Pow2[j]) = 0
          BY <1>00, <2>1, <5>1, <5>2, NextAlignedTwice, Zenon
        <5> QED
          BY <3>4, <5>3, Zenon
      <4>3. /\ n + Pow2[j] \in Nat /\ n + Pow2[j] # 0 /\ n + Pow2[j] < Pow2[w]
        BY ONLY <1>0, <1>00, <2>1, <2>4
      <4>4. j + 1 # w
        <5>1. (n + Pow2[j]) % Pow2[w] = n + Pow2[j]
          BY <1>0, <4>3, SmallRemainder, Zenon
        <5> QED
          BY <4>2, <4>3, <5>1, Zenon
      <4>5. j + 1 \in 0..(w - 1) /\ w # 1
        BY ONLY <1>0, <2>1, <3>3, <4>4
      <4>6. others <= 2 * w - 2 - (j + 1)
        BY <3>1, <4>2, <4>3, <4>5, Zenon DEF Short
      <4> QED
        BY ONLY <1>0, <2>1, <3>1, <4>1, <4>5, <4>6, k \in 0..(w - 1)
    <3> QED
      BY <3>6, <3>7, Zenon
  <2> QED
    BY <2>3, <2>4, Zenon
<1>3. ASSUME n = 0 PROVE count <= w
  <2>1. /\ j \in 0..Bits6 /\ j \in 0..w /\ Pow2[j] \in Nat \ {0} /\ n + Pow2[j] - 1 <= e
        /\ ~(n + Pow2[j] - 1 >= e) => n + Pow2[j] \in 0..e /\ n < n + Pow2[j]
    BY <1>00, TakesOn, Zenon
  <2>2. Takes(n, e, w, j) /\ OneMore(count, n, e, w, j)
    BY Zenon
  <2> HIDE DEF w
  <2>3. CASE n + Pow2[j] - 1 >= e
    <3>1. count = 1
      BY <2>2, <2>3, Zenon DEF OneMore
    <3> QED
      BY ONLY <1>0, <3>1
  <2>4. CASE ~(n + Pow2[j] - 1 >= e)
    <3>1. j # w
      <4> SUFFICES ASSUME j = w PROVE FALSE
        BY Zenon
      <4>1. ~(n + Pow2[w] - 1 >= e)
        BY <2>4, Zenon
      <4> QED
        BY ONLY <1>0, <1>00, <1>3, <4>1
    <3>2. j + 1 \in 0..w /\ j + 1 \in 0..Bits6
      BY ONLY <1>0, <2>1, <3>1
    <3>3. Pow2[j + 1] \in Nat \ {0} /\ Pow2[j + 1] <= Pow2[w]
      BY <1>0, <3>2, PowFacts, PowGrows, Zenon
    <3>4. n % Pow2[j + 1] = 0 /\ n % Pow2[w] = 0
      <4>1. \A p \in Nat \ {0} : 0 < p
        OBVIOUS
      <4> QED
        BY <1>0, <1>00, <1>3, <3>3, <4>1, SmallRemainder, Zenon
    <3>5. n + Pow2[j + 1] - 1 > e
      BY <2>2, <3>1, <3>4, Zenon DEF Takes
    <3>6. n + Pow2[w] - 1 > e
      BY ONLY <1>0, <1>00, <3>3, <3>5
    <3>7. w \in 0..w
      BY ONLY <1>0
    <3> QED
      BY <1>1, <3>4, <3>6, <3>7, Zenon
  <2> QED
    BY <2>3, <2>4, Zenon
<1> QED
  BY <1>1, <1>2, <1>3, Zenon DEF Short

\* The blocks of a family.
Blocks(family) == {Block(family, n, k) : n \in Nat, k \in 0..Width(family)}

\* The prefixes ps are adjacent and make up the range from n to e.
Chain(ps, family, n, e) ==
  /\ ps \in Seq(Blocks(family)) /\ Len(ps) \in Nat \ {0}
  /\ ps[1].addr = <<family, n>> /\ PrefixLastAddress(ps[Len(ps)]) = <<family, e>>
  /\ \A i \in 1..(Len(ps) - 1) : PrefixLastAddress(ps[i])[2] + 1 = ps[i + 1].addr[2]
  /\ \A a \in {4, 6} \X Nat :
       (\E p \in Range(ps) : PrefixContains(p, a)) <=> a[1] = family /\ n <= a[2] /\ a[2] <= e

\* A block of a family is one of its blocks.
LEMMA BlockIn ==
  ASSUME NEW family, NEW n \in Nat, NEW k \in 0..Width(family)
  PROVE  Block(family, n, k) \in Blocks(family)
BY DEF Blocks

\* The addresses of a block.
LEMMA BlockContains ==
  ASSUME NEW family \in {4, 6}, NEW n \in Nat, NEW k \in 0..Width(family), NEW a
  PROVE  PrefixContains(Block(family, n, k), a)
           <=> a[1] = family /\ n <= a[2] /\ a[2] <= n + Pow2[k] - 1
<1>1. PrefixLastAddress(Block(family, n, k))[2] = n + Pow2[k] - 1
  <2>1. PrefixLastAddress(Block(family, n, k)) = <<family, n + Pow2[k] - 1>>
    BY BlockFacts, Zenon
  <2> QED
    BY <2>1
<1>2. Block(family, n, k).addr[1] = family /\ Block(family, n, k).addr[2] = n
  BY DEF Block
<1> QED
  BY <1>1, <1>2, Zenon DEF PrefixContains

\* The last prefix of a range.
LEMMA ChainEnds ==
  ASSUME NEW family \in {4, 6}, NEW n \in Nat, NEW e \in Nat, NEW k \in 0..Width(family),
         n + Pow2[k] - 1 = e
  PROVE  Chain(<<Block(family, n, k)>>, family, n, e)
<1> DEFINE b == Block(family, n, k)
<1>1. b \in Blocks(family)
  BY BlockIn, Zenon
<1>2. b.addr = <<family, n>>
  BY DEF Block
<1>3. PrefixLastAddress(b) = <<family, e>>
  BY BlockFacts, Zenon
<1>4. \A a : PrefixContains(b, a) <=> a[1] = family /\ n <= a[2] /\ a[2] <= e
  BY BlockContains, Zenon
<1> HIDE DEF b
<1>5. <<b>> \in Seq(Blocks(family)) /\ Len(<<b>>) = 1 /\ <<b>>[1] = b /\ 1 \in Nat \ {0}
  BY <1>1
<1>6. 1..(1 - 1) = {}
  OBVIOUS
<1>7. Range(<<b>>) = {b}
  BY DEF Range
<1>8. \A a : (\E p \in Range(<<b>>) : PrefixContains(p, a))
                <=> a[1] = family /\ n <= a[2] /\ a[2] <= e
  BY <1>4, <1>7, Zenon
<1>9. PrefixLastAddress(<<b>>[Len(<<b>>)]) = <<family, e>> /\ <<b>>[1].addr = <<family, n>>
  BY <1>2, <1>3, <1>5, Zenon
<1>10. \A i \in 1..(Len(<<b>>) - 1) : PrefixLastAddress(<<b>>[i])[2] + 1 = <<b>>[i + 1].addr[2]
  BY <1>5, <1>6, Zenon
<1>11. <<b>> \in Seq(Blocks(family)) /\ Len(<<b>>) \in Nat \ {0}
  BY <1>5, Zenon
<1>12. Chain(<<b>>, family, n, e)
  BY <1>8, <1>9, <1>10, <1>11, Zenon DEF Chain
<1> QED
  BY <1>12, Zenon DEF b

\* ps is b and then others.
Prepends(ps, b, others) == ps = <<b>> \o others

\* A sequence with one element before it.
LEMMA Prepended ==
  ASSUME NEW S, NEW b \in S, NEW others \in Seq(S), NEW ps, Prepends(ps, b, others)
  PROVE  /\ ps \in Seq(S) /\ Len(ps) = 1 + Len(others) /\ ps[1] = b
         /\ \A i \in 1..Len(others) : ps[i + 1] = others[i]
         /\ Range(ps) = {b} \cup Range(others)
<1>1. /\ ps \in Seq(S) /\ Len(ps) = 1 + Len(others) /\ ps[1] = b
      /\ \A i \in 1..Len(others) : ps[i + 1] = others[i]
  BY DEF Prepends
<1>2. DOMAIN ps = 1..Len(ps) /\ DOMAIN others = 1..Len(others) /\ Len(others) \in Nat
  BY <1>1
<1>3. \A i \in 1..Len(ps) : i = 1 \/ (i - 1 \in 1..Len(others) /\ (i - 1) + 1 = i)
  BY <1>1, <1>2
<1>4. \A i \in 1..Len(others) : i + 1 \in 1..Len(ps)
  BY <1>1, <1>2
<1>5. 1 \in 1..Len(ps)
  BY <1>1, <1>2
<1>6. ASSUME NEW x \in Range(ps) PROVE x \in {b} \cup Range(others)
  <2>1. PICK i \in 1..Len(ps) : x = ps[i]
    BY <1>2, <1>6, Zenon DEF Range
  <2>2. CASE i = 1
    BY <1>1, <2>1, <2>2, Zenon
  <2>3. CASE i # 1
    <3>1. i - 1 \in 1..Len(others) /\ (i - 1) + 1 = i
      BY <1>3, <2>3, Zenon
    <3>2. ps[(i - 1) + 1] = others[i - 1]
      BY <1>1, <3>1, Zenon
    <3>3. x = others[i - 1]
      BY <2>1, <3>1, <3>2
    <3> QED
      BY <1>2, <3>1, <3>3, Zenon DEF Range
  <2> QED
    BY <2>2, <2>3, Zenon
<1>7. ASSUME NEW x \in {b} \cup Range(others) PROVE x \in Range(ps)
  <2>1. CASE x = b
    BY <1>1, <1>2, <1>5, <2>1, Zenon DEF Range
  <2>2. CASE x \in Range(others)
    <3>1. PICK i \in 1..Len(others) : x = others[i]
      BY <1>2, <2>2, Zenon DEF Range
    <3>2. x = ps[i + 1] /\ i + 1 \in 1..Len(ps)
      BY <1>1, <1>4, <3>1, Zenon
    <3> QED
      BY <1>2, <3>2, Zenon DEF Range
  <2> QED
    BY <2>1, <2>2, Zenon
<1>8. Range(ps) = {b} \cup Range(others)
  BY <1>6, <1>7, Zenon
<1> QED
  BY <1>1, <1>8, Zenon

\* A prefix before the range that begins where it ends.
LEMMA ChainGrows ==
  ASSUME NEW family \in {4, 6}, NEW n \in Nat, NEW e \in Nat, NEW k \in 0..Width(family),
         n + Pow2[k] - 1 < e, NEW others, Chain(others, family, n + Pow2[k], e)
  PROVE  Chain(<<Block(family, n, k)>> \o others, family, n, e)
<1> DEFINE b == Block(family, n, k)
           ps == <<b>> \o others
           m == n + Pow2[k]
<1>0. Pow2[k] \in Nat \ {0}
  <2>1. k \in 0..Bits6
    BY WidthFacts, RuleConstants
  <2> QED
    BY <2>1, PowFacts, Zenon
<1>1. b \in Blocks(family)
  BY BlockIn, Zenon
<1>2. b.addr = <<family, n>>
  BY DEF Block
<1>3. PrefixLastAddress(b)[2] + 1 = m
  <2>1. PrefixLastAddress(b) = <<family, n + Pow2[k] - 1>>
    BY BlockFacts, Zenon
  <2> HIDE DEF b
  <2> QED
    BY <1>0, <2>1
<1>4. \A a : PrefixContains(b, a) <=> a[1] = family /\ n <= a[2] /\ a[2] <= n + Pow2[k] - 1
  BY BlockContains, Zenon
<1> HIDE DEF b
<1>5. others \in Seq(Blocks(family)) /\ Len(others) \in Nat \ {0}
  BY Zenon DEF Chain
<1>6. /\ ps \in Seq(Blocks(family)) /\ Len(ps) = 1 + Len(others) /\ ps[1] = b
      /\ \A i \in 1..Len(others) : ps[i + 1] = others[i]
      /\ Range(ps) = {b} \cup Range(others)
  <2>1. Prepends(ps, b, others)
    BY Zenon DEF Prepends
  <2> HIDE DEF ps
  <2> QED
    BY ONLY <1>1, <1>5, <2>1, Prepended
<1> HIDE DEF ps
<1>7. Len(ps) \in Nat \ {0} /\ ps[Len(ps)] = others[Len(others)]
  <2>1. Len(others) \in 1..Len(others) /\ Len(others) + 1 = Len(ps)
    BY <1>5, <1>6
  <2>2. ps[Len(others) + 1] = others[Len(others)]
    BY <1>6, <2>1, Zenon
  <2>3. Len(ps) \in Nat \ {0}
    BY <1>5, <1>6
  <2> QED
    BY <2>1, <2>2, <2>3
<1>8. ASSUME NEW i \in 1..(Len(ps) - 1)
      PROVE  PrefixLastAddress(ps[i])[2] + 1 = ps[i + 1].addr[2]
  <2>1. i \in 1..Len(others) /\ i + 1 \in 1..Len(ps)
    BY <1>5, <1>6, <1>8
  <2>2. ps[i + 1] = others[i]
    BY <1>6, <2>1, Zenon
  <2>3. CASE i = 1
    <3>1. others[1].addr = <<family, m>>
      BY Zenon DEF Chain
    <3>2. others[1].addr[2] = m
      BY <3>1
    <3> QED
      BY <1>3, <1>6, <2>2, <2>3, <3>2, Zenon
  <2>4. CASE i # 1
    <3>1. i - 1 \in 1..(Len(others) - 1) /\ (i - 1) + 1 = i /\ i - 1 \in 1..Len(others)
      BY <1>5, <2>1, <2>4
    <3>2. ps[(i - 1) + 1] = others[i - 1]
      BY <1>6, <3>1, Zenon
    <3>3. PrefixLastAddress(others[i - 1])[2] + 1 = others[(i - 1) + 1].addr[2]
      BY <3>1, Zenon DEF Chain
    <3>4. ps[i] = others[i - 1] /\ others[(i - 1) + 1] = others[i]
      BY ONLY <3>1, <3>2, Zenon
    <3> QED
      BY <2>2, <3>3, <3>4, Zenon
  <2> QED
    BY <2>3, <2>4, Zenon
<1>9. ASSUME NEW a \in {4, 6} \X Nat
      PROVE  (\E p \in Range(ps) : PrefixContains(p, a)) <=> a[1] = family /\ n <= a[2] /\ a[2] <= e
  <2>1. (\E p \in Range(others) : PrefixContains(p, a)) <=> a[1] = family /\ m <= a[2] /\ a[2] <= e
    BY Zenon DEF Chain
  <2>2. (\E p \in Range(ps) : PrefixContains(p, a))
          <=> PrefixContains(b, a) \/ \E p \in Range(others) : PrefixContains(p, a)
    BY <1>6, Zenon
  <2>3. a[2] \in Nat
    BY <1>9
  <2>4. (n <= a[2] /\ a[2] <= n + Pow2[k] - 1) \/ (m <= a[2] /\ a[2] <= e)
          <=> n <= a[2] /\ a[2] <= e
    BY ONLY <1>0, <2>3, n + Pow2[k] - 1 < e, n \in Nat, e \in Nat
  <2> QED
    BY <1>4, <2>1, <2>2, <2>4, Zenon
<1>10. ps[1].addr = <<family, n>>
  BY <1>2, <1>6, Zenon
<1>11. PrefixLastAddress(ps[Len(ps)]) = <<family, e>>
  <2>1. PrefixLastAddress(others[Len(others)]) = <<family, e>>
    BY Zenon DEF Chain
  <2> QED
    BY <1>7, <2>1, Zenon
<1>12. Chain(ps, family, n, e)
  BY <1>6, <1>7, <1>8, <1>9, <1>10, <1>11, Zenon DEF Chain
<1> QED
  BY <1>12, Zenon DEF b, ps

\* The prefixes of a range, and how many they are.
LEMMA RangeFacts ==
  ASSUME NEW family \in {4, 6}, NEW e \in 0..(Pow2[Width(family)] - 1), NEW s \in 0..e
  PROVE  LET ps == AddressRangePrefixes(<<family, s>>, <<family, e>>) IN
         Chain(ps, family, s, e) /\ Short(Len(ps), s, e, Width(family))
<1> DEFINE w == Width(family)
<1>0. e \in Nat
  BY WidthFacts, PowFacts
<1>1. PICK f : /\ Prefixes(f, 0, family, e)
               /\ AddressRangePrefixes(<<family, s>>, <<family, e>>) = f[s]
  BY <1>0, RangeIsLoop, Zenon
<1> DEFINE G == {n \in 0..e : Chain(f[n], family, n, e) /\ Short(Len(f[n]), n, e, w)}
<1>2. ASSUME NEW n \in 0..e, \A j \in 0..e : n < j => j \in G PROVE n \in G
  <2>0. n \in Nat
    BY ONLY <1>0, n \in 0..e
  <2>1. f[n] = From(family, n, e, f)
    BY <1>1, Zenon DEF Prefixes
  <2>2. PICK k : /\ Takes(n, e, w, k)
                 /\ \A h : From(family, n, e, h) = IF n + Pow2[k] - 1 >= e
                                                THEN <<Block(family, n, k)>>
                                                ELSE <<Block(family, n, k)>> \o h[n + Pow2[k]]
    BY <1>0, FromFacts, Zenon
  <2>3. /\ k \in 0..Bits6 /\ k \in 0..w /\ Pow2[k] \in Nat \ {0} /\ n + Pow2[k] - 1 <= e
        /\ ~(n + Pow2[k] - 1 >= e) => n + Pow2[k] \in 0..e /\ n < n + Pow2[k]
    BY <1>0, <2>2, TakesOn, Zenon
  <2>4. CASE n + Pow2[k] - 1 >= e
    <3>1. f[n] = <<Block(family, n, k)>>
      BY <2>1, <2>2, <2>4, Zenon
    <3>2. n + Pow2[k] - 1 = e
      BY ONLY <1>0, <2>0, <2>3, <2>4
    <3>3. Chain(f[n], family, n, e)
      BY <1>0, <2>0, <2>3, <3>1, <3>2, ChainEnds, Zenon
    <3>4. Len(f[n]) = 1
      BY <3>1
    <3>5. OneMore(Len(f[n]), n, e, w, k) /\ Len(f[n]) \in Nat
      <4>1. 1 \in Nat
        OBVIOUS
      <4> QED
        BY <2>4, <3>4, <4>1, Zenon DEF OneMore
    <3> QED
      BY <2>2, <3>3, <3>5, ShortStep, Zenon
  <2>5. CASE ~(n + Pow2[k] - 1 >= e)
    <3> DEFINE m == n + Pow2[k]
    <3>1. f[n] = <<Block(family, n, k)>> \o f[m]
      BY <2>1, <2>2, <2>5, Zenon
    <3>2. Chain(f[m], family, m, e) /\ Short(Len(f[m]), m, e, w)
      BY <1>2, <2>3, <2>5, Zenon
    <3>3. n + Pow2[k] - 1 < e
      BY ONLY <1>0, <2>0, <2>3, <2>5
    <3>4. Chain(f[n], family, n, e)
      BY <1>0, <2>0, <2>3, <3>1, <3>2, <3>3, ChainGrows, Zenon
    <3>5. f[m] \in Seq(Blocks(family)) /\ Len(f[m]) \in Nat
      BY <3>2, Zenon DEF Chain
    <3>6. Block(family, n, k) \in Blocks(family)
      BY <2>0, <2>3, BlockIn, Zenon
    <3>7. Len(f[n]) = 1 + Len(f[m])
      <4>1. Prepends(f[n], Block(family, n, k), f[m])
        BY <3>1, Zenon DEF Prepends
      <4> HIDE DEF m
      <4> QED
        BY ONLY <3>5, <3>6, <4>1, Prepended
    <3>8. Len(f[n]) \in Nat
      BY <3>4, Zenon DEF Chain
    <3>9. OneMore(Len(f[n]), n, e, w, k)
      BY <2>5, <3>2, <3>5, <3>7, Zenon DEF OneMore
    <3> QED
      BY <2>2, <3>4, <3>8, <3>9, ShortStep, Zenon
  <2> QED
    BY <2>4, <2>5, Zenon
<1> HIDE DEF G
<1>3. s \in G
  BY <1>0, <1>2, Downwards, ZenonT(60)
<1> QED
  BY <1>1, <1>3, Zenon DEF G

-----------------------------------------------------------------------------
(* Selectors.                                                              *)

\* What an address is: a family, and a number of its width.
LEMMA AddressFacts ==
  ASSUME NEW a \in Addresses
  PROVE  /\ a[1] \in {4, 6} /\ a[2] \in Nat /\ a[2] \in 0..(Pow2[Width(a[1])] - 1)
         /\ a = <<a[1], a[2]>>
<1>1. PICK n : \/ a = <<4, n>> /\ n \in 0..(Pow2[Bits4] - 1)
               \/ a = <<6, n>> /\ n \in 0..(Pow2[Bits6] - 1)
  BY Zenon DEF Addresses
<1>2. Pow2[Bits4] \in Nat /\ Pow2[Bits6] \in Nat
  BY PowFacts, RuleConstants
<1>3. Width(4) = Bits4 /\ Width(6) = Bits6
  BY DEF Width
<1> QED
  BY <1>1, <1>2, <1>3

\* Unmapped, it is still one.
LEMMA UnmapFacts ==
  ASSUME NEW a \in Addresses
  PROVE  Unmap(a) \in Addresses /\ Unmap(a) \in {4, 6} \X Nat
<1>1. a[1] \in {4, 6} /\ a[2] \in Nat /\ a = <<a[1], a[2]>>
  BY AddressFacts, Zenon
<1>2. Pow2[Bits4] \in Nat \ {0}
  BY PowFacts, RuleConstants
<1>3. a[2] % Pow2[Bits4] \in 0..(Pow2[Bits4] - 1) /\ a[2] % Pow2[Bits4] \in Nat
  BY <1>1, <1>2
<1>4. CASE Is4In6(a)
  <2>1. Unmap(a) = <<4, a[2] % Pow2[Bits4]>>
    BY <1>4, Zenon DEF Unmap
  <2>2. Unmap(a) \in Addresses
    BY <1>3, <2>1, Zenon DEF Addresses
  <2> QED
    BY <1>3, <2>1, <2>2
<1>5. CASE ~Is4In6(a)
  <2>1. Unmap(a) = a
    BY <1>5, Zenon DEF Unmap
  <2> QED
    BY <1>1, <2>1
<1> QED
  BY <1>4, <1>5, Zenon

\* A prefix is never the host "*".
LEMMA NotAnyHost ==
  ASSUME NEW p, p.addr[1] \in {4, 6}
  PROVE  p # AnyHost
<1>1. AnyHost.addr[1] = 0
  BY DEF AnyHost
<1> QED
  BY <1>1

\* Masking keeps the family.
LEMMA MaskedFamily ==
  ASSUME NEW a, NEW bits
  PROVE  Masked(a, bits).addr[1] = a[1]
BY DEF Masked

\* An unmapped prefix has a family.
LEMMA UnmapPrefixFamily ==
  ASSUME NEW p, p.addr[1] \in {4, 6}
  PROVE  UnmapPrefix(p).addr[1] \in {4, 6}
<1>1. Unmap(p.addr)[1] \in {4, 6}
  <2>1. CASE Is4In6(p.addr)
    BY <2>1 DEF Unmap
  <2>2. CASE ~Is4In6(p.addr)
    BY <2>2, Zenon DEF Unmap
  <2> QED
    BY <2>1, <2>2, Zenon
<1> QED
  BY <1>1, MaskedFamily, Zenon DEF UnmapPrefix

\* What a selector is converted to matches what the selector does.
Exact(hosts, sel, addr) ==
  (\E p \in Range(hosts) : p = AnyHost \/ PrefixContains(p, Unmap(addr))) <=> MatchesIP(sel, addr)

\* A list of one host,
LEMMA OneHost ==
  ASSUME NEW p
  PROVE  Range(<<p>>) = {p} /\ <<p>> # <<>>
BY DEF Range

\* and of none.
LEMMA NoHost == Range(<< >>) = {}
BY DEF Range

\* The selector "*" is converted to the host "*".
LEMMA AnyExact ==
  ASSUME NEW sel, sel.kind = "any", NEW addr
  PROVE  Exact(FirewallHostSelectors(sel), sel, addr) /\ FirewallHostSelectors(sel) = <<AnyHost>>
<1>1. FirewallHostSelectors(sel) = <<AnyHost>>
  BY DEF FirewallHostSelectors
<1>2. MatchesIP(sel, addr) <=> TRUE
  BY DEF MatchesIP
<1> QED
  BY <1>1, <1>2, OneHost, Zenon DEF Exact

\* A prefix is converted to itself, unmapped.
LEMMA PrefixExact ==
  ASSUME NEW sel, sel.kind = "prefix", sel.addr \in Addresses, NEW addr
  PROVE  /\ Exact(FirewallHostSelectors(sel), sel, addr)
         /\ \E p : FirewallHostSelectors(sel) = <<p>>
<1> DEFINE p == UnmapPrefix(Masked(sel.addr, sel.bits))
<1>1. FirewallHostSelectors(sel) = <<p>>
  BY DEF FirewallHostSelectors
<1>2. MatchesIP(sel, addr) <=> PrefixContains(p, Unmap(addr))
  BY DEF MatchesIP
<1>3. p # AnyHost
  <2>1. sel.addr[1] \in {4, 6}
    BY AddressFacts, Zenon
  <2>2. Masked(sel.addr, sel.bits).addr[1] \in {4, 6}
    BY <2>1, MaskedFamily, Zenon
  <2>3. p.addr[1] \in {4, 6}
    BY ONLY <2>2, UnmapPrefixFamily
  <2> QED
    BY ONLY <2>3, NotAnyHost
<1> QED
  BY <1>1, <1>2, <1>3, OneHost, Zenon DEF Exact

\* ps is the range from start to end in few prefixes.
LaidOut(ps, start, end) ==
  /\ Chain(ps, start[1], start[2], end[2]) /\ Short(Len(ps), start[2], end[2], Width(start[1]))
  /\ end[1] = start[1] /\ start[1] \in {4, 6}
  /\ end[2] \in 0..(Pow2[Width(start[1])] - 1) /\ start[2] \in 0..end[2]

\* A range is converted to prefixes that make it up, or to nothing if it is none.
LEMMA RangeExact ==
  ASSUME NEW sel, sel.kind = "range", sel.addr \in Addresses, sel.last \in Addresses,
         NEW addr \in Addresses
  PROVE  /\ Exact(FirewallHostSelectors(sel), sel, addr)
         /\ FirewallHostSelectors(sel) # <<>> =>
              LaidOut(FirewallHostSelectors(sel), Unmap(sel.addr), Unmap(sel.last))
<1> DEFINE start == Unmap(sel.addr)
           end == Unmap(sel.last)
           a == Unmap(addr)
           ps == FirewallHostSelectors(sel)
<1>1. /\ start \in Addresses /\ end \in Addresses /\ a \in {4, 6} \X Nat
  BY UnmapFacts, Zenon
<1>2. /\ start[1] \in {4, 6} /\ start[2] \in Nat /\ start = <<start[1], start[2]>>
      /\ end[1] \in {4, 6} /\ end[2] \in Nat /\ end = <<end[1], end[2]>>
      /\ end[2] \in 0..(Pow2[Width(end[1])] - 1)
  BY <1>1, AddressFacts, Zenon
<1>3. MatchesIP(sel, addr)
        <=> start[1] = a[1] /\ end[1] = a[1] /\ start[2] <= a[2] /\ a[2] <= end[2]
  BY DEF MatchesIP
<1>4. ps = IF start[1] # end[1] \/ start[2] > end[2] THEN <<>> ELSE AddressRangePrefixes(start, end)
  BY DEF FirewallHostSelectors
<1> HIDE DEF start, end, a, ps
<1>5. CASE start[1] # end[1] \/ start[2] > end[2]
  <2>1. ps = <<>> /\ Range(ps) = {}
    BY <1>4, <1>5, NoHost, Zenon
  <2>2. ~MatchesIP(sel, addr)
    <3>1. a[2] \in Nat
      BY <1>1
    <3> QED
      BY <1>2, <1>3, <1>5, <3>1
  <2> QED
    BY <2>1, <2>2, Zenon DEF Exact, ps
<1>6. CASE ~(start[1] # end[1] \/ start[2] > end[2])
  <2>1. start[1] = end[1] /\ start[2] \in 0..end[2]
    BY <1>2, <1>6
  <2>2. ps = AddressRangePrefixes(<<start[1], start[2]>>, <<start[1], end[2]>>)
    BY <1>2, <1>4, <1>6, <2>1, Zenon
  <2>3. end[2] \in 0..(Pow2[Width(start[1])] - 1)
    BY <1>2, <2>1, Zenon
  <2>4. Chain(ps, start[1], start[2], end[2]) /\ Short(Len(ps), start[2], end[2], Width(start[1]))
    BY <1>2, <2>1, <2>2, <2>3, RangeFacts, Zenon
  <2>5. (\E p \in Range(ps) : PrefixContains(p, a))
          <=> a[1] = start[1] /\ start[2] <= a[2] /\ a[2] <= end[2]
    BY <1>1, <2>4, Zenon DEF Chain
  <2>6. \A p \in Range(ps) : p # AnyHost
    <3>1. \A p \in Range(ps) : p \in Blocks(start[1])
      <4>1. ps \in Seq(Blocks(start[1]))
        BY <2>4, Zenon DEF Chain
      <4> QED
        BY <4>1 DEF Range
    <3>2. \A p \in Blocks(start[1]) : p.addr[1] = start[1]
      BY DEF Blocks, Block
    <3>3. ASSUME NEW p \in Range(ps) PROVE p # AnyHost
      <4>1. p.addr[1] = start[1]
        BY <3>1, <3>2, Zenon
      <4>2. p.addr[1] \in {4, 6}
        BY <1>2, <4>1, Zenon
      <4> QED
        BY ONLY <4>2, NotAnyHost
    <3> QED
      BY <3>3, Zenon
  <2>7. Exact(ps, sel, addr)
    BY <1>3, <2>1, <2>5, <2>6, Zenon DEF Exact, a
  <2>8. LaidOut(ps, start, end)
    BY <1>2, <2>1, <2>3, <2>4, Zenon DEF LaidOut
  <2> QED
    BY <2>7, <2>8, Zenon DEF ps, start, end
<1> QED
  BY <1>5, <1>6, Zenon

\* A prefix of all the bits has one address.
LEMMA SingleAddress ==
  ASSUME NEW base \in Addresses, NEW a \in {4, 6} \X Nat
  PROVE  PrefixContains(Masked(base, Width(base[1])), a) <=> base = a
<1> DEFINE family == base[1]
           n == base[2]
<1>1. family \in {4, 6} /\ n \in Nat /\ base = <<family, n>>
  BY AddressFacts, Zenon
<1> HIDE DEF family, n
<1>2. Pow2[0] = 1 /\ n % Pow2[0] = 0 /\ 0 \in 0..Width(family) /\ Width(family) - 0 = Width(family)
  <2>1. Pow2[0] = 1
    BY PowFacts, Zenon
  <2>2. Width(family) \in Nat
    BY <1>1, WidthFacts, Zenon
  <2> QED
    BY <1>1, <2>1, <2>2
<1>3. Masked(<<family, n>>, Width(family) - 0) = Block(family, n, 0)
  BY <1>1, <1>2, FitsFacts, Zenon
<1>4. PrefixContains(Block(family, n, 0), a)
        <=> a[1] = family /\ n <= a[2] /\ a[2] <= n + Pow2[0] - 1
  BY <1>1, <1>2, BlockContains, Zenon
<1>5. a[1] = family /\ n <= a[2] /\ a[2] <= n + Pow2[0] - 1 <=> <<family, n>> = a
  BY <1>1, <1>2
<1>6. Masked(base, Width(base[1])) = Block(family, n, 0)
  BY <1>1, <1>2, <1>3, Zenon DEF family
<1> QED
  BY <1>1, <1>4, <1>5, <1>6, Zenon

\* An address is converted to its prefix, or to nothing if that is too long.
LEMMA AddressSelectorExact ==
  ASSUME NEW sel, sel.kind = "address", sel.addr \in Addresses, sel.bits \in Int,
         NEW addr \in Addresses
  PROVE  /\ Exact(FirewallHostSelectors(sel), sel, addr)
         /\ FirewallHostSelectors(sel) = <<>> \/ \E p : FirewallHostSelectors(sel) = <<p>>
<1> DEFINE base == Unmap(sel.addr)
           bits == UnmapAddressBits(sel.addr, sel.bits)
           a == Unmap(addr)
<1>1. base \in Addresses /\ a \in {4, 6} \X Nat /\ base[1] \in {4, 6}
  BY UnmapFacts, AddressFacts, Zenon
<1>2. /\ bits < 0 <=> sel.bits < 0
      /\ bits \in Int /\ Width(base[1]) \in Nat
  <2>1. MappedBits \in Nat
    BY RuleConstants DEF MappedBits
  <2>2. Width(base[1]) \in Nat
    BY <1>1, WidthFacts, Zenon
  <2>3. bits < 0 <=> sel.bits < 0
    BY <2>1 DEF UnmapAddressBits
  <2>4. bits \in Int
    BY <2>1 DEF UnmapAddressBits
  <2> QED
    BY <2>2, <2>3, <2>4, Zenon
<1>3. MatchesIP(sel, addr)
        <=> IF sel.bits < 0 THEN base = a
            ELSE bits <= Width(base[1]) /\ PrefixContains(Masked(base, bits), a)
  BY DEF MatchesIP
<1>4. FirewallHostSelectors(sel) = IF bits < 0 THEN <<Masked(base, Width(base[1]))>>
                                   ELSE IF bits > Width(base[1]) THEN <<>>
                                   ELSE <<Masked(base, bits)>>
  BY DEF FirewallHostSelectors
<1>5. \A x : Masked(base, x) # AnyHost
  <2>1. \A x : Masked(base, x).addr[1] \in {4, 6}
    BY <1>1, MaskedFamily, Zenon
  <2> QED
    BY ONLY <2>1, NotAnyHost
<1> HIDE DEF base, bits
<1>6. CASE bits < 0
  <2>1. FirewallHostSelectors(sel) = <<Masked(base, Width(base[1]))>>
    BY <1>4, <1>6, Zenon
  <2>2. MatchesIP(sel, addr) <=> PrefixContains(Masked(base, Width(base[1])), a)
    BY <1>1, <1>2, <1>3, <1>6, SingleAddress, Zenon
  <2> QED
    BY <1>5, <2>1, <2>2, OneHost, Zenon DEF Exact
<1>7. CASE ~(bits < 0) /\ bits > Width(base[1])
  <2>1. FirewallHostSelectors(sel) = <<>>
    BY <1>4, <1>7, Zenon
  <2>2. ~(bits <= Width(base[1]))
    BY <1>2, <1>7
  <2>3. ~MatchesIP(sel, addr)
    BY <1>2, <1>3, <1>7, <2>2, Zenon
  <2> QED
    BY <2>1, <2>3, NoHost, Zenon DEF Exact
<1>8. CASE ~(bits < 0) /\ ~(bits > Width(base[1]))
  <2>1. FirewallHostSelectors(sel) = <<Masked(base, bits)>>
    BY <1>4, <1>8, Zenon
  <2>2. bits <= Width(base[1])
    BY <1>2, <1>8
  <2>3. MatchesIP(sel, addr) <=> PrefixContains(Masked(base, bits), a)
    BY <1>2, <1>3, <1>8, <2>2, Zenon
  <2> QED
    BY <1>5, <2>1, <2>3, OneHost, Zenon DEF Exact
<1> QED
  BY <1>6, <1>7, <1>8, Zenon

\* Every selector is converted to what it matches; a list is empty if nothing is.
LEMMA SelectorExact ==
  ASSUME NEW sel \in Selectors, NEW addr \in Addresses
  PROVE  /\ Exact(FirewallHostSelectors(sel), sel, addr)
         /\ Range(FirewallHostSelectors(sel)) = {} <=> FirewallHostSelectors(sel) = <<>>
<1>1. CASE sel \in [kind : {"any"}]
  BY <1>1, AnyExact, OneHost, Zenon
<1>2. CASE sel \in [kind : {"address"}, addr : Addresses, bits : Int]
  <2>1. sel.kind = "address" /\ sel.addr \in Addresses /\ sel.bits \in Int
    BY <1>2, Zenon
  <2>2. /\ Exact(FirewallHostSelectors(sel), sel, addr)
        /\ FirewallHostSelectors(sel) = <<>> \/ \E p : FirewallHostSelectors(sel) = <<p>>
    BY <2>1, AddressSelectorExact, Zenon
  <2> QED
    BY <2>2, OneHost, NoHost, Zenon
<1>3. CASE sel \in {s \in [kind : {"prefix"}, addr : Addresses, bits : Nat] :
                       s.bits <= Width(s.addr[1])}
  <2>1. sel.kind = "prefix" /\ sel.addr \in Addresses
    BY <1>3, Zenon
  <2>2. /\ Exact(FirewallHostSelectors(sel), sel, addr)
        /\ \E p : FirewallHostSelectors(sel) = <<p>>
    BY <2>1, PrefixExact, Zenon
  <2> QED
    BY <2>2, OneHost, NoHost, Zenon
<1>4. CASE sel \in [kind : {"range"}, addr : Addresses, last : Addresses]
  <2>1. sel.kind = "range" /\ sel.addr \in Addresses /\ sel.last \in Addresses
    BY <1>4, Zenon
  <2>2. /\ Exact(FirewallHostSelectors(sel), sel, addr)
        /\ FirewallHostSelectors(sel) # <<>> =>
             LaidOut(FirewallHostSelectors(sel), Unmap(sel.addr), Unmap(sel.last))
    BY <2>1, RangeExact, Zenon
  <2>3. CASE FirewallHostSelectors(sel) = <<>>
    BY <2>2, <2>3, NoHost, Zenon
  <2>4. CASE FirewallHostSelectors(sel) # <<>>
    <3> DEFINE ps == FirewallHostSelectors(sel)
    <3>0. LaidOut(ps, Unmap(sel.addr), Unmap(sel.last))
      BY ONLY <2>2, <2>4
    <3>1. \E S : ps \in Seq(S) /\ Len(ps) \in Nat \ {0}
      BY <3>0, Zenon DEF LaidOut, Chain
    <3> HIDE DEF ps
    <3>2. PICK S : ps \in Seq(S) /\ Len(ps) \in Nat \ {0}
      BY <3>1, Zenon
    <3>3. DOMAIN ps = 1..Len(ps) /\ 1 \in 1..Len(ps)
      BY ONLY <3>2
    <3>4. Range(ps) # {}
      BY ONLY <3>3, Zenon DEF Range
    <3> QED
      BY <2>2, <2>4, <3>4, Zenon DEF ps
  <2> QED
    BY <2>3, <2>4, Zenon
<1> QED
  BY <1>1, <1>2, <1>3, <1>4, Zenon DEF Selectors

-----------------------------------------------------------------------------
(* Rules.                                                                  *)

\* The rules that a client has: their selectors can be read, their ports are ports.
Rules ==
  \A rule \in Range(rules) :
    /\ \A sel \in Range(rule.sources) : sel \in Selectors
    /\ \A dst \in Range(rule.destinations) :
         dst \in [sel : Selectors, first : 0..MaxPort, last : 0..MaxPort]

\* The hosts of a list of sources are those of each of them.
LEMMA HostsOf ==
  ASSUME NEW sources, NEW p
  PROVE  p \in Hosts(sources)
           <=> \E sel \in Range(sources) : p \in Range(FirewallHostSelectors(sel))
BY Zenon DEF Hosts

\* The hosts of a kept rule are those its sources match.
LEMMA SourcesExact ==
  ASSUME NEW rule, \A sel \in Range(rule.sources) : sel \in Selectors, NEW addr \in Addresses
  PROVE  KeepsRule(rule) /\ HostMatches(Hosts(rule.sources), addr)
           <=> \E sel \in Range(rule.sources) : MatchesIP(sel, addr)
<1>1. ASSUME KeepsRule(rule), HostMatches(Hosts(rule.sources), addr)
      PROVE  \E sel \in Range(rule.sources) : MatchesIP(sel, addr)
  <2>1. PICK p \in Hosts(rule.sources) : p = AnyHost \/ PrefixContains(p, Unmap(addr))
    BY <1>1, Zenon DEF KeepsRule, HostMatches
  <2>2. PICK sel \in Range(rule.sources) : p \in Range(FirewallHostSelectors(sel))
    BY HostsOf, Zenon
  <2>3. Exact(FirewallHostSelectors(sel), sel, addr)
    BY SelectorExact, Zenon
  <2> QED
    BY <2>1, <2>2, <2>3, Zenon DEF Exact
<1>2. ASSUME NEW sel \in Range(rule.sources), MatchesIP(sel, addr)
      PROVE  KeepsRule(rule) /\ HostMatches(Hosts(rule.sources), addr)
  <2>1. Exact(FirewallHostSelectors(sel), sel, addr)
    BY SelectorExact, Zenon
  <2>2. PICK p \in Range(FirewallHostSelectors(sel)) : p = AnyHost \/ PrefixContains(p, Unmap(addr))
    BY <1>2, <2>1, Zenon DEF Exact
  <2>3. p \in Hosts(rule.sources)
    BY HostsOf, Zenon
  <2> QED
    BY <2>2, <2>3, Zenon DEF KeepsRule, HostMatches
<1> QED
  BY <1>1, <1>2, Zenon

\* So are the local hosts of an entry.
LEMMA DestinationExact ==
  ASSUME NEW sel \in Selectors, NEW addr \in Addresses
  PROVE  FirewallHostSelectors(sel) # <<>> /\ HostMatches(Range(FirewallHostSelectors(sel)), addr)
           <=> MatchesIP(sel, addr)
<1> DEFINE ps == FirewallHostSelectors(sel)
<1>1. Exact(ps, sel, addr) /\ (Range(ps) = {} <=> ps = <<>>)
  BY SelectorExact, Zenon
<1> HIDE DEF ps
<1>2. ps # <<>> /\ HostMatches(Range(ps), addr) <=> MatchesIP(sel, addr)
  <2>1. CASE Range(ps) = {}
    BY <1>1, <2>1, Zenon DEF Exact
  <2>2. CASE Range(ps) # {}
    BY <1>1, <2>2, Zenon DEF Exact, HostMatches
  <2> QED
    BY <2>1, <2>2, Zenon
<1> QED
  BY <1>2 DEF ps

\* The ports of an entry, and the entry, for a destination of a rule.
PortsOf(dst) == IF dst.first = 0 /\ dst.last = MaxPort THEN <<>> ELSE <<dst.first, dst.last>>

EntryOf(rule, protocol, dst) ==
  [network |-> protocol, hosts |-> Hosts(rule.sources),
   local |-> Range(FirewallHostSelectors(dst.sel)), ports |-> PortsOf(dst)]

\* The entries of a rule.
LEMMA EntriesOf ==
  ASSUME NEW rule, NEW entry
  PROVE  entry \in RuleEntries(rule)
           <=> \E protocol \in RuleProtocols(rule), dst \in Range(rule.destinations) :
                 /\ FirewallHostSelectors(dst.sel) # <<>> /\ dst.first <= dst.last
                 /\ entry = EntryOf(rule, protocol, dst)
BY DEF RuleEntries, EntryOf, PortsOf

\* What gonnect reads in them.
PortsMatch(dst, port) ==
  /\ dst.first <= dst.last
  /\ PortsOf(dst) = <<>> \/ (PortsOf(dst)[1] <= port /\ port <= PortsOf(dst)[2])

\* The ports of an entry are those of its destination, also when it lists none.
LEMMA PortsExact ==
  ASSUME NEW dst \in [sel : Selectors, first : 0..MaxPort, last : 0..MaxPort],
         NEW port \in 0..MaxPort
  PROVE  PortsMatch(dst, port) <=> dst.first <= port /\ port <= dst.last
<1>1. dst.first \in Nat /\ dst.last \in Nat /\ port \in Nat /\ port <= MaxPort /\ MaxPort \in Nat
  BY RuleConstants
<1>2. CASE dst.first = 0 /\ dst.last = MaxPort
  <2>1. PortsOf(dst) = <<>>
    BY <1>2, Zenon DEF PortsOf
  <2> QED
    BY <1>1, <1>2, <2>1 DEF PortsMatch
<1>3. CASE ~(dst.first = 0 /\ dst.last = MaxPort)
  <2>1. PortsOf(dst) = <<dst.first, dst.last>>
    BY <1>3, Zenon DEF PortsOf
  <2>2. PortsOf(dst) # <<>> /\ PortsOf(dst)[1] = dst.first /\ PortsOf(dst)[2] = dst.last
    BY <2>1
  <2>3. dst.first <= port /\ port <= dst.last => dst.first <= dst.last
    BY <1>1
  <2> QED
    BY <2>2, <2>3, Zenon DEF PortsMatch
<1> QED
  BY <1>2, <1>3, Zenon

\* The entries of a policy are those of the rules that are kept.
LEMMA ConfigOf ==
  ASSUME NEW entry
  PROVE  entry \in FirewallConfig(rules)
           <=> \E rule \in Range(rules) : KeepsRule(rule) /\ entry \in RuleEntries(rule)
BY Zenon DEF FirewallConfig

\* A converted policy allows what the rules allow.
LEMMA ConfigExact ==
  ASSUME Rules, NEW source \in Addresses, NEW destination \in Addresses,
         NEW protocol, NEW port \in 0..MaxPort
  PROVE  LET packet == [source |-> source, destination |-> destination,
                        protocol |-> protocol, port |-> port]
         IN FirewallAllows(FirewallConfig(rules), packet) <=> ACLAllows(rules, packet)
<1> DEFINE packet == [source |-> source, destination |-> destination,
                      protocol |-> protocol, port |-> port]
<1>1. /\ packet.source = source /\ packet.destination = destination
      /\ packet.protocol = protocol /\ packet.port = port
  OBVIOUS
<1> HIDE DEF packet
<1>2. ASSUME NEW rule \in Range(rules)
      PROVE  /\ \A sel \in Range(rule.sources) : sel \in Selectors
             /\ \A dst \in Range(rule.destinations) :
                  /\ dst \in [sel : Selectors, first : 0..MaxPort, last : 0..MaxPort]
                  /\ dst.sel \in Selectors
  BY Zenon DEF Rules
<1>3. ASSUME FirewallAllows(FirewallConfig(rules), packet)
      PROVE  ACLAllows(rules, packet)
  <2>1. PICK entry \in FirewallConfig(rules) :
          /\ entry.network = protocol
          /\ HostMatches(entry.hosts, source) /\ HostMatches(entry.local, destination)
          /\ entry.ports = <<>> \/ (entry.ports[1] <= port /\ port <= entry.ports[2])
    BY <1>1, <1>3, Zenon DEF FirewallAllows
  <2>2. PICK rule \in Range(rules) : KeepsRule(rule) /\ entry \in RuleEntries(rule)
    BY <2>1, ConfigOf, Zenon
  <2>3. PICK pr \in RuleProtocols(rule), dst \in Range(rule.destinations) :
          /\ FirewallHostSelectors(dst.sel) # <<>> /\ dst.first <= dst.last
          /\ entry = EntryOf(rule, pr, dst)
    BY <2>2, EntriesOf, Zenon
  <2>4. /\ entry.network = pr /\ entry.hosts = Hosts(rule.sources)
        /\ entry.local = Range(FirewallHostSelectors(dst.sel)) /\ entry.ports = PortsOf(dst)
    BY ONLY <2>3 DEF EntryOf
  <2>5. protocol \in RuleProtocols(rule) /\ HostMatches(Hosts(rule.sources), source)
    BY <2>1, <2>4, Zenon
  <2>6. HostMatches(Range(FirewallHostSelectors(dst.sel)), destination)
    BY <2>1, <2>4, Zenon
  <2>7. PortsMatch(dst, port)
    BY <2>1, <2>3, <2>4, Zenon DEF PortsMatch
  <2>8. \E sel \in Range(rule.sources) : MatchesIP(sel, source)
    BY <1>2, <2>2, <2>5, SourcesExact, Zenon
  <2>9. MatchesIP(dst.sel, destination)
    BY <1>2, <2>3, <2>6, DestinationExact, Zenon
  <2>10. dst.first <= port /\ port <= dst.last
    BY <1>2, <2>7, PortsExact, Zenon
  <2> QED
    BY <1>1, <2>5, <2>8, <2>9, <2>10, Zenon DEF ACLAllows
<1>4. ASSUME ACLAllows(rules, packet)
      PROVE  FirewallAllows(FirewallConfig(rules), packet)
  <2>1. PICK rule \in Range(rules) :
          /\ \E sel \in Range(rule.sources) : MatchesIP(sel, source)
          /\ protocol \in RuleProtocols(rule)
          /\ \E dst \in Range(rule.destinations) :
               /\ MatchesIP(dst.sel, destination)
               /\ dst.first <= port /\ port <= dst.last
    BY <1>1, <1>4, Zenon DEF ACLAllows
  <2>2. PICK dst \in Range(rule.destinations) :
          /\ MatchesIP(dst.sel, destination)
          /\ dst.first <= port /\ port <= dst.last
    BY <2>1, Zenon
  <2>3. KeepsRule(rule) /\ HostMatches(Hosts(rule.sources), source)
    BY <1>2, <2>1, SourcesExact, Zenon
  <2>4. /\ FirewallHostSelectors(dst.sel) # <<>>
        /\ HostMatches(Range(FirewallHostSelectors(dst.sel)), destination)
    BY <1>2, <2>2, DestinationExact, Zenon
  <2>5. PortsMatch(dst, port)
    BY <1>2, <2>2, PortsExact, Zenon
  <2> DEFINE entry == EntryOf(rule, protocol, dst)
  <2>6. entry \in RuleEntries(rule)
    BY <2>1, <2>4, <2>5, EntriesOf, Zenon DEF PortsMatch
  <2>7. entry \in FirewallConfig(rules)
    BY <2>3, <2>6, ConfigOf, Zenon
  <2>8. /\ entry.network = protocol /\ entry.hosts = Hosts(rule.sources)
        /\ entry.local = Range(FirewallHostSelectors(dst.sel)) /\ entry.ports = PortsOf(dst)
    BY ONLY TRUE DEF EntryOf
  <2> HIDE DEF entry
  <2>9. /\ HostMatches(entry.hosts, source) /\ HostMatches(entry.local, destination)
        /\ entry.ports = <<>> \/ (entry.ports[1] <= port /\ port <= entry.ports[2])
    BY <2>3, <2>4, <2>5, <2>8, Zenon DEF PortsMatch
  <2> QED
    BY <1>1, <2>7, <2>8, <2>9, Zenon DEF FirewallAllows
<1>5. FirewallAllows(FirewallConfig(rules), packet) <=> ACLAllows(rules, packet)
  BY <1>3, <1>4, Zenon
<1> QED
  BY <1>5 DEF packet

\* A range of addresses becomes few prefixes.
LEMMA RangeLaidOut ==
  ASSUME NEW sel \in Selectors, sel.kind = "range", FirewallHostSelectors(sel) # <<>>
  PROVE  LET ps == FirewallHostSelectors(sel) IN
         /\ \A i \in 1..(Len(ps) - 1) : PrefixLastAddress(ps[i])[2] + 1 = ps[i + 1].addr[2]
         /\ ps[1].addr = Unmap(sel.addr) /\ PrefixLastAddress(ps[Len(ps)]) = Unmap(sel.last)
         /\ Len(ps) <= IF Width(ps[1].addr[1]) = 1 THEN 1 ELSE 2 * Width(ps[1].addr[1]) - 2
<1> DEFINE start == Unmap(sel.addr)
           end == Unmap(sel.last)
           ps == FirewallHostSelectors(sel)
           w == Width(start[1])
<1>1. sel.addr \in Addresses /\ sel.last \in Addresses
  BY DEF Selectors
<1>2. LaidOut(ps, start, end)
  BY <1>1, RangeExact, Zenon
<1>3. start = <<start[1], start[2]>> /\ end = <<end[1], end[2]>> /\ start[2] \in Nat
  BY <1>1, UnmapFacts, AddressFacts, Zenon
<1>4. /\ Chain(ps, start[1], start[2], end[2]) /\ Short(Len(ps), start[2], end[2], w)
      /\ end[1] = start[1] /\ start[1] \in {4, 6}
  BY <1>2, Zenon DEF LaidOut
<1>5. /\ ps[1].addr = start /\ PrefixLastAddress(ps[Len(ps)]) = end /\ Len(ps) \in Nat
      /\ \A i \in 1..(Len(ps) - 1) : PrefixLastAddress(ps[i])[2] + 1 = ps[i + 1].addr[2]
  <2>1. Len(ps) \in Nat \ {0} => Len(ps) \in Nat
    OBVIOUS
  <2> HIDE DEF ps, start, end
  <2> QED
    BY <1>3, <1>4, <2>1, Zenon DEF Chain
<1>6. w \in 0..Bits6 /\ w \in Nat \ {0} /\ Bits6 \in Nat
  BY <1>4, WidthFacts, RuleConstants, Zenon
<1> HIDE DEF ps, start, end, w
<1>7. Len(ps) <= IF w = 1 THEN 1 ELSE 2 * w - 2
  <2>1. CASE start[2] = 0
    <3>1. Len(ps) <= w
      BY <1>4, <2>1, Zenon DEF Short
    <3> QED
      BY ONLY <1>5, <1>6, <3>1
  <2>2. CASE start[2] # 0
    <3>1. Pow2[0] = 1 /\ start[2] % 1 = 0 /\ 0 \in 0..(w - 1)
      <4>1. Pow2[0] = 1
        BY PowFacts, Zenon
      <4> QED
        BY <1>3, <1>6, <4>1
    <3>2. Len(ps) <= IF w = 1 THEN 1 ELSE 2 * w - 2 - 0
      BY <1>4, <2>2, <3>1, Zenon DEF Short
    <3> QED
      BY ONLY <1>5, <1>6, <3>2
  <2> QED
    BY <2>1, <2>2, Zenon
<1>8. Len(ps) <= IF Width(ps[1].addr[1]) = 1 THEN 1 ELSE 2 * Width(ps[1].addr[1]) - 2
  BY <1>5, <1>7, Zenon DEF w
<1>9. /\ \A i \in 1..(Len(ps) - 1) : PrefixLastAddress(ps[i])[2] + 1 = ps[i + 1].addr[2]
      /\ ps[1].addr = start /\ PrefixLastAddress(ps[Len(ps)]) = end
      /\ Len(ps) <= IF Width(ps[1].addr[1]) = 1 THEN 1 ELSE 2 * Width(ps[1].addr[1]) - 2
  BY <1>5, <1>8, Zenon
<1> QED
  BY <1>9 DEF ps, start, end

-----------------------------------------------------------------------------
(* The policy.                                                             *)

\* The rules are readable, and the policy, if there is one, is theirs.
RuleInv == Rules /\ (policy = NotConverted \/ policy = FirewallConfig(rules))

\* It holds of rules that have not been converted,
LEMMA RuleInitial == ASSUME RuleInit PROVE RuleInv
<1>1. PICK s \in SourceLists, d \in Destinations, ps \in Protocols :
        rules = <<[sources |-> s, destinations |-> <<d>>, protocols |-> ps]>>
  BY Zenon DEF RuleInit
<1>2. s \in Seq(Selectors) /\ d \in [sel : Selectors, first : 0..MaxPort, last : 0..MaxPort]
  BY RuleConstants, Zenon
<1> DEFINE rule == [sources |-> s, destinations |-> <<d>>, protocols |-> ps]
<1>3. rule.sources = s /\ rule.destinations = <<d>>
  OBVIOUS
<1>4. rules = <<rule>>
  BY <1>1, Zenon
<1> HIDE DEF rule
<1>5. Range(rules) = {rule}
  BY <1>4, OneHost, Zenon
<1>6. Range(rule.destinations) = {d}
  BY <1>3, OneHost, Zenon
<1>7. \A sel \in Range(s) : sel \in Selectors
  BY <1>2 DEF Range
<1>8. Rules
  BY <1>2, <1>3, <1>5, <1>6, <1>7, Zenon DEF Rules
<1> QED
  BY <1>8, Zenon DEF RuleInit, RuleInv

\* and of the policy they are converted to.
LEMMA RuleStep == ASSUME RuleInv, [RuleNext]_ruleVars PROVE RuleInv'
<1>1. rules' = rules /\ (policy' = policy \/ policy' = FirewallConfig(rules))
  BY DEF RuleNext, ACLFirewallConfig, ruleVars
<1>2. Rules'
  BY <1>1, Zenon DEF RuleInv, Rules
<1>3. policy' = NotConverted \/ policy' = FirewallConfig(rules)
  BY <1>1, Zenon DEF RuleInv
<1>4. FirewallConfig(rules)' = FirewallConfig(rules)
  BY <1>1, Zenon DEF FirewallConfig
<1> QED
  BY <1>2, <1>3, <1>4, Zenon DEF RuleInv

\* So the policy is the one that the rules say.
LEMMA PolicyFollows == ASSUME RuleInv PROVE PolicyExact
<1>1. PolicyIsACL
  BY ConfigExact, Zenon DEF RuleInv, PolicyIsACL
<1>2. RangesMinimal
  BY RangeLaidOut, Zenon DEF RuleInv, Rules, RangesMinimal
<1> QED
  BY <1>1, <1>2, Zenon DEF PolicyExact

\* The policy that ACLFirewallConfig exports allows exactly the packets that
\* ACLAllows reports as allowed, and each range of addresses becomes adjacent
\* prefixes from its first to its last address, at most 2w - 2 of them: for every
\* width of the families, every block of mapped addresses and every selector,
\* convertible or not.
THEOREM PolicyAlways == RuleSpec => []PolicyExact
<1>1. RuleInit => RuleInv
  BY RuleInitial
<1>2. RuleInv /\ [RuleNext]_ruleVars => RuleInv'
  BY RuleStep
<1>3. RuleInv => PolicyExact
  BY PolicyFollows
<1> QED
  BY <1>1, <1>2, <1>3, PTL DEF RuleSpec
=============================================================================

--------------------------- MODULE ControlProofs ----------------------------
(***************************************************************************)
(* Proofs about the parts that talk to control: the connection             *)
(* (NoiseConn), what is stored about the node and its peers (ConfirmCache) *)
(* and the answers to pings (ControlPings).                                *)
(***************************************************************************)
EXTENDS NoiseConn, ConfirmCache, ControlPings, TLAPS

-----------------------------------------------------------------------------
(***************************************************************************)
(* NoiseConn: NoiseInv is inductive, and with it a direction of the        *)
(* connection is a ByteStream.                                             *)
(***************************************************************************)

\* A new connection has read and written nothing.
LEMMA InitNoise == NoiseInit => NoiseInv
<1> SUFFICES ASSUME NoiseInit PROVE NoiseInv
  BY Zenon
<1> USE NoiseConstants DEF NoiseInit
<1>1. NoiseTypeOK
  <2>1. /\ left \in [Writers -> Nat] /\ frame \in [Writers -> Record \cup {NoFrame}]
        /\ txNonce \in Nat /\ rxNonce \in Nat /\ sealed \in Nat
        /\ wire \in Seq(Record \cup {Fragment}) /\ log \in Seq(Sealed)
        /\ plain \in Bytes /\ out \in Bytes
    BY DEF Bytes
  <2>2. txCipher \in BOOLEAN /\ rxCipher \in BOOLEAN /\ panicked \in BOOLEAN
    BY Zenon
  <2>3. reading \in SUBSET Readers /\ closing \in [Ends -> {"open", "conn", "rx", "done"}]
    BY Zenon DEF Ends
  <2> QED
    BY <2>1, <2>2, <2>3, Zenon DEF NoiseTypeOK
<1>2. LockInv /\ LogInv /\ WireInv /\ ReadInv
  BY DEF LockInv, LogInv, WireInv, ReadInv
<1>3. WholeInv
  BY DEF WholeInv, WritesWhole
<1> QED
  BY <1>1, <1>2, <1>3, Zenon DEF NoiseInv

\* A chunk has a byte at least, and no more than are left.
LEMMA ChunkSize ==
  ASSUME NoiseTypeOK, NEW w \in Writers, left[w] > 0
  PROVE  Chunk(w) \in Nat /\ 1 <= Chunk(w) /\ Chunk(w) <= left[w]
BY NoiseConstants DEF Chunk, NoiseTypeOK

\* What appending to a sequence does, position by position.
LEMMA AppendFacts ==
  ASSUME NEW S, NEW s \in Seq(S), NEW e \in S
  PROVE  /\ Append(s, e) \in Seq(S) /\ Append(s, e) # <<>>
         /\ Len(s) \in Nat /\ Len(Append(s, e)) = Len(s) + 1
         /\ Append(s, e)[Len(s) + 1] = e
         /\ \A i \in 1..Len(s) : Append(s, e)[i] = s[i]
OBVIOUS

\* Beginning a Write.
LEMMA BeginWrite ==
  ASSUME NoiseInv, NEW w \in Writers, NEW size \in Sizes, WriteBegin(w, size)
  PROVE  NoiseInv'
<1> USE NoiseConstants DEF NoiseInv, WriteBegin, TxFree, rxVars
<1>1. NoiseTypeOK'
  BY Zenon DEF NoiseTypeOK
<1>2. LockInv'
  BY DEF LockInv, NoiseTypeOK
<1>3. LogInv' /\ ReadInv'
  BY Zenon DEF LogInv, ReadInv
<1>4. WireInv'
  BY Zenon DEF WireInv, IsSealed
<1>5. \A v \in Writers : frame[v] = NoFrame
  BY DEF LockInv, NoiseTypeOK
<1>6. WholeInv'
  <2>1. WritesWhole'
    BY Zenon DEF WholeInv, WritesWhole
  <2>2. ~(log # <<>> /\ log[Len(log)].more > 0)
    <3> SUFFICES ASSUME log # <<>>, log[Len(log)].more > 0 PROVE FALSE
      BY Zenon
    <3>1. log[Len(log)] \in Sealed
      BY DEF NoiseTypeOK
    <3> QED
      BY <1>5, <3>1 DEF WholeInv, Sealed
  <2> QED
    BY <1>5, <2>1, <2>2, Zenon DEF WholeInv
<1> QED
  BY <1>1, <1>2, <1>3, <1>4, <1>6, Zenon

\* Sealing a chunk: the new record follows the last one in every respect.
LEMMA SealStep ==
  ASSUME NoiseInv, ~panicked, NEW w \in Writers, Seal(w)
  PROVE  NoiseInv'
<1> USE NoiseConstants DEF NoiseInv, rxVars
<1>0. left[w] > 0 /\ frame[w] = NoFrame
  BY Zenon DEF Seal
<1>a. Chunk(w) \in Nat /\ 1 <= Chunk(w) /\ Chunk(w) <= left[w]
  BY <1>0, ChunkSize, Zenon
<1> DEFINE record == [n |-> txNonce, lo |-> sealed + 1, hi |-> sealed + Chunk(w)]
           entry == [n |-> txNonce, lo |-> sealed + 1, hi |-> sealed + Chunk(w),
                     w |-> w, more |-> left[w] - Chunk(w)]
<1>1. /\ frame' = [frame EXCEPT ![w] = record]
      /\ sealed' = sealed + Chunk(w) /\ log' = Append(log, entry)
      /\ UNCHANGED <<left, txCipher, wire, reading, rxCipher, rxNonce, plain, closing, out>>
  BY Zenon DEF Seal
<1>1a. \/ txNonce = InvalidNonce /\ panicked' = TRUE /\ txNonce' = txNonce
       \/ txNonce # InvalidNonce /\ txNonce' = txNonce + 1 /\ panicked' = panicked
  BY Zenon DEF Seal
<1>2. record \in Record /\ entry \in Sealed /\ record # NoFrame /\ record # Fragment
  BY <1>a, SMTT(30) DEF NoiseTypeOK, Record, Sealed
<1> HIDE DEF record, entry
<1>3. NoiseTypeOK'
  <2>1. frame' \in [Writers -> Record \cup {NoFrame}]
    BY <1>1, <1>2, Zenon DEF NoiseTypeOK
  <2>2. txNonce' \in Nat /\ sealed' \in Nat /\ log' \in Seq(Sealed)
    BY <1>1, <1>1a, <1>2, <1>a DEF NoiseTypeOK
  <2>3. panicked' \in BOOLEAN
    BY <1>1a, Zenon DEF NoiseTypeOK
  <2> QED
    BY <1>1, <2>1, <2>2, <2>3, Zenon DEF NoiseTypeOK
<1>4. /\ Len(log') = Len(log) + 1 /\ log'[Len(log) + 1] = entry
      /\ \A i \in 1..Len(log) : log'[i] = log[i]
      /\ log' # <<>> /\ Len(log) \in Nat
      /\ \A i \in 1..Len(log') : i \in 1..Len(log) \/ i = Len(log) + 1
  <2>1. log \in Seq(Sealed)
    BY Zenon DEF NoiseTypeOK
  <2>2. /\ Len(log') = Len(log) + 1 /\ log'[Len(log) + 1] = entry
        /\ \A i \in 1..Len(log) : log'[i] = log[i]
        /\ log' # <<>> /\ Len(log) \in Nat
    <3>1. log' = Append(log, entry) /\ entry \in Sealed
      BY <1>1, <1>2, Zenon
    <3> QED
      BY <2>1, <3>1, AppendFacts
  <2>3. \A i \in 1..Len(log') : i \in 1..Len(log) \/ i = Len(log) + 1
    BY <2>2
  <2> QED
    BY <2>2, <2>3, Zenon
<1>4a. sealed \in Nat /\ txNonce \in Nat /\ left \in [Writers -> Nat]
  BY Zenon DEF NoiseTypeOK
<1>5. /\ entry.n = txNonce /\ entry.lo = sealed + 1 /\ entry.hi = sealed + Chunk(w)
      /\ entry.w = w /\ entry.more = left[w] - Chunk(w)
      /\ record.n = txNonce /\ record.lo = sealed + 1 /\ record.hi = sealed + Chunk(w)
  BY Zenon DEF record, entry
<1>5a. \A i \in 1..Len(log) : log[i] \in Sealed
  BY DEF NoiseTypeOK
<1>5b. \A i \in 1..Len(log) : /\ log[i].n \in Nat /\ log[i].lo \in Nat /\ log[i].hi \in Nat
                              /\ log[i].more \in Nat /\ log[i].w \in Writers
  BY <1>5a, Zenon DEF Sealed
<1>6. LockInv'
  BY <1>1, <1>0, Zenon DEF LockInv, NoiseTypeOK
<1>7. LogInv'
  <2>1. txNonce' <= InvalidNonce /\ (~panicked' => txNonce' = Len(log'))
    <3>1. txNonce = Len(log) /\ txNonce <= InvalidNonce
      BY Zenon DEF LogInv
    <3>2. CASE txNonce = InvalidNonce
      BY <1>1a, <3>1, <3>2, Zenon
    <3>3. CASE txNonce # InvalidNonce
      BY <1>1a, <1>4, <1>4a, <3>1, <3>3, SMT
    <3> QED
      BY <3>2, <3>3, Zenon
  <2>2. \A i \in 1..Len(log') : log'[i].n = i - 1 /\ log'[i].lo <= log'[i].hi
    <3>1. entry.n = Len(log) /\ entry.lo <= entry.hi
      BY <1>4a, <1>5, <1>a DEF LogInv
    <3> SUFFICES ASSUME NEW i \in 1..Len(log')
                 PROVE  log'[i].n = i - 1 /\ log'[i].lo <= log'[i].hi
      BY Zenon
    <3>2. CASE i \in 1..Len(log)
      <4>1. log'[i] = log[i]
        BY <3>2, <1>4, Zenon
      <4>2. log[i].n = i - 1 /\ log[i].lo <= log[i].hi
        BY <3>2, Zenon DEF LogInv
      <4> QED
        BY <4>1, <4>2, Zenon
    <3>3. CASE i = Len(log) + 1
      <4>1. log'[i] = entry /\ i - 1 = Len(log)
        BY <3>3, <1>4
      <4> QED
        BY <4>1, <3>1, Zenon
    <3> QED
      BY <3>2, <3>3, <1>4, Zenon
  <2>3. \A i \in 1..Len(log') : log'[i].hi <= sealed'
    <3> SUFFICES ASSUME NEW i \in 1..Len(log') PROVE log'[i].hi <= sealed'
      BY Zenon
    <3>1. CASE i \in 1..Len(log)
      <4>1. log'[i] = log[i]
        BY <3>1, <1>4, Zenon
      <4>2. log[i].hi <= sealed /\ log[i].hi \in Nat
        BY <3>1, <1>5b, Zenon DEF LogInv
      <4>3. sealed' = sealed + Chunk(w)
        BY <1>1, Zenon
      <4> HIDE DEF NoiseInv
      <4> QED
        BY <4>1, <4>2, <4>3, <1>4a, <1>a
    <3>2. CASE i = Len(log) + 1
      <4>1. log'[i] = entry
        BY <3>2, <1>4, Zenon
      <4>2. entry.hi = sealed' /\ sealed' \in Nat
        BY <1>1, <1>5, <1>3, Zenon DEF NoiseTypeOK
      <4> QED
        BY <4>1, <4>2
    <3> QED
      BY <3>1, <3>2, <1>4, Zenon
  <2>4. \A i \in 1..(Len(log') - 1) : log'[i + 1].lo = log'[i].hi + 1
    <3> SUFFICES ASSUME NEW i \in 1..Len(log) PROVE log'[i + 1].lo = log'[i].hi + 1
      BY <1>4
    <3>1. CASE i = Len(log)
      BY <3>1, <1>4, <1>5 DEF LogInv, NoiseTypeOK
    <3>2. CASE i < Len(log)
      <4>1. i + 1 \in 1..Len(log) /\ i \in 1..(Len(log) - 1)
        BY <3>2, <1>4
      <4> QED
        BY <4>1, <1>4, Zenon DEF LogInv
    <3> QED
      BY <3>1, <3>2, <1>4
  <2>5. log'[1].lo = 1 /\ log'[Len(log')].hi = sealed'
    <3>1. CASE log = <<>>
      BY <3>1, <1>1, <1>4, <1>5 DEF LogInv, NoiseTypeOK
    <3>2. CASE log # <<>>
      BY <3>2, <1>1, <1>4, <1>5 DEF LogInv, NoiseTypeOK
    <3> QED
      BY <3>1, <3>2, Zenon
  <2> QED
    BY <2>1, <2>2, <2>3, <2>4, <2>5, <1>4, Zenon DEF LogInv
<1>8. WireInv'
  <2>1. ASSUME NEW i \in 1..Len(wire), wire[i] # Fragment
        PROVE  IsSealed(wire[i])' /\ wire[i].n < InvalidNonce
    <3>1. wire[i] \in Record
      BY <2>1 DEF NoiseTypeOK
    <3> QED
      BY <2>1, <3>1, <1>1, <1>4, SMTT(30) DEF WireInv, IsSealed, Record
  <2>2. ASSUME NEW v \in Writers, frame'[v] # NoFrame PROVE IsSealed(frame[v])'
    <3>1. v = w
      BY <2>2, <1>1, <1>0, Zenon DEF LockInv, NoiseTypeOK
    <3>2. frame'[v] = record
      BY <3>1, <1>1, Zenon DEF NoiseTypeOK
    <3> QED
      BY <3>2, <1>4, <1>5 DEF IsSealed, LogInv
  <2> QED
    BY <2>1, <2>2, <1>1, Zenon DEF WireInv
<1>9. ReadInv'
  BY <1>1, <1>4 DEF ReadInv, NoiseTypeOK
<1>10. WholeInv'
  <2>1. WritesWhole'
    <3> SUFFICES ASSUME NEW i \in 1..Len(log), log'[i].more > 0
                 PROVE  /\ log'[i + 1].w = log'[i].w
                        /\ log'[i].more = log'[i + 1].more + log'[i + 1].hi - log'[i].hi
      <4>1. DOMAIN log' = 1..Len(log')
        BY <1>3 DEF NoiseTypeOK
      <4> QED
        BY <4>1, <1>4 DEF WritesWhole
    <3>1. CASE i = Len(log)
      <4>1. log # <<>> /\ log[i].more > 0 /\ txCipher
        BY <3>1, <1>4, <1>0 DEF LockInv, NoiseTypeOK
      <4>2. left[log[i].w] = log[i].more
              + (IF frame[log[i].w] = NoFrame THEN 0 ELSE log[i].hi - log[i].lo + 1)
        BY <3>1, <4>1, Zenon DEF WholeInv
      <4>2a. left[log[i].w] > 0
        BY <4>1, <4>2, <1>5b, SMTT(30) DEF LogInv
      <4>3. log[i].w = w
        BY <4>2a, <1>5b, <1>0, Zenon DEF LockInv
      <4>4. left[w] = log[i].more
        BY <4>2, <4>3, <1>0, <1>5b
      <4>5. log[i].hi = sealed
        BY <3>1, <4>1, Zenon DEF LogInv
      <4> QED
        BY <3>1, <4>3, <4>4, <4>5, <1>4, <1>4a, <1>5, <1>a
    <3>2. CASE i < Len(log)
      <4>1. i \in DOMAIN log /\ i + 1 \in DOMAIN log
        BY <3>2, <1>4 DEF NoiseTypeOK
      <4> QED
        BY <4>1, <3>2, <1>4 DEF WholeInv, WritesWhole
    <3> QED
      BY <3>1, <3>2, <1>4
  <2>2. Chunk(w)' = Chunk(w)
    BY <1>1, Zenon DEF Chunk
  <2>3. frame'[w] = record /\ left' = left
    BY <1>1, Zenon DEF NoiseTypeOK
  <2>4. \A v \in Writers : frame'[v] # NoFrame => v = w
    BY <1>1, <1>0, Zenon DEF LockInv, NoiseTypeOK
  <2>5. left[w] = entry.more + entry.hi - entry.lo + 1 /\ Chunk(w) = entry.hi - entry.lo + 1
    BY <1>5, <1>a, SMTT(30) DEF NoiseTypeOK
  <2>6. log'[Len(log')] = entry /\ frame'[entry.w] # NoFrame
    BY <2>3, <1>2, <1>4, <1>5, Zenon
  <2>7. left'[entry.w] = entry.more
          + (IF frame'[entry.w] = NoFrame THEN 0 ELSE entry.hi - entry.lo + 1)
    BY <2>3, <2>5, <2>6, <1>4a, <1>5, <1>a
  <2>8. \A v \in Writers : frame'[v] # NoFrame =>
          /\ entry.w = v /\ left'[v] = entry.more + entry.hi - entry.lo + 1
          /\ Chunk(v)' = entry.hi - entry.lo + 1
    BY <2>2, <2>3, <2>4, <2>5, <1>5, Zenon
  <2> QED
    BY <2>1, <2>6, <2>7, <2>8, <1>4, Zenon DEF WholeInv
<1> QED
  BY <1>3, <1>6, <1>7, <1>8, <1>9, <1>10, Zenon

\* What conn.Write leaves on the connection are records that were sealed, and
\* under valid nonces: the panic comes before the write.
LEMMA WireGrows ==
  ASSUME NoiseInv, ~panicked, NEW w \in Writers, frame[w] # NoFrame,
         wire' \in LeftByFailure(w), UNCHANGED log
  PROVE  /\ wire' \in Seq(Record \cup {Fragment})
         /\ \A i \in 1..Len(wire') :
              wire'[i] # Fragment => IsSealed(wire[i])' /\ wire'[i].n < InvalidNonce
<1> USE DEF NoiseInv
<1> DEFINE Valid(x) == IsSealed(x) /\ x.n < InvalidNonce
<1>1. wire \in Seq(Record \cup {Fragment}) /\ frame[w] \in Record
  BY Zenon DEF NoiseTypeOK
<1>2. \A i \in 1..Len(wire) : wire[i] # Fragment => Valid(wire[i])
  BY Zenon DEF WireInv
<1>3. Valid(frame[w])
  <2>1. frame[w].n < Len(log) /\ Len(log) = txNonce /\ txNonce <= InvalidNonce
    BY Zenon DEF WireInv, LogInv, IsSealed
  <2>2. frame[w].n \in Nat /\ txNonce \in Nat
    BY <1>1, Zenon DEF Record, NoiseTypeOK
  <2>3. frame[w].n < InvalidNonce
    BY <2>1, <2>2, NoiseConstants, SMT
  <2> QED
    BY <2>3, Zenon DEF WireInv
<1> HIDE DEF Valid
<1>4. CASE wire' = wire
  BY <1>1, <1>2, <1>4, Zenon DEF IsSealed, Valid
<1>5. ASSUME NEW x \in Record \cup {Fragment}, wire' = Append(wire, x),
             x # Fragment => Valid(x)
      PROVE  /\ wire' \in Seq(Record \cup {Fragment})
             /\ \A i \in 1..Len(wire') :
                  wire'[i] # Fragment => IsSealed(wire[i])' /\ wire'[i].n < InvalidNonce
  <2>1. /\ wire' \in Seq(Record \cup {Fragment}) /\ Len(wire') = Len(wire) + 1
        /\ Len(wire) \in Nat /\ wire'[Len(wire) + 1] = x
        /\ \A i \in 1..Len(wire) : wire'[i] = wire[i]
    BY <1>1, <1>5, AppendFacts
  <2>2. ASSUME NEW i \in 1..Len(wire'), wire'[i] # Fragment
        PROVE  IsSealed(wire[i])' /\ wire'[i].n < InvalidNonce
    <3>1. Valid(wire'[i])
      BY <2>1, <2>2, <1>2, <1>5
    <3> QED
      BY <3>1, Zenon DEF IsSealed, Valid
  <2> QED
    BY <2>1, <2>2, Zenon
<1> QED
  BY <1>1, <1>3, <1>4, <1>5, Zenon DEF LeftByFailure

\* A write that succeeds.
LEMMA WriteStepOK ==
  ASSUME NoiseInv, ~panicked, NEW w \in Writers, ConnWrite(w)
  PROVE  NoiseInv'
<1> USE DEF NoiseInv
<1>0. /\ frame[w] # NoFrame /\ wire' = Append(wire, frame[w])
      /\ frame' = [frame EXCEPT ![w] = NoFrame]
      /\ left' = [left EXCEPT ![w] = left[w] - Chunk(w)]
      /\ UNCHANGED <<txCipher, txNonce, reading, rxCipher, rxNonce, plain, out, closing,
                     panicked, sealed, log>>
  BY Zenon DEF ConnWrite, rxVars
<1>1. left[w] > 0 /\ left \in [Writers -> Nat]
  BY <1>0, Zenon DEF LockInv, NoiseTypeOK
<1>2. Chunk(w) \in Nat /\ 1 <= Chunk(w) /\ Chunk(w) <= left[w]
  BY <1>1, ChunkSize, Zenon
<1>3. /\ wire' \in Seq(Record \cup {Fragment})
      /\ \A i \in 1..Len(wire') :
           wire'[i] # Fragment => IsSealed(wire[i])' /\ wire'[i].n < InvalidNonce
  BY <1>0, WireGrows, Zenon DEF LeftByFailure
<1>4. left' \in [Writers -> Nat] /\ \A v \in Writers : v # w => left'[v] = left[v]
  BY <1>0, <1>1, <1>2
<1>4a. \A v \in Writers : frame'[v] # NoFrame => frame[v] # NoFrame /\ v # w /\ frame'[v] = frame[v]
  BY <1>0, Zenon DEF NoiseTypeOK
<1>4b. \A v \in Writers : v # w => frame[v] = NoFrame
  BY <1>0, Zenon DEF LockInv
<1>4c. \A v \in Writers : frame'[v] = NoFrame
  BY <1>4a, <1>4b, Zenon
<1>5. NoiseTypeOK'
  <2>1. frame' \in [Writers -> Record \cup {NoFrame}]
    BY <1>0, Zenon DEF NoiseTypeOK
  <2> QED
    BY <2>1, <1>0, <1>3, <1>4, Zenon DEF NoiseTypeOK
<1>6. LockInv'
  <2>1. \A v \in Writers : left'[v] > 0 => left[v] > 0
    BY <1>1, <1>4, Zenon
  <2> QED
    BY <1>0, <2>1, <1>4c, Zenon DEF LockInv
<1>7. LogInv' /\ ReadInv'
  BY <1>0, Zenon DEF LogInv, ReadInv
<1>8. WireInv'
  BY <1>3, <1>4c, Zenon DEF WireInv
<1>9. WholeInv'
  <2>1. WritesWhole'
    BY <1>0, Zenon DEF WholeInv, WritesWhole
  <2>2. /\ log # <<>> /\ log[Len(log)].w = w
        /\ left[w] = log[Len(log)].more + log[Len(log)].hi - log[Len(log)].lo + 1
        /\ Chunk(w) = log[Len(log)].hi - log[Len(log)].lo + 1
    BY <1>0, Zenon DEF WholeInv
  <2>3. log[Len(log)] \in Sealed
    BY <2>2 DEF NoiseTypeOK
  <2>3a. log[Len(log)].more \in Nat /\ log[Len(log)].hi \in Nat /\ log[Len(log)].lo \in Nat
    BY <2>3, Zenon DEF Sealed
  <2>4. left'[w] = log[Len(log)].more
    BY <2>2, <2>3a, <1>0, <1>1, SMTT(30)
  <2>5. log'[Len(log')] = log[Len(log)]
    BY <1>0, Zenon
  <2>6. left'[log'[Len(log')].w] = log'[Len(log')].more
           + (IF frame'[log'[Len(log')].w] = NoFrame THEN 0
              ELSE log'[Len(log')].hi - log'[Len(log')].lo + 1)
    BY <2>2, <2>3a, <2>4, <2>5, <1>4c
  <2> QED
    BY <2>1, <2>6, <1>4c, Zenon DEF WholeInv
<1> QED
  BY <1>5, <1>6, <1>7, <1>8, <1>9, Zenon

\* A write that fails leaves no cipher, and so nothing to continue.
LEMMA WriteStepFails ==
  ASSUME NoiseInv, ~panicked, NEW w \in Writers, ConnWriteFails(w)
  PROVE  NoiseInv'
<1> USE DEF NoiseInv
<1>0. /\ frame[w] # NoFrame /\ wire' \in LeftByFailure(w)
      /\ frame' = [frame EXCEPT ![w] = NoFrame] /\ txCipher' = FALSE
      /\ left' = [left EXCEPT ![w] = 0]
      /\ UNCHANGED <<txNonce, reading, rxCipher, rxNonce, plain, out, closing,
                     panicked, sealed, log>>
  BY Zenon DEF ConnWriteFails, rxVars
<1>1. left[w] > 0 /\ left \in [Writers -> Nat]
  BY <1>0, Zenon DEF LockInv, NoiseTypeOK
<1>3. /\ wire' \in Seq(Record \cup {Fragment})
      /\ \A i \in 1..Len(wire') :
           wire'[i] # Fragment => IsSealed(wire[i])' /\ wire'[i].n < InvalidNonce
  BY <1>0, WireGrows, Zenon
<1>4. left' \in [Writers -> Nat] /\ \A v \in Writers : left'[v] = 0
  BY <1>0, <1>1 DEF LockInv
<1>4c. \A v \in Writers : frame'[v] = NoFrame
  BY <1>0, <1>1, Zenon DEF LockInv, NoiseTypeOK
<1>5. NoiseTypeOK'
  <2>1. frame' \in [Writers -> Record \cup {NoFrame}]
    BY <1>0, Zenon DEF NoiseTypeOK
  <2>2. txCipher' \in BOOLEAN
    BY <1>0, Zenon
  <2> QED
    BY <2>1, <2>2, <1>0, <1>3, <1>4, Zenon DEF NoiseTypeOK
<1>6. LockInv'
  BY <1>0, <1>4, <1>4c DEF LockInv
<1>7. LogInv' /\ ReadInv'
  BY <1>0, Zenon DEF LogInv, ReadInv
<1>8. WireInv'
  BY <1>3, <1>4c, Zenon DEF WireInv
<1>9. WholeInv'
  <2>1. WritesWhole'
    BY <1>0, Zenon DEF WholeInv, WritesWhole
  <2> QED
    BY <2>1, <1>0, <1>4c, Zenon DEF WholeInv
<1> QED
  BY <1>5, <1>6, <1>7, <1>8, <1>9, Zenon

\* Nothing the receiver does to the connection disturbs the sender.
LEMMA SenderKept ==
  ASSUME NoiseInv, UNCHANGED <<left, frame, txCipher, txNonce, sealed, log>>,
         panicked => panicked',
         \A i \in 1..Len(wire') :
           wire'[i] = Fragment \/ \E j \in 1..Len(wire) : wire'[i] = wire[j]
  PROVE  LogInv' /\ WireInv' /\ WholeInv'
<1> USE DEF NoiseInv
<1>1. LogInv'
  BY Zenon DEF LogInv
<1>2. WholeInv'
  <2>1. WritesWhole'
    BY Zenon DEF WholeInv, WritesWhole
  <2>2. \A v \in Writers : Chunk(v)' = Chunk(v)
    BY Zenon DEF Chunk
  <2> QED
    BY <2>1, <2>2, Zenon DEF WholeInv
<1>3. WireInv'
  <2>1. ASSUME NEW i \in 1..Len(wire'), wire'[i] # Fragment
        PROVE  IsSealed(wire[i])' /\ wire'[i].n < InvalidNonce
    <3>1. PICK j \in 1..Len(wire) : wire'[i] = wire[j]
      BY <2>1, Zenon
    <3>2. IsSealed(wire[j]) /\ wire[j].n < InvalidNonce
      BY <3>1, <2>1, Zenon DEF WireInv
    <3> QED
      BY <3>1, <3>2, Zenon DEF IsSealed
  <2>2. ASSUME NEW v \in Writers, frame'[v] # NoFrame PROVE IsSealed(frame[v])'
    BY <2>2, Zenon DEF WireInv, IsSealed
  <2> QED
    BY <2>1, <2>2, Zenon DEF WireInv
<1> QED
  BY <1>1, <1>2, <1>3, Zenon

\* A sequence with another first element.
LEMMA ReplacedFirst ==
  ASSUME NEW S, NEW q \in Seq(S), NEW e \in S, 1 \in 1..Len(q)
  PROVE  /\ [q EXCEPT ![1] = e] \in Seq(S) /\ Len([q EXCEPT ![1] = e]) = Len(q)
         /\ \A k \in 1..Len(q) : [q EXCEPT ![1] = e][k] = IF k = 1 THEN e ELSE q[k]
<1> DEFINE t == [q EXCEPT ![1] = e]
<1>1. Len(q) \in Nat /\ q \in [1..Len(q) -> S]
  OBVIOUS
<1>2. t \in [1..Len(q) -> S] /\ \A k \in 1..Len(q) : t[k] = IF k = 1 THEN e ELSE q[k]
  BY <1>1
<1> HIDE DEF t
<1>3. t \in Seq(S) /\ Len(t) = Len(q)
  BY <1>1, <1>2
<1> QED
  BY <1>2, <1>3 DEF t

\* What Read leaves of the connection is a part of it.
LEMMA WireShrinks ==
  ASSUME NEW S, NEW s \in Seq(S), NEW i \in 1..Len(s), NEW e \in S, NEW t,
         \/ t = SubSeq(s, i + 1, Len(s))
         \/ i < Len(s) /\ t = [SubSeq(s, i + 1, Len(s)) EXCEPT ![1] = e]
  PROVE  /\ t \in Seq(S)
         /\ \A k \in 1..Len(t) : t[k] = e \/ \E j \in 1..Len(s) : t[k] = s[j]
<1> DEFINE rest == SubSeq(s, i + 1, Len(s))
<1>1. Len(s) \in Nat /\ i \in Nat
  OBVIOUS
<1>2. \A k \in (i + 1)..Len(s) : s[k] \in S
  BY <1>1
<1>3. /\ rest \in Seq(S) /\ Len(rest) = IF i + 1 <= Len(s) THEN Len(s) - (i + 1) + 1 ELSE 0
      /\ \A k \in 1..(Len(s) - (i + 1) + 1) : rest[k] = s[(i + 1) + k - 1]
  BY <1>1, <1>2
<1> HIDE DEF rest
<1>4. ASSUME NEW k \in 1..Len(rest) PROVE \E j \in 1..Len(s) : rest[k] = s[j]
  <2>1. k \in 1..(Len(s) - (i + 1) + 1) /\ (i + 1) + k - 1 \in 1..Len(s)
    BY <1>1, <1>3
  <2> QED
    BY <2>1, <1>3, Zenon
<1>5. ASSUME i < Len(s), t = [rest EXCEPT ![1] = e]
      PROVE  /\ t \in Seq(S)
             /\ \A k \in 1..Len(t) : t[k] = e \/ \E j \in 1..Len(s) : t[k] = s[j]
  <2>1. 1 \in 1..Len(rest)
    BY <1>1, <1>3, <1>5
  <2>2. /\ t \in Seq(S) /\ Len(t) = Len(rest)
        /\ \A k \in 1..Len(rest) : t[k] = IF k = 1 THEN e ELSE rest[k]
    BY <2>1, <1>3, <1>5, ReplacedFirst
  <2> QED
    BY <2>2, <1>4, Zenon
<1> QED
  BY <1>3, <1>4, <1>5, Zenon DEF rest

\* Opening a record, or failing to: only the record under the next nonce opens,
\* and its bytes follow those already read.
LEMMA OpenStep ==
  ASSUME NoiseInv, NEW r \in Readers, Waiting(r), NEW x, NEW opened \in BOOLEAN,
         OpenRecord(r, x, opened), opened => x \in Record /\ IsSealed(x) /\ x.n = rxNonce,
         UNCHANGED <<left, frame, txCipher, txNonce, sealed, log, closing, out>>,
         wire' \in Seq(Record \cup {Fragment})
  PROVE  NoiseTypeOK' /\ LockInv' /\ ReadInv'
<1> USE DEF NoiseInv
<1>0. /\ r \in reading /\ plain.lo > plain.hi /\ rxCipher
      /\ plain.lo \in Nat /\ plain.hi \in Nat /\ out.hi \in Nat /\ rxNonce \in Nat
      /\ Len(log) \in Nat
  BY DEF Waiting, LockInv, NoiseTypeOK, Bytes
<1>1. CASE rxNonce = InvalidNonce
  <2>1. panicked' = TRUE /\ UNCHANGED <<reading, rxCipher, rxNonce, plain>>
    BY <1>1, Zenon DEF OpenRecord
  <2>2. panicked' \in BOOLEAN
    BY <2>1, Zenon
  <2> QED
    BY <2>1, <2>2, Zenon DEF NoiseTypeOK, LockInv, ReadInv
<1>2. CASE rxNonce # InvalidNonce /\ ~opened
  <2>1. rxNonce' = rxNonce + 1 /\ rxCipher' = FALSE /\ reading' = reading \ {r}
        /\ UNCHANGED <<plain, panicked>>
    BY <1>2, Zenon DEF OpenRecord
  <2>2. rxCipher' \in BOOLEAN
    BY <2>1, Zenon
  <2>3. NoiseTypeOK'
    BY <2>1, <2>2, <1>0 DEF NoiseTypeOK
  <2>4. reading' = {}
    BY <2>1, <1>0, Zenon DEF LockInv
  <2> QED
    BY <2>1, <2>3, <2>4, Zenon DEF LockInv, ReadInv
<1>3. CASE rxNonce # InvalidNonce /\ opened
  <2>1. /\ rxNonce' = rxNonce + 1 /\ plain' = [lo |-> x.lo, hi |-> x.hi]
        /\ UNCHANGED <<reading, rxCipher, panicked>>
    BY <1>3, Zenon DEF OpenRecord
  <2>2. x \in Record /\ IsSealed(x) /\ x.n = rxNonce /\ x.lo \in Nat /\ x.hi \in Nat
    BY <1>3, Zenon DEF Record
  <2>3. plain' \in Bytes /\ plain'.lo = x.lo /\ plain'.hi = x.hi
    BY <2>1, <2>2, Zenon DEF Bytes
  <2>4. NoiseTypeOK'
    BY <2>1, <2>3, <1>0 DEF NoiseTypeOK
  <2>5. LockInv'
    BY <2>1, Zenon DEF LockInv
  <2>6. /\ rxNonce + 1 \in 1..Len(log)
        /\ x.lo = log[rxNonce + 1].lo /\ x.hi = log[rxNonce + 1].hi
    BY <2>2, <1>0, SMTT(30) DEF IsSealed
  <2>7. x.lo <= x.hi
    BY <2>6, Zenon DEF LogInv
  <2>8. out.hi = plain.hi
    BY <1>0 DEF ReadInv
  <2>9. x.lo = out.hi + 1
    <3>1. CASE rxNonce = 0
      <4>1. plain.hi = 0
        BY <1>0, <3>1, Zenon DEF ReadInv
      <4>2. log # <<>>
        BY <2>6, <3>1
      <4>3. log[1].lo = 1
        BY <4>2, Zenon DEF LogInv
      <4> QED
        BY <3>1, <4>1, <4>3, <2>6, <2>8
    <3>2. CASE rxNonce # 0
      <4>1. plain.hi = log[rxNonce].hi
        BY <1>0, <3>2, Zenon DEF ReadInv
      <4>2. rxNonce \in 1..(Len(log) - 1)
        BY <2>6, <3>2, <1>0
      <4>3. log[rxNonce + 1].lo = log[rxNonce].hi + 1
        BY <4>2, Zenon DEF LogInv
      <4> QED
        BY <4>1, <4>3, <2>6, <2>8, Zenon
    <3> QED
      BY <3>1, <3>2, Zenon
  <2>10. ReadInv'
    BY <2>1, <2>2, <2>3, <2>6, <2>7, <2>9, <1>0, SMTT(30) DEF ReadInv
  <2> QED
    BY <2>4, <2>5, <2>10, Zenon
<1> QED
  BY <1>1, <1>2, <1>3, Zenon

\* The steps of Read.
LEMMA ReadSteps ==
  ASSUME NoiseInv, NEW r \in Readers, ReadStep(r)
  PROVE  NoiseInv'
<1> USE DEF NoiseInv
<1>0. wire \in Seq(Record \cup {Fragment})
  BY Zenon DEF NoiseTypeOK
<1>1. CASE ReadBegin(r)
  <2>1. /\ reading = {} /\ rxCipher /\ reading' = {r}
        /\ UNCHANGED <<left, frame, txCipher, txNonce, sealed, log, wire, rxCipher, rxNonce,
                       plain, closing, panicked, out>>
    BY <1>1, Zenon DEF ReadBegin, txVars
  <2>2. LogInv' /\ WireInv' /\ WholeInv'
    BY <2>1, SenderKept, Zenon
  <2>3. NoiseTypeOK' /\ LockInv' /\ ReadInv'
    BY <2>1, Zenon DEF NoiseTypeOK, LockInv, ReadInv
  <2> QED
    BY <2>2, <2>3, Zenon
<1>2. CASE ReadRecord(r)
  <2>1. /\ Waiting(r) /\ wire # <<>> /\ Head(wire) # Fragment /\ wire' = Tail(wire)
        /\ OpenRecord(r, Head(wire), Head(wire).n = rxNonce)
        /\ UNCHANGED <<left, frame, txCipher, txNonce, sealed, log, closing, out>>
    BY <1>2, Zenon DEF ReadRecord, txVars
  <2>2. /\ Tail(wire) \in Seq(Record \cup {Fragment}) /\ Len(Tail(wire)) = Len(wire) - 1
        /\ \A i \in 1..Len(Tail(wire)) : Tail(wire)[i] = wire[i + 1]
        /\ Head(wire) \in Record \cup {Fragment} /\ Head(wire) = wire[1]
        /\ Len(wire) \in Nat /\ 1 \in 1..Len(wire)
    BY <1>0, <2>1
  <2>3. \A i \in 1..Len(wire') : \E j \in 1..Len(wire) : wire'[i] = wire[j]
    BY <2>1, <2>2
  <2>3a. panicked => panicked'
    BY <2>1, Zenon DEF OpenRecord
  <2>4. LogInv' /\ WireInv' /\ WholeInv'
    BY <2>1, <2>3, <2>3a, SenderKept, Zenon
  <2>5. Head(wire) \in Record /\ IsSealed(Head(wire))
    BY <2>1, <2>2, Zenon DEF WireInv
  <2>6. (Head(wire).n = rxNonce) \in BOOLEAN
    BY Zenon
  <2>7. NoiseTypeOK' /\ LockInv' /\ ReadInv'
    BY <2>1, <2>2, <2>5, <2>6, OpenStep, Zenon
  <2> QED
    BY <2>4, <2>7, Zenon
<1>3. CASE ReadFragment(r)
  <2>1. PICK i \in 1..Len(wire) : wire' \in Swallowed(i)
    BY <1>3, Zenon DEF ReadFragment
  <2>2. /\ wire' \in Seq(Record \cup {Fragment})
        /\ \A k \in 1..Len(wire') :
             wire'[k] = Fragment \/ \E j \in 1..Len(wire) : wire'[k] = wire[j]
    <3>1. \/ wire' = SubSeq(wire, i + 1, Len(wire))
          \/ i < Len(wire) /\ wire' = [SubSeq(wire, i + 1, Len(wire)) EXCEPT ![1] = Fragment]
      BY <2>1, Zenon DEF Swallowed
    <3> DEFINE Items == Record \cup {Fragment}
    <3>2. Fragment \in Items /\ wire \in Seq(Items)
      BY <1>0, Zenon
    <3> HIDE DEF Items
    <3>3. /\ wire' \in Seq(Items)
          /\ \A k \in 1..Len(wire') :
               wire'[k] = Fragment \/ \E j \in 1..Len(wire) : wire'[k] = wire[j]
      BY <2>1, <3>1, <3>2, WireShrinks, SMTT(30)
    <3> QED
      BY <3>3, Zenon DEF Items
  <2>3. Waiting(r) /\ UNCHANGED <<left, frame, txCipher, txNonce, sealed, log, closing, out>>
    BY <1>3, Zenon DEF ReadFragment, txVars
  <2>3a. panicked => panicked'
    BY <1>3, Zenon DEF ReadFragment, OpenRecord
  <2>4. LogInv' /\ WireInv' /\ WholeInv'
    BY <2>2, <2>3, <2>3a, SenderKept, Zenon
  <2>5. CASE reading' = reading \ {r} /\ UNCHANGED <<rxCipher, rxNonce, plain, panicked>>
    <3>1. NoiseTypeOK' /\ LockInv' /\ ReadInv'
      BY <2>2, <2>3, <2>5, Zenon DEF NoiseTypeOK, LockInv, ReadInv
    <3> QED
      BY <2>4, <3>1, Zenon
  <2>6. CASE OpenRecord(r, Fragment, FALSE)
    <3>1. FALSE \in BOOLEAN
      BY Zenon
    <3>2. NoiseTypeOK' /\ LockInv' /\ ReadInv'
      BY <2>2, <2>3, <2>6, <3>1, OpenStep, Zenon
    <3> QED
      BY <2>4, <3>2, Zenon
  <2> QED
    BY <1>3, <2>5, <2>6, Zenon DEF ReadFragment
<1>4. CASE ReadFails(r)
  <2>1. /\ reading' = reading \ {r}
        /\ wire' = wire \/ (wire # <<>> /\ wire' = [wire EXCEPT ![1] = Fragment])
        /\ UNCHANGED <<left, frame, txCipher, txNonce, sealed, log, rxCipher, rxNonce,
                       plain, closing, panicked, out>>
    BY <1>4, Zenon DEF ReadFails, txVars
  <2>2. /\ wire' \in Seq(Record \cup {Fragment})
        /\ \A k \in 1..Len(wire') :
             wire'[k] = Fragment \/ \E j \in 1..Len(wire) : wire'[k] = wire[j]
    <3>1. CASE wire' = wire
      BY <1>0, <3>1, Zenon
    <3>2. CASE wire # <<>> /\ wire' = [wire EXCEPT ![1] = Fragment]
      <4>1. 1 \in 1..Len(wire) /\ Fragment \in Record \cup {Fragment}
        BY <1>0, <3>2
      <4>2. /\ wire' \in Seq(Record \cup {Fragment}) /\ Len(wire') = Len(wire)
            /\ \A k \in 1..Len(wire) : wire'[k] = IF k = 1 THEN Fragment ELSE wire[k]
        BY <1>0, <3>2, <4>1, ReplacedFirst
      <4> QED
        BY <4>2, Zenon
    <3> QED
      BY <2>1, <3>1, <3>2, Zenon
  <2>3. LogInv' /\ WireInv' /\ WholeInv'
    BY <2>1, <2>2, SenderKept, Zenon
  <2>4. NoiseTypeOK' /\ LockInv' /\ ReadInv'
    BY <2>1, <2>2, Zenon DEF NoiseTypeOK, LockInv, ReadInv
  <2> QED
    BY <2>3, <2>4, Zenon
<1>5. CASE Deliver(r)
  <2>1. PICK last \in plain.lo..plain.hi :
          out' = [lo |-> plain.lo, hi |-> last] /\ plain' = [plain EXCEPT !.lo = last + 1]
    BY <1>5, Zenon DEF Deliver
  <2>2. /\ r \in reading /\ reading' = reading \ {r}
        /\ UNCHANGED <<left, frame, txCipher, txNonce, sealed, log, wire, rxCipher, rxNonce,
                       closing, panicked>>
    BY <1>5, Zenon DEF Deliver, txVars
  <2>3. /\ plain.lo \in Nat /\ plain.hi \in Nat /\ last \in Nat /\ last <= plain.hi
        /\ plain \in Bytes
    BY <2>1 DEF NoiseTypeOK, Bytes
  <2>4. /\ out' \in Bytes /\ plain' \in Bytes
        /\ out'.hi = last /\ plain'.lo = last + 1 /\ plain'.hi = plain.hi
    BY <2>1, <2>3 DEF Bytes
  <2>5. LogInv' /\ WireInv' /\ WholeInv'
    BY <2>2, SenderKept, Zenon
  <2>6. NoiseTypeOK'
    BY <2>2, <2>4, Zenon DEF NoiseTypeOK
  <2>7. LockInv' /\ ReadInv'
    BY <2>2, <2>3, <2>4 DEF LockInv, ReadInv
  <2> QED
    BY <2>5, <2>6, <2>7, Zenon
<1> QED
  BY <1>1, <1>2, <1>3, <1>4, <1>5, Zenon DEF ReadStep

\* The steps of Close take a cipher only while nobody uses it.
LEMMA CloseSteps ==
  ASSUME NoiseInv, NEW e \in Ends, CloseStep(e)
  PROVE  NoiseInv'
<1> USE DEF NoiseInv
<1>1. CASE CloseUnder(e)
  <2>1. /\ closing' = [closing EXCEPT ![e] = "conn"]
        /\ UNCHANGED <<left, frame, txCipher, txNonce, sealed, log, wire, reading, rxCipher,
                       rxNonce, plain, out, panicked>>
    BY <1>1, Zenon DEF CloseUnder, txVars, rxVars
  <2>2. NoiseTypeOK' /\ LockInv' /\ ReadInv'
    BY <2>1, Zenon DEF NoiseTypeOK, LockInv, ReadInv
  <2> QED
    BY <2>1, <2>2, SenderKept, Zenon
<1>2. CASE CloseRx(e)
  <2>1. /\ closing' = [closing EXCEPT ![e] = "rx"] /\ rxCipher' = (rxCipher /\ e # "receiver")
        /\ e = "receiver" => reading = {}
        /\ UNCHANGED <<left, frame, txCipher, txNonce, sealed, log, wire, reading, rxNonce,
                       plain, out, panicked>>
    BY <1>2, Zenon DEF CloseRx, txVars
  <2>2. rxCipher' \in BOOLEAN
    BY <2>1, Zenon
  <2>2a. rxCipher' => rxCipher
    BY <2>1, Zenon
  <2>2b. reading # {} => rxCipher'
    BY <2>1, Zenon DEF LockInv
  <2>3. NoiseTypeOK'
    BY <2>1, <2>2, Zenon DEF NoiseTypeOK
  <2>4. LockInv' /\ ReadInv'
    BY <2>1, <2>2a, <2>2b, Zenon DEF LockInv, ReadInv
  <2> QED
    BY <2>1, <2>3, <2>4, SenderKept, Zenon
<1>3. CASE CloseTx(e)
  <2>1. /\ closing' = [closing EXCEPT ![e] = "done"] /\ txCipher' = (txCipher /\ e # "sender")
        /\ e = "sender" => TxFree
        /\ UNCHANGED <<left, frame, txNonce, sealed, log, wire, reading, rxCipher, rxNonce,
                       plain, out, panicked>>
    BY <1>3, Zenon DEF CloseTx, rxVars
  <2>2. txCipher' \in BOOLEAN
    BY <2>1, Zenon
  <2>2a. txCipher' => txCipher
    BY <2>1, Zenon
  <2>3. NoiseTypeOK'
    BY <2>1, <2>2, Zenon DEF NoiseTypeOK
  <2>4. \A w \in Writers : left[w] > 0 => txCipher'
    <3>1. CASE e = "sender"
      BY <2>1, <3>1 DEF TxFree, NoiseTypeOK
    <3>2. CASE e # "sender"
      BY <2>1, <3>2, Zenon DEF LockInv
    <3> QED
      BY <3>1, <3>2, Zenon
  <2>5. LockInv' /\ ReadInv' /\ LogInv'
    BY <2>1, <2>4, Zenon DEF LockInv, ReadInv, LogInv
  <2>6. WireInv'
    BY <2>1, Zenon DEF WireInv, IsSealed
  <2>7. WholeInv'
    <3>1. WritesWhole'
      BY <2>1, Zenon DEF WholeInv, WritesWhole
    <3>2. \A v \in Writers : Chunk(v)' = Chunk(v)
      BY <2>1, Zenon DEF Chunk
    <3> QED
      BY <3>1, <3>2, <2>1, <2>2a, Zenon DEF WholeInv
  <2> QED
    BY <2>3, <2>5, <2>6, <2>7, Zenon
<1> QED
  BY <1>1, <1>2, <1>3, Zenon DEF CloseStep

\* NoiseInv is inductive: one lemma above for each part of the connection.
LEMMA NoiseInductive == NoiseInv /\ [NoiseNext]_noiseVars => NoiseInv'
<1> SUFFICES ASSUME NoiseInv, [NoiseNext]_noiseVars PROVE NoiseInv'
  BY Zenon
<1>1. ASSUME ~panicked, NEW w \in Writers, WriteStep(w) PROVE NoiseInv'
  BY <1>1, BeginWrite, SealStep, WriteStepOK, WriteStepFails, Zenon DEF WriteStep
<1>2. ASSUME NEW r \in Readers, ReadStep(r) PROVE NoiseInv'
  BY <1>2, ReadSteps, Zenon
<1>3. ASSUME NEW e \in Ends, CloseStep(e) PROVE NoiseInv'
  BY <1>3, CloseSteps, Zenon
<1>4. CASE UNCHANGED noiseVars
  <2>1. UNCHANGED <<left, frame, txCipher, txNonce, wire, reading, rxCipher, rxNonce,
                    plain, closing, panicked, sealed, log, out>>
    BY <1>4, Zenon DEF noiseVars
  <2>2. NoiseTypeOK' /\ LockInv' /\ ReadInv'
    BY <2>1, Zenon DEF NoiseInv, NoiseTypeOK, LockInv, ReadInv
  <2> QED
    BY <2>1, <2>2, SenderKept, Zenon DEF NoiseInv
<1> QED
  BY <1>1, <1>2, <1>3, <1>4, Zenon DEF NoiseNext

\* The invariant holds in every reachable state, for any number of goroutines,
\* sizes, limits and any capacity of the connection.
THEOREM NoiseAlways == NoiseSpec => []NoiseInv
<1>1. NoiseInit => NoiseInv
  BY InitNoise, Zenon
<1>2. NoiseInv /\ [NoiseNext]_noiseVars => NoiseInv'
  BY NoiseInductive, Zenon
<1> QED
  BY <1>1, <1>2, PTL DEF NoiseSpec

\* No nonce is used twice, and no record under the invalid one is written
\* (noiseNonce.increment panics between Seal and conn.Write).
THEOREM NoncesOnce == NoiseSpec => []NonceOnce
<1>1. NoiseInv => NonceOnce
  <2> SUFFICES ASSUME NoiseInv PROVE NonceOnce
    BY Zenon
  <2>1. DOMAIN log = 1..Len(log) /\ Len(log) \in Nat
    BY DEF NoiseInv, NoiseTypeOK
  <2>2. \A i \in 1..Len(log) : log[i].n = i - 1
    BY Zenon DEF NoiseInv, LogInv
  <2>3. \A i, j \in DOMAIN log : log[i].n = log[j].n => i = j
    BY <2>1, <2>2
  <2>4. DOMAIN wire = 1..Len(wire)
    BY DEF NoiseInv, NoiseTypeOK
  <2>5. \A i \in DOMAIN wire : wire[i] # Fragment => wire[i].n < InvalidNonce
    BY <2>4, Zenon DEF NoiseInv, WireInv
  <2> QED
    BY <2>3, <2>5, Zenon DEF NonceOnce
<1> QED
  BY <1>1, NoiseAlways, PTL

\* The records of one Write are never separated (tx.Mutex held across chunks).
THEOREM WholeWrites == NoiseSpec => []WritesWhole
<1>1. NoiseInv => WritesWhole
  BY Zenon DEF NoiseInv, WholeInv
<1> QED
  BY <1>1, NoiseAlways, PTL

\* Every step of the connection is a step of the stream or none: sealing puts
\* bytes in, Deliver takes them out, and a lost cipher shuts an end.
LEMMA StreamStep ==
  NoiseInv /\ [NoiseNext]_noiseVars => [Stream!StreamNext]_(Stream!streamVars)
<1> SUFFICES ASSUME NoiseInv, [NoiseNext]_noiseVars
             PROVE  Stream!StreamNext \/ UNCHANGED <<sealed, out, txCipher, rxCipher>>
  BY Zenon DEF Stream!streamVars
<1> USE DEF NoiseInv
<1>1. ASSUME NEW w \in Writers, Seal(w)
      PROVE  Stream!StreamNext \/ UNCHANGED <<sealed, out, txCipher, rxCipher>>
  <2>1. UNCHANGED <<out, txCipher, rxCipher>> /\ left[w] > 0
    BY <1>1, Zenon DEF Seal, rxVars
  <2>2. sealed' = sealed + Chunk(w) /\ sealed \in Nat
    BY <1>1, Zenon DEF Seal, NoiseTypeOK
  <2>3. Chunk(w) \in Nat /\ 1 <= Chunk(w)
    BY <2>1, ChunkSize, Zenon
  <2>4. txCipher
    BY <2>1, Zenon DEF LockInv
  <2>5. sealed' > sealed
    BY <2>2, <2>3
  <2> QED
    BY <2>1, <2>4, <2>5, Zenon DEF Stream!StreamNext, Stream!Put
<1>2. ASSUME NEW w \in Writers, WriteStep(w), ~Seal(w)
      PROVE  Stream!StreamNext \/ UNCHANGED <<sealed, out, txCipher, rxCipher>>
  <2>1. CASE \E size \in Sizes : WriteBegin(w, size)
    BY <2>1, Zenon DEF WriteBegin, rxVars
  <2>2. CASE ConnWrite(w)
    BY <2>2, Zenon DEF ConnWrite, rxVars
  <2>3. CASE ConnWriteFails(w)
    BY <2>3, Zenon DEF ConnWriteFails, rxVars, Stream!StreamNext, Stream!ShutSending
  <2> QED
    BY <1>2, <2>1, <2>2, <2>3, Zenon DEF WriteStep
<1>3. ASSUME NEW r \in Readers, Deliver(r)
      PROVE  Stream!StreamNext
  <2>1. PICK last \in plain.lo..plain.hi : out' = [lo |-> plain.lo, hi |-> last]
    BY <1>3, Zenon DEF Deliver
  <2>2. rxCipher /\ UNCHANGED <<sealed, txCipher, rxCipher>>
    BY <1>3, Zenon DEF Deliver, LockInv, txVars
  <2>3. /\ plain.lo \in Nat /\ plain.hi \in Nat /\ out.hi \in Nat /\ rxNonce \in Nat
        /\ sealed \in Nat /\ Len(log) \in Nat
    BY DEF NoiseTypeOK, Bytes
  <2>4. plain.lo = out.hi + 1 /\ plain.hi <= sealed
    <3>1. CASE rxNonce = 0
      BY <2>2, <2>3, <3>1 DEF ReadInv
    <3>2. CASE rxNonce # 0
      <4>1. rxNonce \in 1..Len(log) /\ plain.hi = log[rxNonce].hi /\ plain.lo = out.hi + 1
        BY <2>2, <2>3, <3>2 DEF ReadInv
      <4> QED
        BY <4>1, Zenon DEF LogInv
    <3> QED
      BY <3>1, <3>2, Zenon
  <2>5. /\ out' = [lo |-> out.hi + 1, hi |-> out'.hi]
        /\ out.hi < out'.hi /\ out'.hi <= sealed
    BY <2>1, <2>3, <2>4
  <2> QED
    BY <2>2, <2>5, Zenon DEF Stream!StreamNext, Stream!Take
<1>4. ASSUME NEW r \in Readers, NEW x, NEW opened, OpenRecord(r, x, opened),
             UNCHANGED <<txVars, out>>
      PROVE  Stream!StreamNext \/ UNCHANGED <<sealed, out, txCipher, rxCipher>>
  <2>1. rxCipher' = rxCipher \/ rxCipher' = FALSE
    BY <1>4, Zenon DEF OpenRecord
  <2> QED
    BY <1>4, <2>1, Zenon DEF txVars, Stream!StreamNext, Stream!ShutTaking
<1>5. ASSUME NEW r \in Readers, ReadStep(r), ~Deliver(r)
      PROVE  Stream!StreamNext \/ UNCHANGED <<sealed, out, txCipher, rxCipher>>
  <2>1. CASE ReadBegin(r)
    BY <2>1, Zenon DEF ReadBegin, txVars
  <2>2. CASE ReadRecord(r)
    BY <2>2, <1>4, Zenon DEF ReadRecord
  <2>3. CASE ReadFragment(r)
    <3>1. UNCHANGED <<txVars, out>> /\ (UNCHANGED rxCipher \/ OpenRecord(r, Fragment, FALSE))
      BY <2>3, Zenon DEF ReadFragment
    <3> QED
      BY <3>1, <1>4, Zenon DEF txVars
  <2>4. CASE ReadFails(r)
    BY <2>4, Zenon DEF ReadFails, txVars
  <2> QED
    BY <1>5, <2>1, <2>2, <2>3, <2>4, Zenon DEF ReadStep
<1>6. ASSUME NEW e \in Ends, CloseStep(e)
      PROVE  Stream!StreamNext \/ UNCHANGED <<sealed, out, txCipher, rxCipher>>
  <2>1. CASE CloseUnder(e)
    BY <2>1, Zenon DEF CloseUnder, txVars, rxVars
  <2>2. CASE CloseRx(e)
    <3>1. UNCHANGED <<sealed, out, txCipher>> /\ (rxCipher' = FALSE \/ rxCipher' = rxCipher)
      BY <2>2, Zenon DEF CloseRx, txVars, NoiseTypeOK
    <3> QED
      BY <3>1, Zenon DEF Stream!StreamNext, Stream!ShutTaking
  <2>3. CASE CloseTx(e)
    <3>1. UNCHANGED <<sealed, out, rxCipher>> /\ (txCipher' = FALSE \/ txCipher' = txCipher)
      BY <2>3, Zenon DEF CloseTx, rxVars, NoiseTypeOK
    <3> QED
      BY <3>1, Zenon DEF Stream!StreamNext, Stream!ShutSending
  <2> QED
    BY <1>6, <2>1, <2>2, <2>3, Zenon DEF CloseStep
<1>7. CASE UNCHANGED noiseVars
  BY <1>7, Zenon DEF noiseVars
<1> QED
  BY <1>1, <1>2, <1>3, <1>5, <1>6, <1>7, Zenon DEF NoiseNext

\* One direction of a NoiseConn implements ByteStream: Read returns the bytes
\* Write sealed, in order and without a gap, whatever fails on the way.
THEOREM NoiseIsByteStream == NoiseSpec => IsByteStream
<1>1. NoiseInit => Stream!StreamInit
  BY Zenon DEF NoiseInit, Stream!StreamInit
<1>2. NoiseInv /\ [NoiseNext]_noiseVars => [Stream!StreamNext]_(Stream!streamVars)
  BY StreamStep, Zenon
<1> QED
  BY <1>1, <1>2, NoiseAlways, PTL DEF NoiseSpec, IsByteStream, Stream!StreamSpec

\* Writes seal their records one Write after the other, under nonces of their
\* own, and no record under the invalid nonce is written.
THEOREM RecordsInOrder == NoiseSpec => []RecordsOrdered
<1>1. NonceOnce /\ WritesWhole => RecordsOrdered
  BY Zenon DEF RecordsOrdered
<1> QED
  BY NoncesOnce, WholeWrites, <1>1, PTL

-----------------------------------------------------------------------------
(***************************************************************************)
(* ConfirmCache: CacheInv is inductive, for any peers, callers and node    *)
(* keys, and with it what was acknowledged or shown to control survives    *)
(* crashes and failed stores at any point.                                 *)
(***************************************************************************)

\* A new cache is empty.
LEMMA InitCache == CacheInit => CacheInv
<1> SUFFICES ASSUME CacheInit PROVE CacheInv
  BY Zenon
<1> USE CacheConstants DEF CacheInit, NoBlob, Resting
<1>1. CacheTypeOK
  <2>1. disk \in Blob /\ cache \in Blob /\ keys \in Nat
    BY Zenon DEF Blob
  <2>2. call \in [Callers -> [at : {"idle", "store"}, peer : Peers \cup {NoNode},
                              yes : BOOLEAN, copy : Blob]]
    BY <2>1, Zenon
  <2> QED
    BY <2>1, <2>2, Zenon DEF CacheTypeOK
<1>2. DiskInv /\ LoadedInv /\ LiveInv /\ StoringInv
  BY Zenon DEF DiskInv, LoadedInv, LiveInv, StoringInv, Live
<1>3. IdentityPersists /\ AckedSurvives
  BY Zenon DEF IdentityPersists, AckedSurvives
<1> QED
  BY <1>1, <1>2, <1>3, Zenon DEF CacheInv

\* Loading the blob, and creating what it lacks.
LEMMA LoadStep ==
  ASSUME CacheInv, NEW node \in NodeKeys, LoadCache(node)
  PROVE  CacheInv'
<1> USE CacheConstants DEF CacheInv
<1>1. /\ process = "down" /\ process' = "init" /\ disk.node \in {NoNode, node}
      /\ keys' \in Nat
      /\ UNCHANGED <<disk, known, confirmed, call, presented, acked, unsure>>
  BY DEF LoadCache, CacheTypeOK
<1>2. /\ cache' \in Blob /\ cache'.node = node /\ cache'.key # 0
      /\ cache'.peers = disk.peers
      /\ disk.key # 0 => cache'.key = disk.key
  <2>1. disk \in Blob /\ keys \in Nat
    BY Zenon DEF CacheTypeOK
  <2>2. CASE disk.key = 0
    <3>1. cache' = [disk EXCEPT !.node = node, !.key = keys + 1]
      BY <2>2, Zenon DEF LoadCache
    <3>2. cache' = [node |-> node, key |-> keys + 1, peers |-> disk.peers]
      BY <2>1, <3>1, Zenon DEF Blob
    <3>3. disk.peers \in SUBSET Peers /\ keys + 1 \in Nat /\ keys + 1 # 0
      BY <2>1 DEF Blob
    <3> QED
      BY <2>2, <3>2, <3>3, Zenon DEF Blob
  <2>3. CASE disk.key # 0
    <3>1. cache' = [disk EXCEPT !.node = node]
      BY <2>3, Zenon DEF LoadCache
    <3> QED
      BY <2>1, <2>3, <3>1, Zenon DEF Blob
  <2> QED
    BY <2>2, <2>3, Zenon
<1>3. CacheTypeOK'
  BY <1>1, <1>2, Zenon DEF CacheTypeOK
<1>4. DiskInv' /\ IdentityPersists' /\ AckedSurvives'
  BY <1>1, Zenon DEF DiskInv, IdentityPersists, AckedSurvives
<1>5. LoadedInv'
  BY <1>1, <1>2, Zenon DEF LoadedInv, DiskInv, SameIdentity
<1>6. LiveInv'
  BY <1>1, Zenon DEF LiveInv, Live
<1>7. StoringInv'
  BY <1>1, Zenon DEF StoringInv, Live
<1> QED
  BY <1>3, <1>4, <1>5, <1>6, <1>7, Zenon

\* Storing the identity and starting with it.
LEMMA StartStep ==
  ASSUME CacheInv, StoreIdentity
  PROVE  CacheInv'
<1> USE CacheConstants DEF CacheInv
<1>1. /\ process = "init" /\ process' = "up" /\ disk' = cache /\ confirmed' = cache.peers
      /\ presented' = presented \cup {[node |-> cache.node, key |-> cache.key]}
      /\ UNCHANGED <<cache, known, call, keys, acked, unsure>>
  BY Zenon DEF StoreIdentity, Started
<1>2. /\ cache.key # 0 /\ cache.node # NoNode /\ cache.peers = disk.peers
      /\ disk.key # 0 => cache.node = disk.node /\ cache.key = disk.key
  BY <1>1, Zenon DEF LoadedInv, SameIdentity
<1>3. CacheTypeOK'
  BY <1>1, Zenon DEF CacheTypeOK, Blob
<1>4. DiskInv' /\ LoadedInv'
  BY <1>1, <1>2, Zenon DEF DiskInv, LoadedInv
<1>5. LiveInv'
  BY <1>1, <1>2, Zenon DEF LiveInv, Live, SameIdentity
<1>6. StoringInv'
  BY <1>1, Zenon DEF StoringInv, Live
<1>7. IdentityPersists'
  <2>1. presented \subseteq {[node |-> cache.node, key |-> cache.key]}
    BY <1>2, Zenon DEF IdentityPersists, DiskInv
  <2> QED
    BY <1>1, <2>1, Zenon DEF IdentityPersists
<1>8. AckedSurvives'
  BY <1>1, <1>2, Zenon DEF AckedSurvives
<1> QED
  BY <1>3, <1>4, <1>5, <1>6, <1>7, <1>8, Zenon

\* A start that fails, whether or not the blob was replaced.
LEMMA FailedStartStep ==
  ASSUME CacheInv, StartFails
  PROVE  CacheInv'
<1> USE CacheConstants DEF CacheInv
<1>1. /\ process = "init" /\ process' = "down" /\ disk' \in {disk, cache} /\ cache' = NoBlob
      /\ UNCHANGED <<known, confirmed, call, keys, presented, acked, unsure>>
  BY Zenon DEF StartFails
<1>2. /\ cache.key # 0 /\ cache.node # NoNode /\ cache.peers = disk.peers
      /\ disk.key # 0 => cache.node = disk.node /\ cache.key = disk.key
  BY <1>1, Zenon DEF LoadedInv, SameIdentity
<1>3. CacheTypeOK'
  <2>1. cache' \in Blob /\ disk' \in Blob
    BY <1>1, Zenon DEF CacheTypeOK, Blob, NoBlob
  <2> QED
    BY <1>1, <2>1, Zenon DEF CacheTypeOK
<1>4. DiskInv' /\ IdentityPersists'
  BY <1>1, <1>2, Zenon DEF DiskInv, IdentityPersists
<1>5. LoadedInv' /\ LiveInv'
  BY <1>1, Zenon DEF LoadedInv, LiveInv, Live
<1>6. StoringInv'
  BY <1>1, Zenon DEF StoringInv, Live
<1>7. AckedSurvives'
  BY <1>1, <1>2, Zenon DEF AckedSurvives
<1> QED
  BY <1>3, <1>4, <1>5, <1>6, <1>7, Zenon

\* A decision comes into force and a copy of the cache is taken.
LEMMA DecideStep ==
  ASSUME CacheInv, NEW c \in Callers, NEW p \in Peers, NEW yes \in BOOLEAN, Decide(c, p, yes)
  PROVE  CacheInv'
<1> USE CacheConstants DEF CacheInv
<1> DEFINE after == [at |-> "store", peer |-> p, yes |-> yes, copy |-> cache']
<1>1. /\ CacheMuFree /\ process = "up"
      /\ confirmed' = IF yes THEN confirmed \cup {p} ELSE confirmed \ {p}
      /\ cache' = [cache EXCEPT !.peers = confirmed']
      /\ call' = [call EXCEPT ![c] = after] /\ unsure' = unsure \cup {p}
      /\ UNCHANGED <<disk, process, known, keys, presented, acked>>
  BY Zenon DEF Decide
<1>2. /\ confirmed' \in SUBSET Peers /\ cache' \in Blob
      /\ cache'.node = cache.node /\ cache'.key = cache.key /\ cache'.peers = confirmed'
  BY <1>1, Zenon DEF CacheTypeOK, Blob
<1>3. /\ \A d \in Callers \ {c} : call'[d].at # "store"
      /\ call'[c] = after
  BY <1>1, Zenon DEF CacheMuFree, CacheTypeOK
<1>4. CacheTypeOK'
  <2>1. after \in [at : {"idle", "store"}, peer : Peers \cup {NoNode}, yes : BOOLEAN, copy : Blob]
    BY <1>2, Zenon
  <2> HIDE DEF after
  <2>2. call' \in [Callers -> [at : {"idle", "store"}, peer : Peers \cup {NoNode},
                               yes : BOOLEAN, copy : Blob]]
    BY <1>1, <2>1, Zenon DEF CacheTypeOK
  <2> QED
    BY <1>1, <1>2, <2>2, Zenon DEF CacheTypeOK
<1>5. DiskInv' /\ LoadedInv' /\ IdentityPersists' /\ AckedSurvives'
  BY <1>1, Zenon DEF DiskInv, LoadedInv, IdentityPersists, AckedSurvives
<1>6. LiveInv'
  BY <1>1, <1>2 DEF LiveInv, Live, SameIdentity
<1>7. StoringInv'
  <2>1. p \in confirmed' <=> yes
    BY <1>1, Zenon
  <2>2. Live' /\ p \in unsure'
    BY <1>1, Zenon DEF Live
  <2> QED
    BY <1>3, <2>1, <2>2 DEF StoringInv
<1> QED
  BY <1>4, <1>5, <1>6, <1>7, Zenon

\* The blob is replaced by a copy that is being stored, or not: with either, the
\* identity is kept and only unsure peers differ.
LEMMA CopyIsSafe ==
  ASSUME CacheInv, NEW c \in Callers, call[c].at = "store"
  PROVE  /\ call[c].copy = cache /\ cache \in Blob /\ Live /\ cache.peers = confirmed
         /\ cache.node = disk.node /\ cache.key = disk.key /\ disk.key # 0
         /\ \A p \in Peers \ unsure : p \in cache.peers <=> p \in disk.peers
         /\ \A d \in Callers : call[d].at = "store" => d = c
<1> USE DEF CacheInv
<1>1. call[c].copy = cache /\ Live
  BY Zenon DEF StoringInv
<1>2. \A d \in Callers : call[d].at = "store" => d = c
  BY Zenon DEF StoringInv
<1>3. cache \in Blob
  BY Zenon DEF CacheTypeOK
<1> QED
  BY <1>1, <1>2, <1>3, Zenon DEF LiveInv, SameIdentity

\* A store that ends, well or not.
LEMMA StoreStep ==
  ASSUME CacheInv, NEW c \in Callers, StoreDecision(c) \/ StoreFails(c)
  PROVE  CacheInv'
<1> USE CacheConstants DEF CacheInv
<1>1. /\ call[c].at = "store" /\ call' = [call EXCEPT ![c] = Resting]
      /\ disk' \in {disk, call[c].copy}
      /\ UNCHANGED <<process, cache, known, confirmed, keys, presented>>
  BY Zenon DEF StoreDecision, StoreFails
<1>2. /\ call[c].copy = cache /\ cache \in Blob /\ Live /\ cache.peers = confirmed
      /\ cache.node = disk.node /\ cache.key = disk.key /\ disk.key # 0
      /\ \A p \in Peers \ unsure : p \in cache.peers <=> p \in disk.peers
      /\ \A d \in Callers : call[d].at = "store" => d = c
  BY <1>1, CopyIsSafe, Zenon
<1>3. call[c].peer \in Peers /\ (call[c].peer \in confirmed <=> call[c].yes)
  BY <1>1, Zenon DEF StoringInv, CacheTypeOK
<1>4. /\ acked' \in SUBSET Peers /\ unsure' \in SUBSET Peers
      /\ \A p \in Peers \ unsure' :
           (p \in disk'.peers <=> p \in acked') /\ (p \in confirmed <=> p \in disk'.peers)
  <2>1. CASE StoreDecision(c)
    <3>1. /\ disk' = cache /\ unsure' = unsure \ {call[c].peer}
          /\ acked' = IF call[c].yes THEN acked \cup {call[c].peer} ELSE acked \ {call[c].peer}
      BY <2>1, <1>2, Zenon DEF StoreDecision
    <3>2. acked' \in SUBSET Peers /\ unsure' \in SUBSET Peers
      BY <3>1, <1>3, Zenon DEF CacheTypeOK
    <3> QED
      BY <3>1, <3>2, <1>2, <1>3, Zenon DEF AckedSurvives
  <2>2. CASE StoreFails(c)
    <3>1. UNCHANGED <<acked, unsure>>
      BY <2>2, Zenon DEF StoreFails
    <3> QED
      BY <3>1, <1>1, <1>2, Zenon DEF AckedSurvives, CacheTypeOK
  <2> QED
    BY <2>1, <2>2, Zenon
<1>5. disk' \in Blob /\ disk'.node = disk.node /\ disk'.key = disk.key
  BY <1>1, <1>2, Zenon DEF CacheTypeOK
<1>6. /\ call' \in [Callers -> [at : {"idle", "store"}, peer : Peers \cup {NoNode},
                                yes : BOOLEAN, copy : Blob]]
      /\ \A d \in Callers : call'[d].at # "store"
  <2>1. Resting \in [at : {"idle", "store"}, peer : Peers \cup {NoNode},
                     yes : BOOLEAN, copy : Blob]
    BY Zenon DEF Resting, NoBlob, Blob
  <2>2. \A d \in Callers : call'[d] = IF d = c THEN Resting ELSE call[d]
    BY <1>1, Zenon DEF CacheTypeOK
  <2>3. Resting.at # "store"
    BY Zenon DEF Resting
  <2> QED
    BY <1>1, <1>2, <2>1, <2>2, <2>3, Zenon DEF CacheTypeOK
<1>7. CacheTypeOK'
  BY <1>1, <1>4, <1>5, <1>6, Zenon DEF CacheTypeOK
<1>8. DiskInv' /\ IdentityPersists'
  BY <1>1, <1>5, Zenon DEF DiskInv, IdentityPersists
<1>9. LoadedInv'
  BY <1>1, <1>2, Zenon DEF LoadedInv, Live
<1>10. LiveInv'
  BY <1>1, <1>2, <1>4, <1>5, Zenon DEF LiveInv, SameIdentity
<1>11. StoringInv'
  BY <1>6, Zenon DEF StoringInv
<1>12. AckedSurvives'
  BY <1>4, Zenon DEF AckedSurvives
<1> QED
  BY <1>7, <1>8, <1>9, <1>10, <1>11, <1>12, Zenon

\* The process ends with the blob as it was, or with what was being stored.
LEMMA EndStep ==
  ASSUME CacheInv, ProcessEnds
  PROVE  CacheInv'
<1> USE CacheConstants DEF CacheInv
<1>1. /\ process' = "down" /\ cache' = NoBlob /\ known' = {} /\ confirmed' = {}
      /\ call' = [c \in Callers |-> Resting]
      /\ UNCHANGED <<keys, presented, acked, unsure>>
  BY Zenon DEF ProcessEnds
<1>2. /\ disk' \in Blob
      /\ disk'.key # 0 <=> disk'.node # NoNode
      /\ disk.key # 0 => disk'.node = disk.node /\ disk'.key = disk.key
      /\ \A p \in Peers \ unsure : p \in disk'.peers <=> p \in disk.peers
  <2>1. CASE disk' = disk
    BY <2>1, Zenon DEF CacheTypeOK, DiskInv
  <2>2. CASE \E c \in Callers : call[c].at = "store" /\ disk' = call[c].copy
    <3>1. PICK c \in Callers : call[c].at = "store" /\ disk' = call[c].copy
      BY <2>2, Zenon
    <3> QED
      BY <3>1, CopyIsSafe, Zenon DEF DiskInv
  <2>3. CASE process = "init" /\ disk' = cache
    BY <2>3, Zenon DEF LoadedInv, SameIdentity, CacheTypeOK
  <2> QED
    BY <2>1, <2>2, <2>3, Zenon DEF ProcessEnds
<1>3. CacheTypeOK'
  <2>1. NoBlob \in Blob
    BY Zenon DEF NoBlob, Blob
  <2>2. call' \in [Callers -> [at : {"idle", "store"}, peer : Peers \cup {NoNode},
                               yes : BOOLEAN, copy : Blob]]
    BY <1>1, <2>1, Zenon DEF Resting
  <2> QED
    BY <1>1, <1>2, <2>1, <2>2, Zenon DEF CacheTypeOK
<1>4. DiskInv' /\ IdentityPersists'
  BY <1>1, <1>2, Zenon DEF DiskInv, IdentityPersists
<1>5. LoadedInv' /\ LiveInv'
  BY <1>1, Zenon DEF LoadedInv, LiveInv, Live
<1>6. StoringInv'
  BY <1>1, Zenon DEF StoringInv, Resting
<1>7. AckedSurvives'
  BY <1>1, <1>2, Zenon DEF AckedSurvives
<1> QED
  BY <1>3, <1>4, <1>5, <1>6, <1>7, Zenon

\* Map responses and BeginStop leave the cache alone.
LEMMA QuietStep ==
  ASSUME CacheInv,
         \/ \E p \in Peers : MapSendsPeer(p) \/ MapRemovesPeer(p)
         \/ BeginStop \/ UNCHANGED cacheVars
  PROVE  CacheInv'
<1> USE DEF CacheInv
<1>1. /\ UNCHANGED <<disk, cache, confirmed, call, keys, presented, acked, unsure>>
      /\ known' \in SUBSET Peers
      /\ process' = process \/ (process = "up" /\ process' = "stopping")
  BY Zenon DEF MapSendsPeer, MapRemovesPeer, BeginStop, cacheVars, CacheTypeOK
<1>2. Live' <=> Live
  BY <1>1, Zenon DEF Live
<1>3. CacheTypeOK'
  BY <1>1, Zenon DEF CacheTypeOK
<1>4. DiskInv' /\ LoadedInv' /\ IdentityPersists' /\ AckedSurvives'
  BY <1>1, Zenon DEF DiskInv, LoadedInv, SameIdentity, IdentityPersists, AckedSurvives
<1>5. LiveInv' /\ StoringInv'
  BY <1>1, <1>2, Zenon DEF LiveInv, StoringInv, SameIdentity
<1> QED
  BY <1>3, <1>4, <1>5, Zenon

\* CacheInv holds in every state: whatever loadOrCreateCache, ConfirmPeer,
\* RevokePeerConfirmation and ends of the process do, in whatever order.
THEOREM CacheAlways == CacheSpec => []CacheInv
<1>1. CacheInv /\ [CacheNext]_cacheVars => CacheInv'
  <2> SUFFICES ASSUME CacheInv, [CacheNext]_cacheVars PROVE CacheInv'
    BY Zenon
  <2> QED
    BY LoadStep, StartStep, FailedStartStep, DecideStep, StoreStep, EndStep, QuietStep, Zenon
    DEF CacheNext
<1> QED
  BY InitCache, <1>1, PTL DEF CacheSpec

\* Control only ever sees the identity that is in the cache (initializeRuntime
\* stores it before it starts the runtime).
THEOREM IdentityKept == CacheSpec => []IdentityPersists
<1>1. CacheInv => IdentityPersists
  BY Zenon DEF CacheInv
<1> QED
  BY CacheAlways, <1>1, PTL

\* An acknowledged ConfirmPeer or RevokePeerConfirmation is on disk until a later
\* decision about the same peer.
THEOREM AckedKept == CacheSpec => []AckedSurvives
<1>1. CacheInv => AckedSurvives
  BY Zenon DEF CacheInv
<1> QED
  BY CacheAlways, <1>1, PTL

\* In a running process that stores nothing, c.confirmed and the disk differ only
\* in decisions that failed.
THEOREM ForceIsDisk == CacheSpec => []ForceMatchesDisk
<1>1. CacheInv => ForceMatchesDisk
  BY Zenon DEF CacheInv, ForceMatchesDisk, LiveInv, Live
<1> QED
  BY CacheAlways, <1>1, PTL

\* The identity and the acknowledged decisions survive crashes and failed stores.
THEOREM Durable == CacheSpec => []CacheDurable
<1>1. IdentityPersists /\ AckedSurvives /\ ForceMatchesDisk => CacheDurable
  BY Zenon DEF CacheDurable
<1> QED
  BY IdentityKept, AckedKept, ForceIsDisk, <1>1, PTL

-----------------------------------------------------------------------------
(***************************************************************************)
(* ControlPings: PingInv is inductive, for any URLs and any capacity of    *)
(* the channel: a URL is in the pending map exactly while its ping is      *)
(* queued or being answered, and in one of the two places only.            *)
(***************************************************************************)

\* What a send adds to the channel and a receive takes from it.
LEMMA SentPing ==
  ASSUME PingTypeOK, NEW url \in URLs, pingWake' = Append(pingWake, url)
  PROVE  /\ pingWake' \in Seq(URLs)
         /\ Queued' = Queued \cup {url}
         /\ url \notin Queued /\ Distinct => Distinct'
<1>1. /\ pingWake \in Seq(URLs) /\ pingWake' \in Seq(URLs)
      /\ Len(pingWake) \in Nat /\ Len(pingWake') = Len(pingWake) + 1
      /\ \A i \in 1..Len(pingWake) : pingWake'[i] = pingWake[i]
      /\ pingWake'[Len(pingWake) + 1] = url
  BY DEF PingTypeOK
<1>2. DOMAIN pingWake = 1..Len(pingWake) /\ DOMAIN pingWake' = 1..(Len(pingWake) + 1)
  BY <1>1
<1>3. Queued' = Queued \cup {url}
  BY <1>1, <1>2 DEF Queued
<1>4. url \notin Queued /\ Distinct => Distinct'
  BY <1>1, <1>2 DEF Queued, Distinct
<1> QED
  BY <1>1, <1>3, <1>4, Zenon

\* Taking a ping from the channel takes it out of what is queued.
LEMMA ReceivedPing ==
  ASSUME PingTypeOK, pingWake # <<>>, pingWake' = Tail(pingWake),
         Distinct
  PROVE  /\ pingWake' \in Seq(URLs) /\ Head(pingWake) \in URLs
         /\ Queued' = Queued \ {Head(pingWake)} /\ Head(pingWake) \in Queued
         /\ Distinct'
<1>1. /\ pingWake \in Seq(URLs) /\ pingWake' \in Seq(URLs)
      /\ Len(pingWake) \in Nat \ {0} /\ Len(pingWake') = Len(pingWake) - 1
      /\ \A i \in 1..(Len(pingWake) - 1) : pingWake'[i] = pingWake[i + 1]
      /\ Head(pingWake) = pingWake[1] /\ Head(pingWake) \in URLs
  BY DEF PingTypeOK
<1>2. DOMAIN pingWake = 1..Len(pingWake) /\ DOMAIN pingWake' = 1..(Len(pingWake) - 1)
  BY <1>1
<1>3. \A i \in DOMAIN pingWake \ {1} : i - 1 \in DOMAIN pingWake' /\ pingWake'[i - 1] = pingWake[i]
  BY <1>1, <1>2
<1>4. \A i \in DOMAIN pingWake' : i + 1 \in DOMAIN pingWake \ {1} /\ pingWake'[i] = pingWake[i + 1]
  BY <1>1, <1>2
<1>5. Queued' = Queued \ {Head(pingWake)}
  <2>1. ASSUME NEW i \in DOMAIN pingWake'
        PROVE  pingWake'[i] \in Queued /\ pingWake'[i] # Head(pingWake)
    BY <1>1, <1>2, <1>4 DEF Queued, Distinct
  <2>2. ASSUME NEW i \in DOMAIN pingWake, pingWake[i] # Head(pingWake)
        PROVE  \E j \in DOMAIN pingWake' : pingWake'[j] = pingWake[i]
    BY <1>1, <1>3, <2>2, Zenon
  <2> QED
    BY <2>1, <2>2 DEF Queued
<1>6. Head(pingWake) \in Queued
  BY <1>1, <1>2 DEF Queued
<1>7. Distinct'
  BY <1>1, <1>2, <1>4 DEF Distinct
<1> QED
  BY <1>1, <1>5, <1>6, <1>7, Zenon

\* At first no ping is pending.
LEMMA InitPing == PingInit => PingInv
BY PingConstants DEF PingInit, PingInv, PingTypeOK, Unentered, Queued, InHand, Distinct, Nothing

\* Every step of the map loop and of the workers keeps PingInv.
LEMMA PingStep == PingInv /\ [PingNext]_pingVars => PingInv'
<1> SUFFICES ASSUME PingInv, [PingNext]_pingVars PROVE PingInv'
  BY Zenon
<1> USE PingConstants
<1>0. /\ PingTypeOK /\ pingPending \cup Unentered = Queued \cup InHand
      /\ pingPending \cap Unentered = {} /\ Queued \cap InHand = {}
      /\ Distinct
  BY Zenon DEF PingInv
<1>1. ASSUME NEW url \in URLs, PingArrives(url) PROVE PingInv'
  BY <1>0, <1>1, SMTT(30)
  DEF PingArrives, PingInv, PingTypeOK, Unentered, Queued, InHand, Distinct, Nothing
<1>2. CASE EnqueuePing
  <2>1. CASE asking' = Nothing /\ UNCHANGED <<pingWake, pingPending, answering>>
    BY <1>0, <1>2, <2>1
    DEF EnqueuePing, PingInv, PingTypeOK, Unentered, Queued, InHand, Distinct, Nothing
  <2>2. CASE /\ asking.url \notin pingPending
             /\ pingWake' = Append(pingWake, asking.url)
             /\ asking' = [asking EXCEPT !.at = "sent"]
    <3>1. /\ asking \in [url : URLs, at : {"checked", "sent"}] /\ asking.at = "checked"
          /\ UNCHANGED <<pingPending, answering>> /\ asking.url \in URLs
      BY <1>0, <1>2 DEF EnqueuePing, PingTypeOK, Nothing
    <3>2. /\ asking' \in [url : URLs, at : {"checked", "sent"}]
          /\ Unentered = {} /\ Unentered' = {asking.url} /\ UNCHANGED InHand
      BY <2>2, <3>1, Zenon DEF Unentered, InHand
    <3>3. asking.url \notin Queued /\ asking.url \notin InHand
      BY <1>0, <2>2, <3>2, Zenon
    <3>4. /\ pingWake' \in Seq(URLs) /\ Queued' = Queued \cup {asking.url}
          /\ Distinct'
      BY <1>0, <2>2, <3>1, <3>3, SentPing, Zenon
    <3>5. PingTypeOK'
      BY <1>0, <3>1, <3>2, <3>4, Zenon DEF PingTypeOK, Nothing
    <3> QED
      BY <1>0, <2>2, <3>1, <3>2, <3>3, <3>4, <3>5 DEF PingInv
  <2> QED
    BY <1>2, <2>1, <2>2, Zenon DEF EnqueuePing
<1>3. CASE MarkPending
  BY <1>0, <1>3, SMTT(30)
  DEF MarkPending, PingInv, PingTypeOK, Unentered, Queued, InHand, Distinct, Nothing
<1>4. CASE TakePing
  <2>1. /\ pingWake' \in Seq(URLs) /\ Head(pingWake) \in URLs
        /\ Queued' = Queued \ {Head(pingWake)} /\ Head(pingWake) \in Queued
        /\ Distinct'
    BY <1>0, <1>4, ReceivedPing, Zenon DEF TakePing
  <2>2. /\ answering' \in [url : URLs, at : {"request", "done"}]
        /\ InHand = {} /\ InHand' = {Head(pingWake)}
        /\ UNCHANGED <<pingPending, asking, Unentered>>
    BY <1>4, <2>1, Zenon DEF TakePing, InHand, Unentered, Nothing
  <2>3. PingTypeOK'
    BY <1>0, <2>1, <2>2, Zenon DEF PingTypeOK, Nothing
  <2> QED
    BY <1>0, <2>1, <2>2, <2>3, Zenon DEF PingInv
<1>5. ASSUME NEW ok \in BOOLEAN, AnswerPing(ok) PROVE PingInv'
  <2>1. answering \in [url : URLs, at : {"request", "done"}]
    BY <1>0, <1>5 DEF AnswerPing, PingTypeOK, Nothing
  <2>2. answering' \in [url : URLs, at : {"request", "done"}] /\ answering'.url = answering.url
    BY <1>5, <2>1, Zenon DEF AnswerPing
  <2> QED
    BY <1>0, <1>5, <2>2 DEF AnswerPing, PingInv, PingTypeOK, Unentered, Queued, InHand, Distinct
<1>6. CASE ForgetPending
  <2>1. /\ answering \in [url : URLs, at : {"request", "done"}]
        /\ Unentered = {} /\ InHand = {answering.url} /\ InHand' = {}
        /\ pingPending' = pingPending \ {answering.url} /\ answering' = Nothing
        /\ UNCHANGED <<pingWake, asking, Unentered, Queued, Distinct>>
    BY <1>0, <1>6 DEF ForgetPending, PingMuFree, PingTypeOK, Unentered, InHand, Queued,
              Distinct, Nothing
  <2> QED
    BY <1>0, <2>1, Zenon DEF PingInv, PingTypeOK
<1>7. CASE UNCHANGED pingVars
  BY <1>0, <1>7 DEF pingVars, PingInv, PingTypeOK, Unentered, Queued, InHand, Distinct
<1> QED
  BY <1>1, <1>2, <1>3, <1>4, <1>5, <1>6, <1>7, Zenon DEF PingNext, PingWorker

\* In every behaviour of answerControlPing and controlPingWorker, for any URLs
\* and any capacity of the channel, pingPending holds whenever its lock is free
\* what is queued or in hand, each once.
THEOREM PingsExact == PingSpec => []PendingExact
<1>1. PingInv => PendingExact
  BY Zenon DEF PingInv, PendingExact, PingMuFree, Unentered
<1> QED
  BY <1>1, InitPing, PingStep, PTL DEF PingSpec
=============================================================================

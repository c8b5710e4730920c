------------------------------ MODULE NoiseConn ------------------------------
(***************************************************************************)
(* One direction of the control connection after the Noise handshake       *)
(* (internal/controlproto/noise.go: NoiseConn with its noiseDirection tx   *)
(* at the sending and rx at the receiving end).  Write cuts bytes into     *)
(* records sealed under a counting nonce, Read opens them, Close closes    *)
(* the connection and then takes each half's lock.                         *)
(*                                                                         *)
(* A byte is its position in the stream of sealed bytes, a record [n, lo,  *)
(* hi] the bytes lo..hi sealed under nonce n, and Fragment whatever is     *)
(* left of a record that was written or read in part.  The connection      *)
(* keeps order and may fail at any time.  A record opens only under its    *)
(* own nonce, and a fragment never does (the AEAD, external).              *)
(***************************************************************************)
EXTENDS Integers, Sequences

CONSTANTS
  Writers, Readers,  \* goroutines that call Write and Read
  Sizes,             \* len(src) of a Write
  MaxPlaintext,      \* noiseMaxPlaintext
  InvalidNonce,      \* noiseInvalidNonce, 2^64 - 1 in the code
  Capacity,          \* records the connection buffers before Write blocks
  Fragment, NoFrame

ASSUME NoiseConstants ==
  /\ Sizes \subseteq Nat \ {0} /\ MaxPlaintext \in Nat \ {0}
  /\ InvalidNonce \in Nat /\ Capacity \in Nat \ {0}
  /\ Fragment \notin [n : Nat, lo : Nat, hi : Nat]
  /\ NoFrame \notin [n : Nat, lo : Nat, hi : Nat]

Ends == {"sender", "receiver"}

VARIABLES
  left,      \* bytes of the Write in progress that are not yet written, 0 for none
  frame,     \* the record sealed and not yet written
  txCipher,  \* tx.cipher is not nil
  txNonce,
  wire,      \* the records on the connection
  reading,   \* the goroutines in Read
  rxCipher, rxNonce,
  plain,     \* rx.plain, the bytes lo..hi
  closing,   \* how far Close is at each end: "open", "conn", "rx", "done"
  panicked,  \* a nonce ran out
  sealed,    \* history: how many bytes have been sealed
  log,       \* history: the records sealed, with their writer and its bytes to follow
  out        \* history: the bytes lo..hi the last Read returned

txVars == <<left, frame, txCipher, txNonce, sealed, log>>
rxVars == <<reading, rxCipher, rxNonce, plain, out>>
noiseVars == <<left, frame, txCipher, txNonce, wire, reading, rxCipher, rxNonce,
               plain, closing, panicked, sealed, log, out>>

Record == [n : Nat, lo : Nat, hi : Nat]

NoiseInit ==
  /\ left = [w \in Writers |-> 0] /\ frame = [w \in Writers |-> NoFrame]
  /\ txCipher = TRUE /\ txNonce = 0 /\ wire = <<>>
  /\ reading = {} /\ rxCipher = TRUE /\ rxNonce = 0 /\ plain = [lo |-> 1, hi |-> 0]
  /\ closing = [e \in Ends |-> "open"] /\ panicked = FALSE
  /\ sealed = 0 /\ log = <<>> /\ out = [lo |-> 1, hi |-> 0]

\* Mutant: Close closes the connection last.
ConnClosedLast(e) == closing[e] = "done"

ConnClosed(e) == closing[e] # "open"

-----------------------------------------------------------------------------
(* Write.                                                                  *)

\* tx.Mutex is free.
TxFree == \A w \in Writers : left[w] = 0

\* Mutant: Write does not lock.
WriteUnlocked(w, size) ==
  /\ left[w] = 0 /\ txCipher
  /\ left' = [left EXCEPT ![w] = size]
  /\ UNCHANGED <<frame, txCipher, txNonce, wire, rxVars, closing, panicked, sealed, log>>

\* A Write that finds no cipher returns an error and changes nothing.
WriteBegin(w, size) ==
  /\ TxFree /\ txCipher
  /\ left' = [left EXCEPT ![w] = size]
  /\ UNCHANGED <<frame, txCipher, txNonce, wire, rxVars, closing, panicked, sealed, log>>

Chunk(w) == IF left[w] > MaxPlaintext THEN MaxPlaintext ELSE left[w]

\* Seal the next chunk, then count its nonce: the increment panics after the
\* invalid nonce has sealed a record, and before that record is written.
Seal(w) ==
  LET record == [n |-> txNonce, lo |-> sealed + 1, hi |-> sealed + Chunk(w)] IN
  /\ left[w] > 0 /\ frame[w] = NoFrame
  /\ frame' = [frame EXCEPT ![w] = record]
  /\ sealed' = sealed + Chunk(w)
  /\ log' = Append(log, [n |-> record.n, lo |-> record.lo, hi |-> record.hi,
                         w |-> w, more |-> left[w] - Chunk(w)])
  /\ \/ txNonce = InvalidNonce /\ panicked' = TRUE /\ UNCHANGED txNonce
     \/ txNonce # InvalidNonce /\ txNonce' = txNonce + 1 /\ UNCHANGED panicked
  /\ UNCHANGED <<left, txCipher, wire, rxVars, closing>>

\* conn.Write succeeds; after the last chunk Write returns.
ConnWrite(w) ==
  /\ frame[w] # NoFrame /\ Len(wire) < Capacity
  /\ \A e \in Ends : ~ConnClosed(e)
  /\ wire' = Append(wire, frame[w])
  /\ frame' = [frame EXCEPT ![w] = NoFrame]
  /\ left' = [left EXCEPT ![w] = @ - Chunk(w)]
  /\ UNCHANGED <<txCipher, txNonce, rxVars, closing, panicked, sealed, log>>

\* What a conn.Write that failed leaves on the connection: nothing, a part of
\* the record, or all of it.
LeftByFailure(w) == {wire, Append(wire, Fragment), Append(wire, frame[w])}

\* conn.Write fails: no later Write gets past the check of the cipher.
ConnWriteFails(w) ==
  /\ frame[w] # NoFrame
  /\ wire' \in LeftByFailure(w)
  /\ txCipher' = FALSE
  /\ frame' = [frame EXCEPT ![w] = NoFrame] /\ left' = [left EXCEPT ![w] = 0]
  /\ UNCHANGED <<txNonce, rxVars, closing, panicked, sealed, log>>

-----------------------------------------------------------------------------
(* Read.                                                                   *)

ReadBegin(r) ==
  /\ reading = {} /\ rxCipher
  /\ reading' = {r}
  /\ UNCHANGED <<txVars, wire, rxCipher, rxNonce, plain, closing, panicked, out>>

\* The goroutine waits in io.ReadFull for the next record.
Waiting(r) == r \in reading /\ plain.lo > plain.hi

\* cipher.Open, where opened says whether it succeeds, and the nonce's increment.
OpenRecord(r, record, opened) ==
  IF rxNonce = InvalidNonce
  THEN panicked' = TRUE /\ UNCHANGED <<reading, rxCipher, rxNonce, plain>>
  ELSE /\ rxNonce' = rxNonce + 1
       /\ IF opened
          THEN /\ plain' = [lo |-> record.lo, hi |-> record.hi]
               /\ UNCHANGED <<reading, rxCipher>>
          ELSE /\ rxCipher' = FALSE /\ reading' = reading \ {r}
               /\ UNCHANGED plain
       /\ UNCHANGED panicked

ReadRecord(r) ==
  /\ Waiting(r) /\ ~ConnClosed("receiver")
  /\ wire # <<>> /\ Head(wire) # Fragment
  /\ wire' = Tail(wire)
  /\ OpenRecord(r, Head(wire), Head(wire).n = rxNonce)
  /\ UNCHANGED <<txVars, closing, out>>

\* What is left once a header read from a fragment has made Read consume the
\* first i items, and perhaps a part of the next one.
Swallowed(i) ==
  LET rest == SubSeq(wire, i + 1, Len(wire)) IN
  {rest} \cup (IF i < Len(wire) THEN {[rest EXCEPT ![1] = Fragment]} ELSE {})

\* The bytes of a fragment are no valid header, or the record they announce does
\* not open.
ReadFragment(r) ==
  /\ Waiting(r) /\ ~ConnClosed("receiver")
  /\ wire # <<>> /\ Head(wire) = Fragment
  /\ \E i \in 1..Len(wire) : wire' \in Swallowed(i)
  /\ \/ /\ reading' = reading \ {r}
        /\ UNCHANGED <<rxCipher, rxNonce, plain, panicked>>
     \/ OpenRecord(r, Fragment, FALSE)
  /\ UNCHANGED <<txVars, closing, out>>

\* io.ReadFull fails, at the end of the connection or at a deadline, perhaps in
\* the middle of a record.
ReadFails(r) ==
  /\ Waiting(r)
  /\ reading' = reading \ {r}
  /\ wire' \in {wire} \cup (IF wire # <<>> THEN {[wire EXCEPT ![1] = Fragment]} ELSE {})
  /\ UNCHANGED <<txVars, rxCipher, rxNonce, plain, closing, panicked, out>>

\* Mutant: what does not fit into dst is dropped.
DeliverDropping(r) ==
  /\ r \in reading /\ plain.lo <= plain.hi
  /\ \E last \in plain.lo..plain.hi : out' = [lo |-> plain.lo, hi |-> last]
  /\ plain' = [lo |-> plain.hi + 1, hi |-> plain.hi]
  /\ reading' = reading \ {r}
  /\ UNCHANGED <<txVars, wire, rxCipher, rxNonce, closing, panicked>>

\* copy(dst, rx.plain), where dst may be shorter.
Deliver(r) ==
  /\ r \in reading /\ plain.lo <= plain.hi
  /\ \E last \in plain.lo..plain.hi :
       /\ out' = [lo |-> plain.lo, hi |-> last]
       /\ plain' = [plain EXCEPT !.lo = last + 1]
  /\ reading' = reading \ {r}
  /\ UNCHANGED <<txVars, wire, rxCipher, rxNonce, closing, panicked>>

-----------------------------------------------------------------------------
(* Close, at either end.  It locks rx, then tx; at each end one of the two *)
(* belongs to the other direction.                                         *)

CloseUnder(e) ==
  /\ closing[e] = "open"
  /\ closing' = [closing EXCEPT ![e] = "conn"]
  /\ UNCHANGED <<txVars, wire, rxVars, panicked>>

CloseRx(e) ==
  /\ closing[e] = "conn" /\ (e = "receiver" => reading = {})
  /\ closing' = [closing EXCEPT ![e] = "rx"]
  /\ rxCipher' = (rxCipher /\ e # "receiver")
  /\ UNCHANGED <<txVars, wire, reading, rxNonce, plain, panicked, out>>

CloseTx(e) ==
  /\ closing[e] = "rx" /\ (e = "sender" => TxFree)
  /\ closing' = [closing EXCEPT ![e] = "done"]
  /\ txCipher' = (txCipher /\ e # "sender")
  /\ UNCHANGED <<left, frame, txNonce, sealed, log, wire, rxVars, panicked>>

-----------------------------------------------------------------------------
WriteStep(w) ==
  \/ \E size \in Sizes : WriteBegin(w, size)
  \/ Seal(w) \/ ConnWrite(w) \/ ConnWriteFails(w)

ReadStep(r) ==
  ReadBegin(r) \/ ReadRecord(r) \/ ReadFragment(r) \/ ReadFails(r) \/ Deliver(r)

CloseStep(e) == CloseUnder(e) \/ CloseRx(e) \/ CloseTx(e)

NoiseNext ==
  /\ ~panicked
  /\ \/ \E w \in Writers : WriteStep(w)
     \/ \E r \in Readers : ReadStep(r)
     \/ \E e \in Ends : CloseStep(e)

NoiseSpec == NoiseInit /\ [][NoiseNext]_noiseVars

\* Goroutines run, and sync.Mutex does not starve Close.  A blocked read or
\* write need not end before the connection is closed.
NoiseFairness ==
  /\ WF_noiseVars(/\ ~panicked
                  /\ \E w \in Writers :
                       \/ Seal(w)
                       \/ ((\E e \in Ends : ConnClosed(e)) /\ ConnWriteFails(w)))
  /\ WF_noiseVars(/\ ~panicked
                  /\ \E r \in Readers :
                       Deliver(r) \/ (ConnClosed("receiver") /\ ReadFails(r)))
  /\ \A e \in Ends : SF_noiseVars(~panicked /\ (CloseRx(e) \/ CloseTx(e)))

-----------------------------------------------------------------------------
(* Properties.                                                             *)

\* The direction is a ByteStream: whatever fails, is cut short, is interrupted
\* or closed, Read returns exactly the bytes that follow those it returned
\* before, Write seals nothing once the sender's cipher is gone and Read returns
\* nothing once the receiver's is.
Stream == INSTANCE ByteStream WITH put <- sealed, sending <- txCipher, taking <- rxCipher

IsByteStream == Stream!StreamSpec

\* No nonce seals two records, after failed writes too, and what the invalid one
\* seals never gets onto the connection.
NonceOnce ==
  /\ \A i, j \in DOMAIN log : log[i].n = log[j].n => i = j
  /\ \A i \in DOMAIN wire : wire[i] # Fragment => wire[i].n < InvalidNonce

\* The records of one Write follow each other: no other Write gets between
\* them, and the one after a Write that was not finished does not exist.
WritesWhole ==
  \A i \in DOMAIN log : i + 1 \in DOMAIN log /\ log[i].more > 0 =>
    /\ log[i + 1].w = log[i].w
    /\ log[i].more = log[i + 1].more + log[i + 1].hi - log[i].hi

\* Concurrent and failing Writes seal their records one Write after the other,
\* each under a nonce of its own, and the invalid nonce sends none.
RecordsOrdered == NonceOnce /\ WritesWhole

\* Close returns, although goroutines are blocked in Read and Write with the
\* locks it needs.
CloseReturns == \A e \in Ends : closing[e] = "conn" ~> closing[e] = "done" \/ panicked

-----------------------------------------------------------------------------
(* The inductive invariant of the proofs.                                  *)

Sealed == [n : Nat, lo : Nat, hi : Nat, w : Writers, more : Nat]
Bytes == [lo : Nat, hi : Nat]

NoiseTypeOK ==
  /\ left \in [Writers -> Nat] /\ frame \in [Writers -> Record \cup {NoFrame}]
  /\ txCipher \in BOOLEAN /\ txNonce \in Nat
  /\ wire \in Seq(Record \cup {Fragment})
  /\ reading \in SUBSET Readers /\ rxCipher \in BOOLEAN /\ rxNonce \in Nat
  /\ plain \in Bytes /\ closing \in [Ends -> {"open", "conn", "rx", "done"}]
  /\ panicked \in BOOLEAN
  /\ sealed \in Nat /\ log \in Seq(Sealed) /\ out \in Bytes

\* Who is inside Write or Read holds the lock, and the cipher stays.
LockInv ==
  /\ \A v, w \in Writers : left[v] > 0 /\ left[w] > 0 => v = w
  /\ \A w \in Writers : left[w] > 0 => txCipher
  /\ \A w \in Writers : frame[w] # NoFrame => left[w] > 0
  /\ reading # {} => rxCipher
  /\ \A q, r \in reading : q = r

\* The records sealed partition the bytes sealed, in the order of their nonces.
LogInv ==
  /\ txNonce <= InvalidNonce /\ (~panicked => txNonce = Len(log))
  /\ \A i \in 1..Len(log) : log[i].n = i - 1 /\ log[i].lo <= log[i].hi
  /\ \A i \in 1..Len(log) : log[i].hi <= sealed
  /\ \A i \in 1..(Len(log) - 1) : log[i + 1].lo = log[i].hi + 1
  /\ log = <<>> => sealed = 0
  /\ log # <<>> => log[1].lo = 1 /\ log[Len(log)].hi = sealed

\* A record on its way, or about to be, is the one sealed under its nonce.
IsSealed(record) ==
  /\ record.n < Len(log)
  /\ record.lo = log[record.n + 1].lo /\ record.hi = log[record.n + 1].hi

WireInv ==
  /\ \A i \in 1..Len(wire) :
       wire[i] # Fragment => IsSealed(wire[i]) /\ wire[i].n < InvalidNonce
  /\ \A w \in Writers : frame[w] # NoFrame => IsSealed(frame[w])

\* While the receiver's cipher is there, what was read and what is buffered are
\* the bytes sealed under the nonces counted so far.
ReadInv ==
  rxCipher =>
    /\ rxNonce <= Len(log)
    /\ plain.lo = out.hi + 1 /\ plain.lo <= plain.hi + 1
    /\ plain.hi = IF rxNonce = 0 THEN 0 ELSE log[rxNonce].hi

\* While a Write is under way its next record continues the last one sealed;
\* one that failed leaves no cipher.
WholeInv ==
  /\ WritesWhole
  /\ log # <<>> /\ log[Len(log)].more > 0 /\ txCipher =>
       LET last == log[Len(log)] IN
       left[last.w] = last.more + (IF frame[last.w] = NoFrame THEN 0 ELSE last.hi - last.lo + 1)
  /\ \A w \in Writers : frame[w] # NoFrame =>
       /\ log # <<>> /\ log[Len(log)].w = w
       /\ left[w] = log[Len(log)].more + log[Len(log)].hi - log[Len(log)].lo + 1
       /\ Chunk(w) = log[Len(log)].hi - log[Len(log)].lo + 1

NoiseInv == NoiseTypeOK /\ LockInv /\ LogInv /\ WireInv /\ ReadInv /\ WholeInv
=============================================================================

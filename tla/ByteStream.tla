----------------------------- MODULE ByteStream -----------------------------
(***************************************************************************)
(* What one direction of a connection promises its users: bytes come out   *)
(* in the order they went in, none is lost, repeated or invented, nothing  *)
(* goes in once the sending end is shut and nothing comes out once the     *)
(* receiving end is.  A byte is its position in the stream.                *)
(***************************************************************************)
EXTENDS Integers

VARIABLES
  put,      \* how many bytes have been accepted
  out,      \* the positions [lo, hi] last handed to a reader
  sending,  \* the sending end accepts bytes
  taking    \* the receiving end hands out bytes

streamVars == <<put, out, sending, taking>>

StreamInit == put = 0 /\ out = [lo |-> 1, hi |-> 0] /\ sending = TRUE /\ taking = TRUE

Put ==
  /\ sending
  /\ put' > put
  /\ UNCHANGED <<out, sending, taking>>

\* The bytes that follow the last ones, at least one of them.
Take ==
  /\ taking
  /\ out' = [lo |-> out.hi + 1, hi |-> out'.hi]
  /\ out.hi < out'.hi /\ out'.hi <= put
  /\ UNCHANGED <<put, sending, taking>>

ShutSending == sending' = FALSE /\ UNCHANGED <<put, out, taking>>

ShutTaking == taking' = FALSE /\ UNCHANGED <<put, out, sending>>

StreamNext == Put \/ Take \/ ShutSending \/ ShutTaking

StreamSpec == StreamInit /\ [][StreamNext]_streamVars
=============================================================================

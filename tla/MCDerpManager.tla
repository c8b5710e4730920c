--------------------------- MODULE MCDerpManager ---------------------------
(* DerpManager with interchangeable clients and workers.                   *)
EXTENDS DerpManager, TLC

CONSTANTS s1, c1, c2, w1, w2

Interchangeable == Permutations({c1, c2}) \cup Permutations({w1, w2})
=============================================================================

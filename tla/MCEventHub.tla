----------------------------- MODULE MCEventHub -----------------------------
(* Instances of EventHub for TLC. *)
EXTENDS EventHub

Asked == [s \in Subs |-> IF s = "s1" THEN 0 ELSE 2]
=============================================================================

---------------------------- MODULE MCConnections ----------------------------
(***************************************************************************)
(* The two kinds of connection the client keeps, DERP and Noise, under     *)
(* fair scheduling: each behaviour is one of the two, while the other      *)
(* stays where it begins.                                                  *)
(***************************************************************************)
EXTENDS DerpManager, NoiseConn

VARIABLE kind

ConnectionsInit == kind \in {"derp", "noise"} /\ Init /\ NoiseInit

ConnectionsNext ==
  /\ UNCHANGED kind
  /\ \/ kind = "derp" /\ Next /\ UNCHANGED noiseVars
     \/ kind = "noise" /\ NoiseNext /\ UNCHANGED vars

\* The fair actions of each are disabled where it begins.
ConnectionsSpec ==
  /\ ConnectionsInit /\ [][ConnectionsNext]_<<kind, vars, noiseVars>>
  /\ Fairness /\ NoiseFairness
=============================================================================

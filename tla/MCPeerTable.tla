---------------------------- MODULE MCPeerTable ----------------------------
(* Instances of PeerTable for TLC. *)
EXTENDS PeerTable

Cfg(k, d, e, r) == [key |-> k, disco |-> d, eps |-> e, rest |-> r]

\* Two peers that exchange a DISCO key and an endpoint.
Exchanging == {Cfg("k1", "d1", {"a1"}, 0), Cfg("k1", "d1", {"a2"}, 0),
               Cfg("k1", "d2", {"a1", "a2"}, 0), Cfg("k2", "d1", {"a2"}, 0)}

\* One peer that restarts with another DISCO key at another address.
Restarting == {Cfg("k1", "d1", {"a1"}, 0), Cfg("k1", "d2", {"a2"}, 1)}
=============================================================================

--------------------------- MODULE MCPeerReconcile ---------------------------
(* Instances of PeerReconcile for TLC. *)
EXTENDS PeerReconcile, TLC

CONSTANTS n1, k1, k2, a1, a2

Node(k, s) == [ips |-> "ips", key |-> k, static |-> s, usable |-> TRUE]
Interchangeable == Permutations(Keys)

\* A node, and a node that may rotate its key.
NodesOne == {Node(k1, Null)}
NodesByKey == {Node(k1, Null), Node(k2, Null)}
NoOthers == {}
NoPaths == {}

\* A node with a static endpoint that may expire, for a client that uses wgo's
\* default transport for direct peers; another controller may hold its key
\* there.
NodesDirect == {Node(k1, a2), [Node(k1, a2) EXCEPT !.usable = FALSE]}
PathsDirect == {[kind |-> "derp", direct |-> Null],
                [kind |-> "direct", direct |-> a1],
                [kind |-> "direct", direct |-> a2]}
OtherDefault == {[body |-> [endpoint |-> Direct(a1), ips |-> "x"], by |-> "other"]}

NodesStatic == {Node(k1, a1)}
=============================================================================

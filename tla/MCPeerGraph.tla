---------------------------- MODULE MCPeerGraph ----------------------------
(***************************************************************************)
(* The instances of PeerGraph that TLC checks: IDs short enough for labels.*)
(***************************************************************************)
EXTENDS PeerGraph

CONSTANTS a, b, hashA, hashB, v1, v2, s1, s2, r1

Hash == [n \in NodeIDs |-> IF n = a THEN hashA ELSE hashB]
Short == [n \in NodeIDs |-> n]
OneEdge == {<<a, b>>}
=============================================================================

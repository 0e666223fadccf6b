--------------------------- MODULE MCRudpManager ---------------------------
(* Instances of RudpManager for TLC. *)
EXTENDS RudpManager, TLC

CONSTANTS p1, p2, p3

\* Any number that is not our own or its neighbour will do.
MCPeerISS == [p \in Peers |-> 3]
=============================================================================

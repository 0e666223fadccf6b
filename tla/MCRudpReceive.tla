--------------------------- MODULE MCRudpReceive ---------------------------
(* An instance of RudpReceive for TLC.  The receivers are interchangeable,  *)
(* but symmetry is not sound for a liveness property.                       *)
EXTENDS RudpReceive

CONSTANTS r1, r2

MCReceivers == {r1, r2}
=============================================================================

-------------------------- MODULE MCRudpConnection --------------------------
(* Instances of RudpConnection for TLC. *)
EXTENDS RudpConnection, TLC

\* The active opener's number is random in the code, the listener's is 17:
\* any two numbers that are not 0 and not each other's neighbours will do.
MCISS == Client :> 3 @@ Server :> 9

\* So close to the end of the sequence numbers that the receive window of the
\* first message wraps.
MCLastISS == Client :> Modulus - 4 @@ Server :> Modulus - 2

MCOneWay   == Client :> 3 @@ Server :> 0
MCTwo      == Client :> 2 @@ Server :> 0
MCBothWays == Client :> 1 @@ Server :> 3
=============================================================================

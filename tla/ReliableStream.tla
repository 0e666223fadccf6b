--------------------------- MODULE ReliableStream ---------------------------
(***************************************************************************)
(* What a connection promises its two users: in each direction a stream of *)
(* messages that arrives complete, in order and without repetition, and a  *)
(* sender that is never more than a window ahead of the receiving user.    *)
(***************************************************************************)
EXTENDS Naturals, Sequences

CONSTANTS Left, Right, \* the two users
          Window       \* how far ahead each may send

Ends == {Left, Right}

Other(e) == IF e = Left THEN Right ELSE Left

VARIABLES sent,     \* how many messages each user has sent: 1, 2, 3, ...
          delivered \* the messages each user has been given, in order

vars == <<sent, delivered>>

Init ==
  /\ sent = [e \in Ends |-> 0]
  /\ delivered = [e \in Ends |-> << >>]

Send(e) ==
  /\ sent[e] - Len(delivered[Other(e)]) < Window[e]
  /\ sent' = [sent EXCEPT ![e] = @ + 1]
  /\ UNCHANGED delivered

\* The next k messages become available at once.
Deliver(e) ==
  /\ \E k \in 1 .. sent[Other(e)] - Len(delivered[e]) :
       delivered' = [delivered EXCEPT
         ![e] = @ \o [j \in 1 .. k |-> Len(@) + j]]
  /\ UNCHANGED sent

Next == \E e \in Ends : Send(e) \/ Deliver(e)

Spec == Init /\ [][Next]_vars
=============================================================================

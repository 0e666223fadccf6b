-------------------------- MODULE RudpReceiveProofs --------------------------
(* No receiver sleeps through a message, and messages are received in order: *)
(* for every number of receivers and of messages.                            *)
EXTENDS RudpReceive, TLAPS

IInv == TypeOK /\ NoneSleepsThrough /\ ReceivedInOrder

\* What a thread takes is the next message in order, and the others keep their
\* places.
LEMMA TakeInOrder ==
  ASSUME TypeOK, ReceivedInOrder, messages # << >>, NEW t \in Receivers, Take(t),
         arrived' = arrived
  PROVE  /\ messages' \in Seq(Nat) /\ got' \in Seq(Nat)
         /\ ReceivedInOrder'
<1> USE DEF TypeOK
<1>1. messages' = Tail(messages) /\ got' = Append(got, Head(messages))
  BY DEF Take, Remove
<1>2. /\ Len(messages) \in Nat \ {0} /\ Len(got) \in Nat
      /\ Head(messages) = messages[1]
  OBVIOUS
<1>3. Head(messages) = Len(got) + 1
  BY <1>2 DEF ReceivedInOrder
<1>4. messages' \in Seq(Nat) /\ got' \in Seq(Nat)
  BY <1>1, <1>2, <1>3
<1>5. /\ Len(messages') = Len(messages) - 1
      /\ \A i \in 1 .. Len(messages') : messages'[i] = messages[i + 1]
  BY <1>1
<1>6. /\ Len(got') = Len(got) + 1
      /\ \A i \in 1 .. Len(got) : got'[i] = got[i]
      /\ got'[Len(got) + 1] = Len(got) + 1
  BY <1>1, <1>3, <1>2
<1> HIDE DEF TypeOK
<1>7. Len(got') + Len(messages') = arrived'
  <2>1. Len(got) + Len(messages) = arrived
    BY DEF ReceivedInOrder
  <2> QED
    BY <1>2, <1>5, <1>6, <2>1
<1>8. \A i \in 1 .. Len(got') : got'[i] = i
  <2>1. \A i \in 1 .. Len(got) : got[i] = i
    BY DEF ReceivedInOrder
  <2>2. \A i \in 1 .. Len(got') : i \in 1 .. Len(got) \/ i = Len(got) + 1
    BY <1>2, <1>6
  <2> QED
    BY <1>6, <2>1, <2>2
<1>9. \A i \in 1 .. Len(messages') : messages'[i] = Len(got') + i
  <2> SUFFICES ASSUME NEW i \in 1 .. Len(messages')
               PROVE  messages'[i] = Len(got') + i
    OBVIOUS
  <2>1. messages[i + 1] = Len(got) + (i + 1)
    BY <1>2, <1>5 DEF ReceivedInOrder
  <2> QED
    BY <1>2, <1>5, <1>6, <2>1
<1> QED
  BY <1>4, <1>7, <1>8, <1>9 DEF ReceivedInOrder

\* A message goes to the end of the list, behind those that wait in it.
LEMMA QueueInOrder ==
  ASSUME TypeOK, ReceivedInOrder, Queue
  PROVE  messages' \in Seq(Nat) /\ arrived' \in Nat /\ ReceivedInOrder'
<1> USE DEF TypeOK
<1>1. messages' = Append(messages, arrived + 1) /\ arrived' = arrived + 1 /\ got' = got
  BY DEF Queue
<1>2. Len(messages) \in Nat /\ Len(got) \in Nat
  OBVIOUS
<1>3. /\ messages' \in Seq(Nat) /\ Len(messages') = Len(messages) + 1
      /\ \A i \in 1 .. Len(messages) : messages'[i] = messages[i]
      /\ messages'[Len(messages) + 1] = arrived + 1
  BY <1>1, <1>2
<1>4. Len(got) + Len(messages) = arrived /\ arrived' \in Nat
  BY <1>1 DEF ReceivedInOrder
<1> HIDE DEF TypeOK
<1>5. \A i \in 1 .. Len(messages') : messages'[i] = Len(got') + i
  <2>1. \A i \in 1 .. Len(messages) : messages[i] = Len(got) + i
    BY DEF ReceivedInOrder
  <2> SUFFICES ASSUME NEW i \in 1 .. Len(messages')
               PROVE  messages'[i] = Len(got') + i
    OBVIOUS
  <2>2. CASE i \in 1 .. Len(messages)
    BY <1>1, <1>3, <2>1, <2>2
  <2>3. CASE i = Len(messages) + 1
    <3>1. arrived + 1 = Len(got) + (Len(messages) + 1)
      BY <1>2, <1>4
    <3> QED
      BY <1>1, <1>3, <2>3, <3>1
  <2> QED
    BY <1>2, <1>3, <2>2, <2>3
<1>6. Len(got') + Len(messages') = arrived'
  BY <1>1, <1>2, <1>3, <1>4
<1>7. \A i \in 1 .. Len(got') : got'[i] = i
  BY <1>1 DEF ReceivedInOrder
<1> QED
  BY <1>3, <1>4, <1>5, <1>6, <1>7 DEF ReceivedInOrder

\* The induction step, action by action.
LEMMA Step == IInv /\ [Next]_vars => IInv'
<1> SUFFICES ASSUME TypeOK, NoneSleepsThrough, ReceivedInOrder, [Next]_vars
             PROVE  TypeOK' /\ NoneSleepsThrough' /\ ReceivedInOrder'
  BY DEF IInv
<1> USE DEF TypeOK
<1>1. CASE Queue
  <2>1. TypeOK'
    BY <1>1, QueueInOrder DEF Queue, NotifyAll, Woken
  <2>2. NoneSleepsThrough'
    BY <1>1 DEF Queue, NotifyAll, Woken, Waiting, NoneSleepsThrough
  <2> QED
    BY <1>1, <2>1, <2>2, QueueInOrder
<1>2. CASE CloseWait \/ SetClosed \/ OnClosed
  BY <1>2 DEF CloseWait, SetClosed, OnClosed, NoneSleepsThrough, ReceivedInOrder, Waiting
<1>3. CASE NotifyClosed
  BY <1>3 DEF NotifyClosed, NotifyAll, Woken, NoneSleepsThrough, ReceivedInOrder, Waiting
<1>4. ASSUME NEW t \in Receivers, Find(t) \/ TimeOut(t) \/ Catch(t)
      PROVE  TypeOK' /\ NoneSleepsThrough' /\ ReceivedInOrder'
  BY <1>4 DEF Find, TimeOut, Catch, NoneSleepsThrough, ReceivedInOrder, Waiting
<1>5. ASSUME NEW t \in Receivers, messages # << >>, Take(t),
             UNCHANGED <<st, closing, listed, arrived>>
      PROVE  TypeOK' /\ NoneSleepsThrough' /\ ReceivedInOrder'
  <2>1. messages' \in Seq(Nat) /\ got' \in Seq(Nat) /\ ReceivedInOrder'
    BY <1>5, TakeInOrder
  <2>2. pc' = [pc EXCEPT ![t] = "idle"]
    BY <1>5 DEF Take
  <2> QED
    BY <1>5, <2>1, <2>2 DEF NoneSleepsThrough, Waiting
<1>6. ASSUME NEW t \in Receivers, Receive(t)
      PROVE  TypeOK' /\ NoneSleepsThrough' /\ ReceivedInOrder'
  <2>1. CASE messages # << >>
    BY <1>5, <1>6, <2>1 DEF Receive
  <2>2. CASE messages = << >>
    BY <1>6, <2>2 DEF Receive, NoneSleepsThrough, ReceivedInOrder, Waiting
  <2> QED
    BY <2>1, <2>2
<1>7. ASSUME NEW t \in Receivers, Resume(t)
      PROVE  TypeOK' /\ NoneSleepsThrough' /\ ReceivedInOrder'
  <2>1. CASE st # "CLOSED" /\ messages # << >>
    BY <1>5, <1>7, <2>1 DEF Resume
  <2>2. CASE st = "CLOSED" \/ messages = << >>
    BY <1>7, <2>2 DEF Resume, NoneSleepsThrough, ReceivedInOrder, Waiting
  <2> QED
    BY <2>1, <2>2
<1>8. ASSUME NEW t \in Receivers, TryReceive(t)
      PROVE  TypeOK' /\ NoneSleepsThrough' /\ ReceivedInOrder'
  <2>1. CASE messages # << >>
    BY <1>5, <1>8, <2>1 DEF TryReceive
  <2>2. CASE messages = << >>
    BY <1>8, <2>2 DEF TryReceive, NoneSleepsThrough, ReceivedInOrder, Waiting
  <2> QED
    BY <2>1, <2>2
<1>9. CASE UNCHANGED vars
  BY <1>9 DEF vars, NoneSleepsThrough, ReceivedInOrder, Waiting
<1> QED
  BY <1>1, <1>2, <1>3, <1>4, <1>6, <1>7, <1>8, <1>9 DEF Next

\* No receiver waits while there is a message: Queue and the closing of the
\* connection notify every waiting thread under the monitor of m_messages, and
\* a thread waits only after it has seen the list empty under that monitor.
THEOREM NoReceiverSleepsThrough == Spec => []NoneSleepsThrough
<1>1. Init => IInv
  BY ReceiveAssumption DEF Init, IInv, TypeOK, NoneSleepsThrough, ReceivedInOrder, Waiting
<1>2. IInv => NoneSleepsThrough
  BY DEF IInv
<1> QED
  BY <1>1, <1>2, Step, PTL DEF Spec

\* Every message is received once, in the order it was queued, by whichever
\* thread takes it.
THEOREM EachReceivedInOrder == Spec => []ReceivedInOrder
<1>1. Init => IInv
  BY ReceiveAssumption DEF Init, IInv, TypeOK, NoneSleepsThrough, ReceivedInOrder, Waiting
<1>2. IInv => ReceivedInOrder
  BY DEF IInv
<1> QED
  BY <1>1, <1>2, Step, PTL DEF Spec
=============================================================================

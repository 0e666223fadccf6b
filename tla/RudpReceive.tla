----------------------------- MODULE RudpReceive -----------------------------
(***************************************************************************)
(* The receiving side of one connection: threads that receive, the thread  *)
(* that queues messages for them, and the closing of the connection.  The  *)
(* list of messages has a monitor of its own; the connection's state and   *)
(* the manager's map change outside it.                                    *)
(***************************************************************************)
EXTENDS Naturals, Sequences

CONSTANTS Receivers,   (* the threads that receive                          *)
          MaxMessages, (* bound: how many messages arrive                   *)
          SoTimeout    (* is an SO_TIMEOUT set?  0 waits for ever           *)

ASSUME ReceiveAssumption == MaxMessages \in Nat /\ SoTimeout \in BOOLEAN

VARIABLES
  st,       \* m_state, as far as receive tells the states apart
  closing,  \* the next step of setState's branch for CLOSED
  listed,   \* is the connection in the manager's map?
  messages, \* m_messages
  arrived,  \* how many messages have been queued
  got,      \* the messages received, by any thread, in order
  pc        \* where each receiver is

vars == <<st, closing, listed, messages, arrived, got, pc>>

Woken(waiters) == [t \in Receivers |-> IF t \in waiters THEN "woken" ELSE pc[t]]

Waiting == {t \in Receivers : pc[t] = "waiting"}

\* A bug the checks must see: notify, of one thread, and of none while others
\* are about to run.
NotifyIdle == IF Receivers = Waiting THEN Woken(Waiting) ELSE pc

NotifyAll == Woken(Waiting)

\* A bug the checks must see: the last message first.
TakeLast == [message |-> messages[Len(messages)],
             rest |-> SubSeq(messages, 1, Len(messages) - 1)]

\* m_messages.remove (0)
Remove == [message |-> Head(messages), rest |-> Tail(messages)]

Take(t) ==
  /\ got' = Append(got, Remove.message)
  /\ messages' = Remove.rest
  /\ pc' = [pc EXCEPT ![t] = "idle"]

----------------------------------------------------------------------------
(* The connection *)

\* OPEN queues a message.
Queue ==
  /\ st = "OPEN" /\ arrived < MaxMessages
  /\ messages' = Append(messages, arrived + 1)
  /\ arrived' = arrived + 1
  /\ pc' = NotifyAll
  /\ UNCHANGED <<st, closing, listed, got>>

\* A close or an RST; nobody is told.
CloseWait ==
  /\ st = "OPEN" /\ st' = "CLOSE_WAIT"
  /\ UNCHANGED <<closing, listed, messages, arrived, got, pc>>

\* The connection is CLOSED, first in its own state ...
SetClosed ==
  /\ st # "CLOSED" /\ st' = "CLOSED" /\ closing' = "callback"
  /\ UNCHANGED <<listed, messages, arrived, got, pc>>

\* ... then it leaves the map ...
OnClosed ==
  /\ closing = "callback" /\ closing' = "notify" /\ listed' = FALSE
  /\ UNCHANGED <<st, messages, arrived, got, pc>>

\* ... and last the receivers are told.
NotifyClosed ==
  /\ closing = "notify" /\ closing' = "no" /\ pc' = NotifyAll
  /\ UNCHANGED <<st, listed, messages, arrived, got>>

----------------------------------------------------------------------------
(* The receivers *)

\* receive of the manager finds the connection; it throws if it is not listed.
Find(t) ==
  /\ pc[t] = "idle" /\ listed
  /\ pc' = [pc EXCEPT ![t] = "found"]
  /\ UNCHANGED <<st, closing, listed, messages, arrived, got>>

\* receive of the connection: a message that is there is taken, whatever the
\* state; without one the thread waits, whatever the state.
Receive(t) ==
  /\ pc[t] = "found"
  /\ \/ messages # << >> /\ Take(t)
     \/ /\ messages = << >> /\ pc' = [pc EXCEPT ![t] = "waiting"]
        /\ UNCHANGED <<messages, got>>
  /\ UNCHANGED <<st, closing, listed, arrived>>

TimeOut(t) ==
  /\ SoTimeout /\ pc[t] = "waiting"
  /\ pc' = [pc EXCEPT ![t] = "woken"]
  /\ UNCHANGED <<st, closing, listed, messages, arrived, got>>

\* A thread that has been woken gets the monitor back.
Resume(t) ==
  /\ pc[t] = "woken"
  /\ \/ /\ st = "CLOSED"
        /\ pc' = [pc EXCEPT ![t] = "SocketException"]
        /\ UNCHANGED <<messages, got>>
     \/ /\ st # "CLOSED" /\ messages = << >>
        /\ pc' = [pc EXCEPT ![t] = "SocketTimeoutException"]
        /\ UNCHANGED <<messages, got>>
     \/ st # "CLOSED" /\ messages # << >> /\ Take(t)
  /\ UNCHANGED <<st, closing, listed, arrived>>

\* The user catches the exception, and may receive again.
Catch(t) ==
  /\ pc[t] \in {"SocketException", "SocketTimeoutException"}
  /\ pc' = [pc EXCEPT ![t] = "idle"]
  /\ UNCHANGED <<st, closing, listed, messages, arrived, got>>

\* tryReceive, by a thread that has just found the connection.
TryReceive(t) ==
  /\ pc[t] = "found"
  /\ \/ messages # << >> /\ Take(t)
     \/ messages = << >> /\ pc' = [pc EXCEPT ![t] = "idle"] /\ UNCHANGED <<messages, got>>
  /\ UNCHANGED <<st, closing, listed, arrived>>

----------------------------------------------------------------------------

Init ==
  /\ st = "OPEN" /\ closing = "no" /\ listed = TRUE
  /\ messages = << >> /\ arrived = 0 /\ got = << >>
  /\ pc = [t \in Receivers |-> "idle"]

Next ==
  \/ Queue \/ CloseWait \/ SetClosed \/ OnClosed \/ NotifyClosed
  \/ \E t \in Receivers :
       \/ Find(t) \/ Receive(t) \/ TimeOut(t) \/ Resume(t) \/ Catch(t)
       \/ TryReceive(t)

Spec == Init /\ [][Next]_vars

\* Threads that can run do: those that close, and those that have called
\* receive or have been woken in it.
Fairness ==
  /\ WF_vars(OnClosed) /\ WF_vars(NotifyClosed)
  /\ \A t \in Receivers : WF_vars(Receive(t) \/ TryReceive(t)) /\ WF_vars(Resume(t))

FairSpec == Spec /\ Fairness

----------------------------------------------------------------------------
(* Properties *)

TypeOK ==
  /\ st \in {"OPEN", "CLOSE_WAIT", "CLOSED"}
  /\ closing \in {"no", "callback", "notify"}
  /\ listed \in BOOLEAN
  /\ messages \in Seq(Nat) /\ arrived \in Nat /\ got \in Seq(Nat)
  /\ pc \in [Receivers -> {"idle", "found", "waiting", "woken",
                           "SocketException", "SocketTimeoutException"}]

\* No receiver sleeps through a message: with several receivers and messages,
\* a thread that waits waits for a message that has not been queued yet.
NoneSleepsThrough == messages # << >> => Waiting = {}

\* Messages are received once each and in the order they were queued, by
\* however many threads, timeouts and exceptions.
ReceivedInOrder ==
  /\ Len(got) + Len(messages) = arrived
  /\ \A i \in 1 .. Len(got) : got[i] = i
  /\ \A i \in 1 .. Len(messages) : messages[i] = Len(got) + i

\* A close ends every wait that began before its receivers are told, timeouts
\* apart.  A thread that begins to wait after that waits for ever.
CloseWakesWaiters ==
  \A t \in Receivers :
    (closing # "no" /\ pc[t] = "waiting") ~> pc[t] # "waiting"
=============================================================================

--------------------------- MODULE RudpConnection ---------------------------
(***************************************************************************)
(* Two reliable UDP endpoints over a network that loses, duplicates and    *)
(* reorders segments: the connection objects with their retransmitters,    *)
(* the threads that send on them and the timers that fire.  A call on a    *)
(* connection (handle, send, open, close, a timer task) holds its monitor  *)
(* for the whole call, so each is one action; the retransmission timer has *)
(* a monitor of its own and is not one with them.                          *)
(***************************************************************************)
EXTENDS RudpStates

CONSTANTS Client, Server, (* the two endpoints                              *)
          Active,         (* those that call open; the others accept        *)
          ISS,            (* initial sequence number of each endpoint       *)
          MaxSend,        (* how many messages each endpoint's user sends   *)
          Closers,        (* the endpoints whose user may close             *)
          Lossy,          (* do segments ever leave the network?            *)
          Leftover        (* types of handshake segments still in it        *)

Endpoints == {Client, Server}

Peer(e) == IF e = Client THEN Server ELSE Client

\* Sequence numbers do not wrap: they are random and never get near 2^32 in a
\* connection of MaxSend messages; Reliable is about those that do.
NoWrap == \A e \in Endpoints :
  ISS[e] + MaxSend[e] + MaxOutstanding + 2 * MaxBuffered + 2 < Modulus

ASSUME ConnectionAssumption ==
  /\ Client # Server
  /\ Active \in SUBSET Endpoints
  /\ ISS \in [Endpoints -> UInt]
  /\ MaxSend \in [Endpoints -> Nat]
  /\ Closers \in SUBSET Endpoints
  /\ Lossy \in BOOLEAN
  /\ Leftover \in SUBSET {"SYN", "ACK"}

VARIABLES
  st,        \* state of each endpoint's connection
  rec,       \* its connection record
  retr,      \* m_transmitted of its retransmitter, as the set of segments
  fired,     \* the retransmission whose timer task has begun, if any
  timer,     \* is the state's own timer (SYN-SENT, CLOSE-WAIT) scheduled?
  waiting,   \* is the user's thread waiting in send for room?
  net,       \* segments on their way to the endpoint
  sent,      \* number of messages accepted from the endpoint's user
  delivered  \* the messages queued for the endpoint's user, in order

vars == <<st, rec, retr, fired, timer, waiting, net, sent, delivered>>

\* Closed connections are out of the manager's map: nothing reaches them.
Registered(e) == st[e] # "CLOSED"

----------------------------------------------------------------------------
(* Retransmission bookkeeping *)

Track(tracked, out) ==
  LET new == {m \in out : HasData(m)}
  IN {t \in tracked : \A m \in new : t.seq # m.seq} \cup new

\* A bug the checks must see: headMap (n), and a headMap that includes n + 1.
UnackedHeadMap(tracked, cum, one) ==
  {t \in tracked : t.seq \notin one /\ \A n \in cum : ~ (t.seq < n)}
UnackedTooFew(tracked, cum, one) ==
  {t \in tracked : t.seq \notin one /\ \A n \in cum : ~ (t.seq <= UPlus(n, 1))}

\* headMap (n + 1) is empty when n + 1 wraps.
Unacked(tracked, cum, one) ==
  {t \in tracked : t.seq \notin one /\ \A n \in cum : ~ (t.seq < UPlus(n, 1))}

\* What an effect of endpoint e leaves tracked; entering CLOSE-WAIT cancels it.
TrackedAfter(e, eff) ==
  IF eff.st = "CLOSE_WAIT" /\ st[e] # "CLOSE_WAIT" THEN {}
  ELSE Track(Unacked(retr[e], eff.cum, eff.one), eff.out)

\* entered () of SYN-SENT and CLOSE-WAIT sets a timer; exited () of SYN-SENT
\* cancels its own, CLOSE-WAIT does not.
TimerAfter(e, eff) ==
  IF eff.st = st[e] THEN timer[e]
  ELSE \/ eff.st \in {"SYN_SENT", "CLOSE_WAIT"}
       \/ st[e] # "SYN_SENT" /\ timer[e]

\* setState and the StateOutput calls that belong to one call on e.
Apply(e, eff) ==
  /\ st'   = [st   EXCEPT ![e] = eff.st]
  /\ rec'  = [rec  EXCEPT ![e] = eff.rec]
  /\ retr' = [retr EXCEPT ![e] = TrackedAfter(e, eff)]
  /\ timer' = [timer EXCEPT ![e] = TimerAfter(e, eff)]
  /\ delivered' = [delivered EXCEPT ![e] = @ \o eff.queue]

\* A bug the checks must see: notifying from acknowledgeOne instead.
WakesOnOne(eff) == eff.one # {}

\* acknowledge notifies every thread waiting on the connection; acknowledgeOne
\* notifies none.
Wakes(eff) == eff.cum # {}

Transmit(e, out) == net' = [net EXCEPT ![Peer(e)] = @ \cup out]

----------------------------------------------------------------------------
(* The user's calls *)

Open(e) ==
  /\ e \in Active /\ st[e] = "CLOSED" /\ rec[e] = ClosedRecord
  /\ LET eff == ClosedOpen(rec[e], ISS[e])
     IN Apply(e, eff) /\ Transmit(e, eff.out)
  /\ UNCHANGED <<fired, waiting, sent>>

\* send, or a waiting send that has been woken.
Send(e) ==
  /\ st[e] = "OPEN" /\ ~ waiting[e] /\ sent[e] < MaxSend[e]
  /\ WindowOpen(rec[e])
  /\ LET eff == OpenSend(rec[e], sent[e] + 1)
     IN Apply(e, eff) /\ Transmit(e, eff.out)
  /\ sent' = [sent EXCEPT ![e] = @ + 1]
  /\ UNCHANGED <<fired, waiting>>

\* The window is full: the sender waits on the connection's monitor.
SendWaits(e) ==
  /\ st[e] = "OPEN" /\ ~ waiting[e] /\ sent[e] < MaxSend[e]
  /\ ~ WindowOpen(rec[e])
  /\ waiting' = [waiting EXCEPT ![e] = TRUE]
  /\ UNCHANGED <<st, rec, retr, fired, timer, net, sent, delivered>>

\* The wait times out.  The thread tries once more, which is Send if there is
\* room; otherwise send fails.
SendTimesOut(e) ==
  /\ waiting[e]
  /\ waiting' = [waiting EXCEPT ![e] = FALSE]
  /\ UNCHANGED <<st, rec, retr, fired, timer, net, sent, delivered>>

Close(e) ==
  /\ e \in Closers /\ st[e] \notin {"CLOSED", "LISTEN"}
  /\ LET eff == CloseNext(st[e], rec[e])
     IN Apply(e, eff) /\ Transmit(e, eff.out)
  /\ UNCHANGED <<fired, waiting, sent>>

----------------------------------------------------------------------------
(* Segments arriving *)

\* A listening endpoint looks at SYNs only; its connection is made for one.
Handles(e, m) ==
  /\ Registered(e)
  /\ st[e] = "LISTEN" => m.type = "SYN"

\* Endpoint e handles m, which stays in the network when duplicated.
Handle(e, m, duplicated) ==
  /\ Handles(e, m)
  /\ LET eff == GetNext(st[e], rec[e], m)
     IN /\ Apply(e, eff)
        /\ net' = [net EXCEPT
                     ![e] = IF duplicated THEN @ ELSE @ \ {m},
                     ![Peer(e)] = @ \cup eff.out]
        /\ waiting' = [waiting EXCEPT ![e] = @ /\ ~ Wakes(eff)]
  /\ UNCHANGED <<fired, sent>>

\* As far as the endpoints can tell, a network that keeps every segment loses
\* (never delivers), duplicates and reorders them in every way.
Duplicate(e) == \E m \in net[e] : Handle(e, m, TRUE)

\* Liveness needs to know that a segment has left the network: by arriving,
\* by being lost, or because nobody is there to handle it.
Receive(e) == Lossy /\ \E m \in net[e] : Handle(e, m, FALSE)

Lose(e) ==
  /\ Lossy /\ \E m \in net[e] : net' = [net EXCEPT ![e] = @ \ {m}]
  /\ UNCHANGED <<st, rec, retr, fired, timer, waiting, sent, delivered>>

----------------------------------------------------------------------------
(* Timers *)

\* The timer thread begins the task of a tracked segment: from now on
\* TimerTask.cancel comes too late for it.
Fire(e) ==
  /\ fired[e] = {}
  /\ \E m \in retr[e] : fired' = [fired EXCEPT ![e] = {m}]
  /\ UNCHANGED <<st, rec, retr, timer, waiting, net, sent, delivered>>

\* The task gets the retransmitter's monitor.  It never asks whether the
\* segment has been acknowledged, or retransmission stopped, meanwhile.
Retransmit(e) ==
  /\ fired[e] # {}
  /\ retr'  = [retr  EXCEPT ![e] = Track(@, fired[e])]
  /\ fired' = [fired EXCEPT ![e] = {}]
  /\ Transmit(e, fired[e])
  /\ UNCHANGED <<st, rec, timer, waiting, sent, delivered>>

\* The task of a state's timer: only CLOSE-WAIT acts on it.
Expire(e) ==
  /\ timer[e]
  /\ LET eff == TimerNext(st[e], rec[e])
     IN /\ st'  = [st  EXCEPT ![e] = eff.st]
        /\ rec' = [rec EXCEPT ![e] = eff.rec]
  /\ timer' = [timer EXCEPT ![e] = FALSE]
  /\ UNCHANGED <<retr, fired, waiting, net, sent, delivered>>

----------------------------------------------------------------------------
(* Specifications *)

Init ==
  /\ st  = [e \in Endpoints |-> IF e \in Active THEN "CLOSED" ELSE "LISTEN"]
  /\ rec = [e \in Endpoints |-> IF e \in Active THEN ClosedRecord
                                                ELSE ListenRecord(ISS[e])]
  /\ retr      = [e \in Endpoints |-> {}]
  /\ fired     = [e \in Endpoints |-> {}]
  /\ timer     = [e \in Endpoints |-> FALSE]
  /\ waiting   = [e \in Endpoints |-> FALSE]
  /\ net       = [e \in Endpoints |-> {}]
  /\ sent      = [e \in Endpoints |-> 0]
  /\ delivered = [e \in Endpoints |-> << >>]

\* The SYN announces one number, the SYN/ACK the other.
Window == [e \in Endpoints |-> IF e = Client THEN MaxBuffered ELSE MaxOutstanding]

\* Both ends OPEN, as a handshake without loss leaves them, with or without
\* copies of its segments (of the types Leftover) still in the network.
OpenRecord(e) ==
  [initRecv |-> ISS[Peer(e)],
   initSeq  |-> IF e = Client THEN 0 ELSE ISS[e],
   last     |-> ISS[Peer(e)],
   next     |-> UPlus(ISS[e], 1),
   oldest   |-> IF e = Client THEN UPlus(ISS[e], 1) ELSE ISS[e],
   maxOut   |-> Window[e],
   ooo      |-> {}]

Handshake(e) ==
  IF e = Client THEN {SynSeg(ISS[Client], 0, FALSE, MaxOutstanding),
                      AckSeg(UPlus(ISS[Client], 1), ISS[Server], NoData)}
                ELSE {SynSeg(ISS[Server], ISS[Client], TRUE, MaxBuffered)}

EstablishedInit ==
  /\ st  = [e \in Endpoints |-> "OPEN"]
  /\ rec = [e \in Endpoints |-> OpenRecord(e)]
  /\ retr      = [e \in Endpoints |-> {}]
  /\ fired     = [e \in Endpoints |-> {}]
  /\ timer     = [e \in Endpoints |-> FALSE]
  /\ waiting   = [e \in Endpoints |-> FALSE]
  /\ net = [e \in Endpoints |->
              {m \in Handshake(Peer(e)) : m.type \in Leftover}]
  /\ sent      = [e \in Endpoints |-> 0]
  /\ delivered = [e \in Endpoints |-> << >>]

Step(e) ==
  \/ Open(e)
  \/ Send(e)
  \/ SendWaits(e)
  \/ SendTimesOut(e)
  \/ Close(e)
  \/ Receive(e)
  \/ Duplicate(e)
  \/ Lose(e)
  \/ Fire(e)
  \/ Retransmit(e)
  \/ Expire(e)

Next == \E e \in Endpoints : Step(e)

Spec            == Init /\ [][Next]_vars
EstablishedSpec == EstablishedInit /\ [][Next]_vars

(***************************************************************************)
(* Fairness: the timer threads run every task they are due, and a segment  *)
(* that is transmitted again and again is delivered again and again.       *)
(* Nothing obliges a user to send or to close, or the wait of a sender to  *)
(* time out.                                                               *)
(***************************************************************************)
FireOne(e, n) == Fire(e) /\ \A m \in fired'[e] : m.data = n

ReceiveData(e, n) ==
  Lossy /\ \E m \in net[e] : m.data = n /\ Handle(e, m, FALSE)

ReceiveAck(e, a) ==
  Lossy /\ \E m \in net[e] : m.data = NoData /\ m.ack = a /\ Handle(e, m, FALSE)

Acks(e) == {UPlus(ISS[e], k) : k \in 1 .. MaxSend[e]}

Fairness == \A e \in Endpoints :
  /\ WF_vars(Retransmit(e))
  /\ WF_vars(Expire(e))
  /\ \A n \in 1 .. MaxSend[e] : SF_vars(FireOne(e, n))
  /\ \A n \in 1 .. MaxSend[Peer(e)] : SF_vars(ReceiveData(e, n))
  /\ \A a \in Acks(e) : SF_vars(ReceiveAck(e, a))

\* A retransmission task runs for microseconds, seconds apart: the same
\* acknowledgment does not arrive during one every time.
NoEndlessRace == \A e \in Endpoints : \A a \in Acks(e) :
  ([]<><<ReceiveAck(e, a)>>_vars) =>
    ([]<><<ReceiveAck(e, a) /\ fired[e] = {}>>_vars)

FairEstablishedSpec == EstablishedSpec /\ Fairness

\* Here the acknowledgment of nothing must be delivered as well.
QuietSpec ==
  /\ FairEstablishedSpec /\ NoEndlessRace
  /\ \A e \in Endpoints : SF_vars(ReceiveAck(e, ISS[e]))

----------------------------------------------------------------------------
(* Properties of the established connection *)

TypeOK ==
  /\ st  \in [Endpoints -> StateName]
  /\ rec \in [Endpoints -> Record]
  /\ retr  \in [Endpoints -> SUBSET Segment]
  /\ fired \in [Endpoints -> SUBSET Segment]
  /\ timer \in [Endpoints -> BOOLEAN]
  /\ waiting \in [Endpoints -> BOOLEAN]
  /\ net \in [Endpoints -> SUBSET Segment]
  /\ sent \in [Endpoints -> Nat]
  /\ delivered \in [Endpoints -> Seq(Payload)]

\* What one end's user is given is, in order and without repetition, what the
\* other end's user sent: the promise of OPEN's receive path (handleData,
\* queueBlocked) whatever the network does to the segments.
DeliveredIsPrefix ==
  \A e \in Endpoints :
    /\ Len(delivered[Peer(e)]) <= sent[e]
    /\ \A i \in 1 .. Len(delivered[Peer(e)]) : delivered[Peer(e)][i] = i

\* Endpoint e's peer counts one message more than its user was given: the one
\* that came with the acknowledgment of its SYN, which SYN-RCVD does not queue.
FirstDropped(e) ==
  rec[Peer(e)].last = ISS[e] + Len(delivered[Peer(e)]) + 1

\* While a connection is OPEN, a message accepted from its user is still tracked
\* for retransmission, queued for the other user or held back behind a gap: no
\* acknowledgment, cumulative or not, lets go of it before that.  The first one
\* is, when SYN-RCVD acknowledges it and drops it.
NothingLost ==
  \A e \in Endpoints :
    st[e] = "OPEN" =>
      \A n \in 1 .. sent[e] :
        \/ \E m \in retr[e] : m.data = n
        \/ \E i \in DOMAIN delivered[Peer(e)] : delivered[Peer(e)][i] = n
        \/ \E d \in rec[Peer(e)].ooo : d.data = n
        \/ n = 1 /\ FirstDropped(e)

\* The sender's window never outruns the receiver's: no data segment in the
\* network is so far ahead that isSeqNumOk would throw it away.
FitsReceiveWindow ==
  \A e \in Endpoints : \A m \in net[e] :
    HasData(m) => m.seq <= rec[e].last + 2 * MaxBuffered

\* Acknowledgments that overtake each other never move the send window past
\* what the other end has taken.
AckedWasTaken ==
  \A e \in Endpoints : rec[e].oldest <= rec[Peer(e)].last + 1

\* Acknowledgments that overtake each other (handleAck), data that repeats and
\* records that are copied never move a number of the record back.
NumbersGrow ==
  \A e \in Endpoints : /\ rec[e].last <= rec'[e].last
                       /\ rec[e].oldest <= rec'[e].oldest
                       /\ rec[e].next <= rec'[e].next

NeverBack == [][NumbersGrow]_vars

\* The whole of it: whatever the network, the timers and the closing do, an
\* established connection is a reliable, flow-controlled stream each way.
Stream == INSTANCE ReliableStream WITH
  Left <- Client, Right <- Server

ImplementsStream == Stream!Spec

BothOpen == \A e \in Endpoints : st[e] = "OPEN"

\* Every message accepted from a user reaches the other one, unless a
\* connection is closed or reset first.
AllDelivered ==
  \A e \in Endpoints : \A n \in 1 .. MaxSend[e] :
    sent[e] >= n ~> (Len(delivered[Peer(e)]) >= n \/ ~ BothOpen)

\* A sender that waits for room is woken by an acknowledgment and does not
\* depend on its timeout, although an EACK that makes room wakes nobody.
SenderWakes ==
  \A e \in Endpoints : waiting[e] ~> (~ waiting[e] \/ ~ BothOpen)

\* Retransmissions end, and the acknowledgments of acknowledgments and of
\* repeated segments die out.
GoesQuiet ==
  <>[](~ BothOpen \/ \A e \in Endpoints : net[e] = {} /\ retr[e] = {})

----------------------------------------------------------------------------
(* The invariant behind them, inductive when sequence numbers do not wrap *)

\* Endpoint e has taken the peer's segment n, as its record has it.
Taken(e, n) == n <= rec[e].last \/ n \in Seqs(rec[e].ooo)

\* The numbers that e's sending side and its peer's receiving side keep.
Numbers(e) ==
  LET p == Peer(e) IN
  /\ sent[e] <= MaxSend[e] /\ rec[e].next = ISS[e] + 1 + sent[e]
  /\ ISS[e] <= rec[p].last /\ rec[p].last <= ISS[e] + sent[e]
  /\ rec[e].oldest <= rec[p].last + 1
  /\ rec[e].maxOut = Window[e] /\ rec[e].next <= rec[e].oldest + rec[e].maxOut
  /\ \A d \in rec[p].ooo : /\ rec[p].last + 1 < d.seq /\ d.seq = ISS[e] + d.data
                          /\ d.data <= sent[e]

\* What the peer's user has been given.
Prefix(e) ==
  LET got == delivered[Peer(e)] IN
  /\ Len(got) = rec[Peer(e)].last - ISS[e]
  /\ \A i \in 1 .. Len(got) : got[i] = i

\* A segment of e's, on its way or kept for retransmission, acknowledges only
\* what e has taken, and carries what its number says.
Honest(e, m) ==
  /\ m.type \in {"ACK", "EACK"} => m.ack <= rec[e].last
  /\ m.type = "EACK" => \A n \in m.recvd : Taken(e, n)
  /\ HasData(m) => m.type = "ACK" /\ m.seq = ISS[e] + m.data /\ m.data <= sent[e]

\* What e has sent is tracked until its peer's record has it: by number, whatever
\* became of the message.
KeptUntilTaken ==
  \A e \in Endpoints :
    st[e] = "OPEN" =>
      \A n \in 1 .. sent[e] :
        (\E m \in retr[e] : m.data = n) \/ Taken(Peer(e), ISS[e] + n)

\* Numbers, streams, segments and states fit together at any moment: the
\* connection's whole safety argument in one invariant.
StreamInv ==
  /\ KeptUntilTaken
  /\ \A e \in Endpoints :
       /\ st[e] \in {"OPEN", "CLOSE_WAIT", "CLOSED"}
       /\ Numbers(e)
       /\ Prefix(e)
       /\ \A m \in net[Peer(e)] \cup retr[e] \cup fired[e] : Honest(e, m)
       /\ \A m \in retr[e] \cup fired[e] : HasData(m)

----------------------------------------------------------------------------
(* Properties of the connection from its handshake on *)

\* Only the very first message can be missing: SYN-RCVD acknowledges the data
\* of a segment that overtakes the last one of the handshake and does not queue
\* it.  Those delivered are consecutive, in order, and were sent.
InOrderAfterFirst ==
  \A e \in Endpoints :
    LET got == delivered[Peer(e)]
    IN got # << >> =>
         /\ got[1] \in {1, 2}
         /\ \A i \in DOMAIN got : got[i] = got[1] + i - 1
         /\ got[Len(got)] <= sent[e]

\* An accepting end is OPEN only if the opening end has taken its SYN/ACK,
\* and an end that is OPEN knows the other's number: whatever old or repeated
\* segments SYN-SENT and SYN-RCVD are shown.
ThreeWay ==
  \A e \in Endpoints :
    st[e] = "OPEN" =>
      /\ rec[e].initRecv = ISS[Peer(e)]
      /\ e \notin Active => rec[Peer(e)].initRecv = ISS[e]

\* The connection is reliable for every initial sequence number, as
\* Connection's comment says (see AllDelivered).
Reliable == AllDelivered

=============================================================================

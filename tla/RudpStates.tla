----------------------------- MODULE RudpStates -----------------------------
(***************************************************************************)
(* The states of a reliable UDP connection: what each of them does with a  *)
(* segment, a close, an open, a send.  A state of the code calls its       *)
(* StateOutput and returns the next state; here each operator returns an   *)
(* effect, the record of those calls and of the state returned:            *)
(*   st, rec   the next state and its connection record                    *)
(*   out       the segment transmitted, if any                             *)
(*   cum       {n}: acknowledge (n) was called, {} otherwise               *)
(*   one       the sequence numbers acknowledgeOne was called with         *)
(*   queue     the payloads queued for the client, in order                *)
(***************************************************************************)
EXTENDS RudpSegments, Sequences

StateName == {"CLOSED", "LISTEN", "SYN_SENT", "SYN_RCVD", "OPEN", "CLOSE_WAIT"}

Effect(st, rec, out) ==
  [st |-> st, rec |-> rec, out |-> out, cum |-> {}, one |-> {}, queue |-> << >>]

\* A bug the checks must see: acknowledging what is expected next.
AckExpected(rec) == AckSeg(rec.next, UPlus(rec.last, 1), NoData)

AckNow(rec)    == AckSeg(rec.next, rec.last, NoData)
ResetNow(rec)  == RstSeg(rec.next, rec.last)
ResetFor(m)    == RstSeg(UPlus(m.ack, 1), 0)

\* low < seq <= last + 2 * maxBuffered, the bound computed in UInt arithmetic
\* and both comparisons on plain longs.
SeqNumOk(low, rec, seq) ==
  /\ low < seq
  /\ seq <= UPlus(rec.last, 2 * MaxBuffered)

----------------------------------------------------------------------------
(* OPEN *)

\* A bug the checks must see: any acknowledgment moves the window.
HandleAnyAck(rec, n) == [rec EXCEPT !.oldest = UPlus(n, 1)]

HandleAck(rec, n) ==
  IF rec.oldest <= n /\ n < rec.next
  THEN [rec EXCEPT !.oldest = UPlus(n, 1)]
  ELSE rec

\* The distance from seq to the first sequence number that is not held back.
Gap(ooo, seq) ==
  CHOOSE k \in 1 .. Modulus :
    /\ UPlus(seq, k) \notin Seqs(ooo)
    /\ \A j \in 1 .. (k - 1) : UPlus(seq, j) \in Seqs(ooo)

HeldData(ooo, seq) == (CHOOSE d \in ooo : d.seq = seq).data

\* In-order data: queue it and everything it held back, acknowledge.
InOrder(rec, m) ==
  LET k     == Gap(rec.ooo, m.seq)
      freed == {UPlus(m.seq, j) : j \in 1 .. (k - 1)}
      new   == [rec EXCEPT !.last = UPlus(m.seq, k - 1),
                           !.ooo  = {d \in @ : d.seq \notin freed}]
  IN [Effect("OPEN", new, {AckNow(new)}) EXCEPT
        !.queue = [j \in 1 .. k |-> IF j = 1 THEN m.data
                                    ELSE HeldData(rec.ooo, UPlus(m.seq, j - 1))]]

\* A bug the checks must see: data beyond a gap is queued at once.
OutOfOrderQueued(rec, m) ==
  [Effect("OPEN", rec, {AckNow(rec)}) EXCEPT !.queue = <<m.data>>]

\* A bug the checks must see: the EACK lists the missing segment as well.
OutOfOrderClaims(rec, m) ==
  LET new == [rec EXCEPT !.ooo = @ \cup {[seq |-> m.seq, data |-> m.data]}]
  IN Effect("OPEN", new, {EackSeg(new.next, new.last,
                                  Seqs(new.ooo) \cup {UPlus(new.last, 1)})})

\* Data beyond a gap: hold it back, list all that is held in an EACK.
OutOfOrder(rec, m) ==
  LET new == [rec EXCEPT !.ooo = @ \cup {[seq |-> m.seq, data |-> m.data]}]
  IN Effect("OPEN", new, {EackSeg(new.next, new.last, Seqs(new.ooo))})

HandleData(rec, m) ==
  IF m.data = NoData THEN Effect("OPEN", rec, {})
  ELSE IF m.seq = UPlus(rec.last, 1) THEN InOrder(rec, m)
  ELSE OutOfOrder(rec, m)

\* A segment outside the receive window is answered with the current ACK.
OpenNext(rec, m) ==
  CASE m.type = "RST" -> Effect("CLOSE_WAIT", rec, {})
    [] m.type = "SYN" -> Effect("CLOSED", rec, {ResetFor(m)})
    [] m.type = "ACK" ->
         IF SeqNumOk(rec.last, rec, m.seq)
         THEN [HandleData(HandleAck(rec, m.ack), m) EXCEPT !.cum = {m.ack}]
         ELSE Effect("OPEN", rec, {AckNow(rec)})
    [] m.type = "EACK" ->
         IF SeqNumOk(rec.last, rec, m.seq)
         THEN [HandleData(HandleAck(rec, m.ack), m) EXCEPT !.one = m.recvd]
         ELSE Effect("OPEN", rec, {AckNow(rec)})

\* A bug the checks must see: the window takes one segment more, or any number.
WindowOneMore(rec) == rec.next <= rec.oldest + rec.maxOut
WindowIgnored(rec) == TRUE

\* send: is there room, and what does a send with room do?
WindowOpen(rec) == rec.next < rec.oldest + rec.maxOut

OpenSend(rec, data) ==
  Effect("OPEN", [rec EXCEPT !.next = UPlus(rec.next, 1)],
         {AckSeg(rec.next, rec.last, data)})

----------------------------------------------------------------------------
(* CLOSED, LISTEN *)

\* A bug the checks must see: the first number is added to as a plain number.
ClosedOpenPlain(rec, seq) ==
  Effect("SYN_SENT", [rec EXCEPT !.next = seq + 1, !.oldest = seq],
         {SynSeg(seq, 0, FALSE, rec.maxOut)})

\* open () of a closed connection; seq is the random initial sequence number,
\* which the record's initSeq does not get.
ClosedOpen(rec, seq) ==
  Effect("SYN_SENT", [rec EXCEPT !.next = UPlus(seq, 1), !.oldest = seq],
         {SynSeg(seq, 0, FALSE, rec.maxOut)})

ClosedNext(rec, m) ==
  Effect("CLOSED", rec,
         CASE m.type = "ACK" -> {ResetFor(m)}
           [] m.type \in {"EACK", "SYN"} -> {RstSeg(0, rec.last)}
           [] m.type = "RST" -> {})

\* A bug the checks must see: the peer's initial number is not recorded.
SynchronisedLater(rec, syn) == [rec EXCEPT !.last = syn.seq, !.maxOut = syn.maxOut]

\* The record of a connection that has seen the peer's SYN.
Synchronised(rec, syn) ==
  [rec EXCEPT !.initRecv = syn.seq, !.last = syn.seq, !.maxOut = syn.maxOut]

ListenNext(rec, m) ==
  CASE m.type = "ACK" -> Effect("LISTEN", rec, {ResetFor(m)})
    [] m.type = "SYN" /\ m.isAck ->
         Effect("OPEN", [Synchronised(rec, m) EXCEPT !.oldest = m.ack],
                {AckSeg(rec.next, m.seq, NoData)})
    [] m.type = "SYN" /\ ~ m.isAck ->
         Effect("SYN_RCVD", Synchronised(rec, m),
                {SynSeg(rec.initSeq, m.seq, TRUE, MaxBuffered)})
    [] m.type \in {"EACK", "RST"} -> Effect("LISTEN", rec, {})

----------------------------------------------------------------------------
(* SYN-SENT, SYN-RCVD *)

\* No sender sets the ACK flag of an RST, so an RST changes nothing.  The
\* acknowledgment number of a SYN/ACK is not compared with our SYN.
SynSentNext(rec, m) ==
  CASE m.type = "RST" -> Effect("SYN_SENT", rec, {})
    [] m.type \in {"ACK", "EACK"} ->
         IF m.ack = rec.initSeq
         THEN [Effect("SYN_SENT", rec, {}) EXCEPT !.cum = {m.ack}]
         ELSE Effect("SYN_SENT", rec, {ResetFor(m)})
    [] m.type = "SYN" /\ m.isAck ->
         LET new == [Synchronised(rec, m) EXCEPT !.oldest = UPlus(m.ack, 1)]
         IN [Effect("OPEN", new, {AckNow(new)}) EXCEPT !.cum = {m.ack}]
    [] m.type = "SYN" /\ ~ m.isAck ->
         Effect("SYN_SENT", rec, {SynSeg(rec.initSeq, m.seq, TRUE, 0)})

\* Data that arrives with the acknowledgment of our SYN advances last and is
\* acknowledged; it is not queued.
SynRcvdData(rec, m) ==
  IF m.seq = UPlus(rec.last, 1) /\ m.data # NoData
  THEN LET new == [rec EXCEPT !.last = m.seq]
       IN Effect("OPEN", new, {AckNow(new)})
  ELSE Effect("OPEN", rec, {})

SynRcvdNext(rec, m) ==
  IF ~ SeqNumOk(rec.initRecv, rec, m.seq)
  THEN Effect("SYN_RCVD", rec, {AckNow(rec)})
  ELSE CASE m.type = "ACK" ->
              IF m.ack = rec.initSeq
              THEN [SynRcvdData(rec, m) EXCEPT !.cum = {m.ack}]
              ELSE Effect("SYN_RCVD", rec, {ResetFor(m)})
         [] m.type = "EACK" -> Effect("SYN_RCVD", rec, {ResetFor(m)})
         [] m.type \in {"RST", "SYN"} -> Effect("CLOSED", rec, {ResetFor(m)})

----------------------------------------------------------------------------
(* CLOSE-WAIT, and the dispatch on the state *)

CloseWaitNext(rec, m) ==
  IF m.type = "RST" THEN Effect("CLOSED", rec, {})
                    ELSE Effect("CLOSE_WAIT", rec, {})

GetNext(st, rec, m) ==
  CASE st = "CLOSED"     -> ClosedNext(rec, m)
    [] st = "LISTEN"     -> ListenNext(rec, m)
    [] st = "SYN_SENT"   -> SynSentNext(rec, m)
    [] st = "SYN_RCVD"   -> SynRcvdNext(rec, m)
    [] st = "OPEN"       -> OpenNext(rec, m)
    [] st = "CLOSE_WAIT" -> CloseWaitNext(rec, m)

\* close () of every state from which it does not throw; a listening
\* connection closes without a word.
CloseNext(st, rec) ==
  CASE st = "OPEN" -> Effect("CLOSE_WAIT", rec, {ResetNow(rec)})
    [] st \in {"SYN_SENT", "SYN_RCVD"} -> Effect("CLOSED", rec, {ResetNow(rec)})
    [] st = "LISTEN" -> Effect("CLOSED", rec, {})
    [] st = "CLOSE_WAIT" -> Effect("CLOSE_WAIT", rec, {})

\* timerExpired: only the timer of CLOSE-WAIT changes the state.
TimerNext(st, rec) ==
  Effect(IF st = "CLOSE_WAIT" THEN "CLOSED" ELSE st, rec, {})
=============================================================================

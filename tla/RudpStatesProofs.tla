-------------------------- MODULE RudpStatesProofs --------------------------
(***************************************************************************)
(* Facts about the connection's states that hold whatever the network      *)
(* does: every effect of a well-typed call is well-typed.  The crux is     *)
(* InOrder, whose Gap exists because the segment just after the last one   *)
(* received in order is never held back.                                   *)
(***************************************************************************)
EXTENDS RudpStates, SequenceTheorems, WellFoundedInduction, TLAPS

\* A record as the states keep it: nothing is held back before OPEN, and
\* never the segment that OPEN is waiting for.
RecordOK(st, rec) ==
  /\ rec \in Record
  /\ UPlus(rec.last, 1) \notin Seqs(rec.ooo)
  /\ st \in {"LISTEN", "SYN_SENT", "SYN_RCVD"} => rec.ooo = {}

EffectOK(eff) ==
  /\ eff \in [st : StateName, rec : Record, out : SUBSET Segment,
              cum : SUBSET UInt, one : SUBSET UInt, queue : Seq(Payload)]
  /\ RecordOK(eff.st, eff.rec)

----------------------------------------------------------------------------
(* Sequence numbers and segments *)

\* Adding up to a whole turn to a sequence number gives a sequence number.
LEMMA UPlusType ==
  ASSUME NEW x \in UInt, NEW k \in 0 .. Modulus
  PROVE  UPlus(x, k) \in UInt
BY SegmentsAssumption DEF UInt, UPlus

LEMMA UPlusOne ==
  ASSUME NEW x \in UInt
  PROVE  UPlus(x, 1) \in UInt
BY SegmentsAssumption, UPlusType

\* A whole turn leads back.
LEMMA UPlusTurn ==
  ASSUME NEW x \in UInt
  PROVE  UPlus(x, Modulus) = x
BY SegmentsAssumption DEF UInt, UPlus

\* Adding in two steps is adding in one.
LEMMA UPlusUPlus ==
  ASSUME NEW x \in UInt, NEW k \in 1 .. Modulus
  PROVE  UPlus(UPlus(x, k - 1), 1) = UPlus(x, k)
BY SegmentsAssumption DEF UInt, UPlus

LEMMA SegmentTypes ==
  ASSUME NEW seq \in UInt, NEW ack \in UInt
  PROVE  /\ RstSeg(seq, ack) \in Segment
         /\ \A d \in Nat : AckSeg(seq, ack, d) \in Segment
         /\ \A s \in SUBSET UInt : EackSeg(seq, ack, s) \in Segment
         /\ \A b \in BOOLEAN, n \in Nat : SynSeg(seq, ack, b, n) \in Segment
BY DEF RstSeg, AckSeg, EackSeg, SynSeg, Segment, SegmentType, NoData

\* A segment's fields, for proofs that need no other part of its type.
LEMMA SegmentFields ==
  ASSUME NEW m \in Segment
  PROVE  /\ m.type \in SegmentType
         /\ m.seq \in UInt
         /\ m.ack \in UInt
         /\ m.isAck \in BOOLEAN
         /\ m.maxOut \in Nat
         /\ m.data \in Nat
         /\ m.recvd \in SUBSET UInt
BY DEF Segment

LEMMA RecordFields ==
  ASSUME NEW r \in Record
  PROVE  /\ r.initRecv \in UInt
         /\ r.initSeq \in UInt
         /\ r.last \in UInt
         /\ r.next \in UInt
         /\ r.oldest \in UInt
         /\ r.maxOut \in Nat
         /\ r.ooo \in SUBSET HeldBack
BY DEF Record

\* The segments every state answers with.
LEMMA AnswerTypes ==
  ASSUME NEW r \in Record, NEW m \in Segment
  PROVE  /\ AckNow(r) \in Segment
         /\ ResetNow(r) \in Segment
         /\ ResetFor(m) \in Segment
         /\ RstSeg(0, r.last) \in Segment
<1>1. 0 \in UInt
  BY SegmentsAssumption DEF UInt
<1>2. UPlus(m.ack, 1) \in UInt
  BY UPlusOne, SegmentFields
<1>3. NoData \in Nat
  BY DEF NoData
<1> QED
  BY <1>1, <1>2, <1>3, SegmentTypes, RecordFields DEF AckNow, ResetNow, ResetFor

\* An effect that queues and acknowledges nothing.
LEMMA PlainEffect ==
  ASSUME NEW s \in StateName, NEW r, RecordOK(s, r), NEW out \in SUBSET Segment
  PROVE  EffectOK(Effect(s, r, out))
<1>1. r \in Record
  BY DEF RecordOK
<1>2. << >> \in Seq(Payload)
  OBVIOUS
<1> QED
  BY <1>1, <1>2 DEF EffectOK, Effect

----------------------------------------------------------------------------
(* OPEN *)

\* When the segment after seq's run of held-back segments is looked for, it
\* is found, and the run before it is held back without a break.
LEMMA GapExists ==
  ASSUME NEW ooo \in SUBSET HeldBack, NEW seq \in UInt, seq \notin Seqs(ooo)
  PROVE  /\ Gap(ooo, seq) \in 1 .. Modulus
         /\ UPlus(seq, Gap(ooo, seq)) \notin Seqs(ooo)
         /\ \A j \in 1 .. Gap(ooo, seq) - 1 : UPlus(seq, j) \in Seqs(ooo)
<1> DEFINE Free == {k \in 1 .. Modulus : UPlus(seq, k) \notin Seqs(ooo)}
<1>1. Modulus \in Free
  BY UPlusTurn, SegmentsAssumption
<1>2. Free \subseteq Nat /\ Free # {}
  BY <1>1, SegmentsAssumption
<1>3. PICK k \in Free : \A j \in Free : ~ (<<j, k>> \in OpToRel(<, Nat))
  BY <1>2, NatLessThanWellFounded, WFMin, Zenon
<1>4. \A j \in Free : ~ (j < k)
  BY <1>2, <1>3 DEF OpToRel
<1>5. \A j \in 1 .. k - 1 : UPlus(seq, j) \in Seqs(ooo)
  BY <1>4, SegmentsAssumption
<1>6. /\ k \in 1 .. Modulus
      /\ UPlus(seq, k) \notin Seqs(ooo)
      /\ \A j \in 1 .. k - 1 : UPlus(seq, j) \in Seqs(ooo)
  BY <1>5
<1> HIDE DEF Free
<1> QED
  BY <1>6 DEF Gap

\* What is held back for a sequence number is a payload.
LEMMA HeldDataType ==
  ASSUME NEW ooo \in SUBSET HeldBack, NEW seq \in Seqs(ooo)
  PROVE  /\ HeldData(ooo, seq) \in Payload
         /\ \E d \in ooo : d.seq = seq /\ d.data = HeldData(ooo, seq)
BY DEF HeldData, Seqs, HeldBack

LEMMA HandleAckType ==
  ASSUME NEW r, RecordOK("OPEN", r), NEW n \in UInt
  PROVE  /\ RecordOK("OPEN", HandleAck(r, n))
         /\ HandleAck(r, n).last = r.last
         /\ HandleAck(r, n).ooo = r.ooo
<1>1. UPlus(n, 1) \in UInt
  BY UPlusOne
<1> QED
  BY <1>1 DEF HandleAck, RecordOK, Record

LEMMA InOrderType ==
  ASSUME NEW r, RecordOK("OPEN", r), NEW m \in Segment,
         m.seq = UPlus(r.last, 1), m.data # NoData
  PROVE  EffectOK(InOrder(r, m))
<1> DEFINE k     == Gap(r.ooo, m.seq)
           freed == {UPlus(m.seq, j) : j \in 1 .. (k - 1)}
           new   == [r EXCEPT !.last = UPlus(m.seq, k - 1),
                              !.ooo  = {d \in r.ooo : d.seq \notin freed}]
           queue == [j \in 1 .. k |-> IF j = 1 THEN m.data
                                      ELSE HeldData(r.ooo, UPlus(m.seq, j - 1))]
<1>1. r \in Record /\ m.seq \in UInt /\ r.ooo \in SUBSET HeldBack
  BY RecordFields, SegmentFields DEF RecordOK
<1>2. /\ k \in 1 .. Modulus
      /\ UPlus(m.seq, k) \notin Seqs(r.ooo)
      /\ \A j \in 1 .. k - 1 : UPlus(m.seq, j) \in Seqs(r.ooo)
  BY <1>1, GapExists DEF RecordOK
<1> HIDE DEF k
<1>3. UPlus(m.seq, k - 1) \in UInt
  BY <1>1, <1>2, UPlusType, SegmentsAssumption
<1>4. new \in Record
  BY <1>1, <1>3 DEF Record
<1>5. UPlus(new.last, 1) \notin Seqs(new.ooo)
  <2>1. UPlus(new.last, 1) = UPlus(m.seq, k)
    BY <1>1, <1>2, UPlusUPlus DEF Record
  <2> QED
    BY <1>1, <1>2, <2>1 DEF Seqs, Record
<1>6. queue \in Seq(Payload)
  <2>1. ASSUME NEW j \in 1 .. k PROVE queue[j] \in Payload
    <3>1. CASE j = 1
      BY <3>1, SegmentFields DEF Payload, NoData
    <3>2. CASE j # 1
      <4>1. UPlus(m.seq, j - 1) \in Seqs(r.ooo)
        BY <1>2, <3>2, SegmentsAssumption
      <4> QED
        BY <1>1, <3>2, <4>1, HeldDataType
    <3> QED
      BY <3>1, <3>2
  <2>2. k \in Nat
    BY <1>2
  <2> QED
    BY <2>1, <2>2, IsASeq
<1>7. AckNow(new) \in Segment
  BY <1>4, AnswerTypes
<1>8. InOrder(r, m) = [Effect("OPEN", new, {AckNow(new)}) EXCEPT !.queue = queue]
  BY DEF InOrder, k
<1> HIDE DEF new, queue
<1> QED
  BY <1>4, <1>5, <1>6, <1>7, <1>8 DEF EffectOK, Effect, RecordOK, StateName

LEMMA OutOfOrderType ==
  ASSUME NEW r, RecordOK("OPEN", r), NEW m \in Segment,
         m.seq # UPlus(r.last, 1), m.data # NoData
  PROVE  EffectOK(OutOfOrder(r, m))
<1> DEFINE new == [r EXCEPT !.ooo = r.ooo \cup {[seq |-> m.seq, data |-> m.data]}]
<1>1. r \in Record /\ m.seq \in UInt /\ m.data \in Payload
  BY SegmentFields DEF RecordOK, Payload, NoData
<1>2. new \in Record
  BY <1>1 DEF Record, HeldBack
<1>3. UPlus(new.last, 1) \notin Seqs(new.ooo)
  BY <1>1 DEF Seqs, Record, RecordOK
<1>4. EackSeg(new.next, new.last, Seqs(new.ooo)) \in Segment
  BY <1>2, SegmentTypes DEF Record, Seqs, HeldBack
<1>5. OutOfOrder(r, m) =
        Effect("OPEN", new, {EackSeg(new.next, new.last, Seqs(new.ooo))})
  BY DEF OutOfOrder
<1> HIDE DEF new
<1>6. RecordOK("OPEN", new)
  BY <1>2, <1>3 DEF RecordOK
<1> QED
  BY <1>4, <1>5, <1>6, PlainEffect DEF StateName

LEMMA HandleDataType ==
  ASSUME NEW r, RecordOK("OPEN", r), NEW m \in Segment
  PROVE  EffectOK(HandleData(r, m))
BY InOrderType, OutOfOrderType, PlainEffect DEF HandleData, StateName

\* Noting what a call acknowledges leaves an effect well-typed.
LEMMA WithAcks ==
  ASSUME NEW eff, EffectOK(eff)
  PROVE  /\ \A n \in UInt : EffectOK([eff EXCEPT !.cum = {n}])
         /\ \A s \in SUBSET UInt : EffectOK([eff EXCEPT !.one = s])
BY DEF EffectOK

LEMMA OpenNextType ==
  ASSUME NEW r, RecordOK("OPEN", r), NEW m \in Segment
  PROVE  EffectOK(OpenNext(r, m))
<1>1. /\ m.ack \in UInt /\ m.recvd \in SUBSET UInt
      /\ m.type \in {"SYN", "ACK", "EACK", "RST"}
  BY SegmentFields DEF SegmentType
<1>2. AckNow(r) \in Segment /\ ResetFor(m) \in Segment
  BY AnswerTypes DEF RecordOK
<1>3. EffectOK(HandleData(HandleAck(r, m.ack), m))
  BY <1>1, HandleAckType, HandleDataType
<1>4. RecordOK("CLOSE_WAIT", r) /\ RecordOK("CLOSED", r)
  BY DEF RecordOK
<1>5. /\ EffectOK(Effect("CLOSE_WAIT", r, {}))
      /\ EffectOK(Effect("CLOSED", r, {ResetFor(m)}))
      /\ EffectOK(Effect("OPEN", r, {AckNow(r)}))
  BY <1>2, <1>4, PlainEffect DEF StateName
<1> QED
  BY <1>1, <1>3, <1>5, WithAcks DEF OpenNext

LEMMA OpenSendType ==
  ASSUME NEW r, RecordOK("OPEN", r), NEW data \in Payload
  PROVE  EffectOK(OpenSend(r, data))
<1>1. r \in Record /\ UPlus(r.next, 1) \in UInt /\ data \in Nat
  BY RecordFields, UPlusOne DEF RecordOK, Payload
<1>2. RecordOK("OPEN", [r EXCEPT !.next = UPlus(r.next, 1)])
  BY <1>1 DEF RecordOK, Record
<1>3. AckSeg(r.next, r.last, data) \in Segment
  BY <1>1, RecordFields, SegmentTypes
<1> QED
  BY <1>2, <1>3, PlainEffect DEF OpenSend, StateName

----------------------------------------------------------------------------
(* Data of a stream whose numbers do not wrap: message i has number        *)
(* first + i, and n messages have been sent.                               *)

\* What a record has taken and holds back is of the stream.
OfStream(r, first, n) ==
  /\ first <= r.last /\ r.last <= first + n
  /\ \A d \in r.ooo : r.last + 1 < d.seq /\ d.seq = first + d.data /\ d.data <= n

\* A run of held-back data does not wrap, and ends before what has been sent.
LEMMA RunInStream ==
  ASSUME NEW ooo \in SUBSET HeldBack, NEW first \in Nat, NEW n \in Nat,
         first + n + 2 < Modulus, NEW seq \in Nat, seq <= first + n,
         \A d \in ooo : seq < d.seq /\ d.seq = first + d.data /\ d.data <= n,
         NEW k \in 1 .. Modulus, \A j \in 1 .. k - 1 : UPlus(seq, j) \in Seqs(ooo)
  PROVE  /\ \A j \in 1 .. k - 1 : UPlus(seq, j) = seq + j
         /\ seq + (k - 1) <= first + n
<1>1. \A x \in Seqs(ooo) : seq < x /\ x <= first + n /\ x \in Nat
  BY DEF Seqs, HeldBack, Payload
<1>2. Modulus \in Nat
  BY SegmentsAssumption
<1>3. ASSUME NEW j \in 1 .. k - 1
      PROVE  UPlus(seq, j) = seq + j /\ seq + j <= first + n
  <2>1. seq < UPlus(seq, j) /\ UPlus(seq, j) <= first + n
    BY <1>1
  <2>2. j \in Nat /\ j < Modulus
    BY <1>2
  <2> QED
    BY <1>2, <2>1, <2>2 DEF UPlus
<1>4. CASE k = 1
  BY <1>4
<1>5. CASE k # 1
  <2>1. k - 1 \in 1 .. k - 1
    BY <1>2, <1>5
  <2> QED
    BY <1>3, <2>1
<1> QED
  BY <1>3, <1>4, <1>5

\* What InOrder queues is the next messages of the stream; what it still holds
\* back, and what it takes, is of the stream.
LEMMA InOrderInStream ==
  ASSUME NEW r, RecordOK("OPEN", r), NEW m \in Segment,
         NEW first \in Nat, NEW n \in Nat, first + n + 2 < Modulus, OfStream(r, first, n),
         m.seq = r.last + 1, m.seq = first + m.data, m.data <= n,
         NEW eff, eff = InOrder(r, m)
  PROVE  /\ eff.st = "OPEN" /\ eff.out = {AckNow(eff.rec)} /\ eff.cum = {} /\ eff.one = {}
         /\ eff.rec.next = r.next /\ eff.rec.maxOut = r.maxOut /\ eff.rec.oldest = r.oldest
         /\ r.last <= eff.rec.last /\ eff.rec.last \in Nat
         /\ OfStream(eff.rec, first, n)
         /\ \A x \in UInt : x <= r.last \/ x \in Seqs(r.ooo)
                              => x <= eff.rec.last \/ x \in Seqs(eff.rec.ooo)
         /\ Len(eff.queue) = eff.rec.last - r.last
         /\ \A j \in 1 .. Len(eff.queue) : eff.queue[j] = (r.last - first) + j
<1> DEFINE k     == Gap(r.ooo, m.seq)
           freed == {UPlus(m.seq, j) : j \in 1 .. (k - 1)}
           new   == [r EXCEPT !.last = UPlus(m.seq, k - 1),
                              !.ooo  = {d \in r.ooo : d.seq \notin freed}]
           queue == [j \in 1 .. k |-> IF j = 1 THEN m.data
                                      ELSE HeldData(r.ooo, UPlus(m.seq, j - 1))]
<1>1. /\ r \in Record /\ r.ooo \in SUBSET HeldBack /\ UPlus(r.last, 1) \notin Seqs(r.ooo)
      /\ Modulus \in Nat /\ r.last \in Nat
      /\ m.seq \in UInt /\ m.seq \in Nat /\ m.data \in Nat
  BY RecordFields, SegmentFields, SegmentsAssumption DEF RecordOK, UInt
<1>2. \A d \in r.ooo : /\ m.seq < d.seq /\ d.seq = first + d.data /\ d.data <= n
                        /\ d.seq \in Nat /\ d.data \in Nat
  <2>1. \A d \in r.ooo : d.seq \in Nat /\ d.data \in Nat
    BY <1>1 DEF HeldBack, UInt, Payload
  <2> QED
    BY <2>1 DEF OfStream
<1>3. m.seq = UPlus(r.last, 1) /\ r.last <= first + n /\ m.seq <= first + n
  BY <1>1 DEF OfStream, UPlus
<1>4. /\ k \in 1 .. Modulus /\ UPlus(m.seq, k) \notin Seqs(r.ooo)
      /\ \A j \in 1 .. k - 1 : UPlus(m.seq, j) \in Seqs(r.ooo)
  BY <1>1, <1>3, GapExists
<1>5. eff = [Effect("OPEN", new, {AckNow(new)}) EXCEPT !.queue = queue]
  BY DEF InOrder
<1> HIDE DEF k
<1>6. /\ \A j \in 1 .. k - 1 : UPlus(m.seq, j) = m.seq + j
      /\ m.seq + (k - 1) <= first + n
  <2>1. /\ first \in Nat /\ n \in Nat /\ first + n + 2 < Modulus
        /\ r.ooo \in SUBSET HeldBack /\ m.seq \in Nat /\ m.seq <= first + n
    BY <1>1, <1>3
  <2>2. \A d \in r.ooo : m.seq < d.seq /\ d.seq = first + d.data /\ d.data <= n
    BY <1>2
  <2> QED
    BY ONLY <1>4, <2>1, <2>2, RunInStream
<1>7. /\ UPlus(m.seq, k - 1) = m.seq + (k - 1)
      /\ UPlus(m.seq, k) = m.seq + k /\ k \in Nat /\ 1 <= k
  <2>1. k \in Nat /\ 1 <= k /\ m.seq + k < Modulus
    BY <1>1, <1>4, <1>6
  <2> QED
    BY <1>1, <2>1 DEF UPlus
<1>8. /\ new.last = r.last + k /\ new.ooo = {d \in r.ooo : d.seq \notin freed}
      /\ new.next = r.next /\ new.maxOut = r.maxOut /\ new.oldest = r.oldest
  BY <1>1, <1>7 DEF Record
<1>9. /\ eff.st = "OPEN" /\ eff.rec = new /\ eff.queue = queue
      /\ eff.out = {AckNow(new)} /\ eff.cum = {} /\ eff.one = {}
  BY <1>5 DEF Effect
<1>10. \A d \in new.ooo : /\ new.last + 1 < d.seq /\ d.seq = first + d.data
                          /\ d.data <= n
  <2> SUFFICES ASSUME NEW d \in r.ooo, d.seq \notin freed
               PROVE  new.last + 1 < d.seq /\ d.seq = first + d.data /\ d.data <= n
    BY <1>8
  <2>1. d.seq # m.seq + k
    BY <1>4, <1>7 DEF Seqs
  <2>2. \A j \in 1 .. k - 1 : d.seq # m.seq + j
    BY <1>6
  <2>3. ~ d.seq <= m.seq + k
    <3>1. SUFFICES ASSUME d.seq <= m.seq + k PROVE FALSE
      OBVIOUS
    <3>2. d.seq - m.seq \in 1 .. k - 1
      <4>1. m.seq < d.seq /\ d.seq \in Nat /\ m.seq \in Nat /\ k \in Nat
        BY <1>1, <1>2, <1>7
      <4> QED
        BY ONLY <2>1, <3>1, <4>1
    <3>3. m.seq + (d.seq - m.seq) = d.seq
      BY <1>1, <1>2
    <3> QED
      BY <2>2, <3>2, <3>3
  <2> QED
    BY <1>1, <1>2, <1>7, <1>8, <2>3
<1>11. ASSUME NEW x \in UInt, x <= r.last \/ x \in Seqs(r.ooo)
       PROVE  x <= new.last \/ x \in Seqs(new.ooo)
  <2>1. CASE x <= r.last
    BY <1>1, <1>7, <1>8, <2>1 DEF UInt
  <2>2. CASE x \in Seqs(r.ooo)
    <3>1. PICK d \in r.ooo : d.seq = x
      BY <2>2 DEF Seqs
    <3>2. CASE d \in new.ooo
      BY <3>1, <3>2 DEF Seqs
    <3>3. CASE d \notin new.ooo
      <4>1. PICK j \in 1 .. k - 1 : x = m.seq + j
        BY <1>6, <1>8, <3>1, <3>3
      <4> QED
        BY <1>1, <1>7, <1>8, <4>1
    <3> QED
      BY <3>2, <3>3
  <2> QED
    BY <1>11, <2>1, <2>2
<1>12. /\ Len(queue) = k
       /\ \A j \in 1 .. k : queue[j] = (r.last - first) + j
  <2>1. ASSUME NEW j \in 1 .. k
        PROVE  queue[j] = (r.last - first) + j
    <3>1. CASE j = 1
      BY <1>1, <3>1
    <3>2. CASE j # 1
      <4>1. j - 1 \in 1 .. k - 1
        BY <1>7, <3>2
      <4>2. UPlus(m.seq, j - 1) \in Seqs(r.ooo) /\ UPlus(m.seq, j - 1) = m.seq + (j - 1)
        BY <1>4, <1>6, <4>1
      <4>3. PICK d \in r.ooo : /\ d.seq = m.seq + (j - 1)
                               /\ d.data = HeldData(r.ooo, UPlus(m.seq, j - 1))
        BY <1>1, <4>2, HeldDataType
      <4> QED
        BY <1>1, <1>2, <3>2, <4>3
    <3> QED
      BY <3>1, <3>2
  <2>2. Len(queue) = k
    BY <1>7
  <2> QED
    BY <2>1, <2>2
<1> HIDE DEF new, queue
<1>13. /\ new.last \in Nat /\ r.last <= new.last
       /\ first <= new.last /\ new.last <= first + n
  BY <1>1, <1>6, <1>7, <1>8 DEF OfStream
<1>14. /\ Len(eff.queue) = eff.rec.last - r.last
       /\ \A j \in 1 .. Len(eff.queue) : eff.queue[j] = (r.last - first) + j
  BY <1>1, <1>7, <1>8, <1>9, <1>12
<1> QED
  BY <1>8, <1>9, <1>10, <1>11, <1>13, <1>14 DEF OfStream

\* What OutOfOrder holds back is of the stream.
LEMMA OutOfOrderInStream ==
  ASSUME NEW r, RecordOK("OPEN", r), NEW m \in Segment,
         NEW first \in Nat, NEW n \in Nat, OfStream(r, first, n),
         r.last + 1 < m.seq, m.seq = first + m.data, m.data <= n,
         NEW eff, eff = OutOfOrder(r, m)
  PROVE  /\ eff.st = "OPEN" /\ eff.queue = << >> /\ eff.cum = {} /\ eff.one = {}
         /\ eff.out = {EackSeg(eff.rec.next, eff.rec.last, Seqs(eff.rec.ooo))}
         /\ eff.rec.next = r.next /\ eff.rec.maxOut = r.maxOut /\ eff.rec.oldest = r.oldest
         /\ eff.rec.last = r.last /\ Seqs(r.ooo) \subseteq Seqs(eff.rec.ooo)
         /\ OfStream(eff.rec, first, n)
<1> DEFINE new == [r EXCEPT !.ooo = r.ooo \cup {[seq |-> m.seq, data |-> m.data]}]
<1>1. /\ new.last = r.last /\ new.next = r.next /\ new.maxOut = r.maxOut
      /\ new.oldest = r.oldest /\ new.ooo = r.ooo \cup {[seq |-> m.seq, data |-> m.data]}
  BY DEF RecordOK, Record
<1>2. /\ eff.st = "OPEN" /\ eff.rec = new /\ eff.queue = << >>
      /\ eff.out = {EackSeg(new.next, new.last, Seqs(new.ooo))}
      /\ eff.cum = {} /\ eff.one = {}
  BY DEF OutOfOrder, Effect
<1>3. Seqs(r.ooo) \subseteq Seqs(new.ooo)
  BY <1>1 DEF Seqs
<1>4. \A d \in new.ooo : new.last + 1 < d.seq /\ d.seq = first + d.data /\ d.data <= n
  BY <1>1 DEF OfStream
<1>5. first <= new.last /\ new.last <= first + n
  BY <1>1 DEF OfStream
<1> HIDE DEF new
<1>6. OfStream(eff.rec, first, n)
  BY <1>2, <1>4, <1>5 DEF OfStream
<1> QED
  BY <1>1, <1>2, <1>3, <1>6

----------------------------------------------------------------------------
(* The other states *)

LEMMA ClosedOpenType ==
  ASSUME NEW seq \in UInt
  PROVE  EffectOK(ClosedOpen(ClosedRecord, seq))
<1> DEFINE new == [ClosedRecord EXCEPT !.next = UPlus(seq, 1), !.oldest = seq]
<1>1. UPlus(seq, 1) \in UInt /\ 0 \in UInt /\ MaxOutstanding \in Nat
  BY UPlusOne, SegmentsAssumption DEF UInt
<1>2. new \in Record /\ new.ooo = {} /\ new.maxOut \in Nat
  BY <1>1 DEF Record, ClosedRecord
<1>3. RecordOK("SYN_SENT", new)
  BY <1>2 DEF RecordOK, Seqs
<1>4. SynSeg(seq, 0, FALSE, new.maxOut) \in Segment
  BY <1>1, <1>2, SegmentTypes
<1>5. ClosedOpen(ClosedRecord, seq) =
        Effect("SYN_SENT", new, {SynSeg(seq, 0, FALSE, new.maxOut)})
  BY DEF ClosedOpen, ClosedRecord
<1> HIDE DEF new
<1> QED
  BY <1>3, <1>4, <1>5, PlainEffect DEF StateName

LEMMA ClosedNextType ==
  ASSUME NEW r, RecordOK("CLOSED", r), NEW m \in Segment
  PROVE  EffectOK(ClosedNext(r, m))
<1>1. m.type \in {"SYN", "ACK", "EACK", "RST"}
  BY SegmentFields DEF SegmentType
<1>2. ResetFor(m) \in Segment /\ RstSeg(0, r.last) \in Segment
  BY AnswerTypes DEF RecordOK
<1> QED
  BY <1>1, <1>2, PlainEffect DEF ClosedNext, StateName

LEMMA SynchronisedType ==
  ASSUME NEW r \in Record, r.ooo = {}, NEW m \in Segment, NEW s
  PROVE  /\ RecordOK(s, Synchronised(r, m))
         /\ Synchronised(r, m).ooo = {}
         /\ \A n \in UInt : RecordOK(s, [Synchronised(r, m) EXCEPT !.oldest = n])
BY SegmentFields DEF RecordOK, Synchronised, Record, Seqs

LEMMA ListenNextType ==
  ASSUME NEW r, RecordOK("LISTEN", r), NEW m \in Segment
  PROVE  EffectOK(ListenNext(r, m))
<1>1. /\ m.type \in {"SYN", "ACK", "EACK", "RST"}
      /\ m.seq \in UInt /\ m.ack \in UInt
  BY SegmentFields DEF SegmentType
<1>2. r \in Record /\ r.ooo = {}
  BY DEF RecordOK
<1>3. /\ ResetFor(m) \in Segment
      /\ AckSeg(r.next, m.seq, NoData) \in Segment
      /\ SynSeg(r.initSeq, m.seq, TRUE, MaxBuffered) \in Segment
  BY <1>1, <1>2, AnswerTypes, SegmentTypes, RecordFields, SegmentsAssumption
     DEF NoData
<1>4. /\ RecordOK("OPEN", [Synchronised(r, m) EXCEPT !.oldest = m.ack])
      /\ RecordOK("SYN_RCVD", Synchronised(r, m))
  BY <1>1, <1>2, SynchronisedType
<1> QED
  BY <1>1, <1>3, <1>4, PlainEffect DEF ListenNext, StateName

LEMMA SynSentNextType ==
  ASSUME NEW r, RecordOK("SYN_SENT", r), NEW m \in Segment
  PROVE  EffectOK(SynSentNext(r, m))
<1> DEFINE new == [Synchronised(r, m) EXCEPT !.oldest = UPlus(m.ack, 1)]
<1>1. /\ m.type \in {"SYN", "ACK", "EACK", "RST"}
      /\ m.seq \in UInt /\ m.ack \in UInt
  BY SegmentFields DEF SegmentType
<1>2. r \in Record /\ r.ooo = {}
  BY DEF RecordOK
<1>3. RecordOK("OPEN", new)
  BY <1>1, <1>2, UPlusOne, SynchronisedType
<1>4. /\ AckNow(new) \in Segment /\ ResetFor(m) \in Segment
      /\ SynSeg(r.initSeq, m.seq, TRUE, 0) \in Segment
  BY <1>1, <1>2, <1>3, AnswerTypes, SegmentTypes, RecordFields DEF RecordOK
<1> HIDE DEF new
<1>5. /\ EffectOK(Effect("SYN_SENT", r, {}))
      /\ EffectOK(Effect("SYN_SENT", r, {ResetFor(m)}))
      /\ EffectOK(Effect("OPEN", new, {AckNow(new)}))
      /\ EffectOK(Effect("SYN_SENT", r, {SynSeg(r.initSeq, m.seq, TRUE, 0)}))
  BY <1>3, <1>4, PlainEffect DEF StateName
<1>6. /\ EffectOK([Effect("SYN_SENT", r, {}) EXCEPT !.cum = {m.ack}])
      /\ EffectOK([Effect("OPEN", new, {AckNow(new)}) EXCEPT !.cum = {m.ack}])
  BY <1>1, <1>5, WithAcks
<1> QED
  BY <1>1, <1>5, <1>6 DEF SynSentNext, new

LEMMA SynRcvdNextType ==
  ASSUME NEW r, RecordOK("SYN_RCVD", r), NEW m \in Segment
  PROVE  EffectOK(SynRcvdNext(r, m))
<1> DEFINE new == [r EXCEPT !.last = m.seq]
<1>1. /\ m.type \in {"SYN", "ACK", "EACK", "RST"}
      /\ m.seq \in UInt /\ m.ack \in UInt
  BY SegmentFields DEF SegmentType
<1>2. r \in Record /\ r.ooo = {}
  BY DEF RecordOK
<1>3. /\ RecordOK("OPEN", new) /\ RecordOK("OPEN", r) /\ RecordOK("CLOSED", r)
  BY <1>1, <1>2 DEF RecordOK, Record, Seqs
<1>4. AckNow(new) \in Segment /\ AckNow(r) \in Segment /\ ResetFor(m) \in Segment
  BY <1>2, <1>3, AnswerTypes DEF RecordOK
<1> HIDE DEF new
<1>5. /\ EffectOK(Effect("OPEN", new, {AckNow(new)}))
      /\ EffectOK(Effect("OPEN", r, {}))
      /\ EffectOK(Effect("CLOSED", r, {ResetFor(m)}))
      /\ EffectOK(Effect("SYN_RCVD", r, {ResetFor(m)}))
      /\ EffectOK(Effect("SYN_RCVD", r, {AckNow(r)}))
  BY <1>3, <1>4, PlainEffect DEF StateName
<1>6. EffectOK(SynRcvdData(r, m))
  BY <1>5 DEF SynRcvdData, new
<1> QED
  BY <1>1, <1>5, <1>6, WithAcks DEF SynRcvdNext

LEMMA CloseWaitNextType ==
  ASSUME NEW r, RecordOK("CLOSE_WAIT", r), NEW m
  PROVE  EffectOK(CloseWaitNext(r, m))
BY PlainEffect DEF CloseWaitNext, StateName, RecordOK

\* What any state does with any segment is well-typed.
LEMMA GetNextType ==
  ASSUME NEW s \in StateName, NEW r, RecordOK(s, r), NEW m \in Segment
  PROVE  EffectOK(GetNext(s, r, m))
BY ClosedNextType, ListenNextType, SynSentNextType, SynRcvdNextType,
   OpenNextType, CloseWaitNextType DEF GetNext, StateName

\* And so is what any state but CLOSED does with a close, or with its timer.
LEMMA CloseNextType ==
  ASSUME NEW s \in StateName \ {"CLOSED"}, NEW r, RecordOK(s, r)
  PROVE  EffectOK(CloseNext(s, r))
<1>1. ResetNow(r) \in Segment
  <2>1. PICK m : m = RstSeg(0, 0)
    OBVIOUS
  <2>2. m \in Segment
    BY <2>1, SegmentTypes, SegmentsAssumption DEF UInt
  <2> QED
    BY <2>2, AnswerTypes DEF RecordOK
<1>2. RecordOK("CLOSE_WAIT", r) /\ RecordOK("CLOSED", r)
  BY DEF RecordOK
<1>3. /\ EffectOK(Effect("CLOSE_WAIT", r, {ResetNow(r)}))
      /\ EffectOK(Effect("CLOSED", r, {ResetNow(r)}))
      /\ EffectOK(Effect("CLOSED", r, {}))
      /\ EffectOK(Effect("CLOSE_WAIT", r, {}))
  BY <1>1, <1>2, PlainEffect DEF StateName
<1> QED
  BY <1>3 DEF CloseNext, StateName

LEMMA TimerNextType ==
  ASSUME NEW s \in StateName, NEW r, RecordOK(s, r)
  PROVE  EffectOK(TimerNext(s, r))
BY PlainEffect DEF TimerNext, StateName, RecordOK
=============================================================================

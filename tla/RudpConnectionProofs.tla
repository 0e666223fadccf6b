------------------------ MODULE RudpConnectionProofs ------------------------
(***************************************************************************)
(* Theorems of RudpConnection, for every value of its constants.           *)
(***************************************************************************)
EXTENDS RudpConnection, RudpStatesProofs

----------------------------------------------------------------------------
(* Type correctness *)

TypeInv ==
  /\ TypeOK
  /\ \A e \in Endpoints : RecordOK(st[e], rec[e])

LEMMA PeerType ==
  ASSUME NEW e \in Endpoints
  PROVE  Peer(e) \in Endpoints /\ Peer(e) # e /\ Peer(Peer(e)) = e
BY ConnectionAssumption DEF Endpoints, Peer

LEMMA ClosedRecordOK == RecordOK("CLOSED", ClosedRecord)
<1>1. 0 \in UInt /\ MaxOutstanding \in Nat
  BY SegmentsAssumption DEF UInt
<1> QED
  BY <1>1 DEF RecordOK, ClosedRecord, Record, Seqs

LEMMA InitType == Init => TypeInv
<1> SUFFICES ASSUME Init PROVE TypeInv
  OBVIOUS
<1>1. ASSUME NEW e \in Endpoints
      PROVE  RecordOK(st[e], rec[e]) /\ st[e] \in StateName
  <2>1. ISS[e] \in UInt /\ 0 \in UInt /\ UPlus(ISS[e], 1) \in UInt
    BY ConnectionAssumption, SegmentsAssumption, UPlusOne DEF UInt
  <2>2. RecordOK("LISTEN", ListenRecord(ISS[e]))
    BY <2>1, SegmentsAssumption DEF RecordOK, ListenRecord, Record, Seqs
  <2> QED
    BY <2>2, ClosedRecordOK DEF Init, StateName
<1>2. rec \in [Endpoints -> Record] /\ st \in [Endpoints -> StateName]
  BY <1>1 DEF Init, RecordOK
<1>3. delivered \in [Endpoints -> Seq(Payload)]
  BY DEF Init
<1> QED
  BY <1>1, <1>2, <1>3 DEF Init, TypeInv, TypeOK

LEMMA EstablishedInitType == EstablishedInit => TypeInv
<1> SUFFICES ASSUME EstablishedInit PROVE TypeInv
  OBVIOUS
<1>1. \A e \in Endpoints :
        ISS[e] \in UInt /\ ISS[Peer(e)] \in UInt /\ UPlus(ISS[e], 1) \in UInt
  BY ConnectionAssumption, PeerType, UPlusOne
<1>2. 0 \in UInt /\ NoData \in Nat /\ MaxOutstanding \in Nat /\ MaxBuffered \in Nat
  BY SegmentsAssumption DEF UInt, NoData
<1>3. \A e \in Endpoints : Window[e] \in Nat
  BY <1>2 DEF Window
<1>4. \A e \in Endpoints : RecordOK("OPEN", OpenRecord(e))
  BY <1>1, <1>2, <1>3 DEF RecordOK, OpenRecord, Record, Seqs
<1>5. \A e \in Endpoints : Handshake(e) \in SUBSET Segment
  <2>1. Client \in Endpoints /\ Server \in Endpoints
    BY DEF Endpoints
  <2>2. /\ SynSeg(ISS[Client], 0, FALSE, MaxOutstanding) \in Segment
        /\ SynSeg(ISS[Server], ISS[Client], TRUE, MaxBuffered) \in Segment
        /\ AckSeg(UPlus(ISS[Client], 1), ISS[Server], NoData) \in Segment
    BY <1>1, <1>2, <2>1, SegmentTypes
  <2> QED
    BY <2>2 DEF Handshake
<1>6. rec \in [Endpoints -> Record] /\ st \in [Endpoints -> StateName]
  BY <1>4 DEF EstablishedInit, RecordOK, StateName
<1>7. net \in [Endpoints -> SUBSET Segment]
  BY <1>5, PeerType DEF EstablishedInit
<1>8. delivered \in [Endpoints -> Seq(Payload)]
  BY DEF EstablishedInit
<1> QED
  BY <1>4, <1>6, <1>7, <1>8 DEF EstablishedInit, TypeInv, TypeOK

\* Whatever a call leaves tracked was tracked before or has just been sent.
LEMMA TrackedAfterSubset ==
  ASSUME NEW e, NEW eff
  PROVE  TrackedAfter(e, eff) \subseteq retr[e] \cup eff.out
BY DEF TrackedAfter, Track, Unacked

LEMMA ApplyType ==
  ASSUME TypeInv, NEW e \in Endpoints, NEW eff, EffectOK(eff), Apply(e, eff)
  PROVE  /\ st'  \in [Endpoints -> StateName]
         /\ rec' \in [Endpoints -> Record]
         /\ retr' \in [Endpoints -> SUBSET Segment]
         /\ timer' \in [Endpoints -> BOOLEAN]
         /\ delivered' \in [Endpoints -> Seq(Payload)]
         /\ \A f \in Endpoints : RecordOK(st'[f], rec'[f])
<1>1. /\ eff.st \in StateName /\ eff.rec \in Record /\ eff.out \in SUBSET Segment
      /\ eff.queue \in Seq(Payload) /\ RecordOK(eff.st, eff.rec)
  BY DEF EffectOK
<1>2. TrackedAfter(e, eff) \in SUBSET Segment
  BY <1>1, TrackedAfterSubset DEF TypeInv, TypeOK
<1>3. TimerAfter(e, eff) \in BOOLEAN
  BY DEF TimerAfter, TypeInv, TypeOK
<1>4. delivered[e] \o eff.queue \in Seq(Payload)
  BY <1>1, ConcatProperties DEF TypeInv, TypeOK
<1>5. /\ st' = [st EXCEPT ![e] = eff.st] /\ rec' = [rec EXCEPT ![e] = eff.rec]
      /\ retr' = [retr EXCEPT ![e] = TrackedAfter(e, eff)]
      /\ timer' = [timer EXCEPT ![e] = TimerAfter(e, eff)]
      /\ delivered' = [delivered EXCEPT ![e] = delivered[e] \o eff.queue]
  BY DEF Apply
<1>6. /\ st' \in [Endpoints -> StateName] /\ rec' \in [Endpoints -> Record]
      /\ \A f \in Endpoints : RecordOK(st'[f], rec'[f])
  BY <1>1, <1>5 DEF TypeInv, TypeOK
<1>7. retr' \in [Endpoints -> SUBSET Segment]
  BY <1>2, <1>5 DEF TypeInv, TypeOK
<1>8. timer' \in [Endpoints -> BOOLEAN]
  BY <1>3, <1>5 DEF TypeInv, TypeOK
<1>9. delivered' \in [Endpoints -> Seq(Payload)]
  BY <1>4, <1>5 DEF TypeInv, TypeOK
<1> QED
  BY <1>6, <1>7, <1>8, <1>9

LEMMA TransmitType ==
  ASSUME TypeInv, NEW e \in Endpoints, NEW out \in SUBSET Segment,
         Transmit(e, out)
  PROVE  net' \in [Endpoints -> SUBSET Segment]
<1>1. net' = [net EXCEPT ![Peer(e)] = net[Peer(e)] \cup out]
  BY DEF Transmit
<1>2. net \in [Endpoints -> SUBSET Segment] /\ Peer(e) \in Endpoints
  BY PeerType DEF TypeInv, TypeOK
<1> QED
  BY <1>1, <1>2

LEMMA HandleType ==
  ASSUME TypeInv, NEW e \in Endpoints, NEW m \in net[e],
         NEW duplicated \in BOOLEAN, Handle(e, m, duplicated)
  PROVE  TypeInv'
<1> DEFINE eff == GetNext(st[e], rec[e], m)
<1>1. m \in Segment
  BY DEF TypeInv, TypeOK
<1>2. EffectOK(eff)
  BY <1>1, GetNextType DEF TypeInv, TypeOK
<1>3. /\ Apply(e, eff)
      /\ net' = [net EXCEPT ![e] = IF duplicated THEN net[e] ELSE net[e] \ {m},
                            ![Peer(e)] = net[Peer(e)] \cup eff.out]
      /\ waiting' = [waiting EXCEPT ![e] = waiting[e] /\ ~ Wakes(eff)]
      /\ fired' = fired /\ sent' = sent
  BY PeerType DEF Handle
<1> HIDE DEF eff
<1>4. net' \in [Endpoints -> SUBSET Segment]
  <2>1. eff.out \in SUBSET Segment
    BY <1>2 DEF EffectOK
  <2> QED
    BY <1>3, <2>1, PeerType DEF TypeInv, TypeOK
<1>5. waiting' \in [Endpoints -> BOOLEAN]
  <2>1. (waiting[e] /\ ~ Wakes(eff)) \in BOOLEAN
    OBVIOUS
  <2> QED
    BY <1>3, <2>1 DEF TypeInv, TypeOK
<1>6. /\ st'  \in [Endpoints -> StateName]
      /\ rec' \in [Endpoints -> Record]
      /\ retr' \in [Endpoints -> SUBSET Segment]
      /\ timer' \in [Endpoints -> BOOLEAN]
      /\ delivered' \in [Endpoints -> Seq(Payload)]
      /\ \A f \in Endpoints : RecordOK(st'[f], rec'[f])
  BY <1>2, <1>3, ApplyType
<1> QED
  BY <1>3, <1>4, <1>5, <1>6 DEF TypeInv, TypeOK

LEMMA NextType == TypeInv /\ [Next]_vars => TypeInv'
<1> SUFFICES ASSUME TypeInv, [Next]_vars PROVE TypeInv'
  OBVIOUS
<1>1. CASE UNCHANGED vars
  BY <1>1 DEF vars, TypeInv, TypeOK
<1>2. ASSUME NEW e \in Endpoints, Step(e)
      PROVE  TypeInv'
  <2>1. CASE Open(e)
    <3>1. EffectOK(ClosedOpen(rec[e], ISS[e]))
      BY <2>1, ClosedOpenType, ConnectionAssumption DEF Open
    <3>2. ClosedOpen(rec[e], ISS[e]).out \in SUBSET Segment
      BY <3>1 DEF EffectOK
    <3> QED
      BY <2>1, <3>1, <3>2, ApplyType, TransmitType DEF Open, TypeInv, TypeOK
  <2>2. CASE Send(e)
    <3>1. sent[e] \in Nat /\ sent[e] + 1 \in Payload
      BY DEF TypeInv, TypeOK, Payload, NoData
    <3>2. EffectOK(OpenSend(rec[e], sent[e] + 1))
      BY <2>2, <3>1, OpenSendType DEF Send, TypeInv
    <3>3. OpenSend(rec[e], sent[e] + 1).out \in SUBSET Segment
      BY <3>2 DEF EffectOK
    <3>4. sent' \in [Endpoints -> Nat]
      BY <2>2, <3>1 DEF Send, TypeInv, TypeOK
    <3> QED
      BY <2>2, <3>2, <3>3, <3>4, ApplyType, TransmitType DEF Send, TypeInv, TypeOK
  <2>3. CASE SendWaits(e)
    BY <2>3 DEF SendWaits, TypeInv, TypeOK
  <2>4. CASE SendTimesOut(e)
    BY <2>4 DEF SendTimesOut, TypeInv, TypeOK
  <2>5. CASE Close(e)
    <3>1. EffectOK(CloseNext(st[e], rec[e]))
      BY <2>5, CloseNextType DEF Close, TypeInv, TypeOK
    <3>2. CloseNext(st[e], rec[e]).out \in SUBSET Segment
      BY <3>1 DEF EffectOK
    <3> QED
      BY <2>5, <3>1, <3>2, ApplyType, TransmitType DEF Close, TypeInv, TypeOK
  <2>6. CASE Receive(e)
    BY <2>6, HandleType DEF Receive
  <2>7. CASE Duplicate(e)
    BY <2>7, HandleType DEF Duplicate
  <2>8. CASE Lose(e)
    BY <2>8 DEF Lose, TypeInv, TypeOK
  <2>9. CASE Fire(e)
    <3>1. PICK m \in retr[e] : fired' = [fired EXCEPT ![e] = {m}]
      BY <2>9 DEF Fire
    <3>2. {m} \in SUBSET Segment
      BY DEF TypeInv, TypeOK
    <3> QED
      BY <2>9, <3>1, <3>2 DEF Fire, TypeInv, TypeOK
  <2>10. CASE Retransmit(e)
    <3>1. fired[e] \in SUBSET Segment
      BY DEF TypeInv, TypeOK
    <3>2. Track(retr[e], fired[e]) \in SUBSET Segment
      BY <3>1 DEF Track, TypeInv, TypeOK
    <3>3. net' \in [Endpoints -> SUBSET Segment]
      BY <2>10, <3>1, TransmitType DEF Retransmit
    <3> QED
      BY <2>10, <3>2, <3>3 DEF Retransmit, TypeInv, TypeOK
  <2>11. CASE Expire(e)
    <3> DEFINE eff == TimerNext(st[e], rec[e])
    <3>1. EffectOK(eff)
      BY TimerNextType DEF TypeInv, TypeOK
    <3>2. st' = [st EXCEPT ![e] = eff.st] /\ rec' = [rec EXCEPT ![e] = eff.rec]
      BY <2>11 DEF Expire
    <3> HIDE DEF eff
    <3>3. eff.st \in StateName /\ RecordOK(eff.st, eff.rec) /\ eff.rec \in Record
      BY <3>1 DEF EffectOK
    <3> QED
      BY <2>11, <3>2, <3>3 DEF Expire, TypeInv, TypeOK
  <2> QED
    BY <1>2, <2>1, <2>2, <2>3, <2>4, <2>5, <2>6, <2>7, <2>8, <2>9, <2>10, <2>11
       DEF Step
<1> QED
  BY <1>1, <1>2 DEF Next

\* Records, segments and streams stay within their types, from the handshake
\* on and once established: no sequence number leaves UInt, whatever wraps,
\* and queueBlocked always finds the end of the run it queues.
THEOREM TypeCorrect == Spec => []TypeOK
<1>1. TypeInv => TypeOK
  BY DEF TypeInv
<1> QED
  BY <1>1, InitType, NextType, PTL DEF Spec

THEOREM EstablishedTypeCorrect == EstablishedSpec => []TypeOK
<1>1. TypeInv => TypeOK
  BY DEF TypeInv
<1> QED
  BY <1>1, EstablishedInitType, NextType, PTL DEF EstablishedSpec

----------------------------------------------------------------------------
(***************************************************************************)
(* The handshake, when one end opens and the other accepts.  What keeps    *)
(* old and repeated segments out is that an end sends ACKs and EACKs only  *)
(* once it knows the other's number: any ACK that can take SYN-RCVD to     *)
(* OPEN proves that the SYN/ACK was taken.                                 *)
(***************************************************************************)

OneOpens == \A e \in Endpoints : e \in Active <=> Peer(e) \notin Active

\* Endpoint e has taken its peer's initial number.
Met(e) == rec[e].initRecv = ISS[Peer(e)]

\* Segments of e's as they are sent in a handshake and after it; knows: the
\* record e sends them with holds its peer's number.
Proper(e, m, knows) ==
  /\ m.type = "SYN" => m.seq = ISS[e] /\ (m.isAck <=> e \notin Active)
  /\ m.type \in {"ACK", "EACK"} /\ e \in Active => knows

Greeting ==
  \A e \in Endpoints :
    /\ e \in Active => st[e] \notin {"LISTEN", "SYN_RCVD"}
    /\ e \notin Active => st[e] # "SYN_SENT" /\ rec[e].initSeq = ISS[e]
    /\ st[e] \in {"SYN_RCVD", "OPEN"} => Met(e)
    /\ e \notin Active /\ st[e] = "OPEN" => Met(Peer(e))
    /\ \A m \in retr[e] \cup fired[e] : HasData(m) /\ Proper(e, m, Met(e))
    /\ \A m \in net[Peer(e)] : Proper(e, m, Met(e))

\* An effect of e's that keeps to the handshake.
Fits(e, eff) ==
  /\ e \in Active => eff.st \notin {"LISTEN", "SYN_RCVD"}
  /\ e \notin Active => eff.st # "SYN_SENT" /\ eff.rec.initSeq = ISS[e]
  /\ eff.st \in {"SYN_RCVD", "OPEN"} \/ Met(e) => eff.rec.initRecv = ISS[Peer(e)]
  /\ e \notin Active /\ eff.st = "OPEN" => Met(Peer(e))
  /\ \A m \in eff.out : Proper(e, m, eff.rec.initRecv = ISS[Peer(e)])

LEMMA FitsStep ==
  ASSUME TypeInv, Greeting, NEW e \in Endpoints, NEW eff, EffectOK(eff), Fits(e, eff),
         st' = [st EXCEPT ![e] = eff.st], rec' = [rec EXCEPT ![e] = eff.rec],
         retr' = [retr EXCEPT ![e] = TrackedAfter(e, eff)] \/ retr' = retr,
         \A f \in Endpoints : \A m \in net'[f] : m \in net[f] \/ (f = Peer(e) /\ m \in eff.out),
         fired' = fired
  PROVE  Greeting'
<1>1. /\ st'[e] = eff.st /\ rec'[e] = eff.rec /\ Peer(e) # e /\ Peer(e) \in Endpoints
      /\ Peer(Peer(e)) = e
      /\ st'[Peer(e)] = st[Peer(e)] /\ rec'[Peer(e)] = rec[Peer(e)]
      /\ \A f \in Endpoints : f = e \/ f = Peer(e)
  BY PeerType DEF TypeInv, TypeOK, Endpoints, Peer
<1>2. /\ \A f \in Endpoints : rec[f].initRecv = ISS[Peer(f)]
                                => rec'[f].initRecv = ISS[Peer(f)]
      /\ eff.st \in {"SYN_RCVD", "OPEN"} => rec'[e].initRecv = ISS[Peer(e)]
      /\ rec'[e].initSeq = eff.rec.initSeq
  BY <1>1 DEF Fits, Met
<1>3. ASSUME NEW f \in Endpoints
      PROVE  /\ f \in Active => st'[f] \notin {"LISTEN", "SYN_RCVD"}
             /\ f \notin Active => st'[f] # "SYN_SENT" /\ rec'[f].initSeq = ISS[f]
             /\ st'[f] \in {"SYN_RCVD", "OPEN"} => rec'[f].initRecv = ISS[Peer(f)]
             /\ f \notin Active /\ st'[f] = "OPEN"
                  => rec'[Peer(f)].initRecv = ISS[Peer(Peer(f))]
  <2>1. CASE f = e
    BY <1>1, <1>2, <2>1 DEF Fits, Met
  <2>2. CASE f = Peer(e)
    BY <1>1, <1>2, <2>2 DEF Greeting, Met
  <2> QED
    BY <1>1, <2>1, <2>2
<1>4. ASSUME NEW f \in Endpoints, NEW m, Proper(f, m, Met(f))
      PROVE  Proper(f, m, rec'[f].initRecv = ISS[Peer(f)])
  BY <1>2, <1>4 DEF Proper, Met
<1>5. ASSUME NEW m \in eff.out
      PROVE  Proper(e, m, rec'[e].initRecv = ISS[Peer(e)])
  BY <1>1, <1>5 DEF Fits
<1>6. ASSUME NEW f \in Endpoints, NEW m \in retr'[f] \cup fired'[f]
      PROVE  HasData(m) /\ Proper(f, m, rec'[f].initRecv = ISS[Peer(f)])
  <2>1. m \in retr[f] \cup fired[f] \/ (f = e /\ m \in eff.out /\ HasData(m))
    <3>1. \A x \in TrackedAfter(e, eff) : x \in retr[e] \/ (x \in eff.out /\ HasData(x))
      BY DEF TrackedAfter, Track, Unacked
    <3> QED
      BY <1>6, <3>1 DEF TypeInv, TypeOK
  <2>2. CASE m \in retr[f] \cup fired[f]
    BY <1>4, <2>2 DEF Greeting
  <2>3. CASE f = e /\ m \in eff.out /\ HasData(m)
    BY <1>5, <2>3
  <2> QED
    BY <2>1, <2>2, <2>3
<1>7. ASSUME NEW f \in Endpoints, NEW m \in net'[Peer(f)]
      PROVE  Proper(f, m, rec'[f].initRecv = ISS[Peer(f)])
  <2>1. Peer(f) \in Endpoints /\ Peer(Peer(f)) = f
    BY PeerType
  <2>2. m \in net[Peer(f)] \/ (f = e /\ m \in eff.out)
    BY <1>1, <1>7, <2>1
  <2>3. CASE m \in net[Peer(f)]
    BY <1>4, <2>3 DEF Greeting
  <2>4. CASE f = e /\ m \in eff.out
    BY <1>5, <2>4
  <2> QED
    BY <2>2, <2>3, <2>4
<1> QED
  BY <1>3, <1>6, <1>7 DEF Greeting, Met

\* OPEN's handlers touch neither initial number and send ACKs and EACKs only.
LEMMA DataKeepsNumbers ==
  ASSUME NEW r, RecordOK("OPEN", r), NEW m \in Segment, NEW n \in UInt,
         NEW eff, eff = HandleData(HandleAck(r, n), m)
  PROVE  /\ eff.st = "OPEN" /\ eff.rec.initRecv = r.initRecv /\ eff.rec.initSeq = r.initSeq
         /\ \A o \in eff.out : o.type \in {"ACK", "EACK"}
<1> DEFINE a == HandleAck(r, n)
<1>1. a \in Record /\ a.initRecv = r.initRecv /\ a.initSeq = r.initSeq
  BY HandleAckType DEF RecordOK, HandleAck, Record
<1> HIDE DEF a
<1>2. \A last, ooo : /\ [a EXCEPT !.last = last, !.ooo = ooo].initRecv = a.initRecv
                    /\ [a EXCEPT !.last = last, !.ooo = ooo].initSeq = a.initSeq
  BY <1>1 DEF Record
<1>3. CASE m.data = NoData
  BY <1>1, <1>3 DEF HandleData, Effect, a
<1>4. CASE m.data # NoData /\ m.seq = UPlus(a.last, 1)
  <2>1. eff = InOrder(a, m)
    BY <1>4 DEF HandleData, a
  <2>2. /\ eff.st = "OPEN" /\ eff.out = {AckNow(eff.rec)}
        /\ \E last, ooo : eff.rec = [a EXCEPT !.last = last, !.ooo = ooo]
    <3> DEFINE k   == Gap(a.ooo, m.seq)
               ooo == {d \in a.ooo : d.seq \notin {UPlus(m.seq, j) : j \in 1 .. (k - 1)}}
               new == [a EXCEPT !.last = UPlus(m.seq, k - 1), !.ooo = ooo]
    <3>1. eff.st = "OPEN" /\ eff.out = {AckNow(new)} /\ eff.rec = new
      BY <2>1 DEF InOrder, Effect
    <3> HIDE DEF ooo, k
    <3> QED
      BY <3>1
  <2>3. AckNow(eff.rec).type = "ACK"
    BY DEF AckNow, AckSeg
  <2> QED
    BY <1>1, <1>2, <2>2, <2>3
<1>5. CASE m.data # NoData /\ m.seq # UPlus(a.last, 1)
  <2>1. eff = OutOfOrder(a, m)
    BY <1>5 DEF HandleData, a
  <2>2. /\ eff.st = "OPEN" /\ eff.rec.initRecv = a.initRecv /\ eff.rec.initSeq = a.initSeq
        /\ \A o \in eff.out : o.type = "EACK"
    BY <1>1, <2>1 DEF OutOfOrder, Effect, Record, EackSeg
  <2> QED
    BY <1>1, <2>2
<1> QED
  BY <1>3, <1>4, <1>5

\* Records that differ in what the handshake does not look at.
LEMMA SynchronisedNumbers ==
  ASSUME NEW r \in Record, NEW m \in Segment
  PROVE  /\ Synchronised(r, m) \in Record
         /\ Synchronised(r, m).initRecv = m.seq /\ Synchronised(r, m).initSeq = r.initSeq
         /\ \A n \in UInt : [Synchronised(r, m) EXCEPT !.oldest = n].initRecv = m.seq
<1>1. /\ Synchronised(r, m) \in Record
      /\ Synchronised(r, m).initRecv = m.seq /\ Synchronised(r, m).initSeq = r.initSeq
  BY SegmentFields DEF Synchronised, Record
<1> HIDE DEF Synchronised
<1> QED
  BY <1>1 DEF Record

LEMMA HandleFits ==
  ASSUME OneOpens, TypeInv, Greeting, NEW e \in Endpoints, NEW m \in net[e], Handles(e, m)
  PROVE  Fits(e, GetNext(st[e], rec[e], m))
<1> DEFINE eff == GetNext(st[e], rec[e], m)
<1>1. /\ m \in Segment /\ m.type \in SegmentType /\ m.seq \in UInt /\ m.ack \in UInt
      /\ m.isAck \in BOOLEAN /\ rec[e] \in Record /\ RecordOK(st[e], rec[e])
      /\ Peer(e) \in Endpoints /\ Peer(Peer(e)) = e
      /\ st[e] \in StateName \ {"CLOSED"} /\ (e \in Active <=> Peer(e) \notin Active)
  BY PeerType, SegmentFields DEF TypeInv, TypeOK, OneOpens, Handles, Registered
<1>2. /\ m.type = "SYN" => m.seq = ISS[Peer(e)] /\ (m.isAck <=> e \in Active)
      /\ m.type \in {"ACK", "EACK"} /\ e \notin Active => Met(Peer(e))
  BY <1>1 DEF Greeting, Proper
<1>3. /\ e \in Active => st[e] \notin {"LISTEN", "SYN_RCVD"}
      /\ e \notin Active => st[e] # "SYN_SENT" /\ rec[e].initSeq = ISS[e]
      /\ st[e] \in {"SYN_RCVD", "OPEN"} => Met(e)
      /\ e \notin Active /\ st[e] = "OPEN" => Met(Peer(e))
  BY DEF Greeting
<1>4. CASE st[e] = "LISTEN"
  <2>1. e \notin Active /\ m.type = "SYN" /\ ~ m.isAck
    BY <1>2, <1>3, <1>4 DEF Handles
  <2>2. eff = Effect("SYN_RCVD", Synchronised(rec[e], m),
                     {SynSeg(rec[e].initSeq, m.seq, TRUE, MaxBuffered)})
    BY <1>4, <2>1 DEF GetNext, ListenNext
  <2>3. Synchronised(rec[e], m).initRecv = ISS[Peer(e)]
        /\ Synchronised(rec[e], m).initSeq = ISS[e]
    BY <1>1, <1>2, <1>3, <2>1, SynchronisedNumbers
  <2> QED
    BY <1>3, <2>1, <2>2, <2>3 DEF Fits, Effect, Proper, SynSeg
<1>5. CASE st[e] = "SYN_SENT"
  <2>1. e \in Active /\ (m.type = "SYN" => m.isAck)
    BY <1>2, <1>3, <1>5
  <2>2. eff = SynSentNext(rec[e], m)
    BY <1>5 DEF GetNext
  <2>3. CASE m.type = "SYN"
    <3> DEFINE new == [Synchronised(rec[e], m) EXCEPT !.oldest = UPlus(m.ack, 1)]
    <3>1. eff.st = "OPEN" /\ eff.rec = new /\ eff.out = {AckNow(new)}
      BY <2>1, <2>2, <2>3 DEF SynSentNext, Effect
    <3>2. new.initRecv = ISS[Peer(e)]
      BY <1>1, <1>2, <2>3, UPlusOne, SynchronisedNumbers
    <3> HIDE DEF new
    <3> QED
      BY <2>1, <3>1, <3>2 DEF Fits, Proper, AckNow, AckSeg
  <2>4. CASE m.type \in {"ACK", "EACK", "RST"}
    <3>1. eff.st = "SYN_SENT" /\ eff.rec = rec[e] /\ \A o \in eff.out : o.type = "RST"
      <4>1. \/ eff = Effect("SYN_SENT", rec[e], {})
            \/ eff = [Effect("SYN_SENT", rec[e], {}) EXCEPT !.cum = {m.ack}]
            \/ eff = Effect("SYN_SENT", rec[e], {ResetFor(m)})
        BY <2>2, <2>4 DEF SynSentNext
      <4> QED
        BY <4>1 DEF Effect, ResetFor, RstSeg
    <3> QED
      BY <2>1, <3>1 DEF Fits, Proper, Met
  <2> QED
    BY <1>1, <2>3, <2>4 DEF SegmentType
<1>6. CASE st[e] = "SYN_RCVD"
  <2>1. e \notin Active /\ Met(e) /\ rec[e].initSeq = ISS[e]
    BY <1>3, <1>6
  <2>2. eff = SynRcvdNext(rec[e], m)
    BY <1>6 DEF GetNext
  <2>3. CASE m.type = "ACK" /\ SeqNumOk(rec[e].initRecv, rec[e], m.seq) /\ m.ack = rec[e].initSeq
    <3>1. eff = [SynRcvdData(rec[e], m) EXCEPT !.cum = {m.ack}]
      BY <2>2, <2>3 DEF SynRcvdNext
    <3>2. /\ eff.st = "OPEN" /\ eff.rec.initRecv = rec[e].initRecv
          /\ eff.rec.initSeq = rec[e].initSeq
          /\ \A o \in eff.out : o.type = "ACK"
      BY <1>1, <3>1 DEF SynRcvdData, Effect, Record, AckNow, AckSeg
    <3> QED
      BY <1>2, <2>1, <2>3, <3>2 DEF Fits, Proper, Met
  <2>4. CASE ~ (m.type = "ACK" /\ SeqNumOk(rec[e].initRecv, rec[e], m.seq) /\ m.ack = rec[e].initSeq)
    <3>1. /\ eff.st \in {"SYN_RCVD", "CLOSED"} /\ eff.rec = rec[e]
          /\ \A o \in eff.out : o.type \in {"ACK", "RST"}
      BY <1>1, <2>2, <2>4
         DEF SynRcvdNext, Effect, AckNow, AckSeg, ResetFor, RstSeg, SegmentType
    <3> QED
      BY <2>1, <3>1 DEF Fits, Proper, Met
  <2> QED
    BY <2>3, <2>4
<1>7. CASE st[e] = "OPEN"
  <2>1. eff = OpenNext(rec[e], m)
    BY <1>7 DEF GetNext
  <2>2. CASE m.type \in {"RST", "SYN"}
    <3>1. /\ eff.st \in {"CLOSE_WAIT", "CLOSED"} /\ eff.rec = rec[e]
          /\ \A o \in eff.out : o.type = "RST"
      BY <2>1, <2>2 DEF OpenNext, Effect, ResetFor, RstSeg
    <3> QED
      BY <1>3, <3>1 DEF Fits, Proper, Met
  <2>3. CASE m.type \in {"ACK", "EACK"} /\ ~ SeqNumOk(rec[e].last, rec[e], m.seq)
    <3>1. eff.st = "OPEN" /\ eff.rec = rec[e] /\ \A o \in eff.out : o.type = "ACK"
      BY <2>1, <2>3 DEF OpenNext, Effect, AckNow, AckSeg
    <3> QED
      BY <1>3, <1>7, <3>1 DEF Fits, Proper, Met
  <2>4. CASE m.type \in {"ACK", "EACK"} /\ SeqNumOk(rec[e].last, rec[e], m.seq)
    <3> DEFINE data == HandleData(HandleAck(rec[e], m.ack), m)
    <3>1. /\ data.st = "OPEN" /\ data.rec.initRecv = rec[e].initRecv
          /\ data.rec.initSeq = rec[e].initSeq
          /\ \A o \in data.out : o.type \in {"ACK", "EACK"}
      BY <1>1, <1>7, DataKeepsNumbers
    <3>2. EffectOK(data)
      BY <1>1, <1>7, HandleAckType, HandleDataType
    <3>3. eff = [data EXCEPT !.cum = {m.ack}] \/ eff = [data EXCEPT !.one = m.recvd]
      BY <2>1, <2>4 DEF OpenNext
    <3> HIDE DEF data
    <3>4. eff.st = data.st /\ eff.rec = data.rec /\ eff.out = data.out
      BY <3>2, <3>3 DEF EffectOK
    <3> QED
      BY <1>3, <1>7, <3>1, <3>4 DEF Fits, Proper, Met
  <2> QED
    BY <1>1, <2>2, <2>3, <2>4 DEF SegmentType
<1>8. CASE st[e] = "CLOSE_WAIT"
  <2>1. eff.st \in {"CLOSED", "CLOSE_WAIT"} /\ eff.rec = rec[e] /\ eff.out = {}
    BY <1>8 DEF GetNext, CloseWaitNext, Effect
  <2> QED
    BY <1>3, <2>1 DEF Fits, Met
<1> QED
  BY <1>1, <1>4, <1>5, <1>6, <1>7, <1>8 DEF StateName

LEMMA GreetingInit == Init => Greeting
<1> SUFFICES ASSUME Init PROVE Greeting
  OBVIOUS
<1>1. ASSUME NEW e \in Endpoints
      PROVE  /\ st[e] = (IF e \in Active THEN "CLOSED" ELSE "LISTEN")
             /\ e \notin Active => rec[e].initSeq = ISS[e]
             /\ retr[e] = {} /\ fired[e] = {} /\ net[Peer(e)] = {}
  BY PeerType DEF Init, ListenRecord
<1> QED
  BY <1>1 DEF Greeting

LEMMA GreetingNext ==
  ASSUME OneOpens, TypeInv, Greeting, [Next]_vars
  PROVE  Greeting'
<1>1. CASE UNCHANGED vars
  BY <1>1 DEF vars, Greeting, Met, Proper
<1>2. ASSUME NEW e \in Endpoints, NEW eff, EffectOK(eff), Fits(e, eff),
             Apply(e, eff), Transmit(e, eff.out), fired' = fired
      PROVE  Greeting'
  <2>1. \A f \in Endpoints : \A m \in net'[f] :
          m \in net[f] \/ (f = Peer(e) /\ m \in eff.out)
    BY <1>2, PeerType DEF Transmit, TypeInv, TypeOK
  <2> QED
    BY <1>2, <2>1, FitsStep DEF Apply
<1>3. ASSUME NEW e \in Endpoints, NEW m \in net[e], NEW duplicated \in BOOLEAN,
             Handle(e, m, duplicated)
      PROVE  Greeting'
  <2> DEFINE eff == GetNext(st[e], rec[e], m)
  <2>1. EffectOK(eff) /\ Fits(e, eff)
    BY <1>3, HandleFits, GetNextType DEF Handle, TypeInv, TypeOK
  <2>2. /\ Apply(e, eff) /\ fired' = fired
        /\ net' = [net EXCEPT ![e] = IF duplicated THEN net[e] ELSE net[e] \ {m},
                              ![Peer(e)] = net[Peer(e)] \cup eff.out]
    BY <1>3, PeerType DEF Handle
  <2> HIDE DEF eff
  <2>3. \A f \in Endpoints : \A x \in net'[f] :
          x \in net[f] \/ (f = Peer(e) /\ x \in eff.out)
    BY <2>2, PeerType DEF TypeInv, TypeOK
  <2> QED
    BY <2>1, <2>2, <2>3, FitsStep DEF Apply
<1>4. ASSUME NEW e \in Endpoints, Step(e)
      PROVE  Greeting'
  <2>1. CASE Open(e)
    <3> DEFINE eff == ClosedOpen(ClosedRecord, ISS[e])
    <3>1. /\ e \in Active /\ rec[e] = ClosedRecord /\ fired' = fired
          /\ Apply(e, eff) /\ Transmit(e, eff.out)
      BY <2>1 DEF Open
    <3>2. EffectOK(eff)
      BY ClosedOpenType, ConnectionAssumption
    <3>3. /\ eff.st = "SYN_SENT" /\ eff.rec.initRecv = ClosedRecord.initRecv
          /\ eff.out = {SynSeg(ISS[e], 0, FALSE, ClosedRecord.maxOut)}
      BY DEF ClosedOpen, Effect, ClosedRecord
    <3> HIDE DEF eff
    <3>4. Fits(e, eff)
      BY <3>1, <3>3 DEF Fits, Met, Proper, SynSeg
    <3> QED
      BY <1>2, <3>1, <3>2, <3>4
  <2>2. CASE Send(e)
    <3> DEFINE eff == OpenSend(rec[e], sent[e] + 1)
    <3>1. sent[e] + 1 \in Payload /\ RecordOK("OPEN", rec[e]) /\ st[e] = "OPEN"
      BY <2>2 DEF Send, TypeInv, TypeOK, Payload, NoData
    <3>2. EffectOK(eff) /\ Apply(e, eff) /\ Transmit(e, eff.out) /\ fired' = fired
      BY <2>2, <3>1, OpenSendType DEF Send
    <3>3. /\ eff.st = "OPEN" /\ eff.rec.initRecv = rec[e].initRecv
          /\ eff.rec.initSeq = rec[e].initSeq /\ \A m \in eff.out : m.type = "ACK"
      BY <3>1 DEF OpenSend, Effect, AckSeg, RecordOK, Record
    <3> HIDE DEF eff
    <3>4. Fits(e, eff)
      BY <3>1, <3>3 DEF Fits, Met, Proper, Greeting
    <3> QED
      BY <1>2, <3>2, <3>4
  <2>3. CASE SendWaits(e) \/ SendTimesOut(e)
    BY <2>3 DEF SendWaits, SendTimesOut, Greeting, Met, Proper
  <2>4. CASE Close(e)
    <3> DEFINE eff == CloseNext(st[e], rec[e])
    <3>1. /\ st[e] \in StateName \ {"CLOSED", "LISTEN"} /\ fired' = fired
          /\ EffectOK(eff) /\ Apply(e, eff) /\ Transmit(e, eff.out)
      BY <2>4, CloseNextType DEF Close, TypeInv, TypeOK
    <3>2. /\ eff.st \in {"CLOSED", "CLOSE_WAIT"} /\ eff.rec = rec[e]
          /\ \A m \in eff.out : m.type = "RST"
      BY <3>1 DEF CloseNext, Effect, ResetNow, RstSeg, StateName
    <3> HIDE DEF eff
    <3>3. Fits(e, eff)
      BY <3>2 DEF Fits, Met, Proper, Greeting
    <3> QED
      BY <1>2, <3>1, <3>3
  <2>5. CASE Receive(e) \/ Duplicate(e)
    BY <1>3, <2>5 DEF Receive, Duplicate
  <2>6. CASE Lose(e)
    <3>1. \A f \in Endpoints : net'[f] \subseteq net[f]
      BY <2>6 DEF Lose, TypeInv, TypeOK
    <3>2. \A f \in Endpoints : Peer(f) \in Endpoints
      BY PeerType
    <3> QED
      BY <2>6, <3>1, <3>2 DEF Lose, Greeting, Met, Proper
  <2>7. CASE Fire(e)
    <3>1. /\ \A f \in Endpoints : fired'[f] \subseteq fired[f] \cup retr[f]
          /\ st' = st /\ rec' = rec /\ retr' = retr /\ net' = net
      BY <2>7 DEF Fire, TypeInv, TypeOK
    <3> QED
      BY <3>1 DEF Greeting, Met, Proper
  <2>8. CASE Retransmit(e)
    <3>1. /\ \A f \in Endpoints : /\ fired'[f] \subseteq fired[f]
                                  /\ retr'[f] \subseteq retr[f] \cup fired[f]
          /\ st' = st /\ rec' = rec
      BY <2>8 DEF Retransmit, Track, TypeInv, TypeOK
    <3>2. \A f \in Endpoints : \A m \in net'[Peer(f)] : m \in net[Peer(f)] \cup fired[f]
      BY <2>8, PeerType DEF Retransmit, Transmit, TypeInv, TypeOK
    <3> QED
      BY <3>1, <3>2 DEF Greeting, Met, Proper
  <2>9. CASE Expire(e)
    <3> DEFINE eff == TimerNext(st[e], rec[e])
    <3>1. /\ st' = [st EXCEPT ![e] = eff.st] /\ rec' = [rec EXCEPT ![e] = eff.rec]
          /\ retr' = retr /\ fired' = fired /\ net' = net /\ EffectOK(eff)
      BY <2>9, TimerNextType DEF Expire, TypeInv, TypeOK
    <3>2. eff.st \in {st[e], "CLOSED"} /\ eff.rec = rec[e] /\ eff.out = {}
      BY DEF TimerNext, Effect
    <3> HIDE DEF eff
    <3>3. Fits(e, eff)
      BY <3>2 DEF Fits, Met, Greeting
    <3> QED
      BY <3>1, <3>3, FitsStep
  <2> QED
    BY <1>4, <2>1, <2>2, <2>3, <2>4, <2>5, <2>6, <2>7, <2>8, <2>9 DEF Step
<1> QED
  BY <1>1, <1>4 DEF Next

\* When one end opens: an accepting end is OPEN only if the opening end has
\* taken its SYN/ACK, and an end that is OPEN knows the other's number,
\* whatever old or repeated segments SYN-SENT and SYN-RCVD are shown, for
\* every initial sequence number and although numbers may wrap.
THEOREM ThreeWayHolds == OneOpens => (Spec => []ThreeWay)
<1> SUFFICES ASSUME OneOpens PROVE Spec => []ThreeWay
  OBVIOUS
<1>1. TypeInv /\ Greeting /\ [Next]_vars => Greeting'
  BY GreetingNext
<1>2. TypeInv /\ Greeting => ThreeWay
  <2> SUFFICES ASSUME Greeting, NEW e \in Endpoints, st[e] = "OPEN"
               PROVE  /\ rec[e].initRecv = ISS[Peer(e)]
                      /\ e \notin Active => rec[Peer(e)].initRecv = ISS[e]
    BY DEF ThreeWay
  <2> QED
    BY PeerType DEF Greeting, Met
<1> QED
  BY <1>1, <1>2, InitType, NextType, GreetingInit, PTL DEF Spec

----------------------------------------------------------------------------
(* The stream: an established connection whose sequence numbers do not     *)
(* wrap is a reliable stream each way.  StreamInv is inductive, and with   *)
(* it every step is a step of ReliableStream or changes nothing there.     *)

\* What an effect of endpoint e must be for the invariant to survive it, when
\* it sends no data: everything it says is true, its numbers only grow, its
\* queue is the next piece of the peer's stream.
Sound(e, eff) ==
  LET p == Peer(e) IN
  /\ eff.st \in {"OPEN", "CLOSE_WAIT", "CLOSED"}
  /\ eff.st = "OPEN" => st[e] = "OPEN"
  /\ eff.rec.next = rec[e].next /\ eff.rec.maxOut = rec[e].maxOut
  /\ rec[e].oldest <= eff.rec.oldest /\ eff.rec.oldest <= rec[p].last + 1
  /\ rec[e].last <= eff.rec.last /\ eff.rec.last <= ISS[p] + sent[p]
  /\ \A d \in eff.rec.ooo : /\ eff.rec.last + 1 < d.seq /\ d.seq = ISS[p] + d.data
                            /\ d.data <= sent[p]
  /\ \A n \in UInt : Taken(e, n) => n <= eff.rec.last \/ n \in Seqs(eff.rec.ooo)
  /\ Len(eff.queue) = eff.rec.last - rec[e].last
  /\ \A j \in 1 .. Len(eff.queue) : eff.queue[j] = (rec[e].last - ISS[p]) + j
  /\ \A o \in eff.out :
       /\ ~ HasData(o)
       /\ o.type \in {"ACK", "EACK"} => o.ack <= eff.rec.last
       /\ o.type = "EACK" =>
            \A n \in o.recvd : n <= eff.rec.last \/ n \in Seqs(eff.rec.ooo)
  /\ \A n \in eff.cum : n <= rec[p].last
  /\ \A n \in eff.one : Taken(p, n)

----------------------------------------------------------------------------
(* What the assumptions and the type invariant give *)

LEMMA Numeric ==
  ASSUME NoWrap, NEW e \in Endpoints
  PROVE  /\ ISS[e] \in Nat /\ MaxSend[e] \in Nat
         /\ ISS[e] + MaxSend[e] + 2 < Modulus
         /\ Modulus \in Nat /\ MaxBuffered \in Nat /\ MaxOutstanding \in Nat
         /\ Window[e] \in Nat /\ 1 <= Window[e] /\ Window[e] <= 2 * MaxBuffered
<1>1. ISS[e] \in Nat /\ MaxSend[e] \in Nat
  BY ConnectionAssumption DEF UInt
<1>2. /\ Modulus \in Nat /\ MaxBuffered \in Nat /\ MaxOutstanding \in Nat
      /\ 1 <= MaxBuffered /\ 1 <= MaxOutstanding /\ MaxOutstanding <= 2 * MaxBuffered
  BY SegmentsAssumption
<1>3. Window[e] \in {MaxBuffered, MaxOutstanding}
  BY DEF Window
<1>4. ISS[e] + MaxSend[e] + MaxOutstanding + 2 * MaxBuffered + 2 < Modulus
  BY DEF NoWrap
<1> QED
  BY <1>1, <1>2, <1>3, <1>4

LEMMA Fields ==
  ASSUME TypeInv, NEW e \in Endpoints
  PROVE  /\ rec[e] \in Record /\ st[e] \in StateName
         /\ rec[e].last \in UInt /\ rec[e].last \in Nat
         /\ rec[e].next \in Nat /\ rec[e].oldest \in Nat /\ rec[e].maxOut \in Nat
         /\ rec[e].ooo \in SUBSET HeldBack
         /\ \A d \in rec[e].ooo : /\ d.seq \in UInt /\ d.seq \in Nat
                                  /\ d.data \in Nat /\ 1 <= d.data
         /\ sent[e] \in Nat
         /\ delivered[e] \in Seq(Payload)
         /\ Len(delivered[e]) \in Nat
         /\ net[e] \in SUBSET Segment /\ retr[e] \in SUBSET Segment
         /\ fired[e] \in SUBSET Segment
<1>1. rec[e] \in Record /\ st[e] \in StateName /\ sent[e] \in Nat
  BY DEF TypeInv, TypeOK
<1>2. /\ rec[e].last \in UInt /\ rec[e].next \in UInt /\ rec[e].oldest \in UInt
      /\ rec[e].maxOut \in Nat /\ rec[e].ooo \in SUBSET HeldBack
  BY <1>1, RecordFields
<1>3. UInt \in SUBSET Nat
  BY SegmentsAssumption DEF UInt
<1>4. \A d \in rec[e].ooo : d.seq \in UInt /\ d.data \in Nat /\ 1 <= d.data
  BY <1>2 DEF HeldBack, Payload, NoData
<1>5. delivered[e] \in Seq(Payload) /\ Len(delivered[e]) \in Nat
  BY LenProperties DEF TypeInv, TypeOK
<1>6. /\ net[e] \in SUBSET Segment /\ retr[e] \in SUBSET Segment
      /\ fired[e] \in SUBSET Segment
  BY DEF TypeInv, TypeOK
<1> QED
  BY <1>1, <1>2, <1>3, <1>4, <1>5, <1>6

\* The numbers of one direction, with what bounds them.
LEMMA Bounds ==
  ASSUME NoWrap, TypeInv, StreamInv, NEW e \in Endpoints
  PROVE  /\ sent[e] <= MaxSend[e] /\ rec[e].next = ISS[e] + 1 + sent[e]
         /\ ISS[e] <= rec[Peer(e)].last /\ rec[Peer(e)].last <= ISS[e] + sent[e]
         /\ rec[Peer(e)].last + 2 < Modulus
         /\ ISS[e] + sent[e] + 2 < Modulus
         /\ rec[e].oldest <= rec[Peer(e)].last + 1
         /\ rec[e].maxOut = Window[e] /\ rec[e].next <= rec[e].oldest + rec[e].maxOut
         /\ \A d \in rec[Peer(e)].ooo :
              /\ rec[Peer(e)].last + 1 < d.seq /\ d.seq = ISS[e] + d.data
              /\ d.data <= sent[e]
<1>1. Peer(e) \in Endpoints
  BY PeerType
<1>2. Numbers(e)
  BY DEF StreamInv
<1>3. /\ sent[e] <= MaxSend[e] /\ rec[e].next = ISS[e] + 1 + sent[e]
      /\ ISS[e] <= rec[Peer(e)].last /\ rec[Peer(e)].last <= ISS[e] + sent[e]
      /\ rec[e].oldest <= rec[Peer(e)].last + 1
      /\ rec[e].maxOut = Window[e] /\ rec[e].next <= rec[e].oldest + rec[e].maxOut
      /\ \A d \in rec[Peer(e)].ooo :
           /\ rec[Peer(e)].last + 1 < d.seq /\ d.seq = ISS[e] + d.data
           /\ d.data <= sent[e]
  BY <1>2, Zenon DEF Numbers
<1>4. /\ sent[e] \in Nat /\ rec[Peer(e)].last \in Nat /\ ISS[e] \in Nat
      /\ MaxSend[e] \in Nat /\ ISS[e] + MaxSend[e] + 2 < Modulus /\ Modulus \in Nat
  BY <1>1, Fields, Numeric
<1>5. rec[Peer(e)].last + 2 < Modulus /\ ISS[e] + sent[e] + 2 < Modulus
  BY <1>3, <1>4
<1> QED
  BY <1>3, <1>5

----------------------------------------------------------------------------
(* What OPEN does with a segment of an honest peer is sound *)

\* Effects that leave the record alone and send at most a reset or an
\* acknowledgment.
LEMMA IdleSound ==
  ASSUME NoWrap, TypeInv, StreamInv, NEW e \in Endpoints,
         NEW s \in {"OPEN", "CLOSE_WAIT", "CLOSED"}, s = "OPEN" => st[e] = "OPEN",
         NEW out \in SUBSET Segment,
         \A o \in out : o.type = "RST" \/ o = AckNow(rec[e])
  PROVE  Sound(e, Effect(s, rec[e], out))
<1> DEFINE p == Peer(e)
           eff == Effect(s, rec[e], out)
<1>1. p \in Endpoints /\ Peer(p) = e
  BY PeerType
<1>2. /\ eff.st = s /\ eff.rec = rec[e] /\ eff.out = out /\ eff.cum = {}
      /\ eff.one = {} /\ eff.queue = << >>
  BY DEF Effect
<1>4. \A o \in out : /\ ~ HasData(o)
                     /\ o.type \in {"ACK", "EACK"} => o.ack <= rec[e].last
                     /\ o.type # "EACK"
  BY Fields DEF HasData, AckNow, AckSeg, NoData
<1>5. /\ rec[e].oldest <= rec[p].last + 1
      /\ rec[e].last <= ISS[p] + sent[p]
      /\ \A d \in rec[e].ooo : /\ rec[e].last + 1 < d.seq /\ d.seq = ISS[p] + d.data
                               /\ d.data <= sent[p]
  BY <1>1, Bounds
<1>6. /\ rec[e].oldest <= rec[e].oldest /\ rec[e].last <= rec[e].last
      /\ rec[e].last - rec[e].last = 0
  BY Fields
<1>7. Len(<< >>) = 0 /\ 1 .. 0 = {}
  OBVIOUS
<1>8. /\ Len(eff.queue) = eff.rec.last - rec[e].last
      /\ 1 .. Len(eff.queue) = {}
  BY <1>2, <1>6, <1>7
<1>9. \A n \in UInt : Taken(e, n) => n <= eff.rec.last \/ n \in Seqs(eff.rec.ooo)
  BY <1>2 DEF Taken
<1>10. \A o \in eff.out :
         /\ ~ HasData(o)
         /\ o.type \in {"ACK", "EACK"} => o.ack <= eff.rec.last
         /\ o.type # "EACK"
  BY <1>2, <1>4
<1> HIDE DEF eff
<1>11. Sound(e, eff)
  BY <1>2, <1>5, <1>6, <1>8, <1>9, <1>10 DEF Sound
<1> QED
  BY <1>11 DEF eff

\* A segment e may be handed: sent by its peer.
LEMMA NetHonest ==
  ASSUME StreamInv, NEW e \in Endpoints, NEW m \in net[e]
  PROVE  Honest(Peer(e), m)
BY PeerType DEF StreamInv

\* r is e's record after HandleAck: only the window may have moved.
Moved(e, r) ==
  /\ RecordOK("OPEN", r)
  /\ r.next = rec[e].next /\ r.maxOut = rec[e].maxOut
  /\ rec[e].oldest <= r.oldest /\ r.oldest <= rec[Peer(e)].last + 1
  /\ r.last = rec[e].last /\ r.ooo = rec[e].ooo

LEMMA HandleAckSound ==
  ASSUME NoWrap, TypeInv, StreamInv, NEW e \in Endpoints, st[e] = "OPEN",
         NEW n \in UInt, n <= rec[Peer(e)].last
  PROVE  Moved(e, HandleAck(rec[e], n))
<1> SUFFICES
      LET r == HandleAck(rec[e], n) IN
      /\ r.next = rec[e].next /\ r.maxOut = rec[e].maxOut
      /\ rec[e].oldest <= r.oldest /\ r.oldest <= rec[Peer(e)].last + 1
      /\ r.last = rec[e].last /\ r.ooo = rec[e].ooo
  BY HandleAckType DEF Moved, TypeInv
<1> DEFINE p == Peer(e)
<1>1. p \in Endpoints
  BY PeerType
<1>2. rec[e].oldest <= rec[p].last + 1 /\ rec[p].last + 2 < Modulus
  BY Bounds
<1>3. UPlus(n, 1) = n + 1 /\ n \in Nat
  BY <1>1, <1>2, Fields, Numeric DEF UPlus, UInt
<1>4. rec[e] \in Record /\ rec[e].oldest \in Nat /\ rec[p].last \in Nat
  BY <1>1, Fields
<1>5. CASE rec[e].oldest <= n /\ n < rec[e].next
  <2>1. HandleAck(rec[e], n) = [rec[e] EXCEPT !.oldest = n + 1]
    BY <1>3, <1>5 DEF HandleAck
  <2> QED
    BY <1>3, <1>4, <1>5, <2>1 DEF Record
<1>6. CASE ~ (rec[e].oldest <= n /\ n < rec[e].next)
  <2>1. HandleAck(rec[e], n) = rec[e]
    BY <1>6 DEF HandleAck
  <2> QED
    BY <1>2, <1>4, <2>1
<1> QED
  BY <1>5, <1>6

\* A data segment e may be handed is the peer's message of that number.
LEMMA NetData ==
  ASSUME NoWrap, TypeInv, StreamInv, NEW e \in Endpoints, NEW m \in net[e],
         m.type \in {"ACK", "EACK"}, m.data # NoData
  PROVE  /\ m.seq = ISS[Peer(e)] + m.data /\ m.data <= sent[Peer(e)]
         /\ m.seq <= ISS[Peer(e)] + sent[Peer(e)]
         /\ m.seq \in UInt /\ m.seq \in Nat /\ m.data \in Nat
<1>1. m.seq = ISS[Peer(e)] + m.data /\ m.data <= sent[Peer(e)]
  BY NetHonest DEF Honest, HasData
<1>2. m \in Segment /\ ISS[Peer(e)] \in Nat /\ sent[Peer(e)] \in Nat
  BY PeerType, Fields, Numeric
<1>3. m.seq \in UInt /\ m.seq \in Nat /\ m.data \in Nat
  BY <1>2, SegmentFields DEF UInt
<1> QED
  BY <1>1, <1>2, <1>3

\* What an endpoint holds back is of its peer's stream.
LEMMA HoldsStream ==
  ASSUME NoWrap, TypeInv, StreamInv, NEW e \in Endpoints, NEW r, Moved(e, r)
  PROVE  /\ OfStream(r, ISS[Peer(e)], sent[Peer(e)])
         /\ ISS[Peer(e)] \in Nat /\ sent[Peer(e)] \in Nat
         /\ ISS[Peer(e)] + sent[Peer(e)] + 2 < Modulus
         /\ rec[e].last \in Nat /\ UPlus(rec[e].last, 1) = rec[e].last + 1
<1>1. Peer(e) \in Endpoints /\ Peer(Peer(e)) = e
  BY PeerType
<1>2. OfStream(r, ISS[Peer(e)], sent[Peer(e)])
  BY <1>1, Bounds DEF Moved, OfStream
<1>3. rec[e].last \in Nat /\ rec[e].last + 2 < Modulus
  BY <1>1, Bounds, Fields
<1>4. UPlus(rec[e].last, 1) = rec[e].last + 1
  BY <1>3, SegmentsAssumption DEF UPlus
<1> QED
  BY <1>1, <1>2, <1>3, <1>4, Bounds, Fields, Numeric

LEMMA InOrderSound ==
  ASSUME NoWrap, TypeInv, StreamInv, NEW e \in Endpoints, st[e] = "OPEN",
         NEW m \in net[e], m.type \in {"ACK", "EACK"}, m.data # NoData,
         m.seq = UPlus(rec[e].last, 1), NEW r, Moved(e, r)
  PROVE  Sound(e, InOrder(r, m))
<1> DEFINE p   == Peer(e)
           eff == InOrder(r, m)
<1>1. /\ RecordOK("OPEN", r) /\ m \in Segment /\ r.last = rec[e].last
      /\ r.ooo = rec[e].ooo
  BY Fields DEF Moved
<1>2. /\ m.seq = rec[e].last + 1 /\ m.seq = ISS[p] + m.data /\ m.data <= sent[p]
  BY HoldsStream, NetData
<1>3. /\ eff.st = "OPEN" /\ eff.out = {AckNow(eff.rec)} /\ eff.cum = {} /\ eff.one = {}
      /\ eff.rec.next = r.next /\ eff.rec.maxOut = r.maxOut /\ eff.rec.oldest = r.oldest
      /\ r.last <= eff.rec.last /\ eff.rec.last \in Nat
      /\ OfStream(eff.rec, ISS[p], sent[p])
      /\ \A x \in UInt : x <= r.last \/ x \in Seqs(r.ooo)
                           => x <= eff.rec.last \/ x \in Seqs(eff.rec.ooo)
      /\ Len(eff.queue) = eff.rec.last - r.last
      /\ \A j \in 1 .. Len(eff.queue) : eff.queue[j] = (r.last - ISS[p]) + j
  <2>1. /\ ISS[p] \in Nat /\ sent[p] \in Nat /\ ISS[p] + sent[p] + 2 < Modulus
        /\ OfStream(r, ISS[p], sent[p])
    BY HoldsStream
  <2>2. m.seq = r.last + 1
    BY <1>1, <1>2
  <2> HIDE DEF p
  <2> QED
    BY <1>1, <1>2, <2>1, <2>2, InOrderInStream
<1>4. /\ ~ HasData(AckNow(eff.rec)) /\ AckNow(eff.rec).type = "ACK"
      /\ AckNow(eff.rec).ack = eff.rec.last
  BY DEF AckNow, AckSeg, HasData, NoData
<1> HIDE DEF eff
<1>5. /\ rec[e].oldest <= eff.rec.oldest /\ eff.rec.oldest <= rec[p].last + 1
      /\ eff.rec.next = rec[e].next /\ eff.rec.maxOut = rec[e].maxOut
  BY <1>3 DEF Moved
<1>6. \A o \in eff.out : ~ HasData(o) /\ o.ack <= eff.rec.last /\ o.type = "ACK"
  BY <1>3, <1>4
<1>7. Sound(e, eff)
  BY <1>1, <1>3, <1>5, <1>6 DEF Sound, OfStream, Taken
<1> QED
  BY <1>7 DEF eff

LEMMA OutOfOrderSound ==
  ASSUME NoWrap, TypeInv, StreamInv, NEW e \in Endpoints, st[e] = "OPEN",
         NEW m \in net[e], m.type \in {"ACK", "EACK"}, m.data # NoData,
         rec[e].last < m.seq, m.seq # UPlus(rec[e].last, 1),
         NEW r, Moved(e, r)
  PROVE  Sound(e, OutOfOrder(r, m))
<1> DEFINE p   == Peer(e)
           eff == OutOfOrder(r, m)
           ack == EackSeg(eff.rec.next, eff.rec.last, Seqs(eff.rec.ooo))
<1>1. /\ RecordOK("OPEN", r) /\ m \in Segment /\ r.last = rec[e].last
      /\ r.ooo = rec[e].ooo /\ rec[e].last \in Nat
  BY Fields DEF Moved
<1>2. /\ rec[e].last + 1 < m.seq /\ m.seq = ISS[p] + m.data /\ m.data <= sent[p]
  <2>1. /\ m.seq \in Nat /\ m.seq # rec[e].last + 1
    BY HoldsStream, NetData
  <2> QED
    BY <1>1, <2>1, NetData
<1>3. /\ eff.st = "OPEN" /\ eff.queue = << >> /\ eff.cum = {} /\ eff.one = {}
      /\ eff.out = {ack}
      /\ eff.rec.next = r.next /\ eff.rec.maxOut = r.maxOut /\ eff.rec.oldest = r.oldest
      /\ eff.rec.last = r.last /\ Seqs(r.ooo) \subseteq Seqs(eff.rec.ooo)
      /\ OfStream(eff.rec, ISS[p], sent[p])
  <2>1. /\ ISS[p] \in Nat /\ sent[p] \in Nat /\ OfStream(r, ISS[p], sent[p])
    BY HoldsStream
  <2>2. r.last + 1 < m.seq
    BY <1>1, <1>2
  <2> HIDE DEF p
  <2> QED
    BY <1>1, <1>2, <2>1, <2>2, OutOfOrderInStream
<1>4. ~ HasData(ack) /\ ack.type = "EACK" /\ ack.ack = eff.rec.last
      /\ ack.recvd = Seqs(eff.rec.ooo)
  BY DEF EackSeg, HasData, NoData
<1>5. Len(<< >>) = 0 /\ 1 .. 0 = {}
  OBVIOUS
<1> HIDE DEF eff, ack
<1>6. /\ rec[e].oldest <= eff.rec.oldest /\ eff.rec.oldest <= rec[p].last + 1
      /\ eff.rec.next = rec[e].next /\ eff.rec.maxOut = rec[e].maxOut
  BY <1>3 DEF Moved
<1>7. rec[e].last <= eff.rec.last /\ eff.rec.last <= eff.rec.last
  BY <1>1, <1>3
<1>8. Len(eff.queue) = eff.rec.last - rec[e].last /\ 1 .. Len(eff.queue) = {}
  BY <1>1, <1>3, <1>5
<1>9. \A o \in eff.out : /\ ~ HasData(o) /\ o.ack <= eff.rec.last
                         /\ o.recvd \subseteq Seqs(eff.rec.ooo)
  BY <1>3, <1>4, <1>7
<1>10. \A n \in UInt : Taken(e, n) => n <= eff.rec.last \/ n \in Seqs(eff.rec.ooo)
  BY <1>1, <1>3 DEF Taken
<1>11. Sound(e, eff)
  BY <1>3, <1>6, <1>7, <1>8, <1>9, <1>10 DEF Sound, OfStream
<1> QED
  BY <1>11 DEF eff

\* r, moved by an acknowledgment, and nothing more to say.
LEMMA MovedSound ==
  ASSUME NoWrap, TypeInv, StreamInv, NEW e \in Endpoints, st[e] = "OPEN",
         NEW r, Moved(e, r)
  PROVE  Sound(e, Effect("OPEN", r, {}))
<1> DEFINE p   == Peer(e)
           eff == Effect("OPEN", r, {})
<1>1. /\ eff.st = "OPEN" /\ eff.rec = r /\ eff.queue = << >>
      /\ eff.out = {} /\ eff.cum = {} /\ eff.one = {}
  BY DEF Effect
<1>2. /\ r.last = rec[e].last /\ r.ooo = rec[e].ooo /\ rec[e].last \in Nat
      /\ r.next = rec[e].next /\ r.maxOut = rec[e].maxOut
      /\ rec[e].oldest <= r.oldest /\ r.oldest <= rec[p].last + 1
  BY Fields DEF Moved
<1>3. Len(<< >>) = 0 /\ 1 .. 0 = {}
  OBVIOUS
<1> HIDE DEF eff
<1>4. /\ rec[e].last <= eff.rec.last /\ eff.rec.last <= ISS[p] + sent[p]
      /\ \A d \in eff.rec.ooo : /\ eff.rec.last + 1 < d.seq
                                /\ d.seq = ISS[p] + d.data /\ d.data <= sent[p]
  <2>1. p \in Endpoints /\ Peer(p) = e
    BY PeerType
  <2> QED
    BY <1>1, <1>2, <2>1, Bounds
<1>5. Len(eff.queue) = eff.rec.last - rec[e].last /\ 1 .. Len(eff.queue) = {}
  BY <1>1, <1>2, <1>3
<1>6. \A n \in UInt : Taken(e, n) => n <= eff.rec.last \/ n \in Seqs(eff.rec.ooo)
  BY <1>1, <1>2 DEF Taken
<1>7. Sound(e, eff)
  BY <1>1, <1>2, <1>4, <1>5, <1>6 DEF Sound
<1> QED
  BY <1>7 DEF eff

LEMMA HandleDataSound ==
  ASSUME NoWrap, TypeInv, StreamInv, NEW e \in Endpoints, st[e] = "OPEN",
         NEW m \in net[e], m.type \in {"ACK", "EACK"}, rec[e].last < m.seq,
         NEW r, Moved(e, r)
  PROVE  Sound(e, HandleData(r, m))
<1>1. r.last = rec[e].last
  BY DEF Moved
<1>2. CASE m.data = NoData
  BY <1>2, MovedSound DEF HandleData
<1>3. CASE m.data # NoData /\ m.seq = UPlus(r.last, 1)
  BY <1>1, <1>3, InOrderSound DEF HandleData
<1>4. CASE m.data # NoData /\ m.seq # UPlus(r.last, 1)
  BY <1>1, <1>4, OutOfOrderSound DEF HandleData
<1> QED
  BY <1>2, <1>3, <1>4

\* Adding the calls of acknowledge and acknowledgeOne.
LEMMA SoundAcks ==
  ASSUME NEW e \in Endpoints, NEW r, NEW m, NEW n, NEW s, Sound(e, HandleData(r, m))
  PROVE  /\ n <= rec[Peer(e)].last => Sound(e, [HandleData(r, m) EXCEPT !.cum = {n}])
         /\ (\A x \in s : Taken(Peer(e), x)) =>
              Sound(e, [HandleData(r, m) EXCEPT !.one = s])
<1> DEFINE eff == HandleData(r, m)
           c == [eff EXCEPT !.cum = {n}]
           o == [eff EXCEPT !.one = s]
<1>1. eff = [st |-> eff.st, rec |-> eff.rec, out |-> eff.out, cum |-> eff.cum,
             one |-> eff.one, queue |-> eff.queue]
  BY DEF HandleData, InOrder, OutOfOrder, Effect
<1> HIDE DEF eff
<1>2. /\ c.st = eff.st /\ c.rec = eff.rec /\ c.out = eff.out /\ c.cum = {n}
      /\ c.one = eff.one /\ c.queue = eff.queue
  BY <1>1
<1>3. /\ o.st = eff.st /\ o.rec = eff.rec /\ o.out = eff.out /\ o.cum = eff.cum
      /\ o.one = s /\ o.queue = eff.queue
  BY <1>1
<1>4. Sound(e, eff)
  BY DEF eff
<1> HIDE DEF c, o
<1>5. n <= rec[Peer(e)].last => Sound(e, c)
  BY <1>2, <1>4 DEF Sound
<1>6. (\A x \in s : Taken(Peer(e), x)) => Sound(e, o)
  BY <1>3, <1>4 DEF Sound
<1> QED
  BY <1>5, <1>6 DEF c, o, eff

LEMMA OpenNextSound ==
  ASSUME NoWrap, TypeInv, StreamInv, NEW e \in Endpoints, st[e] = "OPEN",
         NEW m \in net[e]
  PROVE  Sound(e, OpenNext(rec[e], m))
<1> DEFINE p == Peer(e)
           r == HandleAck(rec[e], m.ack)
<1>1. /\ m \in Segment /\ m.type \in {"SYN", "ACK", "EACK", "RST"}
      /\ m.ack \in UInt /\ Peer(p) = e /\ p \in Endpoints
  BY Fields, SegmentFields, PeerType DEF SegmentType
<1>2. Honest(p, m)
  BY NetHonest
<1>3. AckNow(rec[e]) \in Segment /\ ResetFor(m) \in Segment
  BY <1>1, Fields, AnswerTypes
<1>4. CASE m.type = "RST"
  BY <1>4, IdleSound DEF OpenNext
<1>5. CASE m.type = "SYN"
  <2>1. ResetFor(m).type = "RST"
    BY DEF ResetFor, RstSeg
  <2>2. Sound(e, Effect("CLOSED", rec[e], {ResetFor(m)}))
    BY <1>3, <2>1, IdleSound
  <2> QED
    BY <1>5, <2>2 DEF OpenNext
<1>6. CASE m.type \in {"ACK", "EACK"} /\ ~ SeqNumOk(rec[e].last, rec[e], m.seq)
  <2>1. Sound(e, Effect("OPEN", rec[e], {AckNow(rec[e])}))
    BY <1>3, IdleSound
  <2> QED
    BY <1>6, <2>1 DEF OpenNext
<1>7. CASE m.type \in {"ACK", "EACK"} /\ SeqNumOk(rec[e].last, rec[e], m.seq)
  <2>1. m.ack <= rec[p].last
    BY <1>2, <1>7 DEF Honest
  <2>2. Sound(e, HandleData(r, m))
    <3>1. rec[e].last < m.seq
      BY <1>7 DEF SeqNumOk
    <3>2. Moved(e, r)
      BY <1>1, <2>1, HandleAckSound
    <3> QED
      BY <1>7, <3>1, <3>2, HandleDataSound
  <2>3. CASE m.type = "ACK"
    BY <1>7, <2>1, <2>2, <2>3, SoundAcks DEF OpenNext
  <2>4. CASE m.type = "EACK"
    <3>1. \A x \in m.recvd : Taken(p, x)
      BY <1>2, <2>4 DEF Honest
    <3> QED
      BY <1>7, <2>2, <2>4, <3>1, SoundAcks DEF OpenNext
  <2> QED
    BY <1>7, <2>3, <2>4
<1> QED
  BY <1>1, <1>4, <1>5, <1>6, <1>7

\* Whatever reaches an endpoint of an established connection.
LEMMA GetNextSound ==
  ASSUME NoWrap, TypeInv, StreamInv, NEW e \in Endpoints, Registered(e),
         NEW m \in net[e]
  PROVE  Sound(e, GetNext(st[e], rec[e], m))
<1>1. st[e] \in {"OPEN", "CLOSE_WAIT"}
  BY DEF StreamInv, Registered
<1>2. CASE st[e] = "OPEN"
  BY <1>2, OpenNextSound DEF GetNext
<1>3. CASE st[e] = "CLOSE_WAIT"
  <2>1. /\ Sound(e, Effect("CLOSED", rec[e], {}))
        /\ Sound(e, Effect("CLOSE_WAIT", rec[e], {}))
    BY IdleSound
  <2> QED
    BY <1>3, <2>1 DEF GetNext, CloseWaitNext
<1> QED
  BY <1>1, <1>2, <1>3

----------------------------------------------------------------------------
(* The inductive step *)

\* Messages that go on counting where a sequence of messages ends.
LEMMA CountingOn ==
  ASSUME NEW s \in Seq(Payload), NEW q \in Seq(Payload), NEW c \in Nat,
         \A i \in 1 .. Len(s) : s[i] = c + i,
         \A j \in 1 .. Len(q) : q[j] = (c + Len(s)) + j
  PROVE  /\ s \o q \in Seq(Payload) /\ Len(s \o q) = Len(s) + Len(q)
         /\ \A i \in 1 .. Len(s \o q) : (s \o q)[i] = c + i
<1>1. Len(s \o q) = Len(s) + Len(q)
  OBVIOUS
<1>2. ASSUME NEW i \in 1 .. Len(s \o q)
      PROVE  (s \o q)[i] = c + i
  <2>1. CASE i <= Len(s)
    <3>1. i \in 1 .. Len(s) /\ (s \o q)[i] = s[i]
      BY <2>1
    <3> QED
      BY <3>1
  <2>2. CASE ~ i <= Len(s)
    <3>1. i - Len(s) \in 1 .. Len(q) /\ (s \o q)[i] = q[i - Len(s)]
      BY <1>1, <2>2
    <3>2. q[i - Len(s)] = (c + Len(s)) + (i - Len(s))
      BY <3>1
    <3> QED
      BY <3>1, <3>2
  <2> QED
    BY <2>1, <2>2
<1> QED
  BY <1>1, <1>2

LEMMA Appended ==
  ASSUME NEW s \in Seq(Payload), NEW q \in Seq(Payload),
         \A i \in 1 .. Len(s) : s[i] = i,
         \A j \in 1 .. Len(q) : q[j] = Len(s) + j
  PROVE  /\ Len(s \o q) = Len(s) + Len(q)
         /\ \A i \in 1 .. Len(s \o q) : (s \o q)[i] = i
<1>1. Len(s) \in Nat /\ Len(s \o q) \in Nat
  OBVIOUS
<1>2. (\A i \in 1 .. Len(s) : s[i] = 0 + i) /\ (\A j \in 1 .. Len(q) : q[j] = (0 + Len(s)) + j)
  BY <1>1
<1>3. /\ Len(s \o q) = Len(s) + Len(q)
      /\ \A i \in 1 .. Len(s \o q) : (s \o q)[i] = 0 + i
  BY <1>2, CountingOn
<1> QED
  BY <1>1, <1>3

LEMMA TakenType ==
  ASSUME NoWrap, TypeInv, StreamInv, NEW e \in Endpoints, NEW n \in 1 .. sent[e]
  PROVE  ISS[e] + n \in UInt /\ ISS[e] + n \in Nat
<1>1. ISS[e] \in Nat /\ sent[e] \in Nat /\ ISS[e] + sent[e] + 2 < Modulus
      /\ Modulus \in Nat
  BY Numeric, Fields, Bounds
<1> QED
  BY <1>1 DEF UInt

\* What is true of a segment stays true.
LEMMA StaysHonest ==
  ASSUME TypeInv, TypeInv', NEW e \in Endpoints, NEW m \in Segment, Honest(e, m),
         rec[e].last <= rec'[e].last, sent[e] <= sent'[e],
         \A n \in UInt : Taken(e, n) => Taken(e, n)'
  PROVE  Honest(e, m)'
<1>1. /\ m.ack \in Nat /\ m.data \in Nat /\ m.recvd \subseteq UInt
  BY SegmentFields, SegmentsAssumption DEF UInt
<1>2. /\ rec[e].last \in Nat /\ sent[e] \in Nat
  BY Fields
<1>3. rec'[e].last \in Nat /\ sent'[e] \in Nat
  <2>1. rec'[e] \in Record /\ sent'[e] \in Nat
    BY DEF TypeInv, TypeOK
  <2> QED
    BY <2>1, RecordFields, SegmentsAssumption DEF UInt
<1>4. m.type \in {"ACK", "EACK"} => m.ack <= rec'[e].last
  BY <1>1, <1>2, <1>3 DEF Honest
<1>5. m.type = "EACK" => \A n \in m.recvd : Taken(e, n)'
  BY <1>1 DEF Honest
<1>6. HasData(m) => m.type = "ACK" /\ m.seq = ISS[e] + m.data /\ m.data <= sent'[e]
  BY <1>1, <1>2, <1>3 DEF Honest
<1> QED
  BY <1>4, <1>5, <1>6 DEF Honest

LEMMA SoundStep ==
  ASSUME NoWrap, TypeInv, TypeInv', StreamInv, NEW e \in Endpoints, NEW eff,
         EffectOK(eff), Sound(e, eff), Apply(e, eff), sent' = sent, fired' = fired,
         net'[e] \subseteq net[e], net'[Peer(e)] \subseteq net[Peer(e)] \cup eff.out
  PROVE  StreamInv'
<1> DEFINE p == Peer(e)
<1>1. /\ p \in Endpoints /\ Peer(p) = e /\ p # e /\ Endpoints = {e, p}
  BY PeerType DEF Endpoints, Peer
<1>2. /\ st'[e] = eff.st /\ rec'[e] = eff.rec
      /\ delivered'[e] = delivered[e] \o eff.queue
      /\ retr'[e] = TrackedAfter(e, eff)
      /\ st'[p] = st[p] /\ rec'[p] = rec[p] /\ delivered'[p] = delivered[p]
      /\ retr'[p] = retr[p]
  BY <1>1 DEF Apply, TypeInv, TypeOK
<1>3. /\ ISS[e] \in Nat /\ ISS[p] \in Nat /\ sent[e] \in Nat /\ sent[p] \in Nat
      /\ Modulus \in Nat
      /\ rec[e].last \in Nat /\ rec[p].last \in Nat /\ rec[e].next \in Nat
      /\ rec[e].oldest \in Nat /\ rec[p].oldest \in Nat /\ rec[e].maxOut \in Nat
  BY <1>1, Numeric, Fields
<1>4. /\ eff.rec \in Record /\ eff.rec.last \in Nat /\ eff.rec.oldest \in Nat
      /\ eff.out \in SUBSET Segment /\ eff.queue \in Seq(Payload)
      /\ eff.cum \in SUBSET UInt
  BY RecordFields, SegmentsAssumption DEF EffectOK, UInt
<1>5. \A f \in Endpoints : rec[f].last <= rec'[f].last
  <2>1. rec[e].last <= rec'[e].last /\ rec[p].last <= rec'[p].last
    BY <1>2, <1>3 DEF Sound
  <2> QED
    BY <1>1, <2>1
<1>6. \A f \in Endpoints : \A n \in UInt : Taken(f, n) => Taken(f, n)'
  <2>1. ASSUME NEW n \in UInt, Taken(e, n) PROVE Taken(e, n)'
    BY <1>2, <2>1 DEF Sound, Taken
  <2>2. ASSUME NEW n \in UInt, Taken(p, n) PROVE Taken(p, n)'
    BY <1>2, <2>2 DEF Taken
  <2> QED
    BY <1>1, <2>1, <2>2
<1>7. retr'[e] \subseteq retr[e]
  <2>1. \A m \in eff.out : ~ HasData(m)
    BY DEF Sound
  <2> QED
    BY <1>2, <2>1 DEF TrackedAfter, Track, Unacked
<1>8. Numbers(e)'
  <2>1. /\ sent[e] <= MaxSend[e] /\ rec[e].next = ISS[e] + 1 + sent[e]
        /\ ISS[e] <= rec[p].last /\ rec[p].last <= ISS[e] + sent[e]
        /\ rec[e].maxOut = Window[e] /\ rec[e].next <= rec[e].oldest + rec[e].maxOut
        /\ \A d \in rec[p].ooo : /\ rec[p].last + 1 < d.seq /\ d.seq = ISS[e] + d.data
                                 /\ d.data <= sent[e]
    BY Bounds
  <2>2. /\ eff.rec.next = rec[e].next /\ eff.rec.maxOut = rec[e].maxOut
        /\ rec[e].oldest <= eff.rec.oldest /\ eff.rec.oldest <= rec[p].last + 1
    BY DEF Sound
  <2>3. eff.rec.next <= eff.rec.oldest + eff.rec.maxOut
    <3>1. /\ rec[e].next <= rec[e].oldest + rec[e].maxOut
          /\ rec[e].oldest <= eff.rec.oldest
          /\ eff.rec.next = rec[e].next /\ eff.rec.maxOut = rec[e].maxOut
      BY <2>1, <2>2
    <3>2. /\ rec[e].next \in Nat /\ rec[e].oldest \in Nat
          /\ rec[e].maxOut \in Nat /\ eff.rec.oldest \in Nat
      BY <1>3, <1>4
    <3> HIDE DEF p
    <3> QED
      BY ONLY <3>1, <3>2
  <2> QED
    BY <1>2, <2>1, <2>2, <2>3 DEF Numbers
<1>9. Numbers(p)'
  <2>1. /\ sent[p] <= MaxSend[p] /\ rec[p].next = ISS[p] + 1 + sent[p]
        /\ ISS[p] <= rec[e].last /\ rec[p].oldest <= rec[e].last + 1
        /\ rec[p].maxOut = Window[p] /\ rec[p].next <= rec[p].oldest + rec[p].maxOut
    BY <1>1, Bounds
  <2>2. /\ rec[e].last <= eff.rec.last /\ eff.rec.last <= ISS[p] + sent[p]
        /\ \A d \in eff.rec.ooo : /\ eff.rec.last + 1 < d.seq
                                  /\ d.seq = ISS[p] + d.data /\ d.data <= sent[p]
    BY DEF Sound
  <2>3. ISS[p] <= eff.rec.last /\ rec[p].oldest <= eff.rec.last + 1
    <3>1. /\ ISS[p] <= rec[e].last /\ rec[p].oldest <= rec[e].last + 1
          /\ rec[e].last <= eff.rec.last
      BY <2>1, <2>2
    <3>2. /\ ISS[p] \in Nat /\ rec[p].oldest \in Nat /\ rec[e].last \in Nat
          /\ eff.rec.last \in Nat
      BY <1>3, <1>4
    <3> QED
      BY <3>1, <3>2
  <2> QED
    BY <1>1, <1>2, <2>1, <2>2, <2>3 DEF Numbers
<1>10. Prefix(e)'
  BY <1>2 DEF StreamInv, Prefix
<1>11. Prefix(p)'
  <2>1. /\ Len(delivered[e]) = rec[e].last - ISS[p]
        /\ \A i \in 1 .. Len(delivered[e]) : delivered[e][i] = i
    BY <1>1 DEF StreamInv, Prefix
  <2>2. /\ Len(eff.queue) = eff.rec.last - rec[e].last
        /\ \A j \in 1 .. Len(eff.queue) : eff.queue[j] = (rec[e].last - ISS[p]) + j
    BY DEF Sound
  <2>3. \A j \in 1 .. Len(eff.queue) : eff.queue[j] = Len(delivered[e]) + j
    BY <2>1, <2>2
  <2>4. /\ delivered[e] \in Seq(Payload) /\ eff.queue \in Seq(Payload)
    BY <1>4, Fields
  <2>5. /\ Len(delivered'[e]) = Len(delivered[e]) + Len(eff.queue)
        /\ \A i \in 1 .. Len(delivered'[e]) : delivered'[e][i] = i
    <3>1. \A i \in 1 .. Len(delivered[e]) : delivered[e][i] = i
      BY <2>1
    <3>2. /\ Len(delivered[e] \o eff.queue) = Len(delivered[e]) + Len(eff.queue)
          /\ \A i \in 1 .. Len(delivered[e] \o eff.queue) :
               (delivered[e] \o eff.queue)[i] = i
      BY ONLY <2>3, <2>4, <3>1, Appended
    <3>3. delivered'[e] = delivered[e] \o eff.queue
      BY <1>2
    <3> QED
      BY ONLY <3>2, <3>3
  <2>6. Len(delivered'[e]) = rec'[e].last - ISS[p]
    <3>1. /\ Len(delivered'[e]) = (rec[e].last - ISS[p]) + (eff.rec.last - rec[e].last)
          /\ rec'[e].last = eff.rec.last
      BY <1>2, <2>1, <2>2, <2>5
    <3>2. rec[e].last \in Nat /\ eff.rec.last \in Nat /\ ISS[p] \in Nat
      BY <1>3, <1>4
    <3> QED
      BY ONLY <3>1, <3>2
  <2> QED
    BY <1>1, <2>5, <2>6 DEF Prefix
<1>12. ASSUME NEW f \in Endpoints, NEW m \in (net[Peer(f)] \cup retr[f] \cup fired[f])
       PROVE  Honest(f, m)'
  <2>1. m \in Segment
    BY Fields, PeerType
  <2>2. Honest(f, m)
    BY DEF StreamInv
  <2>3. sent[f] <= sent'[f]
    BY Fields
  <2> QED
    BY <1>5, <1>6, <2>1, <2>2, <2>3, StaysHonest
<1>13. ASSUME NEW m \in eff.out
       PROVE  Honest(e, m)'
  BY <1>2 DEF Sound, Honest, Taken
<1>14. \A f \in Endpoints : \A m \in (net[Peer(f)] \cup retr[f] \cup fired[f])' :
         Honest(f, m)'
  <2>1. ASSUME NEW m \in (net'[p] \cup retr'[e] \cup fired'[e])
        PROVE  Honest(e, m)'
    BY <1>7, <1>12, <1>13
  <2>2. ASSUME NEW m \in (net'[e] \cup retr'[p] \cup fired'[p])
        PROVE  Honest(p, m)'
    BY <1>1, <1>2, <1>12
  <2> QED
    BY <1>1, <2>1, <2>2
<1>15. \A f \in Endpoints : \A m \in (retr[f] \cup fired[f])' : HasData(m)
  <2>1. \A f \in Endpoints : retr'[f] \subseteq retr[f]
    BY <1>1, <1>2, <1>7
  <2> QED
    BY <2>1 DEF StreamInv
<1>16. \A f \in Endpoints : st'[f] \in {"OPEN", "CLOSE_WAIT", "CLOSED"}
                            /\ (st'[f] = "OPEN" => st[f] = "OPEN")
  <2>1. /\ st'[e] \in {"OPEN", "CLOSE_WAIT", "CLOSED"}
        /\ st'[e] = "OPEN" => st[e] = "OPEN"
    BY <1>2 DEF Sound
  <2>2. st'[p] \in {"OPEN", "CLOSE_WAIT", "CLOSED"}
    BY <1>1, <1>2 DEF StreamInv
  <2> QED
    BY <1>1, <1>2, <2>1, <2>2
<1>17. KeptUntilTaken'
  <2> SUFFICES ASSUME NEW f \in Endpoints, st'[f] = "OPEN", NEW n \in 1 .. sent[f]
               PROVE  \/ \E m \in retr'[f] : m.data = n
                      \/ Taken(Peer(f), ISS[f] + n)'
    BY DEF KeptUntilTaken, Taken
  <2>1. ISS[f] + n \in UInt /\ ISS[f] + n \in Nat /\ n \in Nat
    BY TakenType
  <2>2. CASE Taken(Peer(f), ISS[f] + n)
    BY <1>6, <2>1, <2>2, PeerType
  <2>3. CASE ~ Taken(Peer(f), ISS[f] + n)
    <3>1. st[f] = "OPEN"
      BY <1>16
    <3>2. PICK m \in retr[f] : m.data = n
      BY <2>3, <3>1 DEF StreamInv, KeptUntilTaken, Taken
    <3>3. HasData(m) /\ m.seq = ISS[f] + n
      BY <3>2 DEF StreamInv, Honest
    <3>4. CASE f = p
      BY <1>2, <3>2, <3>4
    <3>5. CASE f = e
      <4>1. m.seq \notin eff.one
        BY <1>1, <2>3, <3>3, <3>5 DEF Sound
      <4>2. ASSUME NEW c \in eff.cum PROVE ~ (m.seq < UPlus(c, 1))
        <5>1. c <= rec[p].last /\ rec[p].last + 2 < Modulus
          BY <3>5, Bounds DEF Sound
        <5>2. UPlus(c, 1) = c + 1 /\ c \in Nat
          BY <1>3, <1>4, <5>1 DEF UPlus, UInt
        <5>3. ~ (ISS[f] + n <= rec[p].last)
          BY <2>3, <3>5 DEF Taken
        <5> QED
          BY <1>3, <2>1, <3>3, <5>1, <5>2, <5>3
      <4>3. m \in TrackedAfter(e, eff)
        <5>1. eff.st = "OPEN" /\ \A o \in eff.out : ~ HasData(o)
          BY <1>2, <3>5 DEF Sound
        <5>2. m \in Unacked(retr[e], eff.cum, eff.one)
          BY <3>2, <3>5, <4>1, <4>2 DEF Unacked
        <5>3. {o \in eff.out : HasData(o)} = {}
          BY <5>1
        <5> QED
          BY <5>1, <5>2, <5>3 DEF TrackedAfter, Track
      <4> QED
        BY <1>2, <3>2, <3>5, <4>3
    <3> QED
      BY <1>1, <3>4, <3>5
  <2> QED
    BY <2>2, <2>3
<1>18. \A f \in Endpoints : Numbers(f)' /\ Prefix(f)'
  BY <1>1, <1>8, <1>9, <1>10, <1>11
<1> QED
  BY <1>14, <1>15, <1>16, <1>17, <1>18 DEF StreamInv

\* Steps in which no user is given anything and no record changes: segments
\* are lost, tasks begin or transmit again, states time out, senders wait.
LEMMA QuietStep ==
  ASSUME NoWrap, TypeInv, TypeInv', StreamInv,
         rec' = rec, sent' = sent, delivered' = delivered,
         \A f \in Endpoints :
           /\ st'[f] \in {"OPEN", "CLOSE_WAIT", "CLOSED"}
           /\ st'[f] = "OPEN" => st[f] = "OPEN"
           /\ net'[Peer(f)] \cup retr'[f] \cup fired'[f]
                \subseteq net[Peer(f)] \cup retr[f] \cup fired[f]
           /\ retr'[f] \cup fired'[f] \subseteq retr[f] \cup fired[f]
           /\ \A m \in retr[f] : \E t \in retr'[f] : t.data = m.data
  PROVE  StreamInv'
<1>1. ASSUME NEW f \in Endpoints
      PROVE  Numbers(f)' /\ Prefix(f)'
  <2>1. Numbers(f) /\ Prefix(f)
    BY DEF StreamInv
  <2> QED
    BY <2>1 DEF Numbers, Prefix
<1>2. KeptUntilTaken'
  <2> SUFFICES ASSUME NEW f \in Endpoints, st'[f] = "OPEN", NEW n \in 1 .. sent[f]
               PROVE  \/ \E m \in retr'[f] : m.data = n
                      \/ ISS[f] + n <= rec[Peer(f)].last
                      \/ ISS[f] + n \in Seqs(rec[Peer(f)].ooo)
    BY DEF KeptUntilTaken, Taken
  <2>1. st[f] = "OPEN"
    OBVIOUS
  <2>2. CASE \E m \in retr[f] : m.data = n
    BY <2>2
  <2>3. CASE ~ \E m \in retr[f] : m.data = n
    BY <2>1, <2>3 DEF StreamInv, KeptUntilTaken, Taken
  <2> QED
    BY <2>2, <2>3
<1>3. ASSUME NEW f \in Endpoints, NEW m \in (net[Peer(f)] \cup retr[f] \cup fired[f])'
      PROVE  Honest(f, m)'
  <2>1. Honest(f, m)
    BY DEF StreamInv
  <2> QED
    BY <2>1 DEF Honest, Taken
<1>4. \A f \in Endpoints : \A m \in (retr[f] \cup fired[f])' : HasData(m)
  BY DEF StreamInv
<1> QED
  BY <1>1, <1>2, <1>3, <1>4 DEF StreamInv

LEMMA SendSound ==
  ASSUME NoWrap, TypeInv, TypeInv', StreamInv, NEW e \in Endpoints, Send(e)
  PROVE  /\ StreamInv'
         /\ delivered' = delivered
         /\ sent' = [sent EXCEPT ![e] = sent[e] + 1]
         /\ sent[e] - Len(delivered[Peer(e)]) < Window[e]
<1> DEFINE p   == Peer(e)
           n   == sent[e] + 1
           seg == AckSeg(rec[e].next, rec[e].last, n)
           new == [rec[e] EXCEPT !.next = UPlus(rec[e].next, 1)]
           eff == OpenSend(rec[e], n)
<1>1. /\ p \in Endpoints /\ Peer(p) = e /\ p # e /\ Endpoints = {e, p}
  BY PeerType DEF Endpoints, Peer
<1>2. /\ eff.st = "OPEN" /\ eff.rec = new /\ eff.out = {seg} /\ eff.cum = {}
      /\ eff.one = {} /\ eff.queue = << >>
  BY DEF OpenSend, Effect
<1>3. /\ ISS[e] \in Nat /\ sent[e] \in Nat /\ rec[e].last \in Nat /\ rec[p].last \in Nat
      /\ rec[e].next \in Nat /\ rec[e].oldest \in Nat /\ rec[e].maxOut \in Nat
      /\ Modulus \in Nat /\ MaxSend[e] \in Nat /\ Window[e] \in Nat
  BY <1>1, Numeric, Fields
<1>4. /\ st[e] = "OPEN" /\ sent[e] < MaxSend[e]
      /\ rec[e].next < rec[e].oldest + rec[e].maxOut
      /\ sent' = [sent EXCEPT ![e] = n] /\ fired' = fired
      /\ Apply(e, eff) /\ net' = [net EXCEPT ![p] = net[p] \cup eff.out]
  BY DEF Send, WindowOpen, Transmit
<1>5. rec[e].next = ISS[e] + n /\ UPlus(rec[e].next, 1) = rec[e].next + 1
  <2>1. rec[e].next = ISS[e] + 1 + sent[e] /\ ISS[e] + sent[e] + 2 < Modulus
    BY Bounds
  <2> QED
    BY <1>3, <2>1 DEF UPlus
<1>6. /\ seg.type = "ACK" /\ seg.seq = ISS[e] + n /\ seg.ack = rec[e].last
      /\ seg.data = n /\ HasData(seg)
  BY <1>3, <1>5 DEF AckSeg, HasData, NoData
<1>7. /\ new.last = rec[e].last /\ new.oldest = rec[e].oldest
      /\ new.maxOut = rec[e].maxOut /\ new.ooo = rec[e].ooo
      /\ new.next = rec[e].next + 1
  BY <1>3, <1>5, Fields DEF Record
<1> HIDE DEF eff, new, seg
<1>8. /\ st' = [st EXCEPT ![e] = "OPEN"] /\ rec'[e] = new /\ rec'[p] = rec[p]
      /\ retr'[e] = TrackedAfter(e, eff) /\ retr'[p] = retr[p]
      /\ delivered'[e] = delivered[e] \o << >> /\ delivered'[p] = delivered[p]
  BY <1>1, <1>2, <1>4 DEF Apply, TypeInv, TypeOK
<1>9. retr'[e] = {t \in retr[e] : t.seq # seg.seq} \cup {seg}
  <2>1. {o \in eff.out : HasData(o)} = {seg}
    BY <1>2, <1>6
  <2>2. Unacked(retr[e], eff.cum, eff.one) = retr[e]
    BY <1>2 DEF Unacked
  <2>3. TrackedAfter(e, eff) = Track(retr[e], eff.out)
    BY <1>2, <2>2 DEF TrackedAfter
  <2> QED
    BY <1>8, <2>1, <2>3 DEF Track
<1>10. delivered' = delivered
  <2>1. delivered[e] \o << >> = delivered[e]
    BY Fields
  <2> QED
    BY <1>2, <1>4, <2>1 DEF Apply, TypeInv, TypeOK
<1>11. st' = st /\ sent'[e] = n /\ sent'[p] = sent[p]
  BY <1>1, <1>4, <1>8 DEF TypeInv, TypeOK
<1>12. sent[e] - Len(delivered[p]) < Window[e]
  <2>1. Len(delivered[p]) = rec[p].last - ISS[e]
    BY DEF StreamInv, Prefix
  <2>2. rec[e].oldest <= rec[p].last + 1 /\ rec[e].maxOut = Window[e]
    BY Bounds
  <2>3. ISS[e] + (sent[e] + 1) < rec[e].oldest + Window[e]
    BY <1>4, <1>5, <2>2
  <2>4. sent[e] - (rec[p].last - ISS[e]) < Window[e]
    BY <1>3, <2>2, <2>3
  <2> QED
    BY <2>1, <2>4
<1>13. Numbers(e)'
  <2>1. /\ ISS[e] <= rec[p].last /\ rec[p].last <= ISS[e] + sent[e]
        /\ rec[e].oldest <= rec[p].last + 1 /\ rec[e].maxOut = Window[e]
        /\ \A d \in rec[p].ooo : /\ rec[p].last + 1 < d.seq /\ d.seq = ISS[e] + d.data
                                 /\ d.data <= sent[e]
    BY Bounds
  <2>2. /\ n <= MaxSend[e] /\ new.next = ISS[e] + 1 + n
        /\ rec[p].last <= ISS[e] + n /\ new.next <= new.oldest + new.maxOut
    BY <1>3, <1>4, <1>5, <1>7, <2>1
  <2>3. \A d \in rec[p].ooo : d.data \in Nat
    BY <1>1, Fields
  <2>4. \A d \in rec[p].ooo : d.data <= n
    BY <1>3, <2>1, <2>3
  <2> QED
    BY <1>7, <1>8, <1>11, <2>1, <2>2, <2>4 DEF Numbers
<1>14. Numbers(p)'
  <2>1. Numbers(p)
    BY <1>1 DEF StreamInv
  <2> QED
    BY <1>1, <1>7, <1>8, <1>11, <2>1 DEF Numbers
<1>15. Prefix(e)' /\ Prefix(p)'
  <2>1. Prefix(e) /\ Prefix(p)
    BY <1>1 DEF StreamInv
  <2> QED
    BY <1>1, <1>7, <1>8, <1>10, <2>1 DEF Prefix
<1>16. \A f \in Endpoints : /\ rec'[f].last = rec[f].last
                            /\ \A x : Taken(f, x) => Taken(f, x)'
  BY <1>1, <1>7, <1>8 DEF Taken
<1>17. ASSUME NEW f \in Endpoints, NEW m \in (net[Peer(f)] \cup retr[f] \cup fired[f])
       PROVE  Honest(f, m)'
  <2>1. m \in Segment
    BY Fields, PeerType
  <2>2. Honest(f, m)
    BY DEF StreamInv
  <2>3. sent[f] <= sent'[f]
    <3>1. sent[e] <= sent'[e]
      BY <1>3, <1>11
    <3>2. sent[p] \in Nat
      BY <1>1, Fields
    <3>3. sent[p] <= sent'[p]
      BY <1>11, <3>2
    <3> QED
      BY <1>1, <3>1, <3>3
  <2>4. rec[f].last <= rec'[f].last
    BY <1>16, Fields
  <2> QED
    BY <1>16, <2>1, <2>2, <2>3, <2>4, StaysHonest
<1>18. ASSUME NEW m, m = seg
       PROVE  Honest(e, m)'
  <2>1. rec[e].last <= rec[e].last /\ n <= n
    BY <1>3
  <2> QED
    BY <1>6, <1>7, <1>8, <1>11, <1>18, <2>1 DEF Honest
<1>19. \A f \in Endpoints : \A m \in (net[Peer(f)] \cup retr[f] \cup fired[f])' :
         Honest(f, m)'
  <2>1. ASSUME NEW m \in (net'[p] \cup retr'[e] \cup fired'[e])
        PROVE  Honest(e, m)'
    <3>1. net'[p] = net[p] \cup {seg}
      BY <1>1, <1>2, <1>4 DEF TypeInv, TypeOK
    <3>2. m = seg \/ m \in net[p] \cup retr[e] \cup fired[e]
      BY <1>4, <1>9, <3>1
    <3> QED
      BY <1>17, <1>18, <3>2
  <2>2. ASSUME NEW m \in (net'[e] \cup retr'[p] \cup fired'[p])
        PROVE  Honest(p, m)'
    <3>1. net'[e] = net[e]
      BY <1>1, <1>4 DEF TypeInv, TypeOK
    <3> QED
      BY <1>1, <1>4, <1>8, <1>17, <3>1
  <2> QED
    BY <1>1, <2>1, <2>2
<1>20. \A f \in Endpoints : \A m \in (retr[f] \cup fired[f])' : HasData(m)
  BY <1>1, <1>4, <1>6, <1>8, <1>9 DEF StreamInv
<1>21. KeptUntilTaken'
  <2> SUFFICES ASSUME NEW f \in Endpoints, st[f] = "OPEN", NEW x \in 1 .. sent'[f]
               PROVE  \/ \E m \in retr'[f] : m.data = x
                      \/ Taken(Peer(f), ISS[f] + x)'
    BY <1>11 DEF KeptUntilTaken, Taken
  <2>1. CASE f = e /\ x = n
    BY <1>6, <1>9, <2>1
  <2>2. CASE ~ (f = e /\ x = n)
    <3>1. x \in 1 .. sent[f]
      BY <1>1, <1>3, <1>11, <2>2
    <3>2. CASE Taken(Peer(f), ISS[f] + x)
      BY <1>1, <1>16, <3>2
    <3>3. CASE ~ Taken(Peer(f), ISS[f] + x)
      <4>1. PICK m \in retr[f] : m.data = x
        BY <3>1, <3>3 DEF StreamInv, KeptUntilTaken, Taken
      <4>2. m.seq = ISS[f] + x
        BY <4>1 DEF StreamInv, Honest
      <4>3. CASE f = e
        <5>1. m.seq # seg.seq
          BY <1>3, <1>6, <2>2, <3>1, <4>2, <4>3
        <5> QED
          BY <1>9, <4>1, <4>3, <5>1
      <4> QED
        BY <1>1, <1>8, <4>1, <4>3
    <3> QED
      BY <3>2, <3>3
  <2> QED
    BY <2>1, <2>2
<1>22. \A f \in Endpoints : /\ Numbers(f)' /\ Prefix(f)'
                            /\ st'[f] \in {"OPEN", "CLOSE_WAIT", "CLOSED"}
  BY <1>1, <1>11, <1>13, <1>14, <1>15 DEF StreamInv
<1>23. StreamInv'
  BY <1>19, <1>20, <1>21, <1>22 DEF StreamInv
<1> QED
  BY <1>4, <1>10, <1>12, <1>23

\* A segment handled: StreamInv survives, and the user is given the next piece
\* of the peer's stream.
LEMMA HandleSound ==
  ASSUME NoWrap, TypeInv, TypeInv', StreamInv, NEW e \in Endpoints, NEW m \in net[e],
         NEW duplicated \in BOOLEAN, Handle(e, m, duplicated)
  PROVE  /\ StreamInv'
         /\ sent' = sent
         /\ \E eff : EffectOK(eff) /\ Sound(e, eff) /\ Apply(e, eff)
<1> DEFINE eff == GetNext(st[e], rec[e], m)
<1>1. Registered(e)
  BY DEF Handle, Handles
<1>2. m \in Segment
  BY Fields
<1>3. EffectOK(eff) /\ Sound(e, eff)
  BY <1>1, <1>2, GetNextType, GetNextSound DEF TypeInv, TypeOK
<1>4. /\ Apply(e, eff) /\ sent' = sent /\ fired' = fired
      /\ net' = [net EXCEPT ![e] = IF duplicated THEN net[e] ELSE net[e] \ {m},
                            ![Peer(e)] = net[Peer(e)] \cup eff.out]
  BY PeerType DEF Handle
<1> HIDE DEF eff
<1>5. /\ net'[e] \subseteq net[e] /\ net'[Peer(e)] \subseteq net[Peer(e)] \cup eff.out
  BY <1>4, PeerType DEF TypeInv, TypeOK
<1> QED
  BY <1>3, <1>4, <1>5, SoundStep

LEMMA CloseSound ==
  ASSUME NoWrap, TypeInv, TypeInv', StreamInv, NEW e \in Endpoints, Close(e)
  PROVE  /\ StreamInv'
         /\ sent' = sent
         /\ \E eff : EffectOK(eff) /\ Sound(e, eff) /\ Apply(e, eff)
<1> DEFINE eff == CloseNext(st[e], rec[e])
<1>1. EffectOK(eff)
  BY CloseNextType DEF Close, TypeInv, TypeOK
<1>2. Sound(e, eff)
  <2>1. st[e] \in {"OPEN", "CLOSE_WAIT"}
    BY DEF Close, StreamInv
  <2>2. CASE st[e] = "OPEN"
    <3>1. ResetNow(rec[e]) \in Segment /\ ResetNow(rec[e]).type = "RST"
      BY Fields, RecordFields, SegmentTypes DEF ResetNow, RstSeg
    <3>2. Sound(e, Effect("CLOSE_WAIT", rec[e], {ResetNow(rec[e])}))
      BY <3>1, IdleSound
    <3> QED
      BY <2>2, <3>2 DEF CloseNext
  <2>3. CASE st[e] = "CLOSE_WAIT"
    <3>1. Sound(e, Effect("CLOSE_WAIT", rec[e], {}))
      BY IdleSound
    <3> QED
      BY <2>3, <3>1 DEF CloseNext
  <2> QED
    BY <2>1, <2>2, <2>3
<1>3. /\ Apply(e, eff) /\ sent' = sent /\ fired' = fired
      /\ net' = [net EXCEPT ![Peer(e)] = net[Peer(e)] \cup eff.out]
  BY DEF Close, Transmit
<1> HIDE DEF eff
<1>4. /\ net'[e] \subseteq net[e] /\ net'[Peer(e)] \subseteq net[Peer(e)] \cup eff.out
  BY <1>3, PeerType DEF TypeInv, TypeOK
<1> QED
  BY <1>1, <1>2, <1>3, <1>4, SoundStep

\* A connection that has been established is not opened again.
LEMMA NotOpened ==
  ASSUME NoWrap, TypeInv, StreamInv, NEW e \in Endpoints
  PROVE  ~ Open(e)
<1>1. /\ rec[e].next = ISS[e] + 1 + sent[e] /\ ISS[e] \in Nat /\ sent[e] \in Nat
  BY Bounds, Numeric, Fields
<1>2. ClosedRecord.next = 0
  BY DEF ClosedRecord
<1> QED
  BY <1>1, <1>2 DEF Open

\* What the steps of QuietStep leave to the users' streams.
LEMMA QuietSound ==
  ASSUME NoWrap, TypeInv, TypeInv', StreamInv, NEW e \in Endpoints,
         \/ SendWaits(e) \/ SendTimesOut(e) \/ Lose(e) \/ Fire(e) \/ Retransmit(e)
         \/ Expire(e)
  PROVE  StreamInv' /\ sent' = sent /\ delivered' = delivered
<1>1. Peer(e) \in Endpoints /\ Peer(Peer(e)) = e /\ Peer(e) # e
  BY PeerType
<1>2. \A f \in Endpoints : st[f] \in {"OPEN", "CLOSE_WAIT", "CLOSED"}
  BY DEF StreamInv
<1>3. CASE SendWaits(e) \/ SendTimesOut(e)
  BY <1>2, <1>3, QuietStep DEF SendWaits, SendTimesOut
<1>4. CASE Lose(e)
  <2>1. \A f \in Endpoints : net'[f] \subseteq net[f]
    BY <1>4 DEF Lose, TypeInv, TypeOK
  <2>2. \A f \in Endpoints : net'[Peer(f)] \subseteq net[Peer(f)]
    BY <2>1, PeerType
  <2> QED
    BY <1>2, <1>4, <2>2, QuietStep DEF Lose
<1>5. CASE Fire(e)
  <2>1. \A f \in Endpoints : fired'[f] \subseteq retr[f] \cup fired[f]
    BY <1>5 DEF Fire, TypeInv, TypeOK
  <2> QED
    BY <1>2, <1>5, <2>1, QuietStep DEF Fire
<1>6. CASE Retransmit(e)
  <2>1. /\ retr' = [retr EXCEPT ![e] = Track(retr[e], fired[e])]
        /\ fired' = [fired EXCEPT ![e] = {}]
        /\ net' = [net EXCEPT ![Peer(e)] = net[Peer(e)] \cup fired[e]]
        /\ UNCHANGED <<st, rec, sent, delivered>>
    BY <1>6 DEF Retransmit, Transmit
  <2>2. Track(retr[e], fired[e]) \subseteq retr[e] \cup fired[e]
    BY DEF Track
  <2>3. ASSUME NEW m \in retr[e]
        PROVE  \E t \in Track(retr[e], fired[e]) : t.data = m.data
    <3>1. CASE \A t \in fired[e] : t.seq # m.seq
      BY <3>1 DEF Track
    <3>2. CASE \E t \in fired[e] : t.seq = m.seq
      <4>1. PICK t \in fired[e] : t.seq = m.seq
        BY <3>2
      <4>2. /\ HasData(t) /\ t.seq = ISS[e] + t.data
            /\ HasData(m) /\ m.seq = ISS[e] + m.data
        BY DEF StreamInv, Honest
      <4>3. t.data \in Nat /\ m.data \in Nat /\ ISS[e] \in Nat
        BY Fields, SegmentFields, Numeric
      <4>4. t.data = m.data
        <5>1. ISS[e] + t.data = ISS[e] + m.data
          BY <4>1, <4>2
        <5> QED
          BY <4>3, <5>1
      <4>5. t \in Track(retr[e], fired[e])
        BY <4>2 DEF Track
      <4> QED
        BY <4>4, <4>5
    <3> QED
      BY <3>1, <3>2
  <2>4. \A f \in Endpoints :
          /\ retr'[f] \subseteq retr[f] \cup fired[f] /\ fired'[f] \subseteq fired[f]
          /\ \A m \in retr[f] : \E t \in retr'[f] : t.data = m.data
    BY <2>1, <2>2, <2>3 DEF TypeInv, TypeOK
  <2>5. \A f \in Endpoints : net'[Peer(f)] \subseteq net[Peer(f)] \cup fired[f]
    <3>1. Endpoints = {e, Peer(e)}
      BY DEF Endpoints, Peer
    <3>2. net'[Peer(e)] = net[Peer(e)] \cup fired[e] /\ net'[e] = net[e]
      BY <1>1, <2>1 DEF TypeInv, TypeOK
    <3> QED
      BY <1>1, <3>1, <3>2
  <2> QED
    BY <1>2, <2>1, <2>4, <2>5, QuietStep
<1>7. CASE Expire(e)
  <2>1. /\ st' = [st EXCEPT ![e] = TimerNext(st[e], rec[e]).st]
        /\ rec' = [rec EXCEPT ![e] = TimerNext(st[e], rec[e]).rec]
        /\ UNCHANGED <<retr, fired, net, sent, delivered>>
    BY <1>7 DEF Expire
  <2>2. rec' = rec
    BY <2>1 DEF TimerNext, Effect, TypeInv, TypeOK
  <2>3. \A f \in Endpoints : st'[f] \in {"OPEN", "CLOSE_WAIT", "CLOSED"}
                            /\ (st'[f] = "OPEN" => st[f] = "OPEN")
    BY <1>2, <2>1 DEF TimerNext, Effect, TypeInv, TypeOK
  <2> QED
    BY <2>1, <2>2, <2>3, QuietStep
<1> QED
  BY <1>3, <1>4, <1>5, <1>6, <1>7

----------------------------------------------------------------------------
(* The established connection *)

IInv == TypeInv /\ StreamInv

LEMMA InitSound == NoWrap /\ EstablishedInit => StreamInv
<1> SUFFICES ASSUME NoWrap, EstablishedInit PROVE StreamInv
  OBVIOUS
<1>1. ASSUME NEW e \in Endpoints
      PROVE  /\ ISS[e] \in Nat /\ MaxSend[e] \in Nat /\ Window[e] \in Nat
             /\ 1 <= Window[e] /\ UPlus(ISS[e], 1) = ISS[e] + 1
  BY Numeric DEF UPlus
<1>2. ASSUME NEW e \in Endpoints
      PROVE  /\ rec[e].last = ISS[Peer(e)] /\ rec[e].next = ISS[e] + 1
             /\ rec[e].maxOut = Window[e] /\ rec[e].ooo = {}
             /\ rec[e].oldest \in {ISS[e], ISS[e] + 1}
             /\ sent[e] = 0 /\ delivered[e] = << >> /\ st[e] = "OPEN"
             /\ retr[e] = {} /\ fired[e] = {}
  BY <1>1 DEF EstablishedInit, OpenRecord
<1>3. ASSUME NEW e \in Endpoints
      PROVE  Numbers(e) /\ Prefix(e)
  <2>1. Peer(e) \in Endpoints /\ Peer(Peer(e)) = e
    BY PeerType
  <2>2. rec[Peer(e)].last = ISS[e] /\ rec[Peer(e)].ooo = {}
        /\ delivered[Peer(e)] = << >>
    BY <1>2, <2>1
  <2>3. Numbers(e)
    <3>1. /\ sent[e] <= MaxSend[e] /\ rec[e].next = ISS[e] + 1 + sent[e]
          /\ ISS[e] <= ISS[e] /\ ISS[e] <= ISS[e] + sent[e]
      BY <1>1, <1>2
    <3>2. /\ rec[e].oldest <= ISS[e] + 1
          /\ rec[e].next <= rec[e].oldest + rec[e].maxOut
      BY <1>1, <1>2
    <3> QED
      BY <1>2, <2>2, <3>1, <3>2 DEF Numbers
  <2>4. Prefix(e)
    <3>1. Len(<< >>) = ISS[e] - ISS[e] /\ 1 .. Len(<< >>) = {}
      BY <1>1
    <3> QED
      BY <2>2, <3>1 DEF Prefix
  <2> QED
    BY <2>3, <2>4
<1>4. ASSUME NEW e \in Endpoints, NEW m \in net[Peer(e)]
      PROVE  Honest(e, m)
  <2>1. Peer(e) \in Endpoints /\ Peer(Peer(e)) = e
    BY PeerType
  <2>2. m \in Handshake(e)
    BY <2>1 DEF EstablishedInit
  <2>3. \/ m.type = "SYN"
        \/ e = Client /\ m = AckSeg(UPlus(ISS[Client], 1), ISS[Server], NoData)
    BY <2>2 DEF Handshake, SynSeg
  <2>4. CASE m.type = "SYN"
    BY <2>4 DEF Honest, HasData
  <2>5. CASE e = Client /\ m = AckSeg(UPlus(ISS[Client], 1), ISS[Server], NoData)
    <3>1. Peer(e) = Server
      BY <2>5 DEF Peer
    <3>2. m.type = "ACK" /\ m.ack = rec[e].last /\ m.data = NoData
      BY <1>2, <2>5, <3>1 DEF AckSeg
    <3>3. rec[e].last <= rec[e].last
      BY <1>1, <1>2, <2>1
    <3> QED
      BY <3>2, <3>3 DEF Honest, HasData
  <2> QED
    BY <2>3, <2>4, <2>5
<1>5. KeptUntilTaken
  BY <1>2 DEF KeptUntilTaken, Taken
<1> QED
  BY <1>2, <1>3, <1>4, <1>5 DEF StreamInv

LEMMA NextSound == NoWrap /\ IInv /\ [Next]_vars => IInv'
<1> SUFFICES ASSUME NoWrap, TypeInv, StreamInv, [Next]_vars PROVE IInv'
  BY DEF IInv
<1>1. TypeInv'
  BY NextType
<1>2. CASE UNCHANGED vars
  BY <1>1, <1>2 DEF IInv, vars, StreamInv, KeptUntilTaken, Numbers, Prefix, Honest, Taken
<1>3. ASSUME NEW e \in Endpoints, Step(e)
      PROVE  StreamInv'
  <2>1. CASE Open(e)
    BY <2>1, NotOpened
  <2>2. CASE Send(e)
    BY <1>1, <2>2, SendSound
  <2>3. CASE Close(e)
    BY <1>1, <2>3, CloseSound
  <2>4. CASE Receive(e) \/ Duplicate(e)
    BY <1>1, <2>4, HandleSound DEF Receive, Duplicate
  <2>5. CASE \/ SendWaits(e) \/ SendTimesOut(e) \/ Lose(e) \/ Fire(e)
             \/ Retransmit(e) \/ Expire(e)
    BY <1>1, <2>5, QuietSound
  <2> QED
    BY <1>3, <2>1, <2>2, <2>3, <2>4, <2>5 DEF Step
<1> QED
  BY <1>1, <1>2, <1>3 DEF IInv, Next

LEMMA EstablishedIInv == NoWrap => (EstablishedSpec => []IInv)
<1> SUFFICES ASSUME NoWrap PROVE EstablishedSpec => []IInv
  OBVIOUS
<1>1. EstablishedInit => IInv
  BY EstablishedInitType, InitSound DEF IInv
<1>2. IInv /\ [Next]_vars => IInv'
  BY NextSound
<1> QED
  BY <1>1, <1>2, PTL DEF EstablishedSpec

\* Numbers, streams, segments and states of the two ends fit together at any
\* moment, for every size of window and any number of messages.
THEOREM StreamSafe == NoWrap => (EstablishedSpec => []StreamInv)
<1>1. IInv => StreamInv
  BY DEF IInv
<1> QED
  BY <1>1, EstablishedIInv, PTL

\* Whatever is lost, repeated or late, the two users are given what was sent to
\* them, in order and once: queueBlocked and the checks of handleData suffice.
THEOREM InOrderDelivery == NoWrap => (EstablishedSpec => []DeliveredIsPrefix)
<1> SUFFICES ASSUME NoWrap PROVE EstablishedSpec => []DeliveredIsPrefix
  OBVIOUS
<1>1. IInv => DeliveredIsPrefix
  <2> SUFFICES ASSUME TypeInv, StreamInv, NEW e \in Endpoints
               PROVE  /\ Len(delivered[Peer(e)]) <= sent[e]
                      /\ \A i \in 1 .. Len(delivered[Peer(e)]) : delivered[Peer(e)][i] = i
    BY DEF IInv, DeliveredIsPrefix
  <2>1. Prefix(e)
    BY DEF StreamInv
  <2>2. /\ Len(delivered[Peer(e)]) = rec[Peer(e)].last - ISS[e]
        /\ \A i \in 1 .. Len(delivered[Peer(e)]) : delivered[Peer(e)][i] = i
    BY <2>1 DEF Prefix
  <2>3. rec[Peer(e)].last - ISS[e] <= sent[e]
    <3>1. rec[Peer(e)].last <= ISS[e] + sent[e]
      BY Bounds
    <3>2. rec[Peer(e)].last \in Nat /\ ISS[e] \in Nat /\ sent[e] \in Nat
      BY PeerType, Fields, Numeric
    <3> QED
      BY <3>1, <3>2
  <2> QED
    BY <2>2, <2>3
<1> QED
  BY <1>1, EstablishedIInv, PTL

\* No acknowledgment, cumulative or not, and no race of one with a
\* retransmission lets go of a message before the other end has queued it for
\* its user or holds it back behind a gap.
THEOREM NoEarlyRelease == NoWrap => (EstablishedSpec => []NothingLost)
<1> SUFFICES ASSUME NoWrap PROVE EstablishedSpec => []NothingLost
  OBVIOUS
<1>1. IInv => NothingLost
  <2> SUFFICES ASSUME TypeInv, StreamInv, NEW e \in Endpoints, st[e] = "OPEN",
                      NEW n \in 1 .. sent[e], ~ \E m \in retr[e] : m.data = n
               PROVE  \/ \E i \in DOMAIN delivered[Peer(e)] : delivered[Peer(e)][i] = n
                      \/ \E d \in rec[Peer(e)].ooo : d.data = n
    BY DEF IInv, NothingLost
  <2> DEFINE p   == Peer(e)
             got == delivered[p]
  <2>1. /\ p \in Endpoints /\ got \in Seq(Payload) /\ rec[p].last \in Nat
        /\ ISS[e] \in Nat /\ n \in Nat /\ rec[p].ooo \in SUBSET HeldBack
    BY PeerType, Fields, Numeric
  <2>2. ISS[e] + n <= rec[p].last \/ ISS[e] + n \in Seqs(rec[p].ooo)
    BY DEF StreamInv, KeptUntilTaken, Taken
  <2>3. Numbers(e) /\ Prefix(e)
    BY DEF StreamInv
  <2>4. CASE ISS[e] + n <= rec[p].last
    <3>1. Len(got) = rec[p].last - ISS[e] /\ \A i \in 1 .. Len(got) : got[i] = i
      BY <2>3 DEF Prefix
    <3>2. n \in 1 .. Len(got) /\ DOMAIN got = 1 .. Len(got)
      BY <2>1, <2>4, <3>1
    <3> QED
      BY <3>1, <3>2
  <2>5. CASE ISS[e] + n \in Seqs(rec[p].ooo)
    <3>1. PICK d \in rec[p].ooo : d.seq = ISS[e] + n
      BY <2>5 DEF Seqs
    <3>2. d.seq = ISS[e] + d.data /\ d.data \in Nat
      BY <2>1, <2>3, <3>1 DEF Numbers, HeldBack, Payload
    <3>3. d.data = n
      BY <2>1, <3>1, <3>2
    <3> QED
      BY <3>1, <3>3
  <2> QED
    BY <2>2, <2>4, <2>5
<1> QED
  BY <1>1, EstablishedIInv, PTL

\* The send window never moves past what the other end has taken.
THEOREM WindowHonest == NoWrap => (EstablishedSpec => []AckedWasTaken)
<1>1. IInv => AckedWasTaken
  BY DEF IInv, StreamInv, Numbers, AckedWasTaken
<1> QED
  BY <1>1, EstablishedIInv, PTL

\* Every data segment in the network is near enough for isSeqNumOk to take it:
\* the two windows, which the code announces and checks apart, agree.
THEOREM WindowsAgree == NoWrap => (EstablishedSpec => []FitsReceiveWindow)
<1> SUFFICES ASSUME NoWrap PROVE EstablishedSpec => []FitsReceiveWindow
  OBVIOUS
<1>1. IInv => FitsReceiveWindow
  <2> SUFFICES ASSUME TypeInv, StreamInv, NEW e \in Endpoints, NEW m \in net[e],
                      HasData(m)
               PROVE  m.seq <= rec[e].last + 2 * MaxBuffered
    BY DEF IInv, FitsReceiveWindow
  <2> DEFINE p == Peer(e)
  <2>1. p \in Endpoints /\ Peer(p) = e
    BY PeerType
  <2>2. m.seq <= ISS[p] + sent[p] /\ m.seq \in Nat
    BY NetData DEF HasData
  <2>3. /\ rec[p].next = ISS[p] + 1 + sent[p] /\ rec[p].oldest <= rec[e].last + 1
        /\ rec[p].maxOut = Window[p] /\ rec[p].next <= rec[p].oldest + rec[p].maxOut
    BY <2>1, Bounds
  <2>4. /\ ISS[p] \in Nat /\ sent[p] \in Nat /\ rec[p].oldest \in Nat
        /\ rec[e].last \in Nat /\ Window[p] \in Nat /\ MaxBuffered \in Nat
        /\ Window[p] <= 2 * MaxBuffered
    BY <2>1, Fields, Numeric
  <2>5. ISS[p] + 1 + sent[p] <= rec[e].last + 1 + Window[p]
    <3>1. ISS[p] + 1 + sent[p] <= rec[p].oldest + Window[p]
      BY <2>3
    <3> QED
      BY <2>3, <2>4, <3>1
  <2> QED
    BY <2>2, <2>4, <2>5
<1> QED
  BY <1>1, EstablishedIInv, PTL

LEMMA Grows ==
  ASSUME NoWrap, TypeInv, StreamInv, NEW e \in Endpoints, NEW eff,
         Sound(e, eff), Apply(e, eff), NEW f \in Endpoints
  PROVE  /\ rec[f].last <= rec'[f].last /\ rec[f].oldest <= rec'[f].oldest
         /\ rec[f].next <= rec'[f].next
<1>1. rec' = [rec EXCEPT ![e] = eff.rec] /\ rec \in [Endpoints -> Record]
  BY DEF Apply, TypeInv, TypeOK
<1>2. /\ rec[f].last \in Nat /\ rec[f].oldest \in Nat /\ rec[f].next \in Nat
      /\ rec[e].next \in Nat
  BY Fields
<1>3. /\ rec[e].last <= eff.rec.last /\ rec[e].oldest <= eff.rec.oldest
      /\ eff.rec.next = rec[e].next
  BY DEF Sound
<1>4. CASE f = e
  BY <1>1, <1>2, <1>3, <1>4
<1>5. CASE f # e
  BY <1>1, <1>2, <1>5
<1> QED
  BY <1>4, <1>5

\* Acknowledgments and data that arrive late, repeated or overtaken never move
\* any number of a record back.
THEOREM NumbersNeverBack == NoWrap => (EstablishedSpec => NeverBack)
<1> SUFFICES ASSUME NoWrap PROVE EstablishedSpec => NeverBack
  OBVIOUS
<1>1. IInv /\ [Next]_vars => [NumbersGrow]_vars
  <2> SUFFICES ASSUME TypeInv, StreamInv, TypeInv', NEW e \in Endpoints, Step(e)
               PROVE  NumbersGrow
    BY NextType DEF IInv, Next
  <2>1. CASE Open(e)
    BY <2>1, NotOpened
  <2>2. CASE Send(e)
    <3>1. rec' = [rec EXCEPT ![e] = [rec[e] EXCEPT !.next = UPlus(rec[e].next, 1)]]
      BY <2>2 DEF Send, Apply, OpenSend, Effect
    <3>2. UPlus(rec[e].next, 1) = rec[e].next + 1
      <4>1. /\ rec[e].next = ISS[e] + 1 + sent[e] /\ ISS[e] + sent[e] + 2 < Modulus
        BY Bounds
      <4>2. ISS[e] \in Nat /\ sent[e] \in Nat /\ Modulus \in Nat
        BY Numeric, Fields
      <4> QED
        BY <4>1, <4>2 DEF UPlus
    <3> SUFFICES ASSUME NEW f \in Endpoints
                 PROVE  /\ rec[f].last <= rec'[f].last /\ rec[f].oldest <= rec'[f].oldest
                        /\ rec[f].next <= rec'[f].next
      BY DEF NumbersGrow
    <3>3. /\ rec[f].last \in Nat /\ rec[f].oldest \in Nat /\ rec[f].next \in Nat
      BY Fields
    <3>4. rec \in [Endpoints -> Record]
      BY DEF TypeInv, TypeOK
    <3>5. /\ rec'[f].last = rec[f].last /\ rec'[f].oldest = rec[f].oldest
          /\ rec'[f].next \in {rec[f].next, rec[f].next + 1}
      BY <3>1, <3>2, <3>4 DEF Record
    <3> QED
      BY <3>3, <3>5
  <2>3. CASE Close(e)
    BY <2>3, CloseSound, Grows DEF NumbersGrow
  <2>4. CASE Receive(e) \/ Duplicate(e)
    <3>1. PICK eff : Sound(e, eff) /\ Apply(e, eff)
      BY <2>4, HandleSound DEF Receive, Duplicate
    <3> QED
      BY <3>1, Grows DEF NumbersGrow
  <2>5. CASE \/ SendWaits(e) \/ SendTimesOut(e) \/ Lose(e) \/ Fire(e)
             \/ Retransmit(e) \/ Expire(e)
    <3>1. rec' = rec
      BY <2>5 DEF SendWaits, SendTimesOut, Lose, Fire, Retransmit, Expire,
                  TimerNext, Effect, TypeInv, TypeOK
    <3>2. \A f \in Endpoints : /\ rec[f].last \in Nat /\ rec[f].oldest \in Nat
                               /\ rec[f].next \in Nat
      BY Fields
    <3> QED
      BY <3>1, <3>2 DEF NumbersGrow
  <2> QED
    BY <2>1, <2>2, <2>3, <2>4, <2>5 DEF Step
<1> QED
  BY <1>1, EstablishedIInv, PTL DEF EstablishedSpec, NeverBack

----------------------------------------------------------------------------
(* The abstract stream *)

LEMMA StreamEnds ==
  /\ Stream!Ends = Endpoints
  /\ \A e \in Endpoints : Stream!Other(e) = Peer(e)
BY DEF Stream!Ends, Endpoints, Stream!Other, Peer

LEMMA Counting ==
  ASSUME NEW q \in Seq(Payload), NEW c, \A j \in 1 .. Len(q) : q[j] = c + j
  PROVE  q = [j \in 1 .. Len(q) |-> c + j]
OBVIOUS

\* A sound effect gives its user the next messages of the peer's stream.
LEMMA Delivers ==
  ASSUME NoWrap, TypeInv, StreamInv, NEW e \in Endpoints, NEW eff,
         EffectOK(eff), Sound(e, eff), Apply(e, eff), sent' = sent
  PROVE  Stream!Deliver(e) \/ UNCHANGED <<sent, delivered>>
<1> DEFINE p == Peer(e)
           d == delivered[e]
           k == Len(eff.queue)
<1>1. /\ p \in Endpoints /\ Peer(p) = e
  BY PeerType
<1>2. /\ Len(d) = rec[e].last - ISS[p]
      /\ ISS[p] \in Nat /\ sent[p] \in Nat /\ rec[e].last \in Nat /\ Len(d) \in Nat
  <2>1. Prefix(p)
    BY <1>1 DEF StreamInv
  <2> QED
    BY <1>1, <2>1, Fields, Numeric DEF Prefix
<1>3. /\ k = eff.rec.last - rec[e].last /\ eff.rec.last <= ISS[p] + sent[p]
      /\ \A j \in 1 .. k : eff.queue[j] = (rec[e].last - ISS[p]) + j
  BY DEF Sound
<1>4. /\ eff.queue \in Seq(Payload) /\ eff.rec.last \in Nat /\ k \in Nat
  BY RecordFields, SegmentsAssumption DEF EffectOK, UInt
<1>5. delivered' = [delivered EXCEPT ![e] = d \o eff.queue]
  BY DEF Apply
<1>6. eff.queue = [j \in 1 .. k |-> Len(d) + j]
  <2>1. \A j \in 1 .. Len(eff.queue) : eff.queue[j] = Len(d) + j
    BY <1>2, <1>3
  <2> QED
    BY <1>4, <2>1, Counting
<1>7. k <= sent[p] - Len(d)
  <2>1. k = eff.rec.last - rec[e].last /\ eff.rec.last <= ISS[p] + sent[p]
    BY <1>3
  <2> QED
    BY <1>2, <1>4, <2>1
<1>8. CASE k = 0
  <2>1. eff.queue = << >>
    BY <1>4, <1>8
  <2>2. d \o << >> = d
    BY Fields
  <2> QED
    BY <1>5, <2>1, <2>2 DEF TypeInv, TypeOK
<1>9. CASE k # 0
  <2>1. k \in 1 .. sent[p] - Len(d)
    BY <1>2, <1>4, <1>7, <1>9
  <2> HIDE DEF k
  <2>2. delivered' = [delivered EXCEPT
                        ![e] = delivered[e] \o [j \in 1 .. k |-> Len(delivered[e]) + j]]
    BY <1>5, <1>6
  <2>3. Stream!Other(e) = p
    BY StreamEnds
  <2> QED
    BY <2>1, <2>2, <2>3 DEF Stream!Deliver
<1> QED
  BY <1>8, <1>9

LEMMA StreamStep == NoWrap /\ IInv /\ [Next]_vars => [Stream!Next]_(Stream!vars)
<1> SUFFICES ASSUME NoWrap, TypeInv, StreamInv, [Next]_vars
             PROVE  Stream!Next \/ UNCHANGED <<sent, delivered>>
  BY DEF IInv, Stream!vars
<1>1. TypeInv'
  BY NextType
<1>2. CASE UNCHANGED vars
  BY <1>2 DEF vars
<1>3. ASSUME NEW e \in Endpoints, Step(e)
      PROVE  Stream!Send(e) \/ Stream!Deliver(e) \/ UNCHANGED <<sent, delivered>>
  <2>1. CASE Open(e)
    BY <2>1, NotOpened
  <2>2. CASE Send(e)
    BY <1>1, <2>2, SendSound, StreamEnds DEF Stream!Send
  <2>3. CASE Close(e)
    <3>1. PICK eff : EffectOK(eff) /\ Sound(e, eff) /\ Apply(e, eff) /\ sent' = sent
      BY <1>1, <2>3, CloseSound
    <3> QED
      BY <3>1, Delivers
  <2>4. CASE Receive(e) \/ Duplicate(e)
    <3>1. PICK eff : EffectOK(eff) /\ Sound(e, eff) /\ Apply(e, eff) /\ sent' = sent
      BY <1>1, <2>4, HandleSound DEF Receive, Duplicate
    <3> QED
      BY <3>1, Delivers
  <2>5. CASE \/ SendWaits(e) \/ SendTimesOut(e) \/ Lose(e) \/ Fire(e)
             \/ Retransmit(e) \/ Expire(e)
    BY <1>1, <2>5, QuietSound
  <2> QED
    BY <1>3, <2>1, <2>2, <2>3, <2>4, <2>5 DEF Step
<1> QED
  BY <1>2, <1>3, StreamEnds DEF Next, Stream!Next

LEMMA StreamInit == EstablishedInit => Stream!Init
BY StreamEnds DEF EstablishedInit, Stream!Init

\* An established connection implements a reliable, flow-controlled stream each
\* way, whatever the network, the timers and the closing of either end do.
THEOREM ImplementsStreams == NoWrap => (EstablishedSpec => ImplementsStream)
<1> SUFFICES ASSUME NoWrap PROVE EstablishedSpec => ImplementsStream
  OBVIOUS
<1>1. IInv /\ [Next]_vars => [Stream!Next]_(Stream!vars)
  BY StreamStep
<1> QED
  BY <1>1, StreamInit, EstablishedIInv, PTL
     DEF EstablishedSpec, ImplementsStream, Stream!Spec

----------------------------------------------------------------------------
(***************************************************************************)
(* Delivery from the handshake on, when one end opens and the other        *)
(* accepts.  An end that becomes OPEN starts from the number it was told   *)
(* (Greeting), or from the next one if SYN-RCVD was shown a message with   *)
(* it; from there on it queues its peer's stream without a gap.            *)
(***************************************************************************)

\* How many messages e's record r counts as received and got does not hold.
Skipped(e, r, got) == (r.last - ISS[Peer(e)]) - Len(got)

\* Endpoint e's user has been given got, which ends where record r says.
Consecutive(e, r, got) ==
  /\ OfStream(r, ISS[Peer(e)], sent[Peer(e)])
  /\ Skipped(e, r, got) \in {0, 1}
  /\ \A i \in 1 .. Len(got) : got[i] = Skipped(e, r, got) + i

\* What e's user has been given when its state is s and its record r.
Given(e, s, r, got) ==
  /\ s \in {"LISTEN", "SYN_SENT", "SYN_RCVD"} => got = << >>
  /\ s = "SYN_RCVD" => r.last = ISS[Peer(e)]
  /\ \/ s \in {"SYN_RCVD", "OPEN"} \/ got # << >>
     \/ r.last # 0 \/ r.ooo # {}
     => Consecutive(e, r, got)

\* The next number e sends with, unless it has not been opened yet.
Numbered(e) ==
  /\ sent[e] <= MaxSend[e]
  /\ \/ rec[e].next = ISS[e] + 1 + sent[e]
     \/ st[e] = "CLOSED" /\ sent[e] = 0 /\ delivered[e] = << >>

Tells(e, m) == HasData(m) => m.seq = ISS[e] + m.data /\ m.data <= sent[e]

Delivery ==
  \A e \in Endpoints :
    /\ Given(e, st[e], rec[e], delivered[e]) /\ Numbered(e)
    /\ \A m \in net[Peer(e)] \cup retr[e] \cup fired[e] : Tells(e, m)

\* An effect of e's that keeps to it, and sends no data.
Follows(e, eff) ==
  /\ Given(e, eff.st, eff.rec, delivered[e] \o eff.queue)
  /\ eff.rec.next = rec[e].next
  /\ st[e] = "CLOSED" => eff.st = "CLOSED" /\ eff.queue = << >>
  /\ \A o \in eff.out : ~ HasData(o)

LEMMA FollowsStep ==
  ASSUME TypeInv, Delivery, NEW e \in Endpoints, NEW eff, Follows(e, eff),
         st' = [st EXCEPT ![e] = eff.st], rec' = [rec EXCEPT ![e] = eff.rec],
         delivered' = [delivered EXCEPT ![e] = delivered[e] \o eff.queue], sent' = sent,
         \A f \in Endpoints : \A m \in net'[Peer(f)] \cup retr'[f] \cup fired'[f] :
           m \in net[Peer(f)] \cup retr[f] \cup fired[f] \/ ~ HasData(m)
  PROVE  Delivery'
<1>1. /\ st'[e] = eff.st /\ rec'[e] = eff.rec /\ delivered'[e] = delivered[e] \o eff.queue
      /\ \A f \in Endpoints \ {e} :
           st'[f] = st[f] /\ rec'[f] = rec[f] /\ delivered'[f] = delivered[f]
  BY DEF TypeInv, TypeOK
<1>2. delivered[e] \o << >> = delivered[e]
  BY Fields
<1>3. ASSUME NEW f \in Endpoints
      PROVE  /\ Given(f, st'[f], rec'[f], delivered'[f])
             /\ sent[f] <= MaxSend[f]
             /\ \/ rec'[f].next = ISS[f] + 1 + sent[f]
                \/ st'[f] = "CLOSED" /\ sent[f] = 0 /\ delivered'[f] = << >>
  <2>1. Given(f, st[f], rec[f], delivered[f]) /\ Numbered(f)
    BY DEF Delivery
  <2>2. CASE f = e
    BY <1>1, <1>2, <2>1, <2>2 DEF Follows, Numbered
  <2>3. CASE f # e
    BY <1>1, <2>1, <2>3 DEF Numbered
  <2> QED
    BY <2>2, <2>3
<1>4. ASSUME NEW f \in Endpoints, NEW m \in net'[Peer(f)] \cup retr'[f] \cup fired'[f]
      PROVE  HasData(m) => m.seq = ISS[f] + m.data /\ m.data <= sent[f]
  BY <1>4 DEF Delivery, Tells
<1>5. ASSUME NEW f \in Endpoints
      PROVE  Given(f, st[f], rec[f], delivered[f])'
  BY <1>3 DEF Given, Consecutive, Skipped
<1>6. ASSUME NEW f \in Endpoints
      PROVE  Numbered(f)'
  BY <1>3 DEF Numbered
<1>7. ASSUME NEW f \in Endpoints, NEW m \in net'[Peer(f)] \cup retr'[f] \cup fired'[f]
      PROVE  Tells(f, m)'
  BY <1>4 DEF Tells, HasData
<1> QED
  BY ONLY <1>5, <1>6, <1>7 DEF Delivery

\* Effects that leave the record alone and end the connection at most.
LEMMA IdleFollows ==
  ASSUME TypeInv, Delivery, NEW e \in Endpoints, NEW eff,
         eff.st \in {st[e], "CLOSE_WAIT", "CLOSED"}, st[e] = "CLOSED" => eff.st = "CLOSED",
         eff.rec = rec[e], eff.queue = << >>, \A o \in eff.out : ~ HasData(o)
  PROVE  Follows(e, eff)
<1>1. delivered[e] \o << >> = delivered[e]
  BY Fields
<1>2. Given(e, st[e], rec[e], delivered[e])
  BY DEF Delivery
<1>3. Given(e, eff.st, rec[e], delivered[e])
  BY <1>2 DEF Given
<1> QED
  BY <1>1, <1>3 DEF Follows

LEMMA DeliveryBounds ==
  ASSUME NoWrap, TypeInv, Delivery, NEW e \in Endpoints
  PROVE  /\ ISS[e] \in Nat /\ sent[e] \in Nat /\ ISS[e] + sent[e] + 2 < Modulus
         /\ Modulus \in Nat
<1>1. sent[e] <= MaxSend[e]
  BY DEF Delivery, Numbered
<1> QED
  BY <1>1, Numeric, Fields

\* A record that has just taken the peer's initial number.
LEMMA JustMet ==
  ASSUME NoWrap, TypeInv, Delivery, NEW e \in Endpoints, NEW r,
         r.ooo = {}, r.last = ISS[Peer(e)]
  PROVE  Consecutive(e, r, << >>)
<1>1. ISS[Peer(e)] \in Nat /\ sent[Peer(e)] \in Nat
  BY DeliveryBounds, PeerType
<1>2. Len(<< >>) = 0 /\ 1 .. 0 = {}
  OBVIOUS
<1>3. Skipped(e, r, << >>) \in {0, 1}
  BY <1>1, <1>2 DEF Skipped
<1>4. OfStream(r, ISS[Peer(e)], sent[Peer(e)])
  BY <1>1 DEF OfStream
<1> QED
  BY <1>2, <1>3, <1>4 DEF Consecutive

\* The same and the peer's first message, of which the user is given nothing.
LEMMA MetWithData ==
  ASSUME NoWrap, TypeInv, Delivery, NEW e \in Endpoints, NEW r,
         r.ooo = {}, r.last = ISS[Peer(e)] + 1, 1 <= sent[Peer(e)]
  PROVE  Consecutive(e, r, << >>)
<1>1. ISS[Peer(e)] \in Nat /\ sent[Peer(e)] \in Nat
  BY DeliveryBounds, PeerType
<1>2. Len(<< >>) = 0 /\ 1 .. 0 = {}
  OBVIOUS
<1>3. Skipped(e, r, << >>) \in {0, 1}
  BY <1>1, <1>2 DEF Skipped
<1>4. OfStream(r, ISS[Peer(e)], sent[Peer(e)])
  BY <1>1 DEF OfStream
<1> QED
  BY <1>2, <1>3, <1>4 DEF Consecutive

LEMMA EndsTogether ==
  ASSUME NEW a \in Int, NEW b \in Int, NEW i \in Int, NEW n \in Int, NEW c \in Int,
         b - i = c + n
  PROVE  (a - i) - (n + (a - b)) = c
OBVIOUS

\* OPEN's handling of a message: in order or not, its user is given the next of
\* the peer's stream.
LEMMA DataFollows ==
  ASSUME NoWrap, TypeInv, Delivery, NEW e \in Endpoints, st[e] = "OPEN",
         NEW m \in net[e], m.type \in {"ACK", "EACK"}, rec[e].last < m.seq,
         NEW eff, eff = HandleData(HandleAck(rec[e], m.ack), m)
  PROVE  Follows(e, eff)
<1> DEFINE p   == Peer(e)
           r   == HandleAck(rec[e], m.ack)
           got == delivered[e]
<1>1. /\ p \in Endpoints /\ Peer(p) = e /\ m \in Segment /\ m.ack \in UInt /\ m.seq \in Nat
      /\ RecordOK("OPEN", rec[e]) /\ rec[e].last \in Nat
      /\ got \in Seq(Payload) /\ Len(got) \in Nat
  BY PeerType, Fields, SegmentFields DEF TypeInv, UInt
<1>2. /\ ISS[p] \in Nat /\ sent[p] \in Nat /\ ISS[p] + sent[p] + 2 < Modulus /\ Modulus \in Nat
  BY <1>1, DeliveryBounds
<1>3. RecordOK("OPEN", r) /\ r.last = rec[e].last /\ r.ooo = rec[e].ooo
  BY <1>1, HandleAckType
<1>4. r.next = rec[e].next
  BY <1>1 DEF HandleAck, RecordOK, Record
<1>5. Consecutive(e, rec[e], got)
  BY DEF Delivery, Given
<1>6. OfStream(r, ISS[p], sent[p])
  BY <1>3, <1>5 DEF Consecutive, OfStream
<1>7. m.data # NoData => m.seq = ISS[p] + m.data /\ m.data <= sent[p]
  BY <1>1 DEF Delivery, Tells, HasData
<1>8. UPlus(r.last, 1) = r.last + 1
  BY <1>1, <1>2, <1>3, <1>6 DEF OfStream, UPlus
<1> DEFINE c == Skipped(e, rec[e], got)
<1>9. c \in {0, 1} /\ \A i \in 1 .. Len(got) : got[i] = c + i
  BY <1>5 DEF Consecutive
<1>10. r.last - ISS[p] = c + Len(got)
  BY <1>1, <1>2, <1>3 DEF Skipped
<1>11. got \o << >> = got
  BY <1>1
<1> HIDE DEF r, c
<1>12. ASSUME eff.st = "OPEN", eff.queue = << >>, OfStream(eff.rec, ISS[p], sent[p]),
              eff.rec.last = r.last, eff.rec.next = r.next, \A o \in eff.out : ~ HasData(o)
       PROVE  Follows(e, eff)
  <2>1. Skipped(e, eff.rec, got) = c
    BY <1>3, <1>12 DEF Skipped, c
  <2>2. Consecutive(e, eff.rec, got)
    BY <1>9, <1>12, <2>1 DEF Consecutive
  <2> QED
    BY <1>4, <1>11, <1>12, <2>2 DEF Follows, Given
<1>13. CASE m.data = NoData
  <2>1. eff = Effect("OPEN", r, {})
    BY <1>13 DEF HandleData, r
  <2> QED
    BY <1>6, <1>12, <2>1 DEF Effect
<1>14. CASE m.data # NoData /\ m.seq # UPlus(r.last, 1)
  <2>1. eff = OutOfOrder(r, m)
    BY <1>14 DEF HandleData, r
  <2>2. r.last + 1 < m.seq
    BY <1>1, <1>3, <1>8, <1>14
  <2>3. /\ eff.st = "OPEN" /\ eff.queue = << >> /\ eff.rec.next = r.next
        /\ eff.rec.last = r.last /\ OfStream(eff.rec, ISS[p], sent[p])
        /\ eff.out = {EackSeg(eff.rec.next, eff.rec.last, Seqs(eff.rec.ooo))}
    <3> DEFINE first == ISS[p]
               n     == sent[p]
    <3>1. /\ RecordOK("OPEN", r) /\ m \in Segment /\ first \in Nat /\ n \in Nat
          /\ OfStream(r, first, n) /\ r.last + 1 < m.seq
          /\ m.seq = first + m.data /\ m.data <= n
      BY <1>1, <1>2, <1>3, <1>6, <1>7, <1>14, <2>2
    <3> HIDE DEF first, n
    <3>2. /\ eff.st = "OPEN" /\ eff.queue = << >> /\ eff.cum = {} /\ eff.one = {}
          /\ eff.out = {EackSeg(eff.rec.next, eff.rec.last, Seqs(eff.rec.ooo))}
          /\ eff.rec.next = r.next /\ eff.rec.maxOut = r.maxOut /\ eff.rec.oldest = r.oldest
          /\ eff.rec.last = r.last /\ Seqs(r.ooo) \subseteq Seqs(eff.rec.ooo)
          /\ OfStream(eff.rec, first, n)
      BY ONLY <2>1, <3>1, OutOfOrderInStream
    <3> QED
      BY ONLY <3>2 DEF first, n
  <2>4. \A o \in eff.out : ~ HasData(o)
    BY <2>3 DEF EackSeg, HasData, NoData
  <2> QED
    BY <1>12, <2>3, <2>4
<1>15. CASE m.data # NoData /\ m.seq = UPlus(r.last, 1)
  <2>1. eff = InOrder(r, m)
    BY <1>15 DEF HandleData, r
  <2>2. /\ eff.st = "OPEN" /\ eff.rec.next = r.next /\ eff.rec.last \in Nat
        /\ OfStream(eff.rec, ISS[p], sent[p]) /\ eff.out = {AckNow(eff.rec)}
        /\ Len(eff.queue) = eff.rec.last - r.last
        /\ \A j \in 1 .. Len(eff.queue) : eff.queue[j] = (r.last - ISS[p]) + j
    <3>1. m.seq = r.last + 1
      BY <1>8, <1>15
    <3>2. m.seq = ISS[p] + m.data /\ m.data <= sent[p]
      BY <1>7, <1>15
    <3>3. /\ RecordOK("OPEN", r) /\ m \in Segment /\ ISS[p] \in Nat /\ sent[p] \in Nat
          /\ ISS[p] + sent[p] + 2 < Modulus /\ OfStream(r, ISS[p], sent[p])
      BY <1>1, <1>2, <1>3, <1>6
    <3> HIDE DEF p
    <3>4. /\ eff.st = "OPEN" /\ eff.out = {AckNow(eff.rec)} /\ eff.cum = {} /\ eff.one = {}
          /\ eff.rec.next = r.next /\ eff.rec.maxOut = r.maxOut /\ eff.rec.oldest = r.oldest
          /\ r.last <= eff.rec.last /\ eff.rec.last \in Nat
          /\ OfStream(eff.rec, ISS[p], sent[p])
          /\ \A x \in UInt : x <= r.last \/ x \in Seqs(r.ooo)
                               => x <= eff.rec.last \/ x \in Seqs(eff.rec.ooo)
          /\ Len(eff.queue) = eff.rec.last - r.last
          /\ \A j \in 1 .. Len(eff.queue) : eff.queue[j] = (r.last - ISS[p]) + j
      BY ONLY <2>1, <3>1, <3>2, <3>3, InOrderInStream
    <3> QED
      BY ONLY <3>4
  <2>3. \A o \in eff.out : ~ HasData(o)
    BY <2>2 DEF AckNow, AckSeg, HasData, NoData
  <2>4. eff.queue \in Seq(Payload)
    <3>1. EffectOK(eff)
      BY <1>1, <1>3, HandleDataType DEF r
    <3> QED
      BY <3>1 DEF EffectOK
  <2> DEFINE all == got \o eff.queue
  <2>5. \A j \in 1 .. Len(eff.queue) : eff.queue[j] = (c + Len(got)) + j
    BY <1>10, <2>2
  <2>6. /\ Len(all) = Len(got) + Len(eff.queue) /\ \A i \in 1 .. Len(all) : all[i] = c + i
    <3>1. c \in Nat
      BY <1>9
    <3> HIDE DEF got
    <3> QED
      BY <1>1, <1>9, <2>4, <2>5, <3>1, CountingOn
  <2> HIDE DEF all
  <2>7. Skipped(e, eff.rec, all) = c
    <3>1. Len(all) = Len(got) + (eff.rec.last - r.last)
      BY <2>2, <2>6
    <3>2. r.last \in Nat /\ c \in Nat /\ eff.rec.last \in Nat /\ Len(got) \in Nat
          /\ ISS[p] \in Nat /\ r.last - ISS[p] = c + Len(got)
      BY <1>1, <1>2, <1>3, <1>9, <1>10, <2>2
    <3>3. (eff.rec.last - ISS[p]) - (Len(got) + (eff.rec.last - r.last)) = c
      <4> HIDE DEF p, got
      <4> QED
        BY ONLY <3>2, EndsTogether
    <3> QED
      BY ONLY <3>1, <3>3 DEF Skipped, p
  <2>8. Consecutive(e, eff.rec, all)
    BY <1>9, <2>2, <2>6, <2>7 DEF Consecutive
  <2> QED
    BY <1>4, <2>2, <2>3, <2>8 DEF Follows, Given, all
<1> QED
  BY <1>13, <1>14, <1>15

LEMMA HandleFollows ==
  ASSUME NoWrap, OneOpens, TypeInv, Greeting, Delivery, NEW e \in Endpoints,
         NEW m \in net[e], Handles(e, m)
  PROVE  Follows(e, GetNext(st[e], rec[e], m))
<1> DEFINE eff == GetNext(st[e], rec[e], m)
           p   == Peer(e)
<1>1. /\ m \in Segment /\ m.type \in SegmentType /\ m.seq \in UInt /\ m.ack \in UInt
      /\ rec[e] \in Record /\ RecordOK(st[e], rec[e])
      /\ p \in Endpoints /\ Peer(p) = e
      /\ st[e] \in StateName \ {"CLOSED"} /\ (e \in Active <=> p \notin Active)
  BY PeerType, SegmentFields DEF TypeInv, TypeOK, OneOpens, Handles, Registered
<1>2. m.type = "SYN" => m.seq = ISS[p] /\ (m.isAck <=> e \in Active)
  BY <1>1 DEF Greeting, Proper
<1>3. /\ e \in Active => st[e] \notin {"LISTEN", "SYN_RCVD"}
      /\ e \notin Active => st[e] # "SYN_SENT"
      /\ st[e] = "SYN_RCVD" => rec[e].initRecv = ISS[p]
  BY DEF Greeting, Met
<1>4. \A r \in Record : ~ HasData(AckNow(r)) /\ ~ HasData(ResetFor(m))
  BY DEF HasData, AckNow, AckSeg, ResetFor, RstSeg, NoData
<1>5. << >> \o << >> = << >>
  OBVIOUS
<1>6. st[e] \in {"LISTEN", "SYN_SENT", "SYN_RCVD"} => delivered[e] = << >> /\ rec[e].ooo = {}
  BY <1>1 DEF Delivery, Given, RecordOK
<1>7. Synchronised(rec[e], m).ooo = rec[e].ooo /\ Synchronised(rec[e], m).last = m.seq
      /\ Synchronised(rec[e], m).next = rec[e].next /\ Synchronised(rec[e], m) \in Record
  <2>1. Synchronised(rec[e], m) \in Record
    BY <1>1, SynchronisedNumbers
  <2> QED
    BY <1>1, <2>1 DEF Synchronised, Record
<1>8. CASE st[e] = "LISTEN"
  <2>1. e \notin Active /\ m.type = "SYN" /\ ~ m.isAck
    BY <1>2, <1>3, <1>8 DEF Handles
  <2>2. eff = Effect("SYN_RCVD", Synchronised(rec[e], m),
                     {SynSeg(rec[e].initSeq, m.seq, TRUE, MaxBuffered)})
    BY <1>8, <2>1 DEF GetNext, ListenNext
  <2>3. /\ eff.st = "SYN_RCVD" /\ eff.rec = Synchronised(rec[e], m) /\ eff.queue = << >>
        /\ \A o \in eff.out : ~ HasData(o)
    BY <2>2 DEF Effect, SynSeg, HasData
  <2> HIDE DEF eff
  <2>4. Consecutive(e, eff.rec, << >>)
    BY <1>2, <1>6, <1>7, <1>8, <2>1, <2>3, JustMet
  <2>5. Follows(e, eff)
    BY <1>2, <1>5, <1>6, <1>7, <1>8, <2>1, <2>3, <2>4 DEF Follows, Given
  <2> QED
    BY <2>5 DEF eff
<1>9. CASE st[e] = "SYN_SENT"
  <2>1. e \in Active /\ (m.type = "SYN" => m.isAck)
    BY <1>2, <1>3, <1>9
  <2>2. eff = SynSentNext(rec[e], m)
    BY <1>9 DEF GetNext
  <2>3. CASE m.type = "SYN"
    <3> DEFINE new == [Synchronised(rec[e], m) EXCEPT !.oldest = UPlus(m.ack, 1)]
    <3>1. /\ eff.st = "OPEN" /\ eff.rec = new /\ eff.out = {AckNow(new)} /\ eff.queue = << >>
      BY <2>1, <2>2, <2>3 DEF SynSentNext, Effect
    <3>2. new.ooo = {} /\ new.last = ISS[p] /\ new.next = rec[e].next
      BY <1>2, <1>6, <1>7, <1>9, <2>3 DEF Record
    <3>3. ~ HasData(AckNow(new))
      BY DEF HasData, AckNow, AckSeg, NoData
    <3> HIDE DEF new, eff
    <3>4. Consecutive(e, new, << >>)
      BY <3>2, JustMet
    <3>5. Follows(e, eff)
      BY <1>5, <1>6, <1>9, <3>1, <3>2, <3>3, <3>4 DEF Follows, Given
    <3> QED
      BY <3>5 DEF eff
  <2>4. CASE m.type # "SYN"
    <3>1. /\ eff.st = "SYN_SENT" /\ eff.rec = rec[e] /\ eff.queue = << >>
          /\ \A o \in eff.out : o = ResetFor(m)
      <4>1. \/ eff = Effect("SYN_SENT", rec[e], {})
            \/ eff = [Effect("SYN_SENT", rec[e], {}) EXCEPT !.cum = {m.ack}]
            \/ eff = Effect("SYN_SENT", rec[e], {ResetFor(m)})
        BY <1>1, <2>2, <2>4 DEF SynSentNext, SegmentType
      <4> QED
        BY <4>1 DEF Effect
    <3> HIDE DEF eff
    <3>2. Follows(e, eff)
      BY <1>1, <1>4, <1>9, <3>1, IdleFollows
    <3> QED
      BY <3>2 DEF eff
  <2> QED
    BY <2>3, <2>4
<1>10. CASE st[e] = "SYN_RCVD"
  <2>1. eff = SynRcvdNext(rec[e], m)
    BY <1>10 DEF GetNext
  <2>2. rec[e].last = ISS[p]
    BY <1>10 DEF Delivery, Given
  <2>3. CASE m.type = "ACK" /\ SeqNumOk(rec[e].initRecv, rec[e], m.seq) /\ m.ack = rec[e].initSeq
    <3>1. eff = [SynRcvdData(rec[e], m) EXCEPT !.cum = {m.ack}]
      BY <2>1, <2>3 DEF SynRcvdNext
    <3>2. CASE m.seq = UPlus(rec[e].last, 1) /\ m.data # NoData
      <4> DEFINE new == [rec[e] EXCEPT !.last = m.seq]
      <4>1. /\ eff.st = "OPEN" /\ eff.rec = new /\ eff.out = {AckNow(new)} /\ eff.queue = << >>
        BY <3>1, <3>2 DEF SynRcvdData, Effect
      <4>2. new.ooo = {} /\ new.last = m.seq /\ new.next = rec[e].next /\ new \in Record
        BY <1>1, <1>6, <1>10 DEF Record
      <4>3. ISS[p] \in Nat /\ sent[p] \in Nat /\ ISS[p] + sent[p] + 2 < Modulus /\ Modulus \in Nat
        BY <1>1, DeliveryBounds
      <4>4. m.seq = ISS[p] + 1
        BY <2>2, <3>2, <4>3 DEF UPlus
      <4>5. 1 <= sent[p]
        <5>1. m.seq = ISS[p] + m.data /\ m.data <= sent[p] /\ m.data \in Nat
          BY <1>1, <2>3, <3>2, SegmentFields DEF Delivery, Tells, HasData
        <5> QED
          BY <4>3, <4>4, <5>1
      <4> HIDE DEF new, eff
      <4>6. Consecutive(e, new, << >>)
        BY <4>2, <4>4, <4>5, MetWithData
      <4>7. Follows(e, eff)
        BY <1>4, <1>5, <1>6, <1>10, <4>1, <4>2, <4>6 DEF Follows, Given
      <4> QED
        BY <4>7 DEF eff
    <3>3. CASE ~ (m.seq = UPlus(rec[e].last, 1) /\ m.data # NoData)
      <4>1. /\ eff.st = "OPEN" /\ eff.rec = rec[e] /\ eff.out = {} /\ eff.queue = << >>
        BY <3>1, <3>3 DEF SynRcvdData, Effect
      <4> HIDE DEF eff
      <4>2. Consecutive(e, rec[e], << >>)
        BY <1>6, <1>10, <2>2, JustMet
      <4>3. Follows(e, eff)
        BY <1>5, <1>6, <1>10, <4>1, <4>2 DEF Follows, Given
      <4> QED
        BY <4>3 DEF eff
    <3> QED
      BY <3>2, <3>3
  <2>4. CASE ~ (m.type = "ACK" /\ SeqNumOk(rec[e].initRecv, rec[e], m.seq) /\ m.ack = rec[e].initSeq)
    <3>1. /\ eff.st \in {"SYN_RCVD", "CLOSED"} /\ eff.rec = rec[e] /\ eff.queue = << >>
          /\ \A o \in eff.out : o \in {AckNow(rec[e]), ResetFor(m)}
      BY <1>1, <2>1, <2>4 DEF SynRcvdNext, Effect, SegmentType
    <3> HIDE DEF eff
    <3>2. Follows(e, eff)
      BY <1>1, <1>4, <1>10, <3>1, IdleFollows
    <3> QED
      BY <3>2 DEF eff
  <2> QED
    BY <2>3, <2>4
<1>11. CASE st[e] = "OPEN"
  <2>1. eff = OpenNext(rec[e], m)
    BY <1>11 DEF GetNext
  <2>2. CASE ~ (m.type \in {"ACK", "EACK"} /\ SeqNumOk(rec[e].last, rec[e], m.seq))
    <3>1. /\ eff.st \in {"OPEN", "CLOSE_WAIT", "CLOSED"} /\ eff.rec = rec[e] /\ eff.queue = << >>
          /\ \A o \in eff.out : o \in {AckNow(rec[e]), ResetFor(m)}
      BY <1>1, <2>1, <2>2 DEF OpenNext, Effect, SegmentType
    <3> HIDE DEF eff
    <3>2. Follows(e, eff)
      BY <1>1, <1>4, <1>11, <3>1, IdleFollows
    <3> QED
      BY <3>2 DEF eff
  <2>3. CASE m.type \in {"ACK", "EACK"} /\ SeqNumOk(rec[e].last, rec[e], m.seq)
    <3> DEFINE data == HandleData(HandleAck(rec[e], m.ack), m)
    <3>1. Follows(e, data)
      <4>1. rec[e].last < m.seq
        BY <2>3 DEF SeqNumOk
      <4> QED
        BY <1>11, <2>3, <4>1, DataFollows
    <3>2. EffectOK(data)
      BY <1>1, <1>11, HandleAckType, HandleDataType
    <3>3. eff = [data EXCEPT !.cum = {m.ack}] \/ eff = [data EXCEPT !.one = m.recvd]
      BY <2>1, <2>3 DEF OpenNext
    <3> HIDE DEF data
    <3>4. eff.st = data.st /\ eff.rec = data.rec /\ eff.out = data.out /\ eff.queue = data.queue
      BY <3>2, <3>3 DEF EffectOK
    <3> HIDE DEF eff
    <3>5. Follows(e, eff)
      BY <3>1, <3>4 DEF Follows
    <3> QED
      BY <3>5 DEF eff
  <2> QED
    BY <2>2, <2>3
<1>12. CASE st[e] = "CLOSE_WAIT"
  <2>1. /\ eff.st \in {"CLOSED", "CLOSE_WAIT"} /\ eff.rec = rec[e] /\ eff.out = {}
        /\ eff.queue = << >>
    BY <1>12 DEF GetNext, CloseWaitNext, Effect
  <2> HIDE DEF eff
  <2>2. Follows(e, eff)
    BY <1>12, <2>1, IdleFollows
  <2> QED
    BY <2>2 DEF eff
<1> QED
  BY <1>1, <1>8, <1>9, <1>10, <1>11, <1>12 DEF StateName

LEMMA StreamGrows ==
  ASSUME NEW r, NEW q, q.last = r.last, q.ooo = r.ooo, r.ooo \in SUBSET HeldBack,
         r.last \in Nat, NEW first \in Nat, NEW n \in Nat, NEW more \in Nat, n <= more,
         OfStream(r, first, n)
  PROVE  OfStream(q, first, more)
BY DEF OfStream, HeldBack, Payload

\* After a call on e whose effect is eff, e's segments are those there were and
\* those it has sent.
LEMMA CallNet ==
  ASSUME TypeInv, NEW e \in Endpoints, NEW eff, Apply(e, eff), fired' = fired,
         \A f \in Endpoints : \A m \in net'[f] :
           m \in net[f] \/ (f = Peer(e) /\ m \in eff.out)
  PROVE  \A f \in Endpoints : \A m \in net'[Peer(f)] \cup retr'[f] \cup fired'[f] :
           m \in net[Peer(f)] \cup retr[f] \cup fired[f] \/ (f = e /\ m \in eff.out)
<1> SUFFICES ASSUME NEW f \in Endpoints, NEW m \in net'[Peer(f)] \cup retr'[f] \cup fired'[f]
             PROVE  m \in net[Peer(f)] \cup retr[f] \cup fired[f] \/ (f = e /\ m \in eff.out)
  OBVIOUS
<1>1. Peer(f) \in Endpoints /\ (Peer(f) = Peer(e) => f = e)
  BY PeerType
<1>2. retr'[f] = IF f = e THEN TrackedAfter(e, eff) ELSE retr[f]
  BY DEF Apply, TypeInv, TypeOK
<1>3. TrackedAfter(e, eff) \subseteq retr[e] \cup eff.out
  BY TrackedAfterSubset
<1> QED
  BY <1>1, <1>2, <1>3

LEMMA TransmitNet ==
  ASSUME TypeInv, NEW e \in Endpoints, NEW out, Transmit(e, out)
  PROVE  \A f \in Endpoints : \A m \in net'[f] :
           m \in net[f] \/ (f = Peer(e) /\ m \in out)
BY PeerType DEF Transmit, TypeInv, TypeOK

LEMMA DeliveryInit == NoWrap /\ Init => Delivery
<1> SUFFICES ASSUME NoWrap, Init PROVE Delivery
  OBVIOUS
<1>1. ASSUME NEW e \in Endpoints
      PROVE  /\ st[e] \in {"CLOSED", "LISTEN"} /\ sent[e] = 0 /\ delivered[e] = << >>
             /\ st[e] = "LISTEN" => rec[e].next = ISS[e] + 1
             /\ rec[e].last = 0 /\ rec[e].ooo = {}
             /\ net[Peer(e)] = {} /\ retr[e] = {} /\ fired[e] = {}
             /\ MaxSend[e] \in Nat /\ ISS[e] \in Nat
  <2>1. UPlus(ISS[e], 1) = ISS[e] + 1 /\ MaxSend[e] \in Nat /\ ISS[e] \in Nat
    BY Numeric DEF UPlus
  <2> QED
    BY <2>1, PeerType DEF Init, ListenRecord, ClosedRecord
<1>2. ASSUME NEW e \in Endpoints
      PROVE  Given(e, st[e], rec[e], delivered[e]) /\ Numbered(e)
  BY <1>1 DEF Given, Numbered
<1> QED
  BY <1>1, <1>2 DEF Delivery

LEMMA OpenDelivers ==
  ASSUME NoWrap, TypeInv, Delivery, NEW e \in Endpoints, Open(e)
  PROVE  Delivery'
<1> DEFINE p   == Peer(e)
           eff == ClosedOpen(ClosedRecord, ISS[e])
<1>1. /\ p \in Endpoints /\ Peer(p) = e /\ p # e
      /\ st[e] = "CLOSED" /\ rec[e] = ClosedRecord
  BY PeerType DEF Open
<1>2. ISS[e] \in Nat /\ sent[e] \in Nat /\ Modulus \in Nat /\ ISS[e] + sent[e] + 2 < Modulus
  BY DeliveryBounds
<1>3. sent[e] = 0 /\ delivered[e] = << >> /\ sent[e] <= MaxSend[e]
  <2>1. rec[e].next = 0
    BY <1>1 DEF ClosedRecord
  <2> QED
    BY <1>2, <2>1 DEF Delivery, Numbered
<1>4. /\ eff.st = "SYN_SENT" /\ eff.rec.next = ISS[e] + 1 /\ eff.queue = << >>
      /\ eff.rec.last = 0 /\ eff.rec.ooo = {}
      /\ \A o \in eff.out : ~ HasData(o)
  <2>1. UPlus(ISS[e], 1) = ISS[e] + 1
    BY <1>2 DEF UPlus
  <2>2. /\ eff.st = "SYN_SENT" /\ eff.queue = << >>
        /\ eff.out = {SynSeg(ISS[e], 0, FALSE, ClosedRecord.maxOut)}
        /\ eff.rec = [ClosedRecord EXCEPT !.next = UPlus(ISS[e], 1), !.oldest = ISS[e]]
    BY DEF ClosedOpen, Effect
  <2> HIDE DEF eff
  <2>3. eff.rec.next = ISS[e] + 1 /\ eff.rec.last = 0 /\ eff.rec.ooo = {}
    BY <2>1, <2>2 DEF ClosedRecord
  <2> QED
    BY <2>2, <2>3 DEF SynSeg, HasData
<1>5. /\ Apply(e, eff) /\ Transmit(e, eff.out) /\ UNCHANGED <<fired, sent>>
  BY <1>1 DEF Open
<1> HIDE DEF eff
<1>6. << >> \o << >> = << >>
  OBVIOUS
<1>7. /\ st'[e] = "SYN_SENT" /\ rec'[e] = eff.rec /\ delivered'[e] = << >>
      /\ \A f \in Endpoints \ {e} :
           st'[f] = st[f] /\ rec'[f] = rec[f] /\ delivered'[f] = delivered[f]
  BY <1>3, <1>4, <1>5, <1>6 DEF Apply, TypeInv, TypeOK
<1>8. \A f \in Endpoints : \A m \in net'[Peer(f)] \cup retr'[f] \cup fired'[f] :
        m \in net[Peer(f)] \cup retr[f] \cup fired[f] \/ ~ HasData(m)
  BY <1>4, <1>5, CallNet, TransmitNet
<1>9. ASSUME NEW f \in Endpoints
      PROVE  /\ Given(f, st'[f], rec'[f], delivered'[f])
             /\ sent[f] <= MaxSend[f]
             /\ \/ rec'[f].next = ISS[f] + 1 + sent[f]
                \/ st'[f] = "CLOSED" /\ sent[f] = 0 /\ delivered'[f] = << >>
  <2>1. CASE f = e
    BY <1>2, <1>3, <1>4, <1>7, <2>1 DEF Given
  <2>2. CASE f # e
    BY <1>7, <2>2 DEF Delivery, Numbered
  <2> QED
    BY <2>1, <2>2
<1>10. ASSUME NEW f \in Endpoints, NEW m \in net'[Peer(f)] \cup retr'[f] \cup fired'[f]
       PROVE  HasData(m) => m.seq = ISS[f] + m.data /\ m.data <= sent[f]
  BY <1>8, <1>10 DEF Delivery, Tells
<1>11. sent' = sent
  BY <1>5
<1>12. ASSUME NEW f \in Endpoints
       PROVE  Given(f, st[f], rec[f], delivered[f])'
  BY <1>9, <1>11 DEF Given, Consecutive, Skipped
<1>13. ASSUME NEW f \in Endpoints
       PROVE  Numbered(f)'
  BY <1>9, <1>11 DEF Numbered
<1>14. ASSUME NEW f \in Endpoints, NEW m \in net'[Peer(f)] \cup retr'[f] \cup fired'[f]
       PROVE  Tells(f, m)'
  BY <1>10, <1>11 DEF Tells, HasData
<1> QED
  BY ONLY <1>12, <1>13, <1>14 DEF Delivery

LEMMA SendDelivers ==
  ASSUME NoWrap, TypeInv, Delivery, NEW e \in Endpoints, Send(e)
  PROVE  Delivery'
<1> DEFINE p   == Peer(e)
           n   == sent[e] + 1
           seg == AckSeg(rec[e].next, rec[e].last, n)
           eff == OpenSend(rec[e], n)
<1>1. /\ p \in Endpoints /\ Peer(p) = e /\ p # e /\ Endpoints = {e, p}
  BY PeerType DEF Endpoints, Peer
<1>2. /\ st[e] = "OPEN" /\ sent[e] < MaxSend[e] /\ sent' = [sent EXCEPT ![e] = n]
      /\ Apply(e, eff) /\ Transmit(e, eff.out) /\ fired' = fired
  BY DEF Send
<1>3. /\ ISS[e] \in Nat /\ sent[e] \in Nat /\ Modulus \in Nat /\ ISS[e] + sent[e] + 2 < Modulus
      /\ sent[p] \in Nat /\ ISS[p] \in Nat /\ MaxSend[e] \in Nat
  BY <1>1, DeliveryBounds, Numeric
<1>4. rec[e].next = ISS[e] + n /\ UPlus(rec[e].next, 1) = ISS[e] + 1 + n
  <2>1. rec[e].next = ISS[e] + 1 + sent[e]
    BY <1>2 DEF Delivery, Numbered
  <2> QED
    BY <1>3, <2>1 DEF UPlus
<1>5. /\ eff.st = "OPEN" /\ eff.out = {seg} /\ eff.queue = << >>
      /\ eff.rec.next = ISS[e] + 1 + n /\ eff.rec.last = rec[e].last
      /\ eff.rec.ooo = rec[e].ooo
  BY <1>4, Fields DEF OpenSend, Effect, Record
<1>6. seg.seq = ISS[e] + n /\ seg.data = n
  BY <1>4 DEF AckSeg
<1> HIDE DEF eff, seg
<1>7. /\ st'[e] = "OPEN" /\ rec'[e] = eff.rec /\ delivered' = delivered
      /\ st'[p] = st[p] /\ rec'[p] = rec[p] /\ sent'[e] = n /\ sent'[p] = sent[p]
  <2>1. delivered[e] \o << >> = delivered[e]
    BY Fields
  <2> QED
    BY <1>1, <1>2, <1>5, <2>1 DEF Apply, TypeInv, TypeOK
<1>8. \A f \in Endpoints : \A m \in net'[Peer(f)] \cup retr'[f] \cup fired'[f] :
        m \in net[Peer(f)] \cup retr[f] \cup fired[f] \/ (f = e /\ m = seg)
  BY <1>2, <1>5, CallNet, TransmitNet
<1>9. ASSUME NEW f \in Endpoints
      PROVE  /\ st'[f] \in {"LISTEN", "SYN_SENT", "SYN_RCVD"} => delivered'[f] = << >>
             /\ st'[f] = "SYN_RCVD" => rec'[f].last = ISS[Peer(f)]
             /\ st'[f] \in {"SYN_RCVD", "OPEN"} \/ delivered'[f] # << >>
                  \/ rec'[f].last # 0 \/ rec'[f].ooo # {} =>
                  /\ OfStream(rec'[f], ISS[Peer(f)], sent'[Peer(f)])
                  /\ (rec'[f].last - ISS[Peer(f)]) - Len(delivered'[f]) \in {0, 1}
                  /\ \A i \in 1 .. Len(delivered'[f]) :
                       delivered'[f][i] = ((rec'[f].last - ISS[Peer(f)]) - Len(delivered'[f])) + i
  <2>1. Given(f, st[f], rec[f], delivered[f])
    BY DEF Delivery
  <2>2. /\ sent'[Peer(f)] \in Nat /\ sent[Peer(f)] \in Nat /\ sent[Peer(f)] <= sent'[Peer(f)]
        /\ ISS[Peer(f)] \in Nat
    BY <1>1, <1>3, <1>7
  <2>3. /\ rec'[f].last = rec[f].last /\ rec'[f].ooo = rec[f].ooo /\ st'[f] = st[f]
        /\ delivered'[f] = delivered[f]
    BY <1>1, <1>2, <1>5, <1>7
  <2>4. rec[f].ooo \in SUBSET HeldBack /\ rec[f].last \in Nat
    BY Fields
  <2>5. OfStream(rec[f], ISS[Peer(f)], sent[Peer(f)])
          => OfStream(rec'[f], ISS[Peer(f)], sent'[Peer(f)])
    BY <2>2, <2>3, <2>4, StreamGrows
  <2> QED
    BY <2>1, <2>3, <2>5 DEF Given, Consecutive, Skipped
<1>10. ASSUME NEW f \in Endpoints
       PROVE  /\ sent'[f] <= MaxSend[f]
              /\ \/ rec'[f].next = ISS[f] + 1 + sent'[f]
                 \/ st'[f] = "CLOSED" /\ sent'[f] = 0 /\ delivered'[f] = << >>
  <2>1. Numbered(f)
    BY DEF Delivery
  <2>2. CASE f = e
    BY <1>2, <1>3, <1>5, <1>7, <2>2
  <2>3. CASE f = p
    BY <1>7, <2>1, <2>3 DEF Numbered
  <2> QED
    BY <1>1, <2>2, <2>3
<1>11. ASSUME NEW f \in Endpoints, NEW m \in net'[Peer(f)] \cup retr'[f] \cup fired'[f],
              HasData(m)
       PROVE  m.seq = ISS[f] + m.data /\ m.data <= sent'[f]
  <2>1. CASE f = e /\ m = seg
    BY <1>3, <1>6, <1>7, <2>1
  <2>2. CASE m \in net[Peer(f)] \cup retr[f] \cup fired[f]
    <3>1. m.seq = ISS[f] + m.data /\ m.data <= sent[f]
      BY <1>11, <2>2 DEF Delivery, Tells
    <3>2. m \in Segment /\ m.data \in Nat
      BY <2>2, PeerType, SegmentFields DEF TypeInv, TypeOK
    <3>3. sent[f] \in Nat /\ sent'[f] \in Nat /\ sent[f] <= sent'[f]
      BY <1>1, <1>3, <1>7
    <3> QED
      BY <3>1, <3>2, <3>3
  <2> QED
    BY <1>8, <2>1, <2>2
<1>12. ASSUME NEW f \in Endpoints
       PROVE  Given(f, st[f], rec[f], delivered[f])'
  BY <1>9 DEF Given, Consecutive, Skipped
<1>13. ASSUME NEW f \in Endpoints
       PROVE  Numbered(f)'
  BY <1>10 DEF Numbered
<1>14. ASSUME NEW f \in Endpoints, NEW m \in net'[Peer(f)] \cup retr'[f] \cup fired'[f]
       PROVE  Tells(f, m)'
  BY <1>11 DEF Tells, HasData
<1> QED
  BY ONLY <1>12, <1>13, <1>14 DEF Delivery

LEMMA DeliveryNext ==
  ASSUME NoWrap, OneOpens, TypeInv, Greeting, Delivery, [Next]_vars
  PROVE  Delivery'
<1>1. CASE UNCHANGED vars
  BY <1>1 DEF vars, Delivery, Given, Consecutive, Skipped, Numbered, Tells
<1>2. ASSUME NEW e \in Endpoints, NEW eff, Follows(e, eff), Apply(e, eff),
             fired' = fired, sent' = sent,
             \A f \in Endpoints : \A m \in net'[f] :
               m \in net[f] \/ (f = Peer(e) /\ m \in eff.out)
      PROVE  Delivery'
  <2>1. \A f \in Endpoints : \A m \in net'[Peer(f)] \cup retr'[f] \cup fired'[f] :
          m \in net[Peer(f)] \cup retr[f] \cup fired[f] \/ ~ HasData(m)
    BY <1>2, CallNet DEF Follows
  <2> QED
    BY <1>2, <2>1, FollowsStep DEF Apply
<1>3. ASSUME NEW e \in Endpoints, NEW m \in net[e], NEW duplicated \in BOOLEAN,
             Handle(e, m, duplicated)
      PROVE  Delivery'
  <2> DEFINE eff == GetNext(st[e], rec[e], m)
  <2>1. Follows(e, eff)
    BY <1>3, HandleFollows DEF Handle
  <2>2. /\ Apply(e, eff) /\ fired' = fired /\ sent' = sent
        /\ net' = [net EXCEPT ![e] = IF duplicated THEN net[e] ELSE net[e] \ {m},
                              ![Peer(e)] = net[Peer(e)] \cup eff.out]
    BY <1>3, PeerType DEF Handle
  <2> HIDE DEF eff
  <2>3. \A f \in Endpoints : \A x \in net'[f] :
          x \in net[f] \/ (f = Peer(e) /\ x \in eff.out)
    BY <2>2, PeerType DEF TypeInv, TypeOK
  <2> QED
    BY <1>2, <2>1, <2>2, <2>3
\* Steps that leave connections and users alone, and make no new segment.
<1>4. ASSUME st' = st, rec' = rec, delivered' = delivered, sent' = sent,
             \A f \in Endpoints : \A m \in net'[Peer(f)] \cup retr'[f] \cup fired'[f] :
               m \in net[Peer(f)] \cup retr[f] \cup fired[f]
      PROVE  Delivery'
  <2>1. ASSUME NEW f \in Endpoints
        PROVE  Given(f, st[f], rec[f], delivered[f])' /\ Numbered(f)'
    BY <1>4 DEF Delivery, Given, Consecutive, Skipped, Numbered
  <2>2. ASSUME NEW f \in Endpoints, NEW m \in net'[Peer(f)] \cup retr'[f] \cup fired'[f]
        PROVE  Tells(f, m)'
    BY <1>4, <2>2 DEF Delivery, Tells, HasData
  <2> QED
    BY ONLY <2>1, <2>2 DEF Delivery
<1>5. ASSUME NEW e \in Endpoints, Step(e)
      PROVE  Delivery'
  <2>1. CASE Open(e)
    BY <2>1, OpenDelivers
  <2>2. CASE Send(e)
    BY <2>2, SendDelivers
  <2>3. CASE SendWaits(e) \/ SendTimesOut(e)
    BY <1>4, <2>3 DEF SendWaits, SendTimesOut
  <2>4. CASE Close(e)
    <3> DEFINE eff == CloseNext(st[e], rec[e])
    <3>1. /\ st[e] \in StateName \ {"CLOSED", "LISTEN"} /\ fired' = fired /\ sent' = sent
          /\ Apply(e, eff) /\ Transmit(e, eff.out)
      BY <2>4 DEF Close, TypeInv, TypeOK
    <3>2. /\ eff.st \in {"CLOSED", "CLOSE_WAIT"} /\ eff.rec = rec[e] /\ eff.queue = << >>
          /\ \A m \in eff.out : ~ HasData(m)
      BY <3>1 DEF CloseNext, Effect, ResetNow, RstSeg, StateName, HasData
    <3> HIDE DEF eff
    <3>3. Follows(e, eff)
      BY <3>1, <3>2, IdleFollows
    <3> QED
      BY <1>2, <3>1, <3>3, TransmitNet
  <2>5. CASE Receive(e) \/ Duplicate(e)
    BY <1>3, <2>5 DEF Receive, Duplicate
  <2>6. CASE Lose(e)
    <3>1. \A f \in Endpoints : net'[Peer(f)] \subseteq net[Peer(f)]
      BY <2>6, PeerType DEF Lose, TypeInv, TypeOK
    <3> QED
      BY <1>4, <2>6, <3>1 DEF Lose
  <2>7. CASE Fire(e)
    <3>1. /\ \A f \in Endpoints : fired'[f] \subseteq fired[f] \cup retr[f]
          /\ st' = st /\ rec' = rec /\ retr' = retr /\ net' = net /\ sent' = sent
          /\ delivered' = delivered
      BY <2>7 DEF Fire, TypeInv, TypeOK
    <3> QED
      BY <1>4, <3>1
  <2>8. CASE Retransmit(e)
    <3>1. /\ \A f \in Endpoints : /\ fired'[f] \subseteq fired[f]
                                  /\ retr'[f] \subseteq retr[f] \cup fired[f]
          /\ st' = st /\ rec' = rec /\ sent' = sent /\ delivered' = delivered
      BY <2>8 DEF Retransmit, Track, TypeInv, TypeOK
    <3>2. \A f \in Endpoints : \A m \in net'[Peer(f)] : m \in net[Peer(f)] \cup fired[f]
      BY <2>8, PeerType DEF Retransmit, Transmit, TypeInv, TypeOK
    <3> QED
      BY <1>4, <3>1, <3>2
  <2>9. CASE Expire(e)
    <3> DEFINE eff == TimerNext(st[e], rec[e])
    <3>1. /\ st' = [st EXCEPT ![e] = eff.st] /\ rec' = [rec EXCEPT ![e] = eff.rec]
          /\ UNCHANGED <<retr, fired, net, sent, delivered>>
      BY <2>9 DEF Expire
    <3>2. /\ eff.st \in {st[e], "CLOSED"} /\ eff.rec = rec[e] /\ eff.out = {}
          /\ eff.queue = << >>
      BY DEF TimerNext, Effect
    <3> HIDE DEF eff
    <3>3. Follows(e, eff)
      BY <3>2, IdleFollows
    <3>4. delivered' = [delivered EXCEPT ![e] = delivered[e] \o eff.queue]
      <4>1. delivered[e] \o << >> = delivered[e]
        BY Fields
      <4> QED
        BY <3>1, <3>2, <4>1 DEF TypeInv, TypeOK
    <3> QED
      BY <3>1, <3>3, <3>4, FollowsStep
  <2> QED
    BY <1>5, <2>1, <2>2, <2>3, <2>4, <2>5, <2>6, <2>7, <2>8, <2>9 DEF Step
<1> QED
  BY <1>1, <1>5 DEF Next

\* When one end opens and the other accepts, what a user is given is
\* consecutive, was sent, and starts with the first message or the second:
\* SYN-RCVD, which drops the data of the segment that opens it, is the only
\* place from handshake to close where the stream loses anything.
THEOREM InOrderAfterFirstHolds ==
  NoWrap /\ OneOpens => (Spec => []InOrderAfterFirst)
<1> SUFFICES ASSUME NoWrap, OneOpens PROVE Spec => []InOrderAfterFirst
  OBVIOUS
<1>1. ASSUME TypeInv, Delivery
      PROVE  InOrderAfterFirst
  <2> SUFFICES ASSUME NEW e \in Endpoints, delivered[Peer(e)] # << >>
               PROVE  LET got == delivered[Peer(e)]
                      IN /\ got[1] \in {1, 2}
                         /\ \A i \in DOMAIN got : got[i] = got[1] + i - 1
                         /\ got[Len(got)] <= sent[e]
    BY DEF InOrderAfterFirst
  <2> DEFINE f   == Peer(e)
             got == delivered[f]
             c   == Skipped(f, rec[f], got)
  <2>1. f \in Endpoints /\ Peer(f) = e
    BY PeerType
  <2>2. Consecutive(f, rec[f], got)
    BY <1>1, <2>1 DEF Delivery, Given
  <2>3. /\ got \in Seq(Payload) /\ Len(got) \in Nat /\ rec[f].last \in Nat
        /\ ISS[e] \in Nat /\ sent[e] \in Nat
    BY <2>1, <1>1, Fields, DeliveryBounds
  <2>4. /\ c \in {0, 1} /\ \A i \in 1 .. Len(got) : got[i] = c + i
        /\ c = (rec[f].last - ISS[e]) - Len(got) /\ rec[f].last <= ISS[e] + sent[e]
    BY <2>1, <2>2 DEF Consecutive, Skipped, OfStream
  <2>5. Len(got) >= 1 /\ DOMAIN got = 1 .. Len(got)
    BY <2>3
  <2> HIDE DEF got, c, f
  <2>6. got[1] = c + 1 /\ got[Len(got)] = c + Len(got)
    BY <2>3, <2>4, <2>5
  <2>7. /\ got[1] \in {1, 2} /\ \A i \in DOMAIN got : got[i] = got[1] + i - 1
        /\ got[Len(got)] <= sent[e]
    BY <2>3, <2>4, <2>5, <2>6
  <2> QED
    BY <2>7 DEF got, f
<1>2. Init => Delivery
  BY DeliveryInit
<1>3. TypeInv /\ Greeting /\ Delivery /\ [Next]_vars => Greeting' /\ Delivery'
  BY GreetingNext, DeliveryNext
<1>4. TypeInv /\ Delivery => InOrderAfterFirst
  BY <1>1
<1> QED
  BY <1>2, <1>3, <1>4, InitType, NextType, GreetingInit, PTL DEF Spec

----------------------------------------------------------------------------
(***************************************************************************)
(* Flow control from the handshake on: what an end has sent and its peer   *)
(* has not yet taken stays tracked, inside the window that the peer        *)
(* announced, whichever of SYN-SENT, SYN-RCVD and OPEN either end is in.   *)
(***************************************************************************)

\* The window e's peer announces in its SYN or SYN/ACK.
Told(e) == IF e \in Active THEN MaxBuffered ELSE MaxOutstanding

\* Record r has taken segment n.
Has(r, n) == n <= r.last \/ n \in Seqs(r.ooo)

\* What e's record r holds in state s.
Keeps(e, s, r) ==
  /\ s \in {"LISTEN", "SYN_SENT"} => r.last = 0
  /\ s \in {"LISTEN", "SYN_SENT", "SYN_RCVD"} => sent[e] = 0 /\ r.oldest = ISS[e]
  /\ s = "SYN_RCVD" => r.maxOut = Told(e)
  /\ r.initRecv = ISS[Peer(e)] => OfStream(r, ISS[Peer(e)], sent[Peer(e)])

\* An end that may have sent, e with record r, has been heard by its peer, whose
\* record is q, and keeps to the window it was told.
Ahead(e, s, r, q) ==
  s = "OPEN" \/ sent[e] # 0 =>
    /\ q.initRecv = ISS[e] /\ r.oldest <= q.last + 1
    /\ r.maxOut = Told(e) /\ r.next <= r.oldest + r.maxOut

\* What a segment of e's acknowledges, e's record r has taken.
Sincere(e, m, r) ==
  /\ m.type \in {"ACK", "EACK"} => r.initRecv = ISS[Peer(e)] /\ m.ack <= r.last
  /\ m.type = "EACK" => \A n \in m.recvd : Has(r, n)
  /\ m.type = "SYN" => /\ m.maxOut = Told(Peer(e))
                       /\ m.isAck => r.initRecv = ISS[Peer(e)] /\ m.ack = ISS[Peer(e)]

Flow ==
  /\ KeptUntilTaken
  /\ \A e \in Endpoints :
       /\ Keeps(e, st[e], rec[e]) /\ Ahead(e, st[e], rec[e], rec[Peer(e)])
       /\ \A m \in net[Peer(e)] \cup retr[e] \cup fired[e] : Sincere(e, m, rec[e])

\* An effect of e's that keeps to it, and sends no data.
Serves(e, eff) ==
  LET q == rec[Peer(e)] IN
  /\ Keeps(e, eff.st, eff.rec) /\ Ahead(e, eff.st, eff.rec, q)
  /\ Met(e) => eff.rec.initRecv = ISS[Peer(e)]
  /\ rec[e].last <= eff.rec.last /\ rec[e].oldest <= eff.rec.oldest
  /\ rec[e].next <= eff.rec.next
  /\ \A n \in UInt : Has(rec[e], n) => Has(eff.rec, n)
  /\ \A o \in eff.out : ~ HasData(o) /\ Sincere(e, o, eff.rec)
  /\ eff.st = "OPEN" /\ sent[e] # 0 =>
       /\ st[e] = "OPEN"
       /\ \A n \in eff.cum : n <= q.last
       /\ \A n \in eff.one : Has(q, n)

\* The numbers of an end that may have sent, with what bounds them.
LEMMA FlowBounds ==
  ASSUME NoWrap, TypeInv, Delivery, Flow, NEW e \in Endpoints, st[e] = "OPEN" \/ sent[e] # 0
  PROVE  /\ Met(Peer(e)) /\ ISS[e] <= rec[Peer(e)].last
         /\ rec[Peer(e)].last <= ISS[e] + sent[e]
         /\ rec[Peer(e)].last + 2 < Modulus
<1>1. Peer(e) \in Endpoints /\ Peer(Peer(e)) = e
  BY PeerType
<1>2. rec[Peer(e)].initRecv = ISS[e]
  BY DEF Flow, Ahead
<1>3. OfStream(rec[Peer(e)], ISS[e], sent[e])
  <2>1. Keeps(Peer(e), st[Peer(e)], rec[Peer(e)])
    BY <1>1 DEF Flow
  <2> QED
    BY <1>1, <1>2, <2>1 DEF Keeps
<1>4. ISS[e] <= rec[Peer(e)].last /\ rec[Peer(e)].last <= ISS[e] + sent[e]
  BY <1>3 DEF OfStream
<1>5. /\ ISS[e] \in Nat /\ sent[e] \in Nat /\ ISS[e] + sent[e] + 2 < Modulus /\ Modulus \in Nat
      /\ rec[Peer(e)].last \in Nat
  BY <1>1, DeliveryBounds, Fields
<1>6. rec[Peer(e)].last + 2 < Modulus
  BY <1>4, <1>5
<1> QED
  BY <1>1, <1>2, <1>4, <1>6 DEF Met

\* What is true of a segment stays true while the record's numbers grow.
LEMMA StaysSincere ==
  ASSUME NEW e \in Endpoints, NEW m \in Segment, NEW r \in Record, NEW new \in Record,
         Sincere(e, m, r), r.last <= new.last,
         r.initRecv = ISS[Peer(e)] => new.initRecv = ISS[Peer(e)],
         \A n \in UInt : Has(r, n) => Has(new, n)
  PROVE  Sincere(e, m, new)
<1>1. m.ack \in Nat /\ m.recvd \subseteq UInt /\ r.last \in Nat /\ new.last \in Nat
  BY SegmentFields, RecordFields, SegmentsAssumption DEF UInt
<1>2. m.type \in {"ACK", "EACK"} => new.initRecv = ISS[Peer(e)] /\ m.ack <= new.last
  BY <1>1 DEF Sincere
<1>3. m.type = "EACK" => \A n \in m.recvd : Has(new, n)
  BY <1>1 DEF Sincere
<1> QED
  BY <1>2, <1>3 DEF Sincere

\* A message that is in nobody's hands stays tracked through a call.
LEMMA StaysTracked ==
  ASSUME NoWrap, TypeInv, Delivery, Flow, NEW e \in Endpoints, NEW eff, EffectOK(eff),
         Serves(e, eff), eff.st = "OPEN", NEW m \in retr[e], HasData(m),
         ~ Has(rec[Peer(e)], m.seq)
  PROVE  m \in TrackedAfter(e, eff)
<1>1. /\ m \in Segment /\ m.seq \in UInt /\ m.data \in Nat /\ sent[e] \in Nat
  BY Fields, SegmentFields
<1>2. sent[e] # 0
  <2>1. m.data <= sent[e]
    BY DEF Delivery, Tells
  <2> QED
    BY <1>1, <2>1 DEF HasData, NoData
<1>3. m.seq \notin eff.one
  BY <1>2 DEF Serves
<1>4. ASSUME NEW c \in eff.cum
      PROVE  ~ (m.seq < UPlus(c, 1))
  <2>1. c <= rec[Peer(e)].last /\ rec[Peer(e)].last + 2 < Modulus
    BY <1>2, FlowBounds DEF Serves
  <2>2. /\ c \in Nat /\ Modulus \in Nat /\ rec[Peer(e)].last \in Nat /\ m.seq \in Nat
    BY <1>1, PeerType, Fields, SegmentsAssumption DEF EffectOK, UInt
  <2>3. UPlus(c, 1) = c + 1
    BY <2>1, <2>2 DEF UPlus
  <2>4. ~ (m.seq <= rec[Peer(e)].last)
    BY DEF Has
  <2> QED
    BY <2>1, <2>2, <2>3, <2>4
<1>5. m \in Unacked(retr[e], eff.cum, eff.one)
  BY <1>3, <1>4 DEF Unacked
<1>6. {o \in eff.out : HasData(o)} = {}
  BY DEF Serves
<1> QED
  BY <1>5, <1>6 DEF TrackedAfter, Track

LEMMA ServesStep ==
  ASSUME NoWrap, TypeInv, Greeting, Delivery, Flow, NEW e \in Endpoints, NEW eff,
         EffectOK(eff), Serves(e, eff),
         st' = [st EXCEPT ![e] = eff.st], rec' = [rec EXCEPT ![e] = eff.rec], sent' = sent,
         retr' = [retr EXCEPT ![e] = TrackedAfter(e, eff)] \/ retr' = retr,
         \A f \in Endpoints : \A m \in net'[Peer(f)] \cup retr'[f] \cup fired'[f] :
           m \in net[Peer(f)] \cup retr[f] \cup fired[f] \/ (f = e /\ m \in eff.out)
  PROVE  Flow' /\ NumbersGrow
<1> DEFINE p == Peer(e)
<1>1. /\ p \in Endpoints /\ Peer(p) = e /\ p # e /\ Endpoints = {e, p}
  BY PeerType DEF Endpoints, Peer
<1>2. /\ st'[e] = eff.st /\ rec'[e] = eff.rec /\ st'[p] = st[p] /\ rec'[p] = rec[p]
      /\ retr'[p] = retr[p] /\ (retr'[e] = TrackedAfter(e, eff) \/ retr'[e] = retr[e])
  BY <1>1 DEF TypeInv, TypeOK
<1>3. /\ rec[e].last \in Nat /\ rec[p].last \in Nat /\ rec[p].oldest \in Nat
      /\ rec[p].next \in Nat /\ rec[e] \in Record /\ rec[p] \in Record
      /\ eff.rec \in Record /\ eff.rec.last \in Nat
  BY <1>1, Fields, RecordFields, SegmentsAssumption DEF EffectOK, UInt
<1>4. ASSUME NEW f \in Endpoints, NEW n \in UInt, Has(rec[f], n)
      PROVE  Has(rec'[f], n)
  BY <1>1, <1>2, <1>4 DEF Serves
<1>5. ASSUME NEW f \in Endpoints
      PROVE  Keeps(f, st'[f], rec'[f]) /\ Ahead(f, st'[f], rec'[f], rec'[Peer(f)])
  <2>1. CASE f = e
    BY <1>1, <1>2, <2>1 DEF Serves
  <2>2. CASE f = p
    <3>1. Keeps(p, st[p], rec[p]) /\ Ahead(p, st[p], rec[p], rec[e])
      BY <1>1 DEF Flow
    <3>2. rec[e].initRecv = ISS[p] => eff.rec.initRecv = ISS[p]
      BY DEF Serves, Met
    <3>3. rec[p].oldest <= rec[e].last + 1 => rec[p].oldest <= eff.rec.last + 1
      BY <1>3 DEF Serves
    <3>4. Ahead(p, st[p], rec[p], eff.rec)
      BY <3>1, <3>2, <3>3 DEF Ahead
    <3> QED
      BY <1>1, <1>2, <2>2, <3>1, <3>4
  <2> QED
    BY <1>1, <2>1, <2>2
<1>6. ASSUME NEW f \in Endpoints, NEW m \in net'[Peer(f)] \cup retr'[f] \cup fired'[f]
      PROVE  Sincere(f, m, rec'[f])
  <2>1. CASE m \in eff.out /\ f = e
    BY <1>2, <2>1 DEF Serves
  <2>2. CASE m \in net[Peer(f)] \cup retr[f] \cup fired[f]
    <3>1. Sincere(f, m, rec[f]) /\ m \in Segment
      BY <2>2, PeerType, Fields DEF Flow
    <3>2. CASE f = e
      BY <1>2, <1>3, <1>4, <3>1, <3>2, StaysSincere DEF Serves, Met
    <3>3. CASE f = p
      BY <1>2, <3>1, <3>3
    <3> QED
      BY <1>1, <3>2, <3>3
  <2> QED
    BY <1>6, <2>1, <2>2
<1>7. ASSUME NEW f \in Endpoints, st'[f] = "OPEN", NEW n \in 1 .. sent[f]
      PROVE  (\E m \in retr'[f] : m.data = n) \/ Has(rec'[Peer(f)], ISS[f] + n)
  <2>1. ISS[f] + n \in UInt /\ sent[f] # 0
    BY DeliveryBounds DEF UInt
  <2>2. CASE Has(rec[Peer(f)], ISS[f] + n)
    BY <1>4, <2>1, <2>2, PeerType
  <2>3. CASE ~ Has(rec[Peer(f)], ISS[f] + n)
    <3>1. st[f] = "OPEN"
      BY <1>1, <1>2, <1>7, <2>1 DEF Serves
    <3>2. PICK m \in retr[f] : m.data = n
      BY <2>3, <3>1 DEF Flow, KeptUntilTaken, Has, Taken
    <3>3. HasData(m) /\ m.seq = ISS[f] + n
      BY <3>2 DEF Greeting, Delivery, Tells
    <3>4. CASE f = p
      BY <1>2, <3>2, <3>4
    <3>5. CASE f = e
      <4>1. m \in TrackedAfter(e, eff)
        BY <1>2, <1>7, <2>3, <3>2, <3>3, <3>5, StaysTracked
      <4> QED
        BY <1>2, <3>2, <3>5, <4>1
    <3> QED
      BY <1>1, <3>4, <3>5
  <2> QED
    BY <2>2, <2>3
<1>8. KeptUntilTaken'
  BY <1>7 DEF KeptUntilTaken, Has, Taken
<1>9. ASSUME NEW f \in Endpoints
      PROVE  Keeps(f, st[f], rec[f])' /\ Ahead(f, st[f], rec[f], rec[Peer(f)])'
  BY <1>5 DEF Keeps, Ahead
<1>10. ASSUME NEW f \in Endpoints, NEW m \in net'[Peer(f)] \cup retr'[f] \cup fired'[f]
       PROVE  Sincere(f, m, rec[f])'
  BY <1>6, <1>10 DEF Sincere, Has
<1>11. Flow'
  BY ONLY <1>8, <1>9, <1>10 DEF Flow
<1>12. NumbersGrow
  <2>1. /\ rec[e].last <= rec'[e].last /\ rec[e].oldest <= rec'[e].oldest
        /\ rec[e].next <= rec'[e].next
    BY <1>2 DEF Serves
  <2>2. /\ rec[p].last <= rec'[p].last /\ rec[p].oldest <= rec'[p].oldest
        /\ rec[p].next <= rec'[p].next
    BY <1>2, <1>3
  <2> QED
    BY <1>1, <2>1, <2>2 DEF NumbersGrow
<1> QED
  BY <1>11, <1>12

\* Effects that leave the record alone and end the connection at most.
LEMMA IdleServes ==
  ASSUME TypeInv, Flow, NEW e \in Endpoints, NEW eff,
         eff.st \in {st[e], "CLOSE_WAIT", "CLOSED"}, eff.rec = rec[e],
         eff.st = "OPEN" => eff.cum = {} /\ eff.one = {},
         \A o \in eff.out : ~ HasData(o) /\ (o.type = "RST" \/ (o = AckNow(rec[e]) /\ Met(e)))
  PROVE  Serves(e, eff)
<1>1. rec[e].last \in Nat /\ rec[e].oldest \in Nat /\ rec[e].next \in Nat
  BY Fields
<1>2. Keeps(e, st[e], rec[e]) /\ Ahead(e, st[e], rec[e], rec[Peer(e)])
  BY DEF Flow
<1>3. Keeps(e, eff.st, rec[e])
  BY <1>2 DEF Keeps
<1>4. Ahead(e, eff.st, rec[e], rec[Peer(e)])
  BY <1>2 DEF Ahead
<1>5. ASSUME NEW o \in eff.out
      PROVE  Sincere(e, o, rec[e])
  BY <1>1, <1>5 DEF Sincere, AckNow, AckSeg, Met
<1> QED
  BY <1>1, <1>3, <1>4, <1>5 DEF Serves, Met

\* OPEN's handling of a message takes it, or holds it back, and says so.
LEMMA DataServes ==
  ASSUME NoWrap, TypeInv, Greeting, Delivery, Flow, NEW e \in Endpoints, st[e] = "OPEN",
         NEW m \in net[e], m.type \in {"ACK", "EACK"}, rec[e].last < m.seq,
         NEW eff, eff = HandleData(HandleAck(rec[e], m.ack), m)
  PROVE  /\ Keeps(e, eff.st, eff.rec) /\ Ahead(e, eff.st, eff.rec, rec[Peer(e)])
         /\ rec[e].last <= eff.rec.last /\ rec[e].oldest <= eff.rec.oldest
         /\ \A n \in UInt : Has(rec[e], n) => Has(eff.rec, n)
         /\ \A o \in eff.out : Sincere(e, o, eff.rec)
<1> DEFINE p == Peer(e)
           r == HandleAck(rec[e], m.ack)
<1>1. /\ p \in Endpoints /\ Peer(p) = e /\ m \in Segment /\ m.ack \in UInt /\ m.seq \in Nat
      /\ RecordOK("OPEN", rec[e]) /\ rec[e].last \in Nat /\ m.ack \in Nat
      /\ rec[e].next \in Nat /\ rec[e].oldest \in Nat /\ rec[e].maxOut \in Nat
      /\ rec[e] \in Record /\ rec[p].last \in Nat
  BY PeerType, Fields, SegmentFields, SegmentsAssumption DEF TypeInv, UInt
<1>2. /\ ISS[p] \in Nat /\ sent[p] \in Nat /\ ISS[p] + sent[p] + 2 < Modulus /\ Modulus \in Nat
  BY <1>1, DeliveryBounds
<1>3. RecordOK("OPEN", r) /\ r.last = rec[e].last /\ r.ooo = rec[e].ooo
  BY <1>1, HandleAckType
<1>4. Met(e) /\ OfStream(rec[e], ISS[p], sent[p])
  BY DEF Greeting, Flow, Keeps, Met
<1>5. OfStream(r, ISS[p], sent[p])
  BY <1>3, <1>4 DEF OfStream
<1>6. m.data # NoData => m.seq = ISS[p] + m.data /\ m.data <= sent[p]
  BY <1>1 DEF Delivery, Tells, HasData
<1>7. UPlus(r.last, 1) = r.last + 1
  BY <1>1, <1>2, <1>3, <1>5 DEF OfStream, UPlus
<1>8. m.ack <= rec[p].last /\ rec[p].last + 2 < Modulus
  BY <1>1, FlowBounds DEF Flow, Sincere
<1>9. Ahead(e, "OPEN", rec[e], rec[p])
  BY DEF Flow
<1>10. /\ r.initRecv = ISS[p] /\ Ahead(e, "OPEN", r, rec[p]) /\ rec[e].oldest <= r.oldest
  <2>1. CASE rec[e].oldest <= m.ack /\ m.ack < rec[e].next
    <3>1. UPlus(m.ack, 1) = m.ack + 1
      BY <1>1, <1>2, <1>8 DEF UPlus
    <3>2. r = [rec[e] EXCEPT !.oldest = m.ack + 1]
      BY <2>1, <3>1 DEF HandleAck
    <3>3. /\ r.oldest = m.ack + 1 /\ r.next = rec[e].next /\ r.maxOut = rec[e].maxOut
          /\ r.initRecv = rec[e].initRecv
      BY <1>1, <3>2 DEF Record
    <3>4. r.oldest <= rec[p].last + 1 /\ rec[e].oldest <= r.oldest
      BY <1>1, <1>8, <2>1, <3>3
    <3>5. r.next <= r.oldest + r.maxOut
      <4>1. rec[e].next <= rec[e].oldest + rec[e].maxOut
        BY <1>9 DEF Ahead
      <4>2. rec[e].oldest + rec[e].maxOut <= (m.ack + 1) + rec[e].maxOut
        BY <1>1, <2>1
      <4> QED
        BY <1>1, <3>3, <4>1, <4>2
    <3> QED
      BY <1>4, <1>9, <3>3, <3>4, <3>5 DEF Ahead, Met
  <2>2. CASE ~ (rec[e].oldest <= m.ack /\ m.ack < rec[e].next)
    BY <1>1, <1>4, <1>9, <2>2 DEF HandleAck, Met
  <2> QED
    BY <2>1, <2>2
<1>11. eff.rec.initRecv = r.initRecv
  BY <1>1, <1>4, <1>10, DataKeepsNumbers DEF Met
<1> HIDE DEF r
\* What remains to be shown of each way of handling the data.
<1>12. ASSUME eff.st = "OPEN", eff.rec.next = r.next, eff.rec.maxOut = r.maxOut,
              eff.rec.oldest = r.oldest, r.last <= eff.rec.last,
              OfStream(eff.rec, ISS[p], sent[p]),
              \A n \in UInt : Has(r, n) => Has(eff.rec, n),
              \A o \in eff.out : Sincere(e, o, eff.rec)
       PROVE  /\ Keeps(e, eff.st, eff.rec) /\ Ahead(e, eff.st, eff.rec, rec[Peer(e)])
              /\ rec[e].last <= eff.rec.last /\ rec[e].oldest <= eff.rec.oldest
              /\ \A n \in UInt : Has(rec[e], n) => Has(eff.rec, n)
              /\ \A o \in eff.out : Sincere(e, o, eff.rec)
  <2>1. Keeps(e, eff.st, eff.rec)
    BY <1>12 DEF Keeps
  <2>2. Ahead(e, eff.st, eff.rec, rec[p])
    BY <1>10, <1>12 DEF Ahead
  <2>3. \A n \in UInt : Has(rec[e], n) => Has(eff.rec, n)
    BY <1>3, <1>12 DEF Has
  <2> QED
    BY <1>3, <1>10, <1>12, <2>1, <2>2, <2>3
<1>13. CASE m.data = NoData
  <2>1. eff = Effect("OPEN", r, {})
    BY <1>13 DEF HandleData, r
  <2>2. eff.st = "OPEN" /\ eff.rec = r /\ eff.out = {}
    BY <2>1 DEF Effect
  <2> QED
    BY <1>1, <1>3, <1>5, <1>12, <2>2
<1>14. CASE m.data # NoData /\ m.seq # UPlus(r.last, 1)
  <2>1. eff = OutOfOrder(r, m)
    BY <1>14 DEF HandleData, r
  <2>2. r.last + 1 < m.seq
    BY <1>1, <1>3, <1>7, <1>14
  <2>3. /\ eff.st = "OPEN" /\ eff.rec.next = r.next /\ eff.rec.maxOut = r.maxOut
        /\ eff.rec.oldest = r.oldest /\ eff.rec.last = r.last
        /\ Seqs(r.ooo) \subseteq Seqs(eff.rec.ooo) /\ OfStream(eff.rec, ISS[p], sent[p])
        /\ eff.out = {EackSeg(eff.rec.next, eff.rec.last, Seqs(eff.rec.ooo))}
    <3> DEFINE first == ISS[p]
               n     == sent[p]
    <3>1. /\ RecordOK("OPEN", r) /\ m \in Segment /\ first \in Nat /\ n \in Nat
          /\ OfStream(r, first, n) /\ r.last + 1 < m.seq
          /\ m.seq = first + m.data /\ m.data <= n
      BY <1>1, <1>2, <1>3, <1>5, <1>6, <1>14, <2>2
    <3> HIDE DEF first, n
    <3>2. /\ eff.st = "OPEN" /\ eff.queue = << >> /\ eff.cum = {} /\ eff.one = {}
          /\ eff.out = {EackSeg(eff.rec.next, eff.rec.last, Seqs(eff.rec.ooo))}
          /\ eff.rec.next = r.next /\ eff.rec.maxOut = r.maxOut /\ eff.rec.oldest = r.oldest
          /\ eff.rec.last = r.last /\ Seqs(r.ooo) \subseteq Seqs(eff.rec.ooo)
          /\ OfStream(eff.rec, first, n)
      BY ONLY <2>1, <3>1, OutOfOrderInStream
    <3> QED
      BY ONLY <3>2 DEF first, n
  <2>4. \A o \in eff.out : Sincere(e, o, eff.rec)
    BY <1>1, <1>3, <1>10, <1>11, <2>3 DEF Sincere, EackSeg, Has
  <2>5. \A n \in UInt : Has(r, n) => Has(eff.rec, n)
    BY <2>3 DEF Has
  <2> QED
    BY <1>1, <1>3, <1>12, <2>3, <2>4, <2>5
<1>15. CASE m.data # NoData /\ m.seq = UPlus(r.last, 1)
  <2>1. eff = InOrder(r, m)
    BY <1>15 DEF HandleData, r
  <2>2. /\ eff.st = "OPEN" /\ eff.out = {AckNow(eff.rec)} /\ eff.rec.next = r.next
        /\ eff.rec.maxOut = r.maxOut /\ eff.rec.oldest = r.oldest
        /\ r.last <= eff.rec.last /\ eff.rec.last \in Nat
        /\ OfStream(eff.rec, ISS[p], sent[p])
        /\ \A n \in UInt : Has(r, n) => Has(eff.rec, n)
    <3> DEFINE first == ISS[p]
               n     == sent[p]
    <3>1. /\ RecordOK("OPEN", r) /\ m \in Segment /\ first \in Nat /\ n \in Nat
          /\ first + n + 2 < Modulus /\ OfStream(r, first, n) /\ m.seq = r.last + 1
          /\ m.seq = first + m.data /\ m.data <= n
      BY <1>1, <1>2, <1>3, <1>5, <1>6, <1>7, <1>15
    <3> HIDE DEF first, n
    <3>2. /\ eff.st = "OPEN" /\ eff.out = {AckNow(eff.rec)} /\ eff.cum = {} /\ eff.one = {}
          /\ eff.rec.next = r.next /\ eff.rec.maxOut = r.maxOut /\ eff.rec.oldest = r.oldest
          /\ r.last <= eff.rec.last /\ eff.rec.last \in Nat
          /\ OfStream(eff.rec, first, n)
          /\ \A x \in UInt : x <= r.last \/ x \in Seqs(r.ooo)
                               => x <= eff.rec.last \/ x \in Seqs(eff.rec.ooo)
          /\ Len(eff.queue) = eff.rec.last - r.last
          /\ \A j \in 1 .. Len(eff.queue) : eff.queue[j] = (r.last - first) + j
      BY ONLY <2>1, <3>1, InOrderInStream
    <3> QED
      BY ONLY <3>2 DEF Has, first, n
  <2>3. \A o \in eff.out : Sincere(e, o, eff.rec)
    BY <1>10, <1>11, <2>2 DEF Sincere, AckNow, AckSeg
  <2> QED
    BY <1>12, <2>2, <2>3
<1> QED
  BY <1>13, <1>14, <1>15

LEMMA HandleServes ==
  ASSUME NoWrap, OneOpens, TypeInv, Greeting, Delivery, Flow, NEW e \in Endpoints,
         NEW m \in net[e], Handles(e, m)
  PROVE  Serves(e, GetNext(st[e], rec[e], m))
<1> DEFINE eff == GetNext(st[e], rec[e], m)
           p   == Peer(e)
<1>1. /\ m \in Segment /\ m.type \in SegmentType /\ m.seq \in UInt /\ m.ack \in UInt
      /\ rec[e] \in Record /\ RecordOK(st[e], rec[e])
      /\ p \in Endpoints /\ Peer(p) = e /\ p # e
      /\ st[e] \in StateName \ {"CLOSED"} /\ (e \in Active <=> p \notin Active)
  BY PeerType, SegmentFields DEF TypeInv, TypeOK, OneOpens, Handles, Registered
<1>2. /\ m.type = "SYN" => m.seq = ISS[p] /\ (m.isAck <=> e \in Active)
      /\ Sincere(p, m, rec[p])
  BY <1>1 DEF Greeting, Proper, Flow
<1>3. /\ e \in Active => st[e] \notin {"LISTEN", "SYN_RCVD"}
      /\ e \notin Active => st[e] # "SYN_SENT" /\ rec[e].initSeq = ISS[e]
      /\ st[e] \in {"SYN_RCVD", "OPEN"} => Met(e)
  BY DEF Greeting
<1>4. Fits(e, eff) /\ Follows(e, eff)
  BY HandleFits, HandleFollows
<1>5. /\ Keeps(e, st[e], rec[e]) /\ Ahead(e, st[e], rec[e], rec[p])
      /\ Keeps(p, st[p], rec[p])
  BY <1>1 DEF Flow
<1>6. /\ rec[e].last \in Nat /\ rec[e].oldest \in Nat /\ rec[e].next \in Nat
      /\ rec[p].last \in Nat /\ ISS[e] \in Nat /\ ISS[p] \in Nat /\ sent[e] \in Nat
      /\ Modulus \in Nat /\ ISS[e] + sent[e] + 2 < Modulus
      /\ MaxBuffered \in Nat /\ MaxOutstanding \in Nat
      /\ 1 <= Told(e) /\ Told(e) \in Nat
  BY <1>1, Fields, DeliveryBounds, SegmentsAssumption DEF Told
<1>7. /\ eff.rec.next = rec[e].next
      /\ Met(e) => eff.rec.initRecv = ISS[p]
      /\ eff.st \in {"SYN_RCVD", "OPEN"}
           => eff.rec.initRecv = ISS[p] /\ OfStream(eff.rec, ISS[p], sent[p])
      /\ \A o \in eff.out : ~ HasData(o)
  BY <1>4 DEF Fits, Follows, Given, Consecutive
<1>8. st[e] \in {"SYN_SENT", "SYN_RCVD"} => rec[e].next = ISS[e] + 1 /\ sent[e] = 0
  BY <1>5, <1>6 DEF Delivery, Numbered, Keeps
<1>9. \A o : o = AckNow(rec[e]) \/ o = ResetFor(m) => ~ HasData(o)
  BY DEF HasData, AckNow, AckSeg, ResetFor, RstSeg, NoData
<1>10. ResetFor(m).type = "RST"
  BY DEF ResetFor, RstSeg
\* The peer has met e, when it has and e has sent nothing.
<1>11. sent[e] = 0 /\ rec[p].initRecv = ISS[e] => rec[p].last = ISS[e]
  BY <1>1, <1>5, <1>6 DEF Keeps, OfStream
<1>12. Synchronised(rec[e], m).ooo = rec[e].ooo /\ Synchronised(rec[e], m).last = m.seq
      /\ Synchronised(rec[e], m).next = rec[e].next
      /\ Synchronised(rec[e], m).oldest = rec[e].oldest
      /\ Synchronised(rec[e], m).maxOut = m.maxOut
      /\ Synchronised(rec[e], m) \in Record
  <2>1. Synchronised(rec[e], m) \in Record
    BY <1>1, SynchronisedNumbers
  <2> QED
    BY <1>1, <2>1 DEF Synchronised, Record
<1>13. st[e] \in {"LISTEN", "SYN_SENT", "SYN_RCVD"} => rec[e].ooo = {}
  BY <1>1 DEF RecordOK
<1>14. CASE st[e] = "LISTEN"
  <2>1. e \notin Active /\ m.type = "SYN" /\ ~ m.isAck
    BY <1>2, <1>3, <1>14 DEF Handles
  <2>2. eff = Effect("SYN_RCVD", Synchronised(rec[e], m),
                     {SynSeg(rec[e].initSeq, m.seq, TRUE, MaxBuffered)})
    BY <1>14, <2>1 DEF GetNext, ListenNext
  <2>3. /\ eff.st = "SYN_RCVD" /\ eff.rec = Synchronised(rec[e], m)
        /\ eff.out = {SynSeg(rec[e].initSeq, m.seq, TRUE, MaxBuffered)}
    BY <2>2 DEF Effect
  <2> HIDE DEF eff
  <2>4. m.maxOut = Told(e) /\ m.seq = ISS[p] /\ Told(p) = MaxBuffered
    BY <1>1, <1>2, <2>1 DEF Sincere, Told
  <2>5. Keeps(e, eff.st, eff.rec)
    BY <1>5, <1>7, <1>12, <1>14, <2>3, <2>4 DEF Keeps
  <2>6. Ahead(e, eff.st, eff.rec, rec[p])
    BY <1>5, <1>14, <2>3 DEF Ahead, Keeps
  <2>7. \A o \in eff.out : Sincere(e, o, eff.rec)
    BY <1>7, <2>3, <2>4 DEF Sincere, SynSeg
  <2>8. rec[e].last = 0 /\ eff.rec.last \in Nat /\ eff.rec.ooo = rec[e].ooo
        /\ eff.rec.last = ISS[p]
    BY <1>5, <1>6, <1>12, <1>14, <2>3, <2>4 DEF Keeps
  <2>9. \A n \in UInt : Has(rec[e], n) => Has(eff.rec, n)
    BY <2>8, SegmentsAssumption DEF Has, UInt
  <2>10. /\ rec[e].last <= eff.rec.last /\ rec[e].oldest <= eff.rec.oldest
         /\ rec[e].next <= eff.rec.next
    BY <1>6, <1>7, <1>12, <2>3, <2>8
  <2>11. Serves(e, eff)
    BY <1>7, <2>3, <2>5, <2>6, <2>7, <2>9, <2>10 DEF Serves
  <2> QED
    BY <2>11 DEF eff
<1>15. CASE st[e] = "SYN_SENT"
  <2>1. e \in Active /\ (m.type = "SYN" => m.isAck)
    BY <1>2, <1>3, <1>15
  <2>2. eff = SynSentNext(rec[e], m)
    BY <1>15 DEF GetNext
  <2>3. CASE m.type = "SYN"
    <3> DEFINE new == [Synchronised(rec[e], m) EXCEPT !.oldest = UPlus(m.ack, 1)]
    <3>1. eff.st = "OPEN" /\ eff.rec = new /\ eff.out = {AckNow(new)}
      BY <2>1, <2>2, <2>3 DEF SynSentNext, Effect
    <3>2. /\ rec[p].initRecv = ISS[e] /\ m.ack = ISS[e] /\ m.maxOut = Told(e) /\ m.seq = ISS[p]
      BY <1>1, <1>2, <2>1, <2>3 DEF Sincere
    <3>3. UPlus(m.ack, 1) = ISS[e] + 1
      BY <1>6, <3>2 DEF UPlus
    <3>4. /\ new.ooo = {} /\ new.last = ISS[p] /\ new.next = ISS[e] + 1
          /\ new.oldest = ISS[e] + 1 /\ new.maxOut = Told(e)
      BY <1>8, <1>12, <1>13, <1>15, <3>2, <3>3 DEF Record
    <3> HIDE DEF new, eff
    <3>5. Keeps(e, eff.st, eff.rec)
      BY <1>7, <3>1 DEF Keeps
    <3>6. Ahead(e, eff.st, eff.rec, rec[p])
      BY <1>6, <1>8, <1>11, <1>15, <3>1, <3>2, <3>4 DEF Ahead
    <3>7. rec[e].last = 0 /\ rec[e].oldest = ISS[e] /\ rec[e].ooo = {} /\ sent[e] = 0
      BY <1>5, <1>13, <1>15 DEF Keeps
    <3>8. \A n \in UInt : Has(rec[e], n) => Has(eff.rec, n)
      BY <1>6, <3>1, <3>4, <3>7, SegmentsAssumption DEF Has, UInt
    <3>9. \A o \in eff.out : Sincere(e, o, eff.rec)
      BY <1>6, <1>7, <3>1, <3>4 DEF Sincere, AckNow, AckSeg
    <3>10. Serves(e, eff)
      BY <1>6, <1>7, <3>1, <3>4, <3>5, <3>6, <3>7, <3>8, <3>9 DEF Serves
    <3> QED
      BY <3>10 DEF eff
  <2>4. CASE m.type # "SYN"
    <3>1. eff.st = "SYN_SENT" /\ eff.rec = rec[e] /\ \A o \in eff.out : o = ResetFor(m)
      <4>1. \/ eff = Effect("SYN_SENT", rec[e], {})
            \/ eff = [Effect("SYN_SENT", rec[e], {}) EXCEPT !.cum = {m.ack}]
            \/ eff = Effect("SYN_SENT", rec[e], {ResetFor(m)})
        BY <1>1, <2>2, <2>4 DEF SynSentNext, SegmentType
      <4> QED
        BY <4>1 DEF Effect
    <3> HIDE DEF eff
    <3>2. Serves(e, eff)
      BY <1>9, <1>10, <1>15, <3>1, IdleServes
    <3> QED
      BY <3>2 DEF eff
  <2> QED
    BY <2>3, <2>4
<1>16. CASE st[e] = "SYN_RCVD"
  <2>1. eff = SynRcvdNext(rec[e], m)
    BY <1>16 DEF GetNext
  <2>2. rec[e].last = ISS[p] /\ Met(e) /\ sent[e] = 0
    BY <1>3, <1>5, <1>16 DEF Delivery, Given, Keeps
  <2>3. CASE m.type = "ACK" /\ SeqNumOk(rec[e].initRecv, rec[e], m.seq) /\ m.ack = rec[e].initSeq
    <3> DEFINE new == [rec[e] EXCEPT !.last = m.seq]
    <3>1. eff = [SynRcvdData(rec[e], m) EXCEPT !.cum = {m.ack}]
      BY <2>1, <2>3 DEF SynRcvdNext
    <3>2. /\ eff.st = "OPEN"
          /\ \/ eff.rec = rec[e] /\ eff.out = {}
             \/ eff.rec = new /\ eff.out = {AckNow(new)}
      BY <3>1 DEF SynRcvdData, Effect
    <3>3. /\ new.last = m.seq /\ new.next = rec[e].next /\ new.oldest = rec[e].oldest
          /\ new.maxOut = rec[e].maxOut /\ new.ooo = rec[e].ooo
      BY <1>1 DEF Record
    <3> HIDE DEF new, eff
    <3>4. /\ eff.rec.oldest = ISS[e] /\ eff.rec.maxOut = Told(e) /\ eff.rec.next = ISS[e] + 1
          /\ eff.rec.ooo = rec[e].ooo /\ rec[e].oldest = ISS[e]
      BY <1>5, <1>8, <1>16, <3>2, <3>3 DEF Keeps
    <3>5. ISS[p] <= eff.rec.last /\ eff.rec.last \in Nat
      <4>1. ISS[p] <= eff.rec.last
        BY <1>7, <3>2 DEF OfStream
      <4>2. m.seq \in Nat
        BY <1>1, SegmentsAssumption DEF UInt
      <4> QED
        BY <1>6, <3>2, <3>3, <4>1, <4>2
    <3>6. Keeps(e, eff.st, eff.rec)
      BY <1>7, <3>2 DEF Keeps
    <3>7. rec[p].initRecv = ISS[e] /\ rec[p].last = ISS[e]
      BY <1>1, <1>2, <1>11, <2>2, <2>3 DEF Sincere
    <3>8. Ahead(e, eff.st, eff.rec, rec[p])
      BY <1>6, <3>4, <3>7 DEF Ahead
    <3>9. \A n \in UInt : Has(rec[e], n) => Has(eff.rec, n)
      BY <1>6, <2>2, <3>4, <3>5, SegmentsAssumption DEF Has, UInt
    <3>10. \A o \in eff.out : Sincere(e, o, eff.rec)
      BY <1>7, <3>2, <3>5 DEF Sincere, AckNow, AckSeg
    <3>11. Serves(e, eff)
      BY <1>6, <1>7, <2>2, <3>4, <3>5, <3>6, <3>8, <3>9, <3>10 DEF Serves
    <3> QED
      BY <3>11 DEF eff
  <2>4. CASE ~ (m.type = "ACK" /\ SeqNumOk(rec[e].initRecv, rec[e], m.seq) /\ m.ack = rec[e].initSeq)
    <3>1. /\ eff.st \in {"SYN_RCVD", "CLOSED"} /\ eff.rec = rec[e]
          /\ \A o \in eff.out : o \in {AckNow(rec[e]), ResetFor(m)}
      BY <1>1, <2>1, <2>4 DEF SynRcvdNext, Effect, SegmentType
    <3> HIDE DEF eff
    <3>2. Serves(e, eff)
      BY <1>9, <1>10, <1>16, <2>2, <3>1, IdleServes
    <3> QED
      BY <3>2 DEF eff
  <2> QED
    BY <2>3, <2>4
<1>17. CASE st[e] = "OPEN"
  <2>1. eff = OpenNext(rec[e], m)
    BY <1>17 DEF GetNext
  <2>2. CASE ~ (m.type \in {"ACK", "EACK"} /\ SeqNumOk(rec[e].last, rec[e], m.seq))
    <3>1. /\ eff.st \in {"OPEN", "CLOSE_WAIT", "CLOSED"} /\ eff.rec = rec[e]
          /\ eff.cum = {} /\ eff.one = {}
          /\ \A o \in eff.out : o \in {AckNow(rec[e]), ResetFor(m)}
      BY <1>1, <2>1, <2>2 DEF OpenNext, Effect, SegmentType
    <3> HIDE DEF eff
    <3>2. Serves(e, eff)
      BY <1>3, <1>9, <1>10, <1>17, <3>1, IdleServes
    <3> QED
      BY <3>2 DEF eff
  <2>3. CASE m.type \in {"ACK", "EACK"} /\ SeqNumOk(rec[e].last, rec[e], m.seq)
    <3> DEFINE data == HandleData(HandleAck(rec[e], m.ack), m)
    <3>1. /\ Keeps(e, data.st, data.rec) /\ Ahead(e, data.st, data.rec, rec[p])
          /\ rec[e].last <= data.rec.last /\ rec[e].oldest <= data.rec.oldest
          /\ \A n \in UInt : Has(rec[e], n) => Has(data.rec, n)
          /\ \A o \in data.out : Sincere(e, o, data.rec)
      <4>1. rec[e].last < m.seq
        BY <2>3 DEF SeqNumOk
      <4> QED
        BY <1>17, <2>3, <4>1, DataServes
    <3>2. EffectOK(data)
      BY <1>1, <1>17, HandleAckType, HandleDataType
    <3>3. eff = [data EXCEPT !.cum = {m.ack}] \/ eff = [data EXCEPT !.one = m.recvd]
      BY <2>1, <2>3 DEF OpenNext
    <3>4. m.type = "ACK" => eff = [data EXCEPT !.cum = {m.ack}]
      BY <2>1, <2>3 DEF OpenNext
    <3>5. m.type = "EACK" => eff = [data EXCEPT !.one = m.recvd]
      BY <2>1, <2>3 DEF OpenNext
    <3>6. data.cum = {} /\ data.one = {}
      BY DEF HandleData, InOrder, OutOfOrder, Effect
    <3> HIDE DEF data
    <3>7. eff.st = data.st /\ eff.rec = data.rec /\ eff.out = data.out
      BY <3>2, <3>3 DEF EffectOK
    <3>8. \A n \in eff.cum : n <= rec[p].last
      BY <1>2, <2>3, <3>2, <3>4, <3>5, <3>6 DEF Sincere, EffectOK
    <3>9. \A n \in eff.one : Has(rec[p], n)
      BY <1>2, <2>3, <3>2, <3>4, <3>5, <3>6 DEF Sincere, EffectOK
    <3> HIDE DEF eff
    <3>10. Serves(e, eff)
      BY <1>6, <1>7, <1>17, <3>1, <3>7, <3>8, <3>9 DEF Serves
    <3> QED
      BY <3>10 DEF eff
  <2> QED
    BY <2>2, <2>3
<1>18. CASE st[e] = "CLOSE_WAIT"
  <2>1. eff.st \in {"CLOSED", "CLOSE_WAIT"} /\ eff.rec = rec[e] /\ eff.out = {}
    BY <1>18 DEF GetNext, CloseWaitNext, Effect
  <2> HIDE DEF eff
  <2>2. Serves(e, eff)
    BY <1>18, <2>1, IdleServes
  <2> QED
    BY <2>2 DEF eff
<1> QED
  BY <1>1, <1>14, <1>15, <1>16, <1>17, <1>18 DEF StateName

LEMMA OpenServes ==
  ASSUME NoWrap, OneOpens, TypeInv, Greeting, Delivery, Flow, NEW e \in Endpoints, Open(e)
  PROVE  Flow' /\ NumbersGrow
<1> DEFINE p   == Peer(e)
           eff == ClosedOpen(ClosedRecord, ISS[e])
<1>1. /\ p \in Endpoints /\ Peer(p) = e /\ e \in Active /\ p \notin Active
      /\ st[e] = "CLOSED" /\ rec[e] = ClosedRecord
  BY PeerType DEF Open, OneOpens
<1>2. /\ ISS[e] \in Nat /\ ISS[p] \in Nat /\ sent[e] \in Nat /\ sent[p] \in Nat
      /\ Modulus \in Nat /\ ISS[e] + sent[e] + 2 < Modulus
  BY <1>1, DeliveryBounds
<1>3. /\ ClosedRecord.last = 0 /\ ClosedRecord.next = 0 /\ ClosedRecord.oldest = 0
      /\ ClosedRecord.initRecv = 0 /\ ClosedRecord.ooo = {}
      /\ ClosedRecord.maxOut = MaxOutstanding
  BY DEF ClosedRecord
<1>4. sent[e] = 0
  BY <1>1, <1>2, <1>3 DEF Delivery, Numbered
<1>5. /\ eff.st = "SYN_SENT" /\ eff.out = {SynSeg(ISS[e], 0, FALSE, MaxOutstanding)}
      /\ eff.rec.next = ISS[e] + 1 /\ eff.rec.oldest = ISS[e] /\ eff.rec.last = 0
      /\ eff.rec.initRecv = 0 /\ eff.rec.ooo = {}
  <2>1. UPlus(ISS[e], 1) = ISS[e] + 1
    BY <1>2 DEF UPlus
  <2>2. /\ eff.st = "SYN_SENT" /\ eff.out = {SynSeg(ISS[e], 0, FALSE, ClosedRecord.maxOut)}
        /\ eff.rec = [ClosedRecord EXCEPT !.next = UPlus(ISS[e], 1), !.oldest = ISS[e]]
    BY DEF ClosedOpen, Effect
  <2> HIDE DEF eff
  <2> QED
    BY <1>3, <2>1, <2>2 DEF ClosedRecord
<1>6. /\ Apply(e, eff) /\ Transmit(e, eff.out) /\ UNCHANGED <<fired, sent>>
      /\ EffectOK(eff)
  <2>1. ISS[e] \in UInt
    BY ConnectionAssumption
  <2> QED
    BY <1>1, <2>1, ClosedOpenType DEF Open
<1> HIDE DEF eff
<1>7. Keeps(e, eff.st, eff.rec)
  <2>1. 0 = ISS[p] => OfStream(eff.rec, ISS[p], sent[p])
    BY <1>2, <1>5 DEF OfStream
  <2> QED
    BY <1>4, <1>5, <2>1 DEF Keeps
<1>8. Ahead(e, eff.st, eff.rec, rec[p])
  BY <1>4, <1>5 DEF Ahead
<1>9. /\ rec[e].last <= eff.rec.last /\ rec[e].oldest <= eff.rec.oldest
      /\ rec[e].next <= eff.rec.next
  BY <1>1, <1>2, <1>3, <1>5
<1>10. \A n \in UInt : Has(rec[e], n) => Has(eff.rec, n)
  BY <1>1, <1>3, <1>5 DEF Has
<1>11. \A o \in eff.out : ~ HasData(o) /\ Sincere(e, o, eff.rec)
  BY <1>1, <1>5 DEF Sincere, HasData, SynSeg, Told
<1>12. Serves(e, eff)
  BY <1>1, <1>3, <1>5, <1>7, <1>8, <1>9, <1>10, <1>11 DEF Serves, Met
<1>13. \A f \in Endpoints : \A m \in net'[Peer(f)] \cup retr'[f] \cup fired'[f] :
         m \in net[Peer(f)] \cup retr[f] \cup fired[f] \/ (f = e /\ m \in eff.out)
  BY <1>6, CallNet, TransmitNet
<1> QED
  BY <1>6, <1>12, <1>13, ServesStep DEF Apply

LEMMA SendServes ==
  ASSUME NoWrap, TypeInv, Greeting, Delivery, Flow, NEW e \in Endpoints, Send(e)
  PROVE  Flow' /\ NumbersGrow
<1> DEFINE p   == Peer(e)
           n   == sent[e] + 1
           seg == AckSeg(rec[e].next, rec[e].last, n)
           eff == OpenSend(rec[e], n)
<1>1. /\ p \in Endpoints /\ Peer(p) = e /\ p # e /\ Endpoints = {e, p}
  BY PeerType DEF Endpoints, Peer
<1>2. /\ st[e] = "OPEN" /\ sent' = [sent EXCEPT ![e] = n] /\ WindowOpen(rec[e])
      /\ Apply(e, eff) /\ Transmit(e, eff.out) /\ fired' = fired
  BY DEF Send
<1>3. /\ ISS[e] \in Nat /\ sent[e] \in Nat /\ Modulus \in Nat /\ ISS[e] + sent[e] + 2 < Modulus
      /\ sent[p] \in Nat /\ ISS[p] \in Nat
      /\ \A f \in Endpoints : /\ rec[f].next \in Nat /\ rec[f].oldest \in Nat
                              /\ rec[f].last \in Nat /\ rec[f].maxOut \in Nat
  BY <1>1, DeliveryBounds, Fields
<1>4. rec[e].next = ISS[e] + n /\ UPlus(rec[e].next, 1) = ISS[e] + 1 + n
  <2>1. rec[e].next = ISS[e] + 1 + sent[e]
    BY <1>2 DEF Delivery, Numbered
  <2> QED
    BY <1>3, <2>1 DEF UPlus
<1>5. /\ eff.st = "OPEN" /\ eff.out = {seg} /\ eff.cum = {} /\ eff.one = {}
      /\ eff.rec.next = rec[e].next + 1 /\ eff.rec.last = rec[e].last
      /\ eff.rec.ooo = rec[e].ooo /\ eff.rec.oldest = rec[e].oldest
      /\ eff.rec.maxOut = rec[e].maxOut /\ eff.rec.initRecv = rec[e].initRecv
  <2>1. rec[e] \in Record /\ UPlus(rec[e].next, 1) = rec[e].next + 1
    BY <1>3, <1>4, Fields
  <2>2. /\ eff.st = "OPEN" /\ eff.out = {seg} /\ eff.cum = {} /\ eff.one = {}
        /\ eff.rec = [rec[e] EXCEPT !.next = UPlus(rec[e].next, 1)]
    BY DEF OpenSend, Effect
  <2> HIDE DEF eff, seg
  <2> QED
    BY <2>1, <2>2 DEF Record
<1>6. /\ seg.type = "ACK" /\ seg.seq = ISS[e] + n /\ seg.ack = rec[e].last /\ seg.data = n
      /\ HasData(seg)
  BY <1>3, <1>4 DEF AckSeg, HasData, NoData
<1> HIDE DEF eff, seg
<1>7. /\ st'[e] = "OPEN" /\ rec'[e] = eff.rec /\ retr'[e] = TrackedAfter(e, eff)
      /\ st'[p] = st[p] /\ rec'[p] = rec[p] /\ retr'[p] = retr[p]
      /\ sent'[e] = n /\ sent'[p] = sent[p]
  BY <1>1, <1>2, <1>5 DEF Apply, TypeInv, TypeOK
<1>8. \A f \in Endpoints : \A m \in net'[Peer(f)] \cup retr'[f] \cup fired'[f] :
        m \in net[Peer(f)] \cup retr[f] \cup fired[f] \/ (f = e /\ m = seg)
  BY <1>2, <1>5, CallNet, TransmitNet
\* Records differ in next alone.
<1>9. ASSUME NEW f \in Endpoints
      PROVE  /\ rec'[f].last = rec[f].last /\ rec'[f].ooo = rec[f].ooo
             /\ rec'[f].oldest = rec[f].oldest /\ rec'[f].maxOut = rec[f].maxOut
             /\ rec'[f].initRecv = rec[f].initRecv /\ st'[f] = st[f]
             /\ sent[f] \in Nat /\ sent'[f] \in Nat /\ sent[f] <= sent'[f]
  BY <1>1, <1>2, <1>3, <1>5, <1>7
<1>10. retr[e] \subseteq retr'[e] /\ seg \in retr'[e]
  <2>1. ASSUME NEW t \in retr[e]
        PROVE  t.seq # seg.seq
    <3>1. t.seq = ISS[e] + t.data /\ t.data <= sent[e]
      BY DEF Greeting, Delivery, Tells
    <3>2. t.data \in Nat
      BY Fields, SegmentFields
    <3> QED
      BY <1>3, <1>6, <3>1, <3>2
  <2>2. Unacked(retr[e], eff.cum, eff.one) = retr[e]
    BY <1>5 DEF Unacked
  <2>3. {o \in eff.out : HasData(o)} = {seg}
    BY <1>5, <1>6
  <2>4. TrackedAfter(e, eff) = {t \in retr[e] : \A m \in {seg} : t.seq # m.seq} \cup {seg}
    BY <1>5, <2>2, <2>3 DEF TrackedAfter, Track
  <2> QED
    BY <1>7, <2>1, <2>4
<1>11. ASSUME NEW f \in Endpoints
       PROVE  Keeps(f, st[f], rec[f])'
  <2>1. Keeps(f, st[f], rec[f])
    BY DEF Flow
  <2>2. st[f] \in {"LISTEN", "SYN_SENT", "SYN_RCVD"} => f = p
    BY <1>1, <1>2
  <2>3. rec[f].initRecv = ISS[Peer(f)] => OfStream(rec'[f], ISS[Peer(f)], sent'[Peer(f)])
    <3>1. rec[f].ooo \in SUBSET HeldBack /\ rec[f].last \in Nat /\ ISS[Peer(f)] \in Nat
          /\ Peer(f) \in Endpoints
      BY <1>1, <1>3, Fields
    <3> QED
      BY <1>9, <2>1, <3>1, StreamGrows DEF Keeps
  <2>4. /\ st'[f] \in {"LISTEN", "SYN_SENT"} => rec'[f].last = 0
        /\ st'[f] \in {"LISTEN", "SYN_SENT", "SYN_RCVD"} => sent'[f] = 0 /\ rec'[f].oldest = ISS[f]
        /\ st'[f] = "SYN_RCVD" => rec'[f].maxOut = Told(f)
        /\ rec'[f].initRecv = ISS[Peer(f)] => OfStream(rec'[f], ISS[Peer(f)], sent'[Peer(f)])
    BY <1>7, <1>9, <2>1, <2>2, <2>3 DEF Keeps
  <2> QED
    BY <2>4 DEF Keeps, OfStream
<1>12. ASSUME NEW f \in Endpoints
       PROVE  Ahead(f, st[f], rec[f], rec[Peer(f)])'
  <2>1. Ahead(f, st[f], rec[f], rec[Peer(f)]) /\ Peer(f) \in Endpoints
    BY PeerType DEF Flow
  <2>2. st'[f] = "OPEN" \/ sent'[f] # 0 => st[f] = "OPEN" \/ sent[f] # 0
    BY <1>1, <1>2, <1>7
  <2>3. st[f] = "OPEN" \/ sent[f] # 0 => rec'[f].next <= rec[f].oldest + rec[f].maxOut
    <3>1. CASE f = e
      <4>1. rec[e].next < rec[e].oldest + rec[e].maxOut
        BY <1>2 DEF WindowOpen
      <4> QED
        BY <1>3, <1>5, <1>7, <3>1, <4>1
    <3>2. CASE f = p
      BY <1>7, <2>1, <3>2 DEF Ahead
    <3> QED
      BY <1>1, <3>1, <3>2
  <2>4. st'[f] = "OPEN" \/ sent'[f] # 0 =>
          /\ rec'[Peer(f)].initRecv = ISS[f] /\ rec'[f].oldest <= rec'[Peer(f)].last + 1
          /\ rec'[f].maxOut = Told(f) /\ rec'[f].next <= rec'[f].oldest + rec'[f].maxOut
    BY <1>9, <2>1, <2>2, <2>3 DEF Ahead
  <2> QED
    BY <2>4 DEF Ahead
<1>13. ASSUME NEW f \in Endpoints, NEW m \in net'[Peer(f)] \cup retr'[f] \cup fired'[f]
       PROVE  Sincere(f, m, rec[f])'
  <2>1. Sincere(f, m, rec'[f])
    <3>1. CASE f = e /\ m = seg
      <4>1. rec[e].initRecv = ISS[p]
        BY <1>2 DEF Greeting, Met
      <4> QED
        BY <1>3, <1>6, <1>9, <3>1, <4>1 DEF Sincere
    <3>2. CASE m \in net[Peer(f)] \cup retr[f] \cup fired[f]
      <4>1. Sincere(f, m, rec[f])
        BY <3>2 DEF Flow
      <4> QED
        BY <1>9, <4>1 DEF Sincere, Has
    <3> QED
      BY <1>8, <1>13, <3>1, <3>2
  <2> QED
    BY <2>1 DEF Sincere, Has
<1>14. ASSUME NEW f \in Endpoints, st'[f] = "OPEN", NEW i \in 1 .. sent'[f]
       PROVE  (\E m \in retr'[f] : m.data = i) \/ Has(rec'[Peer(f)], ISS[f] + i)
  <2>1. CASE f = e /\ i = n
    BY <1>6, <1>10, <2>1
  <2>2. CASE ~ (f = e /\ i = n)
    <3>1. i \in 1 .. sent[f] /\ st[f] = "OPEN"
      BY <1>1, <1>2, <1>3, <1>7, <1>14, <2>2
    <3>2. (\E m \in retr[f] : m.data = i) \/ Has(rec[Peer(f)], ISS[f] + i)
      BY <3>1 DEF Flow, KeptUntilTaken, Has, Taken
    <3>3. retr[f] \subseteq retr'[f]
      BY <1>1, <1>7, <1>10
    <3>4. Has(rec[Peer(f)], ISS[f] + i) => Has(rec'[Peer(f)], ISS[f] + i)
      BY <1>9, PeerType DEF Has
    <3> QED
      BY <3>2, <3>3, <3>4
  <2> QED
    BY <2>1, <2>2
<1>15. KeptUntilTaken'
  BY <1>14 DEF KeptUntilTaken, Has, Taken
<1>16. Flow'
  BY ONLY <1>11, <1>12, <1>13, <1>15 DEF Flow
<1>17. NumbersGrow
  <2>1. \A f \in Endpoints : rec[f].next <= rec'[f].next
    BY <1>1, <1>3, <1>5, <1>7
  <2> QED
    BY <1>3, <1>9, <2>1 DEF NumbersGrow
<1> QED
  BY <1>16, <1>17

\* Steps that leave the records and the users alone, open nothing, make no new
\* segment and keep every message that is tracked.
LEMMA QuietServes ==
  ASSUME TypeInv, Flow, rec' = rec, sent' = sent, st' = st,
         \A f \in Endpoints :
           /\ net'[Peer(f)] \cup retr'[f] \cup fired'[f]
                \subseteq net[Peer(f)] \cup retr[f] \cup fired[f]
           /\ \A m \in retr[f] : \E t \in retr'[f] : t.data = m.data
  PROVE  Flow' /\ NumbersGrow
<1>1. ASSUME NEW f \in Endpoints
      PROVE  Keeps(f, st[f], rec[f])' /\ Ahead(f, st[f], rec[f], rec[Peer(f)])'
  BY DEF Flow, Keeps, Ahead
<1>2. ASSUME NEW f \in Endpoints, NEW m \in net'[Peer(f)] \cup retr'[f] \cup fired'[f]
      PROVE  Sincere(f, m, rec[f])'
  BY <1>2 DEF Flow, Sincere, Has
<1>3. KeptUntilTaken'
  <2> SUFFICES ASSUME NEW f \in Endpoints, st[f] = "OPEN", NEW n \in 1 .. sent[f]
               PROVE  \/ \E m \in retr'[f] : m.data = n
                      \/ ISS[f] + n <= rec[Peer(f)].last
                      \/ ISS[f] + n \in Seqs(rec[Peer(f)].ooo)
    BY DEF KeptUntilTaken, Taken
  <2> QED
    BY DEF Flow, KeptUntilTaken, Taken
<1>4. NumbersGrow
  BY Fields DEF NumbersGrow
<1>5. Flow'
  BY ONLY <1>1, <1>2, <1>3 DEF Flow
<1> QED
  BY <1>4, <1>5

LEMMA FlowNext ==
  ASSUME NoWrap, OneOpens, TypeInv, Greeting, Delivery, Flow, [Next]_vars
  PROVE  Flow' /\ [NumbersGrow]_vars
<1>1. CASE UNCHANGED vars
  <2>1. Flow'
    BY <1>1 DEF vars, Flow, KeptUntilTaken, Taken, Keeps, Ahead, Sincere, Has
  <2> QED
    BY <1>1, <2>1
<1>2. ASSUME NEW e \in Endpoints, NEW eff, EffectOK(eff), Serves(e, eff), Apply(e, eff),
             fired' = fired, sent' = sent,
             \A f \in Endpoints : \A m \in net'[f] :
               m \in net[f] \/ (f = Peer(e) /\ m \in eff.out)
      PROVE  Flow' /\ NumbersGrow
  BY <1>2, CallNet, ServesStep DEF Apply
<1>3. ASSUME NEW e \in Endpoints, NEW m \in net[e], NEW duplicated \in BOOLEAN,
             Handle(e, m, duplicated)
      PROVE  Flow' /\ NumbersGrow
  <2> DEFINE eff == GetNext(st[e], rec[e], m)
  <2>1. EffectOK(eff) /\ Serves(e, eff)
    BY <1>3, HandleServes, GetNextType DEF Handle, TypeInv, TypeOK
  <2>2. /\ Apply(e, eff) /\ fired' = fired /\ sent' = sent
        /\ net' = [net EXCEPT ![e] = IF duplicated THEN net[e] ELSE net[e] \ {m},
                              ![Peer(e)] = net[Peer(e)] \cup eff.out]
    BY <1>3, PeerType DEF Handle
  <2> HIDE DEF eff
  <2>3. \A f \in Endpoints : \A x \in net'[f] :
          x \in net[f] \/ (f = Peer(e) /\ x \in eff.out)
    BY <2>2, PeerType DEF TypeInv, TypeOK
  <2> QED
    BY <1>2, <2>1, <2>2, <2>3
<1>4. ASSUME NEW e \in Endpoints, Step(e)
      PROVE  Flow' /\ NumbersGrow
  <2>1. CASE Open(e)
    BY <2>1, OpenServes
  <2>2. CASE Send(e)
    BY <2>2, SendServes
  <2>3. CASE SendWaits(e) \/ SendTimesOut(e)
    BY <2>3, QuietServes DEF SendWaits, SendTimesOut
  <2>4. CASE Close(e)
    <3> DEFINE eff == CloseNext(st[e], rec[e])
    <3>1. /\ st[e] \in StateName \ {"CLOSED", "LISTEN"} /\ fired' = fired /\ sent' = sent
          /\ Apply(e, eff) /\ Transmit(e, eff.out) /\ RecordOK(st[e], rec[e])
      BY <2>4 DEF Close, TypeInv, TypeOK
    <3>2. /\ eff.st \in {"CLOSED", "CLOSE_WAIT"} /\ eff.rec = rec[e]
          /\ \A o \in eff.out : ~ HasData(o) /\ o.type = "RST"
      BY <3>1 DEF CloseNext, Effect, ResetNow, RstSeg, StateName, HasData
    <3>3. EffectOK(eff)
      BY <3>1, CloseNextType
    <3> HIDE DEF eff
    <3>4. Serves(e, eff)
      BY <3>2, IdleServes
    <3> QED
      BY <1>2, <3>1, <3>3, <3>4, TransmitNet
  <2>5. CASE Receive(e) \/ Duplicate(e)
    BY <1>3, <2>5 DEF Receive, Duplicate
  <2>6. CASE Lose(e)
    <3>1. \A f \in Endpoints : net'[Peer(f)] \subseteq net[Peer(f)]
      BY <2>6, PeerType DEF Lose, TypeInv, TypeOK
    <3> QED
      BY <2>6, <3>1, QuietServes DEF Lose
  <2>7. CASE Fire(e)
    <3>1. /\ \A f \in Endpoints : fired'[f] \subseteq fired[f] \cup retr[f]
          /\ st' = st /\ rec' = rec /\ retr' = retr /\ net' = net /\ sent' = sent
      BY <2>7 DEF Fire, TypeInv, TypeOK
    <3> QED
      BY <3>1, QuietServes
  <2>8. CASE Retransmit(e)
    <3>1. /\ \A f \in Endpoints : /\ fired'[f] \subseteq fired[f]
                                  /\ retr'[f] \subseteq retr[f] \cup fired[f]
          /\ st' = st /\ rec' = rec /\ sent' = sent
      BY <2>8 DEF Retransmit, Track, TypeInv, TypeOK
    <3>2. \A f \in Endpoints : \A m \in net'[Peer(f)] : m \in net[Peer(f)] \cup fired[f]
      BY <2>8, PeerType DEF Retransmit, Transmit, TypeInv, TypeOK
\* What is put back replaces a segment that carries the same message.
    <3>3. ASSUME NEW f \in Endpoints, NEW m \in retr[f]
          PROVE  \E t \in retr'[f] : t.data = m.data
      <4>1. /\ {x \in fired[e] : HasData(x)} = fired[e]
            /\ \A x \in retr[e] \cup fired[e] : HasData(x) /\ x.seq = ISS[e] + x.data
        BY DEF Greeting, Delivery, Tells
      <4>2. CASE f # e
        BY <2>8, <4>2 DEF Retransmit, TypeInv, TypeOK
      <4>3. CASE f = e /\ \A x \in fired[e] : m.seq # x.seq
        BY <2>8, <4>1, <4>3 DEF Retransmit, Track, TypeInv, TypeOK
      <4>4. ASSUME f = e, NEW x \in fired[e], m.seq = x.seq
            PROVE  \E t \in retr'[f] : t.data = m.data
        <5>1. m.data = x.data
          <6>1. m.seq = ISS[e] + m.data /\ x.seq = ISS[e] + x.data
            BY <4>1, <4>4
          <6>2. m.data \in Nat /\ x.data \in Nat /\ ISS[e] \in Nat
            BY <4>4, Fields, SegmentFields, DeliveryBounds
          <6>3. ISS[e] + m.data = ISS[e] + x.data
            BY <4>4, <6>1
          <6> QED
            BY <6>2, <6>3
        <5>2. x \in retr'[e]
          BY <2>8, <4>1 DEF Retransmit, Track, TypeInv, TypeOK
        <5> QED
          BY <4>4, <5>1, <5>2
      <4> QED
        BY <4>2, <4>3, <4>4
    <3> QED
      BY <3>1, <3>2, <3>3, QuietServes
  <2>9. CASE Expire(e)
    <3> DEFINE eff == TimerNext(st[e], rec[e])
    <3>1. /\ st' = [st EXCEPT ![e] = eff.st] /\ rec' = [rec EXCEPT ![e] = eff.rec]
          /\ UNCHANGED <<retr, fired, net, sent>>
      BY <2>9 DEF Expire
    <3>2. /\ eff.st \in {st[e], "CLOSED"} /\ eff.rec = rec[e] /\ eff.out = {}
          /\ eff.cum = {} /\ eff.one = {}
      BY DEF TimerNext, Effect
    <3>3. EffectOK(eff)
      BY TimerNextType DEF TypeInv, TypeOK
    <3> HIDE DEF eff
    <3>4. Serves(e, eff)
      BY <3>2, IdleServes
    <3> QED
      BY <3>1, <3>3, <3>4, ServesStep
  <2> QED
    BY <1>4, <2>1, <2>2, <2>3, <2>4, <2>5, <2>6, <2>7, <2>8, <2>9 DEF Step
<1> QED
  BY <1>1, <1>4 DEF Next

LEMMA FlowInit == NoWrap /\ Init => Flow
<1> SUFFICES ASSUME NoWrap, Init PROVE Flow
  OBVIOUS
<1>1. ASSUME NEW e \in Endpoints
      PROVE  /\ st[e] \in {"CLOSED", "LISTEN"} /\ sent[e] = 0
             /\ rec[e].last = 0 /\ rec[e].initRecv = 0 /\ rec[e].ooo = {}
             /\ st[e] = "LISTEN" => rec[e].oldest = ISS[e]
             /\ net[Peer(e)] = {} /\ retr[e] = {} /\ fired[e] = {}
             /\ ISS[Peer(e)] \in Nat
  BY Numeric, PeerType DEF Init, ListenRecord, ClosedRecord
<1>2. ASSUME NEW e \in Endpoints
      PROVE  Keeps(e, st[e], rec[e]) /\ Ahead(e, st[e], rec[e], rec[Peer(e)])
  <2>1. sent[Peer(e)] = 0
    BY <1>1, PeerType
  <2> QED
    BY <1>1, <2>1 DEF Keeps, Ahead, OfStream
<1>3. KeptUntilTaken
  BY <1>1 DEF KeptUntilTaken, Taken
<1> QED
  BY <1>1, <1>2, <1>3 DEF Flow

\* From the handshake on: the invariant of every run that starts with Init.
LEMMA FromHandshake ==
  NoWrap /\ OneOpens => (Spec => [](TypeInv /\ Delivery /\ Flow))
<1> SUFFICES ASSUME NoWrap, OneOpens PROVE Spec => [](TypeInv /\ Delivery /\ Flow)
  OBVIOUS
<1>1. Init => TypeInv /\ Greeting /\ Delivery /\ Flow
  BY InitType, GreetingInit, DeliveryInit, FlowInit
<1>2. TypeInv /\ Greeting /\ Delivery /\ Flow /\ [Next]_vars
        => TypeInv' /\ Greeting' /\ Delivery' /\ Flow'
  BY NextType, GreetingNext, DeliveryNext, FlowNext
<1> QED
  BY <1>1, <1>2, PTL DEF Spec

\* When one end opens and the other accepts, no acknowledgment, of the handshake
\* or after it, lets go of a message that the other end has not queued for its
\* user or holds back, except of the first one when SYN-RCVD drops it.
THEOREM NothingLostFromHandshake ==
  NoWrap /\ OneOpens => (Spec => []NothingLost)
<1> SUFFICES ASSUME NoWrap, OneOpens PROVE Spec => []NothingLost
  OBVIOUS
<1>1. TypeInv /\ Delivery /\ Flow => NothingLost
  <2> SUFFICES ASSUME TypeInv, Delivery, Flow, NEW e \in Endpoints, st[e] = "OPEN",
                      NEW n \in 1 .. sent[e], ~ \E m \in retr[e] : m.data = n
               PROVE  \/ \E i \in DOMAIN delivered[Peer(e)] : delivered[Peer(e)][i] = n
                      \/ \E d \in rec[Peer(e)].ooo : d.data = n
                      \/ n = 1 /\ FirstDropped(e)
    BY DEF NothingLost
  <2> DEFINE p   == Peer(e)
             got == delivered[p]
             c   == Skipped(p, rec[p], got)
  <2>1. /\ p \in Endpoints /\ Peer(p) = e /\ got \in Seq(Payload) /\ Len(got) \in Nat
        /\ rec[p].last \in Nat /\ ISS[e] \in Nat /\ n \in Nat /\ n >= 1
        /\ rec[p].ooo \in SUBSET HeldBack
    BY PeerType, Fields, DeliveryBounds
  <2>2. ISS[e] + n <= rec[p].last \/ ISS[e] + n \in Seqs(rec[p].ooo)
    BY DEF Flow, KeptUntilTaken, Taken
  <2>3. ~ (rec[p].last = 0 /\ rec[p].ooo = {})
    BY <2>1, <2>2 DEF Seqs
  <2>4. Consecutive(p, rec[p], got)
    BY <2>1, <2>3 DEF Delivery, Given
  <2>5. c \in {0, 1} /\ \A i \in 1 .. Len(got) : got[i] = c + i
    BY <2>4 DEF Consecutive
  <2>6. c = (rec[p].last - ISS[e]) - Len(got)
    BY <2>1 DEF Skipped
  <2>7. CASE ISS[e] + n <= rec[p].last
    <3> HIDE DEF c, got, p
    <3>1. n <= Len(got) + c /\ DOMAIN got = 1 .. Len(got)
      BY <2>1, <2>5, <2>6, <2>7
    <3>2. CASE n > c
      <4>1. n - c \in 1 .. Len(got) /\ c + (n - c) = n
        BY <2>1, <2>5, <3>1, <3>2
      <4> QED
        BY <2>5, <3>1, <4>1 DEF got, p
    <3>3. CASE n <= c
      <4>1. n = 1 /\ c = 1
        BY <2>1, <2>5, <3>3
      <4>2. rec[p].last = ISS[e] + Len(got) + 1
        BY <2>1, <2>6, <4>1
      <4> QED
        BY <4>1, <4>2 DEF FirstDropped, got, p
    <3> QED
      BY <2>1, <2>5, <3>2, <3>3
  <2>8. CASE ISS[e] + n \in Seqs(rec[p].ooo)
    <3>1. PICK d \in rec[p].ooo : d.seq = ISS[e] + n
      BY <2>8 DEF Seqs
    <3>2. d.seq = ISS[e] + d.data /\ d.data \in Nat
      BY <2>1, <2>4, <3>1 DEF Consecutive, OfStream, HeldBack, Payload
    <3>3. d.data = n
      BY <2>1, <3>1, <3>2
    <3> QED
      BY <3>1, <3>3
  <2> QED
    BY <2>2, <2>7, <2>8
<1> QED
  BY <1>1, FromHandshake, PTL

\* The window announced in the handshake, a SYN-RCVD that takes data and the
\* data that OPEN holds back never let a sender outrun its receiver.
THEOREM WindowsAgreeFromHandshake ==
  NoWrap /\ OneOpens => (Spec => []FitsReceiveWindow)
<1> SUFFICES ASSUME NoWrap, OneOpens PROVE Spec => []FitsReceiveWindow
  OBVIOUS
<1>1. TypeInv /\ Delivery /\ Flow => FitsReceiveWindow
  <2> SUFFICES ASSUME TypeInv, Delivery, Flow, NEW e \in Endpoints, NEW m \in net[e],
                      HasData(m)
               PROVE  m.seq <= rec[e].last + 2 * MaxBuffered
    BY DEF FitsReceiveWindow
  <2> DEFINE p == Peer(e)
  <2>1. /\ p \in Endpoints /\ Peer(p) = e
        /\ m.seq = ISS[p] + m.data /\ m.data <= sent[p] /\ m \in Segment
    BY PeerType, Fields DEF Delivery, Tells
  <2>2. /\ ISS[p] \in Nat /\ sent[p] \in Nat /\ m.data \in Nat /\ m.data # 0
        /\ rec[p].oldest \in Nat /\ rec[e].last \in Nat /\ rec[p].maxOut \in Nat
    BY <2>1, Fields, DeliveryBounds, SegmentFields DEF HasData, NoData
  <2>3. /\ rec[p].oldest <= rec[e].last + 1 /\ rec[p].maxOut = Told(p)
        /\ rec[p].next <= rec[p].oldest + rec[p].maxOut
    BY <2>1, <2>2 DEF Flow, Ahead
  <2>4. CASE rec[p].next = ISS[p] + 1 + sent[p]
    <3>1. ISS[p] + 1 + sent[p] <= rec[e].last + 1 + rec[p].maxOut
      BY <2>2, <2>3, <2>4
    <3>2. /\ rec[p].maxOut <= 2 * MaxBuffered /\ MaxBuffered \in Nat
      BY <2>3, SegmentsAssumption DEF Told
    <3> QED
      BY <2>1, <2>2, <3>1, <3>2
  <2>5. CASE rec[p].next # ISS[p] + 1 + sent[p]
    BY <2>1, <2>2, <2>5 DEF Delivery, Numbered
  <2> QED
    BY <2>4, <2>5
<1> QED
  BY <1>1, FromHandshake, PTL

\* From the first SYN on, late and repeated segments of the handshake included,
\* no number of a record moves back.
THEOREM NumbersNeverBackFromHandshake ==
  NoWrap /\ OneOpens => (Spec => NeverBack)
<1> SUFFICES ASSUME NoWrap, OneOpens PROVE Spec => NeverBack
  OBVIOUS
<1>1. Init => TypeInv /\ Greeting /\ Delivery /\ Flow
  BY InitType, GreetingInit, DeliveryInit, FlowInit
<1>2. TypeInv /\ Greeting /\ Delivery /\ Flow /\ [Next]_vars
        => TypeInv' /\ Greeting' /\ Delivery' /\ Flow' /\ [NumbersGrow]_vars
  BY NextType, GreetingNext, DeliveryNext, FlowNext
<1> QED
  BY <1>1, <1>2, PTL DEF Spec, NeverBack
=============================================================================

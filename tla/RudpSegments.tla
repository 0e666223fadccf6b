---------------------------- MODULE RudpSegments ----------------------------
(***************************************************************************)
(* Segments, unsigned sequence numbers and connection records of the       *)
(* reliable UDP protocol of src/common/rudp.  Payloads are abstracted to   *)
(* positive numbers: the n-th message an endpoint accepts for sending is   *)
(* the number n.                                                           *)
(***************************************************************************)
EXTENDS Integers

CONSTANTS Modulus,       (* sequence numbers are Modulus-ary: 2^32 in the code  *)
          MaxBuffered,   (* half the receive window: 200 in the code            *)
          MaxOutstanding (* the send window each side announces: 200            *)

ASSUME SegmentsAssumption ==
  /\ Modulus \in Nat \ {0}
  /\ MaxBuffered \in Nat \ {0}
  /\ MaxOutstanding \in 1 .. 2 * MaxBuffered
  /\ 2 * MaxBuffered < Modulus

UInt == 0 .. Modulus - 1

\* UInt addition: new UIntImpl (x.toInt () + k), which wraps.
UPlus(x, k) == IF x + k < Modulus THEN x + k ELSE (x + k) - Modulus

NoData  == 0
Payload == Nat \ {NoData}

SegmentType == {"SYN", "ACK", "EACK", "RST"}

Segment == [type   : SegmentType,
            seq    : UInt,
            ack    : UInt,
            isAck  : BOOLEAN,     \* a SYN that answers a SYN
            maxOut : Nat,         \* announced by a SYN
            data   : Nat,         \* NoData or a payload
            recvd  : SUBSET UInt] \* listed by an EACK

SynSeg(seq, ack, isAck, maxOut) ==
  [type |-> "SYN", seq |-> seq, ack |-> ack, isAck |-> isAck,
   maxOut |-> maxOut, data |-> NoData, recvd |-> {}]

AckSeg(seq, ack, data) ==
  [type |-> "ACK", seq |-> seq, ack |-> ack, isAck |-> FALSE,
   maxOut |-> 0, data |-> data, recvd |-> {}]

EackSeg(seq, ack, recvd) ==
  [type |-> "EACK", seq |-> seq, ack |-> ack, isAck |-> FALSE,
   maxOut |-> 0, data |-> NoData, recvd |-> recvd]

RstSeg(seq, ack) ==
  [type |-> "RST", seq |-> seq, ack |-> ack, isAck |-> FALSE,
   maxOut |-> 0, data |-> NoData, recvd |-> {}]

\* Only segments with data are tracked for retransmission.
HasData(m) == m.type \in {"ACK", "EACK"} /\ m.data # NoData

(***************************************************************************)
(* The connection record.  ooo is the out-of-order data held back: a list  *)
(* in the code, whose repeated entries for one segment collapse in every   *)
(* place that reads it, so a set here.                                     *)
(***************************************************************************)
HeldBack == [seq : UInt, data : Payload]

Seqs(ooo) == {d.seq : d \in ooo}

Record == [initRecv : UInt,  \* the peer's initial sequence number
           initSeq  : UInt,  \* our own, as far as the record knows
           last     : UInt,  \* last sequence number received in order
           next     : UInt,  \* next sequence number to send
           oldest   : UInt,  \* oldest sequence number not acknowledged
           maxOut   : Nat,   \* outstanding segments the peer allows
           ooo      : SUBSET HeldBack]

\* The record a listening connection is given: sequence number iss, no peer.
ListenRecord(iss) ==
  [initRecv |-> 0, initSeq |-> iss, last |-> 0, next |-> UPlus(iss, 1),
   oldest |-> iss, maxOut |-> MaxOutstanding, ooo |-> {}]

\* The record an opening connection is given: everything is zero.
ClosedRecord ==
  [initRecv |-> 0, initSeq |-> 0, last |-> 0, next |-> 0,
   oldest |-> 0, maxOut |-> MaxOutstanding, ooo |-> {}]
=============================================================================

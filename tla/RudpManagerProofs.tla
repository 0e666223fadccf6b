-------------------------- MODULE RudpManagerProofs --------------------------
(***************************************************************************)
(* The backlog of a listening connection under handlers that exclude one   *)
(* another, and what the map of connections forgets under any handlers,    *)
(* for any number of peers, accepting threads, places and connections.     *)
(***************************************************************************)
EXTENDS RudpManager, RudpStatesProofs

Typed ==
  /\ io = [p \in Peers |-> io[p]]
  /\ queue \in Seq(Peers)

\* The handlers of peers that open to us exclude one another when they hold
\* the service's monitor; a dialled peer's handler never looks at the backlog.
HandlersExclude ==
  /\ \A p, q \in Peers \ Dialled :
       io[p].pc # "idle" /\ io[q].pc # "idle" => p = q
  /\ \A p \in Dialled : io[p].pc \notin {"listen", "put"}

IInv == Typed /\ HandlersExclude /\ HandlersNeverWait

\* An I/O thread that goes home excludes nobody.
LEMMA HomeExcludes ==
  ASSUME IInv, NEW p \in Peers, io' = [io EXCEPT ![p] = IdleIo]
  PROVE  /\ io' = [q \in Peers |-> io'[q]] /\ io'[p].pc = "idle"
         /\ \A q \in Peers \ {p} : io'[q] = io[q]
         /\ HandlersExclude'
<1>1. /\ io' = [q \in Peers |-> io'[q]] /\ io'[p].pc = "idle"
      /\ \A q \in Peers \ {p} : io'[q] = io[q]
  BY DEF IInv, Typed, IdleIo
<1>2. ASSUME NEW q \in Peers \ Dialled, NEW r \in Peers \ Dialled,
             io'[q].pc # "idle", io'[r].pc # "idle"
      PROVE  q = r
  <2>1. q # p /\ r # p /\ io'[q] = io[q] /\ io'[r] = io[r]
    BY <1>1, <1>2
  <2> QED
    BY <1>2, <2>1 DEF IInv, HandlersExclude
<1>3. ASSUME NEW q \in Dialled
      PROVE  io'[q].pc \notin {"listen", "put"}
  <2>1. q \in Peers
    BY ManagerAssumption
  <2>2. CASE q = p
    BY <1>1, <2>2
  <2>3. CASE q # p
    BY <1>1, <2>1, <2>3 DEF IInv, HandlersExclude
  <2> QED
    BY <2>2, <2>3
<1> QED
  BY <1>1, <1>2, <1>3 DEF HandlersExclude

LEMMA PutStep ==
  ASSUME IInv, NEW p \in Peers, Put(p)
  PROVE  IInv'
<1>1. /\ io' = [io EXCEPT ![p] = IdleIo] /\ queue' = Append(queue, p)
      /\ io[p].pc = "put"
  BY DEF Put
<1>2. queue' \in Seq(Peers)
  BY <1>1 DEF IInv, Typed
<1>3. \A q \in Peers : io'[q].pc # "put"
  <2>1. ASSUME NEW q \in Peers, q # p
        PROVE  io'[q].pc # "put"
    BY <1>1, <2>1, HomeExcludes DEF IInv, HandlersExclude
  <2> QED
    BY <1>1, <2>1, HomeExcludes
<1> QED
  BY <1>1, <1>2, <1>3, HomeExcludes DEF IInv, Typed, HandlersNeverWait

\* A step that leaves the backlog alone and takes an I/O thread home.
LEMMA HomeStep ==
  ASSUME IInv, NEW p \in Peers, io' = [io EXCEPT ![p] = IdleIo], UNCHANGED queue
  PROVE  IInv'
<1>1. ASSUME NEW q \in Peers, io'[q].pc = "put"
      PROVE  Len(queue') < Backlog
  <2>1. io'[q] = io[q]
    BY <1>1, HomeExcludes
  <2> QED
    BY <1>1, <2>1 DEF IInv, HandlersNeverWait
<1> QED
  BY <1>1, HomeExcludes DEF IInv, Typed, HandlersNeverWait

LEMMA ArriveStep ==
  ASSUME OneAtATime, IInv, NEW p \in Peers, Arrive(p)
  PROVE  IInv'
<1>1. queue' = queue
  BY DEF Arrive
<1>2. CASE UNCHANGED io
  BY <1>1, <1>2 DEF IInv, Typed, HandlersExclude, HandlersNeverWait
<1>3. ASSUME NEW x, io' = [io EXCEPT ![p] = x], x.pc \in {"handle", "listen"},
             x.pc = "listen" => p \notin Dialled
      PROVE  IInv'
  <2>1. /\ io' = [q \in Peers |-> io'[q]] /\ io'[p] = x
        /\ \A q \in Peers \ {p} : io'[q] = io[q]
    BY <1>3 DEF IInv, Typed
  <2>2. p \notin Dialled => \A q \in Peers \ Dialled : io[q].pc = "idle"
    BY DEF Arrive, MayEnter, IoBusy
  <2>3. HandlersExclude'
    BY <1>3, <2>1, <2>2 DEF IInv, HandlersExclude
  <2> QED
    BY <1>1, <1>3, <2>1, <2>3 DEF IInv, Typed, HandlersNeverWait
<1>4. ASSUME NEW m, io' = [io EXCEPT ![p] =
                              [pc |-> "handle", conn |-> conns[p], seg |-> m]]
      PROVE  IInv'
  BY <1>3, <1>4
<1>5. ASSUME p \notin Dialled, io' = [io EXCEPT ![p] = [IdleIo EXCEPT !.pc = "listen"]]
      PROVE  IInv'
  BY <1>3, <1>5 DEF IdleIo
<1> QED
  BY <1>2, <1>4, <1>5 DEF Arrive

LEMMA CheckRoomStep ==
  ASSUME IInv, NEW p \in Peers, CheckRoom(p)
  PROVE  IInv'
<1>1. CASE ~ HasRoom
  BY <1>1, HomeStep DEF CheckRoom
<1>2. CASE HasRoom
  <2>1. /\ io' = [io EXCEPT ![p] = [IdleIo EXCEPT !.pc = "put"]]
        /\ queue' = queue /\ io[p].pc = "listen"
    BY <1>2 DEF CheckRoom
  <2>2. /\ io' = [q \in Peers |-> io'[q]] /\ io'[p].pc = "put"
        /\ \A q \in Peers \ {p} : io'[q] = io[q]
    BY <2>1 DEF IInv, Typed, IdleIo
  <2>3. p \notin Dialled /\ HandlersExclude'
    BY <2>1, <2>2 DEF IInv, HandlersExclude
  <2> QED
    BY <1>2, <2>1, <2>2, <2>3 DEF IInv, Typed, HandlersNeverWait, HasRoom
<1> QED
  BY <1>1, <1>2

LEMMA AcceptStep ==
  ASSUME IInv, NEW a \in Acceptors, Accept(a)
  PROVE  IInv'
<1>1. io' = io /\ queue # << >> /\ queue' = Tail(queue) /\ queue \in Seq(Peers)
  BY DEF Accept, IInv, Typed
<1>2. queue' \in Seq(Peers) /\ Len(queue') = Len(queue) - 1 /\ Len(queue) \in Nat
  BY <1>1
<1>3. HandlersNeverWait'
  BY <1>1, <1>2, ManagerAssumption DEF IInv, HandlersNeverWait
<1> QED
  BY <1>1, <1>2, <1>3 DEF IInv, Typed, HandlersExclude

LEMMA NextStep ==
  ASSUME OneAtATime, IInv, [Next]_vars
  PROVE  IInv'
<1> USE DEF IInv, Typed, HandlersExclude, HandlersNeverWait
<1>1. CASE UNCHANGED vars
  BY <1>1 DEF vars
<1>2. ASSUME NEW p \in Peers, Arrive(p) PROVE IInv'
  BY <1>2, ArriveStep
<1>3. ASSUME NEW p \in Peers, Handle(p) PROVE IInv'
  BY <1>3, HomeStep DEF Handle
<1>4. ASSUME NEW p \in Peers, CheckRoom(p) PROVE IInv'
  BY <1>4, CheckRoomStep
<1>5. ASSUME NEW p \in Peers, Put(p) PROVE IInv'
  BY <1>5, PutStep
<1>6. ASSUME NEW p \in Peers, NotifyClosed(p) \/ Dial(p) \/ Close(p) PROVE IInv'
  BY <1>6 DEF NotifyClosed, Dial, Close
<1>7. ASSUME NEW a \in Acceptors, Accept(a) PROVE IInv'
  BY <1>7, AcceptStep
<1>8. ASSUME NEW a \in Acceptors, PutConnection(a) \/ SetDelegate(a) \/ Replay(a)
      PROVE  IInv'
  BY <1>8 DEF PutConnection, SetDelegate, Replay
<1>9. ASSUME NEW c \in Conns, Open(c) \/ Expire(c) \/ Count(c) PROVE IInv'
  BY <1>9 DEF Open, Expire, Count
<1> QED
  BY <1>1, <1>2, <1>3, <1>4, <1>5, <1>6, <1>7, <1>8, <1>9 DEF Next

LEMMA InitStep == Init => IInv
<1> SUFFICES ASSUME Init PROVE IInv
  OBVIOUS
<1>1. /\ io = [p \in Peers |-> IdleIo] /\ queue = << >>
  BY DEF Init
<1>2. \A p \in Peers : io[p].pc = "idle"
  BY <1>1 DEF IdleIo
<1> QED
  BY <1>1, <1>2, ManagerAssumption
     DEF IInv, Typed, HandlersExclude, HandlersNeverWait

\* When the handler of every segment holds the service's monitor, no I/O
\* thread ever waits for room in the backlog, although it looks for room and
\* takes it in two steps: RudpServiceImpl's handler and ListeningConnectionImpl.
THEOREM NoHandlerWaits == OneAtATime => (Spec => []HandlersNeverWait)
<1> SUFFICES ASSUME OneAtATime PROVE Spec => []HandlersNeverWait
  OBVIOUS
<1>1. IInv /\ [Next]_vars => IInv'
  BY NextStep
<1>2. IInv => HandlersNeverWait
  BY DEF IInv
<1> QED
  BY <1>1, <1>2, InitStep, PTL DEF Spec

----------------------------------------------------------------------------
(***************************************************************************)
(* What the manager forgets.  A connection leaves the map when its closed  *)
(* callback runs; the callback may find no delegate, and then RaceRunnable *)
(* counts the call.  So whatever is closed and still listed has a call     *)
(* counted, or a thread about to count one.  That needs one more fact: a   *)
(* connection accept has made and not yet put in the map is touched by     *)
(* nobody, or it could close there, before the callback can remove it.     *)
(***************************************************************************)

ConnType == [peer : Peers, st : StateName, rec : Record, opened : BOOLEAN,
             delegate : BOOLEAN, runs : Nat, held : {"nobody", "io", "other"}]

\* Records the states can be in, threads that hold a connection they name,
\* and a backlog of peers that open to us.
Wellformed ==
  /\ \A c \in Conns : RecordOK(made[c].st, made[c].rec)
  /\ \A a \in Acceptors : acc[a].pc # "idle" => acc[a].conn # NoConn
  /\ \A p \in Peers : io[p].pc = "handle" => io[p].conn # NoConn
  /\ \A p \in Peers : io[p].pc \in {"listen", "put"} => p \notin Dialled
  /\ queue \in Seq(Peers \ Dialled)

Untouched(a) ==
  LET c == acc[a].conn
  IN /\ made[c].st = "SYN_RCVD" /\ made[c].peer \notin Dialled
     /\ \A p \in Peers : conns[p] # c /\ io[p].conn # c
     /\ \A b \in Acceptors \ {a} : acc[b].conn # c

NewUntouched == \A a \in Acceptors : acc[a].pc = "made" => Untouched(a)

Accounted ==
  \A c \in Conns :
    made[c].st = "CLOSED" /\ made[c].rec # ClosedRecord /\ Listed(c)
      => made[c].runs > 0 \/ ~ MonitorFree(c)

Safe == TypeOK /\ Wellformed /\ NewUntouched /\ Accounted

LEMMA ConnFields ==
  ASSUME Safe, NEW c \in Conns
  PROVE  /\ made[c] \in ConnType /\ made[c].peer \in Peers
         /\ made[c].st \in StateName /\ made[c].rec \in Record
         /\ RecordOK(made[c].st, made[c].rec)
         /\ c \in 1 .. Len(made) /\ Len(made) \in Nat
<1>1. made \in Seq(ConnType)
  BY DEF Safe, TypeOK, ConnType
<1>2. made[c] \in ConnType /\ c \in 1 .. Len(made) /\ Len(made) \in Nat
  BY <1>1 DEF Conns
<1>3. RecordOK(made[c].st, made[c].rec)
  BY DEF Safe, Wellformed
<1> QED
  BY <1>2, <1>3 DEF ConnType

LEMMA AnswersType ==
  ASSUME NEW p \in Peers, NEW out \in SUBSET Segment
  PROVE  Answers(p, out) \in SUBSET Segment
<1>1. PeerISS[p] \in UInt /\ Ours(p) \in UInt
  BY ManagerAssumption, UPlusOne DEF Ours
<1>2. ASSUME NEW m \in out
      PROVE  /\ AckSeg(Ours(p), m.seq, NoData) \in Segment
             /\ SynSeg(PeerISS[p], m.seq, TRUE, MaxBuffered) \in Segment
             /\ RstSeg(Ours(p), m.seq) \in Segment
  <2>1. m.seq \in UInt /\ NoData \in Nat /\ MaxBuffered \in Nat
    BY SegmentFields, SegmentsAssumption DEF NoData
  <2> QED
    BY <1>1, <2>1, SegmentTypes
<1> SUFFICES ASSUME NEW s \in Answers(p, out) PROVE s \in Segment
  OBVIOUS
<1>3. PICK m \in {o \in out : o.type = "SYN"} :
        s \in IF m.isAck THEN {AckSeg(Ours(p), m.seq, NoData)}
              ELSE {SynSeg(PeerISS[p], m.seq, TRUE, MaxBuffered), RstSeg(Ours(p), m.seq)}
  BY DEF Answers
<1> QED
  BY <1>2, <1>3

\* A call on a connection that is no acceptor's new one: what it leaves.
CallLeaves(c, eff) ==
  /\ made' \in Seq(ConnType) /\ Len(made') = Len(made) /\ Conns' = Conns
  /\ \A d \in Conns \ {c} : made'[d] = made[d]
  /\ \A d \in Conns : /\ made'[d].peer = made[d].peer
                      /\ RecordOK(made'[d].st, made'[d].rec)
  /\ conns' \in [Peers -> 0 .. Len(made)]
  /\ \A p \in Peers : conns'[p] \in {conns[p], NoConn}
  /\ wire' \in [Peers -> SUBSET Segment]
  /\ Accounted'

LEMMA CallStep ==
  ASSUME Safe, NEW c \in Conns, NEW eff, EffectOK(eff), NEW t \in {"io", "other"},
         Call(c, eff, t),
         made[c].st = "CLOSED" /\ eff.st = "CLOSED" => eff.rec = made[c].rec
  PROVE  CallLeaves(c, eff)
<1> DEFINE p == made[c].peer
           ends == eff.st = "CLOSED" /\ made[c].st # "CLOSED"
<1>1. /\ made \in Seq(ConnType) /\ conns \in [Peers -> 0 .. Len(made)]
      /\ wire \in [Peers -> SUBSET Segment]
  BY DEF Safe, TypeOK, ConnType
<1>2. made[c] \in ConnType /\ p \in Peers /\ c \in 1 .. Len(made) /\ Len(made) \in Nat
  BY ConnFields
<1>3. /\ eff.st \in StateName /\ eff.rec \in Record /\ eff.out \in SUBSET Segment
      /\ RecordOK(eff.st, eff.rec)
  BY DEF EffectOK
<1>4. PICK seen \in Sees(c) :
        /\ made' = [made EXCEPT
             ![c].st = eff.st, ![c].rec = eff.rec,
             ![c].opened = @ \/ eff.st = "OPEN",
             ![c].held = IF ends /\ ~ seen THEN t ELSE @]
        /\ conns' = IF ends /\ seen THEN Without(p) ELSE conns
  BY DEF Call
<1> DEFINE new == [made[c] EXCEPT
             !.st = eff.st, !.rec = eff.rec, !.opened = @ \/ eff.st = "OPEN",
             !.held = IF ends /\ ~ seen THEN t ELSE @]
<1>5. made' = [made EXCEPT ![c] = new]
  BY <1>1, <1>2, <1>4
<1>6. /\ new \in ConnType /\ new.peer = p /\ new.st = eff.st /\ new.rec = eff.rec
      /\ new.runs = made[c].runs
      /\ new.held = IF ends /\ ~ seen THEN t ELSE made[c].held
  BY <1>2, <1>3 DEF ConnType
<1> HIDE DEF new
<1>7. /\ made' \in Seq(ConnType) /\ Len(made') = Len(made) /\ DOMAIN made' = DOMAIN made
      /\ made'[c] = new /\ \A d \in Conns \ {c} : made'[d] = made[d]
  BY <1>1, <1>2, <1>5, <1>6 DEF Conns
<1>8. /\ \A d \in Conns : /\ made'[d].peer = made[d].peer
                          /\ RecordOK(made'[d].st, made'[d].rec)
  BY <1>3, <1>6, <1>7, ConnFields
<1>9. /\ conns' \in [Peers -> 0 .. Len(made)]
      /\ \A q \in Peers : conns'[q] \in {conns[q], NoConn}
  BY <1>1, <1>2, <1>4 DEF Without, NoConn
<1>10. wire' \in [Peers -> SUBSET Segment]
  <2>1. wire' = [wire EXCEPT ![p] = @ \cup Answers(p, eff.out)]
    BY DEF Call
  <2> QED
    BY <1>1, <1>2, <1>3, <2>1, AnswersType
<1>11. Accounted'
  <2> SUFFICES ASSUME NEW d \in Conns, made'[d].st = "CLOSED",
                      made'[d].rec # ClosedRecord, conns'[made'[d].peer] = d
               PROVE  made'[d].runs > 0 \/ made'[d].held # "nobody"
    BY <1>7 DEF Accounted, Listed, MonitorFree, Conns
  <2>1. d # NoConn /\ conns[made[d].peer] = d
    BY <1>8, <1>9, ConnFields DEF NoConn
  <2>2. CASE d # c
    BY <1>7, <2>1, <2>2 DEF Safe, Accounted, Listed, MonitorFree
  <2>3. CASE d = c /\ ends
    <3>1. ~ seen
      BY <1>1, <1>2, <1>4, <1>8, <2>1, <2>3 DEF Without
    <3> QED
      BY <1>6, <1>7, <2>3, <3>1
  <2>4. CASE d = c /\ ~ ends
    <3>1. made[c].st = "CLOSED" /\ made[c].rec = eff.rec
      BY <1>6, <1>7, <2>4
    <3> QED
      BY <1>6, <1>7, <2>1, <2>4, <3>1 DEF Safe, Accounted, Listed, MonitorFree
  <2> QED
    BY <2>2, <2>3, <2>4
<1> QED
  BY <1>7, <1>8, <1>9, <1>10, <1>11 DEF CallLeaves, Conns

\* What follows from a call, once queue and acceptors are left alone and the
\* I/O threads too, but for one that goes home.
LEMMA CallRest ==
  ASSUME Safe, NEW c \in Conns, NEW eff, CallLeaves(c, eff),
         \A a \in Acceptors : acc[a].pc = "made" => acc[a].conn # c,
         UNCHANGED <<queue, acc>>,
         io' = io \/ \E p \in Peers : io' = [io EXCEPT ![p] = IdleIo]
  PROVE  Safe'
<1>1. /\ io' \in [Peers -> [pc : {"idle", "handle", "listen", "put"},
                            conn : 0 .. Len(made), seg : Segment]]
      /\ \A p \in Peers : io'[p] = io[p] \/ io'[p] = IdleIo
  <2>1. IdleIo \in [pc : {"idle", "handle", "listen", "put"},
                    conn : 0 .. Len(made), seg : Segment]
    <3>1. 0 \in UInt /\ Len(made) \in Nat
      BY ConnFields, SegmentsAssumption DEF UInt
    <3> QED
      BY <3>1, SegmentTypes DEF IdleIo, NoConn
  <2> QED
    BY <2>1 DEF Safe, TypeOK
<1>2. TypeOK'
  BY <1>1 DEF Safe, TypeOK, CallLeaves, ConnType
<1>3. Wellformed'
  <2>1. \A p \in Peers :
          /\ io'[p].pc = "handle" => io'[p].conn # NoConn
          /\ io'[p].pc \in {"listen", "put"} => p \notin Dialled
    BY <1>1 DEF Safe, Wellformed, IdleIo
  <2>2. \A d \in Conns' : RecordOK(made'[d].st, made'[d].rec)
    BY DEF CallLeaves
  <2> QED
    BY <2>1, <2>2 DEF Safe, Wellformed
<1>4. ASSUME NEW a \in Acceptors, acc[a].pc = "made"
      PROVE  Untouched(a)'
  <2>1. acc[a].conn \in Conns \ {c} /\ Untouched(a) /\ acc[a].conn # NoConn
    BY <1>4 DEF Safe, TypeOK, Wellformed, NewUntouched, NoConn, Conns
  <2>2. made'[acc[a].conn] = made[acc[a].conn]
    BY <2>1 DEF CallLeaves
  <2>3. \A p \in Peers : conns'[p] # acc[a].conn /\ io'[p].conn # acc[a].conn
    BY <1>1, <2>1 DEF Untouched, CallLeaves, IdleIo
  <2> QED
    BY <2>1, <2>2, <2>3 DEF Untouched
<1>5. NewUntouched'
  BY <1>4 DEF NewUntouched
<1> QED
  BY <1>2, <1>3, <1>5 DEF Safe, CallLeaves

LEMMA SafeHandle ==
  ASSUME Safe, NEW p \in Peers, Handle(p)
  PROVE  Safe'
<1> DEFINE c   == io[p].conn
           eff == GetNext(made[c].st, made[c].rec, io[p].seg)
<1>1. /\ c \in Conns /\ io[p].seg \in Segment
  BY DEF Safe, TypeOK, Wellformed, Handle, NoConn, Conns
<1>2. EffectOK(eff)
  BY <1>1, ConnFields, GetNextType
<1>3. made[c].st = "CLOSED" /\ eff.st = "CLOSED" => eff.rec = made[c].rec
  BY DEF GetNext, ClosedNext, Effect
<1>4. Call(c, eff, "io")
  BY DEF Handle
<1> HIDE DEF eff
<1>5. CallLeaves(c, eff)
  BY <1>1, <1>2, <1>3, <1>4, CallStep
<1>6. \A a \in Acceptors : acc[a].pc = "made" => acc[a].conn # c
  BY DEF Safe, NewUntouched, Untouched
<1> QED
  BY <1>1, <1>5, <1>6, CallRest DEF Handle

LEMMA SafeOpen ==
  ASSUME Safe, NEW c \in Conns, Open(c)
  PROVE  Safe'
<1> DEFINE eff == ClosedOpen(made[c].rec, LocalISS)
<1>1. EffectOK(eff)
  BY ClosedOpenType, ManagerAssumption DEF Open
<1>2. eff.st # "CLOSED" /\ Call(c, eff, "other")
  BY DEF Open, ClosedOpen, Effect
<1> HIDE DEF eff
<1>3. CallLeaves(c, eff)
  BY <1>1, <1>2, CallStep
<1>4. \A a \in Acceptors : acc[a].pc = "made" => acc[a].conn # c
  BY DEF Safe, NewUntouched, Untouched, Open
<1> QED
  BY <1>3, <1>4, CallRest DEF Open

LEMMA SafeClose ==
  ASSUME Safe, NEW p \in Peers, Close(p)
  PROVE  Safe'
<1> DEFINE c   == conns[p]
           eff == CloseNext(made[c].st, made[c].rec)
<1>1. c \in Conns
  BY DEF Safe, TypeOK, Close, NoConn, Conns
<1>2. made[c].st # "CLOSED" /\ Call(c, eff, "other")
  BY DEF Close
<1>3. EffectOK(eff)
  BY <1>1, <1>2, ConnFields, CloseNextType
<1> HIDE DEF eff
<1>4. CallLeaves(c, eff)
  BY <1>1, <1>2, <1>3, CallStep
<1>5. \A a \in Acceptors : acc[a].pc = "made" => acc[a].conn # c
  BY DEF Safe, NewUntouched, Untouched
<1> QED
  BY <1>1, <1>4, <1>5, CallRest DEF Close

LEMMA SafeExpire ==
  ASSUME Safe, NEW c \in Conns, Expire(c)
  PROVE  Safe'
<1> DEFINE eff == TimerNext(made[c].st, made[c].rec)
<1>1. made[c].st = "CLOSE_WAIT" /\ Call(c, eff, "other")
  BY DEF Expire
<1>2. EffectOK(eff)
  BY ConnFields, TimerNextType
<1> HIDE DEF eff
<1>3. CallLeaves(c, eff)
  BY <1>1, <1>2, CallStep
<1>4. \A a \in Acceptors : acc[a].pc = "made" => acc[a].conn # c
  BY <1>1 DEF Safe, NewUntouched, Untouched
<1> QED
  BY <1>3, <1>4, CallRest DEF Expire

\* Steps that change neither the connections nor the wire, but for segments
\* taken from it, and leave the acceptors where they are.
LEMMA SafeArrive ==
  ASSUME Safe, NEW p \in Peers, Arrive(p)
  PROVE  Safe'
<1>1. /\ conns' = conns /\ made' = made /\ queue' = queue /\ acc' = acc
  BY DEF Arrive
<1>2. PICK m \in wire[p] :
        /\ wire' = IF Repeats THEN wire ELSE [wire EXCEPT ![p] = @ \ {m}]
        /\ \/ /\ conns[p] # NoConn
              /\ io' = [io EXCEPT ![p] = [pc |-> "handle", conn |-> conns[p], seg |-> m]]
           \/ /\ p \notin Dialled
              /\ io' = [io EXCEPT ![p] = [IdleIo EXCEPT !.pc = "listen"]]
           \/ io' = io
  BY DEF Arrive
<1>3. /\ wire' \in [Peers -> SUBSET Segment] /\ m \in Segment
      /\ RstSeg(0, 0) \in Segment
  <2>1. 0 \in UInt
    BY SegmentsAssumption DEF UInt
  <2> QED
    BY <1>2, <2>1, SegmentTypes DEF Safe, TypeOK
<1>4. /\ conns[p] \in 0 .. Len(made) /\ Len(made) \in Nat
  BY DEF Safe, TypeOK
<1>5. PICK x \in [pc : {"idle", "handle", "listen", "put"},
                  conn : 0 .. Len(made), seg : Segment] :
        /\ io' = [io EXCEPT ![p] = x]
        /\ \/ x = io[p]
           \/ x.pc = "handle" /\ x.conn # NoConn /\ x.conn = conns[p]
           \/ x.pc = "listen" /\ x.conn = NoConn /\ p \notin Dialled
  <2>1. CASE io' = io
    BY <2>1 DEF Safe, TypeOK
  <2>2. CASE /\ conns[p] # NoConn
             /\ io' = [io EXCEPT ![p] = [pc |-> "handle", conn |-> conns[p], seg |-> m]]
    <3> DEFINE y == [pc |-> "handle", conn |-> conns[p], seg |-> m]
    <3>1. /\ y \in [pc : {"idle", "handle", "listen", "put"},
                    conn : 0 .. Len(made), seg : Segment]
          /\ y.pc = "handle" /\ y.conn = conns[p] /\ y.conn # NoConn
          /\ io' = [io EXCEPT ![p] = y]
      BY <1>3, <1>4, <2>2
    <3> HIDE DEF y
    <3> QED
      BY <3>1
  <2>3. CASE /\ p \notin Dialled
             /\ io' = [io EXCEPT ![p] = [IdleIo EXCEPT !.pc = "listen"]]
    <3> DEFINE y == [IdleIo EXCEPT !.pc = "listen"]
    <3>1. /\ y \in [pc : {"idle", "handle", "listen", "put"},
                    conn : 0 .. Len(made), seg : Segment]
          /\ y.pc = "listen" /\ y.conn = NoConn /\ p \notin Dialled
          /\ io' = [io EXCEPT ![p] = y]
      BY <1>3, <1>4, <2>3 DEF IdleIo, NoConn
    <3> HIDE DEF y
    <3> QED
      BY <3>1
  <2> QED
    BY <1>2, <2>1, <2>2, <2>3
<1>6. /\ io' \in [Peers -> [pc : {"idle", "handle", "listen", "put"},
                            conn : 0 .. Len(made), seg : Segment]]
      /\ io'[p] = x /\ \A q \in Peers \ {p} : io'[q] = io[q]
  BY <1>5 DEF Safe, TypeOK
<1>7. TypeOK'
  BY <1>1, <1>3, <1>6 DEF Safe, TypeOK
<1>8. Wellformed'
  <2>1. \A q \in Peers :
          /\ io'[q].pc = "handle" => io'[q].conn # NoConn
          /\ io'[q].pc \in {"listen", "put"} => q \notin Dialled
    BY <1>5, <1>6 DEF Safe, Wellformed
  <2> QED
    BY <1>1, <2>1 DEF Safe, Wellformed, Conns
<1>9. NewUntouched'
  <2>1. ASSUME NEW a \in Acceptors, acc[a].pc = "made"
        PROVE  \A q \in Peers : io'[q].conn # acc[a].conn
    BY <1>5, <1>6, <2>1 DEF Safe, NewUntouched, Untouched, Wellformed
  <2> QED
    BY <1>1, <2>1 DEF Safe, NewUntouched, Untouched
<1>10. Accounted'
  BY <1>1 DEF Safe, Accounted, Conns, Listed, MonitorFree
<1> QED
  BY <1>7, <1>8, <1>9, <1>10 DEF Safe

LEMMA SafeBacklog ==
  ASSUME Safe, NEW p \in Peers, CheckRoom(p) \/ Put(p)
  PROVE  Safe'
<1>1. /\ conns' = conns /\ made' = made /\ wire' = wire /\ acc' = acc
      /\ io[p].pc \in {"listen", "put"}
  BY DEF CheckRoom, Put
<1>2. RstSeg(0, 0) \in Segment /\ 0 \in 0 .. Len(made)
  <2>1. 0 \in UInt /\ Len(made) \in Nat
    BY SegmentsAssumption DEF UInt, Safe, TypeOK
  <2> QED
    BY <2>1, SegmentTypes
<1>3. PICK x \in [pc : {"idle", "handle", "listen", "put"},
                  conn : 0 .. Len(made), seg : Segment] :
        io' = [io EXCEPT ![p] = x] /\ x.pc \in {"idle", "put"} /\ x.conn = NoConn
  BY <1>2 DEF CheckRoom, Put, IdleIo, NoConn
<1>4. /\ io' \in [Peers -> [pc : {"idle", "handle", "listen", "put"},
                            conn : 0 .. Len(made), seg : Segment]]
      /\ io'[p] = x /\ \A q \in Peers \ {p} : io'[q] = io[q]
  BY <1>3 DEF Safe, TypeOK
<1>5. p \notin Dialled
  BY <1>1 DEF Safe, Wellformed
<1>6. queue' \in Seq(Peers \ Dialled) /\ queue' \in Seq(Peers)
  <2>1. queue \in Seq(Peers \ Dialled) /\ queue \in Seq(Peers)
    BY DEF Safe, TypeOK, Wellformed
  <2>2. queue' = queue \/ queue' = Append(queue, p)
    BY DEF CheckRoom, Put
  <2> QED
    BY <1>5, <2>1, <2>2
<1>7. TypeOK'
  BY <1>1, <1>4, <1>6 DEF Safe, TypeOK
<1>8. Wellformed'
  <2>1. \A q \in Peers :
          /\ io'[q].pc = "handle" => io'[q].conn # NoConn
          /\ io'[q].pc \in {"listen", "put"} => q \notin Dialled
    BY <1>3, <1>4, <1>5 DEF Safe, Wellformed
  <2> QED
    BY <1>1, <1>6, <2>1 DEF Safe, Wellformed, Conns
<1>9. NewUntouched'
  <2>1. ASSUME NEW a \in Acceptors, acc[a].pc = "made"
        PROVE  \A q \in Peers : io'[q].conn # acc[a].conn
    BY <1>3, <1>4, <2>1 DEF Safe, NewUntouched, Untouched, Wellformed
  <2> QED
    BY <1>1, <2>1 DEF Safe, NewUntouched, Untouched
<1>10. Accounted'
  BY <1>1 DEF Safe, Accounted, Conns, Listed, MonitorFree
<1> QED
  BY <1>7, <1>8, <1>9, <1>10 DEF Safe

LEMMA SafeNotifyClosed ==
  ASSUME Safe, NEW p \in Peers, NotifyClosed(p)
  PROVE  Safe'
<1>1. /\ made' = made /\ wire' = wire /\ acc' = acc /\ io' = io /\ queue' = queue
      /\ conns' = [conns EXCEPT ![p] = NoConn]
  BY DEF NotifyClosed, Without
<1>2. /\ conns' \in [Peers -> 0 .. Len(made)]
      /\ \A q \in Peers : conns'[q] \in {conns[q], NoConn}
  BY <1>1 DEF Safe, TypeOK, NoConn
<1>3. TypeOK'
  BY <1>1, <1>2 DEF Safe, TypeOK
<1>4. Wellformed'
  BY <1>1 DEF Safe, Wellformed, Conns
<1>5. NewUntouched'
  BY <1>1, <1>2 DEF Safe, NewUntouched, Untouched, Wellformed
<1>6. Accounted'
  <2> SUFFICES ASSUME NEW d \in Conns, made[d].st = "CLOSED",
                      made[d].rec # ClosedRecord, conns'[made[d].peer] = d
               PROVE  made[d].runs > 0 \/ ~ MonitorFree(d)
    BY <1>1 DEF Accounted, Conns, Listed, MonitorFree
  <2>1. conns[made[d].peer] = d
    BY <1>2, ConnFields DEF NoConn
  <2> QED
    BY <2>1 DEF Safe, Accounted, Listed
<1> QED
  BY <1>3, <1>4, <1>5, <1>6 DEF Safe

\* A new connection: of the peer whose SYN accept has taken, or of one we
\* open to.  No thread and no entry of the map names it yet.
LEMMA SafeAppend ==
  ASSUME Safe, NEW n \in ConnType, RecordOK(n.st, n.rec), made' = Append(made, n)
  PROVE  /\ made' \in Seq(ConnType) /\ Len(made') = Len(made) + 1 /\ Len(made) \in Nat
         /\ made'[Len(made) + 1] = n
         /\ Conns' = Conns \cup {Len(made) + 1} /\ Len(made) + 1 \notin Conns
         /\ \A c \in Conns : made'[c] = made[c]
         /\ \A c \in Conns' : RecordOK(made'[c].st, made'[c].rec)
<1>1. made \in Seq(ConnType)
  BY DEF Safe, TypeOK, ConnType
<1>2. /\ made' \in Seq(ConnType) /\ Len(made') = Len(made) + 1 /\ Len(made) \in Nat
      /\ made'[Len(made) + 1] = n
      /\ Conns = 1 .. Len(made) /\ Conns' = 1 .. Len(made) + 1
      /\ \A c \in 1 .. Len(made) : made'[c] = made[c]
  BY <1>1 DEF Conns
<1>3. \A c \in Conns : RecordOK(made[c].st, made[c].rec)
  BY DEF Safe, Wellformed
<1> QED
  BY <1>2, <1>3

LEMMA SafeAccept ==
  ASSUME Safe, NEW a \in Acceptors, Accept(a)
  PROVE  Safe'
<1> DEFINE p   == Head(queue)
           m   == SynSeg(PeerISS[p], 0, FALSE, MaxOutstanding)
           eff == ListenNext(ListenRecord(LocalISS), m)
           n   == NewConn(p, eff.st, eff.rec)
           k   == Len(made) + 1
<1>1. /\ made' = Append(made, n) /\ acc' = [acc EXCEPT ![a] = [pc |-> "made", conn |-> k]]
      /\ wire' = [wire EXCEPT ![p] = @ \cup Answers(p, eff.out)]
      /\ queue' = Tail(queue) /\ conns' = conns /\ io' = io /\ queue # << >>
  BY DEF Accept
<1>2. /\ p \in Peers \ Dialled /\ queue' \in Seq(Peers) /\ queue' \in Seq(Peers \ Dialled)
  <2>1. queue \in Seq(Peers \ Dialled) /\ queue \in Seq(Peers)
    BY DEF Safe, TypeOK, Wellformed
  <2> QED
    BY <1>1, <2>1
<1>3. m \in Segment /\ eff.st = "SYN_RCVD"
  <2>1. 0 \in UInt /\ PeerISS[p] \in UInt /\ MaxOutstanding \in Nat
    BY <1>2, ManagerAssumption, SegmentsAssumption DEF UInt
  <2>2. m \in Segment
    BY <2>1, SegmentTypes
  <2>3. m.type = "SYN" /\ m.isAck = FALSE
    BY DEF SynSeg
  <2>4. eff.st = "SYN_RCVD"
    BY <2>3 DEF ListenNext, Effect
  <2> QED
    BY <2>2, <2>4
<1>4. RecordOK("LISTEN", ListenRecord(LocalISS))
  <2>1. ListenRecord(LocalISS) \in Record /\ ListenRecord(LocalISS).ooo = {}
    <3>1. 0 \in UInt /\ UPlus(LocalISS, 1) \in UInt /\ LocalISS \in UInt /\ MaxOutstanding \in Nat
      BY UPlusOne, ManagerAssumption, SegmentsAssumption DEF UInt
    <3> QED
      BY <3>1 DEF ListenRecord, Record
  <2> QED
    BY <2>1 DEF RecordOK, Seqs
<1>5. EffectOK(eff)
  BY <1>3, <1>4, ListenNextType
<1> HIDE DEF m, eff
<1>6. /\ eff.rec \in Record /\ eff.out \in SUBSET Segment /\ RecordOK("SYN_RCVD", eff.rec)
  BY <1>3, <1>5 DEF EffectOK
<1>7. n \in ConnType /\ n.peer = p /\ n.st = "SYN_RCVD" /\ n.rec = eff.rec
  BY <1>2, <1>3, <1>6 DEF NewConn, ConnType, StateName
<1> HIDE DEF n
<1>8. /\ made' \in Seq(ConnType) /\ Len(made') = k /\ Len(made) \in Nat /\ made'[k] = n
      /\ Conns' = Conns \cup {k} /\ k \notin Conns
      /\ \A c \in Conns : made'[c] = made[c]
      /\ \A c \in Conns' : RecordOK(made'[c].st, made'[c].rec)
  BY <1>1, <1>6, <1>7, SafeAppend
<1>9. /\ conns \in [Peers -> 0 .. Len(made)]
      /\ io \in [Peers -> [pc : {"idle", "handle", "listen", "put"},
                           conn : 0 .. Len(made), seg : Segment]]
      /\ acc \in [Acceptors -> [pc : {"idle", "made", "put", "set"}, conn : 0 .. Len(made)]]
      /\ wire \in [Peers -> SUBSET Segment]
  BY DEF Safe, TypeOK
<1>10. /\ conns' \in [Peers -> 0 .. Len(made')]
       /\ io' \in [Peers -> [pc : {"idle", "handle", "listen", "put"},
                             conn : 0 .. Len(made'), seg : Segment]]
       /\ acc' \in [Acceptors -> [pc : {"idle", "made", "put", "set"}, conn : 0 .. Len(made')]]
       /\ acc'[a].pc = "made" /\ acc'[a].conn = k
       /\ \A b \in Acceptors \ {a} : acc'[b] = acc[b] /\ acc[b].conn # k
       /\ \A q \in Peers : conns[q] # k /\ io[q].conn # k
       /\ k # NoConn
  <2>1. 0 .. Len(made) \subseteq 0 .. k /\ k \in 0 .. k /\ k \notin 0 .. Len(made) /\ k # 0
    BY <1>8
  <2> HIDE DEF k
  <2> QED
    BY <1>1, <1>8, <1>9, <2>1 DEF NoConn
<1>11. wire' \in [Peers -> SUBSET Segment]
  BY <1>1, <1>2, <1>6, <1>9, AnswersType
<1> HIDE DEF k, p
<1>12. TypeOK'
  BY <1>2, <1>8, <1>10, <1>11 DEF TypeOK, ConnType
<1>13. Wellformed'
  BY <1>1, <1>2, <1>8, <1>10 DEF Safe, Wellformed
<1>14. ASSUME NEW b \in Acceptors, acc'[b].pc = "made"
       PROVE  Untouched(b)'
  <2>1. CASE b = a
    BY <1>1, <1>2, <1>7, <1>8, <1>10, <2>1 DEF Untouched
  <2>2. CASE b # a
    <3>1. acc'[b] = acc[b] /\ Untouched(b) /\ acc[b].conn \in Conns
      BY <1>10, <1>14, <2>2 DEF Safe, NewUntouched, TypeOK, Wellformed, NoConn, Conns
    <3> QED
      BY <1>1, <1>8, <1>10, <2>2, <3>1 DEF Untouched
  <2> QED
    BY <2>1, <2>2
<1>15. Accounted'
  <2> SUFFICES ASSUME NEW d \in Conns', made'[d].st = "CLOSED",
                      made'[d].rec # ClosedRecord, conns[made'[d].peer] = d
               PROVE  made'[d].runs > 0 \/ made'[d].held # "nobody"
    BY <1>1 DEF Accounted, Listed, MonitorFree
  <2>1. d \in Conns /\ made'[d] = made[d]
    BY <1>7, <1>8
  <2> QED
    BY <2>1 DEF Safe, Accounted, Listed, MonitorFree
<1> QED
  BY <1>12, <1>13, <1>14, <1>15 DEF Safe, NewUntouched

LEMMA SafeDial ==
  ASSUME Safe, NEW p \in Peers, Dial(p)
  PROVE  Safe'
<1> DEFINE n == NewConn(p, "CLOSED", ClosedRecord)
           k == Len(made) + 1
<1>1. /\ made' = Append(made, n) /\ conns' = [conns EXCEPT ![p] = k] /\ p \in Dialled
      /\ acc' = acc /\ io' = io /\ wire' = wire /\ queue' = queue
  BY DEF Dial
<1>2. RecordOK("CLOSED", ClosedRecord) /\ ClosedRecord \in Record
  <2>1. ClosedRecord \in Record /\ ClosedRecord.ooo = {}
    <3>1. 0 \in UInt /\ MaxOutstanding \in Nat
      BY SegmentsAssumption DEF UInt
    <3> QED
      BY <3>1 DEF ClosedRecord, Record
  <2> QED
    BY <2>1 DEF RecordOK, Seqs
<1>3. n \in ConnType /\ n.peer = p /\ n.st = "CLOSED" /\ n.rec = ClosedRecord
  BY <1>2 DEF NewConn, ConnType, StateName
<1> HIDE DEF n
<1>4. /\ made' \in Seq(ConnType) /\ Len(made') = k /\ Len(made) \in Nat /\ made'[k] = n
      /\ Conns' = Conns \cup {k} /\ k \notin Conns
      /\ \A c \in Conns : made'[c] = made[c]
      /\ \A c \in Conns' : RecordOK(made'[c].st, made'[c].rec)
  BY <1>1, <1>2, <1>3, SafeAppend
<1>5. /\ conns \in [Peers -> 0 .. Len(made)]
      /\ io \in [Peers -> [pc : {"idle", "handle", "listen", "put"},
                           conn : 0 .. Len(made), seg : Segment]]
      /\ acc \in [Acceptors -> [pc : {"idle", "made", "put", "set"}, conn : 0 .. Len(made)]]
  BY DEF Safe, TypeOK
<1>6. 0 .. Len(made) \subseteq 0 .. k /\ k \in 0 .. k /\ k \notin 0 .. Len(made) /\ k # NoConn
  BY <1>4 DEF NoConn
<1> HIDE DEF k
<1>7. /\ conns' \in [Peers -> 0 .. Len(made')]
      /\ io' \in [Peers -> [pc : {"idle", "handle", "listen", "put"},
                            conn : 0 .. Len(made'), seg : Segment]]
      /\ acc' \in [Acceptors -> [pc : {"idle", "made", "put", "set"}, conn : 0 .. Len(made')]]
      /\ conns'[p] = k /\ \A q \in Peers \ {p} : conns'[q] = conns[q]
      /\ \A b \in Acceptors : acc[b].conn # k
  BY <1>1, <1>4, <1>5, <1>6
<1>8. TypeOK'
  BY <1>1, <1>4, <1>7 DEF Safe, TypeOK, ConnType
<1>9. Wellformed'
  BY <1>1, <1>4 DEF Safe, Wellformed
<1>10. ASSUME NEW b \in Acceptors, acc[b].pc = "made"
       PROVE  Untouched(b)'
  <2>1. Untouched(b) /\ acc[b].conn \in Conns
    BY <1>10 DEF Safe, NewUntouched, TypeOK, Wellformed, NoConn, Conns
  <2> QED
    BY <1>1, <1>4, <1>7, <2>1 DEF Untouched
<1>11. Accounted'
  <2> SUFFICES ASSUME NEW d \in Conns', made'[d].st = "CLOSED",
                      made'[d].rec # ClosedRecord, conns'[made'[d].peer] = d
               PROVE  made'[d].runs > 0 \/ made'[d].held # "nobody"
    BY DEF Accounted, Listed, MonitorFree
  <2>1. d \in Conns /\ made'[d] = made[d]
    BY <1>3, <1>4
  <2>2. conns[made[d].peer] = d
    BY <1>4, <1>7, <2>1, ConnFields
  <2> QED
    BY <2>1, <2>2 DEF Safe, Accounted, Listed, MonitorFree
<1> QED
  BY <1>1, <1>8, <1>9, <1>10, <1>11 DEF Safe, NewUntouched

\* Where an acceptor goes, what it names and who else names it.
LEMMA AcceptorMoves ==
  ASSUME Safe, NEW a \in Acceptors, NEW x, acc' = [acc EXCEPT ![a] = x],
         x \in [pc : {"idle", "put", "set"}, conn : {acc[a].conn, NoConn}],
         x.pc # "idle" => x.conn # NoConn
  PROVE  /\ acc' \in [Acceptors -> [pc : {"idle", "made", "put", "set"}, conn : 0 .. Len(made)]]
         /\ \A b \in Acceptors : acc'[b].pc # "idle" => acc'[b].conn # NoConn
         /\ \A b \in Acceptors : acc'[b].pc = "made" =>
              /\ b # a /\ acc'[b] = acc[b] /\ Untouched(b)
              /\ acc[b].conn # NoConn /\ acc[b].conn # acc[a].conn
              /\ \A d \in Acceptors \ {b} : acc'[d].conn # acc[b].conn
<1>1. /\ acc \in [Acceptors -> [pc : {"idle", "made", "put", "set"}, conn : 0 .. Len(made)]]
      /\ Len(made) \in Nat
  BY DEF Safe, TypeOK
<1>2. x \in [pc : {"idle", "made", "put", "set"}, conn : 0 .. Len(made)]
  BY <1>1 DEF NoConn
<1>3. /\ acc' \in [Acceptors -> [pc : {"idle", "made", "put", "set"}, conn : 0 .. Len(made)]]
      /\ acc'[a] = x /\ \A b \in Acceptors \ {a} : acc'[b] = acc[b]
  BY <1>1, <1>2
<1>4. \A b \in Acceptors : acc'[b].pc # "idle" => acc'[b].conn # NoConn
  BY <1>3 DEF Safe, Wellformed
<1>5. ASSUME NEW b \in Acceptors, acc'[b].pc = "made"
      PROVE  /\ b # a /\ acc'[b] = acc[b] /\ Untouched(b)
             /\ acc[b].conn # NoConn /\ acc[b].conn # acc[a].conn
             /\ \A d \in Acceptors \ {b} : acc'[d].conn # acc[b].conn
  <2>1. b # a /\ acc'[b] = acc[b]
    BY <1>3, <1>5
  <2>2. Untouched(b) /\ acc[b].conn # NoConn
    BY <1>5, <2>1 DEF Safe, NewUntouched, Wellformed
  <2>3. \A d \in Acceptors \ {b} : acc[d].conn # acc[b].conn
    BY <2>2 DEF Untouched
  <2> QED
    BY <1>3, <2>1, <2>2, <2>3
<1> QED
  BY <1>3, <1>4, <1>5

LEMMA SafePutConnection ==
  ASSUME Safe, NEW a \in Acceptors, PutConnection(a)
  PROVE  Safe'
<1> DEFINE c == acc[a].conn
           p == made[c].peer
<1>1. /\ made' = made /\ io' = io /\ wire' = wire /\ queue' = queue /\ acc[a].pc = "made"
      /\ conns' = [conns EXCEPT ![p] = c] /\ acc' = [acc EXCEPT ![a].pc = "put"]
  BY DEF PutConnection
<1>2. /\ c \in Conns /\ c # NoConn /\ Untouched(a) /\ c \in 0 .. Len(made)
      /\ acc[a] \in [pc : {"idle", "made", "put", "set"}, conn : 0 .. Len(made)]
  BY <1>1 DEF Safe, NewUntouched, TypeOK, Wellformed, NoConn, Conns
<1>3. p \in Peers /\ made[c].st = "SYN_RCVD"
  BY <1>2, ConnFields DEF Untouched
<1>4. /\ conns' \in [Peers -> 0 .. Len(made)] /\ conns'[p] = c
      /\ \A q \in Peers \ {p} : conns'[q] = conns[q]
  BY <1>1, <1>2, <1>3 DEF Safe, TypeOK
<1> DEFINE x == [acc[a] EXCEPT !.pc = "put"]
<1>5. /\ acc' = [acc EXCEPT ![a] = x]
      /\ x.pc # "idle" => x.conn # NoConn
      /\ x \in [pc : {"idle", "put", "set"}, conn : {acc[a].conn, NoConn}]
  BY <1>1, <1>2
<1> HIDE DEF x
<1>6. /\ acc' \in [Acceptors -> [pc : {"idle", "made", "put", "set"}, conn : 0 .. Len(made)]]
      /\ \A b \in Acceptors : acc'[b].pc # "idle" => acc'[b].conn # NoConn
      /\ \A b \in Acceptors : acc'[b].pc = "made" =>
           /\ b # a /\ acc'[b] = acc[b] /\ Untouched(b)
           /\ acc[b].conn # NoConn /\ acc[b].conn # acc[a].conn
           /\ \A d \in Acceptors \ {b} : acc'[d].conn # acc[b].conn
  BY <1>5, AcceptorMoves
<1>7. TypeOK'
  BY <1>1, <1>4, <1>6 DEF Safe, TypeOK
<1>8. Wellformed'
  BY <1>1, <1>6 DEF Safe, Wellformed, Conns
<1>9. NewUntouched'
  <2>1. ASSUME NEW b \in Acceptors, acc'[b].pc = "made"
        PROVE  Untouched(b)'
    <3>1. \A q \in Peers : conns'[q] # acc[b].conn
      BY <1>4, <1>6, <2>1 DEF Untouched
    <3> QED
      BY <1>1, <1>6, <2>1, <3>1 DEF Untouched
  <2> QED
    BY <2>1 DEF NewUntouched
<1>10. Accounted'
  <2> SUFFICES ASSUME NEW d \in Conns, made[d].st = "CLOSED",
                      made[d].rec # ClosedRecord, conns'[made[d].peer] = d
               PROVE  made[d].runs > 0 \/ made[d].held # "nobody"
    BY <1>1 DEF Accounted, Listed, MonitorFree, Conns
  <2>1. d # c
    BY <1>3
  <2>2. conns[made[d].peer] = d
    BY <1>3, <1>4, <2>1, ConnFields
  <2> QED
    BY <2>2 DEF Safe, Accounted, Listed, MonitorFree
<1> QED
  BY <1>7, <1>8, <1>9, <1>10 DEF Safe

\* A step that changes of connection c only what RaceRunnable keeps: what
\* stays as it was, and what is left to show.
LEMMA RunnableMoves ==
  ASSUME Safe, NEW c \in Conns, NEW n \in ConnType, made' = [made EXCEPT ![c] = n],
         n.peer = made[c].peer, n.st = made[c].st, n.rec = made[c].rec
  PROVE  /\ made' \in Seq(ConnType) /\ Len(made') = Len(made) /\ Conns' = Conns
         /\ made'[c] = n /\ \A d \in Conns \ {c} : made'[d] = made[d]
         /\ \A d \in Conns : RecordOK(made'[d].st, made'[d].rec)
         /\ \A d \in Conns : /\ made'[d].peer = made[d].peer /\ made'[d].st = made[d].st
                             /\ made'[d].rec = made[d].rec
<1>1. made \in Seq(ConnType)
  BY DEF Safe, TypeOK, ConnType
<1>2. /\ made' \in Seq(ConnType) /\ Len(made') = Len(made) /\ DOMAIN made' = DOMAIN made
      /\ made'[c] = n /\ \A d \in Conns \ {c} : made'[d] = made[d]
  BY <1>1 DEF Conns
<1>3. \A d \in Conns : RecordOK(made[d].st, made[d].rec)
  BY DEF Safe, Wellformed
<1> QED
  BY <1>2, <1>3 DEF Conns

LEMMA SafeSetDelegate ==
  ASSUME Safe, NEW a \in Acceptors, SetDelegate(a)
  PROVE  Safe'
<1> DEFINE c == acc[a].conn
           n == [made[c] EXCEPT !.delegate = TRUE]
           x == [acc[a] EXCEPT !.pc = "set"]
<1>1. /\ made' = [made EXCEPT ![c] = n] /\ acc' = [acc EXCEPT ![a] = x] /\ acc[a].pc = "put"
      /\ conns' = conns /\ io' = io /\ wire' = wire /\ queue' = queue
  BY DEF SetDelegate
<1>2. /\ c \in Conns /\ c # NoConn
      /\ acc[a] \in [pc : {"idle", "made", "put", "set"}, conn : 0 .. Len(made)]
  BY <1>1 DEF Safe, TypeOK, Wellformed, NoConn, Conns
<1>3. /\ n \in ConnType /\ n.peer = made[c].peer /\ n.st = made[c].st /\ n.rec = made[c].rec
      /\ n.runs = made[c].runs /\ n.held = made[c].held
  BY <1>2, ConnFields DEF ConnType
<1>4. /\ x.pc # "idle" => x.conn # NoConn
      /\ x \in [pc : {"idle", "put", "set"}, conn : {acc[a].conn, NoConn}]
  BY <1>2
<1> HIDE DEF n, x
<1>5. /\ made' \in Seq(ConnType) /\ Len(made') = Len(made) /\ Conns' = Conns
      /\ made'[c] = n /\ \A d \in Conns \ {c} : made'[d] = made[d]
      /\ \A d \in Conns : RecordOK(made'[d].st, made'[d].rec)
      /\ \A d \in Conns : /\ made'[d].peer = made[d].peer /\ made'[d].st = made[d].st
                          /\ made'[d].rec = made[d].rec
  BY <1>1, <1>2, <1>3, RunnableMoves
<1>6. /\ acc' \in [Acceptors -> [pc : {"idle", "made", "put", "set"}, conn : 0 .. Len(made)]]
      /\ \A b \in Acceptors : acc'[b].pc # "idle" => acc'[b].conn # NoConn
      /\ \A b \in Acceptors : acc'[b].pc = "made" =>
           /\ b # a /\ acc'[b] = acc[b] /\ Untouched(b)
           /\ acc[b].conn # NoConn /\ acc[b].conn # acc[a].conn
           /\ \A d \in Acceptors \ {b} : acc'[d].conn # acc[b].conn
  BY <1>1, <1>4, AcceptorMoves
<1>7. TypeOK'
  BY <1>1, <1>5, <1>6 DEF Safe, TypeOK, ConnType
<1>8. Wellformed'
  BY <1>1, <1>5, <1>6 DEF Safe, Wellformed
<1>9. NewUntouched'
  <2>1. ASSUME NEW b \in Acceptors, acc'[b].pc = "made"
        PROVE  Untouched(b)'
    <3>1. acc[b].conn \in Conns
      BY <1>6, <2>1 DEF Safe, TypeOK, NoConn, Conns
    <3> QED
      BY <1>1, <1>5, <1>6, <2>1, <3>1 DEF Untouched
  <2> QED
    BY <2>1 DEF NewUntouched
<1>10. Accounted'
  <2>1. \A d \in Conns : made'[d].runs = made[d].runs /\ made'[d].held = made[d].held
    BY <1>2, <1>3, <1>5
  <2> QED
    BY <1>1, <1>5, <2>1 DEF Safe, Accounted, Listed, MonitorFree
<1> QED
  BY <1>7, <1>8, <1>9, <1>10 DEF Safe

LEMMA SafeReplay ==
  ASSUME Safe, NEW a \in Acceptors, Replay(a)
  PROVE  Safe'
<1> DEFINE c == acc[a].conn
           p == made[c].peer
           n == [made[c] EXCEPT !.runs = 0]
<1>1. /\ made' = [made EXCEPT ![c] = n] /\ acc' = [acc EXCEPT ![a] = IdleAcceptor]
      /\ conns' = (IF made[c].runs > 0 THEN Without(p) ELSE conns) /\ acc[a].pc = "set"
      /\ io' = io /\ wire' = wire /\ queue' = queue
  BY DEF Replay, Replayed
<1>2. c \in Conns /\ c # NoConn
  BY <1>1 DEF Safe, TypeOK, Wellformed, NoConn, Conns
<1>3. /\ n \in ConnType /\ n.peer = p /\ n.st = made[c].st /\ n.rec = made[c].rec
      /\ n.held = made[c].held /\ n.runs = 0 /\ made[c].runs \in Nat /\ p \in Peers
  BY <1>2, ConnFields DEF ConnType
<1>4. /\ IdleAcceptor.pc # "idle" => IdleAcceptor.conn # NoConn
      /\ IdleAcceptor \in [pc : {"idle", "put", "set"}, conn : {acc[a].conn, NoConn}]
  BY DEF IdleAcceptor
<1> HIDE DEF n
<1>5. /\ made' \in Seq(ConnType) /\ Len(made') = Len(made) /\ Conns' = Conns
      /\ made'[c] = n /\ \A d \in Conns \ {c} : made'[d] = made[d]
      /\ \A d \in Conns : RecordOK(made'[d].st, made'[d].rec)
      /\ \A d \in Conns : /\ made'[d].peer = made[d].peer /\ made'[d].st = made[d].st
                          /\ made'[d].rec = made[d].rec
  BY <1>1, <1>2, <1>3, RunnableMoves
<1>6. /\ acc' \in [Acceptors -> [pc : {"idle", "made", "put", "set"}, conn : 0 .. Len(made)]]
      /\ \A b \in Acceptors : acc'[b].pc # "idle" => acc'[b].conn # NoConn
      /\ \A b \in Acceptors : acc'[b].pc = "made" =>
           /\ b # a /\ acc'[b] = acc[b] /\ Untouched(b)
           /\ acc[b].conn # NoConn /\ acc[b].conn # acc[a].conn
           /\ \A d \in Acceptors \ {b} : acc'[d].conn # acc[b].conn
  BY <1>1, <1>4, AcceptorMoves
<1>7. /\ conns' \in [Peers -> 0 .. Len(made)]
      /\ \A q \in Peers : conns'[q] \in {conns[q], NoConn}
      /\ made[c].runs > 0 => conns'[p] = NoConn
  BY <1>1, <1>3 DEF Safe, TypeOK, Without, NoConn
<1>8. TypeOK'
  BY <1>1, <1>5, <1>6, <1>7 DEF Safe, TypeOK, ConnType
<1>9. Wellformed'
  BY <1>1, <1>5, <1>6 DEF Safe, Wellformed
<1>10. NewUntouched'
  <2>1. ASSUME NEW b \in Acceptors, acc'[b].pc = "made"
        PROVE  Untouched(b)'
    <3>1. acc[b].conn \in Conns
      BY <1>6, <2>1 DEF Safe, TypeOK, NoConn, Conns
    <3>2. \A q \in Peers : conns'[q] # acc[b].conn
      BY <1>6, <1>7, <2>1 DEF Untouched
    <3> QED
      BY <1>1, <1>5, <1>6, <2>1, <3>1, <3>2 DEF Untouched
  <2> QED
    BY <2>1 DEF NewUntouched
<1>11. Accounted'
  <2> SUFFICES ASSUME NEW d \in Conns, made[d].st = "CLOSED",
                      made[d].rec # ClosedRecord, conns'[made[d].peer] = d
               PROVE  made'[d].runs > 0 \/ made'[d].held # "nobody"
    BY <1>5 DEF Accounted, Listed, MonitorFree
  <2>1. d # NoConn
    BY ConnFields DEF NoConn
  <2>2. conns[made[d].peer] = d
    BY <1>7, <2>1, ConnFields
  <2>3. made[d].runs > 0 \/ made[d].held # "nobody"
    BY <2>2 DEF Safe, Accounted, Listed, MonitorFree
  <2>4. CASE d = c
    BY <1>3, <1>5, <1>7, <2>1, <2>3, <2>4
  <2>5. CASE d # c
    BY <1>5, <2>3, <2>5
  <2> QED
    BY <2>4, <2>5
<1> QED
  BY <1>8, <1>9, <1>10, <1>11 DEF Safe

LEMMA SafeCount ==
  ASSUME Safe, NEW c \in Conns, Count(c)
  PROVE  Safe'
<1> DEFINE n == [made[c] EXCEPT !.runs = @ + 1, !.held = "nobody"]
<1>1. /\ made' = [made EXCEPT ![c] = n]
      /\ acc' = acc /\ conns' = conns /\ io' = io /\ wire' = wire /\ queue' = queue
  <2>1. made \in Seq(ConnType)
    BY DEF Safe, TypeOK, ConnType
  <2> QED
    BY <2>1, ConnFields DEF Count, Conns
<1>2. /\ n \in ConnType /\ n.peer = made[c].peer /\ n.st = made[c].st /\ n.rec = made[c].rec
      /\ n.runs > 0
  <2>1. made[c] \in ConnType
    BY ConnFields
  <2>2. made[c].runs + 1 \in Nat /\ made[c].runs + 1 > 0
    BY <2>1 DEF ConnType
  <2>3. /\ n.runs = made[c].runs + 1 /\ n.peer = made[c].peer
        /\ n.st = made[c].st /\ n.rec = made[c].rec
    BY <2>1 DEF ConnType
  <2>4. n \in ConnType
    BY <2>1, <2>2 DEF ConnType
  <2> QED
    BY <2>2, <2>3, <2>4
<1> HIDE DEF n
<1>3. /\ made' \in Seq(ConnType) /\ Len(made') = Len(made) /\ Conns' = Conns
      /\ made'[c] = n /\ \A d \in Conns \ {c} : made'[d] = made[d]
      /\ \A d \in Conns : RecordOK(made'[d].st, made'[d].rec)
      /\ \A d \in Conns : /\ made'[d].peer = made[d].peer /\ made'[d].st = made[d].st
                          /\ made'[d].rec = made[d].rec
  BY <1>1, <1>2, RunnableMoves
<1>4. TypeOK'
  BY <1>1, <1>3 DEF Safe, TypeOK, ConnType
<1>5. Wellformed'
  BY <1>1, <1>3 DEF Safe, Wellformed
<1>6. NewUntouched'
  <2>1. \A b \in Acceptors : acc[b].pc = "made" => acc[b].conn \in Conns
    BY DEF Safe, TypeOK, Wellformed, NoConn, Conns
  <2> QED
    BY <1>1, <1>3, <2>1 DEF Safe, NewUntouched, Untouched
<1>7. Accounted'
  <2> SUFFICES ASSUME NEW d \in Conns, made[d].st = "CLOSED",
                      made[d].rec # ClosedRecord, conns[made[d].peer] = d
               PROVE  made'[d].runs > 0 \/ made'[d].held # "nobody"
    BY <1>1, <1>3 DEF Accounted, Listed, MonitorFree
  <2>1. CASE d = c
    BY <1>2, <1>3, <2>1
  <2>2. CASE d # c
    BY <1>3, <2>2 DEF Safe, Accounted, Listed, MonitorFree
  <2> QED
    BY <2>1, <2>2
<1> QED
  BY <1>4, <1>5, <1>6, <1>7 DEF Safe

LEMMA SafeInit == Init => Safe
<1> SUFFICES ASSUME Init PROVE Safe
  OBVIOUS
<1>1. /\ conns = [p \in Peers |-> NoConn] /\ made = << >> /\ queue = << >>
      /\ acc = [a \in Acceptors |-> IdleAcceptor] /\ io  = [p \in Peers |-> IdleIo]
  BY DEF Init
<1>2. Conns = {} /\ Len(made) = 0 /\ made \in Seq(ConnType)
  BY <1>1 DEF Conns
<1>3. RstSeg(0, 0) \in Segment
  <2>1. 0 \in UInt
    BY SegmentsAssumption DEF UInt
  <2> QED
    BY <2>1, SegmentTypes
<1>4. wire \in [Peers -> SUBSET Segment]
  <2>1. ASSUME NEW p \in Peers
        PROVE  /\ SynSeg(PeerISS[p], 0, FALSE, MaxOutstanding) \in Segment
               /\ RstSeg(Ours(p), 0) \in Segment
    <3>1. 0 \in UInt /\ PeerISS[p] \in UInt /\ MaxOutstanding \in Nat
      BY ManagerAssumption, SegmentsAssumption DEF UInt
    <3>2. Ours(p) \in UInt
      BY <3>1, UPlusOne DEF Ours
    <3> QED
      BY <3>1, <3>2, SegmentTypes
  <2> QED
    BY <2>1 DEF Init
<1>5. TypeOK
  BY <1>1, <1>2, <1>3, <1>4 DEF TypeOK, ConnType, IdleAcceptor, IdleIo, NoConn
<1>6. Wellformed /\ NewUntouched /\ Accounted
  BY <1>1, <1>2 DEF Wellformed, NewUntouched, Accounted, IdleAcceptor, IdleIo
<1> QED
  BY <1>5, <1>6 DEF Safe

LEMMA SafeNext ==
  ASSUME Safe, [Next]_vars
  PROVE  Safe'
<1>1. CASE UNCHANGED vars
  BY <1>1 DEF vars, Safe, TypeOK, Wellformed, NewUntouched, Untouched, Accounted,
              Conns, Listed, MonitorFree
<1>2. ASSUME NEW p \in Peers,
             \/ Arrive(p) \/ Handle(p) \/ CheckRoom(p) \/ Put(p)
             \/ NotifyClosed(p) \/ Dial(p) \/ Close(p)
      PROVE  Safe'
  BY <1>2, SafeArrive, SafeHandle, SafeBacklog, SafeNotifyClosed, SafeDial, SafeClose
<1>3. ASSUME NEW a \in Acceptors,
             Accept(a) \/ PutConnection(a) \/ SetDelegate(a) \/ Replay(a)
      PROVE  Safe'
  BY <1>3, SafeAccept, SafePutConnection, SafeSetDelegate, SafeReplay
<1>4. ASSUME NEW c \in Conns, Open(c) \/ Expire(c) \/ Count(c)
      PROVE  Safe'
  BY <1>4, SafeOpen, SafeExpire, SafeCount
<1> QED
  BY <1>1, <1>2, <1>3, <1>4 DEF Next

\* The manager's variables keep their types, and its connections the records
\* the states rely on, for any number of peers, threads and connections.
THEOREM ManagerTypeCorrect == Spec => []TypeOK
<1>1. Safe /\ [Next]_vars => Safe'
  BY SafeNext
<1>2. Safe => TypeOK
  BY DEF Safe
<1> QED
  BY <1>1, <1>2, SafeInit, PTL DEF Spec

\* A closed connection stays in the map of RudpManagerImpl only if its closed
\* callback found no delegate in RaceRunnableImpl and was counted there after
\* setDelegate had replayed the calls.  Nothing else loses one: neither the
\* three steps of accept, nor several threads in it, nor a peer whose new
\* connection replaces its old one in the map.
THEOREM OnlyRaceForgetsHolds == Spec => []OnlyRaceForgets
<1>1. Safe /\ [Next]_vars => Safe'
  BY SafeNext
<1>2. Safe => OnlyRaceForgets
  BY DEF Safe, Accounted, OnlyRaceForgets, Over
<1> QED
  BY <1>1, <1>2, SafeInit, PTL DEF Spec

----------------------------------------------------------------------------
(***************************************************************************)
(* Why an entry leaves the map.  A close that is replayed was counted, and *)
(* what is counted, or about to be, is a connection that has closed.       *)
(***************************************************************************)

CountedClosed ==
  \A c \in Conns : made[c].runs > 0 \/ ~ MonitorFree(c)
                     => made[c].st = "CLOSED" /\ made[c].peer \notin Dialled

\* The entry of p leaves the map, if it does, because a connection of p closes.
Explained(p) ==
  conns[p] # NoConn /\ conns'[p] = NoConn
    => NotifyClosed(p) \/ \E c \in Conns : made[c].peer = p /\ Closes(c)

LEMMA CallCloses ==
  ASSUME Safe, CountedClosed, NEW c \in Conns, NEW eff, NEW t \in {"io", "other"}, Call(c, eff, t),
         made[c].runs > 0 \/ ~ MonitorFree(c) => eff.st = "CLOSED"
  PROVE  CountedClosed' /\ \A p \in Peers : Explained(p)
<1> DEFINE ends == eff.st = "CLOSED" /\ made[c].st # "CLOSED"
<1>1. /\ made \in Seq(ConnType) /\ conns \in [Peers -> 0 .. Len(made)]
      /\ made[c] \in ConnType /\ made[c].peer \in Peers
  BY ConnFields DEF Safe, TypeOK, ConnType
<1>2. PICK seen \in Sees(c) :
        /\ made' = [made EXCEPT
             ![c].st = eff.st, ![c].rec = eff.rec,
             ![c].opened = @ \/ eff.st = "OPEN",
             ![c].held = IF ends /\ ~ seen THEN t ELSE @]
        /\ conns' = IF ends /\ seen THEN Without(made[c].peer) ELSE conns
  BY DEF Call
<1>3. /\ Conns' = Conns /\ \A d \in Conns \ {c} : made'[d] = made[d]
      /\ made'[c].st = eff.st /\ made'[c].peer = made[c].peer /\ made'[c].runs = made[c].runs
      /\ made'[c].held = IF ends /\ ~ seen THEN t ELSE made[c].held
  BY <1>1, <1>2 DEF Conns, ConnType
<1>4. CountedClosed'
  <2> SUFFICES ASSUME NEW d \in Conns, made'[d].runs > 0 \/ made'[d].held # "nobody"
               PROVE  made'[d].st = "CLOSED" /\ made'[d].peer \notin Dialled
    BY <1>3 DEF CountedClosed, MonitorFree
  <2>1. CASE d # c
    BY <1>3, <2>1 DEF CountedClosed, MonitorFree
  <2>2. CASE d = c /\ ends /\ ~ seen
    BY <1>3, <2>2 DEF Sees
  <2>3. CASE d = c /\ ~ (ends /\ ~ seen)
    BY <1>3, <2>3 DEF CountedClosed, MonitorFree
  <2> QED
    BY <2>1, <2>2, <2>3
<1>5. ASSUME NEW p \in Peers, conns[p] # NoConn, conns'[p] = NoConn
      PROVE  made[c].peer = p /\ Closes(c)
  <2>1. ends /\ conns' = Without(made[c].peer)
    BY <1>2, <1>5
  <2>2. made[c].peer = p
    BY <1>1, <1>5, <2>1 DEF Without
  <2> QED
    BY <1>3, <2>1, <2>2 DEF Closes
<1> QED
  BY <1>4, <1>5 DEF Explained

\* A step that takes nothing out of the map, and counts nothing.
LEMMA NothingLeaves ==
  ASSUME CountedClosed, \A p \in Peers : conns'[p] # conns[p] => conns'[p] # NoConn,
         \A c \in Conns' : \/ c \in Conns /\ made'[c].runs = made[c].runs
                              /\ made'[c].held = made[c].held /\ made'[c].st = made[c].st
                              /\ made'[c].peer = made[c].peer
                           \/ made'[c].runs = 0 /\ made'[c].held = "nobody"
  PROVE  CountedClosed' /\ \A p \in Peers : Explained(p)
<1>1. CountedClosed'
  BY DEF CountedClosed, MonitorFree
<1> QED
  BY <1>1 DEF Explained

LEMMA ReplayCloses ==
  ASSUME Safe, CountedClosed, NEW a \in Acceptors, Replay(a)
  PROVE  CountedClosed' /\ \A p \in Peers : Explained(p)
<1> DEFINE c == acc[a].conn
           n == [made[c] EXCEPT !.runs = 0]
<1>1. /\ made' = [made EXCEPT ![c] = n]
      /\ conns' = (IF made[c].runs > 0 THEN Without(made[c].peer) ELSE conns)
  BY DEF Replay, Replayed
<1>2. c \in Conns
  BY DEF Replay, Safe, TypeOK, Wellformed, NoConn, Conns
<1>3. /\ n \in ConnType /\ n.peer = made[c].peer /\ n.st = made[c].st /\ n.rec = made[c].rec
      /\ n.held = made[c].held /\ n.runs = 0 /\ made[c].runs \in Nat
  BY <1>2, ConnFields DEF ConnType
<1> HIDE DEF n
<1>4. /\ Conns' = Conns /\ made'[c] = n /\ \A d \in Conns \ {c} : made'[d] = made[d]
  BY <1>1, <1>2, <1>3, RunnableMoves
<1>5. CountedClosed'
  BY <1>3, <1>4 DEF CountedClosed, MonitorFree
<1>6. ASSUME NEW p \in Peers, conns[p] # NoConn, conns'[p] = NoConn
      PROVE  made[c].peer = p /\ Closes(c)
  <2>1. made[c].runs > 0 /\ conns' = Without(made[c].peer)
    BY <1>1, <1>6
  <2>2. made[c].peer = p
    BY <1>6, <2>1 DEF Without, Safe, TypeOK
  <2>3. made[c].st = "CLOSED" /\ made'[c].runs < made[c].runs
    BY <1>2, <1>3, <1>4, <2>1 DEF CountedClosed
  <2> QED
    BY <2>2, <2>3 DEF Closes
<1> QED
  BY <1>2, <1>5, <1>6 DEF Explained

LEMMA ClosesStep ==
  ASSUME Safe, CountedClosed, [Next]_vars
  PROVE  CountedClosed' /\ \A p \in Peers : Explained(p)
<1> DEFINE Goal == CountedClosed' /\ \A p \in Peers : Explained(p)
<1>1. ASSUME UNCHANGED <<conns, made>> PROVE Goal
  BY <1>1, NothingLeaves DEF Conns
<1>2. ASSUME NEW p \in Peers, Arrive(p) \/ CheckRoom(p) \/ Put(p) PROVE Goal
  BY <1>1, <1>2 DEF Arrive, CheckRoom, Put
<1>3. ASSUME NEW p \in Peers, Handle(p) PROVE Goal
  <2>1. /\ io[p].conn \in Conns /\ MonitorFree(io[p].conn)
        /\ Call(io[p].conn, GetNext(made[io[p].conn].st, made[io[p].conn].rec, io[p].seg), "io")
    BY <1>3 DEF Handle, Safe, TypeOK, Wellformed, NoConn, Conns
  <2>2. made[io[p].conn].st = "CLOSED"
          => GetNext(made[io[p].conn].st, made[io[p].conn].rec, io[p].seg).st = "CLOSED"
    BY DEF GetNext, ClosedNext, Effect
  <2> QED
    BY <2>1, <2>2, CallCloses DEF CountedClosed
<1>4. ASSUME NEW p \in Peers, NotifyClosed(p) PROVE Goal
  <2>1. made' = made /\ \A q \in Peers \ {p} : conns'[q] = conns[q]
    BY <1>4 DEF NotifyClosed, Without, Safe, TypeOK
  <2> QED
    BY <1>4, <2>1 DEF CountedClosed, MonitorFree, Explained, Conns
<1>5. ASSUME NEW p \in Peers, Dial(p) PROVE Goal
  <2> DEFINE n == NewConn(p, "CLOSED", ClosedRecord)
  <2>1. made' = Append(made, n) /\ conns' = [conns EXCEPT ![p] = Len(made) + 1]
    BY <1>5 DEF Dial
  <2>2. made \in Seq(ConnType) /\ conns \in [Peers -> 0 .. Len(made)]
    BY DEF Safe, TypeOK, ConnType
  <2>3. n.runs = 0 /\ n.held = "nobody"
    BY DEF NewConn
  <2> HIDE DEF n
  <2>4. /\ Len(made) \in Nat /\ Conns' = Conns \cup {Len(made) + 1} /\ made'[Len(made) + 1] = n
        /\ \A c \in Conns : made'[c] = made[c]
    BY <2>1, <2>2 DEF Conns
  <2>5. \A q \in Peers : conns'[q] # conns[q] => conns'[q] # NoConn
    BY <2>1, <2>2, <2>4 DEF NoConn
  <2> QED
    BY <2>3, <2>4, <2>5, NothingLeaves
<1>6. ASSUME NEW p \in Peers, Close(p) PROVE Goal
  <2>1. /\ conns[p] \in Conns /\ made[conns[p]].st # "CLOSED"
        /\ Call(conns[p], CloseNext(made[conns[p]].st, made[conns[p]].rec), "other")
    BY <1>6 DEF Close, Safe, TypeOK, NoConn, Conns
  <2> QED
    BY <2>1, CallCloses DEF CountedClosed
<1>7. ASSUME NEW a \in Acceptors, Accept(a) PROVE Goal
  <2> DEFINE q   == Head(queue)
             eff == ListenNext(ListenRecord(LocalISS),
                               SynSeg(PeerISS[q], 0, FALSE, MaxOutstanding))
             n   == NewConn(q, eff.st, eff.rec)
  <2>1. made' = Append(made, n) /\ conns' = conns
    BY <1>7 DEF Accept
  <2>2. made \in Seq(ConnType)
    BY DEF Safe, TypeOK, ConnType
  <2>3. n.runs = 0 /\ n.held = "nobody"
    BY DEF NewConn
  <2> HIDE DEF n
  <2>4. /\ Conns' = Conns \cup {Len(made) + 1} /\ made'[Len(made) + 1] = n
        /\ \A c \in Conns : made'[c] = made[c]
    BY <2>1, <2>2 DEF Conns
  <2> QED
    BY <2>1, <2>3, <2>4, NothingLeaves
<1>8. ASSUME NEW a \in Acceptors, PutConnection(a) PROVE Goal
  <2>1. made' = made /\ conns' = [conns EXCEPT ![made[acc[a].conn].peer] = acc[a].conn]
    BY <1>8 DEF PutConnection
  <2>2. acc[a].conn # NoConn
    BY <1>8 DEF PutConnection, Safe, Wellformed
  <2>3. \A q \in Peers : conns'[q] # conns[q] => conns'[q] # NoConn
    BY <2>1, <2>2 DEF Safe, TypeOK
  <2> QED
    BY <2>1, <2>3, NothingLeaves DEF Conns
<1>9. ASSUME NEW a \in Acceptors, SetDelegate(a) PROVE Goal
  <2> DEFINE c == acc[a].conn
  <2>1. /\ made' = [made EXCEPT ![c].delegate = TRUE] /\ conns' = conns
        /\ c \in Conns /\ made \in Seq(ConnType)
    BY <1>9 DEF SetDelegate, Safe, TypeOK, Wellformed, NoConn, Conns, ConnType
  <2>2. /\ Conns' = Conns
        /\ \A d \in Conns : /\ made'[d].runs = made[d].runs /\ made'[d].held = made[d].held
                            /\ made'[d].st = made[d].st /\ made'[d].peer = made[d].peer
    BY <2>1 DEF Conns, ConnType
  <2> QED
    BY <2>1, <2>2, NothingLeaves
<1>10. ASSUME NEW a \in Acceptors, Replay(a) PROVE Goal
  BY <1>10, ReplayCloses
<1>11. ASSUME NEW c \in Conns, Open(c) PROVE Goal
  <2>1. made[c].peer \in Dialled /\ Call(c, ClosedOpen(made[c].rec, LocalISS), "other")
    BY <1>11 DEF Open
  <2> QED
    BY <2>1, CallCloses DEF CountedClosed
<1>12. ASSUME NEW c \in Conns, Expire(c) PROVE Goal
  <2>1. made[c].st = "CLOSE_WAIT" /\ Call(c, TimerNext(made[c].st, made[c].rec), "other")
    BY <1>12 DEF Expire
  <2> QED
    BY <2>1, CallCloses DEF CountedClosed
<1>13. ASSUME NEW c \in Conns, Count(c) PROVE Goal
  <2>1. made[c].st = "CLOSED" /\ made[c].peer \notin Dialled
    BY <1>13 DEF Count, CountedClosed
  <2> DEFINE n == [made[c] EXCEPT !.runs = @ + 1, !.held = "nobody"]
  <2>2. made \in Seq(ConnType) /\ c \in 1 .. Len(made)
    BY <1>13 DEF Safe, TypeOK, ConnType, Conns
  <2>3. made' = [made EXCEPT ![c] = n] /\ conns' = conns
    BY <1>13, <2>2, ConnFields DEF Count, Conns
  <2>4. made[c] \in ConnType /\ made[c].runs + 1 \in Nat
    BY <1>13, ConnFields DEF ConnType
  <2>5. n \in ConnType /\ n.peer = made[c].peer /\ n.st = made[c].st
    <3>1. n.peer = made[c].peer /\ n.st = made[c].st
      BY <2>4 DEF ConnType
    <3>2. n \in ConnType
      BY <2>4 DEF ConnType
    <3> QED
      BY <3>1, <3>2
  <2> HIDE DEF n
  <2>6. /\ Conns' = Conns /\ made'[c] = n
        /\ \A d \in Conns \ {c} : made'[d] = made[d]
    BY <2>2, <2>3, <2>5 DEF Conns
  <2>7. CountedClosed'
    BY <2>1, <2>5, <2>6 DEF CountedClosed, MonitorFree
  <2> QED
    BY <2>3, <2>7 DEF Explained
<1>14. CASE UNCHANGED vars
  BY <1>1, <1>14 DEF vars
<1> QED
  BY <1>2, <1>3, <1>4, <1>5, <1>6, <1>7, <1>8, <1>9, <1>10, <1>11, <1>12, <1>13, <1>14 DEF Next

\* An entry of RudpManagerImpl's map is removed for a connection of its peer
\* that closes, for a close that RaceRunnable counted and setDelegate replays,
\* or for an idle session, and for nothing else.
THEOREM OnlyClosedLeaveHolds == Spec => OnlyClosedLeave
<1> DEFINE Inv == Safe /\ CountedClosed
<1>1. Init => Inv
  <2>1. Init => Conns = {}
    BY DEF Init, Conns
  <2> QED
    BY <2>1, SafeInit DEF CountedClosed
<1>2. Inv /\ [Next]_vars => Inv'
  BY SafeNext, ClosesStep
<1>3. Inv /\ [Next]_vars
        => [\A p \in Peers : conns[p] # NoConn /\ conns'[p] = NoConn =>
              NotifyClosed(p) \/ \E c \in Conns : made[c].peer = p /\ Closes(c)]_vars
  BY ClosesStep DEF Explained
<1> QED
  BY <1>1, <1>2, <1>3, PTL DEF Spec, OnlyClosedLeave
=============================================================================

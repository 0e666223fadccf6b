---------------------------- MODULE RudpManager ----------------------------
(***************************************************************************)
(* The manager of the connections of one local address: the map from       *)
(* remote addresses to connections, the backlog of the listening           *)
(* connection, the threads that accept, the I/O threads that hand segments *)
(* to connections, and the callback that takes a closed connection out of  *)
(* the map.  What a connection does with a segment is RudpStates.          *)
(***************************************************************************)
EXTENDS RudpStates

CONSTANTS Peers,      (* remote addresses                                      *)
          Dialled,    (* those we open connections to; the others open to us   *)
          Acceptors,  (* threads that call accept                              *)
          Backlog,    (* how many connections may wait to be accepted          *)
          OneAtATime, (* RudpServiceImpl's handler holds the service's monitor *)
                      (* for a segment, RudpServerIoHandler's does not         *)
          Repeats,    (* does the network repeat segments?                     *)
          PeerISS,    (* initial sequence number of each peer                  *)
          LocalISS,   (* our own: 17 for the accepted, random for the dialled  *)
          MaxConns    (* bound: how many connections are ever made             *)

ASSUME ManagerAssumption ==
  /\ Dialled \subseteq Peers
  /\ Backlog \in Nat \ {0} /\ MaxConns \in Nat
  /\ OneAtATime \in BOOLEAN /\ Repeats \in BOOLEAN
  /\ PeerISS \in [Peers -> UInt] /\ LocalISS \in UInt

VARIABLES
  conns,  \* m_connections: the index in made of a peer's connection, or NoConn
  made,   \* every connection object made so far
  queue,  \* m_queuedConnections of the listening connection: peers' SYNs
  acc,    \* where each accepting thread is, and the connection it has made
  io,     \* where the I/O thread of each peer's session is
  wire    \* segments on their way from each peer

vars == <<conns, made, queue, acc, io, wire>>

NoConn == 0
Conns  == DOMAIN made

IdleAcceptor == [pc |-> "idle", conn |-> NoConn]
IdleIo       == [pc |-> "idle", conn |-> NoConn, seg |-> RstSeg(0, 0)]

\* held: the thread, if any, that has found no delegate in the connection's
\* RaceRunnable and is about to count its call, in the connection's monitor.
NewConn(p, st, rec) ==
  [peer |-> p, st |-> st, rec |-> rec, opened |-> FALSE,
   delegate |-> p \in Dialled, runs |-> 0, held |-> "nobody"]

MonitorFree(c) == made[c].held = "nobody"

IoBusy(p) ==
  \/ io[p].pc # "idle"
  \/ \E c \in Conns : made[c].peer = p /\ made[c].held = "io"

\* The I/O thread of p is free, and may enter the handler.
MayEnter(p) ==
  /\ ~ IoBusy(p)
  /\ OneAtATime /\ p \notin Dialled => \A q \in Peers \ Dialled : ~ IoBusy(q)

\* A bug the checks must see: room for one more than there is.
HasRoomForMore == Len(queue) <= Backlog

HasRoom == Len(queue) < Backlog

Without(p) == [conns EXCEPT ![p] = NoConn]

(***************************************************************************)
(* What peer p may send once it has seen these segments: the answer to a   *)
(* SYN or SYN/ACK, and the RST of a user who closes.                       *)
(***************************************************************************)
Ours(p) == UPlus(PeerISS[p], 1)

Answers(p, out) ==
  UNION { IF m.isAck THEN {AckSeg(Ours(p), m.seq, NoData)}
          ELSE {SynSeg(PeerISS[p], m.seq, TRUE, MaxBuffered), RstSeg(Ours(p), m.seq)} :
          m \in {o \in out : o.type = "SYN"} }

\* Does the closed callback see the delegate?  It reads the field without a
\* lock, so it may miss one that has been set.
Sees(c) == IF made[c].peer \in Dialled THEN {TRUE} ELSE {made[c].delegate, FALSE}

\* One call on connection c: its effect, and the closed callback, which runs
\* in the monitor of c and removes whatever connection the peer has.
Call(c, eff, thread) ==
  LET p    == made[c].peer
      ends == eff.st = "CLOSED" /\ made[c].st # "CLOSED"
  IN /\ \E seen \in Sees(c) :
          /\ made' = [made EXCEPT
               ![c].st = eff.st, ![c].rec = eff.rec,
               ![c].opened = @ \/ eff.st = "OPEN",
               ![c].held = IF ends /\ ~ seen THEN thread ELSE @]
          /\ conns' = IF ends /\ seen THEN Without(p) ELSE conns
     /\ wire' = [wire EXCEPT ![p] = @ \cup Answers(p, eff.out)]

----------------------------------------------------------------------------
(* The I/O threads *)

\* A segment from p arrives: is there a connection?  If not, the listening
\* connection looks at SYNs only, and a dialled peer's handler throws.
Arrive(p) ==
  /\ MayEnter(p)
  /\ \E m \in wire[p] :
       /\ wire' = IF Repeats THEN wire ELSE [wire EXCEPT ![p] = @ \ {m}]
       /\ \/ /\ conns[p] # NoConn
             /\ io' = [io EXCEPT ![p] = [pc |-> "handle", conn |-> conns[p], seg |-> m]]
          \/ /\ conns[p] = NoConn /\ p \notin Dialled /\ m.type = "SYN"
             /\ io' = [io EXCEPT ![p] = [IdleIo EXCEPT !.pc = "listen"]]
          \/ /\ conns[p] = NoConn /\ (p \in Dialled \/ m.type # "SYN")
             /\ UNCHANGED io
  /\ UNCHANGED <<conns, made, queue, acc>>

\* The connection found handles the segment, whatever is in the map by now.
Handle(p) ==
  /\ io[p].pc = "handle" /\ MonitorFree(io[p].conn)
  /\ LET c == io[p].conn
     IN Call(c, GetNext(made[c].st, made[c].rec, io[p].seg), "io")
  /\ io' = [io EXCEPT ![p] = IdleIo]
  /\ UNCHANGED <<queue, acc>>

\* Is there room in the backlog?  If not, the attempt is ignored.
CheckRoom(p) ==
  /\ io[p].pc = "listen"
  /\ io' = [io EXCEPT ![p] = IF HasRoom THEN [IdleIo EXCEPT !.pc = "put"]
                                    ELSE IdleIo]
  /\ UNCHANGED <<conns, made, queue, acc, wire>>

\* put waits while the queue is full.
Put(p) ==
  /\ io[p].pc = "put" /\ Len(queue) < Backlog
  /\ queue' = Append(queue, p)
  /\ io' = [io EXCEPT ![p] = IdleIo]
  /\ UNCHANGED <<conns, made, acc, wire>>

\* MINA closes an idle session: the connection leaves the map as it is.
NotifyClosed(p) ==
  /\ MayEnter(p) /\ conns[p] # NoConn
  /\ conns' = Without(p)
  /\ UNCHANGED <<made, queue, acc, io, wire>>

----------------------------------------------------------------------------
(* Threads that accept *)

\* accept takes a SYN from the backlog and makes a connection that handles it:
\* the SYN/ACK is out before the connection is in the map.
Accept(a) ==
  /\ acc[a].pc = "idle" /\ queue # << >> /\ Len(made) < MaxConns
  /\ LET p   == Head(queue)
         eff == ListenNext(ListenRecord(LocalISS),
                           SynSeg(PeerISS[p], 0, FALSE, MaxOutstanding))
     IN /\ made' = Append(made, NewConn(p, eff.st, eff.rec))
        /\ wire' = [wire EXCEPT ![p] = @ \cup Answers(p, eff.out)]
  /\ acc' = [acc EXCEPT ![a] = [pc |-> "made", conn |-> Len(made) + 1]]
  /\ queue' = Tail(queue)
  /\ UNCHANGED <<conns, io>>

PutConnection(a) ==
  /\ acc[a].pc = "made"
  /\ conns' = [conns EXCEPT ![made[acc[a].conn].peer] = acc[a].conn]
  /\ acc' = [acc EXCEPT ![a].pc = "put"]
  /\ UNCHANGED <<made, queue, io, wire>>

SetDelegate(a) ==
  /\ acc[a].pc = "put"
  /\ made' = [made EXCEPT ![acc[a].conn].delegate = TRUE]
  /\ acc' = [acc EXCEPT ![a].pc = "set"]
  /\ UNCHANGED <<conns, queue, io, wire>>

\* A bug the checks must see: the calls are forgotten, not replayed.
Forgotten(c) == conns

\* A bug the checks must see: the call is made whether one was counted or not.
ReplayedAlways(c) == Without(made[c].peer)

Replayed(c) == IF made[c].runs > 0 THEN Without(made[c].peer) ELSE conns

\* setDelegate replays the calls counted until now.
Replay(a) ==
  /\ acc[a].pc = "set"
  /\ conns' = Replayed(acc[a].conn)
  /\ made' = [made EXCEPT ![acc[a].conn].runs = 0]
  /\ acc' = [acc EXCEPT ![a] = IdleAcceptor]
  /\ UNCHANGED <<queue, io, wire>>

----------------------------------------------------------------------------
(* Opening, closing, timers *)

\* open first puts the connection into the map ...
Dial(p) ==
  /\ p \in Dialled /\ Len(made) < MaxConns
  /\ \A c \in Conns : made[c].peer # p
  /\ made' = Append(made, NewConn(p, "CLOSED", ClosedRecord))
  /\ conns' = [conns EXCEPT ![p] = Len(made) + 1]
  /\ UNCHANGED <<queue, acc, io, wire>>

\* ... and then opens it.
Open(c) ==
  /\ made[c].peer \in Dialled /\ made[c].rec = ClosedRecord
  /\ Call(c, ClosedOpen(made[c].rec, LocalISS), "other")
  /\ UNCHANGED <<queue, acc, io>>

\* A user who was given the identifier closes the connection that is now in
\* the map under it; of one that is CLOSED, close throws.
Close(p) ==
  /\ \E c \in Conns : made[c].peer = p /\ made[c].opened
  /\ conns[p] # NoConn
  /\ LET c == conns[p]
     IN /\ MonitorFree(c) /\ made[c].st # "CLOSED"
        /\ Call(c, CloseNext(made[c].st, made[c].rec), "other")
  /\ UNCHANGED <<queue, acc, io>>

\* The timer of CLOSE-WAIT.
Expire(c) ==
  /\ made[c].st = "CLOSE_WAIT" /\ MonitorFree(c)
  /\ Call(c, TimerNext(made[c].st, made[c].rec), "other")
  /\ UNCHANGED <<queue, acc, io>>

\* The closed callback that found no delegate counts its call.
Count(c) ==
  /\ ~ MonitorFree(c)
  /\ made' = [made EXCEPT ![c].runs = @ + 1, ![c].held = "nobody"]
  /\ UNCHANGED <<conns, queue, acc, io, wire>>

----------------------------------------------------------------------------

\* A peer that opens to us may close before it has an answer.
Init ==
  /\ conns = [p \in Peers |-> NoConn]
  /\ made  = << >>
  /\ queue = << >>
  /\ acc = [a \in Acceptors |-> IdleAcceptor]
  /\ io  = [p \in Peers |-> IdleIo]
  /\ wire = [p \in Peers |->
       IF p \in Dialled THEN {}
       ELSE {SynSeg(PeerISS[p], 0, FALSE, MaxOutstanding), RstSeg(Ours(p), 0)}]

Next ==
  \/ \E p \in Peers : \/ Arrive(p) \/ Handle(p) \/ CheckRoom(p) \/ Put(p)
                      \/ NotifyClosed(p) \/ Dial(p) \/ Close(p)
  \/ \E a \in Acceptors : \/ Accept(a) \/ PutConnection(a)
                          \/ SetDelegate(a) \/ Replay(a)
  \/ \E c \in Conns : Open(c) \/ Expire(c) \/ Count(c)

Spec == Init /\ [][Next]_vars

----------------------------------------------------------------------------
(* Properties *)

TypeOK ==
  /\ conns \in [Peers -> 0 .. Len(made)]
  /\ made \in Seq([peer : Peers, st : StateName, rec : Record, opened : BOOLEAN,
                   delegate : BOOLEAN, runs : Nat, held : {"nobody", "io", "other"}])
  /\ queue \in Seq(Peers)
  /\ acc \in [Acceptors -> [pc : {"idle", "made", "put", "set"}, conn : 0 .. Len(made)]]
  /\ io \in [Peers -> [pc : {"idle", "handle", "listen", "put"},
                       conn : 0 .. Len(made), seg : Segment]]
  /\ wire \in [Peers -> SUBSET Segment]

\* An I/O thread that found room in the backlog still has it when it puts the
\* connection there: attempts beyond the backlog are ignored, never waited for.
HandlersNeverWait == \A p \in Peers : io[p].pc = "put" => Len(queue) < Backlog

\* Nobody is about to do anything about connection c, which has closed.
Over(c) ==
  /\ made[c].st = "CLOSED" /\ made[c].rec # ClosedRecord
  /\ MonitorFree(c)
  /\ \A a \in Acceptors : acc[a].conn # c

Listed(c) == conns[made[c].peer] = c

\* A closed connection stays in the map only if its closed callback was
\* counted by RaceRunnable and not replayed; nothing else loses one.
OnlyRaceForgets == \A c \in Conns : Over(c) /\ Listed(c) => made[c].runs > 0

\* Connection c closes, or its close, counted by RaceRunnable, is replayed.
Closes(c) ==
  \/ made[c].st # "CLOSED" /\ made'[c].st = "CLOSED"
  \/ made[c].st = "CLOSED" /\ made'[c].runs < made[c].runs

\* A peer's entry leaves the map only when a connection of that peer closes, or
\* its close is replayed, or MINA has closed the idle session: callbacks that
\* were lost, counted or late cost no peer an entry for which nothing closed.
\* With two connections of one peer it may be the other one that closed.
OnlyClosedLeave ==
  [][\A p \in Peers : conns[p] # NoConn /\ conns'[p] = NoConn =>
       NotifyClosed(p) \/ \E c \in Conns : made[c].peer = p /\ Closes(c)]_vars

=============================================================================

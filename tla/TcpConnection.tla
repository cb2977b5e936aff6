---------------------------- MODULE TcpConnection ----------------------------
(***************************************************************************)
(* Set-up and tear-down of TCP connections (TcpSocketBase) between two     *)
(* nodes over a network that loses and reorders segments.  The             *)
(* applications open and close connections and send no data, so the        *)
(* transmit buffer is always empty and the receive buffer holds at most    *)
(* the position of the FIN; sequence numbers are as in the code, where     *)
(* every connection starts at 0.                                           *)
(*                                                                         *)
(* Each handler of the code is an operator from the socket before the call *)
(* to the socket after it.  What the call hands to TcpL4Protocol is        *)
(* collected in the socket's field out and put on the network when the     *)
(* event is over.  Timers have no durations: a running timer may expire    *)
(* at any moment.  Options are at their defaults (time stamps on, ECN off).*)
(***************************************************************************)
EXTENDS Integers, FiniteSets

CONSTANTS Nodes,          \* the two hosts
          SynRetries,     \* m_synRetries, attribute ConnCount
          DataRetries,    \* m_dataRetries, attribute DataRetries
          QueueLimit,     \* segments the network can hold, more are dropped
          ClosesEarly     \* an application may Close before the handshake is over

ASSUME NodesAssumption == IsFiniteSet(Nodes) /\ Cardinality(Nodes) = 2
ASSUME RetriesAssumption == SynRetries \in Nat \ {0} /\ DataRetries \in Nat
ASSUME QueueAssumption == QueueLimit \in Nat
ASSUME EarlyAssumption == ClosesEarly \in BOOLEAN

VARIABLES sock,        \* the socket of each node, the forked one at a server
          listening,   \* nodes with a socket in LISTEN
          net,         \* segments on their way
          finTaken     \* history: nodes whose FIN their peer has accepted

vars == <<sock, listening, net, finTaken>>

States == {"CLOSED", "SYN_SENT", "SYN_RCVD", "ESTABLISHED", "CLOSE_WAIT",
           "LAST_ACK", "FIN_WAIT_1", "FIN_WAIT_2", "CLOSING", "TIME_WAIT"}

\* A FIN never travels without an ACK (SendEmptyPacket adds it).
Flags == {"SYN", "SYN_ACK", "ACK", "FIN_ACK", "RST", "RST_ACK"}

\* m_retxEvent: not running, ReTxTimeout, or SendEmptyPacket with some flags.
RetxEvents == {"none", "ReTxTimeout", "SYN", "SYN_ACK", "FIN_ACK"}

Notices == {"normal", "error", "failed"}

NoFin == -1

Peer(n) == CHOOSE p \in Nodes : p # n

\* A socket before Connect.
NewSocket ==
    [st |-> "CLOSED", endPoint |-> FALSE, synCount |-> SynRetries,
     dataRetrCount |-> DataRetries, nextTx |-> 0, highTx |-> 0, head |-> 0,
     nextRx |-> 0, finSeq |-> NoFin, retx |-> "none", lastAck |-> FALSE,
     closeNotified |-> FALSE, shutdownSend |-> FALSE, forked |-> FALSE,
     told |-> {}, out |-> {}]

-----------------------------------------------------------------------------
(* Sending and releasing *)

\* Mutant of DeallocateEndPoint: CancelAllTimers is forgotten.
DeallocateKeepingTimers(s) == [s EXCEPT !.endPoint = FALSE]

\* CancelAllTimers and the release of the end point: from here on no segment
\* reaches the socket and it sends none.  The TIME_WAIT timer needs no field
\* of its own, it runs exactly while the state is TIME_WAIT.
DeallocateEndPoint(s) ==
    IF s.endPoint THEN [s EXCEPT !.endPoint = FALSE, !.retx = "none", !.lastAck = FALSE]
    ELSE s

Segment(s, f) ==
    [flag |-> f, ack |-> s.nextRx,
     seq |-> IF f # "FIN_ACK" /\ s.st \in {"FIN_WAIT_1", "LAST_ACK", "CLOSING"}
             THEN s.nextTx + 1 ELSE s.nextTx]

\* Mutant of SendEmptyPacket: only a SYN is repeated.
SendWithoutRepeat(s, f) ==
    IF ~ s.endPoint THEN s
    ELSE IF f \in {"SYN", "SYN_ACK"} /\ s.synCount = 0
    THEN DeallocateEndPoint([s EXCEPT !.st = "CLOSED", !.told = @ \cup {"failed"}])
    ELSE [s EXCEPT !.synCount = IF f \in {"SYN", "SYN_ACK"} THEN @ - 1 ELSE @,
                   !.retx = IF @ = "none" /\ f = "SYN" THEN f ELSE @,
                   !.out = @ \cup {Segment(s, f)}]

\* Mutant of SendEmptyPacket: the attempts are not counted.
SendWithoutCount(s, f) ==
    IF ~ s.endPoint THEN s
    ELSE [s EXCEPT !.retx = IF @ = "none" /\ f \in RetxEvents THEN f ELSE @,
                   !.out = @ \cup {Segment(s, f)}]

\* A SYN that may not be repeated any more closes the socket instead.  SYN and
\* FIN segments repeat themselves until the event is cancelled.
SendEmptyPacket(s, f) ==
    IF ~ s.endPoint THEN s
    ELSE IF f \in {"SYN", "SYN_ACK"} /\ s.synCount = 0
    THEN DeallocateEndPoint([s EXCEPT !.st = "CLOSED", !.told = @ \cup {"failed"}])
    ELSE [s EXCEPT !.synCount = IF f \in {"SYN", "SYN_ACK"} THEN @ - 1 ELSE @,
                   !.retx = IF @ = "none" /\ f \in RetxEvents THEN f ELSE @,
                   !.out = @ \cup {Segment(s, f)}]

SendRST(s) ==
    LET sent == SendEmptyPacket(s, "RST")
    IN  DeallocateEndPoint([sent EXCEPT !.told = @ \cup {"error"}])

\* NotifyNormalClose under the guard of m_closeNotified.
NotifyClose(s) ==
    IF s.closeNotified THEN s
    ELSE [s EXCEPT !.closeNotified = TRUE, !.told = @ \cup {"normal"}]

CloseAndNotify(s) ==
    DeallocateEndPoint([NotifyClose(s) EXCEPT !.st = "CLOSED", !.lastAck = FALSE])

\* Answer to flags that have no place in the current state.
ResetAndClose(s, f) == CloseAndNotify(IF f = "RST" THEN s ELSE SendRST(s))

TimeWait(s) ==
    NotifyClose([s EXCEPT !.st = "TIME_WAIT", !.retx = "none", !.lastAck = FALSE])

-----------------------------------------------------------------------------
(* Calls of the application *)

DoClose(s) ==
    CASE s.st \in {"SYN_RCVD", "ESTABLISHED"} ->
            [SendEmptyPacket(s, "FIN_ACK") EXCEPT !.st = "FIN_WAIT_1"]
      [] s.st = "CLOSE_WAIT" ->
            [SendEmptyPacket(s, "FIN_ACK") EXCEPT !.st = "LAST_ACK"]
      [] s.st \in {"SYN_SENT", "CLOSING"} -> CloseAndNotify(SendRST(s))
      [] OTHER -> s

DoShutdownSend(s) ==
    LET shut == [s EXCEPT !.shutdownSend = TRUE]
    IN  IF s.st \in {"ESTABLISHED", "CLOSE_WAIT"} THEN DoClose(shut) ELSE shut

-----------------------------------------------------------------------------
(* Reception *)

\* TcpRxBuffer: the FIN takes one sequence number once it is in order.
SetFinSequence(s, q) ==
    [s EXCEPT !.finSeq = q, !.nextRx = IF @ = q THEN q + 1 ELSE @]

Finished(s) == s.finSeq # NoFin /\ s.finSeq < s.nextRx

\* NewAck: with an empty transmit buffer the timer goes on only for a FIN.
NewAck(s, a) ==
    [s EXCEPT !.dataRetrCount = DataRetries, !.head = a,
              !.retx = IF s.st \in {"FIN_WAIT_1", "CLOSING"} THEN "ReTxTimeout" ELSE "none",
              !.nextTx = IF a > @ THEN a ELSE @]

\* ReceivedAck and ProcessAck for a socket without data.
ReceivedAck(s, a) ==
    CASE a > s.head -> NewAck(s, a)
      [] a = s.head /\ a > s.highTx -> [s EXCEPT !.nextTx = a]
      [] OTHER -> s

\* The handshake is over: the SYN is acknowledged.
Synchronize(s) ==
    [s EXCEPT !.retx = "none", !.nextTx = @ + 1, !.highTx = s.nextTx + 1,
              !.head = s.nextTx + 1]

\* DoPeerClose.  The application hears of it in NotifyNormalClose, where it
\* may call Close (closes).
DoPeerClose(s, closes) ==
    LET waiting  == [s EXCEPT !.st = "CLOSE_WAIT"]
        notified == IF closes /\ ~ s.closeNotified
                    THEN DoClose(NotifyClose(waiting)) ELSE NotifyClose(waiting)
        answered == IF s.shutdownSend THEN DoClose(notified)
                    ELSE SendEmptyPacket(notified, "ACK")
    IN  IF answered.st = "LAST_ACK"
        THEN [answered EXCEPT !.dataRetrCount = DataRetries, !.lastAck = TRUE]
        ELSE answered

PeerClose(s, q, closes) ==
    IF q < s.nextRx \/ (s.finSeq # NoFin /\ q > s.finSeq) THEN s
    ELSE LET t == SetFinSequence(s, q)
         IN  IF Finished(t) THEN DoPeerClose(t, closes) ELSE t

ProcessSynSent(s, m) ==
    CASE m.flag \in {"ACK", "FIN_ACK"} -> s
      [] m.flag = "SYN" ->
            SendEmptyPacket([s EXCEPT !.st = "SYN_RCVD", !.synCount = SynRetries,
                                      !.nextRx = m.seq + 1], "SYN_ACK")
      [] m.flag = "SYN_ACK" /\ m.ack = s.nextTx + 1 ->
            SendEmptyPacket([Synchronize(s) EXCEPT !.st = "ESTABLISHED",
                                                   !.nextRx = m.seq + 1], "ACK")
      [] OTHER -> ResetAndClose(s, m.flag)

ProcessSynRcvd(s, m, closes) ==
    CASE m.flag = "ACK" /\ m.ack = s.nextTx + 1 ->
            ReceivedAck([Synchronize(s) EXCEPT !.st = "ESTABLISHED"], m.ack)
      [] m.flag = "SYN" ->
            SendEmptyPacket([s EXCEPT !.nextRx = m.seq + 1], "SYN_ACK")
      [] m.flag = "FIN_ACK" ->
            IF m.seq = s.nextRx THEN PeerClose(Synchronize(s), m.seq, closes) ELSE s
      [] OTHER -> ResetAndClose(s, m.flag)

ProcessEstablished(s, m, closes) ==
    CASE m.flag = "ACK" /\ m.ack < s.head -> s
      [] m.flag = "ACK" /\ m.ack >= s.head /\ m.ack > s.highTx -> SendEmptyPacket(s, "ACK")
      [] m.flag = "ACK" /\ m.ack \in s.head .. s.highTx -> ReceivedAck(s, m.ack)
      [] m.flag \in {"SYN", "SYN_ACK"} -> s
      [] m.flag = "FIN_ACK" -> PeerClose(s, m.seq, closes)
      [] OTHER -> ResetAndClose(s, m.flag)

\* Mutant of ProcessWait: an ACK of everything before the FIN is enough.
ProcessWaitOffByOne(s, m) ==
    LET acked    == ReceivedAck(s, m.ack)
        finAcked == m.ack >= s.highTx
        taken    == IF m.flag = "FIN_ACK" THEN SetFinSequence(acked, m.seq)
                    ELSE IF s.st = "FIN_WAIT_1" /\ finAcked
                    THEN [acked EXCEPT !.st = "FIN_WAIT_2"] ELSE acked
    IN  CASE m.flag \in {"SYN", "SYN_ACK"} -> s
          [] m.flag \in {"ACK", "FIN_ACK"} ->
                IF taken.st = "CLOSE_WAIT" \/ ~ Finished(taken) THEN taken
                ELSE SendEmptyPacket(IF taken.st = "FIN_WAIT_2" \/ finAcked
                                     THEN TimeWait(taken)
                                     ELSE [taken EXCEPT !.st = "CLOSING"], "ACK")
          [] OTHER -> ResetAndClose(s, m.flag)

\* FIN_WAIT_1, FIN_WAIT_2 and CLOSE_WAIT: take the ACK and the FIN, then see
\* whether the peer is done as well.
ProcessWait(s, m) ==
    LET acked    == ReceivedAck(s, m.ack)
        finAcked == m.ack = s.highTx + 1
        taken    == IF m.flag = "FIN_ACK" THEN SetFinSequence(acked, m.seq)
                    ELSE IF s.st = "FIN_WAIT_1" /\ finAcked
                    THEN [acked EXCEPT !.st = "FIN_WAIT_2"] ELSE acked
    IN  CASE m.flag \in {"SYN", "SYN_ACK"} -> s
          [] m.flag \in {"ACK", "FIN_ACK"} ->
                IF taken.st = "CLOSE_WAIT" \/ ~ Finished(taken) THEN taken
                ELSE SendEmptyPacket(IF taken.st = "FIN_WAIT_2" \/ finAcked
                                     THEN TimeWait(taken)
                                     ELSE [taken EXCEPT !.st = "CLOSING"], "ACK")
          [] OTHER -> ResetAndClose(s, m.flag)

ProcessClosing(s, m) ==
    CASE m.flag = "ACK" -> IF m.seq = s.nextRx THEN TimeWait(s) ELSE s
      [] m.flag = "FIN_ACK" -> CloseAndNotify(SendEmptyPacket(s, "ACK"))
      [] OTHER -> ResetAndClose(s, m.flag)

ProcessLastAck(s, m) ==
    CASE m.flag = "ACK" -> IF m.seq = s.nextRx THEN CloseAndNotify(s) ELSE s
      [] m.flag = "FIN_ACK" -> CloseAndNotify(s)
      [] OTHER -> ResetAndClose(s, m.flag)

\* DoForwardUp.  The RST+ACK of NoEndPointsFound carries no time stamp, and an
\* ACK without one is discarded.
DoForwardUp(s, m, closes) ==
    CASE m.flag = "RST_ACK" -> s
      [] m.flag # "RST_ACK" /\ s.st = "SYN_SENT" -> ProcessSynSent(s, m)
      [] m.flag # "RST_ACK" /\ s.st = "SYN_RCVD" -> ProcessSynRcvd(s, m, closes)
      [] m.flag # "RST_ACK" /\ s.st = "ESTABLISHED" -> ProcessEstablished(s, m, closes)
      [] m.flag # "RST_ACK" /\ s.st \in {"FIN_WAIT_1", "FIN_WAIT_2", "CLOSE_WAIT"} ->
            ProcessWait(s, m)
      [] m.flag # "RST_ACK" /\ s.st = "CLOSING" -> ProcessClosing(s, m)
      [] m.flag # "RST_ACK" /\ s.st = "LAST_ACK" -> ProcessLastAck(s, m)
      [] OTHER -> s

\* ProcessListen and CompleteFork: a new socket answers the SYN.
CompleteFork(m) ==
    SendEmptyPacket([NewSocket EXCEPT !.st = "SYN_RCVD", !.endPoint = TRUE,
                                      !.forked = TRUE, !.nextRx = m.seq + 1], "SYN_ACK")

\* TcpL4Protocol::NoEndPointsFound: what a node without the socket answers.
NoEndPointsFound(m) ==
    CASE m.flag \in {"RST", "RST_ACK"} -> {}
      [] m.flag = "SYN" -> {[flag |-> "RST_ACK", seq |-> 0, ack |-> m.seq + 1]}
      [] OTHER -> {[flag |-> "RST", seq |-> m.ack, ack |-> 0]}

-----------------------------------------------------------------------------
(* Timers *)

ReTxTimeout(s) ==
    CASE s.st = "SYN_SENT" -> SendEmptyPacket(s, "SYN")
      [] s.st \in {"FIN_WAIT_1", "CLOSING"} -> SendEmptyPacket(s, "FIN_ACK")
      [] OTHER -> s

LastAckTimeout(s) ==
    IF s.st # "LAST_ACK" THEN s
    ELSE IF s.dataRetrCount = 0
    THEN DeallocateEndPoint([s EXCEPT !.told = @ \cup {"error"}])
    ELSE [SendEmptyPacket([s EXCEPT !.dataRetrCount = @ - 1], "FIN_ACK")
              EXCEPT !.lastAck = TRUE]

-----------------------------------------------------------------------------
(* Events *)

\* What is left of the segments that n hands down when some of them are lost.
Transmit(n, rest, segments) ==
    \E kept \in SUBSET segments :
        /\ net' = rest \cup {[to |-> Peer(n), seg |-> m] : m \in kept}
        /\ Cardinality(net') <= QueueLimit

\* The event of socket n ends with n in s.
Commit(n, rest, s) ==
    /\ sock' = [sock EXCEPT ![n] = [s EXCEPT !.out = {}]]
    /\ Transmit(n, rest, s.out)

Init ==
    /\ sock = [n \in Nodes |-> NewSocket]
    /\ listening \in SUBSET Nodes
    /\ net = {}
    /\ finTaken = {}

\* DoConnect sets the state after SendEmptyPacket.
Connect(n) ==
    /\ sock[n] = NewSocket /\ n \notin listening
    /\ Commit(n, net, [SendEmptyPacket([sock[n] EXCEPT !.endPoint = TRUE], "SYN")
                          EXCEPT !.st = "SYN_SENT"])
    /\ UNCHANGED <<listening, finTaken>>

\* Close of a socket in LISTEN.
CloseListener(n) ==
    /\ n \in listening
    /\ listening' = listening \ {n}
    /\ UNCHANGED <<sock, net, finTaken>>

\* The application gets a forked socket when the handshake is over
\* (NotifyNewConnectionCreated); one that it opened itself may be in SYN_RCVD.
Close(n) ==
    /\ sock[n].endPoint
    /\ sock[n].st = "SYN_RCVD" => ClosesEarly /\ ~ sock[n].forked
    /\ Commit(n, net, DoClose(sock[n]))
    /\ UNCHANGED <<listening, finTaken>>

ShutdownSend(n) ==
    /\ sock[n].endPoint
    /\ sock[n].st = "SYN_RCVD" => ~ sock[n].forked
    /\ Commit(n, net, DoShutdownSend(sock[n]))
    /\ UNCHANGED <<listening, finTaken>>

\* TcpL4Protocol::Receive at a node with the end point of the connection.
ForwardUp(n, m) ==
    /\ [to |-> n, seg |-> m] \in net /\ sock[n].endPoint
    /\ \E closes \in BOOLEAN :
          LET s == DoForwardUp(sock[n], m, closes) IN
          /\ Commit(n, net \ {[to |-> n, seg |-> m]}, s)
          /\ finTaken' = IF m.flag = "FIN_ACK" /\ s.finSeq = m.seq /\ Finished(s)
                         THEN finTaken \cup {Peer(n)} ELSE finTaken
    /\ UNCHANGED listening

\* The listening socket forks for a SYN and drops everything else. (A bare RST
\* also reaches lines 1193-1207 and starts the persist timer of the listener,
\* which has nothing to send; persist timers are not modelled.)
ForwardToListener(n, m) ==
    /\ [to |-> n, seg |-> m] \in net /\ ~ sock[n].endPoint /\ n \in listening
    /\ LET rest == net \ {[to |-> n, seg |-> m]} IN
       IF m.flag = "SYN" THEN Commit(n, rest, CompleteFork(m))
       ELSE net' = rest /\ UNCHANGED sock
    /\ UNCHANGED <<listening, finTaken>>

Refuse(n, m) ==
    /\ [to |-> n, seg |-> m] \in net /\ ~ sock[n].endPoint /\ n \notin listening
    /\ Transmit(n, net \ {[to |-> n, seg |-> m]}, NoEndPointsFound(m))
    /\ UNCHANGED <<sock, listening, finTaken>>

\* m_retxEvent expires.
RetransmissionTimer(n) ==
    /\ sock[n].retx # "none"
    /\ LET s == [sock[n] EXCEPT !.retx = "none"] IN
       Commit(n, net, IF sock[n].retx = "ReTxTimeout" THEN ReTxTimeout(s)
                      ELSE SendEmptyPacket(s, sock[n].retx))
    /\ UNCHANGED <<listening, finTaken>>

LastAckTimer(n) ==
    /\ sock[n].lastAck
    /\ Commit(n, net, LastAckTimeout([sock[n] EXCEPT !.lastAck = FALSE]))
    /\ UNCHANGED <<listening, finTaken>>

\* Twice the maximum segment lifetime has passed.
TimeWaitTimer(n) ==
    /\ sock[n].st = "TIME_WAIT" /\ sock[n].endPoint
    /\ Commit(n, net, CloseAndNotify(sock[n]))
    /\ UNCHANGED <<listening, finTaken>>

Timers(n) == RetransmissionTimer(n) \/ LastAckTimer(n) \/ TimeWaitTimer(n)

Deliver(n) ==
    \E m \in {p.seg : p \in net} :
        ForwardUp(n, m) \/ ForwardToListener(n, m) \/ Refuse(n, m)

Next ==
    \E n \in Nodes : \/ Connect(n) \/ CloseListener(n) \/ Close(n) \/ ShutdownSend(n)
                     \/ Deliver(n) \/ Timers(n)

\* The simulator runs every event that is scheduled: timers expire.
Fairness ==
    \A n \in Nodes : /\ WF_vars(RetransmissionTimer(n))
                     /\ WF_vars(LastAckTimer(n))
                     /\ WF_vars(TimeWaitTimer(n))

Spec == Init /\ [][Next]_vars

FairSpec == Spec /\ Fairness

-----------------------------------------------------------------------------
(* Properties *)

Sockets ==
    [st : States, endPoint : BOOLEAN, synCount : 0 .. SynRetries,
     dataRetrCount : 0 .. DataRetries, nextTx : Nat, highTx : Nat, head : Nat,
     nextRx : Nat, finSeq : Nat \cup {NoFin}, retx : RetxEvents, lastAck : BOOLEAN,
     closeNotified : BOOLEAN, shutdownSend : BOOLEAN, forked : BOOLEAN,
     told : SUBSET Notices, out : {{}}]

Segments == [flag : Flags, ack : Nat, seq : Nat]

\* Types.  In particular the counters of attempts, unsigned in the code, stay
\* within their limits (SendEmptyPacket, LastAckTimeout).
TypeOK ==
    /\ sock \in [Nodes -> Sockets]
    /\ listening \subseteq Nodes
    /\ net \subseteq [to : Nodes, seg : Segments]
    /\ finTaken \subseteq Nodes

\* States in which the socket waits for the answer to a SYN or a FIN.
Awaiting == {"SYN_SENT", "SYN_RCVD", "FIN_WAIT_1", "CLOSING", "LAST_ACK"}

\* A socket that waits for the answer to its SYN or FIN has a timer to repeat
\* it, whatever handlers ran since it was sent (m_retxEvent is cancelled and
\* restarted in SendEmptyPacket, ProcessSynSent, ProcessSynRcvd and NewAck):
\* no lost segment leaves the connection waiting for ever.
Armed ==
    /\ TypeOK
    /\ \A n \in Nodes : sock[n].endPoint /\ sock[n].st \in Awaiting => sock[n].retx # "none"

\* On each of the paths that release a socket: no timer is left that would run
\* on it (DeallocateEndPoint), and the application was told of the end by one
\* callback or another, so that no connection ends silently.
Released ==
    \A n \in Nodes : ~ sock[n].endPoint =>
        /\ sock[n].retx = "none" /\ ~ sock[n].lastAck
        /\ sock[n] = NewSocket \/ sock[n].told # {}

\* FIN_WAIT_2 and TIME_WAIT mean that the peer has the FIN: ProcessWait and
\* ProcessClosing take no other ACK for that of the FIN.
FinAcknowledged ==
    \A n \in Nodes : sock[n].st \in {"FIN_WAIT_2", "TIME_WAIT"} => n \in finTaken

\* Opening a connection ends, with success or not, as the SYNs are counted; a
\* socket that answers the FIN of its peer with its own, and one in TIME_WAIT, is
\* released even if nothing comes any more (LastAckTimeout, TimeWait).
Ends ==
    \A n \in Nodes :
        /\ sock[n].st = "SYN_SENT" ~> sock[n].st # "SYN_SENT"
        /\ sock[n].st = "SYN_RCVD" ~> sock[n].st # "SYN_RCVD"
        /\ sock[n].lastAck \/ sock[n].st = "TIME_WAIT" ~> ~ sock[n].endPoint
=============================================================================

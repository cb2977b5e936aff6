------------------------------ MODULE TcpSender ------------------------------
(***************************************************************************)
(* Transfer of data over one TCP connection with SACK: the scoreboard of   *)
(* the sender (TcpTxBuffer), its congestion states and loss recovery       *)
(* (TcpSocketBase) and the reassembly of the receiver (TcpRxBuffer), over  *)
(* a network that loses and reorders data and acknowledgments.             *)
(*                                                                         *)
(* Sequence numbers count segments.  The application hands over all its    *)
(* data at the start and reads at once.  The window is left open: every    *)
(* event may use any window of at least a segment, so that the results     *)
(* hold for every TcpCongestionOps and TcpRecoveryOps.  A handler of the   *)
(* code is an operator from the sender before the call to the sender after *)
(* it; failed collects the NS_ASSERTs it ran into and out the segments it  *)
(* hands down.  Timers have no durations.                                  *)
(***************************************************************************)
EXTENDS Integers, FiniteSets, Sequences, FiniteSetsExt, SequencesExt

CONSTANTS N,             \* segments the application sends
          RetxThresh,    \* m_retxThresh and m_dupAckThresh, attribute ReTxThreshold
          DataRetries,   \* m_dataRetries, attribute DataRetries
          Window,        \* the largest window, in segments
          AckLimit,      \* acknowledgments the network can hold, more are dropped
          UseEcn         \* ECN was negotiated

ASSUME NAssumption == N \in Nat \ {0} /\ Window \in Nat \ {0} /\ AckLimit \in Nat
ASSUME RetriesAssumption == RetxThresh \in Nat \ {0} /\ DataRetries \in Nat
ASSUME EcnAssumption == UseEcn \in BOOLEAN

VARIABLES snd,    \* the sending socket with its transmit buffer
          rcv,    \* the receive buffer of the peer
          data,   \* segments on their way
          acks    \* acknowledgments on their way

vars == <<snd, rcv, data, acks>>

CongStates == {"OPEN", "DISORDER", "CWR", "RECOVERY", "LOSS"}

NoSeg == 0

\* head is SND.UNA and high is m_highTxMark: head .. high - 1 is the sent list.
InitialSender ==
    [head |-> 1, high |-> 1, sacked |-> {}, lost |-> {}, retrans |-> {},
     highestSack |-> NoSeg, cong |-> "OPEN", dupAckCount |-> 0, recover |-> 0,
     recoverActive |-> FALSE, retx |-> FALSE, dataRetrCount |-> DataRetries,
     ece |-> FALSE, echoSeq |-> 0, cwrSeq |-> 0, alive |-> TRUE,
     failed |-> {}, out |-> {}]

Check(s, ok, name) == IF ok THEN s ELSE [s EXCEPT !.failed = @ \cup {name}]

-----------------------------------------------------------------------------
(* The scoreboard: TcpTxBuffer *)

BytesInFlight(s) ==
    (s.high - s.head) - Cardinality(s.sacked) - Cardinality(s.lost) + Cardinality(s.retrans)

\* A segment is not lost as long as fewer than the threshold are SACKed above it.
UpdateLostCount(s) ==
    LET above(i) == {j \in s.sacked : i < j /\ j <= s.highestSack}
    IN  [s EXCEPT !.lost = @ \cup {i \in (s.head .. s.highestSack) \ s.sacked :
                                      Cardinality(above(i)) >= RetxThresh}]

\* The blocks of the SACK option, at most four, are taken in their order.
\* m_highestSack moves to the last segment of a block that is new, unless that is
\* well below.
HighestSackAfter(s, list) ==
    LET new(k)     == IF k > Len(list) THEN {}
                      ELSE (list[k] \cap (s.head .. s.high - 1)) \ s.sacked
        Move(h, k) == IF new(k) # {} /\ h <= Max(new(k)) + 1 THEN Max(new(k)) ELSE h
    IN  Move(Move(Move(Move(s.highestSack, 1), 2), 3), 4)

\* Mutant: the segment after a block is taken for a part of it.
UpdatePastEnd(s, list) ==
    LET new == {i \in (s.head .. s.high - 1) \ s.sacked :
                   \E b \in Range(list) : i \in b \/ i - 1 \in b}
    IN  IF new = {} THEN s
        ELSE UpdateLostCount([s EXCEPT !.sacked = @ \cup new, !.lost = @ \ new,
                                       !.highestSack = HighestSackAfter(s, list)])

Update(s, list) ==
    LET new == ((UNION Range(list)) \cap (s.head .. s.high - 1)) \ s.sacked
        t   == [s EXCEPT !.sacked = @ \cup new, !.lost = @ \ new,
                         !.highestSack = HighestSackAfter(s, list)]
    IN  Check(IF new = {} THEN s ELSE UpdateLostCount(t), s.head \notin t.sacked, "Update")

\* The branch for a SACKed head is for the guesses made without SACK; here it
\* is checked that it is never taken.
DiscardUpTo(s, a) ==
    LET kept(set) == {i \in set : i >= a}
    IN  Check([s EXCEPT !.head = a, !.sacked = kept(@), !.lost = kept(@),
                        !.retrans = kept(@),
                        !.highestSack = IF @ <= a THEN NoSeg ELSE @],
              a \notin s.sacked, "DiscardUpTo")

IsLost(s, q) ==
    LET marked == {i \in s.sacked \cup s.lost : i >= q}
    IN  q < s.highestSack /\ marked # {} /\ Min(marked) \in s.lost

MarkHeadAsLost(s) ==
    [s EXCEPT !.sacked = @ \ {s.head}, !.retrans = @ \ {s.head}, !.lost = @ \cup {s.head}]

\* Mutant: the segments stay marked as retransmitted.
SetSentListLostOnly(s) == [s EXCEPT !.lost = @ \cup ((s.head .. s.high - 1) \ s.sacked)]

SetSentListLost(s) ==
    [s EXCEPT !.retrans = {}, !.lost = @ \cup ((s.head .. s.high - 1) \ s.sacked)]

\* Rule 1: lost and not yet retransmitted; rule 2: new data.  Rule 3 is in
\* SendPendingData, the only caller that uses it.
NextSeg(s) ==
    LET lost == (s.lost \ s.retrans) \ s.sacked
    IN  IF lost # {} THEN Min(lost) ELSE IF s.high <= N THEN s.high ELSE NoSeg

-----------------------------------------------------------------------------
(* Sending *)

\* SendDataPacket and CopyFromSequence.  New data carries the CWR flag when an
\* echo is to be answered.
SendDataPacket(s, i) ==
    LET sent == Check([s EXCEPT !.retx = TRUE, !.out = @ \cup {i}],
                      i \notin s.sacked, "CopyFromSequence")
    IN  IF i < s.high THEN [sent EXCEPT !.retrans = @ \cup {i}]
        ELSE [sent EXCEPT !.high = i + 1,
                          !.ece = @ /\ ~ (s.echoSeq > s.cwrSeq),
                          !.cwrSeq = IF s.ece /\ s.echoSeq > @ THEN i ELSE @]

DoRetransmit(s) ==
    LET i == NextSeg(s) IN SendDataPacket(s, IF i = NoSeg THEN s.head ELSE i)

\* Every segment that is sent adds one to the bytes in flight, so the loop takes
\* as many as the window has room for: lost ones, then new ones, then, in
\* recovery, the others, the new ones included.
Lowest(set, n) == {i \in set : Cardinality({j \in set : j < i}) < n}

SendPendingData(s, w) ==
    LET open  == ((s.head .. s.high - 1) \ s.retrans) \ s.sacked
        room  == w - BytesInFlight(s)
        lost  == Lowest(open \cap s.lost, room)
        new   == Lowest(s.high .. N, room - Cardinality(lost))
        again == IF s.cong = "RECOVERY"
                 THEN Lowest((open \ s.lost) \cup new, room - Cardinality(lost) - Cardinality(new))
                 ELSE {}
        cwr   == new # {} /\ s.ece /\ s.echoSeq > s.cwrSeq
    IN  [s EXCEPT !.out = @ \cup lost \cup new \cup again,
                  !.retx = @ \/ lost \cup new \cup again # {},
                  !.retrans = @ \cup lost \cup again,
                  !.high = @ + Cardinality(new),
                  !.ece = @ /\ ~ cwr,
                  !.cwrSeq = IF cwr THEN s.high ELSE @]

-----------------------------------------------------------------------------
(* Congestion states *)

EnterCwr(s) ==
    Check([s EXCEPT !.cong = "CWR", !.recover = s.high], s.cong # "CWR", "EnterCwr")

EnterRecovery(s) ==
    LET marked == IF IsLost(s, s.head) THEN s ELSE MarkHeadAsLost(s)
    IN  DoRetransmit(Check([marked EXCEPT !.cong = "RECOVERY", !.recover = s.high,
                                          !.recoverActive = TRUE],
                           s.cong # "RECOVERY", "EnterRecovery"))

\* In DISORDER the duplicates are counted and recovery begins at the threshold,
\* or earlier when the scoreboard shows a loss.
DupAck(s) ==
    LET counted == IF s.cong = "RECOVERY" THEN s ELSE [s EXCEPT !.dupAckCount = @ + 1]
        moved   == IF s.cong # "OPEN" THEN counted
                   ELSE Check([counted EXCEPT !.cong = "DISORDER"],
                              counted.dupAckCount = 1, "OpenToDisorder")
        checked == Check(moved, moved.dupAckCount <= RetxThresh \/ s.recoverActive, "DISORDER")
    IN  CASE s.cong = "LOSS" -> s
          [] s.cong # "LOSS" /\ moved.cong # "DISORDER" -> moved
          [] s.cong # "LOSS" /\ moved.cong = "DISORDER" ->
                IF \/ /\ moved.dupAckCount = RetxThresh
                      /\ s.head >= s.recover \/ ~ s.recoverActive
                   \/ IsLost(s, s.head + 1)
                THEN EnterRecovery(checked) ELSE checked

\* Mutant: the timer is cancelled and not scheduled again.
NewAckWithoutTimer(s) == [s EXCEPT !.dataRetrCount = DataRetries, !.retx = FALSE]

\* NewAck. Its argument resetRTO is FALSE for the second and later partial ACKs
\* of a recovery (1787): the timer is then left alone, but it runs there anyway
\* (Armed), and when it expires is arbitrary here.
NewAck(s) ==
    [s EXCEPT !.dataRetrCount = DataRetries, !.retx = s.head <= N]

\* Mutant: the recovery point is never deactivated.
AdvanceKeepingPoint(s, dupack) ==
    LET t      == IF dupack THEN s ELSE [s EXCEPT !.dupAckCount = 0]
        opened == [t EXCEPT !.cong = IF t.cong = "DISORDER" /\ dupack THEN @ ELSE "OPEN",
                            !.dupAckCount = IF t.cong = "RECOVERY" THEN 0 ELSE @]
    IN  CASE t.cong = "RECOVERY" /\ t.head < t.recover ->
                NewAck(IF t.head \in t.retrans THEN t ELSE DoRetransmit(t))
          [] t.cong = "LOSS" /\ t.head < t.recover -> NewAck(t)
          [] t.cong = "CWR" -> NewAck(t)
          [] OTHER -> IF opened.cong = "OPEN" THEN NewAck(opened) ELSE opened

\* The part of ProcessAck for an acknowledgment that moves SND.UNA.
Advance(s, dupack) ==
    LET t      == IF dupack THEN s ELSE [s EXCEPT !.dupAckCount = 0]
        opened == [t EXCEPT !.cong = IF t.cong = "DISORDER" /\ dupack THEN @ ELSE "OPEN",
                            !.dupAckCount = IF t.cong = "RECOVERY" THEN 0 ELSE @,
                            !.recoverActive = @ /\ t.head < t.recover]
    IN  CASE t.cong = "RECOVERY" /\ t.head < t.recover ->
                NewAck(IF t.head \in t.retrans THEN t ELSE DoRetransmit(t))
          [] t.cong = "LOSS" /\ t.head < t.recover -> NewAck(t)
          [] t.cong = "CWR" -> NewAck(t)
          [] OTHER -> IF opened.cong = "OPEN" THEN NewAck(opened) ELSE opened

ProcessAck(s, dupack, oldHead) ==
    LET t == IF dupack THEN DupAck(s) ELSE s
    IN  IF t.head > oldHead THEN Advance(t, dupack) ELSE t

\* The echo of a congestion mark, once per window.
Echo(s, m, oldHead) ==
    CASE UseEcn /\ m.ece /\ s.head > oldHead ->
            IF s.echoSeq >= s.head THEN s
            ELSE LET t == [s EXCEPT !.echoSeq = s.head, !.ece = TRUE]
                 IN  IF t.cong = "CWR" THEN t ELSE EnterCwr(t)
      [] UseEcn /\ m.ece /\ s.head = oldHead -> s
      [] OTHER -> [s EXCEPT !.ece = FALSE]

ReceivedAck(s, m, w) ==
    LET updated == Update(s, m.sack)
        t       == DiscardUpTo(updated, m.ack)
        left    == IF t.cong = "CWR" /\ m.ack > t.recover
                   THEN [t EXCEPT !.cong = "OPEN"] ELSE t
        dupack  == updated.sacked # s.sacked
    IN  SendPendingData(ProcessAck(Echo(left, m, s.head), dupack, s.head), w)

\* Mutant: the timeout is not counted.
EnterLossUncounted(s) ==
    SetSentListLost([s EXCEPT !.dupAckCount = 0, !.recover = s.high,
                              !.recoverActive = TRUE, !.cong = "LOSS"])

\* What ReTxTimeout does before it sends: all that is outstanding is lost.
EnterLoss(s) ==
    LET lost == SetSentListLost([s EXCEPT !.dataRetrCount = @ - 1, !.dupAckCount = 0,
                                          !.recover = s.high, !.recoverActive = TRUE,
                                          !.cong = "LOSS"])
    IN  Check(lost, BytesInFlight(lost) = 0, "ReTxTimeout")

-----------------------------------------------------------------------------
(* The receiver: TcpRxBuffer *)

InitialReceiver == [nextRx |-> 1, held |-> {}, sackList |-> <<>>, delAck |-> FALSE]

\* The blocks of a list of at most four that are in the set, in their order.
Select(list, set) ==
    LET one(k) == IF k <= Len(list) /\ list[k] \in set THEN <<list[k]>> ELSE <<>>
    IN  one(1) \o one(2) \o one(3) \o one(4)

\* The block of the new segment, joined with its neighbours, goes to the front.
UpdateSackList(list, i) ==
    LET near  == {b \in Range(list) : i - 1 \in b \/ i + 1 \in b}
        front == <<{i} \cup (UNION near)>> \o Select(list, Range(list) \ near)
    IN  SubSeq(front, 1, IF Len(front) > 4 THEN 4 ELSE Len(front))

ClearSackList(list, q) == Select(list, {b \in Range(list) : Max(b) >= q})

Add(r, i) ==
    LET held == r.held \cup {i}
        next == CHOOSE q \in r.nextRx .. N + 1 : q \notin held /\ (r.nextRx .. q - 1) \subseteq held
    IN  IF i > r.nextRx
        THEN [r EXCEPT !.held = held, !.sackList = UpdateSackList(@, i)]
        ELSE [r EXCEPT !.held = {j \in held : j > next}, !.nextRx = next,
                       !.sackList = ClearSackList(@, next)]

-----------------------------------------------------------------------------
(* Events *)

\* An event of the sender ends; some of the segments it sent are lost.
Commit(next) ==
    \E s \in {next} :
        /\ snd' = [s EXCEPT !.out = {}]
        /\ \E kept \in SUBSET s.out : data' = data \cup kept

\* SendEmptyPacket(ACK) of the receiver; the acknowledgment may be lost.
SendAck(r) ==
    /\ rcv' = [r EXCEPT !.delAck = FALSE]
    /\ \/ acks' = acks
       \/ \E ece \in IF UseEcn THEN BOOLEAN ELSE {FALSE} :
             acks' = acks \cup {[ack |-> r.nextRx, sack |-> r.sackList, ece |-> ece]}
    /\ Cardinality(acks') <= AckLimit

Init ==
    /\ snd = InitialSender
    /\ rcv = InitialReceiver
    /\ data = {}
    /\ acks = {}

\* m_sendPendingDataEvent: the application has called Send.
Send ==
    /\ snd.alive /\ snd.high = 1
    /\ \E w \in 1 .. Window : Commit(SendPendingData(snd, w))
    /\ UNCHANGED <<rcv, acks>>

\* ProcessEstablished drops an acknowledgment below SND.UNA.
ForwardAck(m) ==
    /\ m \in acks /\ snd.alive
    /\ acks' = acks \ {m}
    /\ IF m.ack < snd.head THEN UNCHANGED <<snd, data>>
       ELSE \E w \in 1 .. Window : Commit(ReceivedAck(snd, m, w))
    /\ UNCHANGED rcv

\* The timer expires.  The window is one segment after a timeout.
ReTxTimeout ==
    /\ snd.retx /\ snd.alive
    /\ LET s == [snd EXCEPT !.retx = FALSE]
       IN  CASE s.head > N -> Commit(s)
             [] s.head <= N /\ s.dataRetrCount = 0 -> Commit([s EXCEPT !.alive = FALSE])
             [] OTHER -> \E lost \in {EnterLoss(s)} : \E sent \in {SendPendingData(lost, 1)} :
                            Commit(Check(sent, BytesInFlight(sent) <= 1, "InFlight"))
    /\ UNCHANGED <<rcv, acks>>

\* A segment that is not new, is out of order, fills a gap or leaves one is
\* acknowledged at once, of the others every second one.
ReceivedData(i) ==
    /\ i \in data
    /\ data' = data \ {i}
    /\ LET known == i < rcv.nextRx \/ i \in rcv.held
           r     == IF known THEN rcv ELSE Add(rcv, i)
       IN  IF known \/ r.held # {} \/ r.nextRx > i + 1 \/ rcv.delAck
           THEN SendAck(r)
           ELSE rcv' = [r EXCEPT !.delAck = TRUE] /\ UNCHANGED acks
    /\ UNCHANGED snd

DelAckTimeout ==
    /\ rcv.delAck
    /\ SendAck(rcv)
    /\ UNCHANGED <<snd, data>>

Next ==
    \/ Send \/ ReTxTimeout \/ DelAckTimeout
    \/ \E m \in acks : ForwardAck(m)
    \/ \E i \in data : ReceivedData(i)

Spec == Init /\ [][Next]_vars

\* The simulator runs every event that is scheduled.
FairSpec == Spec /\ WF_vars(Send) /\ WF_vars(ReTxTimeout)

-----------------------------------------------------------------------------
(* Properties *)

Segments == 1 .. N

\* The parts of the sender and the receiver have their types, the flags of the
\* scoreboard are set for segments of the sent list only, and none is both
\* SACKed and lost (ConsistencyCheck of TcpTxBuffer).
TypeOK ==
    LET sent == snd.head .. snd.high - 1
    IN  /\ snd.head \in 1 .. N + 1 /\ snd.high \in snd.head .. N + 1
        /\ snd.sacked \subseteq sent /\ snd.lost \subseteq sent /\ snd.retrans \subseteq sent
        /\ snd.sacked \cap snd.lost = {}
        /\ snd.highestSack \in {NoSeg} \cup sent
        /\ snd.cong \in CongStates /\ snd.dupAckCount \in Nat /\ snd.recover \in 0 .. N + 1
        /\ snd.dataRetrCount \in 0 .. DataRetries /\ snd.out = {}
        /\ rcv.nextRx \in 1 .. N + 1 /\ rcv.held \subseteq rcv.nextRx + 1 .. N
        /\ data \subseteq Segments /\ \A m \in acks : m.ack \in 1 .. rcv.nextRx

\* No NS_ASSERT of the sender fails: the head of the sent list is never SACKed,
\* nothing that is SACKed is sent again, the counter of duplicates stays below
\* the threshold, and nothing is in flight after a timeout. One can fail with
\* ECN: the duplicates counted in CA_CWR are not forgotten when ReceivedAck goes
\* back to CA_OPEN, where DupAck expects to count the first. A build without
\* assertions may then count past the threshold too.
AssertionsHold ==
    /\ TypeOK
    /\ snd.failed \subseteq {"OpenToDisorder", "DISORDER"}
    /\ "DISORDER" \in snd.failed => "OpenToDisorder" \in snd.failed
    /\ snd.failed # {} => UseEcn

\* As long as data is outstanding the retransmission timer runs, although
\* NewAck, the timeout and the partial acknowledgments all stop or restart it
\* and an acknowledgment in CA_DISORDER touches neither it nor the counter.
Armed == snd.alive /\ snd.head < snd.high => snd.retx

\* What the sender discards or takes for SACKed, the receiver has, although
\* acknowledgments are lost and overtake each other.
Truthful ==
    /\ snd.head <= rcv.nextRx
    /\ snd.sacked \subseteq rcv.held \cup (1 .. rcv.nextRx - 1)

\* The recovery point is active exactly in recovery and after a timeout, and is
\* never behind SND.UNA then; the duplicates counted towards one recovery are
\* forgotten before the next. In CA_DISORDER it is not active: the comment at
\* tcp-socket-base.cc:1503-1508, and the disjunct m_recoverActive in the assertion
\* at 1509, say that a new ACK below m_recover can lead there after a timeout, but
\* such an ACK leaves the state at CA_LOSS (1810). The comment is out of date.
RecoveryPoint ==
    /\ snd.cong \in {"RECOVERY", "LOSS"} => snd.head <= snd.recover /\ snd.recoverActive
    /\ snd.cong \in {"OPEN", "DISORDER"} => ~ snd.recoverActive
    /\ snd.cong = "OPEN" => snd.dupAckCount = 0

\* All data is acknowledged in the end, or the connection is given up after
\* DataRetries timeouts in a row (ReTxTimeout); no pattern of losses makes the
\* sender wait, or retransmit, for ever.
Ends == <>(snd.head > N \/ ~ snd.alive)

=============================================================================

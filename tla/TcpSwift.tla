------------------------------ MODULE TcpSwift ------------------------------
(***************************************************************************)
(* The window of one TCP sender that uses TcpSwift: the congestion states  *)
(* of TcpSocketBase with TcpClassicRecovery, as the dumbbell simulation    *)
(* configures them, call TcpSwift for every new window.                    *)
(*                                                                         *)
(* Windows count bytes.  What the sender measures is left open: the BDP    *)
(* estimate, the factor alpha (percent), how the last RTT compares with    *)
(* the smallest and the bonus for an unused window may differ from one     *)
(* acknowledgment to the next, within the code's limits, until Settle.     *)
(* Operators take the flow before a call to the flow after it.             *)
(***************************************************************************)
EXTENDS Integers

CONSTANTS SegmentSize,     \* m_segmentSize
          InitialCwnd,     \* segments, attribute InitialCwnd
          InitialSsThresh, \* larger than every window, attribute InitialSlowStartThreshold
          Bdps,            \* values of m_bdpBytes, once it is measured
          Alphas,          \* values of m_alpha, percent
          MaxAcked,        \* segments an acknowledgment may cover
          Duplex,          \* the peer sends data as well
          MaxWindow        \* bound: windows while the measurements vary

ASSUME SizeAssumption == SegmentSize \in Nat \ {0} /\ InitialCwnd \in Nat /\ InitialCwnd >= 4
ASSUME SsThreshAssumption == InitialSsThresh \in Nat /\ InitialSsThresh >= 4 * SegmentSize
ASSUME MeasureAssumption == Bdps \subseteq Nat \ {0} /\ Alphas \subseteq 85 .. 130
ASSUME BoundAssumption == MaxAcked \in Nat /\ MaxWindow \in Nat /\ Duplex \in BOOLEAN

VARIABLES flow,    \* m_tcb and the state of TcpSwift
          before,  \* in RECOVERY and CWR, the window GetSsThresh was called with
          steady,  \* alpha since Settle, 0 before
          acks     \* the acknowledgments since Settle, modulo 2

vars == <<flow, before, steady, acks>>

NoBdp == 0
NoCwnd == 0

MinCwnd == 4 * SegmentSize

larger(a, b) == IF a >= b THEN a ELSE b
smaller(a, b) == IF a <= b THEN a ELSE b

-----------------------------------------------------------------------------
(* TcpSwift *)

GetBdp(f) == IF f.bdp # NoBdp THEN f.bdp ELSE larger(f.cWnd, 1)

\* ecn: m_ecnState is ECN_CE_RCVD or ECN_ECE_RCVD.
ClassifyCongestion(f, ecn) ==
    CASE f.cong = "LOSS" -> "TIMEOUT"
      [] f.cong # "LOSS" /\ (ecn \/ f.cong = "CWR") -> "ECN"
      [] OTHER -> "LOSS"

Beta(type) == CASE type = "LOSS" -> 70 [] type = "ECN" -> 75 [] type = "TIMEOUT" -> 50

\* The window and the threshold decided for a congestion event.  After three in
\* a row the window is held.
Decided(f, type) ==
    LET held      == f.decreases >= 3
        reference == smaller(f.cWnd, larger(GetBdp(f), MinCwnd))
        cWnd      == larger(IF held THEN f.cWnd ELSE (Beta(type) * f.cWnd) \div 100, MinCwnd)
    IN  [f EXCEPT !.cWnd = cWnd,
                  !.ssThresh = IF held THEN cWnd
                               ELSE larger((Beta(type) * reference) \div 100, cWnd),
                  !.decreases = smaller(@ + 1, 4),
                  !.slowStart = @ \/ (type = "TIMEOUT" /\ ~ held)]

\* Mutant: the acknowledgments after a decrease are not frozen.
ResponseWithoutFreeze(f, type) == Decided(f, type)

ComputeCongestionResponse(f, type) == [Decided(f, type) EXCEPT !.freeze = 4]

\* Slow start grows to twice the BDP, or until the RTT rises (HyStart).
SlowStart(f, acked, in) ==
    LET target   == larger(2 * GetBdp(f), 10 * SegmentSize)
        fast     == in.rtt = "low" /\ 10 * f.cWnd < 3 * GetBdp(f)
        increase == acked * SegmentSize * (IF fast THEN 2 ELSE 1)
        grown    == smaller(f.cWnd + increase, target)
    IN  CASE in.rtt = "high" -> [f EXCEPT !.slowStart = FALSE, !.ssThresh = larger(@, f.cWnd)]
          [] in.rtt # "high" /\ grown >= target ->
                [f EXCEPT !.slowStart = FALSE, !.cWnd = grown, !.ssThresh = grown]
          [] OTHER -> [f EXCEPT !.cWnd = grown]

\* Mutant: the step is a sixteenth of the gap, which may be nothing.
ApproachSixteenth(f, in) ==
    LET target == (in.alpha * GetBdp(f)) \div 100
    IN  CASE target > f.cWnd -> f.cWnd + (target - f.cWnd) \div 16
          [] target < f.cWnd ->
                larger(f.cWnd - larger((f.cWnd - target) \div 2, SegmentSize), target)
          [] target = f.cWnd -> f.cWnd + SegmentSize

\* The step of congestion avoidance towards alpha * BDP.
Approach(f, in) ==
    LET target == (in.alpha * GetBdp(f)) \div 100
    IN  CASE target > f.cWnd ->
                smaller(f.cWnd + larger(SegmentSize, (target - f.cWnd) \div 16),
                        target + SegmentSize)
          [] target < f.cWnd ->
                larger(f.cWnd - larger((f.cWnd - target) \div 2, SegmentSize), target)
          [] target = f.cWnd -> f.cWnd + SegmentSize

ComputeWindowIncrease(f, acked, in) ==
    LET f0 == [f EXCEPT !.decreases = 0]
    IN  CASE f.freeze > 0 -> [f EXCEPT !.freeze = @ - 1]
          [] f.freeze = 0 /\ f.slowStart /\ f.cWnd < f.ssThresh -> SlowStart(f0, acked, in)
          [] OTHER -> [f0 EXCEPT !.slowStart = FALSE, !.cWnd = Approach(f, in) + in.bonus]

\* Mutant: the window has no lower bound.
BoundsWithoutFloor(f, d) ==
    [d EXCEPT !.cWnd = smaller(@, larger(4 * GetBdp(f), 200 * SegmentSize))]

\* The decision d for the flow f is brought between 4 segments and the larger of
\* 4 BDP and 200 segments.
ApplySafetyBounds(f, d) ==
    [d EXCEPT !.cWnd = smaller(larger(@, MinCwnd),
                               larger(4 * GetBdp(f), 200 * SegmentSize)),
              !.ssThresh = larger(@, MinCwnd)]

\* The decision for the window waits in m_pendingCwnd; the threshold is assigned
\* by the caller.
GetSsThresh(f, ecn) ==
    LET d == ApplySafetyBounds(f, ComputeCongestionResponse(f, ClassifyCongestion(f, ecn)))
    IN  [d EXCEPT !.cWnd = f.cWnd, !.pending = d.cWnd]

\* UpdateMeasurements takes samples only if something is acknowledged.  The
\* threshold of the decision is not used.
IncreaseWindow(f, acked, in) ==
    LET g == [f EXCEPT !.cWnd = IF f.pending # NoCwnd THEN larger(f.pending, 2 * SegmentSize)
                                ELSE @,
                       !.pending = NoCwnd,
                       !.bdp = IF acked > 0 THEN in.bdp ELSE @]
        d == IF in.ce THEN ComputeCongestionResponse(g, "ECN")
             ELSE ComputeWindowIncrease(g, acked, in)
    IN  [ApplySafetyBounds(g, d) EXCEPT !.ssThresh = f.ssThresh]

\* Mutant: a decision that waits survives a timeout.
CongestionStateSetKeeping(f, newState) == [f EXCEPT !.cong = newState]

\* CongestionStateSet, with the assignment to m_congState that follows it.
CongestionStateSet(f, newState) ==
    [f EXCEPT !.cong = newState, !.pending = IF newState = "LOSS" THEN NoCwnd ELSE @]

-----------------------------------------------------------------------------
(* The congestion states of TcpSocketBase *)

CongStates == {"OPEN", "DISORDER", "CWR", "RECOVERY", "LOSS"}

Init ==
    /\ flow = [cong |-> "OPEN", cWnd |-> InitialCwnd * SegmentSize,
               ssThresh |-> InitialSsThresh, decreases |-> 0, freeze |-> 0,
               slowStart |-> TRUE, bdp |-> NoBdp, pending |-> NoCwnd]
    /\ before = NoCwnd
    /\ steady = 0
    /\ acks = 0

\* A mark on data of the peer has not been echoed yet: m_ecnState is ECN_CE_RCVD.
Marked == IF Duplex /\ steady = 0 THEN BOOLEAN ELSE {FALSE}

\* What an acknowledgment may find; after Settle the estimates stay.
Inputs ==
    [alpha : IF steady = 0 THEN Alphas ELSE {steady},
     bdp   : IF steady = 0 THEN Bdps \cup {flow.bdp} ELSE {flow.bdp},
     rtt   : {"low", "normal", "high"},
     bonus : {0, SegmentSize, 2 * SegmentSize},
     ce    : Marked]

Increase(f, acked) ==
    /\ \E in \in Inputs : flow' = IncreaseWindow(f, acked, in)
    /\ steady = 0 => flow'.cWnd <= MaxWindow
    /\ before' = NoCwnd
    /\ acks' = IF steady = 0 THEN 0 ELSE 1 - acks
    /\ UNCHANGED steady

Reduced(f) ==
    /\ steady = 0
    /\ flow' = f
    /\ UNCHANGED <<steady, acks>>

\* TcpClassicRecovery::EnterRecovery sets the window to the threshold.
Recovered(f) == [f EXCEPT !.cWnd = f.ssThresh]

\* An echo of a mark: EnterCwr asks for the threshold before it changes the state.
Cwr(f) == [Recovered(GetSsThresh(f, TRUE)) EXCEPT !.cong = "CWR"]

Recovery(f, ecn) == Recovered(GetSsThresh(CongestionStateSet(f, "RECOVERY"), ecn))

AckInOpen(acked) == flow.cong = "OPEN" /\ Increase(flow, acked)

\* A duplicate acknowledgment, not yet enough of them for recovery.
DupAck ==
    /\ flow.cong = "OPEN"
    /\ Reduced(CongestionStateSet(flow, "DISORDER"))
    /\ before' = NoCwnd

\* The network has only reordered segments.
Reordered(acked) ==
    /\ flow.cong = "DISORDER"
    /\ Increase(CongestionStateSet(flow, "OPEN"), acked)

EnterRecovery ==
    /\ flow.cong \in {"OPEN", "DISORDER"}
    /\ \E ecn \in Marked : Reduced(Recovery(flow, ecn))
    /\ before' = flow.cWnd

ExitRecovery(acked) ==
    /\ flow.cong = "RECOVERY"
    /\ Increase(Recovered(CongestionStateSet(flow, "OPEN")), acked)

EnterCwr ==
    /\ flow.cong # "CWR"
    /\ Reduced(Cwr(flow))
    /\ before' = flow.cWnd

\* An acknowledgment beyond m_recover ends CA_CWR; it may be a duplicate, or
\* carry the echo of another mark.
LeftCwr == Recovered([flow EXCEPT !.cong = "OPEN"])

LeaveCwr(acked) == flow.cong = "CWR" /\ Increase(LeftCwr, acked)

LeaveCwrAgain ==
    /\ flow.cong = "CWR"
    /\ \/ /\ Reduced(CongestionStateSet(LeftCwr, "DISORDER"))
          /\ before' = NoCwnd
       \/ /\ \E ecn \in Marked : Reduced(Recovery(LeftCwr, ecn))
          /\ before' = LeftCwr.cWnd
       \/ /\ Reduced(Cwr(LeftCwr))
          /\ before' = LeftCwr.cWnd

\* IsHeadRetransmitted never holds here, as SetSentListLost has just cleared the
\* flags: every timeout asks for a threshold.
ReTxTimeout ==
    /\ \E ecn \in Marked :
          Reduced([CongestionStateSet(GetSsThresh(flow, ecn), "LOSS")
                      EXCEPT !.cWnd = SegmentSize])
    /\ before' = NoCwnd

AckInLoss(acked) == flow.cong = "LOSS" /\ Increase(flow, acked)

LeaveLoss(acked) == flow.cong = "LOSS" /\ Increase(CongestionStateSet(flow, "OPEN"), acked)

\* From here on the estimates of a measured path stay what they are, and nothing
\* is lost, reordered or marked.
Settle ==
    /\ steady = 0 /\ flow.bdp # NoBdp
    /\ steady' \in Alphas
    /\ UNCHANGED <<flow, before, acks>>

Ack(acked) ==
    \/ AckInOpen(acked) \/ Reordered(acked) \/ ExitRecovery(acked) \/ LeaveCwr(acked)
    \/ LeaveLoss(acked)

Next ==
    \/ \E acked \in 0 .. MaxAcked :
          AckInOpen(acked) \/ Reordered(acked) \/ ExitRecovery(acked) \/ LeaveCwr(acked)
             \/ AckInLoss(acked) \/ LeaveLoss(acked)
    \/ DupAck \/ EnterRecovery \/ EnterCwr \/ LeaveCwrAgain \/ ReTxTimeout
    \/ Settle

Spec == Init /\ [][Next]_vars

\* Acknowledgments of whole segments keep coming, whatever else they bring.
FairSpec == Spec /\ WF_vars(steady # 0 /\ Ack(MaxAcked))

-----------------------------------------------------------------------------
(* Properties *)

\* The flow has its type; the freeze counts down from 4 and, being unsigned,
\* never below 0.
TypeOK ==
    /\ flow.cong \in CongStates
    /\ flow.cWnd \in Nat /\ flow.ssThresh \in Nat /\ flow.pending \in Nat
    /\ flow.decreases \in 0 .. 4 /\ flow.freeze \in 0 .. 4 /\ flow.slowStart \in BOOLEAN
    /\ flow.bdp \in Bdps \cup {NoBdp}
    /\ before \in Nat /\ steady \in Alphas \cup {0} /\ acks \in {0, 1}

\* Outside CA_LOSS neither the window nor the threshold is below 4 segments, and
\* in CA_LOSS the window is one segment only until the first acknowledgment,
\* whatever the estimates, the factor alpha and the order of congestion events.
Floor ==
    /\ TypeOK
    /\ flow.ssThresh >= MinCwnd
    /\ flow.cWnd >= MinCwnd \/ (flow.cong = "LOSS" /\ flow.cWnd = SegmentSize)

\* A decision that waits for the next acknowledgment is never stale: the window
\* and the threshold are still those it was made with, and no timeout and no
\* acknowledgment that could grow the window came in between.
PendingFresh ==
    flow.pending # NoCwnd =>
        /\ flow.cong \in {"RECOVERY", "CWR", "DISORDER"}
        /\ flow.pending = flow.cWnd /\ flow.pending = flow.ssThresh

\* The acknowledgment that ends fast recovery or CWR, and calls IncreaseWindow at
\* once, gives back at most the part of the window that the response retains: 75
\* percent of the window before, or all of it after three decreases in a row.
Retained ==
    [][flow.cong \in {"RECOVERY", "CWR"} /\ flow'.cong \in {"OPEN", "DISORDER"} =>
          flow'.cWnd <= larger(MinCwnd, IF flow.decreases > 3 THEN before
                                        ELSE (75 * before) \div 100)]_vars

\* "cwnd converges toward the alpha x BDP target" (README.md): once the estimates
\* stay and nothing is lost, the window comes to the target from whatever state
\* the flow was in, and stays within 4 segments above it for any bonuses.
Converges ==
    LET target == larger(MinCwnd, (steady * flow.bdp) \div 100)
    IN  <>[](steady # 0 => /\ flow.cong = "OPEN"
                           /\ target <= flow.cWnd
                           /\ flow.cWnd <= target + 4 * SegmentSize + 1)

\* "Differentiated window-retention factors (loss 0.70, ECN 0.75, timeout 0.50)"
\* (README.md): a timeout retains half of the window in the threshold, unless the
\* window is held or was reset by a timeout already.
TimeoutRetention ==
    [][flow.cong # "LOSS" /\ flow'.cong = "LOSS" /\ flow.decreases < 3 =>
          flow'.ssThresh = larger(flow.cWnd \div 2, MinCwnd)]_vars
=============================================================================

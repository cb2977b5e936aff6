--------------------------- MODULE TcpSwiftProofs ---------------------------
(***************************************************************************)
(* The safety of TcpSwift for every segment size, every estimate of the    *)
(* BDP, every factor alpha and every order of acknowledgments, marks,      *)
(* losses and timeouts.  Three lemmas say what the calls of TcpSwift       *)
(* return for any flow; the invariant follows from them action by action.  *)
(***************************************************************************)
EXTENDS TcpSwift, TLAPS

Flows ==
    [cong : CongStates, cWnd : Nat, ssThresh : Nat, decreases : 0 .. 4, freeze : 0 .. 4,
     slowStart : BOOLEAN, bdp : Bdps \cup {NoBdp}, pending : Nat]

AnyInput ==
    [alpha : Alphas, bdp : Bdps \cup {NoBdp}, rtt : {"low", "normal", "high"},
     bonus : {0, SegmentSize, 2 * SegmentSize}, ce : BOOLEAN]

Types == {"LOSS", "ECN", "TIMEOUT"}

\* What a response leaves of the window w, after which there are n decreases.
Share(w, n) == larger(MinCwnd, IF n > 3 THEN w ELSE (75 * w) \div 100)

\* The upper bound of ApplySafetyBounds, for a measured path.
Capped(f) == f.bdp # NoBdp => f.cWnd <= larger(4 * f.bdp, 200 * SegmentSize)

Typed ==
    /\ flow \in Flows
    /\ before \in Nat /\ steady \in Alphas \cup {0} /\ acks \in {0, 1}

\* In recovery and in CWR the decision waits, and nothing has moved the window,
\* the threshold or the freeze since it was made.
Episode ==
    flow.cong \in {"RECOVERY", "CWR"} =>
        /\ flow.freeze = 4
        /\ flow.pending = flow.cWnd /\ flow.pending = flow.ssThresh
        /\ flow.pending <= Share(before, flow.decreases)

\* The inductive invariant.
SInv == Typed /\ Floor /\ PendingFresh /\ Capped(flow) /\ Episode

-----------------------------------------------------------------------------
(* What the operators return *)

LEMMA MinCwndType == MinCwnd \in Nat /\ MinCwnd > 2 * SegmentSize /\ SegmentSize \in Nat
  BY SizeAssumption DEF MinCwnd

LEMMA GetBdpType == ASSUME NEW f \in Flows PROVE GetBdp(f) \in Nat /\ GetBdp(f) > 0
  <1>1. f.cWnd \in Nat /\ f.bdp \in Bdps \cup {NoBdp}
    BY DEF Flows
  <1>a. f.bdp # NoBdp => f.bdp \in Nat \ {0}
    BY Zenon, <1>1, MeasureAssumption
  <1>2. f.bdp # NoBdp => f.bdp \in Nat /\ f.bdp > 0
    BY <1>a
  <1> QED BY <1>1, <1>2 DEF GetBdp, larger

\* The response to a congestion event keeps at least 4 segments and at most its
\* share of the window, sets the threshold to the window and freezes the
\* acknowledgments.
LEMMA Response ==
  ASSUME NEW f \in Flows, NEW type \in Types
  PROVE  LET d == ComputeCongestionResponse(f, type)
         IN  /\ d \in Flows
             /\ d.cWnd >= MinCwnd /\ d.ssThresh = d.cWnd
             /\ d.cWnd <= larger(MinCwnd, f.cWnd)
             /\ d.cWnd <= Share(f.cWnd, d.decreases)
             /\ d.freeze = 4 /\ d.cong = f.cong /\ d.bdp = f.bdp /\ d.pending = f.pending
  <1> DEFINE b == Beta(type)
             held == f.decreases >= 3
             reference == smaller(f.cWnd, larger(GetBdp(f), MinCwnd))
             c == larger(IF held THEN f.cWnd ELSE (b * f.cWnd) \div 100, MinCwnd)
             s == IF held THEN c ELSE larger((b * reference) \div 100, c)
             n == smaller(f.decreases + 1, 4)
             t == f.slowStart \/ (type = "TIMEOUT" /\ ~ held)
             d == ComputeCongestionResponse(f, type)
  <1>1. b \in {50, 70, 75}
    BY DEF Types, Beta
  <1>2. f.cWnd \in Nat /\ f.decreases \in 0 .. 4
    BY DEF Flows
  <1>3. reference \in Nat /\ reference <= f.cWnd
    BY <1>2, GetBdpType, MinCwndType DEF smaller, larger
  <1>4. /\ c \in Nat /\ c >= MinCwnd /\ c <= larger(MinCwnd, f.cWnd)
        /\ held => c <= larger(MinCwnd, f.cWnd)
        /\ ~ held => c <= larger(MinCwnd, (75 * f.cWnd) \div 100)
    <2> HIDE DEF b
    <2> QED BY <1>1, <1>2, MinCwndType DEF larger
  <1>5. s = c
    <2> HIDE DEF b, reference
    <2>1. ~ held => (b * reference) \div 100 <= (b * f.cWnd) \div 100
      BY <1>1, <1>2, <1>3
    <2> QED BY <1>1, <1>2, <1>3, <2>1, MinCwndType DEF larger
  <1>6. d = [f EXCEPT !.cWnd = c, !.ssThresh = s, !.decreases = n,
                      !.slowStart = t, !.freeze = 4]
    BY Zenon DEF ComputeCongestionResponse, Decided
  <1>t. t \in BOOLEAN
    OBVIOUS
  <1>n. n \in 0 .. 4 /\ 4 \in 0 .. 4
    BY <1>2 DEF smaller
  <1> HIDE DEF c, s, d, b, t, n
  <1>7. d \in Flows
    BY Zenon, <1>t, <1>n, <1>4, <1>5, <1>6 DEF Flows
  <1>8. /\ d.cWnd = c /\ d.ssThresh = c /\ d.freeze = 4 /\ d.cong = f.cong /\ d.bdp = f.bdp
        /\ d.pending = f.pending /\ d.decreases = n
    BY <1>5, <1>6 DEF Flows
  <1>9. d.cWnd <= Share(f.cWnd, d.decreases)
    BY <1>2, <1>4, <1>8 DEF Share, smaller, n
  <1> QED BY <1>4, <1>7, <1>8, <1>9 DEF d

\* ApplySafetyBounds changes the window and the threshold only, and keeps them at
\* 4 segments or more.
LEMMA Bounds ==
  ASSUME NEW f \in Flows, NEW d \in Flows
  PROVE  LET b == ApplySafetyBounds(f, d)
         IN  /\ b \in Flows
             /\ b.cWnd = smaller(larger(d.cWnd, MinCwnd),
                                 larger(4 * GetBdp(f), 200 * SegmentSize))
             /\ b.cWnd >= MinCwnd
             /\ b.ssThresh = larger(d.ssThresh, MinCwnd)
             /\ b.freeze = d.freeze /\ b.cong = d.cong /\ b.bdp = d.bdp
             /\ b.pending = d.pending /\ b.decreases = d.decreases
  <1> DEFINE c == smaller(larger(d.cWnd, MinCwnd), larger(4 * GetBdp(f), 200 * SegmentSize))
             s == larger(d.ssThresh, MinCwnd)
             b == ApplySafetyBounds(f, d)
  <1>1. d.cWnd \in Nat /\ d.ssThresh \in Nat
    BY DEF Flows
  <1>2. c \in Nat /\ c >= MinCwnd /\ s \in Nat
    BY <1>1, GetBdpType, MinCwndType DEF smaller, larger, MinCwnd
  <1>3. b = [d EXCEPT !.cWnd = c, !.ssThresh = s]
    BY DEF ApplySafetyBounds
  <1> HIDE DEF c, s, b
  <1>4. b \in Flows
    BY Zenon, <1>2, <1>3 DEF Flows
  <1>5. /\ b.cWnd = c /\ b.ssThresh = s /\ b.freeze = d.freeze /\ b.cong = d.cong
        /\ b.bdp = d.bdp /\ b.pending = d.pending /\ b.decreases = d.decreases
    BY <1>3 DEF Flows
  <1> QED BY <1>2, <1>4, <1>5 DEF b, c, s

\* What GetSsThresh decides for a window within the bounds: the threshold it
\* returns is the window that waits.
LEMMA Decision ==
  ASSUME NEW f \in Flows, Capped(f), NEW ecn \in BOOLEAN
  PROVE  LET g == GetSsThresh(f, ecn)
         IN  /\ g \in Flows
             /\ g.cWnd = f.cWnd /\ g.cong = f.cong /\ g.bdp = f.bdp /\ g.freeze = 4
             /\ g.pending = g.ssThresh /\ g.ssThresh >= MinCwnd
             /\ g.ssThresh <= larger(MinCwnd, f.cWnd)
             /\ g.ssThresh <= Share(f.cWnd, g.decreases)
  <1> DEFINE type == ClassifyCongestion(f, ecn)
             r == ComputeCongestionResponse(f, type)
             d == ApplySafetyBounds(f, r)
             g == GetSsThresh(f, ecn)
  <1>1. type \in Types
    BY DEF ClassifyCongestion, Types
  <1>2. g = [d EXCEPT !.cWnd = f.cWnd, !.pending = d.cWnd]
    BY DEF GetSsThresh
  <1>0. f.cWnd \in Nat /\ f.bdp \in Bdps \cup {NoBdp}
    BY DEF Flows
  <1>3. f.cWnd <= larger(4 * GetBdp(f), 200 * SegmentSize)
    BY <1>0, GetBdpType, MinCwndType DEF Capped, GetBdp, larger
  <1> HIDE DEF type
  <1>4. /\ r \in Flows
        /\ r.cWnd >= MinCwnd /\ r.ssThresh = r.cWnd
        /\ r.cWnd <= larger(MinCwnd, f.cWnd)
        /\ r.cWnd <= Share(f.cWnd, r.decreases)
        /\ r.freeze = 4 /\ r.cong = f.cong /\ r.bdp = f.bdp
    BY <1>1, Response
  <1> HIDE DEF r
  <1>5. /\ d \in Flows
        /\ d.cWnd = smaller(larger(r.cWnd, MinCwnd), larger(4 * GetBdp(f), 200 * SegmentSize))
        /\ d.ssThresh = larger(r.ssThresh, MinCwnd)
        /\ d.freeze = r.freeze /\ d.cong = r.cong /\ d.bdp = r.bdp /\ d.decreases = r.decreases
    BY <1>4, Bounds
  <1> HIDE DEF d, g
  <1>6. r.cWnd \in Nat /\ d.cWnd \in Nat
    BY <1>4, <1>5 DEF Flows
  <1>7. d.cWnd = r.cWnd /\ d.ssThresh = r.cWnd
    BY <1>0, <1>3, <1>4, <1>5, <1>6, GetBdpType, MinCwndType DEF smaller, larger, MinCwnd
  <1>8. g \in Flows
    BY Zenon, <1>0, <1>2, <1>5, <1>6 DEF Flows
  <1>9. /\ g.cWnd = f.cWnd /\ g.pending = d.cWnd /\ g.ssThresh = d.ssThresh
        /\ g.freeze = d.freeze /\ g.cong = d.cong /\ g.bdp = d.bdp /\ g.decreases = d.decreases
    BY <1>2, <1>5 DEF Flows
  <1> QED BY <1>4, <1>5, <1>7, <1>8, <1>9 DEF g

\* One step of slow start or congestion avoidance keeps the type, whatever is
\* measured; the acknowledgments after a decrease only count the freeze down.
LEMMA Growth ==
  ASSUME NEW f \in Flows, NEW acked \in Nat, NEW in \in AnyInput
  PROVE  LET d == ComputeWindowIncrease(f, acked, in)
         IN  /\ d \in Flows
             /\ d.cong = f.cong /\ d.bdp = f.bdp /\ d.pending = f.pending
             /\ f.freeze > 0 => d.cWnd = f.cWnd
  <1> DEFINE d == ComputeWindowIncrease(f, acked, in)
             f0 == [f EXCEPT !.decreases = 0]
  <1>1. /\ f.cWnd \in Nat /\ f.ssThresh \in Nat /\ f.freeze \in 0 .. 4
        /\ in.alpha \in 85 .. 130 /\ in.bonus \in Nat
    <2>1. f.cWnd \in Nat /\ f.ssThresh \in Nat /\ f.freeze \in 0 .. 4
      BY DEF Flows
    <2>2. in.alpha \in Alphas /\ in.bonus \in {0, SegmentSize, 2 * SegmentSize}
      BY DEF AnyInput
    <2>3. in.alpha \in 85 .. 130
      BY Zenon, <2>2, MeasureAssumption
    <2> QED BY <2>1, <2>2, <2>3, MinCwndType
  <1>2. f0 \in Flows /\ f0.cWnd = f.cWnd /\ f0.cong = f.cong /\ f0.bdp = f.bdp
           /\ f0.pending = f.pending /\ f0.ssThresh = f.ssThresh
    BY DEF Flows
  <1>3. GetBdp(f) \in Nat /\ GetBdp(f0) \in Nat
    BY <1>2, GetBdpType
  <1>4. CASE f.freeze > 0
    <2>1. d = [f EXCEPT !.freeze = f.freeze - 1]
      BY <1>4 DEF ComputeWindowIncrease
    <2>2. f.freeze - 1 \in 0 .. 4
      BY <1>1, <1>4
    <2> QED BY <2>1, <2>2 DEF Flows
  <1>5. CASE f.freeze = 0 /\ f.slowStart /\ f.cWnd < f.ssThresh
    <2> DEFINE target == larger(2 * GetBdp(f0), 10 * SegmentSize)
               fast == in.rtt = "low" /\ 10 * f0.cWnd < 3 * GetBdp(f0)
               increase == acked * SegmentSize * (IF fast THEN 2 ELSE 1)
               grown == smaller(f0.cWnd + increase, target)
               th == larger(f0.ssThresh, f0.cWnd)
    <2>1. d = SlowStart(f0, acked, in)
      BY <1>1, <1>5 DEF ComputeWindowIncrease
    <2>2. increase \in Nat
      BY MinCwndType
    <2> HIDE DEF increase
    <2>3. grown \in Nat /\ th \in Nat
      BY <1>1, <1>2, <1>3, <2>2, MinCwndType DEF larger, smaller
    <2>4. \/ d = [f0 EXCEPT !.slowStart = FALSE, !.ssThresh = th]
          \/ d = [f0 EXCEPT !.slowStart = FALSE, !.cWnd = grown, !.ssThresh = grown]
          \/ d = [f0 EXCEPT !.cWnd = grown]
      BY <2>1 DEF SlowStart, increase
    <2> HIDE DEF grown, th, d, f0
    <2>5. d \in Flows
      BY Zenon, <1>2, <2>3, <2>4 DEF Flows
    <2>6. d.cong = f0.cong /\ d.bdp = f0.bdp /\ d.pending = f0.pending
      BY <1>2, <2>4 DEF Flows
    <2> QED BY <1>1, <1>2, <1>5, <2>5, <2>6 DEF d
  <1>6. CASE ~ (f.freeze > 0) /\ ~ (f.freeze = 0 /\ f.slowStart /\ f.cWnd < f.ssThresh)
    <2> DEFINE w == Approach(f, in) + in.bonus
    <2>1. d = [f0 EXCEPT !.slowStart = FALSE, !.cWnd = w]
      BY <1>6 DEF ComputeWindowIncrease
    <2>2. w \in Nat
      <3> DEFINE target == (in.alpha * GetBdp(f)) \div 100
      <3>1. in.alpha * GetBdp(f) \in Nat
        BY <1>1, <1>3
      <3>2. target \in Nat
        BY <3>1
      <3>3. \/ target > f.cWnd /\ Approach(f, in) =
                  smaller(f.cWnd + larger(SegmentSize, (target - f.cWnd) \div 16),
                          target + SegmentSize)
            \/ target < f.cWnd /\ Approach(f, in) =
                  larger(f.cWnd - larger((f.cWnd - target) \div 2, SegmentSize), target)
            \/ target = f.cWnd /\ Approach(f, in) = f.cWnd + SegmentSize
        <4> HIDE DEF target
        <4>1. target > f.cWnd \/ target < f.cWnd \/ target = f.cWnd
          BY <1>1, <3>2
        <4>2. /\ target > f.cWnd => ~ (target < f.cWnd) /\ ~ (target = f.cWnd)
              /\ target < f.cWnd => ~ (target = f.cWnd)
          BY <1>1, <3>2
        <4> QED BY <4>1, <4>2 DEF Approach, target
      <3> HIDE DEF target
      <3>4. Approach(f, in) \in Nat
        BY <1>1, <3>2, <3>3, MinCwndType DEF larger, smaller
      <3> QED BY <1>1, <3>4
    <2> HIDE DEF w, d, f0
    <2>3. d \in Flows
      BY Zenon, <1>2, <2>1, <2>2 DEF Flows
    <2>4. d.cong = f0.cong /\ d.bdp = f0.bdp /\ d.pending = f0.pending
      BY <1>2, <2>1 DEF Flows
    <2> QED BY <1>2, <1>6, <2>3, <2>4 DEF d
  <1> QED BY <1>4, <1>5, <1>6

\* IncreaseWindow applies a decision that waits, keeps the threshold and leaves a
\* window within the bounds; while the freeze lasts it does not exceed the decision.
LEMMA Increased ==
  ASSUME NEW f \in Flows, NEW acked \in Nat, NEW in \in AnyInput
  PROVE  LET i == IncreaseWindow(f, acked, in)
         IN  /\ i \in Flows /\ Capped(i)
             /\ i.cWnd >= MinCwnd /\ i.ssThresh = f.ssThresh
             /\ i.cong = f.cong /\ i.pending = NoCwnd
             /\ f.freeze > 0 /\ f.pending >= MinCwnd => i.cWnd <= f.pending
  <1> DEFINE c == IF f.pending # NoCwnd THEN larger(f.pending, 2 * SegmentSize) ELSE f.cWnd
             e == IF acked > 0 THEN in.bdp ELSE f.bdp
             g == [f EXCEPT !.cWnd = c, !.pending = NoCwnd, !.bdp = e]
             d == IF in.ce THEN ComputeCongestionResponse(g, "ECN")
                  ELSE ComputeWindowIncrease(g, acked, in)
             b == ApplySafetyBounds(g, d)
             i == IncreaseWindow(f, acked, in)
  <1>1. /\ f.cWnd \in Nat /\ f.pending \in Nat /\ f.ssThresh \in Nat
        /\ f.bdp \in Bdps \cup {NoBdp} /\ in.bdp \in Bdps \cup {NoBdp} /\ f.freeze \in 0 .. 4
    BY DEF Flows, AnyInput
  <1>2. c \in Nat /\ NoCwnd \in Nat
    BY <1>1, MinCwndType DEF larger, NoCwnd
  <1>3. e \in Bdps \cup {NoBdp}
    BY Zenon, <1>1
  <1>4. i = [b EXCEPT !.ssThresh = f.ssThresh]
    BY Zenon DEF IncreaseWindow
  <1> HIDE DEF c, e
  <1>5. g \in Flows
    BY Zenon, <1>2, <1>3 DEF Flows
  <1>6. g.cWnd = c /\ g.bdp = e /\ g.freeze = f.freeze /\ g.cong = f.cong /\ g.pending = NoCwnd
    BY DEF Flows
  <1> HIDE DEF g
  <1>7. /\ d \in Flows /\ d.cong = g.cong /\ d.bdp = g.bdp /\ d.pending = g.pending
        /\ g.freeze > 0 => d.cWnd <= larger(MinCwnd, g.cWnd)
    <2>1. CASE in.ce
      BY <1>5, <2>1, Response DEF Types
    <2>2. CASE ~ in.ce
      <3>1. d = ComputeWindowIncrease(g, acked, in)
        BY <2>2
      <3>2. /\ d \in Flows /\ d.cong = g.cong /\ d.bdp = g.bdp /\ d.pending = g.pending
            /\ g.freeze > 0 => d.cWnd = g.cWnd
        BY <1>5, <3>1, Growth
      <3>3. g.cWnd \in Nat
        BY <1>2, <1>6
      <3> QED BY <3>2, <3>3, MinCwndType DEF larger
    <2> QED BY <2>1, <2>2
  <1> HIDE DEF d
  <1>8. /\ b \in Flows
        /\ b.cWnd = smaller(larger(d.cWnd, MinCwnd), larger(4 * GetBdp(g), 200 * SegmentSize))
        /\ b.cWnd >= MinCwnd /\ b.cong = d.cong /\ b.bdp = d.bdp /\ b.pending = d.pending
    BY <1>5, <1>7, Bounds
  <1> HIDE DEF b, i
  <1>9. i \in Flows
    BY <1>1, <1>4, <1>8 DEF Flows
  <1>10. i.cWnd = b.cWnd /\ i.ssThresh = f.ssThresh /\ i.cong = b.cong /\ i.bdp = b.bdp
            /\ i.pending = b.pending
    BY <1>4, <1>8 DEF Flows
  <1>11. d.cWnd \in Nat /\ b.cWnd \in Nat /\ GetBdp(g) \in Nat
    BY <1>5, <1>7, <1>8, GetBdpType DEF Flows
  <1>12. Capped(i)
    <2> SUFFICES ASSUME i.bdp # NoBdp
                 PROVE  i.cWnd <= larger(4 * i.bdp, 200 * SegmentSize)
      BY DEF Capped
    <2>1. GetBdp(g) = i.bdp
      BY <1>7, <1>8, <1>10 DEF GetBdp
    <2> QED BY <1>8, <1>10, <1>11, <2>1, MinCwndType DEF smaller, larger
  <1>13. ASSUME f.freeze > 0, f.pending >= MinCwnd PROVE i.cWnd <= f.pending
    <2>1. c = f.pending
      BY <1>1, <1>13, MinCwndType DEF c, larger, NoCwnd
    <2>2. d.cWnd <= f.pending
      BY <1>1, <1>6, <1>7, <1>11, <1>13, <2>1, MinCwndType DEF larger
    <2> QED BY <1>1, <1>8, <1>10, <1>11, <1>13, <2>2, MinCwndType DEF smaller, larger
  <1> QED BY <1>6, <1>7, <1>8, <1>9, <1>10, <1>12, <1>13 DEF i

-----------------------------------------------------------------------------
(* The inductive invariant *)

LEMMA TypedIsTypeOK == Typed => TypeOK
  BY DEF Typed, TypeOK, Flows

LEMMA MarkedType == Marked \subseteq BOOLEAN
  BY DEF Marked

LEMMA InputsType == Typed => Inputs \subseteq AnyInput
  <1> SUFFICES ASSUME Typed, NEW in \in Inputs PROVE in \in AnyInput
    OBVIOUS
  <1>1. flow.bdp \in Bdps \cup {NoBdp} /\ steady \in Alphas \cup {0}
    BY DEF Typed, Flows
  <1>2. (IF steady = 0 THEN Alphas ELSE {steady}) \subseteq Alphas
    BY <1>1
  <1>3. (IF steady = 0 THEN Bdps \cup {flow.bdp} ELSE {flow.bdp}) \subseteq Bdps \cup {NoBdp}
    BY <1>1
  <1> QED BY Zenon, <1>2, <1>3, MarkedType DEF Inputs, AnyInput

LEMMA InitInv == Init => SInv
  <1> SUFFICES ASSUME Init PROVE SInv
    OBVIOUS
  <1>1. InitialCwnd * SegmentSize \in Nat /\ InitialCwnd * SegmentSize >= MinCwnd
    <2>1. InitialCwnd \in Nat /\ SegmentSize \in Nat /\ InitialCwnd >= 4
      BY SizeAssumption
    <2>2. (InitialCwnd - 4) * SegmentSize \in Nat
      BY <2>1
    <2> QED BY <2>1, <2>2 DEF MinCwnd
  <1>2. InitialSsThresh \in Nat /\ InitialSsThresh >= MinCwnd
    BY SsThreshAssumption DEF MinCwnd
  <1>3. flow \in Flows
    <2>1. 0 \in 0 .. 4 /\ NoCwnd \in Nat /\ "OPEN" \in CongStates
      BY DEF NoCwnd, CongStates
    <2> QED BY Zenon, <1>1, <1>2, <2>1 DEF Init, Flows
  <1>4. /\ flow.cong = "OPEN" /\ flow.bdp = NoBdp /\ flow.pending = NoCwnd
        /\ flow.cWnd >= MinCwnd /\ flow.ssThresh >= MinCwnd
    BY <1>1, <1>2 DEF Init
  <1>5. Typed
    BY <1>3 DEF Init, Typed, NoCwnd
  <1> QED BY <1>4, <1>5, TypedIsTypeOK DEF SInv, Floor, PendingFresh, Capped, Episode

\* An acknowledgment that calls IncreaseWindow leaves a flow in CA_OPEN or CA_LOSS
\* with nothing waiting.
LEMMA IncreaseStep ==
  ASSUME Typed, NEW f \in Flows, f.ssThresh >= MinCwnd, f.cong \in {"OPEN", "LOSS"},
         NEW acked \in Nat, Increase(f, acked)
  PROVE  /\ SInv' /\ flow'.cong = f.cong
         /\ f.freeze > 0 /\ f.pending >= MinCwnd => flow'.cWnd <= f.pending
  <1>1. PICK in \in Inputs : flow' = IncreaseWindow(f, acked, in)
    BY DEF Increase
  <1>2. in \in AnyInput
    BY InputsType
  <1>3. /\ flow' \in Flows /\ Capped(flow')
        /\ flow'.cWnd >= MinCwnd /\ flow'.ssThresh = f.ssThresh
        /\ flow'.cong = f.cong /\ flow'.pending = NoCwnd
        /\ f.freeze > 0 /\ f.pending >= MinCwnd => flow'.cWnd <= f.pending
    BY <1>1, <1>2, Increased
  <1>4. Typed'
    <2>1. before' = NoCwnd /\ acks' \in {0, 1} /\ steady' = steady
      BY DEF Increase, Typed
    <2> QED BY <1>3, <2>1 DEF Typed, NoCwnd
  <1>5. TypeOK'
    BY <1>4, TypedIsTypeOK, PTL
  <1>6. Floor'
    BY <1>3, <1>5 DEF Floor, MinCwnd
  <1>7. PendingFresh' /\ Episode'
    BY <1>3 DEF PendingFresh, Episode, NoCwnd
  <1> QED BY <1>3, <1>4, <1>6, <1>7 DEF SInv, Capped

\* Entering recovery or CWR makes the decision that waits, the window and the
\* threshold the same.
LEMMA EpisodeStep ==
  ASSUME Typed, NEW f \in Flows, Capped(f), NEW ecn \in BOOLEAN,
         NEW cong \in {"RECOVERY", "CWR"},
         flow' = [Recovered(GetSsThresh(f, ecn)) EXCEPT !.cong = cong],
         before' = f.cWnd, UNCHANGED <<steady, acks>>
  PROVE  SInv'
  <1> DEFINE g == GetSsThresh(f, ecn)
  <1>1. /\ g \in Flows
        /\ g.cWnd = f.cWnd /\ g.bdp = f.bdp /\ g.freeze = 4
        /\ g.pending = g.ssThresh /\ g.ssThresh >= MinCwnd
        /\ g.ssThresh <= larger(MinCwnd, f.cWnd)
        /\ g.ssThresh <= Share(f.cWnd, g.decreases)
    BY Decision
  <1>2. flow' = [[g EXCEPT !.cWnd = g.ssThresh] EXCEPT !.cong = cong]
    BY DEF Recovered
  <1> HIDE DEF g
  <1>3. g.ssThresh \in Nat /\ f.cWnd \in Nat /\ f.bdp \in Bdps \cup {NoBdp}
          /\ cong \in CongStates
    BY <1>1 DEF Flows, CongStates
  <1>4. flow' \in Flows
    BY Zenon, <1>1, <1>2, <1>3 DEF Flows
  <1>5. /\ flow'.cong = cong /\ flow'.cWnd = g.ssThresh /\ flow'.ssThresh = g.ssThresh
        /\ flow'.pending = g.pending /\ flow'.bdp = g.bdp /\ flow'.freeze = g.freeze
        /\ flow'.decreases = g.decreases
    BY <1>1, <1>2 DEF Flows
  <1>6. Typed'
    BY <1>3, <1>4 DEF Typed
  <1>7. TypeOK'
    BY <1>6, TypedIsTypeOK, PTL
  <1>8. Floor'
    BY <1>1, <1>5, <1>7 DEF Floor, MinCwnd
  <1>9. PendingFresh' /\ Episode'
    BY <1>1, <1>5 DEF PendingFresh, Episode
  <1>10. Capped(flow)'
    <2> SUFFICES ASSUME f.bdp # NoBdp
                 PROVE  flow'.cWnd <= larger(4 * f.bdp, 200 * SegmentSize)
      BY <1>1, <1>5 DEF Capped
    <2>1. f.bdp \in Nat
      BY Zenon, <1>3, MeasureAssumption
    <2>2. f.cWnd <= larger(4 * f.bdp, 200 * SegmentSize)
      BY DEF Capped
    <2> QED BY <1>1, <1>3, <1>5, <2>1, <2>2, MinCwndType DEF larger, MinCwnd
  <1> QED BY <1>6, <1>8, <1>9, <1>10 DEF SInv

\* A step that changes neither the window, the threshold nor what waits, towards
\* CA_DISORDER or, with nothing waiting, to any state outside an episode.
LEMMA StateOnly ==
  ASSUME Typed, NEW f \in Flows, Capped(f), f.ssThresh >= MinCwnd, f.cWnd >= MinCwnd,
         f.pending # NoCwnd => f.pending = f.cWnd /\ f.pending = f.ssThresh,
         flow' = CongestionStateSet(f, "DISORDER"), before' = NoCwnd,
         UNCHANGED <<steady, acks>>
  PROVE  SInv' /\ flow'.cWnd = f.cWnd
  <1>1. flow' = [f EXCEPT !.cong = "DISORDER", !.pending = f.pending]
    BY DEF CongestionStateSet
  <1>2. f.pending \in Nat /\ "DISORDER" \in CongStates
    BY DEF Flows, CongStates
  <1>3. flow' \in Flows
    BY Zenon, <1>1, <1>2 DEF Flows
  <1>4. /\ flow'.cong = "DISORDER" /\ flow'.cWnd = f.cWnd /\ flow'.ssThresh = f.ssThresh
        /\ flow'.pending = f.pending /\ flow'.bdp = f.bdp
    BY <1>1 DEF Flows
  <1>5. Typed'
    BY <1>3 DEF Typed, NoCwnd
  <1>6. TypeOK'
    BY <1>5, TypedIsTypeOK, PTL
  <1>7. Floor' /\ PendingFresh' /\ Episode'
    BY <1>4, <1>6 DEF Floor, PendingFresh, Episode, MinCwnd
  <1>8. Capped(flow)'
    BY <1>4 DEF Capped
  <1> QED BY <1>4, <1>5, <1>7, <1>8 DEF SInv

\* CongestionStateSet(f, s), for a state other than CA_LOSS, changes only cong.
LEMMA StateSet ==
  ASSUME NEW f \in Flows, NEW s \in CongStates \ {"LOSS"}
  PROVE  LET g == CongestionStateSet(f, s)
         IN  /\ g \in Flows /\ g.cong = s /\ g.cWnd = f.cWnd /\ g.ssThresh = f.ssThresh
             /\ g.pending = f.pending /\ g.bdp = f.bdp /\ g.freeze = f.freeze
             /\ g.decreases = f.decreases
  <1> DEFINE g == CongestionStateSet(f, s)
  <1>1. g = [f EXCEPT !.cong = s, !.pending = f.pending]
    BY DEF CongestionStateSet
  <1>2. f.pending \in Nat
    BY DEF Flows
  <1> HIDE DEF g
  <1>3. g \in Flows
    BY Zenon, <1>1, <1>2 DEF Flows
  <1>4. /\ g.cong = s /\ g.cWnd = f.cWnd /\ g.ssThresh = f.ssThresh
        /\ g.pending = f.pending /\ g.bdp = f.bdp /\ g.freeze = f.freeze
        /\ g.decreases = f.decreases
    BY <1>1 DEF Flows
  <1> QED BY <1>3, <1>4 DEF g

\* Recovery(f, ecn) and Cwr(f) in the form EpisodeStep uses.
LEMMA EnterRecoveryStep ==
  ASSUME Typed, NEW f \in Flows, Capped(f), NEW ecn \in BOOLEAN,
         flow' = Recovery(f, ecn), before' = f.cWnd, UNCHANGED <<steady, acks>>
  PROVE  SInv'
  <1> DEFINE h == CongestionStateSet(f, "RECOVERY")
             r == Recovered(GetSsThresh(h, ecn))
  <1>1. h \in Flows /\ h.cWnd = f.cWnd /\ h.bdp = f.bdp /\ h.cong = "RECOVERY"
    BY StateSet DEF CongStates
  <1> HIDE DEF h
  <1>2. Capped(h)
    BY <1>1 DEF Capped
  <1>3. GetSsThresh(h, ecn) \in Flows /\ GetSsThresh(h, ecn).cong = "RECOVERY"
    BY <1>1, <1>2, Decision
  <1>4. r = [r EXCEPT !.cong = "RECOVERY"]
    BY <1>3 DEF Recovered, Flows
  <1>5. flow' = [r EXCEPT !.cong = "RECOVERY"]
    BY <1>4 DEF Recovery, h
  <1> QED BY <1>1, <1>2, <1>5, EpisodeStep

LEMMA EnterCwrStep ==
  ASSUME Typed, NEW f \in Flows, Capped(f),
         flow' = Cwr(f), before' = f.cWnd, UNCHANGED <<steady, acks>>
  PROVE  SInv'
  BY EpisodeStep DEF Cwr

\* The acknowledgment that ends fast recovery or CWR.
LEMMA LeaveStep ==
  ASSUME SInv, flow.cong \in {"RECOVERY", "CWR"}, NEW acked \in Nat, NEW f,
         f = Recovered(CongestionStateSet(flow, "OPEN")), Increase(f, acked)
  PROVE  SInv' /\ flow'.cWnd <= Share(before, flow.decreases)
  <1> DEFINE g == CongestionStateSet(flow, "OPEN")
  <1>1. /\ g \in Flows /\ g.cong = "OPEN" /\ g.ssThresh = flow.ssThresh
        /\ g.pending = flow.pending /\ g.freeze = flow.freeze
    BY StateSet DEF SInv, Typed, CongStates
  <1>2. f = [g EXCEPT !.cWnd = g.ssThresh]
    BY DEF Recovered
  <1> HIDE DEF g
  <1>3. /\ f \in Flows /\ f.cong = "OPEN" /\ f.ssThresh = flow.ssThresh
        /\ f.pending = flow.pending /\ f.freeze = flow.freeze
    BY <1>1, <1>2 DEF Flows
  <1>4. flow.ssThresh >= MinCwnd /\ flow.freeze = 4 /\ flow.pending = flow.ssThresh
           /\ flow.pending <= Share(before, flow.decreases)
    BY DEF SInv, Floor, Episode
  <1>5. SInv' /\ flow'.cWnd <= flow.pending
    BY <1>3, <1>4, IncreaseStep DEF SInv
  <1>6. /\ flow'.cWnd \in Nat /\ flow.pending \in Nat /\ Share(before, flow.decreases) \in Nat
    BY <1>5, MinCwndType DEF SInv, Typed, Flows, Share, larger
  <1> QED BY <1>4, <1>5, <1>6

LEMMA LeftCwrForm ==
  ASSUME SInv, flow.cong = "CWR"
  PROVE  /\ LeftCwr = Recovered(CongestionStateSet(flow, "OPEN"))
         /\ LeftCwr \in Flows /\ Capped(LeftCwr) /\ LeftCwr.cWnd = flow.cWnd
         /\ LeftCwr.ssThresh = flow.ssThresh /\ LeftCwr.pending = flow.pending
  <1> DEFINE g == [flow EXCEPT !.cong = "OPEN"]
  <1>0. flow \in Flows /\ flow.cWnd = flow.ssThresh /\ "OPEN" \in CongStates
    BY DEF SInv, Typed, Episode, CongStates
  <1>1. g = CongestionStateSet(flow, "OPEN")
    BY <1>0 DEF CongestionStateSet, Flows
  <1>2. g \in Flows /\ g.ssThresh = flow.ssThresh /\ g.pending = flow.pending /\ g.bdp = flow.bdp
    BY <1>0 DEF Flows
  <1>3. LeftCwr = [g EXCEPT !.cWnd = g.ssThresh]
    BY DEF LeftCwr, Recovered
  <1> HIDE DEF g
  <1>4. /\ LeftCwr \in Flows /\ LeftCwr.cWnd = flow.cWnd /\ LeftCwr.bdp = flow.bdp
        /\ LeftCwr.ssThresh = flow.ssThresh /\ LeftCwr.pending = flow.pending
    BY <1>0, <1>2, <1>3 DEF Flows
  <1> QED BY <1>1, <1>3, <1>4 DEF SInv, Capped, Recovered

\* A timeout drops the decision with the window.
LEMMA TimeoutStep ==
  ASSUME SInv, ReTxTimeout
  PROVE  SInv' /\ flow'.cong = "LOSS"
  <1>1. PICK ecn \in BOOLEAN :
           flow' = [CongestionStateSet(GetSsThresh(flow, ecn), "LOSS")
                       EXCEPT !.cWnd = SegmentSize]
    BY MarkedType DEF ReTxTimeout, Reduced
  <1> DEFINE g == GetSsThresh(flow, ecn)
  <1>2. g \in Flows /\ g.ssThresh >= MinCwnd /\ g.bdp = flow.bdp
    BY Decision DEF SInv, Typed
  <1>3. flow' = [[g EXCEPT !.cong = "LOSS", !.pending = NoCwnd] EXCEPT !.cWnd = SegmentSize]
    BY <1>1 DEF CongestionStateSet
  <1> HIDE DEF g
  <1>4. "LOSS" \in CongStates /\ NoCwnd \in Nat /\ SegmentSize \in Nat
    BY MinCwndType DEF CongStates, NoCwnd
  <1>5. flow' \in Flows
    BY Zenon, <1>2, <1>3, <1>4 DEF Flows
  <1>6. /\ flow'.cong = "LOSS" /\ flow'.cWnd = SegmentSize /\ flow'.pending = NoCwnd
        /\ flow'.ssThresh = g.ssThresh /\ flow'.bdp = g.bdp
    BY <1>2, <1>3 DEF Flows
  <1>7. Typed'
    BY <1>5 DEF SInv, Typed, ReTxTimeout, Reduced, NoCwnd
  <1>8. TypeOK'
    BY <1>7, TypedIsTypeOK, PTL
  <1>9. Floor' /\ PendingFresh' /\ Episode'
    BY <1>2, <1>6, <1>8 DEF Floor, PendingFresh, Episode, MinCwnd
  <1>10. Capped(flow)'
    <2> SUFFICES ASSUME flow'.bdp # NoBdp
                 PROVE  flow'.cWnd <= larger(4 * flow'.bdp, 200 * SegmentSize)
      BY DEF Capped
    <2>1. flow'.bdp \in Nat
      BY Zenon, <1>5, MeasureAssumption DEF Flows
    <2> QED BY <1>6, <2>1, MinCwndType DEF larger
  <1> QED BY <1>6, <1>7, <1>9, <1>10 DEF SInv

\* The acknowledgments: every one that leaves fast recovery or CWR gives back no
\* more than the share the response retains.
LEMMA AckStep ==
  ASSUME SInv, NEW acked \in 0 .. MaxAcked,
         AckInOpen(acked) \/ Reordered(acked) \/ ExitRecovery(acked) \/ LeaveCwr(acked)
            \/ AckInLoss(acked) \/ LeaveLoss(acked)
  PROVE  SInv' /\ (flow.cong \in {"RECOVERY", "CWR"} =>
                     flow'.cWnd <= Share(before, flow.decreases))
  <1>0. acked \in Nat /\ Typed /\ flow \in Flows /\ flow.ssThresh >= MinCwnd
    BY BoundAssumption DEF SInv, Typed, Floor
  <1>1. CASE AckInOpen(acked)
    BY <1>0, <1>1, IncreaseStep DEF AckInOpen
  <1>2. CASE Reordered(acked)
    <2>1. /\ CongestionStateSet(flow, "OPEN") \in Flows
          /\ CongestionStateSet(flow, "OPEN").cong = "OPEN"
          /\ CongestionStateSet(flow, "OPEN").ssThresh >= MinCwnd
      BY <1>0, StateSet DEF CongStates
    <2> QED BY <1>0, <1>2, <2>1, IncreaseStep DEF Reordered
  <1>3. CASE ExitRecovery(acked)
    BY <1>0, <1>3, LeaveStep DEF ExitRecovery
  <1>4. CASE LeaveCwr(acked)
    BY <1>0, <1>4, LeaveStep, LeftCwrForm DEF LeaveCwr
  <1>5. CASE AckInLoss(acked)
    BY <1>0, <1>5, IncreaseStep DEF AckInLoss
  <1>6. CASE LeaveLoss(acked)
    <2>1. /\ CongestionStateSet(flow, "OPEN") \in Flows
          /\ CongestionStateSet(flow, "OPEN").cong = "OPEN"
          /\ CongestionStateSet(flow, "OPEN").ssThresh >= MinCwnd
      BY <1>0, StateSet DEF CongStates
    <2> QED BY <1>0, <1>6, <2>1, IncreaseStep DEF LeaveLoss
  <1> QED BY <1>1, <1>2, <1>3, <1>4, <1>5, <1>6

\* Leaving CWR into disorder, into recovery or into CWR again.
LEMMA LeaveAgainStep ==
  ASSUME SInv, LeaveCwrAgain
  PROVE  /\ SInv'
         /\ flow'.cong \in {"OPEN", "DISORDER"} => flow'.cWnd <= Share(before, flow.decreases)
  <1>1. /\ flow.cong = "CWR" /\ UNCHANGED <<steady, acks>>
        /\ Typed /\ flow.cWnd = flow.ssThresh /\ flow.pending = flow.cWnd
        /\ flow.ssThresh >= MinCwnd /\ flow.pending <= Share(before, flow.decreases)
    BY DEF SInv, LeaveCwrAgain, Reduced, Episode, Floor
  <1>2. /\ LeftCwr \in Flows /\ Capped(LeftCwr) /\ LeftCwr.cWnd = flow.cWnd
        /\ LeftCwr.ssThresh = flow.ssThresh /\ LeftCwr.pending = flow.pending
    BY <1>1, LeftCwrForm
  <1>3. CASE flow' = CongestionStateSet(LeftCwr, "DISORDER") /\ before' = NoCwnd
    <2>1. SInv' /\ flow'.cWnd = LeftCwr.cWnd
      BY <1>1, <1>2, <1>3, StateOnly
    <2> QED BY <1>1, <1>2, <2>1
  <1>4. CASE (\E ecn \in Marked : flow' = Recovery(LeftCwr, ecn)) /\ before' = LeftCwr.cWnd
    <2>1. PICK ecn \in BOOLEAN : flow' = Recovery(LeftCwr, ecn)
      BY <1>4, MarkedType
    <2>2. SInv'
      BY <1>1, <1>2, <1>4, <2>1, EnterRecoveryStep
    <2>3. flow'.cong = "RECOVERY"
      <3> DEFINE h == CongestionStateSet(LeftCwr, "RECOVERY")
      <3>1. h \in Flows /\ h.cong = "RECOVERY" /\ h.cWnd = LeftCwr.cWnd /\ h.bdp = LeftCwr.bdp
        BY <1>2, StateSet DEF CongStates
      <3> HIDE DEF h
      <3>2. Capped(h)
        BY <1>2, <3>1 DEF Capped
      <3>3. GetSsThresh(h, ecn) \in Flows /\ GetSsThresh(h, ecn).cong = "RECOVERY"
        BY <3>1, <3>2, Decision
      <3> QED BY <2>1, <3>3 DEF Recovery, Recovered, Flows, h
    <2> QED BY <2>2, <2>3
  <1>5. CASE flow' = Cwr(LeftCwr) /\ before' = LeftCwr.cWnd
    <2>1. SInv'
      BY <1>1, <1>2, <1>5, EnterCwrStep
    <2>2. flow'.cong = "CWR"
      <3>1. GetSsThresh(LeftCwr, TRUE) \in Flows
        BY <1>2, Decision
      <3> QED BY <1>5, <3>1 DEF Cwr, Recovered, Flows
    <2> QED BY <2>1, <2>2
  <1> QED BY <1>3, <1>4, <1>5 DEF LeaveCwrAgain, Reduced

LEMMA NextInv ==
  ASSUME SInv, [Next]_vars
  PROVE  /\ SInv'
         /\ flow.cong \in {"RECOVERY", "CWR"} /\ flow'.cong \in {"OPEN", "DISORDER"} =>
               flow' = flow \/ flow'.cWnd <= Share(before, flow.decreases)
  <1>0. Typed /\ flow \in Flows /\ Capped(flow) /\ flow.ssThresh >= MinCwnd
    BY DEF SInv, Typed, Floor
  <1>1. ASSUME NEW acked \in 0 .. MaxAcked,
               AckInOpen(acked) \/ Reordered(acked) \/ ExitRecovery(acked) \/ LeaveCwr(acked)
                  \/ AckInLoss(acked) \/ LeaveLoss(acked)
        PROVE  SInv' /\ (flow.cong \in {"RECOVERY", "CWR"} =>
                           flow'.cWnd <= Share(before, flow.decreases))
    BY <1>1, AckStep
  <1>2. CASE DupAck
    <2>1. flow.cong = "OPEN" /\ flow.pending = NoCwnd /\ flow.cWnd >= MinCwnd
      BY <1>2 DEF DupAck, SInv, PendingFresh, Floor
    <2> QED BY <1>0, <1>2, <2>1, StateOnly DEF DupAck, Reduced
  <1>3. CASE EnterRecovery
    <2>1. PICK ecn \in BOOLEAN : Reduced(Recovery(flow, ecn))
      BY <1>3, MarkedType DEF EnterRecovery
    <2>2. flow.cong \in {"OPEN", "DISORDER"} /\ before' = flow.cWnd
      BY <1>3 DEF EnterRecovery
    <2> QED BY <1>0, <2>1, <2>2, EnterRecoveryStep DEF Reduced
  <1>4. CASE EnterCwr
    <2>1. SInv'
      BY <1>0, <1>4, EnterCwrStep DEF EnterCwr, Reduced
    <2>2. GetSsThresh(flow, TRUE) \in Flows
      BY <1>0, Decision
    <2>3. flow'.cong = "CWR"
      BY <1>4, <2>2 DEF EnterCwr, Reduced, Cwr, Recovered, Flows
    <2> QED BY <2>1, <2>3
  <1>5. CASE LeaveCwrAgain
    BY <1>5, LeaveAgainStep
  <1>6. CASE ReTxTimeout
    BY <1>6, TimeoutStep
  <1>7. CASE Settle
    <2>1. Typed' /\ flow' = flow /\ before' = before
      BY <1>0, <1>7 DEF Settle, Typed
    <2>2. TypeOK'
      BY <2>1, TypedIsTypeOK, PTL
    <2>3. Floor' /\ PendingFresh' /\ Capped(flow)' /\ Episode'
      BY <2>1, <2>2 DEF SInv, Floor, PendingFresh, Capped, Episode
    <2> QED BY <2>1, <2>3 DEF SInv
  <1>8. CASE UNCHANGED vars
    <2>1. Typed' /\ TypeOK' /\ flow' = flow /\ before' = before
      BY <1>0, <1>8, TypedIsTypeOK DEF vars, Typed, TypeOK
    <2>2. Floor' /\ PendingFresh' /\ Capped(flow)' /\ Episode'
      BY <2>1 DEF SInv, Floor, PendingFresh, Capped, Episode
    <2> QED BY <2>1, <2>2 DEF SInv
  <1> QED BY <1>1, <1>2, <1>3, <1>4, <1>5, <1>6, <1>7, <1>8 DEF Next

-----------------------------------------------------------------------------
(* The theorems *)

\* SInv is an invariant of every flow: besides the three properties it says that a
\* window never exceeds the cap of a measured path, and that nothing moves the
\* window during fast recovery or CWR.
THEOREM Invariance == Spec => []SInv
  <1>1. SInv /\ [Next]_vars => SInv'
    BY NextInv
  <1> QED BY InitInv, <1>1, PTL DEF Spec

\* Outside CA_LOSS the window and the threshold stay at 4 segments or more, and a
\* timeout leaves one segment until the first acknowledgment only.
THEOREM FloorHolds == Spec => []Floor
  <1>1. SInv => Floor
    BY DEF SInv
  <1> QED BY Invariance, <1>1, PTL

\* The decision that IncreaseWindow will apply is never older than the window and
\* the threshold of the episode it was made for.
THEOREM NeverStale == Spec => []PendingFresh
  <1>1. SInv => PendingFresh
    BY DEF SInv
  <1> QED BY Invariance, <1>1, PTL

\* The acknowledgment that ends fast recovery or CWR gives back at most the part of
\* the window that the response retains.
THEOREM ShareRetained == Spec => Retained
  <1>1. SInv /\ [Next]_vars =>
           [flow.cong \in {"RECOVERY", "CWR"} /\ flow'.cong \in {"OPEN", "DISORDER"} =>
              flow'.cWnd <= larger(MinCwnd, IF flow.decreases > 3 THEN before
                                            ELSE (75 * before) \div 100)]_vars
    <2> SUFFICES ASSUME SInv, [Next]_vars,
                        flow.cong \in {"RECOVERY", "CWR"},
                        flow'.cong \in {"OPEN", "DISORDER"}
                 PROVE  flow'.cWnd <= Share(before, flow.decreases)
      BY DEF Share
    <2>1. flow' # flow
      OBVIOUS
    <2> QED BY <2>1, NextInv
  <1> QED BY Invariance, <1>1, PTL DEF Spec, Retained

=============================================================================

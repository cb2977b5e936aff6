--------------------------- MODULE TcpSenderProofs ---------------------------
(***************************************************************************)
(* The transfer of data over a TCP connection with SACK, for any number of *)
(* segments, any windows, thresholds and retries.  Every handler of the    *)
(* sender is a function on senders and gets a lemma that says what it      *)
(* makes of one; the receiver gets the same for its list of blocks.        *)
(***************************************************************************)
EXTENDS TcpSender, FiniteSetTheorems, WellFoundedInduction, TLAPS

\* The assertions that can fail.
Names == {"OpenToDisorder", "DISORDER"}

Senders ==
    [head : Nat, high : Nat, sacked : SUBSET Nat, lost : SUBSET Nat, retrans : SUBSET Nat,
     highestSack : Nat, cong : CongStates, dupAckCount : Nat, recover : Nat,
     recoverActive : BOOLEAN, retx : BOOLEAN, dataRetrCount : 0 .. DataRetries,
     ece : BOOLEAN, echoSeq : Nat, cwrSeq : Nat, alive : BOOLEAN,
     failed : SUBSET Names, out : SUBSET Nat]

Receivers ==
    [nextRx : Nat, held : SUBSET Nat, sackList : Seq(SUBSET Nat), delAck : BOOLEAN]

Acks == [ack : Nat, sack : Seq(SUBSET Nat), ece : BOOLEAN]

Sent(s) == s.head .. s.high - 1

\* The scoreboard: its flags are set for segments of the sent list, whose head is
\* never SACKed.
Board(s) ==
    /\ 1 <= s.head /\ s.head <= s.high /\ s.high <= N + 1
    /\ s.sacked \subseteq Sent(s) /\ s.lost \subseteq Sent(s) /\ s.retrans \subseteq Sent(s)
    /\ s.sacked \cap s.lost = {} /\ s.head \notin s.sacked
    /\ s.highestSack = NoSeg \/ s.highestSack \in Sent(s)
    /\ s.recover <= s.high
    /\ s.out \subseteq 1 .. s.high - 1

\* When they may have failed.
Excused(s) ==
    /\ "DISORDER" \in s.failed => "OpenToDisorder" \in s.failed
    /\ s.failed # {} => UseEcn

\* The congestion states between events.  In CWR too SND.UNA is not beyond the
\* recovery point, so that the acknowledgment which leaves CWR advances.
Congestion(s) ==
    /\ s.cong \in {"RECOVERY", "LOSS", "CWR"} => s.head <= s.recover
    /\ s.cong \in {"RECOVERY", "LOSS"} => s.recoverActive
    /\ s.cong \in {"OPEN", "DISORDER"} => ~ s.recoverActive
    /\ s.cong \in {"OPEN", "LOSS"} => s.dupAckCount = 0
    /\ s.cong = "DISORDER" => s.dupAckCount < RetxThresh \/ "OpenToDisorder" \in s.failed
    /\ s.cong = "CWR" => UseEcn

Timed(s) == s.alive /\ s.head < s.high => s.retx

Blocks(list) == UNION Range(list)

\* What the receiver has got.
Received == rcv.held \cup (1 .. rcv.nextRx - 1)

Convex(b) == \A x, y \in b : x .. y \subseteq b

Reassembly ==
    /\ rcv \in Receivers
    /\ rcv.nextRx \in 1 .. snd.high /\ rcv.held \subseteq rcv.nextRx + 1 .. snd.high - 1
    /\ \A b \in Range(rcv.sackList) : b \subseteq rcv.held /\ Convex(b)

\* An acknowledgment names the first segment that was missing and blocks above it.
\* A segment that was the first missing one is never in a block.
Network ==
    /\ data \subseteq 1 .. snd.high - 1
    /\ acks \subseteq Acks
    /\ \A m \in acks : /\ m.ack \in 1 .. rcv.nextRx
                       /\ \A i \in Blocks(m.sack) : m.ack < i /\ i \in Received
                       /\ m.ack \notin snd.sacked
                       /\ \A n \in acks : m.ack \notin Blocks(n.sack)

\* The inductive invariant.
TInv == /\ snd \in Senders /\ snd.out = {}
        /\ Board(snd) /\ Excused(snd) /\ Congestion(snd) /\ Timed(snd)
        /\ Reassembly /\ Network /\ Truthful

-----------------------------------------------------------------------------
(* Numbers, sets and lists *)

LEMMA NType == /\ N \in Nat /\ N >= 1 /\ RetxThresh \in Nat /\ RetxThresh >= 1
               /\ DataRetries \in Nat /\ Window \in Nat
  BY NAssumption, RetriesAssumption

LEMMA NatMin ==
  ASSUME NEW T, T \subseteq Nat, T # {}
  PROVE  \E x \in T : \A y \in T : x <= y
  <1> DEFINE R == OpToRel(<, Nat)
  <1>1. PICK x \in T : \A y \in T : ~ (<<y, x>> \in R)
    <2>1. IsWellFoundedOn(R, Nat)
      BY NatLessThanWellFounded
    <2> HIDE DEF R
    <2> QED BY <2>1, WFMin
  <1>2. \A m, n \in Nat : <<n, m>> \in R <=> n < m
    BY DEF OpToRel
  <1> HIDE DEF R
  <1>3. ASSUME NEW y \in T PROVE x <= y
    <2>1. x \in Nat /\ y \in Nat
      OBVIOUS
    <2>2. ~ (y < x)
      BY <1>1, <1>2, <2>1
    <2> QED BY <2>1, <2>2
  <1> QED BY <1>3

LEMMA MinOf ==
  ASSUME NEW T, T \subseteq Nat, T # {}
  PROVE  Min(T) \in T /\ \A y \in T : Min(T) <= y
  BY NatMin DEF Min

LEMMA MaxOf ==
  ASSUME NEW n \in Nat, NEW T, T \subseteq 0 .. n, T # {}
  PROVE  Max(T) \in T /\ \A y \in T : y <= Max(T)
  <1> DEFINE D == {n - x : x \in T}
  <1>0. \A x \in T : n - x \in Nat
    OBVIOUS
  <1>1. D \subseteq Nat /\ D # {}
    BY Zenon, <1>0
  <1>2. PICK d \in D : \A y \in D : d <= y
    BY <1>1, NatMin
  <1>3. PICK x \in T : d = n - x
    OBVIOUS
  <1>4. \A y \in T : x >= y
    <2> TAKE y \in T
    <2>1. n - y \in D
      OBVIOUS
    <2>2. n - x <= n - y
      BY <1>2, <1>3, <2>1
    <2>3. x \in Nat /\ y \in Nat
      OBVIOUS
    <2> QED BY <2>2, <2>3
  <1>5. Max(T) \in T /\ \A y \in T : Max(T) >= y
    BY <1>4 DEF Max
  <1>6. \A y \in T : y \in Int
    OBVIOUS
  <1> QED BY <1>5, <1>6

\* Select keeps a list of sets, and leaves nothing but what is in the given set.
LEMMA SelectLemma ==
  ASSUME NEW list \in Seq(SUBSET Nat), NEW set
  PROVE  /\ Select(list, set) \in Seq(SUBSET Nat)
         /\ \A b \in Range(Select(list, set)) : b \in Range(list) /\ b \in set
  <1> DEFINE one(k) == IF k <= Len(list) /\ list[k] \in set THEN <<list[k]>> ELSE <<>>
             S == {b \in Range(list) : b \in set}
  <1>1. ASSUME NEW k \in 1 .. 4 PROVE one(k) \in Seq(S) /\ one(k) \in Seq(SUBSET Nat)
    <2>1. CASE k <= Len(list) /\ list[k] \in set
      <3>1. k \in DOMAIN list
        BY <2>1
      <3>2. list[k] \in S /\ list[k] \in SUBSET Nat
        BY <2>1, <3>1 DEF Range
      <3> QED BY <2>1, <3>2
    <2>2. CASE ~ (k <= Len(list) /\ list[k] \in set)
      BY <2>2
    <2> QED BY <2>1, <2>2
  <1>2. one(1) \in Seq(S) /\ one(2) \in Seq(S) /\ one(3) \in Seq(S) /\ one(4) \in Seq(S)
    BY <1>1
  <1>4. /\ one(1) \in Seq(SUBSET Nat) /\ one(2) \in Seq(SUBSET Nat)
        /\ one(3) \in Seq(SUBSET Nat) /\ one(4) \in Seq(SUBSET Nat)
    BY <1>1
  <1>3. Select(list, set) = one(1) \o one(2) \o one(3) \o one(4)
    BY DEF Select
  <1> DEFINE r == Select(list, set)
  <1> HIDE DEF one, S, r
  <1>5. r \in Seq(S)
    BY <1>2, <1>3 DEF r
  <1>6. \A b \in Range(r) : b \in S
    BY <1>5 DEF Range
  <1>7. r \in Seq(SUBSET Nat)
    BY <1>3, <1>4 DEF r
  <1> QED BY <1>6, <1>7 DEF r, S

-----------------------------------------------------------------------------
(* Frames of the handlers *)

SameSent(r, s) == r.head = s.head /\ r.high = s.high /\ r.sacked = s.sacked

SameCong(r, s) ==
    /\ r.cong = s.cong /\ r.dupAckCount = s.dupAckCount /\ r.recover = s.recover
    /\ r.recoverActive = s.recoverActive /\ r.failed = s.failed

\* Segments have been sent, and nothing else happened to the sender.
Sending(r, s) ==
    /\ r.head = s.head /\ r.high >= s.high /\ r.sacked = s.sacked
    /\ SameCong(r, s) /\ r.alive = s.alive
    /\ s.retx \/ r.high > s.high => r.retx

\* A sender that has sent.
LEMMA SentType ==
  ASSUME NEW s \in Senders, NEW o \in SUBSET Nat, NEW x \in BOOLEAN, NEW t \in SUBSET Nat,
         NEW h \in Nat, NEW e \in BOOLEAN, NEW q \in Nat
  PROVE  /\ [s EXCEPT !.out = o, !.retx = x, !.retrans = t, !.high = h, !.ece = e, !.cwrSeq = q]
               \in Senders
         /\ [s EXCEPT !.high = h, !.ece = e, !.cwrSeq = q] \in Senders
  BY Zenon DEF Senders

\* The shape of a sender, by which the provers tell its fields apart.
LEMMA SenderFields ==
  ASSUME NEW s \in Senders
  PROVE  /\ s.head \in Nat /\ s.high \in Nat /\ s.sacked \in SUBSET Nat
         /\ s.lost \in SUBSET Nat /\ s.retrans \in SUBSET Nat /\ s.highestSack \in Nat
         /\ s.cong \in CongStates /\ s.dupAckCount \in Nat /\ s.recover \in Nat
         /\ s.recoverActive \in BOOLEAN /\ s.retx \in BOOLEAN
         /\ s.dataRetrCount \in 0 .. DataRetries /\ s.ece \in BOOLEAN /\ s.echoSeq \in Nat
         /\ s.cwrSeq \in Nat /\ s.alive \in BOOLEAN /\ s.failed \in SUBSET Names
         /\ s.out \in SUBSET Nat
  BY DEF Senders

-----------------------------------------------------------------------------
(* Sending *)

LEMMA NextSegLemma ==
  ASSUME NEW s \in Senders, Board(s)
  PROVE  LET i == NextSeg(s)
         IN  i = NoSeg \/ (i \in s.head .. s.high /\ i <= N /\ i \notin s.sacked)
  <1> DEFINE lost == (s.lost \ s.retrans) \ s.sacked
             i == NextSeg(s)
  <1> USE NType, SenderFields
  <1>1. CASE lost # {}
    <2>1. lost \subseteq Nat
      OBVIOUS
    <2>2. Min(lost) \in lost
      <3> HIDE DEF lost
      <3> QED BY <1>1, <2>1, MinOf
    <2>3. i = Min(lost)
      BY <1>1 DEF NextSeg
    <2>4. i \in lost
      BY <2>2, <2>3
    <2> HIDE DEF i
    <2>5. i \in Sent(s) /\ i \notin s.sacked
      BY <2>4 DEF Board
    <2> QED BY <2>5 DEF Board, Sent, i
  <1>2. CASE lost = {}
    <2>1. i = IF s.high <= N THEN s.high ELSE NoSeg
      BY <1>2 DEF NextSeg
    <2> HIDE DEF i
    <2> QED BY <2>1 DEF Board, Sent, i
  <1> QED BY <1>1, <1>2

LEMMA SendDataLemma ==
  ASSUME NEW s \in Senders, Board(s), NEW i \in s.head .. s.high, i <= N, i \notin s.sacked
  PROVE  LET r == SendDataPacket(s, i)
         IN  /\ r \in Senders /\ Board(r) /\ Sending(r, s) /\ r.retx
  <1> USE NType, SenderFields
  <1> DEFINE o == s.out \cup {i}
             t == [s EXCEPT !.retx = TRUE, !.out = o]
             r == SendDataPacket(s, i)
  <1>1. o \in SUBSET Nat
    OBVIOUS
  <1> HIDE DEF o
  <1>2. t \in Senders
    BY Zenon, <1>1 DEF Senders
  <1>3. /\ SameSent(t, s) /\ SameCong(t, s) /\ t.lost = s.lost /\ t.retrans = s.retrans
        /\ t.highestSack = s.highestSack /\ t.retx /\ t.out = o /\ t.alive = s.alive
        /\ t.ece = s.ece /\ t.cwrSeq = s.cwrSeq
    BY DEF SameSent, SameCong, Senders
  <1>4. Check(t, i \notin s.sacked, "CopyFromSequence") = t
    BY DEF Check
  <1>7. r = IF i < s.high THEN [t EXCEPT !.retrans = @ \cup {i}]
            ELSE [t EXCEPT !.high = i + 1,
                           !.ece = @ /\ ~ (s.echoSeq > s.cwrSeq),
                           !.cwrSeq = IF s.ece /\ s.echoSeq > @ THEN i ELSE @]
    BY Zenon, <1>4 DEF SendDataPacket, o
  <1> HIDE DEF t
  <1>5. CASE i < s.high
    <2> DEFINE x == t.retrans \cup {i}
    <2>1. r = [t EXCEPT !.retrans = x]
      BY <1>5, <1>7
    <2>2. x \in SUBSET Nat
      BY <1>3
    <2> HIDE DEF x, r
    <2>3. r \in Senders
      BY <1>2, <2>1, <2>2 DEF Senders
    <2>4. /\ SameSent(r, s) /\ SameCong(r, s) /\ r.lost = s.lost /\ r.retrans = x
          /\ r.highestSack = s.highestSack /\ r.retx /\ r.out = o /\ r.alive = s.alive
      BY <1>2, <1>3, <2>1 DEF SameSent, SameCong, Senders
    <2>5. Board(r)
      BY <1>3, <1>5, <2>4 DEF Board, Sent, x, o, SameSent, SameCong
    <2> QED BY <2>3, <2>4, <2>5 DEF r, SameSent, Sending
  <1>6. CASE i >= s.high
    <2>0. i = s.high
      BY <1>6
    <2> DEFINE h == i + 1
               e == t.ece /\ ~ (s.echoSeq > s.cwrSeq)
               c == IF s.ece /\ s.echoSeq > t.cwrSeq THEN i ELSE t.cwrSeq
    <2>1. r = [t EXCEPT !.high = h, !.ece = e, !.cwrSeq = c]
      <3>1. ~ (i < s.high)
        BY <1>6
      <3> QED BY Zenon, <1>7, <3>1
    <2>2. h \in Nat /\ e \in BOOLEAN /\ c \in Nat
      BY <1>3
    <2> HIDE DEF h, e, c, r
    <2>3. r \in Senders
      BY Zenon, <1>2, <2>1, <2>2, SentType
    <2>4. /\ r.head = s.head /\ r.high = h /\ r.sacked = s.sacked /\ SameCong(r, s)
          /\ r.lost = s.lost /\ r.retrans = s.retrans
          /\ r.highestSack = s.highestSack /\ r.retx /\ r.out = o /\ r.alive = s.alive
      BY <1>2, <1>3, <2>1 DEF SameSent, SameCong, Senders
    <2>5. Board(r)
      BY <2>0, <2>4 DEF Board, Sent, h, o, SameCong
    <2> QED BY <2>0, <2>3, <2>4, <2>5 DEF r, h, Sending
  <1> QED BY <1>5, <1>6

LEMMA RetransmitLemma ==
  ASSUME NEW s \in Senders, Board(s), s.head < s.high
  PROVE  LET r == DoRetransmit(s)
         IN  /\ r \in Senders /\ Board(r) /\ Sending(r, s) /\ r.retx
  <1> USE NType, SenderFields
  <1> DEFINE i == NextSeg(s)
             k == IF i = NoSeg THEN s.head ELSE i
  <1>1. i = NoSeg \/ (i \in s.head .. s.high /\ i <= N /\ i \notin s.sacked)
    BY NextSegLemma
  <1> HIDE DEF i
  <1>2. k \in s.head .. s.high /\ k <= N /\ k \notin s.sacked
    BY <1>1 DEF Board
  <1>3. DoRetransmit(s) = SendDataPacket(s, k)
    BY DEF DoRetransmit, i
  <1> HIDE DEF k
  <1> QED BY <1>2, <1>3, SendDataLemma

-----------------------------------------------------------------------------
(* Congestion states *)

\* What holds of the congestion states within an event that came with SND.UNA at
\* old: a state is left, or its recovery point given up, later in the event.
Midway(s, old) ==
    /\ old <= s.head
    /\ s.cong \in {"RECOVERY", "LOSS"} => s.recoverActive /\ old <= s.recover
    /\ s.cong = "CWR" => s.head <= s.recover /\ UseEcn
    /\ s.cong \in {"OPEN", "DISORDER"} /\ s.recoverActive => s.recover < s.head /\ old < s.head
    /\ s.cong = "LOSS" => s.dupAckCount = 0
    /\ s.cong = "OPEN" => s.dupAckCount = 0 \/ (UseEcn /\ old < s.head)
    /\ s.cong = "DISORDER" => s.dupAckCount < RetxThresh \/ "OpenToDisorder" \in s.failed

Fit(s, old) == s \in Senders /\ Board(s) /\ Excused(s) /\ Timed(s) /\ Midway(s, old)

Kept(r, s) == r.head = s.head /\ r.high >= s.high /\ r.sacked = s.sacked /\ r.alive = s.alive

LEMMA NewAckLemma ==
  ASSUME NEW s \in Senders, Board(s)
  PROVE  LET r == NewAck(s)
         IN  /\ r \in Senders /\ Board(r) /\ Timed(r) /\ Kept(r, s) /\ SameCong(r, s)
  <1> USE NType, SenderFields
  <1> DEFINE b == s.head <= N
             r == NewAck(s)
  <1>1. r = [s EXCEPT !.dataRetrCount = DataRetries, !.retx = b]
    BY DEF NewAck
  <1>2. b \in BOOLEAN /\ DataRetries \in 0 .. DataRetries
    OBVIOUS
  <1> HIDE DEF b, r
  <1>3. r \in Senders
    BY Zenon, <1>1, <1>2 DEF Senders
  <1>4. /\ SameSent(r, s) /\ SameCong(r, s) /\ r.lost = s.lost /\ r.retrans = s.retrans
        /\ r.highestSack = s.highestSack /\ r.retx = b /\ r.out = s.out /\ r.alive = s.alive
    BY <1>1 DEF SameSent, SameCong, Senders
  <1>5. Board(r) /\ Kept(r, s)
    BY <1>4 DEF Board, Sent, SameSent, SameCong, Kept
  <1>6. Timed(r)
    <2>1. r.retx <=> s.head <= N
      BY Zenon, <1>4 DEF b
    <2>2. r.head = s.head /\ r.high = s.high /\ s.high <= N + 1
      BY <1>4 DEF SameSent, Board
    <2> QED BY <2>1, <2>2 DEF Timed
  <1> QED BY <1>3, <1>4, <1>5, <1>6 DEF r

\* Nothing has changed that the invariants speak of.
LEMMA SameFit ==
  ASSUME NEW r \in Senders, NEW s, NEW old, Fit(s, old), SameSent(r, s), SameCong(r, s),
         r.lost = s.lost, r.retrans = s.retrans, r.highestSack = s.highestSack,
         r.retx = s.retx, r.out = s.out, r.alive = s.alive
  PROVE  Fit(r, old) /\ Kept(r, s)
  <1>1. Board(r)
    BY Zenon DEF Fit, SameSent, SameCong, Board, Sent
  <1>2. Excused(r) /\ Timed(r)
    BY Zenon DEF Fit, SameSent, SameCong, Excused, Timed
  <1>3. Midway(r, old)
    BY Zenon DEF Fit, SameSent, SameCong, Midway
  <1>4. Kept(r, s)
    <2>1. r.high = s.high /\ s.high \in Nat
      BY DEF SameSent, Fit, Senders
    <2> QED BY <2>1 DEF Kept, SameSent
  <1> QED BY <1>1, <1>2, <1>3, <1>4 DEF Fit

LEMMA EchoLemma ==
  ASSUME NEW s, NEW old \in Nat, Fit(s, old), NEW m \in Acks
  PROVE  LET r == Echo(s, m, old) IN Fit(r, old) /\ Kept(r, s) /\ SameSent(r, s)
  <1> USE NType, SenderFields, EcnAssumption
  <1> DEFINE r == Echo(s, m, old)
             t == [s EXCEPT !.echoSeq = s.head, !.ece = TRUE]
  <1>0. s \in Senders /\ Board(s) /\ Excused(s) /\ Timed(s) /\ Midway(s, old) /\ m.ece \in BOOLEAN
    BY DEF Fit, Acks
  <1>1. s.head \in Nat /\ TRUE \in BOOLEAN /\ FALSE \in BOOLEAN /\ s.head >= old
    BY <1>0 DEF Midway
  <1>2. t \in Senders
    BY Zenon, <1>0, <1>1 DEF Senders
  <1>3. /\ SameSent(t, s) /\ SameCong(t, s) /\ t.lost = s.lost /\ t.retrans = s.retrans
        /\ t.highestSack = s.highestSack /\ t.retx = s.retx /\ t.out = s.out /\ t.alive = s.alive
    BY <1>0 DEF SameSent, SameCong, Senders
  <1>4. Fit(t, old) /\ Kept(t, s)
    BY Zenon, <1>2, <1>3, SameFit
  <1> HIDE DEF t
  <1>5. CASE UseEcn /\ m.ece /\ s.head > old
    <2>1. r = IF s.echoSeq >= s.head THEN s ELSE IF t.cong = "CWR" THEN t ELSE EnterCwr(t)
      <3>1. ~ (s.head = old)
        BY <1>0, <1>5
      <3> QED BY <1>5, <3>1 DEF Echo, t
    <2>2. CASE s.echoSeq >= s.head
      BY <1>0, <2>1, <2>2 DEF SameSent, Kept, Fit
    <2>3. CASE ~ (s.echoSeq >= s.head) /\ t.cong = "CWR"
      BY <1>3, <1>4, <2>1, <2>3
    <2>4. CASE ~ (s.echoSeq >= s.head) /\ t.cong # "CWR"
      <3>1. r = [t EXCEPT !.cong = "CWR", !.recover = t.high]
        BY <2>1, <2>4 DEF EnterCwr, Check
      <3>2. "CWR" \in CongStates /\ t.high \in Nat
        BY <1>2 DEF CongStates
      <3> HIDE DEF r
      <3>3. r \in Senders
        BY Zenon, <1>2, <3>1, <3>2 DEF Senders
      <3>4. /\ SameSent(r, s) /\ r.lost = s.lost /\ r.retrans = s.retrans
            /\ r.highestSack = s.highestSack /\ r.retx = s.retx /\ r.out = s.out
            /\ r.alive = s.alive /\ r.cong = "CWR" /\ r.recover = s.high
            /\ r.failed = s.failed
        BY <1>2, <1>3, <3>1 DEF SameSent, SameCong, Senders
      <3>5. Board(r) /\ Kept(r, s)
        BY <1>0, <3>4 DEF Board, Sent, SameSent, Kept
      <3>7. Excused(r) /\ Timed(r)
        BY Zenon, <1>0, <3>4 DEF SameSent, Excused, Timed
      <3>6. Midway(r, old)
        BY <1>0, <1>1, <1>5, <3>4 DEF Midway, SameSent, Board
      <3> QED BY <3>3, <3>4, <3>5, <3>6, <3>7 DEF r, Fit
    <2> QED BY <2>2, <2>3, <2>4
  <1>6. CASE UseEcn /\ m.ece /\ s.head = old
    <2>1. r = s
      <3>1. ~ (s.head > old)
        BY <1>0, <1>6
      <3> QED BY <1>6, <3>1 DEF Echo
    <2> QED BY <1>0, <2>1 DEF SameSent, Kept, Fit
  <1>7. CASE ~ (UseEcn /\ m.ece)
    <2>1. r = [s EXCEPT !.ece = FALSE]
      BY <1>7 DEF Echo
    <2> HIDE DEF r
    <2>2. r \in Senders
      BY <1>0, <1>1, <2>1 DEF Senders
    <2>3. /\ SameSent(r, s) /\ SameCong(r, s) /\ r.lost = s.lost /\ r.retrans = s.retrans
          /\ r.highestSack = s.highestSack /\ r.retx = s.retx /\ r.out = s.out
          /\ r.alive = s.alive
      BY <1>0, <2>1 DEF SameSent, SameCong, Senders
    <2>4. Fit(r, old) /\ Kept(r, s)
      BY Zenon, <2>2, <2>3, SameFit
    <2> QED BY <2>3, <2>4 DEF r
  <1> QED BY <1>0, <1>1, <1>5, <1>6, <1>7

\* Recovery begins while something is outstanding.
LEMMA RecoveryLemma ==
  ASSUME NEW s \in Senders, Board(s), s.head < s.high, s.cong # "RECOVERY"
  PROVE  LET r == EnterRecovery(s)
         IN  /\ r \in Senders /\ Board(r) /\ Kept(r, s) /\ r.retx
             /\ r.cong = "RECOVERY" /\ r.recover = s.high /\ r.recoverActive
             /\ r.failed = s.failed /\ r.dupAckCount = s.dupAckCount
  <1> USE NType, SenderFields
  <1> DEFINE k == IF IsLost(s, s.head) THEN s ELSE MarkHeadAsLost(s)
             t == [k EXCEPT !.cong = "RECOVERY", !.recover = s.high, !.recoverActive = TRUE]
  <1>1. /\ k \in Senders /\ SameSent(k, s) /\ SameCong(k, s)
        /\ k.lost \subseteq Sent(s) /\ k.retrans \subseteq Sent(s) /\ k.lost \cap s.sacked = {}
        /\ k.highestSack = s.highestSack /\ k.retx = s.retx /\ k.out = s.out /\ k.alive = s.alive
    <2>1. CASE IsLost(s, s.head)
      BY <2>1 DEF SameSent, SameCong, Board
    <2>2. CASE ~ IsLost(s, s.head)
      <3> DEFINE a == s.sacked \ {s.head}
                 b == s.retrans \ {s.head}
                 c == s.lost \cup {s.head}
      <3>1. k = [s EXCEPT !.sacked = a, !.retrans = b, !.lost = c]
        BY <2>2 DEF MarkHeadAsLost
      <3>2. a = s.sacked /\ a \in SUBSET Nat /\ b \in SUBSET Nat /\ c \in SUBSET Nat
        BY DEF Board
      <3>3. b \subseteq Sent(s) /\ c \subseteq Sent(s) /\ c \cap s.sacked = {}
        BY DEF Board, Sent
      <3> HIDE DEF a, b, c, k
      <3>4. k \in Senders
        BY Zenon, <3>1, <3>2 DEF Senders
      <3> QED BY <3>1, <3>2, <3>3, <3>4 DEF SameSent, SameCong, Senders
    <2> QED BY <2>1, <2>2
  <1>2. "RECOVERY" \in CongStates /\ s.high \in Nat /\ TRUE \in BOOLEAN
    BY DEF CongStates
  <1>3. EnterRecovery(s) = DoRetransmit(t)
    BY DEF EnterRecovery, Check
  <1> HIDE DEF k
  <1>4. t \in Senders
    BY Zenon, <1>1, <1>2 DEF Senders
  <1>5. /\ SameSent(t, s) /\ t.lost = k.lost /\ t.retrans = k.retrans
        /\ t.highestSack = s.highestSack /\ t.out = s.out /\ t.alive = s.alive
        /\ t.cong = "RECOVERY" /\ t.recover = s.high /\ t.recoverActive
        /\ t.failed = s.failed /\ t.dupAckCount = s.dupAckCount
    BY <1>1 DEF SameSent, SameCong, Senders
  <1> HIDE DEF t
  <1>6. Board(t) /\ t.head < t.high
    BY <1>1, <1>5 DEF Board, Sent, SameSent
  <1> DEFINE r == DoRetransmit(t)
  <1>7. r \in Senders /\ Board(r) /\ Sending(r, t) /\ r.retx
    BY <1>4, <1>6, RetransmitLemma
  <1> HIDE DEF r
  <1>8. /\ Kept(r, s) /\ r.cong = "RECOVERY" /\ r.recover = s.high /\ r.recoverActive
        /\ r.failed = s.failed /\ r.dupAckCount = s.dupAckCount
    BY <1>5, <1>7 DEF Sending, SameCong, SameSent, Kept
  <1> QED BY <1>3, <1>7, <1>8 DEF r

\* Only the congestion state, the count of duplicates and the failed assertions differ.
SameBoard(r, s) ==
    /\ SameSent(r, s) /\ r.lost = s.lost /\ r.retrans = s.retrans
    /\ r.highestSack = s.highestSack /\ r.retx = s.retx /\ r.out = s.out /\ r.alive = s.alive
    /\ r.recover = s.recover /\ r.recoverActive = s.recoverActive

LEMMA SameBoardLemma ==
  ASSUME NEW r \in Senders, NEW s \in Senders, Board(s), SameBoard(r, s)
  PROVE  Board(r) /\ Kept(r, s) /\ (Timed(s) => Timed(r))
  <1>1. Board(r) /\ (Timed(s) => Timed(r))
    BY Zenon DEF SameBoard, SameSent, Board, Sent, Timed
  <1>2. Kept(r, s)
    <2>1. r.high = s.high /\ s.high \in Nat
      BY DEF SameBoard, SameSent, Senders
    <2> QED BY <2>1 DEF Kept, SameBoard, SameSent
  <1> QED BY <1>1, <1>2

LEMMA CheckLemma ==
  ASSUME NEW s \in Senders, NEW ok, NEW name \in Names
  PROVE  LET r == Check(s, ok, name)
         IN  /\ r \in Senders /\ SameBoard(r, s) /\ r.cong = s.cong
             /\ r.dupAckCount = s.dupAckCount
             /\ r.failed = IF ok THEN s.failed ELSE s.failed \cup {name}
  <1> DEFINE r == Check(s, ok, name)
  <1>1. CASE ok
    BY <1>1 DEF Check, SameBoard, SameSent
  <1>2. CASE ~ ok
    <2> DEFINE f == s.failed \cup {name}
    <2>1. r = [s EXCEPT !.failed = f]
      BY <1>2 DEF Check
    <2>2. f \in SUBSET Names
      BY SenderFields
    <2> HIDE DEF r, f
    <2>3. r \in Senders
      BY <2>1, <2>2 DEF Senders
    <2>4. SameBoard(r, s) /\ r.cong = s.cong /\ r.dupAckCount = s.dupAckCount /\ r.failed = f
      BY <2>1 DEF SameBoard, SameSent, Senders
    <2> QED BY <1>2, <2>3, <2>4 DEF r, f
  <1> QED BY <1>1, <1>2

\* A duplicate is counted while something is outstanding; no duplicate leaves the
\* sender in CA_OPEN.
LEMMA DupAckLemma ==
  ASSUME NEW s, NEW old \in Nat, Fit(s, old), s.head < s.high
  PROVE  LET r == DupAck(s) IN Fit(r, old) /\ Kept(r, s) /\ r.cong # "OPEN"
  <1> USE NType, SenderFields, EcnAssumption
  <1> DEFINE counted == IF s.cong = "RECOVERY" THEN s ELSE [s EXCEPT !.dupAckCount = @ + 1]
             there   == [counted EXCEPT !.cong = "DISORDER"]
             moved   == IF s.cong # "OPEN" THEN counted
                        ELSE Check(there, counted.dupAckCount = 1, "OpenToDisorder")
             ok      == moved.dupAckCount <= RetxThresh \/ s.recoverActive
             checked == Check(moved, ok, "DISORDER")
             enter   == \/ /\ moved.dupAckCount = RetxThresh
                           /\ s.head >= s.recover \/ ~ s.recoverActive
                        \/ IsLost(s, s.head + 1)
             r       == DupAck(s)
  <1>0. s \in Senders /\ Board(s) /\ Excused(s) /\ Timed(s) /\ Midway(s, old)
    BY DEF Fit
  <1>1. r = CASE s.cong = "LOSS" -> s
              [] s.cong # "LOSS" /\ moved.cong # "DISORDER" -> moved
              [] s.cong # "LOSS" /\ moved.cong = "DISORDER" ->
                    IF enter THEN EnterRecovery(checked) ELSE checked
    BY Zenon DEF DupAck
  <1>2. CASE s.cong = "LOSS"
    <2>1. r = s
      BY <1>1, <1>2
    <2> QED BY <1>0, <1>2, <2>1 DEF Kept
  <1>3. CASE s.cong = "RECOVERY"
    <2>1. counted = s /\ moved = s
      BY <1>3
    <2> HIDE DEF counted, moved
    <2>2. r = s
      BY <1>1, <1>3, <2>1
    <2> QED BY <1>0, <1>3, <2>2 DEF Kept
  <1>4. CASE s.cong \in {"OPEN", "CWR", "DISORDER"}
    <2> DEFINE c == s.dupAckCount + 1
    <2>0. c \in Nat /\ "DISORDER" \in CongStates
      BY <1>0 DEF CongStates
    <2>1. counted = [s EXCEPT !.dupAckCount = c]
      BY <1>4
    <2> HIDE DEF counted, c
    <2>2. counted \in Senders
      BY <1>0, <2>0, <2>1 DEF Senders
    <2>3. SameBoard(counted, s) /\ counted.cong = s.cong /\ counted.dupAckCount = c
          /\ counted.failed = s.failed
      BY <1>0, <2>1 DEF SameBoard, SameSent, Senders
    <2>4. CASE s.cong = "CWR"
      <3>1. moved = counted
        BY <2>4
      <3> HIDE DEF moved
      <3>2. r = counted
        BY <1>1, <2>3, <2>4, <3>1
      <3>3. Board(counted) /\ Kept(counted, s) /\ Timed(counted)
        BY <1>0, <2>2, <2>3, SameBoardLemma
      <3>4. Excused(counted)
        BY <1>0, <2>3 DEF Excused
      <3>5. Midway(counted, old)
        BY <1>0, <2>3, <2>4 DEF Midway, SameBoard, SameSent
      <3> QED BY <2>2, <2>3, <2>4, <3>2, <3>3, <3>4, <3>5 DEF Fit
    <2>5. CASE s.cong \in {"OPEN", "DISORDER"}
      <3> DEFINE f1 == IF s.cong = "OPEN" /\ c # 1 THEN s.failed \cup {"OpenToDisorder"}
                       ELSE s.failed
      <3>1. /\ moved \in Senders /\ SameBoard(moved, s) /\ moved.cong = "DISORDER"
            /\ moved.dupAckCount = c /\ moved.failed = f1
        <4>1. CASE s.cong = "DISORDER"
          BY <2>2, <2>3, <4>1
        <4>2. CASE s.cong = "OPEN"
          <5>1. there \in Senders
            BY <2>0, <2>2 DEF Senders
          <5>2. /\ SameBoard(there, s) /\ there.cong = "DISORDER" /\ there.dupAckCount = c
                /\ there.failed = s.failed
            BY <2>2, <2>3 DEF SameBoard, SameSent, Senders
          <5>3. moved = IF c = 1 THEN there
                        ELSE [there EXCEPT !.failed = @ \cup {"OpenToDisorder"}]
            BY <2>3, <4>2 DEF Check
          <5> HIDE DEF there, moved
          <5>4. CASE c = 1
            BY <4>2, <5>1, <5>2, <5>3, <5>4
          <5>5. CASE c # 1
            <6> DEFINE f == there.failed \cup {"OpenToDisorder"}
            <6>1. f \in SUBSET Names
              BY <5>1 DEF Names
            <6>2. f = f1
              BY <4>2, <5>2, <5>5
            <6>3. moved = [there EXCEPT !.failed = f]
              BY <5>3, <5>5
            <6> HIDE DEF f, f1
            <6>4. moved \in Senders
              BY <5>1, <6>1, <6>3 DEF Senders
            <6> QED BY <5>1, <5>2, <6>2, <6>3, <6>4 DEF SameBoard, SameSent, Senders
          <5> QED BY <5>4, <5>5
        <4> QED BY <2>5, <4>1, <4>2
      <3> HIDE DEF moved
      <3> DEFINE f2 == IF ok THEN f1 ELSE f1 \cup {"DISORDER"}
      <3>2. /\ checked \in Senders /\ SameBoard(checked, s) /\ checked.cong = "DISORDER"
            /\ checked.dupAckCount = c /\ checked.failed = f2
        <4>1. "DISORDER" \in Names
          BY DEF Names
        <4> HIDE DEF ok, f1
        <4>2. /\ checked \in Senders /\ SameBoard(checked, moved) /\ checked.cong = moved.cong
              /\ checked.dupAckCount = moved.dupAckCount
              /\ checked.failed = IF ok THEN moved.failed ELSE moved.failed \cup {"DISORDER"}
          BY <3>1, <4>1, CheckLemma
        <4> HIDE DEF checked
        <4> QED BY Zenon, <3>1, <4>2 DEF SameBoard, SameSent
      <3>3. ok <=> c <= RetxThresh \/ s.recoverActive
        BY <3>1
      <3>4. r = IF enter THEN EnterRecovery(checked) ELSE checked
        BY <1>1, <2>5, <3>1
      <3>5. c = RetxThresh => enter
        <4>1. s.recoverActive => s.recover < s.head
          BY <1>0, <2>5 DEF Midway
        <4>2. s.head >= s.recover \/ ~ s.recoverActive
          BY <1>0, <4>1
        <4> QED BY Zenon, <3>1, <4>2
      <3> HIDE DEF checked, ok, enter, r
      <3>6. Board(checked) /\ Kept(checked, s) /\ Timed(checked)
        BY <1>0, <3>2, SameBoardLemma
      <3>7. /\ Excused(checked)
            /\ "OpenToDisorder" \in checked.failed \/ c <= RetxThresh
        <4>1. s.cong = "OPEN" => UseEcn \/ c = 1
          BY <1>0 DEF Midway, c
        <4>2. s.cong = "DISORDER" => c <= RetxThresh \/ "OpenToDisorder" \in s.failed
          BY <1>0 DEF Midway, c
        <4> QED BY <1>0, <2>5, <3>2, <3>3, <4>1, <4>2 DEF Excused
      <3>8. CASE enter
        <4>1. r = EnterRecovery(checked)
          BY <3>4, <3>8
        <4>2. checked.head < checked.high /\ checked.cong # "RECOVERY"
          BY <3>2 DEF SameBoard, SameSent
        <4>3. /\ r \in Senders /\ Board(r) /\ Kept(r, checked) /\ r.retx
              /\ r.cong = "RECOVERY" /\ r.recover = checked.high /\ r.recoverActive
              /\ r.failed = checked.failed
          BY <3>2, <3>6, <4>1, <4>2, RecoveryLemma
        <4>4. Kept(r, s)
          BY <1>0, <3>2, <3>6, <4>3 DEF Kept
        <4>5. Excused(r) /\ Timed(r)
          BY <3>7, <4>3 DEF Excused, Timed
        <4>6. Midway(r, old)
          BY <1>0, <3>2, <3>6, <4>3, <4>4 DEF Midway, Kept, Board
        <4> QED BY <4>3, <4>4, <4>5, <4>6 DEF Fit, r
      <3>9. CASE ~ enter
        <4>1. r = checked
          BY <3>4, <3>9
        <4>2. Midway(checked, old)
          <5>0. c # RetxThresh
            BY Zenon, <3>5, <3>9
          <5>1. c < RetxThresh \/ "OpenToDisorder" \in checked.failed
            BY <2>0, <3>7, <5>0
          <5>2. checked.recoverActive <=> s.recoverActive
            BY Zenon, <3>2 DEF SameBoard
          <5>3. checked.head = s.head /\ checked.recover = s.recover
            BY <3>2 DEF SameBoard, SameSent
          <5> QED BY <1>0, <2>5, <3>2, <5>1, <5>2, <5>3 DEF Midway
        <4> QED BY <3>2, <3>6, <3>7, <4>1, <4>2 DEF Fit, r
      <3> QED BY <3>8, <3>9 DEF r
    <2> QED BY <1>4, <2>4, <2>5
  <1> QED BY <1>0, <1>2, <1>3, <1>4 DEF CongStates

LEMMA SameCongLemma ==
  ASSUME NEW r, NEW s, SameCong(r, s), r.head = s.head
  PROVE  (Congestion(s) => Congestion(r)) /\ (Excused(s) => Excused(r))
  <1>1. Congestion(s) => Congestion(r)
    BY Zenon DEF SameCong, Congestion
  <1>2. Excused(s) => Excused(r)
    BY Zenon DEF SameCong, Excused
  <1> QED BY <1>1, <1>2

\* NewAck, after the state is settled.
LEMMA SettledLemma ==
  ASSUME NEW x \in Senders, NEW s \in Senders, Board(x), Kept(x, s), Congestion(x), Excused(x)
  PROVE  LET r == NewAck(x)
         IN  r \in Senders /\ Board(r) /\ Excused(r) /\ Timed(r) /\ Congestion(r) /\ Kept(r, s)
  <1> DEFINE r == NewAck(x)
  <1>1. r \in Senders /\ Board(r) /\ Timed(r) /\ Kept(r, x) /\ SameCong(r, x)
    BY NewAckLemma
  <1> HIDE DEF r
  <1>2. Congestion(r) /\ Excused(r)
    <2>1. r.head = x.head
      BY <1>1 DEF Kept
    <2> QED BY <1>1, <2>1, SameCongLemma
  <1>3. Kept(r, s)
    <2>1. r.high \in Nat /\ x.high \in Nat /\ s.high \in Nat
      BY <1>1, SenderFields
    <2> QED BY <1>1, <2>1 DEF Kept
  <1> QED BY <1>1, <1>2, <1>3 DEF r

\* An acknowledgment that moves SND.UNA settles the congestion state.
LEMMA AdvanceLemma ==
  ASSUME NEW s, NEW old \in Nat, Fit(s, old), old < s.head, NEW dupack \in BOOLEAN,
         dupack => s.cong # "OPEN"
  PROVE  LET r == Advance(s, dupack)
         IN  r \in Senders /\ Board(r) /\ Excused(r) /\ Timed(r) /\ Congestion(r) /\ Kept(r, s)
  <1> USE NType, SenderFields, EcnAssumption
  <1> DEFINE t == IF dupack THEN s ELSE [s EXCEPT !.dupAckCount = 0]
             C == IF t.cong = "DISORDER" /\ dupack THEN t.cong ELSE "OPEN"
             D == IF t.cong = "RECOVERY" THEN 0 ELSE t.dupAckCount
             A == t.recoverActive /\ t.head < t.recover
             opened == [t EXCEPT !.cong = C, !.dupAckCount = D, !.recoverActive = A]
             x == IF t.head \in t.retrans THEN t ELSE DoRetransmit(t)
             r == Advance(s, dupack)
  <1>0. s \in Senders /\ Board(s) /\ Excused(s) /\ Timed(s) /\ Midway(s, old)
    BY DEF Fit
  <1>1. /\ t \in Senders /\ SameBoard(t, s) /\ t.cong = s.cong /\ t.failed = s.failed
        /\ t.dupAckCount = IF dupack THEN s.dupAckCount ELSE 0
    BY <1>0 DEF Senders, SameBoard, SameSent
  <1>2. r = CASE t.cong = "RECOVERY" /\ t.head < t.recover -> NewAck(x)
              [] t.cong = "LOSS" /\ t.head < t.recover -> NewAck(t)
              [] t.cong = "CWR" -> NewAck(t)
              [] OTHER -> IF opened.cong = "OPEN" THEN NewAck(opened) ELSE opened
    BY Zenon DEF Advance
  <1> HIDE DEF t
  <1>3. Board(t) /\ Kept(t, s) /\ Timed(t)
    BY <1>0, <1>1, SameBoardLemma
  <1>4. Excused(t) /\ t.head = s.head /\ t.recover = s.recover
    BY <1>0, <1>1 DEF Excused, SameBoard, SameSent
  <1>5. t.recoverActive <=> s.recoverActive
    BY Zenon, <1>1 DEF SameBoard
  <1>6. CASE t.cong = "RECOVERY" /\ t.head < t.recover
    <2>1. r = NewAck(x)
      BY <1>2, <1>6
    <2>2. Congestion(t)
      BY <1>0, <1>1, <1>4, <1>5, <1>6 DEF Congestion, Midway
    <2>3. x \in Senders /\ Board(x) /\ Kept(x, t) /\ SameCong(x, t)
      <3>1. CASE t.head \in t.retrans
        BY <1>1, <1>3, <3>1 DEF Kept, SameCong
      <3>2. CASE t.head \notin t.retrans
        <4>1. t.head < t.high
          BY <1>1, <1>3, <1>6 DEF Board
        <4> DEFINE y == DoRetransmit(t)
        <4>2. y \in Senders /\ Board(y) /\ Sending(y, t)
          BY <1>1, <1>3, <4>1, RetransmitLemma
        <4>3. x = y
          BY <3>2
        <4> HIDE DEF x, y
        <4> QED BY <4>2, <4>3 DEF Sending, Kept
      <3> QED BY <3>1, <3>2
    <2> HIDE DEF x, r
    <2>4. Congestion(x) /\ Excused(x)
      <3>1. x.head = t.head
        BY <2>3 DEF Kept
      <3> QED BY <1>4, <2>2, <2>3, <3>1, SameCongLemma
    <2>5. Kept(x, s)
      BY <1>0, <1>1, <1>3, <2>3 DEF Kept
    <2> QED BY <1>0, <2>1, <2>3, <2>4, <2>5, SettledLemma DEF r
  <1>7. CASE t.cong = "CWR" \/ (t.cong = "LOSS" /\ t.head < t.recover)
    <2>1. r = NewAck(t)
      BY <1>2, <1>7
    <2>2. Congestion(t)
      BY <1>0, <1>1, <1>4, <1>5, <1>7 DEF Congestion, Midway
    <2> HIDE DEF r
    <2> QED BY <1>0, <1>1, <1>3, <1>4, <2>1, <2>2, SettledLemma DEF r
  <1>8. CASE ~ (t.cong = "RECOVERY" /\ t.head < t.recover)
             /\ ~ (t.cong = "CWR" \/ (t.cong = "LOSS" /\ t.head < t.recover))
    <2>1. r = IF opened.cong = "OPEN" THEN NewAck(opened) ELSE opened
      BY <1>2, <1>8
    <2>2. C \in CongStates /\ D \in Nat /\ A \in BOOLEAN
      BY <1>1 DEF CongStates
    <2>3. /\ C = IF t.cong = "DISORDER" /\ dupack THEN "DISORDER" ELSE "OPEN"
          /\ D = IF t.cong = "RECOVERY" THEN 0 ELSE t.dupAckCount
      OBVIOUS
    <2>4. ~ A
      BY <1>0, <1>1, <1>4, <1>5, <1>8 DEF Midway, CongStates
    <2> HIDE DEF C, D, A, r
    <2>5. opened \in Senders
      BY Zenon, <1>1, <2>2 DEF Senders
    <2>6. /\ SameSent(opened, t) /\ opened.lost = t.lost /\ opened.retrans = t.retrans
          /\ opened.highestSack = t.highestSack /\ opened.retx = t.retx /\ opened.out = t.out
          /\ opened.alive = t.alive /\ opened.recover = t.recover /\ opened.failed = t.failed
          /\ opened.cong = C /\ opened.dupAckCount = D /\ opened.recoverActive = A
      BY <1>1 DEF SameSent, Senders
    <2> HIDE DEF opened
    <2>7. Board(opened) /\ Timed(opened) /\ Excused(opened)
      BY Zenon, <1>3, <1>4, <2>6 DEF SameSent, Board, Sent, Timed, Excused
    <2>8. Kept(opened, s)
      BY <1>0, <1>1, <1>3, <2>5, <2>6 DEF Kept, SameSent
    <2>9. Congestion(opened)
      <3>1. ~ opened.recoverActive
        BY Zenon, <2>4, <2>6
      <3>2. C = "OPEN" => D = 0
        BY <1>0, <1>1, <1>8, <2>3 DEF Midway, CongStates
      <3>3. C = "DISORDER" => D < RetxThresh \/ "OpenToDisorder" \in opened.failed
        BY <1>0, <1>1, <1>4, <2>3, <2>6 DEF Midway
      <3> QED BY <2>3, <2>6, <3>1, <3>2, <3>3 DEF Congestion
    <2>10. CASE opened.cong = "OPEN"
      <3>1. r = NewAck(opened)
        BY <2>1, <2>10
      <3> QED BY <1>0, <2>5, <2>7, <2>8, <2>9, <3>1, SettledLemma DEF r
    <2>11. CASE opened.cong # "OPEN"
      <3>1. r = opened
        BY <2>1, <2>11
      <3> QED BY <2>5, <2>7, <2>8, <2>9, <3>1 DEF r
    <2> QED BY <2>10, <2>11
  <1> QED BY <1>6, <1>7, <1>8

LEMMA ProcessAckLemma ==
  ASSUME NEW s, NEW old \in Nat, Fit(s, old), NEW dupack \in BOOLEAN,
         dupack => s.head < s.high
  PROVE  LET r == ProcessAck(s, dupack, old)
         IN  r \in Senders /\ Board(r) /\ Excused(r) /\ Timed(r) /\ Congestion(r) /\ Kept(r, s)
  <1> USE NType, SenderFields, EcnAssumption
  <1> DEFINE t == IF dupack THEN DupAck(s) ELSE s
             r == ProcessAck(s, dupack, old)
  <1>0. s \in Senders
    BY DEF Fit
  <1>1. Fit(t, old) /\ Kept(t, s) /\ (dupack => t.cong # "OPEN")
    <2>1. CASE dupack
      <3> DEFINE d == DupAck(s)
      <3>1. Fit(d, old) /\ Kept(d, s) /\ d.cong # "OPEN"
        BY <2>1, DupAckLemma
      <3>2. t = d
        BY <2>1
      <3> HIDE DEF t, d
      <3> QED BY <3>1, <3>2
    <2>2. CASE ~ dupack
      BY <1>0, <2>2 DEF Kept
    <2> QED BY <2>1, <2>2
  <1>2. r = IF t.head > old THEN Advance(t, dupack) ELSE t
    BY DEF ProcessAck
  <1> HIDE DEF t, r
  <1>3. t \in Senders /\ Board(t) /\ Excused(t) /\ Timed(t) /\ Midway(t, old)
    BY <1>1 DEF Fit
  <1>4. CASE t.head > old
    <2> DEFINE a == Advance(t, dupack)
    <2>1. /\ a \in Senders /\ Board(a) /\ Excused(a) /\ Timed(a) /\ Congestion(a) /\ Kept(a, t)
      <3>1. old < t.head
        BY <1>3, <1>4
      <3> QED BY <1>1, <3>1, AdvanceLemma
    <2>2. r = a
      BY <1>2, <1>4
    <2> HIDE DEF a
    <2>3. Kept(a, s)
      BY <1>0, <1>1, <1>3, <2>1 DEF Kept
    <2> QED BY <2>1, <2>2, <2>3 DEF r
  <1>5. CASE ~ (t.head > old)
    <2>1. r = t
      BY <1>2, <1>5
    <2>2. Congestion(t)
      BY <1>3, <1>5 DEF Midway, Congestion
    <2> QED BY <1>1, <1>3, <2>1, <2>2 DEF r
  <1> QED BY <1>4, <1>5

-----------------------------------------------------------------------------
(* The scoreboard *)

LEMMA FiniteSent ==
  ASSUME NEW s \in Senders, NEW T \in SUBSET Sent(s)
  PROVE  IsFiniteSet(T) /\ Cardinality(T) \in Nat
  <1>1. IsFiniteSet(Sent(s))
    BY SenderFields, FS_Interval DEF Sent
  <1>2. IsFiniteSet(T)
    BY <1>1, FS_Subset
  <1> QED BY <1>2, FS_CardinalityType

\* m_highestSack moves within the sent list.
LEMMA HighestSackLemma ==
  ASSUME NEW s \in Senders, Board(s), NEW list \in Seq(SUBSET Nat)
  PROVE  LET h == HighestSackAfter(s, list) IN h \in Nat /\ (h = NoSeg \/ h \in Sent(s))
  <1> USE SenderFields, NType
  <1> DEFINE new(k) == IF k > Len(list) THEN {} ELSE (list[k] \cap (s.head .. s.high - 1)) \ s.sacked
             Move(h, k) == IF new(k) # {} /\ h <= Max(new(k)) + 1 THEN Max(new(k)) ELSE h
             Right(h) == h \in Nat /\ (h = NoSeg \/ h \in Sent(s))
  <1>1. ASSUME NEW h, Right(h), NEW k \in 1 .. 4 PROVE Right(Move(h, k))
    <2>1. CASE new(k) # {}
      <3>1. new(k) \subseteq Sent(s) /\ Sent(s) \subseteq 0 .. s.high
        BY DEF Sent, Board
      <3>2. new(k) \subseteq 0 .. s.high
        BY <3>1
      <3> HIDE DEF new
      <3>3. Max(new(k)) \in new(k)
        BY <2>1, <3>2, MaxOf
      <3>4. Max(new(k)) \in Sent(s) /\ Max(new(k)) \in 0 .. s.high
        BY Zenon, <3>1, <3>2, <3>3
      <3>5. Max(new(k)) \in Nat
        BY <3>4
      <3> QED BY <1>1, <3>4, <3>5
    <2>2. CASE new(k) = {}
      BY <1>1, <2>2
    <2> QED BY <2>1, <2>2
  <1>2. Right(s.highestSack)
    BY DEF Board
  <1>3. HighestSackAfter(s, list) = Move(Move(Move(Move(s.highestSack, 1), 2), 3), 4)
    BY DEF HighestSackAfter
  <1> HIDE DEF Move, Right
  <1>4. Right(Move(s.highestSack, 1))
    BY <1>1, <1>2
  <1>5. Right(Move(Move(s.highestSack, 1), 2))
    BY <1>1, <1>4
  <1>6. Right(Move(Move(Move(s.highestSack, 1), 2), 3))
    BY <1>1, <1>5
  <1>7. Right(Move(Move(Move(Move(s.highestSack, 1), 2), 3), 4))
    BY <1>1, <1>6
  <1> QED BY <1>3, <1>7 DEF Right

\* Only the flags of the scoreboard differ.
SameButFlags(r, s) ==
    /\ r.head = s.head /\ r.high = s.high /\ SameCong(r, s)
    /\ r.retx = s.retx /\ r.alive = s.alive /\ r.out = s.out

LEMMA UpdateLemma ==
  ASSUME NEW s \in Senders, Board(s), NEW list \in Seq(SUBSET Nat),
         \A i \in Blocks(list) : i # s.head
  PROVE  LET r == Update(s, list)
         IN  /\ r \in Senders /\ Board(r) /\ SameButFlags(r, s)
             /\ s.sacked \subseteq r.sacked /\ r.sacked \subseteq s.sacked \cup Blocks(list)
  <1> USE SenderFields, NType
  <1> DEFINE new == ((UNION Range(list)) \cap (s.head .. s.high - 1)) \ s.sacked
             k == s.sacked \cup new
             l == s.lost \ new
             h == HighestSackAfter(s, list)
             t == [s EXCEPT !.sacked = k, !.lost = l, !.highestSack = h]
             above(i) == {j \in t.sacked : i < j /\ j <= t.highestSack}
             m == l \cup {i \in (t.head .. t.highestSack) \ t.sacked :
                             Cardinality(above(i)) >= RetxThresh}
             u == [t EXCEPT !.lost = m]
             r == Update(s, list)
  <1>1. h \in Nat /\ (h = NoSeg \/ h \in Sent(s))
    BY HighestSackLemma
  <1>2. /\ new \subseteq Sent(s) /\ new \cap s.sacked = {} /\ new \subseteq Blocks(list)
        /\ s.head \notin new /\ new \subseteq Nat
    BY DEF Sent, Blocks
  <1>r. r = Check(IF new = {} THEN s ELSE UpdateLostCount(t), s.head \notin t.sacked, "Update")
    BY Zenon DEF Update
  <1> HIDE DEF new, h
  <1>3. /\ k \in SUBSET Nat /\ k \subseteq Sent(s) /\ s.head \notin k
        /\ l \in SUBSET Nat /\ l \subseteq Sent(s) /\ k \cap l = {}
    BY <1>2 DEF Board
  <1>4. s.sacked \subseteq k /\ k \subseteq s.sacked \cup Blocks(list)
    BY <1>2
  <1> HIDE DEF k, l
  <1>5. t \in Senders
    BY Zenon, <1>1, <1>3 DEF Senders
  <1>6. /\ SameButFlags(t, s) /\ t.retrans = s.retrans /\ t.sacked = k /\ t.lost = l
        /\ t.highestSack = h
    BY DEF Senders, SameButFlags, SameCong
  <1>7. r = IF new = {} THEN s ELSE UpdateLostCount(t)
    BY <1>r, <1>3, <1>6 DEF Check
  <1>8. UpdateLostCount(t) = u
    BY <1>6 DEF UpdateLostCount
  <1> HIDE DEF t
  <1>9. m \in SUBSET Nat /\ m \subseteq Sent(s) /\ m \cap k = {}
    <2>1. t.head = s.head
      BY <1>6 DEF SameButFlags
    <2>2. ASSUME NEW i \in (t.head .. t.highestSack) \ t.sacked
          PROVE  i \in Nat /\ i \in Sent(s) /\ i \notin k
      BY <1>1, <1>6, <2>1, <2>2 DEF Board, Sent, NoSeg
    <2> QED BY <1>3, <2>2
  <1> HIDE DEF m
  <1>10. u \in Senders
    BY <1>5, <1>9 DEF Senders
  <1>11. /\ SameButFlags(u, s) /\ u.retrans = s.retrans /\ u.sacked = k /\ u.lost = m
         /\ u.highestSack = h
    BY <1>5, <1>6 DEF Senders, SameButFlags, SameCong
  <1> HIDE DEF u, r
  <1>12. Board(u)
    BY <1>1, <1>3, <1>9, <1>11 DEF Board, Sent, SameButFlags, SameCong
  <1>13. CASE new = {}
    <2>1. r = s
      BY <1>7, <1>13
    <2> QED BY <2>1 DEF r, SameButFlags, SameCong
  <1>14. CASE new # {}
    <2>1. r = u
      BY <1>7, <1>8, <1>14
    <2> QED BY <1>4, <1>10, <1>11, <1>12, <2>1 DEF r
  <1> QED BY <1>13, <1>14

LEMMA DiscardLemma ==
  ASSUME NEW s \in Senders, Board(s), NEW a \in Nat, s.head <= a, a <= s.high, a \notin s.sacked
  PROVE  LET r == DiscardUpTo(s, a)
         IN  /\ r \in Senders /\ Board(r) /\ r.head = a /\ r.high = s.high /\ SameCong(r, s)
             /\ r.retx = s.retx /\ r.alive = s.alive
             /\ r.sacked = {i \in s.sacked : i >= a}
  <1> USE SenderFields, NType
  <1> DEFINE k == {i \in s.sacked : i >= a}
             l == {i \in s.lost : i >= a}
             t == {i \in s.retrans : i >= a}
             h == IF s.highestSack <= a THEN NoSeg ELSE s.highestSack
             r == DiscardUpTo(s, a)
  <1>1. k \in SUBSET Nat /\ l \in SUBSET Nat /\ t \in SUBSET Nat /\ h \in Nat
    BY DEF NoSeg
  <1>2. /\ k \subseteq a .. s.high - 1 /\ l \subseteq a .. s.high - 1 /\ t \subseteq a .. s.high - 1
        /\ k \cap l = {} /\ a \notin k
        /\ h = NoSeg \/ h \in a .. s.high - 1
    BY DEF Board, Sent, NoSeg
  <1>3. r = [s EXCEPT !.head = a, !.sacked = k, !.lost = l, !.retrans = t, !.highestSack = h]
    BY Zenon DEF DiscardUpTo, Check
  <1> HIDE DEF k, l, t, h, r
  <1>4. r \in Senders
    BY Zenon, <1>1, <1>3 DEF Senders
  <1>5. /\ r.head = a /\ r.high = s.high /\ r.sacked = k /\ r.lost = l /\ r.retrans = t
        /\ r.highestSack = h /\ SameCong(r, s) /\ r.retx = s.retx /\ r.alive = s.alive
        /\ r.out = s.out
    BY <1>3 DEF Senders, SameCong
  <1>6. Board(r)
    BY <1>2, <1>5 DEF Board, Sent, SameCong
  <1> QED BY <1>4, <1>5, <1>6 DEF r, k

-----------------------------------------------------------------------------
(* The window *)

\* New segments are sent without gaps.
LEMMA LowestInterval ==
  ASSUME NEW a \in Nat, NEW b \in Nat, NEW k \in Int, a <= b + 1
  PROVE  LET L == Lowest(a .. b, k)
         IN  /\ Cardinality(L) \in Nat /\ L \subseteq a .. a + Cardinality(L) - 1
             /\ a + Cardinality(L) <= b + 1
             /\ L \subseteq a .. b
             /\ L = {} <=> Cardinality(L) = 0
             /\ Cardinality(L) <= k \/ L = {}
  <1> DEFINE L == Lowest(a .. b, k)
             e == IF a + k - 1 < b THEN a + k - 1 ELSE b
  <1>1. ASSUME NEW i \in a .. b PROVE Cardinality({j \in a .. b : j < i}) = i - a
    <2>1. {j \in a .. b : j < i} = a .. (i - 1)
      OBVIOUS
    <2>2. a \in Int /\ i - 1 \in Int
      OBVIOUS
    <2>3. Cardinality(a .. (i - 1)) = IF a > i - 1 THEN 0 ELSE i - 1 - a + 1
      BY <2>2, FS_Interval
    <2>4. Cardinality({j \in a .. b : j < i}) = Cardinality(a .. (i - 1))
      BY Zenon, <2>1
    <2>5. i - a = IF a > i - 1 THEN 0 ELSE i - 1 - a + 1
      OBVIOUS
    <2> QED BY Zenon, <2>3, <2>4, <2>5
  <1>2. L = {i \in a .. b : i - a < k}
    BY <1>1 DEF Lowest
  <1>e. e \in Int /\ e <= b /\ e - a + 1 <= k
    OBVIOUS
  <1>f. \A i \in Int : i \in a .. b /\ i - a < k <=> i \in a .. e
    OBVIOUS
  <1> HIDE DEF L, e
  <1>3. L = a .. e
    <2>1. L \subseteq Int /\ a .. e \subseteq Int
      BY <1>2
    <2>2. \A i \in Int : i \in L <=> i \in a .. e
      BY <1>2, <1>f
    <2> QED BY Zenon, <2>1, <2>2
  <1>4. Cardinality(L) = IF a > e THEN 0 ELSE e - a + 1
    <2>1. Cardinality(a .. e) = IF a > e THEN 0 ELSE e - a + 1
      BY <1>e, FS_Interval
    <2> QED BY Zenon, <1>3, <2>1
  <1>5. CASE a > e
    <2>1. L = {} /\ Cardinality(L) = 0
      BY <1>e, <1>3, <1>4, <1>5
    <2> QED BY <2>1 DEF L
  <1>6. CASE ~ (a > e)
    <2>1. /\ Cardinality(L) \in Nat /\ Cardinality(L) = e - a + 1
          /\ a + Cardinality(L) - 1 = e
      BY <1>e, <1>4, <1>6
    <2>2. L # {} /\ Cardinality(L) # 0
      <3>1. a \in a .. e
        BY <1>e, <1>6
      <3>2. Cardinality(L) # 0
        BY <1>e, <1>6, <2>1
      <3> QED BY <1>3, <3>1, <3>2
    <2>4. L \subseteq a .. b /\ L \subseteq a .. a + Cardinality(L) - 1
      BY <1>e, <1>3, <2>1
    <2>5. a + Cardinality(L) <= b + 1 /\ Cardinality(L) <= k
      BY <1>e, <2>1
    <2> QED BY <2>1, <2>2, <2>4, <2>5 DEF L
  <1> QED BY <1>5, <1>6

LEMMA LowestSize ==
  ASSUME NEW a \in Nat, NEW b \in Nat, NEW k \in Int, a <= b + 1, NEW L, L = Lowest(a .. b, k)
  PROVE  /\ Cardinality(L) \in Nat
         /\ L = {} <=> Cardinality(L) = 0
         /\ Cardinality(L) <= k \/ L = {}
  BY Zenon, LowestInterval

\* Room for one takes the first segment.
LEMMA LowestOne ==
  ASSUME NEW T, IsFiniteSet(T), T \subseteq Nat
  PROVE  LET L == Lowest(T, 1)
         IN  /\ L \subseteq T /\ IsFiniteSet(L) /\ Cardinality(L) \in {0, 1}
             /\ T # {} => Cardinality(L) = 1
             /\ T = {} => Cardinality(L) = 0
  <1> DEFINE L == Lowest(T, 1)
             below(i) == {j \in T : j < i}
  <1>1. ASSUME NEW i \in T PROVE Cardinality(below(i)) < 1 <=> below(i) = {}
    <2>1. IsFiniteSet(below(i))
      BY FS_Subset
    <2> HIDE DEF below
    <2>2. Cardinality(below(i)) \in Nat
      BY <2>1, FS_CardinalityType
    <2>3. Cardinality(below(i)) = 0 <=> below(i) = {}
      BY <2>1, FS_EmptySet
    <2> QED BY <2>2, <2>3
  <1>2. L = {i \in T : Cardinality(below(i)) < 1}
    BY DEF Lowest
  <1> HIDE DEF L
  <1>3. L = {i \in T : below(i) = {}}
    <2> HIDE DEF below
    <2> QED BY Zenon, <1>1, <1>2
  <1>4. CASE T = {}
    <2>1. L = {}
      BY <1>3, <1>4
    <2> QED BY <1>4, <2>1, FS_EmptySet DEF L
  <1>5. CASE T # {}
    <2>1. PICK x \in T : \A y \in T : x <= y
      BY <1>5, NatMin
    <2>2. L = {x}
      <3>1. x \in L
        <4>1. \A y \in T : ~ (y < x)
          BY <2>1
        <4> QED BY <1>3, <4>1
      <3>2. ASSUME NEW i \in L PROVE i = x
        <4>1. i \in T /\ ~ (x < i)
          BY <1>3
        <4>2. x <= i /\ x \in Nat /\ i \in Nat
          BY <2>1, <4>1
        <4> QED BY <4>1, <4>2
      <3> QED BY <3>1, <3>2
    <2>3. L \subseteq T /\ IsFiniteSet(L) /\ Cardinality(L) = 1
      BY <2>2, FS_Singleton
    <2> QED BY <1>5, <2>3 DEF L
  <1> QED BY <1>4, <1>5

LEMMA InFlightType ==
  ASSUME NEW s \in Senders, Board(s)
  PROVE  BytesInFlight(s) \in Int
  <1>1. /\ Cardinality(s.sacked) \in Nat /\ Cardinality(s.lost) \in Nat
        /\ Cardinality(s.retrans) \in Nat
    BY FiniteSent DEF Board
  <1> QED BY <1>1, SenderFields DEF BytesInFlight

LEMMA SendPendingLemma ==
  ASSUME NEW s \in Senders, Board(s), NEW w \in Nat
  PROVE  LET r == SendPendingData(s, w)
         IN  /\ r \in Senders /\ Board(r) /\ Sending(r, s)
  <1> USE SenderFields, NType
  <1> DEFINE open  == ((s.head .. s.high - 1) \ s.retrans) \ s.sacked
             room  == w - BytesInFlight(s)
             lost  == Lowest(open \cap s.lost, room)
             left  == room - Cardinality(lost)
             new   == Lowest(s.high .. N, left)
             more  == (open \ s.lost) \cup new
             again == IF s.cong = "RECOVERY" THEN Lowest(more, left - Cardinality(new)) ELSE {}
             cwr   == new # {} /\ s.ece /\ s.echoSeq > s.cwrSeq
             o     == s.out \cup lost \cup new \cup again
             x     == s.retx \/ lost \cup new \cup again # {}
             t     == s.retrans \cup lost \cup again
             h     == s.high + Cardinality(new)
             e     == s.ece /\ ~ cwr
             q     == IF cwr THEN s.high ELSE s.cwrSeq
             r     == SendPendingData(s, w)
  <1>1. room \in Int
    BY InFlightType
  <1>2. open \subseteq Sent(s)
    BY DEF Sent
  <1>3. lost \subseteq open \cap s.lost
    BY DEF Lowest
  <1>r. r = [s EXCEPT !.out = o, !.retx = x, !.retrans = t, !.high = h, !.ece = e, !.cwrSeq = q]
    BY Zenon DEF SendPendingData
  <1> HIDE DEF room, open
  <1>4. lost \subseteq Sent(s)
    BY <1>2, <1>3
  <1>5. Cardinality(lost) \in Nat
    <2> HIDE DEF lost
    <2> QED BY <1>4, FiniteSent
  <1>6. left \in Int
    BY <1>1, <1>5
  <1> HIDE DEF lost, left
  <1>7. s.high <= N + 1
    BY DEF Board
  <1>8. /\ Cardinality(new) \in Nat /\ new \subseteq s.high .. s.high + Cardinality(new) - 1
        /\ s.high + Cardinality(new) <= N + 1
        /\ new = {} <=> Cardinality(new) = 0
    <2>1. PICK hh \in Nat : hh = s.high
      OBVIOUS
    <2> DEFINE L == Lowest(hh .. N, left)
    <2>2. hh <= N + 1
      BY <1>7, <2>1
    <2>3. /\ Cardinality(L) \in Nat /\ L \subseteq hh .. hh + Cardinality(L) - 1
          /\ hh + Cardinality(L) <= N + 1
          /\ L = {} <=> Cardinality(L) = 0
      BY <1>6, <2>2, LowestInterval
    <2>4. new = L
      BY Zenon, <2>1
    <2> HIDE DEF L, new
    <2> QED BY Zenon, <2>1, <2>3, <2>4
  <1> HIDE DEF new
  <1>9. again \subseteq more
    BY DEF Lowest
  <1> HIDE DEF again
  <1>10. h \in Nat /\ h >= s.high /\ h <= N + 1 /\ (h > s.high => new # {})
    BY <1>8
  <1>11. new \subseteq s.high .. h - 1
    BY <1>8
  <1> HIDE DEF h
  <1>12. again \subseteq s.head .. h - 1
    BY <1>2, <1>9, <1>10, <1>11 DEF Sent, Board
  <1>a. /\ Sent(s) \subseteq s.head .. h - 1 /\ s.head .. h - 1 \subseteq 1 .. h - 1
        /\ 1 .. s.high - 1 \subseteq 1 .. h - 1 /\ s.high .. h - 1 \subseteq 1 .. h - 1
        /\ 1 .. h - 1 \subseteq Nat
    BY <1>10 DEF Sent, Board
  <1>b. s.retrans \subseteq Sent(s) /\ s.out \subseteq 1 .. s.high - 1
    BY DEF Board
  <1>13. t \subseteq s.head .. h - 1 /\ t \in SUBSET Nat
    BY Zenon, <1>a, <1>b, <1>4, <1>12
  <1>14. o \subseteq 1 .. h - 1 /\ o \in SUBSET Nat
    BY Zenon, <1>a, <1>b, <1>4, <1>11, <1>12
  <1>15. x \in BOOLEAN /\ e \in BOOLEAN
    BY DEF x, e
  <1>16. q \in Nat
    OBVIOUS
  <1>17. s.retx \/ h > s.high => x
    BY <1>10
  <1> HIDE DEF o, x, t, e, q, r
  <1>18. r \in Senders
    BY Zenon, <1>r, <1>10, <1>13, <1>14, <1>15, <1>16, SentType
  <1>19. /\ r.head = s.head /\ r.high = h /\ r.sacked = s.sacked /\ r.lost = s.lost
         /\ r.retrans = t /\ r.highestSack = s.highestSack /\ SameCong(r, s) /\ r.retx = x
         /\ r.alive = s.alive /\ r.out = o
    BY <1>r DEF Senders, SameCong
  <1>20. Board(r)
    BY <1>10, <1>13, <1>14, <1>19 DEF Board, Sent, SameCong
  <1>21. Sending(r, s)
    <2>1. s.retx \/ r.high > s.high => r.retx
      BY Zenon, <1>17, <1>19
    <2> QED BY <1>10, <1>19, <2>1 DEF Sending
  <1> QED BY <1>18, <1>20, <1>21 DEF r

-----------------------------------------------------------------------------
(* The two events of a sender *)

LEMMA ReceivedAckLemma ==
  ASSUME NEW s \in Senders, Board(s), Excused(s), Congestion(s), Timed(s),
         NEW m \in Acks, NEW w \in Nat, s.head <= m.ack, m.ack <= s.high,
         m.ack \notin s.sacked, \A i \in Blocks(m.sack) : m.ack < i
  PROVE  LET r == ReceivedAck(s, m, w)
         IN  /\ r \in Senders /\ Board(r) /\ Excused(r) /\ Congestion(r) /\ Timed(r)
             /\ r.head = m.ack /\ r.high >= s.high /\ r.alive = s.alive
             /\ r.sacked \subseteq s.sacked \cup Blocks(m.sack)
  <1> USE SenderFields, NType, EcnAssumption
  <1> DEFINE u == Update(s, m.sack)
             t == DiscardUpTo(u, m.ack)
             left == IF t.cong = "CWR" /\ m.ack > t.recover THEN [t EXCEPT !.cong = "OPEN"] ELSE t
             dupack == u.sacked # s.sacked
             e == Echo(left, m, s.head)
             p == ProcessAck(e, dupack, s.head)
             r == ReceivedAck(s, m, w)
  <1>0. m.ack \in Nat /\ m.sack \in Seq(SUBSET Nat)
    BY DEF Acks
  <1>r. r = SendPendingData(p, w)
    BY Zenon DEF ReceivedAck
  <1>1. PICK a \in Nat : a = m.ack
    BY <1>0
  <1>2. PICK list \in Seq(SUBSET Nat) : list = m.sack
    BY <1>0
  <1>3. \A i \in Blocks(list) : i \in Nat /\ a < i
    <2>1. Blocks(list) \subseteq Nat
      BY DEF Blocks, Range
    <2> QED BY <1>1, <1>2, <2>1
  <1>4. /\ u \in Senders /\ Board(u) /\ SameButFlags(u, s)
        /\ s.sacked \subseteq u.sacked /\ u.sacked \subseteq s.sacked \cup Blocks(list)
    <2>1. \A i \in Blocks(list) : i # s.head
      BY <1>1, <1>3
    <2>2. u = Update(s, list)
      BY Zenon, <1>2
    <2> DEFINE v == Update(s, list)
    <2>3. /\ v \in Senders /\ Board(v) /\ SameButFlags(v, s)
          /\ s.sacked \subseteq v.sacked /\ v.sacked \subseteq s.sacked \cup Blocks(list)
      BY <2>1, UpdateLemma
    <2> QED BY Zenon, <2>2, <2>3
  <1> HIDE DEF u
  <1>5. u.head <= a /\ a <= u.high /\ a \notin u.sacked
    <2>1. a \notin Blocks(list)
      BY <1>3
    <2> QED BY <1>1, <1>4, <2>1 DEF SameButFlags
  <1>6. /\ t \in Senders /\ Board(t) /\ t.head = a /\ t.high = u.high /\ SameCong(t, u)
        /\ t.retx = u.retx /\ t.alive = u.alive
        /\ t.sacked = {i \in u.sacked : i >= a}
    <2> DEFINE v == DiscardUpTo(u, a)
    <2>1. /\ v \in Senders /\ Board(v) /\ v.head = a /\ v.high = u.high /\ SameCong(v, u)
          /\ v.retx = u.retx /\ v.alive = u.alive
          /\ v.sacked = {i \in u.sacked : i >= a}
      BY <1>4, <1>5, DiscardLemma
    <2>2. t = v
      BY Zenon, <1>1
    <2> QED BY Zenon, <2>1, <2>2
  <1> HIDE DEF t
  <1>7. /\ t.cong = s.cong /\ t.dupAckCount = s.dupAckCount /\ t.recover = s.recover
        /\ t.recoverActive = s.recoverActive /\ t.failed = s.failed
        /\ t.high = s.high /\ t.retx = s.retx /\ t.alive = s.alive
    BY Zenon, <1>4, <1>6 DEF SameButFlags, SameCong
  <1>8. Excused(t) /\ Timed(t) /\ s.head <= t.head
    <2>1. Excused(t)
      BY Zenon, <1>7 DEF Excused
    <2>2. s.head <= t.head
      BY <1>1, <1>6
    <2>3. t.head < t.high => s.head < s.high
      BY <1>6, <1>7, <2>2
    <2>4. Timed(t)
      BY Zenon, <1>7, <2>3 DEF Timed
    <2> QED BY <2>1, <2>2, <2>4
  <1>9. t.recoverActive <=> s.recoverActive
    BY Zenon, <1>7
  <1>10. Fit(left, s.head) /\ SameSent(left, t) /\ left.alive = t.alive
    <2>1. CASE t.cong = "CWR" /\ m.ack > t.recover
      <3>1. left = [t EXCEPT !.cong = "OPEN"] /\ "OPEN" \in CongStates
        BY <2>1 DEF CongStates
      <3>2. s.head < t.head /\ t.recover < t.head /\ UseEcn
        BY <1>1, <1>6, <1>7, <1>8, <2>1 DEF Congestion
      <3> HIDE DEF left
      <3>3. left \in Senders
        BY <1>6, <3>1 DEF Senders
      <3>4. SameBoard(left, t) /\ left.cong = "OPEN" /\ left.dupAckCount = t.dupAckCount
            /\ left.failed = t.failed
        BY <1>6, <3>1 DEF SameBoard, SameSent, Senders
      <3>5. Board(left) /\ Timed(left)
        BY <1>6, <1>8, <3>3, <3>4, SameBoardLemma
      <3>6. Excused(left)
        BY <1>8, <3>4 DEF Excused
      <3>7. Midway(left, s.head)
        <4>1. left.head = t.head /\ left.recover = t.recover
          BY <3>4 DEF SameBoard, SameSent
        <4> QED BY <3>2, <1>8, <3>4, <4>1 DEF Midway
      <3> QED BY <3>3, <3>4, <3>5, <3>6, <3>7 DEF Fit, SameBoard
    <2>2. CASE ~ (t.cong = "CWR" /\ m.ack > t.recover)
      <3>1. left = t
        BY <2>2
      <3>2. t.cong = "CWR" => t.head <= t.recover
        BY <1>1, <1>6, <2>2
      <3>3. Midway(t, s.head)
        BY <1>6, <1>7, <1>8, <1>9, <3>2 DEF Congestion, Midway
      <3> QED BY <1>6, <1>8, <3>1, <3>3 DEF Fit, SameSent
    <2> QED BY <2>1, <2>2
  <1> HIDE DEF left
  <1>11. Fit(e, s.head) /\ Kept(e, left) /\ SameSent(e, left)
    <2>1. PICK old \in Nat : old = s.head
      OBVIOUS
    <2> DEFINE v == Echo(left, m, old)
    <2>2. Fit(left, old)
      BY <1>10, <2>1
    <2>3. Fit(v, old) /\ Kept(v, left) /\ SameSent(v, left)
      BY <2>2, EchoLemma
    <2>4. e = v
      BY Zenon, <2>1
    <2> QED BY Zenon, <2>1, <2>3, <2>4
  <1> HIDE DEF e
  <1>12. e.head = a /\ e.high = s.high /\ e.sacked = t.sacked /\ e.alive = s.alive
    BY Zenon, <1>6, <1>7, <1>10, <1>11 DEF SameSent, Kept
  <1>13. dupack => e.head < e.high
    <2> SUFFICES ASSUME dupack PROVE e.head < e.high
      OBVIOUS
    <2>1. PICK i \in u.sacked : i \notin s.sacked
      BY <1>4
    <2>2. i \in Blocks(list)
      BY <1>4, <2>1
    <2>3. i \in Nat /\ a < i
      BY <1>3, <2>2
    <2>4. i \in t.sacked
      BY <1>6, <2>1, <2>3
    <2>5. i \in Sent(t)
      BY <1>6, <2>4 DEF Board
    <2> QED BY <1>6, <1>7, <1>12, <2>3, <2>5 DEF Sent
  <1>14. dupack \in BOOLEAN
    OBVIOUS
  <1> HIDE DEF dupack
  <1>15. p \in Senders /\ Board(p) /\ Excused(p) /\ Timed(p) /\ Congestion(p) /\ Kept(p, e)
    <2>1. PICK old \in Nat : old = s.head
      OBVIOUS
    <2> DEFINE v == ProcessAck(e, dupack, old)
    <2>2. Fit(e, old)
      BY <1>11, <2>1
    <2>3. v \in Senders /\ Board(v) /\ Excused(v) /\ Timed(v) /\ Congestion(v) /\ Kept(v, e)
      BY <1>13, <1>14, <2>2, ProcessAckLemma
    <2>4. p = v
      BY Zenon, <2>1
    <2> QED BY Zenon, <2>3, <2>4
  <1> HIDE DEF p
  <1>16. r \in Senders /\ Board(r) /\ Sending(r, p)
    <2> DEFINE v == SendPendingData(p, w)
    <2>1. v \in Senders /\ Board(v) /\ Sending(v, p)
      BY <1>15, SendPendingLemma
    <2> QED BY Zenon, <1>r, <2>1
  <1> HIDE DEF r
  <1>17. Excused(r) /\ Congestion(r)
    <2>1. SameCong(r, p) /\ r.head = p.head
      BY <1>16 DEF Sending
    <2> QED BY <1>15, <2>1, SameCongLemma
  <1>18. Timed(r)
    <2>1. (r.alive <=> p.alive) /\ r.head = p.head /\ (p.retx \/ r.high > p.high => r.retx)
          /\ r.high >= p.high
      BY Zenon, <1>16 DEF Sending
    <2> QED BY <1>15, <1>16, <2>1 DEF Timed
  <1>19. r.head = a /\ r.alive = s.alive /\ r.sacked = t.sacked
    BY Zenon, <1>12, <1>15, <1>16 DEF Kept, Sending
  <1>20. r.high >= s.high
    BY <1>12, <1>15, <1>16 DEF Kept, Sending
  <1>21. r.sacked \subseteq s.sacked \cup Blocks(m.sack)
    BY <1>2, <1>4, <1>6, <1>19
  <1> QED BY <1>1, <1>16, <1>17, <1>18, <1>19, <1>20, <1>21 DEF r

\* After a timeout everything that is not SACKed is lost and nothing is in flight.
LEMMA EnterLossLemma ==
  ASSUME NEW s \in Senders, Board(s), s.dataRetrCount # 0
  PROVE  LET r == EnterLoss(s)
         IN  /\ r \in Senders /\ Board(r) /\ SameSent(r, s)
             /\ r.lost = Sent(s) \ s.sacked /\ r.retrans = {} /\ BytesInFlight(r) = 0
             /\ r.cong = "LOSS" /\ r.dupAckCount = 0 /\ r.recover = s.high /\ r.recoverActive
             /\ r.failed = s.failed /\ r.alive = s.alive
  <1> USE SenderFields, NType
  <1> DEFINE d == s.dataRetrCount - 1
             t == [s EXCEPT !.dataRetrCount = d, !.dupAckCount = 0, !.recover = s.high,
                            !.recoverActive = TRUE, !.cong = "LOSS"]
             k == t.lost \cup ((t.head .. t.high - 1) \ t.sacked)
             l == [t EXCEPT !.retrans = {}, !.lost = k]
             r == EnterLoss(s)
  <1>r. r = Check(l, BytesInFlight(l) = 0, "ReTxTimeout")
    BY Zenon DEF EnterLoss, SetSentListLost
  <1>1. d \in 0 .. DataRetries /\ 0 \in Nat /\ s.high \in Nat /\ TRUE \in BOOLEAN
        /\ "LOSS" \in CongStates
    BY DEF CongStates
  <1> HIDE DEF d
  <1>2. t \in Senders
    BY Zenon, <1>1 DEF Senders
  <1>3. /\ SameSent(t, s) /\ t.lost = s.lost /\ t.highestSack = s.highestSack
        /\ t.cong = "LOSS" /\ t.dupAckCount = 0 /\ t.recover = s.high /\ t.recoverActive
        /\ t.failed = s.failed /\ t.alive = s.alive /\ t.out = s.out
    BY DEF SameSent, Senders
  <1> HIDE DEF t
  <1>4. k = Sent(s) \ s.sacked
    BY <1>3 DEF Board, Sent, SameSent
  <1>5. k \in SUBSET Nat /\ {} \in SUBSET Nat
    BY <1>4 DEF Sent, Board
  <1> HIDE DEF k
  <1>6. l \in Senders
    BY Zenon, <1>2, <1>5 DEF Senders
  <1>7. /\ SameSent(l, s) /\ l.lost = k /\ l.retrans = {} /\ l.highestSack = s.highestSack
        /\ l.cong = "LOSS" /\ l.dupAckCount = 0 /\ l.recover = s.high /\ l.recoverActive
        /\ l.failed = s.failed /\ l.alive = s.alive /\ l.out = s.out
    BY <1>2, <1>3 DEF SameSent, Senders
  <1> HIDE DEF l
  <1>8. Board(l)
    BY <1>4, <1>7 DEF Board, Sent, SameSent
  <1>9. BytesInFlight(l) = 0
    <2> DEFINE S == Sent(s)
               A == s.sacked
    <2>0. A \subseteq S
      BY DEF Board
    <2>1. IsFiniteSet(S) /\ Cardinality(S) = s.high - s.head
      <3>1. s.head \in Int /\ s.high - 1 \in Int
        OBVIOUS
      <3>2. /\ IsFiniteSet(s.head .. s.high - 1)
            /\ Cardinality(s.head .. s.high - 1)
                 = IF s.head > s.high - 1 THEN 0 ELSE s.high - 1 - s.head + 1
        BY <3>1, FS_Interval
      <3>3. s.high - s.head = IF s.head > s.high - 1 THEN 0 ELSE s.high - 1 - s.head + 1
        BY DEF Board
      <3>4. S = s.head .. s.high - 1
        BY DEF Sent
      <3> HIDE DEF S
      <3>6. IsFiniteSet(S)
        BY Zenon, <3>2, <3>4
      <3>7. Cardinality(S) = IF s.head > s.high - 1 THEN 0 ELSE s.high - 1 - s.head + 1
        BY Zenon, <3>2, <3>4
      <3> QED BY <3>3, <3>6, <3>7
    <2> HIDE DEF S, A
    <2>2. Cardinality(S \ A) = Cardinality(S) - Cardinality(A) /\ Cardinality(A) \in Nat
      <3>1. IsFiniteSet(A) /\ IsFiniteSet(S \ A)
        BY <2>0, <2>1, FS_Subset
      <3>2. A \cup (S \ A) = S /\ A \cap (S \ A) = {}
        BY <2>0
      <3>3. Cardinality(A \cup (S \ A)) = Cardinality(A) + Cardinality(S \ A)
                                           - Cardinality(A \cap (S \ A))
        BY <3>1, FS_Union
      <3>4. /\ Cardinality(A) \in Nat /\ Cardinality(S \ A) \in Nat
            /\ Cardinality({}) = 0
        BY <3>1, FS_CardinalityType, FS_EmptySet
      <3>5. Cardinality(S) = Cardinality(A) + Cardinality(S \ A) - 0
        BY Zenon, <3>2, <3>3, <3>4
      <3>6. Cardinality(S) \in Nat
        BY <2>1, FS_CardinalityType
      <3> QED BY <3>4, <3>5, <3>6
    <2>3. BytesInFlight(l) = (s.high - s.head) - Cardinality(A) - Cardinality(S \ A)
                              + Cardinality({})
      <3>1. l.lost = S \ A /\ l.sacked = A /\ l.head = s.head /\ l.high = s.high /\ l.retrans = {}
        BY Zenon, <1>4, <1>7 DEF S, A, SameSent
      <3> QED BY Zenon, <3>1 DEF BytesInFlight
    <2>4. Cardinality({}) = 0
      BY FS_EmptySet
    <2> QED BY <2>1, <2>2, <2>3, <2>4
  <1>10. r = l
    BY Zenon, <1>r, <1>9 DEF Check
  <1> QED BY Zenon, <1>4, <1>6, <1>7, <1>8, <1>9, <1>10

\* What a timeout sends: one segment, if there is any, and with it the timer.
LEMMA LossSendLemma ==
  ASSUME NEW s \in Senders, Board(s), s.cong = "LOSS", s.lost = Sent(s) \ s.sacked,
         s.retrans = {}, BytesInFlight(s) = 0
  PROVE  LET r == SendPendingData(s, 1)
         IN  /\ r \in Senders /\ Board(r) /\ Sending(r, s)
             /\ BytesInFlight(r) <= 1 /\ (r.head < r.high => r.retx)
  <1> USE SenderFields, NType
  <1> DEFINE open  == ((s.head .. s.high - 1) \ s.retrans) \ s.sacked
             room  == 1 - BytesInFlight(s)
             lost  == Lowest(open \cap s.lost, room)
             left  == room - Cardinality(lost)
             new   == Lowest(s.high .. N, left)
             more  == (open \ s.lost) \cup new
             again == IF s.cong = "RECOVERY" THEN Lowest(more, left - Cardinality(new)) ELSE {}
             cwr   == new # {} /\ s.ece /\ s.echoSeq > s.cwrSeq
             o     == s.out \cup lost \cup new \cup again
             x     == s.retx \/ lost \cup new \cup again # {}
             t     == s.retrans \cup lost \cup again
             h     == s.high + Cardinality(new)
             e     == s.ece /\ ~ cwr
             q     == IF cwr THEN s.high ELSE s.cwrSeq
             r     == SendPendingData(s, 1)
  <1>1. r \in Senders /\ Board(r) /\ Sending(r, s)
    <2>1. 1 \in Nat
      OBVIOUS
    <2> QED BY <2>1, SendPendingLemma
  <1>r. r = [s EXCEPT !.out = o, !.retx = x, !.retrans = t, !.high = h, !.ece = e, !.cwrSeq = q]
    BY Zenon DEF SendPendingData
  <1>2. open \cap s.lost = s.lost /\ room = 1
    BY DEF Sent
  <1>3. lost = Lowest(s.lost, 1)
    <2> HIDE DEF open, room
    <2> QED BY Zenon, <1>2
  <1>4. again = {}
    OBVIOUS
  <1> HIDE DEF open, again
  <1>5. /\ lost \subseteq s.lost /\ Cardinality(lost) \in {0, 1}
        /\ s.lost # {} => Cardinality(lost) = 1
        /\ s.lost = {} => Cardinality(lost) = 0
    <2>1. IsFiniteSet(s.lost) /\ s.lost \subseteq Nat
      BY FiniteSent DEF Board
    <2>2. PICK T : T = s.lost
      OBVIOUS
    <2> DEFINE L == Lowest(T, 1)
    <2>3. /\ L \subseteq T /\ Cardinality(L) \in {0, 1}
          /\ T # {} => Cardinality(L) = 1
          /\ T = {} => Cardinality(L) = 0
      BY <2>1, <2>2, LowestOne
    <2>4. lost = L
      BY Zenon, <1>3, <2>2
    <2> HIDE DEF lost, L
    <2> QED BY Zenon, <2>2, <2>3, <2>4
  <1> HIDE DEF lost
  <1>6. left = 1 - Cardinality(lost) /\ left \in Int
    BY <1>2, <1>5
  <1> HIDE DEF left, room
  <1>7. /\ Cardinality(new) \in Nat /\ (new = {} <=> Cardinality(new) = 0)
        /\ Cardinality(new) <= left \/ new = {}
    <2>1. PICK hh \in Nat : hh = s.high
      OBVIOUS
    <2>5. PICK k \in Int : k = left
      BY <1>6
    <2> DEFINE L == Lowest(hh .. N, k)
    <2>2. hh <= N + 1
      BY <2>1 DEF Board
    <2>3. /\ Cardinality(L) \in Nat
          /\ L = {} <=> Cardinality(L) = 0
          /\ Cardinality(L) <= k \/ L = {}
      <3>1. N \in Nat
        BY NType
      <3> QED BY Zenon, <2>2, <3>1, LowestSize
    <2>4. new = L
      BY Zenon, <2>1, <2>5
    <2> HIDE DEF L, new
    <2> QED BY Zenon, <2>3, <2>4, <2>5
  <1> HIDE DEF new
  <1>8. Cardinality(new) + Cardinality(lost) <= 1
    BY <1>5, <1>6, <1>7
  <1>9. t = lost
    BY <1>4
  <1> HIDE DEF o, x, h, e, q, r
  <1>10. /\ r.head = s.head /\ r.high = h /\ r.sacked = s.sacked /\ r.lost = s.lost
         /\ r.retrans = t /\ r.retx = x
    <2> HIDE DEF t
    <2> QED BY <1>r DEF Senders
  <1>11. BytesInFlight(r) <= 1
    <2>1. /\ Cardinality(s.sacked) \in Nat /\ Cardinality(s.lost) \in Nat
          /\ Cardinality({}) = 0
      BY FiniteSent, FS_EmptySet DEF Board
    <2>2. (s.high - s.head) - Cardinality(s.sacked) - Cardinality(s.lost) + Cardinality({}) = 0
      BY DEF BytesInFlight
    <2>3. BytesInFlight(r) = (h - s.head) - Cardinality(s.sacked) - Cardinality(s.lost)
                              + Cardinality(lost)
      BY <1>9, <1>10 DEF BytesInFlight
    <2> QED BY <1>5, <1>7, <1>8, <2>1, <2>2, <2>3 DEF h
  <1>12. ASSUME r.head < r.high PROVE r.retx
    <2>1. x
      <3>1. CASE new # {}
        BY <3>1 DEF x
      <3>2. CASE new = {}
        <4>1. h = s.high
          BY <1>7, <3>2 DEF h
        <4>2. s.head \in s.lost
          BY <1>10, <1>12, <4>1 DEF Sent, Board
        <4>3. Cardinality(lost) = 1
          BY <1>5, <4>2
        <4>4. lost # {}
          BY <4>3, FS_EmptySet
        <4> QED BY <4>4 DEF x
      <3> QED BY <3>1, <3>2
    <2> QED BY Zenon, <1>10, <2>1
  <1> QED BY <1>1, <1>11, <1>12 DEF r

-----------------------------------------------------------------------------
(* The receiver *)

LEMMA ReceiverFields ==
  ASSUME NEW r \in Receivers
  PROVE  r.nextRx \in Nat /\ r.held \in SUBSET Nat /\ r.sackList \in Seq(SUBSET Nat)
         /\ r.delAck \in BOOLEAN
  BY DEF Receivers

\* The block that a new segment makes with its neighbours has no gaps.
LEMMA JoinedConvex ==
  ASSUME NEW i \in Nat, NEW near, \A b \in near : b \in SUBSET Nat /\ Convex(b),
         \A b \in near : i - 1 \in b \/ i + 1 \in b
  PROVE  Convex({i} \cup (UNION near))
  <1> DEFINE J == {i} \cup (UNION near)
  <1>1. ASSUME NEW x \in J, NEW z \in Int, i <= z, z <= x
        PROVE  z \in J
    <2>1. CASE x = i
      BY <1>1, <2>1
    <2>2. CASE x # i
      <3>1. PICK b \in near : x \in b
        BY <2>2
      <3>2. x \in Nat /\ b \subseteq J /\ b \in SUBSET Nat
        BY <3>1
      <3>3. PICK y \in b : y = i - 1 \/ y = i + 1
        BY <3>1
      <3>4. CASE z = i
        BY <3>4
      <3>5. CASE z # i
        <4>1. z \in y .. x /\ y \in Nat
          BY <1>1, <3>2, <3>3, <3>5
        <4>2. y .. x \subseteq b
          BY <3>1, <3>3 DEF Convex
        <4> QED BY <3>2, <4>1, <4>2
      <3> QED BY <3>4, <3>5
    <2> QED BY <2>1, <2>2
  <1>2. ASSUME NEW x \in J, NEW z \in Int, x <= z, z <= i
        PROVE  z \in J
    <2>1. CASE x = i
      BY <1>2, <2>1
    <2>2. CASE x # i
      <3>1. PICK b \in near : x \in b
        BY <2>2
      <3>2. x \in Nat /\ b \subseteq J /\ b \in SUBSET Nat
        BY <3>1
      <3>3. PICK y \in b : y = i - 1 \/ y = i + 1
        BY <3>1
      <3>4. CASE z = i
        BY <3>4
      <3>5. CASE z # i
        <4>1. z \in x .. y /\ y \in Nat
          BY <1>2, <3>2, <3>3, <3>5
        <4>2. x .. y \subseteq b
          BY <3>1, <3>3 DEF Convex
        <4> QED BY <3>2, <4>1, <4>2
      <3> QED BY <3>4, <3>5
    <2> QED BY <2>1, <2>2
  <1>3. \A x \in J : x \in Nat
    OBVIOUS
  <1> HIDE DEF J
  <1>4. ASSUME NEW x \in J, NEW y \in J, NEW z \in x .. y PROVE z \in J
    <2>1. x \in Nat /\ y \in Nat /\ z \in Int /\ x <= z /\ z <= y
      BY <1>3
    <2> QED BY <1>1, <1>2, <2>1
  <1> QED BY <1>4 DEF Convex, J

\* What holds of the receiver's list of blocks.
Listed(list, held) ==
    list \in Seq(SUBSET Nat) /\ \A b \in Range(list) : b \subseteq held /\ Convex(b)

LEMMA UpdateSackLemma ==
  ASSUME NEW list, NEW held \in SUBSET Nat, Listed(list, held), NEW i \in Nat
  PROVE  Listed(UpdateSackList(list, i), held \cup {i})
  <1> DEFINE near == {b \in Range(list) : i - 1 \in b \/ i + 1 \in b}
             J == {i} \cup (UNION near)
             tail == Select(list, Range(list) \ near)
             front == <<J>> \o tail
             n == IF Len(front) > 4 THEN 4 ELSE Len(front)
             r == UpdateSackList(list, i)
  <1>0. list \in Seq(SUBSET Nat) /\ \A b \in Range(list) : b \subseteq held /\ Convex(b)
    BY DEF Listed
  <1>1. \A b \in near : b \in SUBSET Nat /\ Convex(b) /\ (i - 1 \in b \/ i + 1 \in b) /\ b \subseteq held
    BY <1>0
  <1>2. tail \in Seq(SUBSET Nat) /\ \A b \in Range(tail) : b \in Range(list)
    BY <1>0, SelectLemma
  <1>r. r = SubSeq(front, 1, n)
    BY Zenon DEF UpdateSackList
  <1> HIDE DEF near, tail
  <1>3. J \in SUBSET Nat /\ J \subseteq held \cup {i} /\ Convex(J)
    BY <1>1, JoinedConvex
  <1> HIDE DEF J
  <1>4. front \in Seq(SUBSET Nat) /\ Len(front) >= 1
    BY <1>2, <1>3
  <1>5. \A k \in 1 .. Len(front) : front[k] = J \/ front[k] \in Range(tail)
    BY <1>2, <1>3 DEF Range
  <1> HIDE DEF front
  <1>6. n \in 1 .. Len(front)
    BY <1>4
  <1> HIDE DEF n
  <1>7. r \in Seq(SUBSET Nat) /\ Len(r) = n /\ \A k \in 1 .. n : r[k] = front[k]
    BY <1>r, <1>4, <1>6
  <1> HIDE DEF r
  <1>8. \A b \in Range(r) : b = J \/ b \in Range(list)
    <2> TAKE b \in Range(r)
    <2>1. PICK k \in 1 .. n : b = r[k]
      BY <1>7 DEF Range
    <2> QED BY <1>2, <1>5, <1>6, <1>7, <2>1
  <1>9. \A b \in Range(r) : b \subseteq held \cup {i} /\ Convex(b)
    BY <1>0, <1>3, <1>8
  <1> QED BY <1>7, <1>9 DEF Listed, r

\* What is cleared has been received in order, the rest is beyond the gap.
LEMMA ClearSackLemma ==
  ASSUME NEW list, NEW held \in SUBSET (0 .. N), Listed(list, held), NEW q \in Nat, q \notin held
  PROVE  Listed(ClearSackList(list, q), {j \in held : j > q})
  <1> USE NType
  <1> DEFINE set == {b \in Range(list) : Max(b) >= q}
             r == ClearSackList(list, q)
  <1>0. list \in Seq(SUBSET Nat) /\ \A b \in Range(list) : b \subseteq held /\ Convex(b)
    BY DEF Listed
  <1>1. r \in Seq(SUBSET Nat) /\ \A b \in Range(r) : b \in Range(list) /\ b \in set
    <2>1. r = Select(list, set)
      BY Zenon DEF ClearSackList
    <2> HIDE DEF r, set
    <2> QED BY <1>0, <2>1, SelectLemma
  <1> HIDE DEF r
  <1>2. ASSUME NEW b \in Range(r), NEW x \in b PROVE x > q
    <2>1. b \subseteq held /\ Convex(b) /\ Max(b) >= q
      BY <1>0, <1>1
    <2>2. b \subseteq 0 .. N /\ b # {}
      BY <2>1
    <2>3. Max(b) \in b /\ \A y \in b : y <= Max(b)
      BY <2>2, MaxOf
    <2>4. PICK y \in b : y = Max(b)
      BY <2>3
    <2>5. y \in held /\ y >= q /\ x \in held
      BY <2>1, <2>4
    <2>6. x \in Nat /\ y \in Nat /\ y # q /\ x # q
      BY <2>5
    <2>7. ASSUME x < q PROVE FALSE
      <3>1. q \in x .. y
        BY <2>5, <2>6, <2>7
      <3>2. q \in b
        BY <2>1, <3>1 DEF Convex
      <3> QED BY <2>1, <3>2
    <2> QED BY <2>6, <2>7
  <1>3. \A b \in Range(r) : b \subseteq {j \in held : j > q} /\ Convex(b)
    BY <1>0, <1>1, <1>2
  <1> QED BY <1>1, <1>3 DEF Listed, r

Got(r) == r.held \cup (1 .. r.nextRx - 1)

Assembled(r) ==
    /\ r \in Receivers /\ 1 <= r.nextRx /\ r.nextRx <= N + 1
    /\ r.held \subseteq r.nextRx + 1 .. N
    /\ Listed(r.sackList, r.held)

\* A new segment is added to what the receiver has, and nothing else.
LEMMA AddLemma ==
  ASSUME NEW r, Assembled(r), NEW i \in 1 .. N, i >= r.nextRx, i \notin r.held
  PROVE  LET a == Add(r, i)
         IN  Assembled(a) /\ a.nextRx >= r.nextRx /\ Got(a) = Got(r) \cup {i}
  <1> USE NType, ReceiverFields
  <1> DEFINE held == r.held \cup {i}
             next == CHOOSE q \in r.nextRx .. N + 1 :
                        q \notin held /\ (r.nextRx .. q - 1) \subseteq held
             a == Add(r, i)
  <1>0. r \in Receivers /\ r.nextRx \in Nat /\ 1 <= r.nextRx /\ r.nextRx <= N + 1
        /\ r.held \subseteq r.nextRx + 1 .. N /\ Listed(r.sackList, r.held)
    BY DEF Assembled
  <1>1. held \in SUBSET Nat /\ held \subseteq r.nextRx .. N
    BY <1>0
  <1>r. a = IF i > r.nextRx
            THEN [r EXCEPT !.held = held, !.sackList = UpdateSackList(@, i)]
            ELSE [r EXCEPT !.held = {j \in held : j > next}, !.nextRx = next,
                           !.sackList = ClearSackList(@, next)]
    BY Zenon DEF Add
  <1>2. PICK list \in Seq(SUBSET Nat) : list = r.sackList
    BY <1>0
  <1>3. Listed(list, r.held)
    BY <1>0, <1>2
  <1>4. CASE i > r.nextRx
    <2> DEFINE u == UpdateSackList(list, i)
    <2>1. Listed(u, held)
      BY <1>0, <1>3, UpdateSackLemma
    <2>2. a = [r EXCEPT !.held = held, !.sackList = u]
      BY Zenon, <1>r, <1>2, <1>4
    <2>3. u \in Seq(SUBSET Nat)
      BY <2>1 DEF Listed
    <2>4. held \subseteq r.nextRx + 1 .. N
      BY <1>0, <1>4
    <2> HIDE DEF u, held, a
    <2>5. a \in Receivers
      BY Zenon, <1>0, <1>1, <2>2, <2>3 DEF Receivers
    <2>6. a.nextRx = r.nextRx /\ a.held = held /\ a.sackList = u
      BY <1>0, <2>2 DEF Receivers
    <2>7. Assembled(a)
      BY <1>0, <2>1, <2>4, <2>5, <2>6 DEF Assembled
    <2>8. Got(a) = Got(r) \cup {i}
      BY <2>6 DEF Got, held
    <2> QED BY <1>0, <2>6, <2>7, <2>8 DEF a
  <1>5. CASE ~ (i > r.nextRx)
    <2>0. i = r.nextRx
      BY <1>0, <1>5
    <2>1. /\ next \in r.nextRx .. N + 1 /\ next \notin held
          /\ (r.nextRx .. next - 1) \subseteq held
      <3> DEFINE M == (r.nextRx .. N + 1) \ held
      <3>1. N + 1 \in M
        BY <1>0, <1>1
      <3>2. M \subseteq Nat /\ M # {}
        BY <1>0, <3>1
      <3>3. PICK q \in M : \A y \in M : q <= y
        BY <3>2, NatMin
      <3>4. q \in r.nextRx .. N + 1 /\ q \notin held
        BY <3>3
      <3>5. (r.nextRx .. q - 1) \subseteq held
        <4> SUFFICES ASSUME NEW y \in r.nextRx .. q - 1, y \notin held PROVE FALSE
          OBVIOUS
        <4>1. y \in M /\ y < q /\ q \in Nat /\ y \in Nat
          BY <1>0, <3>4
        <4> QED BY <3>3, <4>1
      <3> HIDE DEF M, held
      <3> QED BY Zenon, <3>4, <3>5
    <2> DEFINE rest == {j \in held : j > next}
               u == ClearSackList(list, next)
    <2>2. a = [r EXCEPT !.held = rest, !.nextRx = next, !.sackList = u]
      BY Zenon, <1>r, <1>2, <1>5
    <2> HIDE DEF next
    <2>3. next \in Nat /\ next >= r.nextRx /\ next <= N + 1 /\ next >= 1
      BY <1>0, <2>1
    <2>4. Listed(list, held)
      BY <1>3 DEF Listed
    <2>5. held \in SUBSET (0 .. N)
      BY <1>0, <1>1
    <2> HIDE DEF held, a
    <2>6. Listed(u, rest)
      BY <2>1, <2>3, <2>4, <2>5, ClearSackLemma
    <2>7. u \in Seq(SUBSET Nat)
      BY <2>6 DEF Listed
    <2>8. rest \in SUBSET Nat /\ rest \subseteq next + 1 .. N
      <3>1. \A j \in held : j \in Nat /\ j <= N
        BY <2>5
      <3>2. \A j \in rest : j \in held /\ j > next
        BY Zenon
      <3> HIDE DEF rest
      <3>3. \A j \in rest : j \in Nat /\ j \in next + 1 .. N
        BY <2>3, <3>1, <3>2
      <3> QED BY Zenon, <3>3
    <2>9. rest \cup (1 .. next - 1) = held \cup (1 .. r.nextRx - 1)
      <3>1. \A j \in Nat : j \in rest <=> j \in held /\ j > next
        OBVIOUS
      <3>2. \A j \in Nat : j \in held => j >= r.nextRx /\ j # next
        BY <1>0, <1>1, <2>1
      <3>3. \A j \in Nat : r.nextRx <= j /\ j < next => j \in held
        BY <1>0, <2>1, <2>3
      <3>4. rest \subseteq Nat /\ held \subseteq Nat
        BY <1>1
      <3> HIDE DEF rest
      <3>5. \A j \in Nat : j \in rest \cup (1 .. next - 1) <=> j \in held \cup (1 .. r.nextRx - 1)
        BY <1>0, <2>3, <3>1, <3>2, <3>3
      <3>6. /\ rest \cup (1 .. next - 1) \subseteq Nat
            /\ held \cup (1 .. r.nextRx - 1) \subseteq Nat
        <4>1. 1 .. next - 1 \subseteq Nat /\ 1 .. r.nextRx - 1 \subseteq Nat
          BY <1>0, <2>3
        <4> QED BY Zenon, <3>4, <4>1
      <3> QED BY Zenon, <3>5, <3>6
    <2> HIDE DEF u, rest
    <2>10. a \in Receivers
      BY Zenon, <1>0, <2>2, <2>3, <2>7, <2>8 DEF Receivers
    <2>11. a.nextRx = next /\ a.held = rest /\ a.sackList = u
      BY <1>0, <2>2 DEF Receivers
    <2>12. Assembled(a)
      BY <2>3, <2>6, <2>8, <2>10, <2>11 DEF Assembled
    <2>13. Got(a) = Got(r) \cup {i}
      <3>1. Got(a) = held \cup (1 .. r.nextRx - 1)
        BY Zenon, <2>9, <2>11 DEF Got
      <3> QED BY Zenon, <3>1 DEF Got, held
    <2> QED BY <2>3, <2>11, <2>12, <2>13 DEF a
  <1> QED BY <1>4, <1>5

-----------------------------------------------------------------------------
(* The invariant *)

LEMMA InitInv == Init => TInv
  <1> SUFFICES ASSUME Init PROVE TInv
    OBVIOUS
  <1> USE NType, EcnAssumption
  <1>1. snd = InitialSender /\ rcv = InitialReceiver /\ data = {} /\ acks = {}
    BY DEF Init
  <1>2. snd \in Senders
    <2>1. DataRetries \in 0 .. DataRetries /\ "OPEN" \in CongStates
      BY DEF CongStates
    <2> QED BY <1>1, <2>1 DEF InitialSender, Senders, NoSeg
  <1>3. /\ snd.head = 1 /\ snd.high = 1 /\ snd.sacked = {} /\ snd.lost = {} /\ snd.retrans = {}
        /\ snd.highestSack = NoSeg /\ snd.cong = "OPEN" /\ snd.dupAckCount = 0
        /\ snd.recover = 0 /\ snd.recoverActive = FALSE /\ snd.failed = {} /\ snd.out = {}
    BY <1>1 DEF InitialSender
  <1>4. Board(snd)
    BY <1>3 DEF Board, Sent
  <1>5. Excused(snd) /\ Congestion(snd) /\ Timed(snd)
    BY <1>3 DEF Excused, Congestion, Timed
  <1>6. rcv.nextRx = 1 /\ rcv.held = {} /\ rcv.sackList = <<>> /\ rcv.delAck = FALSE
    BY <1>1 DEF InitialReceiver
  <1>7. Reassembly
    <2>1. rcv \in Receivers
      BY <1>1 DEF InitialReceiver, Receivers
    <2>2. Range(rcv.sackList) = {}
      BY <1>6 DEF Range
    <2> QED BY <1>3, <1>6, <2>1, <2>2 DEF Reassembly
  <1>8. Network /\ Truthful
    BY <1>1, <1>3, <1>6 DEF Network, Truthful
  <1> QED BY <1>2, <1>3, <1>4, <1>5, <1>7, <1>8 DEF TInv

\* An event of the sender that leaves it as r.
LEMMA SenderStep ==
  ASSUME TInv, NEW r \in Senders, Board(r), Excused(r), Congestion(r), Timed(r),
         Commit(r), rcv' = rcv, acks' \subseteq acks,
         r.high >= snd.high, r.head <= rcv.nextRx, r.sacked \subseteq Received,
         \A m \in acks' : m.ack \notin r.sacked
  PROVE  TInv'
  <1> USE NType, SenderFields
  <1>0. snd \in Senders /\ Reassembly /\ Network
    BY DEF TInv
  <1>1. PICK kept \in SUBSET r.out : snd' = [r EXCEPT !.out = {}] /\ data' = data \cup kept
    BY DEF Commit
  <1>2. snd' \in Senders
    BY <1>1 DEF Senders
  <1>3. /\ SameSent(snd', r) /\ SameCong(snd', r) /\ snd'.lost = r.lost
        /\ snd'.retrans = r.retrans /\ snd'.highestSack = r.highestSack
        /\ snd'.retx = r.retx /\ snd'.alive = r.alive /\ snd'.out = {}
    BY <1>1 DEF SameSent, SameCong, Senders
  <1>4. Board(snd')
    BY <1>3 DEF Board, Sent, SameSent, SameCong
  <1>5. Excused(snd') /\ Congestion(snd') /\ Timed(snd')
    <2>1. snd'.head = r.head
      BY <1>3 DEF SameSent
    <2>2. Excused(snd') /\ Congestion(snd')
      BY <1>3, <2>1, SameCongLemma
    <2>3. Timed(snd')
      BY Zenon, <1>3 DEF SameSent, Timed
    <2> QED BY <2>2, <2>3
  <1>6. snd'.head = r.head /\ snd'.high = r.high /\ snd'.sacked = r.sacked
    BY <1>3 DEF SameSent
  <1>7. Reassembly'
    <2>1. rcv.nextRx \in 1 .. r.high /\ rcv.held \subseteq rcv.nextRx + 1 .. r.high - 1
      BY <1>0 DEF Reassembly
    <2> QED BY <1>0, <1>6, <2>1 DEF Reassembly
  <1>8. Network'
    <2>1. data' \subseteq 1 .. r.high - 1
      <3>1. data \subseteq 1 .. r.high - 1
        BY <1>0 DEF Network
      <3>2. kept \subseteq 1 .. r.high - 1
        BY DEF Board
      <3> QED BY <1>1, <3>1, <3>2
    <2>2. ASSUME NEW m \in acks'
          PROVE  /\ m.ack \in 1 .. rcv.nextRx
                 /\ \A i \in Blocks(m.sack) : m.ack < i /\ i \in Received
                 /\ \A n \in acks' : m.ack \notin Blocks(n.sack)
      BY <1>0 DEF Network
    <2>3. acks' \subseteq Acks
      BY <1>0 DEF Network
    <2>4. Received' = Received
      BY DEF Received
    <2> QED BY <1>6, <2>1, <2>2, <2>3, <2>4 DEF Network
  <1>9. Truthful'
    BY <1>6 DEF Truthful, Received
  <1> QED BY <1>2, <1>3, <1>4, <1>5, <1>7, <1>8, <1>9 DEF TInv

\* An event of the receiver that leaves it as r, with or without an acknowledgment.
LEMMA ReceiverStep ==
  ASSUME TInv, NEW r, Assembled(r), Got(rcv) \subseteq Got(r), Got(r) \subseteq 1 .. snd.high - 1,
         r.nextRx >= rcv.nextRx, NEW b \in BOOLEAN, rcv' = [r EXCEPT !.delAck = b],
         snd' = snd, data' \subseteq data,
         NEW e \in BOOLEAN,
         acks' \subseteq acks \cup {[ack |-> r.nextRx, sack |-> r.sackList, ece |-> e]}
  PROVE  TInv'
  <1> DEFINE a == [ack |-> r.nextRx, sack |-> r.sackList, ece |-> e]
  <1>0. /\ snd \in Senders /\ Board(snd) /\ Reassembly /\ Network /\ Truthful
        /\ snd.high \in Nat /\ snd.high >= 1
    BY SenderFields DEF TInv, Board
  <1>1. /\ r \in Receivers /\ r.nextRx \in Nat /\ 1 <= r.nextRx /\ r.held \subseteq r.nextRx + 1 .. N
        /\ r.held \in SUBSET Nat /\ r.sackList \in Seq(SUBSET Nat)
        /\ \A c \in Range(r.sackList) : c \subseteq r.held /\ Convex(c)
    BY ReceiverFields DEF Assembled, Listed
  <1>2. /\ rcv' \in Receivers /\ rcv'.nextRx = r.nextRx /\ rcv'.held = r.held
        /\ rcv'.sackList = r.sackList
    BY <1>1 DEF Receivers
  <1>3. rcv \in Receivers /\ rcv.nextRx \in Nat /\ snd.head <= rcv.nextRx /\ snd.head \in Nat
    BY <1>0, ReceiverFields, SenderFields DEF Reassembly, Truthful
  <1>4. Received' = Got(r) /\ Received = Got(rcv)
    BY Zenon, <1>2 DEF Received, Got
  <1>5. r.nextRx \notin Got(r) /\ \A i \in r.held : i \in Nat /\ i > r.nextRx
    BY <1>1, NType DEF Got
  <1>6. r.nextRx \in 1 .. snd.high
    <2>1. CASE r.nextRx = 1
      BY <1>0, <2>1
    <2>2. CASE r.nextRx # 1
      <3>1. r.nextRx - 1 \in 1 .. r.nextRx - 1
        BY <1>1, <2>2
      <3>2. r.nextRx - 1 \in 1 .. snd.high - 1
        BY Zenon, <3>1 DEF Got
      <3> QED BY <1>0, <1>1, <3>2
    <2> QED BY <2>1, <2>2
  <1>7. r.held \subseteq r.nextRx + 1 .. snd.high - 1
    <2>1. \A i \in r.held : i \in 1 .. snd.high - 1
      BY Zenon DEF Got
    <2>2. \A i \in r.held : i \in r.nextRx + 1 .. snd.high - 1
      BY <1>0, <1>1, <1>5, <2>1
    <2> QED BY Zenon, <2>2
  <1>8. Reassembly'
    <2>1. snd'.high = snd.high
      OBVIOUS
    <2>2. \A c \in Range(rcv'.sackList) : c \subseteq rcv'.held /\ Convex(c)
      BY Zenon, <1>1, <1>2
    <2> QED BY Zenon, <1>2, <1>6, <1>7, <2>1, <2>2 DEF Reassembly
  <1>9. \A i \in Blocks(r.sackList) : i \in r.held
    BY Zenon, <1>1 DEF Blocks
  <1>10. \A i \in Blocks(a.sack) : r.nextRx < i /\ i \in Got(r)
    <2>1. a.sack = r.sackList
      OBVIOUS
    <2> HIDE DEF a
    <2>2. \A i \in Blocks(a.sack) : i \in r.held
      BY Zenon, <1>9, <2>1
    <2>3. \A i \in r.held : r.nextRx < i
      BY <1>1, <1>5
    <2> QED BY Zenon, <2>2, <2>3 DEF Got
  <1>11. a \in Acks /\ a.ack = r.nextRx
    BY <1>1 DEF Acks
  <1> HIDE DEF a
  <1>12. ASSUME NEW m \in acks
         PROVE  /\ m.ack \in Nat /\ m.ack \in 1 .. r.nextRx
                /\ \A i \in Blocks(m.sack) : m.ack < i /\ i \in Got(r)
                /\ m.ack \notin snd.sacked
                /\ \A n \in acks : m.ack \notin Blocks(n.sack)
    <2>1. /\ m.ack \in 1 .. rcv.nextRx
          /\ \A i \in Blocks(m.sack) : m.ack < i /\ i \in Received
          /\ m.ack \notin snd.sacked
          /\ \A n \in acks : m.ack \notin Blocks(n.sack)
      BY Zenon, <1>0 DEF Network
    <2>2. m.ack \in Nat /\ m.ack \in 1 .. r.nextRx
      BY <1>1, <1>3, <2>1
    <2>3. \A i \in Blocks(m.sack) : i \in Got(r)
      BY Zenon, <1>4, <2>1
    <2> QED BY Zenon, <2>1, <2>2, <2>3
  <1>13. r.nextRx \notin snd.sacked
    <2>1. snd.sacked \subseteq Received
      BY Zenon, <1>0 DEF Truthful, Received
    <2> QED BY Zenon, <1>4, <1>5, <2>1
  <1>14. ASSUME NEW m \in acks'
         PROVE  /\ m.ack \in 1 .. r.nextRx
                /\ \A i \in Blocks(m.sack) : m.ack < i /\ i \in Got(r)
                /\ m.ack \notin snd.sacked
                /\ \A n \in acks' : m.ack \notin Blocks(n.sack)
    <2>1. CASE m \in acks
      <3>1. m.ack \notin Blocks(a.sack)
        <4>1. \A i \in Blocks(a.sack) : i \in Got(r) /\ i > r.nextRx
          BY <1>10
        <4>2. m.ack <= r.nextRx /\ m.ack \in Nat
          BY <1>12, <2>1, <1>1
        <4> QED BY <1>1, <4>1, <4>2
      <3>2. \A n \in acks' : n \in acks \/ n = a
        BY Zenon DEF a
      <3> QED BY Zenon, <1>12, <2>1, <3>1, <3>2
    <2>2. CASE m = a
      <3>1. \A n \in acks' : n \in acks \/ n = a
        BY Zenon DEF a
      <3>2. \A n \in acks : r.nextRx \notin Blocks(n.sack)
        BY Zenon, <1>5, <1>12
      <3>3. r.nextRx \notin Blocks(a.sack)
        BY Zenon, <1>5, <1>10
      <3>4. r.nextRx \in 1 .. r.nextRx
        BY <1>1
      <3> QED BY Zenon, <1>10, <1>11, <1>13, <2>2, <3>1, <3>2, <3>3, <3>4
    <2> QED BY Zenon, <2>1, <2>2 DEF a
  <1>15. Network'
    <2>1. acks' \subseteq Acks
      <3>1. acks \subseteq Acks
        BY Zenon, <1>0 DEF Network
      <3> QED BY Zenon, <1>11, <3>1 DEF a
    <2>2. data' \subseteq 1 .. snd'.high - 1
      <3>1. data \subseteq 1 .. snd.high - 1
        BY Zenon, <1>0 DEF Network
      <3> QED BY Zenon, <3>1
    <2>3. snd'.sacked = snd.sacked
      OBVIOUS
    <2> QED BY Zenon, <1>2, <1>4, <1>14, <2>1, <2>2, <2>3 DEF Network
  <1>16. Truthful'
    <2>1. snd'.head <= rcv'.nextRx
      BY <1>1, <1>2, <1>3
    <2>2. snd.sacked \subseteq Received'
      BY Zenon, <1>0, <1>4 DEF Truthful, Received
    <2> QED BY Zenon, <2>1, <2>2 DEF Truthful, Received
  <1>17. /\ snd' \in Senders /\ snd'.out = {} /\ Board(snd') /\ Excused(snd')
         /\ Congestion(snd') /\ Timed(snd')
    BY Zenon DEF TInv
  <1> QED BY Zenon, <1>8, <1>15, <1>16, <1>17 DEF TInv

LEMMA SendStep ==
  ASSUME TInv, Send
  PROVE  TInv'
  <1> USE SenderFields
  <1>1. PICK w \in 1 .. Window : Commit(SendPendingData(snd, w))
    BY Zenon DEF Send
  <1> DEFINE r == SendPendingData(snd, w)
  <1>2. /\ snd \in Senders /\ Board(snd) /\ Excused(snd) /\ Congestion(snd) /\ Timed(snd)
        /\ Network /\ Truthful
    BY Zenon DEF TInv
  <1>3. w \in Nat
    BY NType
  <1>4. r \in Senders /\ Board(r) /\ Sending(r, snd)
    BY <1>2, <1>3, SendPendingLemma
  <1>5. Commit(r)
    BY Zenon, <1>1
  <1> HIDE DEF r
  <1>6. Excused(r) /\ Congestion(r)
    BY <1>2, <1>4, SameCongLemma DEF Sending
  <1>7. Timed(r)
    BY <1>2, <1>4 DEF Sending, Timed
  <1>8. r.high >= snd.high /\ r.head <= rcv.nextRx /\ r.sacked \subseteq Received
    BY <1>2, <1>4 DEF Sending, Truthful, Received
  <1>9. rcv' = rcv /\ acks' = acks
    BY Zenon DEF Send
  <1>10. \A m \in acks' : m.ack \notin r.sacked
    BY Zenon, <1>2, <1>4, <1>9 DEF Sending, Network
  <1> QED BY <1>4, <1>5, <1>6, <1>7, <1>8, <1>9, <1>10, SenderStep

LEMMA ForwardAckStep ==
  ASSUME TInv, NEW m \in acks, ForwardAck(m)
  PROVE  TInv'
  <1> USE SenderFields
  <1>1. /\ snd \in Senders /\ Board(snd) /\ Excused(snd) /\ Congestion(snd) /\ Timed(snd)
        /\ Network /\ Truthful /\ Reassembly
    BY Zenon DEF TInv
  <1>2. acks' = acks \ {m} /\ rcv' = rcv /\ snd.head \in Nat
    BY <1>1 DEF ForwardAck
  <1>3. /\ m \in Acks /\ m.ack \in 1 .. rcv.nextRx /\ rcv.nextRx \in 1 .. snd.high
        /\ \A i \in Blocks(m.sack) : m.ack < i /\ i \in Received
        /\ m.ack \notin snd.sacked
        /\ \A n \in acks : n.ack \notin Blocks(m.sack) /\ n.ack \notin snd.sacked
    BY Zenon, <1>1 DEF Network, Reassembly
  <1>4. CASE m.ack < snd.head
    <2>1. snd' = snd /\ data' = data
      BY Zenon, <1>4 DEF ForwardAck
    <2>2. Network'
      <3>1. acks' \subseteq acks /\ Received' = Received /\ rcv'.nextRx = rcv.nextRx
        BY Zenon, <1>2 DEF Received
      <3> QED BY Zenon, <1>1, <2>1, <3>1 DEF Network
    <2>3. Reassembly' /\ Truthful'
      BY Zenon, <1>1, <1>2, <2>1 DEF Reassembly, Truthful
    <2> QED BY Zenon, <2>1, <2>2, <2>3 DEF TInv
  <1>5. CASE ~ (m.ack < snd.head)
    <2>1. PICK w \in 1 .. Window : Commit(ReceivedAck(snd, m, w))
      BY Zenon, <1>5 DEF ForwardAck
    <2> DEFINE r == ReceivedAck(snd, m, w)
    <2>2. w \in Nat /\ snd.head <= m.ack /\ m.ack <= snd.high /\ snd.high \in Nat
      BY <1>1, <1>2, <1>3, <1>5, NType
    <2>3. \A i \in Blocks(m.sack) : m.ack < i
      BY Zenon, <1>3
    <2>4. /\ r \in Senders /\ Board(r) /\ Excused(r) /\ Congestion(r) /\ Timed(r)
          /\ r.head = m.ack /\ r.high >= snd.high
          /\ r.sacked \subseteq snd.sacked \cup Blocks(m.sack)
      BY <1>1, <1>3, <2>2, <2>3, ReceivedAckLemma
    <2>5. Commit(r)
      BY Zenon, <2>1
    <2> HIDE DEF r
    <2>6. r.head <= rcv.nextRx
      BY <1>3, <2>2, <2>4
    <2>7. r.sacked \subseteq Received
      BY Zenon, <1>1, <1>3, <2>4 DEF Truthful, Received
    <2>8. \A n \in acks' : n.ack \notin r.sacked
      BY Zenon, <1>2, <1>3, <2>4
    <2>9. acks' \subseteq acks
      BY Zenon, <1>2
    <2> QED BY <1>2, <2>4, <2>5, <2>6, <2>7, <2>8, <2>9, SenderStep
  <1> QED BY Zenon, <1>4, <1>5

LEMMA ReTxTimeoutStep ==
  ASSUME TInv, ReTxTimeout
  PROVE  TInv'
  <1> USE SenderFields, NType
  <1> DEFINE s == [snd EXCEPT !.retx = FALSE]
  <1>1. /\ snd \in Senders /\ Board(snd) /\ Excused(snd) /\ Congestion(snd) /\ Timed(snd)
        /\ Network /\ Truthful
    BY Zenon DEF TInv
  <1>2. rcv' = rcv /\ acks' = acks /\ acks' \subseteq acks
    BY Zenon DEF ReTxTimeout
  <1>3. (CASE s.head > N -> Commit(s)
           [] s.head <= N /\ s.dataRetrCount = 0 -> Commit([s EXCEPT !.alive = FALSE])
           [] OTHER -> \E lost \in {EnterLoss(s)} : \E sent \in {SendPendingData(lost, 1)} :
                          Commit(Check(sent, BytesInFlight(sent) <= 1, "InFlight")))
    BY Zenon DEF ReTxTimeout
  <1>4. s \in Senders
    BY <1>1 DEF Senders
  <1>5. /\ SameSent(s, snd) /\ SameCong(s, snd) /\ s.lost = snd.lost /\ s.retrans = snd.retrans
        /\ s.highestSack = snd.highestSack /\ s.out = snd.out
        /\ s.dataRetrCount = snd.dataRetrCount
    BY <1>1 DEF SameSent, SameCong, Senders
  <1> HIDE DEF s
  <1>6. Board(s)
    BY <1>1, <1>5 DEF Board, Sent, SameSent, SameCong
  <1>7. Excused(s) /\ Congestion(s)
    <2>1. s.head = snd.head
      BY <1>5 DEF SameSent
    <2> QED BY <1>1, <1>4, <1>5, <2>1, SameCongLemma
  \* Nothing of what the network knows of is disturbed by the timeout.
  <1>8. ASSUME NEW r \in Senders, Board(r), Excused(r), Congestion(r), Timed(r), Commit(r),
               r.head = snd.head, r.high >= snd.high, r.sacked = snd.sacked
        PROVE  TInv'
    <2>1. r.head <= rcv.nextRx /\ r.sacked \subseteq Received
      BY <1>1, <1>8 DEF Truthful, Received
    <2>2. \A m \in acks' : m.ack \notin r.sacked
      BY Zenon, <1>1, <1>2, <1>8 DEF Network
    <2> QED BY <1>2, <1>8, <2>1, <2>2, SenderStep
  <1>9. CASE s.head > N
    <2>1. Commit(s)
      <3>1. ~ (s.head <= N)
        BY <1>4, <1>9
      <3> QED BY Zenon, <1>3, <1>9, <3>1
    <2>2. Timed(s)
      BY <1>4, <1>6, <1>9 DEF Timed, Board
    <2>3. s.head = snd.head /\ s.high >= snd.high /\ s.sacked = snd.sacked
      BY <1>1, <1>5 DEF SameSent
    <2> QED BY <1>4, <1>6, <1>7, <1>8, <2>1, <2>2, <2>3
  <1>10. CASE s.head <= N /\ s.dataRetrCount = 0
    <2> DEFINE r == [s EXCEPT !.alive = FALSE]
    <2>1. Commit(r)
      <3>1. ~ (s.head > N)
        BY <1>4, <1>10
      <3> QED BY Zenon, <1>3, <1>10, <3>1
    <2>2. r \in Senders
      BY <1>4 DEF Senders
    <2>3. /\ SameSent(r, s) /\ SameCong(r, s) /\ r.lost = s.lost /\ r.retrans = s.retrans
          /\ r.highestSack = s.highestSack /\ r.out = s.out /\ ~ r.alive
      BY <1>4 DEF SameSent, SameCong, Senders
    <2> HIDE DEF r
    <2>4. Board(r)
      BY <1>6, <2>3 DEF Board, Sent, SameSent, SameCong
    <2>5. Excused(r) /\ Congestion(r)
      <3>1. r.head = s.head
        BY <2>3 DEF SameSent
      <3> QED BY <1>4, <1>7, <2>2, <2>3, <3>1, SameCongLemma
    <2>6. Timed(r)
      BY Zenon, <2>3 DEF Timed
    <2>7. r.head = snd.head /\ r.high >= snd.high /\ r.sacked = snd.sacked
      BY <1>1, <1>5, <2>3 DEF SameSent
    <2> QED BY <1>8, <2>1, <2>2, <2>4, <2>5, <2>6, <2>7
  <1>11. CASE ~ (s.head > N) /\ ~ (s.head <= N /\ s.dataRetrCount = 0)
    <2> DEFINE l == EnterLoss(s)
    <2>1. s.dataRetrCount # 0
      BY <1>4, <1>11
    <2>2. /\ l \in Senders /\ Board(l) /\ SameSent(l, s)
          /\ l.lost = Sent(s) \ s.sacked /\ l.retrans = {} /\ BytesInFlight(l) = 0
          /\ l.cong = "LOSS" /\ l.dupAckCount = 0 /\ l.recover = s.high /\ l.recoverActive
          /\ l.failed = s.failed
      BY <1>4, <1>6, <2>1, EnterLossLemma
    <2>3. Commit(Check(SendPendingData(l, 1), BytesInFlight(SendPendingData(l, 1)) <= 1, "InFlight"))
      BY Zenon, <1>3, <1>11
    <2> HIDE DEF l
    <2> DEFINE r == SendPendingData(l, 1)
    <2>4. l.lost = Sent(l) \ l.sacked
      BY Zenon, <2>2 DEF SameSent, Sent
    <2>5. /\ r \in Senders /\ Board(r) /\ Sending(r, l)
          /\ BytesInFlight(r) <= 1 /\ (r.head < r.high => r.retx)
      BY <2>2, <2>4, LossSendLemma
    <2>6. Commit(r)
      <3>1. Check(r, BytesInFlight(r) <= 1, "InFlight") = r
        BY Zenon, <2>5 DEF Check
      <3> QED BY Zenon, <2>3, <3>1
    <2> HIDE DEF r
    <2>7. Excused(l) /\ Congestion(l)
      BY <1>6, <1>7, <2>2 DEF Excused, Congestion, SameSent, Board
    <2>8. Excused(r) /\ Congestion(r)
      BY <2>2, <2>5, <2>7, SameCongLemma DEF Sending
    <2>9. Timed(r)
      BY Zenon, <2>5 DEF Timed
    <2>10. r.head = snd.head /\ r.high >= snd.high /\ r.sacked = snd.sacked
      BY <1>1, <1>5, <2>2, <2>5 DEF SameSent, Sending
    <2> QED BY <1>8, <2>5, <2>6, <2>8, <2>9, <2>10
  <1> QED BY Zenon, <1>9, <1>10, <1>11

LEMMA ReceiverAssembled ==
  ASSUME TInv
  PROVE  Assembled(rcv) /\ Got(rcv) \subseteq 1 .. snd.high - 1
  <1>1. snd \in Senders /\ Board(snd) /\ Reassembly
    BY Zenon DEF TInv
  <1>2. /\ snd.high \in Nat /\ snd.high <= N + 1 /\ rcv \in Receivers
        /\ rcv.nextRx \in 1 .. snd.high /\ rcv.held \subseteq rcv.nextRx + 1 .. snd.high - 1
        /\ rcv.nextRx \in Nat /\ rcv.held \in SUBSET Nat /\ rcv.sackList \in Seq(SUBSET Nat)
        /\ \A b \in Range(rcv.sackList) : b \subseteq rcv.held /\ Convex(b)
    BY <1>1, SenderFields, ReceiverFields DEF Board, Reassembly
  <1>3. 1 <= rcv.nextRx /\ rcv.nextRx <= N + 1
    BY <1>2, NType
  <1>4. rcv.nextRx + 1 .. snd.high - 1 \subseteq rcv.nextRx + 1 .. N
    BY <1>2, NType
  <1>5. rcv.held \subseteq rcv.nextRx + 1 .. N
    BY Zenon, <1>2, <1>4
  <1>6. /\ rcv.nextRx + 1 .. snd.high - 1 \subseteq 1 .. snd.high - 1
        /\ 1 .. rcv.nextRx - 1 \subseteq 1 .. snd.high - 1
    BY <1>2
  <1>7. Got(rcv) \subseteq 1 .. snd.high - 1
    BY Zenon, <1>2, <1>6 DEF Got
  <1> QED BY Zenon, <1>2, <1>3, <1>5, <1>7 DEF Assembled, Listed

\* SendEmptyPacket(ACK) when the receiver has become r.
LEMMA SendAckStep ==
  ASSUME TInv, NEW r, Assembled(r), Got(rcv) \subseteq Got(r), Got(r) \subseteq 1 .. snd.high - 1,
         r.nextRx >= rcv.nextRx, SendAck(r), snd' = snd, data' \subseteq data
  PROVE  TInv'
  <1>1. rcv' = [r EXCEPT !.delAck = FALSE]
    BY Zenon DEF SendAck
  <1>2. \E e \in BOOLEAN :
           acks' \subseteq acks \cup {[ack |-> r.nextRx, sack |-> r.sackList, ece |-> e]}
    <2>1. CASE acks' = acks
      <3>1. acks' \subseteq acks \cup {[ack |-> r.nextRx, sack |-> r.sackList, ece |-> TRUE]}
        BY Zenon, <2>1
      <3> QED BY Zenon, <3>1
    <2>2. CASE acks' # acks
      <3>1. PICK e \in IF UseEcn THEN BOOLEAN ELSE {FALSE} :
               acks' = acks \cup {[ack |-> r.nextRx, sack |-> r.sackList, ece |-> e]}
        BY Zenon, <2>2 DEF SendAck
      <3>2. e \in BOOLEAN
        BY Zenon, <3>1
      <3> QED BY Zenon, <3>1, <3>2
    <2> QED BY Zenon, <2>1, <2>2
  <1>3. PICK e \in BOOLEAN :
           acks' \subseteq acks \cup {[ack |-> r.nextRx, sack |-> r.sackList, ece |-> e]}
    BY Zenon, <1>2
  <1>4. FALSE \in BOOLEAN
    OBVIOUS
  <1> QED BY <1>1, <1>3, <1>4, ReceiverStep

LEMMA ReceivedDataStep ==
  ASSUME TInv, NEW i \in data, ReceivedData(i)
  PROVE  TInv'
  <1>1. Assembled(rcv) /\ Got(rcv) \subseteq 1 .. snd.high - 1
    BY ReceiverAssembled
  <1>2. /\ rcv.nextRx \in Nat /\ snd.high \in Nat /\ snd.high <= N + 1
        /\ i \in 1 .. snd.high - 1
    BY SenderFields, ReceiverFields DEF TInv, Board, Reassembly, Network
  <1>3. i \in 1 .. N
    BY <1>2, NType
  <1> DEFINE known == i < rcv.nextRx \/ i \in rcv.held
             r     == IF known THEN rcv ELSE Add(rcv, i)
  <1>4. Assembled(r) /\ r.nextRx >= rcv.nextRx /\ Got(rcv) \subseteq Got(r)
        /\ Got(r) \subseteq 1 .. snd.high - 1
    <2>1. CASE known
      <3>1. r = rcv
        BY Zenon, <2>1
      <3> HIDE DEF r, known
      <3>2. rcv.nextRx >= rcv.nextRx
        BY <1>2
      <3> QED BY Zenon, <1>1, <3>1, <3>2
    <2>2. CASE ~ known
      <3>1. r = Add(rcv, i)
        BY Zenon, <2>2
      <3>2. i >= rcv.nextRx /\ i \notin rcv.held
        BY <1>2, <2>2
      <3>3. PICK old : old = rcv
        OBVIOUS
      <3> DEFINE a == Add(old, i)
      <3>4. Assembled(a) /\ a.nextRx >= old.nextRx /\ Got(a) = Got(old) \cup {i}
        BY <1>1, <1>3, <3>2, <3>3, AddLemma
      <3>5. r = a
        BY Zenon, <3>1, <3>3
      <3> HIDE DEF r, a, known
      <3> QED BY Zenon, <1>1, <1>2, <3>3, <3>4, <3>5
    <2> QED BY Zenon, <2>1, <2>2
  <1>5. snd' = snd /\ data' \subseteq data
    BY Zenon DEF ReceivedData
  <1>6. \/ SendAck(r)
        \/ rcv' = [r EXCEPT !.delAck = TRUE] /\ acks' = acks
    BY Zenon DEF ReceivedData
  <1> HIDE DEF r, known
  <1>7. CASE SendAck(r)
    BY <1>1, <1>4, <1>5, <1>7, SendAckStep
  <1>8. CASE rcv' = [r EXCEPT !.delAck = TRUE] /\ acks' = acks
    <2>1. acks' \subseteq acks \cup {[ack |-> r.nextRx, sack |-> r.sackList, ece |-> TRUE]}
      BY Zenon, <1>8
    <2>2. TRUE \in BOOLEAN
      OBVIOUS
    <2> QED BY <1>4, <1>5, <1>8, <2>1, <2>2, ReceiverStep
  <1> QED BY Zenon, <1>6, <1>7, <1>8

LEMMA DelAckStep ==
  ASSUME TInv, DelAckTimeout
  PROVE  TInv'
  <1>1. Assembled(rcv) /\ Got(rcv) \subseteq 1 .. snd.high - 1
    BY ReceiverAssembled
  <1>2. rcv.nextRx >= rcv.nextRx
    BY <1>1, ReceiverFields DEF Assembled
  <1>3. SendAck(rcv) /\ snd' = snd /\ data' \subseteq data
    BY Zenon DEF DelAckTimeout
  <1>4. PICK r : r = rcv
    OBVIOUS
  <1>5. /\ Assembled(r) /\ Got(rcv) \subseteq Got(r) /\ Got(r) \subseteq 1 .. snd.high - 1
        /\ r.nextRx >= rcv.nextRx
    BY Zenon, <1>1, <1>2, <1>4
  <1>6. SendAck(r)
    BY Zenon, <1>3, <1>4
  <1> QED BY <1>3, <1>5, <1>6, SendAckStep

LEMMA NextInv == TInv /\ [Next]_vars => TInv'
  <1> SUFFICES ASSUME TInv, [Next]_vars PROVE TInv'
    OBVIOUS
  <1>1. CASE Send
    BY <1>1, SendStep
  <1>2. CASE ReTxTimeout
    BY <1>2, ReTxTimeoutStep
  <1>3. CASE DelAckTimeout
    BY <1>3, DelAckStep
  <1>4. ASSUME NEW m \in acks, ForwardAck(m) PROVE TInv'
    BY <1>4, ForwardAckStep
  <1>5. ASSUME NEW i \in data, ReceivedData(i) PROVE TInv'
    BY <1>5, ReceivedDataStep
  <1>6. CASE UNCHANGED vars
    <2>1. snd' = snd /\ rcv' = rcv /\ data' = data /\ acks' = acks
      BY <1>6 DEF vars
    <2>2. Reassembly' /\ Network' /\ Truthful'
      BY Zenon, <2>1 DEF TInv, Reassembly, Network, Truthful, Received
    <2> QED BY Zenon, <2>1, <2>2 DEF TInv
  <1> QED BY Zenon, <1>1, <1>2, <1>3, <1>4, <1>5, <1>6 DEF Next

-----------------------------------------------------------------------------
(* The theorems *)

\* TcpSocketBase, TcpTxBuffer and TcpRxBuffer: in every state between two events,
\* whatever was lost, delayed or reordered, the scoreboard's flags are set for
\* segments of the sent list, the blocks of every acknowledgment are beyond its
\* first missing segment and were received, and no segment that was ever the
\* first missing one is SACKed.
THEOREM Invariance == Spec => []TInv
  <1>1. Init => TInv
    BY InitInv
  <1>2. TInv /\ [Next]_vars => TInv'
    BY NextInv
  <1> QED BY <1>1, <1>2, PTL DEF Spec

LEMMA Typed == TInv => TypeOK
  <1> SUFFICES ASSUME TInv PROVE TypeOK
    OBVIOUS
  <1> USE NType
  <1>1. snd \in Senders /\ Board(snd) /\ Network /\ snd.out = {}
    BY Zenon DEF TInv
  <1>2. Assembled(rcv)
    BY ReceiverAssembled
  <1>3. /\ snd.head \in Nat /\ snd.high \in Nat /\ snd.recover \in Nat
        /\ snd.cong \in CongStates /\ snd.dupAckCount \in Nat
        /\ snd.dataRetrCount \in 0 .. DataRetries
    BY <1>1, SenderFields
  <1>4. /\ snd.head \in 1 .. N + 1 /\ snd.high \in snd.head .. N + 1
        /\ snd.recover \in 0 .. N + 1
    BY <1>1, <1>3 DEF Board
  <1>5. /\ snd.sacked \subseteq Sent(snd) /\ snd.lost \subseteq Sent(snd)
        /\ snd.retrans \subseteq Sent(snd) /\ snd.sacked \cap snd.lost = {}
        /\ snd.highestSack \in {NoSeg} \cup Sent(snd)
    BY Zenon, <1>1 DEF Board
  <1>6. rcv.nextRx \in 1 .. N + 1 /\ rcv.held \subseteq rcv.nextRx + 1 .. N
    BY <1>2, ReceiverFields DEF Assembled
  <1>7. data \subseteq Segments
    <2>1. 1 .. snd.high - 1 \subseteq Segments
      BY <1>3, <1>4 DEF Segments
    <2> QED BY Zenon, <1>1, <2>1 DEF Network
  <1>8. \A m \in acks : m.ack \in 1 .. rcv.nextRx
    BY Zenon, <1>1 DEF Network
  <1> QED BY Zenon, <1>1, <1>3, <1>4, <1>5, <1>6, <1>7, <1>8 DEF TypeOK, Sent

\* No NS_ASSERT of the sender fails, for any number of segments, window, threshold
\* and number of retries, except the one of DupAck on the way from CA_OPEN to
\* CA_DISORDER and, only after it, the one on the counter in CA_DISORDER, both
\* only with ECN.
THEOREM Asserted == Spec => []AssertionsHold
  <1>1. TInv => AssertionsHold
    <2> SUFFICES ASSUME TInv PROVE AssertionsHold
      OBVIOUS
    <2>1. TypeOK
      BY Typed
    <2>2. snd \in Senders /\ Excused(snd)
      BY Zenon DEF TInv
    <2>3. snd.failed \subseteq Names
      BY <2>2, SenderFields
    <2> QED BY Zenon, <2>1, <2>2, <2>3 DEF AssertionsHold, Excused, Names
  <1> QED BY <1>1, Invariance, PTL

\* As long as the sender of an open connection has data outstanding, its
\* retransmission timer runs after every event: an acknowledgment, a timeout, or
\* the first Send of the application.
THEOREM TimerArmed == Spec => []Armed
  <1>1. TInv => Armed
    BY Zenon DEF TInv, Timed, Armed
  <1> QED BY <1>1, Invariance, PTL

\* What DiscardUpTo has removed from the sender's buffer, and what the scoreboard
\* counts as SACKed, the receiver has.
THEOREM NothingInvented == Spec => []Truthful
  <1>1. TInv => Truthful
    BY Zenon DEF TInv
  <1> QED BY <1>1, Invariance, PTL

\* m_recover and m_recoverActive between events: the point is active in CA_RECOVERY
\* and CA_LOSS and not behind SND.UNA there, inactive in CA_OPEN and CA_DISORDER, and
\* no duplicate acknowledgment is left counted in CA_OPEN.
THEOREM PointHeld == Spec => []RecoveryPoint
  <1>1. TInv => RecoveryPoint
    BY Zenon DEF TInv, Congestion, RecoveryPoint
  <1> QED BY <1>1, Invariance, PTL

=============================================================================

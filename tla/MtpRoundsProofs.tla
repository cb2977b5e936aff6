--------------------------- MODULE MtpRoundsProofs ---------------------------
(***************************************************************************)
(* Proofs about the rounds of the multithreaded simulator (MtpRounds), for *)
(* any number of LPs, any links and delays (zero included), any number of  *)
(* events and any interleaving of the LPs within a stage. First their      *)
(* safety, then that they implement EventSimulation, then what holds when  *)
(* events use ScheduleGlobal.                                              *)
(***************************************************************************)
EXTENDS MtpRounds, FiniteSetTheorems, TLAPS

USE DEF Public

\* The public LP is a system and not an LP.
LEMMA Systems ==
    /\ Public \in System
    /\ LP \subseteq System
    /\ \A i \in LP : i # Public
    /\ \A i \in System : i # Public => i \in LP
  BY RoundsAssumption DEF System, LP

\* What the fields of events and messages are.
LEMMA Records ==
    /\ \A ev \in EventSet : ev.ts \in Nat /\ ev.ts <= Half /\ ev.uid \in Nat /\ ev.impl \in Impl
    /\ \A m \in MessageSet : m.ts \in Nat /\ m.ts <= Half /\ m.uid \in Nat /\ m.impl \in Impl
    /\ \A i \in Impl, ts \in 0 .. Half, uid \in Nat :
         [impl |-> i, ts |-> ts, uid |-> uid] \in EventSet
    /\ \A i \in Impl, ts, sent \in 0 .. Half, uid \in Nat :
         [impl |-> i, ts |-> ts, sent |-> sent, uid |-> uid] \in MessageSet
  BY RoundsAssumption DEF EventSet, MessageSet

\* A time in the window of an LP is bounded by the smallest time plus the
\* delay of each of its links, and by the next public time.
LEMMA GrantedBound ==
  ASSUME NEW i \in System, NEW ts \in 0 .. Half, Granted(i, ts),
         g_smallestTime \in 0 .. Half
  PROVE  /\ ts <= g_nextPublicTime
         /\ i = Public => ts <= g_smallestTime
         /\ i # Public => \A k \in LP : <<i, k>> \in Links =>
              ts <= g_smallestTime + Delay[<<i, k>>]
  <1>1. ts <= g_nextPublicTime
    BY DEF Granted
  <1>2. PICK la \in 0 .. TimeMax : IsLookAhead(i, la) /\ ts <= g_smallestTime + la
    BY DEF Granted
  <1>3. i = Public => la = 0
    BY <1>2 DEF IsLookAhead
  <1>4. ASSUME i # Public, NEW k \in LP, <<i, k>> \in Links
        PROVE  la <= Delay[<<i, k>>]
    <2>1. Delay[<<i, k>>] \in {Delay[l] : l \in {m \in Links : m[1] = i}}
      BY <1>4
    <2> QED BY <1>2, <1>4, <2>1 DEF IsLookAhead
  <1>5. TimeMax \in Nat
    BY RoundsAssumption DEF TimeMax
  <1>6. ASSUME i # Public, NEW k \in LP, <<i, k>> \in Links
        PROVE  ts <= g_smallestTime + Delay[<<i, k>>]
    <2>1. Delay[<<i, k>>] \in Nat
      BY <1>6, RoundsAssumption
    <2> QED BY <1>2, <1>4, <1>5, <1>6, <2>1
  <1> QED BY <1>1, <1>2, <1>3, <1>6

----------------------------------------------------------------------------
(* The initial states.                                                      *)

\* The uids of the first events are below the next uid of their system.
LEMMA FirstUids ==
  ASSUME NEW start, NEW i \in System
  PROVE  /\ \A n \in 1 .. InitialEvents + 1 :
              FirstUid(start, i, n) \in Nat /\ FirstUid(start, i, n) > 0
         /\ \A n \in OwnBefore(start, i, InitialEvents + 1) :
              FirstUid(start, i, n) < FirstUid(start, i, InitialEvents + 1)
  <1> USE RoundsAssumption
  <1>1. ASSUME NEW n \in 1 .. InitialEvents + 1
        PROVE  /\ IsFiniteSet(OwnBefore(start, i, n))
               /\ Cardinality(OwnBefore(start, i, n)) \in Nat
    <2>1. OwnBefore(start, i, n) \subseteq 1 .. n - 1
      BY DEF OwnBefore
    <2>2. IsFiniteSet(1 .. n - 1)
      BY FS_Interval
    <2>3. IsFiniteSet(OwnBefore(start, i, n))
      BY <2>1, <2>2, FS_Subset
    <2> QED BY <2>3, FS_CardinalityType
  <1>2. ASSUME NEW n \in OwnBefore(start, i, InitialEvents + 1)
        PROVE  FirstUid(start, i, n) < FirstUid(start, i, InitialEvents + 1)
    <2> DEFINE S == OwnBefore(start, i, n)
               T == OwnBefore(start, i, InitialEvents + 1)
    <2>1. n \in 1 .. InitialEvents /\ n \notin S /\ n \in T /\ S \subseteq T
      BY DEF OwnBefore
    <2>2. IsFiniteSet(T) /\ Cardinality(S) \in Nat /\ Cardinality(T) \in Nat
      BY <1>1, <2>1
    <2> HIDE DEF S, T
    <2>3. Cardinality(S) <= Cardinality(T) /\ (Cardinality(S) = Cardinality(T) => S = T)
      BY <2>1, <2>2, FS_Subset
    <2>4. Cardinality(S) < Cardinality(T)
      BY <2>1, <2>2, <2>3
    <2> QED BY <2>2, <2>4 DEF FirstUid, S, T
  <1> QED BY <1>1, <1>2 DEF FirstUid

LEMMA InvInit == Init => RInv
  <1> SUFFICES ASSUME Init PROVE RInv
    OBVIOUS
  <1> USE RoundsAssumption, Systems
  <1>a. /\ phase = "process"
        /\ work = [i \in LP |-> "todo"]
        /\ invoking = [i \in System |-> FALSE]
        /\ m_currentTs = [i \in System |-> 0]
        /\ m_currentUid \in [System -> 0 .. OldUids]
        /\ leftover = {i \in System : m_currentUid[i] # 0}
        /\ m_stop = [i \in System |-> FALSE]
        /\ g_smallestTime = 0
        /\ g_nextPublicTime = 0
        /\ created = [i \in System |-> InitialEvents]
    BY DEF Init, FirstRound
  <1>0. PICK start \in [1 .. InitialEvents -> {e \in Entry : Legal(e)}] :
         /\ m_events = [i \in System |->
              {[impl |-> <<i, n>>, ts |-> start[n].ts, uid |-> FirstUid(start, i, n)] :
                 n \in OwnBefore(start, i, InitialEvents + 1)}]
         /\ m_mailbox = [i \in System |-> [j \in System |->
              {[impl |-> <<j, n>>, ts |-> start[n].ts, sent |-> 0,
                uid |-> FirstUid(start, j, n)] :
                 n \in {k \in 1 .. InitialEvents :
                          start[k].to = i /\ start[k].from = j /\ i # j}}]]
         /\ m_uid = [i \in System |-> FirstUid(start, i, InitialEvents + 1)]
    BY DEF Init, FirstRound
  <1>1. \A n \in 1 .. InitialEvents :
          /\ start[n] \in Entry /\ Legal(start[n])
          /\ start[n].ts \in 0 .. Half /\ n \in 1 .. MaxEvents
    BY DEF Entry
  <1>u. \A i \in System : m_uid[i] \in Nat /\ m_uid[i] > 0
    <2>1. InitialEvents + 1 \in 1 .. InitialEvents + 1
      OBVIOUS
    <2> QED BY <1>0, <2>1, FirstUids
  <1>2. \A i \in System : \A ev \in m_events[i] :
          ev \in EventSet /\ ev.uid < m_uid[i] /\ ev.uid > 0
    <2> SUFFICES ASSUME NEW i \in System, NEW ev \in m_events[i]
                 PROVE  ev \in EventSet /\ ev.uid < m_uid[i] /\ ev.uid > 0
      OBVIOUS
    <2>1. PICK n \in OwnBefore(start, i, InitialEvents + 1) :
            ev = [impl |-> <<i, n>>, ts |-> start[n].ts, uid |-> FirstUid(start, i, n)]
      BY <1>0
    <2>2. n \in 1 .. InitialEvents
      BY DEF OwnBefore
    <2>3. /\ FirstUid(start, i, n) \in Nat /\ FirstUid(start, i, n) > 0
          /\ FirstUid(start, i, n) < m_uid[i]
      BY <1>0, <2>2, FirstUids
    <2>4. <<i, n>> \in Impl
      BY <1>1, <2>2 DEF Impl
    <2>5. ev \in EventSet
      BY <1>1, <2>1, <2>2, <2>3, <2>4, Records
    <2> QED BY <2>1, <2>3, <2>5
  <1>3. \A i, j \in System : \A m \in m_mailbox[i][j] :
          /\ m \in MessageSet
          /\ i # Public
          /\ j # Public => <<i, j>> \in Links /\ m.ts >= Delay[<<i, j>>]
    <2> SUFFICES ASSUME NEW i \in System, NEW j \in System, NEW m \in m_mailbox[i][j]
                 PROVE  /\ m \in MessageSet
                        /\ i # Public
                        /\ j # Public => <<i, j>> \in Links /\ m.ts >= Delay[<<i, j>>]
      OBVIOUS
    <2>1. PICK n \in 1 .. InitialEvents :
            /\ start[n].to = i /\ start[n].from = j /\ i # j
            /\ m = [impl |-> <<j, n>>, ts |-> start[n].ts, sent |-> 0,
                    uid |-> FirstUid(start, j, n)]
      BY <1>0
    <2>2. m \in MessageSet
      <3>0. n \in 1 .. InitialEvents + 1
        OBVIOUS
      <3>1. FirstUid(start, j, n) \in Nat
        BY <3>0, FirstUids
      <3>2. <<j, n>> \in Impl /\ 0 \in 0 .. Half
        BY <1>1 DEF Impl
      <3> QED BY <1>1, <2>1, <3>1, <3>2, Records
    <2>3. \/ j = Public /\ i \in LP
          \/ <<j, i>> \in Links /\ m.ts >= Delay[<<j, i>>]
      BY <2>1, <1>1 DEF Legal
    <2>4. <<j, i>> \in Links => j \in LP /\ i \in LP
      OBVIOUS
    <2>5. <<j, i>> \in Links => <<i, j>> \in Links /\ Delay[<<i, j>>] = Delay[<<j, i>>]
      BY <2>4
    <2> QED BY <2>2, <2>3, <2>4, <2>5
  <1>4. \A i \in System : IsFiniteSet(Inbox(i))
    <2> SUFFICES ASSUME NEW i \in System
                 PROVE  IsFiniteSet(Inbox(i))
      OBVIOUS
    <2> DEFINE f == [a \in Inbox(i) |-> a.msg.impl[2]]
    <2>1. ASSUME NEW a \in Inbox(i)
          PROVE  \E n \in 1 .. InitialEvents :
                   /\ a = [from |-> start[n].from,
                           msg |-> [impl |-> <<start[n].from, n>>, ts |-> start[n].ts,
                                    sent |-> 0, uid |-> FirstUid(start, start[n].from, n)]]
      <3>1. PICK j \in System : \E m \in m_mailbox[i][j] : a = [from |-> j, msg |-> m]
        BY <2>1 DEF Inbox
      <3>2. PICK m \in m_mailbox[i][j] : a = [from |-> j, msg |-> m]
        BY <3>1
      <3>3. PICK n \in 1 .. InitialEvents :
              /\ start[n].from = j
              /\ m = [impl |-> <<j, n>>, ts |-> start[n].ts, sent |-> 0,
                      uid |-> FirstUid(start, j, n)]
        BY <1>0
      <3> QED BY <3>2, <3>3
    <2>2. \A a \in Inbox(i) : a.msg.impl[2] \in 1 .. InitialEvents
      BY <2>1
    <2>3. ASSUME NEW a \in Inbox(i), NEW b \in Inbox(i), a.msg.impl[2] = b.msg.impl[2]
          PROVE  a = b
      <3> DEFINE Of(n) ==
            [from |-> start[n].from,
             msg |-> [impl |-> <<start[n].from, n>>, ts |-> start[n].ts,
                      sent |-> 0, uid |-> FirstUid(start, start[n].from, n)]]
      <3>1. PICK n \in 1 .. InitialEvents : a = Of(n)
        BY <2>1
      <3>2. PICK k \in 1 .. InitialEvents : b = Of(k)
        BY <2>1
      <3>3. a.msg.impl[2] = n /\ b.msg.impl[2] = k
        BY <3>1, <3>2
      <3> HIDE DEF Of
      <3> QED BY <2>3, <3>1, <3>2, <3>3
    <2>4. f \in Injection(Inbox(i), 1 .. InitialEvents)
      BY <2>2, <2>3 DEF Injection, IsInjective
    <2>5. IsFiniteSet(1 .. InitialEvents)
      BY FS_Interval
    <2> HIDE DEF f
    <2> QED BY <2>4, <2>5, FS_Injection
  <1>5. TypeOK
    <2>1. m_events \in [System -> SUBSET EventSet]
      BY <1>0, <1>2
    <2>2. m_mailbox \in [System -> [System -> SUBSET MessageSet]]
      BY <1>0, <1>3
    <2>3. m_uid \in [System -> Nat]
      BY <1>0, <1>u
    <2>4. m_currentUid \in [System -> Nat] /\ leftover \subseteq System
      BY <1>a
    <2> QED BY <1>a, <2>1, <2>2, <2>3, <2>4 DEF TypeOK, Stages!Phase, TimeMax
  <1>6. \A i \in System :
          m_currentTs[i] = 0 /\ (i \in leftover \/ m_currentUid[i] = 0)
    BY <1>a
  <1>7. NoPast /\ PendingNotExpired
    <2>1. NoPast
      <3>1. \A i \in System : \A ev \in m_events[i] : ev.ts >= 0
        BY <1>2 DEF EventSet
      <3>2. \A i, j \in System : \A m \in m_mailbox[i][j] : m.ts >= 0
        <4> TAKE i, j \in System
        <4> TAKE m \in m_mailbox[i][j]
        <4>1. m \in MessageSet
          BY <1>3
        <4> QED BY <4>1, Records
      <3> QED BY <3>1, <3>2, <1>6 DEF NoPast
    <2>2. PendingNotExpired
      <3>1. \A i \in System : \A ev \in m_events[i] : ev.ts \in Nat /\ ev.uid > 0
        BY <1>2, Records
      <3>2. \A i \in System : \A ev \in m_events[i] :
              i \notin leftover => ~ IsExpired(i, ev)
        BY <1>6, <3>1, <1>2, Records DEF IsExpired
      <3>3. \A i \in System : \A ev \in m_events[i] :
              i \in leftover => ~ IsExpired(i, ev) \/ ev.ts = 0
        BY <1>6, <3>1 DEF IsExpired
      <3> QED BY <3>2, <3>3 DEF PendingNotExpired, Misjudged
    <2> QED BY <2>1, <2>2
  <1>8. AheadInv
    BY <1>6, <1>a DEF AheadInv
  <1>9. PendingInv
    <2>1. \A i \in System : \A ev \in m_events[i] : ev.ts >= 0
      BY <1>2 DEF EventSet
    <2>2. \A i, j \in System : \A m \in m_mailbox[j][i] :
         /\ m.ts >= 0
         /\ i # Public => /\ <<j, i>> \in Links
                         /\ m.ts >= 0 + Delay[<<j, i>>]
      BY <1>3 DEF MessageSet
    <2> QED BY <1>a, <2>1, <2>2 DEF PendingInv
  <1>10. InvokingInv /\ StopInv
    BY <1>a DEF InvokingInv, StopInv
  <1>11. MailInv
    BY <1>3, <1>4, <1>a DEF MailInv
  <1>12. UidInv
    BY <1>2, <1>6, <1>u DEF UidInv
  <1> QED BY <1>5, <1>7, <1>8, <1>9, <1>10, <1>11, <1>12 DEF RInv

----------------------------------------------------------------------------
(* The steps.                                                               *)

\* The steps that move only the stage or an LP's progress in it.
Quiet ==
    \/ \E i \in LP : Begin(i) \/ EndRound(i)
    \/ EnterPublic
    \/ EnterReceive
    \/ EnterCalc
    \/ Returned

\* What they leave alone, and what of the invariant depends on the stages only.
LEMMA QuietFacts ==
  ASSUME TypeOK, MailInv, StopInv, Quiet
  PROVE  /\ UNCHANGED <<invoking, m_events, m_mailbox, m_currentTs, m_currentUid, leftover, m_uid,
                        m_stop, g_smallestTime, g_nextPublicTime, created>>
         /\ TypeOK' /\ MailInv' /\ StopInv'
         /\ phase = "over" <=> phase' = "over"
         /\ \A j \in System : invoking[j] /\ Processing(j) => Processing(j)'
  <1> USE Systems
  <1>0. UNCHANGED <<invoking, m_events, m_mailbox, m_currentTs, m_currentUid, leftover, m_uid,
                    m_stop, g_smallestTime, g_nextPublicTime, created>>
    BY DEF Quiet, Begin, EndRound, EnterPublic, EnterReceive, EnterCalc, Returned,
           vars, clocks, window
  <1>1. /\ phase' \in Stages!Phase
        /\ work' \in [LP -> {"todo", "busy", "done"}]
        /\ phase = "over" <=> phase' = "over"
    BY DEF Quiet, Begin, EndRound, EnterPublic, EnterReceive, EnterCalc, Returned,
           vars, control, TypeOK, Stages!Begin, Stages!End, Stages!EnterPublic,
           Stages!EnterReceive, Stages!EnterCalc, Stages!Phase, Stages!LP, LP,
           Stages!Shared
  <1>2. TypeOK'
    BY <1>0, <1>1 DEF TypeOK
  <1>3. ASSUME NEW j \in System, invoking[j], Processing(j)
        PROVE  Processing(j)'
    <2>1. Processing(j)
      BY <1>3
    <2>2. CASE j = Public
      BY <1>3, <2>1, <2>2 DEF Processing, Quiet, Begin, EndRound, EnterPublic, EnterReceive,
           EnterCalc, Returned, vars, control, Stages!Begin, Stages!End,
           Stages!EnterPublic, Stages!EnterReceive, Stages!EnterCalc, Stages!Shared
    <2>3. CASE j # Public
      <3>1. j \in LP /\ phase = "process" /\ work[j] = "busy"
        BY <2>1, <2>3 DEF Processing
      <3>2. ASSUME NEW i \in LP, Begin(i) \/ EndRound(i)
            PROVE  phase' = phase /\ work'[j] = "busy"
        BY <1>3, <3>1, <3>2 DEF Begin, EndRound, Stages!Begin, Stages!End, TypeOK
      <3>3. ~ EnterPublic
        BY <3>1 DEF EnterPublic, Stages!EnterPublic, Stages!AllDone, Stages!LP, LP
      <3>4. ~ EnterReceive /\ ~ EnterCalc
        BY <3>1 DEF EnterReceive, EnterCalc, Stages!EnterReceive, Stages!EnterCalc
      <3> QED BY <3>1, <3>2, <3>3, <3>4 DEF Quiet, Returned, vars, control, Processing
    <2> QED BY <2>2, <2>3
  <1>4. MailInv'
    <2>1. \A i \in System : Inbox(i)' = Inbox(i)
      BY <1>0 DEF Inbox
    <2>2. ASSUME NEW i \in LP,
                 phase' \in {"calc", "over"} \/ (phase' = "receive" /\ work'[i] = "done")
          PROVE  \A j \in System : m_mailbox[i][j] = {}
      <3>1. \/ phase \in {"calc", "over"}
            \/ phase = "receive" /\ work[i] = "done"
        <4>1. CASE \E k \in LP : Begin(k)
          BY <2>2, <4>1 DEF Begin, Stages!Begin, TypeOK
        <4>2. CASE \E k \in LP : EndRound(k)
          BY <2>2, <4>2 DEF EndRound, Stages!End, Processing
        <4>3. CASE EnterPublic
          BY <2>2, <4>3 DEF EnterPublic, Stages!EnterPublic
        <4>4. CASE EnterReceive
          BY <2>2, <4>4 DEF EnterReceive, Stages!EnterReceive, Stages!LP, LP
        <4>5. CASE EnterCalc
          BY <2>2, <4>5 DEF EnterCalc, Stages!EnterCalc, Stages!AllDone, Stages!LP, LP
        <4>6. CASE Returned
          BY <2>2, <4>6 DEF Returned, vars, control
        <4> QED BY <4>1, <4>2, <4>3, <4>4, <4>5, <4>6 DEF Quiet
      <3> QED BY <3>1 DEF MailInv
    <2> QED BY <1>0, <2>1, <2>2 DEF MailInv
  <1>5. StopInv'
    BY <1>0, <1>1 DEF StopInv, isLocalFinished
  <1> QED BY <1>0, <1>1, <1>2, <1>3, <1>4, <1>5

LEMMA QuietStep ==
  ASSUME RInv, Quiet
  PROVE  RInv'
  <1> USE DEF RInv
  <1>1. /\ UNCHANGED <<invoking, m_events, m_mailbox, m_currentTs, m_currentUid, leftover, m_uid,
                       m_stop, g_smallestTime, g_nextPublicTime, created>>
        /\ TypeOK' /\ MailInv' /\ StopInv'
        /\ phase = "over" <=> phase' = "over"
        /\ \A j \in System : invoking[j] /\ Processing(j) => Processing(j)'
    BY QuietFacts
  <1>2. NoPast' /\ PendingNotExpired' /\ UidInv'
    BY <1>1 DEF NoPast, PendingNotExpired, IsExpired, Misjudged, UidInv
  <1>3. phase' # "over" => AheadInv' /\ PendingInv'
    BY <1>1 DEF AheadInv, PendingInv
  <1>4. InvokingInv'
    BY <1>1 DEF InvokingInv
  <1> QED BY <1>1, <1>2, <1>3, <1>4

\* An LP dequeues its earliest event: it is inside the window, so the LP does
\* not get ahead of any message still to come.
LEMMA InvokeNextStep ==
  ASSUME RInv, NEW i \in System, InvokeNext(i)
  PROVE  RInv'
  <1> USE Systems
  <1> USE DEF RInv
  <1>0. /\ UNCHANGED <<phase, work, m_mailbox, m_uid, m_stop, g_smallestTime,
                       g_nextPublicTime, created>>
        /\ Processing(i) /\ Due(i)
        /\ invoking' = [invoking EXCEPT ![i] = TRUE]
    BY DEF InvokeNext, control, window
  <1>1. PICK ev \in m_events[i] :
          /\ \A other \in m_events[i] \ {ev} : Earlier(ev, other)
          /\ m_events' = [m_events EXCEPT ![i] = @ \ {ev}]
          /\ m_currentTs' = [m_currentTs EXCEPT ![i] = ev.ts]
          /\ m_currentUid' = [m_currentUid EXCEPT ![i] = ev.uid]
          /\ leftover' = leftover \ {i}
    BY DEF InvokeNext
  <1>2. /\ phase # "over"
        /\ AheadInv /\ PendingInv
    BY <1>0 DEF Processing
  <1>3. /\ ev \in EventSet /\ ev.ts \in Nat /\ ev.ts <= Half /\ ev.uid \in Nat
        /\ \A other \in m_events[i] : other.ts \in Nat /\ other.ts <= Half /\ other.uid \in Nat
    BY <1>1, Records DEF TypeOK
  <1>4. \A other \in m_events[i] : ev.ts <= other.ts
    BY <1>1, <1>3 DEF Earlier
  <1>5. PICK due \in m_events[i] : Granted(i, due.ts)
    BY <1>0 DEF Due
  <1>6. g_smallestTime \in 0 .. Half /\ g_nextPublicTime \in Nat /\ due.ts \in 0 .. Half
        /\ ev.ts <= due.ts
    BY <1>3, <1>4, RoundsAssumption DEF TypeOK, TimeMax
  <1>7. /\ ev.ts <= g_nextPublicTime
        /\ i = Public => ev.ts <= g_smallestTime
        /\ i # Public => \A k \in LP : <<i, k>> \in Links =>
             ev.ts <= g_smallestTime + Delay[<<i, k>>]
    <2>1. /\ due.ts <= g_nextPublicTime
          /\ i = Public => due.ts <= g_smallestTime
          /\ i # Public => \A k \in LP : <<i, k>> \in Links =>
               due.ts <= g_smallestTime + Delay[<<i, k>>]
      BY <1>5, <1>6, GrantedBound
    <2>2. \A k \in LP : <<i, k>> \in Links => Delay[<<i, k>>] \in Nat
      BY RoundsAssumption
    <2> QED BY <1>3, <1>6, <2>1, <2>2
  <1>8. /\ ev.ts >= g_smallestTime
        /\ i = Public => ev.ts >= g_nextPublicTime
    BY <1>2 DEF PendingInv
  <1>9. /\ \A j \in System : m_events'[j] \subseteq m_events[j]
        /\ \A j \in System : j # i => m_events'[j] = m_events[j]
                                    /\ m_currentTs'[j] = m_currentTs[j]
                                    /\ m_currentUid'[j] = m_currentUid[j]
                                    /\ invoking'[j] = invoking[j]
        /\ m_currentTs'[i] = ev.ts /\ m_currentUid'[i] = ev.uid /\ invoking'[i]
        /\ m_events'[i] = m_events[i] \ {ev}
    BY <1>0, <1>1 DEF TypeOK
  <1>10. TypeOK'
    BY <1>0, <1>1, <1>3 DEF TypeOK
  <1>11. NoPast'
    <2>1. \A j \in System : \A o \in m_events'[j] : o.ts >= m_currentTs'[j]
      BY <1>4, <1>9 DEF NoPast
    <2>2. \A j \in System : \A m \in m_mailbox[i][j] : m.ts >= ev.ts
      <3> SUFFICES ASSUME NEW j \in System, NEW m \in m_mailbox[i][j]
                   PROVE  m.ts >= ev.ts
        OBVIOUS
      <3>1. m.ts \in Nat
        <4>1. m_mailbox \in [System -> [System -> SUBSET MessageSet]]
          BY DEF TypeOK
        <4>2. m \in MessageSet
          BY <4>1
        <4> QED BY <4>2, Records
      <3>2. i # Public
        BY DEF MailInv
      <3>3. CASE j = Public
        <4>1. m.ts >= g_nextPublicTime
          BY <3>3, <1>2 DEF PendingInv
        <4> QED BY <3>1, <4>1, <1>3, <1>6, <1>7
      <3>4. CASE j # Public
        <4>1. j \in LP /\ <<i, j>> \in Links /\ m.ts >= g_smallestTime + Delay[<<i, j>>]
          BY <3>4, <1>2 DEF PendingInv
        <4>2. Delay[<<i, j>>] \in Nat
          BY <4>1, RoundsAssumption
        <4> QED BY <3>1, <3>2, <4>1, <4>2, <1>3, <1>6, <1>7
      <3> QED BY <3>3, <3>4
    <2> QED BY <2>1, <2>2, <1>0, <1>9 DEF NoPast
  <1>12. PendingNotExpired'
    <2> SUFFICES ASSUME NEW j \in System, NEW o \in m_events'[j]
                 PROVE  IsExpired(j, o)' => Misjudged(j, o)'
      BY DEF PendingNotExpired
    <2>1. CASE j = i
      BY <2>1, <1>1, <1>3, <1>9 DEF Earlier, IsExpired
    <2>2. CASE j # i
      <3>1. IsExpired(j, o)' <=> IsExpired(j, o)
        BY <2>2, <1>9 DEF IsExpired
      <3>2. Misjudged(j, o) => Misjudged(j, o)'
        BY <2>2, <1>1 DEF Misjudged
      <3> QED BY <2>2, <1>9, <3>1, <3>2 DEF PendingNotExpired
    <2> QED BY <2>1, <2>2
  <1>13. AheadInv' /\ PendingInv'
    <2>1. AheadInv'
      BY <1>0, <1>2, <1>7, <1>9 DEF AheadInv
    <2>2. PendingInv'
      BY <1>0, <1>2, <1>9 DEF PendingInv
    <2> QED BY <2>1, <2>2
  <1>14. InvokingInv'
    BY <1>0, <1>8, <1>9 DEF InvokingInv, Processing
  <1>15. MailInv'
    <2>1. \A j \in System : Inbox(j)' = Inbox(j)
      BY <1>0 DEF Inbox
    <2> QED BY <1>0, <2>1 DEF MailInv
  <1>16. StopInv'
    BY <1>0, <1>2 DEF StopInv
  <1>17. UidInv'
    <2>1. \A o \in m_events[i] : o.uid < m_uid[i]
      BY DEF UidInv
    <2>2. ev.uid < m_uid[i] /\ i \notin leftover'
      BY <1>1, <2>1
    <2>3. \A j \in System : j # i => (j \in leftover' <=> j \in leftover)
      BY <1>1
    <2> QED BY <1>0, <1>9, <2>2, <2>3 DEF UidInv
  <1> QED BY <1>10, <1>11, <1>12, <1>13, <1>14, <1>15, <1>16, <1>17

\* An event that gets the next uid and is not in the past does not look expired,
\* but for what InvokeNow has left.
LEMMA NextUid ==
  ASSUME TypeOK, UidInv, NEW i \in System, NEW ev \in EventSet,
         ev.ts >= m_currentTs[i], ev.uid >= m_uid[i]
  PROVE  IsExpired(i, ev) => Misjudged(i, ev)
  <1>1. /\ ev.ts \in Nat /\ ev.uid \in Nat /\ m_uid[i] \in Nat
        /\ m_currentTs[i] \in Nat /\ m_currentUid[i] \in Nat
    BY Records, RoundsAssumption DEF TypeOK
  <1>2. CASE i \in leftover
    <2>1. m_currentTs[i] = 0
      BY <1>2 DEF UidInv
    <2> QED BY <1>1, <1>2, <2>1 DEF IsExpired, Misjudged
  <1>3. CASE i \notin leftover
    <2>1. m_currentUid[i] < m_uid[i]
      BY <1>3 DEF UidInv
    <2> QED BY <1>1, <2>1 DEF IsExpired
  <1> QED BY <1>2, <1>3

\* An event schedules another one in its own LP.
LEMMA ScheduleStep ==
  ASSUME RInv, NEW i \in System, Schedule(i)
  PROVE  RInv'
  <1> USE Systems
  <1> USE DEF RInv
  <1>0. /\ UNCHANGED <<phase, work, invoking, m_mailbox, m_currentTs, m_currentUid, leftover,
                       m_stop, g_smallestTime, g_nextPublicTime>>
        /\ invoking[i]
    BY DEF Schedule, control, window, clocks
  <1>1. PICK ts \in m_currentTs[i] .. Half :
          m_events' = [m_events EXCEPT ![i] =
                        @ \cup {[impl |-> NewImpl(i), ts |-> ts, uid |-> m_uid[i]]}]
    BY DEF Schedule
  <1> DEFINE new == [impl |-> NewImpl(i), ts |-> ts, uid |-> m_uid[i]]
  <1>2. /\ phase # "over"
        /\ AheadInv /\ PendingInv
        /\ m_currentTs[i] >= g_smallestTime
        /\ i = Public => m_currentTs[i] >= g_nextPublicTime
    BY <1>0 DEF InvokingInv, Processing
  <1>3. /\ m_uid[i] \in Nat /\ m_currentTs[i] \in Nat /\ ts \in 0 .. Half
        /\ g_smallestTime \in Nat /\ g_nextPublicTime \in Nat
    BY RoundsAssumption DEF TypeOK, TimeMax
  <1>4. /\ created[i] + 1 \in 1 .. MaxEvents
        /\ created' \in [System -> 0 .. MaxEvents]
        /\ NewImpl(i) \in Impl
    BY RoundsAssumption DEF Schedule, TypeOK, NewImpl, Impl
  <1>5. new \in EventSet /\ new.ts = ts /\ new.uid = m_uid[i]
    BY <1>3, <1>4, Records
  <1> HIDE DEF new
  <1>6. /\ m_events'[i] = m_events[i] \cup {new}
        /\ \A j \in System : j # i => m_events'[j] = m_events[j] /\ m_uid'[j] = m_uid[j]
        /\ m_uid'[i] = m_uid[i] + 1
        /\ m_uid' \in [System -> Nat]
        /\ m_events' \in [System -> SUBSET EventSet]
    BY <1>1, <1>3, <1>5 DEF TypeOK, Schedule, new
  <1>7. TypeOK'
    BY <1>0, <1>4, <1>6 DEF TypeOK
  <1>8. NoPast'
    BY <1>0, <1>3, <1>5, <1>6 DEF NoPast
  <1>9. PendingNotExpired'
    <2>1. IsExpired(i, new) => Misjudged(i, new)
      BY <1>3, <1>5, NextUid
    <2> QED BY <1>0, <1>6, <2>1 DEF PendingNotExpired, IsExpired, Misjudged
  <1>10. AheadInv' /\ PendingInv'
    <2>1. AheadInv'
      BY <1>0, <1>2 DEF AheadInv
    <2>2. new.ts >= g_smallestTime /\ (i = Public => new.ts >= g_nextPublicTime)
      BY <1>2, <1>3, <1>5
    <2>3. PendingInv'
      BY <1>0, <1>2, <1>6, <2>2 DEF PendingInv
    <2> QED BY <2>1, <2>3
  <1>11. InvokingInv'
    BY <1>0 DEF InvokingInv, Processing
  <1>12. MailInv'
    <2>1. \A j \in System : Inbox(j)' = Inbox(j)
      BY <1>0 DEF Inbox
    <2> QED BY <1>0, <2>1 DEF MailInv
  <1>13. StopInv'
    BY <1>0, <1>2 DEF StopInv
  <1>14. UidInv'
    <2>1. \A j \in System : m_uid[j] \in Nat /\ m_currentUid[j] \in Nat
      BY DEF TypeOK
    <2>2. \A ev \in m_events[i] : ev.uid \in Nat /\ ev.uid < m_uid[i]
      BY Records DEF TypeOK, UidInv
    <2>3. \A ev \in m_events'[i] : ev.uid < m_uid'[i]
      BY <1>3, <1>5, <1>6, <2>2
    <2> QED BY <1>0, <1>6, <2>1, <2>3 DEF UidInv
  <1> QED BY <1>7, <1>8, <1>9, <1>10, <1>11, <1>12, <1>13, <1>14

\* One more message in a mailbox, while no LP receives.
LEMMA MailMore ==
  ASSUME MailInv, NEW i \in System, NEW j \in LP, NEW new,
         phase \notin {"over", "calc", "receive"}, phase' = phase,
         m_mailbox'[j][i] = m_mailbox[j][i] \cup {new},
         \A a, b \in System : a # j \/ b # i => m_mailbox'[a][b] = m_mailbox[a][b]
  PROVE  MailInv'
  <1> USE Systems
  <1>1. \A a \in System : a # j => Inbox(a)' = Inbox(a)
    <2> SUFFICES ASSUME NEW a \in System, a # j PROVE Inbox(a)' = Inbox(a)
      OBVIOUS
    <2>1. \A b \in System : m_mailbox'[a][b] = m_mailbox[a][b]
      OBVIOUS
    <2> QED BY <2>1 DEF Inbox
  <1>2. Inbox(j)' = Inbox(j) \cup {[from |-> i, msg |-> new]}
    <2>1. \A x : x \in Inbox(j)' <=>
            \E b \in System : \E m \in m_mailbox'[j][b] : x = [from |-> b, msg |-> m]
      BY DEF Inbox
    <2>2. \A x : x \in Inbox(j) <=>
            \E b \in System : \E m \in m_mailbox[j][b] : x = [from |-> b, msg |-> m]
      BY DEF Inbox
    <2> QED BY <2>1, <2>2
  <1>3. IsFiniteSet(Inbox(j)')
    <2> DEFINE inbox == Inbox(j)
               entry == [from |-> i, msg |-> new]
    <2>1. IsFiniteSet(inbox)
      BY DEF MailInv
    <2>2. Inbox(j)' = inbox \cup {entry}
      BY <1>2
    <2> HIDE DEF inbox, entry
    <2>3. IsFiniteSet(inbox \cup {entry})
      BY <2>1, FS_AddElement
    <2> QED BY <2>2, <2>3
  <1>4. \A a \in System : IsFiniteSet(Inbox(a))'
    BY <1>1, <1>3 DEF MailInv
  <1>5. \A b \in System : m_mailbox'[Public][b] = {}
    BY DEF MailInv
  <1> QED BY <1>4, <1>5 DEF MailInv

\* An event sends another one to a node of another LP.
LEMMA ScheduleWithContextStep ==
  ASSUME RInv, NEW i \in System, NEW j \in LP, ScheduleWithContext(i, j)
  PROVE  RInv'
  <1> USE Systems
  <1> USE DEF RInv
  <1>0. /\ UNCHANGED <<phase, work, invoking, m_events, m_currentTs, m_currentUid, leftover,
                       m_uid, m_stop, g_smallestTime, g_nextPublicTime>>
        /\ invoking[i] /\ i # j
    BY DEF ScheduleWithContext, control, window, clocks
  <1>1. PICK ts \in m_currentTs[i] .. Half :
          /\ ts - m_currentTs[i] \in Reach(i, j)
          /\ m_mailbox' = [m_mailbox EXCEPT ![j][i] =
               @ \cup {[impl |-> NewImpl(i), ts |-> ts,
                        sent |-> m_currentTs[i], uid |-> m_uid[i]]}]
    BY DEF ScheduleWithContext
  <1> DEFINE new == [impl |-> NewImpl(i), ts |-> ts,
                     sent |-> m_currentTs[i], uid |-> m_uid[i]]
  <1>2. /\ phase \notin {"over", "calc", "receive"}
        /\ AheadInv /\ PendingInv
        /\ m_currentTs[i] >= g_smallestTime
        /\ i = Public => m_currentTs[i] >= g_nextPublicTime
    BY <1>0 DEF InvokingInv, Processing
  <1>3. /\ m_uid[i] \in Nat /\ m_currentTs[i] \in 0 .. Half /\ ts \in 0 .. Half
        /\ m_currentTs[j] \in Nat
        /\ g_smallestTime \in Nat /\ g_nextPublicTime \in Nat
    BY RoundsAssumption DEF TypeOK, TimeMax
  <1>4. /\ created' \in [System -> 0 .. MaxEvents]
        /\ NewImpl(i) \in Impl
    BY RoundsAssumption DEF ScheduleWithContext, TypeOK, NewImpl, Impl
  <1>5. new \in MessageSet /\ new.ts = ts
    BY <1>3, <1>4, Records
  <1> HIDE DEF new
  <1>6. /\ m_mailbox'[j][i] = m_mailbox[j][i] \cup {new}
        /\ \A a, b \in System : a # j \/ b # i => m_mailbox'[a][b] = m_mailbox[a][b]
        /\ m_mailbox' \in [System -> [System -> SUBSET MessageSet]]
    BY <1>1, <1>5 DEF TypeOK, new
  <1>7. /\ new.ts >= g_smallestTime
        /\ i = Public => new.ts >= g_nextPublicTime
        /\ i # Public => <<j, i>> \in Links /\ new.ts >= g_smallestTime + Delay[<<j, i>>]
        /\ new.ts >= m_currentTs[j]
    <2>1. CASE i = Public
      BY <2>1, <1>2, <1>3, <1>5 DEF AheadInv
    <2>2. CASE i # Public
      <3>1. i \in LP /\ <<i, j>> \in Links /\ ts - m_currentTs[i] >= Delay[<<i, j>>]
        BY <2>2, <1>1 DEF Reach
      <3>2. <<j, i>> \in Links /\ Delay[<<j, i>>] = Delay[<<i, j>>] /\ Delay[<<j, i>>] \in Nat
        BY <3>1, RoundsAssumption
      <3>3. m_currentTs[j] <= g_smallestTime + Delay[<<j, i>>]
        BY <3>1, <3>2, <1>2 DEF AheadInv
      <3> QED BY <2>2, <3>1, <3>2, <3>3, <1>2, <1>3, <1>5
    <2> QED BY <2>1, <2>2
  <1>8. TypeOK'
    BY <1>0, <1>4, <1>6 DEF TypeOK
  <1>9. NoPast'
    <2>1. \A a, b \in System : \A m \in m_mailbox'[a][b] :
            m \in m_mailbox[a][b] \/ (a = j /\ b = i /\ m = new)
      BY <1>6
    <2> QED BY <1>0, <1>7, <2>1 DEF NoPast
  <1>10. PendingNotExpired' /\ UidInv'
    BY <1>0 DEF PendingNotExpired, IsExpired, Misjudged, UidInv
  <1>11. AheadInv' /\ PendingInv'
    <2>1. AheadInv'
      BY <1>0, <1>2 DEF AheadInv
    <2>2. \A a, b \in System : \A m \in m_mailbox'[a][b] :
            m \in m_mailbox[a][b] \/ (a = j /\ b = i /\ m = new)
      BY <1>6
    <2>3. PendingInv'
      BY <1>0, <1>2, <1>7, <2>2 DEF PendingInv
    <2> QED BY <2>1, <2>3
  <1>12. InvokingInv'
    BY <1>0 DEF InvokingInv, Processing
  <1>13. MailInv'
    BY <1>0, <1>2, <1>6, MailMore
  <1>14. StopInv'
    BY <1>0, <1>2 DEF StopInv
  <1> QED BY <1>8, <1>9, <1>10, <1>11, <1>12, <1>13, <1>14

\* An event stops the simulation, or returns.
LEMMA StopReturnStep ==
  ASSUME RInv, NEW i \in System, Stop(i) \/ Return(i)
  PROVE  RInv'
  <1> USE Systems
  <1> USE DEF RInv
  <1>0. UNCHANGED <<phase, work, m_events, m_mailbox, m_currentTs, m_currentUid, leftover,
                    m_uid, g_smallestTime, g_nextPublicTime, created>>
    BY DEF Stop, Return, control, window, clocks
  <1>1. phase # "over"
    BY DEF Stop, Return, InvokingInv, Processing
  <1>2. /\ invoking' \in [System -> BOOLEAN]
        /\ \A j \in System : invoking'[j] => invoking[j]
    BY DEF Stop, Return, TypeOK
  <1>3. m_stop' \in [System -> BOOLEAN]
    BY DEF Stop, Return, TypeOK
  <1>4. TypeOK'
    BY <1>0, <1>2, <1>3 DEF TypeOK
  <1>5. NoPast' /\ PendingNotExpired' /\ UidInv'
    BY <1>0 DEF NoPast, PendingNotExpired, IsExpired, Misjudged, UidInv
  <1>6. AheadInv' /\ PendingInv'
    BY <1>0, <1>1 DEF AheadInv, PendingInv
  <1>7. InvokingInv'
    BY <1>0, <1>2 DEF InvokingInv, Processing
  <1>8. MailInv'
    <2>1. \A j \in System : Inbox(j)' = Inbox(j)
      BY <1>0 DEF Inbox
    <2> QED BY <1>0, <2>1 DEF MailInv
  <1>9. StopInv'
    BY <1>0, <1>1 DEF StopInv, Stop, Return
  <1> QED BY <1>4, <1>5, <1>6, <1>7, <1>8, <1>9

\* An LP moves the messages of its mailbox to its event list, under new uids.
LEMMA ReceiveMessagesFacts ==
  ASSUME TypeOK, MailInv, StopInv, UidInv, NEW i \in LP, ReceiveMessages(i)
  PROVE  /\ UNCHANGED <<phase, invoking, m_currentTs, m_currentUid, leftover, m_stop,
                        g_smallestTime, g_nextPublicTime, created>>
         /\ phase \in {"receive", "over"}
         /\ \A j \in System : j # i => m_events'[j] = m_events[j]
         /\ \A j, k \in System : m_mailbox'[j][k] \subseteq m_mailbox[j][k]
         /\ \A ev \in m_events'[i] : ev \notin m_events[i] =>
              /\ ev \in EventSet
              /\ ev.uid >= m_uid[i]
              /\ \E j \in System : \E m \in m_mailbox[i][j] : m.ts = ev.ts
         /\ TypeOK' /\ MailInv' /\ StopInv' /\ UidInv'
  <1> USE Systems
  <1> DEFINE c == Cardinality(Inbox(i))
  <1>0. /\ UNCHANGED <<phase, invoking, m_currentTs, m_currentUid, leftover, m_stop,
                       g_smallestTime, g_nextPublicTime, created>>
        /\ phase \in {"receive", "over"}
        /\ work' = [work EXCEPT ![i] = "done"]
        /\ m_uid' = [m_uid EXCEPT ![i] = @ + c]
        /\ m_mailbox' = [m_mailbox EXCEPT ![i] = [j \in System |-> {}]]
    BY DEF ReceiveMessages, clocks, window, Stages!End
  <1>1. PICK rank \in [Inbox(i) -> 0 .. c - 1] :
          m_events' = [m_events EXCEPT ![i] = @ \cup
              {[impl |-> a.msg.impl, ts |-> a.msg.ts, uid |-> m_uid[i] + rank[a]] :
                 a \in Inbox(i)}]
    BY DEF ReceiveMessages
  <1>2. c \in Nat
    BY FS_CardinalityType DEF MailInv
  <1>3. m_uid[i] \in Nat /\ m_currentTs[i] \in Nat /\ m_currentUid[i] \in Nat
    BY RoundsAssumption DEF TypeOK
  <1> HIDE DEF c
  <1>4. ASSUME NEW ev \in m_events'[i], ev \notin m_events[i]
        PROVE  /\ ev \in EventSet
               /\ ev.uid >= m_uid[i] /\ ev.uid < m_uid[i] + c
               /\ \E j \in System : \E m \in m_mailbox[i][j] : m.ts = ev.ts
    <2>1. PICK a \in Inbox(i) :
            ev = [impl |-> a.msg.impl, ts |-> a.msg.ts, uid |-> m_uid[i] + rank[a]]
      BY <1>1, <1>4 DEF TypeOK
    <2>2. rank[a] \in Nat /\ rank[a] < c
      BY <1>1, <1>2
    <2>3. PICK j \in System : \E m \in m_mailbox[i][j] : a = [from |-> j, msg |-> m]
      BY DEF Inbox
    <2>4. PICK m \in m_mailbox[i][j] : a = [from |-> j, msg |-> m]
      BY <2>3
    <2>5. m_mailbox \in [System -> [System -> SUBSET MessageSet]]
      BY DEF TypeOK
    <2>6. m \in MessageSet
      BY <2>5
    <2>7. ev = [impl |-> m.impl, ts |-> m.ts, uid |-> m_uid[i] + rank[a]]
      BY <2>1, <2>4
    <2>8. m.impl \in Impl /\ m.ts \in 0 .. Half /\ m_uid[i] + rank[a] \in Nat
      BY <2>2, <2>6, <1>3, Records, RoundsAssumption
    <2>9. ev \in EventSet
      BY <2>7, <2>8, Records
    <2>10. ev.ts = m.ts /\ ev.uid = m_uid[i] + rank[a]
      BY <2>7
    <2> QED BY <2>2, <2>9, <2>10, <1>2, <1>3
  <1>5. /\ \A j \in System : j # i => /\ m_events'[j] = m_events[j]
                                     /\ m_uid'[j] = m_uid[j]
                                     /\ m_mailbox'[j] = m_mailbox[j]
        /\ m_uid'[i] = m_uid[i] + c
        /\ \A j \in System : m_mailbox'[i][j] = {}
        /\ m_uid' \in [System -> Nat]
        /\ m_mailbox' \in [System -> [System -> SUBSET MessageSet]]
    BY <1>0, <1>1, <1>2, <1>3 DEF TypeOK
  <1>6. m_events' \in [System -> SUBSET EventSet]
    <2>1. m_events \in [System -> SUBSET EventSet]
      BY DEF TypeOK
    <2>2. m_events'[i] \in SUBSET EventSet
      BY <1>4, <2>1
    <2> QED BY <1>1, <2>1, <2>2
  <1>7. TypeOK'
    BY <1>0, <1>5, <1>6 DEF TypeOK
  <1>8. MailInv'
    <2>1. \A j \in System : j # i => Inbox(j)' = Inbox(j)
      BY <1>5 DEF Inbox
    <2>2. Inbox(i)' = {}
      BY <1>5 DEF Inbox
    <2>3. \A j \in System : IsFiniteSet(Inbox(j))'
      BY <2>1, <2>2, FS_EmptySet DEF MailInv
    <2>4. \A j \in System : m_mailbox'[Public][j] = {}
      BY <1>5 DEF MailInv
    <2>5. \A j \in LP : j # i => work'[j] = work[j]
      BY <1>0 DEF TypeOK
    <2> QED BY <1>0, <1>5, <2>3, <2>4, <2>5 DEF MailInv
  <1>9. StopInv'
    <2>1. ASSUME phase = "over"
          PROVE  m_events'[i] = m_events[i]
      <3>1. \A j \in System : m_mailbox[i][j] = {}
        BY <2>1 DEF MailInv
      <3>2. Inbox(i) = {}
        BY <3>1 DEF Inbox
      <3> QED BY <3>2, <1>1 DEF TypeOK
    <2>2. phase = "over" => \A j \in System : m_events'[j] = m_events[j]
      BY <2>1, <1>5
    <2> QED BY <1>0, <2>2 DEF StopInv, isLocalFinished
  <1>10. UidInv'
    <2>1. i \in leftover \/ m_currentUid[i] < m_uid'[i]
      BY <1>2, <1>3, <1>5 DEF UidInv
    <2>2. i \in leftover => m_currentTs[i] = 0
      BY DEF UidInv
    <2>3. ASSUME NEW ev \in m_events'[i]
          PROVE  ev.uid < m_uid'[i]
      <3>1. CASE ev \in m_events[i]
        <4>1. m_events[i] \subseteq EventSet
          BY DEF TypeOK
        <4>2. ev.uid \in Nat
          BY <3>1, <4>1, Records
        <4>3. ev.uid < m_uid[i]
          BY <3>1 DEF UidInv
        <4> QED BY <4>2, <4>3, <1>2, <1>3, <1>5
      <3>2. CASE ev \notin m_events[i]
        BY <3>2, <1>4, <1>5
      <3> QED BY <3>1, <3>2
    <2> QED BY <1>0, <1>5, <2>1, <2>2, <2>3 DEF UidInv
  <1>11. \A j, k \in System : m_mailbox'[j][k] \subseteq m_mailbox[j][k]
    BY <1>5
  <1> QED BY <1>0, <1>4, <1>5, <1>7, <1>8, <1>9, <1>10, <1>11

LEMMA ReceiveMessagesStep ==
  ASSUME RInv, NEW i \in LP, ReceiveMessages(i)
  PROVE  RInv'
  <1> USE Systems
  <1> USE DEF RInv
  <1>1. /\ UNCHANGED <<phase, invoking, m_currentTs, m_currentUid, leftover, m_stop,
                       g_smallestTime, g_nextPublicTime, created>>
        /\ phase \in {"receive", "over"}
        /\ \A j \in System : j # i => m_events'[j] = m_events[j]
        /\ \A j, k \in System : m_mailbox'[j][k] \subseteq m_mailbox[j][k]
        /\ TypeOK' /\ MailInv' /\ StopInv' /\ UidInv'
    BY ReceiveMessagesFacts
  <1>2. ASSUME NEW ev \in m_events'[i], ev \notin m_events[i]
        PROVE  /\ ev \in EventSet
               /\ ev.uid >= m_uid[i]
               /\ \E j \in System : \E m \in m_mailbox[i][j] : m.ts = ev.ts
    BY <1>2, ReceiveMessagesFacts
  <1>3. m_uid[i] \in Nat /\ m_currentTs[i] \in Nat /\ m_currentUid[i] \in Nat
    BY RoundsAssumption DEF TypeOK
  <1>4. \A ev \in m_events'[i] : ev \in m_events[i] \/ ev.ts >= m_currentTs[i]
    BY <1>2 DEF NoPast
  <1>5. NoPast'
    BY <1>1, <1>4 DEF NoPast
  <1>6. PendingNotExpired'
    <2> SUFFICES ASSUME NEW ev \in m_events'[i], ev \notin m_events[i]
                 PROVE  IsExpired(i, ev) => Misjudged(i, ev)
      BY <1>1 DEF PendingNotExpired, IsExpired, Misjudged
    <2> QED BY <1>2, <1>4, NextUid
  <1>7. phase' # "over" => AheadInv' /\ PendingInv'
    <2> SUFFICES ASSUME phase # "over", AheadInv, PendingInv
                 PROVE  AheadInv' /\ PendingInv'
      BY <1>1
    <2>1. AheadInv'
      BY <1>1 DEF AheadInv
    <2>2. \A ev \in m_events'[i] : ev.ts >= g_smallestTime
      BY <1>2 DEF PendingInv
    <2>3. \A j \in System : \A ev \in m_events'[j] : ev.ts >= g_smallestTime
      BY <1>1, <2>2 DEF PendingInv
    <2>4. PendingInv'
      BY <1>1, <2>3 DEF PendingInv
    <2> QED BY <2>1, <2>4
  <1>8. InvokingInv'
    BY <1>1 DEF InvokingInv, Processing
  <1> QED BY <1>1, <1>5, <1>6, <1>7, <1>8

\* Between the rounds: every message is in an event list, so the smallest time
\* found there bounds all that is pending, and it does not go back.
LEMMA CalculateSmallestTimeStep ==
  ASSUME RInv, CalculateSmallestTime
  PROVE  /\ RInv'
         /\ g_smallestTime' >= g_smallestTime
         /\ g_nextPublicTime' >= g_nextPublicTime
  <1> USE Systems
  <1> USE DEF RInv
  <1>0. /\ UNCHANGED <<invoking, m_events, m_mailbox, m_currentTs, m_currentUid, leftover, m_uid,
                       m_stop, created>>
        /\ phase = "calc"
        /\ g_smallestTime' \in NextTimes(System, Half)
        /\ \A ts \in NextTimes(System, Half) : g_smallestTime' <= ts
        /\ g_nextPublicTime' \in NextTimes({Public}, TimeMax)
        /\ \A ts \in NextTimes({Public}, TimeMax) : g_nextPublicTime' <= ts
    BY DEF CalculateSmallestTime, clocks, LatestTime
  <1>1. /\ phase' \in {"process", "over"}
        /\ work' = [i \in LP |-> "todo"]
        /\ phase' = "over" => \A i \in System : isLocalFinished(i)
        /\ (\A i \in System : isLocalFinished(i)) => phase' = "over"
    BY DEF CalculateSmallestTime, Stages!Finish, Stages!NextRound, Stages!LP, LP
  <1>2. AheadInv /\ PendingInv
    BY <1>0
  <1>3. /\ Half \in Nat /\ TimeMax \in Nat /\ Half < TimeMax
        /\ g_smallestTime \in 0 .. Half /\ g_nextPublicTime \in 0 .. TimeMax
    BY RoundsAssumption DEF TypeOK, TimeMax
  <1>4. \A i \in System : \A ev \in m_events[i] : ev.ts \in 0 .. Half
    <2>1. m_events \in [System -> SUBSET EventSet]
      BY DEF TypeOK
    <2> QED BY <2>1, <1>3, Records
  <1>5. /\ \A ts \in NextTimes(System, Half) : ts \in 0 .. Half /\ ts >= g_smallestTime
        /\ \A i \in System : \A ev \in m_events[i] :
             ~ m_stop[i] => ev.ts \in NextTimes(System, Half)
    BY <1>2, <1>3, <1>4 DEF NextTimes, PendingInv
  <1>6. /\ \A ts \in NextTimes({Public}, TimeMax) : ts \in 0 .. TimeMax /\ ts >= g_nextPublicTime
        /\ \A ev \in m_events[Public] :
             ~ m_stop[Public] => ev.ts \in NextTimes({Public}, TimeMax)
    <2>1. \A ev \in m_events[Public] : ev.ts \in 0 .. TimeMax /\ ev.ts >= g_nextPublicTime
      BY <1>2, <1>3, <1>4 DEF PendingInv
    <2> QED BY <1>3, <2>1 DEF NextTimes
  <1>7. /\ g_smallestTime' \in 0 .. Half /\ g_smallestTime' >= g_smallestTime
        /\ g_nextPublicTime' \in 0 .. TimeMax /\ g_nextPublicTime' >= g_nextPublicTime
    BY <1>0, <1>5, <1>6
  <1>8. TypeOK'
    BY <1>0, <1>1, <1>7 DEF TypeOK, Stages!Phase
  <1>9. NoPast' /\ PendingNotExpired' /\ UidInv'
    BY <1>0 DEF NoPast, PendingNotExpired, IsExpired, Misjudged, UidInv
  <1>10. \A i, j \in System : m_mailbox[i][j] = {}
    BY <1>0 DEF MailInv
  <1>11. phase' # "over" => AheadInv' /\ PendingInv'
    <2> SUFFICES ASSUME phase' # "over"
                 PROVE  AheadInv' /\ PendingInv'
      OBVIOUS
    <2>1. \A i \in System : ~ m_stop[i]
      BY <1>1 DEF StopInv, isLocalFinished
    <2>2. PendingInv'
      BY <1>0, <1>5, <1>6, <1>10, <2>1 DEF PendingInv
    <2>3. \A i \in System : m_currentTs[i] \in Nat
      BY <1>3 DEF TypeOK
    <2>4. \A i, k \in LP : <<i, k>> \in Links => Delay[<<i, k>>] \in Nat
      BY RoundsAssumption
    <2>5. \A i, k \in LP : <<i, k>> \in Links =>
            m_currentTs[i] <= g_smallestTime' + Delay[<<i, k>>]
      BY <1>2, <1>3, <1>7, <2>3, <2>4 DEF AheadInv
    <2>6. /\ \A i \in LP : m_currentTs[i] <= g_nextPublicTime'
          /\ m_currentTs[Public] <= g_smallestTime'
          /\ m_currentTs[Public] <= g_nextPublicTime'
      BY <1>2, <1>3, <1>7, <2>3 DEF AheadInv
    <2>7. AheadInv'
      BY <1>0, <2>5, <2>6 DEF AheadInv
    <2> QED BY <2>2, <2>7
  <1>12. InvokingInv'
    BY <1>0 DEF InvokingInv, Processing
  <1>13. MailInv'
    <2>1. \A j \in System : Inbox(j)' = Inbox(j)
      BY <1>0 DEF Inbox
    <2> QED BY <1>0, <1>10, <2>1 DEF MailInv
  <1>14. StopInv'
    BY <1>0, <1>1 DEF StopInv, isLocalFinished
  <1> QED BY <1>7, <1>8, <1>9, <1>11, <1>12, <1>13, <1>14

LEMMA InvStep == RInv /\ [Next]_vars => RInv'
  <1> SUFFICES ASSUME RInv, [Next]_vars PROVE RInv'
    OBVIOUS
  <1>1. ASSUME NEW i \in System, Event(i)
        PROVE  RInv'
    BY <1>1, InvokeNextStep, ScheduleStep, ScheduleWithContextStep, StopReturnStep
       DEF Event
  <1>2. CASE \E i \in LP : ReceiveMessages(i)
    BY <1>2, ReceiveMessagesStep
  <1>3. CASE CalculateSmallestTime
    BY <1>3, CalculateSmallestTimeStep
  <1>4. CASE Quiet
    BY <1>4, QuietStep
  <1>5. CASE UNCHANGED vars
    <2>1. UNCHANGED <<phase, work, invoking, m_events, m_mailbox, m_currentTs,
                      m_currentUid, leftover, m_uid, m_stop, g_smallestTime, g_nextPublicTime,
                      created>>
      BY <1>5 DEF vars, control, clocks, window
    <2>2. \A j \in System : Inbox(j)' = Inbox(j)
      BY <2>1 DEF Inbox
    <2>3. TypeOK' /\ NoPast' /\ PendingNotExpired' /\ UidInv'
      BY <2>1 DEF RInv, TypeOK, NoPast, PendingNotExpired, IsExpired, Misjudged, UidInv
    <2>4. phase' # "over" => AheadInv' /\ PendingInv'
      BY <2>1 DEF RInv, AheadInv, PendingInv
    <2>5. InvokingInv' /\ StopInv'
      BY <2>1 DEF RInv, InvokingInv, Processing, StopInv, isLocalFinished
    <2>6. MailInv'
      BY <2>1, <2>2 DEF RInv, MailInv
    <2> QED BY <2>3, <2>4, <2>5, <2>6 DEF RInv
  <1> QED BY <1>1, <1>2, <1>3, <1>4, <1>5 DEF Next, Quiet

----------------------------------------------------------------------------
(* The theorems.                                                            *)

\* The rounds keep the invariant.
THEOREM Invariance == SafeSpec => []RInv
  BY InvInit, InvStep, PTL DEF SafeSpec

\* The times, uids and counters stay in their ranges (TypeOK).
THEOREM TypeCorrect == SafeSpec => []TypeOK
  <1>1. RInv => TypeOK
    BY DEF RInv
  <1> QED BY <1>1, Invariance, PTL

\* Causality: no event and no message is ever in the past of its LP, although
\* the LPs run their windows without knowing of each other.
THEOREM Causality == SafeSpec => []NoPast
  <1>1. RInv => NoPast
    BY DEF RInv
  <1> QED BY <1>1, Invariance, PTL

\* LogicalProcess::IsExpired takes no pending event for an expired one, except a
\* time-zero event whose system has run nothing since InvokeNow.
THEOREM NotExpired == SafeSpec => []PendingNotExpired
  <1>1. RInv => PendingNotExpired
    BY DEF RInv
  <1> QED BY <1>1, Invariance, PTL

\* A public event runs at one global time: all LPs have done what is before it
\* and nothing that is after it.
THEOREM OneGlobalTime == SafeSpec => []PublicConsistent
  <1>1. RInv => PublicConsistent
    <2> SUFFICES ASSUME RInv, invoking[Public], NEW i \in LP
                 PROVE  /\ m_currentTs[i] <= m_currentTs[Public]
                        /\ \A ev \in m_events[i] : ev.ts >= m_currentTs[Public]
                        /\ \A j \in System : \A m \in m_mailbox[i][j] :
                             m.ts >= m_currentTs[Public]
      BY DEF PublicConsistent
    <2> USE Systems
    <2>1. /\ AheadInv /\ PendingInv
          /\ m_currentTs[Public] >= g_smallestTime
          /\ m_currentTs[Public] >= g_nextPublicTime
      BY DEF RInv, InvokingInv, Processing
    <2>2. /\ m_currentTs[Public] \in Nat /\ m_currentTs[i] \in Nat
          /\ g_smallestTime \in Nat /\ g_nextPublicTime \in Nat
      BY RoundsAssumption DEF RInv, TypeOK, TimeMax
    <2>3. m_currentTs[Public] = g_smallestTime /\ m_currentTs[i] <= g_nextPublicTime
          /\ m_currentTs[Public] = g_nextPublicTime
      BY <2>1, <2>2 DEF AheadInv
    <2> QED BY <2>1, <2>2, <2>3 DEF PendingInv
  <1> QED BY <1>1, Invariance, PTL

\* No window reaches Time::Max(), so that an empty event list is never asked
\* for its first event.
THEOREM EmptyNeverGranted == SafeSpec => []NeverDequeueEmpty
  <1>1. RInv => NeverDequeueEmpty
    <2> SUFFICES ASSUME RInv, NEW i \in System, Granted(i, TimeMax)
                 PROVE  FALSE
      BY DEF NeverDequeueEmpty
    <2>1. g_smallestTime \in 0 .. Half
      BY DEF RInv, TypeOK
    <2>2. PICK la \in 0 .. TimeMax : IsLookAhead(i, la) /\ TimeMax <= g_smallestTime + la
      BY DEF Granted
    <2>3. la <= Half - 1
      BY <2>2, RoundsAssumption DEF IsLookAhead
    <2> QED BY <2>1, <2>2, <2>3, RoundsAssumption DEF TimeMax
  <1> QED BY <1>1, Invariance, PTL

\* Run returns only when every event has been run, or the simulation stopped.
THEOREM NothingLost == SafeSpec => []NoLostEvents
  <1>1. RInv => NoLostEvents
    <2> SUFFICES ASSUME RInv, phase = "over", \A i \in System : ~ m_stop[i],
                        NEW i \in System
                 PROVE  m_events[i] = {} /\ \A j \in System : m_mailbox[i][j] = {}
      BY DEF NoLostEvents
    <2>1. m_events[i] = {}
      BY DEF RInv, StopInv, isLocalFinished
    <2>2. \A j \in System : m_mailbox[i][j] = {}
      BY Systems DEF RInv, MailInv
    <2> QED BY <2>1, <2>2
  <1> QED BY <1>1, Invariance, PTL

\* Neither the window nor the clock of an LP ever goes back.
THEOREM Forward == SafeSpec => TimeForward
  <1> DEFINE Step == /\ g_smallestTime' >= g_smallestTime
                     /\ g_nextPublicTime' >= g_nextPublicTime
                     /\ \A i \in System : m_currentTs'[i] >= m_currentTs[i]
  <1>1. RInv /\ [Next]_vars => [Step]_vars
    <2> SUFFICES ASSUME RInv, Next PROVE Step
      OBVIOUS
    <2>1. /\ g_smallestTime \in Nat /\ g_nextPublicTime \in Nat
          /\ \A i \in System : m_currentTs[i] \in Nat
      BY RoundsAssumption DEF RInv, TypeOK, TimeMax
    <2>2. ASSUME NEW i \in System, InvokeNext(i)
          PROVE  Step
      <3>1. UNCHANGED <<g_smallestTime, g_nextPublicTime>>
        BY <2>2 DEF InvokeNext, window
      <3>2. PICK ev \in m_events[i] : m_currentTs' = [m_currentTs EXCEPT ![i] = ev.ts]
        BY <2>2 DEF InvokeNext
      <3>3. ev.ts >= m_currentTs[i]
        BY DEF RInv, NoPast
      <3>4. m_currentTs'[i] = ev.ts
            /\ \A j \in System : j # i => m_currentTs'[j] = m_currentTs[j]
        BY <3>2 DEF RInv, TypeOK
      <3> QED BY <2>1, <3>1, <3>3, <3>4
    <2>3. CASE CalculateSmallestTime
      <3>1. m_currentTs' = m_currentTs
        BY <2>3 DEF CalculateSmallestTime, clocks
      <3> QED BY <2>1, <2>3, <3>1, CalculateSmallestTimeStep
    <2>4. CASE UNCHANGED <<g_smallestTime, g_nextPublicTime, m_currentTs>>
      BY <2>1, <2>4
    <2>5. ASSUME NEW i \in System, Event(i), ~ InvokeNext(i)
          PROVE  UNCHANGED <<g_smallestTime, g_nextPublicTime, m_currentTs>>
      BY <2>5 DEF Event, Schedule, ScheduleWithContext, Stop, Return, clocks, window
    <2>6. ASSUME NEW i \in LP, Begin(i) \/ EndRound(i) \/ ReceiveMessages(i)
          PROVE  UNCHANGED <<g_smallestTime, g_nextPublicTime, m_currentTs>>
      BY <2>6 DEF Begin, EndRound, ReceiveMessages, clocks, window
    <2>7. EnterPublic \/ EnterReceive \/ EnterCalc \/ Returned =>
            UNCHANGED <<g_smallestTime, g_nextPublicTime, m_currentTs>>
      BY DEF EnterPublic, EnterReceive, EnterCalc, Returned, vars, clocks, window
    <2> HIDE DEF Step
    <2> QED BY <2>2, <2>3, <2>4, <2>5, <2>6, <2>7 DEF Next
  <1> QED BY <1>1, Invariance, PTL DEF SafeSpec, TimeForward

-----------------------------------------------------------------------------
(* The rounds are a discrete event simulation (EventSimulation), and what  *)
(* survives of their order when programs use MtpInterface::ScheduleGlobal. *)

\* The number of the event implementation, and who created it.
Created(impl) == impl[2] <= created[impl[1]]

\* Every event implementation is in one place of one system at most, and was
\* created already.
ListDistinct ==
    \A i \in System : \A ev \in m_events[i] :
        /\ Created(ev.impl)
        /\ \A f \in m_events[i] : f.impl = ev.impl => f = ev
        /\ \A j \in System : \A m \in m_mailbox[i][j] : m.impl # ev.impl

MailDistinct ==
    \A i, j \in System : \A m \in m_mailbox[i][j] :
        /\ Created(m.impl)
        /\ \A k \in System : \A f \in m_mailbox[i][k] : f.impl = m.impl => k = j /\ f = m

Distinct == ListDistinct /\ MailDistinct

\* The implementations are pairs of a system and a number.
LEMMA ImplPairs ==
  ASSUME NEW p \in Impl
  PROVE  p[1] \in System /\ p[2] \in 1 .. MaxEvents /\ p = <<p[1], p[2]>>
  BY DEF Impl

LEMMA InitDistinct == Init => Distinct
  <1> SUFFICES ASSUME Init PROVE Distinct
    OBVIOUS
  <1>0. PICK start \in [1 .. InitialEvents -> {e \in Entry : Legal(e)}] :
         /\ m_events = [i \in System |->
              {[impl |-> <<i, n>>, ts |-> start[n].ts, uid |-> FirstUid(start, i, n)] :
                 n \in OwnBefore(start, i, InitialEvents + 1)}]
         /\ m_mailbox = [i \in System |-> [j \in System |->
              {[impl |-> <<j, n>>, ts |-> start[n].ts, sent |-> 0,
                uid |-> FirstUid(start, j, n)] :
                 n \in {k \in 1 .. InitialEvents :
                          start[k].to = i /\ start[k].from = j /\ i # j}}]]
    BY DEF Init, FirstRound
  <1>1. created = [i \in System |-> InitialEvents]
    BY DEF Init, FirstRound
  <1>2. ASSUME NEW i \in System, NEW ev \in m_events[i]
        PROVE  \E n \in 1 .. InitialEvents :
                 ev = [impl |-> <<i, n>>, ts |-> start[n].ts, uid |-> FirstUid(start, i, n)]
    BY <1>0, <1>2, RoundsAssumption DEF OwnBefore
  <1>3. ASSUME NEW i \in System, NEW j \in System, NEW m \in m_mailbox[i][j]
        PROVE  /\ i # j
               /\ \E n \in 1 .. InitialEvents :
                    m = [impl |-> <<j, n>>, ts |-> start[n].ts, sent |-> 0,
                         uid |-> FirstUid(start, j, n)]
    BY <1>0, <1>3
  <1>4. ListDistinct
    <2> SUFFICES ASSUME NEW i \in System, NEW ev \in m_events[i]
                 PROVE  /\ Created(ev.impl)
                        /\ \A f \in m_events[i] : f.impl = ev.impl => f = ev
                        /\ \A j \in System : \A m \in m_mailbox[i][j] : m.impl # ev.impl
      BY DEF ListDistinct
    <2>1. PICK n \in 1 .. InitialEvents :
            ev = [impl |-> <<i, n>>, ts |-> start[n].ts, uid |-> FirstUid(start, i, n)]
      BY <1>2
    <2>2. Created(ev.impl)
      BY <1>1, <2>1, RoundsAssumption DEF Created
    <2>3. ASSUME NEW f \in m_events[i], f.impl = ev.impl PROVE f = ev
      <3>1. PICK k \in 1 .. InitialEvents :
              f = [impl |-> <<i, k>>, ts |-> start[k].ts, uid |-> FirstUid(start, i, k)]
        BY <1>2
      <3>2. k = n
        BY <2>1, <2>3, <3>1
      <3> QED BY <2>1, <3>1, <3>2
    <2>4. ASSUME NEW j \in System, NEW m \in m_mailbox[i][j] PROVE m.impl # ev.impl
      <3>1. i # j /\ \E k \in 1 .. InitialEvents : m.impl = <<j, k>>
        BY <1>3
      <3> QED BY <2>1, <3>1
    <2> QED BY <2>2, <2>3, <2>4
  <1>5. MailDistinct
    <2> SUFFICES ASSUME NEW i \in System, NEW j \in System, NEW m \in m_mailbox[i][j]
                 PROVE  /\ Created(m.impl)
                        /\ \A k \in System : \A f \in m_mailbox[i][k] :
                             f.impl = m.impl => k = j /\ f = m
      BY DEF MailDistinct
    <2>1. PICK n \in 1 .. InitialEvents :
            m = [impl |-> <<j, n>>, ts |-> start[n].ts, sent |-> 0,
                 uid |-> FirstUid(start, j, n)]
      BY <1>3
    <2>2. Created(m.impl)
      BY <1>1, <2>1, RoundsAssumption DEF Created
    <2>3. ASSUME NEW k \in System, NEW f \in m_mailbox[i][k], f.impl = m.impl
          PROVE  k = j /\ f = m
      <3>1. PICK l \in 1 .. InitialEvents :
              f = [impl |-> <<k, l>>, ts |-> start[l].ts, sent |-> 0,
                   uid |-> FirstUid(start, k, l)]
        BY <1>3
      <3>2. l = n /\ k = j
        BY <2>1, <2>3, <3>1
      <3> QED BY <2>1, <3>1, <3>2
    <2> QED BY <2>2, <2>3
  <1> QED BY <1>4, <1>5 DEF Distinct

\* What is created stays created.
LEMMA CreatedMore ==
  ASSUME TypeOK, created' \in [System -> 0 .. MaxEvents],
         \A i \in System : created'[i] >= created[i], NEW p \in Impl, Created(p)
  PROVE  Created(p)'
  <1>1. p[1] \in System /\ p[2] \in Nat
    BY ImplPairs
  <1>2. created[p[1]] \in Nat /\ created'[p[1]] \in Nat
    BY <1>1 DEF TypeOK
  <1> QED BY <1>1, <1>2 DEF Created

\* A new implementation differs from all that were created.
LEMMA NewImplFresh ==
  ASSUME TypeOK, NEW i \in System, created[i] < MaxEvents
  PROVE  /\ NewImpl(i) \in Impl
         /\ \A p \in Impl : Created(p) => p # NewImpl(i)
         /\ created' = [created EXCEPT ![i] = @ + 1] =>
              /\ NewImpl(i)[2] <= created'[NewImpl(i)[1]]
              /\ created' \in [System -> 0 .. MaxEvents]
              /\ \A k \in System : created'[k] >= created[k]
  <1>1. created[i] \in Nat /\ created[i] + 1 \in 1 .. MaxEvents
    BY RoundsAssumption DEF TypeOK
  <1>2. NewImpl(i) \in Impl
    BY <1>1 DEF NewImpl, Impl
  <1>3. \A p \in Impl : Created(p) => p # NewImpl(i)
    BY <1>1 DEF NewImpl, Created
  <1>4. ASSUME created' = [created EXCEPT ![i] = @ + 1]
        PROVE  /\ NewImpl(i)[2] <= created'[NewImpl(i)[1]]
               /\ created' \in [System -> 0 .. MaxEvents]
               /\ \A k \in System : created'[k] >= created[k]
    <2>1. created \in [System -> 0 .. MaxEvents] /\ MaxEvents \in Nat
      BY RoundsAssumption DEF TypeOK
    <2>2. created'[i] = created[i] + 1
      BY <1>4, <2>1
    <2>3. created' \in [System -> 0 .. MaxEvents]
      BY <1>1, <1>4, <2>1
    <2>4. \A k \in System : created'[k] >= created[k]
      BY <1>1, <1>4, <2>1
    <2>5. NewImpl(i)[2] <= created'[NewImpl(i)[1]]
      BY <1>1, <2>2 DEF NewImpl
    <2> QED BY <2>3, <2>4, <2>5
  <1> QED BY <1>2, <1>3, <1>4

\* The implementations in lists and mailboxes are in Impl.
LEMMA ImplsInLists ==
  ASSUME TypeOK
  PROVE  /\ \A i \in System : \A ev \in m_events[i] : ev.impl \in Impl
         /\ \A i, j \in System : \A m \in m_mailbox[i][j] : m.impl \in Impl
  <1>1. \A i \in System : \A ev \in m_events[i] : ev.impl \in Impl
    <2>1. m_events \in [System -> SUBSET EventSet]
      BY DEF TypeOK
    <2> QED BY <2>1, Records
  <1>2. ASSUME NEW i \in System, NEW j \in System, NEW m \in m_mailbox[i][j]
        PROVE  m.impl \in Impl
    <2>1. m_mailbox \in [System -> [System -> SUBSET MessageSet]]
      BY DEF TypeOK
    <2>2. m \in MessageSet
      BY <2>1
    <2> QED BY <2>2, Records
  <1> QED BY <1>1, <1>2

\* A new event in the list of its own system.
LEMMA ScheduleDistinct ==
  ASSUME TypeOK, Distinct, NEW i \in System, Schedule(i)
  PROVE  Distinct'
  <1>0. /\ created[i] < MaxEvents
        /\ m_mailbox' = m_mailbox
        /\ created' = [created EXCEPT ![i] = @ + 1]
    BY DEF Schedule
  <1>1. PICK ts \in m_currentTs[i] .. Half :
          m_events' = [m_events EXCEPT ![i] =
                        @ \cup {[impl |-> NewImpl(i), ts |-> ts, uid |-> m_uid[i]]}]
    BY DEF Schedule
  <1>p. PICK p : p = NewImpl(i)
    OBVIOUS
  <1> DEFINE new == [impl |-> p, ts |-> ts, uid |-> m_uid[i]]
  <1>2. new.impl = p
    OBVIOUS
  <1>3. m_events'[i] = m_events[i] \cup {new}
        /\ \A k \in System : k # i => m_events'[k] = m_events[k]
    BY <1>1, <1>p DEF TypeOK
  <1>4. /\ p \in Impl
        /\ \A q \in Impl : Created(q) => q # p
        /\ p[2] <= created'[p[1]]
        /\ created' \in [System -> 0 .. MaxEvents]
        /\ \A k \in System : created'[k] >= created[k]
    BY <1>0, <1>p, NewImplFresh
  <1> HIDE DEF new
  <1>5. \A q \in Impl : Created(q) => Created(q)'
    BY <1>4, CreatedMore
  <1>6. Created(p)'
    BY <1>4 DEF Created
  <1>7. /\ \A k \in System : \A ev \in m_events[k] :
             ev.impl \in Impl /\ Created(ev.impl) /\ Created(ev.impl)' /\ ev.impl # p
        /\ \A k, j \in System : \A m \in m_mailbox[k][j] :
             m.impl \in Impl /\ Created(m.impl) /\ Created(m.impl)' /\ m.impl # p
    BY <1>4, <1>5, ImplsInLists DEF Distinct, ListDistinct, MailDistinct
  <1>8. ListDistinct'
    <2> SUFFICES ASSUME NEW k \in System, NEW ev \in m_events'[k]
                 PROVE  /\ Created(ev.impl)'
                        /\ \A f \in m_events'[k] : f.impl = ev.impl => f = ev
                        /\ \A j \in System : \A m \in m_mailbox'[k][j] : m.impl # ev.impl
      BY DEF ListDistinct
    <2>1. CASE ev \in m_events[k]
      <3>1. Created(ev.impl)'
        BY <2>1, <1>7
      <3>2. \A f \in m_events'[k] : f.impl = ev.impl => f = ev
        BY <2>1, <1>2, <1>3, <1>7 DEF Distinct, ListDistinct
      <3>3. \A j \in System : \A m \in m_mailbox'[k][j] : m.impl # ev.impl
        BY <2>1, <1>0 DEF Distinct, ListDistinct
      <3> QED BY <3>1, <3>2, <3>3
    <2>2. CASE ev \notin m_events[k]
      <3>1. k = i /\ ev = new
        BY <2>2, <1>3
      <3>2. Created(ev.impl)'
        BY <3>1, <1>2, <1>6
      <3>3. \A f \in m_events'[k] : f.impl = ev.impl => f = ev
        BY <3>1, <1>2, <1>3, <1>7
      <3>4. \A j \in System : \A m \in m_mailbox'[k][j] : m.impl # ev.impl
        BY <3>1, <1>0, <1>2, <1>7
      <3> QED BY <3>2, <3>3, <3>4
    <2> QED BY <2>1, <2>2
  <1>9. MailDistinct'
    BY <1>0, <1>7 DEF Distinct, MailDistinct
  <1> QED BY <1>8, <1>9 DEF Distinct

\* A new message in the mailbox of another system.
LEMMA ScheduleWithContextDistinct ==
  ASSUME TypeOK, Distinct, NEW i \in System, NEW j \in LP, ScheduleWithContext(i, j)
  PROVE  Distinct'
  <1> USE Systems
  <1>0. /\ created[i] < MaxEvents
        /\ m_events' = m_events
        /\ created' = [created EXCEPT ![i] = @ + 1]
    BY DEF ScheduleWithContext
  <1>1. PICK ts \in m_currentTs[i] .. Half :
          m_mailbox' = [m_mailbox EXCEPT ![j][i] =
               @ \cup {[impl |-> NewImpl(i), ts |-> ts,
                        sent |-> m_currentTs[i], uid |-> m_uid[i]]}]
    BY DEF ScheduleWithContext
  <1>p. PICK p : p = NewImpl(i)
    OBVIOUS
  <1> DEFINE new == [impl |-> p, ts |-> ts, sent |-> m_currentTs[i], uid |-> m_uid[i]]
  <1>2. new.impl = p
    OBVIOUS
  <1>3. /\ m_mailbox'[j][i] = m_mailbox[j][i] \cup {new}
        /\ \A a, b \in System : a # j \/ b # i => m_mailbox'[a][b] = m_mailbox[a][b]
    BY <1>1, <1>p DEF TypeOK
  <1>4. /\ p \in Impl
        /\ \A q \in Impl : Created(q) => q # p
        /\ p[2] <= created'[p[1]]
        /\ created' \in [System -> 0 .. MaxEvents]
        /\ \A k \in System : created'[k] >= created[k]
    BY <1>0, <1>p, NewImplFresh
  <1> HIDE DEF new
  <1>5. \A q \in Impl : Created(q) => Created(q)'
    BY <1>4, CreatedMore
  <1>6. Created(p)'
    BY <1>4 DEF Created
  <1>7. /\ \A k \in System : \A ev \in m_events[k] :
             ev.impl \in Impl /\ Created(ev.impl) /\ Created(ev.impl)' /\ ev.impl # p
        /\ \A k, l \in System : \A m \in m_mailbox[k][l] :
             m.impl \in Impl /\ Created(m.impl) /\ Created(m.impl)' /\ m.impl # p
    BY <1>4, <1>5, ImplsInLists DEF Distinct, ListDistinct, MailDistinct
  <1>8. \A a, b \in System : \A m \in m_mailbox'[a][b] :
          m \in m_mailbox[a][b] \/ (a = j /\ b = i /\ m = new)
    BY <1>3
  <1>9. ListDistinct'
    BY <1>0, <1>2, <1>7, <1>8 DEF Distinct, ListDistinct
  <1>10. MailDistinct'
    <2> SUFFICES ASSUME NEW a \in System, NEW b \in System, NEW m \in m_mailbox'[a][b]
                 PROVE  /\ Created(m.impl)'
                        /\ \A k \in System : \A f \in m_mailbox'[a][k] :
                             f.impl = m.impl => k = b /\ f = m
      BY DEF MailDistinct
    <2>1. Created(m.impl)'
      BY <1>2, <1>6, <1>7, <1>8
    <2>2. ASSUME NEW k \in System, NEW f \in m_mailbox'[a][k], f.impl = m.impl
          PROVE  k = b /\ f = m
      <3>1. m \in m_mailbox[a][b] \/ (a = j /\ b = i /\ m = new)
        BY <1>8
      <3>2. f \in m_mailbox[a][k] \/ (a = j /\ k = i /\ f = new)
        BY <1>8
      <3> QED BY <3>1, <3>2, <2>2, <1>2, <1>7 DEF Distinct, MailDistinct
    <2> QED BY <2>1, <2>2
  <1> QED BY <1>9, <1>10 DEF Distinct

\* Lists and mailboxes only lose members.
LEMMA FewerDistinct ==
  ASSUME Distinct, created' = created,
         \A k \in System : m_events'[k] \subseteq m_events[k],
         \A k, l \in System : m_mailbox'[k][l] \subseteq m_mailbox[k][l]
  PROVE  Distinct'
  <1>1. ListDistinct'
    BY DEF Distinct, ListDistinct, Created
  <1>2. MailDistinct'
    BY DEF Distinct, MailDistinct, Created
  <1> QED BY <1>1, <1>2 DEF Distinct

\* The messages of a mailbox move to the list.
LEMMA ReceiveDistinct ==
  ASSUME TypeOK, Distinct, NEW i \in LP, ReceiveMessages(i)
  PROVE  Distinct'
  <1> USE Systems
  <1>0. /\ created' = created
        /\ m_mailbox' = [m_mailbox EXCEPT ![i] = [j \in System |-> {}]]
    BY DEF ReceiveMessages
  <1>1. PICK rank \in [Inbox(i) -> 0 .. Cardinality(Inbox(i)) - 1] :
          m_events' = [m_events EXCEPT ![i] = @ \cup
              {[impl |-> a.msg.impl, ts |-> a.msg.ts, uid |-> m_uid[i] + rank[a]] :
                 a \in Inbox(i)}]
    BY DEF ReceiveMessages
  <1>2. /\ \A k \in System : k # i => m_events'[k] = m_events[k]
                                   /\ m_mailbox'[k] = m_mailbox[k]
        /\ \A j \in System : m_mailbox'[i][j] = {}
    BY <1>0, <1>1 DEF TypeOK
  <1> DEFINE Ev(a) == [impl |-> a.msg.impl, ts |-> a.msg.ts, uid |-> m_uid[i] + rank[a]]
  <1>3. \A ev \in m_events'[i] : ev \in m_events[i] \/ \E a \in Inbox(i) : ev = Ev(a)
    BY <1>1 DEF TypeOK
  <1>4. \A a : Ev(a).impl = a.msg.impl
    OBVIOUS
  <1> HIDE DEF Ev
  <1>5. ASSUME NEW a \in Inbox(i)
        PROVE  \E j \in System : \E m \in m_mailbox[i][j] : a = [from |-> j, msg |-> m]
    BY <1>5 DEF Inbox
  <1>6. ASSUME NEW a \in Inbox(i)
        PROVE  /\ Created(a.msg.impl)
               /\ \A ev \in m_events[i] : ev.impl # a.msg.impl
               /\ \A b \in Inbox(i) : b.msg.impl = a.msg.impl => b = a
    <2>1. PICK j \in System : \E m \in m_mailbox[i][j] : a = [from |-> j, msg |-> m]
      BY <1>5
    <2>2. PICK m \in m_mailbox[i][j] : a = [from |-> j, msg |-> m]
      BY <2>1
    <2>3. a.msg = m
      BY <2>2
    <2>4. ASSUME NEW b \in Inbox(i), b.msg.impl = a.msg.impl PROVE b = a
      <3>1. PICK k \in System : \E f \in m_mailbox[i][k] : b = [from |-> k, msg |-> f]
        BY <1>5
      <3>2. PICK f \in m_mailbox[i][k] : b = [from |-> k, msg |-> f]
        BY <3>1
      <3>3. f.impl = m.impl
        BY <2>3, <2>4, <3>2
      <3>4. k = j /\ f = m
        BY <3>3 DEF Distinct, MailDistinct
      <3> QED BY <2>2, <3>2, <3>4
    <2> QED BY <2>3, <2>4 DEF Distinct, MailDistinct, ListDistinct
  <1>7. ListDistinct'
    <2> SUFFICES ASSUME NEW k \in System, NEW ev \in m_events'[k]
                 PROVE  /\ Created(ev.impl)
                        /\ \A f \in m_events'[k] : f.impl = ev.impl => f = ev
                        /\ \A j \in System : \A m \in m_mailbox'[k][j] : m.impl # ev.impl
      BY <1>0 DEF ListDistinct, Created
    <2>1. CASE k # i
      BY <2>1, <1>2 DEF Distinct, ListDistinct
    <2>2. CASE k = i
      <3>1. ev \in m_events[i] \/ \E a \in Inbox(i) : ev = Ev(a)
        BY <2>2, <1>3
      <3>2. Created(ev.impl)
        BY <3>1, <1>4, <1>6 DEF Distinct, ListDistinct
      <3>3. ASSUME NEW f \in m_events'[i], f.impl = ev.impl PROVE f = ev
        <4>1. f \in m_events[i] \/ \E a \in Inbox(i) : f = Ev(a)
          BY <1>3
        <4> QED BY <3>1, <3>3, <4>1, <1>4, <1>6 DEF Distinct, ListDistinct
      <3> QED BY <2>2, <3>2, <3>3, <1>2
    <2> QED BY <2>1, <2>2
  <1>8. MailDistinct'
    <2>1. \A k, l \in System : m_mailbox'[k][l] \subseteq m_mailbox[k][l]
      BY <1>2
    <2> QED BY <1>0, <2>1 DEF Distinct, MailDistinct, Created
  <1> QED BY <1>7, <1>8 DEF Distinct

LEMMA DistinctStep == RInv /\ Distinct /\ [Next]_vars => Distinct'
  <1> SUFFICES ASSUME RInv, Distinct, [Next]_vars PROVE Distinct'
    OBVIOUS
  <1>0. TypeOK
    BY DEF RInv
  <1>1. ASSUME NEW i \in System, InvokeNext(i) PROVE Distinct'
    <2>1. created' = created /\ m_mailbox' = m_mailbox
      BY <1>1 DEF InvokeNext
    <2>2. \A k \in System : m_events'[k] \subseteq m_events[k]
      BY <1>0, <1>1 DEF InvokeNext, TypeOK
    <2> QED BY <2>1, <2>2, FewerDistinct
  <1>2. ASSUME UNCHANGED <<created, m_mailbox, m_events>> PROVE Distinct'
    BY <1>2, FewerDistinct
  <1>3. ASSUME NEW i \in System, Stop(i) \/ Return(i) PROVE Distinct'
    BY <1>2, <1>3 DEF Stop, Return
  <1>4. CASE Quiet
    BY <1>2, <1>4 DEF Quiet, Begin, EndRound, EnterPublic, EnterReceive, EnterCalc,
         Returned, vars
  <1>5. CASE CalculateSmallestTime
    BY <1>2, <1>5 DEF CalculateSmallestTime
  <1>6. CASE UNCHANGED vars
    BY <1>2, <1>6 DEF vars
  <1> QED BY <1>0, <1>1, <1>3, <1>4, <1>5, <1>6, ScheduleDistinct,
        ScheduleWithContextDistinct, ReceiveDistinct DEF Next, Event, Quiet

----------------------------------------------------------------------------
(* The refinement: what is pending is what the lists and mailboxes hold.    *)

\* An event of system k, as the abstract simulation sees it.
Bar(k, e) == [system |-> k, impl |-> e.impl, ts |-> e.ts]

LEMMA PendingBar ==
    \A x : x \in pendingBar <=>
      \E k \in System :
        \/ \E ev \in m_events[k] : x = Bar(k, ev)
        \/ \E j \in System : \E m \in m_mailbox[k][j] : x = Bar(k, m)
  <1> DEFINE lists ==
               UNION {{[system |-> i, impl |-> ev.impl, ts |-> ev.ts] : ev \in m_events[i]} :
                        i \in System}
             mail(i) ==
               UNION {{[system |-> i, impl |-> m.impl, ts |-> m.ts] : m \in m_mailbox[i][j]} :
                        j \in System}
             mails == UNION {mail(i) : i \in System}
  <1>1. \A x : x \in lists <=> \E k \in System : \E ev \in m_events[k] : x = Bar(k, ev)
    BY DEF Bar
  <1>2. \A x, k : x \in mail(k) <=>
          \E j \in System : \E m \in m_mailbox[k][j] : x = Bar(k, m)
    BY DEF Bar
  <1>3. pendingBar = lists \cup mails
    BY DEF pendingBar
  <1> HIDE DEF lists, mail
  <1>4. \A x : x \in mails <=> \E k \in System : x \in mail(k)
    BY Zenon
  <1> HIDE DEF mails
  <1> QED BY <1>1, <1>2, <1>3, <1>4

LEMMA PendingBarPrime ==
    \A x : x \in pendingBar' <=>
      \E k \in System :
        \/ \E ev \in m_events'[k] : x = Bar(k, ev)
        \/ \E j \in System : \E m \in m_mailbox'[k][j] : x = Bar(k, m)
  <1> DEFINE lists ==
               UNION {{[system |-> i, impl |-> ev.impl, ts |-> ev.ts] : ev \in m_events'[i]} :
                        i \in System}
             mail(i) ==
               UNION {{[system |-> i, impl |-> m.impl, ts |-> m.ts] : m \in m_mailbox'[i][j]} :
                        j \in System}
             mails == UNION {mail(i) : i \in System}
  <1>1. \A x : x \in lists <=> \E k \in System : \E ev \in m_events'[k] : x = Bar(k, ev)
    BY DEF Bar
  <1>2. \A x, k : x \in mail(k) <=>
          \E j \in System : \E m \in m_mailbox'[k][j] : x = Bar(k, m)
    BY DEF Bar
  <1>3. pendingBar' = lists \cup mails
    BY DEF pendingBar
  <1> HIDE DEF lists, mail
  <1>4. \A x : x \in mails <=> \E k \in System : x \in mail(k)
    BY Zenon
  <1> HIDE DEF mails
  <1> QED BY <1>1, <1>2, <1>3, <1>4

LEMMA BarFields ==
    \A k, e : /\ Bar(k, e).system = k
              /\ Bar(k, e).impl = e.impl
              /\ Bar(k, e).ts = e.ts
  BY DEF Bar

\* The same lists and mailboxes, the same pending events.
LEMMA SamePending ==
  ASSUME m_events' = m_events, m_mailbox' = m_mailbox
  PROVE  pendingBar' = pendingBar
  BY DEF pendingBar

\* An LP that dequeues its earliest event executes an event that is earliest
\* among the messages still in its mailbox too: those are beyond its window.
LEMMA InvokeNextExecutes ==
  ASSUME RInv, Distinct, NEW i \in System, InvokeNext(i)
  PROVE  \E ev \in pendingBar : Simulation!Execute(ev)
  <1> USE Systems
  <1>0. /\ m_mailbox' = m_mailbox /\ m_stop' = m_stop
        /\ Due(i)
    BY DEF InvokeNext
  <1>1. PICK ev \in m_events[i] :
          /\ \A other \in m_events[i] \ {ev} : Earlier(ev, other)
          /\ m_events' = [m_events EXCEPT ![i] = @ \ {ev}]
          /\ m_currentTs' = [m_currentTs EXCEPT ![i] = ev.ts]
    BY DEF InvokeNext
  <1>2. /\ \A other \in m_events[i] : other.ts \in Nat
        /\ \A j \in System : \A m \in m_mailbox[i][j] : m.ts \in Nat
    <2>1. m_events \in [System -> SUBSET EventSet]
      BY DEF RInv, TypeOK
    <2>2. m_mailbox \in [System -> [System -> SUBSET MessageSet]]
      BY DEF RInv, TypeOK
    <2>3. ASSUME NEW j \in System, NEW m \in m_mailbox[i][j] PROVE m.ts \in Nat
      <3>1. m \in MessageSet
        BY <2>2
      <3> QED BY <3>1, Records
    <2> QED BY <2>1, <2>3, Records
  <1>3. \A other \in m_events[i] : ev.ts <= other.ts
    BY <1>1, <1>2 DEF Earlier
  <1>4. \A j \in System : \A m \in m_mailbox[i][j] : ev.ts <= m.ts
    <2>1. NoPast'
      BY InvokeNextStep DEF RInv
    <2>2. m_currentTs'[i] = ev.ts
      BY <1>1 DEF RInv, TypeOK
    <2> QED BY <1>0, <1>2, <2>1, <2>2 DEF NoPast
  <1>5. ~ m_stop[Public] /\ m_stop'[Public] = m_stop[Public]
    BY <1>0 DEF Due, RInv, StopInv
  <1> DEFINE bar == Bar(i, ev)
  <1>6. bar.system = i /\ bar.impl = ev.impl /\ bar.ts = ev.ts
    BY BarFields
  <1>7. bar \in pendingBar
    BY PendingBar
  <1>8. ASSUME NEW x \in pendingBar, x.system = i PROVE ev.ts <= x.ts
    <2>1. PICK k \in System :
            \/ \E e \in m_events[k] : x = Bar(k, e)
            \/ \E j \in System : \E m \in m_mailbox[k][j] : x = Bar(k, m)
      BY PendingBar
    <2>2. k = i
      BY <1>8, <2>1, BarFields
    <2> QED BY <2>1, <2>2, <1>3, <1>4, BarFields
  <1>9. /\ m_events'[i] = m_events[i] \ {ev}
        /\ \A k \in System : k # i => m_events'[k] = m_events[k]
    BY <1>1 DEF RInv, TypeOK
  <1>10. ASSUME NEW k \in System, NEW e \in m_events[k]
         PROVE  e \in m_events'[k] <=> Bar(k, e) # bar
    <2>1. CASE k # i
      BY <2>1, <1>6, <1>9, BarFields
    <2>2. CASE k = i
      <3>1. e.impl = ev.impl => e = ev
        BY <2>2 DEF Distinct, ListDistinct
      <3> QED BY <2>2, <3>1, <1>6, <1>9, BarFields
    <2> QED BY <2>1, <2>2
  <1>11. ASSUME NEW k \in System, NEW j \in System, NEW m \in m_mailbox[k][j]
         PROVE  Bar(k, m) # bar
    <2>1. CASE k # i
      BY <2>1, <1>6, BarFields
    <2>2. CASE k = i
      <3>1. m.impl # ev.impl
        BY <2>2 DEF Distinct, ListDistinct
      <3> QED BY <3>1, <1>6, BarFields
    <2> QED BY <2>1, <2>2
  <1>12. \A k \in System : m_events'[k] \subseteq m_events[k]
    BY <1>9
  <1> HIDE DEF bar
  <1>13. pendingBar' = pendingBar \ {bar}
    <2>1. ASSUME NEW x \in pendingBar' PROVE x \in pendingBar \ {bar}
      <3>1. PICK k \in System :
              \/ \E e \in m_events'[k] : x = Bar(k, e)
              \/ \E j \in System : \E m \in m_mailbox'[k][j] : x = Bar(k, m)
        BY PendingBarPrime
      <3>2. CASE \E e \in m_events'[k] : x = Bar(k, e)
        <4>1. PICK e \in m_events'[k] : x = Bar(k, e)
          BY <3>2
        <4>2. e \in m_events[k]
          BY <1>12
        <4>3. x # bar
          BY <4>1, <4>2, <1>10
        <4> QED BY <4>1, <4>2, <4>3, PendingBar
      <3>3. CASE \E j \in System : \E m \in m_mailbox'[k][j] : x = Bar(k, m)
        BY <3>3, <1>0, <1>11, PendingBar
      <3> QED BY <3>1, <3>2, <3>3
    <2>2. ASSUME NEW x \in pendingBar, x # bar PROVE x \in pendingBar'
      <3>1. PICK k \in System :
              \/ \E e \in m_events[k] : x = Bar(k, e)
              \/ \E j \in System : \E m \in m_mailbox[k][j] : x = Bar(k, m)
        BY PendingBar
      <3>2. CASE \E e \in m_events[k] : x = Bar(k, e)
        BY <2>2, <3>2, <1>10, PendingBarPrime
      <3>3. CASE \E j \in System : \E m \in m_mailbox[k][j] : x = Bar(k, m)
        BY <3>3, <1>0, PendingBarPrime
      <3> QED BY <3>1, <3>2, <3>3
    <2> QED BY <2>1, <2>2
  <1>14. m_currentTs' = [m_currentTs EXCEPT ![bar.system] = bar.ts]
    BY <1>1, <1>6
  <1>15. \A other \in pendingBar : other.system = bar.system => bar.ts <= other.ts
    BY <1>6, <1>8
  <1>16. Simulation!Execute(bar)
    BY <1>5, <1>13, <1>14, <1>15 DEF Simulation!Execute
  <1> QED BY <1>7, <1>16

\* Both ways of scheduling add pending events, none of them in the past.
LEMMA SchedulesSchedule ==
  ASSUME RInv, RInv', NEW i \in System,
         Schedule(i) \/ \E j \in LP : ScheduleWithContext(i, j)
  PROVE  Simulation!Schedule
  <1> USE Systems
  <1>1. m_currentTs' = m_currentTs /\ m_stop' = m_stop
    BY DEF Schedule, ScheduleWithContext, clocks
  <1>2. /\ \A k \in System : m_events[k] \subseteq m_events'[k]
        /\ \A k, l \in System : m_mailbox[k][l] \subseteq m_mailbox'[k][l]
    <2>1. CASE Schedule(i)
      BY <2>1 DEF Schedule, RInv, TypeOK
    <2>2. ASSUME NEW j \in LP, ScheduleWithContext(i, j)
          PROVE  /\ \A k \in System : m_events[k] \subseteq m_events'[k]
                 /\ \A k, l \in System : m_mailbox[k][l] \subseteq m_mailbox'[k][l]
      BY <2>2 DEF ScheduleWithContext, RInv, TypeOK
    <2> QED BY <2>1, <2>2
  <1>3. pendingBar \subseteq pendingBar'
    <2> SUFFICES ASSUME NEW x \in pendingBar PROVE x \in pendingBar'
      OBVIOUS
    <2>1. PICK k \in System :
            \/ \E e \in m_events[k] : x = Bar(k, e)
            \/ \E j \in System : \E m \in m_mailbox[k][j] : x = Bar(k, m)
      BY PendingBar
    <2> QED BY <2>1, <1>2, PendingBarPrime
  <1>4. ASSUME NEW x \in pendingBar'
        PROVE  x.system \in System /\ x.ts >= m_currentTs[x.system]
    <2>1. PICK k \in System :
            \/ \E e \in m_events'[k] : x = Bar(k, e)
            \/ \E j \in System : \E m \in m_mailbox'[k][j] : x = Bar(k, m)
      BY PendingBarPrime
    <2>2. x.system = k
      BY <2>1, BarFields
    <2>3. NoPast'
      BY DEF RInv
    <2>4. x.ts >= m_currentTs[k]
      BY <2>1, <2>3, <1>1, BarFields DEF NoPast
    <2> QED BY <2>2, <2>4
  <1> QED BY <1>1, <1>3, <1>4 DEF Simulation!Schedule

\* Messages that are received were pending before and are pending afterwards.
LEMMA ReceiveStutters ==
  ASSUME TypeOK, NEW i \in LP, ReceiveMessages(i)
  PROVE  pendingBar' = pendingBar
  <1> USE Systems
  <1>0. m_mailbox' = [m_mailbox EXCEPT ![i] = [j \in System |-> {}]]
    BY DEF ReceiveMessages
  <1>1. PICK rank \in [Inbox(i) -> 0 .. Cardinality(Inbox(i)) - 1] :
          m_events' = [m_events EXCEPT ![i] = @ \cup
              {[impl |-> a.msg.impl, ts |-> a.msg.ts, uid |-> m_uid[i] + rank[a]] :
                 a \in Inbox(i)}]
    BY DEF ReceiveMessages
  <1>2. /\ \A k \in System : k # i => m_events'[k] = m_events[k]
                                   /\ m_mailbox'[k] = m_mailbox[k]
        /\ \A j \in System : m_mailbox'[i][j] = {}
    BY <1>0, <1>1 DEF TypeOK
  <1> DEFINE Ev(a) == [impl |-> a.msg.impl, ts |-> a.msg.ts, uid |-> m_uid[i] + rank[a]]
  <1>3. m_events'[i] = m_events[i] \cup {Ev(a) : a \in Inbox(i)}
    BY <1>1 DEF TypeOK
  <1>4. \A a : Bar(i, Ev(a)) = Bar(i, a.msg)
    BY DEF Bar
  <1> HIDE DEF Ev
  <1>5. ASSUME NEW j \in System, NEW m \in m_mailbox[i][j]
        PROVE  \E e \in m_events'[i] : Bar(i, e) = Bar(i, m)
    <2> DEFINE a == [from |-> j, msg |-> m]
    <2>1. a \in Inbox(i) /\ a.msg = m
      BY DEF Inbox
    <2>2. Ev(a) \in m_events'[i]
      BY <1>3, <2>1
    <2> HIDE DEF a
    <2> QED BY <1>4, <2>1, <2>2
  <1>6. ASSUME NEW e \in m_events'[i]
        PROVE  \/ e \in m_events[i]
               \/ \E j \in System : \E m \in m_mailbox[i][j] : Bar(i, e) = Bar(i, m)
    <2> SUFFICES ASSUME e \notin m_events[i]
                 PROVE  \E j \in System : \E m \in m_mailbox[i][j] : Bar(i, e) = Bar(i, m)
      OBVIOUS
    <2>1. PICK a \in Inbox(i) : e = Ev(a)
      BY <1>3
    <2>2. PICK j \in System : \E m \in m_mailbox[i][j] : a = [from |-> j, msg |-> m]
      BY DEF Inbox
    <2>3. PICK m \in m_mailbox[i][j] : a = [from |-> j, msg |-> m]
      BY <2>2
    <2>4. a.msg = m
      BY <2>3
    <2> QED BY <2>1, <2>4, <1>4
  <1>7. ASSUME NEW x \in pendingBar' PROVE x \in pendingBar
    <2>1. PICK k \in System :
            \/ \E e \in m_events'[k] : x = Bar(k, e)
            \/ \E j \in System : \E m \in m_mailbox'[k][j] : x = Bar(k, m)
      BY PendingBarPrime
    <2>2. CASE k # i
      BY <2>1, <2>2, <1>2, PendingBar
    <2>3. CASE k = i
      <3>1. PICK e \in m_events'[i] : x = Bar(i, e)
        BY <2>1, <2>3, <1>2
      <3> QED BY <3>1, <1>6, PendingBar
    <2> QED BY <2>2, <2>3
  <1>8. ASSUME NEW x \in pendingBar PROVE x \in pendingBar'
    <2>1. PICK k \in System :
            \/ \E e \in m_events[k] : x = Bar(k, e)
            \/ \E j \in System : \E m \in m_mailbox[k][j] : x = Bar(k, m)
      BY PendingBar
    <2>2. CASE k # i
      BY <2>1, <2>2, <1>2, PendingBarPrime
    <2>3. CASE k = i
      <3>1. \E e \in m_events'[i] : x = Bar(i, e)
        BY <2>1, <2>3, <1>3, <1>5
      <3> QED BY <3>1, PendingBarPrime
    <2> QED BY <2>2, <2>3
  <1> QED BY <1>7, <1>8

LEMMA SimulationInit == Init => Simulation!Init
  <1> SUFFICES ASSUME Init PROVE Simulation!Init
    OBVIOUS
  <1> USE Systems
  <1>1. m_currentTs = [i \in System |-> 0] /\ m_stop = [i \in System |-> FALSE]
    BY DEF Init, FirstRound
  <1>2. NoPast
    BY InvInit DEF RInv
  <1>3. ASSUME NEW x \in pendingBar PROVE x.system \in System /\ x.ts >= 0
    <2>1. PICK k \in System :
            \/ \E e \in m_events[k] : x = Bar(k, e)
            \/ \E j \in System : \E m \in m_mailbox[k][j] : x = Bar(k, m)
      BY PendingBar
    <2>2. m_currentTs[k] = 0
      BY <1>1
    <2> QED BY <2>1, <2>2, <1>2, BarFields DEF NoPast
  <1> QED BY <1>1, <1>3 DEF Simulation!Init

LEMMA SimulationStep ==
  ASSUME RInv, RInv', Distinct, [Next]_vars
  PROVE  [Simulation!Next]_(Simulation!vars)
  <1> USE Systems
  <1>1. ASSUME NEW i \in System, InvokeNext(i) PROVE Simulation!Next
    BY <1>1, InvokeNextExecutes DEF Simulation!Next
  <1>2. ASSUME NEW i \in System,
               Schedule(i) \/ \E j \in LP : ScheduleWithContext(i, j)
        PROVE  Simulation!Next
    BY <1>2, SchedulesSchedule DEF Simulation!Next
  <1>3. ASSUME NEW i \in System, Stop(i) PROVE Simulation!Next
    <2>1. m_stop' = [j \in System |-> TRUE] /\ m_currentTs' = m_currentTs
          /\ pendingBar' = pendingBar
      BY <1>3, SamePending DEF Stop, clocks
    <2>2. m_stop'[Public] = TRUE
      BY <2>1
    <2> QED BY <2>1, <2>2 DEF Simulation!Next, Simulation!Stop
  <1>4. ASSUME m_currentTs' = m_currentTs, m_stop' = m_stop, pendingBar' = pendingBar
        PROVE  UNCHANGED Simulation!vars
    BY <1>4 DEF Simulation!vars
  <1>5. ASSUME UNCHANGED <<m_events, m_mailbox, m_currentTs, m_stop>>
        PROVE  UNCHANGED Simulation!vars
    BY <1>4, <1>5, SamePending
  <1>6. ASSUME NEW i \in System, Return(i) PROVE UNCHANGED Simulation!vars
    BY <1>5, <1>6 DEF Return, clocks
  <1>7. CASE Quiet
    BY <1>5, <1>7 DEF Quiet, Begin, EndRound, EnterPublic, EnterReceive, EnterCalc,
         Returned, vars, clocks
  <1>8. CASE CalculateSmallestTime
    BY <1>5, <1>8 DEF CalculateSmallestTime, clocks
  <1>9. CASE UNCHANGED vars
    BY <1>5, <1>9 DEF vars, clocks
  <1>10. ASSUME NEW i \in LP, ReceiveMessages(i) PROVE UNCHANGED Simulation!vars
    <2>1. m_currentTs' = m_currentTs /\ m_stop' = m_stop
      BY <1>10 DEF ReceiveMessages, clocks
    <2>2. pendingBar' = pendingBar
      BY <1>10, ReceiveStutters DEF RInv
    <2> QED BY <1>4, <2>1, <2>2
  <1> QED BY <1>1, <1>2, <1>3, <1>6, <1>7, <1>8, <1>9, <1>10 DEF Next, Event, Quiet

\* The rounds implement a discrete event simulation: event lists and mailboxes
\* together behave like one list per LP, from which the LP always takes an
\* earliest event, although it looks at its own list only, and nothing is lost,
\* duplicated or scheduled in the past on the way between LPs.
THEOREM Refinement == SafeSpec => SimulationSpec
  <1>1. Init => RInv /\ Distinct /\ Simulation!Init
    BY InvInit, InitDistinct, SimulationInit
  <1>2. RInv /\ Distinct /\ [Next]_vars => RInv' /\ Distinct'
    BY InvStep, DistinctStep
  <1>3. RInv /\ RInv' /\ Distinct /\ [Next]_vars => [Simulation!Next]_(Simulation!vars)
    BY SimulationStep
  <1> QED BY <1>1, <1>2, <1>3, PTL DEF SafeSpec, SimulationSpec, Simulation!Spec

----------------------------------------------------------------------------
(* Programs that use ScheduleGlobal. Its events may be in the past of the   *)
(* LPs, so that NoPast, and with it RInv, is lost; what is left is that     *)
(* nothing pending is before the smallest time, which the public LP never   *)
(* passes.                                                                  *)

FromSmallest ==
    /\ m_currentTs[Public] <= g_smallestTime
    /\ g_smallestTime <= g_nextPublicTime
    /\ \A i \in System : \A ev \in m_events[i] : ev.ts >= g_smallestTime
    /\ \A i, j \in System : \A m \in m_mailbox[i][j] : m.ts >= g_smallestTime

RunningFromSmallest ==
    \A i \in System : invoking[i] => Processing(i) /\ m_currentTs[i] >= g_smallestTime

GInv == /\ TypeOK
        /\ PublicForward
        /\ phase # "over" => FromSmallest
        /\ RunningFromSmallest
        /\ MailInv
        /\ StopInv
        /\ UidInv

LEMMA GlobalInit == Init => GInv
  <1> SUFFICES ASSUME Init PROVE GInv
    OBVIOUS
  <1> USE Systems
  <1>1. RInv
    BY InvInit
  <1>2. /\ invoking = [i \in System |-> FALSE]
        /\ m_currentTs = [i \in System |-> 0]
        /\ g_smallestTime = 0 /\ g_nextPublicTime = 0
    BY DEF Init, FirstRound
  <1>3. m_currentTs[Public] = 0 /\ \A i \in System : ~ invoking[i]
    BY <1>2
  <1>4. \A i, j \in System : \A m \in m_mailbox[i][j] : m.ts >= m_currentTs[i]
    BY <1>1 DEF RInv, NoPast
  <1>5. \A i \in System : \A ev \in m_events[i] : ev.ts >= m_currentTs[i]
    BY <1>1 DEF RInv, NoPast
  <1>6. FromSmallest
    BY <1>2, <1>3, <1>4, <1>5 DEF FromSmallest
  <1>7. PublicForward
    BY <1>1 DEF RInv, NoPast, PendingNotExpired, PublicForward
  <1>8. RunningFromSmallest
    BY <1>3 DEF RunningFromSmallest
  <1> QED BY <1>1, <1>6, <1>7, <1>8 DEF GInv, RInv

LEMMA GlobalQuiet ==
  ASSUME GInv, Quiet
  PROVE  GInv'
  <1> USE DEF GInv
  <1>1. /\ UNCHANGED <<invoking, m_events, m_mailbox, m_currentTs, m_currentUid, leftover, m_uid,
                       m_stop, g_smallestTime, g_nextPublicTime, created>>
        /\ TypeOK' /\ MailInv' /\ StopInv'
        /\ phase = "over" <=> phase' = "over"
        /\ \A j \in System : invoking[j] /\ Processing(j) => Processing(j)'
    BY QuietFacts
  <1>2. PublicForward' /\ UidInv'
    BY <1>1 DEF PublicForward, IsExpired, Misjudged, UidInv
  <1>3. phase' # "over" => FromSmallest'
    BY <1>1 DEF FromSmallest
  <1>4. RunningFromSmallest'
    BY <1>1 DEF RunningFromSmallest
  <1> QED BY <1>1, <1>2, <1>3, <1>4

LEMMA GlobalReceive ==
  ASSUME GInv, NEW i \in LP, ReceiveMessages(i)
  PROVE  GInv'
  <1> USE Systems
  <1> USE DEF GInv
  <1>1. /\ UNCHANGED <<phase, invoking, m_currentTs, m_currentUid, leftover, m_stop,
                       g_smallestTime, g_nextPublicTime, created>>
        /\ phase \in {"receive", "over"}
        /\ \A j \in System : j # i => m_events'[j] = m_events[j]
        /\ \A j, k \in System : m_mailbox'[j][k] \subseteq m_mailbox[j][k]
        /\ TypeOK' /\ MailInv' /\ StopInv' /\ UidInv'
    BY ReceiveMessagesFacts
  <1>2. ASSUME NEW ev \in m_events'[i], ev \notin m_events[i]
        PROVE  \E j \in System : \E m \in m_mailbox[i][j] : m.ts = ev.ts
    BY <1>2, ReceiveMessagesFacts
  <1>3. PublicForward'
    BY <1>1 DEF PublicForward, IsExpired, Misjudged
  <1>4. ASSUME phase # "over", FromSmallest PROVE FromSmallest'
    <2>1. \A ev \in m_events'[i] : ev.ts >= g_smallestTime
      BY <1>2, <1>4 DEF FromSmallest
    <2>2. \A j \in System : \A ev \in m_events'[j] : ev.ts >= g_smallestTime
      BY <1>1, <1>4, <2>1 DEF FromSmallest
    <2> QED BY <1>1, <1>4, <2>2 DEF FromSmallest
  <1>5. RunningFromSmallest'
    BY <1>1 DEF RunningFromSmallest, Processing
  <1> QED BY <1>1, <1>3, <1>4, <1>5

LEMMA GlobalInvoke ==
  ASSUME GInv, NEW i \in System, InvokeNext(i)
  PROVE  GInv'
  <1> USE Systems
  <1> USE DEF GInv
  <1>0. /\ UNCHANGED <<phase, work, m_mailbox, m_uid, m_stop, g_smallestTime,
                       g_nextPublicTime, created>>
        /\ Processing(i) /\ Due(i)
        /\ invoking' = [invoking EXCEPT ![i] = TRUE]
    BY DEF InvokeNext, control, window
  <1>1. PICK ev \in m_events[i] :
          /\ \A other \in m_events[i] \ {ev} : Earlier(ev, other)
          /\ m_events' = [m_events EXCEPT ![i] = @ \ {ev}]
          /\ m_currentTs' = [m_currentTs EXCEPT ![i] = ev.ts]
          /\ m_currentUid' = [m_currentUid EXCEPT ![i] = ev.uid]
          /\ leftover' = leftover \ {i}
    BY DEF InvokeNext
  <1>2. phase # "over" /\ FromSmallest
    BY <1>0 DEF Processing
  <1>3. /\ ev \in EventSet /\ ev.ts \in Nat /\ ev.ts <= Half /\ ev.uid \in Nat
        /\ \A other \in m_events[i] : other.ts \in Nat /\ other.ts <= Half /\ other.uid \in Nat
    BY <1>1, Records DEF TypeOK
  <1>4. PICK due \in m_events[i] : Granted(i, due.ts)
    BY <1>0 DEF Due
  <1>5. g_smallestTime \in 0 .. Half /\ due.ts \in 0 .. Half /\ ev.ts <= due.ts
    <2>1. g_smallestTime \in 0 .. Half
      BY DEF TypeOK
    <2>2. ev.ts <= due.ts
      BY <1>1, <1>3 DEF Earlier
    <2> QED BY <1>3, <2>1, <2>2, RoundsAssumption
  <1>6. /\ i = Public => ev.ts <= g_smallestTime
        /\ ev.ts >= g_smallestTime
    <2>1. i = Public => due.ts <= g_smallestTime
      BY <1>4, <1>5, GrantedBound
    <2> QED BY <2>1, <1>2, <1>3, <1>5 DEF FromSmallest
  <1>7. /\ \A j \in System : m_events'[j] \subseteq m_events[j]
        /\ \A j \in System : j # i => m_events'[j] = m_events[j]
                                    /\ m_currentTs'[j] = m_currentTs[j]
                                    /\ m_currentUid'[j] = m_currentUid[j]
                                    /\ invoking'[j] = invoking[j]
        /\ m_currentTs'[i] = ev.ts /\ m_currentUid'[i] = ev.uid /\ invoking'[i]
        /\ m_events'[i] = m_events[i] \ {ev}
    BY <1>0, <1>1 DEF TypeOK
  <1>8. TypeOK'
    BY <1>0, <1>1, <1>3 DEF TypeOK
  <1>9. PublicForward'
    <2>1. CASE i = Public
      BY <2>1, <1>1, <1>3, <1>7 DEF PublicForward, Earlier, IsExpired
    <2>2. CASE i # Public
      <3>1. Public \in leftover => Public \in leftover'
        BY <2>2, <1>1
      <3> QED BY <2>2, <1>7, <3>1 DEF PublicForward, IsExpired, Misjudged
    <2> QED BY <2>1, <2>2
  <1>10. FromSmallest'
    BY <1>0, <1>2, <1>6, <1>7 DEF FromSmallest
  <1>11. RunningFromSmallest'
    BY <1>0, <1>6, <1>7 DEF RunningFromSmallest, Processing
  <1>12. MailInv'
    <2>1. \A j \in System : Inbox(j)' = Inbox(j)
      BY <1>0 DEF Inbox
    <2> QED BY <1>0, <2>1 DEF MailInv
  <1>13. StopInv'
    BY <1>0, <1>2 DEF StopInv
  <1>14. UidInv'
    <2>1. \A o \in m_events[i] : o.uid < m_uid[i]
      BY DEF UidInv
    <2>2. ev.uid < m_uid[i] /\ i \notin leftover'
      BY <1>1, <2>1
    <2>3. \A j \in System : j # i => (j \in leftover' <=> j \in leftover)
      BY <1>1
    <2> QED BY <1>0, <1>7, <2>2, <2>3 DEF UidInv
  <1> QED BY <1>8, <1>9, <1>10, <1>11, <1>12, <1>13, <1>14

\* An event for system k, from an event of system i, under the next uid of k.
LEMMA GlobalAdd ==
  ASSUME GInv, NEW i \in System, NEW k \in System, NEW ts \in 0 .. Half,
         invoking[i], created[i] < MaxEvents,
         ts >= g_smallestTime, k = Public => ts >= m_currentTs[Public],
         m_events' = [m_events EXCEPT ![k] =
           @ \cup {[impl |-> NewImpl(i), ts |-> ts, uid |-> m_uid[k]]}],
         m_uid' = [m_uid EXCEPT ![k] = @ + 1],
         created' = [created EXCEPT ![i] = @ + 1],
         UNCHANGED <<control, invoking, m_mailbox, clocks, m_stop, window>>
  PROVE  GInv'
  <1> USE Systems
  <1> USE DEF GInv
  <1>0. UNCHANGED <<phase, work, invoking, m_mailbox, m_currentTs, m_currentUid, leftover,
                    m_stop, g_smallestTime, g_nextPublicTime>>
    BY DEF control, window, clocks
  <1> DEFINE new == [impl |-> NewImpl(i), ts |-> ts, uid |-> m_uid[k]]
  <1>1. phase # "over" /\ FromSmallest
    BY DEF RunningFromSmallest, Processing
  <1>2. /\ m_uid[k] \in Nat /\ m_currentUid[k] \in Nat /\ m_currentTs[k] \in Nat
        /\ g_smallestTime \in Nat /\ g_nextPublicTime \in Nat
    BY RoundsAssumption DEF TypeOK, TimeMax
  <1>3. NewImpl(i) \in Impl /\ created' \in [System -> 0 .. MaxEvents]
    BY NewImplFresh
  <1>4. new \in EventSet /\ new.ts = ts /\ new.uid = m_uid[k]
    BY <1>2, <1>3, Records
  <1> HIDE DEF new
  <1>5. /\ m_events'[k] = m_events[k] \cup {new}
        /\ \A j \in System : j # k => m_events'[j] = m_events[j] /\ m_uid'[j] = m_uid[j]
        /\ m_uid'[k] = m_uid[k] + 1
        /\ m_uid' \in [System -> Nat]
        /\ m_events' \in [System -> SUBSET EventSet]
    BY <1>2, <1>4 DEF TypeOK, new
  <1>6. TypeOK'
    BY <1>0, <1>3, <1>5 DEF TypeOK
  <1>7. PublicForward'
    <2>1. CASE k = Public
      <3>1. new.ts >= m_currentTs[Public]
        BY <2>1, <1>4
      <3>2. IsExpired(Public, new) => Misjudged(Public, new)
        BY <2>1, <3>1, <1>2, <1>4, NextUid
      <3> QED BY <2>1, <1>0, <1>5, <3>1, <3>2 DEF PublicForward, IsExpired, Misjudged
    <2>2. CASE k # Public
      BY <2>2, <1>0, <1>5 DEF PublicForward, IsExpired, Misjudged
    <2> QED BY <2>1, <2>2
  <1>8. FromSmallest'
    BY <1>0, <1>1, <1>4, <1>5 DEF FromSmallest
  <1>9. RunningFromSmallest'
    BY <1>0 DEF RunningFromSmallest, Processing
  <1>10. MailInv'
    <2>1. \A j \in System : Inbox(j)' = Inbox(j)
      BY <1>0 DEF Inbox
    <2> QED BY <1>0, <2>1 DEF MailInv
  <1>11. StopInv'
    BY <1>0, <1>1 DEF StopInv
  <1>12. UidInv'
    <2>1. \A j \in System : m_uid[j] \in Nat /\ m_currentUid[j] \in Nat
      BY DEF TypeOK
    <2>2. \A ev \in m_events[k] : ev.uid \in Nat /\ ev.uid < m_uid[k]
      BY Records DEF TypeOK, UidInv
    <2>3. \A ev \in m_events'[k] : ev.uid < m_uid'[k]
      BY <1>2, <1>4, <1>5, <2>2
    <2> QED BY <1>0, <1>5, <2>1, <2>3 DEF UidInv
  <1> QED BY <1>6, <1>7, <1>8, <1>9, <1>10, <1>11, <1>12

LEMMA GlobalSchedule ==
  ASSUME GInv, NEW i \in System, Schedule(i)
  PROVE  GInv'
  <1> USE Systems
  <1>1. PICK ts \in m_currentTs[i] .. Half :
          m_events' = [m_events EXCEPT ![i] =
                        @ \cup {[impl |-> NewImpl(i), ts |-> ts, uid |-> m_uid[i]]}]
    BY DEF Schedule
  <1>2. /\ invoking[i] /\ created[i] < MaxEvents
        /\ m_uid' = [m_uid EXCEPT ![i] = @ + 1]
        /\ created' = [created EXCEPT ![i] = @ + 1]
        /\ UNCHANGED <<control, invoking, m_mailbox, clocks, m_stop, window>>
    BY DEF Schedule
  <1>3. /\ m_currentTs[i] \in 0 .. Half /\ g_smallestTime \in 0 .. Half
        /\ m_currentTs[i] >= g_smallestTime
    BY <1>2 DEF GInv, TypeOK, RunningFromSmallest
  <1>4. ts \in 0 .. Half /\ ts >= g_smallestTime /\ (i = Public => ts >= m_currentTs[Public])
    BY <1>3, RoundsAssumption
  <1> QED BY <1>1, <1>2, <1>4, GlobalAdd

LEMMA GlobalScheduleGlobal ==
  ASSUME GInv, NEW i \in System, ScheduleGlobal(i)
  PROVE  GInv'
  <1> USE Systems
  <1>1. PICK ts \in {g_smallestTime, g_nextPublicTime} :
         /\ ts <= g_smallestTime /\ ts <= g_nextPublicTime
         /\ m_events' = [m_events EXCEPT ![Public] =
              @ \cup {[impl |-> NewImpl(i), ts |-> ts, uid |-> m_uid[Public]]}]
    BY DEF ScheduleGlobal
  <1>2. /\ invoking[i] /\ created[i] < MaxEvents
        /\ m_uid' = [m_uid EXCEPT ![Public] = @ + 1]
        /\ created' = [created EXCEPT ![i] = @ + 1]
        /\ UNCHANGED <<control, invoking, m_mailbox, clocks, m_stop, window>>
    BY DEF ScheduleGlobal
  <1>3. FromSmallest
    BY <1>2 DEF GInv, RunningFromSmallest, Processing
  <1>4. /\ g_smallestTime \in 0 .. Half /\ g_nextPublicTime \in 0 .. TimeMax
        /\ m_currentTs[Public] \in 0 .. Half
        /\ g_smallestTime <= g_nextPublicTime /\ m_currentTs[Public] <= g_smallestTime
    BY <1>3 DEF GInv, TypeOK, FromSmallest
  <1>5. ts \in 0 .. Half /\ ts >= g_smallestTime /\ ts >= m_currentTs[Public]
    BY <1>1, <1>4, RoundsAssumption DEF TimeMax
  <1> QED BY <1>1, <1>2, <1>5, GlobalAdd

LEMMA GlobalScheduleWithContext ==
  ASSUME GInv, NEW i \in System, NEW j \in LP, ScheduleWithContext(i, j)
  PROVE  GInv'
  <1> USE Systems
  <1> USE DEF GInv
  <1>0. /\ UNCHANGED <<phase, work, invoking, m_events, m_currentTs, m_currentUid, leftover,
                       m_uid, m_stop, g_smallestTime, g_nextPublicTime>>
        /\ invoking[i] /\ created[i] < MaxEvents
        /\ created' = [created EXCEPT ![i] = @ + 1]
    BY DEF ScheduleWithContext, control, window, clocks
  <1>1. PICK ts \in m_currentTs[i] .. Half :
          m_mailbox' = [m_mailbox EXCEPT ![j][i] =
               @ \cup {[impl |-> NewImpl(i), ts |-> ts,
                        sent |-> m_currentTs[i], uid |-> m_uid[i]]}]
    BY DEF ScheduleWithContext
  <1> DEFINE new == [impl |-> NewImpl(i), ts |-> ts,
                     sent |-> m_currentTs[i], uid |-> m_uid[i]]
  <1>2. /\ phase \notin {"over", "calc", "receive"}
        /\ FromSmallest
        /\ m_currentTs[i] >= g_smallestTime
    BY <1>0 DEF RunningFromSmallest, Processing
  <1>3. /\ m_uid[i] \in Nat /\ m_currentTs[i] \in 0 .. Half /\ ts \in 0 .. Half
        /\ g_smallestTime \in Nat
    BY RoundsAssumption DEF TypeOK
  <1>4. NewImpl(i) \in Impl /\ created' \in [System -> 0 .. MaxEvents]
    BY <1>0, NewImplFresh
  <1>5. new \in MessageSet /\ new.ts >= g_smallestTime
    BY <1>2, <1>3, <1>4, Records
  <1> HIDE DEF new
  <1>6. /\ m_mailbox'[j][i] = m_mailbox[j][i] \cup {new}
        /\ \A a, b \in System : a # j \/ b # i => m_mailbox'[a][b] = m_mailbox[a][b]
        /\ m_mailbox' \in [System -> [System -> SUBSET MessageSet]]
    BY <1>1, <1>5 DEF TypeOK, new
  <1>7. TypeOK'
    BY <1>0, <1>4, <1>6 DEF TypeOK
  <1>8. FromSmallest'
    <2>1. \A a, b \in System : \A m \in m_mailbox'[a][b] :
            m \in m_mailbox[a][b] \/ (a = j /\ b = i /\ m = new)
      BY <1>6
    <2> QED BY <1>0, <1>2, <1>5, <2>1 DEF FromSmallest
  <1>9. MailInv'
    BY <1>0, <1>2, <1>6, MailMore
  <1>10. PublicForward' /\ UidInv' /\ RunningFromSmallest'
    BY <1>0 DEF PublicForward, IsExpired, Misjudged, UidInv, RunningFromSmallest,
           Processing
  <1>11. StopInv'
    BY <1>0, <1>2 DEF StopInv
  <1> QED BY <1>7, <1>8, <1>9, <1>10, <1>11

LEMMA GlobalStopReturn ==
  ASSUME GInv, NEW i \in System, Stop(i) \/ Return(i)
  PROVE  GInv'
  <1> USE Systems
  <1> USE DEF GInv
  <1>0. UNCHANGED <<phase, work, m_events, m_mailbox, m_currentTs, m_currentUid, leftover,
                    m_uid, g_smallestTime, g_nextPublicTime, created>>
    BY DEF Stop, Return, control, window, clocks
  <1>1. phase # "over"
    BY DEF Stop, Return, RunningFromSmallest, Processing
  <1>2. /\ invoking' \in [System -> BOOLEAN]
        /\ \A j \in System : invoking'[j] => invoking[j]
    BY DEF Stop, Return, TypeOK
  <1>3. m_stop' \in [System -> BOOLEAN]
    BY DEF Stop, Return, TypeOK
  <1>4. TypeOK'
    BY <1>0, <1>2, <1>3 DEF TypeOK
  <1>5. PublicForward' /\ UidInv' /\ FromSmallest'
    BY <1>0, <1>1 DEF PublicForward, IsExpired, Misjudged, UidInv, FromSmallest
  <1>6. RunningFromSmallest'
    BY <1>0, <1>2 DEF RunningFromSmallest, Processing
  <1>7. MailInv'
    <2>1. \A j \in System : Inbox(j)' = Inbox(j)
      BY <1>0 DEF Inbox
    <2> QED BY <1>0, <2>1 DEF MailInv
  <1>8. StopInv'
    BY <1>0, <1>1 DEF StopInv, Stop, Return
  <1> QED BY <1>1, <1>4, <1>5, <1>6, <1>7, <1>8

LEMMA GlobalCalculate ==
  ASSUME GInv, CalculateSmallestTime
  PROVE  GInv'
  <1> USE Systems
  <1> USE DEF GInv
  <1>0. /\ UNCHANGED <<invoking, m_events, m_mailbox, m_currentTs, m_currentUid, leftover, m_uid,
                       m_stop, created>>
        /\ phase = "calc"
        /\ g_smallestTime' \in NextTimes(System, Half)
        /\ \A ts \in NextTimes(System, Half) : g_smallestTime' <= ts
        /\ g_nextPublicTime' \in NextTimes({Public}, TimeMax)
    BY DEF CalculateSmallestTime, clocks, LatestTime
  <1>1. /\ phase' \in {"process", "over"}
        /\ work' = [i \in LP |-> "todo"]
        /\ phase' = "over" => \A i \in System : isLocalFinished(i)
        /\ (\A i \in System : isLocalFinished(i)) => phase' = "over"
    BY DEF CalculateSmallestTime, Stages!Finish, Stages!NextRound, Stages!LP, LP
  <1>2. FromSmallest
    BY <1>0
  <1>3. /\ Half \in Nat /\ TimeMax \in Nat /\ Half < TimeMax
        /\ g_smallestTime \in 0 .. Half /\ m_currentTs[Public] \in Nat
    BY RoundsAssumption DEF TypeOK, TimeMax
  <1>4. \A i \in System : \A ev \in m_events[i] : ev.ts \in 0 .. Half
    <2>1. m_events \in [System -> SUBSET EventSet]
      BY DEF TypeOK
    <2> QED BY <2>1, <1>3, Records
  <1>5. /\ \A ts \in NextTimes(System, Half) : ts \in 0 .. Half /\ ts >= g_smallestTime
        /\ \A i \in System : \A ev \in m_events[i] :
             ~ m_stop[i] => ev.ts \in NextTimes(System, Half)
        /\ Half \in NextTimes(System, Half)
    BY <1>2, <1>3, <1>4 DEF NextTimes, FromSmallest
  <1>6. \A ts \in NextTimes({Public}, TimeMax) :
          ts \in 0 .. TimeMax /\ (ts = TimeMax \/ ts \in NextTimes(System, Half))
    BY <1>3, <1>4 DEF NextTimes
  <1>7. /\ g_smallestTime' \in 0 .. Half /\ g_smallestTime' >= g_smallestTime
        /\ g_nextPublicTime' \in 0 .. TimeMax
        /\ g_smallestTime' <= g_nextPublicTime'
    <2>1. g_smallestTime' \in 0 .. Half /\ g_smallestTime' >= g_smallestTime
      BY <1>0, <1>5
    <2>2. /\ g_nextPublicTime' \in 0 .. TimeMax
          /\ g_nextPublicTime' = TimeMax \/ g_nextPublicTime' \in NextTimes(System, Half)
      BY <1>0, <1>6
    <2>3. g_smallestTime' <= g_nextPublicTime'
      BY <1>0, <1>3, <2>1, <2>2
    <2> QED BY <2>1, <2>2, <2>3
  <1>8. TypeOK'
    BY <1>0, <1>1, <1>7 DEF TypeOK, Stages!Phase
  <1>9. PublicForward' /\ UidInv'
    BY <1>0 DEF PublicForward, IsExpired, Misjudged, UidInv
  <1>10. \A i, j \in System : m_mailbox[i][j] = {}
    BY <1>0 DEF MailInv
  <1>11. ASSUME phase' # "over" PROVE FromSmallest'
    <2>1. \A i \in System : ~ m_stop[i]
      BY <1>1, <1>11 DEF StopInv, isLocalFinished
    <2>2. \A i \in System : \A ev \in m_events[i] : ev.ts >= g_smallestTime'
      BY <1>0, <1>4, <1>5, <1>7, <2>1
    <2>3. m_currentTs[Public] <= g_smallestTime'
      BY <1>2, <1>3, <1>7 DEF FromSmallest
    <2> QED BY <1>0, <1>7, <1>10, <2>2, <2>3 DEF FromSmallest
  <1>12. RunningFromSmallest'
    BY <1>0 DEF RunningFromSmallest, Processing
  <1>13. MailInv'
    <2>1. \A j \in System : Inbox(j)' = Inbox(j)
      BY <1>0 DEF Inbox
    <2> QED BY <1>0, <1>10, <2>1 DEF MailInv
  <1>14. StopInv'
    BY <1>0, <1>1 DEF StopInv, isLocalFinished
  <1> QED BY <1>8, <1>9, <1>11, <1>12, <1>13, <1>14

LEMMA GlobalStep == GInv /\ [GlobalNext]_vars => GInv'
  <1> SUFFICES ASSUME GInv, [GlobalNext]_vars PROVE GInv'
    OBVIOUS
  <1>1. ASSUME NEW i \in System, Event(i)
        PROVE  GInv'
    BY <1>1, GlobalInvoke, GlobalSchedule, GlobalScheduleWithContext, GlobalStopReturn
       DEF Event
  <1>2. CASE UNCHANGED vars
    <2>1. UNCHANGED <<phase, work, invoking, m_events, m_mailbox, m_currentTs,
                      m_currentUid, leftover, m_uid, m_stop, g_smallestTime, g_nextPublicTime,
                      created>>
      BY <1>2 DEF vars, control, clocks, window
    <2>2. \A j \in System : Inbox(j)' = Inbox(j)
      BY <2>1 DEF Inbox
    <2>3. TypeOK' /\ PublicForward' /\ UidInv'
      BY <2>1 DEF GInv, TypeOK, PublicForward, IsExpired, Misjudged, UidInv
    <2>4. phase' # "over" => FromSmallest'
      BY <2>1 DEF GInv, FromSmallest
    <2>5. RunningFromSmallest' /\ StopInv'
      BY <2>1 DEF GInv, RunningFromSmallest, Processing, StopInv, isLocalFinished
    <2>6. MailInv'
      BY <2>1, <2>2 DEF GInv, MailInv
    <2> QED BY <2>3, <2>4, <2>5, <2>6 DEF GInv
  <1> QED BY <1>1, <1>2, GlobalReceive, GlobalCalculate, GlobalQuiet, GlobalScheduleGlobal
       DEF GlobalNext, Next, Quiet

\* The rounds of programs that use ScheduleGlobal keep the weaker invariant.
THEOREM GlobalInvariance == GlobalSpec => []GInv
  BY GlobalInit, GlobalStep, PTL DEF GlobalSpec

\* Whatever LPs hand over with ScheduleGlobal, the public LP never meets an
\* event in its past, nor (time zero after InvokeNow excepted) one that
\* IsExpired would take for an old one.
THEOREM GlobalForward == GlobalSpec => []PublicForward
  <1>1. GInv => PublicForward
    BY DEF GInv
  <1> QED BY <1>1, GlobalInvariance, PTL

\* With ScheduleGlobal too, no window reaches Time::Max(): an empty list is
\* never asked for its first event.
THEOREM GlobalNeverEmpty == GlobalSpec => []NeverDequeueEmpty
  <1>1. GInv => NeverDequeueEmpty
    <2> SUFFICES ASSUME GInv, NEW i \in System, Granted(i, TimeMax)
                 PROVE  FALSE
      BY DEF NeverDequeueEmpty
    <2>1. g_smallestTime \in 0 .. Half
      BY DEF GInv, TypeOK
    <2>2. PICK la \in 0 .. TimeMax : IsLookAhead(i, la) /\ TimeMax <= g_smallestTime + la
      BY DEF Granted
    <2>3. la <= Half - 1
      BY <2>2, RoundsAssumption DEF IsLookAhead
    <2> QED BY <2>1, <2>2, <2>3, RoundsAssumption DEF TimeMax
  <1> QED BY <1>1, GlobalInvariance, PTL

=============================================================================

------------------------- MODULE MtpTransferProofs --------------------------
(***************************************************************************)
(* The transfer of events to the new LPs, for any number of LPs, nodes and *)
(* events.  The five places an event can be in (the old list, invoked,     *)
(* removed, a new list, a mailbox) are five sets that the invariant shows  *)
(* to be disjoint and to hold every event between them.                    *)
(***************************************************************************)
EXTENDS MtpTransfer, FiniteSetTheorems, SequenceTheorems, TLAPS

Record == [ts : Time, system : System, uid : Nat, held : BOOLEAN]
Entry == [impl : Impl, ts : Time, uid : Nat]
Mail == [impl : Impl, ts : Time, sent : Time, uid : Nat]

Past == {n \in Impl : \E l \in DOMAIN invoked : invoked[l] = n}
Listed == {n \in Impl : \E i \in System : \E ev \in m_events[i] : ev.impl = n}
Mailed == {n \in Impl : \E i, j \in System : \E m \in m_mailbox[i][j] : m.impl = n}

\* The main thread is LP 0 or invokes an event of time zero.
Clock == \A i \in System : m_currentTs[i] = 0

\* The old LP's numbering.
OldUids == \A n \in Initial : born[n].uid = VALID + n - 1

\* Every event is in one place.
Partitioned ==
    /\ DOMAIN born = events \cup Past \cup removed \cup Listed \cup Mailed
    /\ events \cap (Past \cup removed \cup Listed \cup Mailed) = {}
    /\ Past \cap (removed \cup Listed \cup Mailed) = {}
    /\ removed \cap (Listed \cup Mailed) = {}
    /\ Listed \cap Mailed = {}

\* An entry of a list is with the LP of its event, at the time of the event, and
\* the only one for the event there; the same for a mailbox.
ListsRight ==
    \A i \in System : \A ev \in m_events[i] :
        /\ born[ev.impl].system = i /\ born[ev.impl].ts = ev.ts
        /\ \A f \in m_events[i] : f.impl = ev.impl => f = ev

MailRight ==
    \A i, j \in System : \A m \in m_mailbox[i][j] :
        /\ born[m.impl].system = i /\ born[m.impl].ts = m.ts
        /\ \A k \in System : \A f \in m_mailbox[i][k] : f.impl = m.impl => f = m

Ascending == \A k, l \in DOMAIN invoked : k < l => invoked[k] < invoked[l]

\* What is left at time zero comes after everything that was invoked.
Ahead == \A l \in DOMAIN invoked : \A k \in events : born[k].ts = 0 => invoked[l] < k

\* The uid that IsExpired compares with is that of an invoked event.
Current ==
    \A i \in System : \/ m_currentUid[i] = 0
                      \/ \E l \in DOMAIN invoked : m_currentUid[i] = VALID + invoked[l] - 1

\* An event of main() is handed over only when time zero is over.
Late == \A n \in Initial : n \in Listed \cup Mailed =>
            born[n].ts > 0 /\ \A k \in events : born[k].ts > 0

Known == asked \subseteq DOMAIN born

TInv == /\ TypeOK /\ Clock /\ OldUids /\ Partitioned /\ ListsRight /\ MailRight
        /\ Ascending /\ Ahead /\ Current /\ Late /\ Known /\ CancelTakesEffect

-----------------------------------------------------------------------------

LEMMA ConstantsType ==
  /\ SystemCount \in Nat /\ MaxTime \in Nat /\ MaxEvents \in Nat
  /\ InitialEvents \in Nat /\ InitialEvents <= MaxEvents
  /\ Initial \subseteq Impl /\ Public \in System /\ LP \subseteq System
  /\ VALID \in Nat /\ VALID > 0
  BY TransferAssumption DEF Initial, Impl, Public, System, LP, VALID

LEMMA SystemOfType == \A c \in Context : SystemOf(c) \in System
  BY TransferAssumption, ConstantsType DEF SystemOf, Context

\* What the invariant says of the events.
LEMMA BornType ==
  ASSUME TypeOK
  PROVE  /\ Len(born) \in Nat /\ InitialEvents <= Len(born) /\ Len(born) <= MaxEvents
         /\ DOMAIN born = 1 .. Len(born) /\ DOMAIN born \subseteq Impl
         /\ Initial \subseteq DOMAIN born
         /\ \A n \in DOMAIN born : born[n] \in Record
  <1>1. born \in Seq(Record) /\ Len(born) \in InitialEvents .. MaxEvents
    BY DEF TypeOK, Record
  <1>2. DOMAIN born = 1 .. Len(born) /\ \A n \in DOMAIN born : born[n] \in Record
    BY <1>1, LenProperties, ElementOfSeq
  <1> QED BY <1>1, <1>2, ConstantsType DEF Impl, Initial

\* Init.
LEMMA InitTransfer == Init => TInv
  <1> SUFFICES ASSUME Init PROVE TInv
    OBVIOUS
  <1>1. PICK start \in [Initial -> [ts : 0 .. MaxTime, context : Context]] :
          born = [n \in Initial |->
                   [ts |-> start[n].ts, system |-> SystemOf(start[n].context),
                    uid |-> VALID + n - 1, held |-> start[n].context = NoContext]]
    BY DEF Init
  <1>2. \A n \in Initial : born[n] \in Record
    <2> SUFFICES ASSUME NEW n \in Initial PROVE born[n] \in Record
      OBVIOUS
    <2> DEFINE t == start[n].ts
               i == SystemOf(start[n].context)
               u == VALID + n - 1
               h == start[n].context = NoContext
    <2>1. t \in Time /\ i \in System
      BY ConstantsType, SystemOfType DEF Time
    <2>2. u \in Nat
      BY ConstantsType DEF Initial
    <2>3. h \in BOOLEAN
      OBVIOUS
    <2>4. born[n] = [ts |-> t, system |-> i, uid |-> u, held |-> h]
      BY <1>1
    <2> HIDE DEF t, i, u, h
    <2> QED BY <2>1, <2>2, <2>3, <2>4 DEF Record
  <1>3. born \in Seq(Record) /\ Len(born) = InitialEvents /\ DOMAIN born = Initial
    <2>1. born \in [1 .. InitialEvents -> Record]
      BY <1>1, <1>2 DEF Initial
    <2> QED BY <2>1, ConstantsType, SeqDef, LenProperties DEF Initial
  <1>4. TypeOK
    BY <1>3, ConstantsType DEF Init, TypeOK, Record, Time, Initial
  <1>5. Past = {} /\ Listed = {} /\ Mailed = {} /\ removed = {} /\ events = Initial
    BY DEF Init, Past, Listed, Mailed
  <1>6. Partitioned
    BY <1>3, <1>5 DEF Partitioned
  <1>7. OldUids
    BY <1>1 DEF OldUids
  <1>8. Clock /\ ListsRight /\ MailRight /\ Current
    BY DEF Init, Clock, ListsRight, MailRight, Current
  <1>9. Ascending /\ Ahead /\ Late /\ Known /\ CancelTakesEffect
    BY <1>5 DEF Init, Ascending, Ahead, Late, Known, CancelTakesEffect
  <1> QED BY <1>4, <1>6, <1>7, <1>8, <1>9 DEF TInv

\* The event that RemoveNext takes is before all that stay.
LEMMA RemoveNextLemma ==
  ASSUME TInv, NEW n, RemoveNext(n)
  PROVE  /\ n \in events /\ n \in Initial /\ n \in Impl /\ n \in DOMAIN born
         /\ born[n] \in Record /\ born[n].ts \in Time /\ born[n].ts \in Nat
         /\ events' = events \ {n}
         /\ \A k \in events' : /\ k \in Nat /\ n \in Nat /\ born[k].ts \in Nat
                               /\ \/ born[n].ts < born[k].ts
                                  \/ born[n].ts = born[k].ts /\ n < k
  <1>1. TypeOK
    BY DEF TInv
  <1>2. n \in events /\ events' = events \ {n} /\ events \subseteq Initial
    BY <1>1 DEF RemoveNext, TypeOK
  <1>3. \A k \in events : k \in Nat /\ k \in DOMAIN born /\ k \in Impl /\ born[k] \in Record
                            /\ born[k].ts \in Time /\ born[k].ts \in Nat
    <2> SUFFICES ASSUME NEW k \in events
                 PROVE  k \in Nat /\ k \in DOMAIN born /\ k \in Impl /\ born[k] \in Record
                            /\ born[k].ts \in Time /\ born[k].ts \in Nat
      OBVIOUS
    <2>1. k \in DOMAIN born /\ k \in Impl /\ born[k] \in Record
      BY <1>1, <1>2, BornType
    <2>2. born[k].ts \in Time
      BY <2>1 DEF Record
    <2> QED BY <2>1, <2>2, ConstantsType DEF Time, Impl
  <1> QED BY <1>2, <1>3 DEF RemoveNext

LEMMA AppendLemma ==
  ASSUME NEW S, NEW q \in Seq(S), NEW x \in S, NEW r, r = Append(q, x)
  PROVE  /\ r \in Seq(S) /\ Len(q) \in Nat /\ Len(r) = Len(q) + 1
         /\ DOMAIN q = 1 .. Len(q) /\ DOMAIN r = 1 .. (Len(q) + 1)
         /\ r[Len(q) + 1] = x
         /\ \A l \in DOMAIN q : l \in DOMAIN r /\ r[l] = q[l]
         /\ \A l \in DOMAIN r : l \in DOMAIN q \/ l = Len(q) + 1
  BY AppendProperties, LenProperties

LEMMA InsertLemma ==
  ASSUME TInv, NEW i \in System, NEW n \in Impl, NEW ts \in Time, Insert(i, n, ts)
  PROVE  /\ m_events' \in [System -> SUBSET Entry] /\ m_uid' \in [System -> Nat]
         /\ m_mailbox' = m_mailbox
         /\ Listed' = Listed \cup {n}
         /\ \A k \in System : \A ev \in m_events'[k] :
              ev \in m_events[k] \/ (k = i /\ ev.impl = n /\ ev.ts = ts)
         /\ \A ev \in m_events'[i], f \in m_events'[i] :
              ev.impl = n /\ f.impl = n /\ n \notin Listed => ev = f
  <1> DEFINE e == [impl |-> n, ts |-> ts, uid |-> m_uid[i]]
  <1>1. m_events \in [System -> SUBSET Entry] /\ m_uid \in [System -> Nat]
    BY DEF TInv, TypeOK, Entry
  <1>2. e \in Entry /\ e.impl = n /\ e.ts = ts
    BY <1>1 DEF Entry
  <1>3. m_events' = [m_events EXCEPT ![i] = @ \cup {e}] /\ m_mailbox' = m_mailbox
    BY DEF Insert
  <1>4. m_uid' \in [System -> Nat]
    BY <1>1 DEF Insert
  <1> HIDE DEF e
  <1>5. m_events' \in [System -> SUBSET Entry]
    BY <1>1, <1>2, <1>3
  <1>6. /\ \A k \in System : k # i => m_events'[k] = m_events[k]
        /\ m_events'[i] = m_events[i] \cup {e}
    BY <1>1, <1>3
  <1>7. Listed' = Listed \cup {n}
    BY <1>2, <1>6 DEF Listed
  <1>8. \A ev \in m_events'[i] : ev.impl = n /\ n \notin Listed => ev = e
    BY <1>6 DEF Listed
  <1> QED BY <1>2, <1>3, <1>4, <1>5, <1>6, <1>7, <1>8

LEMMA SendLemma ==
  ASSUME TInv, NEW i \in System, NEW j \in System, NEW n \in Impl, NEW ts \in Time,
         Send(i, j, n, ts)
  PROVE  /\ m_mailbox' \in [System -> [System -> SUBSET Mail]]
         /\ m_events' = m_events /\ m_uid' = m_uid
         /\ Mailed' = Mailed \cup {n}
         /\ \A k, l \in System : \A m \in m_mailbox'[k][l] :
              m \in m_mailbox[k][l] \/ (k = j /\ m.impl = n /\ m.ts = ts)
         /\ \A k, l \in System : \A m \in m_mailbox'[j][k], f \in m_mailbox'[j][l] :
              m.impl = n /\ f.impl = n /\ n \notin Mailed => m = f
  <1> DEFINE e == [impl |-> n, ts |-> ts, sent |-> m_currentTs[i], uid |-> m_uid[i]]
  <1>1. /\ m_mailbox \in [System -> [System -> SUBSET Mail]] /\ m_uid \in [System -> Nat]
        /\ m_currentTs \in [System -> Time]
    BY DEF TInv, TypeOK, Mail
  <1>2. e \in Mail /\ e.impl = n /\ e.ts = ts
    BY <1>1 DEF Mail
  <1>3. m_mailbox' = [m_mailbox EXCEPT ![j][i] = @ \cup {e}]
          /\ m_events' = m_events /\ m_uid' = m_uid
    BY DEF Send
  <1> HIDE DEF e
  <1>4. m_mailbox' \in [System -> [System -> SUBSET Mail]]
    BY <1>1, <1>2, <1>3
  <1>5. /\ \A k, l \in System : k # j \/ l # i => m_mailbox'[k][l] = m_mailbox[k][l]
        /\ m_mailbox'[j][i] = m_mailbox[j][i] \cup {e}
    BY <1>1, <1>3
  <1>6. Mailed' = Mailed \cup {n}
    BY <1>2, <1>5 DEF Mailed
  <1>7. \A k \in System : \A m \in m_mailbox'[j][k] :
          m.impl = n /\ n \notin Mailed => m = e
    BY <1>5 DEF Mailed
  <1> QED BY <1>2, <1>3, <1>4, <1>5, <1>6, <1>7

\* The events known before are what they were.
Kept == \A k \in DOMAIN born : k \in DOMAIN born' /\ born'[k] = born[k]

\* An event that was nowhere enters a list of its LP.
LEMMA ListsRightLemma ==
  ASSUME TInv, NEW i \in System, NEW n \in Impl, NEW ts \in Time, Insert(i, n, ts), Kept,
         n \notin Listed, born'[n].system = i, born'[n].ts = ts
  PROVE  ListsRight' /\ MailRight'
  <1>0. /\ ListsRight /\ MailRight /\ Listed \subseteq DOMAIN born /\ Mailed \subseteq DOMAIN born
        /\ m_events \in [System -> SUBSET Entry]
        /\ m_mailbox \in [System -> [System -> SUBSET Mail]]
    BY DEF TInv, Partitioned, TypeOK, Entry, Mail
  <1>1. \A k \in System : \A ev \in m_events[k] : ev.impl \in Listed /\ ev.impl \in DOMAIN born
    BY <1>0 DEF Listed, Entry
  <1>2. /\ m_mailbox' = m_mailbox
        /\ \A k \in System : \A ev \in m_events'[k] :
             ev \in m_events[k] \/ (k = i /\ ev.impl = n /\ ev.ts = ts)
        /\ \A ev \in m_events'[i], f \in m_events'[i] :
             ev.impl = n /\ f.impl = n => ev = f
    BY InsertLemma
  <1>3. ASSUME NEW k \in System, NEW ev \in m_events'[k]
        PROVE  /\ born'[ev.impl].system = k /\ born'[ev.impl].ts = ev.ts
               /\ \A f \in m_events'[k] : f.impl = ev.impl => f = ev
    <2>1. CASE ev \in m_events[k]
      BY <1>0, <1>1, <1>2, <2>1 DEF ListsRight, Kept
    <2>2. CASE k = i /\ ev.impl = n /\ ev.ts = ts
      BY <1>2, <2>2
    <2> QED BY <1>2, <2>1, <2>2
  <1>4. \A k, l \in System : \A m \in m_mailbox[k][l] : m.impl \in DOMAIN born
    BY <1>0 DEF Mailed, Mail
  <1>5. MailRight'
    BY <1>0, <1>2, <1>4 DEF MailRight, Kept
  <1> QED BY <1>3, <1>5 DEF ListsRight

\* An event that was nowhere enters a mailbox of its LP.
LEMMA MailRightLemma ==
  ASSUME TInv, NEW i \in System, NEW j \in System, NEW n \in Impl, NEW ts \in Time,
         Send(i, j, n, ts), Kept, n \notin Mailed, born'[n].system = j, born'[n].ts = ts
  PROVE  ListsRight' /\ MailRight'
  <1>0. /\ ListsRight /\ MailRight /\ Listed \subseteq DOMAIN born /\ Mailed \subseteq DOMAIN born
        /\ m_events \in [System -> SUBSET Entry]
        /\ m_mailbox \in [System -> [System -> SUBSET Mail]]
    BY DEF TInv, Partitioned, TypeOK, Entry, Mail
  <1>1. \A k \in System : \A ev \in m_events[k] : ev.impl \in DOMAIN born
    BY <1>0 DEF Listed, Entry
  <1>2. /\ m_events' = m_events
        /\ \A k, l \in System : \A m \in m_mailbox'[k][l] :
             m \in m_mailbox[k][l] \/ (k = j /\ m.impl = n /\ m.ts = ts)
        /\ \A k, l \in System : \A m \in m_mailbox'[j][k], f \in m_mailbox'[j][l] :
             m.impl = n /\ f.impl = n => m = f
    BY SendLemma
  <1>3. \A k, l \in System : \A m \in m_mailbox[k][l] : m.impl \in Mailed /\ m.impl \in DOMAIN born
    BY <1>0 DEF Mailed, Mail
  <1>4. ASSUME NEW k \in System, NEW l \in System, NEW m \in m_mailbox'[k][l]
        PROVE  /\ born'[m.impl].system = k /\ born'[m.impl].ts = m.ts
               /\ \A x \in System : \A f \in m_mailbox'[k][x] : f.impl = m.impl => f = m
    <2>1. CASE m \in m_mailbox[k][l]
      <3>1. /\ born'[m.impl].system = k /\ born'[m.impl].ts = m.ts /\ m.impl # n
        BY <1>0, <1>3, <2>1 DEF MailRight, Kept
      <3>2. ASSUME NEW x \in System, NEW f \in m_mailbox'[k][x], f.impl = m.impl
            PROVE  f = m
        BY <1>0, <1>2, <2>1, <3>1, <3>2 DEF MailRight
      <3> QED BY <3>1, <3>2
    <2>2. CASE k = j /\ m.impl = n /\ m.ts = ts
      BY <1>2, <2>2
    <2> QED BY <1>2, <2>1, <2>2
  <1>5. ListsRight'
    BY <1>0, <1>1, <1>2 DEF ListsRight, Kept
  <1> QED BY <1>4, <1>5 DEF MailRight

-----------------------------------------------------------------------------
(* The actions *)

LEMMA InvokeNowInv ==
  ASSUME TInv, NEW n, InvokeNow(n)
  PROVE  TInv'
  <1> DEFINE i == born[n].system
  <1>0. /\ TypeOK /\ Clock /\ OldUids /\ Partitioned /\ ListsRight /\ MailRight
        /\ Ascending /\ Ahead /\ Current /\ Late /\ Known /\ CancelTakesEffect
    BY DEF TInv
  <1>1. /\ RemoveNext(n) /\ born[n].ts = 0 /\ invoked' = Append(invoked, n)
        /\ m_currentTs' = [m_currentTs EXCEPT ![i] = 0]
        /\ m_currentUid' = [m_currentUid EXCEPT ![i] = born[n].uid]
        /\ running' = i /\ pc' \in {"transfer", "invoke"}
        /\ born' = born /\ m_events' = m_events /\ m_mailbox' = m_mailbox /\ m_uid' = m_uid
        /\ cancelled' = cancelled /\ removed' = removed /\ asked' = asked
    BY DEF InvokeNow, outcome
  <1>2. /\ n \in events /\ n \in Initial /\ n \in Impl /\ n \in DOMAIN born
        /\ born[n] \in Record /\ events' = events \ {n}
        /\ \A k \in events' : /\ k \in Nat /\ n \in Nat /\ born[k].ts \in Nat
                              /\ \/ born[n].ts < born[k].ts
                                 \/ born[n].ts = born[k].ts /\ n < k
    BY <1>1, RemoveNextLemma
  <1>3. /\ invoked' \in Seq(Impl) /\ Len(invoked) \in Nat
        /\ DOMAIN invoked = 1 .. Len(invoked) /\ DOMAIN invoked' = 1 .. (Len(invoked) + 1)
        /\ invoked'[Len(invoked) + 1] = n
        /\ \A l \in DOMAIN invoked : l \in DOMAIN invoked' /\ invoked'[l] = invoked[l]
        /\ \A l \in DOMAIN invoked' : l \in DOMAIN invoked \/ l = Len(invoked) + 1
    <2>1. invoked \in Seq(Impl)
      BY <1>0 DEF TypeOK
    <2> QED BY <1>1, <1>2, <2>1, AppendLemma
  <1>4. i \in System /\ born[n].uid \in Nat /\ 0 \in Time
    BY <1>2, ConstantsType DEF Record, Time
  <1>5. TypeOK'
    BY <1>0, <1>1, <1>2, <1>3, <1>4 DEF TypeOK
  <1>6. Clock'
    BY <1>0, <1>1 DEF Clock, TypeOK
  <1>7. Past' = Past \cup {n} /\ Listed' = Listed /\ Mailed' = Mailed
    <2>1. Past' = Past \cup {n}
      BY <1>2, <1>3 DEF Past
    <2> QED BY <1>1, <2>1 DEF Listed, Mailed
  <1>8. Partitioned'
    BY <1>0, <1>1, <1>2, <1>7 DEF Partitioned
  <1>9. OldUids' /\ ListsRight' /\ MailRight' /\ Known' /\ CancelTakesEffect'
    BY <1>0, <1>1 DEF OldUids, ListsRight, MailRight, Known, CancelTakesEffect
  <1>10. Ascending'
    <2> SUFFICES ASSUME NEW k \in DOMAIN invoked', NEW l \in DOMAIN invoked', k < l
                 PROVE  invoked'[k] < invoked'[l]
      BY DEF Ascending
    <2>1. CASE l \in DOMAIN invoked
      <3>1. k \in DOMAIN invoked
        BY <1>3, <2>1
      <3> QED BY <1>0, <1>3, <2>1, <3>1 DEF Ascending
    <2>2. CASE l = Len(invoked) + 1
      <3>1. k \in DOMAIN invoked
        BY <1>3, <2>2
      <3> QED BY <1>0, <1>1, <1>2, <1>3, <2>2, <3>1 DEF Ahead
    <2> QED BY <1>3, <2>1, <2>2
  <1>11. Ahead'
    BY <1>0, <1>1, <1>2, <1>3 DEF Ahead
  <1>12. Current'
    <2>1. born[n].uid = VALID + n - 1
      BY <1>0, <1>2 DEF OldUids
    <2> SUFFICES ASSUME NEW k \in System
                 PROVE  \/ m_currentUid'[k] = 0
                        \/ \E l \in DOMAIN invoked' : m_currentUid'[k] = VALID + invoked'[l] - 1
      BY DEF Current
    <2>2. CASE k = i
      <3>1. m_currentUid'[k] = VALID + n - 1
        BY <1>0, <1>1, <2>1, <2>2 DEF TypeOK
      <3>2. Len(invoked) + 1 \in DOMAIN invoked'
        BY <1>3
      <3> QED BY <1>3, <3>1, <3>2
    <2>3. CASE k # i
      <3>1. m_currentUid'[k] = m_currentUid[k]
        BY <1>0, <1>1, <2>3 DEF TypeOK
      <3> QED BY <1>0, <1>3, <3>1 DEF Current
    <2> QED BY <2>2, <2>3
  <1>13. Late'
    BY <1>0, <1>1, <1>2, <1>7 DEF Late
  <1> QED BY <1>5, <1>6, <1>8, <1>9, <1>10, <1>11, <1>12, <1>13 DEF TInv

LEMMA TransferInv ==
  ASSUME TInv, NEW n, Transfer(n)
  PROVE  TInv'
  <1> DEFINE ts == m_currentTs[Public] + born[n].ts
  <1>0. /\ TypeOK /\ Clock /\ OldUids /\ Partitioned /\ ListsRight /\ MailRight
        /\ Ascending /\ Ahead /\ Current /\ Late /\ Known /\ CancelTakesEffect
    BY DEF TInv
  <1>1. /\ RemoveNext(n) /\ born[n].ts # 0
        /\ \/ born[n].system = Public /\ Insert(Public, n, ts)
           \/ Send(Public, born[n].system, n, ts)
        /\ pc' = pc /\ running' = running /\ born' = born /\ m_currentTs' = m_currentTs
        /\ m_currentUid' = m_currentUid /\ cancelled' = cancelled /\ removed' = removed
        /\ asked' = asked /\ invoked' = invoked
    BY DEF Transfer, outcome, clocks
  <1>2. /\ n \in events /\ n \in Initial /\ n \in Impl /\ n \in DOMAIN born
        /\ born[n] \in Record /\ born[n].ts \in Time /\ born[n].ts \in Nat
        /\ events' = events \ {n}
        /\ \A k \in events' : /\ k \in Nat /\ n \in Nat /\ born[k].ts \in Nat
                              /\ \/ born[n].ts < born[k].ts
                                 \/ born[n].ts = born[k].ts /\ n < k
    BY <1>1, RemoveNextLemma
  <1>3. ts = born[n].ts /\ born[n].system \in System /\ Public \in System
    BY <1>0, <1>2, ConstantsType DEF Clock, Record
  <1>4. n \notin Listed /\ n \notin Mailed /\ Kept
    BY <1>0, <1>1, <1>2 DEF Partitioned, Kept
  <1> HIDE DEF ts
  <1>5. ListsRight' /\ MailRight'
    <2>1. ts \in Time /\ born'[n].system = born[n].system /\ born'[n].ts = ts
      BY <1>1, <1>2, <1>3
    <2> QED BY <1>1, <1>2, <1>3, <1>4, <2>1, ListsRightLemma, MailRightLemma
  <1>6. /\ m_events' \in [System -> SUBSET Entry] /\ m_uid' \in [System -> Nat]
        /\ m_mailbox' \in [System -> [System -> SUBSET Mail]]
        /\ \/ Listed' = Listed \cup {n} /\ Mailed' = Mailed
           \/ Listed' = Listed /\ Mailed' = Mailed \cup {n}
    <2>1. ts \in Time
      BY <1>2, <1>3
    <2>2. /\ m_events \in [System -> SUBSET Entry] /\ m_uid \in [System -> Nat]
          /\ m_mailbox \in [System -> [System -> SUBSET Mail]]
      BY <1>0 DEF TypeOK, Entry, Mail
    <2>3. CASE Insert(Public, n, ts)
      <3>1. /\ m_events' \in [System -> SUBSET Entry] /\ m_uid' \in [System -> Nat]
            /\ m_mailbox' = m_mailbox /\ Listed' = Listed \cup {n}
        BY <1>2, <1>3, <2>1, <2>3, InsertLemma
      <3> QED BY <2>2, <3>1 DEF Mailed
    <2>4. CASE Send(Public, born[n].system, n, ts)
      <3>1. /\ m_mailbox' \in [System -> [System -> SUBSET Mail]]
            /\ m_events' = m_events /\ m_uid' = m_uid /\ Mailed' = Mailed \cup {n}
        BY <1>2, <1>3, <2>1, <2>4, SendLemma
      <3> QED BY <2>2, <3>1 DEF Listed
    <2> QED BY <1>1, <2>3, <2>4
  <1>7. TypeOK'
    BY <1>0, <1>1, <1>2, <1>6 DEF TypeOK, Entry, Mail
  <1>8. Clock' /\ OldUids' /\ Ascending' /\ Current' /\ Known' /\ CancelTakesEffect'
    BY <1>0, <1>1 DEF Clock, OldUids, Ascending, Current, Known, CancelTakesEffect
  <1>9. Past' = Past
    BY <1>1 DEF Past
  <1>10. Partitioned'
    BY <1>0, <1>1, <1>2, <1>6, <1>9 DEF Partitioned
  <1>11. Ahead'
    BY <1>0, <1>1, <1>2 DEF Ahead
  <1>12. Late'
    <2>1. \A k \in events' : born'[k].ts > 0
      BY <1>1, <1>2
    <2>2. born'[n].ts > 0
      BY <1>1, <1>2
    <2> QED BY <1>0, <1>1, <1>6, <2>1, <2>2 DEF Late
  <1> QED BY <1>5, <1>7, <1>8, <1>10, <1>11, <1>12 DEF TInv

\* A new event enters a list or a mailbox of its LP.
LEMMA NewEvent ==
  ASSUME TInv, New <= MaxEvents, NEW i \in System, NEW ts \in Time, NEW b \in Record,
         b.system = i, b.ts = ts, born' = Append(born, b),
         Insert(i, New, ts) \/ (running \in System /\ Send(running, i, New, ts)),
         UNCHANGED <<pc, running, events, clocks, outcome, invoked>>
  PROVE  TInv'
  <1> DEFINE n == New
  <1>0. /\ TypeOK /\ Clock /\ OldUids /\ Partitioned /\ ListsRight /\ MailRight
        /\ Ascending /\ Ahead /\ Current /\ Late /\ Known /\ CancelTakesEffect
    BY DEF TInv
  <1>1. /\ pc' = pc /\ running' = running /\ events' = events /\ m_currentTs' = m_currentTs
        /\ m_currentUid' = m_currentUid /\ cancelled' = cancelled /\ removed' = removed
        /\ asked' = asked /\ invoked' = invoked
    BY DEF clocks, outcome
  <1>2. /\ Len(born) \in Nat /\ InitialEvents <= Len(born) /\ Len(born) <= MaxEvents
        /\ DOMAIN born = 1 .. Len(born) /\ Initial \subseteq DOMAIN born
    BY <1>0, BornType
  <1>3. /\ born' \in Seq(Record) /\ Len(born') = Len(born) + 1
        /\ DOMAIN born' = 1 .. (Len(born) + 1)
        /\ born'[Len(born) + 1] = b
        /\ \A l \in DOMAIN born : l \in DOMAIN born' /\ born'[l] = born[l]
    <2>1. born \in Seq(Record)
      BY <1>0 DEF TypeOK, Record
    <2> QED BY <2>1, AppendLemma
  <1>4. /\ n = Len(born) + 1 /\ n \notin DOMAIN born /\ DOMAIN born' = DOMAIN born \cup {n}
        /\ n \in Impl /\ n \notin Initial
    BY <1>2, <1>3, ConstantsType DEF New, Impl, Initial
  <1> HIDE DEF n
  <1>5. born'[n] = b /\ Kept /\ n \notin Listed /\ n \notin Mailed /\ n \notin events
           /\ n \notin Past /\ n \notin removed
    BY <1>0, <1>3, <1>4 DEF Kept, Partitioned
  <1>6. Insert(i, n, ts) \/ (running \in System /\ Send(running, i, n, ts))
    BY DEF n
  <1>7. ListsRight' /\ MailRight'
    BY <1>4, <1>5, <1>6, ListsRightLemma, MailRightLemma
  <1>8. /\ m_events' \in [System -> SUBSET Entry] /\ m_uid' \in [System -> Nat]
        /\ m_mailbox' \in [System -> [System -> SUBSET Mail]]
        /\ \/ Listed' = Listed \cup {n} /\ Mailed' = Mailed
           \/ Listed' = Listed /\ Mailed' = Mailed \cup {n}
    <2>2. /\ m_events \in [System -> SUBSET Entry] /\ m_uid \in [System -> Nat]
          /\ m_mailbox \in [System -> [System -> SUBSET Mail]]
      BY <1>0 DEF TypeOK, Entry, Mail
    <2>3. CASE Insert(i, n, ts)
      <3>1. /\ m_events' \in [System -> SUBSET Entry] /\ m_uid' \in [System -> Nat]
            /\ m_mailbox' = m_mailbox /\ Listed' = Listed \cup {n}
        BY <1>4, <2>3, InsertLemma
      <3> QED BY <2>2, <3>1 DEF Mailed
    <2>4. CASE running \in System /\ Send(running, i, n, ts)
      <3>1. /\ m_mailbox' \in [System -> [System -> SUBSET Mail]]
            /\ m_events' = m_events /\ m_uid' = m_uid /\ Mailed' = Mailed \cup {n}
        BY <1>4, <2>4, SendLemma
      <3> QED BY <2>2, <3>1 DEF Listed
    <2> QED BY <1>6, <2>3, <2>4
  <1>9. TypeOK'
    <2>1. Len(born') \in InitialEvents .. MaxEvents
      BY <1>2, <1>3, ConstantsType DEF New
    <2> QED BY <1>0, <1>1, <1>3, <1>8, <2>1 DEF TypeOK, Entry, Mail, Record
  <1>10. Clock' /\ Ascending' /\ Current'
    BY <1>0, <1>1 DEF Clock, Ascending, Current
  <1>11. OldUids'
    BY <1>0, <1>2, <1>3 DEF OldUids
  <1>12. Past' = Past
    BY <1>1 DEF Past
  <1>13. Partitioned'
    BY <1>0, <1>1, <1>4, <1>5, <1>8, <1>12 DEF Partitioned
  <1>14. \A k \in events : born'[k] = born[k]
    BY <1>0, <1>2, <1>3 DEF TypeOK
  <1>15. Ahead'
    BY <1>0, <1>1, <1>14 DEF Ahead
  <1>16. Late'
    <2>1. \A k \in Initial : born'[k] = born[k] /\ k # n
      BY <1>2, <1>3, <1>4
    <2> QED BY <1>0, <1>1, <1>8, <1>14, <2>1 DEF Late
  <1>17. Known' /\ CancelTakesEffect'
    BY <1>0, <1>1, <1>3 DEF Known, CancelTakesEffect
  <1> QED BY <1>7, <1>9, <1>10, <1>11, <1>13, <1>15, <1>16, <1>17 DEF TInv

LEMMA ScheduleInv ==
  ASSUME TInv, Schedule \/ \E node \in Node : ScheduleWithContext(node)
  PROVE  TInv'
  <1>0. running \in System /\ Clock /\ m_uid \in [System -> Nat]
    BY DEF TInv, TypeOK
  <1>1. ASSUME NEW delay \in 0 .. MaxTime
        PROVE  m_currentTs[running] + delay = delay /\ delay \in Time
    BY <1>0, <1>1, ConstantsType DEF Clock, Time
  <1>2. CASE Schedule
    <2>1. PICK delay \in 0 .. MaxTime :
            LET ts == m_currentTs[running] + delay
            IN  /\ Insert(running, New, ts)
                /\ born' = Append(born, [ts |-> ts, system |-> running,
                                         uid |-> m_uid[running], held |-> TRUE])
      BY <1>2 DEF Schedule
    <2> DEFINE b == [ts |-> delay, system |-> running, uid |-> m_uid[running], held |-> TRUE]
    <2>2. Insert(running, New, delay) /\ born' = Append(born, b)
      BY <1>1, <2>1
    <2>3. b \in Record /\ b.system = running /\ b.ts = delay
      BY <1>0, <1>1 DEF Record
    <2> HIDE DEF b
    <2> QED BY <1>0, <1>1, <1>2, <2>2, <2>3, NewEvent DEF Schedule
  <1>3. ASSUME NEW node \in Node, ScheduleWithContext(node)
        PROVE  TInv'
    <2> DEFINE remote == SystemOf(node)
    <2>1. PICK delay \in 0 .. MaxTime :
            LET ts == m_currentTs[running] + delay
            IN  /\ IF remote = running
                   THEN Insert(running, New, ts)
                   ELSE Send(running, remote, New, ts)
                /\ born' = Append(born, [ts |-> ts, system |-> remote, uid |-> 0,
                                         held |-> FALSE])
      BY <1>3 DEF ScheduleWithContext
    <2> DEFINE b == [ts |-> delay, system |-> remote, uid |-> 0, held |-> FALSE]
    <2>2. born' = Append(born, b)
      BY <1>1, <2>1
    <2>3. Insert(remote, New, delay) \/ Send(running, remote, New, delay)
      BY <1>1, <2>1
    <2>4. remote \in System
      BY SystemOfType DEF Context
    <2> HIDE DEF remote
    <2>5. b \in Record /\ b.system = remote /\ b.ts = delay
      BY <1>1, <2>4 DEF Record
    <2> HIDE DEF b
    <2>6. UNCHANGED <<pc, running, events, clocks, outcome, invoked>> /\ New <= MaxEvents
      BY <1>3 DEF ScheduleWithContext
    <2> QED BY <1>0, <1>1, <2>2, <2>3, <2>4, <2>5, <2>6, NewEvent
  <1> QED BY <1>2, <1>3

\* An event of main() that is still to run at time zero has a larger uid than
\* every event that was invoked, so that IsExpired cannot take it for one of them.
LEMMA CancelInv ==
  ASSUME TInv, NEW n, Cancel(n)
  PROVE  TInv'
  <1>0. /\ TypeOK /\ Clock /\ OldUids /\ Partitioned /\ ListsRight /\ MailRight
        /\ Ascending /\ Ahead /\ Current /\ Late /\ Known /\ CancelTakesEffect
    BY DEF TInv
  <1>1. /\ asked' = asked \cup ({n} \cap Pending)
        /\ cancelled' = IF IsExpired(n) THEN cancelled ELSE cancelled \cup {n}
        /\ n \in DOMAIN born /\ born[n].system = running
        /\ pc' = pc /\ running' = running /\ born' = born /\ events' = events
        /\ m_events' = m_events /\ m_mailbox' = m_mailbox /\ m_uid' = m_uid
        /\ m_currentTs' = m_currentTs /\ m_currentUid' = m_currentUid
        /\ removed' = removed /\ invoked' = invoked
    BY DEF Cancel, Held, lists, clocks
  <1>2. n \in Impl /\ born[n] \in Record /\ n \in Nat
    BY <1>0, <1>1, BornType
  <1>3. ASSUME n \in Pending, IsExpired(n), n \notin cancelled
        PROVE  n > InitialEvents /\ born[n].ts = 0
    <2>1. running \in System /\ m_currentTs[running] = 0 /\ born[n].ts \in Nat
      BY <1>0, <1>2, ConstantsType DEF TypeOK, Clock, Record, Time
    <2>2. born[n].ts = 0 /\ born[n].uid <= m_currentUid[running]
      BY <1>3, <2>1 DEF IsExpired
    <2>3. ASSUME n \in Initial PROVE FALSE
      <3>1. n \notin Past /\ n \notin removed
        BY <1>3 DEF Pending, Past, Range
      <3>2. n \notin Listed \cup Mailed
        BY <1>0, <2>2, <2>3 DEF Late
      <3>3. n \in events
        BY <1>0, <1>1, <3>1, <3>2 DEF Partitioned
      <3>4. born[n].uid = VALID + n - 1
        BY <1>0, <2>3 DEF OldUids
      <3>5. m_currentUid[running] # 0
        BY <1>2, <2>2, <3>4, <2>3, ConstantsType DEF Initial
      <3>6. PICK l \in DOMAIN invoked : m_currentUid[running] = VALID + invoked[l] - 1
        BY <1>0, <2>1, <3>5 DEF Current
      <3>7. invoked[l] \in Nat
        <4>1. invoked \in Seq(Impl)
          BY <1>0 DEF TypeOK
        <4>2. invoked[l] \in Impl
          BY <3>6, <4>1, LenProperties, ElementOfSeq
        <4> QED BY <4>2 DEF Impl
      <3>8. invoked[l] < n
        BY <1>0, <2>2, <3>3 DEF Ahead
      <3> QED BY <1>2, <2>2, <3>4, <3>6, <3>7, <3>8, ConstantsType
    <2> QED BY <1>2, <2>2, <2>3, ConstantsType DEF Initial, Impl
  <1>4. Known' /\ CancelTakesEffect'
    BY <1>0, <1>1, <1>3 DEF Known, CancelTakesEffect
  <1>5. TypeOK'
    BY <1>0, <1>1, <1>2 DEF TypeOK
  <1>6. Past' = Past /\ Listed' = Listed /\ Mailed' = Mailed
    BY <1>1 DEF Past, Listed, Mailed
  <1>7. Clock' /\ OldUids' /\ Partitioned' /\ ListsRight' /\ MailRight'
    BY <1>0, <1>1, <1>6 DEF Clock, OldUids, Partitioned, ListsRight, MailRight
  <1>8. Ascending' /\ Ahead' /\ Current' /\ Late'
    BY <1>0, <1>1, <1>6 DEF Ascending, Ahead, Current, Late
  <1> QED BY <1>4, <1>5, <1>7, <1>8 DEF TInv

LEMMA RemoveInv ==
  ASSUME TInv, NEW n \in Impl, Remove(n)
  PROVE  TInv'
  <1>0. /\ TypeOK /\ Clock /\ OldUids /\ Partitioned /\ ListsRight /\ MailRight
        /\ Ascending /\ Ahead /\ Current /\ Late /\ Known /\ CancelTakesEffect
    BY DEF TInv
  <1>1. /\ n \in DOMAIN born /\ running' = running /\ born' = born /\ events' = events
        /\ m_mailbox' = m_mailbox /\ m_uid' = m_uid /\ m_currentTs' = m_currentTs
        /\ m_currentUid' = m_currentUid /\ asked' = asked /\ invoked' = invoked
    BY DEF Remove, Held, clocks
  <1>2. Past' = Past /\ Mailed' = Mailed
    BY <1>1 DEF Past, Mailed
  <1>3. Clock' /\ OldUids' /\ MailRight' /\ Ascending' /\ Ahead' /\ Current' /\ Known'
    BY <1>0, <1>1 DEF Clock, OldUids, MailRight, Ascending, Ahead, Current, Known
  <1>4. CASE m_events' = m_events /\ cancelled' = cancelled /\ removed' = removed
               /\ pc' \in {pc, "failed"}
    <2>1. Listed' = Listed
      BY <1>4 DEF Listed
    <2>2. TypeOK' /\ ListsRight' /\ Late' /\ CancelTakesEffect'
      BY <1>0, <1>1, <1>2, <1>4, <2>1 DEF TypeOK, ListsRight, Late, CancelTakesEffect
    <2>3. Partitioned'
      BY <1>0, <1>1, <1>2, <1>4, <2>1 DEF Partitioned
    <2> QED BY <1>3, <2>2, <2>3 DEF TInv
  <1>5. ASSUME NEW ev \in Found(n), ev.impl = n,
               m_events' = [m_events EXCEPT ![running] = @ \ {ev}],
               cancelled' = cancelled \cup {n}, removed' = removed \cup {n}, pc' = pc
        PROVE  TInv'
    <2>1. running \in System /\ m_events \in [System -> SUBSET Entry]
            /\ ev \in m_events[running]
      BY <1>0, <1>5 DEF TypeOK, Found, Entry
    <2>2. /\ m_events' \in [System -> SUBSET Entry]
          /\ \A k \in System : m_events'[k] \subseteq m_events[k]
          /\ m_events'[running] = m_events[running] \ {ev}
          /\ \A k \in System \ {running} : m_events'[k] = m_events[k]
      BY <1>5, <2>1
    <2>3. n \in Listed /\ born[n].system = running
      BY <1>0, <1>5, <2>1 DEF Listed, ListsRight
    <2>4. \A k \in System : \A f \in m_events[k] : f.impl = n => k = running /\ f = ev
      BY <1>0, <1>5, <2>1, <2>3 DEF ListsRight
    <2>5. Listed' = Listed \ {n}
      BY <2>1, <2>2, <2>4, <1>5 DEF Listed
    <2>6. TypeOK'
      BY <1>0, <1>1, <1>5, <2>2 DEF TypeOK, Entry
    <2>7. ListsRight' /\ CancelTakesEffect'
      BY <1>0, <1>1, <1>5, <2>2 DEF ListsRight, CancelTakesEffect
    <2>8. Late'
      BY <1>0, <1>1, <1>2, <2>5 DEF Late
    <2>9. Partitioned'
      BY <1>0, <1>1, <1>2, <1>5, <2>3, <2>5 DEF Partitioned
    <2> QED BY <1>3, <2>6, <2>7, <2>8, <2>9 DEF TInv
  <1> QED BY <1>4, <1>5 DEF Remove

\* The steps that move no event.
LEMMA OtherInv ==
  ASSUME TInv, UNCHANGED <<born, lists, clocks, outcome, invoked>>, running' \in System,
         pc' \in {"transfer", "invoke", "failed", "done"}
  PROVE  TInv'
  <1>0. /\ TypeOK /\ Clock /\ OldUids /\ Partitioned /\ ListsRight /\ MailRight
        /\ Ascending /\ Ahead /\ Current /\ Late /\ Known /\ CancelTakesEffect
    BY DEF TInv
  <1>1. /\ born' = born /\ events' = events /\ m_events' = m_events /\ m_mailbox' = m_mailbox
        /\ m_uid' = m_uid /\ m_currentTs' = m_currentTs /\ m_currentUid' = m_currentUid
        /\ cancelled' = cancelled /\ removed' = removed /\ asked' = asked /\ invoked' = invoked
    BY DEF lists, clocks, outcome
  <1>2. Past' = Past /\ Listed' = Listed /\ Mailed' = Mailed
    BY <1>1 DEF Past, Listed, Mailed
  <1>3. TypeOK' /\ Clock' /\ OldUids' /\ Partitioned'
    BY <1>0, <1>1, <1>2 DEF TypeOK, Clock, OldUids, Partitioned
  <1>4. ListsRight' /\ MailRight' /\ Ascending' /\ Ahead'
    BY <1>0, <1>1 DEF ListsRight, MailRight, Ascending, Ahead
  <1>5. Current' /\ Late' /\ Known' /\ CancelTakesEffect'
    BY <1>0, <1>1, <1>2 DEF Current, Late, Known, CancelTakesEffect
  <1> QED BY <1>3, <1>4, <1>5 DEF TInv

LEMMA NextTransfer == TInv /\ [Next]_vars => TInv'
  <1> SUFFICES ASSUME TInv, [Next]_vars PROVE TInv'
    OBVIOUS
  <1>1. ASSUME NEW n \in Impl, InvokeNow(n) \/ Transfer(n) \/ Cancel(n) \/ Remove(n)
        PROVE  TInv'
    BY <1>1, InvokeNowInv, TransferInv, CancelInv, RemoveInv
  <1>2. CASE Schedule \/ \E node \in Node : ScheduleWithContext(node)
    BY <1>2, ScheduleInv
  <1>3. running \in System /\ pc \in {"transfer", "invoke", "failed", "done"}
    BY DEF TInv, TypeOK
  <1>4. CASE Return
    BY <1>4, OtherInv, ConstantsType DEF Return
  <1>5. CASE Done
    BY <1>3, <1>5, OtherInv DEF Done
  <1>6. CASE UNCHANGED vars
    BY <1>3, <1>6, OtherInv DEF vars
  <1> QED BY <1>1, <1>2, <1>4, <1>5, <1>6 DEF Next, Ended

-----------------------------------------------------------------------------
(* Results *)

\* One place, one copy.
LEMMA OneCopy ==
  ASSUME TInv, NEW n \in DOMAIN born
  PROVE  \E c : /\ Copies(n) = {c} /\ c[2] = born[n].system
                /\ c[1] \in {"list", "mail"} => c[3].ts = born[n].ts
  <1> DEFINE s == born[n].system
             A == {<<"old", s>> : k \in events \cap {n}}
             B == {<<"past", s, k>> : k \in {l \in DOMAIN invoked : invoked[l] = n}}
             C == {<<"removed", s>> : k \in removed \cap {n}}
             D == UNION {{<<"list", i, ev>> : ev \in {e \in m_events[i] : e.impl = n}} :
                           i \in System}
             E == UNION {UNION {{<<"mail", i, m>> :
                                   m \in {e \in m_mailbox[i][j] : e.impl = n}} :
                                  j \in System} : i \in System}
  <1>0. TypeOK /\ Partitioned /\ ListsRight /\ MailRight /\ Ascending
    BY DEF TInv
  <1>1. Copies(n) = A \cup B \cup C \cup D \cup E
    <2>1. ASSUME NEW c PROVE c \in Copies(n) <=> c \in A \cup B \cup C \cup D \cup E
      BY DEF Copies
    <2> HIDE DEF A, B, C, D, E
    <2> QED BY <2>1
  <1>2. n \in Impl
    BY <1>0, BornType
  <1>3. n \notin events => A = {}
    OBVIOUS
  <1>4. n \notin Past => B = {}
    BY <1>2 DEF Past
  <1>5. n \notin removed => C = {}
    OBVIOUS
  <1>6. n \notin Listed => D = {}
    BY <1>2 DEF Listed
  <1>7. n \notin Mailed => E = {}
    BY <1>2 DEF Mailed
  <1>8. CASE n \in events
    <2> DEFINE c == <<"old", s>>
    <2>1. A = {c}
      BY <1>8
    <2>2. B = {} /\ C = {} /\ D = {} /\ E = {}
      BY <1>0, <1>4, <1>5, <1>6, <1>7, <1>8 DEF Partitioned
    <2>3. Copies(n) = {c}
      BY <1>1, <2>1, <2>2
    <2>4. c[1] = "old" /\ c[2] = s
      OBVIOUS
    <2> QED BY <2>3, <2>4
  <1>9. CASE n \in Past
    <2>1. PICK l \in DOMAIN invoked : invoked[l] = n
      BY <1>9 DEF Past
    <2>2. ASSUME NEW k \in DOMAIN invoked, invoked[k] = n PROVE k = l
      <3>1. invoked \in Seq(Impl) /\ n \in Nat
        BY <1>0, <1>2 DEF TypeOK, Impl
      <3>2. k \in Int /\ l \in Int
        BY <2>1, <2>2, <3>1, LenProperties
      <3> QED BY <1>0, <2>1, <2>2, <3>1, <3>2 DEF Ascending
    <2> DEFINE c == <<"past", s, l>>
    <2>3. B = {c}
      BY <2>1, <2>2
    <2>4. A = {} /\ C = {} /\ D = {} /\ E = {}
      BY <1>0, <1>3, <1>5, <1>6, <1>7, <1>9 DEF Partitioned
    <2>5. Copies(n) = {c}
      BY <1>1, <2>3, <2>4
    <2>6. c[1] = "past" /\ c[2] = s
      OBVIOUS
    <2> QED BY <2>5, <2>6
  <1>10. CASE n \in removed
    <2> DEFINE c == <<"removed", s>>
    <2>1. C = {c}
      BY <1>10
    <2>2. A = {} /\ B = {} /\ D = {} /\ E = {}
      BY <1>0, <1>3, <1>4, <1>6, <1>7, <1>10 DEF Partitioned
    <2>3. Copies(n) = {c}
      BY <1>1, <2>1, <2>2
    <2>4. c[1] = "removed" /\ c[2] = s
      OBVIOUS
    <2> QED BY <2>3, <2>4
  <1>11. CASE n \in Listed
    <2>0. PICK i \in System : \E ev \in m_events[i] : ev.impl = n
      BY <1>11 DEF Listed
    <2>1. PICK ev \in m_events[i] : ev.impl = n
      BY <2>0
    <2>2. i = s /\ ev.ts = born[n].ts
      BY <1>0, <2>1 DEF ListsRight
    <2>3. \A j \in System : \A f \in m_events[j] : f.impl = n => j = i /\ f = ev
      BY <1>0, <2>1, <2>2 DEF ListsRight
    <2> DEFINE c == <<"list", s, ev>>
    <2>4. D = {c}
      BY <2>1, <2>2, <2>3
    <2>5. A = {} /\ B = {} /\ C = {} /\ E = {}
      BY <1>0, <1>3, <1>4, <1>5, <1>7, <1>11 DEF Partitioned
    <2>6. Copies(n) = {c}
      BY <1>1, <2>4, <2>5
    <2>7. c[2] = s /\ c[3] = ev
      OBVIOUS
    <2> QED BY <2>2, <2>6, <2>7
  <1>12. CASE n \in Mailed
    <2>0. PICK i \in System, j \in System : \E m \in m_mailbox[i][j] : m.impl = n
      BY <1>12 DEF Mailed
    <2>1. PICK m \in m_mailbox[i][j] : m.impl = n
      BY <2>0
    <2>2. i = s /\ m.ts = born[n].ts
      BY <1>0, <2>1 DEF MailRight
    <2>3. \A k, l \in System : \A f \in m_mailbox[k][l] : f.impl = n => k = i /\ f = m
      BY <1>0, <2>1, <2>2 DEF MailRight
    <2> DEFINE c == <<"mail", s, m>>
    <2>4. E = {c}
      BY <2>1, <2>2, <2>3
    <2>5. A = {} /\ B = {} /\ C = {} /\ D = {}
      BY <1>0, <1>3, <1>4, <1>5, <1>6, <1>12 DEF Partitioned
    <2>6. Copies(n) = {c}
      BY <1>1, <2>4, <2>5
    <2>7. c[2] = s /\ c[3] = m
      OBVIOUS
    <2> QED BY <2>2, <2>6, <2>7
  <1> QED BY <1>0, <1>8, <1>9, <1>10, <1>11, <1>12 DEF Partitioned

\* The invariant of the transfer holds for any number of LPs, nodes and events.
THEOREM Invariance == Spec => []TInv
  BY InitTransfer, NextTransfer, PTL DEF Spec

\* Replacing the LP under the events of main() (the end of Partition) loses none of
\* them, runs none twice, and leaves each with the LP of its node at its time,
\* whatever the time-zero events schedule, cancel and remove.
THEOREM NothingLost == Spec => []Conserved
  <1>1. TInv => Conserved
    <2> SUFFICES ASSUME TInv PROVE Conserved
      OBVIOUS
    <2>1. ASSUME NEW n \in DOMAIN born
          PROVE  /\ Cardinality(Copies(n)) = 1
                 /\ \A c \in Copies(n) :
                      /\ c[2] = born[n].system
                      /\ c[1] \in {"list", "mail"} => c[3].ts = born[n].ts
      <3>1. PICK c : /\ Copies(n) = {c} /\ c[2] = born[n].system
                     /\ c[1] \in {"list", "mail"} => c[3].ts = born[n].ts
        BY OneCopy
      <3> QED BY <3>1, FS_Singleton
    <2> QED BY <2>1 DEF Conserved, TInv
  <1> QED BY <1>1, Invariance, PTL

\* The events of time zero are all invoked, in the order in which main() scheduled
\* them, before a later event gets its new uid.
THEOREM InOrder == Spec => []InitializationOrder
  <1>1. TInv => InitializationOrder
    <2> SUFFICES ASSUME TInv PROVE InitializationOrder
      OBVIOUS
    <2>1. Ascending /\ Late /\ Initial \subseteq Impl /\ Public \in System
      BY ConstantsType DEF TInv
    <2>2. ASSUME NEW i \in System, NEW ev \in m_events[i], ev.impl \in Initial
          PROVE  \A n \in events : born[n].ts > 0
      BY <2>1, <2>2 DEF Late, Listed
    <2>3. ASSUME NEW i \in System, NEW m \in m_mailbox[i][Public], m.impl \in Initial
          PROVE  \A n \in events : born[n].ts > 0
      BY <2>1, <2>3 DEF Late, Mailed
    <2> QED BY <2>1, <2>2, <2>3 DEF InitializationOrder, Ascending
  <1> QED BY <1>1, Invariance, PTL

\* Cancel takes effect on every event still to run but those that time-zero events
\* schedule for time zero: IsExpired never takes an event of main() that has yet to
\* run for an expired one.
THEOREM CancelEffective == Spec => []CancelTakesEffect
  <1>1. TInv => CancelTakesEffect
    BY DEF TInv
  <1> QED BY <1>1, Invariance, PTL

=============================================================================

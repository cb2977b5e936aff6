------------------------ MODULE TcpConnectionProofs -------------------------
(***************************************************************************)
(* Set-up and tear-down of a TCP connection for any number of retries and  *)
(* any number of segments on the network.  Every handler is a function on  *)
(* sockets, so each gets a lemma that says what it makes of a socket; the  *)
(* invariants of the two nodes and of the network follow event by event.   *)
(***************************************************************************)
EXTENDS TcpConnection, FiniteSetTheorems, TLAPS

\* A socket during an event, with the segments that it has handed down.
Working ==
    [st : States, endPoint : BOOLEAN, synCount : 0 .. SynRetries,
     dataRetrCount : 0 .. DataRetries, nextTx : Nat, highTx : Nat, head : Nat,
     nextRx : Nat, finSeq : Nat \cup {NoFin}, retx : RetxEvents, lastAck : BOOLEAN,
     closeNotified : BOOLEAN, shutdownSend : BOOLEAN, forked : BOOLEAN,
     told : SUBSET Notices, out : SUBSET Segments]

\* The sequence numbers of two sockets agree.
SameSeq(r, s) ==
    /\ r.nextTx = s.nextTx /\ r.highTx = s.highTx /\ r.head = s.head
    /\ r.nextRx = s.nextRx /\ r.finSeq = s.finSeq

Handshake == {"SYN_SENT", "SYN_RCVD"}

\* What holds of the timers and notices of a socket when an event is over: the
\* repetition that a waiting socket needs is scheduled, and a released socket has
\* no timer and was notified.
Sound(s) ==
    /\ s.endPoint /\ s.st \in Awaiting => s.retx # "none"
    /\ ~ s.endPoint => s.retx = "none" /\ ~ s.lastAck /\ s.told # {}
    /\ s.retx = "ReTxTimeout" => s.st \in {"FIN_WAIT_1", "FIN_WAIT_2", "CLOSING"}
    /\ s.st \in Handshake => s.finSeq = NoFin
    /\ s.closeNotified => "normal" \in s.told

\* The socket has been released.
Gone(r) == ~ r.endPoint /\ r.retx = "none" /\ ~ r.lastAck /\ r.told # {}

\* What holds of the sequence numbers between events, unless an application closes
\* during the handshake.
Numbered(s) ==
    /\ s.st \in Handshake => s.nextTx = 0
    /\ s.st = "ESTABLISHED" => s.nextTx = 1 /\ s.head = 1 /\ s.highTx = 1
    /\ s.st \notin Handshake \cup {"CLOSED"} => s.nextTx >= 1 /\ s.highTx >= 1
    /\ s.retx \in {"SYN", "SYN_ACK"} => s.st \in Handshake
    /\ s.retx = "FIN_ACK" => s.st \notin Handshake \cup {"CLOSED"}
    /\ s.finSeq = NoFin \/ s.finSeq >= 1
    /\ s.st = "CLOSING" => Finished(s)

\* The numbers a segment may have.
Legal(m) == /\ m.flag \in {"SYN", "SYN_ACK"} => m.seq = 0
            /\ m.flag = "FIN_ACK" => m.seq >= 1

\* What a socket hands down acknowledges what it has received, and an ACK beyond
\* its own FIN is sent only once the peer's FIN is in order.
Sent(r) ==
    \A m \in r.out : /\ Legal(m) /\ m.ack = r.nextRx
                     /\ m.flag = "ACK" /\ m.seq >= 2 => Finished(r)

\* The event in which r accepts the FIN m.
Took(m, r) == m.flag = "FIN_ACK" /\ r.finSeq = m.seq /\ Finished(r)

LEMMA RetriesType == SynRetries \in Nat /\ SynRetries > 0 /\ DataRetries \in Nat
  BY RetriesAssumption

LEMMA NoFinType == NoFin \in Int /\ NoFin \notin Nat
  BY DEF NoFin

LEMMA SegmentType ==
  ASSUME NEW s \in Working, NEW f \in Flags
  PROVE  Segment(s, f) \in Segments
  BY DEF Working, Segment, Segments

LEMMA DeallocateLemma ==
  ASSUME NEW s \in Working
  PROVE  LET r == DeallocateEndPoint(s)
         IN  /\ r \in Working /\ ~ r.endPoint
             /\ r.st = s.st /\ r.told = s.told /\ r.out = s.out /\ SameSeq(r, s)
             /\ r.closeNotified = s.closeNotified
             /\ s.endPoint => r.retx = "none" /\ ~ r.lastAck
             /\ ~ s.endPoint => r = s
  <1> DEFINE r == DeallocateEndPoint(s)
  <1>1. CASE s.endPoint
    <2>1. r = [s EXCEPT !.endPoint = FALSE, !.retx = "none", !.lastAck = FALSE]
      BY <1>1 DEF DeallocateEndPoint
    <2>2. "none" \in RetxEvents
      BY DEF RetxEvents
    <2> HIDE DEF r
    <2>3. r \in Working
      BY Zenon, <2>1, <2>2 DEF Working
    <2>4. /\ r.endPoint = FALSE /\ r.st = s.st /\ r.told = s.told /\ r.out = s.out
          /\ r.closeNotified = s.closeNotified /\ r.retx = "none" /\ r.lastAck = FALSE
      BY <2>1 DEF Working
    <2>5. SameSeq(r, s)
      BY <2>1 DEF Working, SameSeq
    <2> QED BY <1>1, <2>3, <2>4, <2>5 DEF r
  <1>2. CASE ~ s.endPoint
    BY <1>2 DEF DeallocateEndPoint, SameSeq
  <1> QED BY <1>1, <1>2

\* A segment is sent, and repeated if it is a SYN or a FIN, unless the attempts
\* are used up.
LEMMA SendLemma ==
  ASSUME NEW s \in Working, s.endPoint, NEW f \in Flags
  PROVE  LET r == SendEmptyPacket(s, f)
         IN  /\ r \in Working /\ SameSeq(r, s) /\ r.closeNotified = s.closeNotified
             /\ \/ /\ r.endPoint /\ r.st = s.st /\ r.told = s.told /\ r.lastAck = s.lastAck
                   /\ r.retx = IF s.retx = "none" /\ f \in RetxEvents THEN f ELSE s.retx
                   /\ r.out = s.out \cup {Segment(s, f)}
                   /\ r.shutdownSend = s.shutdownSend
                \/ /\ f \in {"SYN", "SYN_ACK"} /\ s.synCount = 0
                   /\ Gone(r) /\ r.st = "CLOSED" /\ r.out = s.out /\ s.told \subseteq r.told
  <1> DEFINE r == SendEmptyPacket(s, f)
  <1>1. CASE f \in {"SYN", "SYN_ACK"} /\ s.synCount = 0
    <2> DEFINE q == [s EXCEPT !.st = "CLOSED", !.told = s.told \cup {"failed"}]
    <2>1. r = DeallocateEndPoint(q)
      BY <1>1 DEF SendEmptyPacket
    <2>2. "CLOSED" \in States /\ s.told \cup {"failed"} \in SUBSET Notices
      BY DEF States, Notices, Working
    <2>3. q \in Working
      BY Zenon, <2>2 DEF Working
    <2>4. /\ q.endPoint = s.endPoint /\ q.st = "CLOSED" /\ q.told = s.told \cup {"failed"}
          /\ q.closeNotified = s.closeNotified /\ q.out = s.out
      BY DEF Working
    <2>5. SameSeq(q, s)
      BY DEF Working, SameSeq
    <2> HIDE DEF q, r
    <2>6. /\ r \in Working /\ ~ r.endPoint /\ r.st = q.st /\ r.told = q.told /\ r.out = q.out
          /\ SameSeq(r, q) /\ r.closeNotified = q.closeNotified
          /\ r.retx = "none" /\ ~ r.lastAck
      BY <2>1, <2>3, <2>4, DeallocateLemma
    <2> QED BY <1>1, <2>4, <2>5, <2>6 DEF r, Gone, SameSeq
  <1>2. CASE ~ (f \in {"SYN", "SYN_ACK"} /\ s.synCount = 0)
    <2> DEFINE c == IF f \in {"SYN", "SYN_ACK"} THEN s.synCount - 1 ELSE s.synCount
               x == IF s.retx = "none" /\ f \in RetxEvents THEN f ELSE s.retx
               o == s.out \cup {Segment(s, f)}
    <2>1. r = [s EXCEPT !.synCount = c, !.retx = x, !.out = o]
      BY <1>2 DEF SendEmptyPacket
    <2>2. c \in 0 .. SynRetries
      BY <1>2, RetriesType DEF Working
    <2>3. x \in RetxEvents
      BY DEF Working
    <2>4. o \in SUBSET Segments
      BY SegmentType DEF Working
    <2> HIDE DEF c, x, o, r
    <2>5. r \in Working
      BY Zenon, <2>1, <2>2, <2>3, <2>4 DEF Working
    <2>6. /\ r.endPoint = s.endPoint /\ r.st = s.st /\ r.told = s.told /\ r.lastAck = s.lastAck
          /\ r.retx = x /\ r.out = o /\ r.closeNotified = s.closeNotified
          /\ r.shutdownSend = s.shutdownSend
      BY <2>1 DEF Working
    <2>7. SameSeq(r, s)
      BY <2>1 DEF Working, SameSeq
    <2> QED BY <2>5, <2>6, <2>7 DEF r, x, o
  <1> QED BY <1>1, <1>2

\* Sending while the timer already runs leaves the timer alone.
LEMMA ResendLemma ==
  ASSUME NEW s \in Working, s.endPoint, s.retx # "none", NEW f \in Flags
  PROVE  LET r == SendEmptyPacket(s, f)
         IN  /\ r \in Working /\ SameSeq(r, s) /\ r.closeNotified = s.closeNotified
             /\ \/ r.st = s.st /\ r.told = s.told /\ r.retx = s.retx /\ r.endPoint
                \/ Gone(r) /\ r.st = "CLOSED" /\ s.told \subseteq r.told
  <1> DEFINE r == SendEmptyPacket(s, f)
  <1>1. /\ r \in Working /\ SameSeq(r, s) /\ r.closeNotified = s.closeNotified
        /\ \/ /\ r.endPoint /\ r.st = s.st /\ r.told = s.told
              /\ r.retx = IF s.retx = "none" /\ f \in RetxEvents THEN f ELSE s.retx
           \/ Gone(r) /\ r.st = "CLOSED" /\ s.told \subseteq r.told
    BY SendLemma
  <1> HIDE DEF r
  <1> QED BY <1>1 DEF r

\* The numbers of a segment that is sent.
LEMMA SentLemma ==
  ASSUME NEW s \in Working, s.endPoint, NEW f \in Flags, Sent(s),
         f \in {"SYN", "SYN_ACK"} => s.nextTx = 0 /\ s.st \in Handshake \cup {"CLOSED"},
         f = "FIN_ACK" => s.nextTx >= 1,
         f = "ACK" => Finished(s) \/ (s.nextTx <= 1 /\ s.st = "ESTABLISHED")
  PROVE  Sent(SendEmptyPacket(s, f))
  <1> DEFINE r == SendEmptyPacket(s, f)
             m == Segment(s, f)
  <1>1. r \in Working /\ SameSeq(r, s) /\ (r.out = s.out \/ r.out = s.out \cup {m})
    BY SendLemma
  <1>2. Finished(r) <=> Finished(s)
    BY <1>1 DEF SameSeq, Finished
  <1>3. s.nextTx \in Nat
    BY DEF Working
  <1>4. /\ Legal(m) /\ m.ack = s.nextRx
        /\ m.flag = "ACK" /\ m.seq >= 2 => Finished(s)
    BY <1>3 DEF Segment, Legal, Handshake
  <1> HIDE DEF r, m
  <1>5. r.nextRx = s.nextRx
    BY <1>1 DEF SameSeq
  <1> QED BY <1>1, <1>2, <1>4, <1>5 DEF Sent, r

LEMMA NotifyLemma ==
  ASSUME NEW s \in Working, s.closeNotified => "normal" \in s.told
  PROVE  LET r == NotifyClose(s)
         IN  /\ r \in Working /\ SameSeq(r, s) /\ "normal" \in r.told
             /\ r.endPoint = s.endPoint /\ r.st = s.st /\ r.retx = s.retx
             /\ r.lastAck = s.lastAck /\ r.out = s.out /\ r.shutdownSend = s.shutdownSend
  <1> DEFINE r == NotifyClose(s)
  <1>1. CASE s.closeNotified
    BY <1>1 DEF NotifyClose, SameSeq
  <1>2. CASE ~ s.closeNotified
    <2>1. r = [s EXCEPT !.closeNotified = TRUE, !.told = s.told \cup {"normal"}]
      BY <1>2 DEF NotifyClose
    <2>2. s.told \cup {"normal"} \in SUBSET Notices
      BY DEF Working, Notices
    <2> HIDE DEF r
    <2>3. r \in Working
      BY Zenon, <2>1, <2>2 DEF Working
    <2>4. /\ r.endPoint = s.endPoint /\ r.st = s.st /\ r.retx = s.retx
          /\ r.lastAck = s.lastAck /\ r.out = s.out /\ r.shutdownSend = s.shutdownSend
          /\ r.told = s.told \cup {"normal"}
      BY <2>1 DEF Working
    <2>5. SameSeq(r, s)
      BY <2>1 DEF Working, SameSeq
    <2> QED BY <2>3, <2>4, <2>5 DEF r
  <1> QED BY <1>1, <1>2

LEMMA CloseAndNotifyLemma ==
  ASSUME NEW s \in Working, s.closeNotified => "normal" \in s.told,
         s.endPoint \/ s.retx = "none"
  PROVE  LET r == CloseAndNotify(s)
         IN  /\ r \in Working /\ SameSeq(r, s) /\ Gone(r) /\ r.st = "CLOSED"
             /\ r.out = s.out /\ "normal" \in r.told
  <1> DEFINE q == NotifyClose(s)
             c == [q EXCEPT !.st = "CLOSED", !.lastAck = FALSE]
             r == CloseAndNotify(s)
  <1>1. /\ q \in Working /\ SameSeq(q, s) /\ "normal" \in q.told
        /\ q.endPoint = s.endPoint /\ q.retx = s.retx /\ q.out = s.out
    BY NotifyLemma
  <1> HIDE DEF q
  <1>2. c \in Working
    <2>1. "CLOSED" \in States
      BY DEF States
    <2> QED BY Zenon, <1>1, <2>1 DEF Working
  <1>3. /\ c.st = "CLOSED" /\ c.lastAck = FALSE /\ c.told = q.told /\ c.endPoint = q.endPoint
        /\ c.retx = q.retx /\ c.out = q.out
    BY <1>1 DEF Working
  <1>4. SameSeq(c, q)
    BY <1>1 DEF Working, SameSeq
  <1>5. r = DeallocateEndPoint(c)
    BY DEF CloseAndNotify, q
  <1> HIDE DEF c, r
  <1>6. /\ r \in Working /\ ~ r.endPoint /\ r.st = c.st /\ r.told = c.told /\ r.out = c.out
        /\ SameSeq(r, c)
        /\ c.endPoint => r.retx = "none" /\ ~ r.lastAck
        /\ ~ c.endPoint => r = c
    BY <1>2, <1>5, DeallocateLemma
  <1>7. r.retx = "none" /\ ~ r.lastAck
    BY <1>1, <1>3, <1>6
  <1> QED BY <1>1, <1>3, <1>4, <1>6, <1>7 DEF r, Gone, SameSeq

LEMMA SendRSTLemma ==
  ASSUME NEW s \in Working, s.endPoint
  PROVE  LET r == SendRST(s)
         IN  /\ r \in Working /\ SameSeq(r, s) /\ Gone(r)
             /\ r.out = s.out \cup {Segment(s, "RST")}
             /\ r.closeNotified = s.closeNotified /\ s.told \subseteq r.told
  <1> DEFINE q == SendEmptyPacket(s, "RST")
             c == [q EXCEPT !.told = q.told \cup {"error"}]
             r == SendRST(s)
  <1>0. "RST" \in Flags /\ "RST" \notin {"SYN", "SYN_ACK"}
    BY DEF Flags
  <1>1. /\ q \in Working /\ SameSeq(q, s) /\ q.closeNotified = s.closeNotified
        /\ q.endPoint /\ q.told = s.told /\ q.out = s.out \cup {Segment(s, "RST")}
    BY <1>0, SendLemma
  <1> HIDE DEF q
  <1>2. c \in Working
    <2>1. q.told \cup {"error"} \in SUBSET Notices
      BY <1>1 DEF Working, Notices
    <2> QED BY Zenon, <1>1, <2>1 DEF Working
  <1>3. /\ c.told = q.told \cup {"error"} /\ c.endPoint = q.endPoint /\ c.out = q.out
        /\ c.closeNotified = q.closeNotified
    BY <1>1 DEF Working
  <1>4. SameSeq(c, q)
    BY <1>1 DEF Working, SameSeq
  <1>5. r = DeallocateEndPoint(c)
    BY DEF SendRST, q
  <1> HIDE DEF c, r
  <1>6. /\ r \in Working /\ ~ r.endPoint /\ r.told = c.told /\ r.out = c.out
        /\ SameSeq(r, c) /\ r.closeNotified = c.closeNotified
        /\ r.retx = "none" /\ ~ r.lastAck
    BY <1>1, <1>2, <1>3, <1>5, DeallocateLemma
  <1> QED BY <1>1, <1>3, <1>4, <1>6 DEF r, Gone, SameSeq

\* A socket that is released by a handler with no segment but an RST.
LEMMA ResetLemma ==
  ASSUME NEW s \in Working, s.endPoint, s.closeNotified => "normal" \in s.told, Sent(s),
         NEW r, r = CloseAndNotify(s) \/ r = CloseAndNotify(SendRST(s))
  PROVE  r \in Working /\ SameSeq(r, s) /\ Gone(r) /\ r.st = "CLOSED" /\ "normal" \in r.told
            /\ Sent(r)
  <1> DEFINE m == Segment(s, "RST")
  <1>1. r \in Working /\ SameSeq(r, s) /\ Gone(r) /\ r.st = "CLOSED" /\ "normal" \in r.told
           /\ (r.out = s.out \/ r.out = s.out \cup {m})
    <2>1. CASE r = CloseAndNotify(s)
      BY <2>1, CloseAndNotifyLemma
    <2>2. CASE r = CloseAndNotify(SendRST(s))
      <3> DEFINE q == SendRST(s)
      <3>1. /\ q \in Working /\ SameSeq(q, s) /\ Gone(q) /\ q.out = s.out \cup {m}
            /\ q.closeNotified = s.closeNotified /\ s.told \subseteq q.told
        BY SendRSTLemma
      <3> HIDE DEF q
      <3>2. r = CloseAndNotify(q)
        BY <2>2 DEF q
      <3>3. /\ r \in Working /\ SameSeq(r, q) /\ Gone(r) /\ r.st = "CLOSED"
            /\ r.out = q.out /\ "normal" \in r.told
        BY <3>1, <3>2, CloseAndNotifyLemma DEF Gone
      <3> QED BY <3>1, <3>3 DEF SameSeq
    <2> QED BY <2>1, <2>2
  <1>2. Legal(m) /\ m.ack = s.nextRx /\ m.flag # "ACK"
    BY DEF Legal, Segment
  <1>3. Finished(r) <=> Finished(s)
    BY <1>1 DEF SameSeq, Finished
  <1> HIDE DEF m
  <1>4. Sent(r)
    BY <1>1, <1>2, <1>3 DEF Sent, SameSeq
  <1> QED BY <1>1, <1>4

LEMMA TimeWaitLemma ==
  ASSUME NEW s \in Working, s.closeNotified => "normal" \in s.told
  PROVE  LET r == TimeWait(s)
         IN  /\ r \in Working /\ SameSeq(r, s) /\ r.st = "TIME_WAIT" /\ r.endPoint = s.endPoint
             /\ r.retx = "none" /\ ~ r.lastAck /\ r.out = s.out /\ "normal" \in r.told
  <1> DEFINE q == [s EXCEPT !.st = "TIME_WAIT", !.retx = "none", !.lastAck = FALSE]
             r == TimeWait(s)
  <1>1. q \in Working
    <2>1. "TIME_WAIT" \in States /\ "none" \in RetxEvents
      BY DEF States, RetxEvents
    <2> QED BY Zenon, <2>1 DEF Working
  <1>2. /\ q.st = "TIME_WAIT" /\ q.retx = "none" /\ q.lastAck = FALSE /\ q.out = s.out
        /\ q.endPoint = s.endPoint /\ q.told = s.told /\ q.closeNotified = s.closeNotified
    BY DEF Working
  <1>3. SameSeq(q, s)
    BY DEF Working, SameSeq
  <1>4. r = NotifyClose(q)
    BY DEF TimeWait
  <1> HIDE DEF q, r
  <1>5. /\ r \in Working /\ SameSeq(r, q) /\ "normal" \in r.told
        /\ r.endPoint = q.endPoint /\ r.st = q.st /\ r.retx = q.retx
        /\ r.lastAck = q.lastAck /\ r.out = q.out
    BY <1>1, <1>2, <1>4, NotifyLemma
  <1> QED BY <1>2, <1>3, <1>5 DEF r, SameSeq


LEMMA SetState ==
  ASSUME NEW q \in Working, NEW x \in States
  PROVE  LET r == [q EXCEPT !.st = x]
         IN  /\ r \in Working /\ SameSeq(r, q) /\ r.st = x
             /\ r.endPoint = q.endPoint /\ r.retx = q.retx /\ r.lastAck = q.lastAck
             /\ r.told = q.told /\ r.out = q.out /\ r.closeNotified = q.closeNotified
             /\ r.shutdownSend = q.shutdownSend /\ r.synCount = q.synCount
             /\ r.dataRetrCount = q.dataRetrCount
  BY DEF Working, SameSeq

\* A FIN is sent, and the timer that repeats it runs.
LEMMA SendFinLemma ==
  ASSUME NEW s \in Working, s.endPoint, NEW x \in {"FIN_WAIT_1", "LAST_ACK"},
         s.closeNotified => "normal" \in s.told,
         x = "LAST_ACK" => s.retx # "ReTxTimeout",
         Sent(s)
  PROVE  LET r == [SendEmptyPacket(s, "FIN_ACK") EXCEPT !.st = x]
         IN  /\ r \in Working /\ SameSeq(r, s) /\ Sound(r)
             /\ r.endPoint /\ r.st = x /\ r.retx # "none"
             /\ (Numbered(s) /\ s.st \notin Handshake \cup {"CLOSED"} => Numbered(r) /\ Sent(r))
  <1> DEFINE q == SendEmptyPacket(s, "FIN_ACK")
             r == [q EXCEPT !.st = x]
  <1>0. "FIN_ACK" \in Flags /\ "FIN_ACK" \in RetxEvents /\ "FIN_ACK" \notin {"SYN", "SYN_ACK"}
           /\ x \in States /\ s.nextTx \in Nat
    BY DEF Flags, RetxEvents, States, Working
  <1>1. /\ q \in Working /\ SameSeq(q, s) /\ q.closeNotified = s.closeNotified
        /\ q.endPoint /\ q.told = s.told /\ q.retx # "none"
        /\ (q.retx = s.retx \/ q.retx = "FIN_ACK")
    BY <1>0, SendLemma
  <1>2. s.nextTx >= 1 => Sent(q)
    BY <1>0, SentLemma
  <1> HIDE DEF q
  <1>3. /\ r \in Working /\ SameSeq(r, q) /\ r.st = x
        /\ r.endPoint = q.endPoint /\ r.retx = q.retx /\ r.told = q.told /\ r.out = q.out
        /\ r.closeNotified = q.closeNotified
    BY <1>0, <1>1, SetState
  <1> HIDE DEF r
  <1>4. SameSeq(r, s)
    BY <1>1, <1>3 DEF SameSeq
  <1>5. Sound(r)
    <2>1. r.st \in {"FIN_WAIT_1", "LAST_ACK"} /\ r.endPoint /\ r.retx # "none"
      BY <1>1, <1>3
    <2>2. r.closeNotified => "normal" \in r.told
      BY <1>1, <1>3
    <2>3. r.st = "LAST_ACK" => r.retx # "ReTxTimeout"
      BY <1>1, <1>3
    <2> QED BY <1>3, <2>1, <2>2, <2>3 DEF Sound, Handshake
  <1>6. ASSUME Numbered(s), s.st \notin Handshake \cup {"CLOSED"}
        PROVE  Numbered(r) /\ Sent(r)
    <2>1. s.nextTx >= 1 /\ s.highTx >= 1 /\ s.retx \notin {"SYN", "SYN_ACK"}
      BY <1>6 DEF Numbered
    <2>2. Numbered(r)
      BY <1>1, <1>3, <1>4, <1>6, <2>1 DEF Numbered, SameSeq, Handshake
    <2>3. Sent(r)
      BY <1>2, <1>3, <2>1 DEF Sent, SameSeq, Finished
    <2> QED BY <2>2, <2>3
  <1> QED BY <1>1, <1>3, <1>4, <1>5, <1>6 DEF q, r

\* A released socket in CLOSED has nothing left to violate.
LEMMA GoneLemma ==
  ASSUME NEW s \in Working, NEW r \in Working, SameSeq(r, s), Gone(r), r.st = "CLOSED",
         r.closeNotified => "normal" \in r.told
  PROVE  Sound(r) /\ (Numbered(s) => Numbered(r))
  BY DEF Sound, Numbered, Gone, Handshake, SameSeq

LEMMA DoCloseLemma ==
  ASSUME NEW s \in Working, s.endPoint, Sound(s), Sent(s)
  PROVE  LET r == DoClose(s)
         IN  /\ r \in Working /\ SameSeq(r, s) /\ Sound(r)
             /\ (Numbered(s) /\ s.st # "SYN_RCVD" => Numbered(r) /\ Sent(r))
             /\ r.st \in {"FIN_WAIT_2", "TIME_WAIT"} => r.st = s.st
             /\ s.st = "CLOSE_WAIT" => r.endPoint /\ r.st = "LAST_ACK"
             /\ s.st \in {"LAST_ACK"} => r = s
  <1> DEFINE r == DoClose(s)
  <1>0. s.closeNotified => "normal" \in s.told
    BY DEF Sound
  <1>1. CASE s.st \in {"SYN_RCVD", "ESTABLISHED"}
    <2>1. r = [SendEmptyPacket(s, "FIN_ACK") EXCEPT !.st = "FIN_WAIT_1"]
      BY <1>1 DEF DoClose
    <2>2. /\ r \in Working /\ SameSeq(r, s) /\ Sound(r) /\ r.st = "FIN_WAIT_1"
          /\ (Numbered(s) /\ s.st \notin Handshake \cup {"CLOSED"} => Numbered(r) /\ Sent(r))
      BY <1>0, <2>1, SendFinLemma
    <2> QED BY <1>1, <2>2 DEF Handshake
  <1>2. CASE s.st = "CLOSE_WAIT"
    <2>1. r = [SendEmptyPacket(s, "FIN_ACK") EXCEPT !.st = "LAST_ACK"]
      BY <1>2 DEF DoClose
    <2>2. /\ r \in Working /\ SameSeq(r, s) /\ Sound(r) /\ r.st = "LAST_ACK" /\ r.endPoint
          /\ (Numbered(s) /\ s.st \notin Handshake \cup {"CLOSED"} => Numbered(r) /\ Sent(r))
      <3>1. s.retx # "ReTxTimeout"
        BY <1>2 DEF Sound
      <3> QED BY <1>0, <2>1, <3>1, SendFinLemma
    <2> QED BY <1>2, <2>2 DEF Handshake
  <1>3. CASE s.st \in {"SYN_SENT", "CLOSING"}
    <2>1. r = CloseAndNotify(SendRST(s))
      BY <1>3 DEF DoClose
    <2>2. r \in Working /\ SameSeq(r, s) /\ Gone(r) /\ r.st = "CLOSED" /\ "normal" \in r.told
            /\ Sent(r)
      BY <1>0, <2>1, ResetLemma
    <2>3. Sound(r) /\ (Numbered(s) => Numbered(r))
      BY <2>2, GoneLemma
    <2> QED BY <1>3, <2>2, <2>3
  <1>4. CASE s.st \notin {"SYN_RCVD", "ESTABLISHED", "CLOSE_WAIT", "SYN_SENT", "CLOSING"}
    BY <1>4 DEF DoClose, SameSeq
  <1> QED BY <1>1, <1>2, <1>3, <1>4

LEMMA DoShutdownSendLemma ==
  ASSUME NEW s \in Working, s.endPoint, Sound(s), Sent(s)
  PROVE  LET r == DoShutdownSend(s)
         IN  /\ r \in Working /\ SameSeq(r, s) /\ Sound(r)
             /\ (Numbered(s) => Numbered(r) /\ Sent(r))
             /\ r.st \in {"FIN_WAIT_2", "TIME_WAIT"} => r.st = s.st
  <1> DEFINE q == [s EXCEPT !.shutdownSend = TRUE]
  <1>1. /\ q \in Working /\ SameSeq(q, s) /\ q.endPoint = s.endPoint /\ q.st = s.st
        /\ q.retx = s.retx /\ q.lastAck = s.lastAck /\ q.told = s.told /\ q.out = s.out
        /\ q.closeNotified = s.closeNotified
    BY DEF Working, SameSeq
  <1> HIDE DEF q
  <1>2. Sound(q) /\ Sent(q) /\ (Numbered(s) => Numbered(q))
    BY <1>1 DEF Sound, Sent, Numbered, SameSeq, Finished
  <1>3. CASE s.st \in {"ESTABLISHED", "CLOSE_WAIT"}
    <2> DEFINE r == DoClose(q)
    <2>1. DoShutdownSend(s) = r
      BY <1>3 DEF DoShutdownSend, q
    <2>2. /\ r \in Working /\ SameSeq(r, q) /\ Sound(r)
          /\ (Numbered(q) /\ q.st # "SYN_RCVD" => Numbered(r) /\ Sent(r))
          /\ r.st \in {"FIN_WAIT_2", "TIME_WAIT"} => r.st = q.st
      BY <1>1, <1>2, DoCloseLemma
    <2> HIDE DEF r
    <2> QED BY <1>1, <1>2, <1>3, <2>1, <2>2 DEF SameSeq
  <1>4. CASE s.st \notin {"ESTABLISHED", "CLOSE_WAIT"}
    <2>1. DoShutdownSend(s) = q
      BY <1>4 DEF DoShutdownSend, q
    <2> QED BY <1>1, <1>2, <2>1
  <1> QED BY <1>3, <1>4

-----------------------------------------------------------------------------
(* Reception *)

\* What an event that receives m makes of s.
Step(s, m, r) ==
    /\ Finished(r) => Finished(s) \/ Took(m, r)
    /\ r.nextRx >= 2 => s.nextRx >= 2 \/ Took(m, r)
    /\ r.st \in {"FIN_WAIT_2", "TIME_WAIT"} =>
          \/ s.st \in {"FIN_WAIT_2", "TIME_WAIT"}
          \/ m.flag \in {"ACK", "FIN_ACK"} /\ m.ack >= 2
          \/ m.flag = "ACK" /\ m.seq >= 2

Outcome(s, m, r) ==
    /\ r \in Working /\ Sound(r)
    /\ Numbered(s) /\ Legal(m) => Numbered(r) /\ Sent(r) /\ Step(s, m, r)

LEMMA NothingDone ==
  ASSUME NEW s \in Working, Sound(s), Sent(s), NEW m \in Segments
  PROVE  Outcome(s, m, s)
  BY DEF Outcome, Step

LEMMA ResetOutcome ==
  ASSUME NEW s \in Working, s.endPoint, Sound(s), Sent(s), NEW m \in Segments,
         NEW r, r = CloseAndNotify(s) \/ r = ResetAndClose(s, m.flag)
  PROVE  Outcome(s, m, r)
  <1>1. r \in Working /\ SameSeq(r, s) /\ Gone(r) /\ r.st = "CLOSED" /\ "normal" \in r.told
           /\ Sent(r)
    BY ResetLemma DEF ResetAndClose, Sound
  <1>2. Sound(r) /\ (Numbered(s) => Numbered(r))
    BY <1>1, GoneLemma
  <1>3. Step(s, m, r)
    BY <1>1 DEF Step, SameSeq, Finished
  <1> QED BY <1>1, <1>2, <1>3 DEF Outcome


\* The fields that the handlers of sequence numbers leave alone.
SameRest(r, s) ==
    /\ r.st = s.st /\ r.endPoint = s.endPoint /\ r.lastAck = s.lastAck /\ r.told = s.told
    /\ r.out = s.out /\ r.closeNotified = s.closeNotified /\ r.shutdownSend = s.shutdownSend

LEMMA SetFinLemma ==
  ASSUME NEW s \in Working, NEW q \in Nat
  PROVE  LET r == SetFinSequence(s, q)
         IN  /\ r \in Working /\ SameRest(r, s) /\ r.retx = s.retx
             /\ r.nextTx = s.nextTx /\ r.highTx = s.highTx /\ r.head = s.head
             /\ r.finSeq = q /\ r.nextRx = IF s.nextRx = q THEN q + 1 ELSE s.nextRx
  <1> DEFINE x == IF s.nextRx = q THEN q + 1 ELSE s.nextRx
             r == SetFinSequence(s, q)
  <1>1. r = [s EXCEPT !.finSeq = q, !.nextRx = x]
    BY DEF SetFinSequence
  <1>2. x \in Nat /\ q \in Nat \cup {NoFin}
    BY DEF Working
  <1> HIDE DEF x, r
  <1>3. r \in Working
    BY Zenon, <1>1, <1>2 DEF Working
  <1>4. /\ SameRest(r, s) /\ r.retx = s.retx
        /\ r.nextTx = s.nextTx /\ r.highTx = s.highTx /\ r.head = s.head
        /\ r.finSeq = q /\ r.nextRx = x
    BY <1>1 DEF Working, SameRest
  <1> QED BY <1>3, <1>4 DEF r, x

LEMMA ReceivedAckLemma ==
  ASSUME NEW s \in Working, NEW a \in Nat
  PROVE  LET r == ReceivedAck(s, a)
         IN  /\ r \in Working /\ SameRest(r, s)
             /\ r.highTx = s.highTx /\ r.nextRx = s.nextRx /\ r.finSeq = s.finSeq
             /\ \/ r.retx = s.retx
                \/ r.retx = IF s.st \in {"FIN_WAIT_1", "CLOSING"} THEN "ReTxTimeout" ELSE "none"
             /\ s.nextTx >= 1 => r.nextTx >= 1
             /\ a <= s.head /\ a <= s.highTx => r = s
  <1> DEFINE r == ReceivedAck(s, a)
  <1>0. s.head \in Nat /\ s.highTx \in Nat /\ s.nextTx \in Nat
    BY DEF Working
  <1>1. CASE a > s.head
    <2> DEFINE x == IF s.st \in {"FIN_WAIT_1", "CLOSING"} THEN "ReTxTimeout" ELSE "none"
               t == IF a > s.nextTx THEN a ELSE s.nextTx
    <2>1. r = [s EXCEPT !.dataRetrCount = DataRetries, !.head = a, !.retx = x, !.nextTx = t]
      BY <1>1 DEF ReceivedAck, NewAck
    <2>2. x \in RetxEvents /\ t \in Nat /\ DataRetries \in 0 .. DataRetries
             /\ (s.nextTx >= 1 => t >= 1)
      BY <1>0, RetriesType DEF RetxEvents
    <2> HIDE DEF x, t, r
    <2>3. r \in Working
      BY Zenon, <2>1, <2>2 DEF Working
    <2>4. /\ SameRest(r, s) /\ r.retx = x /\ r.nextTx = t
          /\ r.highTx = s.highTx /\ r.nextRx = s.nextRx /\ r.finSeq = s.finSeq
      BY <2>1 DEF Working, SameRest
    <2> QED BY <1>0, <1>1, <2>2, <2>3, <2>4 DEF r, x
  <1>2. CASE a = s.head /\ a > s.highTx
    <2>1. r = [s EXCEPT !.nextTx = a]
      BY <1>0, <1>2 DEF ReceivedAck
    <2> HIDE DEF r
    <2>2. r \in Working
      BY <2>1 DEF Working
    <2>3. /\ SameRest(r, s) /\ r.retx = s.retx /\ r.nextTx = a
          /\ r.highTx = s.highTx /\ r.nextRx = s.nextRx /\ r.finSeq = s.finSeq
      BY <2>1 DEF Working, SameRest
    <2> QED BY <1>0, <1>2, <2>2, <2>3 DEF r
  <1>3. CASE ~ (a > s.head) /\ ~ (a = s.head /\ a > s.highTx)
    BY <1>3 DEF ReceivedAck, SameRest
  <1> QED BY <1>1, <1>2, <1>3

LEMMA SynchronizeLemma ==
  ASSUME NEW s \in Working
  PROVE  LET r == Synchronize(s)
         IN  /\ r \in Working /\ SameRest(r, s) /\ r.retx = "none"
             /\ r.nextTx = s.nextTx + 1 /\ r.highTx = s.nextTx + 1 /\ r.head = s.nextTx + 1
             /\ r.nextRx = s.nextRx /\ r.finSeq = s.finSeq
  <1> DEFINE x == s.nextTx + 1
             r == Synchronize(s)
  <1>1. r = [s EXCEPT !.retx = "none", !.nextTx = x, !.highTx = x, !.head = x]
    BY DEF Synchronize
  <1>2. x \in Nat /\ "none" \in RetxEvents
    BY DEF Working, RetxEvents
  <1> HIDE DEF x, r
  <1>3. r \in Working
    BY Zenon, <1>1, <1>2 DEF Working
  <1>4. /\ SameRest(r, s) /\ r.retx = "none"
        /\ r.nextTx = x /\ r.highTx = x /\ r.head = x
        /\ r.nextRx = s.nextRx /\ r.finSeq = s.finSeq
    BY <1>1 DEF Working, SameRest
  <1> QED BY <1>3, <1>4 DEF r, x

\* The numbers with which DoPeerClose is called.
Synchronized(s) ==
    /\ Finished(s) /\ s.nextTx >= 1 /\ s.highTx >= 1 /\ s.finSeq >= 1
    /\ s.retx \notin {"SYN", "SYN_ACK"}

\* A socket that has accepted the FIN of its peer.
Closing(v, s) ==
    /\ v \in Working /\ SameSeq(v, s) /\ v.endPoint /\ v.st \in {"CLOSE_WAIT", "LAST_ACK"}
    /\ Sound(v)
    /\ Synchronized(s) => Numbered(v) /\ Sent(v)

LEMMA AckClosing ==
  ASSUME NEW s \in Working, NEW v, Closing(v, s)
  PROVE  Closing(SendEmptyPacket(v, "ACK"), s)
  <1> DEFINE r == SendEmptyPacket(v, "ACK")
  <1>0. "ACK" \in Flags /\ "ACK" \notin RetxEvents /\ "ACK" \notin {"SYN", "SYN_ACK"}
    BY DEF Flags, RetxEvents
  <1>1. /\ r \in Working /\ SameSeq(r, v) /\ r.closeNotified = v.closeNotified
        /\ r.endPoint /\ r.st = v.st /\ r.told = v.told /\ r.lastAck = v.lastAck
        /\ r.retx = v.retx
    BY <1>0, SendLemma DEF Closing
  <1>2. Synchronized(s) => Sent(r)
    <2> SUFFICES ASSUME Synchronized(s) PROVE Sent(r)
      OBVIOUS
    <2>1. Finished(v) /\ Sent(v)
      BY DEF Closing, Synchronized, SameSeq, Finished
    <2> QED BY <1>0, <2>1, SentLemma DEF Closing
  <1> HIDE DEF r
  <1>3. SameSeq(r, s) /\ Sound(r)
    BY <1>1 DEF Closing, SameSeq, Sound
  <1>4. Synchronized(s) => Numbered(r)
    BY <1>1 DEF Closing, Numbered, SameSeq, Finished
  <1> QED BY <1>1, <1>2, <1>3, <1>4 DEF Closing, r

LEMMA DoPeerCloseLemma ==
  ASSUME NEW s \in Working, NEW closes \in BOOLEAN, s.endPoint, s.out = {},
         s.closeNotified => "normal" \in s.told, s.retx # "ReTxTimeout"
  PROVE  Closing(DoPeerClose(s, closes), s)
  <1> DEFINE w == [s EXCEPT !.st = "CLOSE_WAIT"]
             n == NotifyClose(w)
             c == DoClose(n)
             notified == IF closes /\ ~ s.closeNotified THEN DoClose(NotifyClose(w))
                         ELSE NotifyClose(w)
             answered == IF s.shutdownSend THEN DoClose(notified)
                         ELSE SendEmptyPacket(notified, "ACK")
             r == IF answered.st = "LAST_ACK"
                  THEN [answered EXCEPT !.dataRetrCount = DataRetries, !.lastAck = TRUE]
                  ELSE answered
  <1>1. /\ w \in Working /\ SameSeq(w, s) /\ w.st = "CLOSE_WAIT"
        /\ w.endPoint = s.endPoint /\ w.retx = s.retx /\ w.told = s.told /\ w.out = s.out
        /\ w.closeNotified = s.closeNotified
    <2>1. "CLOSE_WAIT" \in States
      BY DEF States
    <2> QED BY <2>1, SetState
  <1>2. DoPeerClose(s, closes) = r
    BY DEF DoPeerClose
  <1> HIDE DEF w
  <1>3. /\ n \in Working /\ SameSeq(n, w) /\ "normal" \in n.told
        /\ n.endPoint = w.endPoint /\ n.st = w.st /\ n.retx = w.retx /\ n.out = w.out
    BY <1>1, NotifyLemma
  <1> HIDE DEF n
  <1>4. Sound(n) /\ Sent(n)
    BY <1>1, <1>3 DEF Sound, Sent, Awaiting, Handshake
  <1>5. Synchronized(s) => Numbered(n)
    BY <1>1, <1>3 DEF Synchronized, Numbered, SameSeq, Handshake
  <1>6. Closing(n, s)
    BY <1>1, <1>3, <1>4, <1>5 DEF Closing, SameSeq
  <1>7. Closing(c, s) /\ c.st = "LAST_ACK"
    <2>1. /\ c \in Working /\ SameSeq(c, n) /\ Sound(c)
          /\ (Numbered(n) /\ n.st # "SYN_RCVD" => Numbered(c) /\ Sent(c))
          /\ c.endPoint /\ c.st = "LAST_ACK"
      BY <1>1, <1>3, <1>4, DoCloseLemma
    <2> HIDE DEF c
    <2> QED BY <1>1, <1>3, <1>5, <2>1 DEF Closing, SameSeq
  <1>8. c.st = "LAST_ACK" => DoClose(c) = c
    BY DEF DoClose
  <1>9. Closing(answered, s)
    <2>1. notified = c \/ notified = n
      BY DEF n
    <2>2. answered = DoClose(notified) \/ answered = SendEmptyPacket(notified, "ACK")
      OBVIOUS
    <2>3. Closing(notified, s) /\ Closing(DoClose(notified), s)
      <3> HIDE DEF notified
      <3>1. CASE notified = c
        BY <1>7, <1>8, <3>1
      <3>2. CASE notified = n
        BY <1>6, <1>7, <3>2
      <3> QED BY <2>1, <3>1, <3>2
    <2> HIDE DEF notified
    <2> QED BY <2>2, <2>3, AckClosing
  <1> HIDE DEF answered
  <1>10. CASE answered.st = "LAST_ACK"
    <2>1. r = [answered EXCEPT !.dataRetrCount = DataRetries, !.lastAck = TRUE]
      BY <1>10
    <2>2. DataRetries \in 0 .. DataRetries
      BY RetriesType
    <2> HIDE DEF r
    <2>3. r \in Working
      BY Zenon, <1>9, <2>1, <2>2 DEF Working, Closing
    <2>4. /\ r.st = answered.st /\ r.endPoint = answered.endPoint /\ r.told = answered.told
          /\ r.out = answered.out /\ r.closeNotified = answered.closeNotified
          /\ r.retx = answered.retx
      BY <1>9, <2>1 DEF Working, Closing
    <2>5. SameSeq(r, answered)
      BY <1>9, <2>1 DEF Working, Closing, SameSeq
    <2>6. Sound(r)
      BY <1>9, <2>4, <2>5 DEF Closing, Sound, SameSeq
    <2>7. Synchronized(s) => Numbered(r) /\ Sent(r)
      BY <1>9, <2>4, <2>5 DEF Closing, Numbered, Sent, SameSeq, Finished
    <2>8. SameSeq(r, s)
      BY <1>9, <2>5 DEF Closing, SameSeq
    <2>9. Closing(r, s)
      BY <1>9, <2>3, <2>4, <2>6, <2>7, <2>8 DEF Closing
    <2> QED BY <1>2, <2>9
  <1>11. CASE answered.st # "LAST_ACK"
    BY <1>2, <1>9, <1>11
  <1> QED BY <1>10, <1>11

\* PeerClose takes the FIN m of an established connection, or of one whose
\* handshake the FIN completes.
LEMMA PeerCloseLemma ==
  ASSUME NEW s \in Working, NEW m \in Segments, NEW closes \in BOOLEAN,
         s.endPoint, s.out = {}, m.flag = "FIN_ACK",
         s.closeNotified => "normal" \in s.told, s.retx # "ReTxTimeout",
         s.st = "ESTABLISHED" \/ (m.seq = s.nextRx /\ s.finSeq = NoFin)
  PROVE  LET r == PeerClose(s, m.seq, closes)
         IN  /\ r \in Working /\ Sound(r)
             /\ /\ s.nextTx >= 1 /\ s.highTx >= 1 /\ s.retx \notin {"SYN", "SYN_ACK"}
                /\ s.st = "ESTABLISHED" => Numbered(s)
                /\ m.seq >= 1
                => Numbered(r) /\ Sent(r) /\ Step(s, m, r)
  <1> DEFINE q == m.seq
             t == SetFinSequence(s, q)
             d == DoPeerClose(t, closes)
             r == PeerClose(s, q, closes)
             nums == /\ s.nextTx >= 1 /\ s.highTx >= 1 /\ s.retx \notin {"SYN", "SYN_ACK"}
                     /\ s.st = "ESTABLISHED" => Numbered(s)
                     /\ m.seq >= 1
  <1>0. q \in Nat /\ s.nextRx \in Nat /\ s.finSeq \in Nat \cup {NoFin} /\ NoFin \notin Nat
           /\ Sent(s)
    BY DEF Segments, Working, Sent, NoFin
  <1>1. /\ t \in Working /\ SameRest(t, s) /\ t.retx = s.retx
        /\ t.nextTx = s.nextTx /\ t.highTx = s.highTx /\ t.head = s.head
        /\ t.finSeq = q /\ t.nextRx = IF s.nextRx = q THEN q + 1 ELSE s.nextRx
    BY <1>0, SetFinLemma
  <1>2. CASE q < s.nextRx \/ (s.finSeq # NoFin /\ q > s.finSeq)
    <2>1. r = s /\ s.st = "ESTABLISHED"
      BY <1>0, <1>2 DEF PeerClose
    <2>2. Sound(s)
      BY <2>1 DEF Sound, Awaiting, Handshake
    <2> QED BY <1>0, <2>1, <2>2 DEF Step
  <1>3. CASE ~ (q < s.nextRx \/ (s.finSeq # NoFin /\ q > s.finSeq)) /\ Finished(t)
    <2>1. r = d
      BY <1>3 DEF PeerClose
    <2> HIDE DEF t
    <2>2. Closing(d, t)
      BY <1>1, DoPeerCloseLemma DEF SameRest
    <2> HIDE DEF d, r
    <2>3. nums => Synchronized(t)
      BY <1>1, <1>3 DEF Synchronized
    <2>4. Step(s, m, d)
      BY <1>0, <1>1, <1>3, <2>2 DEF Step, Took, Closing, SameSeq, Finished
    <2> QED BY <2>1, <2>2, <2>3, <2>4 DEF Closing, r
  <1>4. CASE ~ (q < s.nextRx \/ (s.finSeq # NoFin /\ q > s.finSeq)) /\ ~ Finished(t)
    <2>1. r = t
      BY <1>4 DEF PeerClose
    <2> HIDE DEF t, r
    <2>2. s.nextRx # q /\ t.nextRx = s.nextRx
      BY <1>0, <1>1, <1>4 DEF Finished
    <2>3. s.st = "ESTABLISHED" /\ t.st = "ESTABLISHED"
      BY <1>1, <2>2 DEF SameRest
    <2>4. Sound(t)
      BY <1>1, <2>3 DEF Sound, Awaiting, Handshake, SameRest
    <2>5. nums => Numbered(t)
      BY <1>0, <1>1, <2>2, <2>3 DEF Numbered, Handshake
    <2>6. Sent(t) /\ Step(s, m, t)
      BY <1>1, <1>4, <2>2, <2>3 DEF Sent, Step, SameRest
    <2> QED BY <1>1, <2>1, <2>4, <2>5, <2>6 DEF r
  <1> QED BY <1>2, <1>3, <1>4

LEMMA SynSentOutcome ==
  ASSUME NEW s \in Working, s.endPoint, Sound(s), s.out = {}, NEW m \in Segments,
         s.st = "SYN_SENT"
  PROVE  Outcome(s, m, ProcessSynSent(s, m))
  <1> DEFINE r == ProcessSynSent(s, m)
  <1>0. /\ m.seq \in Nat /\ m.seq + 1 \in Nat /\ Sent(s) /\ s.nextRx \in Nat
        /\ s.finSeq = NoFin /\ s.retx \notin {"none", "ReTxTimeout"}
        /\ s.closeNotified => "normal" \in s.told
    BY DEF Segments, Working, Sent, Sound, Handshake, Awaiting
  <1>1. CASE m.flag \in {"ACK", "FIN_ACK"}
    BY <1>0, <1>1, NothingDone DEF ProcessSynSent
  <1>2. CASE m.flag = "SYN"
    <2> DEFINE q == [s EXCEPT !.st = "SYN_RCVD", !.synCount = SynRetries,
                              !.nextRx = m.seq + 1]
    <2>1. r = SendEmptyPacket(q, "SYN_ACK")
      BY <1>2 DEF ProcessSynSent
    <2>2. /\ "SYN_RCVD" \in States /\ SynRetries \in 0 .. SynRetries
          /\ "SYN_ACK" \in Flags
      BY RetriesType DEF States, Flags
    <2>3. q \in Working
      BY Zenon, <1>0, <2>2 DEF Working
    <2>4. /\ q.st = "SYN_RCVD" /\ q.nextRx = m.seq + 1 /\ q.endPoint = s.endPoint
          /\ q.retx = s.retx /\ q.lastAck = s.lastAck /\ q.told = s.told /\ q.out = s.out
          /\ q.closeNotified = s.closeNotified /\ q.nextTx = s.nextTx /\ q.finSeq = s.finSeq
          /\ q.highTx = s.highTx
      BY DEF Working
    <2> HIDE DEF q
    <2>5. Numbered(s) => Numbered(q) /\ Sent(q)
      BY <1>0, <2>4 DEF Numbered, Sent, Handshake
    <2> HIDE DEF r
    <2>6. /\ r \in Working /\ SameSeq(r, q) /\ r.closeNotified = q.closeNotified
          /\ \/ r.st = q.st /\ r.told = q.told /\ r.retx = q.retx /\ r.endPoint
             \/ Gone(r) /\ r.st = "CLOSED" /\ q.told \subseteq r.told
      BY <1>0, <2>1, <2>2, <2>3, <2>4, ResendLemma
    <2>7. Sound(r)
      BY <1>0, <2>4, <2>6 DEF Sound, Gone, SameSeq, Handshake
    <2>8. Numbered(s) => Numbered(r)
      <3>1. CASE r.st = q.st /\ r.retx = q.retx
        BY <2>4, <2>5, <2>6, <3>1 DEF Numbered, SameSeq, Handshake
      <3>2. CASE Gone(r) /\ r.st = "CLOSED" /\ q.told \subseteq r.told
        <4>1. r.closeNotified => "normal" \in r.told
          BY <1>0, <2>4, <2>6, <3>2
        <4> QED BY <2>3, <2>5, <2>6, <3>2, <4>1, GoneLemma
      <3> QED BY <2>6, <3>1, <3>2
    <2>9. Numbered(s) => Sent(r)
      BY <2>1, <2>2, <2>3, <2>4, <2>5, SentLemma DEF Numbered, Handshake
    <2>10. Legal(m) => Step(s, m, r)
      BY <1>0, <1>2, <2>4, <2>6 DEF Step, Legal, SameSeq, Finished
    <2> QED BY <2>6, <2>7, <2>8, <2>9, <2>10 DEF Outcome, r
  <1>3. CASE m.flag = "SYN_ACK" /\ m.ack = s.nextTx + 1
    <2> DEFINE y == Synchronize(s)
               q == [y EXCEPT !.st = "ESTABLISHED", !.nextRx = m.seq + 1]
    <2>1. r = SendEmptyPacket(q, "ACK")
      BY <1>3 DEF ProcessSynSent
    <2>2. /\ y \in Working /\ SameRest(y, s) /\ y.retx = "none"
          /\ y.nextTx = s.nextTx + 1 /\ y.highTx = s.nextTx + 1 /\ y.head = s.nextTx + 1
          /\ y.finSeq = s.finSeq
      BY SynchronizeLemma
    <2> HIDE DEF y
    <2>3. "ESTABLISHED" \in States /\ "ACK" \in Flags /\ "ACK" \notin {"SYN", "SYN_ACK"}
            /\ "ACK" \notin RetxEvents
      BY DEF States, Flags, RetxEvents
    <2>4. q \in Working
      BY Zenon, <1>0, <2>2, <2>3 DEF Working
    <2>5. /\ q.st = "ESTABLISHED" /\ q.nextRx = m.seq + 1 /\ q.endPoint = y.endPoint
          /\ q.retx = y.retx /\ q.lastAck = y.lastAck /\ q.told = y.told /\ q.out = y.out
          /\ q.closeNotified = y.closeNotified /\ q.nextTx = y.nextTx /\ q.finSeq = y.finSeq
          /\ q.highTx = y.highTx /\ q.head = y.head
      BY <2>2 DEF Working
    <2> HIDE DEF q, r
    <2>6. /\ r \in Working /\ SameSeq(r, q) /\ r.closeNotified = q.closeNotified
          /\ r.st = q.st /\ r.told = q.told /\ r.retx = q.retx /\ r.endPoint
      BY <2>1, <2>2, <2>3, <2>4, <2>5, SendLemma DEF SameRest
    <2>7. Sound(r)
      BY <1>0, <2>2, <2>5, <2>6 DEF Sound, Handshake, Awaiting, SameRest
    <2>8. Numbered(s) => Numbered(r)
      BY <1>0, <2>2, <2>5, <2>6 DEF Numbered, SameSeq, Handshake
    <2>9. Numbered(s) => Sent(r)
      <3>1. Sent(q)
        BY <2>2, <2>5 DEF Sent, SameRest
      <3>2. Numbered(s) => q.nextTx <= 1
        BY <2>2, <2>5 DEF Numbered, Handshake
      <3> QED BY <2>1, <2>2, <2>3, <2>4, <2>5, <3>1, <3>2, SentLemma DEF SameRest
    <2>10. Legal(m) => Step(s, m, r)
      BY <1>0, <1>3, <2>2, <2>5, <2>6 DEF Step, Legal, SameSeq, Finished
    <2> QED BY <2>6, <2>7, <2>8, <2>9, <2>10 DEF Outcome, r
  <1>4. CASE /\ m.flag \notin {"ACK", "FIN_ACK", "SYN"}
             /\ ~ (m.flag = "SYN_ACK" /\ m.ack = s.nextTx + 1)
    <2>1. r = ResetAndClose(s, m.flag)
      BY <1>4 DEF ProcessSynSent
    <2> QED BY <1>0, <2>1, ResetOutcome
  <1> QED BY <1>1, <1>2, <1>3, <1>4

LEMMA SynRcvdOutcome ==
  ASSUME NEW s \in Working, s.endPoint, Sound(s), s.out = {}, NEW m \in Segments,
         NEW closes \in BOOLEAN, s.st = "SYN_RCVD"
  PROVE  Outcome(s, m, ProcessSynRcvd(s, m, closes))
  <1> DEFINE r == ProcessSynRcvd(s, m, closes)
             y == Synchronize(s)
  <1>0. /\ m.seq \in Nat /\ m.seq + 1 \in Nat /\ m.ack \in Nat /\ Sent(s)
        /\ s.nextRx \in Nat /\ s.nextTx \in Nat
        /\ s.finSeq = NoFin /\ s.retx \notin {"none", "ReTxTimeout"}
        /\ s.closeNotified => "normal" \in s.told
    BY DEF Segments, Working, Sent, Sound, Handshake, Awaiting
  <1>1. /\ y \in Working /\ SameRest(y, s) /\ y.retx = "none"
        /\ y.nextTx = s.nextTx + 1 /\ y.highTx = s.nextTx + 1 /\ y.head = s.nextTx + 1
        /\ y.nextRx = s.nextRx /\ y.finSeq = s.finSeq
    BY SynchronizeLemma
  <1>2. CASE m.flag = "ACK" /\ m.ack = s.nextTx + 1
    <2> DEFINE q == [y EXCEPT !.st = "ESTABLISHED"]
    <2>1. r = ReceivedAck(q, m.ack)
      BY <1>2 DEF ProcessSynRcvd
    <2> HIDE DEF y
    <2>2. /\ q \in Working /\ SameSeq(q, y) /\ q.st = "ESTABLISHED" /\ q.endPoint = y.endPoint
          /\ q.retx = y.retx /\ q.lastAck = y.lastAck /\ q.told = y.told /\ q.out = y.out
          /\ q.closeNotified = y.closeNotified
      <3>1. "ESTABLISHED" \in States
        BY DEF States
      <3> QED BY <1>1, <3>1, SetState
    <2> HIDE DEF q, r
    <2>3. r = q
      <3>1. m.ack <= q.head /\ m.ack <= q.highTx
        BY <1>0, <1>1, <1>2, <2>2 DEF SameSeq
      <3> QED BY <1>0, <2>1, <2>2, <3>1, ReceivedAckLemma
    <2>4. Sound(q) /\ Sent(q)
      BY <1>0, <1>1, <2>2 DEF Sound, Sent, Handshake, Awaiting, SameRest, SameSeq
    <2>5. Numbered(s) => Numbered(q)
      BY <1>0, <1>1, <2>2 DEF Numbered, Handshake, SameSeq
    <2>6. Step(s, m, q)
      BY <1>0, <1>1, <2>2 DEF Step, SameSeq, Finished
    <2> QED BY <2>2, <2>3, <2>4, <2>5, <2>6 DEF Outcome, r
  <1>3. CASE m.flag = "SYN"
    <2> DEFINE q == [s EXCEPT !.nextRx = m.seq + 1]
    <2>1. r = SendEmptyPacket(q, "SYN_ACK")
      BY <1>3 DEF ProcessSynRcvd
    <2>2. "SYN_ACK" \in Flags
      BY DEF Flags
    <2>3. q \in Working
      BY <1>0 DEF Working
    <2>4. /\ q.st = s.st /\ q.nextRx = m.seq + 1 /\ q.endPoint = s.endPoint
          /\ q.retx = s.retx /\ q.lastAck = s.lastAck /\ q.told = s.told /\ q.out = s.out
          /\ q.closeNotified = s.closeNotified /\ q.nextTx = s.nextTx /\ q.finSeq = s.finSeq
          /\ q.highTx = s.highTx
      BY DEF Working
    <2> HIDE DEF q
    <2>5. Numbered(s) => Numbered(q) /\ Sent(q)
      BY <1>0, <2>4 DEF Numbered, Sent, Handshake
    <2> HIDE DEF r
    <2>6. /\ r \in Working /\ SameSeq(r, q) /\ r.closeNotified = q.closeNotified
          /\ \/ r.st = q.st /\ r.told = q.told /\ r.retx = q.retx /\ r.endPoint
             \/ Gone(r) /\ r.st = "CLOSED" /\ q.told \subseteq r.told
      BY <1>0, <2>1, <2>2, <2>3, <2>4, ResendLemma
    <2>7. Sound(r)
      BY <1>0, <2>4, <2>6 DEF Sound, Gone, SameSeq, Handshake
    <2>8. Numbered(s) => Numbered(r)
      <3>1. CASE r.st = q.st /\ r.retx = q.retx
        BY <2>4, <2>5, <2>6, <3>1 DEF Numbered, SameSeq, Handshake
      <3>2. CASE Gone(r) /\ r.st = "CLOSED" /\ q.told \subseteq r.told
        <4>1. r.closeNotified => "normal" \in r.told
          BY <1>0, <2>4, <2>6, <3>2
        <4> QED BY <2>3, <2>5, <2>6, <3>2, <4>1, GoneLemma
      <3> QED BY <2>6, <3>1, <3>2
    <2>9. Numbered(s) => Sent(r)
      BY <2>1, <2>2, <2>3, <2>4, <2>5, SentLemma DEF Numbered, Handshake
    <2>10. Legal(m) => Step(s, m, r)
      BY <1>0, <1>3, <2>4, <2>6 DEF Step, Legal, SameSeq, Finished
    <2> QED BY <2>6, <2>7, <2>8, <2>9, <2>10 DEF Outcome, r
  <1>4. CASE m.flag = "FIN_ACK" /\ m.seq = s.nextRx
    <2>1. r = PeerClose(y, m.seq, closes)
      BY <1>4 DEF ProcessSynRcvd
    <2> HIDE DEF y, r
    <2> DEFINE nums == /\ y.nextTx >= 1 /\ y.highTx >= 1 /\ y.retx \notin {"SYN", "SYN_ACK"}
                       /\ y.st = "ESTABLISHED" => Numbered(y)
                       /\ m.seq >= 1
    <2>2. r \in Working /\ Sound(r) /\ (nums => Numbered(r) /\ Sent(r) /\ Step(y, m, r))
      BY <1>0, <1>1, <1>4, <2>1, PeerCloseLemma DEF SameRest
    <2>3. Legal(m) => nums
      BY <1>0, <1>1, <1>4 DEF Legal, SameRest
    <2>4. Step(y, m, r) => Step(s, m, r)
      BY <1>1 DEF Step, Finished, SameRest
    <2> QED BY <2>2, <2>3, <2>4 DEF Outcome, r
  <1>5. CASE m.flag = "FIN_ACK" /\ m.seq # s.nextRx
    BY <1>0, <1>5, NothingDone DEF ProcessSynRcvd
  <1>6. CASE m.flag \notin {"SYN", "FIN_ACK"} /\ ~ (m.flag = "ACK" /\ m.ack = s.nextTx + 1)
    <2>1. r = ResetAndClose(s, m.flag)
      BY <1>6 DEF ProcessSynRcvd
    <2> QED BY <1>0, <2>1, ResetOutcome
  <1> QED BY <1>2, <1>3, <1>4, <1>5, <1>6

LEMMA EstablishedOutcome ==
  ASSUME NEW s \in Working, s.endPoint, Sound(s), s.out = {}, NEW m \in Segments,
         NEW closes \in BOOLEAN, s.st = "ESTABLISHED"
  PROVE  Outcome(s, m, ProcessEstablished(s, m, closes))
  <1> DEFINE r == ProcessEstablished(s, m, closes)
  <1>0. /\ m.seq \in Nat /\ m.ack \in Nat /\ s.head \in Nat /\ s.highTx \in Nat /\ Sent(s)
        /\ s.retx # "ReTxTimeout"
        /\ s.closeNotified => "normal" \in s.told
    BY DEF Segments, Working, Sent, Sound
  <1>1. CASE m.flag \in {"SYN", "SYN_ACK"} \/ (m.flag = "ACK" /\ m.ack < s.head)
    <2>1. r = s
      BY <1>0, <1>1 DEF ProcessEstablished
    <2> QED BY <1>0, <2>1, NothingDone
  <1>2. CASE m.flag = "ACK" /\ m.ack > s.highTx /\ ~ (m.ack < s.head)
    <2>1. r = SendEmptyPacket(s, "ACK")
      BY <1>0, <1>2 DEF ProcessEstablished
    <2>2. "ACK" \in Flags /\ "ACK" \notin {"SYN", "SYN_ACK"} /\ "ACK" \notin RetxEvents
      BY DEF Flags, RetxEvents
    <2> HIDE DEF r
    <2>3. /\ r \in Working /\ SameSeq(r, s) /\ r.closeNotified = s.closeNotified
          /\ r.endPoint /\ r.st = s.st /\ r.told = s.told /\ r.lastAck = s.lastAck
          /\ r.retx = s.retx
      BY <2>1, <2>2, SendLemma
    <2>4. Sound(r) /\ Step(s, m, r)
      BY <2>3 DEF Sound, SameSeq, Step, Finished
    <2>5. Numbered(s) => Numbered(r)
      BY <2>3 DEF Numbered, SameSeq
    <2>6. Numbered(s) => Sent(r)
      BY <1>0, <2>1, <2>2, SentLemma DEF Numbered
    <2> QED BY <2>3, <2>4, <2>5, <2>6 DEF Outcome, r
  <1>3. CASE m.flag = "ACK" /\ m.ack \in s.head .. s.highTx
    <2>1. r = ReceivedAck(s, m.ack)
      BY <1>0, <1>3 DEF ProcessEstablished
    <2> HIDE DEF r
    <2>2. /\ r \in Working /\ SameRest(r, s)
          /\ r.highTx = s.highTx /\ r.nextRx = s.nextRx /\ r.finSeq = s.finSeq
          /\ r.retx = s.retx \/ r.retx = "none"
          /\ m.ack <= s.head /\ m.ack <= s.highTx => r = s
      BY <1>0, <2>1, ReceivedAckLemma
    <2>3. Sound(r) /\ Step(s, m, r)
      BY <2>2 DEF Sound, SameRest, Awaiting, Handshake, Step, Finished
    <2>4. Numbered(s) => r = s
      BY <1>0, <1>3, <2>2 DEF Numbered
    <2> QED BY <1>0, <2>2, <2>3, <2>4 DEF Outcome, r
  <1>4. CASE m.flag = "FIN_ACK"
    <2>1. r = PeerClose(s, m.seq, closes)
      BY <1>4 DEF ProcessEstablished
    <2> HIDE DEF r
    <2> DEFINE nums == /\ s.nextTx >= 1 /\ s.highTx >= 1 /\ s.retx \notin {"SYN", "SYN_ACK"}
                       /\ s.st = "ESTABLISHED" => Numbered(s)
                       /\ m.seq >= 1
    <2>2. r \in Working /\ Sound(r) /\ (nums => Numbered(r) /\ Sent(r) /\ Step(s, m, r))
      BY <1>0, <1>4, <2>1, PeerCloseLemma
    <2>3. Numbered(s) /\ Legal(m) => nums
      BY <1>0, <1>4 DEF Legal, Numbered, Handshake
    <2> QED BY <2>2, <2>3 DEF Outcome, r
  <1>5. CASE m.flag \notin {"ACK", "SYN", "SYN_ACK", "FIN_ACK"}
    <2>1. r = ResetAndClose(s, m.flag)
      BY <1>5 DEF ProcessEstablished
    <2> QED BY <1>0, <2>1, ResetOutcome
  <1> QED BY <1>0, <1>1, <1>2, <1>3, <1>4, <1>5

\* An ACK is sent in an event that changes nothing else.
LEMMA AckLemma ==
  ASSUME NEW x \in Working, x.endPoint, Sound(x)
  PROVE  LET r == SendEmptyPacket(x, "ACK")
         IN  /\ r \in Working /\ SameSeq(r, x) /\ Sound(r) /\ r.st = x.st /\ r.endPoint
             /\ Numbered(x) => Numbered(r)
             /\ Sent(x) /\ Finished(x) => Sent(r)
  <1> DEFINE r == SendEmptyPacket(x, "ACK")
  <1>0. "ACK" \in Flags /\ "ACK" \notin RetxEvents /\ "ACK" \notin {"SYN", "SYN_ACK"}
    BY DEF Flags, RetxEvents
  <1>1. /\ r \in Working /\ SameSeq(r, x) /\ r.closeNotified = x.closeNotified
        /\ r.endPoint /\ r.st = x.st /\ r.told = x.told /\ r.lastAck = x.lastAck
        /\ r.retx = x.retx
    BY <1>0, SendLemma
  <1>2. Sent(x) /\ Finished(x) => Sent(r)
    BY <1>0, SentLemma
  <1> HIDE DEF r
  <1>3. Sound(r) /\ (Numbered(x) => Numbered(r))
    BY <1>1 DEF Sound, Numbered, SameSeq, Finished
  <1> QED BY <1>1, <1>2, <1>3 DEF r

LEMMA WaitOutcome ==
  ASSUME NEW s \in Working, s.endPoint, Sound(s), s.out = {}, NEW m \in Segments,
         s.st \in {"FIN_WAIT_1", "FIN_WAIT_2", "CLOSE_WAIT"}
  PROVE  Outcome(s, m, ProcessWait(s, m))
  <1> DEFINE acked == ReceivedAck(s, m.ack)
             finAcked == m.ack = s.highTx + 1
             taken == IF m.flag = "FIN_ACK" THEN SetFinSequence(acked, m.seq)
                      ELSE IF s.st = "FIN_WAIT_1" /\ finAcked
                      THEN [acked EXCEPT !.st = "FIN_WAIT_2"] ELSE acked
             x == IF taken.st = "FIN_WAIT_2" \/ finAcked THEN TimeWait(taken)
                  ELSE [taken EXCEPT !.st = "CLOSING"]
             r == ProcessWait(s, m)
  <1>0. /\ m.seq \in Nat /\ m.ack \in Nat /\ s.highTx \in Nat /\ s.nextRx \in Nat /\ Sent(s)
        /\ s.closeNotified => "normal" \in s.told
        /\ {"FIN_WAIT_1", "FIN_WAIT_2", "CLOSING"} \subseteq States
    BY DEF Segments, Working, Sent, Sound, States
  <1>1. CASE m.flag \in {"SYN", "SYN_ACK"}
    BY <1>0, <1>1, NothingDone DEF ProcessWait
  <1>2. CASE m.flag \in {"RST", "RST_ACK"}
    <2>1. r = ResetAndClose(s, m.flag)
      BY <1>2 DEF ProcessWait
    <2> QED BY <1>0, <2>1, ResetOutcome
  <1>3. CASE m.flag \in {"ACK", "FIN_ACK"}
    <2>1. r = IF taken.st = "CLOSE_WAIT" \/ ~ Finished(taken) THEN taken
              ELSE SendEmptyPacket(x, "ACK")
      BY <1>3 DEF ProcessWait
    <2>2. /\ acked \in Working /\ SameRest(acked, s)
          /\ acked.highTx = s.highTx /\ acked.nextRx = s.nextRx /\ acked.finSeq = s.finSeq
          /\ \/ acked.retx = s.retx
             \/ acked.retx = IF s.st = "FIN_WAIT_1" THEN "ReTxTimeout" ELSE "none"
          /\ s.nextTx >= 1 => acked.nextTx >= 1
      BY <1>0, ReceivedAckLemma
    <2> HIDE DEF acked, taken
    <2>3. /\ taken \in Working /\ taken.endPoint /\ taken.out = {} /\ taken.told = s.told
          /\ taken.closeNotified = s.closeNotified /\ taken.retx = acked.retx
          /\ taken.nextTx = acked.nextTx /\ taken.highTx = s.highTx
          /\ \/ taken.st = s.st
             \/ taken.st = "FIN_WAIT_2" /\ s.st = "FIN_WAIT_1" /\ finAcked
          /\ \/ taken.finSeq = s.finSeq /\ taken.nextRx = s.nextRx
             \/ /\ m.flag = "FIN_ACK" /\ taken.finSeq = m.seq
                /\ taken.nextRx = IF s.nextRx = m.seq THEN m.seq + 1 ELSE s.nextRx
      <3>1. CASE m.flag = "FIN_ACK"
        <4> DEFINE t == SetFinSequence(acked, m.seq)
        <4>0. acked \in Working /\ m.seq \in Nat
          BY <1>0, <2>2
        <4>1. /\ t \in Working /\ SameRest(t, acked) /\ t.retx = acked.retx
              /\ t.nextTx = acked.nextTx /\ t.highTx = acked.highTx
              /\ t.finSeq = m.seq
              /\ t.nextRx = IF acked.nextRx = m.seq THEN m.seq + 1 ELSE acked.nextRx
          BY <4>0, SetFinLemma, Zenon
        <4>2. taken = t
          BY <3>1 DEF taken
        <4> HIDE DEF t
        <4> QED BY <2>2, <3>1, <4>1, <4>2 DEF SameRest
      <3>2. CASE m.flag # "FIN_ACK" /\ s.st = "FIN_WAIT_1" /\ finAcked
        <4> DEFINE t == [acked EXCEPT !.st = "FIN_WAIT_2"]
        <4>1. /\ t \in Working /\ SameSeq(t, acked) /\ t.st = "FIN_WAIT_2"
              /\ t.endPoint = acked.endPoint /\ t.retx = acked.retx /\ t.told = acked.told
              /\ t.out = acked.out /\ t.closeNotified = acked.closeNotified
          BY <1>0, <2>2, SetState
        <4>2. taken = t
          BY <3>2 DEF taken
        <4> HIDE DEF t
        <4> QED BY <2>2, <3>2, <4>1, <4>2 DEF SameRest, SameSeq
      <3>3. CASE m.flag # "FIN_ACK" /\ ~ (s.st = "FIN_WAIT_1" /\ finAcked)
        BY <1>0, <2>2, <3>3 DEF SameRest, taken
      <3> QED BY <3>1, <3>2, <3>3
    <2>4. Sound(taken) /\ Sent(taken)
      BY <2>2, <2>3 DEF Sound, Sent, Awaiting, Handshake
    <2>5. Numbered(s) /\ Legal(m) => Numbered(taken)
      BY <1>0, <1>3, <2>2, <2>3, NoFinType DEF Numbered, Legal, Handshake
    <2>6. Numbered(s) /\ finAcked /\ s.st # "CLOSE_WAIT" => m.ack >= 2
      BY <1>0 DEF Numbered, Handshake
    <2>7. Numbered(s) => Step(s, m, taken)
      <3>1. /\ Finished(taken) => Finished(s) \/ Took(m, taken)
            /\ taken.nextRx >= 2 => s.nextRx >= 2 \/ Took(m, taken)
        <4>1. CASE taken.finSeq = s.finSeq /\ taken.nextRx = s.nextRx
          BY <4>1 DEF Finished
        <4>2. CASE m.flag = "FIN_ACK" /\ taken.finSeq = m.seq /\ s.nextRx = m.seq
          BY <1>0, <2>3, <4>2, NoFinType DEF Took, Finished
        <4>3. CASE m.flag = "FIN_ACK" /\ taken.finSeq = m.seq /\ s.nextRx # m.seq
          BY <1>0, <2>3, <4>3 DEF Took
        <4> QED BY <2>3, <4>1, <4>2, <4>3
      <3> HIDE DEF finAcked
      <3> QED BY <1>3, <2>3, <2>6, <3>1 DEF Step
    <2>8. CASE taken.st = "CLOSE_WAIT" \/ ~ Finished(taken)
      BY <2>1, <2>3, <2>4, <2>5, <2>7, <2>8 DEF Outcome
    <2>9. CASE ~ (taken.st = "CLOSE_WAIT" \/ ~ Finished(taken))
      <3> DEFINE a == SendEmptyPacket(x, "ACK")
      <3>1. /\ x \in Working /\ SameSeq(x, taken) /\ x.endPoint /\ x.out = {}
            /\ "normal" \in x.told \/ (x.told = s.told /\ x.closeNotified = s.closeNotified)
            /\ \/ x.st = "TIME_WAIT" /\ x.retx = "none"
                  /\ (taken.st = "FIN_WAIT_2" \/ finAcked)
               \/ x.st = "CLOSING" /\ x.retx = taken.retx /\ taken.st = "FIN_WAIT_1"
        <4>1. CASE taken.st = "FIN_WAIT_2" \/ finAcked
          BY <1>0, <2>3, <4>1, TimeWaitLemma
        <4>2. CASE ~ (taken.st = "FIN_WAIT_2" \/ finAcked)
          <5> DEFINE t == [taken EXCEPT !.st = "CLOSING"]
          <5>1. /\ t \in Working /\ SameSeq(t, taken) /\ t.st = "CLOSING"
                /\ t.endPoint = taken.endPoint /\ t.retx = taken.retx /\ t.told = taken.told
                /\ t.out = taken.out /\ t.closeNotified = taken.closeNotified
            <6>1. taken \in Working /\ "CLOSING" \in States
              BY <1>0, <2>3
            <6> HIDE DEF t
            <6>2. PICK y \in States : y = "CLOSING"
              BY <6>1
            <6>3. t = [taken EXCEPT !.st = y]
              BY Zenon, <6>2 DEF t
            <6> QED BY <6>1, <6>2, <6>3, SetState
          <5>2. x = t
            BY <4>2
          <5> HIDE DEF t, x
          <5> QED BY <2>3, <2>9, <4>2, <5>1, <5>2
        <4> QED BY <4>1, <4>2
      <3> HIDE DEF x
      <3>2. Sound(x) /\ Finished(x) /\ Sent(x)
        BY <1>0, <2>3, <2>4, <2>9, <3>1 DEF Sound, Sent, SameSeq, Finished, Awaiting, Handshake
      <3>3. Numbered(s) /\ Legal(m) => Numbered(x)
        BY <2>3, <2>5, <2>9, <3>1 DEF Numbered, SameSeq, Finished, Handshake
      <3>4. Numbered(s) => Step(s, m, x)
        <4>1. /\ Finished(x) <=> Finished(taken)
              /\ x.nextRx = taken.nextRx
              /\ Took(m, x) <=> Took(m, taken)
          BY <3>1 DEF Took, SameSeq, Finished
        <4> HIDE DEF finAcked
        <4> QED BY <1>3, <2>3, <2>6, <2>7, <2>9, <3>1, <4>1 DEF Step
      <3>5. /\ a \in Working /\ SameSeq(a, x) /\ Sound(a) /\ a.st = x.st
            /\ Numbered(x) => Numbered(a)
            /\ Sent(a)
        BY <3>1, <3>2, AckLemma
      <3>6. r = a
        BY <2>1, <2>9
      <3> HIDE DEF a, r
      <3>7. Numbered(s) => Step(s, m, a)
        BY <3>4, <3>5 DEF Step, Took, SameSeq, Finished
      <3> QED BY <3>3, <3>5, <3>6, <3>7 DEF Outcome, r
    <2> QED BY <2>8, <2>9
  <1> QED BY <1>1, <1>2, <1>3 DEF Segments, Flags

LEMMA ClosingOutcome ==
  ASSUME NEW s \in Working, s.endPoint, Sound(s), s.out = {}, NEW m \in Segments,
         s.st = "CLOSING"
  PROVE  Outcome(s, m, ProcessClosing(s, m))
  <1> DEFINE r == ProcessClosing(s, m)
  <1>0. /\ m.seq \in Nat /\ m.ack \in Nat /\ s.nextRx \in Nat /\ Sent(s)
        /\ s.closeNotified => "normal" \in s.told
        /\ s.finSeq \in Nat \cup {NoFin}
    BY DEF Segments, Working, Sent, Sound
  <1>1. CASE m.flag = "ACK" /\ m.seq # s.nextRx
    BY <1>0, <1>1, NothingDone DEF ProcessClosing
  <1>2. CASE m.flag = "ACK" /\ m.seq = s.nextRx
    <2>1. r = TimeWait(s)
      BY <1>2 DEF ProcessClosing
    <2> HIDE DEF r
    <2>2. /\ r \in Working /\ SameSeq(r, s) /\ r.st = "TIME_WAIT" /\ r.endPoint = s.endPoint
          /\ r.retx = "none" /\ ~ r.lastAck /\ r.out = s.out /\ "normal" \in r.told
      BY <1>0, <2>1, TimeWaitLemma
    <2>3. Sound(r) /\ Sent(r)
      BY <2>2 DEF Sound, Sent, Awaiting, Handshake
    <2>4. Numbered(s) => Numbered(r)
      BY <2>2 DEF Numbered, SameSeq, Handshake
    <2>5. Numbered(s) => m.seq >= 2
      BY <1>0, <1>2, NoFinType DEF Numbered, Finished
    <2>6. Numbered(s) => Step(s, m, r)
      BY <1>2, <2>2, <2>5 DEF Step, SameSeq, Finished
    <2> QED BY <2>2, <2>3, <2>4, <2>6 DEF Outcome, r
  <1>3. CASE m.flag = "FIN_ACK"
    <2> DEFINE a == SendEmptyPacket(s, "ACK")
    <2>1. r = CloseAndNotify(a)
      BY <1>3 DEF ProcessClosing
    <2>2. /\ a \in Working /\ SameSeq(a, s) /\ Sound(a) /\ a.st = s.st /\ a.endPoint
          /\ Finished(s) => Sent(a)
      BY <1>0, AckLemma
    <2> HIDE DEF a, r
    <2>3. a.closeNotified => "normal" \in a.told
      BY <2>2 DEF Sound
    <2>4. /\ r \in Working /\ SameSeq(r, a) /\ Gone(r) /\ r.st = "CLOSED"
          /\ r.out = a.out /\ "normal" \in r.told
      BY <2>1, <2>2, <2>3, CloseAndNotifyLemma
    <2>5. SameSeq(r, s)
      BY <2>2, <2>4 DEF SameSeq
    <2>6. Sound(r) /\ (Numbered(s) => Numbered(r))
      BY <2>4, <2>5, GoneLemma
    <2>7. Numbered(s) => Sent(r)
      BY <2>2, <2>4 DEF Numbered, Sent, SameSeq, Finished
    <2>8. Step(s, m, r)
      BY <2>4, <2>5 DEF Step, SameSeq, Finished
    <2> QED BY <2>4, <2>6, <2>7, <2>8 DEF Outcome, r
  <1>4. CASE m.flag \notin {"ACK", "FIN_ACK"}
    <2>1. r = ResetAndClose(s, m.flag)
      BY <1>4 DEF ProcessClosing
    <2> QED BY <1>0, <2>1, ResetOutcome
  <1> QED BY <1>1, <1>2, <1>3, <1>4

LEMMA LastAckOutcome ==
  ASSUME NEW s \in Working, s.endPoint, Sound(s), s.out = {}, NEW m \in Segments,
         s.st = "LAST_ACK"
  PROVE  Outcome(s, m, ProcessLastAck(s, m))
  <1> DEFINE r == ProcessLastAck(s, m)
  <1>0. Sent(s)
    BY DEF Sent
  <1>1. r = s \/ r = CloseAndNotify(s) \/ r = ResetAndClose(s, m.flag)
    BY DEF ProcessLastAck
  <1> HIDE DEF r
  <1>2. Outcome(s, m, r)
    BY <1>0, <1>1, NothingDone, ResetOutcome
  <1> QED BY <1>2 DEF r

\* Whatever segment arrives in whatever state.
LEMMA ForwardUpOutcome ==
  ASSUME NEW s \in Working, s.endPoint, Sound(s), s.out = {}, NEW m \in Segments,
         NEW closes \in BOOLEAN
  PROVE  Outcome(s, m, DoForwardUp(s, m, closes))
  <1> DEFINE r == DoForwardUp(s, m, closes)
  <1>0. Sent(s)
    BY DEF Sent
  <1>1. CASE r = s
    BY <1>0, <1>1, NothingDone
  <1>2. CASE s.st = "SYN_SENT" /\ r = ProcessSynSent(s, m)
    BY <1>2, SynSentOutcome
  <1>3. CASE s.st = "SYN_RCVD" /\ r = ProcessSynRcvd(s, m, closes)
    BY <1>3, SynRcvdOutcome
  <1>4. CASE s.st = "ESTABLISHED" /\ r = ProcessEstablished(s, m, closes)
    BY <1>4, EstablishedOutcome
  <1>5. CASE s.st \in {"FIN_WAIT_1", "FIN_WAIT_2", "CLOSE_WAIT"} /\ r = ProcessWait(s, m)
    BY <1>5, WaitOutcome
  <1>6. CASE s.st = "CLOSING" /\ r = ProcessClosing(s, m)
    BY <1>6, ClosingOutcome
  <1>7. CASE s.st = "LAST_ACK" /\ r = ProcessLastAck(s, m)
    BY <1>7, LastAckOutcome
  <1>8. \/ r = s
        \/ s.st = "SYN_SENT" /\ r = ProcessSynSent(s, m)
        \/ s.st = "SYN_RCVD" /\ r = ProcessSynRcvd(s, m, closes)
        \/ s.st = "ESTABLISHED" /\ r = ProcessEstablished(s, m, closes)
        \/ s.st \in {"FIN_WAIT_1", "FIN_WAIT_2", "CLOSE_WAIT"} /\ r = ProcessWait(s, m)
        \/ s.st = "CLOSING" /\ r = ProcessClosing(s, m)
        \/ s.st = "LAST_ACK" /\ r = ProcessLastAck(s, m)
    BY DEF DoForwardUp
  <1> QED BY <1>1, <1>2, <1>3, <1>4, <1>5, <1>6, <1>7, <1>8

-----------------------------------------------------------------------------
(* Opening, the application's calls and the timers *)

\* An event in which nothing is received.
Quiet(s, r) ==
    /\ r \in Working /\ Sound(r) /\ SameSeq(r, s)
    /\ Numbered(s) => Numbered(r) /\ Sent(r)
    /\ r.st \in {"FIN_WAIT_2", "TIME_WAIT"} => r.st = s.st

LEMMA NewSocketType ==
  /\ NewSocket \in Working /\ NewSocket \in Sockets
  /\ NewSocket.retx = "none" /\ ~ NewSocket.lastAck /\ ~ NewSocket.endPoint
  /\ NewSocket.st = "CLOSED" /\ NewSocket.finSeq = NoFin /\ NewSocket.nextRx = 0
  /\ NewSocket.out = {} /\ NewSocket.nextTx = 0 /\ NewSocket.closeNotified = FALSE
  /\ NewSocket.synCount = SynRetries
  <1>1. /\ "CLOSED" \in States /\ "none" \in RetxEvents /\ SynRetries \in 0 .. SynRetries
        /\ DataRetries \in 0 .. DataRetries /\ NoFin \in Nat \cup {NoFin} /\ 0 \in Nat
        /\ {} \in SUBSET Notices /\ {} \in SUBSET Segments /\ {} \in {{}}
    BY RetriesType DEF States, RetxEvents
  <1>2. NewSocket \in Working
    BY <1>1, Zenon DEF NewSocket, Working
  <1>3. NewSocket \in Sockets
    BY <1>1, Zenon DEF NewSocket, Sockets
  <1> QED BY <1>2, <1>3 DEF NewSocket

\* The first SYN, and the answer to one.
LEMMA FirstSyn ==
  ASSUME NEW q \in Working, q.endPoint, q.retx = "none", q.synCount = SynRetries,
         q.finSeq = NoFin, q.closeNotified = FALSE, q.out = {}, q.nextTx = 0,
         q.st \in Handshake \cup {"CLOSED"}, NEW f \in {"SYN", "SYN_ACK"},
         NEW r, r = SendEmptyPacket(q, f)
  PROVE  /\ r \in Working /\ SameSeq(r, q) /\ r.endPoint /\ r.retx = f /\ r.st = q.st
         /\ r.closeNotified = FALSE /\ Sent(r)
  <1>1. f \in Flags /\ f \in RetxEvents
    BY DEF Flags, RetxEvents
  <1>2. q.synCount # 0
    BY RetriesType
  <1>3. /\ r \in Working /\ SameSeq(r, q) /\ r.closeNotified = q.closeNotified
        /\ r.endPoint /\ r.st = q.st
        /\ r.retx = IF q.retx = "none" /\ f \in RetxEvents THEN f ELSE q.retx
    BY <1>1, <1>2, SendLemma
  <1>4. Sent(q)
    BY DEF Sent
  <1>5. Sent(r)
    BY <1>1, <1>4, SentLemma
  <1> QED BY <1>1, <1>3, <1>5

LEMMA ConnectLemma ==
  Quiet(NewSocket, [SendEmptyPacket([NewSocket EXCEPT !.endPoint = TRUE], "SYN")
                        EXCEPT !.st = "SYN_SENT"])
  <1> DEFINE q == [NewSocket EXCEPT !.endPoint = TRUE]
             e == SendEmptyPacket(q, "SYN")
             r == [e EXCEPT !.st = "SYN_SENT"]
  <1>0. NewSocket \in Working
    BY NewSocketType
  <1>1. /\ q \in Working /\ SameSeq(q, NewSocket) /\ q.endPoint /\ q.retx = NewSocket.retx
        /\ q.finSeq = NewSocket.finSeq /\ q.closeNotified = NewSocket.closeNotified
        /\ q.out = NewSocket.out /\ q.nextTx = NewSocket.nextTx /\ q.st = NewSocket.st
        /\ q.synCount = NewSocket.synCount
    BY <1>0 DEF Working, SameSeq
  <1> HIDE DEF q
  <1>2. /\ e \in Working /\ SameSeq(e, q) /\ e.endPoint /\ e.retx = "SYN"
        /\ e.closeNotified = FALSE /\ Sent(e)
    BY <1>1, NewSocketType, FirstSyn
  <1> HIDE DEF e
  <1>3. /\ r \in Working /\ SameSeq(r, e) /\ r.st = "SYN_SENT" /\ r.endPoint = e.endPoint
        /\ r.retx = e.retx /\ r.told = e.told /\ r.out = e.out
        /\ r.closeNotified = e.closeNotified
    <2>1. "SYN_SENT" \in States
      BY DEF States
    <2> QED BY <1>2, <2>1, SetState
  <1> HIDE DEF r
  <1>4. SameSeq(r, NewSocket)
    BY <1>1, <1>2, <1>3 DEF SameSeq
  <1>5. r.finSeq = NoFin /\ r.nextTx = 0
    BY <1>4, NewSocketType DEF SameSeq
  <1>6. Sound(r)
    BY <1>2, <1>3, <1>5 DEF Sound
  <1>7. Numbered(r) /\ Sent(r)
    BY <1>2, <1>3, <1>5 DEF Numbered, Sent, Handshake, SameSeq, Finished
  <1> QED BY <1>3, <1>4, <1>6, <1>7 DEF Quiet, r, e, q

LEMMA ForkLemma ==
  ASSUME NEW m \in Segments
  PROVE  LET r == CompleteFork(m)
         IN  /\ r \in Working /\ Sound(r) /\ ~ Finished(r) /\ r.nextRx = m.seq + 1
             /\ r.st \notin {"FIN_WAIT_2", "TIME_WAIT"} /\ Numbered(r) /\ Sent(r)
  <1> DEFINE q == [NewSocket EXCEPT !.st = "SYN_RCVD", !.endPoint = TRUE,
                                    !.forked = TRUE, !.nextRx = m.seq + 1]
             r == CompleteFork(m)
  <1>0. NewSocket \in Working /\ m.seq + 1 \in Nat /\ "SYN_RCVD" \in States
    BY NewSocketType DEF Segments, States
  <1>1. q \in Working
    BY <1>0, Zenon DEF Working
  <1>2. /\ q.endPoint /\ q.retx = NewSocket.retx /\ q.st = "SYN_RCVD"
        /\ q.finSeq = NewSocket.finSeq /\ q.closeNotified = NewSocket.closeNotified
        /\ q.out = NewSocket.out /\ q.nextTx = NewSocket.nextTx
        /\ q.synCount = NewSocket.synCount /\ q.nextRx = m.seq + 1
    BY <1>0 DEF Working
  <1>3. r = SendEmptyPacket(q, "SYN_ACK")
    BY DEF CompleteFork
  <1> HIDE DEF q, r
  <1>4. /\ r \in Working /\ SameSeq(r, q) /\ r.endPoint /\ r.retx = "SYN_ACK" /\ r.st = q.st
        /\ r.closeNotified = FALSE /\ Sent(r)
    BY <1>1, <1>2, <1>3, NewSocketType, FirstSyn DEF Handshake
  <1>5. r.finSeq = NoFin /\ r.nextTx = 0 /\ r.nextRx = m.seq + 1 /\ r.st = "SYN_RCVD"
    BY <1>2, <1>4, NewSocketType DEF SameSeq
  <1>6. Sound(r) /\ ~ Finished(r)
    BY <1>4, <1>5 DEF Sound, Finished
  <1>7. Numbered(r)
    BY <1>4, <1>5 DEF Numbered, Handshake
  <1> QED BY <1>4, <1>5, <1>6, <1>7 DEF r

\* The FIN or the SYN is repeated, and the timer started again.
LEMMA RepeatLemma ==
  ASSUME NEW s \in Working, s.endPoint, Sound(s), s.out = {}, s.retx # "none",
         NEW f \in Flags \cap RetxEvents,
         s.retx = f \/ (f = "FIN_ACK" /\ s.st \in {"FIN_WAIT_1", "CLOSING"})
  PROVE  Quiet(s, SendEmptyPacket([s EXCEPT !.retx = "none"], f))
  <1> DEFINE q == [s EXCEPT !.retx = "none"]
             r == SendEmptyPacket(q, f)
  <1>1. /\ q \in Working /\ SameSeq(q, s) /\ q.endPoint /\ q.retx = "none" /\ q.st = s.st
        /\ q.out = s.out /\ q.told = s.told /\ q.closeNotified = s.closeNotified
        /\ q.lastAck = s.lastAck
    BY DEF Working, SameSeq, RetxEvents
  <1> HIDE DEF q
  <1>2. /\ r \in Working /\ SameSeq(r, q) /\ r.closeNotified = q.closeNotified
        /\ \/ /\ r.endPoint /\ r.st = q.st /\ r.told = q.told /\ r.lastAck = q.lastAck
              /\ r.retx = IF q.retx = "none" /\ f \in RetxEvents THEN f ELSE q.retx
           \/ Gone(r) /\ r.st = "CLOSED" /\ q.told \subseteq r.told
    BY <1>1, SendLemma
  <1>3. Numbered(s) => Sent(r)
    <2> SUFFICES ASSUME Numbered(s) PROVE Sent(r)
      OBVIOUS
    <2>1. Sent(q)
      BY <1>1 DEF Sent
    <2>2. f \in {"SYN", "SYN_ACK"} => q.nextTx = 0 /\ q.st \in Handshake \cup {"CLOSED"}
      BY <1>1 DEF Numbered, SameSeq, Handshake
    <2>3. f = "FIN_ACK" => q.nextTx >= 1
      BY <1>1 DEF Numbered, SameSeq, Handshake
    <2>4. f # "ACK"
      BY DEF RetxEvents
    <2> QED BY <1>1, <2>1, <2>2, <2>3, <2>4, SentLemma
  <1> HIDE DEF r
  <1>4. SameSeq(r, s)
    BY <1>1, <1>2 DEF SameSeq
  <1>5. CASE r.endPoint /\ r.st = q.st /\ r.told = q.told /\ r.retx = f
    <2>1. f # "none" /\ f # "ReTxTimeout"
      BY DEF Flags
    <2>2. Sound(r)
      BY <1>1, <1>2, <1>4, <1>5, <2>1 DEF Sound, SameSeq
    <2>3. Numbered(s) => Numbered(r)
      BY <1>1, <1>4, <1>5 DEF Numbered, SameSeq, Finished, Handshake
    <2> QED BY <1>1, <1>2, <1>3, <1>4, <1>5, <2>2, <2>3 DEF Quiet, r, q
  <1>6. CASE Gone(r) /\ r.st = "CLOSED" /\ q.told \subseteq r.told
    <2>1. r.closeNotified => "normal" \in r.told
      BY <1>1, <1>2, <1>6 DEF Sound
    <2>2. Sound(r) /\ (Numbered(s) => Numbered(r))
      BY <1>2, <1>4, <1>6, <2>1, GoneLemma
    <2> QED BY <1>2, <1>3, <1>4, <1>6, <2>2 DEF Quiet, r, q
  <1> QED BY <1>1, <1>2, <1>5, <1>6

LEMMA RetransmissionLemma ==
  ASSUME NEW s \in Working, Sound(s), s.out = {}, s.retx # "none"
  PROVE  LET q == [s EXCEPT !.retx = "none"]
         IN  Quiet(s, IF s.retx = "ReTxTimeout" THEN ReTxTimeout(q)
                      ELSE SendEmptyPacket(q, s.retx))
  <1> DEFINE q == [s EXCEPT !.retx = "none"]
  <1>0. s.endPoint
    BY DEF Sound
  <1>1. CASE s.retx # "ReTxTimeout"
    <2>1. s.retx \in Flags \cap RetxEvents
      BY <1>1 DEF Working, RetxEvents, Flags
    <2> QED BY <1>0, <1>1, <2>1, RepeatLemma
  <1>2. CASE s.retx = "ReTxTimeout"
    <2>1. /\ q \in Working /\ SameSeq(q, s) /\ q.endPoint = s.endPoint /\ q.retx = "none"
          /\ q.st = s.st /\ q.lastAck = s.lastAck
          /\ q.out = s.out /\ q.told = s.told /\ q.closeNotified = s.closeNotified
      BY DEF Working, SameSeq, RetxEvents
    <2>2. CASE s.st \in {"FIN_WAIT_1", "CLOSING"}
      <3>1. "FIN_ACK" \in Flags \cap RetxEvents
        BY DEF Flags, RetxEvents
      <3>2. Quiet(s, SendEmptyPacket(q, "FIN_ACK"))
        BY <1>0, <2>2, <3>1, RepeatLemma
      <3> HIDE DEF q
      <3>3. ReTxTimeout(q) = SendEmptyPacket(q, "FIN_ACK")
        BY <2>1, <2>2 DEF ReTxTimeout
      <3> QED BY <1>2, <3>2, <3>3 DEF q
    <2>3. CASE s.st = "FIN_WAIT_2"
      <3> HIDE DEF q
      <3>1. ReTxTimeout(q) = q
        BY <2>1, <2>3 DEF ReTxTimeout
      <3>2. Sound(q) /\ Sent(q)
        BY <2>1, <2>3 DEF Sound, Sent, Awaiting, Handshake
      <3>3. Numbered(s) => Numbered(q)
        BY <2>1, <2>3 DEF Numbered, SameSeq, Finished
      <3>4. Quiet(s, q)
        BY <2>1, <3>2, <3>3 DEF Quiet
      <3> QED BY <1>2, <3>1, <3>4 DEF q
    <2> QED BY <1>2, <2>2, <2>3 DEF Sound
  <1> QED BY <1>1, <1>2

LEMMA LastAckTimeoutLemma ==
  ASSUME NEW s \in Working, Sound(s), s.out = {}, s.lastAck
  PROVE  Quiet(s, LastAckTimeout([s EXCEPT !.lastAck = FALSE]))
  <1> DEFINE q == [s EXCEPT !.lastAck = FALSE]
             r == LastAckTimeout(q)
  <1>0. s.endPoint /\ Sent(s) /\ (s.closeNotified => "normal" \in s.told)
    BY DEF Sound, Sent
  <1>1. /\ q \in Working /\ SameSeq(q, s) /\ q.endPoint = s.endPoint /\ q.retx = s.retx
        /\ q.st = s.st /\ q.lastAck = FALSE /\ q.dataRetrCount = s.dataRetrCount
        /\ q.out = s.out /\ q.told = s.told /\ q.closeNotified = s.closeNotified
    BY DEF Working, SameSeq
  <1> HIDE DEF q
  <1>2. Sound(q) /\ Sent(q) /\ (Numbered(s) => Numbered(q))
    BY <1>1 DEF Sound, Sent, Numbered, SameSeq, Finished
  <1>3. CASE s.st # "LAST_ACK"
    <2>1. r = q
      BY <1>1, <1>3 DEF LastAckTimeout
    <2> QED BY <1>1, <1>2, <2>1 DEF Quiet, q
  <1>4. CASE s.st = "LAST_ACK" /\ s.dataRetrCount = 0
    <2> DEFINE t == [q EXCEPT !.told = q.told \cup {"error"}]
    <2>1. r = DeallocateEndPoint(t)
      BY <1>1, <1>4 DEF LastAckTimeout
    <2>2. q.told \cup {"error"} \in SUBSET Notices
      BY <1>1 DEF Working, Notices
    <2>3. t \in Working
      BY <1>1, <2>2, Zenon DEF Working
    <2>4. /\ t.told = q.told \cup {"error"} /\ t.endPoint = q.endPoint /\ t.out = q.out
          /\ t.closeNotified = q.closeNotified /\ t.st = q.st /\ SameSeq(t, q)
      BY <1>1 DEF Working, SameSeq
    <2> HIDE DEF t, r
    <2>5. /\ r \in Working /\ ~ r.endPoint /\ r.told = t.told /\ r.out = t.out
          /\ SameSeq(r, t) /\ r.closeNotified = t.closeNotified /\ r.st = t.st
          /\ r.retx = "none" /\ ~ r.lastAck
      BY <1>0, <1>1, <2>1, <2>3, <2>4, DeallocateLemma
    <2>6. SameSeq(r, s)
      BY <1>1, <2>4, <2>5 DEF SameSeq
    <2>7. Sound(r) /\ Sent(r)
      BY <1>0, <1>1, <1>4, <2>4, <2>5 DEF Sound, Sent, Handshake
    <2>8. Numbered(s) => Numbered(r)
      BY <1>1, <1>4, <2>4, <2>5, <2>6 DEF Numbered, SameSeq, Handshake
    <2> QED BY <1>1, <1>4, <2>4, <2>5, <2>6, <2>7, <2>8 DEF Quiet, r, q
  <1>5. CASE s.st = "LAST_ACK" /\ s.dataRetrCount # 0
    <2> DEFINE t == [q EXCEPT !.dataRetrCount = q.dataRetrCount - 1]
               e == SendEmptyPacket(t, "FIN_ACK")
    <2>1. r = [e EXCEPT !.lastAck = TRUE]
      BY <1>1, <1>5 DEF LastAckTimeout
    <2>2. q.dataRetrCount - 1 \in 0 .. DataRetries
      BY <1>1, <1>5, RetriesType DEF Working
    <2>3. t \in Working
      BY <1>1, <2>2, Zenon DEF Working
    <2>4. /\ t.told = q.told /\ t.endPoint = q.endPoint /\ t.out = q.out /\ t.retx = q.retx
          /\ t.closeNotified = q.closeNotified /\ t.st = q.st /\ SameSeq(t, q)
      BY <1>1 DEF Working, SameSeq
    <2>5. "FIN_ACK" \in Flags /\ "FIN_ACK" \notin {"SYN", "SYN_ACK"}
      BY DEF Flags
    <2> HIDE DEF t
    <2>6. /\ e \in Working /\ SameSeq(e, t) /\ e.closeNotified = t.closeNotified
          /\ e.endPoint /\ e.st = t.st /\ e.told = t.told
          /\ e.retx = t.retx \/ t.retx = "none"
      BY <1>0, <1>1, <2>3, <2>4, <2>5, SendLemma
    <2>7. Numbered(s) => Sent(e)
      <3>1. Sent(t)
        BY <1>1, <2>4 DEF Sent
      <3>2. Numbered(s) => t.nextTx >= 1
        BY <1>1, <1>5, <2>4 DEF Numbered, SameSeq, Handshake
      <3> QED BY <1>0, <1>1, <2>3, <2>4, <2>5, <3>1, <3>2, SentLemma
    <2> HIDE DEF e, r
    <2>8. /\ r \in Working /\ SameSeq(r, e) /\ r.st = e.st /\ r.endPoint = e.endPoint
          /\ r.retx = e.retx /\ r.told = e.told /\ r.out = e.out
          /\ r.closeNotified = e.closeNotified
      BY <2>1, <2>6 DEF Working, SameSeq
    <2>9. s.retx \notin {"none", "ReTxTimeout"} /\ r.retx = s.retx
      BY <1>0, <1>1, <1>5, <2>4, <2>6, <2>8 DEF Sound, Awaiting
    <2>10. SameSeq(r, s)
      BY <1>1, <2>4, <2>6, <2>8 DEF SameSeq
    <2>11. Sound(r)
      BY <1>0, <1>1, <1>5, <2>4, <2>6, <2>8, <2>9 DEF Sound, Handshake
    <2>12. Numbered(s) => Numbered(r)
      BY <1>1, <1>5, <2>4, <2>6, <2>8, <2>9, <2>10 DEF Numbered, SameSeq, Handshake
    <2>13. Numbered(s) => Sent(r)
      BY <2>7, <2>8 DEF Sent, SameSeq, Finished
    <2> QED BY <1>1, <2>4, <2>6, <2>8, <2>10, <2>11, <2>12, <2>13 DEF Quiet, r, q
  <1> QED BY <1>3, <1>4, <1>5

LEMMA TimeWaitTimerLemma ==
  ASSUME NEW s \in Working, s.endPoint, Sound(s), s.out = {}
  PROVE  Quiet(s, CloseAndNotify(s))
  <1> DEFINE r == CloseAndNotify(s)
  <1>0. Sent(s) /\ (s.closeNotified => "normal" \in s.told)
    BY DEF Sent, Sound
  <1> HIDE DEF r
  <1>1. r \in Working /\ SameSeq(r, s) /\ Gone(r) /\ r.st = "CLOSED" /\ "normal" \in r.told
           /\ Sent(r)
    BY <1>0, ResetLemma DEF r
  <1>2. Sound(r) /\ (Numbered(s) => Numbered(r))
    BY <1>1, GoneLemma
  <1> QED BY <1>1, <1>2 DEF Quiet, r

-----------------------------------------------------------------------------
(* The two nodes and the network *)

\* Each of the two nodes is the peer of the other.
LEMMA PeerLemma ==
  ASSUME NEW n \in Nodes
  PROVE  Peer(n) \in Nodes /\ Peer(n) # n /\ Peer(Peer(n)) = n
  <1> DEFINE rest == Nodes \ {n}
  <1>1. IsFiniteSet(rest) /\ Cardinality(rest) = 1
    BY NodesAssumption, FS_RemoveElement
  <1>2. PICK p : rest = {p}
    BY <1>1, FS_Singleton
  <1>3. p \in Nodes /\ p # n /\ \A x \in Nodes : x # n => x = p
    BY <1>2
  <1>4. Peer(n) \in Nodes /\ Peer(n) # n
    BY <1>3 DEF Peer
  <1>5. Peer(Peer(n)) \in Nodes /\ Peer(Peer(n)) # Peer(n)
    BY <1>4 DEF Peer
  <1> QED BY <1>3, <1>4, <1>5

LEMMA SocketsWork ==
  ASSUME NEW s \in Sockets
  PROVE  s \in Working /\ s.out = {}
  BY DEF Sockets, Working

\* The event is over: the segments have left.
LEMMA Emptied ==
  ASSUME NEW r \in Working
  PROVE  LET e == [r EXCEPT !.out = {}]
         IN  /\ e \in Sockets /\ SameSeq(e, r) /\ e.st = r.st
             /\ Sound(r) => Sound(e)
             /\ Numbered(r) => Numbered(e)
             /\ Finished(e) <=> Finished(r)
  <1> DEFINE e == [r EXCEPT !.out = {}]
  <1>1. e \in Sockets
    BY DEF Working, Sockets
  <1>2. /\ e.st = r.st /\ e.endPoint = r.endPoint /\ e.retx = r.retx /\ e.told = r.told
        /\ e.lastAck = r.lastAck /\ e.closeNotified = r.closeNotified
    BY DEF Working
  <1>3. SameSeq(e, r)
    BY DEF Working, SameSeq
  <1> HIDE DEF e
  <1>4. Finished(e) <=> Finished(r)
    BY <1>3 DEF SameSeq, Finished
  <1>5. (Sound(r) => Sound(e)) /\ (Numbered(r) => Numbered(e))
    BY <1>2, <1>3, <1>4 DEF SameSeq, Sound, Numbered
  <1> QED BY <1>1, <1>2, <1>3, <1>4, <1>5 DEF e

\* The inductive invariant of the timers and notices.
CInv == /\ TypeOK
        /\ \A n \in Nodes : sock[n] = NewSocket \/ Sound(sock[n])

\* A segment to a node that is evidence of the node's FIN having arrived.
Evidence(m) == \/ m.flag \in {"ACK", "FIN_ACK"} /\ m.ack >= 2
               \/ m.flag = "ACK" /\ m.seq >= 2

\* The inductive invariant of the sequence numbers.
NInv == /\ \A n \in Nodes : /\ Numbered(sock[n])
                            /\ Finished(sock[n]) \/ sock[n].nextRx >= 2 => Peer(n) \in finTaken
        /\ \A p \in net : Legal(p.seg) /\ (Evidence(p.seg) => p.to \in finTaken)
        /\ FinAcknowledged

\* What every event of a socket has to show.
LEMMA CommitLemma ==
  ASSUME CInv, NEW n \in Nodes, NEW rest \in SUBSET net, NEW r \in Working,
         Sound(r), Commit(n, rest, r),
         listening' = listening, finTaken \subseteq finTaken', finTaken' \subseteq Nodes
  PROVE  /\ CInv'
         /\ /\ NInv /\ Numbered(r) /\ Sent(r)
            /\ Finished(r) \/ r.nextRx >= 2 => Peer(n) \in finTaken'
            /\ r.st \in {"FIN_WAIT_2", "TIME_WAIT"} => n \in finTaken'
            => NInv'
  <1> DEFINE e == [r EXCEPT !.out = {}]
  <1>1. /\ e \in Sockets /\ SameSeq(e, r) /\ e.st = r.st /\ Sound(e)
        /\ Numbered(r) => Numbered(e)
        /\ Finished(e) <=> Finished(r)
    BY Emptied
  <1>2. sock' = [sock EXCEPT ![n] = e]
    BY DEF Commit
  <1> HIDE DEF e
  <1>3. sock \in [Nodes -> Sockets]
    BY DEF CInv, TypeOK
  <1>4. sock' \in [Nodes -> Sockets]
    BY <1>1, <1>2, <1>3
  <1>5. sock'[n] = e /\ \A x \in Nodes : x # n => sock'[x] = sock[x]
    BY <1>2, <1>3
  <1>6. PICK kept \in SUBSET r.out :
           net' = rest \cup {[to |-> Peer(n), seg |-> m] : m \in kept}
    BY DEF Commit, Transmit
  <1>7. \A p \in net' : p \in net \/ \E m \in r.out : p = [to |-> Peer(n), seg |-> m]
    BY <1>6
  <1>8. net' \subseteq [to : Nodes, seg : Segments]
    <2>1. \A m \in r.out : [to |-> Peer(n), seg |-> m] \in [to : Nodes, seg : Segments]
      BY PeerLemma DEF Working
    <2> QED BY <1>7, <2>1 DEF CInv, TypeOK
  <1>9. CInv'
    BY <1>1, <1>4, <1>5, <1>8 DEF CInv, TypeOK
  <1>10. ASSUME NInv, Numbered(r), Sent(r),
                Finished(r) \/ r.nextRx >= 2 => Peer(n) \in finTaken',
                r.st \in {"FIN_WAIT_2", "TIME_WAIT"} => n \in finTaken'
         PROVE  NInv'
    <2>1. e.nextRx = r.nextRx
      BY <1>1 DEF SameSeq
    <2>2. ASSUME NEW x \in Nodes
          PROVE  /\ Numbered(sock'[x])
                 /\ Finished(sock'[x]) \/ sock'[x].nextRx >= 2 => Peer(x) \in finTaken'
      <3>1. CASE x = n
        BY <1>1, <1>5, <1>10, <2>1, <3>1
      <3>2. CASE x # n
        <4>1. /\ Numbered(sock[x])
              /\ Finished(sock[x]) \/ sock[x].nextRx >= 2 => Peer(x) \in finTaken
          BY <1>10 DEF NInv
        <4> QED BY <1>5, <3>2, <4>1
      <3> QED BY <3>1, <3>2
    <2>3. ASSUME NEW p \in net'
          PROVE  Legal(p.seg) /\ (Evidence(p.seg) => p.to \in finTaken')
      <3>1. CASE p \in net
        BY <1>10, <3>1 DEF NInv
      <3>2. ASSUME NEW m \in r.out, p = [to |-> Peer(n), seg |-> m]
            PROVE  Legal(p.seg) /\ (Evidence(p.seg) => p.to \in finTaken')
        <4>1. p.seg = m /\ p.to = Peer(n)
          BY <3>2
        <4>2. /\ Legal(m) /\ m.ack = r.nextRx
              /\ m.flag = "ACK" /\ m.seq >= 2 => Finished(r)
          BY <1>10 DEF Sent
        <4> QED BY <1>10, <4>1, <4>2 DEF Evidence
      <3> QED BY <1>7, <3>1, <3>2
    <2>4. FinAcknowledged'
      BY <1>1, <1>5, <1>10 DEF FinAcknowledged, NInv
    <2> QED BY <2>2, <2>3, <2>4 DEF NInv
  <1> QED BY <1>9, <1>10

\* The events in which a socket receives nothing.
LEMMA QuietLemma ==
  ASSUME CInv, NEW n \in Nodes, NEW r, Quiet(sock[n], r), Commit(n, net, r),
         UNCHANGED <<listening, finTaken>>
  PROVE  CInv' /\ (NInv => NInv')
  <1>1. /\ r \in Working /\ Sound(r) /\ SameSeq(r, sock[n])
        /\ Numbered(sock[n]) => Numbered(r) /\ Sent(r)
        /\ r.st \in {"FIN_WAIT_2", "TIME_WAIT"} => r.st = sock[n].st
    BY DEF Quiet
  <1>2. finTaken \subseteq finTaken' /\ finTaken' \subseteq Nodes
    BY DEF CInv, TypeOK
  <1>3. NInv => /\ Numbered(r) /\ Sent(r)
                /\ Finished(r) \/ r.nextRx >= 2 => Peer(n) \in finTaken'
                /\ r.st \in {"FIN_WAIT_2", "TIME_WAIT"} => n \in finTaken'
    BY <1>1 DEF NInv, SameSeq, Finished, FinAcknowledged
  <1> QED BY <1>1, <1>2, <1>3, CommitLemma

LEMMA InitInv == Init => CInv /\ NInv
  <1> SUFFICES ASSUME Init PROVE CInv /\ NInv
    OBVIOUS
  <1>1. \A n \in Nodes : sock[n] = NewSocket
    BY DEF Init
  <1>2. CInv
    BY <1>1, NewSocketType DEF Init, CInv, TypeOK
  <1>3. Numbered(NewSocket) /\ ~ Finished(NewSocket)
    BY NewSocketType DEF Numbered, Handshake, Finished
  <1>4. NInv
    BY <1>1, <1>3, NewSocketType DEF Init, NInv, FinAcknowledged
  <1> QED BY <1>2, <1>4

\* Next, event by event.  A Close during the handshake is the one event that the
\* sequence numbers do not survive.
LEMMA NextInv ==
  ASSUME CInv, Next
  PROVE  CInv' /\ (ClosesEarly = FALSE /\ NInv => NInv')
  <1>1. PICK n \in Nodes : \/ Connect(n) \/ CloseListener(n) \/ Close(n) \/ ShutdownSend(n)
                           \/ Deliver(n) \/ Timers(n)
    BY DEF Next
  <1> DEFINE s == sock[n]
  <1>2. s \in Sockets
    BY DEF CInv, TypeOK
  <1>3. s \in Working /\ s.out = {} /\ Sent(s)
    BY <1>2, SocketsWork DEF Sent
  <1>4. s = NewSocket \/ Sound(s)
    BY DEF CInv
  <1>5. s.endPoint \/ s.retx # "none" \/ s.lastAck => Sound(s)
    BY <1>4, NewSocketType
  <1>6. CASE Connect(n)
    <2>1. Quiet(s, [SendEmptyPacket([s EXCEPT !.endPoint = TRUE], "SYN")
                        EXCEPT !.st = "SYN_SENT"])
      BY <1>6, ConnectLemma DEF Connect
    <2> QED BY <1>6, <2>1, QuietLemma DEF Connect
  <1>7. CASE CloseListener(n)
    BY <1>7 DEF CloseListener, CInv, NInv, TypeOK, FinAcknowledged
  <1>8. CASE Close(n)
    <2> DEFINE r == DoClose(s)
    <2>1. s.endPoint /\ Sound(s)
      BY <1>5, <1>8 DEF Close
    <2>2. /\ r \in Working /\ SameSeq(r, s) /\ Sound(r)
          /\ (Numbered(s) /\ s.st # "SYN_RCVD" => Numbered(r) /\ Sent(r))
          /\ r.st \in {"FIN_WAIT_2", "TIME_WAIT"} => r.st = s.st
      BY <1>3, <2>1, DoCloseLemma
    <2>3. Commit(n, net, r) /\ UNCHANGED <<listening, finTaken>>
      BY <1>8 DEF Close
    <2>4. ClosesEarly = FALSE => s.st # "SYN_RCVD"
      BY <1>8 DEF Close
    <2> HIDE DEF s, r
    <2>5. finTaken \subseteq finTaken' /\ finTaken' \subseteq Nodes
      BY <2>3 DEF CInv, TypeOK
    <2>6. ClosesEarly = FALSE => Quiet(s, r)
      BY <2>2, <2>4 DEF Quiet
    <2> QED BY <2>2, <2>3, <2>5, <2>6, CommitLemma, QuietLemma DEF s
  <1>9. CASE ShutdownSend(n)
    <2> DEFINE r == DoShutdownSend(s)
    <2>1. s.endPoint /\ Sound(s)
      BY <1>5, <1>9 DEF ShutdownSend
    <2>2. Quiet(s, r)
      BY <1>3, <2>1, DoShutdownSendLemma DEF Quiet
    <2> QED BY <1>9, <2>2, QuietLemma DEF ShutdownSend
  <1>10. ASSUME NEW m, ForwardUp(n, m)
         PROVE  CInv' /\ (NInv => NInv')
    <2> DEFINE p == [to |-> n, seg |-> m]
    <2>1. p \in net /\ s.endPoint /\ Sound(s)
      BY <1>5, <1>10 DEF ForwardUp
    <2>2. m \in Segments
      <3>1. p \in [to : Nodes, seg : Segments]
        BY <2>1 DEF CInv, TypeOK
      <3>2. p.seg \in Segments
        BY <3>1
      <3> QED BY <3>2
    <2>3. PICK closes \in BOOLEAN :
             LET r == DoForwardUp(s, m, closes)
             IN  /\ Commit(n, net \ {p}, r)
                 /\ finTaken' = IF Took(m, r) THEN finTaken \cup {Peer(n)} ELSE finTaken
      BY <1>10 DEF ForwardUp, Took
    <2> DEFINE r == DoForwardUp(s, m, closes)
    <2>4. Outcome(s, m, r)
      BY <1>3, <2>1, <2>2, ForwardUpOutcome
    <2>5. /\ Commit(n, net \ {p}, r) /\ listening' = listening
          /\ finTaken' = IF Took(m, r) THEN finTaken \cup {Peer(n)} ELSE finTaken
      BY <1>10, <2>3 DEF ForwardUp
    <2> HIDE DEF r
    <2>6. finTaken \subseteq finTaken' /\ finTaken' \subseteq Nodes
      BY <2>5, PeerLemma DEF CInv, TypeOK
    <2>7. NInv => Legal(m) /\ (Evidence(m) => n \in finTaken)
      <3>1. p.seg = m /\ p.to = n
        OBVIOUS
      <3> QED BY <2>1, <3>1 DEF NInv
    <2>8. NInv => Numbered(r) /\ Sent(r) /\ Step(s, m, r)
      BY <2>4, <2>7 DEF Outcome, NInv
    <2>9. NInv => (Finished(r) \/ r.nextRx >= 2 => Peer(n) \in finTaken')
      BY <2>5, <2>8 DEF Step, NInv
    <2>10. NInv => (r.st \in {"FIN_WAIT_2", "TIME_WAIT"} => n \in finTaken')
      BY <2>6, <2>7, <2>8 DEF Step, NInv, FinAcknowledged, Evidence
    <2>11. net \ {p} \in SUBSET net /\ r \in Working /\ Sound(r)
      BY <2>4 DEF Outcome
    <2> QED BY <2>5, <2>6, <2>8, <2>9, <2>10, <2>11, CommitLemma
  <1>11. ASSUME NEW m, ForwardToListener(n, m)
         PROVE  CInv' /\ (NInv => NInv')
    <2> DEFINE p == [to |-> n, seg |-> m]
               rest == net \ {p}
               r == CompleteFork(m)
    <2>1. p \in net /\ UNCHANGED <<listening, finTaken>>
      BY <1>11 DEF ForwardToListener
    <2>2. m \in Segments
      <3>1. p \in [to : Nodes, seg : Segments]
        BY <2>1 DEF CInv, TypeOK
      <3>2. p.seg \in Segments
        BY <3>1
      <3> QED BY <3>2
    <2>3. CASE m.flag = "SYN"
      <3>1. Commit(n, rest, r)
        BY <1>11, <2>3 DEF ForwardToListener
      <3>2. /\ r \in Working /\ Sound(r) /\ ~ Finished(r) /\ r.nextRx = m.seq + 1
            /\ r.st \notin {"FIN_WAIT_2", "TIME_WAIT"} /\ Numbered(r) /\ Sent(r)
        BY <2>2, ForkLemma
      <3> HIDE DEF r
      <3>3. NInv => r.nextRx = 1
        <4>1. p.seg = m
          OBVIOUS
        <4> QED BY <2>1, <2>3, <3>2, <4>1 DEF NInv, Legal
      <3>4. finTaken \subseteq finTaken' /\ finTaken' \subseteq Nodes
        BY <2>1 DEF CInv, TypeOK
      <3>5. rest \in SUBSET net
        OBVIOUS
      <3> QED BY <2>1, <3>1, <3>2, <3>3, <3>4, <3>5, CommitLemma
    <2>4. CASE m.flag # "SYN"
      <3>1. net' = rest /\ sock' = sock
        BY <1>11, <2>4 DEF ForwardToListener
      <3> QED BY <2>1, <3>1 DEF CInv, NInv, TypeOK, FinAcknowledged
    <2> QED BY <2>3, <2>4
  <1>12. ASSUME NEW m, Refuse(n, m)
         PROVE  CInv' /\ (NInv => NInv')
    <2> DEFINE p == [to |-> n, seg |-> m]
               N == NoEndPointsFound(m)
    <2>1. p \in net /\ UNCHANGED <<sock, listening, finTaken>> /\ Transmit(n, net \ {p}, N)
      BY <1>12 DEF Refuse
    <2>2. m \in Segments
      <3>1. p \in [to : Nodes, seg : Segments]
        BY <2>1 DEF CInv, TypeOK
      <3>2. p.seg \in Segments
        BY <3>1
      <3> QED BY <3>2
    <2>3. \A x \in N : x \in Segments /\ Legal(x) /\ ~ Evidence(x)
      <3>1. m.seq + 1 \in Nat /\ m.ack \in Nat /\ {"RST", "RST_ACK"} \subseteq Flags
        BY <2>2 DEF Segments, Flags
      <3>2. \/ N = {}
            \/ N = {[flag |-> "RST_ACK", seq |-> 0, ack |-> m.seq + 1]}
            \/ N = {[flag |-> "RST", seq |-> m.ack, ack |-> 0]}
        BY DEF NoEndPointsFound
      <3> HIDE DEF N
      <3> QED BY <3>1, <3>2 DEF Segments, Legal, Evidence
    <2>4. \A q \in net' : q \in net \/ \E x \in N : q = [to |-> Peer(n), seg |-> x]
      BY <2>1 DEF Transmit
    <2> HIDE DEF N
    <2>5. \A x \in N : LET q == [to |-> Peer(n), seg |-> x]
                       IN  /\ q \in [to : Nodes, seg : Segments]
                           /\ q.seg = x
      BY <2>3, PeerLemma
    <2>6. CInv'
      BY <2>1, <2>4, <2>5 DEF CInv, TypeOK
    <2>7. NInv => NInv'
      BY <2>1, <2>3, <2>4, <2>5 DEF NInv, FinAcknowledged
    <2> QED BY <2>6, <2>7
  <1>13. CASE Deliver(n)
    BY <1>10, <1>11, <1>12, <1>13 DEF Deliver
  <1>14. CASE RetransmissionTimer(n)
    <2> DEFINE q == [s EXCEPT !.retx = "none"]
               r == IF s.retx = "ReTxTimeout" THEN ReTxTimeout(q)
                    ELSE SendEmptyPacket(q, s.retx)
    <2>1. s.retx # "none" /\ Commit(n, net, r) /\ UNCHANGED <<listening, finTaken>>
      BY <1>14 DEF RetransmissionTimer
    <2>2. Quiet(s, r)
      BY <1>3, <1>5, <2>1, RetransmissionLemma
    <2> HIDE DEF r
    <2> QED BY <2>1, <2>2, QuietLemma
  <1>15. CASE LastAckTimer(n)
    <2>1. Quiet(s, LastAckTimeout([s EXCEPT !.lastAck = FALSE]))
      BY <1>3, <1>5, <1>15, LastAckTimeoutLemma DEF LastAckTimer
    <2> QED BY <1>15, <2>1, QuietLemma DEF LastAckTimer
  <1>16. CASE TimeWaitTimer(n)
    <2>1. Quiet(s, CloseAndNotify(s))
      BY <1>3, <1>5, <1>16, TimeWaitTimerLemma DEF TimeWaitTimer
    <2> QED BY <1>16, <2>1, QuietLemma DEF TimeWaitTimer
  <1> QED BY <1>1, <1>6, <1>7, <1>8, <1>9, <1>13, <1>14, <1>15, <1>16 DEF Timers

LEMMA StutterInv ==
  ASSUME CInv, UNCHANGED vars
  PROVE  CInv' /\ (NInv => NInv')
  BY DEF CInv, NInv, TypeOK, FinAcknowledged, vars

\* The invariant of the timers and notices holds, whatever the applications and
\* the network do.
THEOREM Invariance == Spec => []CInv
  <1>1. Init => CInv
    BY InitInv
  <1>2. CInv /\ [Next]_vars => CInv'
    BY NextInv, StutterInv
  <1> QED BY <1>1, <1>2, PTL DEF Spec

\* A socket that waits for the answer to its SYN or FIN has a timer to repeat it,
\* for any number of retries and any network: no sequence of SendEmptyPacket, NewAck,
\* DoPeerClose and timer events cancels m_retxEvent without a successor.
THEOREM TimersArmed == Spec => []Armed
  <1>1. CInv => Armed
    <2> SUFFICES ASSUME CInv, NEW n \in Nodes, sock[n].endPoint, sock[n].st \in Awaiting
                 PROVE  sock[n].retx # "none"
      BY DEF CInv, Armed
    <2> QED BY NewSocketType DEF CInv, Sound
  <1> QED BY <1>1, Invariance, PTL

\* A released socket has no timer and its application was notified, on every path
\* to DeallocateEndPoint.
THEOREM NothingLeft == Spec => []Released
  <1>1. CInv => Released
    <2> SUFFICES ASSUME CInv, NEW n \in Nodes, ~ sock[n].endPoint
                 PROVE  /\ sock[n].retx = "none" /\ ~ sock[n].lastAck
                        /\ sock[n] = NewSocket \/ sock[n].told # {}
      BY DEF Released
    <2> QED BY NewSocketType DEF CInv, Sound
  <1> QED BY <1>1, Invariance, PTL

\* When no application closes during the handshake, ProcessWait and ProcessClosing
\* take no other ACK for that of the FIN: FIN_WAIT_2 and TIME_WAIT are reached only
\* once the peer has accepted the FIN.
THEOREM FinDelivered ==
  ASSUME ClosesEarly = FALSE
  PROVE  Spec => []FinAcknowledged
  <1>1. Init => CInv /\ NInv
    BY InitInv
  <1>2. CInv /\ NInv /\ [Next]_vars => CInv' /\ NInv'
    BY NextInv, StutterInv
  <1>3. NInv => FinAcknowledged
    BY DEF NInv
  <1> QED BY <1>1, <1>2, <1>3, PTL DEF Spec

=============================================================================

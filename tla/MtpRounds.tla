----------------------------- MODULE MtpRounds -----------------------------
(***************************************************************************)
(* The events of the multithreaded simulator: the logical processes (LPs)  *)
(* of src/mtp/model/logical-process.cc, their event lists, clocks and      *)
(* mailboxes, and the time windows MtpInterface grants them.               *)
(*                                                                         *)
(* The order of the stages is taken from MtpStages, which MtpThreads       *)
(* shows the threads to keep to. Within a stage the LPs interleave freely, *)
(* one step per event dequeued and per call an event makes. The events are *)
(* those of an arbitrary network: an event may schedule others in its own  *)
(* LP at any delay, or on a node of another LP through a point-to-point    *)
(* link, whose delay the channel adds (PointToPointChannel::TransmitStart).*)
(* LP 0 is the public LP: its events belong to no node and may schedule    *)
(* events for any node at any delay.                                       *)
(***************************************************************************)
EXTENDS Integers, FiniteSets

CONSTANTS
    SystemCount,            \* g_systemCount
    Links,                  \* the pairs of LPs joined by a point-to-point link
    Delay,                  \* the smallest Delay of the channels of each pair
    Half,                   \* Time::Max() / 2, the end of simulation time
    InitialEvents,          \* bound: how many events are scheduled before Run
    OldUids,                \* bound: the uids in use before an automatic partition
    MaxEvents               \* bound: the number of the last event of a system

LP == 1 .. SystemCount
System == 0 .. SystemCount
Public == 0

\* Time::Max(), which Next() returns when there is nothing to run.
TimeMax == 2 * Half + 1

ASSUME RoundsAssumption ==
    /\ SystemCount \in Nat
    /\ Links \subseteq LP \X LP
    /\ \A i, j \in LP : <<i, j>> \in Links => i # j /\ <<j, i>> \in Links
    /\ Delay \in [Links -> Nat]
    /\ \A i, j \in LP : <<i, j>> \in Links => Delay[<<i, j>>] = Delay[<<j, i>>]
    /\ Half \in Nat \ {0}
    /\ MaxEvents \in Nat /\ OldUids \in Nat
    /\ InitialEvents \in 0 .. MaxEvents

VARIABLES
    phase, work,            \* the stage and each LP's progress (MtpStages)
    invoking,               \* the LP is inside an event's Invoke
    m_events,               \* the event list: a set of [impl, ts, uid]
    m_mailbox,              \* per receiver and sender: [impl, ts, sent, uid]
    m_currentTs, m_currentUid, m_uid, m_stop,
    leftover,               \* the systems whose m_currentUid InvokeNow has set
    g_smallestTime, g_nextPublicTime,
    created                 \* the number of each system's last event

control == <<phase, work>>
window == <<g_smallestTime, g_nextPublicTime>>
clocks == <<m_currentTs, m_currentUid, leftover>>
vars == <<control, invoking, m_events, m_mailbox, clocks, m_uid, m_stop, window,
          created>>

Stages == INSTANCE MtpStages

----------------------------------------------------------------------------
(* Lookahead and time window.                                               *)

\* Mutant: the links are not considered.
LookAheadUnbounded(i, la) == la = IF i = Public THEN 0 ELSE Half - 1

\* Mutant: Time::Max() as the lookahead of an LP without neighbours.
LookAheadOverflow(i, la) ==
    LET bounds == {TimeMax} \cup {Delay[l] : l \in {k \in Links : k[1] = i}}
    IN  IF i = Public THEN la = 0
        ELSE la \in bounds /\ \A b \in bounds : la <= b

\* LogicalProcess::CalculateLookAhead: la is the lookahead of system i.
IsLookAhead(i, la) ==
    LET bounds == {Half - 1} \cup {Delay[l] : l \in {k \in Links : k[1] = i}}
    IN  IF i = Public THEN la = 0
        ELSE la \in bounds /\ \A b \in bounds : la <= b

\* Mutant: the next public event does not limit the window.
GrantedPastPublic(i, ts) ==
    \E la \in 0 .. TimeMax : IsLookAhead(i, la) /\ ts <= g_smallestTime + la

\* Mutant: an event at the end of the window waits.
GrantedStrictly(i, ts) ==
    /\ ts < g_nextPublicTime
    /\ \E la \in 0 .. TimeMax : IsLookAhead(i, la) /\ ts < g_smallestTime + la

\* ts <= grantedTime, the end of the window that ProcessOneRound computes.
\* Neither of its two bounds changes while the LPs are processing.
Granted(i, ts) ==
    /\ ts <= g_nextPublicTime
    /\ \E la \in 0 .. TimeMax : IsLookAhead(i, la) /\ ts <= g_smallestTime + la

\* Next() <= grantedTime, and LP i has an event to dequeue.
Due(i) == ~ m_stop[i] /\ \E ev \in m_events[i] : Granted(i, ev.ts)

\* Mutant: the insertion order alone counts.
EarlierByUid(a, b) == a.uid < b.uid

\* The order of Scheduler::EventKey.
Earlier(a, b) == a.ts < b.ts \/ (a.ts = b.ts /\ a.uid < b.uid)

----------------------------------------------------------------------------
(* The first round opens with what was scheduled before it: by main(), which *)
(* runs as the public LP, events of that LP and messages from it; by the     *)
(* time-zero events that an automatic partition has invoked, events of their *)
(* systems and messages from them. Those events have left their uids, which  *)
(* are of the numbering before the partition, in m_currentUid (InvokeNow).   *)
(* After a manual partition no system has invoked anything.                  *)

Entry == [to : System, from : System, ts : 0 .. Half]

Legal(e) ==
    /\ e.from = Public \/ e.from \in leftover
    /\ \/ e.from = e.to
       \/ e.from = Public /\ e.to \in LP
       \/ <<e.from, e.to>> \in Links /\ e.ts >= Delay[<<e.from, e.to>>]

\* The events that system i has scheduled for itself before the n-th of all:
\* each of them incremented its m_uid.
OwnBefore(start, i, n) ==
    {k \in 1 .. n - 1 : start[k].from = i /\ start[k].to = i}

FirstUid(start, i, n) == 1 + Cardinality(OwnBefore(start, i, n))

\* lastUids are the values that m_currentUid can have.
FirstRound(smallestTime, nextPublicTime, lastUids) ==
    /\ phase = "process"
    /\ work = [i \in LP |-> "todo"]
    /\ invoking = [i \in System |-> FALSE]
    /\ m_currentUid \in [System -> lastUids]
    /\ leftover = {i \in System : m_currentUid[i] # 0}
    /\ \E start \in [1 .. InitialEvents -> {e \in Entry : Legal(e)}] :
         /\ m_events = [i \in System |->
              {[impl |-> <<i, n>>, ts |-> start[n].ts, uid |-> FirstUid(start, i, n)] :
                 n \in OwnBefore(start, i, InitialEvents + 1)}]
         /\ m_mailbox = [i \in System |-> [j \in System |->
              {[impl |-> <<j, n>>, ts |-> start[n].ts, sent |-> 0,
                uid |-> FirstUid(start, j, n)] :
                 n \in {k \in 1 .. InitialEvents :
                          start[k].to = i /\ start[k].from = j /\ i # j}}]]
         /\ m_uid = [i \in System |-> FirstUid(start, i, InitialEvents + 1)]
    /\ m_currentTs = [i \in System |-> 0]
    /\ m_stop = [i \in System |-> FALSE]
    /\ g_smallestTime = smallestTime
    /\ g_nextPublicTime = nextPublicTime
    /\ created = [i \in System |-> InitialEvents]

\* The initial values of the static variables.
Init == FirstRound(0, 0, 0 .. OldUids)

\* The values a finished simulation leaves: CalculateSmallestTime found nothing
\* to run, and Disable does not reset the two times. A simulation that is
\* started after Simulator::Destroy opens its first round with them. Only a manual
\* partition gets that far: a second automatic one calls Disable again, which
\* deletes the arrays of the first simulation twice.
RestartInit == FirstRound(Half, TimeMax, {0})

----------------------------------------------------------------------------
(* LogicalProcess::ProcessOneRound.                                         *)

\* A thread is executing ProcessOneRound of system i.
Processing(i) ==
    \/ i \in LP /\ phase = "process" /\ work[i] = "busy"
    \/ i = Public /\ phase = "public"

Begin(i) ==
    /\ Stages!Begin(i)
    /\ UNCHANGED <<invoking, m_events, m_mailbox, clocks, m_uid, m_stop, window,
                   created>>

\* Dequeue the earliest event, set the clock and call the event.
InvokeNext(i) ==
    /\ Processing(i)
    /\ ~ invoking[i]
    /\ Due(i)
    /\ \E ev \in m_events[i] :
         /\ \A other \in m_events[i] \ {ev} : Earlier(ev, other)
         /\ m_events' = [m_events EXCEPT ![i] = @ \ {ev}]
         /\ m_currentTs' = [m_currentTs EXCEPT ![i] = ev.ts]
         /\ m_currentUid' = [m_currentUid EXCEPT ![i] = ev.uid]
         /\ leftover' = leftover \ {i}
    /\ invoking' = [invoking EXCEPT ![i] = TRUE]
    /\ UNCHANGED <<control, m_mailbox, m_uid, m_stop, window, created>>

\* The event implementation that an event of system i creates next.
NewImpl(i) == <<i, created[i] + 1>>

\* Schedule, ScheduleNow and ScheduleWithContext for a node of the same LP.
Schedule(i) ==
    /\ invoking[i]
    /\ created[i] < MaxEvents
    /\ \E ts \in m_currentTs[i] .. Half :
         m_events' = [m_events EXCEPT ![i] =
                        @ \cup {[impl |-> NewImpl(i), ts |-> ts, uid |-> m_uid[i]]}]
    /\ m_uid' = [m_uid EXCEPT ![i] = @ + 1]
    /\ created' = [created EXCEPT ![i] = @ + 1]
    /\ UNCHANGED <<control, invoking, m_mailbox, clocks, m_stop, window>>

\* The delays at which an event of system i can reach a node of LP j.
Reach(i, j) ==
    IF i = Public THEN Nat
    ELSE {d \in Nat : <<i, j>> \in Links /\ d >= Delay[<<i, j>>]}

\* ScheduleWithContext for a node of another LP: m_uid is not incremented.
ScheduleWithContext(i, j) ==
    /\ invoking[i]
    /\ i # j
    /\ created[i] < MaxEvents
    /\ \E ts \in m_currentTs[i] .. Half :
         /\ ts - m_currentTs[i] \in Reach(i, j)
         /\ m_mailbox' = [m_mailbox EXCEPT ![j][i] =
              @ \cup {[impl |-> NewImpl(i), ts |-> ts,
                       sent |-> m_currentTs[i], uid |-> m_uid[i]]}]
    /\ created' = [created EXCEPT ![i] = @ + 1]
    /\ UNCHANGED <<control, invoking, m_events, clocks, m_uid, m_stop, window>>

\* MultithreadedSimulatorImpl::Stop sets the flag of every LP in turn. Done
\* at once it has the same effect: an LP reads only its own flag, and only to
\* stop dequeuing.
Stop(i) ==
    /\ invoking[i]
    /\ m_stop' = [j \in System |-> TRUE]
    /\ UNCHANGED <<control, invoking, m_events, m_mailbox, clocks, m_uid, window,
                   created>>

\* The event returns.
Return(i) ==
    /\ invoking[i]
    /\ invoking' = [invoking EXCEPT ![i] = FALSE]
    /\ UNCHANGED <<control, m_events, m_mailbox, clocks, m_uid, m_stop, window,
                   created>>

\* Nothing is left in the window.
EndRound(i) ==
    /\ Processing(i)
    /\ ~ invoking[i]
    /\ ~ Due(i)
    /\ Stages!End(i)
    /\ UNCHANGED <<invoking, m_events, m_mailbox, clocks, m_uid, m_stop, window,
                   created>>

----------------------------------------------------------------------------
(* The other stages.                                                        *)

EnterPublic ==
    /\ Stages!EnterPublic
    /\ UNCHANGED <<invoking, m_events, m_mailbox, clocks, m_uid, m_stop, window,
                   created>>

\* The public LP's ProcessOneRound ends.
EnterReceive ==
    /\ ~ invoking[Public]
    /\ ~ Due(Public)
    /\ Stages!EnterReceive
    /\ UNCHANGED <<invoking, m_events, m_mailbox, clocks, m_uid, m_stop, window,
                   created>>

\* The messages for LP i, with their senders.
Inbox(i) ==
    UNION {{[from |-> j, msg |-> m] : m \in m_mailbox[i][j]} : j \in System}

\* std::map visits the senders in order; each queue is sorted, greatest first,
\* and emptied from the back. Messages that compare equal keep no order.
Precedes(a, b) ==
    \/ a.from < b.from
    \/ /\ a.from = b.from
       /\ \/ a.msg.sent < b.msg.sent
          \/ a.msg.sent = b.msg.sent /\ a.msg.uid < b.msg.uid
          \/ /\ a.msg.sent = b.msg.sent /\ a.msg.uid = b.msg.uid
             /\ a.msg.ts < b.msg.ts

\* Mutant: the invalid uid of a message is kept.
ReceiveWithoutUid(i) ==
    /\ phase \in {"receive", "over"}
    /\ Stages!End(i)
    /\ m_events' = [m_events EXCEPT ![i] = @ \cup
         {[impl |-> a.msg.impl, ts |-> a.msg.ts, uid |-> 0] : a \in Inbox(i)}]
    /\ m_mailbox' = [m_mailbox EXCEPT ![i] = [j \in System |-> {}]]
    /\ UNCHANGED <<invoking, clocks, m_uid, m_stop, window, created>>

ReceiveMessages(i) ==
    /\ phase \in {"receive", "over"}
    /\ Stages!End(i)
    /\ \E rank \in [Inbox(i) -> 0 .. Cardinality(Inbox(i)) - 1] :
         /\ \A a, b \in Inbox(i) : rank[a] = rank[b] => a = b
         /\ \A a, b \in Inbox(i) : Precedes(a, b) => rank[a] < rank[b]
         /\ m_events' = [m_events EXCEPT ![i] = @ \cup
              {[impl |-> a.msg.impl, ts |-> a.msg.ts, uid |-> m_uid[i] + rank[a]] :
                 a \in Inbox(i)}]
    /\ m_uid' = [m_uid EXCEPT ![i] = @ + Cardinality(Inbox(i))]
    /\ m_mailbox' = [m_mailbox EXCEPT ![i] = [j \in System |-> {}]]
    /\ UNCHANGED <<invoking, clocks, m_stop, window, created>>

EnterCalc ==
    /\ Stages!EnterCalc
    /\ UNCHANGED <<invoking, m_events, m_mailbox, clocks, m_uid, m_stop, window,
                   created>>

\* The results of Next() for the events of some systems, and a default.
NextTimes(systems, default) ==
    {default} \cup
      UNION {{ev.ts : ev \in m_events[i]} : i \in {k \in systems : ~ m_stop[k]}}

\* Mutant: the public LP is not asked.
isLocalFinishedOrPublic(i) == m_stop[i] \/ i = Public \/ m_events[i] = {}

isLocalFinished(i) == m_stop[i] \/ m_events[i] = {}

\* Mutant: the search for the smallest time starts from Time::Max().
LatestTimeMax == TimeMax

\* The value that the search for the smallest time starts from.
LatestTime == Half

CalculateSmallestTime ==
    /\ phase = "calc"
    /\ g_smallestTime' \in NextTimes(System, LatestTime)
    /\ \A ts \in NextTimes(System, LatestTime) : g_smallestTime' <= ts
    /\ g_nextPublicTime' \in NextTimes({Public}, TimeMax)
    /\ \A ts \in NextTimes({Public}, TimeMax) : g_nextPublicTime' <= ts
    /\ IF \A i \in System : isLocalFinished(i)
       THEN Stages!Finish
       ELSE Stages!NextRound
    /\ UNCHANGED <<invoking, m_events, m_mailbox, clocks, m_uid, m_stop, created>>

----------------------------------------------------------------------------
(* MtpInterface::ScheduleGlobal: an event of any LP has a function called   *)
(* by the public LP, at the earliest time that is still pending anywhere.   *)

\* Mutant: the function is to run at once, at time zero.
ScheduleGlobalAtZero(i) ==
    /\ invoking[i]
    /\ created[i] < MaxEvents
    /\ m_events' = [m_events EXCEPT ![Public] =
         @ \cup {[impl |-> NewImpl(i), ts |-> 0, uid |-> m_uid[Public]]}]
    /\ m_uid' = [m_uid EXCEPT ![Public] = @ + 1]
    /\ created' = [created EXCEPT ![i] = @ + 1]
    /\ UNCHANGED <<control, invoking, m_mailbox, clocks, m_stop, window>>

ScheduleGlobal(i) ==
    /\ invoking[i]
    /\ created[i] < MaxEvents
    /\ \E ts \in {g_smallestTime, g_nextPublicTime} :
         /\ ts <= g_smallestTime /\ ts <= g_nextPublicTime
         /\ m_events' = [m_events EXCEPT ![Public] =
              @ \cup {[impl |-> NewImpl(i), ts |-> ts, uid |-> m_uid[Public]]}]
    /\ m_uid' = [m_uid EXCEPT ![Public] = @ + 1]
    /\ created' = [created EXCEPT ![i] = @ + 1]
    /\ UNCHANGED <<control, invoking, m_mailbox, clocks, m_stop, window>>

----------------------------------------------------------------------------

Event(i) ==
    \/ InvokeNext(i)
    \/ Schedule(i)
    \/ \E j \in LP : ScheduleWithContext(i, j)
    \/ Stop(i)
    \/ Return(i)

\* Run has returned, and no worker is left.
Returned == phase = "over" /\ UNCHANGED vars

Next ==
    \/ \E i \in System : Event(i)
    \/ \E i \in LP : Begin(i) \/ EndRound(i) \/ ReceiveMessages(i)
    \/ EnterPublic
    \/ EnterReceive
    \/ EnterCalc
    \/ CalculateSmallestTime
    \/ Returned

SafeSpec == Init /\ [][Next]_vars

\* A simulation that is started in a process that has run one before.
RestartSpec == RestartInit /\ [][Next]_vars

\* Programs that also use ScheduleGlobal. Some thread always makes a step
\* (MtpThreads), and every event returns.
GlobalNext == Next \/ \E i \in System : ScheduleGlobal(i)
GlobalSpec == Init /\ [][GlobalNext]_vars /\ WF_vars(GlobalNext)

----------------------------------------------------------------------------
(* Properties.                                                              *)

Impl == System \X (1 .. MaxEvents)
EventSet == [impl : Impl, ts : 0 .. Half, uid : Nat]
MessageSet == [impl : Impl, ts : 0 .. Half, sent : 0 .. Half, uid : Nat]

TypeOK ==
    /\ phase \in Stages!Phase
    /\ work \in [LP -> {"todo", "busy", "done"}]
    /\ invoking \in [System -> BOOLEAN]
    /\ m_events \in [System -> SUBSET EventSet]
    /\ m_mailbox \in [System -> [System -> SUBSET MessageSet]]
    /\ m_currentTs \in [System -> 0 .. Half]
    /\ m_currentUid \in [System -> Nat]
    /\ leftover \subseteq System
    /\ m_uid \in [System -> Nat]
    /\ m_stop \in [System -> BOOLEAN]
    /\ g_smallestTime \in 0 .. Half
    /\ g_nextPublicTime \in 0 .. TimeMax
    /\ created \in [System -> 0 .. MaxEvents]

\* Causality: whatever the interleaving, no event and no message waits for an
\* LP that has already simulated a later time. DefaultSimulatorImpl asserts
\* this of every event it dequeues; LogicalProcess relies on the windows.
NoPast ==
    \A i \in System :
        /\ \A ev \in m_events[i] : ev.ts >= m_currentTs[i]
        /\ \A j \in System : \A m \in m_mailbox[i][j] : m.ts >= m_currentTs[i]

\* LogicalProcess::IsExpired, of an event that is neither null nor cancelled.
IsExpired(i, ev) ==
    \/ ev.ts < m_currentTs[i]
    \/ ev.ts = m_currentTs[i] /\ ev.uid <= m_currentUid[i]

\* The uid that InvokeNow has left in m_currentUid says nothing about the events
\* of the new numbering, and IsExpired compares them with it at time zero.
Misjudged(i, ev) == ev.ts = 0 /\ i \in leftover

\* An event that is still in the list looks expired only after an automatic
\* partition, when it is for time zero and its system has run no event since
\* InvokeNow. One event of a round puts that right, whatever else is pending or
\* still to be received.
PendingNotExpired ==
    \A i \in System : \A ev \in m_events[i] : IsExpired(i, ev) => Misjudged(i, ev)

\* Events that ScheduleGlobal hands over are never in the past of the public
\* LP, nor, with the same exception, do they look expired to it. (They may be in
\* the past of the LPs.)
PublicForward ==
    \A ev \in m_events[Public] :
        /\ ev.ts >= m_currentTs[Public]
        /\ IsExpired(Public, ev) => Misjudged(Public, ev)

\* A public event sees one global time: while it runs, no LP is ahead of it
\* and no LP has anything left to do before it.
PublicConsistent ==
    invoking[Public] =>
        \A i \in LP :
            /\ m_currentTs[i] <= m_currentTs[Public]
            /\ \A ev \in m_events[i] : ev.ts >= m_currentTs[Public]
            /\ \A j \in System : \A m \in m_mailbox[i][j] :
                 m.ts >= m_currentTs[Public]

\* The loop of ProcessOneRound compares Next() with the granted time before it
\* calls RemoveNext. On an empty list Next() is Time::Max(), which no window
\* may reach.
NeverDequeueEmpty == \A i \in System : ~ Granted(i, TimeMax)

\* Run returns with every event run, none left in a list or a mailbox, unless
\* the simulation was stopped.
NoLostEvents ==
    phase = "over" /\ (\A i \in System : ~ m_stop[i]) =>
        \A i \in System :
            m_events[i] = {} /\ \A j \in System : m_mailbox[i][j] = {}

\* The lower bound on pending times, the time of the next public event and the
\* clocks of the LPs never go back.
TimeForward ==
    [][/\ g_smallestTime' >= g_smallestTime
       /\ g_nextPublicTime' >= g_nextPublicTime
       /\ \A i \in System : m_currentTs'[i] >= m_currentTs[i]]_vars

\* With finitely many events, the rounds come to an end.
Termination == <>(phase = "over")

----------------------------------------------------------------------------
(* The inductive invariant behind these properties; MtpRoundsProofs proves  *)
(* that it is one.                                                          *)

\* No LP is ahead of the window: neither of the next public event nor of what
\* a neighbour can still send it.
AheadInv ==
    /\ \A i \in LP :
         /\ m_currentTs[i] <= g_nextPublicTime
         /\ \A k \in LP : <<i, k>> \in Links =>
              m_currentTs[i] <= g_smallestTime + Delay[<<i, k>>]
    /\ m_currentTs[Public] <= g_smallestTime
    /\ m_currentTs[Public] <= g_nextPublicTime

\* Nothing pending is before the smallest time; no public event is before the
\* next public time; no message reaches into the receiver's window.
PendingInv ==
    /\ \A i \in System : \A ev \in m_events[i] : ev.ts >= g_smallestTime
    /\ \A ev \in m_events[Public] : ev.ts >= g_nextPublicTime
    /\ \A i, j \in System : \A m \in m_mailbox[j][i] :
         /\ m.ts >= g_smallestTime
         /\ i = Public => m.ts >= g_nextPublicTime
         /\ i # Public => /\ <<j, i>> \in Links
                         /\ m.ts >= g_smallestTime + Delay[<<j, i>>]

\* Only an LP that processes runs an event, and not before the smallest time.
InvokingInv ==
    \A i \in System : invoking[i] =>
        /\ Processing(i)
        /\ m_currentTs[i] >= g_smallestTime
        /\ i = Public => m_currentTs[i] >= g_nextPublicTime

\* Messages are delivered by the end of the receive stage, and only to LPs.
MailInv ==
    /\ \A i \in System : IsFiniteSet(Inbox(i))
    /\ \A j \in System : m_mailbox[Public][j] = {}
    /\ \A i \in LP :
         phase \in {"calc", "over"} \/ (phase = "receive" /\ work[i] = "done")
           => \A j \in System : m_mailbox[i][j] = {}

\* Stop reaches all systems, and the end has only stopped or empty systems.
StopInv ==
    /\ \A i, j \in System : m_stop[i] => m_stop[j]
    /\ phase = "over" => \A i \in System : isLocalFinished(i)

\* A uid that InvokeNow has left goes with time zero.
UidInv ==
    \A i \in System :
        /\ IF i \in leftover THEN m_currentTs[i] = 0 ELSE m_currentUid[i] < m_uid[i]
        /\ \A ev \in m_events[i] : ev.uid < m_uid[i]

RInv == /\ TypeOK
        /\ NoPast
        /\ PendingNotExpired
        /\ phase # "over" => AheadInv /\ PendingInv
        /\ InvokingInv
        /\ MailInv
        /\ StopInv
        /\ UidInv

----------------------------------------------------------------------------
(* The rounds implement a discrete event simulation.                        *)

pendingBar ==
    (UNION {{[system |-> i, impl |-> ev.impl, ts |-> ev.ts] : ev \in m_events[i]} :
              i \in System})
      \cup (UNION {UNION {{[system |-> i, impl |-> m.impl, ts |-> m.ts] :
                             m \in m_mailbox[i][j]} : j \in System} : i \in System})

Simulation ==
    INSTANCE EventSimulation
    WITH clock <- m_currentTs, pending <- pendingBar, halted <- m_stop[Public]

\* Event lists and mailboxes together behave like one list per LP from which
\* the earliest event is always taken.
SimulationSpec == Simulation!Spec
=============================================================================

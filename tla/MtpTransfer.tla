---------------------------- MODULE MtpTransfer ----------------------------
(***************************************************************************)
(* The last part of MultithreadedSimulatorImpl::Partition: once the nodes  *)
(* are partitioned, the events that main() scheduled in the single LP it   *)
(* started with are handed over to the new LPs. Those of time zero are     *)
(* invoked on the spot (LogicalProcess::InvokeNow); while one runs it may  *)
(* schedule events in its LP or on nodes of other LPs, and cancel or       *)
(* remove events whose EventId it holds.                                   *)
(*                                                                         *)
(* Events are numbered in the order in which they are scheduled; the first *)
(* InitialEvents of them are those of main().                              *)
(***************************************************************************)
EXTENDS Integers, Sequences, FiniteSets, Functions

CONSTANTS
    SystemCount,            \* g_systemCount after the partition
    Node,
    NodeSystem,             \* the systemId that the partition gave each node
    NoContext,              \* Simulator::NO_CONTEXT
    MaxTime,                \* bound: the largest delay
    InitialEvents,          \* bound: the number of events main() schedules
    MaxEvents               \* bound: the number of events in all

LP == 1 .. SystemCount
System == 0 .. SystemCount
Public == 0

ASSUME TransferAssumption ==
    /\ SystemCount \in Nat
    /\ NodeSystem \in [Node -> LP]
    /\ NoContext \notin Node
    /\ MaxTime \in Nat
    /\ MaxEvents \in Nat
    /\ InitialEvents \in 0 .. MaxEvents

VARIABLES
    pc,                     \* "transfer", "invoke", "failed" or "done"
    running,                \* the LP of the event being invoked
    born,                   \* every event: [ts, system, uid, held]
    events,                 \* the old event list: numbers of events
    m_events,               \* the new event lists: sets of [impl, ts, uid]
    m_mailbox,              \* per receiver and sender: [impl, ts, sent, uid]
    m_currentTs, m_currentUid, m_uid,
    cancelled,              \* the events whose cancel bit is set
    removed,                \* the events that Remove has erased
    asked,                  \* the events Cancel was called for while they were to run
    invoked                 \* the events InvokeNow was called with, in order

lists == <<events, m_events, m_mailbox, m_uid>>
clocks == <<m_currentTs, m_currentUid>>
outcome == <<cancelled, removed, asked>>
vars == <<pc, running, born, lists, clocks, outcome, invoked>>

\* EventId::UID::VALID, where every LP's numbering starts.
VALID == 4

Context == Node \cup {NoContext}

\* The system that Partition and ScheduleWithContext look up for a context.
SystemOf(context) == IF context = NoContext THEN Public ELSE NodeSystem[context]

Initial == 1 .. InitialEvents
Impl == 1 .. MaxEvents

----------------------------------------------------------------------------

\* The old LP has numbered the events as they came. main() holds the EventIds
\* of those it scheduled without a context; ScheduleWithContext returns none.
Init ==
    /\ pc = "transfer"
    /\ running = Public
    /\ \E start \in [Initial -> [ts : 0 .. MaxTime, context : Context]] :
         born = [n \in Initial |->
                   [ts |-> start[n].ts, system |-> SystemOf(start[n].context),
                    uid |-> VALID + n - 1, held |-> start[n].context = NoContext]]
    /\ events = Initial
    /\ m_events = [i \in System |-> {}]
    /\ m_mailbox = [i \in System |-> [j \in System |-> {}]]
    /\ m_currentTs = [i \in System |-> 0]
    /\ m_currentUid = [i \in System |-> 0]
    /\ m_uid = [i \in System |-> VALID]
    /\ cancelled = {}
    /\ removed = {}
    /\ asked = {}
    /\ invoked = <<>>

\* Mutant: the event list is emptied from the other end.
RemoveLast(n) ==
    /\ pc = "transfer"
    /\ n \in events
    /\ \A k \in events \ {n} :
         born[k].ts < born[n].ts \/ (born[k].ts = born[n].ts /\ k < n)
    /\ events' = events \ {n}

\* events->RemoveNext().
RemoveNext(n) ==
    /\ pc = "transfer"
    /\ n \in events
    /\ \A k \in events \ {n} :
         born[n].ts < born[k].ts \/ (born[n].ts = born[k].ts /\ n < k)
    /\ events' = events \ {n}

\* LogicalProcess::InvokeNow. Invoke does nothing if the cancel bit is set.
InvokeNow(n) ==
    LET i == born[n].system
    IN  /\ RemoveNext(n)
        /\ born[n].ts = 0
        /\ m_currentTs' = [m_currentTs EXCEPT ![i] = 0]
        /\ m_currentUid' = [m_currentUid EXCEPT ![i] = born[n].uid]
        /\ running' = i
        /\ invoked' = Append(invoked, n)
        /\ pc' = IF n \in cancelled THEN "transfer" ELSE "invoke"
        /\ UNCHANGED <<born, m_events, m_mailbox, m_uid, outcome>>

\* An event gets LP i's next uid and goes into its event list.
Insert(i, n, ts) ==
    /\ m_events' = [m_events EXCEPT ![i] =
                      @ \cup {[impl |-> n, ts |-> ts, uid |-> m_uid[i]]}]
    /\ m_uid' = [m_uid EXCEPT ![i] = @ + 1]
    /\ UNCHANGED m_mailbox

\* Mutant: the mailbox of the sender is used.
SendToSelf(i, j, n, ts) ==
    /\ m_mailbox' = [m_mailbox EXCEPT ![i][i] =
         @ \cup {[impl |-> n, ts |-> ts, sent |-> m_currentTs[i], uid |-> m_uid[i]]}]
    /\ UNCHANGED <<m_events, m_uid>>

\* An event goes from LP i into LP j's mailbox; no uid is used up.
Send(i, j, n, ts) ==
    /\ m_mailbox' = [m_mailbox EXCEPT ![j][i] =
         @ \cup {[impl |-> n, ts |-> ts, sent |-> m_currentTs[i], uid |-> m_uid[i]]}]
    /\ UNCHANGED <<m_events, m_uid>>

\* Schedule or ScheduleWithContext, which the main thread calls as LP 0.
Transfer(n) ==
    LET ts == m_currentTs[Public] + born[n].ts
    IN  /\ RemoveNext(n)
        /\ born[n].ts # 0
        /\ IF born[n].system = Public
           THEN Insert(Public, n, ts)
           ELSE Send(Public, born[n].system, n, ts)
        /\ UNCHANGED <<pc, running, born, clocks, outcome, invoked>>

----------------------------------------------------------------------------
(* What an event does while it is invoked.                                  *)

New == Len(born) + 1

\* Schedule: the caller keeps the EventId.
Schedule ==
    /\ pc = "invoke"
    /\ New <= MaxEvents
    /\ \E delay \in 0 .. MaxTime :
         LET ts == m_currentTs[running] + delay
         IN  /\ Insert(running, New, ts)
             /\ born' = Append(born, [ts |-> ts, system |-> running,
                                      uid |-> m_uid[running], held |-> TRUE])
    /\ UNCHANGED <<pc, running, events, clocks, outcome, invoked>>

ScheduleWithContext(node) ==
    /\ pc = "invoke"
    /\ New <= MaxEvents
    /\ \E delay \in 0 .. MaxTime :
         LET ts == m_currentTs[running] + delay
             remote == SystemOf(node)
         IN  /\ IF remote = running
                THEN Insert(running, New, ts)
                ELSE Send(running, remote, New, ts)
             /\ born' = Append(born, [ts |-> ts, system |-> remote, uid |-> 0,
                                      held |-> FALSE])
    /\ UNCHANGED <<pc, running, events, clocks, outcome, invoked>>

\* The EventIds that an event of this LP can use on events of its LP.
Held == {n \in DOMAIN born : born[n].held /\ born[n].system = running}

Pending == DOMAIN born \ (Range(invoked) \cup removed)

\* Mutant: the uids are compared whatever the times.
IsExpiredByUid(n) ==
    \/ born[n].ts < m_currentTs[running]
    \/ born[n].uid <= m_currentUid[running]
    \/ n \in cancelled

\* MultithreadedSimulatorImpl::IsExpired and LogicalProcess::IsExpired.
IsExpired(n) ==
    \/ born[n].ts < m_currentTs[running]
    \/ born[n].ts = m_currentTs[running] /\ born[n].uid <= m_currentUid[running]
    \/ n \in cancelled

Cancel(n) ==
    /\ pc = "invoke"
    /\ n \in Held
    /\ asked' = asked \cup ({n} \cap Pending)
    /\ cancelled' = IF IsExpired(n) THEN cancelled ELSE cancelled \cup {n}
    /\ UNCHANGED <<pc, running, born, lists, clocks, removed, invoked>>

\* The entry of LP i's list that MapScheduler finds under the key of EventId n.
Found(n) == {ev \in m_events[running] : ev.ts = born[n].ts /\ ev.uid = born[n].uid}

\* The scheduler asserts that the entry it finds is the one to be removed. If
\* it is not, or there is none, the program stops or its behaviour is undefined.
Remove(n) ==
    /\ pc = "invoke"
    /\ n \in Held
    /\ \/ /\ IsExpired(n)
          /\ UNCHANGED <<pc, m_events, cancelled, removed>>
       \/ /\ ~ IsExpired(n)
          /\ \E ev \in Found(n) :
               /\ ev.impl = n
               /\ m_events' = [m_events EXCEPT ![running] = @ \ {ev}]
          /\ cancelled' = cancelled \cup {n}
          /\ removed' = removed \cup {n}
          /\ UNCHANGED pc
       \/ /\ ~ IsExpired(n)
          /\ \A ev \in Found(n) : ev.impl # n
          /\ pc' = "failed"
          /\ UNCHANGED <<m_events, cancelled, removed>>
    /\ UNCHANGED <<running, born, events, m_mailbox, m_uid, clocks, asked,
                   invoked>>

\* The event returns, and the main thread is LP 0 again.
Return ==
    /\ pc = "invoke"
    /\ pc' = "transfer"
    /\ running' = Public
    /\ UNCHANGED <<born, lists, clocks, outcome, invoked>>

Done ==
    /\ pc = "transfer"
    /\ events = {}
    /\ pc' = "done"
    /\ UNCHANGED <<running, born, lists, clocks, outcome, invoked>>

Ended == pc \in {"done", "failed"} /\ UNCHANGED vars

Next ==
    \/ \E n \in Impl :
         InvokeNow(n) \/ Transfer(n) \/ Cancel(n) \/ Remove(n)
    \/ \E node \in Node : ScheduleWithContext(node)
    \/ Schedule
    \/ Return
    \/ Done
    \/ Ended

Spec == Init /\ [][Next]_vars

----------------------------------------------------------------------------
(* Properties.                                                              *)

Time == 0 .. 2 * MaxTime

TypeOK ==
    /\ pc \in {"transfer", "invoke", "failed", "done"}
    /\ running \in System
    /\ born \in Seq([ts : Time, system : System, uid : Nat, held : BOOLEAN])
    /\ Len(born) \in InitialEvents .. MaxEvents
    /\ events \subseteq Initial
    /\ m_events \in [System -> SUBSET [impl : Impl, ts : Time, uid : Nat]]
    /\ m_mailbox \in
         [System -> [System -> SUBSET [impl : Impl, ts : Time, sent : Time, uid : Nat]]]
    /\ m_currentTs \in [System -> Time]
    /\ m_currentUid \in [System -> Nat]
    /\ m_uid \in [System -> Nat]
    /\ cancelled \subseteq Impl
    /\ removed \subseteq cancelled
    /\ asked \subseteq Impl
    /\ invoked \in Seq(Impl)

\* The copies of event n, each with the system that has it: in the old list,
\* invoked, removed, in a new list or in a mailbox.
Copies(n) ==
    {<<"old", born[n].system>> : k \in events \cap {n}}
      \cup {<<"past", born[n].system, k>> : k \in {l \in DOMAIN invoked : invoked[l] = n}}
      \cup {<<"removed", born[n].system>> : k \in removed \cap {n}}
      \cup (UNION {{<<"list", i, ev>> : ev \in {e \in m_events[i] : e.impl = n}} :
                     i \in System})
      \cup (UNION {UNION {{<<"mail", i, m>> : m \in {e \in m_mailbox[i][j] : e.impl = n}} :
                            j \in System} : i \in System})

\* Changing the LPs under the events of main() loses none of them, runs none
\* twice and leaves each with the LP of its node at the time it was scheduled
\* for, whatever the time-zero events schedule, cancel and remove meanwhile.
Conserved ==
    /\ TypeOK
    /\ \A n \in DOMAIN born :
          /\ Cardinality(Copies(n)) = 1
          /\ \A c \in Copies(n) :
               /\ c[2] = born[n].system
               /\ c[1] \in {"list", "mail"} => c[3].ts = born[n].ts

\* "Invoke initialization events (at time 0) by their insertion order": all of
\* them are invoked, in the order main() scheduled them, before the first
\* later event gets its new uid.
InitializationOrder ==
    /\ \A k, l \in DOMAIN invoked : k < l => invoked[k] < invoked[l]
    /\ \A i \in System :
         (\E ev \in m_events[i] : ev.impl \in Initial)
           \/ (\E m \in m_mailbox[i][Public] : m.impl \in Initial)
             => \A n \in events : born[n].ts > 0

\* An event that is cancelled while it is still to run has its cancel bit set,
\* so that its function will not be invoked, as Simulator::Cancel says. Only an
\* event that a time-zero event schedules for time zero may escape: its uid is
\* of the new numbering, and IsExpired compares it with one of the old.
CancelTakesEffect ==
    \A n \in asked \ cancelled : n > InitialEvents /\ born[n].ts = 0
=============================================================================

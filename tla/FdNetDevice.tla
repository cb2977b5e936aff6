---------------------------- MODULE FdNetDevice -----------------------------
(***************************************************************************)
(* A device that reads packets from a file descriptor (FdNetDevice with    *)
(* FdReader) under the realtime simulator.  The thread of the reader puts  *)
(* each packet into a queue and schedules ForwardUp with the simulator;    *)
(* ForwardUp, an event, takes one packet out again.  StopDevice, also an   *)
(* event, and the destroy event of the reader join the thread.             *)
(***************************************************************************)
EXTENDS RealtimeSimulator

CONSTANTS MaxPending,   \* m_maxPendingReads, attribute RxQueueSize
          MaxPackets,   \* bound on the packets that arrive
          Delays,       \* delays that events use
          Initial       \* sets of events that main() schedules before Run

ASSUME DeviceAssumption == MaxPending \in Nat /\ MaxPackets \in Nat /\ Delays \subseteq Nat

\* The uids count the calls of Schedule from 0.  The device is started once: a
\* second Start would assert that there is no thread yet.
ASSUME InitialAssumption ==
    \A S \in Initial :
       /\ IsFiniteSet(S)
       /\ S \subseteq [ts : Nat, uid : 0 .. Cardinality(S) - 1,
                       kind : {"StartDevice", "StopDevice", "other"}]
       /\ \A e, f \in S : e.uid = f.uid \/ (e.kind = "StartDevice" /\ f.kind = "StartDevice")
                           => e = f

VARIABLES queue,    \* the length of m_pendingQueue
          reader,   \* the thread, FdReader::m_stop, the event pipe and whether m_fd is open
          packets   \* packets that arrived at the file descriptor

vars == <<clock, origin, events, uid, unscheduled, current, flags, main,
          queue, reader, packets>>

devVars == <<queue, reader, packets>>

Init ==
    /\ \E initial \in Initial : SimInit(initial)
    /\ queue = 0
    /\ reader = [pc |-> "none", stop |-> FALSE, pipe |-> FALSE, fd |-> TRUE]
    /\ packets = 0

-----------------------------------------------------------------------------
(* The thread: FdReader::Run and ReceiveCallback *)

Reads(pc) == reader' = [reader EXCEPT !.pc = pc]

\* select returns for the pipe, which Stop has written to, or for a packet.
Select ==
    /\ reader.pc = "select"
    /\ \/ reader.pipe /\ reader.stop /\ Reads("done") /\ UNCHANGED packets
       \/ ~ reader.stop /\ packets < MaxPackets /\ packets' = packets + 1 /\ Reads("callback")
    /\ UNCHANGED <<queue, simVars>>

\* The end of the file
EndOfFile ==
    /\ reader.pc = "select" /\ ~ reader.stop
    /\ Reads("done")
    /\ UNCHANGED <<queue, packets, simVars>>

\* Mutant: a packet too many is not dropped, though no event is scheduled for it.
ReceiveCallbackQueueing ==
    /\ reader.pc = "callback"
    /\ queue' = queue + 1
    /\ Reads(IF queue >= MaxPending THEN "select" ELSE "schedule")
    /\ UNCHANGED <<packets, simVars>>

\* The critical section of the queue.  A packet too many is dropped.
ReceiveCallback ==
    /\ reader.pc = "callback"
    /\ IF queue >= MaxPending THEN Reads("select") /\ UNCHANGED queue
       ELSE Reads("schedule") /\ queue' = queue + 1
    /\ UNCHANGED <<packets, simVars>>

ScheduleForwardUp ==
    /\ reader.pc = "schedule"
    /\ ScheduleWithContext(0, "ForwardUp")
    /\ Reads("select")
    /\ UNCHANGED <<queue, packets>>

\* A thread of the program's own schedules an event while Run is called.
ThreadSchedules ==
    /\ main.pc \notin {"out", "origin", "destroyed"} /\ uid < MaxUid
    /\ \E d \in Delays : Now + d <= MaxTime /\ ScheduleWithContext(d, "other")
    /\ UNCHANGED devVars

ReaderNext == Select \/ EndOfFile \/ ReceiveCallback \/ ScheduleForwardUp

-----------------------------------------------------------------------------
(* The events *)

\* Without a file descriptor nothing happens.  ScheduleDestroy, which
\* FdReader::Start calls, takes a uid too.
StartDevice ==
    /\ Invoking("StartDevice")
    /\ IF reader.fd THEN Reads("select") /\ uid' = uid + 1 ELSE UNCHANGED <<reader, uid>>
    /\ Goto("loop")
    /\ UNCHANGED <<queue, packets, clock, origin, events, unscheduled, current, flags>>

\* StopDevice up to the join in FdReader::Stop
StopReader ==
    /\ reader' = [reader EXCEPT !.stop = TRUE, !.pipe = TRUE]
    /\ Goto("join")
    /\ UNCHANGED <<queue, packets, clock, origin, events, uid, unscheduled, current, flags>>

\* StopDevice is an event, and Simulator::Destroy, through the disposal of the
\* nodes, calls it again.
StopDevice ==
    /\ Invoking("StopDevice") \/ (At("out") /\ main.runs > 0)
    /\ StopReader

\* The rest of FdReader::Stop and of StopDevice
AfterJoin ==
    /\ reader' = [reader EXCEPT !.stop = FALSE, !.pipe = FALSE, !.fd = FALSE]
    /\ queue' = 0
    /\ Goto(IF flags.running THEN "loop" ELSE "destroyed")
    /\ UNCHANGED <<packets, clock, origin, events, uid, unscheduled, current, flags>>

Join == At("join") /\ reader.pc \in {"none", "done"} /\ AfterJoin

\* After StopDevice there may be events without a packet.
ForwardUp ==
    /\ Invoking("ForwardUp")
    /\ queue' = IF queue = 0 THEN 0 ELSE queue - 1
    /\ Returned
    /\ UNCHANGED <<reader, packets>>

\* Any other event: it may schedule, cancel or remove one and stop the simulator.
Other ==
    /\ Invoking("other")
    /\ \/ /\ uid < MaxUid
          /\ \E d \in Delays :
                \/ current.ts + d <= MaxTime /\ Schedule(d, "other")
                \/ Now + d <= MaxTime /\ ScheduleRealtime(d, "other")
       \/ \E e \in {f \in events : f.kind = "other"} : Remove(e) \/ Cancel(e)
       \/ ~ flags.stop /\ Stop
       \/ Returned
    /\ UNCHANGED devVars

\* EventImpl::Invoke does nothing for an event that is cancelled.
Cancelled == Invoking("cancelled") /\ Returned /\ UNCHANGED devVars

EventNext == StartDevice \/ StopDevice \/ Join \/ ForwardUp \/ Other \/ Cancelled

Next ==
    \/ MainNext /\ UNCHANGED devVars
    \/ EventNext
    \/ ReaderNext
    \/ ThreadSchedules
    \/ Tick /\ UNCHANGED devVars

Spec == Init /\ [][Next]_vars

\* Both threads get the processor and the clock goes on.
FairSpec ==
    /\ Spec
    /\ WF_vars(MainNext /\ UNCHANGED devVars) /\ WF_vars(EventNext)
    /\ WF_vars(ReaderNext)
    /\ WF_vars(Tick /\ UNCHANGED devVars)

-----------------------------------------------------------------------------
(* What the threads rely on *)

\* The types of the variables; m_unscheduledEvents is a count.
TypeOK ==
    /\ clock \in Nat /\ origin \in 0 .. clock
    /\ IsFiniteSet(events)
    /\ events \subseteq [ts : Nat, uid : 0 .. uid - 1,
                         kind : {"StartDevice", "StopDevice", "ForwardUp", "other", "cancelled"}]
    /\ unscheduled \in Nat
    /\ flags \in [running : BOOLEAN, stop : BOOLEAN, condition : BOOLEAN]
    /\ main.pc \in {"out", "origin", "loop", "look", "sync", "sleep", "drift", "spin", "take",
                    "invoke", "join", "destroyed"}
    /\ queue \in Nat
    /\ reader.pc \in {"none", "select", "callback", "schedule", "done"}

\* The NS_ASSERTs of ProcessOneEvent, NextTs, the Schedule methods and Run: a
\* main thread that has waited for an event finds one, no event is earlier
\* than the simulation time, and none got lost when Run returns.
AssertionsHold ==
    /\ TypeOK
    /\ At("look") \/ At("take") => events # {}
    /\ \A e \in events : e.ts >= current.ts
    /\ At("out") => events # {} \/ unscheduled = 0

\* No wake-up is lost: while the main thread sleeps or spins, an event that
\* comes before the one it waits for, or any event if it waits for none, has
\* set the condition that ends the wait.
Woken ==
    /\ At("sleep") \/ At("spin")
    /\ \E e \in events : main.idle \/ e.ts < main.target
    => flags.condition

\* Events are run by time and, at the same time, in the order of their uids,
\* those of other threads included, and none before its real time, though the
\* event that was waited for need not be the one that is run, and SleepWait
\* returns the opposite of what its callers take it for.
InTime == [][current' # current => Before(current, current') /\ current'.ts <= Now]_vars

\* No packet is left in the queue without a ForwardUp that will take it out,
\* although the reader queues it and schedules ForwardUp in two steps; once
\* StopDevice has closed the file and emptied the queue, which it does without
\* the mutex, the thread has ended and the queue remains empty.
NoStranded ==
    /\ queue <= Cardinality({e \in events : e.kind = "ForwardUp"})
                + (IF reader.pc = "schedule" THEN 1 ELSE 0)
                + (IF Invoking("ForwardUp") THEN 1 ELSE 0)
    /\ ~ reader.fd => reader.pc \in {"none", "done"} /\ queue = 0

Pending(u) == \E e \in events : e.uid = u

\* Every event is run (or removed) some time unless the simulator is stopped,
\* and a main thread that joins the reader goes on, also if the reader is about
\* to schedule an event with the simulator at that moment.
Served ==
    /\ At("join") ~> ~ At("join")
    /\ \A u \in 0 .. MaxUid + MaxPackets :
          main.runs > 0 /\ Pending(u) ~> ~ Pending(u) \/ flags.stop
=============================================================================

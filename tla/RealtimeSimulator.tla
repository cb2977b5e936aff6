------------------------- MODULE RealtimeSimulator --------------------------
(***************************************************************************)
(* The realtime simulator (RealtimeSimulatorImpl) with its synchronizer    *)
(* (WallClockSynchronizer): the main thread waits until the real time of   *)
(* the next event has come, while other threads insert events and signal   *)
(* the synchronizer to interrupt the wait.                                 *)
(*                                                                         *)
(* A step of the main thread is a critical section under m_mutex or a read *)
(* of the clock or of the synchronizer's condition outside of one.         *)
(* Interrupted sleeps, late wake-ups and a slow process are steps of the   *)
(* clock between these.  Events have a kind; what they do is in the module *)
(* that extends this one.                                                  *)
(***************************************************************************)
EXTENDS Integers, FiniteSets, FiniteSetsExt

CONSTANTS Slack,      \* the three jiffies that a sleep ends early
          IdleWait,   \* tsDelay of Run, the wait when there is no event
          MaxTime,    \* bound on the times of the events and of the waits without one
          MaxUid,     \* bound on the events
          MaxRuns     \* bound on the calls of Run

ASSUME TimesAssumption == Slack \in Nat /\ IdleWait \in Nat /\ MaxTime \in Nat
ASSUME BoundsAssumption == MaxUid \in Nat /\ MaxRuns \in Nat

VARIABLES clock,        \* GetRealtime, the wall clock
          origin,       \* m_realtimeOriginNano
          events,       \* m_events
          uid,          \* m_uid, the uid of the next event
          unscheduled,  \* m_unscheduledEvents
          current,      \* m_currentTs, m_currentUid and the event that is invoked
          flags,        \* m_running, m_stop and the synchronizer's m_condition
          main          \* where the main thread is and what it waits for

simVars == <<clock, origin, events, uid, unscheduled, current, flags, main>>

\* GetNormalizedRealtime
Now == clock - origin

Before(e, f) == e.ts < f.ts \/ (e.ts = f.ts /\ e.uid < f.uid)

NextEvent == CHOOSE e \in events : \A f \in events \ {e} : Before(e, f)

At(pc) == main.pc = pc

Goto(pc) == main' = [main EXCEPT !.pc = pc]

\* main() has scheduled some events.  m_condition is not initialised.
SimInit(initial) ==
    /\ clock = 0 /\ origin = 0
    /\ events = initial
    /\ uid = Cardinality(initial)
    /\ unscheduled = Cardinality(initial)
    /\ current = [ts |-> 0, uid |-> -1, kind |-> "none"]
    /\ flags \in {[running |-> FALSE, stop |-> FALSE, condition |-> c] :
                     c \in IF initial = {} THEN BOOLEAN ELSE {TRUE}}
    /\ main = [pc |-> "out", target |-> 0, idle |-> FALSE, runs |-> 0]

\* The real time that passes outside of Run is of no consequence.
Tick ==
    /\ main.pc \notin {"out", "origin", "destroyed"} /\ Now < MaxTime + IdleWait
    /\ clock' = clock + 1
    /\ UNCHANGED <<origin, events, uid, unscheduled, current, flags, main>>

-----------------------------------------------------------------------------
(* Run *)

Run ==
    /\ At("out") /\ main.runs < MaxRuns
    /\ flags' = [flags EXCEPT !.stop = FALSE, !.running = TRUE]
    /\ main' = [main EXCEPT !.pc = "origin", !.runs = @ + 1]
    /\ UNCHANGED <<clock, origin, events, uid, unscheduled, current>>

\* DoSetOrigin ignores the simulation time it is given.
SetOrigin ==
    /\ At("origin")
    /\ origin' = clock
    /\ Goto("loop")
    /\ UNCHANGED <<clock, events, uid, unscheduled, current, flags>>

Leave ==
    /\ At("loop") /\ flags.stop
    /\ flags' = [flags EXCEPT !.running = FALSE]
    /\ Goto("out")
    /\ UNCHANGED <<clock, origin, events, uid, unscheduled, current>>

\* Without an event the wait of a second begins, whatever the condition is.
Loop ==
    /\ At("loop") /\ ~ flags.stop /\ (events # {} \/ Now < MaxTime)
    /\ main' = IF events # {} THEN [main EXCEPT !.pc = "look"]
               ELSE [main EXCEPT !.pc = "sync", !.target = Now + IdleWait, !.idle = TRUE]
    /\ UNCHANGED <<clock, origin, events, uid, unscheduled, current, flags>>

-----------------------------------------------------------------------------
(* ProcessOneEvent *)

\* The first critical section: how long to wait, and SetCondition(false).
Look ==
    /\ At("look") /\ events # {}
    /\ main' = [main EXCEPT !.pc = "sync", !.idle = FALSE,
                            !.target = IF NextEvent.ts <= Now THEN Now ELSE NextEvent.ts]
    /\ flags' = [flags EXCEPT !.condition = FALSE]
    /\ UNCHANGED <<clock, origin, events, uid, unscheduled, current>>

\* DriftCorrect and the choice between sleeping and spinning.
Synchronize ==
    /\ At("sync")
    /\ Goto(IF main.target - Now > Slack THEN "sleep" ELSE "drift")
    /\ UNCHANGED <<clock, origin, events, uid, unscheduled, current, flags>>

\* Synchronize returns.  Run looks at the events again, ProcessOneEvent only
\* unless the wait was completed.
Returns(completed) ==
    Goto(IF main.idle THEN "loop" ELSE IF completed THEN "take" ELSE "look")

\* Mutant: wait instead of wait_for.
SleepWaitForever ==
    /\ At("sleep") /\ flags.condition /\ Goto("drift")
    /\ UNCHANGED <<clock, origin, events, uid, unscheduled, current, flags>>

\* wait_for returns the condition: after a signal the code goes on as if the
\* sleep had been completed, and the spin that follows ends at once; after the
\* timeout it returns as if it had been interrupted, and is called again.
SleepWait ==
    /\ At("sleep")
    /\ \/ flags.condition /\ Goto("drift")
       \/ ~ flags.condition /\ Now >= main.target - Slack /\ Returns(FALSE)
    /\ UNCHANGED <<clock, origin, events, uid, unscheduled, current, flags>>

\* DoGetDrift after the sleep
Drift ==
    /\ At("drift")
    /\ IF Now >= main.target THEN Returns(TRUE) ELSE Goto("spin")
    /\ UNCHANGED <<clock, origin, events, uid, unscheduled, current, flags>>

\* Mutant: a signal is taken for the end of the wait.
SpinWaitCompleted ==
    /\ At("spin")
    /\ Now >= main.target \/ flags.condition
    /\ Returns(TRUE)
    /\ UNCHANGED <<clock, origin, events, uid, unscheduled, current, flags>>

SpinWait ==
    /\ At("spin")
    /\ \/ Now >= main.target /\ Returns(TRUE)
       \/ flags.condition /\ Returns(FALSE)
    /\ UNCHANGED <<clock, origin, events, uid, unscheduled, current, flags>>

\* Mutant: m_unscheduledEvents is not decremented.
TakeUncounted ==
    /\ At("take") /\ events # {}
    /\ events' = events \ {NextEvent}
    /\ current' = NextEvent
    /\ Goto("invoke")
    /\ UNCHANGED <<clock, origin, uid, unscheduled, flags>>

\* The second critical section: whatever event is the first now is run.
Take ==
    /\ At("take") /\ events # {}
    /\ events' = events \ {NextEvent}
    /\ unscheduled' = unscheduled - 1
    /\ current' = NextEvent
    /\ Goto("invoke")
    /\ UNCHANGED <<clock, origin, uid, flags>>

Invoking(kind) == At("invoke") /\ current.kind = kind

Returned ==
    /\ Goto("loop")
    /\ UNCHANGED <<clock, origin, events, uid, unscheduled, current, flags>>

MainNext ==
    \/ Run \/ SetOrigin \/ Leave \/ Loop
    \/ Look \/ Synchronize \/ SleepWait \/ Drift \/ SpinWait \/ Take

-----------------------------------------------------------------------------
(* Scheduling, one critical section each *)

\* Mutant: Signal is not called.
InsertQuietly(ts, kind) ==
    /\ events' = events \cup {[ts |-> ts, uid |-> uid, kind |-> kind]}
    /\ uid' = uid + 1
    /\ unscheduled' = unscheduled + 1
    /\ UNCHANGED <<clock, origin, current, flags, main>>

Insert(ts, kind) ==
    /\ events' = events \cup {[ts |-> ts, uid |-> uid, kind |-> kind]}
    /\ uid' = uid + 1
    /\ unscheduled' = unscheduled + 1
    /\ flags' = [flags EXCEPT !.condition = TRUE]
    /\ UNCHANGED <<clock, origin, current, main>>

\* Called by an event.
Schedule(delay, kind) == Insert(current.ts + delay, kind)

\* Called by another thread.
ScheduleWithContext(delay, kind) ==
    Insert((IF flags.running THEN Now ELSE current.ts) + delay, kind)

ScheduleRealtime(delay, kind) == Insert(Now + delay, kind)

IsExpired(e) == ~ Before([ts |-> current.ts, uid |-> current.uid], e)

Remove(e) ==
    /\ ~ IsExpired(e)
    /\ events' = events \ {e}
    /\ unscheduled' = unscheduled - 1
    /\ UNCHANGED <<clock, origin, uid, current, flags, main>>

Cancel(e) ==
    /\ ~ IsExpired(e)
    /\ events' = (events \ {e}) \cup {[e EXCEPT !.kind = "cancelled"]}
    /\ UNCHANGED <<clock, origin, uid, unscheduled, current, flags, main>>

Stop ==
    /\ flags' = [flags EXCEPT !.stop = TRUE]
    /\ UNCHANGED <<clock, origin, events, uid, unscheduled, current, main>>
=============================================================================

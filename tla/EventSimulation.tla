-------------------------- MODULE EventSimulation --------------------------
(***************************************************************************)
(* What a discrete event simulation promises to the models it runs: every  *)
(* system has a clock and a set of pending events; a system always runs    *)
(* one of its earliest pending events, wherever in the simulator that      *)
(* event is kept, and nothing is ever scheduled in a system's past.        *)
(***************************************************************************)
EXTENDS Naturals

CONSTANT System             \* the systems (LPs) that the events belong to

VARIABLES
    clock,                  \* the simulation time of each system
    pending,                \* the events to be run: [system, impl, ts]
    halted                  \* Simulator::Stop has been called

vars == <<clock, pending, halted>>

Init ==
    /\ clock = [i \in System |-> 0]
    /\ \A ev \in pending : ev.system \in System /\ ev.ts >= 0
    /\ halted = FALSE

\* A system runs one of its earliest events and moves its clock to it.
Execute(ev) ==
    /\ ~ halted
    /\ \A other \in pending : other.system = ev.system => ev.ts <= other.ts
    /\ pending' = pending \ {ev}
    /\ clock' = [clock EXCEPT ![ev.system] = ev.ts]
    /\ UNCHANGED halted

\* A running event schedules another one, for its own or another system.
Schedule ==
    /\ pending \subseteq pending'
    /\ \A ev \in pending' \ pending :
         ev.system \in System /\ ev.ts >= clock[ev.system]
    /\ UNCHANGED <<clock, halted>>

Stop ==
    /\ halted' = TRUE
    /\ UNCHANGED <<clock, pending>>

Next == (\E ev \in pending : Execute(ev)) \/ Schedule \/ Stop

Spec == Init /\ [][Next]_vars
=============================================================================

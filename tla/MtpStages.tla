----------------------------- MODULE MtpStages -----------------------------
(***************************************************************************)
(* What the thread pool of MtpInterface promises to the simulation, with   *)
(* neither threads nor atomics: a round is a phase in which every logical  *)
(* process (LP) processes its events once, then the public LP alone, then  *)
(* a phase in which every LP receives its messages once, then a moment in  *)
(* which nobody runs and the next time window is computed.                 *)
(*                                                                         *)
(* MtpThreads implements this module; MtpRounds uses it as its control.    *)
(***************************************************************************)
EXTENDS Naturals

CONSTANT SystemCount        \* g_systemCount: the LPs other than the public one

VARIABLES
    phase,                  \* the stage of MtpInterface::ProcessOneRound
    work                    \* how far each LP is with its work of the phase

vars == <<phase, work>>

LP == 1 .. SystemCount

Phase == {"process", "public", "receive", "calc", "over"}

\* The phases in which the LPs are worked on, by any thread and in any order.
Shared == {"process", "receive", "over"}

AllDone == \A i \in LP : work[i] = "done"

Init ==
    /\ phase = "calc"
    /\ work = [i \in LP |-> "done"]

\* A thread starts LP i's work of the phase: nobody has started it before.
Begin(i) ==
    /\ phase \in Shared
    /\ work[i] = "todo"
    /\ work' = [work EXCEPT ![i] = "busy"]
    /\ UNCHANGED phase

End(i) ==
    /\ phase \in Shared
    /\ work[i] = "busy"
    /\ work' = [work EXCEPT ![i] = "done"]
    /\ UNCHANGED phase

\* The barriers: the phase is left only when every LP is through.
EnterPublic ==
    /\ phase = "process"
    /\ AllDone
    /\ phase' = "public"
    /\ UNCHANGED work

EnterReceive ==
    /\ phase = "public"
    /\ phase' = "receive"
    /\ work' = [i \in LP |-> "todo"]

EnterCalc ==
    /\ phase = "receive"
    /\ AllDone
    /\ phase' = "calc"
    /\ UNCHANGED work

NextRound ==
    /\ phase = "calc"
    /\ phase' = "process"
    /\ work' = [i \in LP |-> "todo"]

\* After the last round the worker threads are let go; one that is late may
\* still pick an LP and receive its (no longer interesting) messages.
Finish ==
    /\ phase = "calc"
    /\ phase' = "over"
    /\ work' = [i \in LP |-> "todo"]

Next ==
    \/ \E i \in LP : Begin(i) \/ End(i)
    \/ EnterPublic
    \/ EnterReceive
    \/ EnterCalc
    \/ NextRound
    \/ Finish

\* While a round is under way, some step of it is eventually taken.
Progress == Next /\ phase # "over"

Spec == Init /\ [][Next]_vars /\ WF_vars(Progress)
=============================================================================

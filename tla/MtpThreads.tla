----------------------------- MODULE MtpThreads -----------------------------
(***************************************************************************)
(* The thread pool of src/mtp/model/mtp-interface.cc: the main thread's    *)
(* MtpInterface::Run (RunBefore, ProcessOneRound, CalculateSmallestTime,   *)
(* RunAfter) and the worker threads' ThreadFunc, which share LPs through   *)
(* the atomic counters g_systemIndex and g_finishedSystemCount and the     *)
(* plain variables g_recvMsgStage, g_globalFinished and                    *)
(* g_sortedSystemIndices. There is one action per access to shared state.  *)
(* The work on an LP (LogicalProcess::ProcessOneRound, ReceiveMessages) is *)
(* the interval a thread spends at "work"; MtpRounds models what it does.  *)
(*                                                                         *)
(* The plain variables are written while no other thread can be using      *)
(* them, except that g_globalFinished may be read while it is written:     *)
(* the reader then sees the old or the new value, as here. Every other     *)
(* access is ordered by the acquire and release operations on the          *)
(* counters, so interleaving the accesses loses no behaviour.              *)
(***************************************************************************)
EXTENDS Integers, FiniteSets

CONSTANTS
    SystemCount,            \* g_systemCount
    ThreadCount,            \* g_threadCount, the main thread included
    Period,                 \* g_period: LPs are sorted every Period rounds
    MaxRounds               \* bound: the simulation ends within MaxRounds rounds

ASSUME ThreadsAssumption ==
    /\ SystemCount \in Nat
    /\ ThreadCount \in Nat \ {0}        \* the assertion of Enable, line 54
    /\ Period \in Nat \ {0}
    /\ MaxRounds \in Nat \ {0}

VARIABLES
    pc,                     \* where each thread is
    stage,                  \* which half of ProcessOneRound the main thread is in
    index, system, op,      \* each thread's index, system and chosen method
    g_systemIndex,
    g_finishedSystemCount,
    g_recvMsgStage,
    g_globalFinished,
    g_sortedSystemIndices,
    g_round,
    processed, received     \* history: calls of each method completed, per LP

vars == <<pc, stage, index, system, op, g_systemIndex, g_finishedSystemCount,
          g_recvMsgStage, g_globalFinished, g_sortedSystemIndices, g_round,
          processed, received>>

shared == <<g_systemIndex, g_finishedSystemCount, g_recvMsgStage,
            g_globalFinished, g_sortedSystemIndices, g_round>>
locals == <<index, system, op>>
history == <<processed, received>>

Main == 0
Worker == 1 .. ThreadCount - 1
Thread == 0 .. ThreadCount - 1
Index == 0 .. SystemCount - 1
LP == 1 .. SystemCount
Method == {"process", "receive"}

MainPC == {"sort", "setStage", "reset", "publish", "claim", "take", "work",
           "count", "barrier", "public", "calc", "release", "join", "done"}
WorkerPC == {"check", "claim", "take", "stage", "work", "count", "spin", "exit"}

\* The orders std::sort can leave in g_sortedSystemIndices.
Order == {p \in [Index -> LP] :
            /\ \A i, j \in Index : p[i] = p[j] => i = j
            /\ \A lp \in LP : \E i \in Index : p[i] = lp}

----------------------------------------------------------------------------
(* RunBefore: fill g_sortedSystemIndices, close the index, start threads.   *)

\* Mutant: the public LP is put in the pool and the last LP left out.
InitialIndicesOffByOne == [i \in Index |-> i]

InitialIndices == [i \in Index |-> i + 1]

Init ==
    /\ pc = [t \in Thread |-> IF t = Main THEN "sort" ELSE "check"]
    /\ stage = "process"
    /\ index = [t \in Thread |-> 0]
    /\ system = [t \in Thread |-> 0]
    /\ op = [t \in Thread |-> "process"]
    /\ g_systemIndex = SystemCount
    /\ g_finishedSystemCount = 0
    /\ g_recvMsgStage = FALSE
    /\ g_globalFinished = FALSE
    /\ g_sortedSystemIndices = InitialIndices
    /\ g_round = 0
    /\ processed = [lp \in LP |-> 0]
    /\ received = [lp \in LP |-> 0]

GoTo(t, label) == pc' = [pc EXCEPT ![t] = label]

----------------------------------------------------------------------------
(* The main thread.                                                         *)

\* The sort keys (execution time, event counts, simulation time) are not
\* modelled, so a sort may yield any order.
Sort ==
    /\ pc[Main] = "sort"
    /\ IF g_round % Period = 0
       THEN g_sortedSystemIndices' \in Order
       ELSE UNCHANGED g_sortedSystemIndices
    /\ g_round' = g_round + 1
    /\ GoTo(Main, "setStage")
    /\ UNCHANGED <<stage, locals, g_systemIndex, g_finishedSystemCount,
                   g_recvMsgStage, g_globalFinished, history>>

\* Mutant: the flag is not updated.
SetStageForgotten ==
    /\ pc[Main] = "setStage"
    /\ GoTo(Main, "reset")
    /\ UNCHANGED <<stage, locals, shared, history>>

SetStage ==
    /\ pc[Main] = "setStage"
    /\ g_recvMsgStage' = (stage = "receive")
    /\ GoTo(Main, "reset")
    /\ UNCHANGED <<stage, locals, g_systemIndex, g_finishedSystemCount,
                   g_globalFinished, g_sortedSystemIndices, g_round, history>>

ResetFinished ==
    /\ pc[Main] = "reset"
    /\ g_finishedSystemCount' = 0
    /\ GoTo(Main, "publish")
    /\ UNCHANGED <<stage, locals, g_systemIndex, g_recvMsgStage,
                   g_globalFinished, g_sortedSystemIndices, g_round, history>>

\* Mutant: the first index is never handed out.
PublishOffByOne ==
    /\ pc[Main] = "publish"
    /\ g_systemIndex' = 1
    /\ GoTo(Main, "claim")
    /\ UNCHANGED <<stage, locals, g_finishedSystemCount, g_recvMsgStage,
                   g_globalFinished, g_sortedSystemIndices, g_round, history>>

\* The release store that lets every thread claim LPs.
Publish ==
    /\ pc[Main] = "publish"
    /\ g_systemIndex' = 0
    /\ GoTo(Main, "claim")
    /\ UNCHANGED <<stage, locals, g_finishedSystemCount, g_recvMsgStage,
                   g_globalFinished, g_sortedSystemIndices, g_round, history>>

\* g_systemIndex.fetch_add(1): got leads on with an LP, lost without one.
Claim(t, got, lost) ==
    /\ pc[t] = "claim"
    /\ index' = [index EXCEPT ![t] = g_systemIndex]
    /\ g_systemIndex' = g_systemIndex + 1
    /\ GoTo(t, IF g_systemIndex >= SystemCount THEN lost ELSE got)
    /\ UNCHANGED <<stage, system, op, g_finishedSystemCount, g_recvMsgStage,
                   g_globalFinished, g_sortedSystemIndices, g_round, history>>

MainClaim == Claim(Main, "take", "barrier")

\* The main thread's loops name the method to call.
MainTake ==
    /\ pc[Main] = "take"
    /\ system' = [system EXCEPT ![Main] = g_sortedSystemIndices[index[Main]]]
    /\ op' = [op EXCEPT ![Main] = stage]
    /\ GoTo(Main, "work")
    /\ UNCHANGED <<stage, index, shared, history>>

\* Mutant: the barrier does not wait for the workers.
BarrierMissing ==
    /\ pc[Main] = "barrier"
    /\ GoTo(Main, IF stage = "process" THEN "public" ELSE "calc")
    /\ UNCHANGED <<stage, locals, shared, history>>

\* The barrier, and then stage 2 or CalculateSmallestTime.
Barrier ==
    /\ pc[Main] = "barrier"
    /\ g_finishedSystemCount = SystemCount
    /\ GoTo(Main, IF stage = "process" THEN "public" ELSE "calc")
    /\ UNCHANGED <<stage, locals, shared, history>>

\* g_systems[0].ProcessOneRound().
PublicLP ==
    /\ pc[Main] = "public"
    /\ stage' = "receive"
    /\ GoTo(Main, "setStage")
    /\ UNCHANGED <<locals, shared, history>>

\* When the simulation ends depends on the events: any round may be the last.
CalculateSmallestTime ==
    /\ pc[Main] = "calc"
    /\ \E globalFinished \in BOOLEAN :
         /\ g_round >= MaxRounds => globalFinished
         /\ g_globalFinished' = globalFinished
         /\ GoTo(Main, IF globalFinished THEN "release" ELSE "sort")
    /\ stage' = "process"
    /\ UNCHANGED <<locals, g_systemIndex, g_finishedSystemCount,
                   g_recvMsgStage, g_sortedSystemIndices, g_round, history>>

\* Mutant: the spinning workers are not released.
ReleaseForgotten ==
    /\ pc[Main] = "release"
    /\ GoTo(Main, "join")
    /\ UNCHANGED <<stage, locals, shared, history>>

\* Mutant: the stage flag is cleared for a next run.
ReleaseResetting ==
    /\ pc[Main] = "release"
    /\ g_systemIndex' = 0
    /\ g_recvMsgStage' = FALSE
    /\ GoTo(Main, "join")
    /\ UNCHANGED <<stage, locals, g_finishedSystemCount, g_globalFinished,
                   g_sortedSystemIndices, g_round, history>>

\* RunAfter: open the index so that spinning workers leave, and join them.
Release ==
    /\ pc[Main] = "release"
    /\ g_systemIndex' = 0
    /\ GoTo(Main, "join")
    /\ UNCHANGED <<stage, locals, g_finishedSystemCount, g_recvMsgStage,
                   g_globalFinished, g_sortedSystemIndices, g_round, history>>

Join ==
    /\ pc[Main] = "join"
    /\ \A w \in Worker : pc[w] = "exit"
    /\ GoTo(Main, "done")
    /\ UNCHANGED <<stage, locals, shared, history>>

----------------------------------------------------------------------------
(* The worker threads: ThreadFunc.                                          *)

CheckFinished(w) ==
    /\ pc[w] = "check"
    /\ GoTo(w, IF g_globalFinished THEN "exit" ELSE "claim")
    /\ UNCHANGED <<stage, locals, shared, history>>

WorkerClaim(w) == Claim(w, "take", "spin")

\* Mutant: the inner loop is missing.
SpinMissing(w) ==
    /\ pc[w] = "spin"
    /\ GoTo(w, "check")
    /\ UNCHANGED <<stage, locals, shared, history>>

\* The inner loop ends when a load sees an open index; then "continue".
Spin(w) ==
    /\ pc[w] = "spin"
    /\ g_systemIndex < SystemCount
    /\ GoTo(w, "check")
    /\ UNCHANGED <<stage, locals, shared, history>>

WorkerTake(w) ==
    /\ pc[w] = "take"
    /\ system' = [system EXCEPT ![w] = g_sortedSystemIndices[index[w]]]
    /\ GoTo(w, "stage")
    /\ UNCHANGED <<stage, index, op, shared, history>>

ReadStage(w) ==
    /\ pc[w] = "stage"
    /\ op' = [op EXCEPT ![w] = IF g_recvMsgStage THEN "receive" ELSE "process"]
    /\ GoTo(w, "work")
    /\ UNCHANGED <<stage, index, system, shared, history>>

----------------------------------------------------------------------------
(* Steps that the main thread and the workers have in common.               *)

\* The method returns.
Work(t) ==
    /\ pc[t] = "work"
    /\ IF op[t] = "process"
       THEN /\ processed' = [processed EXCEPT ![system[t]] = @ + 1]
            /\ UNCHANGED received
       ELSE /\ received' = [received EXCEPT ![system[t]] = @ + 1]
            /\ UNCHANGED processed
    /\ GoTo(t, "count")
    /\ UNCHANGED <<stage, locals, shared>>

\* g_finishedSystemCount.fetch_add(1), and back to the head of the loop.
Count(t) ==
    /\ pc[t] = "count"
    /\ g_finishedSystemCount' = g_finishedSystemCount + 1
    /\ GoTo(t, IF t = Main THEN "claim" ELSE "check")
    /\ UNCHANGED <<stage, locals, g_systemIndex, g_recvMsgStage,
                   g_globalFinished, g_sortedSystemIndices, g_round, history>>

----------------------------------------------------------------------------

MainNext ==
    \/ Sort \/ SetStage \/ ResetFinished \/ Publish
    \/ MainClaim \/ MainTake \/ Work(Main) \/ Count(Main) \/ Barrier
    \/ PublicLP \/ CalculateSmallestTime \/ Release \/ Join

WorkerNext(w) ==
    \/ CheckFinished(w) \/ WorkerClaim(w) \/ Spin(w)
    \/ WorkerTake(w) \/ ReadStage(w) \/ Work(w) \/ Count(w)

\* A busy-waiting loop reads its counter once more, to no effect.
KeepSpinning ==
    /\ \/ pc[Main] = "barrier" /\ g_finishedSystemCount # SystemCount
       \/ \E w \in Worker : pc[w] = "spin" /\ g_systemIndex >= SystemCount
    /\ UNCHANGED vars

\* Run has returned.
Returned == pc[Main] = "done" /\ UNCHANGED vars

Next ==
    \/ MainNext
    \/ \E w \in Worker : WorkerNext(w)
    \/ KeepSpinning
    \/ Returned

\* The operating system runs every thread that can run.
Fairness == WF_vars(MainNext) /\ \A w \in Worker : WF_vars(WorkerNext(w))

SafeSpec == Init /\ [][Next]_vars
Spec == SafeSpec /\ Fairness

----------------------------------------------------------------------------
(* Properties.                                                              *)

\* Every variable holds a value of its C++ type, and every thread is at a
\* point of its own function.
TypeOK ==
    /\ pc \in [Thread -> MainPC \cup WorkerPC]
    /\ pc[Main] \in MainPC
    /\ \A w \in Worker : pc[w] \in WorkerPC
    /\ stage \in Method
    /\ index \in [Thread -> Nat]
    /\ system \in [Thread -> 0 .. SystemCount]
    /\ op \in [Thread -> Method]
    /\ g_systemIndex \in Nat
    /\ g_finishedSystemCount \in Nat
    /\ g_recvMsgStage \in BOOLEAN
    /\ g_globalFinished \in BOOLEAN
    /\ g_sortedSystemIndices \in Order
    /\ g_round \in Nat
    /\ processed \in [LP -> Nat]
    /\ received \in [LP -> Nat]

\* A thread holds a claimed LP from its fetch_add on g_systemIndex until its
\* fetch_add on g_finishedSystemCount.
HoldingPC == {"take", "stage", "work", "count"}
Holders == {t \in Thread : pc[t] \in HoldingPC}

\* No two threads ever run methods of the same LP, and no thread processes
\* events of one LP while another receives messages for another LP: an LP's
\* event list, clock and mailboxes need no lock only because of this.
StageExclusive ==
    \A s, t \in Thread :
        s # t /\ pc[s] = "work" /\ pc[t] = "work"
            => system[s] # system[t] /\ op[s] = op[t]

\* While the main thread sorts the LPs, opens a stage, runs the public LP or
\* reads every LP to compute the next window, no worker is inside an LP or
\* about to read the sorted indices or the stage flag.
MainAlone ==
    pc[Main] \in {"sort", "setStage", "reset", "publish", "public", "calc",
                  "release"}
        => Holders = {}

\* Each round does the work of every LP exactly once, never twice and never
\* skipping one: when the public LP runs, all LPs have processed this round
\* and none has received; when the window is computed all have done both.
Lockstep ==
    /\ pc[Main] = "public" =>
         \A lp \in LP : processed[lp] = g_round /\ received[lp] = g_round - 1
    /\ pc[Main] = "calc" =>
         \A lp \in LP : processed[lp] = g_round /\ received[lp] = g_round

\* g_systemIndex is a 32 bit counter that every idle worker increments; it
\* never runs more than one step per thread past g_systemCount, so it cannot
\* wrap around and hand out an index a second time.
IndexBounded == g_systemIndex <= SystemCount + ThreadCount

\* Once the simulation is over no event is processed any more: a worker that
\* is late for the end can only receive messages.
NoLateProcessing == [][g_globalFinished => UNCHANGED processed]_vars

\* MtpInterface::Run returns: the workers leave and are joined.
Termination == <>(pc[Main] = "done")

----------------------------------------------------------------------------
(* The inductive invariant behind these properties; MtpThreadsProofs        *)
(* proves that it is one.                                                   *)

\* The main thread takes part in a stage.
Running == {"claim", "take", "work", "count", "barrier"}

\* The main thread is between two stages.
Between == {"sort", "setStage", "reset", "publish", "public", "calc", "release"}

\* A held index has been handed out, and to one thread only.
HoldInv ==
    /\ \A t \in Holders :
         /\ index[t] \in Index
         /\ index[t] < g_systemIndex
         /\ pc[t] # "take" => system[t] = g_sortedSystemIndices[index[t]]
    /\ \A s, t \in Holders : s # t => index[s] # index[t]

\* Every index handed out is held or counted as finished.
CountInv ==
    pc[Main] \in Running =>
        g_finishedSystemCount + Cardinality(Holders) =
            IF g_systemIndex < SystemCount THEN g_systemIndex ELSE SystemCount

\* Between two stages nothing is held and nothing can be claimed.
BetweenInv ==
    pc[Main] \in Between => Holders = {} /\ g_systemIndex >= SystemCount

\* What the flags say, given where the main thread is.
FlagInv ==
    /\ pc[Main] \in {"sort", "public"} => stage = "process"
    /\ pc[Main] = "calc" => stage = "receive"
    /\ pc[Main] = "publish" => g_finishedSystemCount = 0
    /\ pc[Main] \in Running \cup {"reset", "publish", "public", "calc"} =>
         (g_recvMsgStage <=> stage = "receive")
    /\ (g_globalFinished <=> pc[Main] \in {"release", "join", "done"})
    /\ g_globalFinished => g_recvMsgStage
    /\ \A t \in Thread : pc[t] = "work" =>
         op[t] = IF g_recvMsgStage THEN "receive" ELSE "process"

\* The work of index i is done in the current stage.
Worked(i) ==
    /\ i < g_systemIndex
    /\ \A t \in Holders : index[t] = i => pc[t] = "count"

\* The completed calls of a method when all LPs but those still to be worked
\* on in this stage have reached round r.
Reached(calls, r) ==
    \A i \in Index :
        calls[g_sortedSystemIndices[i]] = IF Worked(i) THEN r ELSE r - 1

AllAt(calls, r) == \A lp \in LP : calls[lp] = r

Opening == {"setStage", "reset", "publish"}

HistoryInv ==
    /\ pc[Main] = "sort" => AllAt(processed, g_round) /\ AllAt(received, g_round)
    /\ pc[Main] \in Opening /\ stage = "process" =>
         AllAt(processed, g_round - 1) /\ AllAt(received, g_round - 1)
    /\ pc[Main] \in Running /\ stage = "process" =>
         Reached(processed, g_round) /\ AllAt(received, g_round - 1)
    /\ pc[Main] = "public" \/ (pc[Main] \in Opening /\ stage = "receive") =>
         AllAt(processed, g_round) /\ AllAt(received, g_round - 1)
    /\ pc[Main] \in Running /\ stage = "receive" =>
         AllAt(processed, g_round) /\ Reached(received, g_round)
    /\ pc[Main] = "calc" => AllAt(processed, g_round) /\ AllAt(received, g_round)

\* The threads that have found nothing to claim since the index was opened.
PastPC == {"spin", "barrier", "join", "done"} \cup Between
Past == {t \in Thread : pc[t] \in PastPC}

OverrunInv ==
    g_systemIndex > SystemCount => g_systemIndex - SystemCount <= Cardinality(Past)

IInv == /\ TypeOK
        /\ HoldInv
        /\ CountInv
        /\ BetweenInv
        /\ FlagInv
        /\ HistoryInv
        /\ OverrunInv

----------------------------------------------------------------------------
(* The abstraction to MtpStages.                                            *)

phaseBar ==
    CASE pc[Main] \in Running -> stage
      [] pc[Main] = "public" -> "public"
      [] pc[Main] \in {"setStage", "reset", "publish"} /\ stage = "receive"
            -> "public"
      [] pc[Main] \in {"join", "done"} -> "over"
      [] OTHER -> "calc"

WorkOf(i) ==
    CASE phaseBar \notin {"process", "receive", "over"} -> "done"
      [] i >= g_systemIndex -> "todo"
      [] i < g_systemIndex /\ (\E t \in Holders : index[t] = i) -> "busy"
      [] OTHER -> "done"

workBar == [lp \in LP |->
              WorkOf(CHOOSE i \in Index : g_sortedSystemIndices[i] = lp)]

Stages == INSTANCE MtpStages WITH phase <- phaseBar, work <- workBar

\* The threads implement the staged rounds of MtpStages, progress included.
StagesSpec == Stages!Spec
=============================================================================

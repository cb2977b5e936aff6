-------------------------- MODULE MtpThreadsProofs --------------------------
(***************************************************************************)
(* Proofs about the thread pool of MtpInterface (MtpThreads), for any      *)
(* number of LPs, of threads and of rounds.                                *)
(***************************************************************************)
EXTENDS MtpThreads, FiniteSetTheorems, TLAPS

USE DEF Main

\* The identity order that RunBefore writes is one that a sort can leave.
LEMMA InitialOrder == InitialIndices \in Order
  <1> USE ThreadsAssumption
  <1> DEFINE p == [i \in Index |-> i + 1]
  <1>1. p \in [Index -> LP]
    BY DEF Index, LP
  <1>2. \A i, j \in Index : p[i] = p[j] => i = j
    BY DEF Index
  <1>3. \A lp \in LP : \E i \in Index : p[i] = lp
    <2> TAKE lp \in LP
    <2>1. lp - 1 \in Index /\ p[lp - 1] = lp
      BY DEF Index, LP
    <2> QED BY <2>1
  <1> QED BY <1>1, <1>2, <1>3 DEF Order, InitialIndices

\* Sets of threads are finite.
LEMMA ThreadFinite ==
    /\ Main \in Thread
    /\ Worker \subseteq Thread
    /\ \A t \in Worker : t # Main
    /\ IsFiniteSet(Thread)
    /\ Cardinality(Thread) = ThreadCount
    /\ \A S \in SUBSET Thread :
         IsFiniteSet(S) /\ Cardinality(S) \in Nat /\ Cardinality(S) <= ThreadCount
  <1> USE ThreadsAssumption
  <1>1. Main \in Thread /\ Worker \subseteq Thread /\ \A t \in Worker : t # Main
    BY DEF Thread, Worker
  <1>2. IsFiniteSet(Thread) /\ Cardinality(Thread) = ThreadCount
    BY FS_Interval DEF Thread
  <1>3. \A S \in SUBSET Thread :
         IsFiniteSet(S) /\ Cardinality(S) \in Nat /\ Cardinality(S) <= ThreadCount
    BY <1>2, FS_Subset, FS_CardinalityType
  <1> QED BY <1>1, <1>2, <1>3

----------------------------------------------------------------------------
(* Type correctness.                                                        *)

\* The values of MtpThreads' variables stay within their types: in particular
\* the sorted indices always remain a permutation of the LPs.
LEMMA TypeInit == Init => TypeOK
  <1> SUFFICES ASSUME Init PROVE TypeOK
    OBVIOUS
  <1>1. /\ pc \in [Thread -> MainPC \cup WorkerPC]
        /\ pc[Main] \in MainPC
        /\ \A w \in Worker : pc[w] \in WorkerPC
    BY ThreadFinite DEF Init, MainPC, WorkerPC
  <1>2. g_sortedSystemIndices \in Order
    BY InitialOrder DEF Init
  <1>3. g_systemIndex \in Nat /\ system \in [Thread -> 0 .. SystemCount]
    BY ThreadsAssumption DEF Init
  <1> QED BY <1>1, <1>2, <1>3 DEF Init, TypeOK, Method

LEMMA TypeStep ==
  ASSUME TypeOK, HoldInv, [Next]_vars
  PROVE  TypeOK'
  <1> USE ThreadsAssumption, ThreadFinite
  <1> USE DEF TypeOK, MainPC, WorkerPC, Method, GoTo
  <1>1. CASE Sort
    BY <1>1 DEF Sort, locals, history
  <1>2. CASE SetStage
    BY <1>2 DEF SetStage, locals, history
  <1>3. CASE ResetFinished
    BY <1>3 DEF ResetFinished, locals, history
  <1>4. CASE Publish
    BY <1>4 DEF Publish, locals, history
  <1>5. CASE MainClaim
    BY <1>5 DEF MainClaim, Claim, history
  <1>6. CASE MainTake
    <2>1. index[Main] \in Index
      BY <1>6 DEF MainTake, HoldInv, Holders, HoldingPC
    <2>2. g_sortedSystemIndices[index[Main]] \in 0 .. SystemCount
      BY <2>1 DEF Order, LP
    <2> QED BY <1>6, <2>2 DEF MainTake, shared, history
  <1>7. ASSUME NEW t \in Thread, Work(t)
        PROVE  TypeOK'
    <2>1. system[t] \in LP
      BY <1>7 DEF Work, HoldInv, Holders, HoldingPC, Order
    <2>2. processed' \in [LP -> Nat] /\ received' \in [LP -> Nat]
      BY <1>7, <2>1 DEF Work
    <2> QED BY <1>7, <2>2 DEF Work, locals, shared
  <1>8. ASSUME NEW t \in Thread, Count(t)
        PROVE  TypeOK'
    BY <1>8 DEF Count, locals, history
  <1>9. CASE Barrier
    BY <1>9 DEF Barrier, locals, shared, history
  <1>10. CASE PublicLP
    BY <1>10 DEF PublicLP, locals, shared, history
  <1>11. CASE CalculateSmallestTime
    BY <1>11 DEF CalculateSmallestTime, locals, history
  <1>12. CASE Release
    BY <1>12 DEF Release, locals, history
  <1>13. CASE Join
    BY <1>13 DEF Join, locals, shared, history
  <1>14. ASSUME NEW w \in Worker, CheckFinished(w)
         PROVE  TypeOK'
    BY <1>14 DEF CheckFinished, locals, shared, history
  <1>15. ASSUME NEW w \in Worker, WorkerClaim(w)
         PROVE  TypeOK'
    BY <1>15 DEF WorkerClaim, Claim, history
  <1>16. ASSUME NEW w \in Worker, Spin(w)
         PROVE  TypeOK'
    BY <1>16 DEF Spin, locals, shared, history
  <1>17. ASSUME NEW w \in Worker, WorkerTake(w)
         PROVE  TypeOK'
    <2>1. index[w] \in Index
      BY <1>17 DEF WorkerTake, HoldInv, Holders, HoldingPC
    <2>2. g_sortedSystemIndices[index[w]] \in 0 .. SystemCount
      BY <2>1 DEF Order, LP
    <2> QED BY <1>17, <2>2 DEF WorkerTake, shared, history
  <1>18. ASSUME NEW w \in Worker, ReadStage(w)
         PROVE  TypeOK'
    BY <1>18 DEF ReadStage, shared, history
  <1>19. CASE UNCHANGED vars
    BY <1>19 DEF vars
  <1> QED
    BY <1>1, <1>2, <1>3, <1>4, <1>5, <1>6, <1>7, <1>8, <1>9, <1>10, <1>11,
       <1>12, <1>13, <1>14, <1>15, <1>16, <1>17, <1>18, <1>19
    DEF Next, MainNext, WorkerNext, KeepSpinning, Returned

----------------------------------------------------------------------------
(* How one thread's move changes a set of threads chosen by their position. *)

\* A thread that goes to a new label enters or leaves the threads at the
\* labels L, and their number changes accordingly.
LEMMA MoveCount ==
  ASSUME NEW L, NEW t \in Thread, NEW label, TypeOK, GoTo(t, label)
  PROVE  LET at == {s \in Thread : pc[s] \in L}
             after == {s \in Thread : pc'[s] \in L}
         IN  /\ label \in L => after = at \cup {t}
             /\ label \notin L => after = at \ {t}
             /\ Cardinality(at) \in Nat
             /\ Cardinality(after) \in Nat
             /\ label \in L /\ pc[t] \in L => Cardinality(after) = Cardinality(at)
             /\ label \notin L /\ pc[t] \notin L
                  => Cardinality(after) = Cardinality(at)
             /\ label \in L /\ pc[t] \notin L
                  => Cardinality(after) = Cardinality(at) + 1
             /\ label \notin L /\ pc[t] \in L
                  => Cardinality(after) = Cardinality(at) - 1
  <1> DEFINE at == {s \in Thread : pc[s] \in L}
             after == {s \in Thread : pc'[s] \in L}
  <1>1. IsFiniteSet(at) /\ Cardinality(at) \in Nat /\ Cardinality(after) \in Nat
    BY ThreadFinite
  <1>2. \A s \in Thread : pc'[s] = IF s = t THEN label ELSE pc[s]
    BY DEF GoTo, TypeOK
  <1>3. /\ label \in L => after = at \cup {t}
        /\ label \notin L => after = at \ {t}
    BY <1>2
  <1>4. t \in at <=> pc[t] \in L
    OBVIOUS
  <1>5. Cardinality(at \cup {t}) =
          IF t \in at THEN Cardinality(at) ELSE Cardinality(at) + 1
    BY <1>1, FS_AddElement
  <1>6. Cardinality(at \ {t}) =
          IF t \in at THEN Cardinality(at) - 1 ELSE Cardinality(at)
    BY <1>1, FS_RemoveElement
  <1> HIDE DEF at, after
  <1>7. /\ label \in L /\ pc[t] \in L => Cardinality(after) = Cardinality(at)
        /\ label \notin L /\ pc[t] \notin L => Cardinality(after) = Cardinality(at)
        /\ label \in L /\ pc[t] \notin L => Cardinality(after) = Cardinality(at) + 1
        /\ label \notin L /\ pc[t] \in L => Cardinality(after) = Cardinality(at) - 1
    BY <1>3, <1>4, <1>5, <1>6
  <1> QED BY <1>1, <1>3, <1>7 DEF at, after

\* The same for the holders of LPs and for the threads past the last index.
LEMMA MoveSets ==
  ASSUME NEW t \in Thread, NEW label, TypeOK, GoTo(t, label)
  PROVE  /\ \A s \in Thread : pc'[s] = IF s = t THEN label ELSE pc[s]
         /\ label \in HoldingPC => Holders' = Holders \cup {t}
         /\ label \notin HoldingPC => Holders' = Holders \ {t}
         /\ Cardinality(Holders) \in Nat /\ Cardinality(Holders') \in Nat
         /\ label \in HoldingPC /\ pc[t] \in HoldingPC
              => Cardinality(Holders') = Cardinality(Holders)
         /\ label \notin HoldingPC /\ pc[t] \notin HoldingPC
              => Cardinality(Holders') = Cardinality(Holders)
         /\ label \in HoldingPC /\ pc[t] \notin HoldingPC
              => Cardinality(Holders') = Cardinality(Holders) + 1
         /\ label \notin HoldingPC /\ pc[t] \in HoldingPC
              => Cardinality(Holders') = Cardinality(Holders) - 1
         /\ Cardinality(Past) \in Nat /\ Cardinality(Past') \in Nat
         /\ (label \in PastPC) = (pc[t] \in PastPC)
              => Cardinality(Past') = Cardinality(Past)
         /\ label \in PastPC /\ pc[t] \notin PastPC
              => Cardinality(Past') = Cardinality(Past) + 1
  <1>1. \A s \in Thread : pc'[s] = IF s = t THEN label ELSE pc[s]
    BY DEF GoTo, TypeOK
  <1>2. /\ label \in HoldingPC => Holders' = Holders \cup {t}
        /\ label \notin HoldingPC => Holders' = Holders \ {t}
        /\ Cardinality(Holders) \in Nat /\ Cardinality(Holders') \in Nat
        /\ label \in HoldingPC /\ pc[t] \in HoldingPC
             => Cardinality(Holders') = Cardinality(Holders)
        /\ label \notin HoldingPC /\ pc[t] \notin HoldingPC
             => Cardinality(Holders') = Cardinality(Holders)
        /\ label \in HoldingPC /\ pc[t] \notin HoldingPC
             => Cardinality(Holders') = Cardinality(Holders) + 1
        /\ label \notin HoldingPC /\ pc[t] \in HoldingPC
             => Cardinality(Holders') = Cardinality(Holders) - 1
    BY MoveCount, Zenon DEF Holders
  <1>3. /\ Cardinality(Past) \in Nat /\ Cardinality(Past') \in Nat
        /\ label \in PastPC /\ pc[t] \in PastPC
             => Cardinality(Past') = Cardinality(Past)
        /\ label \notin PastPC /\ pc[t] \notin PastPC
             => Cardinality(Past') = Cardinality(Past)
        /\ label \in PastPC /\ pc[t] \notin PastPC
             => Cardinality(Past') = Cardinality(Past) + 1
    BY MoveCount, Zenon DEF Past
  <1> QED BY <1>1, <1>2, <1>3

----------------------------------------------------------------------------
(* The inductive invariant.                                                 *)

LEMMA InvInit == Init => IInv
  <1> SUFFICES ASSUME Init PROVE IInv
    OBVIOUS
  <1>1. TypeOK
    BY TypeInit
  <1>2. pc[Main] = "sort" /\ \A t \in Thread : pc[t] \in {"sort", "check"}
    BY ThreadFinite DEF Init
  <1>3. Holders = {}
    BY <1>2 DEF Holders, HoldingPC
  <1>4. HoldInv /\ CountInv
    BY <1>2, <1>3 DEF HoldInv, CountInv, Running
  <1>8. FlagInv
    BY <1>2 DEF FlagInv, Init, Running
  <1>5. BetweenInv
    BY <1>3, ThreadsAssumption DEF BetweenInv, Init
  <1>6. HistoryInv
    BY <1>2 DEF HistoryInv, AllAt, Opening, Running, Init
  <1>7. OverrunInv
    BY ThreadsAssumption DEF OverrunInv, Init
  <1> QED BY <1>1, <1>4, <1>5, <1>6, <1>7, <1>8 DEF IInv

\* A step of the main thread between two stages, or into or out of one.
LEMMA MainInv ==
  ASSUME IInv,
         Sort \/ SetStage \/ ResetFinished \/ Publish \/ Barrier \/ PublicLP
           \/ CalculateSmallestTime \/ Release \/ Join
  PROVE  HoldInv' /\ CountInv' /\ BetweenInv' /\ FlagInv' /\ HistoryInv'
           /\ OverrunInv'
  <1> USE ThreadsAssumption, ThreadFinite
  <1> USE DEF IInv, Running, Between, Opening
  <1>0. TypeOK
    OBVIOUS
  <1>1. CASE Sort
    <2>1. GoTo(Main, "setStage") /\ pc[Main] = "sort"
      BY <1>1 DEF Sort
    <2>2. Holders = {} /\ Holders' = {}
      BY <2>1, <1>0, MoveSets DEF BetweenInv, HoldingPC
    <2>3. HoldInv' /\ CountInv' /\ BetweenInv'
      BY <1>1, <2>1, <2>2, MoveSets DEF Sort, HoldInv, CountInv, BetweenInv
    <2>4. FlagInv'
      BY <1>1, <2>1, <1>0, MoveSets DEF Sort, FlagInv, locals
    <2>5. HistoryInv'
      BY <1>1, <2>1, <1>0, MoveSets DEF Sort, HistoryInv, FlagInv, AllAt, TypeOK, history
    <2>6. OverrunInv'
      BY <1>1, <2>1, <1>0, MoveSets DEF Sort, OverrunInv, PastPC
    <2> QED BY <2>3, <2>4, <2>5, <2>6
  <1>2. CASE SetStage
    <2>1. GoTo(Main, "reset") /\ pc[Main] = "setStage"
      BY <1>2 DEF SetStage
    <2>2. Holders = {} /\ Holders' = {}
      BY <2>1, <1>0, MoveSets DEF BetweenInv, HoldingPC
    <2>3. HoldInv' /\ CountInv' /\ BetweenInv'
      BY <1>2, <2>1, <2>2, MoveSets DEF SetStage, HoldInv, CountInv, BetweenInv
    <2>4. FlagInv'
      <3>1. \A t \in Thread : pc'[t] # "work"
        BY <2>2 DEF Holders, HoldingPC
      <3>2. pc'[Main] = "reset" /\ ~ g_globalFinished
        BY <2>1, <1>0, MoveSets DEF FlagInv
      <3>3. (g_recvMsgStage' <=> stage' = "receive") /\ g_globalFinished' = g_globalFinished
        BY <1>2 DEF SetStage
      <3> QED BY <3>1, <3>2, <3>3 DEF FlagInv
    <2>5. HistoryInv'
      BY <1>2, <2>1, <1>0, MoveSets DEF SetStage, HistoryInv, AllAt, history
    <2>6. OverrunInv'
      BY <1>2, <2>1, <1>0, MoveSets DEF SetStage, OverrunInv, PastPC
    <2> QED BY <2>3, <2>4, <2>5, <2>6
  <1>3. CASE ResetFinished
    <2>1. GoTo(Main, "publish") /\ pc[Main] = "reset"
      BY <1>3 DEF ResetFinished
    <2>2. Holders = {} /\ Holders' = {}
      BY <2>1, <1>0, MoveSets DEF BetweenInv, HoldingPC
    <2>3. HoldInv' /\ CountInv' /\ BetweenInv'
      BY <1>3, <2>1, <2>2, MoveSets DEF ResetFinished, HoldInv, CountInv, BetweenInv
    <2>4. FlagInv'
      BY <1>3, <2>1, <1>0, MoveSets DEF ResetFinished, FlagInv, locals
    <2>5. HistoryInv'
      BY <1>3, <2>1, <1>0, MoveSets DEF ResetFinished, HistoryInv, AllAt, history
    <2>6. OverrunInv'
      BY <1>3, <2>1, <1>0, MoveSets DEF ResetFinished, OverrunInv, PastPC
    <2> QED BY <2>3, <2>4, <2>5, <2>6
  <1>4. CASE Publish
    <2>1. GoTo(Main, "claim") /\ pc[Main] = "publish" /\ g_systemIndex' = 0
      BY <1>4 DEF Publish
    <2>2. Holders = {} /\ Holders' = {} /\ Cardinality(Holders') = 0
      BY <2>1, <1>0, MoveSets, FS_EmptySet DEF BetweenInv, HoldingPC
    <2>3. HoldInv' /\ CountInv' /\ BetweenInv'
      BY <1>4, <2>1, <2>2, <1>0, MoveSets DEF Publish, HoldInv, CountInv, BetweenInv, FlagInv
    <2>4. FlagInv'
      BY <1>4, <2>1, <1>0, MoveSets DEF Publish, FlagInv, locals
    <2>5. HistoryInv'
      <3>1. \A i \in Index : ~ Worked(i)' /\ g_sortedSystemIndices[i] \in LP
        <4>1. \A i \in Index : ~ (i < g_systemIndex')
          BY <2>1 DEF Index
        <4> QED BY <4>1, <1>0 DEF Worked, TypeOK, Order
      <3> QED BY <1>4, <2>1, <1>0, <3>1, MoveSets
              DEF Publish, HistoryInv, AllAt, Reached, history, TypeOK, Method
    <2>6. OverrunInv'
      BY <2>1 DEF OverrunInv
    <2> QED BY <2>3, <2>4, <2>5, <2>6
  <1>5. CASE Barrier
    <2> DEFINE label == IF stage = "process" THEN "public" ELSE "calc"
    <2>1. GoTo(Main, label) /\ pc[Main] = "barrier" /\ label \in {"public", "calc"}
      BY <1>5 DEF Barrier
    <2>2. /\ Cardinality(Holders) = 0
          /\ g_systemIndex >= SystemCount
      BY <1>5, <2>1, <1>0, MoveSets DEF Barrier, CountInv, TypeOK
    <2>3. Holders = {}
      BY <2>2, FS_EmptySet DEF Holders
    <2>4. Holders' = {}
      BY <2>1, <2>3, <1>0, MoveSets DEF HoldingPC
    <2>5. HoldInv' /\ CountInv' /\ BetweenInv'
      BY <1>5, <2>1, <2>2, <2>4, <1>0, MoveSets
      DEF Barrier, HoldInv, CountInv, BetweenInv, shared
    <2>6. FlagInv'
      BY <1>5, <2>1, <1>0, MoveSets DEF Barrier, FlagInv, locals, shared, TypeOK, Method
    <2>7. HistoryInv'
      <3>1. \A i \in Index : Worked(i)
        BY <2>2, <2>3, <1>0 DEF Worked, Index, TypeOK
      <3>2. \A lp \in LP : \E i \in Index : g_sortedSystemIndices[i] = lp
        BY <1>0 DEF TypeOK, Order
      <3>3. /\ stage = "process" => AllAt(processed, g_round)
            /\ stage = "receive" => AllAt(received, g_round)
        BY <2>1, <3>1, <3>2 DEF HistoryInv, Reached, AllAt
      <3>4. stage \in {"process", "receive"} /\ UNCHANGED <<stage, g_round, processed, received>>
        BY <1>5, <1>0 DEF Barrier, history, shared, TypeOK, Method
      <3> QED BY <2>1, <1>0, <3>3, <3>4, MoveSets DEF HistoryInv, AllAt
    <2>8. OverrunInv'
      BY <1>5, <2>1, <1>0, MoveSets DEF Barrier, OverrunInv, PastPC, shared
    <2> QED BY <2>5, <2>6, <2>7, <2>8
  <1>6. CASE PublicLP
    <2>1. GoTo(Main, "setStage") /\ pc[Main] = "public"
      BY <1>6 DEF PublicLP
    <2>2. Holders = {} /\ Holders' = {}
      BY <2>1, <1>0, MoveSets DEF BetweenInv, HoldingPC
    <2>3. HoldInv' /\ CountInv' /\ BetweenInv'
      BY <1>6, <2>1, <2>2, MoveSets DEF PublicLP, HoldInv, CountInv, BetweenInv, shared
    <2>4. FlagInv'
      BY <1>6, <2>1, <1>0, MoveSets DEF PublicLP, FlagInv, locals, shared
    <2>5. HistoryInv'
      BY <1>6, <2>1, <1>0, MoveSets DEF PublicLP, HistoryInv, AllAt, history, shared
    <2>6. OverrunInv'
      BY <1>6, <2>1, <1>0, MoveSets DEF PublicLP, OverrunInv, PastPC, shared
    <2> QED BY <2>3, <2>4, <2>5, <2>6
  <1>7. CASE CalculateSmallestTime
    <2>1. PICK globalFinished \in BOOLEAN :
            /\ g_globalFinished' = globalFinished
            /\ GoTo(Main, IF globalFinished THEN "release" ELSE "sort")
      BY <1>7 DEF CalculateSmallestTime
    <2> DEFINE label == IF globalFinished THEN "release" ELSE "sort"
    <2>2. pc[Main] = "calc" /\ GoTo(Main, label) /\ label \in {"release", "sort"}
      BY <1>7, <2>1 DEF CalculateSmallestTime
    <2>3. Holders = {} /\ Holders' = {}
      BY <2>2, <1>0, MoveSets DEF BetweenInv, HoldingPC
    <2>4. HoldInv' /\ CountInv' /\ BetweenInv'
      BY <1>7, <2>2, <2>3, <1>0, MoveSets
      DEF CalculateSmallestTime, HoldInv, CountInv, BetweenInv
    <2>5. FlagInv'
      <3>1. \A t \in Thread : pc'[t] # "work"
        BY <2>3 DEF Holders, HoldingPC
      <3>2. pc'[Main] = label
        BY <2>2, <1>0, MoveSets
      <3>3. g_recvMsgStage' /\ stage' = "process"
        BY <1>7, <2>2 DEF CalculateSmallestTime, FlagInv
      <3>4. g_globalFinished' <=> pc'[Main] = "release"
        BY <2>1, <3>2
      <3> QED BY <2>2, <3>1, <3>2, <3>3, <3>4 DEF FlagInv
    <2>6. HistoryInv'
      BY <1>7, <2>2, <1>0, MoveSets DEF CalculateSmallestTime, HistoryInv, AllAt, history
    <2>7. OverrunInv'
      BY <1>7, <2>2, <1>0, MoveSets DEF CalculateSmallestTime, OverrunInv, PastPC
    <2> QED BY <2>4, <2>5, <2>6, <2>7
  <1>8. CASE Release
    <2>1. GoTo(Main, "join") /\ pc[Main] = "release" /\ g_systemIndex' = 0
      BY <1>8 DEF Release
    <2>2. Holders = {} /\ Holders' = {}
      BY <2>1, <1>0, MoveSets DEF BetweenInv, HoldingPC
    <2>3. HoldInv' /\ CountInv' /\ BetweenInv'
      BY <2>1, <2>2, <1>0, MoveSets DEF HoldInv, CountInv, BetweenInv
    <2>4. FlagInv'
      BY <1>8, <2>1, <1>0, MoveSets DEF Release, FlagInv, locals
    <2>5. HistoryInv' /\ OverrunInv'
      BY <2>1, <1>0, MoveSets DEF HistoryInv, OverrunInv
    <2> QED BY <2>3, <2>4, <2>5
  <1>9. CASE Join
    <2>1. GoTo(Main, "done") /\ pc[Main] = "join"
      BY <1>9 DEF Join
    <2>2. HoldInv'
      <3>1. Holders' = Holders
        BY <2>1, <1>0, MoveSets DEF Holders, HoldingPC
      <3>2. \A t \in Holders : pc'[t] = pc[t]
        BY <2>1, <1>0, MoveSets DEF Holders, HoldingPC
      <3> QED BY <1>9, <3>1, <3>2 DEF Join, HoldInv, locals, shared
    <2>3. CountInv' /\ BetweenInv' /\ HistoryInv'
      BY <2>1, <1>0, MoveSets DEF CountInv, BetweenInv, HistoryInv
    <2>4. FlagInv'
      BY <1>9, <2>1, <1>0, MoveSets DEF Join, FlagInv, locals, shared
    <2>5. OverrunInv'
      BY <1>9, <2>1, <1>0, MoveSets DEF Join, OverrunInv, PastPC, shared
    <2> QED BY <2>2, <2>3, <2>4, <2>5
  <1> QED BY <1>1, <1>2, <1>3, <1>4, <1>5, <1>6, <1>7, <1>8, <1>9

\* A fetch_add on g_systemIndex, by the main thread or a worker.
LEMMA ClaimInv ==
  ASSUME IInv, NEW t \in Thread, NEW lost \in {"barrier", "spin"},
         Claim(t, "take", lost), t = Main <=> lost = "barrier"
  PROVE  HoldInv' /\ CountInv' /\ BetweenInv' /\ FlagInv' /\ HistoryInv'
           /\ OverrunInv'
  <1> USE ThreadsAssumption, ThreadFinite
  <1> USE DEF IInv, Running, Between, Opening
  <1>0. /\ TypeOK
        /\ pc[t] = "claim"
        /\ g_systemIndex \in Nat /\ g_systemIndex' = g_systemIndex + 1
        /\ t \notin Holders
        /\ \A s \in Holders : index'[s] = index[s]
        /\ index'[t] = g_systemIndex
        /\ UNCHANGED <<stage, system, op, g_finishedSystemCount, g_recvMsgStage,
                       g_globalFinished, g_sortedSystemIndices, g_round,
                       processed, received>>
    BY DEF Claim, TypeOK, Holders, HoldingPC, history
  <1>1. CASE g_systemIndex >= SystemCount
    <2>1. GoTo(t, lost)
      BY <1>1 DEF Claim
    <2>2. /\ \A s \in Thread : pc'[s] = IF s = t THEN lost ELSE pc[s]
          /\ Holders' = Holders
          /\ Cardinality(Holders') = Cardinality(Holders)
      BY <1>0, <2>1, MoveSets DEF HoldingPC
    <2>3. (pc[Main] = pc'[Main]) \/ (pc[Main] = "claim" /\ pc'[Main] = "barrier")
      BY <1>0, <2>2
    <2>4. HoldInv'
      <3>1. \A s \in Holders : pc'[s] = pc[s]
        BY <1>0, <2>2 DEF Holders
      <3> QED BY <1>0, <2>2, <3>1 DEF HoldInv, Index
    <2>5. CountInv' /\ BetweenInv'
      BY <1>0, <1>1, <2>2, <2>3 DEF CountInv, BetweenInv
    <2>6. FlagInv'
      BY <1>0, <2>2, <2>3 DEF FlagInv
    <2>7. HistoryInv'
      <3>1. \A i \in Index : Worked(i)' <=> Worked(i)
        <4> TAKE i \in Index
        <4>1. i < g_systemIndex /\ i < g_systemIndex'
          BY <1>0, <1>1 DEF Index
        <4>2. \A s \in Holders : pc'[s] = pc[s]
          BY <1>0, <2>2 DEF Holders
        <4> QED BY <1>0, <2>2, <4>1, <4>2 DEF Worked
      <3> QED BY <1>0, <2>2, <2>3, <3>1 DEF HistoryInv, Reached, AllAt
    <2>8. OverrunInv'
      <3>1. lost \in PastPC /\ pc[t] \notin PastPC
        BY <1>0 DEF PastPC
      <3>2. Cardinality(Past) \in Nat /\ Cardinality(Past') = Cardinality(Past) + 1
        BY <1>0, <2>1, <3>1, MoveSets
      <3> QED BY <1>0, <3>2 DEF OverrunInv
    <2> QED BY <2>4, <2>5, <2>6, <2>7, <2>8
  <1>2. CASE g_systemIndex < SystemCount
    <2>1. GoTo(t, "take")
      BY <1>0, <1>2 DEF Claim
    <2>2. /\ \A s \in Thread : pc'[s] = IF s = t THEN "take" ELSE pc[s]
          /\ Holders' = Holders \cup {t}
          /\ Cardinality(Holders) \in Nat
          /\ Cardinality(Holders') = Cardinality(Holders) + 1
      BY <1>0, <2>1, MoveSets DEF HoldingPC
    <2>3. /\ (pc[Main] = pc'[Main]) \/ (pc[Main] = "claim" /\ pc'[Main] = "take")
          /\ pc[Main] \notin Between
          /\ \A s \in Holders : pc'[s] = pc[s]
      BY <1>0, <1>2, <2>2 DEF BetweenInv, Holders
    <2>4. HoldInv'
      <3>1. g_systemIndex \in Index
        BY <1>0, <1>2 DEF Index
      <3>2. \A s \in Holders : index[s] < g_systemIndex /\ index[s] \in Index
        BY DEF HoldInv
      <3>3. \A s \in Holders : index[s] # g_systemIndex /\ index[s] < g_systemIndex + 1
        BY <3>2, <1>0 DEF Index
      <3> QED BY <1>0, <2>2, <2>3, <3>1, <3>2, <3>3 DEF HoldInv
    <2>5. CountInv' /\ BetweenInv'
      BY <1>0, <1>2, <2>2, <2>3 DEF CountInv, BetweenInv, TypeOK
    <2>6. FlagInv'
      BY <1>0, <2>2, <2>3 DEF FlagInv
    <2>7. HistoryInv'
      <3>1. \A i \in Index : Worked(i)' <=> Worked(i)
        <4> TAKE i \in Index
        <4>1. CASE i = g_systemIndex
          <5>1. ~ Worked(i)
            BY <4>1, <1>0 DEF Worked
          <5>2. t \in Holders' /\ index'[t] = i /\ pc'[t] = "take"
            BY <4>1, <1>0, <2>2
          <5>3. ~ Worked(i)'
            BY <5>2 DEF Worked
          <5> QED BY <5>1, <5>3
        <4>2. CASE i # g_systemIndex
          <5>1. i < g_systemIndex <=> i < g_systemIndex'
            BY <4>2, <1>0 DEF Index
          <5>2. (\A s \in Holders' : index'[s] = i => pc'[s] = "count")
                  <=> (\A s \in Holders : index[s] = i => pc[s] = "count")
            BY <4>2, <1>0, <2>2, <2>3
          <5> QED BY <5>1, <5>2 DEF Worked
        <4> QED BY <4>1, <4>2
      <3> QED BY <1>0, <2>2, <2>3, <3>1 DEF HistoryInv, Reached, AllAt
    <2>8. OverrunInv'
      BY <1>0, <1>2 DEF OverrunInv
    <2> QED BY <2>4, <2>5, <2>6, <2>7, <2>8
  <1> QED BY <1>0, <1>1, <1>2

\* A holder reads which LP, or which method, it is to run.
LEMMA TakeInv ==
  ASSUME IInv, NEW t \in Thread,
         (t = Main /\ MainTake)
           \/ (t \in Worker /\ (WorkerTake(t) \/ ReadStage(t)))
  PROVE  HoldInv' /\ CountInv' /\ BetweenInv' /\ FlagInv' /\ HistoryInv'
           /\ OverrunInv'
  <1> USE ThreadsAssumption, ThreadFinite
  <1> USE DEF IInv, Running, Between, Opening
  <1>0. /\ TypeOK
        /\ pc[t] \in {"take", "stage"}
        /\ UNCHANGED <<stage, index, g_systemIndex, g_finishedSystemCount,
                       g_recvMsgStage, g_globalFinished, g_sortedSystemIndices,
                       g_round, processed, received>>
    BY DEF MainTake, WorkerTake, ReadStage, shared, history
  <1>1. PICK label \in {"stage", "work"} : GoTo(t, label)
    BY DEF MainTake, WorkerTake, ReadStage
  <1>2. /\ \A s \in Thread : pc'[s] = IF s = t THEN label ELSE pc[s]
        /\ Holders' = Holders /\ t \in Holders
        /\ Cardinality(Holders') = Cardinality(Holders)
    BY <1>0, <1>1, MoveSets DEF HoldingPC, Holders
  <1>3. pc'[Main] = pc[Main] \/ (pc[Main] = "take" /\ pc'[Main] = "work")
    BY <1>0, <1>1, <1>2 DEF MainTake, GoTo, TypeOK, WorkerPC, MainPC
  <1>4. HoldInv'
    <2>1. \A s \in Holders : s # t => system'[s] = system[s] /\ pc'[s] = pc[s]
      BY <1>2 DEF MainTake, WorkerTake, ReadStage, TypeOK, Holders
    <2>2. system'[t] = g_sortedSystemIndices[index[t]]
      BY <1>2 DEF MainTake, WorkerTake, ReadStage, TypeOK, Holders, HoldInv
    <2> QED BY <1>0, <1>2, <2>1, <2>2 DEF HoldInv
  <1>5. CountInv' /\ BetweenInv'
    BY <1>0, <1>2, <1>3 DEF CountInv, BetweenInv
  <1>6. FlagInv'
    <2>1. pc'[t] = "work" => op'[t] = IF g_recvMsgStage THEN "receive" ELSE "process"
      <3>1. CASE MainTake /\ t = Main
        <4>1. op'[t] = stage /\ pc[Main] = "take"
          BY <3>1 DEF MainTake, TypeOK
        <4> QED BY <4>1 DEF FlagInv, TypeOK, Method
      <3>2. CASE t \in Worker /\ WorkerTake(t)
        BY <3>2 DEF WorkerTake, GoTo, TypeOK
      <3>3. CASE t \in Worker /\ ReadStage(t)
        BY <3>3 DEF ReadStage, TypeOK
      <3> QED BY <3>1, <3>2, <3>3
    <2>2. \A s \in Thread : s # t => op'[s] = op[s] /\ pc'[s] = pc[s]
      BY <1>2 DEF MainTake, WorkerTake, ReadStage, TypeOK
    <2> QED BY <1>0, <1>3, <2>1, <2>2 DEF FlagInv
  <1>7. HistoryInv'
    <2>1. \A i \in Index : Worked(i)' <=> Worked(i)
      <3> TAKE i \in Index
      <3>1. (\A s \in Holders' : index'[s] = i => pc'[s] = "count")
              <=> (\A s \in Holders : index[s] = i => pc[s] = "count")
        BY <1>0, <1>2 DEF Holders
      <3> QED BY <1>0, <3>1 DEF Worked
    <2> QED BY <1>0, <1>2, <1>3, <2>1 DEF HistoryInv, Reached, AllAt
  <1>8. OverrunInv'
    <2>1. Cardinality(Past') = Cardinality(Past)
      BY <1>0, <1>1, MoveSets DEF PastPC
    <2> QED BY <1>0, <2>1 DEF OverrunInv
  <1> QED BY <1>4, <1>5, <1>6, <1>7, <1>8

\* A worker finds the simulation over or not, or leaves the inner loop.
LEMMA IdleInv ==
  ASSUME IInv, NEW w \in Worker, CheckFinished(w) \/ Spin(w)
  PROVE  HoldInv' /\ CountInv' /\ BetweenInv' /\ FlagInv' /\ HistoryInv'
           /\ OverrunInv'
  <1> USE ThreadsAssumption, ThreadFinite
  <1> USE DEF IInv, Running, Between, Opening
  <1>0. /\ TypeOK
        /\ pc[w] \in {"check", "spin"}
        /\ UNCHANGED <<stage, index, system, op, g_systemIndex,
                       g_finishedSystemCount, g_recvMsgStage, g_globalFinished,
                       g_sortedSystemIndices, g_round, processed, received>>
    BY DEF CheckFinished, Spin, locals, shared, history
  <1>1. PICK label \in {"exit", "claim", "check"} : GoTo(w, label)
    BY DEF CheckFinished, Spin
  <1>2. /\ \A s \in Thread : pc'[s] = IF s = w THEN label ELSE pc[s]
        /\ Holders' = Holders /\ w \notin Holders
        /\ Cardinality(Holders') = Cardinality(Holders)
        /\ pc'[Main] = pc[Main]
        /\ \A s \in Holders : pc'[s] = pc[s]
    <2>1. label \notin HoldingPC /\ pc[w] \notin HoldingPC
      BY <1>0 DEF HoldingPC
    <2>2. w \in Thread /\ w # Main
      OBVIOUS
    <2> QED BY <1>0, <1>1, <2>1, <2>2, MoveSets DEF Holders
  <1>3. HoldInv' /\ CountInv' /\ BetweenInv' /\ FlagInv'
    BY <1>0, <1>2 DEF HoldInv, CountInv, BetweenInv, FlagInv
  <1>4. HistoryInv'
    <2>1. \A i \in Index : Worked(i)' <=> Worked(i)
      BY <1>0, <1>2 DEF Worked
    <2> QED BY <1>0, <1>2, <2>1 DEF HistoryInv, Reached, AllAt
  <1>5. OverrunInv'
    <2>1. CASE CheckFinished(w)
      <3>1. Cardinality(Past') = Cardinality(Past)
        <4>1. pc[w] = "check" /\ label \in {"exit", "claim"}
          BY <2>1, <1>1 DEF CheckFinished, GoTo, TypeOK
        <4> QED BY <1>0, <1>1, <4>1, MoveSets DEF PastPC
      <3> QED BY <1>0, <3>1 DEF OverrunInv
    <2>2. CASE Spin(w)
      BY <2>2, <1>0 DEF Spin, OverrunInv, TypeOK
    <2> QED BY <2>1, <2>2
  <1> QED BY <1>3, <1>4, <1>5

\* A method of an LP returns.
LEMMA WorkInv ==
  ASSUME IInv, NEW t \in Thread, Work(t)
  PROVE  HoldInv' /\ CountInv' /\ BetweenInv' /\ FlagInv' /\ HistoryInv'
           /\ OverrunInv'
  <1> USE ThreadsAssumption, ThreadFinite
  <1> USE DEF IInv, Running, Between, Opening
  <1>0. /\ TypeOK
        /\ pc[t] = "work" /\ GoTo(t, "count")
        /\ UNCHANGED <<stage, index, system, op, g_systemIndex,
                       g_finishedSystemCount, g_recvMsgStage, g_globalFinished,
                       g_sortedSystemIndices, g_round>>
    BY DEF Work, locals, shared
  <1>1. /\ \A s \in Thread : pc'[s] = IF s = t THEN "count" ELSE pc[s]
        /\ Holders' = Holders /\ t \in Holders
        /\ Cardinality(Holders') = Cardinality(Holders)
        /\ Cardinality(Past') = Cardinality(Past)
    <2>1. t \in Holders
      BY <1>0 DEF Holders, HoldingPC
    <2>2. "count" \in HoldingPC /\ pc[t] \in HoldingPC
      BY <1>0 DEF HoldingPC
    <2>3. "count" \notin PastPC /\ pc[t] \notin PastPC
      BY <1>0 DEF PastPC
    <2> QED BY <1>0, <2>1, <2>2, <2>3, MoveSets
  <1>2. /\ pc'[Main] = pc[Main] \/ (pc[Main] = "work" /\ pc'[Main] = "count")
        /\ pc[Main] \notin Between
    BY <1>0, <1>1 DEF BetweenInv
  <1>3. HoldInv' /\ CountInv' /\ BetweenInv' /\ FlagInv' /\ OverrunInv'
    <2>1. HoldInv'
      <3>1. \A s \in Holders : pc'[s] # "take" => pc[s] # "take"
        BY <1>0, <1>1 DEF Holders
      <3> QED BY <1>0, <1>1, <3>1 DEF HoldInv
    <2>2. CountInv' /\ BetweenInv' /\ OverrunInv'
      BY <1>0, <1>1, <1>2 DEF CountInv, BetweenInv, OverrunInv
    <2>3. FlagInv'
      BY <1>0, <1>1, <1>2 DEF FlagInv
    <2> QED BY <2>1, <2>2, <2>3
  <1>4. HistoryInv'
    <2> DEFINE lp == g_sortedSystemIndices[index[t]]
    <2>1. /\ index[t] \in Index /\ system[t] = lp /\ lp \in LP
          /\ index[t] < g_systemIndex
      BY <1>0, <1>1 DEF HoldInv, TypeOK, Order
    <2>2. ~ Worked(index[t]) /\ Worked(index[t])'
      <3>1. ~ Worked(index[t])
        BY <1>0, <1>1 DEF Worked
      <3>2. \A s \in Holders' : index'[s] = index[t] => pc'[s] = "count"
        BY <1>0, <1>1 DEF HoldInv
      <3> QED BY <3>1, <3>2, <1>0, <2>1 DEF Worked
    <2>3. \A i \in Index : i # index[t] => (Worked(i)' <=> Worked(i))
      <3> SUFFICES ASSUME NEW i \in Index, i # index[t]
                   PROVE  Worked(i)' <=> Worked(i)
        OBVIOUS
      <3>1. (\A s \in Holders' : index'[s] = i => pc'[s] = "count")
              <=> (\A s \in Holders : index[s] = i => pc[s] = "count")
        BY <1>0, <1>1 DEF Holders
      <3> QED BY <1>0, <3>1 DEF Worked
    <2>4. \A i \in Index : i # index[t] => g_sortedSystemIndices[i] # lp
      BY <2>1, <1>0 DEF TypeOK, Order
    <2>5. \A i \in Index : g_sortedSystemIndices[i] \in LP
      BY <1>0 DEF TypeOK, Order
    <2>6. CASE pc[Main] \in Running
      <3>1. CASE stage = "process"
        <4>1. op[t] = "process"
          BY <2>6, <3>1, <1>0 DEF FlagInv
        <4>2. processed' = [processed EXCEPT ![lp] = @ + 1] /\ received' = received
          BY <4>1, <2>1 DEF Work
        <4>3. processed[lp] = g_round - 1
          BY <2>1, <2>2, <2>6, <3>1 DEF HistoryInv, Reached
        <4>4. Reached(processed, g_round)'
          <5> SUFFICES ASSUME NEW i \in Index
                       PROVE  processed'[g_sortedSystemIndices[i]] =
                                IF Worked(i)' THEN g_round ELSE g_round - 1
            BY <1>0 DEF Reached
          <5>1. CASE i = index[t]
            BY <5>1, <4>2, <4>3, <2>1, <2>2, <1>0 DEF TypeOK
          <5>2. CASE i # index[t]
            <6>1. processed'[g_sortedSystemIndices[i]] = processed[g_sortedSystemIndices[i]]
              BY <5>2, <4>2, <2>4, <2>5, <1>0 DEF TypeOK
            <6> QED BY <5>2, <6>1, <2>3, <2>6, <3>1 DEF HistoryInv, Reached
          <5> QED BY <5>1, <5>2
        <4> QED BY <4>2, <4>4, <2>6, <3>1, <1>0, <1>2 DEF HistoryInv, AllAt
      <3>2. CASE stage = "receive"
        <4>1. op[t] = "receive"
          BY <2>6, <3>2, <1>0 DEF FlagInv
        <4>2. received' = [received EXCEPT ![lp] = @ + 1] /\ processed' = processed
          BY <4>1, <2>1 DEF Work
        <4>3. received[lp] = g_round - 1
          BY <2>1, <2>2, <2>6, <3>2 DEF HistoryInv, Reached
        <4>4. Reached(received, g_round)'
          <5> SUFFICES ASSUME NEW i \in Index
                       PROVE  received'[g_sortedSystemIndices[i]] =
                                IF Worked(i)' THEN g_round ELSE g_round - 1
            BY <1>0 DEF Reached
          <5>1. CASE i = index[t]
            BY <5>1, <4>2, <4>3, <2>1, <2>2, <1>0 DEF TypeOK
          <5>2. CASE i # index[t]
            <6>1. received'[g_sortedSystemIndices[i]] = received[g_sortedSystemIndices[i]]
              BY <5>2, <4>2, <2>4, <2>5, <1>0 DEF TypeOK
            <6> QED BY <5>2, <6>1, <2>3, <2>6, <3>2 DEF HistoryInv, Reached
          <5> QED BY <5>1, <5>2
        <4> QED BY <4>2, <4>4, <2>6, <3>2, <1>0, <1>2 DEF HistoryInv, AllAt
      <3> QED BY <3>1, <3>2, <1>0 DEF TypeOK, Method
    <2>7. CASE pc[Main] \notin Running
      <3>1. pc[Main] \in {"join", "done"} /\ pc'[Main] = pc[Main]
        BY <2>7, <1>0, <1>2 DEF TypeOK, MainPC
      <3> QED BY <3>1 DEF HistoryInv
    <2> QED BY <2>6, <2>7
  <1> QED BY <1>3, <1>4

\* A holder counts its LP as finished.
LEMMA CountedInv ==
  ASSUME IInv, NEW t \in Thread, Count(t)
  PROVE  HoldInv' /\ CountInv' /\ BetweenInv' /\ FlagInv' /\ HistoryInv'
           /\ OverrunInv'
  <1> USE ThreadsAssumption, ThreadFinite
  <1> USE DEF IInv, Running, Between, Opening
  <1> DEFINE label == IF t = Main THEN "claim" ELSE "check"
  <1>0. /\ TypeOK
        /\ pc[t] = "count" /\ GoTo(t, label) /\ label \in {"claim", "check"}
        /\ g_finishedSystemCount' = g_finishedSystemCount + 1
        /\ UNCHANGED <<stage, index, system, op, g_systemIndex, g_recvMsgStage,
                       g_globalFinished, g_sortedSystemIndices, g_round,
                       processed, received>>
    BY DEF Count, locals, history
  <1>1. /\ \A s \in Thread : pc'[s] = IF s = t THEN label ELSE pc[s]
        /\ Holders' = Holders \ {t} /\ t \in Holders
        /\ Cardinality(Holders) \in Nat
        /\ Cardinality(Holders') = Cardinality(Holders) - 1
        /\ Cardinality(Past') = Cardinality(Past)
        /\ \A s \in Holders' : pc'[s] = pc[s]
    <2>1. t \in Holders /\ Holders \subseteq Thread
      BY <1>0 DEF Holders, HoldingPC
    <2>2. label \notin HoldingPC /\ pc[t] \in HoldingPC
      BY <1>0 DEF HoldingPC
    <2>3. label \notin PastPC /\ pc[t] \notin PastPC
      BY <1>0 DEF PastPC
    <2> HIDE DEF label
    <2> QED BY <1>0, <2>1, <2>2, <2>3, MoveSets
  <1>2. /\ pc'[Main] = pc[Main] \/ (pc[Main] = "count" /\ pc'[Main] = "claim")
        /\ pc[Main] \notin Between
    BY <1>0, <1>1 DEF BetweenInv
  <1>3. HoldInv'
    BY <1>0, <1>1 DEF HoldInv
  <1>4. CountInv' /\ BetweenInv' /\ OverrunInv'
    BY <1>0, <1>1, <1>2 DEF CountInv, BetweenInv, OverrunInv, TypeOK
  <1>5. FlagInv'
    BY <1>0, <1>1, <1>2 DEF FlagInv
  <1>6. HistoryInv'
    <2>1. \A i \in Index : Worked(i)' <=> Worked(i)
      BY <1>0, <1>1 DEF Worked
    <2> QED BY <1>0, <1>1, <1>2, <2>1 DEF HistoryInv, Reached, AllAt
  <1> QED BY <1>3, <1>4, <1>5, <1>6

LEMMA InvStep == IInv /\ [Next]_vars => IInv'
  <1> SUFFICES ASSUME IInv, [Next]_vars PROVE IInv'
    OBVIOUS
  <1>1. TypeOK'
    BY TypeStep DEF IInv
  <1> DEFINE Rest == HoldInv /\ CountInv /\ BetweenInv /\ FlagInv /\ HistoryInv
                       /\ OverrunInv
  <1>2. ASSUME MainNext PROVE Rest'
    <2>1. CASE MainClaim
      BY <2>1, ClaimInv, ThreadFinite DEF MainClaim
    <2>2. CASE MainTake
      BY <2>2, TakeInv, ThreadFinite
    <2>3. CASE Work(Main)
      BY <2>3, WorkInv, ThreadFinite
    <2>4. CASE Count(Main)
      BY <2>4, CountedInv, ThreadFinite
    <2> QED BY <1>2, <2>1, <2>2, <2>3, <2>4, MainInv DEF MainNext
  <1>3. ASSUME NEW w \in Worker, WorkerNext(w) PROVE Rest'
    <2>0. w \in Thread /\ w # Main
      BY ThreadFinite
    <2>1. CASE WorkerClaim(w)
      BY <2>1, <2>0, ClaimInv DEF WorkerClaim
    <2>2. CASE WorkerTake(w) \/ ReadStage(w)
      BY <2>2, <2>0, TakeInv
    <2>3. CASE Work(w)
      BY <2>3, <2>0, WorkInv
    <2>4. CASE Count(w)
      BY <2>4, <2>0, CountedInv
    <2>5. CASE CheckFinished(w) \/ Spin(w)
      BY <2>5, IdleInv
    <2> QED BY <1>3, <2>1, <2>2, <2>3, <2>4, <2>5 DEF WorkerNext
  <1>4. ASSUME UNCHANGED vars PROVE Rest'
    BY <1>4 DEF IInv, vars, HoldInv, CountInv, BetweenInv, FlagInv, HistoryInv,
                OverrunInv, Holders, Past, Worked, Reached, AllAt
  <1> QED BY <1>1, <1>2, <1>3, <1>4 DEF IInv, Next, KeepSpinning, Returned

----------------------------------------------------------------------------
(* The theorems.                                                            *)

\* Every reachable state of the pool satisfies the inductive invariant.
THEOREM Invariance == SafeSpec => []IInv
  BY InvInit, InvStep, PTL DEF SafeSpec

\* The variables of the pool keep their types; the array that hands out LPs
\* always remains a permutation of the LPs, whatever is sorted and when.
THEOREM TypeCorrect == SafeSpec => []TypeOK
  <1>1. IInv => TypeOK
    BY DEF IInv
  <1> QED BY <1>1, Invariance, PTL

\* With any number of threads, no two of them are ever in the same LP, and
\* processing never overlaps receiving (ProcessOneRound's two stages).
THEOREM Exclusive == SafeSpec => []StageExclusive
  <1>1. IInv => StageExclusive
    <2> SUFFICES ASSUME IInv, NEW s \in Thread, NEW t \in Thread,
                        s # t, pc[s] = "work", pc[t] = "work"
                 PROVE  system[s] # system[t] /\ op[s] = op[t]
      BY DEF StageExclusive
    <2>1. s \in Holders /\ t \in Holders
      BY DEF Holders, HoldingPC
    <2>2. system[s] # system[t]
      BY <2>1 DEF IInv, HoldInv, TypeOK, Order
    <2>3. op[s] = op[t]
      BY DEF IInv, FlagInv
    <2> QED BY <2>2, <2>3
  <1> QED BY <1>1, Invariance, PTL

\* The main thread sorts, runs the public LP and computes the next window
\* while no thread holds an LP.
THEOREM Alone == SafeSpec => []MainAlone
  <1>1. IInv => MainAlone
    BY DEF IInv, BetweenInv, Between, MainAlone
  <1> QED BY <1>1, Invariance, PTL

\* Each round processes and receives for each LP exactly once.
THEOREM Rounds == SafeSpec => []Lockstep
  <1>1. IInv => Lockstep
    BY DEF IInv, HistoryInv, AllAt, Lockstep
  <1> QED BY <1>1, Invariance, PTL

\* The 32 bit index overshoots the LP count by at most one per thread.
THEOREM Bounded == SafeSpec => []IndexBounded
  <1>1. IInv => IndexBounded
    <2> SUFFICES ASSUME IInv PROVE IndexBounded
      OBVIOUS
    <2>1. Cardinality(Past) \in Nat /\ Cardinality(Past) <= ThreadCount
      BY ThreadFinite DEF Past
    <2> QED BY <2>1, ThreadsAssumption DEF IInv, TypeOK, OverrunInv, IndexBounded
  <1> QED BY <1>1, Invariance, PTL

\* No event is processed once g_globalFinished has been set.
THEOREM LateWorkersOnlyReceive == SafeSpec => NoLateProcessing
  <1>1. IInv /\ [Next]_vars => [g_globalFinished => UNCHANGED processed]_vars
    <2> SUFFICES ASSUME IInv, Next, g_globalFinished
                 PROVE  processed' = processed
      BY DEF vars
    <2>1. ASSUME NEW t \in Thread, Work(t) PROVE processed' = processed
      <3>1. op[t] = "receive"
        BY <2>1 DEF Work, IInv, FlagInv
      <3> QED BY <2>1, <3>1 DEF Work
    <2>2. CASE MainNext
      <3>1. CASE Work(Main)
        BY <3>1, <2>1, ThreadFinite
      <3> QED BY <2>2, <3>1
              DEF MainNext, Sort, SetStage, ResetFinished, Publish, MainClaim, Claim,
                  MainTake, Count, Barrier, PublicLP, CalculateSmallestTime,
                  Release, Join, history
    <2>3. ASSUME NEW w \in Worker, WorkerNext(w) PROVE processed' = processed
      <3>1. CASE Work(w)
        BY <3>1, <2>1, ThreadFinite
      <3> QED BY <2>3, <3>1
              DEF WorkerNext, CheckFinished, WorkerClaim, Claim, Spin, WorkerTake,
                  ReadStage, Count, history
    <2>4. CASE KeepSpinning \/ Returned
      BY <2>4 DEF KeepSpinning, Returned, vars
    <2> QED BY <2>2, <2>3, <2>4 DEF Next
  <1> QED BY <1>1, Invariance, PTL DEF SafeSpec, NoLateProcessing

----------------------------------------------------------------------------
(* The threads implement the stages of MtpStages, step by step.             *)

\* The phase of MtpStages that each position of the main thread stands for.
PhaseIs ==
    /\ pc[Main] \in Running => phaseBar = stage
    /\ pc[Main] = "public" => phaseBar = "public"
    /\ pc[Main] \in Opening /\ stage = "receive" => phaseBar = "public"
    /\ pc[Main] \in Opening /\ stage = "process" => phaseBar = "calc"
    /\ pc[Main] \in {"sort", "calc", "release"} => phaseBar = "calc"
    /\ pc[Main] \in {"join", "done"} => phaseBar = "over"

Held(i) == \E t \in Holders : index[t] = i

\* An LP is to be worked on until its index is handed out, and worked on as
\* long as a thread holds the index.
WorkIs ==
    /\ workBar = [lp \in LP |-> workBar[lp]]
    /\ \A i \in Index : workBar[g_sortedSystemIndices[i]] =
         IF i >= g_systemIndex THEN "todo" ELSE IF Held(i) THEN "busy" ELSE "done"

LEMMA PhaseMeaning == IInv => PhaseIs
  <1> SUFFICES ASSUME IInv PROVE PhaseIs
    OBVIOUS
  <1>1. pc[Main] \in MainPC /\ stage \in Method
    BY DEF IInv, TypeOK
  <1> QED BY <1>1 DEF PhaseIs, phaseBar, MainPC, Method, Running, Opening

LEMMA WorkMeaning == IInv => WorkIs
  <1> SUFFICES ASSUME IInv PROVE WorkIs
    OBVIOUS
  <1> USE ThreadsAssumption
  <1> DEFINE At(lp) == CHOOSE i \in Index : g_sortedSystemIndices[i] = lp
  <1>1. workBar = [lp \in LP |-> WorkOf(At(lp))]
    BY DEF workBar
  <1>2. workBar = [lp \in LP |-> workBar[lp]]
    BY <1>1
  <1>3. ASSUME NEW i \in Index
        PROVE  At(g_sortedSystemIndices[i]) = i /\ g_sortedSystemIndices[i] \in LP
    <2>1. g_sortedSystemIndices \in Order
      BY DEF IInv, TypeOK
    <2> QED BY <2>1 DEF Order
  <1> HIDE DEF At
  <1>4. ASSUME NEW i \in Index
        PROVE  WorkOf(i) =
                 IF i >= g_systemIndex THEN "todo" ELSE IF Held(i) THEN "busy" ELSE "done"
    <2>1. i \in Nat /\ g_systemIndex \in Nat /\ i < SystemCount
      BY DEF IInv, TypeOK, Index
    <2>2. pc[Main] \in Between => phaseBar \notin {"process", "receive", "over"}
      BY PhaseMeaning DEF PhaseIs, Between, Opening, IInv, TypeOK, Method
    <2>3. pc[Main] \notin Between => phaseBar \in {"process", "receive", "over"}
      BY PhaseMeaning DEF PhaseIs, Between, Running, IInv, TypeOK, Method, MainPC
    <2>4. CASE pc[Main] \in Between
      <3>1. Holders = {} /\ i < g_systemIndex
        BY <2>1, <2>4 DEF IInv, BetweenInv
      <3>2. ~ Held(i)
        BY <3>1 DEF Held
      <3> QED BY <2>1, <2>2, <2>4, <3>1, <3>2 DEF WorkOf, Held
    <2>5. CASE pc[Main] \notin Between
      BY <2>1, <2>3, <2>5 DEF WorkOf, Held
    <2> QED BY <2>4, <2>5
  <1>5. \A i \in Index : workBar[g_sortedSystemIndices[i]] = WorkOf(i)
    BY <1>1, <1>3
  <1> QED BY <1>2, <1>4, <1>5 DEF WorkIs

\* When no index is handed out again and no holder comes or goes, the work of
\* every LP is where it was.
LEMMA WorkSame ==
  ASSUME IInv, WorkIs, WorkIs', g_sortedSystemIndices' = g_sortedSystemIndices,
         \A i \in Index : i >= g_systemIndex' <=> i >= g_systemIndex,
         \A i \in Index : Held(i)' <=> Held(i)
  PROVE  workBar' = workBar
  <1>1. \A lp \in LP : \E i \in Index : g_sortedSystemIndices[i] = lp
    BY DEF IInv, TypeOK, Order
  <1>2. \A lp \in LP : workBar'[lp] = workBar[lp]
    BY <1>1 DEF WorkIs
  <1> QED BY <1>2 DEF WorkIs

\* Every index is handed out and none is held: the LPs are done.
LEMMA WorkDone ==
  ASSUME IInv, WorkIs, Holders = {}, g_systemIndex >= SystemCount
  PROVE  workBar = [lp \in LP |-> "done"]
  <1>1. \A lp \in LP : \E i \in Index : g_sortedSystemIndices[i] = lp
    BY DEF IInv, TypeOK, Order
  <1>2. \A i \in Index : ~ (i >= g_systemIndex) /\ ~ Held(i)
    BY ThreadsAssumption DEF IInv, TypeOK, Index, Held
  <1>3. \A lp \in LP : workBar[lp] = "done"
    BY <1>1, <1>2 DEF WorkIs
  <1> QED BY <1>3 DEF WorkIs

\* No index is handed out: all LPs are still to be worked on.
LEMMA WorkTodo ==
  ASSUME IInv, WorkIs, g_systemIndex = 0
  PROVE  workBar = [lp \in LP |-> "todo"]
  <1>1. \A lp \in LP : \E i \in Index : g_sortedSystemIndices[i] = lp
    BY DEF IInv, TypeOK, Order
  <1>2. \A i \in Index : i >= g_systemIndex
    BY ThreadsAssumption DEF Index
  <1>3. \A lp \in LP : workBar[lp] = "todo"
    BY <1>1, <1>2 DEF WorkIs
  <1> QED BY <1>3 DEF WorkIs

\* The work of one LP changes.
LEMMA WorkOne ==
  ASSUME IInv, WorkIs, WorkIs', g_sortedSystemIndices' = g_sortedSystemIndices,
         NEW k \in Index, NEW new,
         workBar'[g_sortedSystemIndices[k]] = new,
         \A i \in Index \ {k} : workBar'[g_sortedSystemIndices[i]] = workBar[g_sortedSystemIndices[i]]
  PROVE  workBar' = [workBar EXCEPT ![g_sortedSystemIndices[k]] = new]
  <1>1. /\ \A lp \in LP : \E i \in Index : g_sortedSystemIndices[i] = lp
        /\ \A i, j \in Index : g_sortedSystemIndices[i] = g_sortedSystemIndices[j] => i = j
        /\ g_sortedSystemIndices[k] \in LP
    BY DEF IInv, TypeOK, Order
  <1>2. \A lp \in LP : workBar'[lp] = IF lp = g_sortedSystemIndices[k] THEN new ELSE workBar[lp]
    BY <1>1
  <1> QED BY <1>1, <1>2 DEF WorkIs

\* The main thread's steps between the stages, into one and out of one.
LEMMA MainStages ==
  ASSUME IInv, IInv', PhaseIs, PhaseIs', WorkIs, WorkIs',
         Sort \/ SetStage \/ ResetFinished \/ Publish \/ Barrier \/ PublicLP
           \/ CalculateSmallestTime \/ Release \/ Join
  PROVE  [Stages!Next]_(Stages!vars)
  <1> USE ThreadsAssumption, ThreadFinite
  <1> USE DEF Stages!vars, Stages!LP, LP
  <1>0. TypeOK /\ stage \in Method
    BY DEF IInv, TypeOK
  <1>1. ASSUME pc[Main] \in Between, pc'[Main] \in Between, phaseBar' = phaseBar
        PROVE  UNCHANGED Stages!vars
    <2>1. workBar = [lp \in LP |-> "done"]
      BY <1>1, WorkDone DEF IInv, BetweenInv
    <2>2. IInv' /\ WorkIs' /\ Holders' = {} /\ g_systemIndex' >= SystemCount
      BY <1>1 DEF IInv, BetweenInv
    <2>3. (IInv /\ WorkIs /\ Holders = {} /\ g_systemIndex >= SystemCount
             => workBar = [lp \in LP |-> "done"])'
      BY WorkDone, PTL
    <2>4. workBar' = [lp \in LP |-> "done"]
      BY <2>2, <2>3
    <2> QED BY <1>1, <2>1, <2>4
  <1>2. ASSUME g_systemIndex' = 0 PROVE workBar' = [lp \in LP |-> "todo"]
    <2>1. (IInv /\ WorkIs /\ g_systemIndex = 0 => workBar = [lp \in LP |-> "todo"])'
      BY WorkTodo, PTL
    <2> QED BY <1>2, <2>1
  <1>3. CASE Sort
    <2>1. pc[Main] = "sort" /\ pc'[Main] = "setStage" /\ stage' = stage
      BY <1>0, <1>3 DEF Sort, GoTo, TypeOK
    <2>2. stage = "process"
      BY <2>1 DEF IInv, FlagInv
    <2>3. phaseBar' = phaseBar
      BY <2>1, <2>2 DEF PhaseIs, Opening
    <2> QED BY <1>1, <2>1, <2>3 DEF Between
  <1>4. CASE SetStage
    <2>1. pc[Main] = "setStage" /\ pc'[Main] = "reset" /\ stage' = stage
      BY <1>0, <1>4 DEF SetStage, GoTo, TypeOK
    <2>2. phaseBar' = phaseBar
      BY <1>0, <2>1 DEF PhaseIs, Opening, Method
    <2> QED BY <1>1, <2>1, <2>2 DEF Between
  <1>5. CASE ResetFinished
    <2>1. pc[Main] = "reset" /\ pc'[Main] = "publish" /\ stage' = stage
      BY <1>0, <1>5 DEF ResetFinished, GoTo, TypeOK
    <2>2. phaseBar' = phaseBar
      BY <1>0, <2>1 DEF PhaseIs, Opening, Method
    <2> QED BY <1>1, <2>1, <2>2 DEF Between
  <1>6. CASE Publish
    <2>1. pc[Main] = "publish" /\ pc'[Main] = "claim" /\ stage' = stage /\ g_systemIndex' = 0
      BY <1>0, <1>6 DEF Publish, GoTo, TypeOK
    <2>2. phaseBar' = stage
      BY <2>1 DEF PhaseIs, Running
    <2>3. workBar' = [lp \in LP |-> "todo"]
      BY <1>2, <2>1
    <2>4. CASE stage = "process"
      <3>1. phaseBar = "calc"
        BY <2>1, <2>4 DEF PhaseIs, Opening
      <3> QED BY <2>2, <2>3, <2>4, <3>1 DEF Stages!Next, Stages!NextRound
    <2>5. CASE stage = "receive"
      <3>1. phaseBar = "public"
        BY <2>1, <2>5 DEF PhaseIs, Opening
      <3> QED BY <2>2, <2>3, <2>5, <3>1 DEF Stages!Next, Stages!EnterReceive
    <2> QED BY <1>0, <2>4, <2>5 DEF Method
  <1>7. CASE Barrier
    <2>1. /\ pc[Main] = "barrier" /\ stage' = stage
          /\ pc'[Main] = IF stage = "process" THEN "public" ELSE "calc"
          /\ g_systemIndex' = g_systemIndex /\ pc'[Main] \in Between
      BY <1>0, <1>7 DEF Barrier, GoTo, TypeOK, shared, Between
    <2>2. Holders' = {} /\ g_systemIndex' >= SystemCount
      BY <2>1 DEF IInv, BetweenInv
    <2>3. Holders = {}
      <3>1. /\ Cardinality(Holders) \in Nat /\ IsFiniteSet(Holders)
        BY DEF Holders
      <3>2. g_finishedSystemCount + Cardinality(Holders) = SystemCount
            /\ g_finishedSystemCount = SystemCount
        BY <1>7, <2>1, <2>2 DEF Barrier, IInv, CountInv, Running, TypeOK
      <3>3. Cardinality(Holders) = 0
        BY <3>1, <3>2
      <3> QED BY <3>1, <3>3, FS_EmptySet
    <2>4. workBar = [lp \in LP |-> "done"]
      BY <2>1, <2>2, <2>3, WorkDone
    <2>5. workBar' = [lp \in LP |-> "done"]
      <3>1. (IInv /\ WorkIs /\ Holders = {} /\ g_systemIndex >= SystemCount
               => workBar = [lp \in LP |-> "done"])'
        BY WorkDone, PTL
      <3> QED BY <2>2, <3>1
    <2>6. phaseBar = stage
      BY <2>1 DEF PhaseIs, Running
    <2>7. CASE stage = "process"
      <3>1. phaseBar' = "public"
        BY <2>1, <2>7 DEF PhaseIs
      <3> QED BY <2>4, <2>5, <2>6, <2>7, <3>1
           DEF Stages!Next, Stages!EnterPublic, Stages!AllDone
    <2>8. CASE stage = "receive"
      <3>1. phaseBar' = "calc"
        BY <2>1, <2>8 DEF PhaseIs
      <3> QED BY <2>4, <2>5, <2>6, <2>8, <3>1
           DEF Stages!Next, Stages!EnterCalc, Stages!AllDone
    <2> QED BY <1>0, <2>7, <2>8 DEF Method
  <1>8. CASE PublicLP
    <2>1. pc[Main] = "public" /\ pc'[Main] = "setStage" /\ stage' = "receive"
      BY <1>0, <1>8 DEF PublicLP, GoTo, TypeOK
    <2>2. phaseBar' = phaseBar
      BY <2>1 DEF PhaseIs, Opening
    <2> QED BY <1>1, <2>1, <2>2 DEF Between
  <1>9. CASE CalculateSmallestTime
    <2>1. pc[Main] = "calc" /\ pc'[Main] \in {"release", "sort"}
      BY <1>0, <1>9 DEF CalculateSmallestTime, GoTo, TypeOK
    <2>2. phaseBar' = phaseBar
      BY <2>1 DEF PhaseIs
    <2> QED BY <1>1, <2>1, <2>2 DEF Between
  <1>10. CASE Release
    <2>1. pc[Main] = "release" /\ pc'[Main] = "join" /\ g_systemIndex' = 0
      BY <1>0, <1>10 DEF Release, GoTo, TypeOK
    <2>2. phaseBar = "calc" /\ phaseBar' = "over"
      BY <2>1 DEF PhaseIs
    <2>3. workBar' = [lp \in LP |-> "todo"]
      BY <1>2, <2>1
    <2> QED BY <2>2, <2>3 DEF Stages!Next, Stages!Finish
  <1>11. CASE Join
    <2>1. /\ pc[Main] = "join" /\ pc'[Main] = "done"
          /\ UNCHANGED <<index, g_systemIndex, g_sortedSystemIndices>>
          /\ GoTo(Main, "done")
      BY <1>0, <1>11 DEF Join, GoTo, TypeOK, locals, shared
    <2>2. phaseBar' = phaseBar
      BY <2>1 DEF PhaseIs
    <2>3. Holders' = Holders
      BY <2>1, <1>0 DEF Holders, HoldingPC, GoTo, TypeOK
    <2>4. \A i \in Index : Held(i)' <=> Held(i)
      BY <2>1, <2>3 DEF Held
    <2>5. workBar' = workBar
      BY <2>1, <2>4, WorkSame
    <2> QED BY <2>2, <2>5
  <1> QED BY <1>3, <1>4, <1>5, <1>6, <1>7, <1>8, <1>9, <1>10, <1>11

\* The steps of a thread inside its loop, the main thread or a worker, leave
\* the phase as it is.
LEMMA PhaseSame ==
  ASSUME IInv, PhaseIs, PhaseIs', stage' = stage,
         \/ pc'[Main] = pc[Main]
         \/ pc[Main] \in Running /\ pc'[Main] \in Running
  PROVE  phaseBar' = phaseBar
  <1>1. pc[Main] \in MainPC /\ stage \in Method
    BY DEF IInv, TypeOK
  <1> QED BY <1>1 DEF PhaseIs, MainPC, Method, Running, Opening

LEMMA ThreadStages ==
  ASSUME IInv, IInv', PhaseIs, PhaseIs', WorkIs, WorkIs', NEW t \in Thread,
         \/ Claim(t, "take", IF t = Main THEN "barrier" ELSE "spin")
         \/ t = Main /\ MainTake
         \/ t \in Worker /\ (WorkerTake(t) \/ ReadStage(t) \/ CheckFinished(t) \/ Spin(t))
         \/ Work(t) \/ Count(t)
  PROVE  [Stages!Next]_(Stages!vars)
  <1> USE ThreadsAssumption, ThreadFinite
  <1> USE DEF Stages!vars, Stages!LP, LP
  <1>0. TypeOK /\ stage \in Method /\ g_sortedSystemIndices \in Order
    BY DEF IInv, TypeOK
  <1>1. stage' = stage /\ g_sortedSystemIndices' = g_sortedSystemIndices
    BY DEF Claim, MainTake, WorkerTake, ReadStage, CheckFinished, Spin, Work, Count, shared
  <1>2. \/ pc'[Main] = pc[Main]
        \/ pc[Main] \in Running /\ pc'[Main] \in Running
    BY <1>0 DEF Claim, MainTake, WorkerTake, ReadStage, CheckFinished, Spin, Work, Count,
         GoTo, TypeOK, Running
  <1>3. phaseBar' = phaseBar
    BY <1>1, <1>2, PhaseSame
  <1>4. ASSUME pc[Main] \notin Between PROVE phaseBar \in Stages!Shared
    BY <1>0, <1>4 DEF PhaseIs, Stages!Shared, Between, Running, Method, MainPC, TypeOK
  <1>5. CASE Claim(t, "take", IF t = Main THEN "barrier" ELSE "spin")
    <2>1. /\ pc[t] = "claim"
          /\ index' = [index EXCEPT ![t] = g_systemIndex]
          /\ g_systemIndex' = g_systemIndex + 1 /\ g_systemIndex \in Nat
      BY <1>0, <1>5 DEF Claim, TypeOK
    <2>2. t \notin Holders
      BY <2>1 DEF Holders, HoldingPC
    <2>3. CASE g_systemIndex >= SystemCount
      <3>1. Holders' = Holders
        BY <1>0, <1>5, <2>1, <2>2, <2>3 DEF Claim, Holders, HoldingPC, GoTo, TypeOK
      <3>2. \A s \in Holders : index'[s] = index[s]
        BY <1>0, <2>1, <2>2 DEF Holders, TypeOK
      <3>3. \A i \in Index : Held(i)' <=> Held(i)
        BY <3>1, <3>2 DEF Held
      <3>4. \A i \in Index : i >= g_systemIndex' <=> i >= g_systemIndex
        BY <2>1, <2>3 DEF Index
      <3>5. workBar' = workBar
        BY <1>1, <3>3, <3>4, WorkSame
      <3> QED BY <1>3, <3>5
    <2>4. CASE g_systemIndex < SystemCount
      <3> DEFINE k == g_systemIndex
      <3>1. k \in Index /\ g_sortedSystemIndices[k] \in LP
        BY <1>0, <2>1, <2>4 DEF Index, Order
      <3>2. Holders' = Holders \cup {t}
        BY <1>0, <1>5, <2>1, <2>4 DEF Claim, Holders, HoldingPC, GoTo, TypeOK
      <3>3. index'[t] = k /\ \A s \in Holders : index'[s] = index[s] /\ index[s] < k
        BY <1>0, <2>1, <2>2 DEF Holders, TypeOK, IInv, HoldInv
      <3>4. \A i \in Index : Held(i)' <=> Held(i) \/ i = k
        BY <3>2, <3>3 DEF Held
      <3>5. workBar[g_sortedSystemIndices[k]] = "todo"
        <4>1. \A i \in Index : workBar[g_sortedSystemIndices[i]] =
                IF i >= g_systemIndex THEN "todo" ELSE IF Held(i) THEN "busy" ELSE "done"
          BY DEF WorkIs
        <4>2. k >= g_systemIndex
          BY <2>1
        <4> QED BY <3>1, <4>1, <4>2
      <3>6. workBar'[g_sortedSystemIndices[k]] = "busy"
        BY <1>1, <2>1, <3>1, <3>4 DEF WorkIs
      <3>7. ASSUME NEW i \in Index \ {k}
            PROVE  workBar'[g_sortedSystemIndices[i]] = workBar[g_sortedSystemIndices[i]]
        <4>1. i >= g_systemIndex' <=> i >= g_systemIndex
          BY <2>1 DEF Index
        <4> QED BY <1>1, <3>4, <4>1 DEF WorkIs
      <3>8. workBar' = [workBar EXCEPT ![g_sortedSystemIndices[k]] = "busy"]
        BY <1>1, <3>1, <3>6, <3>7, WorkOne
      <3>9. phaseBar \in Stages!Shared
        BY <1>4, <2>1, <2>4 DEF IInv, BetweenInv
      <3>10. Stages!Begin(g_sortedSystemIndices[k])
        BY <1>3, <3>5, <3>8, <3>9 DEF Stages!Begin
      <3> QED BY <3>1, <3>10 DEF Stages!Next
    <2> QED BY <2>1, <2>3, <2>4
  <1>6. ASSUME UNCHANGED <<index, g_systemIndex>>, Holders' = Holders
        PROVE  UNCHANGED Stages!vars
    <2>1. \A i \in Index : Held(i)' <=> Held(i)
      BY <1>6 DEF Held
    <2>2. workBar' = workBar
      BY <1>1, <1>6, <2>1, WorkSame
    <2> QED BY <1>3, <2>2
  <1>7. CASE t = Main /\ MainTake
    <2>1. Holders' = Holders
      BY <1>0, <1>7 DEF MainTake, Holders, HoldingPC, GoTo, TypeOK
    <2> QED BY <1>6, <1>7, <2>1 DEF MainTake, shared
  <1>8. CASE t \in Worker /\ (WorkerTake(t) \/ ReadStage(t) \/ CheckFinished(t) \/ Spin(t))
    <2>1. Holders' = Holders
      BY <1>0, <1>8 DEF WorkerTake, ReadStage, CheckFinished, Spin, Holders, HoldingPC,
           GoTo, TypeOK
    <2> QED BY <1>6, <1>8, <2>1 DEF WorkerTake, ReadStage, CheckFinished, Spin, locals, shared
  <1>9. CASE Work(t)
    <2>1. Holders' = Holders
      BY <1>0, <1>9 DEF Work, Holders, HoldingPC, GoTo, TypeOK
    <2> QED BY <1>6, <1>9, <2>1 DEF Work, locals, shared
  <1>10. CASE Count(t)
    <2>1. /\ pc[t] = "count" /\ UNCHANGED <<index, g_systemIndex>>
          /\ Holders' = Holders \ {t} /\ t \in Holders
      BY <1>0, <1>10 DEF Count, Holders, HoldingPC, GoTo, TypeOK, locals
    <2> DEFINE k == index[t]
    <2>2. /\ k \in Index /\ k < g_systemIndex /\ g_sortedSystemIndices[k] \in LP
          /\ \A s \in Holders : s # t => index[s] # k
      BY <1>0, <2>1 DEF IInv, HoldInv, Order
    <2>3. \A i \in Index : Held(i)' <=> Held(i) /\ i # k
      BY <2>1, <2>2 DEF Held
    <2>4. Held(k) /\ ~ (k >= g_systemIndex)
      BY <2>1, <2>2, <1>0 DEF Held, TypeOK, Index
    <2>5. workBar[g_sortedSystemIndices[k]] = "busy"
      BY <2>2, <2>4 DEF WorkIs
    <2>6. workBar'[g_sortedSystemIndices[k]] = "done"
      BY <1>1, <2>1, <2>2, <2>3, <2>4 DEF WorkIs
    <2>7. ASSUME NEW i \in Index \ {k}
          PROVE  workBar'[g_sortedSystemIndices[i]] = workBar[g_sortedSystemIndices[i]]
      BY <1>1, <2>1, <2>3 DEF WorkIs
    <2>8. workBar' = [workBar EXCEPT ![g_sortedSystemIndices[k]] = "done"]
      BY <1>1, <2>2, <2>6, <2>7, WorkOne
    <2>9. phaseBar \in Stages!Shared
      BY <1>4, <2>1 DEF IInv, BetweenInv
    <2>10. Stages!End(g_sortedSystemIndices[k])
      BY <1>3, <2>5, <2>8, <2>9 DEF Stages!End
    <2> QED BY <2>2, <2>10 DEF Stages!Next
  <1> QED BY <1>5, <1>7, <1>8, <1>9, <1>10

LEMMA StagesStep ==
  ASSUME IInv, IInv', PhaseIs, PhaseIs', WorkIs, WorkIs', [Next]_vars
  PROVE  [Stages!Next]_(Stages!vars)
  <1> USE ThreadFinite
  <1>1. CASE MainNext
    BY <1>1, MainStages, ThreadStages DEF MainNext, MainClaim
  <1>2. ASSUME NEW w \in Worker, WorkerNext(w) PROVE [Stages!Next]_(Stages!vars)
    BY <1>2, ThreadStages DEF WorkerNext, WorkerClaim
  <1>3. ASSUME UNCHANGED vars PROVE UNCHANGED Stages!vars
    BY <1>3 DEF vars, Stages!vars, phaseBar, workBar, WorkOf, Holders
  <1> QED BY <1>1, <1>2, <1>3 DEF Next, KeepSpinning, Returned

LEMMA StagesInit == Init => Stages!Init
  <1> SUFFICES ASSUME Init PROVE Stages!Init
    OBVIOUS
  <1> USE ThreadsAssumption, ThreadFinite
  <1>1. IInv /\ PhaseIs /\ WorkIs
    BY InvInit, PhaseMeaning, WorkMeaning
  <1>2. pc[Main] = "sort" /\ g_systemIndex = SystemCount
    BY DEF Init
  <1>3. Holders = {}
    BY <1>1, <1>2 DEF IInv, BetweenInv, Between
  <1>4. phaseBar = "calc"
    BY <1>1, <1>2 DEF PhaseIs
  <1>5. workBar = [lp \in LP |-> "done"]
    BY <1>1, <1>2, <1>3, WorkDone
  <1> QED BY <1>4, <1>5 DEF Stages!Init, Stages!LP, LP

\* What StagesSpec says of single steps: with any number of threads, the pool
\* goes through the stages of MtpStages, each LP begun and ended once a stage
\* and each barrier passed only when every LP is done, which is all that
\* MtpRounds assumes of it.
THEOREM StagesImplemented ==
    SafeSpec => Stages!Init /\ [][Stages!Next]_(Stages!vars)
  <1>1. IInv => PhaseIs /\ WorkIs
    BY PhaseMeaning, WorkMeaning
  <1>2. IInv /\ IInv' /\ PhaseIs /\ PhaseIs' /\ WorkIs /\ WorkIs' /\ [Next]_vars
          => [Stages!Next]_(Stages!vars)
    BY StagesStep
  <1> QED BY <1>1, <1>2, StagesInit, Invariance, PTL DEF SafeSpec

=============================================================================

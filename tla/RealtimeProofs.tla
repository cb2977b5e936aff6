--------------------------- MODULE RealtimeProofs ---------------------------
(***************************************************************************)
(* The realtime simulator with the device that reads from a file           *)
(* descriptor, for any times, delays, numbers of events and packets.  DInv *)
(* holds for any number of calls of Run; the order of the events needs a   *)
(* single call, as a second one moves the origin of the real time.         *)
(***************************************************************************)
EXTENDS FdNetDevice, FiniteSetTheorems, WellFoundedInduction, TLAPS

Kinds == {"StartDevice", "StopDevice", "ForwardUp", "other", "cancelled"}

Pcs == {"out", "origin", "loop", "look", "sync", "sleep", "drift", "spin", "take",
        "invoke", "join", "destroyed"}

Forwards == {e \in events : e.kind = "ForwardUp"}

One(b) == IF b THEN 1 ELSE 0

Ranges ==
    /\ clock \in Nat /\ origin \in 0 .. clock
    /\ flags \in [running : BOOLEAN, stop : BOOLEAN, condition : BOOLEAN]
    /\ main \in [pc : Pcs, target : Int, idle : BOOLEAN, runs : Nat]
    /\ queue \in Nat
    /\ reader \in [pc : {"none", "select", "callback", "schedule", "done"},
                   stop : BOOLEAN, pipe : BOOLEAN, fd : BOOLEAN]
    /\ current \in [ts : Nat, uid : Int, kind : Kinds \cup {"none"}]

\* The event list: every uid is used once, and m_unscheduledEvents counts it.
Listed ==
    /\ IsFiniteSet(events)
    /\ events \subseteq [ts : Nat, uid : Nat, kind : Kinds]
    /\ uid \in Nat /\ current.uid < uid
    /\ \A e \in events : e.uid < uid
    /\ \A e, f \in events : e.uid = f.uid => e = f
    /\ unscheduled = Cardinality(events)

Waits == {"sync", "sleep", "drift", "spin"}

\* What the main thread has found in the list remains there while it waits, and
\* it takes an event only once the time of its wait has come.
Awaited ==
    /\ At("look") => events # {}
    /\ At("take") \/ (main.pc \in Waits /\ ~ main.idle) =>
          \E e \in events : e.ts <= main.target
    /\ At("take") => main.target <= Now

\* Before the wait begins, an earlier event has either set the condition, or the
\* wait will not begin as its time has come.
Signalled ==
    /\ main.pc \in Waits
    /\ \E e \in events : main.idle \/ e.ts < main.target
    => flags.condition \/ (main.pc \in {"sync", "drift"} /\ main.target <= Now)

\* The device has not been started while the event that starts it is there.
Starting ==
    /\ \A e, f \in events : e.kind = "StartDevice" /\ f.kind = "StartDevice" => e = f
    /\ Invoking("StartDevice") => \A e \in events : e.kind # "StartDevice"
    /\ Invoking("StartDevice") \/ (\E e \in events : e.kind = "StartDevice") =>
          reader.pc = "none"

\* The inductive invariant, for any number of calls of Run.
DInv == Ranges /\ Listed /\ Awaited /\ Signalled /\ Starting /\ NoStranded

\* What the order of the events adds to it.
Ordered ==
    /\ \A e \in events : Before(current, e)
    /\ flags.running => current.ts <= Now
    /\ main.pc \notin {"out", "join", "destroyed"} => flags.running
    /\ At("origin") \/ main.runs = 0 => current.ts = 0
    /\ main.runs = 0 => At("out")

-----------------------------------------------------------------------------
(* The first event *)

LEMMA NatMin ==
  ASSUME NEW T, T \subseteq Nat, T # {}
  PROVE  \E x \in T : \A y \in T : x <= y
  <1> DEFINE R == OpToRel(<, Nat)
  <1>1. PICK x \in T : \A y \in T : ~ (<<y, x>> \in R)
    <2>1. IsWellFoundedOn(R, Nat)
      BY NatLessThanWellFounded
    <2> HIDE DEF R
    <2> QED BY <2>1, WFMin
  <1>2. \A m, n \in Nat : <<n, m>> \in R <=> n < m
    BY DEF OpToRel
  <1> HIDE DEF R
  <1>3. ASSUME NEW y \in T PROVE x <= y
    <2>1. x \in Nat /\ y \in Nat
      OBVIOUS
    <2>2. ~ (y < x)
      BY <1>1, <1>2, <2>1
    <2> QED BY <2>1, <2>2
  <1> QED BY <1>3

\* NextEvent is well defined: by time, and by uid at the same time.
LEMMA NextEventIsFirst ==
  ASSUME Listed, events # {}
  PROVE  NextEvent \in events /\ \A f \in events \ {NextEvent} : Before(NextEvent, f)
  <1>0. \A e \in events : e.ts \in Nat /\ e.uid \in Nat
    BY DEF Listed
  <1>1. PICK t \in {e.ts : e \in events} : \A y \in {e.ts : e \in events} : t <= y
    BY <1>0, NatMin
  <1> DEFINE S == {e \in events : e.ts = t}
  <1>2. PICK u \in {e.uid : e \in S} : \A y \in {e.uid : e \in S} : u <= y
    <2>1. {e.uid : e \in S} # {}
      BY <1>1
    <2>2. {e.uid : e \in S} \subseteq Nat
      BY <1>0
    <2> HIDE DEF S
    <2> QED BY <2>1, <2>2, NatMin
  <1>3. PICK e \in S : e.uid = u
    BY <1>2
  <1>4. ASSUME NEW f \in events \ {e} PROVE Before(e, f)
    <2>1. e.ts = t /\ t <= f.ts /\ f.ts \in Nat /\ t \in Nat /\ e.uid \in Nat /\ f.uid \in Nat
      BY <1>0, <1>1, <1>3
    <2>2. f.uid # e.uid
      BY <1>3, <1>4 DEF Listed
    <2>3. CASE f.ts = t
      <3>1. u <= f.uid
        BY <1>2, <2>3
      <3> QED BY <1>3, <2>1, <2>2, <2>3, <3>1 DEF Before
    <2>4. CASE f.ts # t
      BY <2>1, <2>4 DEF Before
    <2> QED BY <2>3, <2>4
  <1>5. \E x \in events : \A f \in events \ {x} : Before(x, f)
    BY <1>3, <1>4
  <1> HIDE DEF S
  <1> QED BY <1>5 DEF NextEvent

-----------------------------------------------------------------------------
(* The operations on the event list *)

LEMMA ForwardsFinite == Listed => IsFiniteSet(Forwards) /\ Cardinality(Forwards) \in Nat
  BY FS_Subset, FS_CardinalityType DEF Listed, Forwards

\* An event that is inserted is new, and wakes the main thread.
LEMMA InsertStep ==
  ASSUME Ranges, Listed, Awaited, Signalled,
         NEW ts \in Nat, NEW kind \in Kinds \ {"StartDevice"}, Insert(ts, kind)
  PROVE  /\ Listed' /\ Awaited' /\ Signalled' /\ flags'.condition
         /\ flags' \in [running : BOOLEAN, stop : BOOLEAN, condition : BOOLEAN]
         /\ {e \in events' : e.kind = "StartDevice"} = {e \in events : e.kind = "StartDevice"}
         /\ Cardinality(Forwards)' = Cardinality(Forwards) + One(kind = "ForwardUp")
  <1> DEFINE n == [ts |-> ts, uid |-> uid, kind |-> kind]
  <1>1. /\ events' = events \cup {n} /\ uid' = uid + 1 /\ unscheduled' = unscheduled + 1
        /\ flags' = [flags EXCEPT !.condition = TRUE]
        /\ clock' = clock /\ origin' = origin /\ current' = current /\ main' = main
    BY DEF Insert
  <1>2. uid \in Nat /\ n \in [ts : Nat, uid : Nat, kind : Kinds] /\ n \notin events
    BY DEF Listed
  <1>3. /\ IsFiniteSet(events') /\ Cardinality(events') = Cardinality(events) + 1
    BY <1>1, <1>2, FS_AddElement DEF Listed
  <1>4. Listed'
    <2>1. \A e \in events' : e.uid < uid'
      BY <1>1, <1>2 DEF Listed
    <2>2. \A e, f \in events' : e.uid = f.uid => e = f
      BY <1>1, <1>2 DEF Listed
    <2>3. current'.uid < uid'
      BY <1>1, <1>2 DEF Listed, Ranges
    <2> QED BY <1>1, <1>2, <1>3, <2>1, <2>2, <2>3 DEF Listed
  <1>5. flags' \in [running : BOOLEAN, stop : BOOLEAN, condition : BOOLEAN] /\ flags'.condition
    BY <1>1 DEF Ranges
  <1>6. Awaited'
    BY <1>1 DEF Awaited, At, Now
  <1>7. Signalled'
    BY <1>5 DEF Signalled
  <1>8. Cardinality(Forwards)' = Cardinality(Forwards) + One(kind = "ForwardUp")
    <2>1. CASE kind = "ForwardUp"
      <3>1. Forwards' = Forwards \cup {n} /\ n \notin Forwards
        BY <1>1, <1>2, <2>1 DEF Forwards
      <3> QED BY <2>1, <3>1, ForwardsFinite, FS_AddElement DEF One
    <2>2. CASE kind # "ForwardUp"
      <3>1. Forwards' = Forwards
        BY <1>1, <2>2 DEF Forwards
      <3> QED BY <2>2, <3>1, ForwardsFinite DEF One
    <2> QED BY <2>1, <2>2
  <1>9. {e \in events' : e.kind = "StartDevice"} = {e \in events : e.kind = "StartDevice"}
    BY <1>1
  <1> QED BY <1>4, <1>5, <1>6, <1>7, <1>8, <1>9

\* Remove, of an event that is in the list.
LEMMA RemoveStep ==
  ASSUME Listed, NEW e \in events, e.kind = "other", Remove(e)
  PROVE  /\ Listed' /\ Forwards' = Forwards
         /\ {f \in events' : f.kind = "StartDevice"} = {f \in events : f.kind = "StartDevice"}
  <1>1. /\ events' = events \ {e} /\ uid' = uid /\ unscheduled' = unscheduled - 1
        /\ current' = current
    BY DEF Remove
  <1>2. IsFiniteSet(events') /\ Cardinality(events') = Cardinality(events) - 1
    BY <1>1, FS_RemoveElement DEF Listed
  <1>3. Listed'
    BY <1>1, <1>2 DEF Listed
  <1>4. Forwards' = Forwards
    BY <1>1 DEF Forwards
  <1> QED BY <1>1, <1>3, <1>4

\* Cancel keeps the time, the uid and so the place of the event.
LEMMA CancelStep ==
  ASSUME Listed, NEW e \in events, e.kind = "other", Cancel(e)
  PROVE  /\ Listed' /\ Forwards' = Forwards
         /\ {f \in events' : f.kind = "StartDevice"} = {f \in events : f.kind = "StartDevice"}
         /\ \A f \in events' : \E g \in events : g.ts = f.ts /\ g.uid = f.uid
  <1> DEFINE n == [e EXCEPT !.kind = "cancelled"]
             S == events \ {e}
  <1>1. /\ events' = S \cup {n} /\ uid' = uid /\ unscheduled' = unscheduled
        /\ current' = current
    BY DEF Cancel
  <1>2. e \in [ts : Nat, uid : Nat, kind : Kinds]
    BY DEF Listed
  <1>3. n \in [ts : Nat, uid : Nat, kind : Kinds] /\ n.uid = e.uid /\ n.ts = e.ts
           /\ n.kind = "cancelled"
    BY <1>2 DEF Kinds
  <1> HIDE DEF n
  <1>4. n \notin S
    BY <1>3 DEF Listed
  <1>5. IsFiniteSet(S) /\ Cardinality(S) = Cardinality(events) - 1 /\ Cardinality(events) \in Nat
    BY FS_RemoveElement, FS_CardinalityType DEF Listed
  <1> HIDE DEF S
  <1>6. IsFiniteSet(events') /\ Cardinality(events') = Cardinality(events)
    <2>1. IsFiniteSet(S \cup {n}) /\ Cardinality(S \cup {n}) = Cardinality(S) + 1
      BY <1>4, <1>5, FS_AddElement
    <2> QED BY <1>1, <1>5, <2>1
  <1>7. \A f \in events' : \E g \in events : g.ts = f.ts /\ g.uid = f.uid
    BY <1>1, <1>3 DEF S
  <1>8. Listed'
    <2>1. \A f \in events' : f.uid < uid' /\ f \in [ts : Nat, uid : Nat, kind : Kinds]
      BY <1>1, <1>3 DEF Listed, S
    <2>2. \A f, g \in events' : f.uid = g.uid => f = g
      BY <1>1, <1>3 DEF Listed, S
    <2> QED BY <1>1, <1>6, <2>1, <2>2 DEF Listed
  <1>9. Forwards' = Forwards
    BY <1>1, <1>3 DEF Forwards, S
  <1>10. {f \in events' : f.kind = "StartDevice"} = {f \in events : f.kind = "StartDevice"}
    BY <1>1, <1>3 DEF S
  <1> QED BY <1>7, <1>8, <1>9, <1>10

\* An event that is taken out is counted as invoked.
LEMMA TakeStep ==
  ASSUME DInv, Take, UNCHANGED devVars
  PROVE  /\ DInv'
         /\ current' \in events /\ events' = events \ {current'}
         /\ \A f \in events' : Before(current', f)
         /\ current'.ts <= Now
  <1> DEFINE n == NextEvent
  <1>1. /\ main.pc = "take" /\ events' = events \ {n} /\ unscheduled' = unscheduled - 1
        /\ current' = n /\ main' = [main EXCEPT !.pc = "invoke"]
        /\ UNCHANGED <<clock, origin, uid, flags, queue, reader, packets>>
    BY DEF Take, At, Goto, devVars
  <1>2. n \in events /\ \A f \in events \ {n} : Before(n, f)
    BY NextEventIsFirst DEF Take, DInv
  <1> HIDE DEF n
  <1>3. n \in [ts : Nat, uid : Nat, kind : Kinds] /\ n.uid < uid
    BY <1>2 DEF DInv, Listed
  <1>4. main' \in [pc : Pcs, target : Int, idle : BOOLEAN, runs : Nat] /\ main'.pc = "invoke"
    BY <1>1 DEF DInv, Ranges, Pcs
  <1>5. Ranges'
    <2>1. current' \in [ts : Nat, uid : Int, kind : Kinds \cup {"none"}]
      BY <1>1, <1>3
    <2> QED BY <1>1, <1>4, <2>1 DEF DInv, Ranges
  <1>6. Listed'
    <2>1. IsFiniteSet(events') /\ Cardinality(events') = Cardinality(events) - 1
      BY <1>1, <1>2, FS_RemoveElement DEF DInv, Listed
    <2> QED BY <1>1, <1>2, <1>3, <2>1 DEF DInv, Listed
  <1>7. Awaited' /\ Signalled'
    BY <1>4 DEF Awaited, Signalled, At, Waits
  <1>8. Starting'
    BY <1>1, <1>2, <1>4 DEF DInv, Starting, Invoking, At
  <1>9. NoStranded'
    <2>1. ~ Invoking("ForwardUp")
      BY <1>1 DEF Invoking, At
    <2>2. queue <= Cardinality(Forwards) + One(reader.pc = "schedule") /\ queue \in Nat
      BY <2>1, ForwardsFinite DEF DInv, NoStranded, Forwards, One, Ranges
    <2>3. Cardinality(Forwards) <= Cardinality(Forwards') + One(Invoking("ForwardUp")')
      <3>1. CASE n.kind = "ForwardUp"
        <4>1. Forwards' = Forwards \ {n} /\ n \in Forwards
          BY <1>1, <1>2, <3>1 DEF Forwards
        <4>2. Invoking("ForwardUp")'
          BY <1>1, <1>4, <3>1 DEF Invoking, At
        <4> QED BY <4>1, <4>2, ForwardsFinite, FS_RemoveElement DEF One, DInv
      <3>2. CASE n.kind # "ForwardUp"
        <4>1. Forwards' = Forwards
          BY <1>1, <1>2, <3>2 DEF Forwards
        <4> QED BY <4>1, ForwardsFinite DEF One, DInv
      <3> QED BY <3>1, <3>2
    <2>4. Cardinality(Forwards') \in Nat /\ Cardinality(Forwards) \in Nat
      <3>1. IsFiniteSet(Forwards')
        BY <1>6, FS_Subset DEF Listed, Forwards
      <3> QED BY <3>1, ForwardsFinite, FS_CardinalityType DEF DInv
    <2>5. queue' <= Cardinality(Forwards') + One(reader'.pc = "schedule")
                       + One(Invoking("ForwardUp")')
      BY <1>1, <2>2, <2>3, <2>4 DEF One
    <2>6. ~ reader'.fd => reader'.pc \in {"none", "done"} /\ queue' = 0
      BY <1>1 DEF DInv, NoStranded
    <2> QED BY <2>5, <2>6 DEF NoStranded, Forwards, One
  <1>10. n.ts <= Now
    <2>1. PICK e \in events : e.ts <= main.target /\ main.target <= Now
      BY <1>1 DEF DInv, Awaited, At
    <2>2. n.ts <= e.ts
      BY <1>2, <1>3 DEF Before, DInv, Listed
    <2>3. n.ts \in Int /\ e.ts \in Int /\ main.target \in Int /\ Now \in Int
      BY <1>3, <2>1 DEF DInv, Listed, Ranges, Now
    <2> QED BY <2>1, <2>2, <2>3
  <1> QED BY <1>1, <1>2, <1>5, <1>6, <1>7, <1>8, <1>9, <1>10 DEF DInv


-----------------------------------------------------------------------------
(* The main thread outside of the events *)

\* A step that leaves the list and the device alone, and invokes nothing.
LEMMA QuietStep ==
  ASSUME DInv, UNCHANGED <<events, uid, unscheduled, current, queue, reader>>,
         ~ At("invoke"), ~ At("invoke")'
  PROVE  Listed' /\ Starting' /\ NoStranded'
  <1>1. ~ Invoking("ForwardUp") /\ ~ Invoking("ForwardUp")'
           /\ ~ Invoking("StartDevice") /\ ~ Invoking("StartDevice")'
    BY DEF Invoking
  <1>2. Listed'
    BY DEF DInv, Listed
  <1>3. Starting'
    BY <1>1 DEF DInv, Starting
  <1>4. NoStranded'
    BY <1>1 DEF DInv, NoStranded
  <1> QED BY <1>2, <1>3, <1>4

\* As well, if only the place of the main thread changes.
LEMMA GotoStep ==
  ASSUME DInv, NEW pc \in Pcs \ {"invoke"}, ~ At("invoke"), Goto(pc),
         UNCHANGED <<clock, origin, events, uid, unscheduled, current, flags,
                     queue, reader, packets>>
  PROVE  /\ Ranges' /\ Listed' /\ Starting' /\ NoStranded'
         /\ main'.pc = pc /\ main'.target = main.target /\ main'.idle = main.idle
         /\ main'.runs = main.runs
  <1>1. /\ main' \in [pc : Pcs, target : Int, idle : BOOLEAN, runs : Nat]
        /\ main'.pc = pc /\ main'.target = main.target /\ main'.idle = main.idle
        /\ main'.runs = main.runs
    BY DEF DInv, Ranges, Goto
  <1>2. Ranges'
    BY <1>1 DEF DInv, Ranges
  <1>3. Listed' /\ Starting' /\ NoStranded'
    BY <1>1, QuietStep DEF At
  <1> QED BY <1>1, <1>2, <1>3

LEMMA RunStep ==
  ASSUME DInv, Run, UNCHANGED devVars
  PROVE  DInv'
  <1>1. /\ main' = [main EXCEPT !.pc = "origin", !.runs = main.runs + 1] /\ main.pc = "out"
        /\ flags' = [flags EXCEPT !.stop = FALSE, !.running = TRUE]
        /\ UNCHANGED <<clock, origin, events, uid, unscheduled, current, queue, reader, packets>>
    BY DEF Run, At, devVars
  <1>2. main.runs + 1 \in Nat /\ "origin" \in Pcs
    BY DEF DInv, Ranges, Pcs
  <1>3. main' \in [pc : Pcs, target : Int, idle : BOOLEAN, runs : Nat]
    BY Zenon, <1>1, <1>2 DEF DInv, Ranges
  <1>4. flags' \in [running : BOOLEAN, stop : BOOLEAN, condition : BOOLEAN]
    BY Zenon, <1>1 DEF DInv, Ranges
  <1>5. main'.pc = "origin"
    BY <1>1 DEF DInv, Ranges
  <1>6. Ranges'
    BY <1>1, <1>3, <1>4 DEF DInv, Ranges
  <1>7. Listed' /\ Starting' /\ NoStranded'
    BY <1>1, <1>5, QuietStep DEF At
  <1>8. Awaited' /\ Signalled'
    BY <1>5 DEF Awaited, Signalled, At, Waits
  <1> QED BY <1>6, <1>7, <1>8 DEF DInv

LEMMA SetOriginStep ==
  ASSUME DInv, SetOrigin, UNCHANGED devVars
  PROVE  DInv'
  <1>1. /\ main' = [main EXCEPT !.pc = "loop"] /\ main.pc = "origin" /\ origin' = clock
        /\ UNCHANGED <<clock, events, uid, unscheduled, current, flags, queue, reader, packets>>
    BY DEF SetOrigin, At, Goto, devVars
  <1>2. main' \in [pc : Pcs, target : Int, idle : BOOLEAN, runs : Nat] /\ main'.pc = "loop"
    BY <1>1 DEF DInv, Ranges, Pcs
  <1>3. Ranges'
    BY <1>1, <1>2 DEF DInv, Ranges
  <1>4. Listed' /\ Starting' /\ NoStranded'
    BY <1>1, <1>2, QuietStep DEF At
  <1>5. Awaited' /\ Signalled'
    BY <1>2 DEF Awaited, Signalled, At, Waits
  <1> QED BY <1>3, <1>4, <1>5 DEF DInv

LEMMA LeaveStep ==
  ASSUME DInv, Leave, UNCHANGED devVars
  PROVE  DInv'
  <1>1. /\ main' = [main EXCEPT !.pc = "out"] /\ main.pc = "loop"
        /\ flags' = [flags EXCEPT !.running = FALSE]
        /\ UNCHANGED <<clock, origin, events, uid, unscheduled, current, queue, reader, packets>>
    BY DEF Leave, At, Goto, devVars
  <1>2. main' \in [pc : Pcs, target : Int, idle : BOOLEAN, runs : Nat] /\ main'.pc = "out"
    BY <1>1 DEF DInv, Ranges, Pcs
  <1>3. flags' \in [running : BOOLEAN, stop : BOOLEAN, condition : BOOLEAN]
    BY <1>1 DEF DInv, Ranges
  <1>4. Ranges'
    BY <1>1, <1>2, <1>3 DEF DInv, Ranges
  <1>5. Listed' /\ Starting' /\ NoStranded'
    BY <1>1, <1>2, QuietStep DEF At
  <1>6. Awaited' /\ Signalled'
    BY <1>2 DEF Awaited, Signalled, At, Waits
  <1> QED BY <1>4, <1>5, <1>6 DEF DInv

LEMMA LoopStep ==
  ASSUME DInv, Loop, UNCHANGED devVars
  PROVE  DInv'
  <1>0. /\ main.pc = "loop"
        /\ UNCHANGED <<clock, origin, events, uid, unscheduled, current, flags,
                       queue, reader, packets>>
    BY DEF Loop, At, devVars
  <1>1. CASE events # {}
    <2>1. main' = [main EXCEPT !.pc = "look"]
      BY <1>1 DEF Loop
    <2>2. main' \in [pc : Pcs, target : Int, idle : BOOLEAN, runs : Nat] /\ main'.pc = "look"
      BY <2>1 DEF DInv, Ranges, Pcs
    <2>3. Ranges'
      BY <1>0, <2>2 DEF DInv, Ranges
    <2>4. Listed' /\ Starting' /\ NoStranded'
      BY <1>0, <2>2, QuietStep DEF At
    <2>5. Awaited' /\ Signalled'
      BY <1>0, <1>1, <2>2 DEF Awaited, Signalled, At, Waits
    <2> QED BY <2>3, <2>4, <2>5 DEF DInv
  <1>2. CASE events = {}
    <2>1. main' = [main EXCEPT !.pc = "sync", !.target = Now + IdleWait, !.idle = TRUE]
      BY <1>2 DEF Loop
    <2>2. Now + IdleWait \in Int /\ "sync" \in Pcs
      BY TimesAssumption DEF DInv, Ranges, Now, Pcs
    <2>3. main' \in [pc : Pcs, target : Int, idle : BOOLEAN, runs : Nat]
      BY Zenon, <2>1, <2>2 DEF DInv, Ranges
    <2>4. main'.pc = "sync" /\ main'.idle = TRUE
      BY <2>1 DEF DInv, Ranges
    <2>5. Ranges'
      BY <1>0, <2>3 DEF DInv, Ranges
    <2>6. Listed' /\ Starting' /\ NoStranded'
      BY <1>0, <2>4, QuietStep DEF At
    <2>7. Awaited' /\ Signalled'
      BY <1>0, <1>2, <2>4 DEF Awaited, Signalled, At, Waits
    <2> QED BY <2>5, <2>6, <2>7 DEF DInv
  <1> QED BY <1>1, <1>2

\* The wait begins: nothing in the list comes before the time that is waited for,
\* or that time has come.
LEMMA LookStep ==
  ASSUME DInv, Look, UNCHANGED devVars
  PROVE  DInv'
  <1> DEFINE n == NextEvent
             t == IF n.ts <= Now THEN Now ELSE n.ts
  <1>1. /\ main' = [main EXCEPT !.pc = "sync", !.idle = FALSE, !.target = t]
        /\ main.pc = "look"
        /\ flags' = [flags EXCEPT !.condition = FALSE]
        /\ UNCHANGED <<clock, origin, events, uid, unscheduled, current, queue, reader, packets>>
    BY DEF Look, At, devVars
  <1>2. n \in events /\ \A f \in events \ {n} : Before(n, f)
    BY NextEventIsFirst DEF Look, DInv
  <1> HIDE DEF n
  <1>3. \A e \in events : e.ts \in Nat /\ n.ts <= e.ts
    BY <1>2 DEF DInv, Listed, Before
  <1>4. t \in Int /\ "sync" \in Pcs /\ n.ts \in Nat /\ Now \in Int /\ n.ts <= t
    BY <1>2, <1>3 DEF DInv, Ranges, Now, Pcs
  <1>5. (\E e \in events : e.ts < t) => t <= Now
    BY <1>3, <1>4
  <1> HIDE DEF t
  <1>6. main' \in [pc : Pcs, target : Int, idle : BOOLEAN, runs : Nat]
    BY Zenon, <1>1, <1>4 DEF DInv, Ranges
  <1>7. main'.pc = "sync" /\ main'.idle = FALSE /\ main'.target = t
    BY <1>1 DEF DInv, Ranges
  <1>8. flags' \in [running : BOOLEAN, stop : BOOLEAN, condition : BOOLEAN]
    BY <1>1 DEF DInv, Ranges
  <1>9. Ranges'
    BY <1>1, <1>6, <1>8 DEF DInv, Ranges
  <1>10. Listed' /\ Starting' /\ NoStranded'
    BY <1>1, <1>7, QuietStep DEF At
  <1>11. Awaited'
    BY <1>1, <1>2, <1>4, <1>7 DEF Awaited, At, Waits
  <1>12. Signalled'
    BY <1>1, <1>5, <1>7 DEF Signalled, Waits, Now
  <1> QED BY <1>9, <1>10, <1>11, <1>12 DEF DInv


LEMMA SynchronizeStep ==
  ASSUME DInv, Synchronize, UNCHANGED devVars
  PROVE  DInv'
  <1> DEFINE pc == IF main.target - Now > Slack THEN "sleep" ELSE "drift"
  <1>1. /\ main.pc = "sync" /\ Goto(pc) /\ pc \in Pcs \ {"invoke"} /\ ~ At("invoke")
        /\ UNCHANGED <<clock, origin, events, uid, unscheduled, current, flags,
                       queue, reader, packets>>
    BY DEF Synchronize, At, devVars, Pcs
  <1>2. pc \in {"sleep", "drift"} /\ (pc = "sleep" => main.target > Now)
    BY TimesAssumption DEF DInv, Ranges, Now
  <1> HIDE DEF pc
  <1>3. /\ Ranges' /\ Listed' /\ Starting' /\ NoStranded'
        /\ main'.pc = pc /\ main'.target = main.target /\ main'.idle = main.idle
    BY <1>1, GotoStep
  <1>4. Awaited'
    BY <1>1, <1>2, <1>3 DEF DInv, Awaited, At, Waits
  <1>5. Signalled'
    <2>1. main.target \in Int /\ Now \in Int /\ Now' = Now
      BY <1>1 DEF DInv, Ranges, Now
    <2> QED BY <1>1, <1>2, <1>3, <2>1 DEF DInv, Signalled, Waits
  <1> QED BY <1>3, <1>4, <1>5 DEF DInv

\* Synchronize returns, completed only when the time has come.
LEMMA ReturnsStep ==
  ASSUME DInv, main.pc \in Waits, NEW completed \in BOOLEAN, Returns(completed),
         completed => main.target <= Now,
         UNCHANGED <<clock, origin, events, uid, unscheduled, current, flags,
                     queue, reader, packets>>
  PROVE  DInv'
  <1> DEFINE pc == IF main.idle THEN "loop" ELSE IF completed THEN "take" ELSE "look"
  <1>1. Goto(pc) /\ pc \in Pcs \ {"invoke"} /\ ~ At("invoke")
    BY DEF Returns, Pcs, At, Waits
  <1>2. /\ pc = "take" => ~ main.idle /\ main.target <= Now
        /\ pc = "look" => ~ main.idle
        /\ pc \in {"loop", "take", "look"}
    OBVIOUS
  <1> HIDE DEF pc
  <1>3. /\ Ranges' /\ Listed' /\ Starting' /\ NoStranded'
        /\ main'.pc = pc /\ main'.target = main.target /\ main'.idle = main.idle
    BY <1>1, GotoStep
  <1>4. Awaited'
    BY <1>2, <1>3 DEF DInv, Awaited, At, Waits, Now
  <1>5. Signalled'
    BY <1>2, <1>3 DEF Signalled, Waits
  <1> QED BY <1>3, <1>4, <1>5 DEF DInv

\* A wait goes on to its next stage, its time not having come or being signalled.
LEMMA GoesOnStep ==
  ASSUME DInv, main.pc \in Waits, NEW pc \in {"drift", "spin"}, Goto(pc),
         flags.condition \/ main.target > Now,
         UNCHANGED <<clock, origin, events, uid, unscheduled, current, flags,
                     queue, reader, packets>>
  PROVE  DInv'
  <1>1. pc \in Pcs \ {"invoke"} /\ ~ At("invoke")
    BY DEF Pcs, At, Waits
  <1>2. /\ Ranges' /\ Listed' /\ Starting' /\ NoStranded'
        /\ main'.pc = pc /\ main'.target = main.target /\ main'.idle = main.idle
    BY <1>1, GotoStep
  <1>3. Awaited'
    BY <1>2 DEF DInv, Awaited, At, Waits
  <1>4. Signalled'
    <2>1. main.target \in Int /\ Now \in Int /\ Now' = Now
      BY DEF DInv, Ranges, Now
    <2> QED BY <1>2, <2>1 DEF DInv, Signalled, Waits
  <1> QED BY <1>2, <1>3, <1>4 DEF DInv

LEMMA WaitStep ==
  ASSUME DInv, SleepWait \/ Drift \/ SpinWait, UNCHANGED devVars
  PROVE  DInv'
  <1>0. /\ main.pc \in Waits
        /\ UNCHANGED <<clock, origin, events, uid, unscheduled, current, flags,
                       queue, reader, packets>>
    BY DEF SleepWait, Drift, SpinWait, At, Waits, devVars
  <1>t. main.target \in Int /\ Now \in Int
    BY DEF DInv, Ranges, Now
  <1>1. CASE SleepWait
    <2>1. CASE flags.condition /\ Goto("drift")
      BY <1>0, <2>1, GoesOnStep
    <2>2. CASE Returns(FALSE)
      BY <1>0, <2>2, ReturnsStep
    <2> QED BY <1>1, <2>1, <2>2 DEF SleepWait
  <1>2. CASE Drift
    <2>1. CASE Now >= main.target
      BY <1>0, <1>2, <1>t, <2>1, ReturnsStep DEF Drift
    <2>2. CASE ~ (Now >= main.target)
      <3>1. main.target > Now
        BY <1>t, <2>2
      <3>2. Goto("spin")
        BY <1>2, <2>2 DEF Drift
      <3> QED BY <1>0, <3>1, <3>2, GoesOnStep
    <2> QED BY <2>1, <2>2
  <1>3. CASE SpinWait
    <2>1. CASE Now >= main.target /\ Returns(TRUE)
      BY <1>0, <1>t, <2>1, ReturnsStep
    <2>2. CASE Returns(FALSE)
      BY <1>0, <2>2, ReturnsStep
    <2> QED BY <1>3, <2>1, <2>2 DEF SpinWait
  <1> QED BY <1>1, <1>2, <1>3

\* Time passes: waits are completed, never begun.
LEMMA TickStep ==
  ASSUME DInv, Tick, UNCHANGED devVars
  PROVE  DInv'
  <1>1. /\ clock' = clock + 1
        /\ UNCHANGED <<origin, events, uid, unscheduled, current, flags, main,
                       queue, reader, packets>>
    BY DEF Tick, devVars
  <1>2. Ranges' /\ Now \in Int /\ Now' = Now + 1 /\ main.target \in Int
    BY <1>1 DEF DInv, Ranges, Now
  <1>3. Listed'
    BY <1>1 DEF DInv, Listed
  <1>4. Awaited'
    BY <1>1, <1>2 DEF DInv, Awaited, At
  <1>5. Signalled'
    BY <1>1, <1>2 DEF DInv, Signalled
  <1>6. Starting'
    BY <1>1 DEF DInv, Starting, Invoking, At
  <1>7. NoStranded'
    BY <1>1 DEF DInv, NoStranded, Invoking, At
  <1> QED BY <1>2, <1>3, <1>4, <1>5, <1>6, <1>7 DEF DInv

-----------------------------------------------------------------------------
(* The other threads *)

\* A step that leaves the simulator alone.
LEMMA SimUnchanged ==
  ASSUME DInv, UNCHANGED simVars
  PROVE  /\ Listed' /\ Awaited' /\ Signalled' /\ Forwards' = Forwards
         /\ Invoking("ForwardUp")' = Invoking("ForwardUp")
         /\ (reader.pc # "none" \/ reader'.pc = reader.pc => Starting')
         /\ (queue' \in Nat /\ reader' \in [pc : {"none", "select", "callback", "schedule", "done"},
                   stop : BOOLEAN, pipe : BOOLEAN, fd : BOOLEAN] => Ranges')
  <1>1. UNCHANGED <<clock, origin, events, uid, unscheduled, current, flags, main>>
    BY DEF simVars
  <1>2. Listed'
    BY <1>1 DEF DInv, Listed
  <1>3. Awaited'
    BY <1>1 DEF DInv, Awaited, At, Now
  <1>4. Signalled'
    BY <1>1 DEF DInv, Signalled, Now
  <1>5. reader.pc # "none" \/ reader'.pc = reader.pc => Starting'
    BY <1>1 DEF DInv, Starting, Invoking, At
  <1>6. Forwards' = Forwards /\ Invoking("ForwardUp")' = Invoking("ForwardUp")
    BY <1>1 DEF Forwards, Invoking, At
  <1>7. ASSUME queue' \in Nat,
               reader' \in [pc : {"none", "select", "callback", "schedule", "done"},
                            stop : BOOLEAN, pipe : BOOLEAN, fd : BOOLEAN]
        PROVE  Ranges'
    BY <1>1, <1>7 DEF DInv, Ranges
  <1> QED BY <1>2, <1>3, <1>4, <1>5, <1>6, <1>7


ReaderPcs == {"none", "select", "callback", "schedule", "done"}

Bound(q, pc) == q <= Cardinality(Forwards) + One(pc = "schedule") + One(Invoking("ForwardUp"))

LEMMA NoStrandedIs ==
  NoStranded <=> /\ Bound(queue, reader.pc)
                 /\ ~ reader.fd => reader.pc \in {"none", "done"} /\ queue = 0
  BY DEF NoStranded, Bound, Forwards, One

\* The thread moves on and the device is not stopped.
LEMMA ReadsStep ==
  ASSUME NEW pc \in ReaderPcs, Ranges, Reads(pc)
  PROVE  /\ reader' \in [pc : ReaderPcs, stop : BOOLEAN, pipe : BOOLEAN, fd : BOOLEAN]
         /\ reader'.pc = pc /\ reader'.fd = reader.fd
  BY DEF Ranges, Reads, ReaderPcs

LEMMA ReaderStep ==
  ASSUME DInv, Select \/ EndOfFile \/ ReceiveCallback
  PROVE  DInv'
  <1>0. UNCHANGED simVars /\ reader.pc \in {"select", "callback"} /\ queue \in Nat
    BY DEF Select, EndOfFile, ReceiveCallback, DInv, Ranges
  <1>1. PICK pc \in ReaderPcs : /\ Reads(pc)
                                /\ \/ pc \in {"select", "callback", "done"} /\ queue' = queue
                                   \/ pc = "schedule" /\ queue' = queue + 1
    BY DEF Select, EndOfFile, ReceiveCallback, ReaderPcs
  <1>2. /\ reader' \in [pc : ReaderPcs, stop : BOOLEAN, pipe : BOOLEAN, fd : BOOLEAN]
        /\ reader'.pc = pc /\ reader'.fd = reader.fd
    BY <1>1, ReadsStep DEF DInv
  <1>3. /\ Listed' /\ Awaited' /\ Signalled' /\ Forwards' = Forwards /\ Starting' /\ Ranges'
        /\ Invoking("ForwardUp")' = Invoking("ForwardUp")
    <2>1. queue' \in Nat
      BY <1>0, <1>1
    <2> QED BY <1>0, <1>2, <2>1, SimUnchanged DEF ReaderPcs
  <1>4. reader.fd /\ Bound(queue, reader.pc)
    BY <1>0, NoStrandedIs DEF DInv
  <1>5. Cardinality(Forwards) \in Nat
    BY ForwardsFinite DEF DInv
  <1>6. queue <= Cardinality(Forwards) + One(Invoking("ForwardUp"))
    BY <1>0, <1>4, <1>5 DEF Bound, One
  <1>7. Bound(queue', reader'.pc)
    BY <1>0, <1>1, <1>2, <1>5, <1>6 DEF Bound, One
  <1>8. NoStranded'
    <2>1. Bound(queue, reader.pc)'
      BY <1>3, <1>7 DEF Bound
    <2> QED BY <1>2, <1>4, <2>1 DEF NoStranded, Bound, Forwards, One
  <1> QED BY <1>3, <1>8 DEF DInv

\* Scheduling from any thread uses a time that is not negative.
LEMMA ContextTime ==
  ASSUME Ranges, NEW d \in Nat
  PROVE  /\ (IF flags.running THEN Now ELSE current.ts) + d \in Nat
         /\ Now + d \in Nat /\ current.ts + d \in Nat
  <1>1. Now \in Nat
    BY DEF Ranges, Now
  <1>2. current.ts \in Nat
    BY DEF Ranges
  <1> QED BY <1>1, <1>2

LEMMA ScheduleForwardUpStep ==
  ASSUME DInv, ScheduleForwardUp
  PROVE  DInv'
  <1> DEFINE ts == (IF flags.running THEN Now ELSE current.ts) + 0
  <1>1. ts \in Nat
    BY ContextTime DEF DInv
  <1>2. Insert(ts, "ForwardUp") /\ reader.pc = "schedule" /\ Reads("select") /\ queue' = queue
    BY DEF ScheduleForwardUp, ScheduleWithContext
  <1> HIDE DEF ts
  <1>3. /\ Listed' /\ Awaited' /\ Signalled'
        /\ flags' \in [running : BOOLEAN, stop : BOOLEAN, condition : BOOLEAN]
        /\ {e \in events' : e.kind = "StartDevice"} = {e \in events : e.kind = "StartDevice"}
        /\ Cardinality(Forwards)' = Cardinality(Forwards) + 1
    BY <1>1, <1>2, InsertStep DEF DInv, Kinds, One
  <1>4. /\ reader' \in [pc : ReaderPcs, stop : BOOLEAN, pipe : BOOLEAN, fd : BOOLEAN]
        /\ reader'.pc = "select" /\ reader'.fd = reader.fd
    BY <1>2, ReadsStep DEF DInv, ReaderPcs
  <1>5. UNCHANGED <<clock, origin, current, main>>
    BY <1>2 DEF Insert
  <1>6. Ranges'
    BY <1>2, <1>3, <1>4, <1>5 DEF DInv, Ranges, ReaderPcs
  <1>7. Starting'
    <2>1. ~ Invoking("StartDevice") /\ ~ (\E e \in events : e.kind = "StartDevice")
      BY <1>2 DEF DInv, Starting
    <2>2. ~ Invoking("StartDevice")' /\ \A e \in events' : e.kind # "StartDevice"
      BY <1>3, <1>5, <2>1 DEF Invoking, At
    <2> QED BY <2>2 DEF Starting
  <1>8. NoStranded'
    <2>1. reader.fd /\ Bound(queue, reader.pc)
      BY <1>2, NoStrandedIs DEF DInv
    <2>2. Cardinality(Forwards) \in Nat /\ queue \in Nat
      BY ForwardsFinite DEF DInv, Ranges
    <2>3. Invoking("ForwardUp")' = Invoking("ForwardUp")
      BY <1>5 DEF Invoking, At
    <2>4. Bound(queue, reader.pc)'
      BY <1>2, <1>3, <1>4, <2>1, <2>2, <2>3 DEF Bound, One
    <2> QED BY <1>4, <2>1, <2>4 DEF NoStranded, Bound, Forwards, One
  <1> QED BY <1>3, <1>6, <1>7, <1>8 DEF DInv

\* An event of another kind, inserted by an event or by another thread.
LEMMA InsertOtherStep ==
  ASSUME DInv, NEW ts \in Nat, Insert(ts, "other"), UNCHANGED devVars
  PROVE  DInv'
  <1>1. /\ Listed' /\ Awaited' /\ Signalled'
        /\ flags' \in [running : BOOLEAN, stop : BOOLEAN, condition : BOOLEAN]
        /\ {e \in events' : e.kind = "StartDevice"} = {e \in events : e.kind = "StartDevice"}
        /\ Cardinality(Forwards)' = Cardinality(Forwards) + One("other" = "ForwardUp")
    BY InsertStep DEF DInv, Kinds
  <1>2. UNCHANGED <<clock, origin, current, main, queue, reader>>
    BY DEF Insert, devVars
  <1>3. Ranges'
    BY <1>1, <1>2 DEF DInv, Ranges
  <1>4. Starting'
    <2>1. Invoking("StartDevice")' = Invoking("StartDevice")
      BY <1>2 DEF Invoking, At
    <2> QED BY <1>1, <1>2, <2>1 DEF DInv, Starting
  <1>5. NoStranded'
    <2>1. Invoking("ForwardUp")' = Invoking("ForwardUp")
      BY <1>2 DEF Invoking, At
    <2>2. Cardinality(Forwards)' = Cardinality(Forwards)
      BY <1>1, ForwardsFinite DEF DInv, One
    <2>3. Bound(queue, reader.pc)' = Bound(queue, reader.pc)
      BY <1>2, <2>1, <2>2 DEF Bound
    <2>4. (~ reader.fd => reader.pc \in {"none", "done"} /\ queue = 0)'
      BY <1>2 DEF DInv, NoStranded
    <2>5. Bound(queue, reader.pc)'
      BY <2>3, NoStrandedIs DEF DInv
    <2> QED BY <2>4, <2>5 DEF NoStranded, Bound, Forwards, One
  <1> QED BY <1>1, <1>3, <1>4, <1>5 DEF DInv

LEMMA ThreadSchedulesStep ==
  ASSUME DInv, ThreadSchedules
  PROVE  DInv'
  <1>1. PICK d \in Delays : ScheduleWithContext(d, "other")
    BY DEF ThreadSchedules
  <1>2. d \in Nat
    BY DeviceAssumption
  <1> QED BY <1>1, <1>2, ContextTime, InsertOtherStep
          DEF ScheduleWithContext, ThreadSchedules, DInv


-----------------------------------------------------------------------------
(* The events *)

\* A step of an event that leaves the list alone and goes somewhere else than into
\* a wait.
LEMMA EventStep ==
  ASSUME DInv, NEW pc \in {"loop", "join", "destroyed"}, Goto(pc),
         UNCHANGED <<clock, origin, events, unscheduled, current, flags>>,
         uid' = uid \/ uid' = uid + 1
  PROVE  /\ Listed' /\ Awaited' /\ Signalled' /\ Forwards' = Forwards
         /\ main' \in [pc : Pcs, target : Int, idle : BOOLEAN, runs : Nat]
         /\ main'.pc = pc /\ main'.runs = main.runs
         /\ \A kind : ~ Invoking(kind)'
  <1>1. /\ main' \in [pc : Pcs, target : Int, idle : BOOLEAN, runs : Nat] /\ main'.pc = pc
        /\ main'.runs = main.runs
    BY DEF DInv, Ranges, Goto, Pcs
  <1>2. Listed'
    <2>1. uid \in Nat /\ uid' \in Nat /\ uid <= uid' /\ current.uid \in Int
      BY DEF DInv, Listed, Ranges
    <2>2. \A e \in events : e.uid < uid /\ e.uid \in Nat
      BY DEF DInv, Listed
    <2>3. \A e \in events : e.uid < uid'
      BY <2>1, <2>2
    <2>4. current.uid < uid'
      BY <2>1 DEF DInv, Listed
    <2> QED BY <2>1, <2>3, <2>4 DEF DInv, Listed
  <1>3. Awaited' /\ Signalled'
    BY <1>1 DEF Awaited, Signalled, At, Waits
  <1>4. \A kind : ~ Invoking(kind)'
    BY <1>1 DEF Invoking, At
  <1>5. Forwards' = Forwards
    BY DEF Forwards
  <1> QED BY <1>1, <1>2, <1>3, <1>4, <1>5

LEMMA StartDeviceStep ==
  ASSUME DInv, StartDevice
  PROVE  DInv'
  <1>1. /\ Goto("loop")
        /\ uid' = uid \/ uid' = uid + 1
        /\ UNCHANGED <<clock, origin, events, unscheduled, current, flags, queue>>
    BY DEF StartDevice
  <1>2. uid' = uid \/ uid' = uid + 1
    BY DEF StartDevice
  <1>3. /\ Listed' /\ Awaited' /\ Signalled' /\ Forwards' = Forwards
        /\ main' \in [pc : Pcs, target : Int, idle : BOOLEAN, runs : Nat]
        /\ \A kind : ~ Invoking(kind)'
    BY <1>1, <1>2, EventStep DEF StartDevice
  <1>4. reader.pc = "none" /\ \A e \in events : e.kind # "StartDevice"
    BY DEF StartDevice, DInv, Starting
  <1>5. /\ reader' \in [pc : ReaderPcs, stop : BOOLEAN, pipe : BOOLEAN, fd : BOOLEAN]
        /\ reader'.pc \in {"none", "select"} /\ reader'.fd = reader.fd
        /\ ~ reader.fd => reader' = reader
    <2>1. CASE reader.fd
      BY <2>1, ReadsStep DEF StartDevice, DInv, ReaderPcs
    <2>2. CASE ~ reader.fd
      BY <1>4, <2>2 DEF StartDevice, DInv, Ranges, ReaderPcs
    <2> QED BY <2>1, <2>2
  <1>6. Ranges'
    BY <1>1, <1>3, <1>5 DEF DInv, Ranges, ReaderPcs, StartDevice
  <1>7. Starting'
    BY <1>3, <1>4 DEF Starting, StartDevice
  <1>8. NoStranded'
    <2>1. Bound(queue, "none") /\ ~ Invoking("ForwardUp") /\ (~ reader.fd => queue = 0)
      BY <1>4, NoStrandedIs DEF DInv, StartDevice, Invoking
    <2>2. Bound(queue, reader.pc)'
      BY <1>3, <1>5, <2>1, ForwardsFinite DEF Bound, One, DInv, StartDevice
    <2> QED BY <1>4, <1>5, <2>1, <2>2 DEF NoStranded, Bound, Forwards, One, StartDevice
  <1> QED BY <1>3, <1>6, <1>7, <1>8 DEF DInv

LEMMA StopDeviceStep ==
  ASSUME DInv, StopDevice
  PROVE  DInv'
  <1>1. /\ Goto("join") /\ reader' = [reader EXCEPT !.stop = TRUE, !.pipe = TRUE]
        /\ UNCHANGED <<clock, origin, events, uid, unscheduled, current, flags, queue>>
    BY DEF StopDevice, StopReader
  <1>2. /\ Listed' /\ Awaited' /\ Signalled' /\ Forwards' = Forwards
        /\ main' \in [pc : Pcs, target : Int, idle : BOOLEAN, runs : Nat]
        /\ \A kind : ~ Invoking(kind)'
    BY <1>1, EventStep
  <1>3. reader' \in [pc : ReaderPcs, stop : BOOLEAN, pipe : BOOLEAN, fd : BOOLEAN]
    BY Zenon, <1>1 DEF DInv, Ranges, ReaderPcs
  <1>4. reader'.pc = reader.pc /\ reader'.fd = reader.fd
    BY <1>1 DEF DInv, Ranges
  <1>5. Ranges'
    BY <1>1, <1>2, <1>3 DEF DInv, Ranges, ReaderPcs
  <1>6. ~ Invoking("StartDevice") /\ ~ Invoking("ForwardUp")
    BY DEF StopDevice, Invoking, At
  <1>7. Starting'
    BY <1>1, <1>2, <1>4, <1>6 DEF DInv, Starting
  <1>8. NoStranded'
    BY <1>1, <1>2, <1>4, <1>6 DEF DInv, NoStranded
  <1> QED BY <1>2, <1>5, <1>7, <1>8 DEF DInv

LEMMA JoinStep ==
  ASSUME DInv, Join
  PROVE  DInv'
  <1> DEFINE pc == IF flags.running THEN "loop" ELSE "destroyed"
  <1>1. /\ Goto(pc) /\ pc \in {"loop", "join", "destroyed"} /\ queue' = 0
        /\ reader' = [reader EXCEPT !.stop = FALSE, !.pipe = FALSE, !.fd = FALSE]
        /\ UNCHANGED <<clock, origin, events, uid, unscheduled, current, flags>>
        /\ reader.pc \in {"none", "done"} /\ main.pc = "join"
    BY DEF Join, AfterJoin, At
  <1> HIDE DEF pc
  <1>2. /\ Listed' /\ Awaited' /\ Signalled' /\ Forwards' = Forwards
        /\ main' \in [pc : Pcs, target : Int, idle : BOOLEAN, runs : Nat]
        /\ \A kind : ~ Invoking(kind)'
    BY <1>1, EventStep
  <1>3. reader' \in [pc : ReaderPcs, stop : BOOLEAN, pipe : BOOLEAN, fd : BOOLEAN]
    BY Zenon, <1>1 DEF DInv, Ranges, ReaderPcs
  <1>4. reader'.pc = reader.pc
    BY <1>1 DEF DInv, Ranges
  <1>5. Ranges'
    BY <1>1, <1>2, <1>3 DEF DInv, Ranges, ReaderPcs
  <1>6. Starting'
    BY <1>1, <1>2, <1>4 DEF DInv, Starting
  <1>7. NoStranded'
    <2>1. Bound(queue, reader.pc)'
      BY <1>1, <1>2, ForwardsFinite DEF Bound, One, DInv
    <2> QED BY <1>1, <1>4, <2>1 DEF NoStranded, Bound, Forwards, One
  <1> QED BY <1>2, <1>5, <1>6, <1>7 DEF DInv

\* ForwardUp takes one packet out, and is one event less to come.
LEMMA ForwardUpStep ==
  ASSUME DInv, ForwardUp
  PROVE  DInv'
  <1>1. /\ Goto("loop") /\ queue' = IF queue = 0 THEN 0 ELSE queue - 1
        /\ UNCHANGED <<clock, origin, events, uid, unscheduled, current, flags, reader>>
        /\ Invoking("ForwardUp")
    BY DEF ForwardUp, Returned
  <1>2. /\ Listed' /\ Awaited' /\ Signalled' /\ Forwards' = Forwards
        /\ main' \in [pc : Pcs, target : Int, idle : BOOLEAN, runs : Nat]
        /\ \A kind : ~ Invoking(kind)'
    BY <1>1, EventStep
  <1>3. queue \in Nat /\ queue' \in Nat
    BY <1>1 DEF DInv, Ranges
  <1>4. Ranges'
    BY <1>1, <1>2, <1>3 DEF DInv, Ranges
  <1>5. Starting'
    BY <1>1, <1>2 DEF DInv, Starting
  <1>6. NoStranded'
    <2>1. Bound(queue, reader.pc) /\ Cardinality(Forwards) \in Nat
      BY NoStrandedIs, ForwardsFinite DEF DInv
    <2>2. Bound(queue, reader.pc)'
      BY <1>1, <1>2, <1>3, <2>1 DEF Bound, One
    <2>3. ~ reader.fd => reader.pc \in {"none", "done"} /\ queue = 0
      BY DEF DInv, NoStranded
    <2> QED BY <1>1, <2>2, <2>3 DEF NoStranded, Bound, Forwards, One
  <1> QED BY <1>2, <1>4, <1>5, <1>6 DEF DInv

LEMMA ReturnedStep ==
  ASSUME DInv, Returned, UNCHANGED devVars, ~ Invoking("ForwardUp")
  PROVE  DInv'
  <1>1. /\ Goto("loop") /\ UNCHANGED <<queue, reader>>
        /\ UNCHANGED <<clock, origin, events, uid, unscheduled, current, flags>>
    BY DEF Returned, devVars
  <1>2. /\ Listed' /\ Awaited' /\ Signalled' /\ Forwards' = Forwards
        /\ main' \in [pc : Pcs, target : Int, idle : BOOLEAN, runs : Nat]
        /\ \A kind : ~ Invoking(kind)'
    BY <1>1, EventStep
  <1>3. Ranges'
    BY <1>1, <1>2 DEF DInv, Ranges
  <1>4. Starting'
    BY <1>1, <1>2 DEF DInv, Starting
  <1>5. NoStranded'
    BY <1>1, <1>2 DEF DInv, NoStranded
  <1> QED BY <1>2, <1>3, <1>4, <1>5 DEF DInv

\* An event that removes or cancels another one, or calls Stop.
LEMMA ListChange ==
  ASSUME DInv, Listed', Forwards' = Forwards, At("invoke"),
         {f \in events' : f.kind = "StartDevice"} = {f \in events : f.kind = "StartDevice"},
         flags' \in [running : BOOLEAN, stop : BOOLEAN, condition : BOOLEAN],
         UNCHANGED <<clock, origin, current, main, queue, reader>>
  PROVE  DInv'
  <1>1. Ranges'
    BY DEF DInv, Ranges
  <1>2. Awaited' /\ Signalled'
    BY DEF Awaited, Signalled, At, Waits
  <1>3. \A kind : Invoking(kind)' = Invoking(kind)
    BY DEF Invoking, At
  <1>4. Starting'
    BY <1>3 DEF DInv, Starting
  <1>5. NoStranded'
    <2>1. {e \in events' : e.kind = "ForwardUp"} = {e \in events : e.kind = "ForwardUp"}
      BY DEF Forwards
    <2> QED BY <1>3, <2>1 DEF DInv, NoStranded
  <1> QED BY <1>1, <1>2, <1>4, <1>5 DEF DInv

LEMMA OtherStep ==
  ASSUME DInv, Other
  PROVE  DInv'
  <1>0. /\ At("invoke") /\ current.kind = "other" /\ UNCHANGED devVars /\ DInv /\ Ranges
        /\ flags \in [running : BOOLEAN, stop : BOOLEAN, condition : BOOLEAN]
    BY DEF Other, Invoking, DInv, Ranges
  <1>1. ASSUME NEW d \in Delays, Schedule(d, "other") \/ ScheduleRealtime(d, "other")
        PROVE  DInv'
    <2>1. d \in Nat
      BY DeviceAssumption
    <2> QED BY <1>0, <1>1, <2>1, ContextTime, InsertOtherStep
            DEF Schedule, ScheduleRealtime, DInv
  <1>2. ASSUME NEW e \in events, e.kind = "other", Remove(e)
        PROVE  DInv'
    BY <1>0, <1>2, RemoveStep, ListChange DEF DInv, Remove, devVars
  <1>3. ASSUME NEW e \in events, e.kind = "other", Cancel(e)
        PROVE  DInv'
    BY <1>0, <1>3, CancelStep, ListChange DEF DInv, Cancel, devVars
  <1>4. CASE Stop
    <2>1. flags' \in [running : BOOLEAN, stop : BOOLEAN, condition : BOOLEAN]
      BY <1>0, <1>4 DEF Stop
    <2>2. Listed' /\ Forwards' = Forwards
      BY <1>4 DEF Stop, DInv, Listed, Forwards
    <2> QED BY <1>0, <1>4, <2>1, <2>2, ListChange DEF Stop, devVars
  <1>5. CASE Returned
    BY <1>0, <1>5, ReturnedStep DEF Invoking
  <1> QED BY <1>1, <1>2, <1>3, <1>4, <1>5 DEF Other


-----------------------------------------------------------------------------
(* The invariant of any number of calls of Run *)

LEMMA InitInv == Init => DInv /\ Ordered
  <1> SUFFICES ASSUME Init PROVE DInv /\ Ordered
    OBVIOUS
  <1>1. PICK initial \in Initial : SimInit(initial)
    BY DEF Init
  <1>2. /\ IsFiniteSet(initial)
        /\ initial \subseteq [ts : Nat, uid : 0 .. Cardinality(initial) - 1,
                              kind : {"StartDevice", "StopDevice", "other"}]
        /\ \A e, f \in initial :
              e.uid = f.uid \/ (e.kind = "StartDevice" /\ f.kind = "StartDevice") => e = f
    BY InitialAssumption
  <1>3. /\ clock = 0 /\ origin = 0 /\ events = initial /\ uid = Cardinality(initial)
        /\ unscheduled = Cardinality(initial)
        /\ current = [ts |-> 0, uid |-> -1, kind |-> "none"]
        /\ main = [pc |-> "out", target |-> 0, idle |-> FALSE, runs |-> 0]
        /\ queue = 0
        /\ reader = [pc |-> "none", stop |-> FALSE, pipe |-> FALSE, fd |-> TRUE]
    BY <1>1 DEF SimInit, Init
  <1>4. PICK c \in BOOLEAN : flags = [running |-> FALSE, stop |-> FALSE, condition |-> c]
    BY <1>1 DEF SimInit
  <1>5. Cardinality(initial) \in Nat
    BY <1>2, FS_CardinalityType
  <1>6. Ranges
    <2>1. flags \in [running : BOOLEAN, stop : BOOLEAN, condition : BOOLEAN]
      BY <1>4
    <2>2. main \in [pc : Pcs, target : Int, idle : BOOLEAN, runs : Nat]
      BY <1>3 DEF Pcs
    <2>3. current \in [ts : Nat, uid : Int, kind : Kinds \cup {"none"}]
      BY <1>3
    <2> QED BY <1>3, <2>1, <2>2, <2>3 DEF Ranges
  <1>7. \A e \in events : e.ts \in Nat /\ e.uid \in Nat /\ e.uid < uid /\ e.kind \in Kinds
                            /\ e \in [ts : Nat, uid : Nat, kind : Kinds]
    BY <1>2, <1>3, <1>5 DEF Kinds
  <1>8. Listed
    BY <1>2, <1>3, <1>5, <1>7 DEF Listed
  <1>9. Awaited /\ Signalled
    BY <1>3 DEF Awaited, Signalled, At, Waits
  <1>10. Starting
    BY <1>2, <1>3 DEF Starting, Invoking, At
  <1>11. NoStranded
    <2>1. Bound(queue, reader.pc)
      BY <1>3, <1>8, ForwardsFinite DEF Bound, One
    <2> QED BY <1>3, <2>1, NoStrandedIs
  <1>12. Ordered
    BY <1>3, <1>4, <1>7 DEF Ordered, Before, At
  <1> QED BY <1>6, <1>8, <1>9, <1>10, <1>11, <1>12 DEF DInv

LEMMA NextInv ==
  ASSUME DInv, [Next]_vars
  PROVE  DInv'
  <1>1. CASE MainNext /\ UNCHANGED devVars
    BY <1>1, RunStep, SetOriginStep, LeaveStep, LoopStep, LookStep, SynchronizeStep, WaitStep,
       TakeStep DEF MainNext
  <1>2. CASE EventNext
    <2>1. CASE Cancelled
      BY <2>1, ReturnedStep DEF Cancelled, Invoking
    <2> QED BY <1>2, <2>1, StartDeviceStep, StopDeviceStep, JoinStep, ForwardUpStep, OtherStep
            DEF EventNext
  <1>3. CASE ReaderNext
    BY <1>3, ReaderStep, ScheduleForwardUpStep DEF ReaderNext
  <1>4. CASE ThreadSchedules
    BY <1>4, ThreadSchedulesStep
  <1>5. CASE Tick /\ UNCHANGED devVars
    BY <1>5, TickStep
  <1>6. CASE UNCHANGED vars
    <2>1. UNCHANGED simVars /\ UNCHANGED <<queue, reader>>
      BY <1>6 DEF vars, simVars
    <2>2. Listed' /\ Awaited' /\ Signalled' /\ Starting' /\ Ranges'
      BY <2>1, SimUnchanged DEF DInv, Ranges
    <2>3. NoStranded'
      BY <1>6 DEF vars, DInv, NoStranded, Invoking, At
    <2> QED BY <2>2, <2>3 DEF DInv
  <1> QED BY <1>1, <1>2, <1>3, <1>4, <1>5, <1>6 DEF Next

-----------------------------------------------------------------------------
(* The order of the events, for one call of Run *)

\* An event is inserted at or after the simulation time.
LEMMA OrderedInsert ==
  ASSUME DInv, Ordered, NEW ts \in Nat, NEW kind, ts >= current.ts, Insert(ts, kind)
  PROVE  Ordered'
  <1> DEFINE n == [ts |-> ts, uid |-> uid, kind |-> kind]
  <1>1. /\ events' = events \cup {n} /\ flags' = [flags EXCEPT !.condition = TRUE]
        /\ UNCHANGED <<clock, origin, current, main>>
    BY DEF Insert
  <1>2. Before(current, n)
    BY DEF DInv, Listed, Ranges, Before
  <1>3. flags'.running = flags.running
    BY <1>1 DEF DInv, Ranges
  <1>4. \A e \in events' : Before(current', e)
    BY <1>1, <1>2 DEF Ordered
  <1> QED BY <1>1, <1>3, <1>4 DEF Ordered, At, Now

\* A step that changes neither the time nor the current event, and inserts nothing.
LEMMA OrderedQuiet ==
  ASSUME DInv, Ordered, UNCHANGED <<clock, origin, current>>, flags'.running = flags.running,
         \A e \in events' : \E f \in events : f.ts = e.ts /\ f.uid = e.uid,
         main'.runs = main.runs, main.pc # "out" \/ main.runs # 0,
         main'.pc # "origin",
         main'.pc \notin {"out", "join", "destroyed"} => flags.running
  PROVE  Ordered'
  <1>1. \A e \in events' : Before(current', e)
    BY DEF Ordered, Before
  <1> QED BY <1>1 DEF Ordered, At, Now

\* Goto, in the form OrderedQuiet uses.
LEMMA GotoFields ==
  ASSUME Ranges, NEW pc, Goto(pc) PROVE main'.pc = pc /\ main'.runs = main.runs
  BY DEF Ranges, Goto

LEMMA OrderedNext ==
  ASSUME MaxRuns <= 1, DInv, Ordered, [Next]_vars
  PROVE  /\ Ordered'
         /\ current' # current => Before(current, current') /\ current'.ts <= Now
  <1>0. Ranges /\ current.ts \in Nat /\ clock \in Nat /\ origin \in Nat /\ Now \in Nat
    BY DEF DInv, Ranges, Now
  <1>s. \A e \in events : \E f \in events : f.ts = e.ts /\ f.uid = e.uid
    OBVIOUS
  <1>1. CASE Run
    <2>1. /\ main' = [main EXCEPT !.pc = "origin", !.runs = main.runs + 1]
          /\ flags' = [flags EXCEPT !.stop = FALSE, !.running = TRUE]
          /\ UNCHANGED <<clock, origin, events, current>> /\ main.runs < MaxRuns
      BY <1>1 DEF Run
    <2>2. main.runs = 0
      BY <2>1, BoundsAssumption DEF DInv, Ranges
    <2>3. current.ts = 0
      BY <2>2 DEF Ordered
    <2>4. flags'.running /\ main'.pc = "origin" /\ main'.runs # 0
      BY <2>1, <2>2 DEF DInv, Ranges
    <2> QED BY <1>0, <2>1, <2>3, <2>4 DEF Ordered, At, Now
  <1>2. CASE SetOrigin
    <2>1. /\ main.pc = "origin" /\ Goto("loop") /\ origin' = clock
          /\ UNCHANGED <<clock, events, current, flags>>
      BY <1>2 DEF SetOrigin, At
    <2>2. main'.pc = "loop" /\ main'.runs = main.runs
      BY <1>0, <2>1, GotoFields
    <2>3. current.ts = 0 /\ Now' = 0
      BY <1>0, <2>1 DEF Ordered, At, Now
    <2> QED BY <2>1, <2>2, <2>3 DEF Ordered, At
  <1>3. CASE Leave
    <2>1. /\ Goto("out") /\ flags' = [flags EXCEPT !.running = FALSE]
          /\ UNCHANGED <<clock, origin, events, current>>
      BY <1>3 DEF Leave
    <2>2. main'.pc = "out" /\ main'.runs = main.runs
      BY <1>0, <2>1, GotoFields
    <2>3. flags'.running = FALSE
      BY <2>1 DEF DInv, Ranges
    <2> QED BY <2>1, <2>2, <2>3 DEF Ordered, At
  <1>4. CASE Loop \/ Look
    <2>1. /\ main.pc \in {"loop", "look"} /\ UNCHANGED <<clock, origin, events, current>>
          /\ flags'.running = flags.running
      BY <1>4 DEF Loop, Look, At, DInv, Ranges
    <2>2. main'.pc \in {"look", "sync"} /\ main'.runs = main.runs
      BY <1>4 DEF Loop, Look, DInv, Ranges
    <2> QED BY <2>1, <2>2, <1>s, OrderedQuiet DEF Ordered
  <1>5. CASE Synchronize \/ SleepWait \/ Drift \/ SpinWait
    <2>1. /\ main.pc \in Waits /\ UNCHANGED <<clock, origin, events, current, flags>>
      BY <1>5 DEF Synchronize, SleepWait, Drift, SpinWait, At, Waits
    <2>2. PICK pc \in {"sleep", "drift", "spin", "loop", "take", "look"} : Goto(pc)
      BY <1>5 DEF Synchronize, SleepWait, Drift, SpinWait, Returns
    <2>3. main'.pc = pc /\ main'.runs = main.runs
      BY <1>0, <2>2, GotoFields
    <2> QED BY <2>1, <2>2, <2>3, <1>s, OrderedQuiet DEF Ordered, Waits
  <1>6. CASE Take /\ UNCHANGED devVars
    <2>1. /\ current' \in events /\ events' = events \ {current'}
          /\ \A f \in events' : Before(current', f)
          /\ current'.ts <= Now
      BY <1>6, TakeStep
    <2>2. main.pc = "take" /\ Goto("invoke") /\ UNCHANGED <<clock, origin, flags>>
      BY <1>6 DEF Take, At
    <2>3. main'.pc = "invoke" /\ main'.runs = main.runs /\ flags.running
      BY <1>0, <2>2, GotoFields DEF Ordered
    <2>4. main.runs # 0
      BY <2>2 DEF Ordered, At
    <2>5. Before(current, current')
      BY <2>1 DEF Ordered
    <2> QED BY <2>1, <2>2, <2>3, <2>4, <2>5 DEF Ordered, At, Now
  <1>7. CASE StartDevice \/ StopDevice \/ Join \/ ForwardUp \/ Cancelled
    <2>1. /\ main.pc \in {"invoke", "join", "out"} /\ (main.pc = "out" => main.runs # 0)
          /\ UNCHANGED <<clock, origin, events, current, flags>>
      BY <1>7 DEF StartDevice, StopDevice, StopReader, Join, AfterJoin, ForwardUp, Cancelled,
                  Returned, Invoking, At, DInv, Ranges
    <2>2. PICK pc \in {"loop", "join", "destroyed"} :
             Goto(pc) /\ (pc = "loop" => flags.running)
      <3>1. CASE StartDevice \/ ForwardUp \/ Cancelled
        <4>1. main.pc = "invoke" /\ Goto("loop")
          BY <3>1 DEF StartDevice, ForwardUp, Cancelled, Returned, Invoking, At
        <4> QED BY <4>1 DEF Ordered
      <3>2. CASE StopDevice
        BY <3>2 DEF StopDevice, StopReader
      <3>3. CASE Join
        BY <3>3 DEF Join, AfterJoin
      <3> QED BY <1>7, <3>1, <3>2, <3>3
    <2>3. main'.pc = pc /\ main'.runs = main.runs
      BY <1>0, <2>2, GotoFields
    <2> QED BY <2>1, <2>2, <2>3, <1>s, OrderedQuiet
  <1>8. CASE Other
    <2>1. At("invoke") /\ main.pc = "invoke" /\ flags.running
      BY <1>8 DEF Other, Invoking, At, Ordered
    <2>2. current.ts <= Now
      BY <2>1 DEF Ordered
    <2>3. ASSUME NEW d \in Delays, Schedule(d, "other") \/ ScheduleRealtime(d, "other")
          PROVE  Ordered' /\ current' = current
      <3>1. d \in Nat
        BY DeviceAssumption
      <3>2. current.ts + d >= current.ts /\ Now + d >= current.ts
               /\ current.ts + d \in Nat /\ Now + d \in Nat
        BY <1>0, <2>2, <3>1
      <3> QED BY <2>3, <3>2, OrderedInsert DEF Schedule, ScheduleRealtime, Insert
    <2>4. ASSUME NEW e \in events, e.kind = "other", Remove(e)
          PROVE  Ordered' /\ current' = current
      <3>1. \A f \in events' : \E g \in events : g.ts = f.ts /\ g.uid = f.uid
        BY <2>4 DEF Remove
      <3> QED BY <2>1, <2>4, <3>1, OrderedQuiet DEF Remove
    <2>5. ASSUME NEW e \in events, e.kind = "other", Cancel(e)
          PROVE  Ordered' /\ current' = current
      <3>1. \A f \in events' : \E g \in events : g.ts = f.ts /\ g.uid = f.uid
        BY <2>5, CancelStep DEF DInv
      <3> QED BY <2>1, <2>5, <3>1, OrderedQuiet DEF Cancel
    <2>6. CASE Stop
      <3>1. flags'.running = flags.running
        BY <2>6 DEF Stop, DInv, Ranges
      <3> QED BY <1>s, <2>1, <2>6, <3>1, OrderedQuiet DEF Stop
    <2>7. CASE Returned
      <3>1. main'.pc = "loop" /\ main'.runs = main.runs
        BY <1>0, <2>7, GotoFields DEF Returned
      <3> QED BY <1>s, <2>1, <2>7, <3>1, OrderedQuiet DEF Returned
    <2> QED BY <1>8, <2>3, <2>4, <2>5, <2>6, <2>7 DEF Other
  <1>9. CASE Select \/ EndOfFile \/ ReceiveCallback
    BY <1>9 DEF Select, EndOfFile, ReceiveCallback, simVars, Ordered, At, Now
  <1>10. CASE ScheduleForwardUp \/ ThreadSchedules
    <2>1. PICK d \in Nat, kind \in Kinds : ScheduleWithContext(d, kind)
      BY <1>10, DeviceAssumption DEF ScheduleForwardUp, ThreadSchedules, Kinds
    <2> DEFINE ts == (IF flags.running THEN Now ELSE current.ts) + d
    <2>2. ts \in Nat /\ ts >= current.ts
      BY <1>0 DEF Ordered
    <2>3. Insert(ts, kind)
      BY <2>1 DEF ScheduleWithContext
    <2> HIDE DEF ts
    <2> QED BY <2>2, <2>3, OrderedInsert DEF Insert
  <1>11. CASE Tick
    <2>1. clock' = clock + 1 /\ UNCHANGED <<origin, events, current, flags, main>>
          /\ main.pc # "origin"
      BY <1>11 DEF Tick
    <2>2. Now' = Now + 1
      BY <1>0, <2>1 DEF Now
    <2> QED BY <1>0, <2>1, <2>2 DEF Ordered, At
  <1>12. CASE UNCHANGED vars
    BY <1>12 DEF vars, Ordered, At, Now
  <1> QED
    BY <1>1, <1>2, <1>3, <1>4, <1>5, <1>6, <1>7, <1>8, <1>9, <1>10, <1>11, <1>12
    DEF Next, MainNext, EventNext, ReaderNext

-----------------------------------------------------------------------------
(* The theorems *)

\* DInv is an invariant for any times and numbers of events, packets and calls of
\* Run: the list and its count agree, the main thread never waits past an event
\* that is in the list, and every queued packet has its event.
THEOREM Invariance == Spec => []DInv
  BY InitInv, NextInv, PTL DEF Spec

\* No wake-up is lost between the main thread's look at the list and its wait.
THEOREM NoLostWakeup == Spec => []Woken
  <1>1. DInv => Woken
    BY DEF DInv, Signalled, Woken, Waits, At
  <1> QED BY Invariance, <1>1, PTL

\* No packet is stranded in the queue between the reader's two steps, and none is
\* queued once the device is stopped.
THEOREM PacketsForwarded == Spec => []NoStranded
  <1>1. DInv => NoStranded
    BY DEF DInv
  <1> QED BY Invariance, <1>1, PTL

\* With one call of Run, the assertions of the simulator hold whatever the other
\* threads schedule.  A second call would move the origin of the real time back to
\* the clock and with it let other threads schedule before the simulation time.
THEOREM Asserted ==
  ASSUME MaxRuns <= 1
  PROVE  Spec => []AssertionsHold
  <1>1. DInv /\ Ordered /\ [Next]_vars => (DInv /\ Ordered)'
    BY NextInv, OrderedNext
  <1>2. DInv /\ Ordered => AssertionsHold
    <2> SUFFICES ASSUME DInv, Ordered PROVE AssertionsHold
      OBVIOUS
    <2>1. unscheduled \in Nat /\ (events = {} => unscheduled = 0)
      BY FS_CardinalityType, FS_EmptySet DEF DInv, Listed
    <2>2. TypeOK
      <3>1. \A e \in events : e \in [ts : Nat, uid : 0 .. uid - 1, kind : Kinds]
        BY DEF DInv, Listed
      <3>2. main.pc \in Pcs /\ reader.pc \in ReaderPcs
        BY DEF DInv, Ranges, ReaderPcs
      <3> QED BY <2>1, <3>1, <3>2 DEF TypeOK, DInv, Ranges, Listed, Kinds, Pcs, ReaderPcs
    <2>3. At("look") \/ At("take") => events # {}
      BY DEF DInv, Awaited
    <2>4. \A e \in events : e.ts >= current.ts
      BY DEF Ordered, Before, DInv, Listed, Ranges
    <2> QED BY <2>1, <2>2, <2>3, <2>4 DEF AssertionsHold
  <1> QED BY InitInv, <1>1, <1>2, PTL DEF Spec

\* With one call of Run, events are run by time and then in the order of their
\* uids, and none before its real time.
THEOREM RunInTime ==
  ASSUME MaxRuns <= 1
  PROVE  Spec => InTime
  <1>1. DInv /\ Ordered /\ [Next]_vars => (DInv /\ Ordered)'
    BY NextInv, OrderedNext
  <1>2. DInv /\ Ordered /\ [Next]_vars =>
           [current' # current => Before(current, current') /\ current'.ts <= Now]_vars
    BY OrderedNext
  <1> QED BY InitInv, <1>1, <1>2, PTL DEF Spec, InTime

=============================================================================

# Verification of ns-3.40 (Swift distribution)

TLA+ models of the parts of this repository on which its results rest, checked
with TLC and in part proved with TLAPS. The repository is a distribution of the
ns-3.40 network simulator with two parts of its own: a multithreaded simulation
engine (`src/mtp/`), which has no tests (`src/mtp/test/mtp-test-suite.cc` is a
stub), and the TcpSwift congestion control (`scratch/swift-tcp/`). The project
models the engine, then TcpSwift and the TCP that carries it (connections, loss
recovery), and the realtime simulator, the other place of the repository where
threads meet.

## 1. Inventory

### Components, their state and their operations

| Component | State | Operations | Modelled in |
|---|---|---|---|
| Thread pool, `mtp-interface.cc` | `g_systemIndex`, `g_finishedSystemCount` (atomic), `g_recvMsgStage`, `g_globalFinished`, `g_sortedSystemIndices`, `g_round` (plain) | `Run`, `RunBefore`, `ProcessOneRound`, `CalculateSmallestTime`, `RunAfter`, `ThreadFunc` | MtpThreads, MtpStages |
| Logical processes (LPs), `logical-process.cc` | `m_events`, `m_mailbox`, `m_currentTs`, `m_currentUid`, `m_uid`, `m_stop`, `m_lookAhead`; shared `g_smallestTime`, `g_nextPublicTime` | `CalculateLookAhead`, `ProcessOneRound`, `ReceiveMessages`, `Schedule`, `ScheduleWithContext`, `Stop`, `ScheduleGlobal` | MtpRounds, EventSimulation |
| Automatic partition, `multithreaded-simulator-impl.cc` | `m_minLookahead`, BFS queue and flags, node `systemId`s | `Partition` (first part) | MtpPartition |
| Event transfer, same file | old event list, new LPs, EventIds held by the program | `Partition` (second part), `InvokeNow`, `Cancel`, `Remove`, `IsExpired` | MtpTransfer |
| TcpSwift, `scratch/swift-tcp` | window, threshold, `m_pendingCwnd`, freeze and decrease counters, BDP, alpha | `GetSsThresh`, `IncreaseWindow`, `CongestionStateSet` and the handlers of TcpSocketBase that call them | TcpSwift |
| TCP data transfer, `tcp-socket-base.cc`, `tcp-tx-buffer.cc`, `tcp-rx-buffer.cc` | congestion state, `m_dupAckCount`, `m_recover`, SACK scoreboard, timer, reassembly and SACK list | `SendPendingData`, `ReceivedAck`, `DupAck`, `ProcessAck`, `EnterRecovery`, `EnterCwr`, `ReTxTimeout`, `ReceivedData`, `DelAckTimeout` | TcpSender |
| TCP connections, `tcp-socket-base.cc`, `tcp-l4-protocol.cc` | `m_state`, end point, retry counters, three timers | `Connect`, `Listen`, `Close`, `ShutdownSend`, the `Process*` handlers, `PeerClose`, timeouts | TcpConnection |
| Realtime simulator, `realtime-simulator-impl.cc`, `wall-clock-synchronizer.cc` | event list, clocks, the synchronizer's condition | `Run`, `ProcessOneEvent`, `Schedule*`, `Remove`, `Cancel`, `Stop`, `DoSynchronize`, `SleepWait`, `SpinWait` | RealtimeSimulator |
| File-descriptor device, `fd-net-device.cc`, `unix-fd-reader.cc` | packet queue, reader thread, event pipe | `ReceiveCallback`, `ForwardUp`, `StartDevice`, `StopDevice`, `FdReader::Run`, `Stop` | FdNetDevice |
| Sequential simulator, schedulers, `src/core/model` | the event list, queue of events from other threads | `Run`, `Insert`, `RemoveNext`, `Remove` | planned |
| MPI and hybrid simulators, `src/mpi` | granted time, null-message clocks, transmitted and received counts | windows, null messages | planned |
| Experiment runner, `main.js`, `lib/` | result files on disk | resume, parallel runs | candidate |
| The other ns-3 modules | protocol and channel models | | not modelled (`PROJECT.json` lists them with the reasons) |

### How the components interact

`Simulator::Run` reaches `MultithreadedSimulatorImpl::Run`. Unless the program
partitioned the network itself, `Partition` cuts long point-to-point links,
gives connected nodes the same `systemId`, creates one LP per system plus the
*public* LP 0 (events without a node), and hands the events of `main()` over to
them; those of time zero run at once. `MtpInterface::Run` then starts worker
threads and repeats rounds of four stages:

1. every LP runs its events up to `min(g_smallestTime + m_lookAhead, g_nextPublicTime)`;
   events for other LPs go into their mailboxes;
2. the main thread runs the public LP;
3. every LP moves its mailbox into its event list;
4. the main thread computes the next window and whether the simulation is over.

In stages 1 and 3 threads take LPs from a shared counter; two busy-waiting loops
on a second counter are the only barriers. Nothing else is locked: event lists,
clocks and mailboxes are safe only because of this protocol, and causality holds
only because of the window.

A TCP socket is driven by events of the simulator: segments that arrive, timers and
calls of the application. Each runs to its end without interruption; what makes
TCP hard is the network, which loses and reorders segments, and the number of
handlers that share few variables (one event, `m_retxEvent`, is SYN, FIN and data
timer). TcpSocketBase asks TcpSwift for a threshold at congestion events
(`GetSsThresh`) and for a window at acknowledgments (`IncreaseWindow`); a decision
made in the first waits in `m_pendingCwnd` for the second.

Under the realtime simulator the main thread waits for the real time of the next
event. Other threads, such as the reader of an FdNetDevice, insert events and set
the synchronizer's condition to end the wait. Event list and condition have
different locks, and the main thread holds neither while it waits.

### What is hard

* **Concurrency.** Claims straddling a reset of the counter; plain flags read
  after an atomic operation; workers that are late for the end; spinning threads
  that miss a short-lived value.
* **Ordering.** Messages across LPs that are out of step; ties; events of the
  public LP, which may touch every node.
* **Numbers standing for something else.** `Time::Max()` for an empty list,
  `Time::Max()/2` for the end of time, uids compared across renumberings.
* **Unreliable delivery and timeouts.** SYNs, FINs, data, acknowledgments and SACK
  options are lost and overtake each other, while timers repeat what may have
  arrived.
* **Decisions that wait.** A window decided in one handler and applied in another;
  a wait decided in one critical section for an event taken in the next.
* **Lifecycle.** The time-zero events that run while events are being moved; a
  second simulation in the same process.

`PROJECT.json` lists each of these as a hazard at its line, with the properties
that cover it or the reason why none does.

## 2. Plan

| Step | Modules | Aim | State |
|---|---|---|---|
| 1 | MtpStages, MtpThreads, MCThreads | thread pool, refinement to stages, liveness | done |
| 2 | MtpThreadsProofs | type and safety invariants for any number of threads and LPs | done |
| 3 | EventSimulation, MtpRounds, MCRounds | causality, public LP, refinement to event simulation | done |
| 4 | MtpRoundsProofs | the same for any network and program | done |
| 5 | MtpPartition, MtpTransfer | where LPs and their first events come from | done |
| 6 | TcpSwift, TcpSender, TcpConnection | TcpSwift's window rules, loss recovery for any window, connections over an unreliable network | done |
| 7 | RealtimeSimulator, FdNetDevice | a wait that other threads interrupt, composed with a device whose thread does so | done |
| 8 | the other *Proofs modules | the safety invariants and action properties of every module; the refinements MtpThreads => MtpStages and MtpRounds => EventSimulation | done |
| 9 | Schedulers, DefaultSimulator | heap and calendar queue against a sorted list; the sequential simulator implements EventSimulation | |
| 10 | MpiGrantedTime, NullMessage, Hybrid | distributed windows against EventSimulation | |

## 3. Modules and their correspondence to the code

**MtpStages** is the abstract specification of the thread pool: phases `process`,
`public`, `receive`, `calc`, `over` and, per LP, `todo`, `busy`, `done`. MtpThreads
implements it; MtpRounds takes its actions as the control of the LPs.

**MtpThreads** has one action per access to shared state of the main thread
(`ProcessOneRound` and its callers) and of the workers (`ThreadFunc`); `pc` names
the statement a thread is at. Both stages of `ProcessOneRound` are the same loop
with a different method, so `stage` says which one the main thread is in. What an
LP does is one step, `Work`, during which the thread is at `"work"`; MtpRounds
looks inside. The key of the sort is abstracted: any order may result. (The sort
function is one of the four of `Enable`; with an unknown method name there is no
sort and `g_round` is not counted, a case that adds nothing to the rounds in which
`Sort` leaves the order unchanged.) When the simulation ends is a free choice, bounded by `MaxRounds`.
The plain variables are ordered by the acquire and release operations around
them; the one that is not, `g_globalFinished`, is read in a step of its own and so
seen in its old or new value.

**MtpRounds** has, per LP, the event list, the clock, the mailboxes and the uid
counter. `InvokeNext` is the head of the loop in
`LogicalProcess::ProcessOneRound`; between it and `Return` the event may call
`Schedule`, `ScheduleWithContext`, `Stop` (and, in `GlobalSpec`,
`ScheduleGlobal`), any number of times. The program is thus arbitrary, with two
restrictions that point-to-point networks keep to: an event of an LP reaches a
node of another LP only along a link, and at least the link's delay later
(`PointToPointChannel::TransmitStart`); nodes have a `systemId` of at least 1.
`ReceiveMessages` is atomic, since nobody else touches the LP meanwhile
(StageExclusive); `std::sort` may leave equal elements in any order, hence the
choice of a ranking. uids start at 1 here instead of `EventId::VALID`; only
their order matters. `Init` has the states in which the first round can open: after a
manual partition, what `main()` has scheduled as the public LP; after an automatic
one also what the time-zero events have scheduled in their LPs and along links.
There `InvokeNow` has left uids of the old numbering in `m_currentUid`, any in
`0..OldUids`; `leftover` is the set of the systems it has done so in, until they run
their first event of a round. `RestartInit` has the window that a finished
simulation leaves. It is only for a manual partition: a second automatic one calls
`Disable` again, whose pointers were not reset (`mtp-interface.cc:118-120`), and
frees two arrays twice before the first round.

**EventSimulation** is what any simulator promises: each system runs its earliest
pending event, and nothing is scheduled in a system's past. Under the refinement
mapping the pending events are those of the lists and of the mailboxes.

**MtpPartition** has one action per iteration of the loops of `Partition`: the
median, a step of the loop over the nodes, a node popped from the queue, the end
of a search, the call of `Enable`. A channel is a record of its nodes, whether it is
point-to-point, and its delay. `InOrder` lists a set of numbered things by the rank of
each, which is how both the sorted delays and the order of the pushed nodes are
written. Connectivity is stated without recursion: two nodes are connected when every
set with the one that is closed under channels that are kept has the other.

**MtpTransfer** has one action per event taken from the old list and per call that
a time-zero event makes while it is invoked. `born` remembers for each event the
time, the system and the uid in the EventId its creator holds. `asked` remembers the
pending events that somebody cancelled.

**TcpConnection** is two nodes with one socket each (at a server, the forked one). Every
handler (`ProcessSynSent`, `ProcessWait`, `DoPeerClose`, ...) is an operator from the
socket before to the socket after; an action is one event of the simulator:
arrival of a segment, expiry of a timer, call of the application. What the handler
hands down is put on the network at the end, where any part of it may be lost;
delivery is in any order. No data is sent: the transmit buffer is empty and the
receive buffer holds at most the FIN. Options are at their defaults (time stamps
on, ECN off). `CompleteFork`, which the code schedules for the same instant, is one
step with `ProcessListen`; a callback calls `Close` only from `DoPeerClose`; a socket
is connected once. Timers have no durations, so any order of expiries is covered.

**TcpSender** is one transfer with SACK. The sender's scoreboard is `sacked`, `lost`,
`retrans` and `highestSack` over the segments `head .. high - 1` (`m_sentList`);
`DupAck`, `ProcessAck` (`Advance` is its second half), `EnterRecovery`, `EnterCwr`,
`ReTxTimeout` and `SendPendingData` are operators on it; `failed` collects the NS_ASSERTs that a
handler ran into. The receiver has `Add`, the SACK list and delayed acknowledgments.
The window is open: every event may use any window up to `Window`, so that no
congestion control is assumed. Any acknowledgment may carry ECE. Sequence numbers
count segments. Left out: zero windows and the persist timer, pacing, Nagle, a FIN
behind the data, transfers without SACK, congestion controls with their own
`CongControl`.

**TcpSwift** puts the window rules of `tcp-swift.cc` under the congestion states of
TcpSocketBase with TcpClassicRecovery. The measurements are open: BDP, alpha, the class
of the last RTT and the bonus may change with every acknowledgment within the
limits of the code. Doubles are cut off to integers as the casts do, in percent, so
that a window may differ by a byte from that of the program; counters that only
matter up to 4 stop there. `Settle` starts the part of a behaviour in which the
estimates stay and nothing is lost, which Converges is about. With `Duplex` the peer
sends data too, and its marks set `m_ecnState` to `ECN_CE_RCVD`.

**RealtimeSimulator** has one step per critical section of the main thread and per read
of the clock or of the condition outside of one; the clock (`Tick`) goes on in
between by any amount. The synchronizer's jiffy is a tick and `Slack` the three jiffies
a sleep ends early. `m_condition` is not initialised by the code and starts with
either value. **FdNetDevice** extends it with the reader's thread, the device's
events and a thread of the program that schedules events during `Run`.
`SYNC_HARD_LIMIT`, which is off by default, and destroy events are left out.

## 4. Runs

| Run | Shows | Bounds |
|---|---|---|
| threads | stages exclusive and in lockstep, counters bounded, implements MtpStages, `Run` returns | 2 LPs, 3 threads, 2 rounds, sort every 2nd round |
| threads_hang | *violation*: `Run` may never return | 1 LP, 3 threads |
| rounds | causality, expiry, public LP, nothing lost, times forward, implements EventSimulation | 2 linked LPs, delay 1, times 0..3, 2 initial events, up to one more per system, leftover uid 0 or 1; 1,436,077 states |
| rounds_extreme | the rounds end, the window stays below `Time::Max()`, ScheduleGlobal keeps the public LP's order | 3 LPs: a link of delay 0 and an LP without links; times 0..2, 1 initial event, up to one more per system, leftover uid 0 or 1; 411,524 states |
| rounds_restart | *violation*: in a second simulation public events run ahead of what `main()` has scheduled for the nodes | as rounds, manual partition |
| partition | systems are the components of the network without cut links, numbered 1..n, half of the links at least as long as the median, the search ends | all networks of 4 nodes and 3 channels, delays 0 and 1, any `MinLookahead` |
| transfer | events conserved, time-zero events first and in order, which cancellations take effect | 3 events of `main()`, 2 more, 2 nodes in 2 LPs |
| connection | a waiting socket has a timer, a released one has none and its application knows, FINs are acknowledged, set-up and tear-down end | 2 nodes, 2 SYNs, 1 repeated FIN, 2 segments on the way; 233,624 states |
| sender | assertions, timer, scoreboard true to the receiver, recovery point, the transfer ends | 4 segments, threshold of 2 duplicates, windows 1..4, ECN, 1 timeout in a row, 2 acknowledgments on the way; 457,321 states |
| realtime | assertions, no lost wake-up, events in order and not early, no stranded packet, every event runs and every join ends | times 0..2, 4 events of the program, 2 packets, a queue of 1; 234,699 states |
| swift | floor, pending decisions, retention, convergence | segments of 2 bytes, BDP 6 and 60, alpha 0.85 and 1.30, windows up to 32 before Settle; 159,205 states |
| swift_timeout | *violation*: what a timeout retains | as swift, without marks on the peer's data |

*Why the bounds are enough to be interesting.* Three threads on two LPs have a
thread without an LP in every stage, two rounds reuse every counter, and the
refused claims of one stage overlap with the next. Two LPs with a link and the
public LP have every kind of sender and receiver; with times up to 3 and delay 1
there are windows that end at the lookahead, at a public event and at the end of
time. Four nodes and three channels give chains, trees, cycles, parallel links and
shared channels. Two segments on the way are enough for an old ACK to meet a FIN and
for simultaneous opens and closes. Four segments with a threshold of two have losses
before, between and after SACKed segments, partial acknowledgments, lost
retransmissions and a second recovery. A BDP of 6 puts the target below the floor of
four segments, one of 60 above every window reached before, so that the window
approaches its target from both sides. A queue of one packet fills up, and the
idle wait, the sleep and the spin of the realtime simulator all occur. Passing runs explore their bounded instances completely.

*Deadlock* is checked in the runs of the engine and of TcpSwift; `Returned`, `Ended` and
`KeepSpinning` are the steps of a program that has ended or polls. The runs
connection, sender and realtime say `CHECK_DEADLOCK FALSE`: a connection may be
closed, a transfer over and a simulator destroyed; Ends and Served say that these
are the only ways to stop that matter.

*Fairness.* MtpThreads: each thread that can make a step eventually does, as the
operating system guarantees to runnable threads; a polling loop that reads the
same value again is `KeepSpinning`, which has no fairness and changes nothing. No
strong fairness is assumed: a worker that polls may miss a value that comes and
goes, which is the point of threads_hang. MtpRounds: some step is eventually
taken while there is one (MtpThreads' Termination and the fact that C++ event
functions return). MtpPartition: a sequential function keeps running. TcpConnection and TcpSender: the
simulator runs every scheduled event, so timers expire; nothing is assumed about the
network, which may lose everything. RealtimeSimulator and FdNetDevice: both threads
and the clock go on. TcpSwift: acknowledgments of whole segments keep coming after
`Settle`; `acks` makes every one of them a step, so that fairness cannot force a
particular bonus or RTT.

## 5. Findings

* **threads_hang.** `RunAfter` opens the index once. A worker that arrives late
  increments it; if that closes it before a spinning worker has looked, this one
  spins for ever. It needs two threads more than LPs, which the manual
  `Enable(threadCount, systemCount)` permits; the automatic partition never does
  (`Partition` asks for at most as many threads as LPs).
* **rounds_restart.** `Disable` does not reset `g_smallestTime` and
  `g_nextPublicTime`, which the end of a simulation leaves at `Time::Max() / 2` and
  `Time::Max()`. When a second simulation with a manual partition opens its first
  round, the lists of the LPs are empty, as everything that `main()` has scheduled for
  nodes is in their mailboxes; the public LP has an unlimited window and runs all its
  events, `Simulator::Stop(delay)` for example, before any of that. `simulator.h:120-122`
  says that a simulation can be restarted after `Destroy`. (With an automatic
  partition the second `Partition` already fails, see MtpRounds in section 3.)
* **swift_timeout.** `ReTxTimeout` asks for the threshold before it sets `CA_LOSS`, by
  which TcpSwift recognises a timeout. The first timeout of a flow retains 0.70 of
  the window (0.75 in `CA_CWR`) instead of the documented 0.50, and slow start is not
  re-entered.

Disagreements that the models show without a run of their own:

* Messages between LPs that tie in time, sender and uid have no order
  (`ReceiveMessages` of MtpRounds takes any), although `simulator.h:57-60` documents FIFO.
* The automatic partition renumbers events. `InvokeNow` leaves a uid of the old
  numbering in `m_currentUid`, so that an event scheduled for time zero by a time-zero
  event looks expired and cannot be cancelled (the exceptions in CancelTakesEffect
  and PendingNotExpired, against `simulator.h:406-407`); EventIds that `main()` holds
  no longer match the key of the event, so that `Remove` fails (`pc = "failed"` of MtpTransfer, against
  `simulator.h:394-395`).
* Duplicates counted in `CA_CWR` are not forgotten when `ReceivedAck` returns to
  `CA_OPEN`, and the assertion "From OPEN->DISORDER" of `DupAck` can fail (the exception
  in AssertionsHold of TcpSender). A build without assertions goes on and may then
  count beyond the threshold, against the assertion that follows; the proof of
  AssertionsHold found this second case, TLC confirms it with five segments and a
  threshold of one.
* The comment at `tcp-socket-base.cc:1503-1508` says that after a timeout "the sender
  could enter into CA_DISORDER after receiving new ACK smaller than m_recover", and
  the assertion at 1509 allows for it with `|| m_recoverActive`. The code does not do
  this: such an ACK leaves `CA_LOSS` as it is (1810), and `m_recoverActive` is reset before
  the state is left. RecoveryPoint, which has the opposite of the comment as a
  conjunct, holds and is proved (PointHeld): the disjunct never matters.
* Close in `SYN_RCVD` of a socket that called Connect (a simultaneous open) gives the FIN
  the number of the SYN; with `ClosesEarly = TRUE` FinAcknowledged fails.
* A socket that is closed in `CLOSE_WAIT` after its callback reaches `LAST_ACK` without
  `LastAckTimeout` and repeats its FIN for ever when the network drops everything,
  although `tcp-socket-base.cc:2357` means to "prevent endless FINs".
* `IsHeadRetransmitted` in `ReTxTimeout` is always false, as `SetSentListLost` has just
  cleared the flags: every timeout lowers the threshold, against the comment at
  `tcp-socket-base.cc:3360-3362`.
* `SleepWait` returns the opposite of what `wall-clock-synchronizer.h:118-120` says. The
  loops around it make up for it: Woken, InTime and Served hold.
* `DoSetOrigin` ignores its argument: with `MaxRuns = 2` events of other threads are
  inserted into the past, and AssertionsHold of FdNetDevice fails.
* While there is no event the realtime simulator does not clear the condition, and polls
  instead of sleeping after the first signal.

## 6. Proofs

**MtpThreadsProofs**, for every number of LPs (zero included), threads, sort period
and rounds (`ThreadsAssumption`: at least one thread, as `Enable` asserts, a
positive period). None of the properties is inductive; the invariant `IInv` adds

* `HoldInv`: an index that a thread holds was handed out and is held once;
* `CountInv`: while a stage runs, finished LPs plus held LPs are the LPs handed
  out. This is what makes the barrier a barrier;
* `BetweenInv`: between stages nothing is held and the index is closed;
* `FlagInv`: what the flags say given where the main thread is, and that a
  working thread has chosen the method of the current stage;
* `HistoryInv`: how many times each LP has done each method;
* `OverrunInv`: the index exceeds the number of LPs by at most the number of
  threads that have found nothing to claim.

`Init => IInv` and preservation by each group of actions (lemmas `MainInv`,
`ClaimInv`, `TakeInv`, `IdleInv`, `WorkInv`, `CountedInv`) give `Invariance`; from it
follow TypeCorrect, Exclusive, Alone, Rounds, Bounded and LateWorkersOnlyReceive.
The cardinality arguments rest on `MoveCount` and `MoveSets`.

**MtpRoundsProofs**, for every number of LPs, symmetric links, delays (zero
included), end of time, numbers of events and every program. `RInv` adds to typing

* `AheadInv`: no LP is ahead of the next public event, nor of what a neighbour can
  still send it;
* `PendingInv`: nothing pending is before the smallest time, and no message
  reaches into its receiver's window;
* `InvokingInv`, `MailInv`, `StopInv`, `UidInv`: who may run, where mail may be,
  that Stop reaches all systems, and that uids in use are below `m_uid`, except those
  that `InvokeNow` has left, which go with time zero.

The heart is `InvokeNextStep` and `ScheduleWithContextStep`: an event dequeued
within the window is at most a neighbour's delay after the smallest time, while
whatever the neighbour sends is at least that delay after it. From `Invariance`
follow TypeCorrect, Causality, NotExpired, OneGlobalTime, EmptyNeverGranted,
NothingLost and Forward. NotExpired holds of the automatic partition too, with its
exception: a time-zero event of a system that has run nothing since `InvokeNow` may
look expired.

The theorems Alone (MainAlone) and Forward (TimeForward) state properties that no run
repeats, as the proofs cover every instance.

The other half of MtpThreadsProofs is `StagesImplemented`: under the mapping of
`Stages`, every step of a thread is a step of MtpStages or leaves its state alone.
`PhaseMeaning` and `WorkMeaning` say what phase and work stand for; `IInv` is what
allows each step, e.g. that the main thread sees the count complete only when every
LP is done.

The second part of MtpRoundsProofs is about the event simulation. `Refinement`
shows that the rounds implement EventSimulation: event lists and mailboxes together
are one list per LP, from which the LP takes an earliest event although it looks at
its own list only. Beyond `RInv` it needs `Distinct`: an event implementation is in one place of
one system at most, so that taking an event from a list takes it from the abstract
list. The third part is about programs that use ScheduleGlobal, for which
`RInv` does not hold, as their events may be in an LP's past. `GInv` keeps what is left:
until the end nothing pending is before the smallest time, which the
public LP never passes (`FromSmallest`), and an LP runs events from that time on only
(`RunningFromSmallest`). GlobalForward (PublicForward) and GlobalNeverEmpty follow.

**MtpPartitionProofs**, for every number of nodes, channels and threads, every network and
every delay up to any bound. The lemmas about `InOrder` say that the list has each
element at the place of its rank (`RankOnto` is the pigeonhole argument), `PushedLemma` what a
marked node pushes. `PInv` says what the search knows in every state:

* `ClosedInv`: what a visited node is joined to has its number, or is in the queue while
  its system is being built;
* `ConnectedInv`: nodes of one number are connected, and so are the queued ones with
  the system being built;
* `NumberInv`, `ScanInv`, `QueueInv`: numbers have no gaps, no node before the
  iterator is forgotten, a node that is queued again has this system's number.

The heart is `PopInv`: a neighbour of the popped node that has another number would, by
`ClosedInv`, have the popped node in its own system. At the end each system is
closed, which gives Components. HalfCut counts: the devices from the second of the two in
the middle of the sorted list on are half of all (`MedianCuts`), and each
point-to-point link has two (`DevicesOfSize`).

**MtpTransferProofs**, for every number of LPs, nodes and events
(`TransferAssumption`). An event is in the old list, invoked, removed, in a new list or in a
mailbox; `TInv` says that these five sets are disjoint and together all events
(`Partitioned`), that lists and mailboxes hold an event once and with the LP and time
it was created for, and it orders the events that were invoked with respect to those still
in the old list (`Ascending`, `Ahead`). `Current`, `Late` and `Known` relate uids and the current
uid, which is what IsExpired compares. NothingLost, InOrder and CancelEffective follow.

**TcpSwiftProofs**, for every segment size, initial window of 4 segments or more,
estimates of the BDP and factor alpha between 0.85 and 1.30, the clamps of the code.
Lemmas say what the response, the safety bounds and the growth return for any flow.
`SInv` adds to Floor and PendingFresh the cap of a measured path (a window below it
is not cut by the bounds, which is why the decision stays fresh) and `Episode`: in recovery
and CWR nothing moves the window, the threshold or the freeze. ShareRetained is an
action property that follows from it.

**TcpConnectionProofs**, for two nodes and any numbers of retries and segments on the
network. Every handler is a function on sockets and gets a lemma; `CInv` says that
every socket is new or `Sound`. TimersArmed and NothingLeft follow. FinDelivered has
the hypothesis `ClosesEarly = FALSE`: no application closes during the handshake,
the case for which section 5 reports that the property fails. It needs the
sequence numbers: `NInv` bounds them state by state and says that an ACK beyond the
sender's FIN is on the network only if its peer has accepted that FIN.

**RealtimeProofs**, for any times, delays, events, packets and calls of Run.
`InitialAssumption` says that the first events have the uids of successive calls of Schedule and
that the device is started once (a second start is an assertion of FdReader). `DInv` relates what the
main thread found in the list to what is still there (`Awaited`), the condition to
earlier events (`Signalled`: an event before the target has set the condition, or the wait will
not begin) and packets to ForwardUp events (NoStranded). NoLostWakeup and
PacketsForwarded follow. Asserted and RunInTime have the hypothesis `MaxRuns <= 1`: a second
Run moves the origin of the real time, so that other threads may schedule before the
simulation time. They add `Ordered`: the current event is before all others, and not ahead of the
real time.

**TcpSenderProofs**, for any number of segments, windows, threshold of duplicates,
retries, with and without ECN. The handlers (`Update`, `DiscardUpTo`, `DupAck`, `Advance`,
`SendPendingData`, `EnterLoss`) are functions on senders and get a lemma each;
`ReceivedAckLemma` puts them together in the order of ReceivedAck. `TInv` has

* `Board`: the flags are set for segments of the sent list, none is SACKed and lost,
  and the head is never SACKed;
* `Congestion`: RecoveryPoint, and that SND.UNA is not beyond the recovery point in CWR
  either, so that the acknowledgment which leaves CWR advances. Within ReceivedAck it is
  broken for a while; `Midway` says what is left of it there;
* `Reassembly`: the blocks of the SACK list are held and have no gaps, which is why
  ClearSackList leaves only blocks beyond the first missing segment;
* `Network`: the blocks of an acknowledgment are above its number and received, and a
  segment that was the first missing one when an acknowledgment was sent is in no block
  of any other. Only this makes a late acknowledgment safe: the segment that becomes
  the head was not SACKed by one that overtook it.

Asserted, TimerArmed, NothingInvented and PointHeld follow. The numbers of segments in
`Lowest` are cardinalities of finite sets of numbers (`LowestInterval`, `LowestOne`).

**Only model-checked:** everything about liveness (Termination of the pool, the
rounds and the search, Ends, Served, Converges, and the progress part of StagesSpec), which
needs fairness and ENABLED. Every invariant and every action property of the runs is
a theorem.

## 7. Not modelled

The repository is the whole of ns-3: some 700,000 lines in 2,352 files, most of them
upstream models of radio, routing and link layers (Wi-Fi, LTE, WiMAX, LR-WPAN, mesh and ad hoc
routing, propagation, mobility) and their headers and helpers. The project covers
the repository's own engine and congestion control and the TCP and realtime code
around them, which is a small share of those lines by design: the upstream models are
independent of each other and of the engine, and a faithful model of one of them is a
project of its own. Within the parts that are modelled, left out are

* the sort keys, execution times, event counts and logging of the engine;
* `EnableNew` (no caller) and the MPI variant of `CalculateLookAhead`;
* the data race on `std::map` in `m_mailbox` between LPs that are joined by other
  than point-to-point links, changes of a channel's delay during a run (the
  lookahead is computed once), and nodes whose `systemId` is 0 after a manual partition,
  whose mailbox no stage empties: the programs of MtpRounds keep to the preconditions
  stated above;
* events after `Time::Max() / 2`, which no window reaches, and the 32 bits of `m_uid`;
* a second `Run` of the multithreaded simulator without `Destroy` (it returns at once, as
  `g_globalFinished` is still set), and a network without nodes (the assertion of `Enable`
  fails);
* the memory order of single accesses below the level of acquire and release, and the
  unlocked `m_pendingQueue.empty()` of `FdNetDevice::ForwardUp` below the level of its
  two outcomes;
* what section 3 names for the TCP and realtime modules;
* all other components of section 1 that are not marked as modelled.

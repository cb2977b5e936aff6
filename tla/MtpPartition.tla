---------------------------- MODULE MtpPartition ----------------------------
(***************************************************************************)
(* The automatic partition of a network into logical processes:            *)
(* MultithreadedSimulatorImpl::Partition up to the creation of the new     *)
(* LPs. Point-to-point links whose delay is not below m_minLookahead are   *)
(* cut; a breadth-first search gives the nodes that stay connected the     *)
(* same systemId. MtpTransfer models what then happens to the events.      *)
(*                                                                         *)
(* The devices of a node are in the order in which the channels were made, *)
(* those of a channel in the order of their nodes.                         *)
(***************************************************************************)
EXTENDS Integers, FiniteSets, Sequences

CONSTANTS
    NodeCount,              \* nodes.GetN()
    ChannelCount,           \* the number of channels
    MaxDelay,               \* bound: the delay of a point-to-point channel
    m_maxThreads            \* the attribute MaxThreads

Node == 0 .. NodeCount - 1
ChannelId == 1 .. ChannelCount

ASSUME PartitionAssumption ==
    /\ NodeCount \in Nat /\ ChannelCount \in Nat /\ MaxDelay \in Nat
    /\ m_maxThreads \in Nat \ {0}

\* The channels of a network; only point-to-point ones are looked at closely.
Channel ==
    [p2p : {TRUE}, nodes : {s \in SUBSET Node : Cardinality(s) = 2}, delay : 0 .. MaxDelay]
      \cup [p2p : {FALSE}, nodes : {s \in SUBSET Node : Cardinality(s) >= 2}, delay : {0}]

VARIABLES
    channels,               \* the network, which does not change
    m_minLookahead,
    pc,                     \* the part of the function that is next
    it, q, visited,         \* the outer loop's iterator, the queue, the flags
    systemId,               \* the last system so far
    assigned,               \* Node::m_sid
    threadCount

search == <<it, q, visited, systemId, assigned>>
vars == <<channels, m_minLookahead, pc, search, threadCount>>

Init ==
    /\ channels \in [ChannelId -> Channel]
    /\ m_minLookahead \in 0 .. MaxDelay     \* an attribute; 0 when it is not set
    /\ pc = "median"
    /\ it = 0
    /\ q = <<>>
    /\ visited = {}
    /\ systemId = 0
    /\ assigned = [n \in Node |-> 0]
    /\ threadCount = 0

----------------------------------------------------------------------------

\* A set of pairs of numbers as a list: by the first numbers, then by the second.
Before(r, p) == r[1] < p[1] \/ (r[1] = p[1] /\ r[2] < p[2])

InOrder(set) ==
    [k \in 1 .. Cardinality(set) |->
        CHOOSE p \in set : Cardinality({r \in set : Before(r, p)}) = k - 1]

\* The delay and the number of every point-to-point device: each of these
\* channels has two.
Devices ==
    {<<channels[c].delay, 2 * c - e>> : c \in {d \in ChannelId : channels[d].p2p}, e \in {0, 1}}

SortedDelays == [k \in 1 .. Cardinality(Devices) |-> InOrder(Devices)[k][1]]

\* Mutant: the upper quarter instead of the middle.
UpperQuarter ==
    LET delays == SortedDelays
        size == Cardinality(Devices)
    IN  IF size = 0 THEN 0 ELSE delays[(3 * size) \div 4 + 1]

\* delays[i] of the code is delays[i + 1] here.
Median ==
    LET delays == SortedDelays
        size == Cardinality(Devices)
    IN  IF size = 0 THEN 0
        ELSE IF size % 2 = 1 THEN delays[size \div 2 + 1]
        ELSE (delays[size \div 2] + delays[size \div 2 + 1]) \div 2

SetMinLookahead ==
    /\ pc = "median"
    /\ m_minLookahead' = IF m_minLookahead = 0 THEN Median ELSE m_minLookahead
    /\ pc' = "scan"
    /\ UNCHANGED <<channels, search, threadCount>>

\* Mutant: the iterator moves on only after a search.
ScanStuck ==
    /\ pc = "scan"
    /\ it < NodeCount
    /\ IF it \in visited
       THEN UNCHANGED <<q, systemId, pc, it>>
       ELSE /\ q' = Append(q, it)
            /\ systemId' = systemId + 1
            /\ pc' = "bfs"
            /\ it' = it + 1
    /\ UNCHANGED <<channels, m_minLookahead, visited, assigned, threadCount>>

\* The outer loop starts a new system at every node not yet visited.
Scan ==
    /\ pc = "scan"
    /\ it < NodeCount
    /\ IF it \in visited
       THEN UNCHANGED <<q, systemId, pc>>
       ELSE /\ q' = Append(q, it)
            /\ systemId' = systemId + 1
            /\ pc' = "bfs"
    /\ it' = it + 1
    /\ UNCHANGED <<channels, m_minLookahead, visited, assigned, threadCount>>

\* Mutant: links at the threshold are kept.
CutAbove(c) == channels[c].p2p /\ channels[c].delay > m_minLookahead

\* The search does not follow the channel.
Cut(c) == channels[c].p2p /\ channels[c].delay >= m_minLookahead

\* What the search pushes when it has marked node as visited, channel by channel.
Found(node, seen) ==
    {p \in ChannelId \X Node : /\ node \in channels[p[1]].nodes /\ ~ Cut(p[1])
                              /\ p[2] \in channels[p[1]].nodes \ seen}

Pushed(node, seen) ==
    LET found == Found(node, seen)
    IN  [k \in 1 .. Cardinality(found) |-> InOrder(found)[k][2]]

\* Take a node from the queue. A node may be in the queue more than once.
Pop ==
    /\ pc = "bfs"
    /\ q # <<>>
    /\ LET node == Head(q) IN
         /\ visited' = visited \cup {node}
         /\ assigned' = [assigned EXCEPT ![node] = systemId]
         /\ q' = Tail(q) \o Pushed(node, visited')
    /\ UNCHANGED <<channels, m_minLookahead, pc, it, systemId, threadCount>>

Exhausted ==
    /\ pc = "bfs"
    /\ q = <<>>
    /\ pc' = "scan"
    /\ UNCHANGED <<channels, m_minLookahead, search, threadCount>>

\* The system count is known: create the LPs and choose the thread count.
Enable ==
    /\ pc = "scan"
    /\ it = NodeCount
    /\ threadCount' = IF m_maxThreads < systemId THEN m_maxThreads ELSE systemId
    /\ pc' = "done"
    /\ UNCHANGED <<channels, m_minLookahead, search>>

Done == pc = "done" /\ UNCHANGED vars

Next == SetMinLookahead \/ Scan \/ Pop \/ Exhausted \/ Enable \/ Done

Spec == Init /\ [][Next]_vars /\ WF_vars(Next)

----------------------------------------------------------------------------
(* Properties.                                                              *)

TypeOK ==
    /\ channels \in [ChannelId -> Channel]
    /\ m_minLookahead \in 0 .. MaxDelay
    /\ pc \in {"median", "scan", "bfs", "done"}
    /\ it \in 0 .. NodeCount
    /\ q \in Seq(Node)
    /\ visited \subseteq Node
    /\ systemId \in 0 .. NodeCount
    /\ assigned \in [Node -> 0 .. NodeCount]
    /\ threadCount \in 0 .. NodeCount

\* The point-to-point channels that are at least as long as the threshold t.
LongLinks(t) == {c \in ChannelId : channels[c].p2p /\ channels[c].delay >= t}

\* Two nodes are joined by another channel, or connected by a chain of them: every
\* set with the one that is closed under such channels has the other.
Joined(a, b) ==
    \E c \in ChannelId \ LongLinks(m_minLookahead) : {a, b} \subseteq channels[c].nodes

Closed(set) == \A a \in set, b \in Node : Joined(a, b) => b \in set

Connected(a, b) == \A set \in SUBSET Node : a \in set /\ Closed(set) => b \in set

\* Two nodes are in the same LP exactly when such channels connect them, though
\* a node may be queued several times: whatever crosses LPs crosses a
\* point-to-point link with a delay of at least m_minLookahead, and no LP is
\* larger than it has to be. The LPs are numbered without gaps from 1, as the
\* arrays of MtpInterface need it: no node stays in the public LP.
SystemsAreComponents ==
    /\ TypeOK
    /\ pc = "done" =>
         /\ \A a, b \in Node : assigned[a] = assigned[b] <=> Connected(a, b)
         /\ {assigned[n] : n \in Node} = 1 .. systemId

\* At least half of the links are cut when the threshold is the median.
HalfIsCut ==
    [][pc = "median" /\ m_minLookahead = 0 =>
         2 * Cardinality(LongLinks(m_minLookahead')) >= Cardinality(LongLinks(0))]_vars

\* The search ends, although a node is marked only when it leaves the queue and
\* may be queued and expanded again.
Termination == <>(pc = "done")
=============================================================================

------------------------- MODULE MtpPartitionProofs --------------------------
(***************************************************************************)
(* The automatic partition, for every network: the systems are the         *)
(* components that remain when the long point-to-point links are cut, and  *)
(* the median of the delays cuts at least half of these links.             *)
(***************************************************************************)
EXTENDS MtpPartition, FiniteSetTheorems, TLAPS

-----------------------------------------------------------------------------
(* Pairs of numbers in order *)

LEMMA BeforeOrder ==
  ASSUME NEW S \in SUBSET (Nat \X Nat)
  PROVE  /\ \A p \in S : ~ Before(p, p)
         /\ \A p, r, x \in S : Before(x, r) /\ Before(r, p) => Before(x, p)
         /\ \A p, r \in S : p = r \/ Before(p, r) \/ Before(r, p)
  <1>1. \A p \in S : p[1] \in Nat /\ p[2] \in Nat /\ p = <<p[1], p[2]>>
    OBVIOUS
  <1>2. \A p \in S : ~ Before(p, p)
    BY <1>1 DEF Before
  <1>3. \A p, r, x \in S : Before(x, r) /\ Before(r, p) => Before(x, p)
    BY <1>1 DEF Before
  <1>4. ASSUME NEW p \in S, NEW r \in S, ~ Before(p, r), ~ Before(r, p) PROVE p = r
    <2>1. p[1] = r[1] /\ p[2] = r[2]
      BY <1>1, <1>4 DEF Before
    <2> QED BY Zenon, <1>1, <2>1
  <1> QED BY Zenon, <1>2, <1>3, <1>4

\* The number of elements before one, which is its place in the list.
Rank(S, p) == Cardinality({r \in S : Before(r, p)})

LEMMA RankGrows ==
  ASSUME NEW S \in SUBSET (Nat \X Nat), IsFiniteSet(S), NEW p \in S
  PROVE  /\ Rank(S, p) \in Nat /\ Rank(S, p) < Cardinality(S)
         /\ \A r \in S : Before(r, p) => Rank(S, r) < Rank(S, p)
  <1> DEFINE below(x) == {r \in S : Before(r, x)}
  <1>1. ASSUME NEW x \in S
        PROVE  IsFiniteSet(below(x)) /\ Cardinality(below(x)) \in Nat
    <2>1. below(x) \in SUBSET S
      OBVIOUS
    <2> HIDE DEF below
    <2> QED BY <2>1, FS_Subset, FS_CardinalityType
  <1>2. ASSUME NEW T, IsFiniteSet(T), NEW x \in T, NEW U \in SUBSET T, x \notin U
        PROVE  Cardinality(U) < Cardinality(T)
    <2>1. U \in SUBSET (T \ {x})
      BY <1>2
    <2>2. IsFiniteSet(T \ {x}) /\ Cardinality(T \ {x}) = Cardinality(T) - 1
      BY <1>2, FS_RemoveElement
    <2>3. Cardinality(U) <= Cardinality(T \ {x})
      BY <2>1, <2>2, FS_Subset
    <2>4. Cardinality(T) \in Nat /\ Cardinality(U) \in Nat
      BY <1>2, FS_Subset, FS_CardinalityType
    <2> QED BY <2>2, <2>3, <2>4
  <1>3. Cardinality(below(p)) < Cardinality(S)
    <2>1. p \notin below(p) /\ below(p) \in SUBSET S
      BY BeforeOrder
    <2> HIDE DEF below
    <2> QED BY <1>2, <2>1
  <1>4. ASSUME NEW r \in S, Before(r, p)
        PROVE  Cardinality(below(r)) < Cardinality(below(p))
    <2>1. r \in below(p) /\ r \notin below(r) /\ below(r) \in SUBSET below(p)
      BY <1>4, BeforeOrder
    <2>2. IsFiniteSet(below(p))
      BY <1>1
    <2> HIDE DEF below
    <2> QED BY <1>2, <2>1, <2>2
  <1> QED BY <1>1, <1>3, <1>4 DEF Rank

\* Every place is taken.
LEMMA RankOnto ==
  ASSUME NEW S \in SUBSET (Nat \X Nat), IsFiniteSet(S), NEW k \in 1 .. Cardinality(S)
  PROVE  \E p \in S : Rank(S, p) = k - 1
  <1> DEFINE n == Cardinality(S)
             f == [p \in S |-> Rank(S, p)]
             T == 0 .. n - 1
  <1>1. n \in Nat
    BY FS_CardinalityType
  <1>2. IsFiniteSet(T) /\ Cardinality(T) = n
    <2>1. Cardinality(T) = IF 0 > n - 1 THEN 0 ELSE n - 1 - 0 + 1
      BY <1>1, FS_Interval
    <2>2. IsFiniteSet(T)
      BY <1>1, FS_Interval
    <2> QED BY <1>1, <2>1, <2>2
  <1>3. f \in Injection(S, T)
    <2>1. f \in [S -> T]
      <3>1. \A p \in S : Rank(S, p) \in T
        BY <1>1, RankGrows
      <3> HIDE DEF T
      <3> QED BY <3>1
    <2>2. ASSUME NEW p \in S, NEW r \in S, f[p] = f[r] PROVE p = r
      <3>1. Rank(S, p) = Rank(S, r) /\ Rank(S, p) \in Nat /\ Rank(S, r) \in Nat
        BY <2>2, RankGrows
      <3>2. ~ Before(p, r) /\ ~ Before(r, p)
        BY <3>1, RankGrows
      <3> QED BY <3>2, BeforeOrder
    <2> HIDE DEF f, T
    <2> QED BY Zenon, <2>1, <2>2 DEF Injection, IsInjective
  <1>4. f \in Surjection(S, T)
    <2> HIDE DEF f, T, n
    <2>1. Cardinality(S) = Cardinality(T)
      BY <1>2 DEF n
    <2> QED BY <1>2, <1>3, <2>1, FS_Injection
  <1>5. k - 1 \in T
    BY <1>1
  <1>6. PICK p \in S : f[p] = k - 1
    <2> HIDE DEF f, T
    <2> QED BY Zenon, <1>4, <1>5 DEF Surjection
  <1> QED BY <1>6

\* The list has every element of the set at the place of its rank.
LEMMA InOrderLemma ==
  ASSUME NEW S \in SUBSET (Nat \X Nat), IsFiniteSet(S)
  PROVE  /\ Cardinality(S) \in Nat
         /\ \A k \in 1 .. Cardinality(S) : /\ InOrder(S)[k] \in S
                                           /\ Rank(S, InOrder(S)[k]) = k - 1
         /\ \A p \in S : \E k \in 1 .. Cardinality(S) : InOrder(S)[k] = p
  <1>1. Cardinality(S) \in Nat
    BY FS_CardinalityType
  <1>2. ASSUME NEW k \in 1 .. Cardinality(S)
        PROVE  InOrder(S)[k] \in S /\ Rank(S, InOrder(S)[k]) = k - 1
    <2>1. InOrder(S)[k] = CHOOSE p \in S : Rank(S, p) = k - 1
      BY DEF InOrder, Rank
    <2>2. \E p \in S : Rank(S, p) = k - 1
      BY RankOnto
    <2> QED BY <2>1, <2>2
  <1>3. ASSUME NEW p \in S
        PROVE  \E k \in 1 .. Cardinality(S) : InOrder(S)[k] = p
    <2> DEFINE k == Rank(S, p) + 1
    <2>1. Rank(S, p) \in Nat /\ k \in 1 .. Cardinality(S) /\ Rank(S, p) = k - 1
      BY <1>1, RankGrows
    <2> HIDE DEF k
    <2>2. PICK r \in S : r = InOrder(S)[k]
      BY <1>2, <2>1
    <2>3. Rank(S, r) = Rank(S, p)
      BY <1>2, <2>1, <2>2
    <2>4. ~ Before(r, p) /\ ~ Before(p, r)
      BY <2>1, <2>3, RankGrows
    <2>5. p = r
      BY <2>4, BeforeOrder
    <2> QED BY <2>1, <2>2, <2>5
  <1> QED BY <1>1, <1>2, <1>3

-----------------------------------------------------------------------------
(* The network *)

Network == channels \in [ChannelId -> Channel] /\ m_minLookahead \in 0 .. MaxDelay

LEMMA ChannelType ==
  ASSUME Network, NEW c \in ChannelId
  PROVE  /\ channels[c].p2p \in BOOLEAN
         /\ channels[c].nodes \in SUBSET Node
         /\ channels[c].delay \in 0 .. MaxDelay
  <1>1. channels[c] \in Channel
    BY DEF Network
  <1>2. 0 \in 0 .. MaxDelay
    BY PartitionAssumption
  <1> QED BY <1>1, <1>2 DEF Channel

LEMMA NumbersFinite ==
  /\ IsFiniteSet(Node) /\ IsFiniteSet(ChannelId)
  /\ Node \in SUBSET Nat /\ ChannelId \in SUBSET Nat
  BY PartitionAssumption, FS_Interval DEF Node, ChannelId

LEMMA FoundType ==
  ASSUME NEW node, NEW seen
  PROVE  IsFiniteSet(Found(node, seen)) /\ Found(node, seen) \in SUBSET (Nat \X Nat)
  <1>1. IsFiniteSet(ChannelId \X Node)
    BY NumbersFinite, FS_Product
  <1>2. Found(node, seen) \in SUBSET (ChannelId \X Node)
    BY DEF Found
  <1>3. IsFiniteSet(Found(node, seen))
    BY Zenon, <1>1, <1>2, FS_Subset
  <1>4. ChannelId \X Node \subseteq Nat \X Nat
    BY NumbersFinite
  <1> QED BY Zenon, <1>2, <1>3, <1>4

\* The search follows the channels that join nodes.
LEMMA FollowsJoined ==
  ASSUME Network, NEW node \in Node, NEW seen, NEW n \in Node
  PROVE  (\E p \in Found(node, seen) : p[2] = n) <=> n \notin seen /\ Joined(node, n)
  <1>1. \A c \in ChannelId : Cut(c) <=> c \in LongLinks(m_minLookahead)
    BY DEF Cut, LongLinks
  <1>2. ASSUME NEW p \in Found(node, seen), p[2] = n PROVE n \notin seen /\ Joined(node, n)
    BY <1>1, <1>2 DEF Found, Joined
  <1>3. ASSUME n \notin seen, Joined(node, n) PROVE \E p \in Found(node, seen) : p[2] = n
    <2>1. PICK c \in ChannelId \ LongLinks(m_minLookahead) : {node, n} \subseteq channels[c].nodes
      BY <1>3 DEF Joined
    <2>2. <<c, n>> \in Found(node, seen)
      BY <1>1, <1>3, <2>1 DEF Found
    <2> QED BY <2>2
  <1> QED BY <1>2, <1>3

\* What is pushed are the nodes that are joined to the marked one and not seen.
LEMMA PushedLemma ==
  ASSUME Network, NEW node \in Node, NEW seen
  PROVE  /\ Pushed(node, seen) \in Seq(Node)
         /\ \A n \in Node : (\E k \in DOMAIN Pushed(node, seen) : Pushed(node, seen)[k] = n)
                              <=> n \notin seen /\ Joined(node, n)
  <1> DEFINE found == Found(node, seen)
             size == Cardinality(found)
             list == InOrder(found)
             pushed == Pushed(node, seen)
  <1>1. size \in Nat /\ (\A k \in 1 .. size : list[k] \in found)
          /\ (\A p \in found : \E k \in 1 .. size : list[k] = p)
    <2>1. IsFiniteSet(found) /\ found \in SUBSET (Nat \X Nat)
      BY FoundType
    <2> HIDE DEF found
    <2> QED BY <2>1, InOrderLemma
  <1>2. pushed = [k \in 1 .. size |-> list[k][2]]
    BY DEF Pushed
  <1>3. \A p \in found : p[2] \in Node
    BY DEF Found
  <1>4. \A n \in Node : (\E p \in found : p[2] = n) <=> n \notin seen /\ Joined(node, n)
    BY FollowsJoined
  <1> HIDE DEF found, size, list, pushed
  <1>5. \A n \in Node : (\E k \in DOMAIN pushed : pushed[k] = n) <=> \E p \in found : p[2] = n
    BY <1>1, <1>2
  <1>6. pushed \in Seq(Node)
    BY <1>1, <1>2, <1>3
  <1>7. \A n \in Node : (\E k \in DOMAIN pushed : pushed[k] = n) <=> n \notin seen /\ Joined(node, n)
    BY Zenon, <1>4, <1>5
  <1> QED BY Zenon, <1>6, <1>7 DEF pushed

-----------------------------------------------------------------------------
(* Connected nodes *)

LEMMA JoinedSymmetric ==
  ASSUME NEW a, NEW b
  PROVE  Joined(a, b) <=> Joined(b, a)
  BY DEF Joined

LEMMA ConnectedReflexive ==
  ASSUME NEW a PROVE Connected(a, a)
  BY DEF Connected

LEMMA ConnectedTransitive ==
  ASSUME NEW a, NEW b, NEW c, Connected(a, b), Connected(b, c)
  PROVE  Connected(a, c)
  BY DEF Connected

\* The complement of a closed set is closed.
LEMMA ConnectedSymmetric ==
  ASSUME NEW a \in Node, NEW b \in Node, Connected(a, b)
  PROVE  Connected(b, a)
  <1>1. SUFFICES ASSUME NEW set \in SUBSET Node, b \in set, Closed(set), a \notin set PROVE FALSE
    BY DEF Connected
  <1>2. Closed(Node \ set)
    BY <1>1, JoinedSymmetric DEF Closed
  <1>3. a \in Node \ set /\ Node \ set \in SUBSET Node
    BY <1>1
  <1>4. b \in Node \ set
    BY Zenon, <1>2, <1>3 DEF Connected
  <1> QED BY <1>1, <1>4

LEMMA JoinedConnected ==
  ASSUME NEW a \in Node, NEW b \in Node, Joined(a, b)
  PROVE  Connected(a, b)
  BY DEF Connected, Closed

\* The network decides which nodes are connected.
LEMMA Frame ==
  ASSUME UNCHANGED <<channels, m_minLookahead>>, NEW a, NEW b
  PROVE  (Joined(a, b)' <=> Joined(a, b)) /\ (Connected(a, b)' <=> Connected(a, b))
  <1>1. \A x, y : Joined(x, y)' <=> Joined(x, y)
    BY DEF Joined, LongLinks
  <1>2. \A set : Closed(set)' <=> Closed(set)
    BY <1>1 DEF Closed
  <1> QED BY <1>1, <1>2 DEF Connected

-----------------------------------------------------------------------------
(* The search *)

Queued == {q[k] : k \in DOMAIN q}

\* The nodes of the system that is being built.
Current == Queued \cup {n \in visited : assigned[n] = systemId}

QueueInv ==
    /\ pc # "bfs" => q = <<>>
    /\ pc = "median" => visited = {} /\ it = 0 /\ systemId = 0
    /\ pc = "done" => it = NodeCount
    /\ pc = "bfs" => systemId # 0
    /\ systemId <= it
    /\ \A n \in Queued \cap visited : assigned[n] = systemId

\* The systems have the numbers 1 .. systemId, and only the one that is being
\* built may have no node yet.
NumberInv ==
    /\ \A n \in visited : assigned[n] \in 1 .. systemId
    /\ \A k \in 1 .. systemId : \/ \E n \in visited : assigned[n] = k
                                \/ k = systemId /\ Queued # {}

ScanInv == \A n \in Node : n < it => n \in visited \cup Queued

\* A node that is joined to a visited one is in its system or will be.
ClosedInv ==
    \A a \in visited, b \in Node :
        Joined(a, b) => \/ b \in visited /\ assigned[b] = assigned[a]
                        \/ b \in Queued /\ assigned[a] = systemId

ConnectedInv ==
    /\ \A a, b \in visited : assigned[a] = assigned[b] => Connected(a, b)
    /\ \A a, b \in Current : Connected(a, b)

PInv == TypeOK /\ QueueInv /\ NumberInv /\ ScanInv /\ ClosedInv /\ ConnectedInv

LEMMA QueuedEmpty ==
  ASSUME q = <<>> PROVE Queued = {}
  BY DEF Queued

LEMMA QueuedNodes ==
  ASSUME q \in Seq(Node) PROVE Queued \subseteq Node
  BY DEF Queued

LEMMA InitPInv ==
  ASSUME Init PROVE PInv
  <1>1. NodeCount \in Nat
    BY PartitionAssumption
  <1>2. Queued = {}
    BY QueuedEmpty DEF Init
  <1>3. TypeOK
    <2>1. q \in Seq(Node) /\ assigned \in [Node -> 0 .. NodeCount]
      BY <1>1 DEF Init
    <2> QED BY <1>1, <2>1 DEF Init, TypeOK
  <1>4. QueueInv
    BY <1>2 DEF Init, QueueInv
  <1>5. NumberInv /\ ScanInv /\ ClosedInv /\ ConnectedInv
    BY <1>1, <1>2 DEF Init, NumberInv, ScanInv, ClosedInv, ConnectedInv, Current, Node
  <1> QED BY <1>3, <1>4, <1>5 DEF PInv

\* When nothing of the search changes, only pc and the variables after it matter.
LEMMA SearchKept ==
  ASSUME PInv, UNCHANGED search, UNCHANGED <<channels, m_minLookahead>>
  PROVE  /\ Queued' = Queued
         /\ NumberInv' /\ ScanInv' /\ ClosedInv' /\ ConnectedInv'
  <1>1. UNCHANGED <<it, q, visited, systemId, assigned>>
    BY DEF search
  <1>2. Queued' = Queued /\ Current' = Current
    BY <1>1 DEF Queued, Current
  <1>3. \A a, b : (Joined(a, b)' <=> Joined(a, b)) /\ (Connected(a, b)' <=> Connected(a, b))
    BY Frame
  <1>4. NumberInv' /\ ScanInv'
    BY <1>1, <1>2 DEF PInv, NumberInv, ScanInv
  <1>5. ClosedInv' /\ ConnectedInv'
    BY <1>1, <1>2, <1>3 DEF PInv, ClosedInv, ConnectedInv
  <1> QED BY <1>2, <1>4, <1>5

LEMMA ExhaustedInv ==
  ASSUME PInv, Exhausted PROVE PInv'
  <1>1. UNCHANGED search /\ UNCHANGED <<channels, m_minLookahead>>
    BY DEF Exhausted
  <1>2. /\ Queued' = Queued
        /\ NumberInv' /\ ScanInv' /\ ClosedInv' /\ ConnectedInv'
    BY <1>1, SearchKept
  <1>3. TypeOK'
    BY <1>1 DEF PInv, Exhausted, TypeOK, search
  <1>4. QueueInv'
    BY <1>1, <1>2 DEF PInv, Exhausted, QueueInv, search
  <1> QED BY <1>2, <1>3, <1>4 DEF PInv

LEMMA EnableInv ==
  ASSUME PInv, Enable PROVE PInv'
  <1>1. UNCHANGED search /\ UNCHANGED <<channels, m_minLookahead>>
    BY DEF Enable
  <1>2. /\ Queued' = Queued
        /\ NumberInv' /\ ScanInv' /\ ClosedInv' /\ ConnectedInv'
    BY <1>1, SearchKept
  <1>3. TypeOK'
    <2>1. threadCount' \in 0 .. NodeCount
      BY PartitionAssumption DEF PInv, Enable, TypeOK
    <2> QED BY <1>1, <2>1 DEF PInv, Enable, TypeOK, search
  <1>4. QueueInv'
    BY <1>1, <1>2 DEF PInv, Enable, QueueInv, search
  <1> QED BY <1>2, <1>3, <1>4 DEF PInv

LEMMA StutterInv ==
  ASSUME PInv, UNCHANGED vars PROVE PInv'
  <1>1. UNCHANGED search /\ UNCHANGED <<channels, m_minLookahead>>
    BY DEF vars
  <1>2. /\ Queued' = Queued
        /\ NumberInv' /\ ScanInv' /\ ClosedInv' /\ ConnectedInv'
    BY <1>1, SearchKept
  <1>3. TypeOK' /\ QueueInv'
    BY <1>1, <1>2 DEF PInv, TypeOK, QueueInv, search, vars
  <1> QED BY <1>2, <1>3 DEF PInv

\* A new system starts at a node that is not visited.
LEMMA ScanStepInv ==
  ASSUME PInv, Scan PROVE PInv'
  <1>1. UNCHANGED <<channels, m_minLookahead, visited, assigned, threadCount>>
          /\ it' = it + 1 /\ it \in Node /\ NodeCount \in Nat /\ systemId \in 0 .. it
          /\ it < NodeCount /\ q = <<>> /\ Queued = {}
    <2>1. q = <<>>
      BY DEF PInv, QueueInv, Scan
    <2> QED BY <2>1, QueuedEmpty, PartitionAssumption DEF Scan, PInv, TypeOK, QueueInv, Node
  <1>2. \A a, b : (Joined(a, b)' <=> Joined(a, b)) /\ (Connected(a, b)' <=> Connected(a, b))
    BY <1>1, Frame
  <1>3. CASE it \in visited
    <2>1. q' = q /\ systemId' = systemId /\ pc' = pc /\ pc = "scan"
      BY <1>3 DEF Scan
    <2>2. Queued' = Queued /\ Current' = Current
      BY <1>1, <2>1 DEF Queued, Current
    <2>3. TypeOK'
      BY <1>1, <2>1 DEF PInv, TypeOK
    <2>4. QueueInv'
      <3>1. systemId' <= it'
        BY <1>1, <2>1 DEF Node
      <3> QED BY <1>1, <2>1, <2>2, <3>1 DEF QueueInv
    <2>5. NumberInv'
      BY <1>1, <2>1, <2>2 DEF PInv, NumberInv
    <2>6. ScanInv'
      BY <1>1, <1>3, <2>2 DEF PInv, ScanInv, Node
    <2>7. ClosedInv' /\ ConnectedInv'
      BY <1>1, <1>2, <2>1, <2>2 DEF PInv, ClosedInv, ConnectedInv
    <2> QED BY <2>3, <2>4, <2>5, <2>6, <2>7 DEF PInv
  <1>4. CASE it \notin visited
    <2>1. q' = <<it>> /\ systemId' = systemId + 1 /\ pc' = "bfs"
      BY <1>1, <1>4 DEF Scan
    <2>2. Queued' = {it}
      BY <2>1 DEF Queued
    <2>3. \A n \in visited : assigned[n] \in 1 .. systemId
      BY DEF PInv, NumberInv
    <2>4. Current' = {it}
      <3>1. \A n \in visited : assigned[n] # systemId + 1
        BY <1>1, <2>3
      <3> QED BY <1>1, <2>1, <2>2, <3>1 DEF Current
    <2>5. TypeOK'
      <3>1. q' \in Seq(Node) /\ systemId' \in 0 .. NodeCount /\ it' \in 0 .. NodeCount
        BY <1>1, <2>1 DEF Node
      <3> QED BY <1>1, <2>1, <3>1 DEF PInv, TypeOK
    <2>6. QueueInv'
      <3>1. systemId' <= it' /\ systemId' # 0
        BY <1>1, <2>1 DEF Node
      <3>2. \A n \in Queued' \cap visited' : FALSE
        BY <1>1, <1>4, <2>2
      <3> QED BY <2>1, <3>1, <3>2 DEF QueueInv
    <2>7. NumberInv'
      <3>1. \A n \in visited : assigned[n] \in 1 .. systemId + 1
        BY <1>1, <2>3
      <3>2. \A k \in 1 .. systemId : \E n \in visited : assigned[n] = k
        BY <1>1 DEF PInv, NumberInv
      <3>3. \A k \in 1 .. systemId + 1 : k \in 1 .. systemId \/ k = systemId + 1
        BY <1>1
      <3> QED BY <1>1, <2>1, <2>2, <3>1, <3>2, <3>3 DEF NumberInv
    <2>8. ScanInv'
      BY <1>1, <2>2 DEF PInv, ScanInv, Node
    <2>9. ClosedInv'
      BY <1>1, <1>2 DEF PInv, ClosedInv
    <2>10. ConnectedInv'
      BY <1>1, <1>2, <2>4, ConnectedReflexive DEF PInv, ConnectedInv
    <2> QED BY <2>5, <2>6, <2>7, <2>8, <2>9, <2>10 DEF PInv
  <1> QED BY <1>3, <1>4

\* The elements of a queue when its head is taken and others are pushed.
Elements(s) == {s[k] : k \in DOMAIN s}

LEMMA QueueElements ==
  ASSUME NEW S, NEW s \in Seq(S), s # <<>>, NEW p \in Seq(S), NEW t, t = Tail(s) \o p
  PROVE  /\ Elements(t) \subseteq Elements(s) \cup Elements(p)
         /\ Elements(s) \subseteq Elements(t) \cup {Head(s)}
         /\ Elements(p) \subseteq Elements(t)
  <1>1. /\ Len(s) \in Nat /\ Len(s) > 0 /\ Len(p) \in Nat
        /\ DOMAIN s = 1 .. Len(s) /\ DOMAIN p = 1 .. Len(p) /\ Head(s) = s[1]
    OBVIOUS
  <1>2. /\ Tail(s) \in Seq(S) /\ Len(Tail(s)) = Len(s) - 1
        /\ \A k \in 1 .. Len(s) - 1 : Tail(s)[k] = s[k + 1]
    OBVIOUS
  <1>3. /\ DOMAIN t = 1 .. Len(s) - 1 + Len(p)
        /\ \A k \in 1 .. Len(s) - 1 + Len(p) :
             t[k] = IF k <= Len(s) - 1 THEN s[k + 1] ELSE p[k - (Len(s) - 1)]
    BY <1>1, <1>2
  <1>4. ASSUME NEW k \in DOMAIN t
        PROVE  (\E j \in DOMAIN s : s[j] = t[k]) \/ (\E j \in DOMAIN p : p[j] = t[k])
    <2>1. CASE k <= Len(s) - 1
      <3>1. k + 1 \in DOMAIN s /\ t[k] = s[k + 1]
        BY <1>1, <1>3, <2>1
      <3> QED BY <3>1
    <2>2. CASE ~ (k <= Len(s) - 1)
      <3>1. k - (Len(s) - 1) \in DOMAIN p /\ t[k] = p[k - (Len(s) - 1)]
        BY <1>1, <1>3, <2>2
      <3> QED BY <3>1
    <2> QED BY <2>1, <2>2
  <1>5. ASSUME NEW j \in DOMAIN s, j # 1 PROVE \E k \in DOMAIN t : t[k] = s[j]
    <2>1. j - 1 \in DOMAIN t /\ t[j - 1] = s[j]
      BY <1>1, <1>3, <1>5
    <2> QED BY <2>1
  <1>6. ASSUME NEW j \in DOMAIN p PROVE \E k \in DOMAIN t : t[k] = p[j]
    <2>1. j + Len(s) - 1 \in DOMAIN t /\ t[j + Len(s) - 1] = p[j]
      BY <1>1, <1>3
    <2> QED BY <2>1
  <1>7. Elements(t) \subseteq Elements(s) \cup Elements(p)
    BY <1>4 DEF Elements
  <1>8. Elements(s) \subseteq Elements(t) \cup {s[1]}
    <2> SUFFICES ASSUME NEW x \in Elements(s) PROVE x \in Elements(t) \cup {s[1]}
      OBVIOUS
    <2>1. PICK j \in DOMAIN s : s[j] = x
      BY DEF Elements
    <2>2. CASE j # 1
      <3>1. \E k \in DOMAIN t : t[k] = x
        BY Zenon, <1>5, <2>1, <2>2
      <3> QED BY <3>1 DEF Elements
    <2> QED BY <2>1, <2>2
  <1>9. Elements(p) \subseteq Elements(t)
    BY <1>6 DEF Elements
  <1> QED BY <1>1, <1>7, <1>8, <1>9

LEMMA PopQueue ==
  ASSUME PInv, Pop
  PROVE  /\ Head(q) \in Queued /\ Head(q) \in Node /\ q' \in Seq(Node)
         /\ \A x \in Queued : x \in Queued' \/ x = Head(q)
         /\ \A x \in Queued' : x \in Queued \/ (x \in Node \ visited' /\ Joined(Head(q), x))
         /\ \A x \in Node \ visited' : Joined(Head(q), x) => x \in Queued'
  <1> DEFINE n == Head(q)
             pushed == Pushed(n, visited')
  <1>1. Network /\ q \in Seq(Node) /\ q # <<>> /\ q' = Tail(q) \o pushed
    BY DEF PInv, TypeOK, Network, Pop
  <1>2. n \in Node /\ Tail(q) \in Seq(Node) /\ n = q[1] /\ 1 \in DOMAIN q
    BY <1>1
  <1>3. /\ pushed \in Seq(Node)
        /\ \A x \in Node : (\E k \in DOMAIN pushed : pushed[k] = x)
                              <=> x \notin visited' /\ Joined(n, x)
    <2> HIDE DEF n
    <2> QED BY <1>1, <1>2, PushedLemma
  <1> HIDE DEF pushed
  <1>4. q' \in Seq(Node)
    BY <1>1, <1>2, <1>3
  <1>5. n \in Queued
    BY <1>2 DEF Queued
  <1>6. Elements(pushed) = {x \in Node \ visited' : Joined(n, x)}
    BY <1>3 DEF Elements
  <1>7. /\ Queued' \subseteq Queued \cup Elements(pushed)
        /\ Queued \subseteq Queued' \cup {n}
        /\ Elements(pushed) \subseteq Queued'
    <2> DEFINE t == q'
    <2>1. q \in Seq(Node) /\ q # <<>> /\ pushed \in Seq(Node) /\ t = Tail(q) \o pushed
      BY <1>1, <1>3
    <2> HIDE DEF t
    <2>2. /\ Elements(t) \subseteq Elements(q) \cup Elements(pushed)
          /\ Elements(q) \subseteq Elements(t) \cup {Head(q)}
          /\ Elements(pushed) \subseteq Elements(t)
      BY <2>1, QueueElements
    <2>3. Queued = Elements(q) /\ Queued' = Elements(t)
      BY DEF Queued, Elements, t
    <2> QED BY Zenon, <2>2, <2>3
  <1> QED BY <1>2, <1>4, <1>5, <1>6, <1>7

\* The search marks the node and pushes what it is joined to. A node that was
\* queued more than once already has the number of this system.
LEMMA PopInv ==
  ASSUME PInv, Pop PROVE PInv'
  <1> DEFINE n == Head(q)
  <1>1. /\ UNCHANGED <<channels, m_minLookahead, pc, it, systemId, threadCount>>
        /\ visited' = visited \cup {n} /\ assigned' = [assigned EXCEPT ![n] = systemId]
        /\ pc = "bfs"
    BY DEF Pop
  <1>2. /\ systemId # 0 /\ systemId <= it /\ it \in 0 .. NodeCount
        /\ systemId \in 0 .. NodeCount /\ NodeCount \in Nat
        /\ visited \subseteq Node /\ assigned \in [Node -> 0 .. NodeCount]
    BY <1>1, PartitionAssumption DEF PInv, QueueInv, TypeOK
  <1>3. /\ n \in Queued /\ n \in Node /\ q' \in Seq(Node)
        /\ \A x \in Queued : x \in Queued' \/ x = n
        /\ \A x \in Queued' : x \in Queued \/ (x \in Node \ visited' /\ Joined(n, x))
        /\ \A x \in Node \ visited' : Joined(n, x) => x \in Queued'
    BY PopQueue
  <1> HIDE DEF n
  <1>4. \A x \in Queued \cap visited : assigned[x] = systemId
    BY DEF PInv, QueueInv
  <1>5. /\ assigned' \in [Node -> 0 .. NodeCount]
        /\ assigned'[n] = systemId
        /\ \A x \in visited : assigned'[x] = assigned[x]
    BY <1>1, <1>2, <1>3, <1>4
  <1>6. \A a, b : (Joined(a, b)' <=> Joined(a, b)) /\ (Connected(a, b)' <=> Connected(a, b))
    BY <1>1, Frame
  <1>7. TypeOK'
    <2>1. visited' \subseteq Node
      BY <1>1, <1>2, <1>3
    <2> QED BY <1>1, <1>3, <1>5, <2>1 DEF PInv, TypeOK
  <1>8. QueueInv'
    <2>1. \A x \in Queued' \cap visited' : assigned'[x] = systemId
      BY <1>1, <1>3, <1>4, <1>5
    <2> QED BY <1>1, <1>2, <2>1 DEF QueueInv
  <1>9. NumberInv'
    <2>1. \A x \in visited' : assigned'[x] \in 1 .. systemId
      <3>1. \A x \in visited : assigned[x] \in 1 .. systemId
        BY DEF PInv, NumberInv
      <3>2. systemId \in 1 .. systemId
        BY <1>2
      <3> QED BY <1>1, <1>5, <3>1, <3>2
    <2>2. ASSUME NEW k \in 1 .. systemId PROVE \E x \in visited' : assigned'[x] = k
      <3>1. CASE k = systemId
        BY <1>1, <1>5, <3>1
      <3>2. CASE k # systemId
        <4>1. PICK x \in visited : assigned[x] = k
          BY <3>2 DEF PInv, NumberInv
        <4> QED BY <1>1, <1>5, <4>1
      <3> QED BY <3>1, <3>2
    <2> QED BY <1>1, <2>1, <2>2 DEF NumberInv
  <1>10. ScanInv'
    BY <1>1, <1>3 DEF PInv, ScanInv
  <1>11. ASSUME NEW a \in visited', NEW b \in Node, Joined(a, b)
         PROVE  \/ b \in visited' /\ assigned'[b] = assigned'[a]
                \/ b \in Queued' /\ assigned'[a] = systemId
    <2>1. CASE a \in visited
      <3>1. \/ b \in visited /\ assigned[b] = assigned[a]
            \/ b \in Queued /\ assigned[a] = systemId
        BY <1>11, <2>1 DEF PInv, ClosedInv
      <3>2. CASE b \in visited /\ assigned[b] = assigned[a]
        BY <1>1, <1>5, <2>1, <3>2
      <3>3. CASE b \in Queued /\ assigned[a] = systemId
        BY <1>1, <1>3, <1>5, <2>1, <3>3
      <3> QED BY <3>1, <3>2, <3>3
    <2>2. CASE a = n
      <3>1. CASE b \notin visited'
        BY <1>3, <1>5, <1>11, <2>2, <3>1
      <3>2. CASE b = n
        BY <1>1, <2>2, <3>2
      <3>3. CASE b \in visited
        <4>1. Joined(b, n)
          BY Zenon, <1>11, <2>2, JoinedSymmetric
        <4>2. \/ n \in visited /\ assigned[n] = assigned[b]
              \/ assigned[b] = systemId
          BY <1>3, <3>3, <4>1 DEF PInv, ClosedInv
        <4>3. assigned[b] = systemId
          BY <1>3, <1>4, <4>2
        <4> QED BY <1>1, <1>5, <2>2, <3>3, <4>3
      <3> QED BY <1>1, <3>1, <3>2, <3>3
    <2> QED BY <1>1, <2>1, <2>2
  <1>12. ClosedInv'
    BY <1>1, <1>6, <1>11 DEF ClosedInv
  <1>13. ASSUME NEW x \in Current' PROVE x \in Node /\ Connected(n, x)
    <2>1. x \in Current \/ x = n \/ (x \in Node /\ Joined(n, x))
      BY <1>1, <1>3, <1>5 DEF Current
    <2>2. CASE x \in Current
      <3>1. n \in Current /\ x \in Node
        <4>1. Queued \subseteq Node
          BY QueuedNodes DEF PInv, TypeOK
        <4> QED BY <1>2, <1>3, <2>2, <4>1 DEF Current
      <3> QED BY <2>2, <3>1 DEF PInv, ConnectedInv
    <2>3. CASE x = n
      BY <1>3, <2>3, ConnectedReflexive
    <2>4. CASE x \in Node /\ Joined(n, x)
      BY <1>3, <2>4, JoinedConnected
    <2> QED BY <2>1, <2>2, <2>3, <2>4
  <1>14. ASSUME NEW a \in Current', NEW b \in Current' PROVE Connected(a, b)
    <2>1. Connected(a, n) /\ Connected(n, b)
      BY <1>3, <1>13, ConnectedSymmetric
    <2> QED BY Zenon, <2>1, ConnectedTransitive
  <1>15. ASSUME NEW a \in visited', NEW b \in visited', assigned'[a] = assigned'[b]
         PROVE  Connected(a, b)
    <2>1. CASE assigned'[a] = systemId
      <3>1. a \in Current' /\ b \in Current'
        BY <1>1, <1>15, <2>1 DEF Current
      <3> QED BY <1>14, <3>1
    <2>2. CASE assigned'[a] # systemId
      <3>1. a \in visited /\ b \in visited /\ assigned[a] = assigned[b]
        BY <1>1, <1>5, <1>15, <2>2
      <3> QED BY <3>1 DEF PInv, ConnectedInv
    <2> QED BY <2>1, <2>2
  <1>16. ConnectedInv'
    BY <1>6, <1>14, <1>15 DEF ConnectedInv
  <1> QED BY <1>7, <1>8, <1>9, <1>10, <1>12, <1>16 DEF PInv

-----------------------------------------------------------------------------
(* The median of the delays *)

\* The devices of a set of channels, which are twice as many.
DevicesOf(C) == {<<channels[c].delay, 2 * c - e>> : c \in C, e \in {0, 1}}

LEMMA DevicesOfType ==
  ASSUME Network, NEW C \in SUBSET ChannelId
  PROVE  /\ IsFiniteSet(DevicesOf(C)) /\ DevicesOf(C) \in SUBSET (Nat \X Nat)
         /\ \A p \in DevicesOf(C) : p[1] \in 0 .. MaxDelay
         /\ IsFiniteSet(C) /\ Cardinality(C) \in Nat
  <1> DEFINE box == (0 .. MaxDelay) \X (0 .. 2 * ChannelCount)
  <1>1. MaxDelay \in Nat /\ ChannelCount \in Nat
    BY PartitionAssumption
  <1>2. IsFiniteSet(box)
    <2> DEFINE S == 0 .. MaxDelay
               T == 0 .. 2 * ChannelCount
    <2>1. IsFiniteSet(S) /\ IsFiniteSet(T)
      BY <1>1, FS_Interval
    <2> HIDE DEF S, T
    <2>2. IsFiniteSet(S \X T)
      BY <2>1, FS_Product
    <2> QED BY Zenon, <2>2 DEF S, T
  <1>3. ASSUME NEW c \in C, NEW e \in {0, 1} PROVE <<channels[c].delay, 2 * c - e>> \in box
    <2>1. channels[c].delay \in 0 .. MaxDelay
      BY ChannelType
    <2>2. 2 * c - e \in 0 .. 2 * ChannelCount
      BY <1>1 DEF ChannelId
    <2> QED BY Zenon, <2>1, <2>2
  <1>4. box \subseteq Nat \X Nat /\ \A p \in box : p[1] \in 0 .. MaxDelay
    BY <1>1
  <1> HIDE DEF box
  <1>5. DevicesOf(C) \in SUBSET box
    <2>1. ASSUME NEW p \in DevicesOf(C) PROVE p \in box
      <3>1. PICK c \in C, e \in {0, 1} : p = <<channels[c].delay, 2 * c - e>>
        BY DEF DevicesOf
      <3> QED BY Zenon, <1>3, <3>1
    <2> QED BY <2>1
  <1>6. IsFiniteSet(DevicesOf(C))
    BY Zenon, <1>2, <1>5, FS_Subset
  <1>7. IsFiniteSet(C) /\ Cardinality(C) \in Nat
    BY NumbersFinite, FS_Subset, FS_CardinalityType
  <1> QED BY Zenon, <1>4, <1>5, <1>6, <1>7

LEMMA DevicesOfSize ==
  ASSUME Network, NEW C \in SUBSET ChannelId
  PROVE  Cardinality(DevicesOf(C)) = 2 * Cardinality(C)
  <1> DEFINE half(e) == {<<channels[c].delay, 2 * c - e>> : c \in C}
  <1>1. C \subseteq Nat
    BY NumbersFinite
  <1>2. IsFiniteSet(C) /\ Cardinality(C) \in Nat
    BY DevicesOfType
  <1>3. ASSUME NEW e \in {0, 1}
        PROVE  IsFiniteSet(half(e)) /\ Cardinality(half(e)) = Cardinality(C)
    <2> DEFINE T == half(e)
               f == [c \in C |-> <<channels[c].delay, 2 * c - e>>]
    <2>1. f \in [C -> T] /\ \A p \in T : \E c \in C : f[c] = p
      OBVIOUS
    <2>2. ASSUME NEW c \in C, NEW d \in C, f[c] = f[d] PROVE c = d
      <3>1. 2 * c - e = 2 * d - e
        BY <2>2
      <3>2. c \in Nat /\ d \in Nat /\ e \in Nat
        BY <1>1
      <3> QED BY <3>1, <3>2
    <2> HIDE DEF T, f
    <2>3. f \in Surjection(C, T) /\ f \in Injection(C, T)
      BY Zenon, <2>1, <2>2 DEF Surjection, Injection, IsInjective
    <2>4. IsFiniteSet(T) /\ Cardinality(T) = Cardinality(C)
      BY <1>2, <2>3, FS_Surjection
    <2> QED BY Zenon, <2>4 DEF T
  <1>4. DevicesOf(C) = half(0) \cup half(1)
    BY DEF DevicesOf
  <1>5. half(0) \cap half(1) = {}
    <2>1. \A c, d \in C : 2 * c - 0 # 2 * d - 1
      BY <1>1
    <2> QED BY <2>1
  <1> HIDE DEF half
  <1>6. Cardinality(half(0) \cup half(1))
          = Cardinality(half(0)) + Cardinality(half(1)) - Cardinality(half(0) \cap half(1))
    BY <1>3, FS_Union
  <1>7. Cardinality(half(0) \cap half(1)) = 0
    BY Zenon, <1>5, FS_EmptySet
  <1>8. Cardinality(half(0)) = Cardinality(C) /\ Cardinality(half(1)) = Cardinality(C)
    BY <1>3
  <1>9. Cardinality(DevicesOf(C)) = Cardinality(half(0) \cup half(1))
    BY Zenon, <1>4
  <1> QED BY <1>2, <1>6, <1>7, <1>8, <1>9

\* The devices that are at least as long as the threshold.
LEMMA LongDevices ==
  ASSUME Network, NEW t \in Nat
  PROVE  /\ Devices = DevicesOf(LongLinks(0))
         /\ {p \in Devices : p[1] >= t} = DevicesOf(LongLinks(t))
  <1>1. LongLinks(0) = {c \in ChannelId : channels[c].p2p}
    <2>1. \A c \in ChannelId : channels[c].delay >= 0
      BY ChannelType, PartitionAssumption
    <2> QED BY <2>1 DEF LongLinks
  <1>2. Devices = DevicesOf(LongLinks(0))
    BY <1>1 DEF Devices, DevicesOf
  <1>3. ASSUME NEW c \in ChannelId, NEW e \in {0, 1}
        PROVE  <<channels[c].delay, 2 * c - e>>[1] >= t <=> channels[c].delay >= t
    OBVIOUS
  <1>4. {p \in Devices : p[1] >= t} = DevicesOf(LongLinks(t))
    BY <1>3 DEF Devices, DevicesOf, LongLinks
  <1> QED BY <1>2, <1>4

\* The median is a delay between the two in the middle of the list: the devices
\* from the second of these on are half of all.
LEMMA MedianCuts ==
  ASSUME Network
  PROVE  /\ Median \in 0 .. MaxDelay
         /\ 2 * Cardinality(LongLinks(Median)) >= Cardinality(LongLinks(0))
  <1> DEFINE D == Devices
             half == Cardinality(LongLinks(0))
             list == InOrder(D)
             m == Median
  <1>1. MaxDelay \in Nat
    BY PartitionAssumption
  <1>2. \A t : LongLinks(t) \in SUBSET ChannelId
    BY DEF LongLinks
  <1>3. half \in Nat /\ Cardinality(D) = 2 * half /\ IsFiniteSet(D)
          /\ D \in SUBSET (Nat \X Nat) /\ \A p \in D : p[1] \in 0 .. MaxDelay
    BY <1>2, DevicesOfType, DevicesOfSize, LongDevices
  <1>4. \A t \in Nat : Cardinality(LongLinks(t)) \in Nat
    BY <1>2, DevicesOfType
  <1>5. CASE half = 0
    <2>1. m = 0
      BY <1>3, <1>5 DEF Median
    <2> QED BY <1>1, <1>4, <1>5, <2>1
  <1>6. CASE half # 0
    <2> DEFINE y == list[half]
               x == list[half + 1]
    <2>1. half \in 1 .. Cardinality(D) /\ half + 1 \in 1 .. Cardinality(D)
      BY <1>3, <1>6
    <2>2. m = (y[1] + x[1]) \div 2
      <3>1. SortedDelays[half] = y[1] /\ SortedDelays[half + 1] = x[1]
        BY <2>1 DEF SortedDelays
      <3>2. Cardinality(Devices) # 0 /\ Cardinality(Devices) % 2 = 0
              /\ Cardinality(Devices) \div 2 = half
        BY <1>3, <1>6
      <3> HIDE DEF half, x, y
      <3> QED BY <3>1, <3>2 DEF Median
    <2>3. y \in D /\ x \in D /\ Rank(D, y) = half - 1 /\ Rank(D, x) = half + 1 - 1
      <3> HIDE DEF D, half
      <3> QED BY <1>3, <2>1, InOrderLemma
    <2> HIDE DEF D, half, list, m, x, y
    <2>4. x[1] \in 0 .. MaxDelay /\ y[1] \in 0 .. MaxDelay
      BY <1>3, <2>3
    <2>5. ~ Before(x, y)
      <3>1. Before(x, y) => Rank(D, x) < Rank(D, y)
        BY <1>3, <2>3, RankGrows
      <3> QED BY <1>3, <2>3, <3>1
    <2>6. y[1] <= x[1]
      BY <1>1, <2>4, <2>5 DEF Before
    <2>7. m \in 0 .. MaxDelay /\ m <= x[1]
      BY <1>1, <2>2, <2>4, <2>6
    <2> DEFINE below == {r \in D : Before(r, x)}
               above == D \ below
               long == {p \in D : p[1] >= m}
    <2>8. above \in SUBSET long
      <3>1. ASSUME NEW p \in D, ~ Before(p, x) PROVE p[1] >= m
        <4>1. p[1] \in 0 .. MaxDelay /\ ~ (p[1] < x[1])
          BY <1>3, <3>1 DEF Before
        <4> QED BY <1>1, <2>4, <2>7, <4>1
      <3> QED BY <3>1
    <2>9. below \in SUBSET D /\ D \cap below = below /\ long \in SUBSET D
      OBVIOUS
    <2>10. Cardinality(below) = half
      BY <1>3, <2>3 DEF Rank
    <2>11. m \in Nat
      BY <1>1, <2>7
    <2>12. long = DevicesOf(LongLinks(m))
      BY <2>11, LongDevices DEF D
    <2> HIDE DEF below, above, long
    <2>13. Cardinality(above) = Cardinality(D) - Cardinality(below)
      <3>1. Cardinality(D \ below) = Cardinality(D) - Cardinality(D \cap below)
        BY Zenon, <1>3, FS_Difference
      <3> QED BY Zenon, <2>9, <3>1 DEF above
    <2>14. IsFiniteSet(long)
      BY Zenon, <1>3, <2>9, FS_Subset
    <2>15. Cardinality(above) <= Cardinality(long)
      BY <2>8, <2>14, FS_Subset
    <2>16. Cardinality(long) = 2 * Cardinality(LongLinks(m))
      BY <1>2, <2>12, DevicesOfSize
    <2>17. Cardinality(LongLinks(m)) \in Nat
      BY <1>4, <2>11
    <2>18. 2 * Cardinality(LongLinks(m)) >= half
      BY <1>3, <2>10, <2>13, <2>15, <2>16, <2>17
    <2> QED BY Zenon, <2>7, <2>18 DEF m, half
  <1> QED BY <1>5, <1>6

-----------------------------------------------------------------------------
(* The theorems *)

LEMMA SetMinLookaheadInv ==
  ASSUME PInv, SetMinLookahead PROVE PInv'
  <1>1. UNCHANGED <<channels, it, q, visited, systemId, assigned, threadCount>>
          /\ pc = "median" /\ pc' = "scan"
    BY DEF SetMinLookahead, search
  <1>2. m_minLookahead' \in 0 .. MaxDelay
    <2>1. Network
      BY DEF PInv, TypeOK, Network
    <2> QED BY <2>1, MedianCuts DEF SetMinLookahead, Network
  <1>3. visited = {} /\ systemId = 0 /\ it = 0 /\ q = <<>> /\ Queued = {}
    <2>1. q = <<>>
      BY <1>1 DEF PInv, QueueInv
    <2> QED BY <1>1, <2>1, QueuedEmpty DEF PInv, QueueInv
  <1>4. Queued' = {} /\ Current' = {}
    BY <1>1, <1>3 DEF Queued, Current
  <1>5. TypeOK'
    BY <1>1, <1>2 DEF PInv, TypeOK
  <1>6. QueueInv'
    BY <1>1, <1>3, <1>4 DEF QueueInv
  <1>7. NumberInv' /\ ScanInv' /\ ClosedInv' /\ ConnectedInv'
    BY <1>1, <1>3, <1>4 DEF NumberInv, ScanInv, ClosedInv, ConnectedInv, Node
  <1> QED BY <1>5, <1>6, <1>7 DEF PInv

LEMMA NextPInv ==
  ASSUME PInv, [Next]_vars PROVE PInv'
  <1>1. CASE SetMinLookahead
    BY <1>1, SetMinLookaheadInv
  <1>2. CASE Scan
    BY <1>2, ScanStepInv
  <1>3. CASE Pop
    BY <1>3, PopInv
  <1>4. CASE Exhausted
    BY <1>4, ExhaustedInv
  <1>5. CASE Enable
    BY <1>5, EnableInv
  <1>6. CASE Done \/ UNCHANGED vars
    BY <1>6, StutterInv DEF Done
  <1> QED BY <1>1, <1>2, <1>3, <1>4, <1>5, <1>6 DEF Next

\* The queue, the numbers and the marks of Partition fit together in every state:
\* what a visited node is joined to has its number or is still to be visited.
THEOREM Invariance ==
  Spec => []PInv
  <1>1. Init => PInv
    BY InitPInv
  <1>2. PInv /\ [Next]_vars => PInv'
    BY NextPInv
  <1> QED BY <1>1, <1>2, PTL DEF Spec

\* At the end every node is visited, so the nodes of a system are closed.
LEMMA AtTheEnd ==
  ASSUME PInv, pc = "done"
  PROVE  /\ \A a, b \in Node : assigned[a] = assigned[b] <=> Connected(a, b)
         /\ {assigned[n] : n \in Node} = 1 .. systemId
  <1>1. Queued = {}
    <2>1. q = <<>>
      BY DEF PInv, QueueInv
    <2> QED BY <2>1, QueuedEmpty
  <1>2. visited = Node
    <2>1. it = NodeCount /\ NodeCount \in Nat
      BY PartitionAssumption DEF PInv, QueueInv
    <2>2. \A n \in Node : n < it
      BY <2>1 DEF Node
    <2>3. \A n \in Node : n \in visited
      BY <1>1, <2>2 DEF PInv, ScanInv
    <2> QED BY <2>3 DEF PInv, TypeOK
  <1>3. ASSUME NEW a \in Node, NEW b \in Node, assigned[a] = assigned[b]
        PROVE  Connected(a, b)
    BY <1>2, <1>3 DEF PInv, ConnectedInv
  <1>4. ASSUME NEW a \in Node, NEW b \in Node, Connected(a, b)
        PROVE  assigned[a] = assigned[b]
    <2> DEFINE system == {n \in Node : assigned[n] = assigned[a]}
    <2>1. Closed(system)
      <3>1. \A n \in system, x \in Node : Joined(n, x) => assigned[x] = assigned[n]
        BY <1>1, <1>2 DEF PInv, ClosedInv
      <3> QED BY <3>1 DEF Closed
    <2>2. a \in system /\ system \in SUBSET Node
      OBVIOUS
    <2> HIDE DEF system
    <2>3. b \in system
      BY Zenon, <1>4, <2>1, <2>2 DEF Connected
    <2> QED BY <2>3 DEF system
  <1>5. {assigned[n] : n \in Node} = 1 .. systemId
    <2>1. \A n \in Node : assigned[n] \in 1 .. systemId
      BY <1>2 DEF PInv, NumberInv
    <2>2. \A k \in 1 .. systemId : \E n \in Node : assigned[n] = k
      BY <1>1, <1>2 DEF PInv, NumberInv
    <2> QED BY <2>1, <2>2
  <1> QED BY <1>3, <1>4, <1>5

\* Two nodes get the same systemId exactly when channels that are not cut connect
\* them, and the systems have the numbers 1 .. systemId, for every network.
THEOREM Components ==
  Spec => []SystemsAreComponents
  <1>1. PInv => SystemsAreComponents
    BY AtTheEnd DEF PInv, SystemsAreComponents
  <1> QED BY <1>1, Invariance, PTL

\* The threshold that Partition computes itself, the median of the delays of the
\* point-to-point devices, cuts at least half of the point-to-point links.
THEOREM HalfCut ==
  Spec => HalfIsCut
  <1> DEFINE Half == pc = "median" /\ m_minLookahead = 0 =>
               2 * Cardinality(LongLinks(m_minLookahead')) >= Cardinality(LongLinks(0))
  <1>1. ASSUME PInv, Next, pc = "median", m_minLookahead = 0
        PROVE  2 * Cardinality(LongLinks(m_minLookahead')) >= Cardinality(LongLinks(0))
    <2>1. CASE SetMinLookahead
      <3>1. m_minLookahead' = Median
        BY <1>1, <2>1 DEF SetMinLookahead
      <3>2. Network
        BY <1>1 DEF PInv, TypeOK, Network
      <3> QED BY <3>1, <3>2, MedianCuts
    <2>2. CASE Scan \/ Pop \/ Exhausted \/ Enable \/ Done
      BY <1>1, <2>2 DEF Scan, Pop, Exhausted, Enable, Done
    <2> QED BY <1>1, <2>1, <2>2 DEF Next
  <1>2. PInv /\ [Next]_vars => [Half]_vars
    BY <1>1
  <1> QED BY <1>2, Invariance, PTL DEF Spec, HalfIsCut

=============================================================================

------------------------- MODULE SessionStateProofs -------------------------
(***************************************************************************)
(* Proofs about SessionState, for every number of slots, identifiers,      *)
(* messages and queue positions.                                           *)
(***************************************************************************)
EXTENDS SessionView, FiniteSetTheorems, NaturalsInduction,
        WellFoundedInduction, TLAPS

-----------------------------------------------------------------------------
(* Numbers, finite sets and enumerations.                                  *)

\* A set of naturals that is not empty has a least element.
LEMMA LeastExists ==
    ASSUME NEW S \in SUBSET Nat, S # {}
    PROVE  Least(S) \in S /\ \A j \in S : Least(S) <= j
  <1>1. PICK i \in S : \A j \in S : ~(<<j, i>> \in OpToRel(<, Nat))
    BY WFMin, NatLessThanWellFounded, Zenon
  <1>2. \A j \in S : i <= j
    <2> TAKE j \in S
    <2>1. ~(j < i)
      BY <1>1, Zenon DEF OpToRel
    <2> QED
      BY <2>1
  <1> QED
    BY <1>2, Zenon DEF Least

\* Sets of positions and of slots are finite.
LEMMA IntervalSubset ==
    ASSUME NEW n \in Nat, NEW S \in SUBSET (1..n)
    PROVE  IsFiniteSet(S) /\ Cardinality(S) \in Nat /\ Cardinality(S) <= n
  <1>1. IsFiniteSet(1..n) /\ Cardinality(1..n) = n
    BY FS_Interval
  <1> QED
    BY <1>1, FS_Subset, FS_CardinalityType, Zenon

\* An enumeration in increasing order has one element per member.
LEMMA ListsCount ==
    ASSUME NEW K, NEW order \in Seq(Nat), Lists(order, K)
    PROVE  IsFiniteSet(K) /\ Cardinality(K) = Len(order)
  <1> DEFINE n == Len(order)
  <1>1. n \in Nat
    OBVIOUS
  <1>2. \A i, j \in 1..n : order[i] = order[j] => i = j
    BY DEF Lists
  <1>3. order \in Injection(1..n, K) /\ order \in Surjection(1..n, K)
    BY <1>2 DEF Lists, Injection, Surjection, IsInjective
  <1>4. ExistsBijection(1..n, K)
    BY <1>3, Zenon DEF ExistsBijection, Bijection
  <1> QED
    BY <1>1, <1>4, FS_CountingElements, FS_NatBijection

-----------------------------------------------------------------------------
(* The queue.                                                              *)

\* The live items of a queue are finitely many.
LEMMA LiveFinite ==
    ASSUME NEW q \in Seq(Item)
    PROVE  IsFiniteSet(Live(q)) /\ Cardinality(Live(q)) \in Nat
  <1>1. Live(q) \in SUBSET (1..Len(q)) /\ Len(q) \in Nat
    BY DEF Live
  <1> QED
    BY <1>1, IntervalSubset, Zenon

\* advanceQueueHead restores QueueExact whenever nothing live is behind the
\* cursor.
LEMMA AdvanceExact ==
    ASSUME NEW q \in Seq(Item), NEW h \in Nat \ {0}, NEW n,
           n = Cardinality(Live(q)),
           \A i \in Live(q) : i >= h
    PROVE  /\ AdvancedItems(q, n) \in Seq(Item)
           /\ AdvancedHead(q, h, n) \in Nat \ {0}
           /\ Len(AdvancedItems(q, n)) <= Len(q)
           /\ Exact(AdvancedItems(q, n), AdvancedHead(q, h, n), n)
  <1>1. CASE n = 0
    <2>1. Live(<<>>) = {}
      BY DEF Live
    <2>2. Cardinality({}) = 0
      BY FS_EmptySet
    <2>3. AdvancedItems(q, n) = <<>> /\ AdvancedHead(q, h, n) = 1
      BY <1>1, Zenon DEF AdvancedItems, AdvancedHead
    <2>4. <<>> \in Seq(Item) /\ Len(<<>>) <= Len(q)
      OBVIOUS
    <2>5. Exact(<<>>, 1, n)
      BY <1>1, <2>1, <2>2, Zenon DEF Exact
    <2> QED
      BY <2>3, <2>4, <2>5
  <1>2. CASE n # 0
    <2> DEFINE S == {i \in Live(q) : i >= h} \cup {Len(q) + 1}
    <2>1. Live(q) # {}
      BY <1>2, FS_EmptySet, Zenon
    <2>2. Live(q) \subseteq 1..Len(q) /\ Len(q) \in Nat
      BY DEF Live
    <2>3. S \in SUBSET Nat /\ S # {}
      BY <2>2
    <2>4. Least(S) \in S /\ \A j \in S : Least(S) <= j
      BY <2>3, LeastExists, Zenon
    <2>5. Live(q) \subseteq S /\ Len(q) + 1 \notin Live(q)
      BY <2>2
    <2>6. Least(S) \in Live(q) /\ \A j \in Live(q) : Least(S) <= j
      <3>1. PICK k \in Live(q) : TRUE
        BY <2>1, Zenon
      <3>2. k <= Len(q) /\ Least(S) <= k /\ Least(S) \in Nat
        BY <2>2, <2>3, <2>4, <2>5
      <3>3. Least(S) # Len(q) + 1
        BY <3>2, <2>2
      <3> QED
        BY <2>4, <2>5, <3>3, Zenon
    <2>7. AdvancedItems(q, n) = q /\ AdvancedHead(q, h, n) = Least(S)
      BY <1>2, Zenon DEF AdvancedItems, AdvancedHead
    <2>8. Exact(q, Least(S), n)
      BY <2>2, <2>3, <2>6, Zenon DEF Exact
    <2>9. Least(S) \in Nat \ {0}
      BY <2>2, <2>6
    <2> QED
      BY <2>2, <2>7, <2>8, <2>9
  <1> QED
    BY <1>1, <1>2, Zenon

-----------------------------------------------------------------------------
(* The inductive invariant.                                                *)

\* The used slots of a table are finitely many, at most MaxInflight.
LEMMA UsedFinite ==
    ASSUME NEW t \in [Slots -> Inflight \cup {NoEntry}]
    PROVE  IsFiniteSet(Used(t)) /\ Cardinality(Used(t)) \in Nat
           /\ Cardinality(Used(t)) <= MaxInflight
  <1>1. Used(t) \in SUBSET (1..MaxInflight) /\ MaxInflight \in Nat
    BY SessionAssumption DEF Used, Slots
  <1> QED
    BY <1>1, IntervalSubset, Zenon

\* The invariant gives the checked properties.
LEMMA IInvImplies ==
    IInv => /\ TypeOK /\ QueueExact /\ QueueStorageBounded
            /\ PacketIndexExact /\ InflightCountExact /\ StateMatchesQoS
  <1> SUFFICES ASSUME IInv
               PROVE  /\ TypeOK /\ QueueExact /\ QueueStorageBounded
                      /\ PacketIndexExact /\ InflightCountExact
                      /\ StateMatchesQoS
    BY Zenon
  <1>1. QueueExact /\ QueueStorageBounded
    BY Zenon DEF IInv, GoodQueue, Exact, QueueExact, QueueStorageBounded
  <1>2. PacketIndexExact /\ InflightCountExact /\ StateMatchesQoS
    BY Zenon DEF IInv, GoodTable, StatesMatch, PacketIndexExact,
           InflightCountExact, StateMatchesQoS
  <1>3. queued_count \in Nat
    BY LiveFinite, Zenon DEF IInv, GoodQueue, Exact
  <1>4. inflight_count \in Nat
    BY UsedFinite, Zenon DEF IInv, GoodTable
  <1>5. TypeOK
    BY <1>3, <1>4, Zenon DEF IInv, GoodQueue, GoodTable, TypeOK, Item
  <1> QED
    BY <1>1, <1>2, <1>5, Zenon

-----------------------------------------------------------------------------
(* pruneExpiredPublishes.                                                  *)

\* pruneExpiredPublishes turns live items into tombstones and moves none.
LEMMA PrunedItemsFacts ==
    ASSUME IInv
    PROVE  /\ PrunedItems \in Seq(Item)
           /\ Len(PrunedItems) = Len(queued)
           /\ Live(PrunedItems) = Live(queued) \ ExpiredItems
           /\ PrunedQueuedCount = Cardinality(Live(PrunedItems))
           /\ \A i \in Live(PrunedItems) : i >= queued_head
  <1>1. /\ queued \in Seq(Item) /\ Len(queued) \in Nat
        /\ queued_count = Cardinality(Live(queued))
        /\ \A i \in Live(queued) : i >= queued_head
    BY DEF IInv, GoodQueue, Exact
  <1>2. PrunedItems \in Seq(Item) /\ Len(PrunedItems) = Len(queued)
    BY <1>1 DEF PrunedItems, Item
  <1>3. Live(PrunedItems) = Live(queued) \ ExpiredItems
    BY <1>1, <1>2, Zenon DEF PrunedItems, Live, ExpiredItems
  <1>4. ExpiredItems \subseteq Live(queued)
    BY Zenon DEF ExpiredItems
  <1>5. Cardinality(Live(queued) \ ExpiredItems)
          = Cardinality(Live(queued)) - Cardinality(Live(queued) \cap ExpiredItems)
    BY <1>1, LiveFinite, FS_Difference, Zenon
  <1>6. Live(queued) \cap ExpiredItems = ExpiredItems
    BY <1>4, Zenon
  <1> QED
    BY <1>1, <1>2, <1>3, <1>5, <1>6, Zenon DEF PrunedQueuedCount

\* pruneExpiredPublishes keeps the queue's cursor and counter exact.
LEMMA PrunedQueueGood ==
    ASSUME IInv
    PROVE  GoodQueue(PrunedQueue, PrunedHead, PrunedQueuedCount)
  <1>1. queued_head \in Nat \ {0} /\ Len(queued) <= MaxQueued
        /\ Len(queued) \in Nat /\ MaxQueued \in Nat
    BY SessionAssumption DEF IInv, GoodQueue
  <1>2. /\ PrunedQueue \in Seq(Item)
        /\ PrunedHead \in Nat \ {0}
        /\ Len(PrunedQueue) <= Len(queued)
        /\ Exact(PrunedQueue, PrunedHead, PrunedQueuedCount)
    BY <1>1, PrunedItemsFacts, AdvanceExact, Zenon DEF PrunedQueue, PrunedHead
  <1> QED
    BY <1>1, <1>2 DEF GoodQueue

\* pruneExpiredPublishes keeps the inflight table, index and counter exact.
LEMMA PrunedTableGood ==
    ASSUME IInv
    PROVE  GoodTable(PrunedInflight, PrunedIndex, PrunedCount)
  <1> DEFINE P == {s \in Slots : Prunable(s)}
  <1>1. GoodTable(inflight, packet_index, inflight_count)
    BY Zenon DEF IInv
  <1>2. PrunedInflight \in [Slots -> Inflight \cup {NoEntry}]
    BY <1>1, Zenon DEF GoodTable, PrunedInflight
  <1>3. PrunedIndex \in [PacketIds -> Slots \cup {NoSlot}]
    BY <1>1, Zenon DEF GoodTable, PrunedIndex
  <1>4. IndexExact(PrunedInflight, PrunedIndex)
    <2> SUFFICES ASSUME NEW p \in PacketIds, NEW s \in Slots
                 PROVE  PrunedIndex[p] = s
                          <=> PrunedInflight[s] # NoEntry
                              /\ PrunedInflight[s].packet_id = p
      BY Zenon DEF IndexExact
    <2>1. packet_index[p] = s
            <=> inflight[s] # NoEntry /\ inflight[s].packet_id = p
      BY <1>1, Zenon DEF GoodTable, IndexExact
    <2>2. NoSlot \notin Slots
      BY SessionAssumption, Zenon DEF Slots
    <2> QED
      BY <2>1, <2>2, Zenon DEF PrunedIndex, PrunedInflight
  <1>5. Used(PrunedInflight) = Used(inflight) \ P /\ P \subseteq Used(inflight)
    BY <1>1, <1>2, Zenon DEF GoodTable, Used, PrunedInflight, Prunable
  <1>6. PrunedCount = Cardinality(Used(PrunedInflight))
    <2>1. Cardinality(Used(inflight) \ P)
            = Cardinality(Used(inflight)) - Cardinality(Used(inflight) \cap P)
      BY <1>1, UsedFinite, FS_Difference, Zenon DEF GoodTable
    <2>2. Used(inflight) \cap P = P
      BY <1>5, Zenon
    <2> QED
      BY <1>1, <1>5, <2>1, <2>2, Zenon DEF GoodTable, PrunedCount
  <1>7. StatesMatch(PrunedInflight)
    BY <1>1, <1>5, Zenon DEF GoodTable, StatesMatch, PrunedInflight, Used
  <1> QED
    BY <1>2, <1>3, <1>4, <1>6, <1>7, Zenon DEF GoodTable

-----------------------------------------------------------------------------
(* Changes of the inflight table.                                          *)

\* removeInflight, whatever the reason for it.
LEMMA RemoveGood ==
    ASSUME IInv, NEW p \in PacketIds, packet_index[p] # NoSlot,
           RemoveInflight(packet_index[p])
    PROVE  IInv'
  <1> DEFINE s == packet_index[p]
  <1>1. GoodTable(inflight, packet_index, inflight_count)
    BY Zenon DEF IInv
  <1>2. s \in Slots /\ inflight[s] # NoEntry /\ inflight[s].packet_id = p
    BY <1>1, Zenon DEF GoodTable, IndexExact
  <1>3. /\ inflight' = [inflight EXCEPT ![s] = NoEntry]
        /\ packet_index' = [packet_index EXCEPT ![p] = NoSlot]
        /\ inflight_count' = inflight_count - 1
    BY <1>2, Zenon DEF RemoveInflight
  <1>4. inflight' \in [Slots -> Inflight \cup {NoEntry}]
    BY <1>1, <1>3, Zenon DEF GoodTable
  <1>5. packet_index' \in [PacketIds -> Slots \cup {NoSlot}]
    BY <1>1, <1>3, Zenon DEF GoodTable
  <1>6. IndexExact(inflight', packet_index')
    <2> SUFFICES ASSUME NEW q \in PacketIds, NEW t \in Slots
                 PROVE  packet_index'[q] = t
                          <=> inflight'[t] # NoEntry
                              /\ inflight'[t].packet_id = q
      BY Zenon DEF IndexExact
    <2>1. packet_index[q] = t
            <=> inflight[t] # NoEntry /\ inflight[t].packet_id = q
      BY <1>1, Zenon DEF GoodTable, IndexExact
    <2>2. NoSlot \notin Slots
      BY SessionAssumption, Zenon DEF Slots
    <2>3. CASE t = s
      BY <1>1, <1>2, <1>3, <2>1, <2>2, <2>3, Zenon DEF GoodTable
    <2>4. CASE t # s
      BY <1>1, <1>2, <1>3, <2>1, <2>2, <2>4, Zenon DEF GoodTable
    <2> QED
      BY <2>3, <2>4, Zenon
  <1>7. Used(inflight') = Used(inflight) \ {s} /\ s \in Used(inflight)
    BY <1>1, <1>2, <1>3, Zenon DEF GoodTable, Used
  <1>8. inflight_count' = Cardinality(Used(inflight'))
    BY <1>1, <1>3, <1>7, UsedFinite, FS_RemoveElement, Zenon DEF GoodTable
  <1>9. StatesMatch(inflight')
    BY <1>1, <1>3, <1>7, Zenon DEF GoodTable, StatesMatch, Used
  <1>10. GoodTable(inflight', packet_index', inflight_count')
    BY <1>4, <1>5, <1>6, <1>8, <1>9, Zenon DEF GoodTable
  <1> QED
    BY <1>10, Zenon DEF IInv, RemoveInflight, queueVars

\* Marking entries, for transmission or for another state of the same QoS,
\* leaves the table good.
LEMMA MarkGood ==
    ASSUME NEW t, NEW x, NEW n, GoodTable(t, x, n),
           NEW u \in [Slots -> Inflight \cup {NoEntry}],
           \A s \in Slots : t[s] = NoEntry <=> u[s] = NoEntry,
           \A s \in Slots : u[s] # NoEntry =>
              /\ u[s].packet_id = t[s].packet_id
              /\ u[s].publish = t[s].publish
              /\ u[s].state = "await_puback" <=> t[s].state = "await_puback"
    PROVE  GoodTable(u, x, n)
  <1>1. Used(u) = Used(t)
    BY Zenon DEF Used, GoodTable
  <1>2. IndexExact(u, x)
    BY DEF GoodTable, IndexExact
  <1>3. StatesMatch(u)
    BY <1>1, Zenon DEF GoodTable, StatesMatch, Used
  <1> QED
    BY <1>1, <1>2, <1>3, Zenon DEF GoodTable

\* drainInto: a free identifier and a free slot are joined.
LEMMA AddGood ==
    ASSUME NEW t, NEW x, NEW n, GoodTable(t, x, n),
           NEW s \in Slots, t[s] = NoEntry,
           NEW p \in PacketIds, x[p] = NoSlot,
           NEW e \in Inflight, e.packet_id = p,
           e.state = "await_puback" <=> e.publish \notin QoS2Messages
    PROVE  GoodTable([t EXCEPT ![s] = e], [x EXCEPT ![p] = s], n + 1)
  <1> DEFINE u == [t EXCEPT ![s] = e]
             y == [x EXCEPT ![p] = s]
  <1>0. e # NoEntry /\ NoSlot \notin Slots
    BY NoEntryAssumption, SessionAssumption, Zenon DEF Slots
  <1>1. u \in [Slots -> Inflight \cup {NoEntry}]
        /\ y \in [PacketIds -> Slots \cup {NoSlot}]
    BY Zenon DEF GoodTable
  <1>2. IndexExact(u, y)
    <2> SUFFICES ASSUME NEW q \in PacketIds, NEW r \in Slots
                 PROVE  y[q] = r <=> u[r] # NoEntry /\ u[r].packet_id = q
      BY Zenon DEF IndexExact
    <2>1. x[q] = r <=> t[r] # NoEntry /\ t[r].packet_id = q
      BY Zenon DEF GoodTable, IndexExact
    <2>2. x[p] = r <=> t[r] # NoEntry /\ t[r].packet_id = p
      BY DEF GoodTable, IndexExact
    <2>3. x[q] = s <=> t[s] # NoEntry /\ t[s].packet_id = q
      BY Zenon DEF GoodTable, IndexExact
    <2>4. CASE r = s
      BY <1>0, <2>1, <2>3, <2>4, Zenon DEF GoodTable
    <2>5. CASE r # s
      BY <1>0, <2>1, <2>2, <2>5, Zenon DEF GoodTable
    <2> QED
      BY <2>4, <2>5, Zenon
  <1>3. Used(u) = Used(t) \cup {s} /\ s \notin Used(t)
    BY <1>0, <1>1 DEF GoodTable, Used
  <1>4. n + 1 = Cardinality(Used(u))
    BY <1>3, UsedFinite, FS_AddElement, Zenon DEF GoodTable
  <1>5. StatesMatch(u)
    BY <1>0, <1>1, <1>3, Zenon DEF GoodTable, StatesMatch, Used
  <1> HIDE DEF u, y
  <1>6. GoodTable(u, y, n + 1)
    BY <1>1, <1>2, <1>4, <1>5, Zenon DEF GoodTable
  <1> QED
    BY <1>6, Zenon DEF u, y

\* A new Session's queue and table are consistent.
LEMMA FreshGood ==
    /\ GoodQueue(<<>>, 1, 0)
    /\ GoodTable([s \in Slots |-> NoEntry], [p \in PacketIds |-> NoSlot], 0)
    /\ 1 \in PacketIds
  <1> DEFINE t == [s \in Slots |-> NoEntry]
             x == [p \in PacketIds |-> NoSlot]
  <1>1. Live(<<>>) = {} /\ Used(t) = {} /\ Cardinality({}) = 0
    BY FS_EmptySet DEF Live, Used
  <1>2. GoodQueue(<<>>, 1, 0)
    <2>1. <<>> \in Seq(Item) /\ Len(<<>>) = 0
      OBVIOUS
    <2>2. Exact(<<>>, 1, 0)
      BY <1>1, Zenon DEF Exact
    <2> QED
      BY <2>1, <2>2, SessionAssumption DEF GoodQueue
  <1>3. NoSlot \notin Slots
    BY SessionAssumption, Zenon DEF Slots
  <1>4. IndexExact(t, x)
    BY <1>3, Zenon DEF IndexExact
  <1>5. GoodTable(t, x, 0)
    BY <1>1, <1>4, Zenon DEF GoodTable, StatesMatch
  <1> QED
    BY <1>2, <1>5, SessionAssumption DEF PacketIds

-----------------------------------------------------------------------------
(* The actions.                                                            *)

\* The invariant holds of a new Session.
LEMMA InitGood == Init => IInv
  BY FreshGood, Zenon DEF Init, Fresh, IInv

\* open with Clean Start keeps the invariant.
LEMMA OpenCleanGood == IInv /\ OpenClean => IInv'
  BY FreshGood, Zenon DEF OpenClean, Fresh, IInv

\* Marking every transaction for retransmission keeps the table consistent.
LEMMA RetransmitGood ==
    ASSUME IInv
    PROVE  GoodTable(AllToRetransmit, packet_index, inflight_count)
  <1>1. inflight \in [Slots -> Inflight \cup {NoEntry}] /\ NoEntry \notin Inflight
    BY NoEntryAssumption, Zenon DEF IInv, GoodTable
  <1>2. AllToRetransmit \in [Slots -> Inflight \cup {NoEntry}]
    BY <1>1, Zenon DEF AllToRetransmit, Inflight
  <1>3. \A s \in Slots :
          /\ inflight[s] = NoEntry <=> AllToRetransmit[s] = NoEntry
          /\ AllToRetransmit[s] # NoEntry =>
               /\ AllToRetransmit[s].packet_id = inflight[s].packet_id
               /\ AllToRetransmit[s].publish = inflight[s].publish
               /\ AllToRetransmit[s].state = inflight[s].state
    <2> TAKE s \in Slots
    <2>1. CASE inflight[s] = NoEntry
      BY <2>1, Zenon DEF AllToRetransmit
    <2>2. CASE inflight[s] # NoEntry
      <3>1. inflight[s] \in Inflight
        BY <1>1, <2>2, Zenon
      <3>2. AllToRetransmit[s] = [inflight[s] EXCEPT !.needs_send = TRUE,
                                                     !.retransmission = TRUE]
        BY <2>2, Zenon DEF AllToRetransmit
      <3>3. AllToRetransmit[s] \in Inflight
        BY <3>1, <3>2, Zenon DEF Inflight
      <3> QED
        BY <1>1, <2>2, <3>1, <3>2, <3>3, Zenon DEF Inflight
    <2> QED
      BY <2>1, <2>2, Zenon
  <1>4. GoodTable(inflight, packet_index, inflight_count)
    BY Zenon DEF IInv
  <1> HIDE DEF AllToRetransmit
  <1> QED
    BY <1>2, <1>3, <1>4, MarkGood, Zenon

\* Resuming and disconnecting keep the invariant.
LEMMA ConnectionGood == IInv /\ (OpenResume \/ Disconnect) => IInv'
  BY RetransmitGood, Zenon DEF OpenResume, Disconnect, IInv, queueVars

\* The passing of time changes no table.
LEMMA ExpiresGood ==
    ASSUME IInv, NEW m \in Messages, MessageExpires(m) PROVE IInv'
  BY Zenon DEF MessageExpires, IInv, queueVars, inflightVars

\* Appending to a list with room keeps the queue exact.
LEMMA AppendGood ==
    ASSUME NEW q \in Seq(Item), NEW h \in Nat \ {0}, NEW n, Exact(q, h, n),
           NEW m \in Messages, n # 0, Len(q) < MaxQueued
    PROVE  GoodQueue(Append(q, m), h, n + 1)
  <1> DEFINE r == Append(q, m)
             k == Len(q) + 1
  <1>1. r \in Seq(Item) /\ Len(r) = k /\ Len(q) \in Nat
    BY DEF Item
  <1>2. r[k] = m /\ m # NoMessage /\ \A i \in 1..Len(q) : r[i] = q[i]
    BY SessionAssumption
  <1>3. Live(r) = Live(q) \cup {k} /\ k \notin Live(q)
    BY <1>1, <1>2 DEF Live
  <1>4. Cardinality(Live(r)) = n + 1
    <2>1. IsFiniteSet(Live(q)) /\ Cardinality(Live(q)) = n
      BY LiveFinite, Zenon DEF Exact
    <2> HIDE DEF k, r
    <2> QED
      BY <1>3, <2>1, FS_AddElement, Zenon
  <1>5. h \in Live(q) /\ h <= Len(q)
    BY DEF Exact, Live
  <1>6. \A i \in Live(r) : i >= h
    BY <1>1, <1>3, <1>5 DEF Exact
  <1>7. Exact(r, h, n + 1)
    BY <1>3, <1>4, <1>5, <1>6, Zenon DEF Exact
  <1>8. Len(r) <= MaxQueued
    BY <1>1, SessionAssumption
  <1> QED
    BY <1>1, <1>7, <1>8, Zenon DEF GoodQueue

\* compactQueue: an enumeration of the live positions, in order, is a list
\* of live publications.
LEMMA CompactGood ==
    ASSUME NEW q \in Seq(Item), NEW K \in SUBSET Live(q),
           NEW order \in Seq(Nat), Lists(order, K)
    PROVE  LET r == [i \in 1..Len(order) |-> q[order[i]]] IN
           /\ r \in Seq(Item)
           /\ Len(r) = Cardinality(K)
           /\ Live(r) = 1..Len(r)
           /\ Exact(r, 1, Cardinality(K))
  <1> DEFINE r == [i \in 1..Len(order) |-> q[order[i]]]
  <1>1. Len(order) = Cardinality(K) /\ Len(order) \in Nat
    BY ListsCount
  <1>2. \A i \in 1..Len(order) : order[i] \in Live(q)
    BY Zenon DEF Lists
  <1>3. \A i \in 1..Len(order) : r[i] \in Item /\ r[i] # NoMessage
    BY <1>2 DEF Live
  <1>4. r \in Seq(Item) /\ Len(r) = Len(order)
    <2> DEFINE n == Len(order)
    <2>1. n \in Nat /\ r \in [1..n -> Item]
      BY <1>1, <1>3, Zenon
    <2> HIDE DEF n, r
    <2>2. r \in Seq(Item) /\ Len(r) = n
      BY <2>1
    <2> QED
      BY <2>2, Zenon DEF n
  <1>5. Live(r) = 1..Len(r)
    BY <1>3, <1>4, Zenon DEF Live
  <1>6. Cardinality(Live(r)) = Len(order)
    BY <1>1, <1>4, <1>5, FS_Interval
  <1>7. Exact(r, 1, Cardinality(K))
    <2> HIDE DEF r
    <2>1. \A i \in Live(r) : i >= 1
      BY <1>4, <1>5
    <2>2. Cardinality(K) # 0 => 1 \in Live(r)
      BY <1>1, <1>4, <1>5
    <2> QED
      BY <1>1, <1>6, <2>1, <2>2, Zenon DEF Exact
  <1> QED
    BY <1>1, <1>4, <1>5, <1>7, Zenon

\* An order of items or slots is a sequence of numbers.
LEMMA OrdersSeq ==
    ASSUME NEW n \in Nat, NEW order \in Orders(n)
    PROVE  order \in Seq(Nat)
  <1>1. PICK k \in 0..n : order \in [1..k -> 1..n]
    BY Zenon DEF Orders
  <1>2. k \in Nat /\ order \in [1..k -> Nat]
    BY <1>1
  <1> QED
    BY <1>2

\* enqueuePublish keeps the invariant.
LEMMA EnqueueGood ==
    ASSUME IInv, NEW m \in Messages, NEW order \in Seq(Nat),
           EnqueuePublish(m, order)
    PROVE  IInv'
  <1>1. GoodQueue(queued, queued_head, queued_count)
    BY Zenon DEF IInv
  <1>2. queued_count \in Nat /\ queued_count' = queued_count + 1
        /\ queued_count < MaxQueued /\ MaxQueued \in Nat
    BY <1>1, LiveFinite, SessionAssumption, Zenon DEF GoodQueue, Exact, EnqueuePublish
  <1>3. GoodQueue(queued', queued_head', queued_count')
    <2>1. CASE queued_count = 0 /\ queued' = <<m>> /\ queued_head' = 1
      <3>1. <<m>> \in Seq(Item) /\ Len(<<m>>) = 1 /\ m # NoMessage
        BY SessionAssumption DEF Item
      <3>2. Live(<<m>>) = {1}
        BY <3>1 DEF Live
      <3>3. Cardinality({1}) = 1
        BY FS_Singleton, Zenon
      <3>4. Exact(<<m>>, 1, 1)
        <4> DEFINE z == <<m>>
        <4>1. Live(z) = {1}
          BY <3>2, Zenon
        <4> HIDE DEF z
        <4>2. Exact(z, 1, 1)
          BY <3>3, <4>1 DEF Exact
        <4> QED
          BY <4>2, Zenon DEF z
      <3>5. GoodQueue(<<m>>, 1, 1)
        BY <1>2, <3>1, <3>4 DEF GoodQueue
      <3> QED
        BY <1>2, <2>1, <3>5
    <2>2. CASE /\ NeedsCompaction
               /\ Lists(order, {i \in Live(queued) : i >= queued_head})
               /\ queued' = Append([i \in 1..Len(order) |-> queued[order[i]]], m)
               /\ queued_head' = 1
      <3> DEFINE r == [i \in 1..Len(order) |-> queued[order[i]]]
      <3>1. {i \in Live(queued) : i >= queued_head} = Live(queued)
        BY <1>1, Zenon DEF GoodQueue, Exact
      <3>2. /\ r \in Seq(Item)
            /\ Len(r) = queued_count
            /\ Exact(r, 1, queued_count)
        <4>1. queued \in Seq(Item) /\ queued_count = Cardinality(Live(queued))
          BY <1>1, Zenon DEF GoodQueue, Exact
        <4>2. Lists(order, Live(queued)) /\ Live(queued) \in SUBSET Live(queued)
          BY <2>2, <3>1, Zenon
        <4> QED
          BY <4>1, <4>2, CompactGood, Zenon
      <3>3. queued_count # 0
        BY <2>2, Zenon DEF NeedsCompaction
      <3> HIDE DEF r
      <3>4. GoodQueue(Append(r, m), 1, queued_count + 1)
        BY <1>2, <3>2, <3>3, AppendGood
      <3> QED
        BY <1>2, <2>2, <3>4, Zenon DEF r
    <2>3. CASE /\ queued_count # 0
               /\ ~NeedsCompaction
               /\ queued' = Append(queued, m)
               /\ UNCHANGED queued_head
      <3>1. Len(queued) < MaxQueued /\ queued \in Seq(Item)
            /\ queued_head \in Nat \ {0}
            /\ Exact(queued, queued_head, queued_count)
        BY <1>1, <1>2, <2>3 DEF GoodQueue, NeedsCompaction
      <3>2. GoodQueue(Append(queued, m), queued_head, queued_count + 1)
        BY <2>3, <3>1, AppendGood, Zenon
      <3> QED
        BY <1>2, <2>3, <3>2, Zenon
    <2> QED
      BY <2>1, <2>2, <2>3, Zenon DEF EnqueuePublish
  <1> QED
    BY <1>3, Zenon DEF IInv, EnqueuePublish, inflightVars

\* A drain that finds nothing to send keeps the invariant.
LEMMA PruneOnlyGood == IInv /\ PruneOnly => IInv'
  BY PrunedQueueGood, PrunedTableGood, Zenon DEF PruneOnly, PruneQueue, IInv

\* A drain that retransmits keeps the invariant.
LEMMA ResendGood ==
    ASSUME IInv, NEW r, NEW s \in Slots, DrainResend(r, s)
    PROVE  IInv'
  <1> DEFINE t == PrunedInflight
             u == [t EXCEPT ![s].needs_send = FALSE]
  <1>1. GoodQueue(queued', queued_head', queued_count')
    BY PrunedQueueGood, Zenon DEF DrainResend, PruneQueue
  <1>2. GoodTable(t, PrunedIndex, PrunedCount)
    BY PrunedTableGood, Zenon
  <1>3. t \in [Slots -> Inflight \cup {NoEntry}] /\ t[s] # NoEntry
        /\ NoEntry \notin Inflight
    BY <1>2, NoEntryAssumption, Zenon
    DEF GoodTable, DrainResend, IsFirst, Resendable, Used
  <1>4. inflight' = u
    BY Zenon DEF DrainResend
  <1> HIDE DEF t
  <1>5. u[s] \in Inflight /\ u[s].packet_id = t[s].packet_id
        /\ u[s].publish = t[s].publish /\ u[s].state = t[s].state
    BY <1>3, Zenon DEF Inflight
  <1>6. \A q \in Slots : q # s => u[q] = t[q]
    BY <1>3, Zenon
  <1>7. u \in [Slots -> Inflight \cup {NoEntry}]
    BY <1>3, <1>5, Zenon
  <1> HIDE DEF u
  <1>8. GoodTable(u, PrunedIndex, PrunedCount)
    BY <1>2, <1>3, <1>5, <1>6, <1>7, MarkGood
  <1> QED
    BY <1>1, <1>4, <1>8, Zenon DEF DrainResend, IInv

\* A drain that gives a queued item an identifier and a slot keeps the invariant.
LEMMA PromoteGood ==
    ASSUME IInv, NEW r, NEW s \in Slots, NEW p \in PacketIds,
           DrainPromote(r, s, p)
    PROVE  IInv'
  <1> DEFINE q == PrunedQueue
             h == PrunedHead
             n == PrunedQueuedCount
             m == q[h]
             e == [publish |-> m, packet_id |-> p, state |-> FirstState(m),
                   needs_send |-> FALSE, retransmission |-> FALSE]
  <1>1. GoodQueue(q, h, n) /\ n # 0
    BY PrunedQueueGood, Zenon DEF DrainPromote, CanPromote
  <1>2. q \in Seq(Item) /\ h \in Live(q) /\ n \in Nat /\ h \in 1..Len(q)
        /\ Len(q) \in Nat
    <2>1. q \in Seq(Item) /\ h \in Live(q) /\ n = Cardinality(Live(q))
      BY <1>1, Zenon DEF GoodQueue, Exact
    <2>2. n \in Nat
      BY <2>1, LiveFinite, Zenon
    <2>3. h \in 1..Len(q)
      BY <2>1, Zenon DEF Live
    <2> QED
      BY <2>1, <2>2, <2>3
  <1>3. m \in Messages
    BY <1>2 DEF Live, Item
  <1>4. TakenItems \in Seq(Item) /\ Len(TakenItems) = Len(q)
        /\ Live(TakenItems) = Live(q) \ {h}
    BY <1>2 DEF TakenItems, Live, Item
  <1>5. n - 1 = Cardinality(Live(TakenItems))
    BY <1>1, <1>2, <1>4, LiveFinite, FS_RemoveElement, Zenon DEF GoodQueue, Exact
  <1>6. h + 1 \in Nat \ {0} /\ \A i \in Live(TakenItems) : i >= h + 1
    BY <1>1, <1>2, <1>4 DEF GoodQueue, Exact, Live
  <1>7. /\ AdvancedItems(TakenItems, n - 1) \in Seq(Item)
        /\ AdvancedHead(TakenItems, h + 1, n - 1) \in Nat \ {0}
        /\ Len(AdvancedItems(TakenItems, n - 1)) <= Len(q)
        /\ Exact(AdvancedItems(TakenItems, n - 1),
                 AdvancedHead(TakenItems, h + 1, n - 1), n - 1)
    BY <1>4, <1>5, <1>6, AdvanceExact, Zenon
  <1>8. GoodQueue(queued', queued_head', queued_count')
    BY <1>1, <1>2, <1>7, SessionAssumption DEF GoodQueue, DrainPromote
  <1>9. /\ e \in Inflight
        /\ e.packet_id = p
        /\ e.state = "await_puback" <=> e.publish \notin QoS2Messages
    BY <1>3, Zenon DEF Inflight, InflightState, FirstState
  <1>10. PrunedInflight[s] = NoEntry /\ PrunedIndex[p] = NoSlot
    BY PrunedTableGood, Zenon DEF DrainPromote, IsFirst, IsReserved, Used, GoodTable
  <1>11. /\ inflight' = [PrunedInflight EXCEPT ![s] = e]
         /\ packet_index' = [PrunedIndex EXCEPT ![p] = s]
         /\ inflight_count' = PrunedCount + 1
    BY Zenon DEF DrainPromote
  <1> HIDE DEF e
  <1>12. GoodTable(inflight', packet_index', inflight_count')
    BY <1>9, <1>10, <1>11, PrunedTableGood, AddGood, Zenon
  <1>13. next_packet_id' \in PacketIds
    BY SessionAssumption DEF DrainPromote, IdAfter, PacketIds
  <1> QED
    BY <1>8, <1>12, <1>13, Zenon DEF IInv, DrainPromote

\* What packet_index leads to.
LEMMA IndexedEntry ==
    ASSUME IInv, NEW p \in PacketIds, packet_index[p] # NoSlot
    PROVE  /\ packet_index[p] \in Slots
           /\ inflight[packet_index[p]] \in Inflight
           /\ inflight[packet_index[p]] # NoEntry
           /\ inflight[packet_index[p]].packet_id = p
  <1>1. packet_index[p] \in Slots
    BY Zenon DEF IInv, GoodTable
  <1> QED
    BY <1>1 DEF IInv, GoodTable, IndexExact

\* retryUnsentPublish and an accepted PUBREC keep the invariant.
LEMMA RetryGood ==
    ASSUME IInv, NEW p \in PacketIds, RetryUnsentPublish(p) \/ PubRec(p)
    PROVE  IInv'
  <1> DEFINE s == packet_index[p]
  <1>1. s \in Slots /\ inflight[s] \in Inflight /\ inflight[s] # NoEntry
    BY IndexedEntry, Zenon DEF RetryUnsentPublish, PubRec
  <1>2. inflight \in [Slots -> Inflight \cup {NoEntry}]
        /\ NoEntry \notin Inflight
        /\ GoodTable(inflight, packet_index, inflight_count)
    BY NoEntryAssumption, Zenon DEF IInv, GoodTable
  <1>3. /\ inflight'[s] \in Inflight
        /\ inflight'[s].packet_id = inflight[s].packet_id
        /\ inflight'[s].publish = inflight[s].publish
        /\ inflight'[s].state = "await_puback"
              <=> inflight[s].state = "await_puback"
    <2>1. CASE RetryUnsentPublish(p)
      BY <1>1, <1>2, <2>1, Zenon DEF RetryUnsentPublish, Inflight
    <2>2. CASE PubRec(p)
      BY <1>1, <1>2, <2>2, Zenon DEF PubRec, Inflight, InflightState
    <2> QED
      BY <2>1, <2>2, Zenon
  <1>4. /\ \A q \in Slots : q # s => inflight'[q] = inflight[q]
        /\ DOMAIN inflight' = Slots
        /\ inflight' = [q \in Slots |-> inflight'[q]]
    BY <1>1, <1>2, Zenon DEF RetryUnsentPublish, PubRec
  <1>5. inflight' \in [Slots -> Inflight \cup {NoEntry}]
    BY <1>2, <1>3, <1>4, Zenon
  <1>6. GoodTable(inflight', packet_index, inflight_count)
    BY <1>1, <1>2, <1>3, <1>4, <1>5, MarkGood
  <1> QED
    BY <1>6, Zenon DEF IInv, RetryUnsentPublish, PubRec, queueVars

\* SaveAndRestore does find them so.
LEMMA RestoredEntry ==
    ASSUME IInv, NEW items, NEW order \in Seq(Nat), SaveAndRestore(items, order)
    PROVE  Restored(order)
  <1> DEFINE K == {s \in Slots : Kept(s)}
  <1>1. Lists(order, K)
    BY Zenon DEF SaveAndRestore
  <1>2. Len(order) = Cardinality(K) /\ Len(order) \in Nat
    BY <1>1, ListsCount
  <1>3. K \in SUBSET (1..MaxInflight) /\ MaxInflight \in Nat
    BY SessionAssumption DEF Slots
  <1>4. Cardinality(K) <= MaxInflight
    BY <1>3, IntervalSubset, Zenon
  <1>5. \A i, j \in 1..Len(order) : order[i] = order[j] => i = j
    BY <1>1 DEF Lists
  <1>6. \A i \in 1..Len(order) : order[i] \in Slots /\ Kept(order[i])
    BY <1>1, Zenon DEF Lists
  <1>7. ASSUME NEW i \in 1..Len(order)
        PROVE  /\ inflight[order[i]] \in Inflight
               /\ inflight'[i] \in Inflight
               /\ inflight'[i].packet_id = inflight[order[i]].packet_id
               /\ inflight'[i].publish = inflight[order[i]].publish
               /\ inflight'[i].state = inflight[order[i]].state
    <2> DEFINE e == inflight[order[i]]
    <2>1. e \in Inflight
      BY <1>6, Zenon DEF Kept, IInv, GoodTable
    <2>2. i \in Slots /\ i <= Len(order)
      BY <1>2, <1>3, <1>4 DEF Slots
    <2>3. inflight'[i] = [e EXCEPT !.needs_send = TRUE,
                            !.retransmission = e.state # "await_pubcomp"]
      BY <2>2, Zenon DEF SaveAndRestore, RestoredInflight
    <2> QED
      BY <2>1, <2>3, Zenon DEF Inflight
  <1>8. ASSUME NEW p \in PacketIds
        PROVE  IF packet_index[p] # NoSlot /\ Kept(packet_index[p])
               THEN /\ packet_index'[p] \in 1..Len(order)
                    /\ order[packet_index'[p]] = packet_index[p]
               ELSE packet_index'[p] = NoSlot
    <2> DEFINE x == packet_index[p]
    <2>1. CASE x # NoSlot /\ Kept(x)
      <3>1. x \in K
        BY <2>1, IndexedEntry, Zenon
      <3>2. \E i \in 1..Len(order) : order[i] = x
        BY <1>1, <3>1, Zenon DEF Lists
      <3>3. packet_index'[p] = CHOOSE i \in 1..Len(order) : order[i] = x
        BY <2>1, Zenon DEF SaveAndRestore, RestoredIndex
      <3> QED
        BY <2>1, <3>2, <3>3, Zenon
    <2>2. CASE ~(x # NoSlot /\ Kept(x))
      BY <2>2, Zenon DEF SaveAndRestore, RestoredIndex
    <2> QED
      BY <2>1, <2>2, Zenon
  <1> QED
    BY <1>2, <1>4, <1>5, <1>6, <1>7, <1>8, Zenon DEF Restored

\* A restart from a snapshot keeps the invariant.
LEMMA SaveAndRestoreGood ==
    ASSUME IInv, NEW items \in Seq(Nat), NEW order \in Seq(Nat),
           SaveAndRestore(items, order)
    PROVE  IInv'
  <1> DEFINE n == Len(order)
  <1>0. Restored(order)
    BY RestoredEntry, Zenon
  <1>1. GoodQueue(queued', queued_head', queued_count')
    <2> DEFINE r == [i \in 1..Len(items) |-> queued[items[i]]]
               K == Live(PrunedItems)
    <2>1. queued \in Seq(Item) /\ K \in SUBSET Live(queued) /\ Lists(items, K)
          /\ Len(queued) <= MaxQueued /\ Len(queued) \in Nat
      <3>1. queued \in Seq(Item) /\ Len(queued) <= MaxQueued
        BY Zenon DEF IInv, GoodQueue
      <3>2. K \in SUBSET Live(queued)
        BY PrunedItemsFacts, Zenon
      <3> QED
        BY <3>1, <3>2 DEF SaveAndRestore
    <2>2. /\ r \in Seq(Item)
          /\ Len(r) = Cardinality(K)
          /\ Exact(r, 1, Cardinality(K))
      BY <2>1, CompactGood, Zenon
    <2>3. Cardinality(K) = Len(items)
      BY <2>1, ListsCount, Zenon
    <2>4. K \in SUBSET (1..Len(queued))
      BY <2>1, Zenon DEF Live
    <2>5. Cardinality(K) <= Len(queued) /\ Cardinality(K) \in Nat
      BY <2>1, <2>4, IntervalSubset, Zenon
    <2>6. queued' = r /\ queued_head' = 1 /\ queued_count' = Cardinality(K)
      BY <2>3, Zenon DEF SaveAndRestore, RestoredQueue
    <2> HIDE DEF r, K
    <2> QED
      BY <2>1, <2>2, <2>5, <2>6, SessionAssumption DEF GoodQueue
  <1>2. n \in Nat /\ n <= MaxInflight /\ MaxInflight \in Nat
        /\ NoSlot \notin Slots /\ NoEntry \notin Inflight
    BY <1>0, SessionAssumption, NoEntryAssumption DEF Restored, Slots
  <1>3. \A s \in Slots : s \in 1..n \/ (s \notin 1..n /\ inflight'[s] = NoEntry)
    <2> TAKE s \in Slots
    <2>1. s \in Nat /\ s >= 1
      BY <1>2 DEF Slots
    <2>2. inflight' = RestoredInflight(order)
      BY Zenon DEF SaveAndRestore
    <2>3. CASE s <= n
      BY <1>2, <2>1, <2>3
    <2>4. CASE ~(s <= n)
      BY <1>2, <2>1, <2>2, <2>4, Zenon DEF RestoredInflight
    <2> QED
      BY <2>3, <2>4, Zenon
  <1>4. \A i \in 1..n : inflight'[i] \in Inflight /\ i \in Slots
    BY <1>2, <1>0 DEF Restored, Slots
  <1>5. inflight' \in [Slots -> Inflight \cup {NoEntry}]
    <2>1. inflight' = [s \in Slots |-> inflight'[s]]
      BY Zenon DEF SaveAndRestore, RestoredInflight
    <2> QED
      BY <1>3, <1>4, <2>1, Zenon
  <1>6. packet_index' \in [PacketIds -> Slots \cup {NoSlot}]
    <2>1. packet_index' = [p \in PacketIds |-> packet_index'[p]]
      BY DEF SaveAndRestore, RestoredIndex
    <2>2. \A p \in PacketIds : packet_index'[p] \in 1..n \cup {NoSlot}
      BY <1>0, Zenon DEF Restored
    <2> QED
      BY <1>4, <2>1, <2>2, Zenon
  <1>7. IndexExact(inflight', packet_index')
    <2> SUFFICES ASSUME NEW p \in PacketIds, NEW i \in Slots
                 PROVE  packet_index'[p] = i
                          <=> inflight'[i] # NoEntry
                              /\ inflight'[i].packet_id = p
      BY Zenon DEF IndexExact
    <2>1. ASSUME packet_index'[p] = i
          PROVE  inflight'[i] # NoEntry /\ inflight'[i].packet_id = p
      <3>1. /\ packet_index[p] # NoSlot
            /\ i \in 1..n
            /\ order[i] = packet_index[p]
        BY <1>2, <2>1, <1>0, Zenon DEF Restored
      <3>2. inflight[packet_index[p]].packet_id = p
        BY <3>1, IndexedEntry, Zenon
      <3> QED
        BY <1>2, <3>1, <3>2, <1>0, Zenon DEF Restored
    <2>2. ASSUME inflight'[i] # NoEntry, inflight'[i].packet_id = p
          PROVE  packet_index'[p] = i
      <3>1. i \in 1..n
        BY <1>3, <2>2, Zenon
      <3>2. /\ order[i] \in Slots
            /\ inflight[order[i]] # NoEntry
            /\ inflight[order[i]].packet_id = p
            /\ Kept(order[i])
        BY <2>2, <3>1, <1>0, Zenon DEF Restored, Kept
      <3>3. packet_index[p] = order[i] /\ packet_index[p] # NoSlot
        BY <1>2, <3>2 DEF IInv, GoodTable, IndexExact
      <3>4. packet_index'[p] \in 1..n /\ order[packet_index'[p]] = order[i]
        BY <3>2, <3>3, <1>0, Zenon DEF Restored
      <3> QED
        BY <3>1, <3>4, <1>0, Zenon DEF Restored
    <2> QED
      BY <2>1, <2>2, Zenon
  <1>8. inflight_count' = Cardinality(Used(inflight'))
    <2>1. Used(inflight') = 1..n
      <3>1. DOMAIN inflight' = Slots
        BY <1>5, Zenon
      <3>2. \A s \in Slots : inflight'[s] # NoEntry <=> s \in 1..n
        BY <1>2, <1>3, <1>4, Zenon
      <3>3. 1..n \subseteq Slots
        BY <1>4, Zenon
      <3> HIDE DEF n
      <3> QED
        BY <3>1, <3>2, <3>3, Zenon DEF Used
    <2>2. inflight_count' = n
      BY Zenon DEF SaveAndRestore
    <2>3. Cardinality(1..n) = n
      <3> HIDE DEF n
      <3>1. n \in Nat
        BY <1>2, Zenon
      <3>2. 1 - 1 <= n
        BY <3>1
      <3> QED
        BY <3>1, <3>2, FS_Interval
    <2> QED
      BY <2>1, <2>2, <2>3, Zenon
  <1>9. StatesMatch(inflight')
    <2> SUFFICES ASSUME NEW i \in Used(inflight')
                 PROVE  inflight'[i].state = "await_puback"
                          <=> inflight'[i].publish \notin QoS2Messages
      BY Zenon DEF StatesMatch
    <2>1. i \in 1..n
      BY <1>3, <1>5, Zenon DEF Used
    <2>2. order[i] \in Used(inflight)
      BY <2>1, <1>0, Zenon DEF Restored, Kept, Used, IInv, GoodTable
    <2>3. inflight[order[i]].state = "await_puback"
            <=> inflight[order[i]].publish \notin QoS2Messages
      BY <2>2, Zenon DEF IInv, GoodTable, StatesMatch
    <2> QED
      BY <2>1, <2>3, <1>0, Zenon DEF Restored
  <1>10. GoodTable(inflight', packet_index', inflight_count')
    BY <1>5, <1>6, <1>7, <1>8, <1>9, Zenon DEF GoodTable
  <1> QED
    BY <1>1, <1>10, Zenon DEF IInv, SaveAndRestore

-----------------------------------------------------------------------------
(* The invariant is inductive.                                             *)

\* Every step keeps the invariant.
LEMMA NextGood == IInv /\ [Next]_sessionVars => IInv'
  <1> SUFFICES ASSUME IInv, [Next]_sessionVars
               PROVE  IInv'
    BY Zenon
  <1>1. CASE OpenClean
    BY <1>1, OpenCleanGood, Zenon
  <1>2. CASE OpenResume \/ Disconnect
    BY <1>2, ConnectionGood, Zenon
  <1>3. ASSUME NEW m \in Messages, MessageExpires(m)
        PROVE  IInv'
    BY <1>3, ExpiresGood, Zenon
  <1>4. ASSUME NEW m \in Messages, NEW order \in Orders(MaxQueued),
               EnqueuePublish(m, order)
        PROVE  IInv'
    <2>1. order \in Seq(Nat)
      BY OrdersSeq, SessionAssumption, Zenon
    <2> QED
      BY <1>4, <2>1, EnqueueGood, Zenon
  <1>5. ASSUME NEW r \in ReceiveMaximums, Drain(r)
        PROVE  IInv'
    <2>1. ASSUME NEW s \in Slots, DrainResend(r, s)
          PROVE  IInv'
      BY <2>1, ResendGood, Zenon
    <2>2. ASSUME NEW s \in Slots, NEW p \in PacketIds, DrainPromote(r, s, p)
          PROVE  IInv'
      BY <2>2, PromoteGood, Zenon
    <2>3. CASE DrainInflightFull(r) \/ DrainIdle(r)
      BY <2>3, PruneOnlyGood, Zenon DEF DrainInflightFull, DrainIdle
    <2> QED
      BY <1>5, <2>1, <2>2, <2>3, Zenon DEF Drain
  <1>6. ASSUME NEW p \in PacketIds,
               RetryUnsentPublish(p) \/ DropOversizedPublish(p) \/ HandleAck(p)
        PROVE  IInv'
    <2>1. CASE RetryUnsentPublish(p) \/ PubRec(p)
      BY <2>1, RetryGood, Zenon
    <2>2. CASE DropOversizedPublish(p) \/ PubAck(p) \/ PubRecRefused(p)
                 \/ PubComp(p)
      BY <2>2, RemoveGood, Zenon DEF DropOversizedPublish, PubAck, PubRecRefused, PubComp
    <2> QED
      BY <1>6, <2>1, <2>2, Zenon DEF HandleAck
  <1>7. ASSUME NEW items \in Orders(MaxQueued), NEW order \in Orders(MaxInflight),
               SaveAndRestore(items, order)
        PROVE  IInv'
    <2>1. items \in Seq(Nat) /\ order \in Seq(Nat)
      BY OrdersSeq, SessionAssumption
    <2> QED
      BY <1>7, <2>1, SaveAndRestoreGood, Zenon
  <1>8. CASE UNCHANGED sessionVars
    BY <1>8, Zenon DEF IInv, sessionVars, queueVars, inflightVars
  <1> QED
    BY <1>1, <1>2, <1>3, <1>4, <1>5, <1>6, <1>7, <1>8, Zenon DEF Next

\* IInv holds after any sequence of Store operations (enqueuePublish, drain,
\* handleAck, open, disconnect and a restart).
THEOREM Invariance == Spec => []IInv
  BY InitGood, NextGood, PTL DEF Spec

\* For every size of queue, inflight table and identifier space, a Session's
\* queue, inflight table, index and counters are consistent after any sequence
\* of the Store's operations.
THEOREM SessionConsistency == Spec => []SessionConsistent
  <1>1. IInv => SessionConsistent
    BY IInvImplies, Zenon DEF SessionConsistent
  <1> QED
    BY <1>1, Invariance, PTL

\* The conjuncts one by one, as other modules need them: types first.
THEOREM TypeCorrectness == Spec => []TypeOK
  BY Invariance, IInvImplies, PTL

\* The queue's counter and cursor are exact, and its storage is bounded,
\* after any sequence of enqueueing, draining, expiry, compaction and restart.
THEOREM QueueCorrectness == Spec => [](QueueExact /\ QueueStorageBounded)
  <1>1. IInv => QueueExact /\ QueueStorageBounded
    BY IInvImplies, Zenon
  <1> QED
    BY <1>1, Invariance, PTL

\* packet_index always leads an acknowledgement to the entry that owns the
\* Packet Identifier, no identifier is owned twice, and inflight_count is the
\* number of entries, after any sequence of operations.
THEOREM PacketIdentifierOwnership ==
    Spec => [](PacketIndexExact /\ InflightCountExact)
  <1>1. IInv => PacketIndexExact /\ InflightCountExact
    BY IInvImplies, Zenon
  <1> QED
    BY <1>1, Invariance, PTL

\* Every inflight transaction waits for the acknowledgement of its own QoS.
THEOREM AcknowledgementKind == Spec => []StateMatchesQoS
  BY Invariance, IInvImplies, PTL

-----------------------------------------------------------------------------
(* PUBREL is owed until PUBCOMP.                                           *)

\* The entry that is owed a PUBREL is the one its identifier leads to.
LEMMA OwedEntry ==
    ASSUME IInv, NEW p \in PacketIds, PubRelOwed(p)
    PROVE  /\ packet_index[p] \in Slots
           /\ inflight[packet_index[p]] \in Inflight
           /\ inflight[packet_index[p]].state = "await_pubcomp"
           /\ NoSlot \notin Slots
           /\ NoEntry \notin Inflight
           /\ inflight \in [Slots -> Inflight \cup {NoEntry}]
           /\ packet_index \in [PacketIds -> Slots \cup {NoSlot}]
  <1>1. packet_index[p] # NoSlot
    BY Zenon DEF PubRelOwed
  <1>2. packet_index[p] \in Slots /\ inflight[packet_index[p]] \in Inflight
    BY <1>1, IndexedEntry, Zenon
  <1> QED
    BY <1>2, SessionAssumption, NoEntryAssumption, Zenon
    DEF PubRelOwed, Slots, IInv, GoodTable

\* Pruning keeps the transaction at its slot.
LEMMA OwedPruned ==
    ASSUME IInv, NEW p \in PacketIds, PubRelOwed(p)
    PROVE  /\ PrunedIndex[p] = packet_index[p]
           /\ PrunedInflight[packet_index[p]] = inflight[packet_index[p]]
  <1>1. packet_index[p] \in Slots /\ ~Prunable(packet_index[p])
    BY OwedEntry, Zenon DEF Prunable
  <1> QED
    BY <1>1, Zenon DEF PrunedIndex, PrunedInflight

\* Removing another transaction leaves it alone.
LEMMA OwedRemove ==
    ASSUME IInv, NEW p \in PacketIds, PubRelOwed(p),
           NEW q \in PacketIds, packet_index[q] # NoSlot, q # p,
           RemoveInflight(packet_index[q])
    PROVE  PubRelOwed(p)'
  <1>1. /\ packet_index[q] \in Slots
        /\ inflight[packet_index[q]].packet_id = q
        /\ inflight[packet_index[p]].packet_id = p
    BY IndexedEntry, Zenon DEF PubRelOwed
  <1>2. packet_index[q] # packet_index[p]
    BY <1>1, Zenon
  <1>3. /\ inflight' = [inflight EXCEPT ![packet_index[q]] = NoEntry]
        /\ packet_index' = [packet_index EXCEPT ![q] = NoSlot]
    BY <1>1, Zenon DEF RemoveInflight
  <1>4. packet_index'[p] = packet_index[p]
        /\ inflight'[packet_index[p]] = inflight[packet_index[p]]
    BY <1>2, <1>3, OwedEntry, Zenon
  <1> QED
    BY <1>4, Zenon DEF PubRelOwed

\* No operation but PUBCOMP and Clean Start ends what is owed.
LEMMA OwedStep ==
    ASSUME IInv, NEW p \in PacketIds, PubRelOwed(p), Next
    PROVE  PubRelOwed(p)' \/ PubComp(p) \/ OpenClean
  <1> DEFINE s == packet_index[p]
  <1>0. /\ s \in Slots
        /\ inflight[s] \in Inflight
        /\ inflight[s].state = "await_pubcomp"
        /\ NoSlot \notin Slots
        /\ NoEntry \notin Inflight
        /\ inflight \in [Slots -> Inflight \cup {NoEntry}]
        /\ packet_index \in [PacketIds -> Slots \cup {NoSlot}]
    BY OwedEntry, Zenon
  <1>1. CASE OpenClean
    BY <1>1, Zenon
  <1>2. CASE OpenResume \/ Disconnect
    <2>1. inflight' = AllToRetransmit /\ packet_index' = packet_index
      BY <1>2, Zenon DEF OpenResume, Disconnect
    <2>2. inflight'[s].state = "await_pubcomp"
      BY <1>0, <2>1, Zenon DEF AllToRetransmit, Inflight
    <2> QED
      BY <1>0, <2>1, <2>2, Zenon DEF PubRelOwed
  <1>3. ASSUME NEW m \in Messages,
               \/ MessageExpires(m)
               \/ \E order \in Orders(MaxQueued) : EnqueuePublish(m, order)
        PROVE  PubRelOwed(p)'
    <2>1. inflight' = inflight /\ packet_index' = packet_index
      BY <1>3, Zenon DEF MessageExpires, EnqueuePublish, inflightVars
    <2> QED
      BY <2>1, Zenon DEF PubRelOwed
  <1>4. ASSUME NEW r \in ReceiveMaximums, Drain(r)
        PROVE  PubRelOwed(p)'
    <2>1. PrunedIndex[p] = s /\ PrunedInflight[s] = inflight[s]
      BY OwedPruned, Zenon
    <2>2. /\ PrunedInflight \in [Slots -> Inflight \cup {NoEntry}]
          /\ PrunedIndex \in [PacketIds -> Slots \cup {NoSlot}]
      BY PrunedTableGood, Zenon DEF GoodTable
    <2>3. ASSUME NEW t \in Slots, DrainResend(r, t)
          PROVE  PubRelOwed(p)'
      <3>1. inflight' = [PrunedInflight EXCEPT ![t].needs_send = FALSE]
            /\ packet_index' = PrunedIndex
        BY <2>3, Zenon DEF DrainResend
      <3>2. inflight'[s].state = "await_pubcomp"
        BY <1>0, <2>1, <2>2, <3>1, Zenon DEF Inflight
      <3> QED
        BY <1>0, <2>1, <3>1, <3>2, Zenon DEF PubRelOwed
    <2>4. ASSUME NEW t \in Slots, NEW q \in PacketIds, DrainPromote(r, t, q)
          PROVE  PubRelOwed(p)'
      <3>1. PrunedIndex[q] = NoSlot /\ PrunedInflight[t] = NoEntry
        BY <2>2, <2>4, Zenon DEF DrainPromote, IsReserved, IsFirst, Used
      <3>2. q # p /\ t # s
        BY <1>0, <2>1, <3>1, Zenon
      <3>3. packet_index'[p] = s /\ inflight'[s] = inflight[s]
        BY <1>0, <2>1, <2>2, <2>4, <3>2, Zenon DEF DrainPromote
      <3> QED
        BY <1>0, <3>3, Zenon DEF PubRelOwed
    <2>5. CASE DrainInflightFull(r) \/ DrainIdle(r)
      <3>1. inflight' = PrunedInflight /\ packet_index' = PrunedIndex
        BY <2>5, Zenon DEF DrainInflightFull, DrainIdle, PruneOnly
      <3> QED
        BY <1>0, <2>1, <3>1, Zenon DEF PubRelOwed
    <2> QED
      BY <1>4, <2>3, <2>4, <2>5, Zenon DEF Drain
  <1>5. ASSUME NEW q \in PacketIds,
               RetryUnsentPublish(q) \/ DropOversizedPublish(q) \/ HandleAck(q),
               ~PubComp(p)
        PROVE  PubRelOwed(p)'
    <2>1. CASE RetryUnsentPublish(q) \/ PubRec(q)
      <3>1. packet_index[q] # s /\ packet_index' = packet_index
        BY <1>0, <2>1, Zenon DEF RetryUnsentPublish, PubRec
      <3>2. inflight'[s] = inflight[s]
        BY <1>0, <2>1, <3>1, Zenon DEF RetryUnsentPublish, PubRec
      <3> QED
        BY <1>0, <3>1, <3>2, Zenon DEF PubRelOwed
    <2>2. CASE DropOversizedPublish(q) \/ PubAck(q) \/ PubRecRefused(q)
                 \/ PubComp(q)
      <3>1. q # p
        BY <1>0, <1>5, <2>2, Zenon DEF DropOversizedPublish, PubAck, PubRecRefused
      <3>2. packet_index[q] # NoSlot /\ RemoveInflight(packet_index[q])
        BY <2>2, Zenon DEF DropOversizedPublish, PubAck, PubRecRefused, PubComp
      <3> QED
        BY <3>1, <3>2, OwedRemove, Zenon
    <2> QED
      BY <1>5, <2>1, <2>2, Zenon DEF HandleAck
  <1>6. ASSUME NEW items \in Orders(MaxQueued), NEW order \in Orders(MaxInflight),
               SaveAndRestore(items, order)
        PROVE  PubRelOwed(p)'
    <2>1. order \in Seq(Nat)
      BY OrdersSeq, SessionAssumption
    <2>2. Restored(order)
      BY <1>6, <2>1, RestoredEntry, Zenon
    <2>3. Kept(s)
      BY <1>0, Zenon DEF Kept, Prunable
    <2>4. packet_index'[p] \in 1..Len(order) /\ order[packet_index'[p]] = s
      BY <1>0, <2>2, <2>3, Zenon DEF Restored
    <2>5. inflight'[packet_index'[p]].state = "await_pubcomp"
      BY <1>0, <2>2, <2>4 DEF Restored
    <2>6. packet_index'[p] \in Slots
      BY <2>2, <2>4, SessionAssumption DEF Restored, Slots
    <2> QED
      BY <1>0, <2>5, <2>6, Zenon DEF PubRelOwed
  <1> QED
    BY <1>1, <1>2, <1>3, <1>4, <1>5, <1>6, Zenon DEF Next

\* For every size of the Session and every history, a transaction whose
\* PUBREC was accepted (handleAck) stays owed a PUBREL until its PUBCOMP, or
\* until the whole Session is discarded.
THEOREM PubRelOwedUntilPubComp == Spec => PubRelNeverForgotten
  <1> DEFINE A == \A p \in PacketIds :
                    PubRelOwed(p) => PubRelOwed(p)' \/ PubComp(p) \/ OpenClean
  <1>1. IInv /\ [Next]_sessionVars => [A]_sessionVars
    BY OwedStep, Zenon
  <1>2. PubRelNeverForgotten <=> [][A]_sessionVars
    BY PTL DEF PubRelNeverForgotten
  <1> HIDE DEF A
  <1> QED
    BY <1>1, <1>2, Invariance, PTL DEF Spec

=============================================================================

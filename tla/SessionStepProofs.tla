------------------------- MODULE SessionStepProofs --------------------------
(***************************************************************************)
(* Every step of SessionDelivery is a step of SessionExchange on the       *)
(* transactions by identifier, and a step of SessionState on the Session.  *)
(* The first part says what each operation of SessionState does to the     *)
(* transaction every identifier owns and to the set of waiting messages;   *)
(* the second reasons about these alone, and not about slots, queue        *)
(* positions, cursors and counters.  The lemmas name what they need of the *)
(* invariants (Ready), which SessionDeliveryProofs supplies.               *)
(***************************************************************************)
EXTENDS SessionDelivery, TLAPS

\* A consistent table and index give every identifier its own transaction.
LEMMA ViewOfTable ==
    ASSUME NEW t, NEW x, NEW n, GoodTable(t, x, n)
    PROVE  /\ GoodView(EntryOf(t, x))
           /\ \A s \in Used(t) :
                /\ t[s] \in Inflight
                /\ t[s].packet_id \in Owned(EntryOf(t, x))
                /\ EntryOf(t, x)[t[s].packet_id] = t[s]
           /\ \A p \in Owned(EntryOf(t, x)) :
                /\ x[p] \in Used(t)
                /\ EntryOf(t, x)[p] = t[x[p]]
  <1> DEFINE E == EntryOf(t, x)
  <1>1. /\ t \in [Slots -> Inflight \cup {NoEntry}]
        /\ x \in [PacketIds -> Slots \cup {NoSlot}]
        /\ IndexExact(t, x)
        /\ StatesMatch(t)
        /\ NoSlot \notin Slots
        /\ NoEntry \notin Inflight
    BY SessionAssumption, NoEntryAssumption, Zenon DEF GoodTable, Slots
  <1>2. \A p \in PacketIds : E[p] = IF x[p] = NoSlot THEN NoEntry ELSE t[x[p]]
    BY Zenon DEF EntryOf
  <1>3. E \in [PacketIds -> Inflight \cup {NoEntry}]
    BY <1>1, Zenon DEF EntryOf
  <1> HIDE DEF E
  <1>4. \A p \in Owned(E) : /\ p \in PacketIds
                            /\ x[p] \in Used(t)
                            /\ E[p] = t[x[p]]
                            /\ t[x[p]] \in Inflight
                            /\ t[x[p]].packet_id = p
    BY <1>1, <1>2 DEF Owned, Used, IndexExact
  <1>5. \A s \in Used(t) : /\ t[s] \in Inflight
                           /\ t[s].packet_id \in PacketIds
                           /\ x[t[s].packet_id] = s
    <2> TAKE s \in Used(t)
    <2>1. s \in Slots /\ t[s] \in Inflight
      BY <1>1, Zenon DEF Used
    <2>2. t[s].packet_id \in PacketIds
      BY <2>1, Zenon DEF Inflight
    <2> QED
      BY <1>1, <2>1, <2>2 DEF IndexExact
  <1>6. \A s \in Used(t) : t[s].packet_id \in Owned(E) /\ E[t[s].packet_id] = t[s]
    BY <1>1, <1>2, <1>5 DEF Owned, Used
  <1>7. GoodView(E)
    BY <1>1, <1>3, <1>4 DEF GoodView, StatesMatch
  <1> QED
    BY <1>4, <1>5, <1>6, <1>7, Zenon DEF E

\* open on an existing Session and disconnect keep all that waits and is
\* inflight.
LEMMA ConnectionView ==
    ASSUME IInv, OpenResume \/ Disconnect
    PROVE  /\ Keeps(Entry, Entry')
           /\ queued' = queued
           /\ expired' = expired
           /\ SentPublishes(inflight') = {}
  <1>1. inflight' = AllToRetransmit /\ packet_index' = packet_index
        /\ queued' = queued /\ expired' = expired
    BY Zenon DEF OpenResume, Disconnect, queueVars
  <1>2. inflight \in [Slots -> Inflight \cup {NoEntry}]
        /\ packet_index \in [PacketIds -> Slots \cup {NoSlot}]
        /\ NoEntry \notin Inflight
    BY NoEntryAssumption, Zenon DEF IInv, GoodTable
  <1>3. \A s \in Slots : inflight[s] # NoEntry =>
           /\ AllToRetransmit[s].publish = inflight[s].publish
           /\ AllToRetransmit[s].state = inflight[s].state
           /\ AllToRetransmit[s].needs_send = TRUE
    BY <1>2, Zenon DEF AllToRetransmit, Inflight
  <1>4. \A s \in Slots : inflight[s] = NoEntry => AllToRetransmit[s] = NoEntry
    BY Zenon DEF AllToRetransmit
  <1>5. DOMAIN AllToRetransmit = Slots
    BY Zenon DEF AllToRetransmit
  <1>6. \A p \in PacketIds :
          /\ Entry[p] = IF packet_index[p] = NoSlot THEN NoEntry
                        ELSE inflight[packet_index[p]]
          /\ Entry'[p] = IF packet_index[p] = NoSlot THEN NoEntry
                         ELSE AllToRetransmit[packet_index[p]]
    BY <1>1, Zenon DEF Entry, EntryOf
  <1> HIDE DEF AllToRetransmit
  <1>7. SentPublishes(inflight') = {}
    BY <1>1, <1>3, <1>4, <1>5, Zenon DEF SentPublishes, Used
  <1>8. Keeps(Entry, Entry')
    <2> SUFFICES ASSUME NEW p \in PacketIds, Entry'[p] # NoEntry
                 PROVE  /\ Entry[p] # NoEntry
                        /\ Entry'[p].publish = Entry[p].publish
                        /\ Entry'[p].state = Entry[p].state
      BY Zenon DEF Keeps, Owned
    <2>1. packet_index[p] \in Slots
      BY <1>2, <1>6, Zenon
    <2> QED
      BY <1>3, <1>4, <1>6, <2>1
  <1> QED
    BY <1>1, <1>7, <1>8, Zenon

\* pruneExpiredPublishes only takes away publications that have expired.
LEMMA PrunedView ==
    ASSUME IInv, PrunedGood
    PROVE  /\ Prunes(Entry, PrunedEntry)
           /\ GoodView(PrunedEntry)
           /\ Waiting(PrunedQueue) \subseteq Waiting(queued)
           /\ Distinct(queued) => Distinct(PrunedQueue)
           /\ SentPublishes(PrunedInflight) \subseteq SentPublishes(inflight)
  <1>1. GoodTable(inflight, packet_index, inflight_count)
        /\ GoodTable(PrunedInflight, PrunedIndex, PrunedCount)
    BY Zenon DEF IInv, PrunedGood
  <1>2. GoodView(PrunedEntry)
    BY <1>1, ViewOfTable, Zenon DEF PrunedEntry
  <1>3. inflight \in [Slots -> Inflight \cup {NoEntry}]
        /\ packet_index \in [PacketIds -> Slots \cup {NoSlot}]
        /\ NoSlot \notin Slots
    BY <1>1, SessionAssumption, Zenon DEF GoodTable, Slots
  <1>4. Prunes(Entry, PrunedEntry)
    <2> SUFFICES ASSUME NEW p \in PacketIds
                 PROVE  \/ PrunedEntry[p] = Entry[p]
                        \/ /\ PrunedEntry[p] = NoEntry
                           /\ Entry[p] # NoEntry
                           /\ Entry[p].state # "await_pubcomp"
                           /\ Entry[p].publish \in expired
      BY Zenon DEF Prunes
    <2>1. /\ PrunedEntry[p] = IF PrunedIndex[p] = NoSlot THEN NoEntry
                              ELSE PrunedInflight[PrunedIndex[p]]
          /\ Entry[p] = IF packet_index[p] = NoSlot THEN NoEntry
                        ELSE inflight[packet_index[p]]
      BY Zenon DEF PrunedEntry, Entry, EntryOf
    <2>2. CASE packet_index[p] = NoSlot
      BY <1>3, <2>1, <2>2, Zenon DEF PrunedIndex
    <2>3. CASE packet_index[p] \in Slots /\ Prunable(packet_index[p])
      BY <1>3, <2>1, <2>3, Zenon DEF PrunedIndex, Prunable
    <2>4. CASE packet_index[p] \in Slots /\ ~Prunable(packet_index[p])
      BY <1>3, <2>1, <2>4, Zenon DEF PrunedIndex, PrunedInflight
    <2> QED
      BY <1>3, <2>2, <2>3, <2>4, Zenon
  <1>5. \A i \in Live(PrunedItems) : i \in Live(queued) /\ PrunedItems[i] = queued[i]
    BY DEF PrunedItems, Live
  <1>6. \A i \in Live(PrunedQueue) : i \in Live(queued) /\ PrunedQueue[i] = queued[i]
    BY <1>5 DEF PrunedQueue, AdvancedItems, Live
  <1>7. Waiting(PrunedQueue) \subseteq Waiting(queued)
    BY <1>6, Zenon DEF Waiting
  <1>8. Distinct(queued) => Distinct(PrunedQueue)
    BY <1>6, Zenon DEF Distinct
  <1>9. SentPublishes(PrunedInflight) \subseteq SentPublishes(inflight)
    BY <1>3, Zenon DEF SentPublishes, Used, PrunedInflight
  <1> QED
    BY <1>2, <1>4, <1>7, <1>8, <1>9, Zenon

\* A drain that finds nothing to send.
LEMMA PruneOnlyView ==
    ASSUME IInv, PruneOnly
    PROVE  /\ Entry' = PrunedEntry
           /\ queued' = PrunedQueue
           /\ inflight' = PrunedInflight
           /\ expired' = expired
  BY Zenon DEF PruneOnly, PruneQueue, Entry, PrunedEntry, EntryOf

\* A drain that sends a transaction again clears its mark, and nothing else.
LEMMA ResendView ==
    ASSUME IInv, PrunedGood, NEW r, NEW s \in Slots, DrainResend(r, s)
    PROVE  LET e == PrunedInflight[s]
               p == e.packet_id IN
           /\ p \in Owned(PrunedEntry)
           /\ PrunedEntry[p] = e
           /\ e \in Inflight
           /\ e.needs_send
           /\ Entry' = [PrunedEntry EXCEPT ![p].needs_send = FALSE]
           /\ queued' = PrunedQueue
           /\ expired' = expired
           /\ \/ SentPublishes(inflight') \subseteq SentPublishes(inflight)
              \/ /\ WindowOpen(PrunedInflight, r)
                 /\ SentPublishes(inflight') \subseteq SentPublishes(PrunedInflight) \cup {s}
  <1> DEFINE t == PrunedInflight
             x == PrunedIndex
             e == t[s]
             p == e.packet_id
  <1>1. GoodTable(t, x, PrunedCount) /\ NoSlot \notin Slots
        /\ NoEntry \notin Inflight
    BY SessionAssumption, NoEntryAssumption, Zenon DEF PrunedGood, Slots
  <1>2. /\ inflight' = [t EXCEPT ![s].needs_send = FALSE]
        /\ packet_index' = x
        /\ queued' = PrunedQueue
        /\ expired' = expired
        /\ s \in Used(t)
        /\ t[s].needs_send
        /\ t[s].state = "await_pubcomp" \/ WindowOpen(t, r)
    BY Zenon DEF DrainResend, PruneQueue, IsFirst, Resendable
  <1>2a. t \in [Slots -> Inflight \cup {NoEntry}]
         /\ x \in [PacketIds -> Slots \cup {NoSlot}]
    BY <1>1, Zenon DEF GoodTable
  <1>2b. SentPublishes(t) \subseteq SentPublishes(inflight)
         /\ inflight \in [Slots -> Inflight \cup {NoEntry}]
    BY PrunedView, Zenon DEF IInv, GoodTable
  <1>3. p \in Owned(EntryOf(t, x)) /\ EntryOf(t, x)[p] = e /\ e \in Inflight
    BY <1>1, <1>2, ViewOfTable
  <1>4. PrunedEntry = EntryOf(t, x) /\ Entry' = EntryOf(inflight', x)
    BY <1>2, Zenon DEF PrunedEntry, Entry
  <1> HIDE DEF t, x
  <1>5. x[p] = s /\ p \in PacketIds /\ \A q \in PacketIds : x[q] = s => q = p
    <2>1. p \in PacketIds
      BY <1>3, Zenon DEF Inflight
    <2> QED
      BY <1>1, <1>2, <2>1, Zenon DEF GoodTable, IndexExact, Used
  <1>6. Entry' = [PrunedEntry EXCEPT ![p].needs_send = FALSE]
    BY <1>1, <1>2, <1>2a, <1>4, <1>5, Zenon DEF EntryOf
  <1>7. inflight' \in [Slots -> Inflight \cup {NoEntry}]
    BY <1>2, <1>2a, <1>3, Zenon DEF Inflight
  <1>8. /\ inflight'[s].state = e.state
        /\ \A q \in Slots : q # s => inflight'[q] = t[q]
    BY <1>2, <1>2a, <1>3, Zenon DEF Inflight
  <1>9. CASE t[s].state = "await_pubcomp"
    <2>1. SentPublishes(inflight') \subseteq SentPublishes(t)
      BY <1>2a, <1>7, <1>8, <1>9, Zenon DEF SentPublishes, Used
    <2>2. SentPublishes(inflight') \subseteq SentPublishes(inflight)
      BY <1>2b, <2>1, Zenon
    <2> QED
      BY <1>2, <1>3, <1>4, <1>6, <2>2, Zenon DEF t
  <1>10. CASE WindowOpen(t, r)
    <2>1. SentPublishes(inflight') \subseteq SentPublishes(t) \cup {s}
      BY <1>2a, <1>7, <1>8, Zenon DEF SentPublishes, Used
    <2> QED
      BY <1>2, <1>3, <1>4, <1>6, <1>10, <2>1, Zenon DEF t
  <1> QED
    BY <1>2, <1>9, <1>10, Zenon

\* What promoting the head of the queue as p in slot s comes to.
Promoted(r, s, p) ==
    LET e == inflight'[s] IN
    /\ p \notin Owned(PrunedEntry)
    /\ e \in Inflight
    /\ e.packet_id = p
    /\ e.state = FirstState(e.publish)
    /\ e.needs_send = FALSE
    /\ Entry'[p] = e
    /\ \A y \in PacketIds : y # p => Entry'[y] = PrunedEntry[y]
    /\ e.publish \in Waiting(PrunedQueue)
    /\ Distinct(PrunedQueue)
         => Distinct(queued') /\ Waiting(queued') \subseteq
                                   Waiting(PrunedQueue) \ {e.publish}
    /\ expired' = expired
    /\ WindowOpen(PrunedInflight, r)
    /\ SentPublishes(inflight') \subseteq SentPublishes(PrunedInflight) \cup {s}

\* A drain that promotes the head of the queue gives it a free identifier.
LEMMA PromoteView ==
    ASSUME IInv, PrunedGood, NEW r, NEW s \in Slots, NEW p \in PacketIds,
           DrainPromote(r, s, p)
    PROVE  Promoted(r, s, p)
  <1> DEFINE t == PrunedInflight
             x == PrunedIndex
             q == PrunedQueue
             h == PrunedHead
             m == q[h]
             e == [publish |-> m, packet_id |-> p, state |-> FirstState(m),
                   needs_send |-> FALSE, retransmission |-> FALSE]
  <1>1. GoodTable(t, x, PrunedCount) /\ GoodQueue(q, h, PrunedQueuedCount)
        /\ NoSlot \notin Slots /\ NoEntry \notin Inflight
    BY SessionAssumption, NoEntryAssumption, Zenon DEF PrunedGood, Slots
  <1>2. /\ inflight' = [t EXCEPT ![s] = e]
        /\ packet_index' = [x EXCEPT ![p] = s]
        /\ queued' = AdvancedItems(TakenItems, PrunedQueuedCount - 1)
        /\ expired' = expired
        /\ x[p] = NoSlot
        /\ s \in Slots \ Used(t)
        /\ WindowOpen(t, r)
        /\ PrunedQueuedCount # 0
    BY Zenon DEF DrainPromote, CanPromote, IsReserved, IsFirst
  <1>3. t \in [Slots -> Inflight \cup {NoEntry}]
        /\ x \in [PacketIds -> Slots \cup {NoSlot}]
        /\ t[s] = NoEntry
        /\ \A y \in PacketIds : x[y] # s
    BY <1>1, <1>2 DEF GoodTable, IndexExact, Used
  <1>4. q \in Seq(Item) /\ h \in Live(q)
    BY <1>1, <1>2, Zenon DEF GoodQueue, Exact
  <1>5. m \in Messages /\ m \in Waiting(q)
    BY <1>4 DEF Live, Item, Waiting
  <1>6. /\ \A i \in Live(queued') : i \in Live(q) /\ i # h /\ queued'[i] = q[i]
    <2>1. \A i \in Live(TakenItems) : i \in Live(q) /\ i # h /\ TakenItems[i] = q[i]
      BY <1>4 DEF TakenItems, Live
    <2>2. Live(<<>>) = {}
      BY DEF Live
    <2> QED
      BY <1>2, <2>1, <2>2, Zenon DEF AdvancedItems
  <1>7. Distinct(q) => Distinct(queued') /\ Waiting(queued') \subseteq Waiting(q) \ {m}
    BY <1>4, <1>6, Zenon DEF Distinct, Waiting
  <1>8. e \in Inflight
    BY <1>5, Zenon DEF Inflight, InflightState, FirstState
  <1>9. e.packet_id = p /\ e.state = FirstState(e.publish) /\ e.publish = m
        /\ e.needs_send = FALSE
    BY Zenon
  <1> HIDE DEF t, x, q, e
  <1>10. inflight'[s] = e /\ inflight' \in [Slots -> Inflight \cup {NoEntry}]
    BY <1>2, <1>3, <1>8, Zenon
  <1>11. PrunedEntry = EntryOf(t, x) /\ Entry' = EntryOf(inflight', packet_index')
    BY Zenon DEF PrunedEntry, Entry, t, x
  <1>12. p \notin Owned(PrunedEntry)
    BY <1>2, <1>11, Zenon DEF Owned, EntryOf
  <1>13. /\ Entry'[p] = e
         /\ \A y \in PacketIds : y # p => Entry'[y] = PrunedEntry[y]
    BY <1>1, <1>2, <1>3, <1>11, Zenon DEF EntryOf
  <1>14. SentPublishes(inflight') \subseteq SentPublishes(t) \cup {s}
    BY <1>2, <1>3, <1>10, Zenon DEF SentPublishes, Used
  <1> QED
    BY <1>2, <1>5, <1>7, <1>8, <1>9, <1>10, <1>12, <1>13, <1>14, Zenon DEF q, t, Promoted

\* What packet_index leads to, by identifier.
LEMMA OwnedEntry ==
    ASSUME IInv, NEW p \in PacketIds, packet_index[p] # NoSlot
    PROVE  /\ p \in Owned(Entry)
           /\ Entry[p] = inflight[packet_index[p]]
           /\ Entry[p] \in Inflight
           /\ Entry[p].packet_id = p
           /\ \A q \in PacketIds : packet_index[q] = packet_index[p] => q = p
           /\ packet_index[p] \in Slots
  <1>1. Entry[p] = inflight[packet_index[p]]
    BY Zenon DEF Entry, EntryOf
  <1>2. packet_index[p] \in Slots
    BY Zenon DEF IInv, GoodTable
  <1>3. /\ Entry[p] \in Inflight /\ Entry[p] # NoEntry /\ Entry[p].packet_id = p
        /\ \A q \in PacketIds : packet_index[q] = packet_index[p] => q = p
    BY <1>1, <1>2 DEF IInv, GoodTable, IndexExact
  <1> QED
    BY <1>1, <1>2, <1>3, Zenon DEF Owned

\* removeInflight frees one identifier.
LEMMA RemoveView ==
    ASSUME IInv, NEW p \in PacketIds, packet_index[p] # NoSlot,
           RemoveInflight(packet_index[p])
    PROVE  /\ Entry' = [Entry EXCEPT ![p] = NoEntry]
           /\ queued' = queued
           /\ expired' = expired
           /\ SentPublishes(inflight') \subseteq SentPublishes(inflight)
  <1> DEFINE s == packet_index[p]
  <1>1. s \in Slots /\ inflight[s].packet_id = p
        /\ \A q \in PacketIds : packet_index[q] = s => q = p
    BY OwnedEntry, Zenon
  <1>2. /\ inflight' = [inflight EXCEPT ![s] = NoEntry]
        /\ packet_index' = [packet_index EXCEPT ![p] = NoSlot]
        /\ queued' = queued
        /\ expired' = expired
    BY <1>1, Zenon DEF RemoveInflight, queueVars
  <1>3. inflight \in [Slots -> Inflight \cup {NoEntry}]
        /\ packet_index \in [PacketIds -> Slots \cup {NoSlot}]
    BY Zenon DEF IInv, GoodTable
  <1> HIDE DEF s
  <1>4. Entry' = [Entry EXCEPT ![p] = NoEntry]
    BY <1>1, <1>2, <1>3, Zenon DEF Entry, EntryOf
  <1>5. SentPublishes(inflight') \subseteq SentPublishes(inflight)
    BY <1>1, <1>2, <1>3, Zenon DEF SentPublishes, Used
  <1> QED
    BY <1>2, <1>4, <1>5, Zenon

\* retryUnsentPublish marks one transaction, and PUBREC moves one on.
LEMMA RetryView ==
    ASSUME IInv, NEW p \in PacketIds, RetryUnsentPublish(p) \/ PubRec(p)
    PROVE  LET f == Entry'[p] IN
           /\ p \in Owned(Entry)
           /\ Entry' = [Entry EXCEPT ![p] = f]
           /\ f # NoEntry
           /\ f.publish = Entry[p].publish
           /\ f.needs_send = TRUE
           /\ RetryUnsentPublish(p) => f.state = Entry[p].state
           /\ PubRec(p) => Entry[p].state = "await_pubrec" /\ f.state = "await_pubcomp"
           /\ queued' = queued
           /\ expired' = expired
           /\ SentPublishes(inflight') \subseteq SentPublishes(inflight)
  <1> DEFINE s == packet_index[p]
             f == inflight'[s]
  <1>1. /\ s \in Slots /\ p \in Owned(Entry) /\ Entry[p] = inflight[s]
        /\ Entry[p] \in Inflight
        /\ \A q \in PacketIds : packet_index[q] = s => q = p
    BY OwnedEntry, Zenon DEF RetryUnsentPublish, PubRec
  <1>2. inflight \in [Slots -> Inflight \cup {NoEntry}] /\ NoEntry \notin Inflight
        /\ packet_index \in [PacketIds -> Slots \cup {NoSlot}]
        /\ NoSlot \notin Slots
    BY NoEntryAssumption, SessionAssumption, Zenon DEF IInv, GoodTable, Slots
  <1>3. /\ inflight' = [inflight EXCEPT ![s] = f]
        /\ packet_index' = packet_index
        /\ queued' = queued
        /\ expired' = expired
    BY <1>1, <1>2, Zenon DEF RetryUnsentPublish, PubRec, queueVars
  <1>4. /\ f \in Inflight
        /\ f.publish = inflight[s].publish
        /\ f.needs_send = TRUE
    <2>1. CASE RetryUnsentPublish(p)
      BY <1>1, <1>2, <2>1, Zenon DEF RetryUnsentPublish, Inflight
    <2>2. CASE PubRec(p)
      BY <1>1, <1>2, <2>2, Zenon DEF PubRec, Inflight, InflightState
    <2> QED
      BY <2>1, <2>2, Zenon
  <1>5. RetryUnsentPublish(p) => f.state = inflight[s].state
    BY <1>1, <1>2 DEF RetryUnsentPublish, Inflight
  <1>6. PubRec(p) => inflight[s].state = "await_pubrec" /\ f.state = "await_pubcomp"
    BY <1>1, <1>2 DEF PubRec, Inflight
  <1> HIDE DEF s, f
  <1>6a. Entry'[p] = f /\ Entry' = [Entry EXCEPT ![p] = f]
    <2>1. packet_index[p] = s
      BY Zenon DEF s
    <2> QED
      BY <1>1, <1>2, <1>3, <2>1, Zenon DEF Entry, EntryOf
  <1>7. SentPublishes(inflight') \subseteq SentPublishes(inflight)
    BY <1>1, <1>2, <1>3, <1>4, Zenon DEF SentPublishes, Used
  <1> QED
    BY <1>1, <1>2, <1>3, <1>4, <1>5, <1>6, <1>6a, <1>7, Zenon

\* enqueuePublish adds its message to those that wait.
LEMMA EnqueueView ==
    ASSUME IInv, NEW m \in Messages, NEW order, EnqueuePublish(m, order),
           order \in Seq(Nat)
    PROVE  /\ Waiting(queued') \subseteq Waiting(queued) \cup {m}
           /\ Distinct(queued) /\ m \notin Waiting(queued) => Distinct(queued')
           /\ Entry' = Entry
           /\ inflight' = inflight
           /\ expired' = expired
  <1>1. inflight' = inflight /\ packet_index' = packet_index /\ expired' = expired
    BY Zenon DEF EnqueuePublish, inflightVars
  <1>2. queued \in Seq(Item) /\ Len(queued) \in Nat /\ m \in Item
        /\ Live(queued) \subseteq 1..Len(queued)
    BY DEF IInv, GoodQueue, Item, Live
  <1> DEFINE Moved(f) ==
        /\ \A i \in Live(queued') :
              \/ queued'[i] = m /\ i = Len(queued')
              \/ i # Len(queued') /\ f[i] \in Live(queued) /\ queued'[i] = queued[f[i]]
        /\ \A i, j \in Live(queued') :
              i # Len(queued') /\ j # Len(queued') /\ f[i] = f[j] => i = j
  <1>3. \E f : Moved(f)
    <2>1. CASE queued' = <<m>>
      <3>1. Moved(<<>>)
        BY <2>1 DEF Live
      <3> QED
        BY <3>1, Zenon
    <2>2. CASE /\ Lists(order, {i \in Live(queued) : i >= queued_head})
               /\ queued' = Append([i \in 1..Len(order) |-> queued[order[i]]], m)
      <3> DEFINE z == [i \in 1..Len(order) |-> queued[order[i]]]
      <3>1. /\ \A i \in 1..Len(order) : order[i] \in Live(queued)
            /\ \A i, j \in 1..Len(order) : order[i] = order[j] => i = j
            /\ Len(order) \in Nat
        BY <2>2 DEF Lists
      <3>2. z \in Seq(Item) /\ Len(z) = Len(order)
            /\ \A i \in 1..Len(order) : z[i] = queued[order[i]]
        BY <1>2, <3>1
      <3> HIDE DEF z
      <3>3. Len(queued') = Len(order) + 1 /\ queued'[Len(order) + 1] = m
            /\ \A i \in 1..Len(order) : queued'[i] = queued[order[i]]
        BY <1>2, <2>2, <3>2 DEF z
      <3>4. \A i \in Live(queued') : i \in 1..Len(order) \/ i = Len(order) + 1
        BY <3>1, <3>3 DEF Live
      <3>5. Moved(order)
        BY <3>1, <3>3, <3>4, Zenon
      <3> QED
        BY <3>5, Zenon
    <2>3. CASE queued' = Append(queued, m)
      <3> DEFINE z == [i \in 1..Len(queued) |-> i]
      <3>1. Len(queued') = Len(queued) + 1 /\ queued'[Len(queued) + 1] = m
            /\ \A i \in 1..Len(queued) : queued'[i] = queued[i] /\ z[i] = i
        BY <1>2, <2>3
      <3> HIDE DEF z
      <3>2. \A i \in Live(queued') :
               i # Len(queued) + 1 => i \in 1..Len(queued) /\ i \in Live(queued)
        BY <1>2, <3>1 DEF Live
      <3>3. \A i \in Live(queued') : i # Len(queued') =>
               z[i] = i /\ i \in Live(queued) /\ queued'[i] = queued[i]
        <4> TAKE i \in Live(queued')
        <4> HAVE i # Len(queued')
        <4>1. i \in 1..Len(queued) /\ i \in Live(queued)
          BY <3>1, <3>2, Zenon
        <4> QED
          BY <3>1, <4>1, Zenon
      <3>4. \A i \in Live(queued') : i = Len(queued') => queued'[i] = m
        BY <3>1, Zenon
      <3>5. Moved(z)
        BY <3>3, <3>4, Zenon
      <3> QED
        BY <3>5, Zenon
    <2> QED
      BY <2>1, <2>2, <2>3, Zenon DEF EnqueuePublish
  <1>4. PICK f : Moved(f)
    BY <1>3, Zenon
  <1>5. Waiting(queued') \subseteq Waiting(queued) \cup {m}
    BY <1>4 DEF Waiting
  <1>6. Distinct(queued) /\ m \notin Waiting(queued) => Distinct(queued')
    <2> SUFFICES ASSUME Distinct(queued), m \notin Waiting(queued),
                        NEW i \in Live(queued'), NEW j \in Live(queued'),
                        queued'[i] = queued'[j]
                 PROVE  i = j
      BY Zenon DEF Distinct
    <2>1. \A k \in Live(queued) : queued[k] # m
      BY Zenon DEF Waiting
    <2> QED
      BY <1>4, <2>1 DEF Distinct
  <1>7. Entry' = Entry
    BY <1>1, Zenon DEF Entry
  <1> QED
    BY <1>1, <1>5, <1>6, <1>7, Zenon

\* A restart from a snapshot brings back what had not expired.
LEMMA RestoreView ==
    ASSUME IInv, NEW items \in Seq(Nat), NEW order \in Seq(Nat),
           SaveAndRestore(items, order), Restored(order)
    PROVE  /\ Keeps(Entry, Entry')
           /\ Waiting(queued') \subseteq Waiting(queued)
           /\ Distinct(queued) => Distinct(queued')
           /\ expired' = expired
           /\ SentPublishes(inflight') = {}
  <1>1. \A i \in Live(PrunedItems) : i \in Live(queued)
    BY DEF PrunedItems, Live
  <1>2. /\ Lists(items, Live(PrunedItems))
        /\ queued' = RestoredQueue(items)
        /\ inflight' = RestoredInflight(order)
        /\ expired' = expired
    BY Zenon DEF SaveAndRestore
  <1>3. \A i \in 1..Len(items) : items[i] \in Live(queued)
    BY <1>1, <1>2, Zenon DEF Lists
  <1>4. \A i, j \in 1..Len(items) : items[i] = items[j] => i = j
    BY <1>2 DEF Lists
  <1>5. \A i \in Live(queued') : i \in 1..Len(items) /\ queued'[i] = queued[items[i]]
    <2>1. Len(items) \in Nat
      OBVIOUS
    <2>2. Len(queued') = Len(items)
          /\ \A i \in 1..Len(items) : queued'[i] = queued[items[i]]
      BY <1>2, <2>1 DEF RestoredQueue
    <2> QED
      BY <2>2, Zenon DEF Live
  <1>6. Waiting(queued') \subseteq Waiting(queued)
    BY <1>3, <1>5 DEF Waiting
  <1>7. Distinct(queued) => Distinct(queued')
    <2> SUFFICES ASSUME Distinct(queued),
                        NEW i \in Live(queued'), NEW j \in Live(queued'),
                        queued'[i] = queued'[j]
                 PROVE  i = j
      BY Zenon DEF Distinct
    <2>1. i \in 1..Len(items) /\ j \in 1..Len(items)
          /\ queued[items[i]] = queued[items[j]]
      BY <1>5, Zenon
    <2>2. items[i] = items[j]
      BY <1>3, <2>1, Zenon DEF Distinct
    <2> QED
      BY <1>4, <2>1, <2>2, Zenon
  <1>8. SentPublishes(inflight') = {}
    <2> SUFFICES ASSUME NEW s \in Slots, inflight'[s] # NoEntry
                 PROVE  inflight'[s].needs_send
      BY <1>2, Zenon DEF SentPublishes, Used, RestoredInflight
    <2>0. s \in Nat /\ s >= 1 /\ Len(order) \in Nat
          /\ inflight'[s] = RestoredInflight(order)[s]
      BY <1>2, SessionAssumption DEF Slots
    <2>1. s <= Len(order) /\ s \in 1..Len(order)
      <3>1. s <= Len(order)
        BY <2>0, Zenon DEF RestoredInflight
      <3> QED
        BY <2>0, <3>1
    <2>2. inflight[order[s]] \in Inflight
      BY <2>1, Zenon DEF Restored
    <2>3. inflight'[s] = [inflight[order[s]] EXCEPT
                !.needs_send = TRUE,
                !.retransmission = inflight[order[s]].state # "await_pubcomp"]
      BY <1>2, <2>1, Zenon DEF RestoredInflight
    <2> QED
      BY <2>2, <2>3, Zenon DEF Inflight
  <1>9. Keeps(Entry, Entry')
    <2> SUFFICES ASSUME NEW p \in PacketIds, Entry'[p] # NoEntry
                 PROVE  /\ Entry[p] # NoEntry
                        /\ Entry'[p].publish = Entry[p].publish
                        /\ Entry'[p].state = Entry[p].state
      BY Zenon DEF Keeps, Owned
    <2> DEFINE i == packet_index'[p]
               s == packet_index[p]
    <2>1. i # NoSlot /\ Entry'[p] = inflight'[i]
      BY Zenon DEF Entry, EntryOf
    <2>2. s # NoSlot /\ i \in 1..Len(order) /\ order[i] = s
      BY <2>1, Zenon DEF Restored
    <2>3. Entry[p] = inflight[s] /\ Entry[p] # NoEntry
      BY <2>2, OwnedEntry, Zenon DEF Owned
    <2> QED
      BY <2>1, <2>2, <2>3 DEF Restored
  <1> QED
    BY <1>2, <1>6, <1>7, <1>8, <1>9, Zenon

-----------------------------------------------------------------------------
(* What every step owes.                                                   *)

LinkGood ==
    /\ receive_maximum \in ReceiveMaximums
    /\ link \in {"connecting", "down"} =>
          holding = NoPacket /\ toClient = <<>> /\ toBroker = <<>>
    /\ expired \subseteq Expirable

\* What the broker needs to know of the exchange.
Known ==
    /\ Waiting(queued) \subseteq enqueued
    /\ holding # NoPacket => holding.packet_id \in Owned(Entry)
    /\ toBroker \in Seq(Ack)

Ready == IInv /\ PrunedGood /\ LinkGood /\ Distinct(queued) /\ Known

\* Restoring a snapshot finds what it has kept.
RestoresAll ==
    \A items \in Orders(MaxQueued), order \in Orders(MaxInflight) :
        SaveAndRestore(items, order) => Restored(order)

\* What is sent on a connection grows by one publication where the window is
\* open, and never otherwise.
WindowStep ==
    \/ /\ receive_maximum' = receive_maximum
       /\ SentPublishes(inflight') \subseteq SentPublishes(inflight)
    \/ SentPublishes(inflight') = {}
    \/ /\ receive_maximum' = receive_maximum
       /\ WindowOpen(PrunedInflight, receive_maximum)
       /\ \E s \in Slots : SentPublishes(inflight') \subseteq
                            SentPublishes(PrunedInflight) \cup {s}

\* A step of the exchange, on a connection and a queue that stay as they
\* should.
Implements ==
    /\ Exchange!Next \/ UNCHANGED Exchange!vars
    /\ LinkGood'
    /\ Distinct(queued)'
    /\ WindowStep

\* Both modules say the same of a table of transactions.
LEMMA SameView ==
    ASSUME NEW E, NEW F
    PROVE  /\ Exchange!Owned(E) = Owned(E)
           /\ Exchange!GoodTable(E) <=> GoodView(E)
           /\ Exchange!Keeps(E, F) <=> Keeps(E, F)
  <1>1. Exchange!Owned(E) = Owned(E) /\ Exchange!Owned(F) = Owned(F)
    BY Zenon DEF Exchange!Owned, Owned
  <1>2. Exchange!Inflight = Inflight
    BY Zenon DEF Exchange!Inflight, Inflight, Exchange!InflightState, InflightState
  <1>3. Exchange!GoodTable(E) <=> GoodView(E)
    BY <1>1, <1>2, Zenon DEF Exchange!GoodTable, GoodView
  <1>4. Exchange!Keeps(E, F) <=> Keeps(E, F)
    BY <1>1, Zenon DEF Exchange!Keeps, Keeps
  <1> QED
    BY <1>1, <1>3, <1>4, Zenon

\* The transactions of a consistent Session are a table of the exchange.
LEMMA TableOfSession == IInv' => Exchange!GoodTable(Entry')
  <1>1. IInv' => GoodView(Entry')
    BY ViewOfTable, Zenon DEF IInv, Entry
  <1> QED
    BY <1>1, SameView, Zenon

\* So they are before a step.
LEMMA TableNow == IInv => Exchange!GoodTable(Entry)
  <1>1. IInv => GoodView(Entry)
    BY ViewOfTable, Zenon DEF IInv, Entry
  <1> QED
    BY <1>1, SameView, Zenon

\* The positions a compaction or a snapshot lists.
LEMMA OrderOfPositions ==
    ASSUME NEW n \in Nat, NEW order \in Orders(n)
    PROVE  order \in Seq(Nat)
  <1>1. PICK k \in 0..n : order \in [1..k -> 1..n]
    BY Zenon DEF Orders
  <1>2. k \in Nat /\ order \in [1..k -> Nat]
    BY <1>1
  <1> QED
    BY <1>2

\* A step that leaves the Session alone.
LEMMA SessionSame ==
    ASSUME Ready, UNCHANGED sessionVars
    PROVE  /\ queued' = queued /\ inflight' = inflight /\ expired' = expired
           /\ Waiting(queued)' = Waiting(queued)
           /\ Entry' = Entry
           /\ Distinct(queued)'
           /\ receive_maximum' = receive_maximum => WindowStep
  <1>1. /\ queued' = queued /\ inflight' = inflight /\ expired' = expired
        /\ packet_index' = packet_index
    BY Zenon DEF sessionVars, queueVars, inflightVars
  <1>2. Waiting(queued)' = Waiting(queued) /\ Distinct(queued)'
    BY <1>1, Zenon DEF Ready, Waiting, Distinct
  <1>3. Entry' = Entry
    BY <1>1, Zenon DEF Entry, EntryOf
  <1>4. receive_maximum' = receive_maximum => WindowStep
    BY <1>1, Zenon DEF WindowStep
  <1> QED
    BY <1>1, <1>2, <1>3, <1>4, Zenon

-----------------------------------------------------------------------------
(* The life of a connection.                                               *)

\* attachConnection and a network that fails change nothing the exchange sees.
LEMMA AttachStep ==
    ASSUME Ready, IInv', Attach \/ Break
    PROVE  Implements
  <1>1. /\ UNCHANGED sessionVars
        /\ UNCHANGED <<receive_maximum, holding, toClient, toBroker, clientVars,
                      enqueued, written, completed, refused>>
        /\ link' \in {"up", "broken"}
    BY Zenon DEF Attach, Break, historyVars
  <1>2. LinkGood'
    BY <1>1, SessionSame, Zenon DEF Ready, LinkGood
  <1>3. UNCHANGED Exchange!vars
    BY <1>1, SessionSame, Zenon
    DEF Exchange!vars, Exchange!sessionVars, Exchange!linkVars, Exchange!clientVars,
        Exchange!historyVars, clientVars
  <1> QED
    BY <1>1, <1>2, <1>3, SessionSame, Zenon DEF Implements

\* Neither does the clock.
LEMMA ExpireStep ==
    ASSUME Ready, IInv', NEW m \in Messages, Expire(m)
    PROVE  Implements
  <1>1. /\ MessageExpires(m) /\ m \in Expirable
        /\ UNCHANGED <<linkVars, clientVars, enqueued, written, completed, refused>>
    BY Zenon DEF Expire
  <1>2. /\ queued' = queued /\ inflight' = inflight /\ packet_index' = packet_index
        /\ expired' = expired \cup {m}
    BY <1>1, Zenon DEF MessageExpires, queueVars, inflightVars
  <1>3. Waiting(queued)' = Waiting(queued) /\ Distinct(queued)'
    BY <1>1, <1>2, Zenon DEF Ready, Waiting, Distinct
  <1>4. Entry' = Entry
    BY <1>2, Zenon DEF Entry, EntryOf
  <1>5. WindowStep
    BY <1>1, <1>2, Zenon DEF WindowStep, linkVars
  <1>6. LinkGood'
    BY <1>1, <1>2, Zenon DEF Ready, LinkGood, linkVars
  <1>7. UNCHANGED Exchange!vars
    BY <1>1, <1>3, <1>4, Zenon
    DEF Exchange!vars, Exchange!sessionVars, Exchange!linkVars, Exchange!clientVars,
        Exchange!historyVars, clientVars, linkVars
  <1> QED
    BY <1>3, <1>5, <1>6, <1>7, Zenon DEF Implements

\* What is lost with a connection or a broker process is an interruption.
LEMMA Interrupts ==
    ASSUME IInv', Keeps(Entry, Entry'),
           Waiting(queued)' \subseteq Waiting(queued),
           holding' = NoPacket, toClient' = <<>>, toBroker' = <<>>,
           written' = written \cup Publications(holding),
           UNCHANGED <<clientVars, enqueued, completed, refused>>
    PROVE  Exchange!Next
  <1>1. Exchange!Publications(holding) = Publications(holding)
    BY Zenon DEF Exchange!Publications, Publications
  <1>2. Exchange!GoodTable(Entry') /\ Exchange!Keeps(Entry, Entry')
    BY TableOfSession, SameView, Zenon
  <1>3. UNCHANGED <<Exchange!clientVars, enqueued, completed, refused>>
    BY Zenon DEF clientVars, Exchange!clientVars
  <1>4. Exchange!Interrupt
    BY <1>1, <1>2, <1>3, Zenon DEF Exchange!Interrupt
  <1> QED
    BY <1>4, Zenon DEF Exchange!Next

\* abortRegistration, unregister and register.
LEMMA ConnectionStep ==
    ASSUME Ready, IInv',
           AbortRegistration \/ ReaderStops \/ \E r \in ReceiveMaximums : Register(r)
    PROVE  Implements
  <1>1. OpenResume \/ Disconnect
    BY Zenon DEF AbortRegistration, ReaderStops, Unregister, Register
  <1>2. /\ Keeps(Entry, Entry') /\ SentPublishes(inflight') = {}
        /\ queued' = queued /\ expired' = expired
    BY <1>1, ConnectionView, Zenon DEF Ready
  <1>3. Waiting(queued)' = Waiting(queued) /\ Distinct(queued)'
    BY <1>2, Zenon DEF Ready, Waiting, Distinct
  <1>4. LinkGood
    BY Zenon DEF Ready
  <1>5. Publications(NoPacket) = {}
    BY Zenon DEF Publications
  <1>6. /\ holding' = NoPacket /\ toClient' = <<>> /\ toBroker' = <<>>
        /\ written' = written \cup Publications(holding)
        /\ UNCHANGED <<clientVars, enqueued, completed, refused>>
        /\ receive_maximum' \in ReceiveMaximums
    <2>1. CASE AbortRegistration
      BY <1>4, <1>5, <2>1, Zenon DEF AbortRegistration, LinkGood
    <2>2. CASE ReaderStops
      BY <1>4, <1>5, <2>2, Zenon DEF ReaderStops, Unregister, LinkGood, historyVars
    <2>3. CASE \E r \in ReceiveMaximums : Register(r)
      BY <2>3, Zenon DEF Register
    <2> QED
      BY <2>1, <2>2, <2>3, Zenon
  <1>7. LinkGood'
    BY <1>2, <1>4, <1>6, Zenon DEF LinkGood
  <1>8. Exchange!Next
    BY <1>2, <1>3, <1>6, Interrupts, Zenon
  <1> QED
    BY <1>2, <1>3, <1>7, <1>8, Zenon DEF Implements, WindowStep

\* A snapshot and the process that restores it.
LEMMA RestartStep ==
    ASSUME Ready, IInv', NEW items \in Orders(MaxQueued), NEW order \in Orders(MaxInflight),
           Restart(items, order), Restored(order)
    PROVE  Implements
  <1>1. /\ Ready /\ IInv /\ LinkGood /\ SaveAndRestore(items, order) /\ link = "down"
        /\ UNCHANGED <<linkVars, clientVars, historyVars>>
    BY Zenon DEF Ready, Restart
  <1>2. MaxQueued \in Nat /\ MaxInflight \in Nat
    BY SessionAssumption
  <1>3. items \in Seq(Nat) /\ order \in Seq(Nat)
    BY <1>2, OrderOfPositions, Zenon
  <1>4. Distinct(queued)
    BY Zenon DEF Ready
  <1>5. /\ Keeps(Entry, Entry')
        /\ Waiting(queued') \subseteq Waiting(queued)
        /\ Distinct(queued) => Distinct(queued')
        /\ expired' = expired
        /\ SentPublishes(inflight') = {}
    BY <1>1, <1>3, RestoreView, Zenon
  <1>6. holding = NoPacket /\ toClient = <<>> /\ toBroker = <<>>
    BY <1>1, Zenon DEF LinkGood
  <1>7. /\ holding' = NoPacket /\ toClient' = <<>> /\ toBroker' = <<>>
        /\ written' = written \cup Publications(holding)
        /\ UNCHANGED <<clientVars, enqueued, completed, refused>>
        /\ receive_maximum' \in ReceiveMaximums
    BY <1>1, <1>6, Zenon DEF linkVars, historyVars, Publications, LinkGood
  <1>8. LinkGood'
    BY <1>1, <1>5, <1>7, Zenon DEF LinkGood
  <1>9. Waiting(queued)' \subseteq Waiting(queued) /\ Distinct(queued)'
    BY <1>4, <1>5, Zenon DEF Waiting, Distinct
  <1>10. Exchange!Next
    BY <1>5, <1>7, <1>9, Interrupts, Zenon
  <1> QED
    BY <1>5, <1>8, <1>9, <1>10, Zenon DEF Implements, WindowStep

-----------------------------------------------------------------------------
(* The broker's side of a flush.                                           *)

\* enqueuePublish routes one message.
LEMMA PublishStep ==
    ASSUME Ready, IInv', NEW m \in Messages, NEW order \in Orders(MaxQueued),
           Publish(m, order)
    PROVE  Implements
  <1>1. /\ IInv /\ LinkGood /\ Distinct(queued) /\ EnqueuePublish(m, order) /\ m \notin enqueued
        /\ enqueued' = enqueued \cup {m}
        /\ UNCHANGED <<link, receive_maximum, holding, toClient, toBroker, clientVars,
                      written, completed, refused>>
    BY Zenon DEF Ready, Publish
  <1>2. order \in Seq(Nat)
    BY SessionAssumption, OrderOfPositions, Zenon
  <1>3. /\ Waiting(queued') \subseteq Waiting(queued) \cup {m}
        /\ Distinct(queued) /\ m \notin Waiting(queued) => Distinct(queued')
        /\ Entry' = Entry /\ inflight' = inflight /\ expired' = expired
    BY <1>1, <1>2, EnqueueView, Zenon
  <1>4. WindowStep
    BY <1>1, <1>3, Zenon DEF WindowStep
  <1>5. m \notin Waiting(queued)
    BY <1>1, Zenon DEF Ready, Known
  <1>6. /\ Waiting(queued)' \subseteq Waiting(queued) \cup {m}
        /\ Distinct(queued)'
    BY <1>1, <1>3, <1>5, Zenon DEF Waiting, Distinct
  <1>7. LinkGood'
    BY <1>1, <1>3, Zenon DEF LinkGood
  <1>8. Exchange!Route(m)
    BY <1>1, <1>3, <1>6, Zenon
    DEF Exchange!Route, Exchange!linkVars, Exchange!clientVars, clientVars
  <1>9. Exchange!Next
    BY <1>8, Zenon DEF Exchange!Next
  <1> QED
    BY <1>4, <1>6, <1>7, <1>9, Zenon DEF Implements

\* Pruning takes away only what may expire.
LEMMA PrunesOfSession ==
    ASSUME Ready
    PROVE  /\ Exchange!Prunes(Entry, PrunedEntry)
           /\ Exchange!GoodTable(PrunedEntry)
           /\ Waiting(PrunedQueue) \subseteq Waiting(queued)
           /\ Distinct(PrunedQueue)
           /\ SentPublishes(PrunedInflight) \subseteq SentPublishes(inflight)
  <1>1. /\ Prunes(Entry, PrunedEntry) /\ GoodView(PrunedEntry)
        /\ Waiting(PrunedQueue) \subseteq Waiting(queued)
        /\ Distinct(PrunedQueue)
        /\ SentPublishes(PrunedInflight) \subseteq SentPublishes(inflight)
    BY PrunedView, Zenon DEF Ready
  <1>2. expired \subseteq Expirable
    BY Zenon DEF Ready, LinkGood
  <1>3. Exchange!Prunes(Entry, PrunedEntry)
    BY <1>1, <1>2, Zenon DEF Prunes, Exchange!Prunes, Exchange!PrunesAt
  <1>4. Exchange!GoodTable(PrunedEntry)
    BY <1>1, SameView, Zenon
  <1> QED
    BY <1>1, <1>3, <1>4, Zenon

\* A flush that sends nothing.
LEMMA FlushStep ==
    ASSUME Ready, IInv', FlushReturns \/ FlushFails
    PROVE  Implements
  <1>1. /\ IInv /\ LinkGood /\ PruneOnly /\ holding = NoPacket
        /\ UNCHANGED <<receive_maximum, holding, toClient, toBroker, clientVars,
                      enqueued, written, completed, refused>>
        /\ link' \notin {"connecting", "down"}
    BY Zenon DEF Ready, FlushReturns, FlushFails, CanTake, Attached, DrainIdle,
           DrainInflightFull, historyVars
  <1>3. /\ Entry' = PrunedEntry /\ queued' = PrunedQueue
        /\ inflight' = PrunedInflight /\ expired' = expired
    BY <1>1, PruneOnlyView, Zenon
  <1>4. /\ Exchange!Prunes(Entry, PrunedEntry) /\ Exchange!GoodTable(PrunedEntry)
        /\ Waiting(PrunedQueue) \subseteq Waiting(queued)
        /\ Distinct(PrunedQueue)
        /\ SentPublishes(PrunedInflight) \subseteq SentPublishes(inflight)
    BY PrunesOfSession, Zenon
  <1>5. Waiting(queued)' \subseteq Waiting(queued) /\ Distinct(queued)'
    BY <1>3, <1>4, Zenon DEF Waiting, Distinct
  <1>6. WindowStep
    BY <1>1, <1>3, <1>4, Zenon DEF WindowStep
  <1>7. LinkGood'
    BY <1>1, <1>3, Zenon DEF LinkGood
  <1>8. Exchange!Prune
    BY <1>1, <1>3, <1>4, <1>5, Zenon
    DEF Exchange!Prune, Exchange!linkVars, Exchange!clientVars, Exchange!historyVars,
        clientVars
  <1>9. Exchange!Next
    BY <1>8, Zenon DEF Exchange!Next
  <1> QED
    BY <1>5, <1>6, <1>7, <1>9, Zenon DEF Implements

\* transmissionForInflight gives the packet of the entry.
LEMMA TransmissionOf ==
    ASSUME NEW e \in Inflight, NEW f, f.state = e.state, f.packet_id = e.packet_id,
           f.publish = e.publish
    PROVE  Exchange!Transmits(Transmission(e), f)
  <1> DEFINE t == Transmission(e)
  <1>1. /\ t.kind = IF e.state = "await_pubcomp" THEN "pubrel" ELSE "publish"
        /\ t.packet_id = e.packet_id
        /\ t.publish = e.publish
    BY Zenon DEF Transmission
  <1>2. t \in Packet
    BY Zenon DEF Transmission, Packet, Inflight
  <1>3. Exchange!Packet = Packet
    BY Zenon DEF Exchange!Packet, Packet
  <1>4. t \in Exchange!Packet \ {NoPacket}
    BY <1>2, <1>3, DeliveryAssumption, Zenon
  <1> HIDE DEF t
  <1>5. Exchange!Transmits(t, f)
    BY <1>1, <1>4, Zenon DEF Exchange!Transmits
  <1> QED
    BY <1>5, Zenon DEF t

\* takeSessionPacketLocked changes nothing but the Session and what is held.
LEMMA TakeFrame ==
    ASSUME Ready, TakePacket
    PROVE  /\ IInv /\ PrunedGood /\ LinkGood /\ holding = NoPacket
           /\ UNCHANGED <<link, receive_maximum, toClient, toBroker, clientVars,
                         enqueued, written, completed, refused>>
           /\ link \notin {"connecting", "down"}
  BY Zenon DEF Ready, TakePacket, CanTake, Attached, historyVars

\* A transaction is sent again.
LEMMA ResendStep ==
    ASSUME Ready, IInv', TakePacket, NEW s \in Slots, DrainResend(receive_maximum, s),
           holding' = Transmission(PrunedInflight[s])
    PROVE  Implements
  <1> DEFINE e == PrunedInflight[s]
             p == e.packet_id
  <1>1. /\ IInv /\ PrunedGood /\ LinkGood /\ holding = NoPacket
        /\ UNCHANGED <<link, receive_maximum, toClient, toBroker, clientVars,
                      enqueued, written, completed, refused>>
        /\ link \notin {"connecting", "down"}
    BY TakeFrame, Zenon
  <1>3. /\ p \in Owned(PrunedEntry) /\ PrunedEntry[p] = e
        /\ e \in Inflight /\ e.needs_send
        /\ Entry' = [PrunedEntry EXCEPT ![p].needs_send = FALSE]
        /\ queued' = PrunedQueue /\ expired' = expired
        /\ \/ SentPublishes(inflight') \subseteq SentPublishes(inflight)
           \/ /\ WindowOpen(PrunedInflight, receive_maximum)
              /\ SentPublishes(inflight')
                   \subseteq SentPublishes(PrunedInflight) \cup {s}
    BY <1>1, ResendView, Zenon
  <1>4. /\ Exchange!Prunes(Entry, PrunedEntry) /\ Exchange!GoodTable(PrunedEntry)
        /\ Waiting(PrunedQueue) \subseteq Waiting(queued)
        /\ Distinct(PrunedQueue)
    BY PrunesOfSession, Zenon
  <1> HIDE DEF e, p
  <1>5. Waiting(queued)' \subseteq Waiting(queued) /\ Distinct(queued)'
    BY <1>3, <1>4, Zenon DEF Waiting, Distinct
  <1>6. WindowStep
    BY <1>1, <1>3, Zenon DEF WindowStep
  <1>7. LinkGood'
    BY <1>1, <1>3, Zenon DEF LinkGood
  <1>8. /\ PrunedEntry \in [PacketIds -> Exchange!Inflight \cup {NoEntry}]
        /\ p \in PacketIds /\ PrunedEntry[p] # NoEntry
    BY <1>3, <1>4, Zenon DEF Exchange!GoodTable, Owned
  <1>9. /\ Entry'[p] = [e EXCEPT !.needs_send = FALSE]
        /\ \A q \in PacketIds \ {p} : Entry'[q] = PrunedEntry[q]
    BY <1>3, <1>8, Zenon
  <1>10. /\ Entry'[p].publish = e.publish /\ Entry'[p].state = e.state
         /\ Entry'[p].packet_id = e.packet_id /\ ~Entry'[p].needs_send
         /\ Entry'[p] \in Inflight /\ Entry'[p] # NoEntry
    <2> DEFINE f == [e EXCEPT !.needs_send = FALSE]
    <2>1. e \in Inflight /\ Entry'[p] = f
      BY <1>3, <1>9, Zenon
    <2>2. /\ f.publish = e.publish /\ f.state = e.state
          /\ f.packet_id = e.packet_id /\ f.needs_send = FALSE
          /\ f \in Inflight
      BY <2>1, Zenon DEF Inflight
    <2>3. f # NoEntry
      BY <2>2, NoEntryAssumption, Zenon
    <2> HIDE DEF f
    <2> QED
      BY <2>1, <2>2, <2>3, Zenon
  <1>11. Entry[p] = e
    BY <1>3, <1>4, <1>8, Zenon DEF Exchange!Prunes, Exchange!PrunesAt
  <1>12. Exchange!Resends(p)
    BY <1>3, <1>5, <1>8, <1>10, <1>11, Zenon DEF Exchange!Resends, Exchange!Owned
  <1>13. Exchange!Transmits(holding', Entry'[p])
    BY <1>3, <1>10, TransmissionOf, Zenon DEF e
  <1>14. \A q \in PacketIds \ {p} : Exchange!PrunesAt(Entry, Entry', q)
    BY <1>4, <1>9, Zenon DEF Exchange!Prunes, Exchange!PrunesAt
  <1>15. Exchange!GoodTable(Entry')
    BY TableOfSession, Zenon
  <1>16. Exchange!Take(p)
    BY <1>1, <1>8, <1>10, <1>12, <1>13, <1>14, <1>15, Zenon
    DEF Exchange!Take, Exchange!Owned, Exchange!clientVars, Exchange!historyVars,
        clientVars
  <1>17. Exchange!Next
    BY <1>8, <1>16, Zenon DEF Exchange!Next
  <1> QED
    BY <1>5, <1>6, <1>7, <1>17, Zenon DEF Implements

\* The head of the queue becomes a transaction.
LEMMA PromoteStep ==
    ASSUME Ready, IInv', TakePacket, NEW s \in Slots, NEW p \in PacketIds,
           DrainPromote(receive_maximum, s, p), holding' = Transmission(inflight'[s])
    PROVE  Implements
  <1> DEFINE e == inflight'[s]
  <1>1. /\ IInv /\ PrunedGood /\ LinkGood /\ holding = NoPacket
        /\ UNCHANGED <<link, receive_maximum, toClient, toBroker, clientVars,
                      enqueued, written, completed, refused>>
        /\ link \notin {"connecting", "down"}
    BY TakeFrame, Zenon
  <1>2. Promoted(receive_maximum, s, p)
    BY <1>1, PromoteView, Zenon
  <1>3. /\ p \notin Owned(PrunedEntry)
        /\ Entry'[p] = e
        /\ \A y \in PacketIds : y # p => Entry'[y] = PrunedEntry[y]
        /\ e \in Inflight /\ e.packet_id = p /\ e.state = FirstState(e.publish)
        /\ e.needs_send = FALSE
        /\ e.publish \in Waiting(PrunedQueue)
        /\ Distinct(PrunedQueue)
             => Distinct(queued') /\ Waiting(queued') \subseteq
                                       Waiting(PrunedQueue) \ {e.publish}
        /\ expired' = expired
    BY <1>2, Zenon DEF Promoted
  <1>4. /\ Exchange!Prunes(Entry, PrunedEntry) /\ Exchange!GoodTable(PrunedEntry)
        /\ Waiting(PrunedQueue) \subseteq Waiting(queued)
        /\ Distinct(PrunedQueue)
    BY PrunesOfSession, Zenon
  <1> HIDE DEF e
  <1>5. /\ Waiting(queued)' \subseteq Waiting(queued) \ {e.publish}
        /\ Distinct(queued)'
    BY <1>3, <1>4, Zenon DEF Waiting, Distinct
  <1>6. WindowStep
    BY <1>1, <1>2, Zenon DEF WindowStep, Promoted
  <1>7. LinkGood'
    BY <1>1, <1>3, Zenon DEF LinkGood
  <1>8. /\ PrunedEntry \in [PacketIds -> Exchange!Inflight \cup {NoEntry}]
        /\ Entry \in [PacketIds -> Exchange!Inflight \cup {NoEntry}]
        /\ PrunedEntry[p] = NoEntry
    BY <1>1, <1>3, <1>4, TableNow, Zenon DEF Exchange!GoodTable, Owned
  <1>9. /\ Entry'[p] = e /\ e # NoEntry
        /\ \A q \in PacketIds \ {p} : Entry'[q] = PrunedEntry[q]
    BY <1>3, <1>8, NoEntryAssumption, Zenon
  <1>10. Exchange!PrunesAt(Entry, [Entry EXCEPT ![p] = NoEntry], p)
    BY <1>4, <1>8, Zenon DEF Exchange!Prunes, Exchange!PrunesAt
  <1>11. Exchange!Promotes(p)
    BY <1>3, <1>4, <1>5, <1>9, <1>10, Zenon
    DEF Exchange!Promotes, Exchange!FirstState, FirstState
  <1>12. Exchange!Transmits(holding', Entry'[p])
    BY <1>3, <1>9, TransmissionOf, Zenon DEF e
  <1>13. \A q \in PacketIds \ {p} : Exchange!PrunesAt(Entry, Entry', q)
    BY <1>4, <1>9, Zenon DEF Exchange!Prunes, Exchange!PrunesAt
  <1>14. Exchange!GoodTable(Entry')
    BY TableOfSession, Zenon
  <1>15. Exchange!Take(p)
    BY <1>1, <1>3, <1>9, <1>11, <1>12, <1>13, <1>14, Zenon
    DEF Exchange!Take, Exchange!Owned, Exchange!clientVars, Exchange!historyVars,
        clientVars
  <1>16. Exchange!Next
    BY <1>15, Zenon DEF Exchange!Next
  <1> QED
    BY <1>5, <1>6, <1>7, <1>16, Zenon DEF Implements

\* Every packet a flush takes is one of the two.
LEMMA TakeStep ==
    ASSUME Ready, IInv', TakePacket
    PROVE  Implements
  <1>1. ASSUME NEW s \in Slots, DrainResend(receive_maximum, s),
               holding' = Transmission(PrunedInflight[s])
        PROVE  Implements
    BY <1>1, ResendStep, Zenon
  <1>2. ASSUME NEW s \in Slots, NEW p \in PacketIds,
               DrainPromote(receive_maximum, s, p),
               holding' = Transmission(inflight'[s])
        PROVE  Implements
    BY <1>2, PromoteStep, Zenon
  <1> QED
    BY <1>1, <1>2, Zenon DEF TakePacket

\* A packet reaches the connection.
LEMMA WriteStep ==
    ASSUME Ready, IInv', WritePacket
    PROVE  Implements
  <1>1. /\ LinkGood /\ UNCHANGED sessionVars /\ holding # NoPacket
        /\ toClient' = Append(toClient, holding)
        /\ written' = written \cup Publications(holding)
        /\ holding' = NoPacket
        /\ UNCHANGED <<link, receive_maximum, toBroker, clientVars, enqueued,
                      completed, refused>>
        /\ link \notin {"connecting", "down"}
    BY Zenon DEF Ready, WritePacket, Attached
  <1>2. LinkGood'
    BY <1>1, SessionSame, Zenon DEF LinkGood
  <1>3. Exchange!Write
    BY <1>1, SessionSame, Zenon
    DEF Exchange!Write, Exchange!sessionVars, Exchange!clientVars,
        Exchange!Publications, clientVars, Publications
  <1>4. Exchange!Next
    BY <1>3, Zenon DEF Exchange!Next
  <1> QED
    BY <1>1, <1>2, <1>4, SessionSame, Zenon DEF Implements

\* A PUBLISH that is not written is rolled back or dropped, and a PUBREL waits
\* for the next connection.
LEMMA DiscardStep ==
    ASSUME Ready, IInv', WriteFails \/ DropOversized
    PROVE  Implements
  <1> DEFINE p == holding.packet_id
  <1>1. /\ IInv /\ LinkGood /\ Distinct(queued) /\ holding # NoPacket /\ holding' = NoPacket
        /\ UNCHANGED <<link, receive_maximum, toClient, toBroker, clientVars,
                      enqueued, written, completed, refused>>
    BY Zenon DEF Ready, WriteFails, DropOversized, historyVars
  <1>2. p \in PacketIds /\ p \in Owned(Entry)
    BY <1>1, Zenon DEF Ready, Known, Owned
  <1>3. Entry \in [PacketIds -> Inflight \cup {NoEntry}]
    BY <1>1, ViewOfTable, Zenon DEF IInv, Entry, GoodView
  <1> DEFINE Outcome ==
        /\ queued' = queued /\ expired' = expired
        /\ SentPublishes(inflight') \subseteq SentPublishes(inflight)
        /\ Keeps(Entry, Entry')
        /\ \A q \in Owned(Entry) :
              Entry'[q] = Entry[q] \/ (q = p /\ holding.kind = "publish")
  <1>4. Outcome
    <2>1. CASE WriteFails /\ holding.kind = "publish"
      <3>1. RetryUnsentPublish(p)
        BY <2>1, Zenon DEF WriteFails
      <3>2. /\ Entry' = [Entry EXCEPT ![p] = Entry'[p]]
            /\ Entry'[p].publish = Entry[p].publish
            /\ Entry'[p].state = Entry[p].state
            /\ queued' = queued /\ expired' = expired
            /\ SentPublishes(inflight') \subseteq SentPublishes(inflight)
        BY <1>1, <1>2, <3>1, RetryView, Zenon
      <3>4. \A q \in PacketIds : q # p => Entry'[q] = Entry[q]
        BY <1>3, <3>2, Zenon
      <3>5. Keeps(Entry, Entry')
        BY <1>2, <3>2, <3>4, Zenon DEF Keeps, Owned
      <3> QED
        BY <2>1, <3>2, <3>4, <3>5, Zenon DEF Owned
    <2>2. CASE WriteFails /\ holding.kind # "publish"
      <3>1. UNCHANGED sessionVars
        BY <2>2, Zenon DEF WriteFails
      <3>2. queued' = queued /\ inflight' = inflight /\ expired' = expired
            /\ Entry' = Entry
        BY <3>1, SessionSame, Zenon
      <3> QED
        BY <3>2, Zenon DEF Keeps
    <2>3. CASE DropOversized
      <3>1. packet_index[p] # NoSlot /\ RemoveInflight(packet_index[p])
            /\ holding.kind = "publish"
        BY <2>3, Zenon DEF DropOversized, DropOversizedPublish
      <3>2. /\ Entry' = [Entry EXCEPT ![p] = NoEntry]
            /\ queued' = queued /\ expired' = expired
            /\ SentPublishes(inflight') \subseteq SentPublishes(inflight)
        BY <1>1, <1>2, <3>1, RemoveView, Zenon
      <3>4. /\ \A q \in PacketIds : q # p => Entry'[q] = Entry[q]
            /\ Entry'[p] = NoEntry
        BY <1>2, <1>3, <3>2, Zenon
      <3> QED
        BY <3>1, <3>2, <3>4, Zenon DEF Owned, Keeps
    <2> QED
      BY <2>1, <2>2, <2>3, Zenon
  <1>5. Waiting(queued)' = Waiting(queued) /\ Distinct(queued)'
    BY <1>1, <1>4, Zenon DEF Waiting, Distinct
  <1>6. WindowStep
    BY <1>1, <1>4, Zenon DEF WindowStep
  <1>7. LinkGood'
    BY <1>1, <1>4, Zenon DEF LinkGood
  <1>8. /\ Exchange!GoodTable(Entry') /\ Exchange!Keeps(Entry, Entry')
        /\ Exchange!Owned(Entry) = Owned(Entry)
    BY <1>4, TableOfSession, SameView, Zenon
  <1>9. Exchange!Discard
    BY <1>1, <1>4, <1>5, <1>8, Zenon
    DEF Exchange!Discard, Exchange!clientVars, Exchange!historyVars, clientVars
  <1>10. Exchange!Next
    BY <1>9, Zenon DEF Exchange!Next
  <1> QED
    BY <1>5, <1>6, <1>7, <1>10, Zenon DEF Implements

-----------------------------------------------------------------------------
(* Acknowledgements and the client.                                        *)

\* Both modules expect the same acknowledgements.
LEMMA SameExpected ==
    ASSUME IInv, NEW ack, ack.packet_id \in PacketIds
    PROVE  /\ Expects(ack) <=> Exchange!Expects(ack)
           /\ Expects(ack) => Acknowledged(ack) = Entry[ack.packet_id].publish
  <1> DEFINE p == ack.packet_id
  <1>1. Entry[p] = IF packet_index[p] = NoSlot THEN NoEntry ELSE inflight[packet_index[p]]
    BY Zenon DEF Entry, EntryOf
  <1>2. packet_index[p] # NoSlot <=> p \in Exchange!Owned(Entry)
    BY <1>1, OwnedEntry, SameView, Zenon DEF Exchange!Owned
  <1> HIDE DEF p
  <1>3. Expects(ack) <=> Exchange!Expects(ack)
    BY <1>1, <1>2, Zenon DEF Expects, Exchange!Expects, p
  <1>4. Expects(ack) => Acknowledged(ack) = Entry[p].publish
    BY <1>1, Zenon DEF Expects, Acknowledged, p
  <1> QED
    BY <1>3, <1>4, Zenon DEF p

\* The next acknowledgement is one of those a client sends.
LEMMA NextAck ==
    ASSUME Ready, toBroker # <<>>
    PROVE  /\ Head(toBroker).packet_id \in PacketIds
           /\ Head(toBroker).kind \in {"puback", "pubrec", "refused", "pubcomp"}
  <1>1. Head(toBroker) \in Ack
    BY DEF Ready, Known
  <1> QED
    BY <1>1, Zenon DEF Ack

\* handleAck ends a transaction, or takes it to its second half.
LEMMA AcceptsView ==
    ASSUME IInv, NEW ack, ack.packet_id \in PacketIds,
           ack.kind \in {"puback", "pubrec", "refused", "pubcomp"}, Accepts(ack)
    PROVE  /\ queued' = queued /\ expired' = expired
           /\ SentPublishes(inflight') \subseteq SentPublishes(inflight)
           /\ Exchange!Advances(ack)
  <1> DEFINE p == ack.packet_id
  <1>1. Entry \in [PacketIds -> Inflight \cup {NoEntry}] /\ p \in PacketIds
    BY ViewOfTable, Zenon DEF IInv, Entry, GoodView
  <1>2. CASE ack.kind = "pubrec"
    <2>1. PubRec(p)
      BY <1>2, Zenon DEF Accepts
    <2>2. /\ Entry' = [Entry EXCEPT ![p] = Entry'[p]]
          /\ Entry'[p] # NoEntry
          /\ Entry'[p].publish = Entry[p].publish
          /\ Entry'[p].state = "await_pubcomp"
          /\ queued' = queued /\ expired' = expired
          /\ SentPublishes(inflight') \subseteq SentPublishes(inflight)
      BY <1>1, <2>1, RetryView, Zenon
    <2>4. \A q \in PacketIds \ {p} : Entry'[q] = Entry[q]
      BY <1>1, <2>2, Zenon
    <2>5. Exchange!Advances(ack)
      BY <1>2, <2>2, <2>4, Zenon DEF Exchange!Advances
    <2> QED
      BY <2>2, <2>5, Zenon
  <1>3. CASE ack.kind # "pubrec"
    <2>1. packet_index[p] # NoSlot /\ RemoveInflight(packet_index[p])
      BY <1>3, Zenon DEF Accepts, PubAck, PubRecRefused, PubComp
    <2>2. /\ Entry' = [Entry EXCEPT ![p] = NoEntry]
          /\ queued' = queued /\ expired' = expired
          /\ SentPublishes(inflight') \subseteq SentPublishes(inflight)
      BY <1>1, <2>1, RemoveView, Zenon
    <2>4. \A q \in PacketIds \ {p} : Entry'[q] = Entry[q]
      BY <1>1, <2>2, Zenon
    <2>5. Entry'[p] = NoEntry
      BY <1>1, <2>2, Zenon
    <2>6. Exchange!Advances(ack)
      BY <1>3, <2>4, <2>5, Zenon DEF Exchange!Advances
    <2> QED
      BY <2>2, <2>6, Zenon
  <1> QED
    BY <1>2, <1>3, Zenon

\* An acknowledgement a transaction waits for.
LEMMA ExpectedStep ==
    ASSUME Ready, IInv', HandleExpectedAck
    PROVE  Implements
  <1> DEFINE ack == Head(toBroker)
  <1>1. /\ IInv /\ LinkGood /\ Distinct(queued) /\ holding = NoPacket /\ toBroker # <<>>
        /\ link \notin {"connecting", "down"}
        /\ Expects(ack) /\ Accepts(ack)
        /\ completed' = IF ack.kind \in {"puback", "pubcomp"}
                        THEN completed \cup {Acknowledged(ack)} ELSE completed
        /\ refused' = IF ack.kind = "refused"
                      THEN refused \cup {Acknowledged(ack)} ELSE refused
        /\ toBroker' = Tail(toBroker)
        /\ UNCHANGED <<link, receive_maximum, holding, toClient, clientVars,
                      enqueued, written>>
    BY Zenon DEF Ready, HandleExpectedAck, CanRead
  <1>2. /\ ack.packet_id \in PacketIds
        /\ ack.kind \in {"puback", "pubrec", "refused", "pubcomp"}
    BY <1>1, NextAck, Zenon
  <1> HIDE DEF ack
  <1>3. /\ queued' = queued /\ expired' = expired
        /\ SentPublishes(inflight') \subseteq SentPublishes(inflight)
        /\ Exchange!Advances(ack)
    BY <1>1, <1>2, AcceptsView, Zenon
  <1>4. Exchange!Expects(ack) /\ Acknowledged(ack) = Entry[ack.packet_id].publish
    BY <1>1, <1>2, SameExpected, Zenon
  <1>5. Waiting(queued)' = Waiting(queued) /\ Distinct(queued)'
    BY <1>1, <1>3, Zenon DEF Waiting, Distinct
  <1>6. WindowStep
    BY <1>1, <1>3, Zenon DEF WindowStep
  <1>7. LinkGood'
    BY <1>1, <1>3, Zenon DEF LinkGood
  <1>8. Exchange!GoodTable(Entry')
    BY TableOfSession, Zenon
  <1>9. Exchange!Acknowledge
    BY <1>1, <1>3, <1>4, <1>5, <1>8, Zenon
    DEF Exchange!Acknowledge, Exchange!clientVars, clientVars, ack
  <1>10. Exchange!Next
    BY <1>9, Zenon DEF Exchange!Next
  <1> QED
    BY <1>5, <1>6, <1>7, <1>10, Zenon DEF Implements

\* An acknowledgement nothing waits for.
LEMMA UnexpectedStep ==
    ASSUME Ready, IInv', HandleUnexpectedAck
    PROVE  Implements
  <1>1. /\ IInv /\ LinkGood /\ toBroker # <<>> /\ ~Expects(Head(toBroker))
        /\ toBroker' = Tail(toBroker) /\ link' = "closing"
        /\ UNCHANGED sessionVars
        /\ UNCHANGED <<receive_maximum, holding, toClient, clientVars, enqueued,
                      written, completed, refused>>
    BY Zenon DEF Ready, HandleUnexpectedAck, CanRead, historyVars
  <1>2. ~Exchange!Expects(Head(toBroker))
    BY <1>1, NextAck, SameExpected, Zenon
  <1>3. LinkGood'
    BY <1>1, SessionSame, Zenon DEF LinkGood
  <1>4. Exchange!Disregard
    BY <1>1, <1>2, SessionSame, Zenon
    DEF Exchange!Disregard, Exchange!sessionVars, Exchange!clientVars,
        Exchange!historyVars, clientVars
  <1>5. Exchange!Next
    BY <1>4, Zenon DEF Exchange!Next
  <1> QED
    BY <1>1, <1>3, <1>5, SessionSame, Zenon DEF Implements

\* The client does here what it does there.
LEMMA ClientStep ==
    ASSUME Ready, IInv', Client
    PROVE  Implements
  <1>1. /\ LinkGood /\ UNCHANGED sessionVars /\ toClient # <<>>
        /\ UNCHANGED <<link, receive_maximum, holding, flushing, historyVars>>
    BY Zenon DEF Ready, Client, ClientTakesQoS1, ClientTakesQoS2, ClientRefusesQoS2,
           ClientReleases, Answer
  <1>2. Waiting(queued)' = Waiting(queued) /\ Entry' = Entry
    BY <1>1, SessionSame, Zenon
  <1>3. LinkGood'
    BY <1>1, SessionSame, Zenon DEF LinkGood
  <1>4. Distinct(queued)' /\ WindowStep
    BY <1>1, SessionSame, Zenon
  <1>5. \A kind, packet : Answer(kind, packet) => Exchange!Answer(kind, packet)
    BY <1>1, <1>2, Zenon DEF Answer, Exchange!Answer, Exchange!sessionVars,
           Exchange!historyVars, historyVars
  <1>6. \A packet : DeliverToApplication(packet) => Exchange!DeliverToApplication(packet)
    BY Zenon DEF DeliverToApplication, Exchange!DeliverToApplication, ManyTimes,
           Exchange!ManyTimes
  <1>7. CASE ClientTakesQoS1
    <2>1. Exchange!ClientTakesQoS1
      BY <1>5, <1>6, <1>7, Zenon DEF ClientTakesQoS1, Exchange!ClientTakesQoS1
    <2> QED
      BY <1>3, <1>4, <2>1, Zenon DEF Implements, Exchange!Next
  <1>8. CASE ClientTakesQoS2
    <2>1. Exchange!ClientTakesQoS2
      BY <1>5, <1>6, <1>8, Zenon DEF ClientTakesQoS2, Exchange!ClientTakesQoS2
    <2> QED
      BY <1>3, <1>4, <2>1, Zenon DEF Implements, Exchange!Next
  <1>9. CASE ClientRefusesQoS2
    <2>1. Refusable \subseteq QoS2Messages
      BY DeliveryAssumption, Zenon
    <2>2. Exchange!ClientRefusesQoS2
      BY <1>5, <1>9, <2>1, Zenon
      DEF ClientRefusesQoS2, Exchange!ClientRefusesQoS2, clientVars,
          Exchange!clientVars
    <2> QED
      BY <1>3, <1>4, <2>2, Zenon DEF Implements, Exchange!Next
  <1>10. CASE ClientReleases
    <2>1. Exchange!ClientReleases
      BY <1>5, <1>10, Zenon DEF ClientReleases, Exchange!ClientReleases
    <2> QED
      BY <1>3, <1>4, <2>1, Zenon DEF Implements, Exchange!Next
  <1> QED
    BY <1>7, <1>8, <1>9, <1>10, Zenon DEF Client

\* Every step of the broker, the clock, the network and the client.
LEMMA DeliveryStep ==
    ASSUME Ready, IInv', RestoresAll, [DeliveryNext]_vars
    PROVE  Implements
  <1>1. CASE Attach \/ Break
    BY <1>1, AttachStep, Zenon
  <1>2. CASE AbortRegistration \/ ReaderStops \/ \E r \in ReceiveMaximums : Register(r)
    BY <1>2, ConnectionStep, Zenon
  <1>3. ASSUME NEW items \in Orders(MaxQueued), NEW order \in Orders(MaxInflight),
               Restart(items, order)
        PROVE  Implements
    <2>1. Restored(order)
      BY <1>3, Zenon DEF Restart, RestoresAll
    <2> QED
      BY <1>3, <2>1, RestartStep, Zenon
  <1>4. ASSUME NEW m \in Messages, Expire(m)
        PROVE  Implements
    BY <1>4, ExpireStep, Zenon
  <1>5. ASSUME NEW m \in Messages, NEW order \in Orders(MaxQueued), Publish(m, order)
        PROVE  Implements
    BY <1>5, PublishStep, Zenon
  <1>6. CASE Broker
    BY <1>6, TakeStep, FlushStep, WriteStep, DiscardStep, ExpectedStep,
       UnexpectedStep, Zenon DEF Broker
  <1>7. CASE Client
    BY <1>7, ClientStep, Zenon
  <1>8. CASE UNCHANGED vars
    <2>1. /\ LinkGood /\ UNCHANGED sessionVars
          /\ UNCHANGED <<link, receive_maximum, holding, toClient, toBroker, received,
                        delivered, enqueued, written, completed, refused>>
      BY <1>8, Zenon DEF Ready, vars, linkVars, clientVars, historyVars
    <2>2. LinkGood'
      BY <2>1, SessionSame, Zenon DEF LinkGood
    <2>3. UNCHANGED Exchange!vars
      BY <2>1, SessionSame, Zenon
      DEF Exchange!vars, Exchange!sessionVars, Exchange!linkVars, Exchange!clientVars,
          Exchange!historyVars
    <2> QED
      BY <2>1, <2>2, <2>3, SessionSame, Zenon DEF Implements
  <1> QED
    BY <1>1, <1>2, <1>3, <1>4, <1>5, <1>6, <1>7, <1>8, Zenon DEF DeliveryNext

-----------------------------------------------------------------------------
(* The broker uses a Session through its Store operations only.            *)

\* Every step of the broker is a Store operation or leaves the Session alone.
LEMMA SessionStep ==
    ASSUME Ready, [DeliveryNext]_vars
    PROVE  [Next]_sessionVars
  <1>1. CASE Attach \/ Break \/ WritePacket \/ HandleUnexpectedAck
    BY <1>1, Zenon DEF Attach, Break, WritePacket, HandleUnexpectedAck
  <1>2. CASE AbortRegistration \/ ReaderStops \/ \E r \in ReceiveMaximums : Register(r)
    BY <1>2, Zenon DEF AbortRegistration, ReaderStops, Unregister, Register, Next
  <1>3. ASSUME NEW items \in Orders(MaxQueued), NEW order \in Orders(MaxInflight),
               Restart(items, order)
        PROVE  Next
    BY <1>3, Zenon DEF Restart, Next
  <1>4. ASSUME NEW m \in Messages, Expire(m)
        PROVE  Next
    BY <1>4, Zenon DEF Expire, Next
  <1>5. ASSUME NEW m \in Messages, NEW order \in Orders(MaxQueued), Publish(m, order)
        PROVE  Next
    BY <1>5, Zenon DEF Publish, Next
  <1>6. CASE TakePacket \/ FlushReturns \/ FlushFails
    <2>1. receive_maximum \in ReceiveMaximums
      BY Zenon DEF Ready, LinkGood
    <2>2. Drain(receive_maximum)
      BY <1>6, Zenon DEF TakePacket, FlushReturns, FlushFails, Drain
    <2> QED
      BY <2>1, <2>2, Zenon DEF Next
  <1>7. CASE WriteFails \/ DropOversized
    <2>1. holding.packet_id \in PacketIds
      BY <1>7, Zenon DEF Ready, Known, Owned, WriteFails, DropOversized
    <2>2. \/ RetryUnsentPublish(holding.packet_id)
          \/ DropOversizedPublish(holding.packet_id)
          \/ UNCHANGED sessionVars
      BY <1>7, Zenon DEF WriteFails, DropOversized
    <2> QED
      BY <2>1, <2>2, Zenon DEF Next
  <1>8. CASE HandleExpectedAck
    <2> DEFINE ack == Head(toBroker)
    <2>1. Accepts(ack) /\ toBroker # <<>>
      BY <1>8, Zenon DEF HandleExpectedAck, CanRead
    <2>2. /\ ack.packet_id \in PacketIds
          /\ ack.kind \in {"puback", "pubrec", "refused", "pubcomp"}
      BY <2>1, NextAck, Zenon
    <2> HIDE DEF ack
    <2>3. HandleAck(ack.packet_id)
      BY <2>1, <2>2, Zenon DEF Accepts, HandleAck
    <2> QED
      BY <2>2, <2>3, Zenon DEF Next
  <1>9. CASE Client
    BY <1>9, Zenon DEF Client, ClientTakesQoS1, ClientTakesQoS2, ClientRefusesQoS2,
                ClientReleases, Answer
  <1>10. CASE UNCHANGED vars
    BY <1>10, Zenon DEF vars
  <1> QED
    BY <1>1, <1>2, <1>3, <1>4, <1>5, <1>6, <1>7, <1>8, <1>9, <1>10, Zenon
    DEF DeliveryNext, Broker
=============================================================================

---------------------------- MODULE SessionState ----------------------------
(***************************************************************************)
(* The outgoing half of one MQTT Session: the queue of QoS 1 and QoS 2     *)
(* publications waiting for credit, the inflight table of transmitted      *)
(* ones, and the index from Packet Identifier to inflight slot             *)
(* (src/mqtt/session/mod.zig, struct Session and the operations of Store   *)
(* that change those fields).                                              *)
(*                                                                         *)
(* The module models the operations as an API: any of them may be called   *)
(* in any state, as the Store itself allows.  SessionDelivery restricts    *)
(* them to the calls the broker makes and adds the network and the peer.   *)
(*                                                                         *)
(* Abstractions.  A publication is a value of Messages; its bytes and      *)
(* properties are left out.  The clock is left out as well: `expired` is   *)
(* the set of messages whose Message Expiry Interval has elapsed, and it   *)
(* only grows.  The queue keeps the representation of the code, a list     *)
(* with tombstones and a cursor; positions count from 1.  The inflight     *)
(* list is a function on 1..MaxInflight whose NoEntry values are the null  *)
(* slots and those not yet appended; a new entry takes the lowest one.     *)
(***************************************************************************)
EXTENDS Integers, Sequences, FiniteSets

CONSTANTS Messages,         \* publications the broker may enqueue
          QoS2Messages,     \* those with QoS 2; the others have QoS 1
          MaxQueued,        \* options.max_queued_per_session
          MaxInflight,      \* min(options.max_inflight_per_session, 65535)
          MaxPacketId,      \* 65535 in the code
          ReceiveMaximums,  \* values of connection.max_outgoing_inflight
          NoMessage,        \* a null element (tombstone) of the queue
          NoEntry,          \* a null element of the inflight list
          NoSlot            \* a Packet Identifier absent from packet_index

ASSUME SessionAssumption ==
    /\ QoS2Messages \subseteq Messages
    /\ NoMessage \notin Messages
    /\ MaxQueued \in Nat
    /\ MaxPacketId \in Nat \ {0}
    /\ MaxInflight \in 1..MaxPacketId
    /\ ReceiveMaximums \subseteq Nat \ {0}
    /\ NoSlot \notin 1..MaxInflight

VARIABLES
    connected,        \* session.connected
    queued,           \* session.queued
    queued_head,      \* session.queued_head
    queued_count,     \* session.queued_count
    inflight,         \* session.inflight
    packet_index,     \* session.packet_index
    inflight_count,   \* session.inflight_count
    next_packet_id,   \* session.next_packet_id
    expired           \* messages past their Message Expiry Interval

queueVars == <<queued, queued_head, queued_count>>
inflightVars == <<inflight, packet_index, inflight_count>>
sessionVars == <<connected, queueVars, inflightVars, next_packet_id, expired>>

-----------------------------------------------------------------------------

Slots == 1..MaxInflight
PacketIds == 1..MaxPacketId

InflightState == {"await_puback", "await_pubrec", "await_pubcomp"}

Inflight == [publish        : Messages,
             packet_id      : PacketIds,
             state          : InflightState,
             needs_send     : BOOLEAN,
             retransmission : BOOLEAN]

ASSUME NoEntryAssumption == NoEntry \notin Inflight

\* Type correctness of one Session's transmission state.
TypeOK ==
    /\ connected \in BOOLEAN
    /\ queued \in Seq(Messages \cup {NoMessage})
    /\ queued_head \in Nat \ {0}
    /\ queued_count \in Nat
    /\ inflight \in [Slots -> Inflight \cup {NoEntry}]
    /\ packet_index \in [PacketIds -> Slots \cup {NoSlot}]
    /\ inflight_count \in Nat
    /\ next_packet_id \in PacketIds
    /\ expired \subseteq Messages

Used(table) == {s \in DOMAIN table : table[s] # NoEntry}

\* Mutant of Prunable: Message Expiry also ends accepted transactions.
PrunableMutant(s) ==
    /\ inflight[s] # NoEntry
    /\ inflight[s].publish \in expired

\* drainInto removes a PUBLISH whose lifetime is over, but never a
\* transaction the peer has already accepted.
Prunable(s) ==
    /\ inflight[s] # NoEntry
    /\ inflight[s].state # "await_pubcomp"
    /\ inflight[s].publish \in expired

\* Positions of the queue that hold a publication.
Live(q) == {i \in 1..Len(q) : q[i] # NoMessage}

Least(S) == CHOOSE i \in S : \A j \in S : i <= j

\* advanceQueueHead: skip the tombstones at the cursor, and start over at the
\* front once nothing is left.  The cursor and items it leaves behind for a
\* list q with n live publications and the cursor at h.
AdvancedItems(q, n) == IF n = 0 THEN <<>> ELSE q
AdvancedHead(q, h, n) ==
    IF n = 0 THEN 1 ELSE Least({i \in Live(q) : i >= h} \cup {Len(q) + 1})

\* The part of pruneExpiredPublishes that concerns the queue.
ExpiredItems == {i \in Live(queued) : i >= queued_head /\ queued[i] \in expired}
PrunedItems ==
    [i \in 1..Len(queued) |-> IF i \in ExpiredItems THEN NoMessage
                                                    ELSE queued[i]]
PrunedQueuedCount == queued_count - Cardinality(ExpiredItems)
PrunedQueue == AdvancedItems(PrunedItems, PrunedQueuedCount)
PrunedHead == AdvancedHead(PrunedItems, queued_head, PrunedQueuedCount)

PrunedInflight ==
    [s \in Slots |-> IF Prunable(s) THEN NoEntry ELSE inflight[s]]

\* Mutant of PrunedIndex: the identifier of a pruned entry is not removed.
PrunedIndexMutant == packet_index

PrunedIndex ==
    [p \in PacketIds |->
        IF packet_index[p] \in Slots /\ Prunable(packet_index[p])
        THEN NoSlot ELSE packet_index[p]]

PrunedCount == inflight_count - Cardinality({s \in Slots : Prunable(s)})

-----------------------------------------------------------------------------
(* Life of the Session.                                                    *)

\* Store.open of a new Session.
Fresh ==
    [connected |-> TRUE, queued |-> <<>>, queued_head |-> 1,
     queued_count |-> 0, inflight |-> [s \in Slots |-> NoEntry],
     packet_index |-> [p \in PacketIds |-> NoSlot], inflight_count |-> 0,
     next_packet_id |-> 1]

Init ==
    /\ connected = Fresh.connected
    /\ queued = Fresh.queued
    /\ queued_head = Fresh.queued_head
    /\ queued_count = Fresh.queued_count
    /\ inflight = Fresh.inflight
    /\ packet_index = Fresh.packet_index
    /\ inflight_count = Fresh.inflight_count
    /\ next_packet_id = Fresh.next_packet_id
    /\ expired = {}

\* Store.removeAt followed by Store.open: Clean Start, or a new CONNECT after
\* the Session was discarded or had expired.
OpenClean ==
    /\ connected' = Fresh.connected
    /\ queued' = Fresh.queued
    /\ queued_head' = Fresh.queued_head
    /\ queued_count' = Fresh.queued_count
    /\ inflight' = Fresh.inflight
    /\ packet_index' = Fresh.packet_index
    /\ inflight_count' = Fresh.inflight_count
    /\ next_packet_id' = Fresh.next_packet_id
    /\ UNCHANGED expired

\* Mutant of AllToRetransmit: a reconnect starts every transaction over.
AllToRetransmitMutant ==
    [s \in Slots |->
        IF inflight[s] = NoEntry THEN NoEntry
        ELSE [inflight[s] EXCEPT
                !.state = IF @ = "await_pubcomp" THEN "await_pubrec" ELSE @,
                !.needs_send = TRUE, !.retransmission = TRUE]]

\* Every inflight entry has to be offered again on the next connection.
AllToRetransmit ==
    [s \in Slots |->
        IF inflight[s] = NoEntry THEN NoEntry
        ELSE [inflight[s] EXCEPT !.needs_send = TRUE,
                                 !.retransmission = TRUE]]

\* Store.open without Clean Start on an existing Session: a reconnect, or the
\* takeover of a live connection.
OpenResume ==
    /\ connected' = TRUE
    /\ inflight' = AllToRetransmit
    /\ UNCHANGED <<queueVars, packet_index, inflight_count, next_packet_id,
                   expired>>

\* Store.disconnect with a Session Expiry Interval other than zero.
Disconnect ==
    /\ connected' = FALSE
    /\ inflight' = AllToRetransmit
    /\ UNCHANGED <<queueVars, packet_index, inflight_count, next_packet_id,
                   expired>>

\* The clock passes the end of a message's lifetime.
MessageExpires(m) ==
    /\ m \in Messages \ expired
    /\ expired' = expired \cup {m}
    /\ UNCHANGED <<connected, queueVars, inflightVars, next_packet_id>>

-----------------------------------------------------------------------------
(* Queueing.                                                               *)

\* order lists the numbers of K from the lowest to the highest.
Lists(order, K) ==
    /\ \A i, j \in 1..Len(order) : i < j => order[i] < order[j]
    /\ {order[i] : i \in 1..Len(order)} = K

\* The candidates for such an order with at most n elements of 1..n.
Orders(n) == UNION {[1..k -> 1..n] : k \in 0..n}

NeedsCompaction == queued_count # 0 /\ Len(queued) >= MaxQueued

\* Store.enqueuePublish returning .queued: append, after dropping the storage
\* of an empty queue or compacting one whose list has no room left (order is
\* then the list of live positions).  With max_queued_per_session messages
\* waiting it returns QueueFull, which the broker swallows, and for a message
\* whose lifetime is zero it returns .expired; both leave the Session alone.
EnqueuePublish(m, order) ==
    /\ queued_count < MaxQueued
    /\ m \notin expired
    /\ \/ /\ queued_count = 0
          /\ order = <<>>
          /\ queued' = <<m>>
          /\ queued_head' = 1
       \/ /\ NeedsCompaction
          /\ Lists(order, {i \in Live(queued) : i >= queued_head})
          /\ queued' = Append([i \in 1..Len(order) |-> queued[order[i]]], m)
          /\ queued_head' = 1
       \/ /\ queued_count # 0
          /\ ~NeedsCompaction
          /\ order = <<>>
          /\ queued' = Append(queued, m)
          /\ UNCHANGED queued_head
    /\ queued_count' = queued_count + 1
    /\ UNCHANGED <<connected, inflightVars, next_packet_id, expired>>

-----------------------------------------------------------------------------
(* Transmission.                                                           *)

\* countSentPublishInflight: the part of the peer's Receive Maximum in use.
SentPublishes(table) ==
    {s \in Used(table) : /\ table[s].state # "await_pubcomp"
                         /\ ~table[s].needs_send}

WindowOpen(table, receive_maximum) ==
    Cardinality(SentPublishes(table)) < receive_maximum

\* Mutant of Resendable: retransmissions ignore the window.
ResendableMutant(table, receive_maximum) ==
    {s \in Used(table) : table[s].needs_send}

\* The entries drainInto offers again: a PUBREL always, a PUBLISH only inside
\* the window of the current connection.
Resendable(table, receive_maximum) ==
    {s \in Used(table) : /\ table[s].needs_send
                         /\ \/ table[s].state = "await_pubcomp"
                            \/ WindowOpen(table, receive_maximum)}

IsFirst(s, S) == s \in S /\ \A t \in S : s <= t

\* pruneExpiredPublishes, the first step of every drain.
PruneQueue ==
    /\ queued' = PrunedQueue
    /\ queued_head' = PrunedHead
    /\ queued_count' = PrunedQueuedCount

PruneOnly ==
    /\ PruneQueue
    /\ inflight' = PrunedInflight
    /\ packet_index' = PrunedIndex
    /\ inflight_count' = PrunedCount
    /\ UNCHANGED <<connected, next_packet_id, expired>>

\* drainInto with room for one transmission (the broker's storage) picks the
\* first entry, in slot order, that has to be sent again.
DrainResend(receive_maximum, s) ==
    /\ IsFirst(s, Resendable(PrunedInflight, receive_maximum))
    /\ PruneQueue
    /\ inflight' = [PrunedInflight EXCEPT ![s].needs_send = FALSE]
    /\ packet_index' = PrunedIndex
    /\ inflight_count' = PrunedCount
    /\ UNCHANGED <<connected, next_packet_id, expired>>

CanPromote(receive_maximum) ==
    /\ Resendable(PrunedInflight, receive_maximum) = {}
    /\ WindowOpen(PrunedInflight, receive_maximum)
    /\ PrunedQueuedCount # 0

\* reservePacketId: the next identifier, cyclically from next_packet_id, that
\* no inflight transaction owns.
Distance(p) == (p - next_packet_id) % MaxPacketId

\* Mutant of IsReserved: an identifier that is still owned is given out again.
IsReservedMutant(p, index) == Distance(p) = 0

IsReserved(p, index) ==
    /\ index[p] = NoSlot
    /\ \A q \in PacketIds : index[q] = NoSlot => Distance(p) <= Distance(q)

IdAfter(p) == (p % MaxPacketId) + 1

FirstState(m) == IF m \in QoS2Messages THEN "await_pubrec" ELSE "await_puback"

\* Mutant of TakenItems: the cursor moves on, and the item stays in the list.
TakenItemsMutant == PrunedQueue

TakenItems == [PrunedQueue EXCEPT ![PrunedHead] = NoMessage]

\* Otherwise drainInto moves the head of the queue into the lowest free slot.
DrainPromote(receive_maximum, s, p) ==
    LET n == PrunedQueuedCount - 1 IN
    /\ CanPromote(receive_maximum)
    /\ PrunedCount + 1 <= MaxInflight
    /\ IsReserved(p, PrunedIndex)
    /\ IsFirst(s, Slots \ Used(PrunedInflight))
    /\ queued' = AdvancedItems(TakenItems, n)
    /\ queued_head' = AdvancedHead(TakenItems, PrunedHead + 1, n)
    /\ queued_count' = n
    /\ inflight' =
         [PrunedInflight EXCEPT ![s] =
            [publish        |-> PrunedQueue[PrunedHead],
             packet_id      |-> p,
             state          |-> FirstState(PrunedQueue[PrunedHead]),
             needs_send     |-> FALSE,
             retransmission |-> FALSE]]
    /\ packet_index' = [PrunedIndex EXCEPT ![p] = s]
    /\ inflight_count' = PrunedCount + 1
    /\ next_packet_id' = IdAfter(p)
    /\ UNCHANGED <<connected, expired>>

\* error.InflightFull: a message waits, the window is open, and the table is
\* full of transactions that do not count against the window.
DrainInflightFull(receive_maximum) ==
    /\ CanPromote(receive_maximum)
    /\ PrunedCount + 1 > MaxInflight
    /\ PruneOnly

\* Nothing to send.
DrainIdle(receive_maximum) ==
    /\ Resendable(PrunedInflight, receive_maximum) = {}
    /\ ~CanPromote(receive_maximum)
    /\ PruneOnly

\* Store.retryUnsentPublish: the PUBLISH just drained never left the broker.
RetryUnsentPublish(p) ==
    LET s == packet_index[p] IN
    /\ s # NoSlot
    /\ inflight[s].state # "await_pubcomp"
    /\ inflight' = [inflight EXCEPT ![s].needs_send = TRUE,
                                    ![s].retransmission = FALSE]
    /\ UNCHANGED <<connected, queueVars, packet_index, inflight_count,
                   next_packet_id, expired>>

-----------------------------------------------------------------------------
(* Completion.                                                             *)

RemoveInflight(s) ==
    /\ inflight' = [inflight EXCEPT ![s] = NoEntry]
    /\ packet_index' = [packet_index EXCEPT ![inflight[s].packet_id] = NoSlot]
    /\ inflight_count' = inflight_count - 1
    /\ UNCHANGED <<connected, queueVars, next_packet_id, expired>>

\* Store.dropOversizedPublish: the peer's Maximum Packet Size excludes it.
DropOversizedPublish(p) ==
    LET s == packet_index[p] IN
    /\ s # NoSlot
    /\ inflight[s].state # "await_pubcomp"
    /\ RemoveInflight(s)

\* Store.handleAck, one action per acknowledgement it accepts.
PubAck(p) ==
    LET s == packet_index[p] IN
    /\ s # NoSlot
    /\ inflight[s].state = "await_puback"
    /\ RemoveInflight(s)

PubRecRefused(p) ==
    LET s == packet_index[p] IN
    /\ s # NoSlot
    /\ inflight[s].state = "await_pubrec"
    /\ RemoveInflight(s)

PubRec(p) ==
    LET s == packet_index[p] IN
    /\ s # NoSlot
    /\ inflight[s].state = "await_pubrec"
    /\ inflight' = [inflight EXCEPT ![s].state = "await_pubcomp",
                                    ![s].needs_send = TRUE,
                                    ![s].retransmission = FALSE]
    /\ UNCHANGED <<connected, queueVars, packet_index, inflight_count,
                   next_packet_id, expired>>

PubComp(p) ==
    LET s == packet_index[p] IN
    /\ s # NoSlot
    /\ inflight[s].state = "await_pubcomp"
    /\ RemoveInflight(s)

-----------------------------------------------------------------------------
(* Shutdown with Broker.saveSnapshot and restart with restoreSnapshot.     *)

Kept(s) == inflight[s] # NoEntry /\ ~Prunable(s)

RestoredQueue(items) == [i \in 1..Len(items) |-> queued[items[i]]]

RestoredInflight(order) ==
    [s \in Slots |->
        IF s <= Len(order)
        THEN [inflight[order[s]] EXCEPT
                !.needs_send = TRUE,
                !.retransmission = inflight[order[s]].state # "await_pubcomp"]
        ELSE NoEntry]

RestoredIndex(order) ==
    [p \in PacketIds |->
        IF packet_index[p] # NoSlot /\ Kept(packet_index[p])
        THEN CHOOSE i \in 1..Len(order) : order[i] = packet_index[p]
        ELSE NoSlot]

\* writeSnapshot skips what has expired; restoreSession reads the rest back
\* into the front of a fresh queue (the positions items) and a fresh table
\* (the slots order), everything inflight to be sent again.
SaveAndRestore(items, order) ==
    /\ ~connected
    /\ Lists(items, Live(PrunedItems))
    /\ Lists(order, {s \in Slots : Kept(s)})
    /\ queued' = RestoredQueue(items)
    /\ queued_head' = 1
    /\ queued_count' = Len(items)
    /\ inflight' = RestoredInflight(order)
    /\ packet_index' = RestoredIndex(order)
    /\ inflight_count' = Len(order)
    /\ UNCHANGED <<connected, next_packet_id, expired>>

-----------------------------------------------------------------------------

Drain(receive_maximum) ==
    \/ \E s \in Slots : DrainResend(receive_maximum, s)
    \/ \E s \in Slots, p \in PacketIds : DrainPromote(receive_maximum, s, p)
    \/ DrainInflightFull(receive_maximum)
    \/ DrainIdle(receive_maximum)

HandleAck(p) == PubAck(p) \/ PubRecRefused(p) \/ PubRec(p) \/ PubComp(p)

Next ==
    \/ OpenClean
    \/ OpenResume
    \/ Disconnect
    \/ \E m \in Messages :
         \/ MessageExpires(m)
         \/ \E order \in Orders(MaxQueued) : EnqueuePublish(m, order)
    \/ \E r \in ReceiveMaximums : Drain(r)
    \/ \E p \in PacketIds :
         RetryUnsentPublish(p) \/ DropOversizedPublish(p) \/ HandleAck(p)
    \/ \E items \in Orders(MaxQueued), order \in Orders(MaxInflight) :
         SaveAndRestore(items, order)

Spec == Init /\ [][Next]_sessionVars

-----------------------------------------------------------------------------
(* Properties.                                                             *)

\* No waiting publication is counted twice, forgotten or stranded behind the
\* cursor: queued_count is the number of live positions, all of them at or
\* after queued_head, and the cursor of a queue that is not empty is on one
\* (drainInto trusts all three when it takes from the head).
QueueExact ==
    /\ queued_count = Cardinality(Live(queued))
    /\ \A i \in Live(queued) : i >= queued_head
    /\ queued_count # 0 => queued_head \in Live(queued)

\* Tombstones do not accumulate: however many messages a Session has seen
\* since CONNECT, its list stays within max_queued_per_session (compactQueue
\* and the reset in advanceQueueHead).
QueueStorageBounded == Len(queued) <= MaxQueued

IndexExact(table, index) ==
    \A p \in PacketIds, s \in Slots :
        index[p] = s <=> table[s] # NoEntry /\ table[s].packet_id = p

\* packet_index and the inflight list describe the same transactions: every
\* Packet Identifier in use is found by handleAck at the slot that owns it,
\* no freed slot stays reachable and no identifier is owned twice
\* (removeInflight, drainInto and restoreSession update both by hand).
PacketIndexExact == IndexExact(inflight, packet_index)

\* inflight_count, against which drainInto checks max_inflight_per_session
\* before it appends without a further check, is the number of live entries.
InflightCountExact == inflight_count = Cardinality(Used(inflight))

\* A transaction waits for the acknowledgement its QoS calls for, whatever
\* mixture of retries, reconnects and restarts it has been through.
StateMatchesQoS ==
    \A s \in Used(inflight) :
        inflight[s].state = "await_puback"
            <=> inflight[s].publish \notin QoS2Messages

\* After any sequence of Store operations the queue's cursor and counter, the
\* Packet Identifier index and the inflight counter are exact, which drainInto,
\* handleAck and removeInflight take for granted, and no list outgrows its limit.
SessionConsistent ==
    /\ TypeOK
    /\ QueueExact /\ QueueStorageBounded
    /\ PacketIndexExact /\ InflightCountExact
    /\ StateMatchesQoS

PubRelOwed(p) ==
    packet_index[p] # NoSlot /\ inflight[packet_index[p]].state = "await_pubcomp"

\* Once the peer's PUBREC is accepted the transaction is owed a PUBREL until
\* PUBCOMP arrives: neither Message Expiry, nor dropOversizedPublish, nor a
\* reconnect, nor a restart from a snapshot may forget it or move it back.
\* Only discarding the whole Session ends it early.
PubRelNeverForgotten ==
    [][\A p \in PacketIds :
          PubRelOwed(p) => PubRelOwed(p)' \/ PubComp(p) \/ OpenClean]_sessionVars

=============================================================================

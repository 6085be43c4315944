---------------------------- MODULE SessionView ----------------------------
(***************************************************************************)
(* Two views of a Session that the proofs share: the inductive invariant   *)
(* of SessionState, and the Session by Packet Identifier, that is the      *)
(* transaction every identifier owns and the set of waiting messages,      *)
(* without slots, queue positions, cursors and counters.                   *)
(***************************************************************************)
EXTENDS SessionState

-----------------------------------------------------------------------------
(* The inductive invariant.                                                *)

Item == Messages \cup {NoMessage}

\* What QueueExact says of a list, its cursor and its counter.
Exact(q, h, n) ==
    /\ n = Cardinality(Live(q))
    /\ \A i \in Live(q) : i >= h
    /\ n # 0 => h \in Live(q)

GoodQueue(q, h, n) ==
    /\ q \in Seq(Item)
    /\ h \in Nat \ {0}
    /\ Exact(q, h, n)
    /\ Len(q) <= MaxQueued

StatesMatch(t) ==
    \A s \in Used(t) :
        t[s].state = "await_puback" <=> t[s].publish \notin QoS2Messages

GoodTable(t, x, n) ==
    /\ t \in [Slots -> Inflight \cup {NoEntry}]
    /\ x \in [PacketIds -> Slots \cup {NoSlot}]
    /\ IndexExact(t, x)
    /\ n = Cardinality(Used(t))
    /\ StatesMatch(t)

\* All invariants together.  None of those about the inflight table is
\* inductive alone: removeInflight clears the index entry that the inflight
\* entry names, which is the right one only while the index is exact, and it
\* decrements a counter that is positive only while the counter is exact.
IInv ==
    /\ connected \in BOOLEAN
    /\ next_packet_id \in PacketIds
    /\ expired \subseteq Messages
    /\ GoodQueue(queued, queued_head, queued_count)
    /\ GoodTable(inflight, packet_index, inflight_count)

\* What pruneExpiredPublishes leaves behind is consistent.
PrunedGood ==
    /\ GoodQueue(PrunedQueue, PrunedHead, PrunedQueuedCount)
    /\ GoodTable(PrunedInflight, PrunedIndex, PrunedCount)

\* Each entry the snapshot keeps is found again under its own identifier.
Restored(order) ==
    /\ Len(order) \in Nat
    /\ Len(order) = Cardinality({s \in Slots : Kept(s)})
    /\ Len(order) <= MaxInflight
    /\ \A i, j \in 1..Len(order) : order[i] = order[j] => i = j
    /\ \A i \in 1..Len(order) :
          /\ order[i] \in Slots
          /\ Kept(order[i])
          /\ inflight[order[i]] \in Inflight
          /\ inflight'[i] \in Inflight
          /\ inflight'[i].packet_id = inflight[order[i]].packet_id
          /\ inflight'[i].publish = inflight[order[i]].publish
          /\ inflight'[i].state = inflight[order[i]].state
    /\ \A p \in PacketIds :
          IF packet_index[p] # NoSlot /\ Kept(packet_index[p])
          THEN /\ packet_index'[p] \in 1..Len(order)
               /\ order[packet_index'[p]] = packet_index[p]
          ELSE packet_index'[p] = NoSlot

-----------------------------------------------------------------------------
(* The Session by Packet Identifier.                                       *)

EntryOf(t, x) ==
    [p \in PacketIds |-> IF x[p] = NoSlot THEN NoEntry ELSE t[x[p]]]

\* The transaction each Packet Identifier owns.
Entry == EntryOf(inflight, packet_index)
PrunedEntry == EntryOf(PrunedInflight, PrunedIndex)

Owned(E) == {p \in PacketIds : E[p] # NoEntry}

\* The messages a queue holds, and that it holds none twice.
Waiting(q) == {q[i] : i \in Live(q)}
Distinct(q) == \A i, j \in Live(q) : q[i] = q[j] => i = j

GoodView(E) ==
    /\ E \in [PacketIds -> Inflight \cup {NoEntry}]
    /\ \A p \in Owned(E) :
          /\ E[p] \in Inflight
          /\ E[p].packet_id = p
          /\ E[p].state = "await_puback" <=> E[p].publish \notin QoS2Messages

\* Transactions may vanish, and the others stay what they were.
Keeps(E, F) ==
    \A p \in Owned(F) : /\ p \in Owned(E)
                        /\ F[p].publish = E[p].publish
                        /\ F[p].state = E[p].state

\* What expiry may take away.
Prunes(E, F) ==
    \A p \in PacketIds :
        \/ F[p] = E[p]
        \/ /\ F[p] = NoEntry
           /\ E[p] # NoEntry
           /\ E[p].state # "await_pubcomp"
           /\ E[p].publish \in expired

=============================================================================

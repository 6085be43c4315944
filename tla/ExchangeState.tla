--------------------------- MODULE ExchangeState ---------------------------
(***************************************************************************)
(* The state of SessionExchange: transactions by Packet Identifier, the    *)
(* packets and acknowledgements between the broker and the client, and     *)
(* what has become of every message.                                       *)
(***************************************************************************)
EXTENDS Naturals, Sequences

CONSTANTS Messages,      \* publications the broker may enqueue
          QoS2Messages,  \* those with QoS 2; the others have QoS 1
          Expirable,     \* those with a Message Expiry Interval
          PacketIds,     \* Packet Identifiers
          NoEntry,       \* the transaction of a free identifier
          NoPacket       \* the packet of an idle writer

VARIABLES
    waiting,    \* messages the Session queues
    entry,      \* the transaction each Packet Identifier owns
    holding,    \* the packet the writer has taken and not yet written
    toClient,   \* packets on the connection, in order
    toBroker,   \* acknowledgements on the connection, in order
    received,   \* client: QoS 2 identifiers awaiting PUBREL
    delivered,  \* client: how often a message reached the application
    enqueued,   \* messages the broker has routed to the Session
    written,    \* messages that may have reached some connection
    completed,  \* messages whose transaction is complete
    refused     \* messages whose transaction the client has refused

ManyTimes == 2    \* where the counts of delivered stop

InflightState == {"await_puback", "await_pubrec", "await_pubcomp"}

Inflight == [publish        : Messages,
             packet_id      : PacketIds,
             state          : InflightState,
             needs_send     : BOOLEAN,
             retransmission : BOOLEAN]

Packet == [kind : {"publish", "pubrel"}, packet_id : PacketIds,
           publish : Messages, dup : BOOLEAN]
Ack == [kind : {"puback", "pubrec", "refused", "pubcomp"},
        packet_id : PacketIds]

Owned(E) == {p \in PacketIds : E[p] # NoEntry}

\* A table of transactions: each carries its own identifier and waits for the
\* acknowledgements of its QoS.
GoodTable(E) ==
    /\ E \in [PacketIds -> Inflight \cup {NoEntry}]
    /\ \A p \in Owned(E) :
          /\ E[p] \in Inflight
          /\ E[p].packet_id = p
          /\ E[p].state = "await_puback" <=> E[p].publish \notin QoS2Messages

Publications(packet) ==
    IF packet # NoPacket /\ packet.kind = "publish" THEN {packet.publish} ELSE {}

FirstState(m) == IF m \in QoS2Messages THEN "await_pubrec" ELSE "await_puback"

\* Transactions may vanish, and the others stay what they were.
Keeps(E, F) ==
    \A p \in Owned(F) : /\ p \in Owned(E)
                        /\ F[p].publish = E[p].publish
                        /\ F[p].state = E[p].state

\* The transaction of an expired publication the client has not accepted may
\* vanish.
PrunesAt(E, F, p) ==
    \/ F[p] = E[p]
    \/ /\ F[p] = NoEntry
       /\ E[p] # NoEntry
       /\ E[p].state # "await_pubcomp"
       /\ E[p].publish \in Expirable

Prunes(E, F) == \A p \in PacketIds : PrunesAt(E, F, p)

=============================================================================

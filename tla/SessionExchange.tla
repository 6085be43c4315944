--------------------------- MODULE SessionExchange ---------------------------
(***************************************************************************)
(* What SessionDelivery promises about QoS 1 and QoS 2, without the data   *)
(* structures of the Session: messages wait in a set, a Packet Identifier  *)
(* owns at most one transaction, and packets and acknowledgements travel   *)
(* in order until the connection is interrupted.  The slots of the         *)
(* inflight list, the index, the queue with its tombstones and cursor, the *)
(* counters, the lock of the writer and the state of the connection are    *)
(* not seen here.  SessionDelivery implements this specification           *)
(* (SessionDelivery!RefinesExchange), which may do more than the code: it  *)
(* may drop any waiting message and forget transactions at every           *)
(* interruption.                                                           *)
(***************************************************************************)
EXTENDS ExchangeState

sessionVars == <<waiting, entry>>
linkVars == <<holding, toClient, toBroker>>
clientVars == <<received, delivered>>
historyVars == <<enqueued, written, completed, refused>>
vars == <<sessionVars, linkVars, clientVars, historyVars>>

Init ==
    /\ waiting = {}
    /\ entry = [p \in PacketIds |-> NoEntry]
    /\ holding = NoPacket
    /\ toClient = <<>>
    /\ toBroker = <<>>
    /\ received = {}
    /\ delivered = [m \in Messages |-> 0]
    /\ enqueued = {}
    /\ written = {}
    /\ completed = {}
    /\ refused = {}

-----------------------------------------------------------------------------
(* The Session.                                                            *)

\* A message is routed here, once, and waits unless the queue is full; expired
\* ones may give way to it.
Route(m) ==
    /\ m \notin enqueued
    /\ enqueued' = enqueued \cup {m}
    /\ waiting' \subseteq waiting \cup {m}
    /\ UNCHANGED <<entry, linkVars, clientVars, written, completed, refused>>

\* Expired messages leave the Session between two packets.
Prune ==
    /\ holding = NoPacket
    /\ waiting' \subseteq waiting
    /\ GoodTable(entry')
    /\ Prunes(entry, entry')
    /\ UNCHANGED <<linkVars, clientVars, historyVars>>

\* A connection ends or begins, or the broker restarts: whatever is under way
\* is lost, and a packet that is held may still have been written.
Interrupt ==
    /\ waiting' \subseteq waiting
    /\ GoodTable(entry')
    /\ Keeps(entry, entry')
    /\ holding' = NoPacket
    /\ toClient' = <<>>
    /\ toBroker' = <<>>
    /\ written' = written \cup Publications(holding)
    /\ UNCHANGED <<clientVars, enqueued, completed, refused>>

-----------------------------------------------------------------------------
(* The writer.                                                             *)

\* The transaction of p is sent again, as what it was.
Resends(p) ==
    /\ p \in Owned(entry)
    /\ entry[p].needs_send
    /\ entry'[p].publish = entry[p].publish
    /\ entry'[p].state = entry[p].state
    /\ waiting' \subseteq waiting

\* A waiting message becomes the transaction of p, which is free.
Promotes(p) ==
    /\ PrunesAt(entry, [entry EXCEPT ![p] = NoEntry], p)
    /\ entry'[p].publish \in waiting
    /\ entry'[p].state = FirstState(entry'[p].publish)
    /\ waiting' \subseteq waiting \ {entry'[p].publish}

\* The packet of a transaction: PUBREL once the client has accepted it.
Transmits(packet, e) ==
    /\ packet \in Packet \ {NoPacket}
    /\ packet.kind = IF e.state = "await_pubcomp" THEN "pubrel" ELSE "publish"
    /\ packet.packet_id = e.packet_id
    /\ packet.publish = e.publish

\* The writer takes the packet of p, and expired messages leave the Session.
Take(p) ==
    /\ holding = NoPacket
    /\ GoodTable(entry')
    /\ p \in Owned(entry')
    /\ ~entry'[p].needs_send
    /\ \A q \in PacketIds \ {p} : PrunesAt(entry, entry', q)
    /\ Resends(p) \/ Promotes(p)
    /\ Transmits(holding', entry'[p])
    /\ UNCHANGED <<toClient, toBroker, clientVars, historyVars>>

Write ==
    /\ holding # NoPacket
    /\ toClient' = Append(toClient, holding)
    /\ written' = written \cup Publications(holding)
    /\ holding' = NoPacket
    /\ UNCHANGED <<sessionVars, toBroker, clientVars, enqueued, completed, refused>>

\* The packet is not written.  The transaction of a PUBLISH is rolled back, or
\* ends because the packet is too large; that of a PUBREL stays as it is.
Discard ==
    /\ holding # NoPacket
    /\ holding' = NoPacket
    /\ GoodTable(entry')
    /\ Keeps(entry, entry')
    /\ \A q \in Owned(entry) :
          \/ entry'[q] = entry[q]
          \/ q = holding.packet_id /\ holding.kind = "publish"
    /\ UNCHANGED <<waiting, toClient, toBroker, clientVars, historyVars>>

-----------------------------------------------------------------------------
(* Acknowledgements.                                                       *)

Expects(ack) ==
    /\ ack.packet_id \in Owned(entry)
    /\ entry[ack.packet_id].state =
         CASE ack.kind = "puback"                -> "await_puback"
           [] ack.kind \in {"pubrec", "refused"} -> "await_pubrec"
           [] ack.kind = "pubcomp"               -> "await_pubcomp"

\* PUBREC takes the transaction to its second half; the others end it.
Advances(ack) ==
    LET p == ack.packet_id IN
    /\ \A q \in PacketIds \ {p} : entry'[q] = entry[q]
    /\ IF ack.kind = "pubrec"
       THEN /\ entry'[p] # NoEntry
            /\ entry'[p].publish = entry[p].publish
            /\ entry'[p].state = "await_pubcomp"
       ELSE entry'[p] = NoEntry

Acknowledge ==
    LET ack == Head(toBroker)
        m   == entry[ack.packet_id].publish IN
    /\ holding = NoPacket
    /\ toBroker # <<>>
    /\ Expects(ack)
    /\ GoodTable(entry')
    /\ Advances(ack)
    /\ completed' = IF ack.kind \in {"puback", "pubcomp"}
                    THEN completed \cup {m} ELSE completed
    /\ refused' = IF ack.kind = "refused" THEN refused \cup {m} ELSE refused
    /\ toBroker' = Tail(toBroker)
    /\ UNCHANGED <<waiting, holding, toClient, clientVars, enqueued, written>>

\* An acknowledgement that is not expected changes nothing.
Disregard ==
    /\ toBroker # <<>>
    /\ ~Expects(Head(toBroker))
    /\ toBroker' = Tail(toBroker)
    /\ UNCHANGED <<sessionVars, holding, toClient, clientVars, historyVars>>

-----------------------------------------------------------------------------
(* The client.                                                             *)

Answer(kind, packet) ==
    /\ toBroker' = Append(toBroker, [kind |-> kind, packet_id |-> packet.packet_id])
    /\ toClient' = Tail(toClient)
    /\ UNCHANGED <<sessionVars, holding, historyVars>>

DeliverToApplication(packet) ==
    delivered' = [delivered EXCEPT ![packet.publish] =
                    IF @ < ManyTimes THEN @ + 1 ELSE @]

ClientTakesQoS1 ==
    LET packet == Head(toClient) IN
    /\ toClient # <<>>
    /\ packet.kind = "publish" /\ packet.publish \notin QoS2Messages
    /\ DeliverToApplication(packet)
    /\ UNCHANGED received
    /\ Answer("puback", packet)

ClientTakesQoS2 ==
    LET packet == Head(toClient) IN
    /\ toClient # <<>>
    /\ packet.kind = "publish" /\ packet.publish \in QoS2Messages
    /\ IF packet.packet_id \in received
       THEN UNCHANGED delivered
       ELSE DeliverToApplication(packet)
    /\ received' = received \cup {packet.packet_id}
    /\ Answer("pubrec", packet)

ClientRefusesQoS2 ==
    LET packet == Head(toClient) IN
    /\ toClient # <<>>
    /\ packet.kind = "publish" /\ packet.publish \in QoS2Messages
    /\ packet.packet_id \notin received
    /\ UNCHANGED clientVars
    /\ Answer("refused", packet)

ClientReleases ==
    LET packet == Head(toClient) IN
    /\ toClient # <<>>
    /\ packet.kind = "pubrel"
    /\ received' = received \ {packet.packet_id}
    /\ UNCHANGED delivered
    /\ Answer("pubcomp", packet)

-----------------------------------------------------------------------------

Next ==
    \/ \E m \in Messages : Route(m)
    \/ Prune
    \/ Interrupt
    \/ \E p \in PacketIds : Take(p)
    \/ Write
    \/ Discard
    \/ Acknowledge
    \/ Disregard
    \/ ClientTakesQoS1
    \/ ClientTakesQoS2
    \/ ClientRefusesQoS2
    \/ ClientReleases

Spec == Init /\ [][Next]_vars

=============================================================================

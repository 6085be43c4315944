-------------------------- MODULE SessionDelivery --------------------------
(***************************************************************************)
(* Delivery of QoS 1 and QoS 2 publications from a persistent Session to   *)
(* its client: SessionState driven by the calls the broker really makes    *)
(* (src/mqtt/broker.zig), a Network Connection that can break at any time  *)
(* and a conforming client, which is not part of the repository.           *)
(*                                                                         *)
(* A flush is a loop that holds the writer lock of the connection: it      *)
(* takes one packet from the Session under the state lock, releases that   *)
(* lock, and writes the packet.  Publishers, takeovers and the clock run   *)
(* between the two steps; acknowledgements do not, since their handler     *)
(* needs the writer lock.  A message stands for one publication, so each   *)
(* is enqueued once.                                                       *)
(***************************************************************************)
EXTENDS SessionView

CONSTANTS Expirable,    \* messages with a Message Expiry Interval
          Oversizable,  \* messages some connection's peer may find too large
          Refusable,    \* QoS 2 messages the client may refuse in PUBREC
          MaxLosses,    \* bound on the number of connections that end
          NoPacket      \* nothing taken from the Session

VARIABLES
    link,             \* the Network Connection as the broker knows it
    receive_maximum,  \* connection.max_outgoing_inflight
    holding,          \* the packet a flush has taken and not yet written
    flushing,         \* some flushSlot call has not returned yet
    toClient,         \* packets on the connection, in order
    toBroker,         \* acknowledgements on the connection, in order
    received,         \* client: QoS 2 identifiers awaiting PUBREL
    delivered,        \* client: how often a message reached the application
    enqueued,         \* messages the broker has routed to the Session
    written,          \* messages that may have reached some connection
    completed,        \* messages whose transaction the broker has completed
    refused,          \* messages whose transaction the client has refused
    given_up,         \* messages too large for a connection, or expired
    losses            \* connections that have ended

ManyTimes == 2    \* where the counts of delivered stop

linkVars == <<link, receive_maximum, holding, flushing, toClient, toBroker>>
clientVars == <<received, delivered>>
historyVars == <<enqueued, written, completed, refused, given_up, losses>>
vars == <<sessionVars, linkVars, clientVars, historyVars>>

Packet == [kind : {"publish", "pubrel"}, packet_id : PacketIds,
           publish : Messages, dup : BOOLEAN]
Ack == [kind : {"puback", "pubrec", "refused", "pubcomp"},
        packet_id : PacketIds]

ASSUME DeliveryAssumption ==
    /\ Refusable \subseteq QoS2Messages
    /\ NoPacket \notin Packet

\* The publication a packet carries, if any.
Publications(packet) ==
    IF packet # NoPacket /\ packet.kind = "publish" THEN {packet.publish} ELSE {}

DeliveryInit ==
    /\ Init
    /\ link = "connecting"
    /\ receive_maximum \in ReceiveMaximums
    /\ holding = NoPacket
    /\ flushing = FALSE
    /\ toClient = <<>>
    /\ toBroker = <<>>
    /\ received = {}
    /\ delivered = [m \in Messages |-> 0]
    /\ enqueued = {}
    /\ written = {}
    /\ completed = {}
    /\ refused = {}
    /\ given_up = {}
    /\ losses = 0

-----------------------------------------------------------------------------
(* The life of a connection.                                               *)

\* Mutant of Attach: a new connection waits for the first event to flush.
AttachMutant ==
    /\ link = "connecting"
    /\ link' = "up"
    /\ UNCHANGED <<sessionVars, receive_maximum, holding, flushing, toClient,
                   toBroker, clientVars, historyVars>>

\* attachConnection after CONNACK; serve then flushes the slot.
Attach ==
    /\ link = "connecting"
    /\ link' = "up"
    /\ flushing' = TRUE
    /\ UNCHANGED <<sessionVars, receive_maximum, holding, toClient, toBroker,
                   clientVars, historyVars>>

\* abortRegistration: CONNACK could not be written, and the Session goes back
\* offline.
AbortRegistration ==
    /\ link = "connecting"
    /\ losses < MaxLosses
    /\ Disconnect
    /\ link' = "down"
    /\ losses' = losses + 1
    /\ UNCHANGED <<receive_maximum, holding, flushing, toClient, toBroker,
                   clientVars, enqueued, written, completed, refused, given_up>>

\* The network fails under a connection: writes fail from now on.
Break ==
    /\ link = "up"
    /\ losses < MaxLosses
    /\ link' = "broken"
    /\ losses' = losses + 1
    /\ UNCHANGED <<sessionVars, receive_maximum, holding, flushing, toClient,
                   toBroker, clientVars, enqueued, written, completed,
                   refused, given_up>>

\* unregister, once the writer lock is free: what was on the connection is
\* lost in both directions.
Unregister ==
    /\ holding = NoPacket
    /\ Disconnect
    /\ link' = "down"
    /\ flushing' = FALSE
    /\ toClient' = <<>>
    /\ toBroker' = <<>>
    /\ UNCHANGED <<receive_maximum, holding>>

\* The reader task notices that its connection is gone, or ends it itself.
ReaderStops ==
    /\ link \in {"broken", "closing"}
    /\ Unregister
    /\ UNCHANGED <<clientVars, historyVars>>

\* register on a new connection of the same client, while the old one is
\* down, or still up or broken as far as the broker knows (takeover).  The
\* old slot loses its Session handle, so its flush and its acknowledgements
\* no longer reach the Session; a packet that flush holds may still be
\* written to the old connection.
Register(r) ==
    /\ link # "connecting"
    /\ link = "down" \/ losses < MaxLosses
    /\ OpenResume
    /\ receive_maximum' = r
    /\ link' = "connecting"
    /\ holding' = NoPacket
    /\ flushing' = FALSE
    /\ toClient' = <<>>
    /\ toBroker' = <<>>
    /\ losses' = IF link = "down" THEN losses ELSE losses + 1
    /\ written' = written \cup Publications(holding)
    /\ UNCHANGED <<clientVars, enqueued, completed, refused, given_up>>

\* saveSnapshot while the client is away, and a new broker process.
Restart(items, order) ==
    /\ link = "down"
    /\ SaveAndRestore(items, order)
    /\ UNCHANGED <<linkVars, clientVars, historyVars>>

Expire(m) ==
    /\ m \in Expirable
    /\ MessageExpires(m)
    /\ given_up' = given_up \cup {m}
    /\ UNCHANGED <<linkVars, clientVars, enqueued, written, completed, refused,
                   losses>>

-----------------------------------------------------------------------------
(* The broker's side of a flush.                                           *)

Attached == link \in {"up", "broken", "closing"}

\* enqueuePublishLocked routes a publication to this Session and flushes it
\* when its connection is attached (slotOwnsSessionRoute).
Publish(m, order) ==
    /\ m \notin enqueued
    /\ EnqueuePublish(m, order)
    /\ enqueued' = enqueued \cup {m}
    /\ flushing' = (flushing \/ Attached)
    /\ UNCHANGED <<link, receive_maximum, holding, toClient, toBroker,
                   clientVars, written, completed, refused, given_up, losses>>

\* transmissionForInflight.
Transmission(entry) ==
    [kind      |-> IF entry.state = "await_pubcomp" THEN "pubrel" ELSE "publish",
     packet_id |-> entry.packet_id,
     publish   |-> entry.publish,
     dup       |-> entry.state # "await_pubcomp" /\ entry.retransmission]

CanTake == flushing /\ holding = NoPacket /\ Attached

\* takeSessionPacketLocked returning a packet.
TakePacket ==
    /\ CanTake
    /\ \/ \E s \in Slots :
            /\ DrainResend(receive_maximum, s)
            /\ holding' = Transmission(PrunedInflight[s])
       \/ \E s \in Slots, p \in PacketIds :
            /\ DrainPromote(receive_maximum, s, p)
            /\ holding' = Transmission(inflight'[s])
    /\ UNCHANGED <<link, receive_maximum, flushing, toClient, toBroker,
                   clientVars, historyVars>>

\* The flush finds nothing more to send and returns.
FlushReturns ==
    /\ CanTake
    /\ DrainIdle(receive_maximum)
    /\ flushing' = FALSE
    /\ UNCHANGED <<link, receive_maximum, holding, toClient, toBroker,
                   clientVars, historyVars>>

\* drainInto reports InflightFull, and flushSlot fails.  In the reader task
\* the connection ends; in the task of a publisher that client suffers, and
\* this connection waits for the next flush.
FlushFails ==
    /\ CanTake
    /\ DrainInflightFull(receive_maximum)
    /\ flushing' = FALSE
    /\ link' \in {link, "closing"}
    /\ UNCHANGED <<receive_maximum, holding, toClient, toBroker, clientVars,
                   historyVars>>

WritePacket ==
    /\ holding # NoPacket
    /\ Attached
    /\ toClient' = Append(toClient, holding)
    /\ written' = written \cup Publications(holding)
    /\ holding' = NoPacket
    /\ UNCHANGED <<sessionVars, link, receive_maximum, flushing, toBroker,
                   clientVars, enqueued, completed, refused, given_up, losses>>

\* A failed write rolls a PUBLISH back (retryUnsentPublish), and the flush
\* returns the error.
WriteFails ==
    /\ holding # NoPacket
    /\ link = "broken"
    /\ IF holding.kind = "publish" THEN RetryUnsentPublish(holding.packet_id)
                                   ELSE UNCHANGED sessionVars
    /\ holding' = NoPacket
    /\ flushing' = FALSE
    /\ UNCHANGED <<link, receive_maximum, toClient, toBroker, clientVars,
                   historyVars>>

\* OutgoingPacketTooLarge drops a PUBLISH and the flush goes on.
DropOversized ==
    /\ holding # NoPacket
    /\ holding.kind = "publish"
    /\ holding.publish \in Oversizable
    /\ DropOversizedPublish(holding.packet_id)
    /\ given_up' = given_up \cup {holding.publish}
    /\ holding' = NoPacket
    /\ UNCHANGED <<link, receive_maximum, flushing, toClient, toBroker,
                   clientVars, enqueued, written, completed, refused, losses>>

-----------------------------------------------------------------------------
(* Acknowledgements.                                                       *)

\* handleSessionAckLocked accepts the acknowledgement, and the handler
\* flushes again.
Accepts(ack) ==
    CASE ack.kind = "puback"  -> PubAck(ack.packet_id)
      [] ack.kind = "pubrec"  -> PubRec(ack.packet_id)
      [] ack.kind = "refused" -> PubRecRefused(ack.packet_id)
      [] ack.kind = "pubcomp" -> PubComp(ack.packet_id)

Acknowledged(ack) == inflight[packet_index[ack.packet_id]].publish

Expects(ack) ==
    /\ packet_index[ack.packet_id] # NoSlot
    /\ inflight[packet_index[ack.packet_id]].state =
         CASE ack.kind = "puback"                -> "await_puback"
           [] ack.kind \in {"pubrec", "refused"} -> "await_pubrec"
           [] ack.kind = "pubcomp"               -> "await_pubcomp"

CanRead == link \in {"up", "broken"} /\ holding = NoPacket /\ toBroker # <<>>

HandleExpectedAck ==
    LET ack == Head(toBroker) IN
    /\ CanRead
    /\ Expects(ack)
    /\ Accepts(ack)
    /\ completed' = IF ack.kind \in {"puback", "pubcomp"}
                    THEN completed \cup {Acknowledged(ack)} ELSE completed
    /\ refused' = IF ack.kind = "refused"
                  THEN refused \cup {Acknowledged(ack)} ELSE refused
    /\ toBroker' = Tail(toBroker)
    /\ flushing' = TRUE
    /\ UNCHANGED <<link, receive_maximum, holding, toClient, clientVars,
                   enqueued, written, given_up, losses>>

\* Any other acknowledgement ends the connection: handleAck answers
\* InvalidAcknowledgement, or the identifier is unknown to the Session and
\* applyPubAck, applyPubRec or applyPubComp answers UnexpectedPacket.
HandleUnexpectedAck ==
    /\ CanRead
    /\ ~Expects(Head(toBroker))
    /\ toBroker' = Tail(toBroker)
    /\ link' = "closing"
    /\ UNCHANGED <<sessionVars, receive_maximum, holding, flushing, toClient,
                   clientVars, historyVars>>

-----------------------------------------------------------------------------
(* A conforming client (external).  It keeps the QoS 2 identifiers it has  *)
(* taken over reconnects, as the Session is always resumed here.           *)

Answer(kind, packet) ==
    /\ toBroker' = Append(toBroker, [kind |-> kind, packet_id |-> packet.packet_id])
    /\ toClient' = Tail(toClient)
    /\ UNCHANGED <<sessionVars, link, receive_maximum, holding, flushing,
                   historyVars>>

DeliverToApplication(packet) ==
    delivered' = [delivered EXCEPT ![packet.publish] =
                    IF @ < ManyTimes THEN @ + 1 ELSE @]

ClientTakesQoS1 ==
    LET packet == Head(toClient) IN
    /\ toClient # <<>>
    /\ packet.kind = "publish" /\ packet.publish \notin QoS2Messages
    /\ DeliverToApplication(packet)
    /\ UNCHANGED received
    /\ Answer("puback", packet)

ClientTakesQoS2 ==
    LET packet == Head(toClient) IN
    /\ toClient # <<>>
    /\ packet.kind = "publish" /\ packet.publish \in QoS2Messages
    /\ IF packet.packet_id \in received
       THEN UNCHANGED delivered
       ELSE DeliverToApplication(packet)
    /\ received' = received \cup {packet.packet_id}
    /\ Answer("pubrec", packet)

ClientRefusesQoS2 ==
    LET packet == Head(toClient) IN
    /\ toClient # <<>>
    /\ packet.kind = "publish" /\ packet.publish \in Refusable
    /\ packet.packet_id \notin received
    /\ UNCHANGED clientVars
    /\ Answer("refused", packet)

ClientReleases ==
    LET packet == Head(toClient) IN
    /\ toClient # <<>>
    /\ packet.kind = "pubrel"
    /\ received' = received \ {packet.packet_id}
    /\ UNCHANGED delivered
    /\ Answer("pubcomp", packet)

Client == ClientTakesQoS1 \/ ClientTakesQoS2 \/ ClientRefusesQoS2
            \/ ClientReleases

-----------------------------------------------------------------------------

Broker ==
    \/ TakePacket \/ FlushReturns \/ FlushFails \/ WritePacket \/ WriteFails
    \/ DropOversized \/ HandleExpectedAck \/ HandleUnexpectedAck

DeliveryNext ==
    \/ Attach
    \/ AbortRegistration
    \/ Break
    \/ ReaderStops
    \/ \E r \in ReceiveMaximums : Register(r)
    \/ \E items \in Orders(MaxQueued), order \in Orders(MaxInflight) :
         Restart(items, order)
    \/ \E m \in Messages : Expire(m)
    \/ \E m \in Messages, order \in Orders(MaxQueued) : Publish(m, order)
    \/ Broker
    \/ Client

\* The broker's tasks and the client keep running, and a client that is away
\* comes back.
Fairness ==
    /\ WF_vars(Attach)
    /\ WF_vars(ReaderStops)
    /\ WF_vars(link = "down" /\ \E r \in ReceiveMaximums : Register(r))
    /\ WF_vars(Broker)
    /\ WF_vars(Client)

DeliverySpec == DeliveryInit /\ [][DeliveryNext]_vars /\ Fairness

-----------------------------------------------------------------------------
(* Properties.                                                             *)

\* A QoS 2 publication reaches the application at most once, over any
\* reconnects, takeovers, retransmissions and restarts (the Session keeps the
\* Packet Identifier and never goes back from PUBREL to PUBLISH).
ExactlyOnce == \A m \in QoS2Messages : delivered[m] <= 1

\* Publications that may have reached the client and that the broker no longer
\* knows, without an answer to them: pruneExpiredPublishes and
\* dropOversizedPublish end a transaction whatever the client may have
\* received of it before, and free its Packet Identifier.
Forgotten ==
    {m \in written \ (completed \cup refused) :
        \A s \in Used(inflight) : inflight[s].publish # m}

\* The broker forgets a publication as acknowledged only after the
\* application has it, however identifiers are reused.  A forgotten one is the
\* exception: the client may take the next publication under its identifier
\* for a duplicate, and its late acknowledgement may complete that one.
CompletedMeansDelivered ==
    Forgotten = {} => \A m \in completed : delivered[m] > 0

\* The peer's Receive Maximum is respected on every connection: the client
\* never has more QoS 1 and QoS 2 publications unanswered than it allowed
\* in CONNECT, even after a reconnect lowered the limit or a resumed Session
\* retransmits more than that (drainInto, countSentPublishInflight).  Expiry is
\* the exception: pruneExpiredPublishes forgets a publication the client has
\* not answered yet and so gives its place to another one.
Unanswered ==
    {toClient[i].packet_id : i \in {i \in 1..Len(toClient) :
                                      toClient[i].kind = "publish"}}
    \cup {toBroker[i].packet_id : i \in {i \in 1..Len(toBroker) :
                                           toBroker[i].kind # "pubcomp"}}
ReceiveMaximumRespected ==
    Forgotten \cap Expirable = {} => Cardinality(Unanswered) <= receive_maximum

\* The slots, the index, the queue and the locks implement the abstract
\* exchange: every step of the broker and the client is one of its steps on
\* the transactions by Packet Identifier and the set of waiting messages, or
\* changes nothing there (drainInto, handleAck, retryUnsentPublish,
\* dropOversizedPublish, open, disconnect and the snapshot).
Exchange == INSTANCE SessionExchange
              WITH waiting <- Waiting(queued), entry <- Entry
RefinesExchange == Exchange!Spec

\* No publication is stranded: whatever was routed to the Session is
\* eventually delivered, unless it expired, was too large or was refused, or
\* met the identifier of a forgotten one.  Nothing but the flush after
\* CONNACK, after an acknowledgement or after routing wakes the queue up.  The
\* broker must not go on ending connections itself, as a flush that meets a
\* full inflight table may.
EveryMessageSettles ==
    <>[](link # "closing") =>
      \A m \in Messages :
        m \in enqueued ~> \/ delivered[m] > 0
                          \/ m \in given_up \cup refused
                          \/ Forgotten # {}

=============================================================================

# Verification of netz

netz is a protocol toolkit in Zig: MQTT with a broker, QUIC, HTTP/1.1 to HTTP/3,
WebSocket, WebTransport, WebRTC, gRPC. This directory holds TLA+ models of the parts
of it that keep state over many steps and several actors, the TLC configurations that
check them on small instances, and TLAPS proofs for four of them.

The system proper is the Zig code under `src/src/`. One further model is of
`src/tools/interop/mqtt_mosquitto_vectors.py`, the Python suite that replays Mosquitto's
test vectors against the example broker process: there the suite is the client, and the
model runs every vector against a model of the broker under every scheduling.

Each definition that stands for code carries the source's name where it has one.
`PROJECT.json` maps every such definition to its source lines, and lists the runs, a
mutant for every property, the hazards, the findings and the theorems.

To check a run: `tlc -workers 2 -config MCQuicStreams.cfg MCQuicStreams`. To check the
proofs of a module: `tlapm SessionDeliveryProofs.tla`, and likewise for each module named
`...Proofs`.

## The parts and how they interact

**MQTT.** `Broker.serve` (`mqtt/broker.zig`) accepts connections one after the other,
registers each in a client slot and starts a task that reads its packets. All tasks share
a state mutex, which guards the Session store, the topic router, the retained store, the
Will scheduler and the pending QoS 2 table; each slot has a writer mutex for its socket.
A handler changes the shared state under the first lock, releases it, and writes under
the second. Everything difficult happens between the two. One more task, the Will
driver, sleeps on a futex and publishes the Wills that fall due.

**QUIC.** After the handshake a `Connection` (`quic/one_rtt.zig`) is a sequential object
driven by calls of the application, datagrams and timers. It keeps one fact in several
places: a sent packet is known to the sent tracker, the recovery queue and the congestion
controller; a received byte is counted by the stream, the stream's flow control and the
connection's. The peer keeps the other half, and the network in between loses, repeats
and reorders.

**HTTP/2.** A `Connection` (`http2/runtime.zig`) blocks: an end reads frames only inside a
call, in whichever of its many reading loops that call is. Two ends agree on streams and
credit only if every loop treats every frame that can arrive in it.

## Modules

| module | models | state and actions |
|---|---|---|
| `SessionState` | `mqtt/session/mod.zig`, one Session's outgoing half | the queue with tombstones and cursor, the inflight table, `packet_index`; one action per Store operation, callable in any order |
| `SessionStateProofs` | | proofs about it |
| `SessionView` | | the inductive invariant of `SessionState`, and the Session by Packet Identifier: the refinement mapping |
| `SessionDelivery` | the broker's calls of those operations, a breaking connection, a conforming client | a flush is take-under-lock then write; takeover, loss, restart and acknowledgements interleave |
| `ExchangeState`, `SessionExchange` | what delivery promises | abstract: waiting messages, a transaction per identifier, packets and acknowledgements in order until an interruption; `SessionDelivery` implements it |
| `SessionExchangeProofs` | | the inductive invariant of `SessionExchange` and its proof |
| `SessionStepProofs`, `SessionDeliveryProofs` | | proof of the refinement and of the delivery properties |
| `SessionStore` | `mqtt/session/mod.zig`, the table | slots, two indexes, generations, route identities, expiry, snapshot; operations are functions from store to store, and `StoreWorks` is what they promise |
| `BrokerSessions` | `mqtt/broker.zig`, registration to unregistration | `SessionStore` composed with slots, owners, router subscriptions and inbound QoS 2; accept loop and reader tasks |
| `SessionStoreProofs`, `BrokerSessionsProofs` | | proofs about the table; about the handlers on a table that keeps its promises, and about the two together |
| `IndexedHeap`, `HeapUse` | `mqtt/will/indexed_heap.zig` | the array and the positions; `HeapUse` drives it |
| `WillScheduler` | `mqtt/will/mod.zig` | entries, free list, client index, heap |
| `WillLifecycle` | what the broker promises about a Will | abstract: what has become of each Will, its delay and Session expiry, when it is due, connections accepted, clock |
| `BrokerWills` | `mqtt/broker.zig`, `broker/will_driver.zig` | handlers, driver, futex generation, snapshot and restart; implements `WillLifecycle` |
| `MqttRouter` | `mqtt/router.zig` | trie, tombstones, shared groups with their four strategies, linear fallback |
| `MqttConnection` | `mqtt/runtime.zig`, `runtime/auth.zig` | two Connections and the wire between them |
| `BrokerPublish` | `broker.zig`, `broker/publication.zig`, `qos2.zig`, `session_delivery.zig` | routing, reference counts, bounded live queues, concurrent flushes |
| `MqttFraming` | `runtime/packet_transport.zig`, `keep_alive_reader.zig`, and `read_packet` of the suite | one packet arriving in pieces against a clock |
| `MqttPackets`, `MqttVectors`, `InteropHarness` | `tools/interop/mqtt_mosquitto_vectors.py` | packets as values, one script per vector, the harness that runs them |
| `MqttBrokerWire` | `examples/mqtt_broker.zig` and `broker.zig` as a client sees them | accept loop, one task per connection, Will driver, sockets |
| `QuicPacketSpace` | `quic/packet_space.zig` | received ranges; sent packets with compaction and cached PTO base |
| `QuicRecoveryQueue` | `quic/recovery.zig` | payload groups, packet-number map, cached counters |
| `QuicCongestion` | `quic/congestion.zig`, NewReno | window, bytes in flight, recovery epoch |
| `QuicRecovery` | `quic/one_rtt.zig`, sending and acknowledging | the three above composed, two endpoints, a lossy network |
| `QuicFlowControl` | `quic/flow_control.zig` | `SendFlow`, `RecvFlow` |
| `QuicReceiveStream` | `quic/stream.zig` | reassembly buffer and its preflight shadow |
| `QuicStreams` | `quic/one_rtt.zig`, streams and credit | sender and receiver of one direction, network as the set of packets ever sent |
| `QuicStreamsProofs`, `QuicDeliveryProofs` | | proofs about its limits and the reassembly buffer; about delivery, stream slots and credit |
| `Http2Connection`, `Http2Exchange` | `http2/runtime.zig` | one end's state and control frames; two ends as processes in their calls |

Modules named `MC...` only give constants their values for TLC. `MCMqttParts` also puts
five independent parts behind one variable: a behaviour chooses a part and runs it.

Code outside the repository is modelled from its use and marked external in the map: TCP
(a FIFO of whole packets each way; what was delivered stays readable after a close; a
write to a closed peer is lost or fails), UDP, the futex, the MQTT client of
`SessionDelivery`.

## Runs

Nine runs pass and three find a violation. Every property of a passing run has a mutant of
the modelled code that breaks it.

| run | module, config | distinct states | properties |
|---|---|---|---|
| `session_state` | `MCSessionState`, `MCSessionState.cfg` | 130,668 | `SessionConsistent`, `PubRelNeverForgotten` |
| `session_delivery` | `MCSessionDelivery`, `MCSessionDelivery.cfg` | 124,954 | `ExactlyOnce`, `CompletedMeansDelivered`, `ReceiveMaximumRespected`, `EveryMessageSettles`, `RefinesExchange` |
| `broker_sessions` | `MCBrokerSessions`, `MCBrokerSessions.cfg` | 355,171 | `StoreConsistent`, `OwnershipExact`, `RouterFollowsSessions` |
| `abort_discards_resumed_session` | `MCBrokerSessions`, `MCBrokerSessionsAbort.cfg` | violation | `ResumedSessionSurvivesAbort` |
| `broker_wills` | `MCBrokerWills`, `MCBrokerWills.cfg` | 581,161 | `WillsConsistent`, `NoLostWakeup`, `WillsFollowLifecycle`, `EveryDueWillPublished` |
| `mqtt_parts` | `MCMqttParts`, `MCMqttParts.cfg` | 940,001 | `HeapHolds`, `RouterHolds`, `PeersAgree`, `PublicationRefsExact`, `LiveFlow`, `FramesExact`, `TrickleBounded`, `PollsEarliest` |
| `mosquitto_vectors` | `MCInterop`, `MCInterop.cfg` | 8,209 | `VectorsPass`, `VectorsFinish` |
| `quic_recovery` | `MCQuicRecovery`, `MCQuicRecovery.cfg` | 263,385 | `SendStateExact`, `ProcessedOnce`, `AcksAreTrue`, `NothingForgotten`, `AckIsPending` |
| `quic_repeated_ack_closes` | `MCQuicRecovery`, `MCQuicRecoveryAck.cfg` | violation | `HonestAckAccepted` |
| `quic_streams` | `MCQuicStreams`, `MCQuicStreams.cfg` | 206,128 | `CreditExact`, `SenderNeverAhead`, `DeliveredInOrder`, `CreditReturns`, `OpenStreamsBounded`, `HonestSenderAccepted`, `LimitsOnlyGrow` |
| `quic_reset_counted_twice` | `MCQuicStreams`, `MCQuicStreamsReset.cfg` | violation | `CreditCountedOnce` |
| `http2_exchange` | `MCHttp2`, `MCHttp2.cfg` | 1,052,465 | `Http2CreditExact`, `Http2FaultsExplained`, `StreamSlotsReturned`, `BlockedUploadResumes` |

What the passing runs show:

- **session_state.** Every sequence of Store operations on one Session, two messages of
  different QoS, two slots, three identifiers. `SessionConsistent`: the cursor is on the
  first live item, counters count, the index leads each acknowledgement to the transaction
  that owns the identifier, and a transaction waits for the acknowledgement of its QoS.
  `PubRelNeverForgotten`: after PUBREC, a PUBREL is owed until PUBCOMP, whatever expires,
  reconnects or restarts. Both are proved as well.
- **session_delivery.** The calls the broker makes, with a connection that breaks between
  the take and the write, takeovers, a restart, a message that expires at any moment, one
  too large for the peer and one it refuses; two identifiers for three messages, so that
  every identifier is used again. QoS 2 is delivered at most once. Nothing is completed
  undelivered and the peer's Receive Maximum holds, except after the broker forgot a
  publication the client had not answered (`Forgotten`, see the observations). Every message
  is delivered or given up (liveness). `RefinesExchange` is refinement: every step is a step of
  `SessionExchange`. All but the liveness are proved as well.
- **broker_sessions.** Three clients on two slots and two Sessions, so that takeovers,
  reuse of slots and a full table occur, across a snapshot. The store, the owners, the
  router and the inbound QoS 2 table stay in step. All three are proved as well.
- **broker_wills.** One client with up to three connections on two slots, and a driver that
  may fail. `WillsFollowLifecycle` is refinement: the broker implements `WillLifecycle`. That
  module works out the deadline of a Will from its delay, the Session expiry (which DISCONNECT
  may replace) and the moment of the close, and says that the Will is published at most once
  and not before it; that only a new connection of the client or a downtime brings it closer;
  and that it is cancelled only by DISCONNECT, or by a new connection before it is due. `NoLostWakeup` is the futex protocol, `EveryDueWillPublished` the liveness
  that follows from it.
- **mqtt_parts.** Heap order and positions, and that the earliest deadline is taken first;
  the router against a reference definition of MQTT matching written over the subscriptions
  alone; two Connections whose windows,
  identifiers and aliases agree whatever crosses on the wire; reference counts and queues of
  publications under concurrent flushes and one failure; a packet read from pieces of any
  size, and a bound on how long a trickling peer is tolerated.
- **mosquitto_vectors.** All vectors of the suite. `VectorsPass`: no assertion of the suite
  can fail under any order of accept loop, tasks and Will driver. `VectorsFinish`: no vector
  waits for a packet the broker has no reason to send, and `serve` returns.
- **quic_recovery.** Two payloads, five packet numbers. The three records of a packet agree
  with each other and with what was really sent; nothing handed over is forgotten before it
  is acknowledged; no packet is processed twice, not even after its range was evicted; ACKs
  report only what arrived. The ACK policy changes once (at first `requested_max_ack_delay` is
  0, so that a packet waits without a timer) and the sending of an ACK may fail. `AckIsPending`:
  a packet that is remembered and unreported is counted towards the threshold and the delay
  timer runs for it, with two exceptions that are the code's own. One is a packet whose
  immediate ACK failed, which an errdefer takes out of the count; the other is one that came
  while there was no delay. Both are reported by the next ACK that is sent. The refund of
  flow-control credit for the part of a batch the socket refused is not in this model.
- **quic_streams.** Two streams of nine bytes and three, written three bytes at a time and read
  one at a time, windows of six, limits that reach their maximum. In-order delivery, exact
  accounts at both ends, credit that comes back, stream slots returned once.
  `HonestSenderAccepted`: the connection is closed only where a reset was charged twice (the
  finding below). A frame inside the window may be dropped with `StreamBufferTooLarge`, while
  bytes already read still occupy the buffer; the property says that this cannot block the
  stream, since the frame with the next bytes is taken once everything before it was read, and
  that a packet which passed the preflight is never applied by half.
- **http2_exchange.** Four streams of which two may be open, windows of two and three bytes,
  frames of two. Credit sent, held and consumed adds up. `Http2FaultsExplained`: no window,
  stream id or GOAWAY check ever fails. The stream limit does, and a batch gets a request too
  many, but only while the server still counts a stream that the client cancelled or gave up
  silently (see the observations). Otherwise an exchange ends early only through a frame its
  reader has no place for, or because the server closed the connection. `StreamSlotsReturned`:
  at rest neither end counts a stream as active. It looks at the ends when they are at rest, so
  it says nothing of a slot one end frees before the other. A blocked upload is not blocked
  for ever, unless the application leaves another body unfinished.

The violations (details and quotations in `PROJECT.json`):

- **abort_discards_resumed_session.** The rollback of a registration whose CONNACK could not
  be written is said to return a resumed Session offline. With a new Session Expiry Interval
  of 0, `open` has overwritten the old interval and the rollback removes the Session.
- **quic_repeated_ack_closes.** Repeated ACKs are said to be accepted. Once compaction has
  emptied the sent list, `validateAckCoversSentPackets` refuses any.
- **quic_reset_counted_twice.** A retransmission is said not to consume credit again. A
  RESET_STREAM that arrives twice, or data after it, is charged a second time.

### Bounds

Every bound is a named constant of a module and its value is in the `.cfg`. They are chosen
so that each limit of the code is met and crossed: identifiers wrap while others are in use
(`MaxPacketId` 3 with two slots in `session_state`, 2 with three messages in
`session_delivery`), the queue fills and compacts, the Session table is full,
the live queue overflows (`MaxLiveQueue` 2), the consumed prefix is compacted (`CompactAt`
2), received ranges are evicted (`MaxRanges` 2), the loss threshold is crossed, the window
grows and hits its cap, a limit reaches `VarintMax`, the second stream needs the slot of the
first. Thresholds that are large in the code (256 packets, 1000 bytes, 2^62 - 1) are scaled
down with the quantities they bound. Failures are limited per behaviour (`MaxLosses`,
`MaxFailures`, `MaxRestarts`, one failure in `BrokerPublish`). In `BrokerPublish` each client
connects once: the return of a persistent Session is the subject of `SessionDelivery`.
In `Http2Exchange`, `MaxEvents` bounds the streams
opened plus the streams cut short; 5 is enough for two streams that are both given up before a
third is opened. Its two channels are unbounded: a transport that stops accepting bytes is not
modelled, so `BlockedUploadResumes` is about flow-control credit and not about full sockets.
Symmetry is used on clients and payloads in runs that check invariants only.

`CHECK_DEADLOCK FALSE` appears where behaviours legitimately end: connections, times, opens
or messages are used up, an exchange is over, or an error closed the connection.
`session_state` and `mosquitto_vectors` check for deadlock. The latter has an explicit idle
step, which is enabled only if nobody can act, and `VectorsFinish` refutes being idle before
the end.

### Fairness

- `SessionDelivery`: a task of the broker that can run, runs; the client answers what it
  receives; a client that is away comes back. The first is the operating system's scheduling
  of blocking tasks, the others are assumptions about the peer. Losses, expiry, publishing
  and takeovers are not fair. The liveness property excludes behaviours in which the broker
  goes on closing connections itself.
- `BrokerWills`: the driver task runs when it can, a task that released the lock goes on to
  notify, time passes. Connections owe nothing.
- `Http2Exchange`: each end's current loop continues while it has a frame to read or credit
  to use, and reads the end of the stream once the server has stopped and closed the
  connection, as `serveConnection` does. What applications start is not fair.
- `InteropHarness`: something happens as long as anything can. The socket timeout of five
  seconds is not modelled, so a stuck read is a violation, not a retry.
- The other runs check safety only.

## Proofs

`SessionStateProofs` (module `SessionState`), for every number of slots, identifiers,
messages and queue positions, from `SessionAssumption` and `NoEntryAssumption` (the sizes are
natural numbers, the null values are not messages or entries):

- `SessionConsistency`, and its parts `TypeCorrectness`, `QueueCorrectness`,
  `PacketIdentifierOwnership`, `AcknowledgementKind`;
- `PubRelOwedUntilPubComp`, the action property.

The inductive invariant `IInv` joins the queue's and the table's conditions. Those about the
table are not inductive alone: `removeInflight` clears the index entry that the inflight entry
names, which is the right one only while the index is exact, and decrements a counter that is
positive only while it is exact. There is a lemma per operation, one per helper
(`advanceQueueHead`, compaction, insertion and removal), and the cardinality facts come from
`FiniteSetTheorems`.

`SessionDeliveryProofs` (module `SessionDelivery`), for every set of messages, size of queue and
table, identifier space, set of Receive Maximums and number of losses, from the same assumptions
and `DeliveryAssumption` (the null packet is not a packet, and what a client may refuse has
QoS 2):

- `DeliveryRefines`: the broker with its Session, the connection and the client implement
  `SessionExchange`, under the mapping `waiting <- Waiting(queued)`, `entry <- Entry`, which
  leaves out slots, tombstones, cursors and counters;
- `DeliveryUsesStore`: they also implement `SessionState`, so its theorems hold of a Session in
  use;
- `ExactlyOnceDelivery`, `CompletionAfterDelivery`, `ReceiveMaximumKept`, the three invariants of
  the run.

The argument has two halves. The first is about the abstract exchange alone
(`SessionExchangeProofs`, theorem `ExchangeInvariance`). `ExactlyOnce` says nothing of the packets
under way and is far from inductive. Its invariant `Inv` says that a
message goes by one identifier; that a PUBREL or PUBCOMP under way belongs to a transaction that
waits for it, that there is one of an identifier at a time and that nothing of that identifier
follows a PUBREL; and that, while a delivered QoS 2 publication may reach the client again, the
client still remembers its identifier. These hold whatever expires. Two more parts hold only as
long as nothing was forgotten: every packet and acknowledgement under way is the only one of its
transaction (`Tokens`), and the client remembers only identifiers of transactions the broker still
has (`ClientKnows`). The first gives the Receive Maximum, the second `CompletedMeansDelivered`.
There are lemmas for vanishing transactions, lost packets and a packet taken, and then for the
client's answers and the broker's acknowledgements.

The second half is the refinement. `SessionStepProofs` computes what each Store operation does to
the view by identifier, from the consistency of table and index, and shows action by action that
a step is one of the exchange and one of `SessionState`, and that it sends more only
where the window is open (`WindowStep`). `SessionDeliveryProofs` puts the parts together in the
inductive invariant `DInv`: `IInv`, no message twice in the queue, an empty connection while it is
down, no more sent publications than the Receive Maximum, and the exchange's `Inv`. The last is
needed for the refinement itself: that a rollback or an acknowledgement names an identifier in
use is a fact about the exchange. TLC checked the invariant on the instance of the run before it was proved.

`BrokerSessionsProofs` (modules `SessionStore` and `BrokerSessions`), for any number of clients,
topic filters, Sessions, connections, restarts and downtimes, from `StoreAssumption` (sizes are
natural numbers, there are at least as many route identities as Sessions), `NoSessionAssumption` and
`BrokerAssumption` (null values are not values):

- `StoreCorrect`: both indexes, the counter and the cached expiry bound of the table are exact
  (`StoreConsistent`);
- `OwnershipCorrect`: a connected Session has exactly one connection, whatever displaced, failing
  and leaving ones do (`OwnershipExact`);
- `RouterCorrect`: the router has the subscriptions of the Sessions that exist and no others
  (`RouterFollowsSessions`). This one has a hypothesis, `MaxOpens <= MaxRouteId`: fewer Sessions are
  opened than there are route identities (2^63 - 1 in the code). It is needed, see the observations.

None of the three is inductive. Ownership needs that a connected Session has a slot that *serves* it,
with a handle of the Session's generation, not merely one that names it; that handles are older than
the next generation, so that no connection that was displaced becomes valid again; and that two slots
never serve one Session. The router needs that open gives out a route that nobody has: otherwise
Clean Start would leave the routes of the old Session to the new one. `BrokerInvariant` says this of
a store, the slots, the owners and the routes as parameters, so that a handler is followed through
its calls, with one lemma per call (`RegisterLinked`, `LeaveLinked`, `DropLinked`, ...) and one per
action. TLC checked `BrokerInvariant` on the instance of the run before it was proved.

The handlers' proofs know the table only by what its operations promise
(`StoreWorks`, in `SessionStore`): an operation on a consistent table leaves a consistent one, and
changes exactly these slots. `SessionStoreProofs` proves the promises, and
`StoreKeepsPromises` joins the two. The restoration of a snapshot is a recursive function over the
slots; the promise about it is proved by looking at the first slot at which the table built so far
would be inconsistent, which takes the place of an induction.

`QuicStreamsProofs` (module `QuicStreams`), for every number of streams, window sizes, initial
limits and amount of data, from `VarintMaxAssumption` and `StreamsBounds`:

- `NoLimitMovesBack`: no limit of either end falls and no final size changes, in any step;
- `SenderStaysBehind`: the sender never holds a limit above the receiver's.

`SenderNeverAhead` is not inductive: an advertisement received now may be of any age. The
inductive invariant `StreamsInv` says that no packet in the network names a limit above the
receiver's *present* one, and that a stream the receiver has not heard of still has at most the
initial limit at the sender. The first is kept because the receiver's limits only grow
(`ReturnCreditGrows`, `AcceptGrows`), including when a failed advertisement is rolled back,
since then nothing entered the network. The sender's own steps are summarised by `Kept` (limits
and final sizes stay), the receiver's by `Grows`, and `SenderActsInv` and `ReceiverActsInv`
carry the invariant over both; only `ReceiveLimits` touches both sides.

`QuicDeliveryProofs` (the same module and assumptions):

- `BytesArriveInOrder`: what `available` hands out are the stream's next bytes, and a stream that
  counts as complete was read to the end its sender set (`DeliveredInOrder`);
- `SlotsReturnOnce`: no more streams are open at once than were admitted at first, and a slot
  comes back once, after both halves of its stream ended (`OpenStreamsBounded`);
- `NoCreditLost`: every limit the receiver moved to is in a packet for the sender
  (`LimitsAnnounced`, the part of `CreditExact` about advertisements).

The inductive invariant `DeliveryInv` adds to `StreamsInv` four things. A stream of the
sender that has an end was written exactly up to it (`Sound`), so no later frame carries another
end. Every STREAM frame in the network, however old, carries bytes that were written and the
right end (`FrameTrue`), which stays true because a stream is only written further and never past its
end (`Onward`). Every reassembly buffer has at each position that byte or a hole,
and no hole before its contiguous end (`Reassembles`); it reaches no further than
what was written (`EntryTrue`). And the numbers admitted but not returned, used or not, are at
most the initial ones (`Slots`): counting only the streams that are open is not inductive, since a
stream is admitted long before its first frame arrives. The lemmas on reassembly, at the end of
`QuicStreamsProofs`, cover a frame that overlaps, repeats or overtakes others
(`SpliceFits`, `AdvanceStops`, `InsertReassembles`) and a read that drops a prefix of the buffer
(`ConsumeReassembles`). TLC checked `DeliveryInv` on the instance of the run before it was proved.

Only model-checked: everything else. Liveness under fairness and `ENABLED` (`EveryMessageSettles`,
`EveryDueWillPublished`, `VectorsFinish`, `BlockedUploadResumes`) are beyond the prover. So is, in
general, what recursive functions compute, which needs induction over data: the router's
matching, the heap, the vectors; likewise the sums over streams in the rest of `CreditExact`. The modules that define `RECURSIVE` operators
(`IndexedHeap`, `WillScheduler`, `BrokerWills`, `BrokerPublish`, `MqttBrokerWire`) can hold no
proofs for that reason.

## Observations

Met while modelling, and not findings because no document contradicts them or the consequence
is small:

- `ptoDeadline` is null with an empty recovery queue. After three probes of one payload, an ACK
  of the first empties the queue while the two later copies still fill a minimum window; only
  keep-alive or the idle timer then moves the connection. See the hazard at `one_rtt.zig:2680`.
- `enqueueRetainedDeliveries` comments that the Session is the only owner of identifiers for
  QoS 1 and 2 (`broker.zig:1287`); for a Session that ends with its connection, live QoS 1 messages take
  theirs from the Connection.
- `serve` accepts and waits for CONNECT in one loop, without a timeout: a peer that connects and
  says nothing holds up the others.
- A flush that fails to write to one client's socket ends the publisher's task, and skips the
  destinations not yet flushed (`flushMatches`).
- `handlePubRel` takes the pending message before it routes it: an error in routing loses it.
- The broker never calls `pruneExpired` of the retained store; expired messages are skipped when
  read and keep their space.
- Expiry and `dropOversizedPublish` end a transaction whatever the client may have received of it,
  and free its Packet Identifier. Where identifiers are used again before the client answers, the
  next publication may be taken for a duplicate, or completed by the late acknowledgement. With
  65535 identifiers that takes a long delay; with two TLC meets it, and
  `CompletedMeansDelivered` and `ReceiveMaximumRespected` name the exception (`Forgotten`).
- Once `nextRouteId` has gone through all identities and starts again at 1, Clean Start may give the
  new Session the route of the one it destroys. `register` removes the routes of the old Session only
  if the two differ (`broker.zig:759`), so the subscriptions would survive. It takes 2^63 Sessions;
  `RouterCorrect` has it as a hypothesis.
- Removed router entries and groups leave tombstones that are not reused.
- HTTP/2 frames for a stream that the reader cancelled end the connection in some loops.
- `requestBatchInto` and `requestBodyBatchInto` release every stream when one member is reset, and
  `sendCompleteRequest` when an answer cuts its body short, without an RST_STREAM
  (`runtime.zig:1487`); and `waitForSendCapacity` of the server drops the RST_STREAM of
  a stream it is not writing to. The server then counts streams the client has given up, and may
  answer the next request, within the limit as the client counts it, with `FlowControlViolation`.
- A `RequestWriter` whose RST_STREAM or GOAWAY was read inside another call waits until the server
  closes the connection.
- The scripts of a few vectors race by design, for instance the takeover in `persistent_no_local`;
  the model shows that every order is accepted.

## Not modelled

`PROJECT.json` lists each part with its reason. In short:

- *Codecs and cryptography*: MQTT packets, HPACK, QPACK, HTTP/1.1 and WebSocket parsing, TLS, QUIC
  packet protection. Sequential functions of one input; the models use values in their place.
- *QUIC outside the 1-RTT data path*: handshake, Retry, resumption, connection identifiers,
  migration, PMTU, key update, closing; CUBIC and HyStart++ are floating-point.
- *HTTP/2*: server push, tunnels, priorities and the idle streams they reserve, trailers, the h2c upgrade, SETTINGS after the preface.
- *HTTP/3, WebTransport, WebRTC, gRPC*: no model has been written.
- *Limits that refuse before anything changes*: byte quotas of stores, sizes of names. Their checks
  precede every assignment.
- *In `MqttBrokerWire`*, what no vector reaches: unexpected acknowledgements, SUBSCRIBE on a
  displaced slot, a QoS 2 retransmission that differs, a failing flush of the Will driver, delayed
  Wills. `BrokerSessions`, `BrokerPublish` and `BrokerWills` have the general case of most of them.
- *Command line, logging, search for a free port* of the interoperability suite.

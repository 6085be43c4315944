--------------------------- MODULE MqttBrokerWire ---------------------------
(***************************************************************************)
(* The broker process of examples/mqtt_broker.zig as its clients see it:   *)
(* the accept loop of Broker.serve, one task for each connection, and the  *)
(* Will driver (src/mqtt/broker.zig), over TCP sockets.  A connection is   *)
(* known by the order in which it is accepted, which also names its slot   *)
(* generation and the route of the Session it creates.                     *)
(*                                                                         *)
(* One step is what runs under the broker's locks; between two steps the   *)
(* task keeps what is left of its handler in todo.  The queues never reach *)
(* their bounds here, a Session queues only QoS 0 and 1 messages, and no   *)
(* client with a Will comes back: BrokerPublish, SessionDelivery and       *)
(* BrokerWills have those cases.                                           *)
(***************************************************************************)
EXTENDS MqttPackets, FiniteSets, TLC

LOCAL INSTANCE SequencesExt
LOCAL INSTANCE FiniteSetsExt

CONSTANTS AssignedIds,      \* client identifiers the broker may draw
          NoRoute, NoGroup

VARIABLES
    config,      \* [limits, connections, ignore_errors]: its command line
    sockets,     \* up and down: bytes on their way; client, server: the ends
    slots,       \* the ClientSlot of each connection, with its task
    store,       \* what state_mutex guards: sessions, owners, router, ...
    accepting,   \* where Broker.serve is
    driver,      \* the slots the Will driver has still to flush
    failed,      \* an error serve will return
    exited,      \* "no", "ok", "error": the exit of the process
    now          \* half seconds

brokerVars == <<config, sockets, slots, store, accepting, driver, failed, exited, now>>

R == INSTANCE MqttRouter WITH
       Subscribers <- {}, Filters <- {}, Topics <- {}, SysLevels <- {"$SYS"}, NoLocal <- <<>>,
       Strategies <- {}, MaxEntries <- 0, TrieWidth <- 128, Score <- <<>>, NoShare <- "",
       router <- store.router, subscribed <- {}

C == INSTANCE MqttConnection WITH
       MqttTopics <- {}, Protocols <- {}, MqttMaxPacketId <- 16, AliasSlots <- 16, Windows <- {},
       AliasMaximums <- {}, MaxPublishes <- 0, MaxOnWire <- 0, MaxAuthRounds <- 0, NoTopic <- <<>>,
       mends <- {}, mwire <- {}, mfault <- ""

Never == -1    \* no deadline

LeastOf(x, y) == IF x <= y THEN x ELSE y

Due(deadline) == deadline # Never /\ deadline <= now

\* The deadline of an interval that starts now, in seconds or absent.
DeadlineAfter(seconds) == IF seconds = -1 THEN Never ELSE now + 2 * seconds

-----------------------------------------------------------------------------
(* Sockets *)

Listening == [up |-> <<>>, down |-> <<>>, client |-> "unopened", server |-> "open"]

\* Packets written to c; a peer that is gone swallows them.
Wrote(s, c, packets) ==
    IF s[c].client = "open" /\ s[c].server = "open" THEN [s EXCEPT ![c].down = @ \o packets] ELSE s

\* A write to a peer that is gone, or after shutdown, may also fail.
MayFail(c) == sockets[c].client = "closed" \/ sockets[c].server = "shut"

-----------------------------------------------------------------------------
(* Sessions and routes *)

\* A Session is retired with its route: pending QoS 2 messages and
\* subscriptions go with it.
DropRoute(st, route) ==
    [st EXCEPT !.sessions     = [r \in DOMAIN @ \ {route} |-> @[r]],
               !.pending_qos2 = {p \in @ : p.publisher # route},
               !.router       = R!WithoutSubscriber(@, route)]

\* pruneExpiredSessionRoutesLocked.
PruneExpired(st) ==
    LET due == {r \in DOMAIN st.sessions : ~st.sessions[r].connected /\ Due(st.sessions[r].deadline)}
    IN FoldSet(LAMBDA route, acc : DropRoute(acc, route), st, due)

\* Store.disconnect: the Session ends with its connection when its interval is
\* zero, and otherwise stays until then.
DisconnectSession(st, route, expiry) ==
    LET ownerless == [st EXCEPT !.owners = [r \in DOMAIN @ \ {route} |-> @[r]]] IN
    IF expiry = 0 THEN DropRoute(ownerless, route)
    ELSE [ownerless EXCEPT !.sessions[route].connected = FALSE,
                           !.sessions[route].expiry    = expiry,
                           !.sessions[route].deadline  = DeadlineAfter(expiry)]

\* expiryForConnect; MQTT 3.1.1 has no interval, only Clean Session.
ExpiryForConnect(connect) ==
    CASE connect.v = 5 -> connect.expiry
      [] connect.v # 5 /\ connect.clean -> 0
      [] OTHER -> -1

-----------------------------------------------------------------------------
(* Writing what is queued for a client *)

\* A message for one client, as Publication and Delivery hold it.
Delivery(publish, qos, retain, subids, deadline) ==
    [publish  |-> [publish EXCEPT !.qos = qos, !.mid = 0, !.retain = retain, !.dup = FALSE,
                                  !.alias = 0, !.subids = subids],
     deadline |-> deadline]

\* appendDeliveryPropertiesMany: MQTT 3.1.1 has no properties, and the Message
\* Expiry Interval is what is left of it in whole seconds.
Outgoing(delivery, v) ==
    IF v = 5
    THEN [delivery.publish EXCEPT !.v = 5, !.expiry =
             IF delivery.deadline = Never THEN -1 ELSE (delivery.deadline - now + 1) \div 2]
    ELSE [delivery.publish EXCEPT !.v = 4, !.expiry = -1, !.subids = <<>>, !.props = <<>>]

Fits(f, publish) == PublishBytes(publish) <= f.slot.maximum_packet_size

\* takeSessionPacketLocked and writeEncodedSessionPacket; an oversized PUBLISH
\* is dropped with its identifier.
SendFromSession(f, publish, fits) ==
    [f EXCEPT !.session.queued   = Tail(@),
              !.session.next_id  = @ + 1,
              !.session.inflight = IF fits THEN @ \cup {publish.mid} ELSE @,
              !.out              = IF fits THEN Append(@, publish) ELSE @]

TakeSessionPacket(f, publish) == SendFromSession(f, publish, Fits(f, publish))

\* writePublish, with the alias that prepareAutomaticTopicAlias proposes; an
\* oversized PUBLISH is discarded and its identifier returned.
SendFromQueue(f, reserved, sent, publish, fits) ==
    [f EXCEPT !.slot.queue = Tail(@),
              !.slot.conn  = IF fits THEN C!RememberOutgoingTopicAlias(reserved, sent)
                             ELSE C!ReleaseOutgoingPublish(reserved, publish.mid, publish.qos),
              !.out        = IF fits THEN Append(@, publish) ELSE @]

WriteAliased(f, reserved, sent, publish) ==
    SendFromQueue(f, reserved, sent, publish, Fits(f, publish))

WritePublish(f, plain, sent) ==
    LET conn == f.slot.conn
        qos  == plain.qos
    IN WriteAliased(f, IF qos = 0 THEN conn ELSE C!ReserveOutgoingPublish(conn, qos), sent,
                    [plain EXCEPT !.topic = sent.topic, !.alias = sent.alias,
                                  !.mid = IF qos = 0 THEN 0 ELSE C!FreeId(conn)])

RECURSIVE FlushFrom(_)

\* flushSlotLocked, of f = [slot, session, out]: the Session's packets first,
\* then the queue until the client's window is full.
FlushFrom(f) ==
    LET delivery == Head(f.slot.queue) IN
    IF /\ f.slot.session # 0 /\ f.session.queued # <<>>
       /\ Cardinality(f.session.inflight) < f.slot.conn.max_outgoing_inflight
    THEN FlushFrom(TakeSessionPacket(f,
             Acked(Outgoing(Head(f.session.queued), f.slot.v), 1, f.session.next_id)))
    ELSE IF f.slot.queue = <<>> THEN f
    ELSE IF Due(delivery.deadline) THEN FlushFrom([f EXCEPT !.slot.queue = Tail(@)])
    ELSE IF delivery.publish.qos # 0 /\ ~C!CanReserve(f.slot.conn) THEN f
    ELSE FlushFrom(WritePublish(f, Outgoing(delivery, f.slot.v),
             C!PrepareAutomaticTopicAlias(f.slot.conn, delivery.publish.topic)))

NoSession == [queued |-> <<>>, inflight |-> {}]

\* What flushing slot d makes of it, its Session and its socket.
Flushed(d, ss, st) ==
    FlushFrom([slot    |-> ss[d],
               session |-> IF ss[d].session = 0 THEN NoSession ELSE st.sessions[ss[d].session],
               out     |-> <<>>])

\* A slot without a connection is not flushed.
Flushable(d) == slots[d].active /\ slots[d].attached

\* The flush as part of a step that has made ss and st of slots and store.
FlushTo(d, ss, st, packets, f) ==
    /\ slots' = [ss EXCEPT ![d] = f.slot]
    /\ store' = IF ss[d].session = 0 THEN st
                ELSE [st EXCEPT !.sessions[ss[d].session] = f.session]
    /\ sockets' = Wrote(packets, d, f.out)

Flush(d, ss, st, packets) == FlushTo(d, ss, st, packets, Flushed(d, ss, st))

-----------------------------------------------------------------------------
(* Routing a message *)

\* applyParsedPublish: an empty payload removes what is retained.
ApplyRetained(st, publish, publisher) ==
    LET entry == [publish |-> publish, deadline |-> DeadlineAfter(publish.expiry),
                  publisher |-> publisher]
    IN CASE ~publish.retain -> st
         [] publish.retain /\ (publish.payload = "" \/ publish.expiry = 0) ->
              [st EXCEPT !.retained = [t \in DOMAIN @ \ {publish.topic} |-> @[t]]]
         [] OTHER -> [st EXCEPT !.retained = (publish.topic :> entry) @@ @]

\* deliveriesAlloc: what a SUBSCRIBE replays.
RetainedDeliveries(st, filter, options, existed, route) ==
    LET topics == {t \in DOMAIN st.retained :
                     /\ R!TopicMatchesFilter(t, filter.levels)
                     /\ ~Due(st.retained[t].deadline)
                     /\ ~(options.no_local /\ st.retained[t].publisher = route)}
        order  == SetToSeq(topics)
        replay(entry) == Delivery(entry.publish, LeastOf(entry.publish.qos, options.qos), TRUE,
                                  options.subids, entry.deadline)
    IN IF \/ filter.group # "" \/ options.retain_handling = 2
          \/ options.retain_handling = 1 /\ existed
       THEN <<>> ELSE [i \in DOMAIN order |-> replay(st.retained[order[i]])]

\* slotOwnsSessionRoute: the slot that serves the Session now, or 0.
OnlineOwner(st, ss, route) ==
    IF route \notin DOMAIN st.owners THEN 0
    ELSE LET o == st.owners[route] IN
         IF ss[o].active /\ ss[o].attached /\ ss[o].session = route THEN o ELSE 0

\* The entries a message is sent to: matches in order, then one per group.
Matches(r, topic, publisher) ==
    LET groups == R!GroupHits(r, topic)
        chosen(g) == r.groups[g].entry_indices[CHOOSE i \in R!GroupChoices(r, g, topic) : TRUE]
        hits == R!NormalHits(r, topic, publisher) \o [i \in DOMAIN groups |-> chosen(groups[i])]
    IN [i \in DOMAIN hits |-> r.entries[hits[i]]]

\* One delivery to one route: queued for the client that is online, or in the
\* Session when it is persistent or away.
Deliver(acc, route, delivery, owner) ==
    LET live == delivery.publish.qos = 0 \/ (owner # 0 /\ ~acc.slots[owner].persistent)
        plan == IF owner = 0 THEN acc.plan ELSE Append(acc.plan, owner)
    IN CASE route \notin DOMAIN acc.store.sessions \/ (live /\ owner = 0) -> acc
         [] route \in DOMAIN acc.store.sessions /\ live /\ owner # 0 ->
              [acc EXCEPT !.slots[owner].queue = Append(@, delivery), !.plan = plan]
         [] OTHER ->
              [acc EXCEPT !.store.sessions[route].queued = Append(@, delivery), !.plan = plan]

\* The subscriptions of a route give the highest QoS, whether the message
\* stays retained, and the identifiers in order.
RouteTo(acc, route, subs, publish) ==
    LET qos    == LeastOf(Max({LeastOf(publish.qos, subs[i].options.qos) : i \in DOMAIN subs}),
                          config.limits.maximum_qos)
        retain == publish.retain /\ \E i \in DOMAIN subs : subs[i].options.retain_as_published
        subids == FlattenSeq([i \in DOMAIN subs |-> subs[i].options.subids])
    IN Deliver(acc, route, Delivery(publish, qos, retain, subids, DeadlineAfter(publish.expiry)),
               OnlineOwner(acc.store, acc.slots, route))

RouteAll(start, matches, publish) ==
    LET firsts == SelectSeq([i \in DOMAIN matches |-> i], LAMBDA i :
                      \A j \in 1..(i - 1) : matches[j].subscriber_id # matches[i].subscriber_id)
        step(acc, i) == LET route == matches[i].subscriber_id IN
            RouteTo(acc, route, SelectSeq(matches, LAMBDA m : m.subscriber_id = route), publish)
    IN FoldLeft(step, start, firsts)

Routed(st, ss, publisher, publish) ==
    RouteAll([store |-> [st EXCEPT !.router = R!Matched(@, publish.topic)],
              slots |-> ss, plan |-> <<>>, matched |-> R!HasTopicMatch(st.router, publish.topic)],
             Matches(st.router, publish.topic, publisher), publish)

\* enqueuePublishLocked: [store, slots, plan, matched], where plan lists the
\* slots to flush.
EnqueuePublish(st, ss, publisher, publish) ==
    Routed(ApplyRetained(PruneExpired(st), publish, publisher), ss, publisher, publish)

-----------------------------------------------------------------------------
(* Broker.serve *)

IdleSlot == [active |-> FALSE, task |-> "none"]

BrokerInit(configs) ==
    /\ config \in configs
    /\ sockets = [c \in 1..config.connections |-> Listening]
    /\ slots = [c \in 1..config.connections |-> IdleSlot]
    /\ store = [sessions |-> <<>>, owners |-> <<>>, retained |-> <<>>, pending_qos2 |-> {},
                wills |-> {},
                router |-> R!EmptyRouter("round_robin")]
    /\ accepting = [c |-> 1, stage |-> "accept", replaced |-> 0]
    /\ driver = <<>> /\ failed = FALSE /\ exited = "no" /\ now = 0

\* register: the Session of a client is opened, resumed or replaced, and its
\* owner, should it have one, loses it.
Register(c, connect, id) ==
    LET pruned   == PruneExpired(store)
        previous == {r \in DOMAIN pruned.sessions : pruned.sessions[r].client_id = id}
        resumed  == previous # {} /\ ~connect.clean
        route    == IF resumed THEN CHOOSE r \in previous : TRUE ELSE c
        expiry   == ExpiryForConnect(connect)
        replaced == {pruned.owners[r] : r \in previous \cap DOMAIN pruned.owners}
        kept     == IF resumed THEN pruned ELSE FoldSet(LAMBDA r, st : DropRoute(st, r), pruned, previous)
        fresh    == [client_id |-> id, queued |-> <<>>, inflight |-> {}, next_id |-> 1,
                     connected |-> TRUE, expiry |-> expiry, deadline |-> Never]
        session  == [(IF resumed THEN kept.sessions[route] ELSE fresh)
                       EXCEPT !.connected = TRUE, !.expiry = expiry, !.deadline = Never]
        new      == [C!NewConnection(IF connect.v = 5 THEN "v5" ELSE "v3_1_1",
                                     config.limits.receive_maximum,
                                     config.limits.topic_alias_maximum)
                       EXCEPT !.state = "open"]
        slot     == [active |-> TRUE, attached |-> FALSE, v |-> connect.v, session |-> route,
                     present |-> resumed, persistent |-> expiry # 0, graceful |-> FALSE,
                     assigned |-> IF connect.id = "" THEN id ELSE "", will |-> connect.will,
                     queue |-> <<>>, maximum_packet_size |-> connect.maximum_packet_size,
                     conn |-> C!Negotiated(new, connect), task |-> "none", todo |-> <<>>]
        owners   == [r \in DOMAIN kept.owners \ previous |-> kept.owners[r]]
    IN /\ store' = [kept EXCEPT !.sessions = (route :> session) @@ @,
                                !.owners   = (route :> c) @@ owners]
       /\ slots' = [d \in DOMAIN slots |->
                       CASE d = c -> slot
                         [] d \in replaced -> [slots[d] EXCEPT !.session = 0, !.persistent = FALSE]
                         [] OTHER -> slots[d]]
       /\ accepting' = [c |-> c, stage |-> "connack",
                        replaced |-> IF replaced = {} THEN 0 ELSE CHOOSE o \in replaced : TRUE]

\* Connections are accepted one at a time; in the mode that ignores errors,
\* each by a serve of its own that also awaits its task.
Accepts(c) ==
    /\ accepting.c = c /\ accepting.stage = "accept"
    /\ c \in DOMAIN sockets /\ sockets[c].client # "unopened" /\ sockets[c].up # <<>>
    /\ config.ignore_errors => \A d \in 1..(c - 1) : slots[d].task \in {"none", "done"}

NextConnection(c) == [c |-> c + 1, stage |-> "accept", replaced |-> 0]

Read(c) == [sockets EXCEPT ![c].up = Tail(@)]

\* acceptPending and register; an empty client identifier is replaced by one
\* that no Session has.
AcceptConnect(c) ==
    /\ Accepts(c) /\ Head(sockets[c].up).type = "CONNECT"
    /\ LET connect == Head(sockets[c].up)
           free    == AssignedIds \ {store.sessions[r].client_id : r \in DOMAIN store.sessions}
       IN \E id \in IF connect.id = "" THEN free ELSE {connect.id} : Register(c, connect, id)
    /\ sockets' = Read(c)
    /\ UNCHANGED <<config, driver, failed, exited, now>>

\* acceptPending fails on any other first packet, and its connection is
\* closed: serve shuts the others down and returns the error.
AcceptFails(c) ==
    LET shut(d) == slots[d].active /\ slots[d].attached IN
    /\ Accepts(c) /\ Head(sockets[c].up).type # "CONNECT"
    /\ sockets' = [d \in DOMAIN sockets |->
                      IF d = c THEN [sockets[d] EXCEPT !.server = "closed"]
                      ELSE IF shut(d) THEN [sockets[d] EXCEPT !.server = "shut"]
                      ELSE sockets[d]]
    /\ failed' = ~config.ignore_errors
    /\ accepting' = IF config.ignore_errors THEN NextConnection(c)
                    ELSE NextConnection(config.connections)
    /\ UNCHANGED <<config, slots, store, driver, exited, now>>

\* finish: writeConnAck with the broker's limits, the assigned identifier and
\* Session Present.
WriteConnAck(c) ==
    LET slot == slots[c]
        connack == GenConnAck(slot.v, slot.present, slot.assigned, config.limits)
    IN /\ accepting.c = c /\ accepting.stage = "connack"
       /\ sockets' = Wrote(sockets, c, <<connack>>)
       /\ accepting' = [accepting EXCEPT !.stage = IF accepting.replaced = 0 THEN "attach" ELSE "replace"]
       /\ UNCHANGED <<config, slots, store, driver, failed, exited, now>>

\* disconnectReplacedSessionOwner: unless the old connection has ended since,
\* it is told why and shut down; its task closes it.
DisconnectReplaced(c) ==
    LET o == accepting.replaced
        still == slots[o].active /\ slots[o].session = 0 /\ slots[o].attached
        told == IF slots[o].v = 5 THEN Wrote(sockets, o, <<GenDisconnect(142)>>) ELSE sockets
    IN /\ accepting.c = c /\ accepting.stage = "replace"
       /\ sockets' = IF still THEN [told EXCEPT ![o].server = "shut"] ELSE sockets
       /\ accepting' = [accepting EXCEPT !.stage = "attach"]
       /\ UNCHANGED <<config, slots, store, driver, failed, exited, now>>

AttachConnection(c) ==
    /\ accepting.c = c /\ accepting.stage = "attach"
    /\ slots' = [slots EXCEPT ![c].attached = TRUE]
    /\ accepting' = [accepting EXCEPT !.stage = "flush"]
    /\ UNCHANGED <<config, sockets, store, driver, failed, exited, now>>

\* The first flush, and the connection's task starts.
StartTask(c) ==
    /\ accepting.c = c /\ accepting.stage = "flush"
    /\ Flush(c, [slots EXCEPT ![c].task = "running"], store, sockets)
    /\ accepting' = NextConnection(c)
    /\ UNCHANGED <<config, driver, failed, exited, now>>

Serve(c) ==
    AcceptConnect(c) \/ AcceptFails(c) \/ WriteConnAck(c) \/ DisconnectReplaced(c)
      \/ AttachConnection(c) \/ StartTask(c)

\* All tasks have ended: serve returns, and so does main.
Finished ==
    /\ exited = "no"
    /\ accepting.c > config.connections
    /\ \A c \in DOMAIN slots : slots[c].task # "running"
    /\ driver = <<>>

Exit ==
    /\ Finished
    /\ exited' = IF failed THEN "error" ELSE "ok"
    /\ UNCHANGED <<config, sockets, slots, store, accepting, driver, failed, now>>

-----------------------------------------------------------------------------
(* ClientTask.runLoop: what is left of a handler *)

ToWrite(packet) == [op |-> "write", packet |-> packet]
ToFlush(d) == [op |-> "flush", slot |-> d]
ToRoute(publish) == [op |-> "route", publish |-> publish]
Leave == [op |-> "unregister"]

Running(c) == slots[c].task = "running"
Ready(c) == Running(c) /\ slots[c].todo = <<>>
Doing(c, op) == Running(c) /\ slots[c].todo # <<>> /\ Head(slots[c].todo).op = op

Then(ss, c, todo) == [ss EXCEPT ![c].todo = todo]
Later(c) == Tail(slots[c].todo)

\* The packet the task reads next is of this type.
Reads(c, type) == Ready(c) /\ sockets[c].up # <<>> /\ Head(sockets[c].up).type = type

Got(c) == Head(sockets[c].up)

\* The handler reads its packet, leaving ss, st and todo.
Handled(c, ss, st, todo) ==
    /\ sockets' = Read(c)
    /\ slots' = Then(ss, c, todo)
    /\ store' = st
    /\ UNCHANGED <<config, accepting, driver, failed, exited, now>>

\* The task returns an error that is not a transport's.
Fails(c) ==
    /\ sockets' = Read(c)
    /\ slots' = Then(slots, c, <<Leave>>)
    /\ failed' = (failed \/ ~config.ignore_errors)
    /\ UNCHANGED <<config, store, accepting, driver, exited, now>>

\* readPacketWithInactivityTimeout finds the connection ended; a peer that
\* closes with data unread resets it, and data already here may be lost.
ReadEnds(c) ==
    /\ Ready(c)
    /\ \/ sockets[c].up = <<>> /\ sockets[c].client = "closed"
       \/ sockets[c].client = "closed" /\ sockets[c].down # <<>>
       \/ sockets[c].server = "shut"
    /\ slots' = Then(slots, c, <<Leave>>)
    /\ UNCHANGED <<config, sockets, store, accepting, driver, failed, exited, now>>

WritePacket(c) ==
    /\ Doing(c, "write")
    /\ LET packet == Head(slots[c].todo).packet
           done == CASE packet.type = "PUBACK" -> C!CompleteIncomingPublish(slots[c].conn, "puback", packet.mid)
                     [] packet.type = "PUBCOMP" -> C!CompleteIncomingPublish(slots[c].conn, "pubcomp", packet.mid)
                     [] OTHER -> slots[c].conn
       IN /\ sockets' = Wrote(sockets, c, <<packet>>)
          /\ slots' = [slots EXCEPT ![c].todo = Later(c), ![c].conn = done]
    /\ UNCHANGED <<config, store, accepting, driver, failed, exited, now>>

\* A transport error ends the task, whichever client it was writing to.
WriteFails(c) ==
    /\ \/ Doing(c, "write") /\ MayFail(c)
       \/ /\ Doing(c, "flush")
          /\ LET d == Head(slots[c].todo).slot IN
             Flushable(d) /\ MayFail(d) /\ Flushed(d, slots, store).out # <<>>
    /\ slots' = Then(slots, c, <<Leave>>)
    /\ UNCHANGED <<config, sockets, store, accepting, driver, failed, exited, now>>

\* flushSlot, of this or another client's slot.
FlushSlot(c) ==
    /\ Doing(c, "flush")
    /\ LET d == Head(slots[c].todo).slot
           ss == Then(slots, c, Later(c))
       IN IF Flushable(d) THEN Flush(d, ss, store, sockets)
          ELSE slots' = ss /\ UNCHANGED <<store, sockets>>
    /\ UNCHANGED <<config, accepting, driver, failed, exited, now>>

\* The route of the Session a publisher has, or its own slot (canonicalPublisherId).
Publisher(c) == IF slots[c].session # 0 THEN slots[c].session ELSE -c

\* routeReleasedPublish at PUBREL.
RoutePublish(c) ==
    /\ Doing(c, "route")
    /\ LET routed(e) ==
              /\ slots' = Then(e.slots, c, [i \in DOMAIN e.plan |-> ToFlush(e.plan[i])] \o Later(c))
              /\ store' = e.store
       IN routed(EnqueuePublish(store, slots, Publisher(c), Head(slots[c].todo).publish))
    /\ UNCHANGED <<config, sockets, accepting, driver, failed, exited, now>>

\* The Will of a connection that closes without Normal Disconnection; none has
\* a delay here, so it is due at once.
Scheduled(c) ==
    IF slots[c].will = NoWill THEN {}
    ELSE {[publish |-> slots[c].will, publisher |-> Publisher(c)]}

\* unregister: what handleDisconnect has not done, and the socket is closed.
Unregister(c) ==
    LET slot == slots[c]
        st   == [store EXCEPT !.wills = IF slot.graceful THEN @ ELSE @ \cup Scheduled(c),
                              !.pending_qos2 = {p \in @ : p.publisher # -c}]
    IN /\ Doing(c, "unregister")
       /\ store' = IF slot.session = 0 THEN st
                   ELSE DisconnectSession(st, slot.session, store.sessions[slot.session].expiry)
       /\ slots' = [slots EXCEPT ![c].active = FALSE, ![c].attached = FALSE, ![c].queue = <<>>,
                                 ![c].session = 0, ![c].task = "done", ![c].todo = <<>>]
       /\ sockets' = [sockets EXCEPT ![c].server = "closed"]
       /\ UNCHANGED <<config, accepting, driver, failed, exited, now>>

-----------------------------------------------------------------------------
(* ClientTask.runLoop: one handler for each packet *)

\* A packet in the client's protocol; MQTT 3.1.1 has no reasons (protocolReason).
AckFor(c, type, mid, rc) ==
    [GenAck(type, mid, IF slots[c].v = 5 THEN rc ELSE 0) EXCEPT !.v = slots[c].v]

\* disconnectReasonForReadViolation, of a PUBLISH: 0 when it may be read.
PublishViolation(c, p) ==
    LET conn     == slots[c].conn
        alias    == C!AliasError(conn, p)
        recorded == C!RecordError(conn, p.qos, p.mid)
    IN CASE PublishBytes(p) > config.limits.maximum_packet_size -> 149
         [] p.qos > config.limits.maximum_qos -> 155
         [] p.retain /\ ~config.limits.retain_available -> 154
         [] alias = "TopicAliasInvalid" -> 148
         [] alias = "InvalidTopic" \/ recorded = "InvalidPacketIdentifier" -> 130
         [] recorded = "ReceiveMaximumExceeded" -> 147
         [] OTHER -> 0

\* validateIncomingSubscribe: identifiers first, then each filter.
SubscribeViolation(s) ==
    CASE s.subid # 0 /\ ~config.limits.subscription_identifier_available -> 161
      [] s.filter.group # "" /\ ~config.limits.shared_subscription_available -> 158
      [] /\ \E i \in DOMAIN s.filter.levels : s.filter.levels[i] \in {"+", "#"}
         /\ ~config.limits.wildcard_subscription_available -> 162
      [] OTHER -> 0

Violation(c, p) ==
    CASE p.type = "PUBLISH" -> PublishViolation(c, p)
      [] p.type = "SUBSCRIBE" -> SubscribeViolation(p)
      [] OTHER -> 0

\* disconnectForReadViolation: only MQTT 5 is told the reason.
ReadViolation(c) ==
    /\ Ready(c) /\ sockets[c].up # <<>>
    /\ Violation(c, Got(c)) # 0
    /\ Handled(c, slots, store,
               (IF slots[c].v = 5 THEN <<ToWrite(GenDisconnect(Violation(c, Got(c))))>> ELSE <<>>)
                 \o <<Leave>>)

\* readBrokerEvent, of a PUBLISH: the slot with its alias and identifier
\* recorded, and the message with its topic.
Recorded(c) ==
    LET p == Got(c) IN
    [slots EXCEPT ![c].conn =
        C!RecordIncomingPublish(C!ApplyIncomingTopicAlias(@, p), p.qos, p.mid)]

Message(c) == [Got(c) EXCEPT !.topic = C!ResolvedTopic(slots[c].conn, Got(c)), !.alias = 0]

ReadsPublish(c) == Reads(c, "PUBLISH") /\ PublishViolation(c, Got(c)) = 0

\* routePublish: a client may not send a Subscription Identifier.
RefusePublish(c) ==
    /\ ReadsPublish(c) /\ Got(c).subids # <<>>
    /\ Fails(c)

\* QoS 0 and 1 are routed at once; PUBACK goes out before the flushes.
HandlePublish(c) ==
    /\ ReadsPublish(c) /\ Got(c).subids = <<>> /\ Got(c).qos # 2
    /\ LET puback(e) == AckFor(c, "PUBACK", Got(c).mid, IF e.matched THEN 0 ELSE 16)
           todo(e)   == (IF Got(c).qos = 1 THEN <<ToWrite(puback(e))>> ELSE <<>>)
                          \o [i \in DOMAIN e.plan |-> ToFlush(e.plan[i])]
           routed(e) == Handled(c, e.slots, e.store, todo(e))
       IN routed(EnqueuePublish(store, Recorded(c), Publisher(c), Message(c)))

\* recordQoS2Publish: a retransmission finds the message stored already.
RecordQoS2(st, publisher, publish) ==
    IF \E p \in st.pending_qos2 : p.publisher = publisher /\ p.publish.mid = publish.mid THEN st
    ELSE [st EXCEPT !.pending_qos2 = @ \cup {[publisher |-> publisher, publish |-> publish]}]

HandlePublishQoS2(c) ==
    /\ ReadsPublish(c) /\ Got(c).subids = <<>> /\ Got(c).qos = 2
    /\ Handled(c, Recorded(c), RecordQoS2(store, Publisher(c), Message(c)),
               <<ToWrite(AckFor(c, "PUBREC", Got(c).mid, 0))>>)

\* handlePubRel takes the message stored, if there is one, and routes it
\* before PUBCOMP.
HandlePubRel(c) ==
    LET taken == {p \in store.pending_qos2 : p.publisher = Publisher(c) /\ p.publish.mid = Got(c).mid}
        pubcomp == <<ToWrite(AckFor(c, "PUBCOMP", Got(c).mid, 0))>>
    IN /\ Reads(c, "PUBREL")
       /\ Handled(c, slots, [store EXCEPT !.pending_qos2 = @ \ taken],
                  IF taken = {} THEN pubcomp
                  ELSE <<ToRoute((CHOOSE p \in taken : TRUE).publish)>> \o pubcomp)

\* handleSessionAckLocked, applyPubAck, applyPubRec and applyPubComp: an
\* acknowledgement of what was not sent is an error.
SessionOwns(c, mid) == slots[c].session # 0 /\ mid \in store.sessions[slots[c].session].inflight

AckKnown(c) ==
    LET ack == Got(c)
        conn == slots[c].conn
    IN CASE ack.type = "PUBACK" -> ack.mid \in conn.outgoing_qos1
         [] ack.type = "PUBREC" -> ack.mid \in conn.outgoing_qos2
         [] ack.type = "PUBCOMP" -> ack.mid \in conn.outgoing_qos2_pubrel

IsAck(c) == \E type \in {"PUBACK", "PUBREC", "PUBCOMP"} : Reads(c, type)

\* Mutant of FlushAfterAck: what waited for the window keeps waiting.
FlushAfterAckMutant(c) == <<>>

\* Every acknowledgement that ends a transaction flushes the slot.
FlushAfterAck(c) == <<ToFlush(c)>>

HandleSessionAck(c) ==
    /\ IsAck(c) /\ SessionOwns(c, Got(c).mid)
    /\ Handled(c, slots, [store EXCEPT !.sessions[slots[c].session].inflight = @ \ {Got(c).mid}],
               FlushAfterAck(c))

HandleAck(c) ==
    LET ack == Got(c) IN
    /\ IsAck(c) /\ ~SessionOwns(c, ack.mid) /\ AckKnown(c)
    /\ IF ack.type = "PUBREC"
       THEN Handled(c, [slots EXCEPT ![c].conn.outgoing_qos2 = @ \ {ack.mid},
                                     ![c].conn.outgoing_qos2_pubrel = @ \cup {ack.mid}], store,
                    <<ToWrite(AckFor(c, "PUBREL", ack.mid, 0))>>)
       ELSE Handled(c, [slots EXCEPT ![c].conn =
                          C!ReleaseOutgoingPublish(@, ack.mid, IF ack.type = "PUBACK" THEN 1 ELSE 2)],
                    store, FlushAfterAck(c))

\* handleSubscribe, with the slot's writer lock held: SUBACK goes out before
\* retained messages, which queue as live ones or in the Session.
HandleSubscribe(c) ==
    LET p       == Got(c)
        route   == slots[c].session
        qos     == LeastOf(p.options.qos, config.limits.maximum_qos)
        options == [qos |-> qos, no_local |-> p.options.no_local,
                    retain_as_published |-> p.options.retain_as_published,
                    retain_handling |-> p.options.retain_handling,
                    subids |-> IF p.subid = 0 THEN <<>> ELSE <<p.subid>>]
        existed == R!FindEntry(store.router, route, p.filter) # 0
        replay  == RetainedDeliveries(store, p.filter, options, existed, route)
        ss      == [slots EXCEPT ![c].queue = @ \o SelectSeq(replay, LAMBDA d : d.publish.qos = 0)]
        st      == [store EXCEPT
                      !.router = R!Subscribed(@, route, p.filter, options),
                      !.sessions[route].queued = @ \o SelectSeq(replay, LAMBDA d : d.publish.qos > 0)]
        suback  == [GenSubAck(p.mid, qos) EXCEPT !.v = slots[c].v]
    IN /\ Reads(c, "SUBSCRIBE") /\ SubscribeViolation(p) = 0 /\ route # 0
       /\ Flush(c, ss, st, Wrote(Read(c), c, <<suback>>))
       /\ UNCHANGED <<config, accepting, driver, failed, exited, now>>

\* handleUnsubscribe; MQTT 3.1.1 has no reasons.
HandleUnsubscribe(c) ==
    LET p     == Got(c)
        route == slots[c].session
        found(filter) == R!FindEntry(store.router, route, filter) # 0
        without(r, filter) ==
            IF R!FindEntry(r, route, filter) = 0 THEN r ELSE R!Removed(r, R!FindEntry(r, route, filter))
        reasons == [i \in DOMAIN p.filters |-> IF found(p.filters[i]) THEN 0 ELSE 17]
        unsuback == [GenUnsubAck(p.mid, IF slots[c].v = 5 THEN reasons ELSE <<>>) EXCEPT !.v = slots[c].v]
    IN /\ Reads(c, "UNSUBSCRIBE") /\ route # 0
       /\ Handled(c, slots, [store EXCEPT !.router = FoldLeft(without, @, p.filters)],
                  <<ToWrite(unsuback)>>)

HandlePing(c) ==
    /\ Reads(c, "PINGREQ")
    /\ Handled(c, slots, store, <<ToWrite(GenPingResp)>>)

\* handleDisconnect: Normal Disconnection discards the Will, and MQTT 5 may
\* replace the Session Expiry Interval.
HandleDisconnect(c) ==
    LET p      == Got(c)
        route  == slots[c].session
        st     == [store EXCEPT !.wills = IF p.rc = 0 THEN @ ELSE @ \cup Scheduled(c)]
        expiry == IF p.expiry = -1 THEN store.sessions[route].expiry ELSE p.expiry
    IN /\ Reads(c, "DISCONNECT")
       /\ Handled(c, [slots EXCEPT ![c].graceful = TRUE, ![c].session = 0],
                  IF route = 0 THEN st ELSE DisconnectSession(st, route, expiry), <<Leave>>)

Task(c) ==
    \/ ReadEnds(c) \/ ReadViolation(c)
    \/ WritePacket(c) \/ WriteFails(c) \/ FlushSlot(c) \/ RoutePublish(c) \/ Unregister(c)
    \/ HandlePing(c) \/ HandlePublish(c) \/ RefusePublish(c) \/ HandlePublishQoS2(c) \/ HandlePubRel(c)
    \/ HandleSessionAck(c) \/ HandleAck(c)
    \/ HandleSubscribe(c) \/ HandleUnsubscribe(c) \/ HandleDisconnect(c)

-----------------------------------------------------------------------------
(* Broker.runWillDriver *)

\* Mutant of WillMessage: Will Delay is passed on.
WillMessageMutant(will) == will

\* publishWillLocked: Will Delay is not a property of the message.
WillMessage(will) ==
    [will EXCEPT !.props = SelectSeq(@, LAMBDA p : p.id # "will_delay_interval")]

\* publishDueWillsLocked: each due Will becomes a message, and every slot is
\* to be flushed.
PublishDueWills ==
    LET published(w, acc) == EnqueuePublish(acc.store, acc.slots, w.publisher, WillMessage(w.publish))
        enqueued(e) == store' = [e.store EXCEPT !.wills = {}] /\ slots' = e.slots
    IN /\ exited = "no" /\ driver = <<>> /\ store.wills # {}
       /\ enqueued(FoldSet(published, [store |-> store, slots |-> slots], store.wills))
       /\ driver' = [d \in DOMAIN slots |-> d]
       /\ UNCHANGED <<config, sockets, accepting, failed, exited, now>>

\* flushAllSlots, one slot at a time.
FlushNextSlot ==
    /\ driver # <<>>
    /\ IF Flushable(Head(driver)) THEN Flush(Head(driver), slots, store, sockets)
       ELSE UNCHANGED <<slots, store, sockets>>
    /\ driver' = Tail(driver)
    /\ UNCHANGED <<config, accepting, failed, exited, now>>

\* Some part of the broker has something to do.
BrokerBusy ==
    \/ \E c \in DOMAIN slots :
         \/ Accepts(c)
         \/ accepting.c = c /\ accepting.stage # "accept"
         \/ Running(c) /\ (slots[c].todo # <<>> \/ sockets[c].up # <<>>)
         \/ Running(c) /\ (sockets[c].client = "closed" \/ sockets[c].server = "shut")
    \/ (exited = "no" /\ store.wills # {}) \/ driver # <<>>
    \/ Finished

BrokerNext ==
    \/ \E c \in DOMAIN slots : Serve(c) \/ Task(c)
    \/ PublishDueWills \/ FlushNextSlot \/ Exit

=============================================================================

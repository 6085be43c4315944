---------------------------- MODULE BrokerPublish ----------------------------
(***************************************************************************)
(* The publication path of the MQTT broker (src/mqtt/broker.zig,           *)
(* broker/publication.zig, broker/qos2.zig, broker/session_delivery.zig):  *)
(* each connected client has a task that reads its packets and a slot with *)
(* a bounded queue of live deliveries.  A publication is routed under the  *)
(* state lock, then flushed slot by slot under each slot's writer lock, so *)
(* tasks interleave between a pop, the write, and the push back.           *)
(*                                                                         *)
(* bslots   the client slots; queue holds the deliveries after the         *)
(*          queue_head consumed places of the storage, session what the    *)
(*          client's Session State (module SessionState) still owes it     *)
(* btasks   where each task is, with what it popped and has yet to flush   *)
(* brefs    the reference count of each publication, numbered as routed    *)
(* bpending the publishers with a QoS 2 message not yet released           *)
(* bnext    the number of publications routed so far                       *)
(* bsent    the live deliveries written on each connection, a history      *)
(* bfailed  whether an error cut a flush short, a history                  *)
(***************************************************************************)
EXTENDS Integers, Sequences, FiniteSets

CONSTANTS Clients,         \* client slots, and their tasks
          Durables,        \* the clients whose Session may outlive a connection
          MatchPlans,      \* what the router may return: sequences of clients
          MaxPublications, \* bound on the messages published
          MaxLiveQueue,    \* max_queued_deliveries_per_connection
          QueueCapacity,   \* capacity of the queue's storage (larger)
          CompactAt,       \* popDelivery compacts from this head on (64)
          Window,          \* max_outgoing_inflight
          MaxPending,      \* maximum of the pending QoS 2 store
          MaxConnects      \* bound on the connections of a client

ASSUME CapacityAssumption == QueueCapacity > MaxLiveQueue

VARIABLES bslots, btasks, brefs, bpending, bnext, bsent, bfailed

brokerVars == <<bslots, btasks, brefs, bpending, bnext, bsent, bfailed>>

Publications == 1..MaxPublications
NoTask == 0

-----------------------------------------------------------------------------
(* ClientSlot *)

EmptySlot ==
    [active |-> FALSE, persistent |-> FALSE, queue |-> <<>>, queue_head |-> 0,
     session |-> <<>>, session_ids |-> {}, session_next |-> 1,
     outgoing |-> {}, next_packet_id |-> 1, writer |-> NoTask, connects |-> 0]

\* queuedCount, and the length of the underlying list.
QueuedCount(s) == Len(s.queue)
ItemsLen(s) == s.queue_head + Len(s.queue)

\* popDelivery: the slot after the pop, compacted once half is consumed.
PopDelivery(s) ==
    LET head == s.queue_head + 1 IN
    [s EXCEPT !.queue = Tail(@),
              !.queue_head = IF head >= CompactAt /\ head * 2 >= ItemsLen(s) THEN 0 ELSE head]

\* pushFront: into the consumed place before the head, or by moving the rest.
PushFront(s, d) ==
    [s EXCEPT !.queue = <<d>> \o @, !.queue_head = IF @ # 0 THEN @ - 1 ELSE 0]

\* appendDeliveryAssumeCapacity: consumed places are reclaimed first.
AppendDelivery(s, d) ==
    [s EXCEPT !.queue = Append(@, d),
              !.queue_head = IF ItemsLen(s) = QueueCapacity THEN 0 ELSE @]

\* removePublication.
RemovePublication(s, p) ==
    LET kept == SelectSeq(s.queue, LAMBDA d : d.publication # p)
    IN [s EXCEPT !.queue = kept, !.queue_head = IF kept = <<>> THEN 0 ELSE @]

\* clearQueue releases every delivery: how many of them hold p.
ReferencesIn(s, p) == Cardinality({i \in DOMAIN s.queue : s.queue[i].publication = p})

-----------------------------------------------------------------------------
(* enqueuePublishLocked *)

RECURSIVE Enqueue(_, _, _)

\* A QoS 0 message, or any to a Session that ends with its connection, is
\* delivered live; the other Sessions own their messages.
TakesLive(s, qos) == s.active /\ (~s.persistent \/ qos = 0)

\* The matches that become live deliveries: route_reservations counts those
\* already planned for a slot, and a slot at its bound drops the match.
PlanFor(slots, matches, qos) ==
    LET live == SelectSeq(matches, LAMBDA c : TakesLive(slots[c], qos))
        reserved(i) == Cardinality({j \in 1..(i - 1) : live[j] = live[i]})
        kept == SelectSeq([i \in DOMAIN live |-> i],
                    LAMBDA i : QueuedCount(slots[live[i]]) + reserved(i) < MaxLiveQueue)
    IN [k \in DOMAIN kept |-> live[kept[k]]]

Mentions(s, p) == \E i \in DOMAIN s.queue : s.queue[i].publication = p

\* The plan is enqueued; overlapping matches of one client merge into the
\* delivery already queued, and leave their reference unused.
Enqueue(slots, plan, d) ==
    IF plan = <<>> THEN slots
    ELSE LET c == Head(plan) IN
         Enqueue(IF Mentions(slots[c], d.publication) THEN slots
                 ELSE [slots EXCEPT ![c] = AppendDelivery(@, d)],
                 Tail(plan), d)

\* Mutant of ReferencesAfter: the references of merged matches stay.
ReferencesAfterMutant(slots, plan, p) == Len(plan)

\* One reference per planned match, less those of merged matches.
ReferencesAfter(slots, plan, p) ==
    Cardinality({c \in Clients : Mentions(slots[c], p)})

\* Sessions that outlive their connection own the message themselves: it is
\* queued once, and the client flushed once.
Durable(slots, matches) ==
    {c \in Clients : slots[c].persistent /\ slots[c].connects > 0
                       /\ \E i \in DOMAIN matches : matches[i] = c}

\* enqueuePublishLocked: the slots afterwards.
EnqueuePublishLocked(slots, matches, d) ==
    LET stored == [c \in Clients |->
            IF c \in Durable(slots, matches) /\ d.qos > 0
            THEN [slots[c] EXCEPT !.session = Append(@, d)] ELSE slots[c]]
    IN Enqueue(stored, PlanFor(slots, matches, d.qos), d)

\* The slots flushed after the state lock is released.
FlushTargets(slots, matches, d) ==
    LET durable == SelectSeq([i \in DOMAIN matches |-> i],
            LAMBDA i : slots[matches[i]].persistent /\ slots[matches[i]].active /\ d.qos > 0
                         /\ \A j \in 1..(i - 1) : matches[j] # matches[i])
    IN PlanFor(slots, matches, d.qos) \o [k \in DOMAIN durable |-> matches[durable[k]]]

-----------------------------------------------------------------------------

NoDelivery == [publication |-> 0, qos |-> 0]

\* acks: whether the publisher is still to be acknowledged, and if so before
\* ("first") or after ("last") the flushes.
Idle == [pc |-> "idle", plan |-> <<>>, held |-> NoDelivery, acks |-> "no"]

BrokerPublishInit ==
    /\ bslots = [c \in Clients |-> EmptySlot]
    /\ btasks = [c \in Clients |-> Idle]
    /\ brefs = [p \in Publications |-> 0]
    /\ bpending = {}
    /\ bnext = 0
    /\ bsent = [c \in Clients |-> <<>>]
    /\ bfailed = FALSE

At(t, pc) == btasks[t].pc = pc
Running(t) == bslots[t].active /\ At(t, "idle")
WriterFree(c) == bslots[c].writer = NoTask
Locked(c, t) == [bslots EXCEPT ![c].writer = t]
ToFlush(t, plan, acks) ==
    [btasks EXCEPT ![t] = [Idle EXCEPT !.pc = "flush", !.plan = plan, !.acks = acks]]
\* An error cuts a flush short: once in a behaviour, a bound.
Failed == ~bfailed /\ bfailed' = TRUE

Leaving(t) == [btasks EXCEPT ![t] = [Idle EXCEPT !.pc = "leaving"]]

\* serve accepts t's client with a transient or a persistent Session, and
\* flushes what the Session still owes it.  A client comes back with the kind
\* of Session it had.
Register(t, persistent) ==
    LET s == bslots[t] IN
    /\ ~s.active /\ At(t, "idle")
    /\ s.connects < MaxConnects
    /\ s.connects > 0 => s.persistent = persistent
    /\ bslots' = [bslots EXCEPT ![t] =
          [EmptySlot EXCEPT !.active = TRUE, !.persistent = persistent,
                            !.connects = s.connects + 1, !.session = s.session]]
    /\ bsent' = [bsent EXCEPT ![t] = <<>>]
    /\ btasks' = ToFlush(t, <<t>>, "no")
    /\ UNCHANGED <<brefs, bpending, bnext, bfailed>>

\* routeReleasedPublish: routed under the state lock, then flushed; PUBACK is
\* written before the flushes.
RouteReleasedPublish(t, qos, matches, acks) ==
    LET d == [publication |-> bnext + 1, qos |-> qos] IN
    /\ bnext < MaxPublications
    /\ bslots' = EnqueuePublishLocked(bslots, matches, d)
    /\ brefs' = [brefs EXCEPT ![bnext + 1] =
                    ReferencesAfter(bslots', PlanFor(bslots, matches, qos), bnext + 1)]
    /\ btasks' = ToFlush(t, FlushTargets(bslots, matches, d), acks)
    /\ bnext' = bnext + 1

\* routePublish of a QoS 0 or 1 message.
RoutePublish(t, qos, matches) ==
    /\ Running(t)
    /\ RouteReleasedPublish(t, qos, matches, IF qos = 1 THEN "first" ELSE "no")
    /\ UNCHANGED <<bpending, bsent, bfailed>>

\* routePublish when an overlapping match finds no memory for its identifier:
\* the queues are rolled back and the task ends, but Sessions keep what they
\* stored.
RouteFails(t, qos, matches) ==
    LET p     == bnext + 1
        plan  == PlanFor(bslots, matches, qos)
        stuck == EnqueuePublishLocked(bslots, matches, [publication |-> p, qos |-> qos])
    IN /\ Running(t) /\ bnext < MaxPublications
       /\ Len(plan) > Cardinality({plan[i] : i \in DOMAIN plan})
       /\ bslots' = [c \in Clients |-> RemovePublication(stuck[c], p)]
       /\ bnext' = p
       /\ Failed
       /\ btasks' = Leaving(t)
       /\ UNCHANGED <<brefs, bpending, bsent>>

\* recordQoS2Publish: stored before PUBREC.  A full store refuses the message,
\* and a repeated packet finds it stored: neither changes anything.
RecordQoS2Publish(t) ==
    /\ Running(t) /\ WriterFree(t)
    /\ t \notin bpending /\ Cardinality(bpending) < MaxPending
    /\ bpending' = bpending \cup {t}
    /\ UNCHANGED <<bslots, btasks, brefs, bnext, bsent, bfailed>>

\* handlePubRel: the transaction is taken, routed and flushed, then PUBCOMP is
\* written; a repeated PUBREL finds nothing and is only answered.
HandlePubRel(t, matches) ==
    /\ Running(t)
    /\ t \in bpending
    /\ bpending' = bpending \ {t}
    /\ RouteReleasedPublish(t, 2, matches, "last")
    /\ UNCHANGED <<bsent, bfailed>>

\* A message that expired while it waited for PUBREL is not routed.
ReleaseExpired(t) ==
    /\ Running(t) /\ WriterFree(t)
    /\ t \in bpending
    /\ bpending' = bpending \ {t}
    /\ UNCHANGED <<bslots, btasks, brefs, bnext, bsent, bfailed>>

\* handleSubscribe with a retained message to replay: QoS 0 to the queue, QoS
\* 1 to Session State, under the slot's writer lock; then the slot is flushed.
HandleSubscribe(t, qos) ==
    LET d    == [publication |-> bnext + 1, qos |-> qos]
        s    == [bslots[t] EXCEPT !.writer = t]
        full == QueuedCount(s) >= MaxLiveQueue
    IN /\ Running(t) /\ WriterFree(t) /\ bnext < MaxPublications
       /\ bslots' = [bslots EXCEPT ![t] =
             IF qos > 0 THEN [s EXCEPT !.session = Append(@, d)]
             ELSE IF full THEN s ELSE AppendDelivery(s, d)]
       /\ brefs' = [brefs EXCEPT ![bnext + 1] = IF qos = 0 /\ ~full THEN 1 ELSE 0]
       /\ bnext' = bnext + 1
       /\ btasks' = [btasks EXCEPT ![t] = [Idle EXCEPT !.pc = "drain", !.plan = <<t>>]]
       /\ UNCHANGED <<bpending, bsent, bfailed>>

\* PUBACK or PUBCOMP to the publisher, under its own writer lock.
Acknowledge(t) ==
    /\ At(t, "flush") /\ WriterFree(t)
    /\ \/ btasks[t].acks = "first"
       \/ btasks[t].acks = "last" /\ btasks[t].plan = <<>>
    /\ btasks' = [btasks EXCEPT ![t].acks = "no"]
    /\ UNCHANGED <<bslots, brefs, bpending, bnext, bsent, bfailed>>

\* flushMatches takes the writer lock of the next slot, or is done.
FlushSlot(t) ==
    /\ At(t, "flush") /\ btasks[t].acks # "first"
    /\ \/ /\ btasks[t].plan = <<>> /\ btasks[t].acks = "no"
          /\ btasks' = [btasks EXCEPT ![t] = Idle]
          /\ UNCHANGED bslots
       \/ /\ btasks[t].plan # <<>> /\ WriterFree(Head(btasks[t].plan))
          /\ bslots' = Locked(Head(btasks[t].plan), t)
          /\ btasks' = [btasks EXCEPT ![t].pc = "drain"]
    /\ UNCHANGED <<brefs, bpending, bnext, bsent, bfailed>>

Target(t) == Head(btasks[t].plan)

\* What Session State lets the connection send now.
SessionReady(s) == s.session # <<>> /\ Cardinality(s.session_ids) < Window

NextSlot(t) ==
    [btasks EXCEPT ![t] = [@ EXCEPT !.pc = "flush", !.plan = Tail(@), !.held = NoDelivery]]

\* flushSlotLocked writes what Session State owes first (takeSessionPacketLocked):
\* a message too large for the client is dropped from Session State
\* (dropOversizedPublish), its identifier spent.
DrainSession(t) ==
    LET c == Target(t)
        s == bslots[c]
    IN /\ At(t, "drain") /\ s.active /\ SessionReady(s)
       /\ \E ids \in {s.session_ids, s.session_ids \cup {s.session_next}} :
            bslots' = [bslots EXCEPT ![c].session = Tail(@),
                                     ![c].session_ids = ids,
                                     ![c].session_next = @ + 1]
       /\ UNCHANGED <<btasks, brefs, bpending, bnext, bsent, bfailed>>

\* That write fails: Session State still owes the message (retryUnsentPublish),
\* and the error ends the flush and the task.
DrainSessionFails(t) ==
    LET c == Target(t) IN
    /\ At(t, "drain") /\ bslots[c].active /\ SessionReady(bslots[c])
    /\ bslots' = Locked(c, NoTask)
    /\ Failed
    /\ btasks' = Leaving(t)
    /\ UNCHANGED <<brefs, bpending, bnext, bsent>>

\* flushSlotLocked pops the next live delivery under the state lock, or leaves.
DrainQueue(t) ==
    LET c == Target(t)
        s == bslots[c]
    IN /\ At(t, "drain")
       /\ ~(s.active /\ SessionReady(s))
       /\ \/ /\ ~s.active \/ QueuedCount(s) = 0
             /\ bslots' = Locked(c, NoTask)
             /\ btasks' = NextSlot(t)
          \/ /\ s.active /\ QueuedCount(s) # 0
             /\ bslots' = [bslots EXCEPT ![c] = PopDelivery(@)]
             /\ btasks' = [btasks EXCEPT ![t].pc = "write", ![t].held = Head(s.queue)]
       /\ UNCHANGED <<brefs, bpending, bnext, bsent, bfailed>>

\* Delivery.deinit.
Release(d) == [brefs EXCEPT ![d.publication] = @ - 1]

Keeps(t) == [btasks EXCEPT ![t].pc = "drain", ![t].held = NoDelivery]

\* writePublish succeeds.
WriteDelivery(t) ==
    LET c == Target(t)
        s == bslots[c]
        d == btasks[t].held
    IN /\ At(t, "write")
       /\ d.qos > 0 => Cardinality(s.outgoing) < Window
       /\ bslots' = IF d.qos = 0 THEN bslots
                    ELSE [bslots EXCEPT ![c].outgoing = @ \cup {s.next_packet_id},
                                        ![c].next_packet_id = @ + 1]
       /\ bsent' = [bsent EXCEPT ![c] = Append(@, d.publication)]
       /\ brefs' = Release(d)
       /\ btasks' = Keeps(t)
       /\ UNCHANGED <<bpending, bnext, bfailed>>

\* InflightFull: the delivery goes back to the front, and the flush ends.
PushBack(t) ==
    LET c == Target(t) IN
    /\ At(t, "write") /\ btasks[t].held.qos > 0
    /\ Cardinality(bslots[c].outgoing) >= Window
    /\ bslots' = [bslots EXCEPT ![c] = [PushFront(@, btasks[t].held) EXCEPT !.writer = NoTask]]
    /\ btasks' = NextSlot(t)
    /\ UNCHANGED <<brefs, bpending, bnext, bsent, bfailed>>

\* The message expired, or is too large for the client.
DiscardDelivery(t) ==
    /\ At(t, "write")
    /\ brefs' = Release(btasks[t].held)
    /\ btasks' = Keeps(t)
    /\ UNCHANGED <<bslots, bpending, bnext, bsent, bfailed>>

\* The write fails: the error ends the flush, and with it the task that was
\* flushing, which need not be the task of the client at fault.
WriteFails(t) ==
    /\ At(t, "write")
    /\ brefs' = Release(btasks[t].held)
    /\ bslots' = Locked(Target(t), NoTask)
    /\ Failed
    /\ btasks' = Leaving(t)
    /\ UNCHANGED <<bpending, bnext, bsent>>

\* Mutant of ClientAck: the slot is not flushed.
ClientAckMutant(t) ==
    LET s == bslots[t] IN
    /\ Running(t) /\ WriterFree(t)
    /\ \E id \in s.session_ids \cup s.outgoing :
         bslots' = [bslots EXCEPT
             ![t].session_ids = @ \ {id},
             ![t].outgoing = IF id \in s.session_ids THEN @ ELSE @ \ {id}]
    /\ UNCHANGED <<btasks, brefs, bpending, bnext, bsent, bfailed>>

\* runLoop on PUBACK or PUBCOMP: the transaction of Session State that has the
\* identifier ends (handleSessionAckLocked), or else the connection's own; the
\* slot is flushed.
ClientAck(t) ==
    LET s == bslots[t] IN
    /\ Running(t) /\ WriterFree(t)
    /\ \E id \in s.session_ids \cup s.outgoing :
         bslots' = [bslots EXCEPT
             ![t].session_ids = @ \ {id},
             ![t].outgoing = IF id \in s.session_ids THEN @ ELSE @ \ {id}]
    /\ btasks' = ToFlush(t, <<t>>, "no")
    /\ UNCHANGED <<brefs, bpending, bnext, bsent, bfailed>>

\* The client's connection is lost while its task waits for a packet.
ConnectionLost(t) ==
    /\ Running(t)
    /\ btasks' = Leaving(t)
    /\ UNCHANGED <<bslots, brefs, bpending, bnext, bsent, bfailed>>

\* unregister: the queue is cleared; a Session that ends with its connection
\* takes its messages and its pending QoS 2 transactions along.
Unregister(t) ==
    LET s == bslots[t] IN
    /\ At(t, "leaving") /\ WriterFree(t)
    /\ brefs' = [p \in Publications |-> brefs[p] - ReferencesIn(s, p)]
    /\ bslots' = [bslots EXCEPT ![t] =
          [EmptySlot EXCEPT !.persistent = s.persistent, !.connects = s.connects,
                            !.session = IF s.persistent THEN s.session ELSE <<>>]]
    /\ bpending' = IF s.persistent THEN bpending ELSE bpending \ {t}
    /\ btasks' = [btasks EXCEPT ![t] = Idle]
    /\ UNCHANGED <<bnext, bsent, bfailed>>

BrokerPublishNext ==
    \E t \in Clients :
        \/ \E persistent \in {FALSE, (t \in Durables)} : Register(t, persistent)
        \/ \E qos \in 0..1, matches \in MatchPlans : RoutePublish(t, qos, matches)
        \/ \E qos \in 0..1, matches \in MatchPlans : RouteFails(t, qos, matches)
        \/ RecordQoS2Publish(t) \/ ReleaseExpired(t)
        \/ \E matches \in MatchPlans : HandlePubRel(t, matches)
        \/ \E qos \in 0..1 : HandleSubscribe(t, qos)
        \/ Acknowledge(t) \/ FlushSlot(t) \/ DrainSession(t) \/ DrainSessionFails(t)
        \/ DrainQueue(t) \/ WriteDelivery(t) \/ PushBack(t) \/ DiscardDelivery(t) \/ WriteFails(t)
        \/ ClientAck(t) \/ ConnectionLost(t) \/ Unregister(t)

BrokerPublishSpec == BrokerPublishInit /\ [][BrokerPublishNext]_brokerVars

-----------------------------------------------------------------------------

Holders(p) == {t \in Clients : btasks[t].held.publication = p}
QueuedIn(p) == {<<c, i>> \in Clients \X (1..QueueCapacity) :
                   i \in DOMAIN bslots[c].queue /\ bslots[c].queue[i].publication = p}

\* A publication's reference count is the number of deliveries that hold it,
\* in the queues and in the hands of the tasks writing them: Publication.release
\* frees it exactly when the last one is gone.  The queues keep to their bound,
\* but for the one delivery that is put back after a full window, and pushFront
\* and appendDeliveryAssumeCapacity never outgrow the storage.
PublicationRefsExact ==
    /\ \A p \in Publications : brefs[p] = Cardinality(QueuedIn(p)) + Cardinality(Holders(p))
    /\ \A c \in Clients : /\ ItemsLen(bslots[c]) <= QueueCapacity
                          /\ QueuedCount(bslots[c]) <= MaxLiveQueue + 1

Increasing(q) == \A i, j \in DOMAIN q : i < j => q[i] < q[j]

\* A client receives its live deliveries in the order they were routed, each
\* once, although tasks pop, write and put back concurrently; and when no task
\* is at work a delivery waits only for an acknowledgement that will flush it
\* (unless an error cut a flush short: flushMatches then leaves the slots
\* after the failing one to the next event that concerns them).  Where the
\* Session outlives the connection it alone owns the Packet Identifiers in use
\* (enqueueRetainedDeliveries); where it does not, the connection allocates its
\* own beside it.
LiveFlow ==
    /\ \A c \in Clients : Increasing(bsent[c])
    /\ (\A t \in Clients : At(t, "idle")) /\ ~bfailed =>
         \A c \in Clients : bslots[c].active =>
             /\ QueuedCount(bslots[c]) # 0 => Cardinality(bslots[c].outgoing) >= Window
             /\ bslots[c].session # <<>> => Cardinality(bslots[c].session_ids) >= Window
    /\ \A c \in Clients :
         bslots[c].persistent => bslots[c].session_ids \cap bslots[c].outgoing = {}

=============================================================================

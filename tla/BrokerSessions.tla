--------------------------- MODULE BrokerSessions ---------------------------
(***************************************************************************)
(* Who owns a Session (src/mqtt/broker.zig): connection slots that open,   *)
(* take over, resume and leave Sessions of the SessionStore, and the three *)
(* structures that have to follow them: the owner of each online Session,  *)
(* the topic router's subscriptions, and the inbound QoS 2 transactions    *)
(* that wait for PUBREL.                                                   *)
(*                                                                         *)
(* Every handler runs under the broker's state lock, so its calls are one  *)
(* step.  CONNACK, the reader task's reads and the reads a handler makes   *)
(* before it takes the lock are steps of their own.  The accept loop of    *)
(* serve sets up one connection at a time, in the slots' order, and ends   *)
(* with the first one that fails; reader tasks run concurrently with it.   *)
(***************************************************************************)
EXTENDS SessionStore

CONSTANTS MaxConnections,   \* options.limits.max_connections
          MaxTime,          \* bound on the clock
          MaxOpens,         \* bound on the Sessions opened
          MaxRestarts,      \* bound on the restarts
          Downtimes,        \* possible downtimes of a restart
          QoS2,             \* whether clients publish with QoS 2
          NoHandle,         \* slot.session_handle = null
          NoOwner           \* a route without an entry in session_owners

VARIABLES
    store,           \* broker.sessions
    slots,           \* broker.slots
    session_owners,  \* broker.session_owners
    router,          \* broker.router: the filters of each Session route
    pending_qos2,    \* broker.pending_qos2: publishers with a transaction
    captured,        \* handleSubscribe: the handle read before the lock
    next_slot,       \* serve: the slot of the next connection it accepts
    now,             \* the clock
    opens,           \* Sessions opened so far
    restarts         \* restarts so far

brokerVars == <<store, slots, session_owners, router, pending_qos2, captured>>
vars == <<brokerVars, next_slot, now, opens, restarts>>

ConnectionSlots == 1..MaxConnections

\* The identities the router and pending_qos2 use: a Session's route, or one
\* connection (slot and generation).
SessionSubscriber(r) == <<"session", r>>
Connection(s) == <<"connection", s, slots[s].generation>>
Subscribers == {SessionSubscriber(r) : r \in RouteIds}
    \cup {<<"connection", s, g>> : s \in ConnectionSlots, g \in 0..MaxOpens}

\* phase: "free", "accepting" until CONNACK is written, "attached", "closing"
\* once the reader task has failed or taken DISCONNECT.
Slot == [phase           : {"free", "accepting", "attached", "closing"},
         generation      : 0..MaxOpens,
         session_handle  : Handle \cup {NoHandle},
         session_present : BOOLEAN]

ASSUME BrokerAssumption ==
    /\ MaxConnections \in Nat
    /\ MaxTime \in Nat
    /\ MaxOpens \in Nat
    /\ MaxRestarts \in Nat
    /\ Downtimes \subseteq Nat
    /\ NoHandle \notin Handle
    /\ NoOwner \notin Subscribers

\* Type correctness of the broker's connection and Session tables.
BrokerTypeOK ==
    /\ store \in Store
    /\ slots \in [ConnectionSlots -> Slot]
    /\ session_owners \in [RouteIds -> Subscribers \cup {NoOwner}]
    /\ router \in [RouteIds -> SUBSET Filters]
    /\ pending_qos2 \subseteq Subscribers
    /\ captured \in [ConnectionSlots -> Handle \cup {NoHandle}]
    /\ next_slot \in 1..(MaxConnections + 1)
    /\ now \in 0..MaxTime
    /\ opens \in 0..MaxOpens
    /\ restarts \in 0..MaxRestarts

BrokerInit ==
    /\ store = EmptyStore
    /\ slots = [s \in ConnectionSlots |->
                  [phase |-> "free", generation |-> 0,
                   session_handle |-> NoHandle, session_present |-> FALSE]]
    /\ session_owners = [r \in RouteIds |-> NoOwner]
    /\ router = [r \in RouteIds |-> {}]
    /\ pending_qos2 = {}
    /\ captured = [s \in ConnectionSlots |-> NoHandle]
    /\ next_slot = 1
    /\ now = 0
    /\ opens = 0
    /\ restarts = 0

-----------------------------------------------------------------------------

Active(s) == slots[s].phase # "free"
Holds(s) == slots[s].session_handle # NoHandle /\ Valid(store, slots[s].session_handle)
RouteOf(h) == SessionOf(store, h).route_id

\* router.removeSubscriber and pending_qos2.removePublisher for Sessions that
\* are gone.
Unrouted(R) == [r \in RouteIds |-> IF r \in R THEN {} ELSE router[r]]
WithoutPublishers(R) == pending_qos2 \ {SessionSubscriber(r) : r \in R}

\* pruneExpiredSessionRoutesLocked.
PrunedPending == WithoutPublishers(PrunedRoutes(store, now))
PrunedRouter == Unrouted(PrunedRoutes(store, now))

\* enqueuePublishLocked sweeps before it routes a publication.
Sweep ==
    /\ SweepDue(store, now)
    /\ store' = Pruned(store, now)
    /\ router' = PrunedRouter
    /\ pending_qos2' = PrunedPending
    /\ UNCHANGED <<slots, session_owners, captured, next_slot, now, opens, restarts>>

\* detachReplacedSessionOwnerLocked, for the owner a takeover displaces.
Detached(owner) ==
    [s \in ConnectionSlots |->
        IF Active(s) /\ Connection(s) = owner
        THEN [slots[s] EXCEPT !.session_handle = NoHandle] ELSE slots[s]]

\* Mutant of StaleRoutes: Clean Start keeps the routes of the old Session.
StaleRoutesMutant(previous, current) == {}

\* The old Session's route, if Clean Start replaced it by another one.
StaleRoutes(previous, current) == previous \ {current}

\* serve accepts the connection of slot s.
Accepting(s) ==
    /\ s = next_slot
    /\ \A t \in ConnectionSlots : slots[t].phase # "accepting"
    /\ opens < MaxOpens

\* register: sweep, open, displace the previous owner, drop the routes of a
\* Session that Clean Start destroyed, and route the subscriptions of the one
\* that was opened.
Register(s, c, clean_start, interval) ==
    LET before    == Pruned(store, now)
        previous  == {before.sessions[i].route_id : i \in {before.client_index[c]} \ {0}}
        after     == Opened(before, c, clean_start, interval, now)
        handle    == HandleFor(after, c)
        route     == SessionOf(after, handle).route_id
        stale     == StaleRoutes(previous, route)
        replaced  == {r \in previous :
                        before.sessions[before.client_index[c]].connected}
        owner     == IF replaced = {} THEN NoOwner
                     ELSE session_owners[CHOOSE r \in replaced : TRUE]
        me        == <<"connection", s, slots[s].generation + 1>>
    IN
    /\ Accepting(s)
    /\ CanOpen(before, c, clean_start, now)
    /\ store' = after
    /\ slots' = [Detached(owner) EXCEPT ![s] =
         [phase |-> "accepting", generation |-> @.generation + 1,
          session_handle |-> handle,
          session_present |-> SessionPresent(before, c, clean_start, now)]]
    /\ session_owners' = [r \in RouteIds |->
         IF r = route THEN me ELSE IF r \in previous THEN NoOwner
                                   ELSE session_owners[r]]
    /\ router' = [r \in RouteIds |->
         IF r = route
         THEN (IF r \in stale THEN {} ELSE PrunedRouter[r])
                \cup SessionOf(after, handle).subscriptions
         ELSE IF r \in stale THEN {} ELSE PrunedRouter[r]]
    /\ pending_qos2' = PrunedPending \ {SessionSubscriber(r) : r \in stale}
    /\ opens' = opens + 1
    /\ next_slot' = s + 1
    /\ UNCHANGED <<captured, now, restarts>>

\* register without room for another Session: only the sweep took place, and
\* serve ends.
RegisterRefused(s, c, clean_start) ==
    /\ Accepting(s)
    /\ ~CanOpen(Pruned(store, now), c, clean_start, now)
    /\ store' = Pruned(store, now)
    /\ router' = PrunedRouter
    /\ pending_qos2' = PrunedPending
    /\ slots' = [slots EXCEPT ![s].generation = @ + 1]
    /\ opens' = opens + 1
    /\ next_slot' = MaxConnections + 1
    /\ UNCHANGED <<session_owners, captured, now, restarts>>

\* CONNACK is written and attachConnection hands the slot to its reader task;
\* a displaced connection is shut down, so that its task fails some time.
Attach(s) ==
    /\ slots[s].phase = "accepting"
    /\ slots' = [slots EXCEPT ![s].phase = "attached"]
    /\ UNCHANGED <<store, session_owners, router, pending_qos2, captured, next_slot,
                   now, opens, restarts>>

\* The slot as unregister and abortRegistration leave it.
Freed(s) == [slots EXCEPT ![s].phase = "free", ![s].session_handle = NoHandle,
                          ![s].session_present = FALSE]

\* Mutant of RolledBack: a failed accept leaves the Session connected.
RolledBackMutant(h, session_present) == store

\* rollbackOpenedSessionLocked: a resumed Session goes offline again, a new
\* one is discarded.
RolledBack(h, session_present) ==
    IF session_present
    THEN Disconnected(store, h, SessionOf(store, h).expiry_interval, now)
    ELSE RemoveAt(store, {h.index})

\* abortRegistration: CONNACK could not be written, and serve ends.
Abort(s) ==
    LET h == slots[s].session_handle
        after == RolledBack(h, slots[s].session_present)
    IN
    /\ slots[s].phase = "accepting"
    /\ store' = after
    /\ session_owners' = [session_owners EXCEPT ![RouteOf(h)] = NoOwner]
    /\ router' = IF after.route_index[RouteOf(h)] = 0
                 THEN Unrouted({RouteOf(h)}) ELSE router
    /\ slots' = Freed(s)
    /\ next_slot' = MaxConnections + 1
    /\ UNCHANGED <<pending_qos2, captured, now, opens, restarts>>

\* The Session a connection leaves, with the interval then in force.
Leave(h, interval) ==
    LET gone == IF interval = 0 THEN {RouteOf(h)} ELSE {} IN
    /\ store' = Disconnected(store, h, interval, now)
    /\ session_owners' = [session_owners EXCEPT ![RouteOf(h)] = NoOwner]
    /\ router' = Unrouted(gone)

\* handleDisconnect.
Disconnect(s, interval) ==
    /\ slots[s].phase = "attached"
    /\ IF Holds(s)
       THEN LET h == slots[s].session_handle IN
            /\ OverrideAllowed(store, h, interval)
            /\ Leave(h, interval)
            /\ pending_qos2' = WithoutPublishers(IF interval = 0 THEN {RouteOf(h)} ELSE {})
       ELSE /\ interval = 0
            /\ UNCHANGED <<store, session_owners, router, pending_qos2>>
    /\ slots' = [slots EXCEPT ![s].phase = "closing",
                              ![s].session_handle = NoHandle]
    /\ UNCHANGED <<captured, next_slot, now, opens, restarts>>

\* handleDisconnect refusing an interval (InvalidProperty): the owner entry is
\* already gone, and unregister has to do the rest.
DisconnectInvalid(s) ==
    /\ slots[s].phase = "attached"
    /\ Holds(s)
    /\ SessionOf(store, slots[s].session_handle).expiry_interval = 0
    /\ session_owners' = [session_owners EXCEPT
                            ![RouteOf(slots[s].session_handle)] = NoOwner]
    /\ slots' = [slots EXCEPT ![s].phase = "closing"]
    /\ UNCHANGED <<store, router, pending_qos2, captured, next_slot, now, opens, restarts>>

\* unregister, at the end of every reader task, whatever ended it.
Unregister(s) ==
    LET h == slots[s].session_handle IN
    /\ slots[s].phase \in {"attached", "closing"}
    /\ IF Holds(s)
       THEN LET interval == SessionOf(store, h).expiry_interval IN
            /\ Leave(h, interval)
            /\ pending_qos2' = WithoutPublishers(IF interval = 0 THEN {RouteOf(h)} ELSE {})
       ELSE /\ pending_qos2' = IF h = NoHandle THEN pending_qos2 \ {Connection(s)}
                                               ELSE pending_qos2
            /\ UNCHANGED <<store, session_owners, router>>
    /\ slots' = Freed(s)
    /\ captured' = [captured EXCEPT ![s] = NoHandle]
    /\ UNCHANGED <<next_slot, now, opens, restarts>>

-----------------------------------------------------------------------------
(* What an attached connection does.                                       *)

\* handleSubscribe reads its Session handle without the state lock.
SubscribeBegins(s) ==
    /\ slots[s].phase = "attached"
    /\ slots[s].session_handle # NoHandle
    /\ captured[s] = NoHandle
    /\ captured' = [captured EXCEPT ![s] = slots[s].session_handle]
    /\ UNCHANGED <<store, slots, session_owners, router, pending_qos2, next_slot, now,
                   opens, restarts>>

\* Under the lock the Session and the router are given the subscription; a
\* handle that a takeover has made stale ends the task.
SubscribeCommits(s, f) ==
    LET h == captured[s] IN
    /\ h # NoHandle
    /\ captured' = [captured EXCEPT ![s] = NoHandle]
    /\ IF Valid(store, h)
       THEN /\ store' = [store EXCEPT !.sessions[h.index].subscriptions = @ \cup {f}]
            /\ router' = [router EXCEPT ![RouteOf(h)] = @ \cup {f}]
            /\ UNCHANGED slots
       ELSE /\ slots' = [slots EXCEPT ![s].phase = "closing"]
            /\ UNCHANGED <<store, router>>
    /\ UNCHANGED <<session_owners, pending_qos2, next_slot, now, opens, restarts>>

\* handleUnsubscribe; without a Session the task ends with SessionNotFound.
Unsubscribe(s, f) ==
    LET h == slots[s].session_handle IN
    /\ slots[s].phase = "attached"
    /\ captured[s] = NoHandle
    /\ IF Holds(s)
       THEN /\ store' = [store EXCEPT !.sessions[h.index].subscriptions = @ \ {f}]
            /\ router' = [router EXCEPT ![RouteOf(h)] = @ \ {f}]
            /\ UNCHANGED slots
       ELSE /\ slots' = [slots EXCEPT ![s].phase = "closing"]
            /\ UNCHANGED <<store, router>>
    /\ UNCHANGED <<session_owners, pending_qos2, captured, next_slot, now, opens, restarts>>

\* canonicalPublisherId.
Publisher(s) ==
    IF Holds(s) THEN SessionSubscriber(RouteOf(slots[s].session_handle))
                ELSE Connection(s)

\* recordQoS2Publish and the take in handlePubRel.
RecordQoS2(s) ==
    /\ QoS2
    /\ slots[s].phase = "attached"
    /\ captured[s] = NoHandle
    /\ pending_qos2' = pending_qos2 \cup {Publisher(s)}
    /\ UNCHANGED <<store, slots, session_owners, router, captured, next_slot, now, opens,
                   restarts>>

PubRel(s) ==
    /\ slots[s].phase = "attached"
    /\ captured[s] = NoHandle
    /\ pending_qos2' = pending_qos2 \ {Publisher(s)}
    /\ UNCHANGED <<store, slots, session_owners, router, captured, next_slot, now, opens,
                   restarts>>

-----------------------------------------------------------------------------
(* Shutdown and restart.                                                   *)

\* saveSnapshot wants an idle broker, and a Session behind every transaction.
Idle == /\ \A s \in ConnectionSlots : slots[s].phase = "free"
        /\ \A r \in RouteIds : session_owners[r] = NoOwner

HasSession(st, p) == \E r \in RouteIds : p = SessionSubscriber(r) /\ st.route_index[r] # 0

CanSave == Idle /\ \A p \in pending_qos2 : HasSession(store, p)

\* restoreSnapshot checks the transactions against the restored Sessions.
CanRestore(downtime) ==
    \A p \in pending_qos2 : HasSession(Restored(store, now, downtime), p)

Restart(downtime) ==
    LET after == Restored(store, now, downtime) IN
    /\ restarts < MaxRestarts
    /\ CanSave
    /\ CanRestore(downtime)
    /\ store' = after
    /\ router' = [r \in RouteIds |->
         IF after.route_index[r] = 0 THEN {}
         ELSE after.sessions[after.route_index[r]].subscriptions]
    /\ next_slot' = 1
    /\ restarts' = restarts + 1
    /\ UNCHANGED <<slots, session_owners, pending_qos2, captured, now, opens>>

\* The next call of serve, once every connection of the last one has ended.
Serve ==
    /\ next_slot # 1
    /\ \A s \in ConnectionSlots : slots[s].phase = "free"
    /\ next_slot' = 1
    /\ UNCHANGED <<brokerVars, now, opens, restarts>>

Tick ==
    /\ now < MaxTime
    /\ now' = now + 1
    /\ UNCHANGED <<brokerVars, next_slot, opens, restarts>>

BrokerNext ==
    \/ Tick
    \/ Serve
    \/ Sweep
    \/ \E downtime \in Downtimes : Restart(downtime)
    \/ \E s \in ConnectionSlots :
         \/ \E c \in Clients, clean_start \in BOOLEAN :
              \/ RegisterRefused(s, c, clean_start)
              \/ \E interval \in ExpiryIntervals : Register(s, c, clean_start, interval)
         \/ Attach(s)
         \/ Abort(s)
         \/ \E interval \in ExpiryIntervals : Disconnect(s, interval)
         \/ DisconnectInvalid(s)
         \/ Unregister(s)
         \/ SubscribeBegins(s)
         \/ \E f \in Filters : SubscribeCommits(s, f) \/ Unsubscribe(s, f)
         \/ RecordQoS2(s)
         \/ PubRel(s)

BrokerSpec == BrokerInit /\ [][BrokerNext]_vars

-----------------------------------------------------------------------------
(* Properties.                                                             *)

\* The Session table stays consistent, and the sweep cannot miss a Session:
\* dueExpiryCount trusts next_expiry_ns when it returns without looking.
StoreConsistent == BrokerTypeOK /\ IndexesExact(store) /\ ExpiryBound(store)

\* A Session is online through exactly one connection.  The handle of a slot
\* whose task is at work is valid, no other slot has it, and session_owners
\* names that slot; an owner entry names a slot that holds the Session.
\* Fanout dereferences the entry without a check.
SoleOwner ==
    /\ \A s \in ConnectionSlots :
         slots[s].session_handle # NoHandle /\ slots[s].phase # "closing" =>
           /\ Active(s)
           /\ Holds(s)
           /\ session_owners[RouteOf(slots[s].session_handle)] = Connection(s)
    /\ \A s, t \in ConnectionSlots :
         slots[s].session_handle = slots[t].session_handle
            => s = t \/ slots[s].session_handle = NoHandle
    /\ \A r \in RouteIds : session_owners[r] # NoOwner =>
         \E s \in ConnectionSlots : /\ Active(s)
                                    /\ session_owners[r] = Connection(s)
                                    /\ Holds(s)
                                    /\ RouteOf(slots[s].session_handle) = r

ConnectedHasOwner ==
    \A i \in Occupied(store) : store.sessions[i].connected =>
        \E s \in ConnectionSlots :
            /\ slots[s].session_handle # NoHandle
            /\ slots[s].session_handle.index = i

\* Sessions and connections belong together one to one.  No two connections
\* serve a Session, and a connected Session has a connection: one that had
\* none would never expire and could not be collected.
OwnershipExact == SoleOwner /\ ConnectedHasOwner

\* The router knows the subscriptions of the Sessions that exist and no
\* others, through takeovers, Clean Start, expiry and restarts; the assertions
\* in handleSubscribe and handleUnsubscribe rely on it.
RouterFollowsSessions ==
    \A r \in RouteIds :
        router[r] = IF store.route_index[r] = 0 THEN {}
                    ELSE store.sessions[store.route_index[r]].subscriptions

\* "A resumed Session is returned offline rather than discarded": when CONNACK
\* cannot be written, a Session that existed before still exists
\* (abortRegistration, rollbackOpenedSessionLocked).
ResumedSessionSurvivesAbort ==
    [][\A s \in ConnectionSlots :
          Abort(s) /\ slots[s].session_present
             => store'.route_index[RouteOf(slots[s].session_handle)] # 0]_vars

=============================================================================

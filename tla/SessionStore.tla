---------------------------- MODULE SessionStore ----------------------------
(***************************************************************************)
(* The table of Sessions (src/mqtt/session/mod.zig, struct Store): the     *)
(* slots, the two indexes into them, the generations that make connection  *)
(* handles expire, the stable route identities the topic router uses, and  *)
(* the deadlines that end offline Sessions.                                *)
(*                                                                         *)
(* The operations are functions from a store to a store, so that the       *)
(* broker's handlers can be written as the sequences of calls they are.    *)
(* What a Session holds besides its subscriptions is the subject of        *)
(* SessionState.  Byte quotas are left out.  Slots count from 1; a 0 in an *)
(* index means that the key is absent.                                     *)
(***************************************************************************)
EXTENDS Integers, FiniteSets

CONSTANTS Clients,       \* Client Identifiers
          Filters,       \* topic filters
          MaxSessions,   \* options.max_sessions
          MaxRouteId,    \* 2^63 - 1 in the code
          Intervals,     \* finite, non-zero Session Expiry Intervals
          Forever,       \* the interval 0xFFFFFFFF
          Never,         \* a deadline no clock reaches, for null
          NoSession      \* a null slot

ASSUME StoreAssumption ==
    /\ MaxSessions \in Nat \ {0}
    /\ MaxRouteId \in Nat
    /\ MaxRouteId >= MaxSessions
    /\ Intervals \subseteq Nat \ {0}
    /\ Forever \notin Nat
    /\ Never \in Nat

SessionSlots == 1..MaxSessions
RouteIds == 1..MaxRouteId
ExpiryIntervals == Intervals \cup {0, Forever}

Session == [client_id : Clients, generation : Nat \ {0}, route_id : RouteIds,
            connected : BOOLEAN, expiry_interval : ExpiryIntervals,
            expires_at : Nat, subscriptions : SUBSET Filters]

Store == [sessions        : [SessionSlots -> Session \cup {NoSession}],
          client_index    : [Clients -> SessionSlots \cup {0}],
          route_index     : [RouteIds -> SessionSlots \cup {0}],
          session_count   : 0..MaxSessions,
          next_generation : Nat \ {0},
          next_route_id   : RouteIds,
          next_expiry     : Nat]

\* A null slot is not a Session.
ASSUME NoSessionAssumption == NoSession \notin Session

Handle == [index : SessionSlots, generation : Nat \ {0}]

EmptyStore ==
    [sessions        |-> [i \in SessionSlots |-> NoSession],
     client_index    |-> [c \in Clients |-> 0],
     route_index     |-> [r \in RouteIds |-> 0],
     session_count   |-> 0,
     next_generation |-> 1,
     next_route_id   |-> 1,
     next_expiry     |-> Never]

-----------------------------------------------------------------------------

Occupied(st) == {i \in SessionSlots : st.sessions[i] # NoSession}

\* getSession: the handle's generation must be the one in the slot.
Valid(st, h) == /\ st.sessions[h.index] # NoSession
                /\ st.sessions[h.index].generation = h.generation

SessionOf(st, h) == st.sessions[h.index]

LeastOf(S) == CHOOSE m \in S : \A n \in S : m <= n

\* expiryDeadline.
Deadline(interval, now) == IF interval = Forever THEN Never ELSE now + interval

IsExpired(st, i, now) ==
    /\ ~st.sessions[i].connected
    /\ st.sessions[i].expires_at # Never
    /\ now >= st.sessions[i].expires_at

Due(st, now) == {i \in Occupied(st) : IsExpired(st, i, now)}

\* Mutant of RemoveAt: the route identity stays in its index.
RemoveAtMutant(st, S) ==
    [st EXCEPT
       !.sessions      = [i \in SessionSlots |-> IF i \in S THEN NoSession ELSE @[i]],
       !.client_index  = [c \in Clients |-> IF @[c] \in S THEN 0 ELSE @[c]],
       !.session_count = @ - Cardinality(S)]

\* removeAt for every slot of S.
RemoveAt(st, S) ==
    [st EXCEPT
       !.sessions      = [i \in SessionSlots |-> IF i \in S THEN NoSession ELSE @[i]],
       !.client_index  = [c \in Clients |-> IF @[c] \in S THEN 0 ELSE @[c]],
       !.route_index   = [r \in RouteIds |-> IF @[r] \in S THEN 0 ELSE @[r]],
       !.session_count = @ - Cardinality(S)]

\* nextRouteId: the next identity, cyclically, that no Session owns.
NextRouteId(st) ==
    LET distance(r) == (r - st.next_route_id) % MaxRouteId
    IN CHOOSE r \in RouteIds :
         /\ st.route_index[r] = 0
         /\ \A q \in RouteIds : st.route_index[q] = 0 => distance(r) <= distance(q)

RouteAfter(r) == (r % MaxRouteId) + 1

-----------------------------------------------------------------------------
(* open.                                                                   *)

\* An existing Session gets a new connection, and with it a new handle.
Resumed(st, i, interval) ==
    [st EXCEPT !.sessions[i] = [@ EXCEPT !.generation = st.next_generation,
                                         !.connected = TRUE,
                                         !.expiry_interval = interval,
                                         !.expires_at = Never],
               !.next_generation = @ + 1]

\* A new Session takes the lowest free slot.
Created(st, c, interval) ==
    LET i == LeastOf(SessionSlots \ Occupied(st))
        r == NextRouteId(st)
    IN [st EXCEPT
          !.sessions[i] = [client_id |-> c, generation |-> st.next_generation,
                           route_id |-> r, connected |-> TRUE,
                           expiry_interval |-> interval, expires_at |-> Never,
                           subscriptions |-> {}],
          !.client_index[c] = i,
          !.route_index[r] = i,
          !.session_count = @ + 1,
          !.next_generation = @ + 1,
          !.next_route_id = RouteAfter(r)]

\* What open removes before it looks for a Session to resume.
Cleared(st, c, clean_start, now) ==
    {i \in {st.client_index[c]} \ {0} : clean_start \/ IsExpired(st, i, now)}

\* The store after open; session_present says whether a Session was resumed,
\* and without room for another one (SessionLimitExceeded) nothing is opened.
SessionPresent(st, c, clean_start, now) ==
    st.client_index[c] # 0 /\ Cleared(st, c, clean_start, now) = {}

CanOpen(st, c, clean_start, now) ==
    \/ SessionPresent(st, c, clean_start, now)
    \/ RemoveAt(st, Cleared(st, c, clean_start, now)).session_count < MaxSessions

Opened(st, c, clean_start, interval, now) ==
    LET cleared == RemoveAt(st, Cleared(st, c, clean_start, now)) IN
    IF SessionPresent(st, c, clean_start, now)
    THEN Resumed(st, st.client_index[c], interval)
    ELSE Created(cleared, c, interval)

HandleFor(st, c) == [index      |-> st.client_index[c],
                     generation |-> st.sessions[st.client_index[c]].generation]

-----------------------------------------------------------------------------
(* disconnect, discard and the expiry sweep.                               *)

\* next_expiry_ns after an offline Session was given a deadline.
LoweredExpiry(bound, deadline) == LeastOf({bound, deadline})

\* disconnect, with the interval that is in force once the DISCONNECT packet
\* had its say; a Session without one ends with its connection.
Disconnected(st, h, interval, now) ==
    IF interval = 0 THEN RemoveAt(st, {h.index})
    ELSE [st EXCEPT
            !.sessions[h.index] = [@ EXCEPT !.connected = FALSE,
                                            !.expiry_interval = interval,
                                            !.expires_at = Deadline(interval, now)],
            !.next_expiry = LoweredExpiry(@, Deadline(interval, now))]

\* A DISCONNECT may not ask for an interval where CONNECT asked for none.
OverrideAllowed(st, h, interval) ==
    SessionOf(st, h).expiry_interval = 0 => interval = 0

EarliestDeadline(st) ==
    LeastOf({Never} \cup {st.sessions[i].expires_at :
                            i \in {j \in Occupied(st) : ~st.sessions[j].connected}})

SweepDue(st, now) == st.next_expiry # Never /\ now >= st.next_expiry

\* dueExpiryCount and pruneExpiredInto: nothing happens before the bound; at
\* the bound everything due is removed and the bound computed afresh.
Pruned(st, now) ==
    LET kept == RemoveAt(st, Due(st, now)) IN
    IF SweepDue(st, now) THEN [kept EXCEPT !.next_expiry = EarliestDeadline(kept)]
                         ELSE st

\* The route identities pruneExpiredInto returns.
PrunedRoutes(st, now) ==
    IF SweepDue(st, now) THEN {st.sessions[i].route_id : i \in Due(st, now)} ELSE {}

-----------------------------------------------------------------------------
(* writeSnapshot, a downtime, and restoreSession for every Session that is *)
(* durable and still alive then.                                           *)

\* The life left to an offline Session; a connected one would start afresh.
Remaining(session, now) ==
    IF session.expiry_interval = Forever THEN Never
    ELSE IF session.connected THEN session.expiry_interval
         ELSE session.expires_at - now

Saved(st, now) ==
    {i \in Occupied(st) : st.sessions[i].expiry_interval # 0 /\ ~IsExpired(st, i, now)}

Survivors(st, now, downtime) ==
    {i \in Saved(st, now) : Remaining(st.sessions[i], now) > downtime}

\* restoreSession of one saved Session into the store built so far.
RestoreSession(st, session, now, downtime) ==
    LET i == LeastOf(SessionSlots \ Occupied(st))
        left == Remaining(session, now)
        deadline == IF left = Never THEN Never ELSE now + left - downtime
        after == IF session.route_id + 1 > st.next_route_id
                 THEN session.route_id + 1 ELSE st.next_route_id
    IN [st EXCEPT
          !.sessions[i] = [session EXCEPT !.generation = st.next_generation,
                                          !.connected = FALSE,
                                          !.expires_at = deadline],
          !.client_index[session.client_id] = i,
          !.route_index[session.route_id] = i,
          !.session_count = @ + 1,
          !.next_generation = @ + 1,
          !.next_route_id = IF after > MaxRouteId THEN 1 ELSE after,
          !.next_expiry = LoweredExpiry(@, deadline)]

\* The stores that are built: the n-th has the survivors of the slots 1..n.
RestoredUpTo(st, now, downtime) ==
    LET S == Survivors(st, now, downtime)
        upTo[n \in 0..MaxSessions] ==
            IF n = 0 THEN EmptyStore
            ELSE IF n \in S
                 THEN RestoreSession(upTo[n - 1], st.sessions[n], now, downtime)
                 ELSE upTo[n - 1]
    IN upTo

Restored(st, now, downtime) == RestoredUpTo(st, now, downtime)[MaxSessions]

-----------------------------------------------------------------------------
(* What every store satisfies.                                             *)

\* Both indexes and the counter describe the occupied slots, and no client or
\* route identity has two of them.
IndexesExact(st) ==
    /\ \A c \in Clients, i \in SessionSlots :
         st.client_index[c] = i
            <=> st.sessions[i] # NoSession /\ st.sessions[i].client_id = c
    /\ \A r \in RouteIds, i \in SessionSlots :
         st.route_index[r] = i
            <=> st.sessions[i] # NoSession /\ st.sessions[i].route_id = r
    /\ st.session_count = Cardinality(Occupied(st))

\* No offline Session has a deadline before next_expiry_ns.
ExpiryBound(st) ==
    \A i \in Occupied(st) :
        ~st.sessions[i].connected => st.next_expiry <= st.sessions[i].expires_at

-----------------------------------------------------------------------------
(* What the operations promise to a caller with a consistent table, in     *)
(* terms of slots only.                                                    *)

\* No Session has a generation that is still to be given out.
GenerationsOld(st) ==
    \A i \in Occupied(st) : st.sessions[i].generation < st.next_generation

\* A consistent table.
GoodStore(st) == /\ st \in Store
                 /\ IndexesExact(st)
                 /\ ExpiryBound(st)
                 /\ GenerationsOld(st)

\* Removing the Sessions of the slots S.
Without(st, t, S) ==
    /\ GoodStore(t)
    /\ \A i \in SessionSlots :
         t.sessions[i] = IF i \in S THEN NoSession ELSE st.sessions[i]
    /\ t.next_generation = st.next_generation
    /\ t.next_route_id = st.next_route_id

\* The slots the sweep empties.
Gone(st, now) == IF SweepDue(st, now) THEN Due(st, now) ELSE {}

\* The Session in slot i becomes x, and keeps its client and its route.
Changed(st, t, i, x) ==
    /\ GoodStore(t)
    /\ t.sessions[i] = x /\ x \in Session
    /\ \A j \in SessionSlots \ {i} : t.sessions[j] = st.sessions[j]
    /\ t.client_index = st.client_index
    /\ t.next_route_id = st.next_route_id

\* disconnect and discard: the Session of slot i is gone, or offline with its
\* route and its subscriptions.
Left(st, t, i) ==
    /\ GoodStore(t)
    /\ \A j \in SessionSlots \ {i} : t.sessions[j] = st.sessions[j]
    /\ t.sessions[i] # NoSession =>
         /\ ~t.sessions[i].connected
         /\ t.sessions[i].generation = st.sessions[i].generation
         /\ t.sessions[i].route_id = st.sessions[i].route_id
         /\ t.sessions[i].subscriptions = st.sessions[i].subscriptions
    /\ t.next_generation = st.next_generation
    /\ t.next_route_id = st.next_route_id

\* No Session has a route identity that nextRouteId has yet to give out.
RoutesBehind(st) == \A i \in Occupied(st) : st.sessions[i].route_id < st.next_route_id

\* open: slot i has the client's Session, resumed or new, and every other
\* slot keeps what it had, but for a Session of the client that was replaced.
Opens(st, t, c, i) ==
    LET old == st.client_index[c] IN
    /\ GoodStore(t)
    /\ t.next_generation = st.next_generation + 1
    /\ i \in SessionSlots /\ t.client_index[c] = i
    /\ t.sessions[i] \in Session
    /\ t.sessions[i].generation = st.next_generation
    /\ t.sessions[i].connected
    /\ \A j \in SessionSlots \ {i} :
         t.sessions[j] = IF j = old THEN NoSession ELSE st.sessions[j]
    /\ \/ /\ i = old
          /\ t.sessions[i].route_id = st.sessions[i].route_id
          /\ t.sessions[i].subscriptions = st.sessions[i].subscriptions
          /\ t.next_route_id = st.next_route_id
       \/ /\ i = old \/ i \notin Occupied(st)
          /\ t.sessions[i].subscriptions = {}
          /\ RoutesBehind(st) => t.sessions[i].route_id = st.next_route_id
          /\ t.next_route_id = RouteAfter(t.sessions[i].route_id)

\* built has offline Sessions for clients and routes that slots 1..n of st had.
RestoredFrom(st, built, n) ==
    /\ GoodStore(built)
    /\ built.session_count <= n
    /\ \A i \in Occupied(built) :
         /\ ~built.sessions[i].connected
         /\ \E m \in Occupied(st) :
              /\ m <= n
              /\ built.sessions[i].client_id = st.sessions[m].client_id
              /\ built.sessions[i].route_id = st.sessions[m].route_id
    /\ RoutesBehind(st) =>
         RoutesBehind(built) /\ built.next_route_id <= st.next_route_id

EmptyPromise ==
    /\ GoodStore(EmptyStore) /\ Occupied(EmptyStore) = {}
    /\ EmptyStore.next_route_id = 1

SweepPromise ==
    \A st, now : GoodStore(st) =>
        /\ Without(st, Pruned(st, now), Gone(st, now))
        /\ Gone(st, now) \subseteq Occupied(st)
        /\ \A i \in Gone(st, now) : ~st.sessions[i].connected
        /\ PrunedRoutes(st, now) = {st.sessions[i].route_id : i \in Gone(st, now)}

OpenPromise ==
    \A st, clean_start, now : \A c \in Clients, interval \in ExpiryIntervals :
        GoodStore(st) /\ CanOpen(st, c, clean_start, now)
            => \E i : Opens(st, Opened(st, c, clean_start, interval, now), c, i)

SubscribePromise ==
    \A st : GoodStore(st) => \A i \in Occupied(st), F \in SUBSET Filters :
        LET t == [st EXCEPT !.sessions[i].subscriptions = F] IN
        /\ Changed(st, t, i, [st.sessions[i] EXCEPT !.subscriptions = F])
        /\ t.next_generation = st.next_generation

DiscardPromise ==
    \A st : GoodStore(st) => \A i \in Occupied(st) :
        /\ Left(st, RemoveAt(st, {i}), i)
        /\ RemoveAt(st, {i}).sessions[i] = NoSession

DisconnectPromise ==
    \A st : GoodStore(st) =>
        \A h \in Handle, interval \in ExpiryIntervals, now \in Nat :
            h.index \in Occupied(st) =>
                LET t == Disconnected(st, h, interval, now) IN
                /\ Left(st, t, h.index)
                /\ t.sessions[h.index] = NoSession <=> interval = 0

RestorePromise ==
    \A st : GoodStore(st) => \A now \in Nat, downtime \in Nat :
        RestoredFrom(st, Restored(st, now, downtime), MaxSessions)

StoreWorks ==
    /\ EmptyPromise /\ SweepPromise /\ OpenPromise /\ SubscribePromise
    /\ DiscardPromise /\ DisconnectPromise /\ RestorePromise

=============================================================================

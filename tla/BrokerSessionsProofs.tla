------------------------ MODULE BrokerSessionsProofs ------------------------
(***************************************************************************)
(* The broker and its Session table together, for any number of clients,   *)
(* Sessions, connections and restarts.  SessionStoreProofs shows that the  *)
(* table keeps what it promises; here, given a table that does             *)
(* (StoreWorks), every handler of BrokerSessions keeps Sessions,           *)
(* connections, owners and routes in step.                                 *)
(*                                                                         *)
(* The properties are not inductive.  That a takeover leaves one owner     *)
(* needs that a connected Session has a slot that serves it and not only   *)
(* one that names it, and that a handle is older than the next generation; *)
(* that Clean Start leaves no routes behind needs that a new Session gets  *)
(* a route that nobody had.  BrokerInvariant adds these.  Its parts are    *)
(* operators of a store, the slots, the owners and the routes, so that a   *)
(* handler can be followed through its calls.                              *)
(***************************************************************************)
EXTENDS BrokerSessions, SessionStoreProofs

-----------------------------------------------------------------------------
(* A router that follows the table.                                        *)

\* Every Session is routed with its subscriptions, and nothing else is routed.
Routed(st, ro) ==
    /\ \A i \in Occupied(st) : ro[st.sessions[i].route_id] = st.sessions[i].subscriptions
    /\ \A r \in RouteIds : (\A i \in Occupied(st) : st.sessions[i].route_id # r)
                              => ro[r] = {}

\* The slot in the index has a Session of the client.
LEMMA IndexedSession ==
    ASSUME NEW st, GoodStore(st), NEW c \in Clients, st.client_index[c] # 0
    PROVE  /\ st.client_index[c] \in Occupied(st)
           /\ st.sessions[st.client_index[c]] \in Session
           /\ st.sessions[st.client_index[c]].client_id = c
  <1>1. st.client_index[c] \in SessionSlots
    BY Zenon DEF GoodStore, Store
  <1> QED
    BY <1>1 DEF GoodStore, IndexesExact, Occupied, Store

\* Two Sessions have two routes.
LEMMA RoutesDiffer ==
    ASSUME NEW st, GoodStore(st), NEW i \in Occupied(st), NEW j \in Occupied(st),
           st.sessions[i].route_id = st.sessions[j].route_id
    PROVE  i = j
  <1>1. st.sessions[i] \in Session /\ st.sessions[j] \in Session
    BY Zenon DEF GoodStore, Store, Occupied
  <1> QED
    BY <1>1 DEF GoodStore, IndexesExact, Occupied, Session

\* A Session's slot has a Session, and its route is one.
LEMMA SlotRoute ==
    ASSUME NEW st, GoodStore(st), NEW i \in Occupied(st)
    PROVE  st.sessions[i] \in Session /\ st.sessions[i].route_id \in RouteIds
  BY Zenon DEF GoodStore, Store, Occupied, Session

\* The property the runs check says the same with the index.
LEMMA RoutedMatches ==
    ASSUME NEW st, GoodStore(st), NEW ro, Routed(st, ro), NEW r \in RouteIds
    PROVE  ro[r] = IF st.route_index[r] = 0 THEN {}
                   ELSE st.sessions[st.route_index[r]].subscriptions
  <1>1. CASE st.route_index[r] = 0
    <2>1. \A i \in Occupied(st) : st.sessions[i].route_id # r
      BY <1>1 DEF GoodStore, IndexesExact, Occupied, SessionSlots
    <2> QED
      BY <1>1, <2>1, Zenon DEF Routed
  <1>2. CASE st.route_index[r] # 0
    <2>1. st.route_index[r] \in SessionSlots
      BY <1>2, Zenon DEF GoodStore, Store
    <2>2. /\ st.route_index[r] \in Occupied(st)
          /\ st.sessions[st.route_index[r]].route_id = r
      BY <2>1, Zenon DEF GoodStore, IndexesExact, Occupied
    <2> QED
      BY <1>2, <2>2, Zenon DEF Routed
  <1> QED
    BY <1>1, <1>2, Zenon

\* restoreSnapshot subscribes every Session it restored.
LEMMA RestartRouted ==
    ASSUME NEW t, GoodStore(t), NEW ro,
           \A r \in RouteIds : ro[r] = IF t.route_index[r] = 0 THEN {}
                                       ELSE t.sessions[t.route_index[r]].subscriptions
    PROVE  Routed(t, ro)
  <1>1. ASSUME NEW i \in Occupied(t)
        PROVE  ro[t.sessions[i].route_id] = t.sessions[i].subscriptions
    <2>1. t.sessions[i].route_id \in RouteIds
      BY SlotRoute, Zenon
    <2>2. t.route_index[t.sessions[i].route_id] = i /\ i # 0
      BY <2>1 DEF GoodStore, IndexesExact, Occupied, SessionSlots
    <2> QED
      BY <2>1, <2>2, Zenon
  <1>2. ASSUME NEW r \in RouteIds, \A i \in Occupied(t) : t.sessions[i].route_id # r
        PROVE  ro[r] = {}
    BY <1>2 DEF GoodStore, Store, IndexesExact, Occupied
  <1> QED
    BY <1>1, <1>2, Zenon DEF Routed

\* removeSubscriber for the Sessions that the sweep removed.
LEMMA RemovalRouted ==
    ASSUME NEW st, GoodStore(st), NEW ro, Routed(st, ro),
           NEW S \in SUBSET Occupied(st), NEW t, Without(st, t, S), NEW rm,
           \A r \in RouteIds : rm[r] = IF r \in {st.sessions[i].route_id : i \in S}
                                       THEN {} ELSE ro[r]
    PROVE  Routed(t, rm)
  <1>1. Occupied(t) = Occupied(st) \ S /\ \A i \in Occupied(t) : t.sessions[i] = st.sessions[i]
    BY Zenon DEF Without, Occupied
  <1>2. ASSUME NEW i \in Occupied(t)
        PROVE  rm[t.sessions[i].route_id] = t.sessions[i].subscriptions
    <2>1. i \in Occupied(st) /\ i \notin S /\ t.sessions[i] = st.sessions[i]
      BY <1>1, Zenon
    <2>2. st.sessions[i].route_id \in RouteIds
      BY <2>1, SlotRoute, Zenon
    <2>3. st.sessions[i].route_id \notin {st.sessions[j].route_id : j \in S}
      BY <2>1, RoutesDiffer, Zenon
    <2> QED
      BY <2>1, <2>2, <2>3, Zenon DEF Routed
  <1>3. ASSUME NEW r \in RouteIds, \A i \in Occupied(t) : t.sessions[i].route_id # r
        PROVE  rm[r] = {}
    <2>1. CASE r \in {st.sessions[i].route_id : i \in S}
      BY <2>1, Zenon
    <2>2. CASE r \notin {st.sessions[i].route_id : i \in S}
      <3>1. \A i \in Occupied(st) : st.sessions[i].route_id # r
        BY <1>1, <1>3, <2>2, Zenon
      <3> QED
        BY <2>2, <3>1, Zenon DEF Routed
    <2> QED
      BY <2>1, <2>2, Zenon
  <1> QED
    BY <1>2, <1>3, Zenon DEF Routed

\* A connection leaves: its routes go if its Session does.
LEMMA LeaveRouted ==
    ASSUME NEW st, GoodStore(st), NEW ro, Routed(st, ro), NEW i \in Occupied(st),
           NEW t, Left(st, t, i), NEW rm,
           \A r \in RouteIds : rm[r] = IF /\ t.sessions[i] = NoSession
                                          /\ r = st.sessions[i].route_id
                                       THEN {} ELSE ro[r]
    PROVE  Routed(t, rm)
  <1>1. \A j \in SessionSlots \ {i} : t.sessions[j] = st.sessions[j]
    BY Zenon DEF Left
  <1>2. ASSUME NEW j \in Occupied(t)
        PROVE  rm[t.sessions[j].route_id] = t.sessions[j].subscriptions
    <2>1. CASE j = i
      <3>1. /\ t.sessions[i] # NoSession
            /\ t.sessions[i].route_id = st.sessions[i].route_id
            /\ t.sessions[i].subscriptions = st.sessions[i].subscriptions
        BY <2>1, Zenon DEF Left, Occupied
      <3>2. st.sessions[i].route_id \in RouteIds
        BY SlotRoute, Zenon
      <3> QED
        BY <2>1, <3>1, <3>2, Zenon DEF Routed
    <2>2. CASE j # i
      <3>1. j \in Occupied(st) /\ t.sessions[j] = st.sessions[j]
        BY <1>1, <2>2, Zenon DEF Occupied
      <3>2. st.sessions[j].route_id \in RouteIds
        BY <3>1, SlotRoute, Zenon
      <3>3. st.sessions[j].route_id # st.sessions[i].route_id
        BY <2>2, <3>1, RoutesDiffer, Zenon
      <3> QED
        BY <3>1, <3>2, <3>3 DEF Routed
    <2> QED
      BY <2>1, <2>2, Zenon
  <1>3. ASSUME NEW r \in RouteIds, \A j \in Occupied(t) : t.sessions[j].route_id # r
        PROVE  rm[r] = {}
    <2>1. CASE t.sessions[i] = NoSession /\ r = st.sessions[i].route_id
      BY <2>1, Zenon
    <2>2. CASE ~(t.sessions[i] = NoSession /\ r = st.sessions[i].route_id)
      <3>1. i \in SessionSlots
        BY Zenon DEF Occupied
      <3>2. st.sessions[i].route_id # r
        BY <1>3, <2>2, <3>1, Zenon DEF Left, Occupied
      <3>3. \A j \in Occupied(st) : st.sessions[j].route_id # r
        BY <1>1, <1>3, <3>2, Zenon DEF Occupied
      <3> QED
        BY <2>2, <3>3, Zenon DEF Routed
    <2> QED
      BY <2>1, <2>2, Zenon
  <1> QED
    BY <1>2, <1>3, Zenon DEF Routed

\* subscribe and unsubscribe change a Session and its routes alike.
LEMMA SubscribeRouted ==
    ASSUME NEW st, GoodStore(st), NEW ro \in [RouteIds -> SUBSET Filters],
           Routed(st, ro), NEW i \in Occupied(st), NEW F, NEW t,
           Changed(st, t, i, [st.sessions[i] EXCEPT !.subscriptions = F])
    PROVE  Routed(t, [ro EXCEPT ![st.sessions[i].route_id] = F])
  <1> DEFINE r == st.sessions[i].route_id
             rm == [ro EXCEPT ![r] = F]
  <1>1. st.sessions[i] \in Session /\ r \in RouteIds /\ i \in SessionSlots
    BY SlotRoute, Zenon DEF Occupied
  <1>2. \A q \in RouteIds : rm[q] = IF q = r THEN F ELSE ro[q]
    BY <1>1, Zenon
  <1>3. t.sessions[i].route_id = r /\ t.sessions[i].subscriptions = F
    BY <1>1, Zenon DEF Changed, Session
  <1>4. t.sessions[i] # NoSession
    BY NoSessionAssumption, Zenon DEF Changed
  <1>5. Occupied(t) = Occupied(st)
    BY <1>4, Zenon DEF Changed, Occupied
  <1>6. \A j \in Occupied(st) \ {i} : t.sessions[j] = st.sessions[j]
    BY Zenon DEF Changed, Occupied
  <1> HIDE DEF r, rm
  <1>7. ASSUME NEW j \in Occupied(t)
        PROVE  rm[t.sessions[j].route_id] = t.sessions[j].subscriptions
    <2>1. CASE j = i
      BY <1>1, <1>2, <1>3, <2>1, Zenon
    <2>2. CASE j # i
      <3>1. j \in Occupied(st) /\ t.sessions[j] = st.sessions[j]
        BY <1>5, <1>6, <2>2, Zenon
      <3>2. st.sessions[j].route_id \in RouteIds
        BY <3>1, SlotRoute, Zenon
      <3>3. st.sessions[j].route_id # r
        BY <2>2, <3>1, RoutesDiffer, Zenon DEF r
      <3> QED
        BY <1>2, <3>1, <3>2, <3>3 DEF Routed
    <2> QED
      BY <2>1, <2>2, Zenon
  <1>8. ASSUME NEW q \in RouteIds, \A j \in Occupied(t) : t.sessions[j].route_id # q
        PROVE  rm[q] = {}
    <2>1. q # r
      BY <1>3, <1>5, <1>8, Zenon
    <2>2. \A j \in Occupied(st) : st.sessions[j].route_id # q
      BY <1>5, <1>6, <1>8, <2>1, Zenon DEF r
    <2> QED
      BY <1>2, <2>1, <2>2, Zenon DEF Routed
  <1> QED
    BY <1>7, <1>8, Zenon DEF Routed, rm, r

\* register: the routes of a Session that Clean Start replaced go, and the
\* Session that was opened has its own, for its route was not used before.
Reroutes(st, t, ro, rm, stale, c, i) ==
    /\ \A r \in RouteIds :
         r \in stale <=> /\ st.client_index[c] # 0
                         /\ r = st.sessions[st.client_index[c]].route_id
                         /\ r # t.sessions[i].route_id
    /\ \A r \in RouteIds :
         rm[r] = IF r = t.sessions[i].route_id
                 THEN (IF r \in stale THEN {} ELSE ro[r]) \cup t.sessions[i].subscriptions
                 ELSE IF r \in stale THEN {} ELSE ro[r]

\* Such a change of the routes follows the table.
LEMMA RegisterRouted ==
    ASSUME NEW st, GoodStore(st), NEW ro, Routed(st, ro), RoutesBehind(st),
           NEW c \in Clients, NEW t, NEW i, Opens(st, t, c, i), NEW stale, NEW rm,
           Reroutes(st, t, ro, rm, stale, c, i)
    PROVE  Routed(t, rm)
  <1> USE DEF Reroutes
  <1> DEFINE old == st.client_index[c]
             route == t.sessions[i].route_id
  <1>1. /\ GoodStore(t) /\ i \in Occupied(t) /\ i \in SessionSlots
        /\ t.sessions[i] \in Session
    BY NoSessionAssumption, Zenon DEF Opens, Occupied
  <1>2. route \in RouteIds
    BY <1>1, Zenon DEF Session
  <1>3. \A j \in SessionSlots \ {i} :
          t.sessions[j] = IF j = old THEN NoSession ELSE st.sessions[j]
    BY Zenon DEF Opens
  <1>4. rm[route] = ro[route] \cup t.sessions[i].subscriptions
    BY <1>2, Zenon
  <1>5. rm[route] = t.sessions[i].subscriptions
    <2>1. CASE /\ i = old
               /\ route = st.sessions[i].route_id
               /\ t.sessions[i].subscriptions = st.sessions[i].subscriptions
      <3>1. old # 0
        BY <1>1, <2>1 DEF SessionSlots
      <3>2. i \in Occupied(st)
        BY <2>1, <3>1, IndexedSession, Zenon
      <3>3. ro[route] = t.sessions[i].subscriptions
        BY <2>1, <3>2, Zenon DEF Routed
      <3> QED
        BY <1>4, <3>3, Zenon
    <2>2. CASE t.sessions[i].subscriptions = {} /\ route = st.next_route_id
      <3>1. \A j \in Occupied(st) : st.sessions[j].route_id # route
        <4> TAKE j \in Occupied(st)
        <4>1. st.sessions[j].route_id \in RouteIds
          BY SlotRoute, Zenon
        <4> QED
          BY <1>2, <2>2, <4>1 DEF RoutesBehind, RouteIds
      <3>2. ro[route] = {}
        BY <1>2, <3>1, Zenon DEF Routed
      <3> QED
        BY <1>4, <2>2, <3>2, Zenon
    <2> QED
      BY <2>1, <2>2, Zenon DEF Opens
  <1>6. ASSUME NEW j \in Occupied(t), j # i
        PROVE  rm[t.sessions[j].route_id] = t.sessions[j].subscriptions
    <2>1. j \in Occupied(st) /\ j # old /\ t.sessions[j] = st.sessions[j]
      BY <1>3, <1>6, Zenon DEF Occupied
    <2>2. st.sessions[j].route_id \in RouteIds
      BY <2>1, SlotRoute, Zenon
    <2>3. st.sessions[j].route_id # route
      BY <1>1, <1>6, <2>1, RoutesDiffer, Zenon
    <2>4. st.sessions[j].route_id \notin stale
      <3>1. old # 0 => old \in Occupied(st)
        BY IndexedSession, Zenon
      <3>2. st.sessions[j].route_id = st.sessions[old].route_id => old = 0
        BY <2>1, <3>1, RoutesDiffer, Zenon
      <3> QED
        BY <2>2, <3>2, Zenon
    <2>5. rm[st.sessions[j].route_id] = ro[st.sessions[j].route_id]
      BY <2>2, <2>3, <2>4, Zenon
    <2>6. ro[st.sessions[j].route_id] = st.sessions[j].subscriptions
      BY <2>1, Zenon DEF Routed
    <2> QED
      BY <2>1, <2>5, <2>6, Zenon
  <1>7. ASSUME NEW r \in RouteIds, \A j \in Occupied(t) : t.sessions[j].route_id # r
        PROVE  rm[r] = {}
    <2>1. r # route
      BY <1>1, <1>7, Zenon
    <2>2. CASE r \in stale
      BY <2>1, <2>2, Zenon
    <2>3. CASE r \notin stale
      <3>1. ASSUME NEW j \in Occupied(st)
            PROVE  st.sessions[j].route_id # r
        <4>1. CASE j = old
          <5>1. old # 0
            BY <4>1 DEF Occupied, SessionSlots
          <5> QED
            BY <2>1, <2>3, <4>1, <5>1, Zenon
        <4>2. CASE j # old /\ j # i
          <5>1. t.sessions[j] = st.sessions[j] /\ j \in Occupied(t)
            BY <1>3, <4>2, Zenon DEF Occupied
          <5> QED
            BY <1>7, <5>1, Zenon
        <4>3. CASE j = i /\ j # old
          BY <4>3, Zenon DEF Opens
        <4> QED
          BY <4>1, <4>2, <4>3, Zenon
      <3> QED
        BY <2>1, <2>3, <3>1, Zenon DEF Routed
    <2> QED
      BY <2>2, <2>3, Zenon
  <1> QED
    BY <1>5, <1>6, <1>7, Zenon DEF Routed

\* The index says whether the Session of a connection that left is gone.
LEMMA LeftIndex ==
    ASSUME NEW st, GoodStore(st), NEW i \in Occupied(st), NEW t, Left(st, t, i)
    PROVE  t.route_index[st.sessions[i].route_id] = 0 <=> t.sessions[i] = NoSession
  <1> DEFINE r == st.sessions[i].route_id
  <1>1. r \in RouteIds /\ i \in SessionSlots /\ i # 0 /\ GoodStore(t)
    BY SlotRoute DEF Occupied, SessionSlots, Left
  <1>2. CASE t.sessions[i] # NoSession
    <2>1. t.sessions[i].route_id = r
      BY <1>2, Zenon DEF Left
    <2>2. t.route_index[r] = i
      BY <1>1, <1>2, <2>1 DEF GoodStore, IndexesExact
    <2> QED
      BY <1>1, <1>2, <2>2, Zenon
  <1>3. CASE t.sessions[i] = NoSession
    <2>1. ASSUME NEW j \in Occupied(t)
          PROVE  t.sessions[j].route_id # r
      <3>1. j # i /\ j \in Occupied(st) /\ t.sessions[j] = st.sessions[j]
        BY <1>3, Zenon DEF Left, Occupied
      <3> QED
        BY <3>1, RoutesDiffer, Zenon
    <2>2. t.route_index[r] = 0
      BY <1>1, <2>1 DEF GoodStore, Store, IndexesExact, Occupied
    <2> QED
      BY <1>3, <2>2, Zenon
  <1> QED
    BY <1>2, <1>3, Zenon

\* A table with fewer Sessions keeps its routes behind.
LEMMA BehindKept ==
    ASSUME NEW st, NEW t, RoutesBehind(st), t.next_route_id = st.next_route_id,
           \A i \in Occupied(t) : /\ i \in Occupied(st)
                                  /\ t.sessions[i].route_id = st.sessions[i].route_id
    PROVE  RoutesBehind(t)
  BY Zenon DEF RoutesBehind

-----------------------------------------------------------------------------
(* Connections and Sessions.  The invariant is stated of a store, slots    *)
(* and owners, so that a handler can be followed through its calls.        *)

Serving(st, sl, s) == sl[s].session_handle # NoHandle /\ Valid(st, sl[s].session_handle)
IndexOf(sl, s) == sl[s].session_handle.index
Id(sl, s) == <<"connection", s, sl[s].generation>>
RouteIn(st, sl, s) == st.sessions[sl[s].session_handle.index].route_id

\* A slot with a handle is in use, and the handle is older than the next one.
HandlesOld(st, sl) ==
    \A s \in ConnectionSlots : sl[s].session_handle # NoHandle =>
        /\ sl[s].phase # "free"
        /\ sl[s].session_handle.generation < st.next_generation

\* A slot whose task is at work serves its Session and owns its route.
Served(st, sl, ow) ==
    \A s \in ConnectionSlots :
        sl[s].session_handle # NoHandle /\ sl[s].phase # "closing" =>
            Serving(st, sl, s) /\ ow[RouteIn(st, sl, s)] = Id(sl, s)

\* A Session that a slot serves is connected.
Online(st, sl) ==
    \A s \in ConnectionSlots :
        Serving(st, sl, s) => st.sessions[IndexOf(sl, s)].connected

OneEach(sl) ==
    \A s, t \in ConnectionSlots :
        sl[s].session_handle = sl[t].session_handle
            => s = t \/ sl[s].session_handle = NoHandle

Owners(st, sl, ow) ==
    \A r \in RouteIds : ow[r] # NoOwner =>
        \E s \in ConnectionSlots : /\ sl[s].phase # "free"
                                   /\ ow[r] = Id(sl, s)
                                   /\ Serving(st, sl, s)
                                   /\ RouteIn(st, sl, s) = r

\* A connected Session has a slot that serves it.
Connected(st, sl) ==
    \A i \in Occupied(st) : st.sessions[i].connected =>
        \E s \in ConnectionSlots : Serving(st, sl, s) /\ IndexOf(sl, s) = i

Linked(st, sl, ow) == /\ HandlesOld(st, sl)
                      /\ Served(st, sl, ow)
                      /\ Online(st, sl)
                      /\ OneEach(sl)
                      /\ Owners(st, sl, ow)
                      /\ Connected(st, sl)

\* A slot serves an occupied slot of the table.
LEMMA ServingFacts ==
    ASSUME NEW st, GoodStore(st), NEW sl \in [ConnectionSlots -> Slot],
           NEW s \in ConnectionSlots, sl[s].session_handle # NoHandle
    PROVE  /\ sl[s].session_handle \in Handle
           /\ IndexOf(sl, s) \in SessionSlots
           /\ sl[s].session_handle.generation \in Nat \ {0}
           /\ Serving(st, sl, s) <=>
                /\ IndexOf(sl, s) \in Occupied(st)
                /\ st.sessions[IndexOf(sl, s)].generation = sl[s].session_handle.generation
           /\ Serving(st, sl, s) => RouteIn(st, sl, s) \in RouteIds
  <1>1. sl[s].session_handle \in Handle
    BY Zenon DEF Slot
  <1>2. IndexOf(sl, s) \in SessionSlots /\ sl[s].session_handle.generation \in Nat \ {0}
    BY <1>1, Zenon DEF Handle, IndexOf
  <1>3. Serving(st, sl, s) <=>
          /\ IndexOf(sl, s) \in Occupied(st)
          /\ st.sessions[IndexOf(sl, s)].generation = sl[s].session_handle.generation
    BY <1>2, Zenon DEF Serving, Valid, IndexOf, Occupied
  <1>4. IndexOf(sl, s) \in Occupied(st) => RouteIn(st, sl, s) \in RouteIds
    BY Zenon DEF IndexOf, RouteIn, Occupied, GoodStore, Store, Session
  <1> QED
    BY <1>1, <1>2, <1>3, <1>4, Zenon

\* Two slots never serve one Session.
LEMMA ServeOne ==
    ASSUME NEW st, GoodStore(st), NEW sl \in [ConnectionSlots -> Slot], OneEach(sl),
           NEW s \in ConnectionSlots, NEW u \in ConnectionSlots,
           Serving(st, sl, s), Serving(st, sl, u), IndexOf(sl, s) = IndexOf(sl, u)
    PROVE  s = u
  <1>1. sl[s].session_handle # NoHandle /\ sl[u].session_handle # NoHandle
    BY Zenon DEF Serving
  <1>2. sl[s].session_handle \in Handle /\ sl[u].session_handle \in Handle
    BY <1>1, ServingFacts, Zenon
  <1>3. sl[s].session_handle = sl[u].session_handle
    BY <1>2 DEF Handle, Serving, Valid, IndexOf
  <1> QED
    BY <1>1, <1>3, Zenon DEF OneEach

-----------------------------------------------------------------------------
(* What the broker's calls do to connections and Sessions.                 *)

\* The sweep takes offline Sessions, which no slot serves.
LEMMA RemovalLinked ==
    ASSUME NEW st, GoodStore(st), NEW sl \in [ConnectionSlots -> Slot], NEW ow,
           Linked(st, sl, ow), NEW S \in SUBSET Occupied(st),
           \A i \in S : ~st.sessions[i].connected,
           NEW t, Without(st, t, S)
    PROVE  Linked(t, sl, ow)
  <1>1. /\ GoodStore(t) /\ Occupied(t) = Occupied(st) \ S
        /\ \A i \in Occupied(t) : t.sessions[i] = st.sessions[i]
        /\ t.next_generation = st.next_generation
    BY Zenon DEF Without, Occupied
  <1>2. \A s \in ConnectionSlots :
          /\ Serving(t, sl, s) <=> Serving(st, sl, s)
          /\ Serving(st, sl, s) =>
               /\ t.sessions[IndexOf(sl, s)] = st.sessions[IndexOf(sl, s)]
               /\ RouteIn(t, sl, s) = RouteIn(st, sl, s)
    <2> TAKE s \in ConnectionSlots
    <2>1. CASE sl[s].session_handle = NoHandle
      BY <2>1, Zenon DEF Serving
    <2>2. CASE sl[s].session_handle # NoHandle
      <3>1. Serving(st, sl, s) => IndexOf(sl, s) \notin S
        BY Zenon DEF Linked, Online
      <3>2. Serving(st, sl, s) <=>
              /\ IndexOf(sl, s) \in Occupied(st)
              /\ st.sessions[IndexOf(sl, s)].generation = sl[s].session_handle.generation
        BY <2>2, ServingFacts
      <3>3. Serving(t, sl, s) <=>
              /\ IndexOf(sl, s) \in Occupied(t)
              /\ t.sessions[IndexOf(sl, s)].generation = sl[s].session_handle.generation
        BY <1>1, <2>2, ServingFacts
      <3>4. Serving(st, sl, s) => t.sessions[IndexOf(sl, s)] = st.sessions[IndexOf(sl, s)]
        BY <1>1, <3>1, <3>2, Zenon
      <3> QED
        BY <1>1, <3>1, <3>2, <3>3, <3>4, Zenon DEF RouteIn, IndexOf
    <2> QED
      BY <2>1, <2>2, Zenon
  <1>3. HandlesOld(t, sl) /\ OneEach(sl)
    BY <1>1, Zenon DEF Linked, HandlesOld
  <1>4. Served(t, sl, ow)
    BY <1>2, Zenon DEF Linked, Served
  <1>5. Online(t, sl)
    BY <1>2, Zenon DEF Linked, Online
  <1>6. Owners(t, sl, ow)
    BY <1>2, Zenon DEF Linked, Owners
  <1>7. Connected(t, sl)
    BY <1>1, <1>2, Zenon DEF Linked, Connected
  <1> QED
    BY <1>3, <1>4, <1>5, <1>6, <1>7, Zenon DEF Linked

\* A Session changes, but not its generation, its route or its connection.
LEMMA ChangeLinked ==
    ASSUME NEW st, GoodStore(st), NEW sl \in [ConnectionSlots -> Slot], NEW ow,
           Linked(st, sl, ow), NEW i \in Occupied(st), NEW t, NEW x,
           Changed(st, t, i, x), t.next_generation = st.next_generation,
           x.generation = st.sessions[i].generation,
           x.route_id = st.sessions[i].route_id,
           x.connected = st.sessions[i].connected
    PROVE  Linked(t, sl, ow)
  <1>1. /\ GoodStore(t) /\ Occupied(t) = Occupied(st)
        /\ \A j \in Occupied(st) :
             /\ t.sessions[j].generation = st.sessions[j].generation
             /\ t.sessions[j].route_id = st.sessions[j].route_id
             /\ t.sessions[j].connected = st.sessions[j].connected
    <2>1. x # NoSession /\ i \in SessionSlots
      BY NoSessionAssumption, Zenon DEF Changed, Occupied
    <2> QED
      BY <2>1, Zenon DEF Changed, Occupied
  <1>2. \A s \in ConnectionSlots :
          /\ Serving(t, sl, s) <=> Serving(st, sl, s)
          /\ Serving(st, sl, s) =>
               /\ t.sessions[IndexOf(sl, s)].connected = st.sessions[IndexOf(sl, s)].connected
               /\ RouteIn(t, sl, s) = RouteIn(st, sl, s)
    <2> TAKE s \in ConnectionSlots
    <2>1. CASE sl[s].session_handle = NoHandle
      BY <2>1, Zenon DEF Serving
    <2>2. CASE sl[s].session_handle # NoHandle
      <3>1. Serving(st, sl, s) <=>
              /\ IndexOf(sl, s) \in Occupied(st)
              /\ st.sessions[IndexOf(sl, s)].generation = sl[s].session_handle.generation
        BY <2>2, ServingFacts, Zenon
      <3>2. Serving(t, sl, s) <=>
              /\ IndexOf(sl, s) \in Occupied(t)
              /\ t.sessions[IndexOf(sl, s)].generation = sl[s].session_handle.generation
        BY <1>1, <2>2, ServingFacts
      <3> QED
        BY <1>1, <3>1, <3>2, Zenon DEF RouteIn, IndexOf
    <2> QED
      BY <2>1, <2>2, Zenon
  <1>3. HandlesOld(t, sl) /\ OneEach(sl)
    BY Zenon DEF Linked, HandlesOld
  <1>4. Served(t, sl, ow)
    BY <1>2, Zenon DEF Linked, Served
  <1>5. Online(t, sl)
    BY <1>2, Zenon DEF Linked, Online
  <1>6. Owners(t, sl, ow)
    BY <1>2, Zenon DEF Linked, Owners
  <1>7. Connected(t, sl)
    BY <1>1, <1>2, Zenon DEF Linked, Connected
  <1> QED
    BY <1>3, <1>4, <1>5, <1>6, <1>7, Zenon DEF Linked

\* Slots change, but not the handle and the identity of one in use.
LEMMA SlotLinked ==
    ASSUME NEW st, NEW sl, NEW ow, Linked(st, sl, ow),
           NEW sm, NEW s \in ConnectionSlots,
           \A u \in ConnectionSlots \ {s} : sm[u] = sl[u],
           sm[s].session_handle = sl[s].session_handle,
           \/ sl[s].phase = "free"
           \/ sm[s].generation = sl[s].generation /\ sm[s].phase # "free",
           sl[s].phase = "closing" => sm[s].phase = "closing"
    PROVE  Linked(st, sm, ow)
  <1>1. \A u \in ConnectionSlots :
          /\ sm[u].session_handle = sl[u].session_handle
          /\ Serving(st, sm, u) <=> Serving(st, sl, u)
          /\ IndexOf(sm, u) = IndexOf(sl, u) /\ RouteIn(st, sm, u) = RouteIn(st, sl, u)
          /\ sl[u].phase # "free" => Id(sm, u) = Id(sl, u) /\ sm[u].phase # "free"
          /\ sl[u].phase = "closing" => sm[u].phase = "closing"
    BY Zenon DEF Serving, IndexOf, RouteIn, Id
  <1>2. HandlesOld(st, sm) /\ OneEach(sm)
    BY <1>1 DEF Linked, HandlesOld, OneEach
  <1>3. Served(st, sm, ow)
    BY <1>1, Zenon DEF Linked, HandlesOld, Served
  <1>4. Online(st, sm)
    BY <1>1, Zenon DEF Linked, Online
  <1>5. Owners(st, sm, ow)
    BY <1>1 DEF Linked, Owners
  <1>6. Connected(st, sm)
    BY <1>1, Zenon DEF Linked, Connected
  <1> QED
    BY <1>2, <1>3, <1>4, <1>5, <1>6, Zenon DEF Linked

\* A slot drops a handle that is no longer valid, or has none to drop.
LEMMA DropLinked ==
    ASSUME NEW st, NEW sl, NEW ow, Linked(st, sl, ow),
           NEW sm, NEW s \in ConnectionSlots, ~Serving(st, sl, s),
           \A u \in ConnectionSlots \ {s} : sm[u] = sl[u],
           sm[s].session_handle = NoHandle
    PROVE  Linked(st, sm, ow)
  <1>1. \A u \in ConnectionSlots \ {s} :
          /\ Serving(st, sm, u) <=> Serving(st, sl, u)
          /\ IndexOf(sm, u) = IndexOf(sl, u) /\ RouteIn(st, sm, u) = RouteIn(st, sl, u)
          /\ Id(sm, u) = Id(sl, u)
    BY Zenon DEF Serving, IndexOf, RouteIn, Id
  <1>2. ~Serving(st, sm, s)
    BY Zenon DEF Serving
  <1>3. HandlesOld(st, sm)
    BY Zenon DEF Linked, HandlesOld
  <1>4. OneEach(sm)
    BY Zenon DEF Linked, OneEach
  <1>5. Served(st, sm, ow)
    BY <1>1, Zenon DEF Linked, Served
  <1>6. Online(st, sm)
    BY <1>1, <1>2, Zenon DEF Linked, Online
  <1>7. Owners(st, sm, ow)
    BY <1>1, Zenon DEF Linked, Owners
  <1>8. Connected(st, sm)
    BY <1>1, Zenon DEF Linked, Connected
  <1> QED
    BY <1>3, <1>4, <1>5, <1>6, <1>7, <1>8, Zenon DEF Linked

\* A connection leaves: its Session is gone or offline, its owner entry is
\* removed and its slot has no handle.
LEMMA LeaveLinked ==
    ASSUME NEW st, GoodStore(st), NEW sl \in [ConnectionSlots -> Slot], NEW ow,
           ow \in [RouteIds -> Subscribers \cup {NoOwner}],
           Linked(st, sl, ow), NEW s \in ConnectionSlots, Serving(st, sl, s),
           NEW t, Left(st, t, IndexOf(sl, s)),
           NEW sm, \A u \in ConnectionSlots \ {s} : sm[u] = sl[u],
           sm[s].session_handle = NoHandle
    PROVE  Linked(t, sm, [ow EXCEPT ![RouteIn(st, sl, s)] = NoOwner])
  <1> DEFINE i == IndexOf(sl, s)
             r == RouteIn(st, sl, s)
             om == [ow EXCEPT ![r] = NoOwner]
  <1>1. /\ i \in Occupied(st) /\ r = st.sessions[i].route_id /\ r \in RouteIds
        /\ GoodStore(t) /\ t.next_generation = st.next_generation
    BY ServingFacts, Zenon DEF Serving, RouteIn, IndexOf, Left
  <1>2. \A q \in RouteIds : om[q] = IF q = r THEN NoOwner ELSE ow[q]
    BY <1>1, Zenon
  <1>3. ~Serving(t, sm, s)
    BY Zenon DEF Serving
  <1>4. ASSUME NEW u \in ConnectionSlots, u # s, Serving(st, sl, u)
        PROVE  /\ IndexOf(sl, u) # i /\ IndexOf(sl, u) \in Occupied(st)
               /\ t.sessions[IndexOf(sl, u)] = st.sessions[IndexOf(sl, u)]
               /\ Serving(t, sm, u)
               /\ RouteIn(st, sl, u) \in RouteIds /\ RouteIn(st, sl, u) # r
               /\ RouteIn(t, sm, u) = RouteIn(st, sl, u)
    <2>1. OneEach(sl)
      BY Zenon DEF Linked
    <2>2. IndexOf(sl, u) # i
      BY <1>4, <2>1, ServeOne, Zenon
    <2>3. IndexOf(sl, u) \in Occupied(st) /\ IndexOf(sl, u) \in SessionSlots
          /\ RouteIn(st, sl, u) \in RouteIds
      BY <1>4, ServingFacts, Zenon DEF Serving
    <2>4. t.sessions[IndexOf(sl, u)] = st.sessions[IndexOf(sl, u)]
      BY <2>2, <2>3, Zenon DEF Left
    <2>5. Serving(t, sm, u) /\ RouteIn(t, sm, u) = RouteIn(st, sl, u)
      BY <1>4, <2>4, Zenon DEF Serving, Valid, IndexOf, RouteIn
    <2>6. RouteIn(st, sl, u) # r
      <3>1. RouteIn(st, sl, u) = st.sessions[IndexOf(sl, u)].route_id
        BY Zenon DEF RouteIn, IndexOf
      <3> QED
        BY <1>1, <2>2, <2>3, <3>1, RoutesDiffer, Zenon
    <2> QED
      BY <2>2, <2>3, <2>4, <2>5, <2>6, Zenon
  <1>5. ASSUME NEW u \in ConnectionSlots, Serving(t, sm, u)
        PROVE  u # s /\ Serving(st, sl, u)
    <2>1. u # s /\ sm[u] = sl[u]
      BY <1>3, <1>5, Zenon
    <2>2. sl[u].session_handle # NoHandle
      BY <1>5, <2>1, Zenon DEF Serving
    <2>3. /\ IndexOf(sl, u) \in Occupied(t)
          /\ t.sessions[IndexOf(sl, u)].generation = sl[u].session_handle.generation
      <3>1. Serving(t, sl, u)
        BY <1>5, <2>1, Zenon DEF Serving
      <3> QED
        BY <1>1, <2>2, <3>1, ServingFacts
    <2>4. /\ IndexOf(sl, u) \in Occupied(st)
          /\ st.sessions[IndexOf(sl, u)].generation = sl[u].session_handle.generation
      BY <1>1, <2>3, Zenon DEF Left, Occupied
    <2> QED
      BY <2>1, <2>2, <2>4, ServingFacts, Zenon
  <1> HIDE DEF i, r, om
  <1>6. HandlesOld(t, sm)
    BY <1>1, Zenon DEF Linked, HandlesOld
  <1>7. OneEach(sm)
    BY Zenon DEF Linked, OneEach
  <1>8. Served(t, sm, om)
    <2> SUFFICES ASSUME NEW u \in ConnectionSlots, sm[u].session_handle # NoHandle,
                        sm[u].phase # "closing"
                 PROVE  Serving(t, sm, u) /\ om[RouteIn(t, sm, u)] = Id(sm, u)
      BY Zenon DEF Served
    <2>1. u # s /\ sm[u] = sl[u]
      BY Zenon
    <2>2. Serving(st, sl, u) /\ ow[RouteIn(st, sl, u)] = Id(sl, u)
      BY <2>1, Zenon DEF Linked, Served
    <2> QED
      BY <1>2, <1>4, <2>1, <2>2, Zenon DEF Id
  <1>9. Online(t, sm)
    <2> SUFFICES ASSUME NEW u \in ConnectionSlots, Serving(t, sm, u)
                 PROVE  t.sessions[IndexOf(sm, u)].connected
      BY Zenon DEF Online
    <2>1. u # s /\ Serving(st, sl, u)
      BY <1>5, Zenon
    <2>2. t.sessions[IndexOf(sl, u)] = st.sessions[IndexOf(sl, u)]
      BY <1>4, <2>1, Zenon
    <2> QED
      BY <2>1, <2>2, Zenon DEF Linked, Online, IndexOf
  <1>10. Owners(t, sm, om)
    <2> SUFFICES ASSUME NEW q \in RouteIds, om[q] # NoOwner
                 PROVE  \E u \in ConnectionSlots : /\ sm[u].phase # "free"
                                                   /\ om[q] = Id(sm, u)
                                                   /\ Serving(t, sm, u)
                                                   /\ RouteIn(t, sm, u) = q
      BY Zenon DEF Owners
    <2>1. q # r /\ om[q] = ow[q] /\ ow[q] # NoOwner
      BY <1>2, Zenon
    <2>2. PICK u \in ConnectionSlots : /\ sl[u].phase # "free"
                                       /\ ow[q] = Id(sl, u)
                                       /\ Serving(st, sl, u)
                                       /\ RouteIn(st, sl, u) = q
      BY <2>1, Zenon DEF Linked, Owners
    <2>3. u # s /\ sm[u] = sl[u]
      BY <2>1, <2>2, Zenon DEF r
    <2> QED
      BY <1>4, <2>1, <2>2, <2>3, Zenon DEF Id
  <1>11. Connected(t, sm)
    <2> SUFFICES ASSUME NEW j \in Occupied(t), t.sessions[j].connected
                 PROVE  \E u \in ConnectionSlots : Serving(t, sm, u) /\ IndexOf(sm, u) = j
      BY Zenon DEF Connected
    <2>1. j # i /\ j \in SessionSlots
      BY Zenon DEF Left, Occupied, i
    <2>2. t.sessions[j] = st.sessions[j] /\ j \in Occupied(st)
      BY <2>1, Zenon DEF Left, Occupied, i
    <2>3. PICK u \in ConnectionSlots : Serving(st, sl, u) /\ IndexOf(sl, u) = j
      BY <2>2, Zenon DEF Linked, Connected
    <2>4. u # s /\ sm[u] = sl[u]
      BY <2>1, <2>3, Zenon DEF i
    <2> QED
      BY <1>4, <2>3, <2>4, Zenon DEF IndexOf
  <1> QED
    BY <1>6, <1>7, <1>8, <1>9, <1>10, <1>11, Zenon DEF Linked, om, r

\* handleDisconnect fails after it has removed the owner entry.
LEMMA DisownLinked ==
    ASSUME NEW st, GoodStore(st), NEW sl \in [ConnectionSlots -> Slot], NEW ow,
           ow \in [RouteIds -> Subscribers \cup {NoOwner}],
           Linked(st, sl, ow), NEW s \in ConnectionSlots, Serving(st, sl, s),
           NEW sm, \A u \in ConnectionSlots \ {s} : sm[u] = sl[u],
           sm[s].session_handle = sl[s].session_handle, sm[s].phase = "closing"
    PROVE  Linked(st, sm, [ow EXCEPT ![RouteIn(st, sl, s)] = NoOwner])
  <1> DEFINE r == RouteIn(st, sl, s)
             om == [ow EXCEPT ![r] = NoOwner]
  <1>1. r \in RouteIds
    BY ServingFacts, Zenon DEF Serving
  <1>2. \A q \in RouteIds : om[q] = IF q = r THEN NoOwner ELSE ow[q]
    BY <1>1, Zenon
  <1>3. \A u \in ConnectionSlots :
          /\ sm[u].session_handle = sl[u].session_handle
          /\ Serving(st, sm, u) <=> Serving(st, sl, u)
          /\ IndexOf(sm, u) = IndexOf(sl, u) /\ RouteIn(st, sm, u) = RouteIn(st, sl, u)
          /\ sl[u].phase # "free" => sm[u].phase # "free"
          /\ u # s => sm[u].phase = sl[u].phase /\ Id(sm, u) = Id(sl, u)
    BY Zenon DEF Serving, IndexOf, RouteIn, Id
  <1>4. ASSUME NEW u \in ConnectionSlots, u # s, Serving(st, sl, u)
        PROVE  RouteIn(st, sl, u) \in RouteIds /\ RouteIn(st, sl, u) # r
    <2>1. OneEach(sl)
      BY Zenon DEF Linked
    <2>2. IndexOf(sl, u) # IndexOf(sl, s)
      BY <1>4, <2>1, ServeOne, Zenon
    <2>3. /\ IndexOf(sl, u) \in Occupied(st) /\ IndexOf(sl, s) \in Occupied(st)
          /\ RouteIn(st, sl, u) \in RouteIds
      BY <1>4, ServingFacts, Zenon DEF Serving
    <2>4. /\ RouteIn(st, sl, u) = st.sessions[IndexOf(sl, u)].route_id
          /\ r = st.sessions[IndexOf(sl, s)].route_id
      BY Zenon DEF RouteIn, IndexOf
    <2> QED
      BY <2>2, <2>3, <2>4, RoutesDiffer, Zenon
  <1> HIDE DEF om, r
  <1>5. HandlesOld(st, sm) /\ OneEach(sm)
    BY <1>3 DEF Linked, HandlesOld, OneEach
  <1>6. Served(st, sm, om)
    <2> SUFFICES ASSUME NEW u \in ConnectionSlots, sm[u].session_handle # NoHandle,
                        sm[u].phase # "closing"
                 PROVE  Serving(st, sm, u) /\ om[RouteIn(st, sm, u)] = Id(sm, u)
      BY Zenon DEF Served
    <2>1. u # s
      BY Zenon
    <2>2. Serving(st, sl, u) /\ ow[RouteIn(st, sl, u)] = Id(sl, u)
      BY <1>3, <2>1, Zenon DEF Linked, Served
    <2> QED
      BY <1>2, <1>3, <1>4, <2>1, <2>2, Zenon
  <1>7. Online(st, sm)
    BY <1>3, Zenon DEF Linked, Online
  <1>8. Owners(st, sm, om)
    <2> SUFFICES ASSUME NEW q \in RouteIds, om[q] # NoOwner
                 PROVE  \E u \in ConnectionSlots : /\ sm[u].phase # "free"
                                                   /\ om[q] = Id(sm, u)
                                                   /\ Serving(st, sm, u)
                                                   /\ RouteIn(st, sm, u) = q
      BY Zenon DEF Owners
    <2>1. q # r /\ om[q] = ow[q] /\ ow[q] # NoOwner
      BY <1>2, Zenon
    <2>2. PICK u \in ConnectionSlots : /\ sl[u].phase # "free"
                                       /\ ow[q] = Id(sl, u)
                                       /\ Serving(st, sl, u)
                                       /\ RouteIn(st, sl, u) = q
      BY <2>1, Zenon DEF Linked, Owners
    <2>3. u # s
      BY <2>1, <2>2, Zenon DEF r
    <2> QED
      BY <1>3, <2>1, <2>2, <2>3, Zenon
  <1>9. Connected(st, sm)
    BY <1>3, Zenon DEF Linked, Connected
  <1> QED
    BY <1>5, <1>6, <1>7, <1>8, <1>9, Zenon DEF Linked, om, r

-----------------------------------------------------------------------------
(* register: a connection opens a Session and displaces its owner.         *)

OwnerOf(st, ow, c) ==
    IF st.client_index[c] # 0 /\ st.sessions[st.client_index[c]].connected
    THEN ow[st.sessions[st.client_index[c]].route_id] ELSE NoOwner

Displaced(st, sl, ow, c, u) == sl[u].phase # "free" /\ Id(sl, u) = OwnerOf(st, ow, c)

\* The slots and the owners once slot s has opened the Session of slot i.
Registers(st, t, sl, sm, ow, om, c, i, s) ==
    /\ \A u \in ConnectionSlots \ {s} :
         sm[u] = IF Displaced(st, sl, ow, c, u)
                 THEN [sl[u] EXCEPT !.session_handle = NoHandle] ELSE sl[u]
    /\ sm[s].session_handle = [index |-> i, generation |-> st.next_generation]
    /\ sm[s].phase = "accepting"
    /\ \A r \in RouteIds :
         om[r] = IF r = t.sessions[i].route_id THEN Id(sm, s)
                 ELSE IF /\ st.client_index[c] # 0
                         /\ r = st.sessions[st.client_index[c]].route_id
                      THEN NoOwner ELSE ow[r]

\* A connection identity names its slot.
LEMMA SameSlot ==
    ASSUME NEW sl, NEW u \in ConnectionSlots, NEW v \in ConnectionSlots,
           Id(sl, u) = Id(sl, v)
    PROVE  u = v
  BY Zenon DEF Id

\* An owner is a connection, and a connection that is displaced serves the
\* client's Session.
LEMMA DisplacedServes ==
    ASSUME NEW st, GoodStore(st), NEW sl \in [ConnectionSlots -> Slot], NEW ow,
           Linked(st, sl, ow), NEW c \in Clients, NEW u \in ConnectionSlots,
           Displaced(st, sl, ow, c, u)
    PROVE  Serving(st, sl, u) /\ IndexOf(sl, u) = st.client_index[c]
  <1> DEFINE old == st.client_index[c]
             r == st.sessions[old].route_id
  <1>1. Id(sl, u) # NoOwner
    <2>1. sl[u].generation \in 0..MaxOpens
      BY Zenon DEF Slot
    <2>2. Id(sl, u) \in Subscribers
      BY <2>1 DEF Id, Subscribers
    <2> QED
      BY <2>2, BrokerAssumption, Zenon
  <1>2. old # 0 /\ ow[r] = Id(sl, u)
    BY <1>1, Zenon DEF Displaced, OwnerOf
  <1>3. old \in Occupied(st) /\ st.sessions[old] \in Session
    BY <1>2, IndexedSession, Zenon
  <1>4. r \in RouteIds
    BY <1>3, Zenon DEF Session
  <1>5. PICK v \in ConnectionSlots : /\ ow[r] = Id(sl, v)
                                     /\ Serving(st, sl, v)
                                     /\ RouteIn(st, sl, v) = r
    BY <1>1, <1>2, <1>4, Zenon DEF Linked, Owners
  <1>6. v = u
    BY <1>2, <1>5, SameSlot, Zenon
  <1>7. IndexOf(sl, u) \in Occupied(st) /\ st.sessions[IndexOf(sl, u)].route_id = r
    BY <1>5, <1>6, ServingFacts, Zenon DEF RouteIn, IndexOf, Serving
  <1>8. IndexOf(sl, u) = old
    BY <1>3, <1>7, RoutesDiffer, Zenon
  <1> QED
    BY <1>5, <1>6, <1>8, Zenon

\* A connection at work that serves the client's Session is displaced.
LEMMA ServesDisplaced ==
    ASSUME NEW st, GoodStore(st), NEW sl \in [ConnectionSlots -> Slot], NEW ow,
           Linked(st, sl, ow), NEW c \in Clients, NEW u \in ConnectionSlots,
           sl[u].session_handle # NoHandle, sl[u].phase # "closing",
           IndexOf(sl, u) = st.client_index[c]
    PROVE  Displaced(st, sl, ow, c, u)
  <1>1. Serving(st, sl, u) /\ ow[RouteIn(st, sl, u)] = Id(sl, u) /\ sl[u].phase # "free"
    BY Zenon DEF Linked, Served, HandlesOld
  <1>2. st.sessions[IndexOf(sl, u)].connected
    BY <1>1, Zenon DEF Linked, Online
  <1>3. IndexOf(sl, u) # 0
    BY ServingFacts DEF SessionSlots
  <1> QED
    BY <1>1, <1>2, <1>3, Zenon DEF Displaced, OwnerOf, RouteIn, IndexOf

\* register: the new connection serves the Session and no other one does.
LEMMA RegisterLinked ==
    ASSUME NEW st, GoodStore(st), NEW sl \in [ConnectionSlots -> Slot], NEW ow,
           Linked(st, sl, ow), NEW c \in Clients, NEW t, NEW i, Opens(st, t, c, i),
           NEW s \in ConnectionSlots, sl[s].phase = "free",
           NEW sm \in [ConnectionSlots -> Slot], NEW om,
           Registers(st, t, sl, sm, ow, om, c, i, s)
    PROVE  Linked(t, sm, om)
  <1> DEFINE old == st.client_index[c]
             route == t.sessions[i].route_id
             h == [index |-> i, generation |-> st.next_generation]
  <1>1. /\ GoodStore(t) /\ i \in Occupied(t) /\ route \in RouteIds
        /\ t.sessions[i].generation = st.next_generation /\ t.sessions[i].connected
        /\ t.next_generation = st.next_generation + 1 /\ i \in SessionSlots
    <2>1. t.sessions[i] # NoSession
      BY NoSessionAssumption, Zenon DEF Opens
    <2> QED
      BY <2>1, Zenon DEF Opens, Occupied, Session
  <1>2. st.next_generation \in Nat \ {0}
    BY Zenon DEF GoodStore, Store
  <1>3. h \in Handle /\ h # NoHandle /\ sm[s].session_handle = h
    <2>1. h \in Handle
      BY <1>1, <1>2, Zenon DEF Handle
    <2> QED
      BY <2>1, BrokerAssumption, Zenon DEF Registers
  <1>4. Serving(t, sm, s) /\ IndexOf(sm, s) = i /\ RouteIn(t, sm, s) = route
    BY <1>1, <1>3 DEF Serving, Valid, IndexOf, RouteIn, Occupied
  <1>5. ASSUME NEW u \in ConnectionSlots \ {s}, sm[u].session_handle # NoHandle
        PROVE  sm[u] = sl[u] /\ ~Displaced(st, sl, ow, c, u)
    <2>1. sl[u] \in Slot
      BY Zenon
    <2>2. [sl[u] EXCEPT !.session_handle = NoHandle].session_handle = NoHandle
      BY <2>1, Zenon DEF Slot
    <2> QED
      BY <1>5, <2>2, Zenon DEF Registers
  <1>6. sl[s].session_handle = NoHandle
    BY Zenon DEF Linked, HandlesOld
  <1>7. ASSUME NEW u \in ConnectionSlots \ {s}, sl[u].session_handle # NoHandle
        PROVE  /\ IndexOf(sl, u) \in SessionSlots
               /\ sl[u].session_handle.generation < st.next_generation
               /\ sl[u].session_handle.generation \in Nat
    BY <1>7, ServingFacts, Zenon DEF Linked, HandlesOld
  \* A slot that keeps its handle serves as before, but for the old Session.
  <1>8. ASSUME NEW u \in ConnectionSlots \ {s}, sm[u] = sl[u], Serving(st, sl, u),
               IndexOf(sl, u) # old
        PROVE  /\ Serving(t, sm, u) /\ RouteIn(t, sm, u) = RouteIn(st, sl, u)
               /\ IndexOf(sl, u) # i
               /\ t.sessions[IndexOf(sl, u)] = st.sessions[IndexOf(sl, u)]
    <2>1. IndexOf(sl, u) \in Occupied(st) /\ IndexOf(sl, u) \in SessionSlots
      BY <1>8, ServingFacts, Zenon DEF Serving
    <2>2. IndexOf(sl, u) # i
      BY <1>8, <2>1, Zenon DEF Opens
    <2>3. t.sessions[IndexOf(sl, u)] = st.sessions[IndexOf(sl, u)]
      BY <1>8, <2>1, <2>2, Zenon DEF Opens
    <2> QED
      BY <1>8, <2>2, <2>3, Zenon DEF Serving, Valid, IndexOf, RouteIn
  <1>9. ASSUME NEW u \in ConnectionSlots \ {s}, Serving(t, sm, u)
        PROVE  sm[u] = sl[u] /\ Serving(st, sl, u) /\ IndexOf(sl, u) # old
    <2>1. sm[u] = sl[u] /\ sl[u].session_handle # NoHandle
      BY <1>5, <1>9, Zenon DEF Serving
    <2>2. /\ IndexOf(sl, u) \in Occupied(t)
          /\ t.sessions[IndexOf(sl, u)].generation = sl[u].session_handle.generation
      <3>1. Serving(t, sl, u)
        BY <1>9, <2>1, Zenon DEF Serving
      <3> QED
        BY <1>1, <2>1, <3>1, ServingFacts
    <2>3. IndexOf(sl, u) # i
      BY <1>1, <1>2, <1>7, <2>1, <2>2
    <2>4. /\ IndexOf(sl, u) # old
          /\ t.sessions[IndexOf(sl, u)] = st.sessions[IndexOf(sl, u)]
      BY <1>7, <2>1, <2>2, <2>3, Zenon DEF Opens, Occupied
    <2>5. Serving(st, sl, u)
      BY <1>9, <2>1, <2>4, Zenon DEF Serving, Valid, IndexOf
    <2> QED
      BY <2>1, <2>4, <2>5, Zenon
  \* Its route is neither the new nor the old one.
  <1>10. ASSUME NEW u \in ConnectionSlots \ {s}, sm[u] = sl[u], Serving(st, sl, u),
                IndexOf(sl, u) # old
         PROVE  /\ RouteIn(st, sl, u) \in RouteIds
                /\ om[RouteIn(st, sl, u)] = ow[RouteIn(st, sl, u)]
    <2>1. /\ IndexOf(sl, u) \in Occupied(st) /\ RouteIn(st, sl, u) \in RouteIds
          /\ RouteIn(st, sl, u) = st.sessions[IndexOf(sl, u)].route_id
      BY <1>10, ServingFacts, Zenon DEF Serving, RouteIn, IndexOf
    <2>2. RouteIn(st, sl, u) # route
      <3>1. /\ IndexOf(sl, u) # i
            /\ t.sessions[IndexOf(sl, u)] = st.sessions[IndexOf(sl, u)]
        BY <1>8, <1>10, Zenon
      <3>2. IndexOf(sl, u) \in Occupied(t)
        BY <2>1, <3>1, Zenon DEF Occupied
      <3> QED
        BY <1>1, <2>1, <3>1, <3>2, RoutesDiffer, Zenon
    <2>3. ~(old # 0 /\ RouteIn(st, sl, u) = st.sessions[old].route_id)
      <3> SUFFICES ASSUME old # 0, RouteIn(st, sl, u) = st.sessions[old].route_id
                   PROVE  FALSE
        BY Zenon
      <3>1. old \in Occupied(st)
        BY IndexedSession, Zenon
      <3> QED
        BY <1>10, <2>1, <3>1, RoutesDiffer, Zenon
    <2> QED
      BY <2>1, <2>2, <2>3, Zenon DEF Registers
  <1>11. HandlesOld(t, sm)
    <2> SUFFICES ASSUME NEW u \in ConnectionSlots, sm[u].session_handle # NoHandle
                 PROVE  /\ sm[u].phase # "free"
                        /\ sm[u].session_handle.generation < t.next_generation
      BY Zenon DEF HandlesOld
    <2>1. CASE u = s
      BY <1>1, <1>2, <1>3, <2>1 DEF Registers
    <2>2. CASE u # s
      <3>1. sm[u] = sl[u]
        BY <1>5, <2>2, Zenon
      <3>2. sl[u].phase # "free"
        BY <3>1, Zenon DEF Linked, HandlesOld
      <3> QED
        BY <1>1, <1>2, <1>7, <2>2, <3>1, <3>2
    <2> QED
      BY <2>1, <2>2, Zenon
  <1>12. OneEach(sm)
    <2>1. ASSUME NEW u \in ConnectionSlots \ {s}
          PROVE  sm[u].session_handle # h
      <3>1. CASE sm[u].session_handle = NoHandle
        BY <1>3, <3>1, Zenon
      <3>2. CASE sm[u].session_handle # NoHandle
        BY <1>2, <1>5, <1>7, <3>2
      <3> QED
        BY <3>1, <3>2, Zenon
    <2> SUFFICES ASSUME NEW u \in ConnectionSlots, NEW v \in ConnectionSlots,
                        sm[u].session_handle = sm[v].session_handle,
                        sm[u].session_handle # NoHandle
                 PROVE  u = v
      BY Zenon DEF OneEach
    <2>2. CASE u = s \/ v = s
      BY <1>3, <2>1, <2>2, Zenon
    <2>3. CASE u # s /\ v # s
      <3>1. sm[u] = sl[u] /\ sm[v] = sl[v]
        BY <1>5, <2>3, Zenon
      <3> QED
        BY <3>1, Zenon DEF Linked, OneEach
    <2> QED
      BY <2>2, <2>3, Zenon
  <1>13. Served(t, sm, om)
    <2> SUFFICES ASSUME NEW u \in ConnectionSlots, sm[u].session_handle # NoHandle,
                        sm[u].phase # "closing"
                 PROVE  Serving(t, sm, u) /\ om[RouteIn(t, sm, u)] = Id(sm, u)
      BY Zenon DEF Served
    <2>1. CASE u = s
      BY <1>1, <1>4, <2>1, Zenon DEF Registers
    <2>2. CASE u # s
      <3>1. sm[u] = sl[u] /\ ~Displaced(st, sl, ow, c, u)
        BY <1>5, <2>2, Zenon
      <3>2. Serving(st, sl, u) /\ ow[RouteIn(st, sl, u)] = Id(sl, u)
        BY <3>1, Zenon DEF Linked, Served
      <3>3. IndexOf(sl, u) # old
        BY <3>1, ServesDisplaced, Zenon
      <3>4. Serving(t, sm, u) /\ RouteIn(t, sm, u) = RouteIn(st, sl, u)
        BY <1>8, <2>2, <3>1, <3>2, <3>3, Zenon
      <3>5. om[RouteIn(st, sl, u)] = ow[RouteIn(st, sl, u)]
        BY <1>10, <2>2, <3>1, <3>2, <3>3, Zenon
      <3> QED
        BY <3>1, <3>2, <3>4, <3>5, Zenon DEF Id
    <2> QED
      BY <2>1, <2>2, Zenon
  <1>14. Online(t, sm)
    <2> SUFFICES ASSUME NEW u \in ConnectionSlots, Serving(t, sm, u)
                 PROVE  t.sessions[IndexOf(sm, u)].connected
      BY Zenon DEF Online
    <2>1. CASE u = s
      BY <1>1, <1>4, <2>1, Zenon
    <2>2. CASE u # s
      <3>1. sm[u] = sl[u] /\ Serving(st, sl, u) /\ IndexOf(sl, u) # old
        BY <1>9, <2>2, Zenon
      <3>2. t.sessions[IndexOf(sl, u)] = st.sessions[IndexOf(sl, u)]
        BY <1>8, <2>2, <3>1, Zenon
      <3> QED
        BY <3>1, <3>2, Zenon DEF Linked, Online, IndexOf
    <2> QED
      BY <2>1, <2>2, Zenon
  <1>15. Owners(t, sm, om)
    <2> SUFFICES ASSUME NEW q \in RouteIds, om[q] # NoOwner
                 PROVE  \E u \in ConnectionSlots : /\ sm[u].phase # "free"
                                                   /\ om[q] = Id(sm, u)
                                                   /\ Serving(t, sm, u)
                                                   /\ RouteIn(t, sm, u) = q
      BY Zenon DEF Owners
    <2>1. CASE q = route
      BY <1>4, <2>1, Zenon DEF Registers
    <2>2. CASE q # route
      <3>1. om[q] = ow[q] /\ ~(old # 0 /\ q = st.sessions[old].route_id)
        BY <2>2, Zenon DEF Registers
      <3>2. PICK u \in ConnectionSlots : /\ sl[u].phase # "free"
                                         /\ ow[q] = Id(sl, u)
                                         /\ Serving(st, sl, u)
                                         /\ RouteIn(st, sl, u) = q
        BY <3>1, Zenon DEF Linked, Owners
      <3>3. u # s
        BY <3>2, Zenon
      <3>4. IndexOf(sl, u) # old
        <4>1. IndexOf(sl, u) # 0
          BY <1>7, <3>2, <3>3 DEF Serving, SessionSlots
        <4> QED
          BY <3>1, <3>2, <4>1, Zenon DEF RouteIn, IndexOf
      <3>5. ~Displaced(st, sl, ow, c, u)
        BY <3>4, DisplacedServes, Zenon
      <3>6. sm[u] = sl[u]
        BY <3>3, <3>5, Zenon DEF Registers
      <3>7. Serving(t, sm, u) /\ RouteIn(t, sm, u) = RouteIn(st, sl, u)
        BY <1>8, <3>2, <3>3, <3>4, <3>6, Zenon
      <3> QED
        BY <3>1, <3>2, <3>6, <3>7, Zenon DEF Id
    <2> QED
      BY <2>1, <2>2, Zenon
  <1>16. Connected(t, sm)
    <2> SUFFICES ASSUME NEW j \in Occupied(t), t.sessions[j].connected
                 PROVE  \E u \in ConnectionSlots : Serving(t, sm, u) /\ IndexOf(sm, u) = j
      BY Zenon DEF Connected
    <2>1. CASE j = i
      BY <1>4, <2>1, Zenon
    <2>2. CASE j # i
      <3>1. j # old /\ j \in Occupied(st) /\ t.sessions[j] = st.sessions[j]
        BY <2>2, Zenon DEF Opens, Occupied
      <3>2. PICK u \in ConnectionSlots : Serving(st, sl, u) /\ IndexOf(sl, u) = j
        BY <3>1, Zenon DEF Linked, Connected
      <3>3. u # s
        BY <1>6, <3>2, Zenon DEF Serving
      <3>4. sm[u] = sl[u]
        BY <3>1, <3>2, <3>3, DisplacedServes DEF Registers
      <3>5. Serving(t, sm, u)
        BY <1>8, <3>1, <3>2, <3>3, <3>4, Zenon
      <3> QED
        BY <3>2, <3>4, <3>5, Zenon DEF IndexOf
    <2> QED
      BY <2>1, <2>2, Zenon
  <1> QED
    BY <1>11, <1>12, <1>13, <1>14, <1>15, <1>16, Zenon DEF Linked

\* Without connections there is nothing to match.
LEMMA IdleLinked ==
    ASSUME NEW t, \A i \in Occupied(t) : ~t.sessions[i].connected,
           NEW sl, \A s \in ConnectionSlots : sl[s].session_handle = NoHandle,
           NEW ow, \A r \in RouteIds : ow[r] = NoOwner
    PROVE  Linked(t, sl, ow)
  BY Zenon DEF Linked, HandlesOld, Served, Online, OneEach, Owners, Connected, Serving

-----------------------------------------------------------------------------
(* Route identities, as long as they have not been used up.                *)

\* While Sessions can be opened, no identity was given out twice.
FreshRoutes(st, n) ==
    n < MaxOpens => st.next_route_id <= n + 1 /\ RoutesBehind(st)

\* open gives out the next identity, and none that is in use.
LEMMA OpenFresh ==
    ASSUME MaxOpens <= MaxRouteId, NEW st, GoodStore(st), NEW c \in Clients, NEW t,
           NEW i, Opens(st, t, c, i), NEW n \in Nat, n < MaxOpens, FreshRoutes(st, n)
    PROVE  FreshRoutes(t, n + 1)
  <1> SUFFICES ASSUME n + 1 < MaxOpens
               PROVE  t.next_route_id <= n + 2 /\ RoutesBehind(t)
    BY DEF FreshRoutes
  <1>1. st.next_route_id <= n + 1 /\ RoutesBehind(st)
    BY Zenon DEF FreshRoutes
  <1>2. st.next_route_id \in RouteIds /\ t.next_route_id \in RouteIds
    BY Zenon DEF GoodStore, Store, Opens
  <1>3. \A j \in Occupied(t) : j # i =>
          j \in Occupied(st) /\ t.sessions[j] = st.sessions[j]
    BY Zenon DEF Opens, Occupied
  <1>4. CASE /\ i = st.client_index[c]
             /\ t.sessions[i].route_id = st.sessions[i].route_id
             /\ t.next_route_id = st.next_route_id
    <2>1. i \in Occupied(st)
      <3>1. i # 0
        BY DEF Opens, SessionSlots
      <3> QED
        BY <1>4, <3>1, IndexedSession, Zenon
    <2>2. RoutesBehind(t)
      BY <1>1, <1>3, <1>4, <2>1, BehindKept, Zenon
    <2> QED
      BY <1>1, <1>2, <1>4, <2>2 DEF RouteIds
  <1>5. CASE /\ t.sessions[i].route_id = st.next_route_id
             /\ t.next_route_id = RouteAfter(st.next_route_id)
    <2>1. MaxOpens \in Nat /\ MaxRouteId \in Nat \ {0}
      BY BrokerAssumption, StoreAssumption
    <2>2. st.next_route_id < MaxRouteId /\ st.next_route_id \in 1..MaxRouteId
      BY <1>1, <1>2, <2>1 DEF RouteIds
    <2>3. t.next_route_id = st.next_route_id + 1
      BY <1>5, <2>1, <2>2 DEF RouteAfter
    <2>4. ASSUME NEW j \in Occupied(t)
          PROVE  t.sessions[j].route_id < t.next_route_id
      <3>1. CASE j = i
        BY <1>5, <2>2, <2>3, <3>1
      <3>2. CASE j # i
        <4>1. j \in Occupied(st) /\ t.sessions[j] = st.sessions[j]
          BY <1>3, <3>2, Zenon
        <4>2. /\ st.sessions[j].route_id < st.next_route_id
              /\ st.sessions[j].route_id \in RouteIds
          BY <1>1, <4>1, SlotRoute, Zenon DEF RoutesBehind
        <4> QED
          BY <2>2, <2>3, <4>1, <4>2 DEF RouteIds
      <3> QED
        BY <3>1, <3>2, Zenon
    <2> QED
      BY <1>1, <2>2, <2>3, <2>4 DEF RoutesBehind
  <1> QED
    BY <1>1, <1>4, <1>5, Zenon DEF Opens

-----------------------------------------------------------------------------
(* The inductive invariant.                                                *)

\* A slot's generation counts opened Sessions, serve has not come to the slots
\* ahead of it, an accepting slot has a Session, and only a task at work has
\* read its handle.
SlotGood(x, handle, s, next, n) ==
    /\ x.generation <= n
    /\ s >= next => x.phase = "free"
    /\ x.phase = "accepting" => x.session_handle # NoHandle
    /\ handle # NoHandle => x.phase \in {"attached", "closing"}

SlotsGood(sl, handles, next, n) ==
    \A s \in ConnectionSlots : SlotGood(sl[s], handles[s], s, next, n)

\* The router follows the Sessions as long as route identities are not given
\* out again; see RouterCorrect.
Routes(st, ro, n) == MaxOpens <= MaxRouteId => Routed(st, ro) /\ FreshRoutes(st, n)

BrokerInvariant ==
    /\ BrokerTypeOK
    /\ GoodStore(store)
    /\ Linked(store, slots, session_owners)
    /\ SlotsGood(slots, captured, next_slot, opens)
    /\ Routes(store, router, opens)

\* A slot and the others, after the slot was set.
LEMMA SlotSet ==
    ASSUME NEW sl \in [ConnectionSlots -> Slot], NEW s \in ConnectionSlots,
           NEW x \in Slot
    PROVE  /\ [sl EXCEPT ![s] = x] \in [ConnectionSlots -> Slot]
           /\ [sl EXCEPT ![s] = x][s] = x
           /\ \A u \in ConnectionSlots \ {s} : [sl EXCEPT ![s] = x][u] = sl[u]
  BY Zenon

\* The phase of a slot is set.
LEMMA PhaseSet ==
    ASSUME NEW sl \in [ConnectionSlots -> Slot], NEW s \in ConnectionSlots,
           NEW p \in {"free", "accepting", "attached", "closing"}
    PROVE  LET sm == [sl EXCEPT ![s].phase = p] IN
           /\ sm \in [ConnectionSlots -> Slot]
           /\ \A u \in ConnectionSlots \ {s} : sm[u] = sl[u]
           /\ sm[s].phase = p
           /\ sm[s].generation = sl[s].generation
           /\ sm[s].session_handle = sl[s].session_handle
  <1> DEFINE x == [sl[s] EXCEPT !.phase = p]
  <1>1. /\ x \in Slot /\ x.phase = p /\ x.generation = sl[s].generation
        /\ x.session_handle = sl[s].session_handle
    BY Zenon DEF Slot
  <1>2. [sl EXCEPT ![s].phase = p] = [sl EXCEPT ![s] = x]
    BY Zenon
  <1> HIDE DEF x
  <1> QED
    BY <1>1, <1>2, SlotSet

\* A slot is freed, and closed.
LEMMA FreedSet ==
    ASSUME slots \in [ConnectionSlots -> Slot], NEW s \in ConnectionSlots
    PROVE  LET sm == Freed(s) IN
           /\ sm \in [ConnectionSlots -> Slot]
           /\ \A u \in ConnectionSlots \ {s} : sm[u] = slots[u]
           /\ sm[s].phase = "free"
           /\ sm[s].generation = slots[s].generation
           /\ sm[s].session_handle = NoHandle
  <1> DEFINE x == [slots[s] EXCEPT !.phase = "free", !.session_handle = NoHandle,
                                   !.session_present = FALSE]
  <1>1. /\ x \in Slot /\ x.phase = "free" /\ x.generation = slots[s].generation
        /\ x.session_handle = NoHandle
    BY Zenon DEF Slot
  <1>2. Freed(s) = [slots EXCEPT ![s] = x]
    BY Zenon DEF Freed
  <1> HIDE DEF x
  <1> QED
    BY <1>1, <1>2, SlotSet

\* The slot after handleDisconnect.
LEMMA ClosedSet ==
    ASSUME NEW sl \in [ConnectionSlots -> Slot], NEW s \in ConnectionSlots
    PROVE  LET sm == [sl EXCEPT ![s].phase = "closing", ![s].session_handle = NoHandle] IN
           /\ sm \in [ConnectionSlots -> Slot]
           /\ \A u \in ConnectionSlots \ {s} : sm[u] = sl[u]
           /\ sm[s].phase = "closing"
           /\ sm[s].generation = sl[s].generation
           /\ sm[s].session_handle = NoHandle
  <1> DEFINE x == [sl[s] EXCEPT !.phase = "closing", !.session_handle = NoHandle]
  <1>1. /\ x \in Slot /\ x.phase = "closing" /\ x.generation = sl[s].generation
        /\ x.session_handle = NoHandle
    BY Zenon DEF Slot
  <1>2. [sl EXCEPT ![s].phase = "closing", ![s].session_handle = NoHandle]
           = [sl EXCEPT ![s] = x]
    BY Zenon
  <1> HIDE DEF x
  <1> QED
    BY <1>1, <1>2, SlotSet

\* Fewer Sessions, or the same ones, with no more identities left to give out.
LEMMA FreshKept ==
    ASSUME NEW st, GoodStore(st), NEW t, t.next_route_id = st.next_route_id,
           \A i \in Occupied(t) : /\ i \in Occupied(st)
                                  /\ t.sessions[i].route_id = st.sessions[i].route_id,
           NEW n \in Nat, NEW m \in Nat, m >= n, FreshRoutes(st, n)
    PROVE  FreshRoutes(t, m)
  <1>1. st.next_route_id \in Nat /\ MaxOpens \in Nat
    BY BrokerAssumption DEF GoodStore, Store, RouteIds
  <1> SUFFICES ASSUME m < MaxOpens
               PROVE  t.next_route_id <= m + 1 /\ RoutesBehind(t)
    BY Zenon DEF FreshRoutes
  <1>2. st.next_route_id <= n + 1 /\ RoutesBehind(st)
    BY <1>1 DEF FreshRoutes
  <1> QED
    BY <1>1, <1>2, BehindKept

\* What Holds and the other definitions of the model say in these terms.
LEMMA InTheseTerms ==
    ASSUME NEW s
    PROVE  /\ Holds(s) <=> Serving(store, slots, s)
           /\ RouteOf(slots[s].session_handle) = RouteIn(store, slots, s)
           /\ Connection(s) = Id(slots, s)
           /\ Active(s) <=> slots[s].phase # "free"
  BY Zenon DEF Holds, Serving, RouteOf, SessionOf, RouteIn, Connection, Id, Active

-----------------------------------------------------------------------------
(* The parts that several handlers share.                                  *)

\* The sweep, as a handler finds it done.
LEMMA SweepDone ==
    ASSUME StoreWorks, BrokerInvariant
    PROVE  LET t == Pruned(store, now) IN
           /\ GoodStore(t)
           /\ Linked(t, slots, session_owners)
           /\ PrunedRouter \in [RouteIds -> SUBSET Filters]
           /\ PrunedPending \subseteq pending_qos2
           /\ \A n \in Nat : n >= opens => Routes(t, PrunedRouter, n)
  <1> DEFINE t == Pruned(store, now)
             S == Gone(store, now)
  <1>1. GoodStore(store) /\ Linked(store, slots, session_owners)
        /\ slots \in [ConnectionSlots -> Slot] /\ opens \in Nat
    BY BrokerAssumption DEF BrokerInvariant, BrokerTypeOK
  <1>2. /\ Without(store, t, S) /\ S \subseteq Occupied(store)
        /\ \A i \in S : ~store.sessions[i].connected
        /\ PrunedRoutes(store, now) = {store.sessions[i].route_id : i \in S}
    BY <1>1, Zenon DEF StoreWorks, SweepPromise
  <1> HIDE DEF t, S
  <1>3. Linked(t, slots, session_owners)
    BY <1>1, <1>2, RemovalLinked, Zenon
  <1>4. PrunedRouter \in [RouteIds -> SUBSET Filters]
    BY Zenon DEF BrokerInvariant, BrokerTypeOK, PrunedRouter, Unrouted
  <1>5. PrunedPending \subseteq pending_qos2
    BY Zenon DEF PrunedPending, WithoutPublishers
  <1>6. \A r \in RouteIds :
          PrunedRouter[r] = IF r \in {store.sessions[i].route_id : i \in S}
                            THEN {} ELSE router[r]
    BY <1>2, Zenon DEF PrunedRouter, Unrouted
  <1>7. ASSUME MaxOpens <= MaxRouteId, NEW n \in Nat, n >= opens
        PROVE  Routed(t, PrunedRouter) /\ FreshRoutes(t, n)
    <2>1. Routed(store, router) /\ FreshRoutes(store, opens)
      BY <1>7, Zenon DEF BrokerInvariant, Routes
    <2>2. Routed(t, PrunedRouter)
      BY <1>1, <1>2, <1>6, <2>1, RemovalRouted
    <2>3. /\ t.next_route_id = store.next_route_id
          /\ \A i \in Occupied(t) : /\ i \in Occupied(store)
                                    /\ t.sessions[i].route_id = store.sessions[i].route_id
      BY <1>2, Zenon DEF Without, Occupied
    <2>4. FreshRoutes(t, n)
      BY <1>1, <1>7, <2>1, <2>3, FreshKept, Zenon
    <2> QED
      BY <2>2, <2>4, Zenon
  <1>8. GoodStore(t)
    BY <1>2, Zenon DEF Without
  <1> QED
    BY <1>3, <1>4, <1>5, <1>7, <1>8, Zenon DEF Routes, t

\* A connection leaves its Session: the owner entry of its route is removed,
\* and its routes if the Session is gone.
Departs(t, sm, om, rm, s) ==
    /\ Serving(store, slots, s)
    /\ Left(store, t, IndexOf(slots, s))
    /\ \A u \in ConnectionSlots \ {s} : sm[u] = slots[u]
    /\ sm[s].session_handle = NoHandle
    /\ om = [session_owners EXCEPT ![RouteIn(store, slots, s)] = NoOwner]
    /\ \A r \in RouteIds : rm[r] = IF /\ t.sessions[IndexOf(slots, s)] = NoSession
                                      /\ r = RouteIn(store, slots, s)
                                   THEN {} ELSE router[r]

\* What every handler that ends with Departs keeps.
LEMMA LeaveDone ==
    ASSUME BrokerInvariant, NEW s \in ConnectionSlots, NEW t, NEW sm, NEW om, NEW rm,
           Departs(t, sm, om, rm, s)
    PROVE  /\ GoodStore(t)
           /\ Linked(t, sm, om)
           /\ om \in [RouteIds -> Subscribers \cup {NoOwner}]
           /\ Routes(t, rm, opens)
  <1> USE DEF Departs
  <1> DEFINE i == IndexOf(slots, s)
             r == RouteIn(store, slots, s)
  <1>1. /\ GoodStore(store) /\ Linked(store, slots, session_owners)
        /\ slots \in [ConnectionSlots -> Slot] /\ opens \in Nat
        /\ session_owners \in [RouteIds -> Subscribers \cup {NoOwner}]
    BY BrokerAssumption DEF BrokerInvariant, BrokerTypeOK
  <1>2. i \in Occupied(store) /\ r \in RouteIds /\ r = store.sessions[i].route_id
    BY <1>1, ServingFacts, Zenon DEF Serving, RouteIn, IndexOf
  <1>3. om \in [RouteIds -> Subscribers \cup {NoOwner}]
    BY <1>1, Zenon
  <1>4. Linked(t, sm, om)
    BY <1>1, LeaveLinked, Zenon
  <1>5. GoodStore(t)
    BY Zenon DEF Left
  <1>6. ASSUME MaxOpens <= MaxRouteId
        PROVE  Routed(t, rm) /\ FreshRoutes(t, opens)
    <2>1. Routed(store, router) /\ FreshRoutes(store, opens)
      BY <1>6, Zenon DEF BrokerInvariant, Routes
    <2>2. Routed(t, rm)
      BY <1>1, <1>2, <2>1, LeaveRouted
    <2>3. /\ t.next_route_id = store.next_route_id
          /\ \A j \in Occupied(t) : /\ j \in Occupied(store)
                                    /\ t.sessions[j].route_id = store.sessions[j].route_id
      BY <1>2, Zenon DEF Left, Occupied
    <2>4. FreshRoutes(t, opens)
      BY <1>1, <2>1, <2>3, FreshKept
    <2> QED
      BY <2>2, <2>4, Zenon
  <1> QED
    BY <1>3, <1>4, <1>5, <1>6, Zenon DEF Routes

-----------------------------------------------------------------------------
(* The handlers.                                                           *)

\* The parts of the invariant.
LEMMA InvariantParts ==
    ASSUME BrokerInvariant
    PROVE  /\ GoodStore(store)
           /\ Linked(store, slots, session_owners)
           /\ SlotsGood(slots, captured, next_slot, opens)
           /\ Routes(store, router, opens)
           /\ slots \in [ConnectionSlots -> Slot]
           /\ session_owners \in [RouteIds -> Subscribers \cup {NoOwner}]
           /\ router \in [RouteIds -> SUBSET Filters]
           /\ pending_qos2 \subseteq Subscribers
           /\ captured \in [ConnectionSlots -> Handle \cup {NoHandle}]
           /\ next_slot \in 1..(MaxConnections + 1)
           /\ now \in 0..MaxTime /\ now \in Nat
           /\ opens \in 0..MaxOpens /\ opens \in Nat
           /\ restarts \in 0..MaxRestarts
           /\ MaxConnections \in Nat /\ MaxOpens \in Nat
           /\ MaxTime \in Nat /\ MaxRestarts \in Nat
  BY BrokerAssumption DEF BrokerInvariant, BrokerTypeOK

\* The invariant from its parts in the next state.
LEMMA InvariantNext ==
    ASSUME /\ GoodStore(store')
           /\ Linked(store', slots', session_owners')
           /\ SlotsGood(slots', captured', next_slot', opens')
           /\ Routes(store', router', opens'),
           /\ slots' \in [ConnectionSlots -> Slot]
           /\ session_owners' \in [RouteIds -> Subscribers \cup {NoOwner}]
           /\ router' \in [RouteIds -> SUBSET Filters]
           /\ pending_qos2' \subseteq Subscribers
           /\ captured' \in [ConnectionSlots -> Handle \cup {NoHandle}],
           /\ next_slot' \in 1..(MaxConnections + 1)
           /\ now' \in 0..MaxTime
           /\ opens' \in 0..MaxOpens
           /\ restarts' \in 0..MaxRestarts
    PROVE  BrokerInvariant'
  <1>1. store' \in Store
    BY Zenon DEF GoodStore
  <1> QED
    BY <1>1, Zenon DEF BrokerInvariant, BrokerTypeOK

\* Time passes.
LEMMA TickKeeps ==
    ASSUME BrokerInvariant, Tick
    PROVE  BrokerInvariant'
  <1>1. now' \in 0..MaxTime
    BY InvariantParts DEF Tick
  <1> QED
    BY <1>1, InvariantParts, InvariantNext, Zenon DEF Tick, brokerVars

\* serve is called again.
LEMMA ServeKeeps ==
    ASSUME BrokerInvariant, Serve
    PROVE  BrokerInvariant'
  <1>1. next_slot' \in 1..(MaxConnections + 1)
    BY InvariantParts DEF Serve
  <1>2. SlotsGood(slots, captured, next_slot', opens)
    BY InvariantParts, Zenon DEF Serve, SlotsGood, SlotGood
  <1> QED
    BY <1>1, <1>2, InvariantParts, InvariantNext, Zenon DEF Serve, brokerVars

\* The sweep of enqueuePublishLocked.
LEMMA SweepKeeps ==
    ASSUME StoreWorks, BrokerInvariant, Sweep
    PROVE  BrokerInvariant'
  <1>1. /\ GoodStore(store') /\ Linked(store', slots, session_owners)
        /\ router' \in [RouteIds -> SUBSET Filters]
        /\ pending_qos2' \subseteq Subscribers
        /\ Routes(store', router', opens)
    BY SweepDone, InvariantParts DEF Sweep
  <1> QED
    BY <1>1, InvariantParts, InvariantNext, Zenon DEF Sweep

\* saveSnapshot and restoreSnapshot.
LEMMA RestartKeeps ==
    ASSUME StoreWorks, BrokerInvariant, NEW downtime \in Downtimes, Restart(downtime)
    PROVE  BrokerInvariant'
  <1>1. downtime \in Nat
    BY BrokerAssumption, Zenon
  <1>2. RestoredFrom(store, store', MaxSessions)
    BY <1>1, InvariantParts, Zenon DEF Restart, StoreWorks, RestorePromise
  <1>3. GoodStore(store') /\ \A i \in Occupied(store') : ~store'.sessions[i].connected
    BY <1>2, Zenon DEF RestoredFrom
  <1>4. /\ \A s \in ConnectionSlots : slots[s].phase = "free"
        /\ \A r \in RouteIds : session_owners[r] = NoOwner
    BY Zenon DEF Restart, CanSave, Idle
  <1>5. \A s \in ConnectionSlots : slots[s].session_handle = NoHandle
    BY <1>4, InvariantParts, Zenon DEF Linked, HandlesOld
  <1>6. Linked(store', slots, session_owners)
    BY <1>3, <1>4, <1>5, IdleLinked, Zenon
  <1>7. \A r \in RouteIds :
          router'[r] = IF store'.route_index[r] = 0 THEN {}
                       ELSE store'.sessions[store'.route_index[r]].subscriptions
    BY Zenon DEF Restart
  <1>8. Routed(store', router')
    BY <1>3, <1>7, RestartRouted, Zenon
  <1>9. FreshRoutes(store, opens) => FreshRoutes(store', opens)
    <2>1. store.next_route_id \in Nat /\ store'.next_route_id \in Nat
      <3>1. store.next_route_id \in RouteIds /\ store'.next_route_id \in RouteIds
        BY <1>3, InvariantParts, Zenon DEF GoodStore, Store
      <3>2. RouteIds \subseteq Nat
        BY ONLY DEF RouteIds
      <3> QED
        BY ONLY <3>1, <3>2, Zenon
    <2>2. RoutesBehind(store) =>
            RoutesBehind(store') /\ store'.next_route_id <= store.next_route_id
      BY <1>2, Zenon DEF RestoredFrom
    <2>3. opens \in Nat
      BY InvariantParts, Zenon
    <2> QED
      BY ONLY <2>1, <2>2, <2>3 DEF FreshRoutes
  <1>10. Routes(store', router', opens)
    BY <1>8, <1>9, InvariantParts, Zenon DEF Routes
  <1>11. router' \in [RouteIds -> SUBSET Filters]
    <2>1. ASSUME NEW r \in RouteIds, store'.route_index[r] # 0
          PROVE  store'.sessions[store'.route_index[r]].subscriptions \in SUBSET Filters
      <3>1. store'.route_index[r] \in SessionSlots
        BY <1>3, <2>1, Zenon DEF GoodStore, Store
      <3>2. store'.route_index[r] \in Occupied(store')
        BY <1>3, <3>1, Zenon DEF GoodStore, IndexesExact, Occupied
      <3> QED
        BY <1>3, <3>2, SlotRoute, Zenon DEF Session
    <2> QED
      BY <2>1, Zenon DEF Restart
  <1>12. restarts' \in 0..MaxRestarts
    BY InvariantParts DEF Restart
  <1>13. next_slot' \in 1..(MaxConnections + 1)
    BY InvariantParts DEF Restart
  <1>14. SlotsGood(slots, captured, next_slot', opens)
    BY <1>4, InvariantParts, Zenon DEF SlotsGood, SlotGood
  <1> QED
    BY <1>3, <1>6, <1>10, <1>11, <1>12, <1>13, <1>14, InvariantParts, InvariantNext, Zenon
       DEF Restart

\* register without room for another Session.
LEMMA RegisterRefusedKeeps ==
    ASSUME StoreWorks, BrokerInvariant, NEW s \in ConnectionSlots, NEW c \in Clients,
           NEW clean_start, RegisterRefused(s, c, clean_start)
    PROVE  BrokerInvariant'
  <1> DEFINE x == [slots[s] EXCEPT !.generation = slots[s].generation + 1]
  <1>1. opens' = opens + 1 /\ opens' \in 0..MaxOpens /\ opens' \in Nat
    BY InvariantParts DEF RegisterRefused, Accepting
  <1>2. /\ GoodStore(store') /\ Linked(store', slots, session_owners)
        /\ router' \in [RouteIds -> SUBSET Filters]
        /\ pending_qos2' \subseteq Subscribers
        /\ Routes(store', router', opens')
    BY <1>1, SweepDone, InvariantParts DEF RegisterRefused
  <1>3. /\ slots[s] \in Slot /\ slots[s].generation \in 0..MaxOpens
        /\ slots[s].generation <= opens /\ slots[s].phase = "free"
    BY InvariantParts DEF RegisterRefused, Accepting, SlotsGood, SlotGood, Slot
  <1>4. slots[s].generation + 1 \in 0..MaxOpens /\ slots[s].generation + 1 <= opens'
    BY <1>1, <1>3, InvariantParts
  <1>5. /\ x \in Slot /\ x.phase = "free" /\ x.generation = slots[s].generation + 1
        /\ x.session_handle = slots[s].session_handle
    BY <1>3, <1>4, Zenon DEF Slot
  <1>6. slots' = [slots EXCEPT ![s] = x]
    BY Zenon DEF RegisterRefused
  <1> HIDE DEF x
  <1>7. /\ slots' \in [ConnectionSlots -> Slot] /\ slots'[s] = x
        /\ \A u \in ConnectionSlots \ {s} : slots'[u] = slots[u]
    BY <1>5, <1>6, InvariantParts, SlotSet, Zenon
  <1>8. Linked(store', slots', session_owners)
    BY <1>2, <1>3, <1>5, <1>7, SlotLinked, Zenon
  <1>9. next_slot' = MaxConnections + 1 /\ next_slot' \in 1..(MaxConnections + 1)
    BY InvariantParts DEF RegisterRefused
  <1>10. SlotsGood(slots', captured, next_slot', opens')
    <2> SUFFICES ASSUME NEW u \in ConnectionSlots
                 PROVE  SlotGood(slots'[u], captured[u], u, next_slot', opens')
      BY Zenon DEF SlotsGood
    <2>1. SlotGood(slots[u], captured[u], u, next_slot, opens)
      BY InvariantParts, Zenon DEF SlotsGood
    <2>2. ~(u >= next_slot')
      BY <1>9, InvariantParts DEF ConnectionSlots
    <2>3. CASE u = s
      BY <1>3, <1>4, <1>5, <1>7, <2>1, <2>2, <2>3, Zenon DEF SlotGood
    <2>4. CASE u # s
      <3>1. slots[u].generation \in Nat
        BY InvariantParts DEF Slot
      <3> QED
        BY <1>1, <1>7, <2>1, <2>2, <2>4, <3>1, InvariantParts DEF SlotGood
    <2> QED
      BY <2>3, <2>4, Zenon
  <1> QED
    BY <1>1, <1>2, <1>7, <1>8, <1>9, <1>10, InvariantParts, InvariantNext, Zenon
       DEF RegisterRefused

\* attachConnection.
LEMMA AttachKeeps ==
    ASSUME BrokerInvariant, NEW s \in ConnectionSlots, Attach(s)
    PROVE  BrokerInvariant'
  <1>1. /\ slots' \in [ConnectionSlots -> Slot]
        /\ \A u \in ConnectionSlots \ {s} : slots'[u] = slots[u]
        /\ slots'[s].phase = "attached"
        /\ slots'[s].generation = slots[s].generation
        /\ slots'[s].session_handle = slots[s].session_handle
    BY InvariantParts, PhaseSet, Zenon DEF Attach
  <1>2. Linked(store, slots', session_owners)
    BY <1>1, InvariantParts, SlotLinked, Zenon DEF Attach
  <1>3. SlotsGood(slots', captured, next_slot, opens)
    BY <1>1, InvariantParts, Zenon DEF SlotsGood, SlotGood, Attach
  <1> QED
    BY <1>1, <1>2, <1>3, InvariantParts, InvariantNext, Zenon DEF Attach

\* The task of a slot in phase p ends with an error.
LEMMA TaskEnds ==
    ASSUME BrokerInvariant, NEW s \in ConnectionSlots,
           slots[s].phase \in {"attached", "closing"}
    PROVE  LET sm == [slots EXCEPT ![s].phase = "closing"] IN
           /\ sm \in [ConnectionSlots -> Slot]
           /\ Linked(store, sm, session_owners)
           /\ \A handles : /\ SlotsGood(slots, handles, next_slot, opens)
                           => SlotsGood(sm, handles, next_slot, opens)
  <1> DEFINE sm == [slots EXCEPT ![s].phase = "closing"]
  <1>1. /\ sm \in [ConnectionSlots -> Slot]
        /\ \A u \in ConnectionSlots \ {s} : sm[u] = slots[u]
        /\ sm[s].phase = "closing"
        /\ sm[s].generation = slots[s].generation
        /\ sm[s].session_handle = slots[s].session_handle
    BY InvariantParts, PhaseSet, Zenon
  <1> HIDE DEF sm
  <1>2. Linked(store, sm, session_owners)
    BY <1>1, InvariantParts, SlotLinked, Zenon
  <1>3. ASSUME NEW handles, SlotsGood(slots, handles, next_slot, opens)
        PROVE  SlotsGood(sm, handles, next_slot, opens)
    <2> SUFFICES ASSUME NEW u \in ConnectionSlots
                 PROVE  SlotGood(sm[u], handles[u], u, next_slot, opens)
      BY Zenon DEF SlotsGood
    <2>1. SlotGood(slots[u], handles[u], u, next_slot, opens)
      BY <1>3, Zenon DEF SlotsGood
    <2> QED
      BY <1>1, <2>1, Zenon DEF SlotGood
  <1> QED
    BY <1>1, <1>2, <1>3, Zenon DEF sm

\* The Session that a slot serves.
LEMMA SlotServes ==
    ASSUME BrokerInvariant, NEW s \in ConnectionSlots, Serving(store, slots, s)
    PROVE  /\ slots[s].session_handle \in Handle
           /\ slots[s].session_handle.index = IndexOf(slots, s)
           /\ IndexOf(slots, s) \in Occupied(store)
           /\ RouteIn(store, slots, s) = store.sessions[IndexOf(slots, s)].route_id
           /\ RouteIn(store, slots, s) \in RouteIds
           /\ store.sessions[IndexOf(slots, s)] \in Session
           /\ store.sessions[IndexOf(slots, s)].expiry_interval \in ExpiryIntervals
  <1>1. slots[s].session_handle # NoHandle
    BY Zenon DEF Serving
  <1>2. /\ slots[s].session_handle \in Handle
        /\ IndexOf(slots, s) \in Occupied(store)
        /\ RouteIn(store, slots, s) \in RouteIds
    BY <1>1, InvariantParts, ServingFacts, Zenon
  <1>3. store.sessions[IndexOf(slots, s)] \in Session
    BY <1>2, InvariantParts, SlotRoute, Zenon
  <1>4. store.sessions[IndexOf(slots, s)].expiry_interval \in ExpiryIntervals
    BY <1>3, Zenon DEF Session
  <1> QED
    BY <1>2, <1>3, <1>4, Zenon DEF RouteIn, IndexOf

\* abortRegistration.
LEMMA AbortKeeps ==
    ASSUME StoreWorks, BrokerInvariant, NEW s \in ConnectionSlots, Abort(s)
    PROVE  BrokerInvariant'
  <1> DEFINE h == slots[s].session_handle
             i == IndexOf(slots, s)
             r == RouteIn(store, slots, s)
  <1>1. slots[s].phase = "accepting" /\ h # NoHandle
    BY InvariantParts, Zenon DEF Abort, SlotsGood, SlotGood
  <1>2. Serving(store, slots, s)
    BY <1>1, InvariantParts, Zenon DEF Linked, Served
  <1>3. /\ h \in Handle /\ h.index = i /\ i \in Occupied(store)
        /\ r = store.sessions[i].route_id /\ r \in RouteIds
        /\ store.sessions[i].expiry_interval \in ExpiryIntervals
    BY <1>2, SlotServes, Zenon
  <1>4. RouteOf(h) = r
    BY <1>2, InTheseTerms, Zenon
  <1>5. Left(store, store', i)
    <2>1. CASE slots[s].session_present
      <3>1. store' = Disconnected(store, h, store.sessions[i].expiry_interval, now)
        BY <1>3, <2>1, Zenon DEF Abort, RolledBack, SessionOf
      <3>2. h.index \in Occupied(store)
        BY <1>3, Zenon
      <3>3. Left(store, store', h.index)
        BY <1>3, <3>1, <3>2, InvariantParts, Zenon DEF StoreWorks, DisconnectPromise
      <3> QED
        BY <1>3, <3>3, Zenon
    <2>2. CASE ~slots[s].session_present
      <3>1. store' = RemoveAt(store, {i})
        BY <1>3, <2>2, Zenon DEF Abort, RolledBack
      <3> QED
        BY <1>3, <3>1, InvariantParts, Zenon DEF StoreWorks, DiscardPromise
    <2> QED
      BY <2>1, <2>2, Zenon
  <1>6. store'.route_index[r] = 0 <=> store'.sessions[i] = NoSession
    BY <1>3, <1>5, InvariantParts, LeftIndex
  <1>7. router' = IF store'.route_index[r] = 0 THEN Unrouted({r}) ELSE router
    BY <1>4, Zenon DEF Abort
  <1>8. /\ router' \in [RouteIds -> SUBSET Filters]
        /\ \A q \in RouteIds : router'[q] = IF store'.sessions[i] = NoSession /\ q = r
                                            THEN {} ELSE router[q]
    <2>1. Unrouted({r}) \in [RouteIds -> SUBSET Filters]
      BY InvariantParts, Zenon DEF Unrouted
    <2>2. \A q \in RouteIds : Unrouted({r})[q] = IF q = r THEN {} ELSE router[q]
      BY Zenon DEF Unrouted
    <2> QED
      BY <1>6, <1>7, <2>1, <2>2, InvariantParts, Zenon
  <1>9. session_owners' = [session_owners EXCEPT ![r] = NoOwner]
    BY <1>4, Zenon DEF Abort
  <1>10. /\ slots' \in [ConnectionSlots -> Slot]
         /\ \A u \in ConnectionSlots \ {s} : slots'[u] = slots[u]
         /\ slots'[s].phase = "free"
         /\ slots'[s].generation = slots[s].generation
         /\ slots'[s].session_handle = NoHandle
    BY InvariantParts, FreedSet, Zenon DEF Abort
  <1> HIDE DEF h, i, r
  <1>11. /\ GoodStore(store')
         /\ Linked(store', slots', session_owners')
         /\ session_owners' \in [RouteIds -> Subscribers \cup {NoOwner}]
         /\ Routes(store', router', opens)
    <2>1. Departs(store', slots', session_owners', router', s)
      BY <1>2, <1>5, <1>8, <1>9, <1>10, Zenon DEF Departs, i, r
    <2> QED
      BY <2>1, LeaveDone, Zenon
  <1>12. next_slot' = MaxConnections + 1 /\ next_slot' \in 1..(MaxConnections + 1)
    BY InvariantParts DEF Abort
  <1>13. SlotsGood(slots', captured, next_slot', opens)
    <2> SUFFICES ASSUME NEW u \in ConnectionSlots
                 PROVE  SlotGood(slots'[u], captured[u], u, next_slot', opens)
      BY Zenon DEF SlotsGood
    <2>1. SlotGood(slots[u], captured[u], u, next_slot, opens)
      BY InvariantParts, Zenon DEF SlotsGood
    <2>2. ~(u >= next_slot')
      BY <1>12, InvariantParts DEF ConnectionSlots
    <2> QED
      BY <1>1, <1>10, <2>1, <2>2, Zenon DEF SlotGood
  <1> QED
    BY <1>8, <1>10, <1>11, <1>12, <1>13, InvariantParts, InvariantNext, Zenon DEF Abort

\* A connection leaves with the interval then in force.
LEMMA LeaveKeeps ==
    ASSUME StoreWorks, BrokerInvariant, NEW s \in ConnectionSlots, Serving(store, slots, s),
           NEW interval \in ExpiryIntervals, Leave(slots[s].session_handle, interval),
           \A u \in ConnectionSlots \ {s} : slots'[u] = slots[u],
           slots'[s].session_handle = NoHandle
    PROVE  /\ GoodStore(store')
           /\ Linked(store', slots', session_owners')
           /\ session_owners' \in [RouteIds -> Subscribers \cup {NoOwner}]
           /\ router' \in [RouteIds -> SUBSET Filters]
           /\ Routes(store', router', opens)
  <1> DEFINE h == slots[s].session_handle
             i == IndexOf(slots, s)
             r == RouteIn(store, slots, s)
  <1>1. /\ h \in Handle /\ h.index = i /\ i \in Occupied(store)
        /\ r = store.sessions[i].route_id /\ r \in RouteIds
    BY SlotServes, Zenon
  <1>2. RouteOf(h) = r
    BY InTheseTerms, Zenon
  <1>3. store' = Disconnected(store, h, interval, now)
    BY Zenon DEF Leave
  <1>4. Left(store, store', i) /\ (store'.sessions[i] = NoSession <=> interval = 0)
    <2>1. h.index \in Occupied(store)
      BY <1>1, Zenon
    <2>2. /\ Left(store, store', h.index)
          /\ store'.sessions[h.index] = NoSession <=> interval = 0
      BY <1>1, <1>3, <2>1, InvariantParts DEF StoreWorks, DisconnectPromise
    <2> QED
      BY <1>1, <2>2, Zenon
  <1>5. session_owners' = [session_owners EXCEPT ![r] = NoOwner]
    BY <1>2, Zenon DEF Leave
  <1>6. router' = Unrouted(IF interval = 0 THEN {r} ELSE {})
    BY <1>2, Zenon DEF Leave
  <1>7. /\ router' \in [RouteIds -> SUBSET Filters]
        /\ \A q \in RouteIds : router'[q] = IF store'.sessions[i] = NoSession /\ q = r
                                            THEN {} ELSE router[q]
    BY <1>4, <1>6, InvariantParts, Zenon DEF Unrouted
  <1>8. Departs(store', slots', session_owners', router', s)
    BY <1>4, <1>5, <1>7, Zenon DEF Departs
  <1> QED
    BY <1>7, <1>8, LeaveDone, Zenon

\* handleDisconnect.
LEMMA DisconnectKeeps ==
    ASSUME StoreWorks, BrokerInvariant, NEW s \in ConnectionSlots,
           NEW interval \in ExpiryIntervals,
           Disconnect(s, interval)
    PROVE  BrokerInvariant'
  <1>1. /\ slots' \in [ConnectionSlots -> Slot]
        /\ \A u \in ConnectionSlots \ {s} : slots'[u] = slots[u]
        /\ slots'[s].phase = "closing"
        /\ slots'[s].generation = slots[s].generation
        /\ slots'[s].session_handle = NoHandle
    BY InvariantParts, ClosedSet, Zenon DEF Disconnect
  <1>2. SlotsGood(slots', captured, next_slot, opens)
    <2> SUFFICES ASSUME NEW u \in ConnectionSlots
                 PROVE  SlotGood(slots'[u], captured[u], u, next_slot, opens)
      BY Zenon DEF SlotsGood
    <2>1. SlotGood(slots[u], captured[u], u, next_slot, opens)
      BY InvariantParts, Zenon DEF SlotsGood
    <2> QED
      BY <1>1, <2>1, Zenon DEF SlotGood, Disconnect
  <1>3. CASE Holds(s)
    <2>1. Serving(store, slots, s) /\ Leave(slots[s].session_handle, interval)
      BY <1>3, InTheseTerms, Zenon DEF Disconnect
    <2>2. pending_qos2' \subseteq Subscribers
      BY <1>3, InvariantParts, Zenon DEF Disconnect, WithoutPublishers
    <2> QED
      BY <1>1, <1>2, <2>1, <2>2, LeaveKeeps, InvariantParts, InvariantNext, Zenon
         DEF Disconnect
  <1>4. CASE ~Holds(s)
    <2>1. ~Serving(store, slots, s)
      BY <1>4, InTheseTerms, Zenon
    <2>2. Linked(store, slots', session_owners)
      BY <1>1, <2>1, InvariantParts, DropLinked, Zenon
    <2> QED
      BY <1>1, <1>2, <1>4, <2>2, InvariantParts, InvariantNext, Zenon DEF Disconnect
  <1> QED
    BY <1>3, <1>4, Zenon

\* handleDisconnect with an interval it refuses.
LEMMA DisconnectInvalidKeeps ==
    ASSUME BrokerInvariant, NEW s \in ConnectionSlots, DisconnectInvalid(s)
    PROVE  BrokerInvariant'
  <1> DEFINE r == RouteIn(store, slots, s)
  <1>1. Serving(store, slots, s) /\ RouteOf(slots[s].session_handle) = r
    BY InTheseTerms, Zenon DEF DisconnectInvalid
  <1>2. session_owners' = [session_owners EXCEPT ![r] = NoOwner]
    BY <1>1, Zenon DEF DisconnectInvalid
  <1>3. /\ slots' \in [ConnectionSlots -> Slot]
        /\ \A u \in ConnectionSlots \ {s} : slots'[u] = slots[u]
        /\ slots'[s].phase = "closing"
        /\ slots'[s].generation = slots[s].generation
        /\ slots'[s].session_handle = slots[s].session_handle
    BY InvariantParts, PhaseSet, Zenon DEF DisconnectInvalid
  <1>4. Linked(store, slots', session_owners')
    BY <1>1, <1>2, <1>3, InvariantParts, DisownLinked, Zenon
  <1>5. session_owners' \in [RouteIds -> Subscribers \cup {NoOwner}]
    BY <1>2, InvariantParts, Zenon
  <1>6. SlotsGood(slots', captured, next_slot, opens)
    BY InvariantParts, TaskEnds, Zenon DEF DisconnectInvalid
  <1> QED
    BY <1>3, <1>4, <1>5, <1>6, InvariantParts, InvariantNext, Zenon DEF DisconnectInvalid

\* unregister.
LEMMA UnregisterKeeps ==
    ASSUME StoreWorks, BrokerInvariant, NEW s \in ConnectionSlots, Unregister(s)
    PROVE  BrokerInvariant'
  <1>1. /\ slots' \in [ConnectionSlots -> Slot]
        /\ \A u \in ConnectionSlots \ {s} : slots'[u] = slots[u]
        /\ slots'[s].phase = "free"
        /\ slots'[s].generation = slots[s].generation
        /\ slots'[s].session_handle = NoHandle
    BY InvariantParts, FreedSet, Zenon DEF Unregister
  <1>2. /\ captured' \in [ConnectionSlots -> Handle \cup {NoHandle}]
        /\ captured'[s] = NoHandle
        /\ \A u \in ConnectionSlots \ {s} : captured'[u] = captured[u]
    BY InvariantParts, Zenon DEF Unregister
  <1>3. SlotsGood(slots', captured', next_slot, opens)
    <2> SUFFICES ASSUME NEW u \in ConnectionSlots
                 PROVE  SlotGood(slots'[u], captured'[u], u, next_slot, opens)
      BY Zenon DEF SlotsGood
    <2>1. SlotGood(slots[u], captured[u], u, next_slot, opens)
      BY InvariantParts, Zenon DEF SlotsGood
    <2> QED
      BY <1>1, <1>2, <2>1, Zenon DEF SlotGood
  <1>4. CASE Holds(s)
    <2>1. Serving(store, slots, s)
      BY <1>4, InTheseTerms, Zenon
    <2> DEFINE interval == store.sessions[IndexOf(slots, s)].expiry_interval
    <2>2. interval \in ExpiryIntervals
      BY <2>1, SlotServes, Zenon
    <2>3. Leave(slots[s].session_handle, interval)
      BY <1>4, Zenon DEF Unregister, SessionOf, IndexOf
    <2>4. pending_qos2' \subseteq Subscribers
      BY <1>4, InvariantParts, Zenon DEF Unregister, WithoutPublishers
    <2> HIDE DEF interval
    <2> QED
      BY <1>1, <1>2, <1>3, <2>1, <2>2, <2>3, <2>4, LeaveKeeps, InvariantParts,
         InvariantNext, Zenon DEF Unregister
  <1>5. CASE ~Holds(s)
    <2>1. ~Serving(store, slots, s)
      BY <1>5, InTheseTerms, Zenon
    <2>2. Linked(store, slots', session_owners)
      BY <1>1, <2>1, InvariantParts, DropLinked, Zenon
    <2>3. pending_qos2' \subseteq Subscribers
      BY <1>5, InvariantParts, Zenon DEF Unregister
    <2> QED
      BY <1>1, <1>2, <1>3, <1>5, <2>2, <2>3, InvariantParts, InvariantNext, Zenon
         DEF Unregister
  <1> QED
    BY <1>4, <1>5, Zenon

\* handleSubscribe reads its handle.
LEMMA SubscribeBeginsKeeps ==
    ASSUME BrokerInvariant, NEW s \in ConnectionSlots, SubscribeBegins(s)
    PROVE  BrokerInvariant'
  <1>1. /\ captured' \in [ConnectionSlots -> Handle \cup {NoHandle}]
        /\ \A u \in ConnectionSlots \ {s} : captured'[u] = captured[u]
    <2>1. slots[s].session_handle \in Handle \cup {NoHandle}
      BY InvariantParts, Zenon DEF Slot
    <2> QED
      BY <2>1, InvariantParts, Zenon DEF SubscribeBegins
  <1>2. SlotsGood(slots, captured', next_slot, opens)
    <2> SUFFICES ASSUME NEW u \in ConnectionSlots
                 PROVE  SlotGood(slots[u], captured'[u], u, next_slot, opens)
      BY Zenon DEF SlotsGood
    <2>1. SlotGood(slots[u], captured[u], u, next_slot, opens)
      BY InvariantParts, Zenon DEF SlotsGood
    <2> QED
      BY <1>1, <2>1, Zenon DEF SlotGood, SubscribeBegins
  <1> QED
    BY <1>1, <1>2, InvariantParts, InvariantNext, Zenon DEF SubscribeBegins

\* A Session's subscriptions and its routes become F.
LEMMA Resubscribes ==
    ASSUME StoreWorks, BrokerInvariant, NEW i \in Occupied(store), NEW F \in SUBSET Filters
    PROVE  LET t == [store EXCEPT !.sessions[i].subscriptions = F]
               rm == [router EXCEPT ![store.sessions[i].route_id] = F]
           IN /\ GoodStore(t)
              /\ Linked(t, slots, session_owners)
              /\ rm \in [RouteIds -> SUBSET Filters]
              /\ Routes(t, rm, opens)
  <1> DEFINE t == [store EXCEPT !.sessions[i].subscriptions = F]
             x == [store.sessions[i] EXCEPT !.subscriptions = F]
             rm == [router EXCEPT ![store.sessions[i].route_id] = F]
  <1>1. Changed(store, t, i, x) /\ t.next_generation = store.next_generation
    BY InvariantParts, Zenon DEF StoreWorks, SubscribePromise
  <1>2. store.sessions[i] \in Session
    BY InvariantParts, SlotRoute, Zenon
  <1>3. /\ x.generation = store.sessions[i].generation
        /\ x.route_id = store.sessions[i].route_id
        /\ x.connected = store.sessions[i].connected
    BY <1>2, Zenon DEF Session
  <1>4. rm \in [RouteIds -> SUBSET Filters]
    BY InvariantParts, Zenon
  <1>5. MaxOpens <= MaxRouteId => Routed(t, rm)
    BY <1>1, InvariantParts, SubscribeRouted, Zenon DEF Routes
  <1> HIDE DEF t, x, rm
  <1>6. GoodStore(t) /\ t.next_route_id = store.next_route_id
    BY <1>1, Zenon DEF Changed
  <1>7. Linked(t, slots, session_owners)
    BY <1>1, <1>3, InvariantParts, ChangeLinked, Zenon
  <1>8. \A j \in Occupied(t) : /\ j \in Occupied(store)
                               /\ t.sessions[j].route_id = store.sessions[j].route_id
    BY <1>1, <1>3, Zenon DEF Changed, Occupied
  <1>9. FreshRoutes(store, opens) => FreshRoutes(t, opens)
    BY <1>6, <1>8, InvariantParts, FreshKept
  <1>10. Routes(t, rm, opens)
    BY <1>5, <1>9, InvariantParts, Zenon DEF Routes
  <1> QED
    BY <1>4, <1>6, <1>7, <1>10, Zenon DEF t, rm

\* handleSubscribe under the lock.
LEMMA SubscribeCommitsKeeps ==
    ASSUME StoreWorks, BrokerInvariant, NEW s \in ConnectionSlots, NEW f \in Filters,
           SubscribeCommits(s, f)
    PROVE  BrokerInvariant'
  <1> DEFINE h == captured[s]
  <1>1. h \in Handle /\ slots[s].phase \in {"attached", "closing"}
    BY InvariantParts, Zenon DEF SubscribeCommits, SlotsGood, SlotGood
  <1>2. /\ captured' \in [ConnectionSlots -> Handle \cup {NoHandle}]
        /\ captured'[s] = NoHandle
        /\ \A u \in ConnectionSlots \ {s} : captured'[u] = captured[u]
    BY InvariantParts, Zenon DEF SubscribeCommits
  <1>3. SlotsGood(slots, captured', next_slot, opens)
    <2> SUFFICES ASSUME NEW u \in ConnectionSlots
                 PROVE  SlotGood(slots[u], captured'[u], u, next_slot, opens)
      BY Zenon DEF SlotsGood
    <2>1. SlotGood(slots[u], captured[u], u, next_slot, opens)
      BY InvariantParts, Zenon DEF SlotsGood
    <2> QED
      BY <1>2, <2>1, Zenon DEF SlotGood
  <1>4. CASE Valid(store, h)
    <2> DEFINE i == h.index
               F == store.sessions[i].subscriptions \cup {f}
               r == store.sessions[i].route_id
    <2>1. i \in Occupied(store)
      BY <1>1, <1>4, Zenon DEF Valid, Occupied, Handle
    <2>2. /\ store.sessions[i] \in Session /\ r \in RouteIds
          /\ F \in SUBSET Filters
      BY <2>1, InvariantParts, SlotRoute, Zenon DEF Session
    <2>3. store' = [store EXCEPT !.sessions[i].subscriptions = F]
      BY <1>4, Zenon DEF SubscribeCommits
    <2>4. ASSUME MaxOpens <= MaxRouteId
          PROVE  router' = [router EXCEPT ![r] = F]
      <3>1. router[r] = store.sessions[i].subscriptions
        BY <2>1, <2>4, InvariantParts, Zenon DEF Routes, Routed
      <3>2. router' = [router EXCEPT ![r] = router[r] \cup {f}]
        BY <1>4, Zenon DEF SubscribeCommits, RouteOf, SessionOf
      <3> QED
        BY <3>1, <3>2, Zenon
    <2>5. router' \in [RouteIds -> SUBSET Filters]
      BY <1>4, InvariantParts DEF SubscribeCommits
    <2> HIDE DEF F, r, i
    <2>6. GoodStore(store') /\ Linked(store', slots, session_owners)
      BY <2>1, <2>2, <2>3, Resubscribes, Zenon
    <2>7. Routes(store', router', opens)
      <3> SUFFICES ASSUME MaxOpens <= MaxRouteId
                   PROVE  Routes(store', router', opens)
        BY Zenon DEF Routes
      <3>1. router' = [router EXCEPT ![store.sessions[i].route_id] = F]
        BY <2>4, Zenon DEF r
      <3> QED
        BY <2>1, <2>2, <2>3, <3>1, Resubscribes, Zenon
    <2> QED
      BY <1>2, <1>3, <1>4, <2>5, <2>6, <2>7, InvariantParts, InvariantNext, Zenon
         DEF SubscribeCommits
  <1>5. CASE ~Valid(store, h)
    <2>1. slots' = [slots EXCEPT ![s].phase = "closing"]
      BY <1>5, Zenon DEF SubscribeCommits
    <2>2. slots' \in [ConnectionSlots -> Slot] /\ Linked(store, slots', session_owners)
      BY <1>1, <2>1, TaskEnds, Zenon
    <2>3. SlotsGood(slots', captured', next_slot, opens)
      BY <1>1, <1>3, <2>1, TaskEnds, Zenon
    <2> QED
      BY <1>2, <1>5, <2>2, <2>3, InvariantParts, InvariantNext, Zenon
         DEF SubscribeCommits
  <1> QED
    BY <1>4, <1>5, Zenon

\* handleUnsubscribe.
LEMMA UnsubscribeKeeps ==
    ASSUME StoreWorks, BrokerInvariant, NEW s \in ConnectionSlots, NEW f \in Filters,
           Unsubscribe(s, f)
    PROVE  BrokerInvariant'
  <1>1. CASE Holds(s)
    <2> DEFINE h == slots[s].session_handle
               i == h.index
               F == store.sessions[i].subscriptions \ {f}
               r == store.sessions[i].route_id
    <2>1. Serving(store, slots, s)
      BY <1>1, InTheseTerms, Zenon
    <2>2. i \in Occupied(store)
      BY <2>1, SlotServes, Zenon
    <2>3. /\ store.sessions[i] \in Session /\ r \in RouteIds
          /\ F \in SUBSET Filters
      BY <2>2, InvariantParts, SlotRoute, Zenon DEF Session
    <2>4. store' = [store EXCEPT !.sessions[i].subscriptions = F]
      BY <1>1, Zenon DEF Unsubscribe
    <2>5. ASSUME MaxOpens <= MaxRouteId
          PROVE  router' = [router EXCEPT ![r] = F]
      <3>1. router[r] = store.sessions[i].subscriptions
        BY <2>2, <2>5, InvariantParts, Zenon DEF Routes, Routed
      <3>2. router' = [router EXCEPT ![r] = router[r] \ {f}]
        BY <1>1, Zenon DEF Unsubscribe, RouteOf, SessionOf
      <3> QED
        BY <3>1, <3>2, Zenon
    <2>6. router' \in [RouteIds -> SUBSET Filters]
      BY <1>1, InvariantParts, Zenon DEF Unsubscribe
    <2> HIDE DEF F, r, i
    <2>7. GoodStore(store') /\ Linked(store', slots, session_owners)
      BY <2>2, <2>3, <2>4, Resubscribes, Zenon
    <2>8. Routes(store', router', opens)
      <3> SUFFICES ASSUME MaxOpens <= MaxRouteId
                   PROVE  Routes(store', router', opens)
        BY Zenon DEF Routes
      <3>1. router' = [router EXCEPT ![store.sessions[i].route_id] = F]
        BY <2>5, Zenon DEF r
      <3> QED
        BY <2>2, <2>3, <2>4, <3>1, Resubscribes, Zenon
    <2> QED
      BY <1>1, <2>6, <2>7, <2>8, InvariantParts, InvariantNext, Zenon DEF Unsubscribe
  <1>2. CASE ~Holds(s)
    <2>1. slots' = [slots EXCEPT ![s].phase = "closing"] /\ slots[s].phase = "attached"
      BY <1>2, Zenon DEF Unsubscribe
    <2>2. slots' \in [ConnectionSlots -> Slot] /\ Linked(store, slots', session_owners)
      BY <2>1, TaskEnds, Zenon
    <2>3. SlotsGood(slots', captured, next_slot, opens)
      BY <2>1, InvariantParts, TaskEnds, Zenon
    <2> QED
      BY <1>2, <2>2, <2>3, InvariantParts, InvariantNext, Zenon DEF Unsubscribe
  <1> QED
    BY <1>1, <1>2, Zenon

\* A publisher is a Session's route or a connection.
LEMMA PublisherTyped ==
    ASSUME BrokerInvariant, NEW s \in ConnectionSlots
    PROVE  Publisher(s) \in Subscribers
  <1>1. CASE Holds(s)
    <2>1. RouteOf(slots[s].session_handle) \in RouteIds
      BY <1>1, InTheseTerms, SlotServes, Zenon
    <2> QED
      BY <1>1, <2>1 DEF Publisher, Subscribers
  <1>2. CASE ~Holds(s)
    <2>1. slots[s].generation \in 0..MaxOpens
      BY InvariantParts, Zenon DEF Slot
    <2> QED
      BY <1>2, <2>1 DEF Publisher, Connection, Subscribers
  <1> QED
    BY <1>1, <1>2, Zenon

\* recordQoS2Publish.
LEMMA RecordQoS2Keeps ==
    ASSUME BrokerInvariant, NEW s \in ConnectionSlots, RecordQoS2(s)
    PROVE  BrokerInvariant'
  <1>1. pending_qos2' \subseteq Subscribers
    BY InvariantParts, PublisherTyped, Zenon DEF RecordQoS2
  <1> QED
    BY <1>1, InvariantParts, InvariantNext, Zenon DEF RecordQoS2

\* handlePubRel.
LEMMA PubRelKeeps ==
    ASSUME BrokerInvariant, NEW s \in ConnectionSlots, PubRel(s)
    PROVE  BrokerInvariant'
  <1>1. pending_qos2' \subseteq Subscribers
    BY InvariantParts, Zenon DEF PubRel
  <1> QED
    BY <1>1, InvariantParts, InvariantNext, Zenon DEF PubRel

-----------------------------------------------------------------------------
(* register.                                                               *)

\* The routes of the client's Session, and those of one with a connection.
PreviousRoutes(st, c) == {st.sessions[i].route_id : i \in {st.client_index[c]} \ {0}}
ReplacedRoutes(st, c) ==
    {r \in PreviousRoutes(st, c) : st.sessions[st.client_index[c]].connected}

\* The owner that register looks up, and the routes it takes out.
LEMMA RegisterOwner ==
    ASSUME NEW st, NEW ow, NEW c
    PROVE  /\ (IF ReplacedRoutes(st, c) = {} THEN NoOwner
               ELSE ow[CHOOSE r \in ReplacedRoutes(st, c) : TRUE]) = OwnerOf(st, ow, c)
           /\ \A r : r \in PreviousRoutes(st, c) <=>
                       /\ st.client_index[c] # 0
                       /\ r = st.sessions[st.client_index[c]].route_id
  <1> DEFINE old == st.client_index[c]
             replaced == ReplacedRoutes(st, c)
  <1>1. \A r : r \in PreviousRoutes(st, c) <=> old # 0 /\ r = st.sessions[old].route_id
    BY Zenon DEF PreviousRoutes
  <1>2. CASE old # 0 /\ st.sessions[old].connected
    <2>1. replaced = {st.sessions[old].route_id}
      BY <1>1, <1>2 DEF ReplacedRoutes
    <2>2. (CHOOSE r \in replaced : TRUE) = st.sessions[old].route_id
      BY <2>1, Zenon
    <2>3. replaced # {}
      BY <2>1, Zenon
    <2>4. OwnerOf(st, ow, c) = ow[st.sessions[old].route_id]
      BY <1>2, Zenon DEF OwnerOf
    <2> QED
      BY <1>1, <2>2, <2>3, <2>4, Zenon
  <1>3. CASE ~(old # 0 /\ st.sessions[old].connected)
    <2>1. replaced = {}
      BY <1>1, <1>3, Zenon DEF ReplacedRoutes
    <2> QED
      BY <1>1, <1>3, <2>1, Zenon DEF OwnerOf
  <1> QED
    BY <1>2, <1>3, Zenon

\* register.
LEMMA RegisterKeeps ==
    ASSUME StoreWorks, BrokerInvariant, NEW s \in ConnectionSlots, NEW c \in Clients,
           NEW clean_start \in BOOLEAN, NEW interval \in ExpiryIntervals,
           Register(s, c, clean_start, interval)
    PROVE  BrokerInvariant'
  <1> DEFINE before == Pruned(store, now)
             old == before.client_index[c]
             previous == PreviousRoutes(before, c)
             owner == OwnerOf(before, session_owners, c)
             handle == HandleFor(store', c)
             route == SessionOf(store', handle).route_id
             stale == StaleRoutes(previous, route)
             me == <<"connection", s, slots[s].generation + 1>>
             present == SessionPresent(before, c, clean_start, now)
             x == [phase |-> "accepting", generation |-> Detached(owner)[s].generation + 1,
                   session_handle |-> handle, session_present |-> present]
  <1>1. /\ GoodStore(before) /\ Linked(before, slots, session_owners)
        /\ PrunedRouter \in [RouteIds -> SUBSET Filters]
        /\ PrunedPending \subseteq pending_qos2
        /\ Routes(before, PrunedRouter, opens)
    BY SweepDone, InvariantParts
  <1>2. /\ opens' = opens + 1 /\ opens < MaxOpens
        /\ s = next_slot /\ next_slot' = s + 1
        /\ \A u \in ConnectionSlots : slots[u].phase # "accepting"
        /\ UNCHANGED <<captured, now, restarts>>
    BY Zenon DEF Register, Accepting
  <1>3. /\ store' = Opened(before, c, clean_start, interval, now)
        /\ CanOpen(before, c, clean_start, now)
    BY Zenon DEF Register
  <1>4. /\ (IF ReplacedRoutes(before, c) = {} THEN NoOwner
            ELSE session_owners[CHOOSE r \in ReplacedRoutes(before, c) : TRUE]) = owner
        /\ \A r : r \in previous <=> old # 0 /\ r = before.sessions[old].route_id
    BY RegisterOwner, Zenon
  <1>5. slots' = [Detached(owner) EXCEPT ![s] = x]
    <2> HIDE DEF owner
    <2> QED
      BY <1>4, Zenon DEF Register, PreviousRoutes, ReplacedRoutes
  <1>6. /\ session_owners' = [r \in RouteIds |->
             IF r = route THEN me ELSE IF r \in previous THEN NoOwner
                                       ELSE session_owners[r]]
        /\ router' = [r \in RouteIds |->
             IF r = route
             THEN (IF r \in stale THEN {} ELSE PrunedRouter[r])
                    \cup SessionOf(store', handle).subscriptions
             ELSE IF r \in stale THEN {} ELSE PrunedRouter[r]]
        /\ pending_qos2' = PrunedPending \ {SessionSubscriber(r) : r \in stale}
    BY Zenon DEF Register, PreviousRoutes
  <1>7. present \in BOOLEAN
    BY Zenon DEF SessionPresent
  <1>8. \A r : r \in stale <=> r \in previous /\ r # route
    BY Zenon DEF StaleRoutes
  <1> HIDE DEF before
  <1>9. PICK i : Opens(before, store', c, i)
    BY <1>1, <1>3, Zenon DEF StoreWorks, OpenPromise
  <1>10. /\ i \in SessionSlots /\ store'.sessions[i] \in Session
         /\ handle = [index |-> i, generation |-> before.next_generation]
         /\ SessionOf(store', handle) = store'.sessions[i]
         /\ route = store'.sessions[i].route_id
    BY <1>9, Zenon DEF Opens, HandleFor, SessionOf
  <1>11. handle \in Handle /\ handle # NoHandle
    <2>1. before.next_generation \in Nat \ {0}
      BY <1>1, Zenon DEF GoodStore, Store
    <2>2. handle \in Handle
      BY <1>10, <2>1 DEF Handle
    <2> QED
      BY <2>2, BrokerAssumption, Zenon
  <1>12. /\ slots[s] \in Slot /\ slots[s].generation \in 0..MaxOpens
         /\ slots[s].generation <= opens /\ slots[s].phase = "free"
         /\ captured[s] = NoHandle
    <2>1. SlotGood(slots[s], captured[s], s, next_slot, opens)
      BY InvariantParts, Zenon DEF SlotsGood
    <2>2. s >= next_slot
      BY <1>2, InvariantParts
    <2> QED
      BY <2>1, <2>2, InvariantParts, Zenon DEF SlotGood, Slot
  <1>13. opens' \in 0..MaxOpens /\ slots[s].generation + 1 \in 0..MaxOpens
         /\ slots[s].generation + 1 <= opens'
    BY <1>2, <1>12, InvariantParts
  <1> HIDE DEF owner, handle, route, stale, previous, present
  <1>14. ASSUME NEW u \in ConnectionSlots
         PROVE  /\ Detached(owner)[u] = IF Displaced(before, slots, session_owners, c, u)
                                        THEN [slots[u] EXCEPT !.session_handle = NoHandle]
                                        ELSE slots[u]
                /\ Detached(owner)[u] \in Slot
                /\ Detached(owner)[u].phase = slots[u].phase
                /\ Detached(owner)[u].generation = slots[u].generation
    <2>1. Detached(owner)[u] = IF Displaced(before, slots, session_owners, c, u)
                               THEN [slots[u] EXCEPT !.session_handle = NoHandle]
                               ELSE slots[u]
      BY Zenon DEF Detached, Displaced, Active, Connection, Id, owner
    <2>2. slots[u] \in Slot
      BY InvariantParts, Zenon
    <2>3. LET y == [slots[u] EXCEPT !.session_handle = NoHandle] IN
          y \in Slot /\ y.phase = slots[u].phase /\ y.generation = slots[u].generation
      BY <2>2, Zenon DEF Slot
    <2> QED
      BY <2>1, <2>2, <2>3, Zenon
  <1>15. /\ x \in Slot /\ x.phase = "accepting" /\ x.session_handle = handle
         /\ x.generation = slots[s].generation + 1
    BY <1>7, <1>11, <1>13, <1>14, Zenon DEF Slot
  <1> HIDE DEF x
  <1>16. /\ slots' \in [ConnectionSlots -> Slot] /\ slots'[s] = x
         /\ \A u \in ConnectionSlots \ {s} : slots'[u] = Detached(owner)[u]
    <2>1. Detached(owner) \in [ConnectionSlots -> Slot]
      <3>1. Detached(owner) = [u \in ConnectionSlots |-> Detached(owner)[u]]
        BY Zenon DEF Detached
      <3> QED
        BY <1>14, <3>1, Zenon
    <2> QED
      BY <1>5, <1>15, <2>1, SlotSet, Zenon
  <1>17. Id(slots', s) = me
    BY <1>15, <1>16, Zenon DEF Id
  <1>18. Registers(before, store', slots, slots', session_owners, session_owners', c, i, s)
    <2>1. \A u \in ConnectionSlots \ {s} :
            slots'[u] = IF Displaced(before, slots, session_owners, c, u)
                        THEN [slots[u] EXCEPT !.session_handle = NoHandle] ELSE slots[u]
      BY <1>14, <1>16, Zenon
    <2>2. \A r \in RouteIds :
            session_owners'[r] =
              IF r = store'.sessions[i].route_id THEN Id(slots', s)
              ELSE IF old # 0 /\ r = before.sessions[old].route_id
                   THEN NoOwner ELSE session_owners[r]
      BY <1>4, <1>6, <1>10, <1>17, Zenon
    <2>3. /\ slots'[s].phase = "accepting"
          /\ slots'[s].session_handle = [index |-> i, generation |-> before.next_generation]
      BY <1>10, <1>15, <1>16, Zenon
    <2> QED
      BY <2>1, <2>2, <2>3, Zenon DEF Registers
  <1>19. Linked(store', slots', session_owners')
    BY <1>1, <1>9, <1>12, <1>16, <1>18, InvariantParts, RegisterLinked, Zenon
  <1>20. GoodStore(store')
    BY <1>9, Zenon DEF Opens
  <1>21. Routes(store', router', opens')
    <2> SUFFICES ASSUME MaxOpens <= MaxRouteId
                 PROVE  Routed(store', router') /\ FreshRoutes(store', opens')
      BY Zenon DEF Routes
    <2>1. Routed(before, PrunedRouter) /\ FreshRoutes(before, opens)
      BY <1>1, Zenon DEF Routes
    <2>2. RoutesBehind(before)
      BY <1>2, <2>1, Zenon DEF FreshRoutes
    <2>3. \A r \in RouteIds : r \in stale <=> /\ old # 0
                                              /\ r = before.sessions[old].route_id
                                              /\ r # store'.sessions[i].route_id
      BY <1>4, <1>8, <1>10, Zenon
    <2>4. \A r \in RouteIds :
            router'[r] = IF r = store'.sessions[i].route_id
                         THEN (IF r \in stale THEN {} ELSE PrunedRouter[r])
                                \cup store'.sessions[i].subscriptions
                         ELSE IF r \in stale THEN {} ELSE PrunedRouter[r]
      BY <1>6, <1>10, Zenon
    <2>5. Reroutes(before, store', PrunedRouter, router', stale, c, i)
      BY <2>3, <2>4, Zenon DEF Reroutes
    <2>6. Routed(store', router')
      BY <1>1, <1>9, <2>1, <2>2, <2>5, RegisterRouted, Zenon
    <2>7. FreshRoutes(store', opens')
      <3>1. FreshRoutes(store', opens + 1)
        BY <1>1, <1>2, <1>9, <2>1, InvariantParts, OpenFresh, Zenon
      <3> QED
        BY <1>2, <3>1, Zenon
    <2> QED
      BY <2>6, <2>7, Zenon
  <1>22. session_owners' \in [RouteIds -> Subscribers \cup {NoOwner}]
    <2>1. me \in Subscribers
      BY <1>13 DEF Subscribers
    <2> HIDE DEF me
    <2> QED
      BY <1>6, <2>1, InvariantParts, Zenon
  <1>23. router' \in [RouteIds -> SUBSET Filters]
    <2>1. store'.sessions[i].subscriptions \in SUBSET Filters
      BY <1>10, Zenon DEF Session
    <2> QED
      BY <1>1, <1>6, <1>10, <2>1, Zenon
  <1>24. pending_qos2' \subseteq Subscribers
    BY <1>1, <1>6, InvariantParts, Zenon
  <1>25. next_slot' \in 1..(MaxConnections + 1)
    BY <1>2, InvariantParts DEF ConnectionSlots
  <1>26. SlotsGood(slots', captured, next_slot', opens')
    <2> SUFFICES ASSUME NEW u \in ConnectionSlots
                 PROVE  SlotGood(slots'[u], captured[u], u, next_slot', opens')
      BY Zenon DEF SlotsGood
    <2>1. CASE u = s
      <3>1. ~(s >= next_slot')
        BY <1>2 DEF ConnectionSlots
      <3> QED
        BY <1>11, <1>12, <1>13, <1>15, <1>16, <2>1, <3>1, Zenon DEF SlotGood
    <2>2. CASE u # s
      <3>1. SlotGood(slots[u], captured[u], u, next_slot, opens)
        BY InvariantParts, Zenon DEF SlotsGood
      <3>2. /\ slots'[u].phase = slots[u].phase
            /\ slots'[u].generation = slots[u].generation
        BY <1>14, <1>16, <2>2, Zenon
      <3>3. slots[u].generation \in Nat
        BY InvariantParts DEF Slot
      <3>4. u >= next_slot' => u >= next_slot
        BY <1>2, InvariantParts DEF ConnectionSlots
      <3>5. slots'[u].generation <= opens'
        BY <1>2, <3>1, <3>2, <3>3, InvariantParts DEF SlotGood
      <3> QED
        BY <1>2, <3>1, <3>2, <3>4, <3>5, Zenon DEF SlotGood
    <2> QED
      BY <2>1, <2>2, Zenon
  <1> QED
    BY <1>2, <1>13, <1>16, <1>19, <1>20, <1>21, <1>22, <1>23, <1>24, <1>25, <1>26,
       InvariantParts, InvariantNext, Zenon

-----------------------------------------------------------------------------
(* The invariant is inductive.                                             *)

\* The broker starts without Sessions and connections.
LEMMA InvariantInit ==
    ASSUME StoreWorks
    PROVE  BrokerInit => BrokerInvariant
  <1> SUFFICES ASSUME BrokerInit
               PROVE  BrokerInvariant
    BY Zenon
  <1>1. GoodStore(store) /\ Occupied(store) = {} /\ store \in Store
    BY Zenon DEF BrokerInit, GoodStore, StoreWorks, EmptyPromise
  <1>2. \A s \in ConnectionSlots :
          /\ slots[s] = [phase |-> "free", generation |-> 0,
                         session_handle |-> NoHandle, session_present |-> FALSE]
          /\ captured[s] = NoHandle
    BY Zenon DEF BrokerInit
  <1>3. Linked(store, slots, session_owners)
    BY <1>1, <1>2, IdleLinked, Zenon DEF BrokerInit
  <1>4. SlotsGood(slots, captured, next_slot, opens)
    BY <1>2 DEF SlotsGood, SlotGood, BrokerInit
  <1>5. Routed(store, router)
    BY <1>1, Zenon DEF Routed, BrokerInit
  <1>6. FreshRoutes(store, opens)
    BY <1>1 DEF FreshRoutes, RoutesBehind, BrokerInit, StoreWorks, EmptyPromise
  <1>7. BrokerTypeOK
    <2>1. slots \in [ConnectionSlots -> Slot]
      BY BrokerAssumption DEF BrokerInit, Slot
    <2>2. /\ session_owners \in [RouteIds -> Subscribers \cup {NoOwner}]
          /\ router \in [RouteIds -> SUBSET Filters]
          /\ pending_qos2 \subseteq Subscribers
          /\ captured \in [ConnectionSlots -> Handle \cup {NoHandle}]
      BY Zenon DEF BrokerInit
    <2>3. /\ next_slot \in 1..(MaxConnections + 1) /\ now \in 0..MaxTime
          /\ opens \in 0..MaxOpens /\ restarts \in 0..MaxRestarts
      BY BrokerAssumption DEF BrokerInit
    <2> QED
      BY <1>1, <2>1, <2>2, <2>3, Zenon DEF BrokerTypeOK
  <1> QED
    BY <1>1, <1>3, <1>4, <1>5, <1>6, <1>7, Zenon DEF BrokerInvariant, Routes

\* Every step keeps the invariant.
LEMMA InvariantKept ==
    ASSUME StoreWorks
    PROVE  BrokerInvariant /\ [BrokerNext]_vars => BrokerInvariant'
  <1> SUFFICES ASSUME BrokerInvariant, [BrokerNext]_vars
               PROVE  BrokerInvariant'
    BY Zenon
  <1>1. CASE UNCHANGED vars
    BY <1>1, InvariantParts, InvariantNext, Zenon DEF vars, brokerVars
  <1>2. CASE Tick \/ Serve \/ Sweep
    BY <1>2, TickKeeps, ServeKeeps, SweepKeeps, Zenon
  <1>3. ASSUME NEW downtime \in Downtimes, Restart(downtime)
        PROVE  BrokerInvariant'
    BY <1>3, RestartKeeps, Zenon
  <1>4. ASSUME NEW s \in ConnectionSlots, NEW c \in Clients, NEW clean_start \in BOOLEAN,
               \/ RegisterRefused(s, c, clean_start)
               \/ \E interval \in ExpiryIntervals : Register(s, c, clean_start, interval)
        PROVE  BrokerInvariant'
    BY <1>4, RegisterRefusedKeeps, RegisterKeeps, Zenon
  <1>5. ASSUME NEW s \in ConnectionSlots,
               \/ Attach(s) \/ Abort(s) \/ DisconnectInvalid(s) \/ Unregister(s)
               \/ \E interval \in ExpiryIntervals : Disconnect(s, interval)
        PROVE  BrokerInvariant'
    BY <1>5, AttachKeeps, AbortKeeps, DisconnectInvalidKeeps, UnregisterKeeps,
       DisconnectKeeps, Zenon
  <1>6. ASSUME NEW s \in ConnectionSlots,
               \/ SubscribeBegins(s) \/ RecordQoS2(s) \/ PubRel(s)
               \/ \E f \in Filters : SubscribeCommits(s, f) \/ Unsubscribe(s, f)
        PROVE  BrokerInvariant'
    BY <1>6, SubscribeBeginsKeeps, RecordQoS2Keeps, PubRelKeeps, SubscribeCommitsKeeps,
       UnsubscribeKeeps, Zenon
  <1> QED
    BY <1>1, <1>2, <1>3, <1>4, <1>5, <1>6, Zenon DEF BrokerNext

-----------------------------------------------------------------------------
(* What the runs check follows from the invariant.                         *)

\* The table of the broker is consistent.
LEMMA TableFollows ==
    BrokerInvariant => StoreConsistent
  BY Zenon DEF BrokerInvariant, GoodStore, StoreConsistent

\* Connections, handles and owners correspond.
LEMMA OwnersFollow ==
    BrokerInvariant => OwnershipExact
  <1> SUFFICES ASSUME BrokerInvariant
               PROVE  OwnershipExact
    BY Zenon
  <1>1. ASSUME NEW s \in ConnectionSlots, slots[s].session_handle # NoHandle,
               slots[s].phase # "closing"
        PROVE  /\ Active(s)
               /\ Holds(s)
               /\ session_owners[RouteOf(slots[s].session_handle)] = Connection(s)
    <2>1. /\ slots[s].phase # "free" /\ Serving(store, slots, s)
          /\ session_owners[RouteIn(store, slots, s)] = Id(slots, s)
      BY <1>1, InvariantParts, Zenon DEF Linked, HandlesOld, Served
    <2> QED
      BY <2>1, InTheseTerms, Zenon
  <1>2. \A s, t \in ConnectionSlots :
          slots[s].session_handle = slots[t].session_handle
            => s = t \/ slots[s].session_handle = NoHandle
    BY InvariantParts, Zenon DEF Linked, OneEach
  <1>3. ASSUME NEW r \in RouteIds, session_owners[r] # NoOwner
        PROVE  \E s \in ConnectionSlots : /\ Active(s)
                                          /\ session_owners[r] = Connection(s)
                                          /\ Holds(s)
                                          /\ RouteOf(slots[s].session_handle) = r
    <2>1. PICK s \in ConnectionSlots : /\ slots[s].phase # "free"
                                       /\ session_owners[r] = Id(slots, s)
                                       /\ Serving(store, slots, s)
                                       /\ RouteIn(store, slots, s) = r
      BY <1>3, InvariantParts, Zenon DEF Linked, Owners
    <2> QED
      BY <2>1, InTheseTerms, Zenon
  <1>4. ConnectedHasOwner
    BY InvariantParts, Zenon DEF ConnectedHasOwner, Linked, Connected, Serving, IndexOf
  <1> QED
    BY <1>1, <1>2, <1>3, <1>4, Zenon DEF OwnershipExact, SoleOwner

\* The router has what the Sessions have.
LEMMA RoutesFollow ==
    ASSUME MaxOpens <= MaxRouteId
    PROVE  BrokerInvariant => RouterFollowsSessions
  <1> SUFFICES ASSUME BrokerInvariant
               PROVE  RouterFollowsSessions
    BY Zenon
  <1>1. GoodStore(store) /\ Routed(store, router)
    BY InvariantParts, Zenon DEF Routes
  <1> QED
    BY <1>1, RoutedMatches, Zenon DEF RouterFollowsSessions

-----------------------------------------------------------------------------
(* The broker on its Session table.                                        *)

\* The operations of the Session table keep what they promise their callers
\* (mod.zig, Store: open, disconnect, discard, pruneExpiredInto, subscribe,
\* unsubscribe, restoreSession).
THEOREM StoreKeepsPromises == StoreWorks
  <1>1. EmptyPromise
    BY EmptyGood DEF EmptyPromise
  <1>2. SweepPromise
    BY PrunedGood DEF SweepPromise
  <1>3. OpenPromise
    BY OpenedGood DEF OpenPromise
  <1>4. SubscribePromise
    BY ResubscribedGood DEF SubscribePromise
  <1>5. DiscardPromise
    BY RemovedLeft, Zenon DEF DiscardPromise
  <1>6. DisconnectPromise
    BY DisconnectedLeft DEF DisconnectPromise
  <1>7. RestorePromise
    BY RestoredGood DEF RestorePromise
  <1> QED
    BY <1>1, <1>2, <1>3, <1>4, <1>5, <1>6, <1>7 DEF StoreWorks

\* In every behaviour of the broker the invariant holds.
THEOREM BrokerInvariantHolds ==
    BrokerSpec => []BrokerInvariant
  <1>1. BrokerInit => BrokerInvariant
    BY StoreKeepsPromises, InvariantInit
  <1>2. BrokerInvariant /\ [BrokerNext]_vars => BrokerInvariant'
    BY StoreKeepsPromises, InvariantKept
  <1> QED
    BY <1>1, <1>2, PTL DEF BrokerSpec

\* The Session table is consistent in every state, for any number of clients,
\* Sessions, connections and restarts: both indexes and the counter describe
\* the occupied slots, and next_expiry_ns is no later than any deadline, so that
\* dueExpiryCount may trust it (mod.zig, Store; broker.zig, its callers).
THEOREM StoreCorrect ==
    BrokerSpec => []StoreConsistent
  BY TableFollows, BrokerInvariantHolds, PTL

\* A Session is online through exactly one connection, whatever takeovers,
\* failed accepts, refused DISCONNECTs, expiry and restarts happen: a slot at
\* work has a valid handle that no other slot has, session_owners names it, and
\* every connected Session has such a slot (register,
\* detachReplacedSessionOwnerLocked, abortRegistration, unregister).
THEOREM OwnershipCorrect ==
    BrokerSpec => []OwnershipExact
  BY OwnersFollow, BrokerInvariantHolds, PTL

\* The router has the subscriptions of the Sessions that exist and no others,
\* as long as the route identities are not used up.  Once nextRouteId starts
\* again at 1, a Session that Clean Start destroys may be followed by one with
\* the same route, and register removes no routes then
\* (previous_route_id == opened_session.route_id).
THEOREM RouterCorrect ==
    ASSUME MaxOpens <= MaxRouteId
    PROVE  BrokerSpec => []RouterFollowsSessions
  BY RoutesFollow, BrokerInvariantHolds, PTL

=============================================================================

------------------------- MODULE SessionStoreProofs -------------------------
(***************************************************************************)
(* What the operations of SessionStore do to a consistent table.  A table  *)
(* is consistent (GoodStore) when both indexes, the counter and the bound  *)
(* on the deadlines are exact and no Session has a generation still to     *)
(* come.  Each lemma says that an operation keeps it so, and what it       *)
(* changes, in a form (Without, Changed, Left, Opens, RestoredFrom) that   *)
(* speaks of slots only.                                                   *)
(*                                                                         *)
(* restoreSnapshot builds its store slot by slot.  RestoredGood is proved  *)
(* by looking at the first slot at which the store would not be            *)
(* consistent.                                                             *)
(***************************************************************************)
EXTENDS SessionStore, FiniteSetTheorems, TLAPS

-----------------------------------------------------------------------------
(* Numbers and finite sets.                                                *)

\* A set of naturals that is not empty has a least element.
LEMMA LeastOfSet ==
    ASSUME NEW S \in SUBSET Nat, S # {}
    PROVE  LeastOf(S) \in S /\ \A n \in S : LeastOf(S) <= n
  <1>1. PICK i \in S : \A j \in S : ~(<<j, i>> \in OpToRel(<, Nat))
    BY WFMin, NatLessThanWellFounded, Zenon
  <1>2. \A j \in S : i <= j
    <2> TAKE j \in S
    <2>1. ~(j < i)
      BY <1>1, Zenon DEF OpToRel
    <2> QED
      BY <2>1
  <1> QED
    BY <1>2, Zenon DEF LeastOf

\* A set of slots is finite, and the whole table if it has MaxSessions members.
LEMMA SlotsFinite ==
    ASSUME NEW S \in SUBSET SessionSlots
    PROVE  /\ IsFiniteSet(S)
           /\ Cardinality(S) \in 0..MaxSessions
           /\ Cardinality(S) = MaxSessions => S = SessionSlots
  <1>1. IsFiniteSet(SessionSlots) /\ Cardinality(SessionSlots) = MaxSessions
    BY FS_Interval, StoreAssumption DEF SessionSlots
  <1>2. IsFiniteSet(S) /\ Cardinality(S) <= Cardinality(SessionSlots)
        /\ (Cardinality(SessionSlots) = Cardinality(S) => SessionSlots = S)
    BY <1>1, FS_Subset, Zenon
  <1>3. Cardinality(S) \in Nat
    BY <1>2, FS_CardinalityType, Zenon
  <1> QED
    BY <1>1, <1>2, <1>3, StoreAssumption

\* Distances on the circle of the route identities.
LEMMA Distance ==
    ASSUME NEW M \in Nat \ {0}, NEW a \in 1..M, NEW b \in 1..M
    PROVE  /\ (a - b) % M \in Nat
           /\ (a - b) % M = 0 => a = b
           /\ (b - b) % M = 0
           /\ a < M => a % M = a
           /\ a % M \in 0..(M - 1)
  <1>1. (a - b) % M \in 0..(M - 1) /\ a % M \in 0..(M - 1)
    OBVIOUS
  <1>2. (b - b) % M = 0
    OBVIOUS
  <1>3. a < M => a % M = a
    OBVIOUS
  <1>4. ASSUME a > b PROVE (a - b) % M = a - b
    BY <1>4
  <1>5. ASSUME a < b PROVE (a - b) % M = a - b + M
    BY <1>5
  <1> QED
    BY <1>1, <1>2, <1>3, <1>4, <1>5

-----------------------------------------------------------------------------
(* The Session table.                                                      *)

\* removeAt keeps both indexes and the count exact.
LEMMA RemoveAtGood ==
    ASSUME NEW st, GoodStore(st), NEW S \in SUBSET Occupied(st)
    PROVE  /\ Without(st, RemoveAt(st, S), S)
           /\ \A c \in Clients :
                RemoveAt(st, S).client_index[c] =
                    IF st.client_index[c] \in S THEN 0 ELSE st.client_index[c]
           /\ RemoveAt(st, S).next_expiry = st.next_expiry
  <1> DEFINE a == [i \in SessionSlots |-> IF i \in S THEN NoSession ELSE st.sessions[i]]
             b == [c \in Clients |-> IF st.client_index[c] \in S THEN 0
                                     ELSE st.client_index[c]]
             d == [r \in RouteIds |-> IF st.route_index[r] \in S THEN 0
                                      ELSE st.route_index[r]]
             n == st.session_count - Cardinality(S)
             t == RemoveAt(st, S)
  <1>1. st \in Store /\ S \subseteq SessionSlots /\ 0 \notin SessionSlots
    BY DEF GoodStore, Occupied, SessionSlots
  <1>2. t = [st EXCEPT !.sessions = a, !.client_index = b, !.route_index = d,
                       !.session_count = n]
    BY Zenon DEF RemoveAt
  <1>3. /\ a \in [SessionSlots -> Session \cup {NoSession}]
        /\ b \in [Clients -> SessionSlots \cup {0}]
        /\ d \in [RouteIds -> SessionSlots \cup {0}]
    BY <1>1, Zenon DEF Store
  <1>4. /\ \A i \in SessionSlots : a[i] = IF i \in S THEN NoSession ELSE st.sessions[i]
        /\ \A c \in Clients : b[c] = IF st.client_index[c] \in S THEN 0
                                      ELSE st.client_index[c]
        /\ \A r \in RouteIds : d[r] = IF st.route_index[r] \in S THEN 0
                                       ELSE st.route_index[r]
    BY Zenon
  <1> HIDE DEF a, b, d, t
  <1>5. /\ t.sessions = a /\ t.client_index = b /\ t.route_index = d
        /\ t.session_count = n
        /\ t.next_generation = st.next_generation
        /\ t.next_route_id = st.next_route_id
        /\ t.next_expiry = st.next_expiry
    BY <1>1, <1>2, Zenon DEF Store
  <1>6. Occupied(t) = Occupied(st) \ S
    BY <1>1, <1>4, <1>5, Zenon DEF Occupied
  <1>7. n = Cardinality(Occupied(t)) /\ n \in 0..MaxSessions
    <2>1. /\ IsFiniteSet(Occupied(st)) /\ Occupied(st) \cap S = S
          /\ Cardinality(Occupied(t)) \in 0..MaxSessions
      BY <1>6, SlotsFinite, Zenon DEF Occupied
    <2>2. Cardinality(Occupied(st) \ S)
             = Cardinality(Occupied(st)) - Cardinality(S)
      BY <2>1, FS_Difference, Zenon
    <2> QED
      BY <1>6, <2>1, <2>2 DEF GoodStore, IndexesExact
  <1> HIDE DEF n
  <1>8. t \in Store
    BY <1>1, <1>2, <1>3, <1>7, Zenon DEF Store
  <1>9. IndexesExact(t)
    BY <1>1, <1>4, <1>5, <1>7 DEF IndexesExact, GoodStore
  <1>10. ExpiryBound(t) /\ GenerationsOld(t)
    BY <1>1, <1>4, <1>5, <1>6, Zenon DEF ExpiryBound, GenerationsOld, GoodStore, Occupied
  <1> QED
    BY <1>4, <1>5, <1>8, <1>9, <1>10, Zenon DEF Without, GoodStore, t

\* The sweep removes offline Sessions, and its new bound misses none.
LEMMA PrunedGood ==
    ASSUME NEW st, GoodStore(st), NEW time
    PROVE  /\ Without(st, Pruned(st, time), Gone(st, time))
           /\ Gone(st, time) \subseteq Occupied(st)
           /\ \A i \in Gone(st, time) : ~st.sessions[i].connected
           /\ PrunedRoutes(st, time) = {st.sessions[i].route_id : i \in Gone(st, time)}
  <1>1. CASE ~SweepDue(st, time)
    BY <1>1, Zenon DEF Pruned, Gone, PrunedRoutes, Without
  <1>2. CASE SweepDue(st, time)
    <2> DEFINE S == Due(st, time)
               kept == RemoveAt(st, S)
               e == EarliestDeadline(kept)
               t == Pruned(st, time)
               deadlines == {kept.sessions[i].expires_at :
                               i \in {j \in Occupied(kept) : ~kept.sessions[j].connected}}
    <2>1. /\ S \in SUBSET Occupied(st)
          /\ \A i \in S : ~st.sessions[i].connected
          /\ Gone(st, time) = S
          /\ PrunedRoutes(st, time) = {st.sessions[i].route_id : i \in S}
          /\ t = [kept EXCEPT !.next_expiry = e]
      BY <1>2, Zenon DEF Due, IsExpired, Gone, PrunedRoutes, Pruned
    <2>2. Without(st, kept, S)
      BY <2>1, RemoveAtGood, Zenon
    <2>3. GoodStore(kept)
      BY <2>2, Zenon DEF Without
    <2>4. kept \in Store
      BY <2>3, Zenon DEF GoodStore
    <2> HIDE DEF S, kept, t
    <2>5. e \in {Never} \cup deadlines /\ \A n \in {Never} \cup deadlines : e <= n
      <3>1. \A i \in Occupied(kept) : kept.sessions[i] \in Session
        BY <2>4, Zenon DEF Store, Occupied
      <3>2. {Never} \cup deadlines \in SUBSET Nat
        BY <3>1, StoreAssumption, Zenon DEF Session
      <3> HIDE DEF deadlines
      <3>3. LeastOf({Never} \cup deadlines) \in {Never} \cup deadlines
            /\ \A n \in {Never} \cup deadlines : LeastOf({Never} \cup deadlines) <= n
        BY <3>2, LeastOfSet, Zenon
      <3> QED
        BY <3>3, Zenon DEF EarliestDeadline, deadlines
    <2>6. e \in Nat
      <3>1. \A i \in Occupied(kept) : kept.sessions[i] \in Session
        BY <2>4, Zenon DEF Store, Occupied
      <3> QED
        BY <2>5, <3>1, StoreAssumption, Zenon DEF Session
    <2>7. \A i \in Occupied(kept) : ~kept.sessions[i].connected
                                       => e <= kept.sessions[i].expires_at
      BY <2>5, Zenon
    <2> HIDE DEF e
    <2>8. /\ t.sessions = kept.sessions /\ t.client_index = kept.client_index
          /\ t.route_index = kept.route_index
          /\ t.session_count = kept.session_count
          /\ t.next_generation = kept.next_generation
          /\ t.next_route_id = kept.next_route_id
          /\ t.next_expiry = e
          /\ t \in Store
      BY <2>1, <2>4, <2>6, Zenon DEF Store
    <2>9. Occupied(t) = Occupied(kept)
      BY <2>8, Zenon DEF Occupied
    <2>10. IndexesExact(t) /\ ExpiryBound(t) /\ GenerationsOld(t)
      BY <2>3, <2>7, <2>8, <2>9 DEF GoodStore, IndexesExact, ExpiryBound, GenerationsOld
    <2>11. Without(st, t, S)
      BY <2>2, <2>8, <2>10, Zenon DEF Without, GoodStore
    <2> QED
      BY <2>1, <2>11, Zenon DEF t
  <1> QED
    BY <1>1, <1>2, Zenon

Changes(st, t, i, x, g, e) ==
    /\ i \in Occupied(st) /\ x \in Session
    /\ x.client_id = st.sessions[i].client_id
    /\ x.route_id = st.sessions[i].route_id
    /\ g \in Nat \ {0} /\ g >= st.next_generation /\ x.generation < g
    /\ e \in Nat /\ e <= st.next_expiry /\ (~x.connected => e <= x.expires_at)
    /\ t = [st EXCEPT !.sessions = [st.sessions EXCEPT ![i] = x],
                      !.next_generation = g, !.next_expiry = e]

\* Such a change keeps the table consistent.
LEMMA ChangeGood ==
    ASSUME NEW st, GoodStore(st), NEW t, NEW i, NEW x, NEW g, NEW e,
           Changes(st, t, i, x, g, e)
    PROVE  Changed(st, t, i, x) /\ t.next_generation = g
  <1>0. /\ i \in Occupied(st) /\ x \in Session
        /\ x.client_id = st.sessions[i].client_id
        /\ x.route_id = st.sessions[i].route_id
        /\ g \in Nat \ {0} /\ g >= st.next_generation /\ x.generation < g
        /\ e \in Nat /\ e <= st.next_expiry /\ (~x.connected => e <= x.expires_at)
        /\ t = [st EXCEPT !.sessions = [st.sessions EXCEPT ![i] = x],
                          !.next_generation = g, !.next_expiry = e]
    BY Zenon DEF Changes
  <1> DEFINE a == [st.sessions EXCEPT ![i] = x]
  <1>1. /\ st \in Store /\ i \in SessionSlots /\ x # NoSession
        /\ st.sessions \in [SessionSlots -> Session \cup {NoSession}]
        /\ st.sessions[i] # NoSession
    BY <1>0, NoSessionAssumption, Zenon DEF GoodStore, Occupied, Store
  <1>2. /\ a \in [SessionSlots -> Session \cup {NoSession}]
        /\ a[i] = x
        /\ \A j \in SessionSlots \ {i} : a[j] = st.sessions[j]
    BY <1>0, <1>1, Zenon
  <1> HIDE DEF a
  <1>3. t = [st EXCEPT !.sessions = a, !.next_generation = g, !.next_expiry = e]
    BY <1>0, Zenon DEF a
  <1>4. /\ t.sessions = a /\ t.client_index = st.client_index
        /\ t.route_index = st.route_index /\ t.session_count = st.session_count
        /\ t.next_generation = g /\ t.next_route_id = st.next_route_id
        /\ t.next_expiry = e
        /\ t \in Store
    BY <1>0, <1>1, <1>2, <1>3, Zenon DEF Store
  <1>5. Occupied(t) = Occupied(st)
    BY <1>1, <1>2, <1>4, Zenon DEF Occupied
  <1>6. IndexesExact(t)
    <2>1. \A j \in SessionSlots :
            /\ t.sessions[j] # NoSession <=> st.sessions[j] # NoSession
            /\ t.sessions[j] # NoSession =>
                  /\ t.sessions[j].client_id = st.sessions[j].client_id
                  /\ t.sessions[j].route_id = st.sessions[j].route_id
      BY <1>0, <1>1, <1>2, <1>4, Zenon
    <2> QED
      BY <1>4, <1>5, <2>1 DEF IndexesExact, GoodStore
  <1>7. ExpiryBound(t)
    <2>1. \A j \in Occupied(st) \ {i} : ~st.sessions[j].connected =>
            /\ st.next_expiry <= st.sessions[j].expires_at
            /\ st.sessions[j].expires_at \in Nat
      BY <1>1, Zenon DEF GoodStore, ExpiryBound, Occupied, Session
    <2>2. st.next_expiry \in Nat
      BY <1>1, Zenon DEF Store
    <2>3. \A j \in Occupied(st) \ {i} : ~st.sessions[j].connected
                                          => e <= st.sessions[j].expires_at
      BY <1>0, <2>1, <2>2
    <2> QED
      BY <1>1, <1>2, <1>4, <1>5, <1>0, <2>3, Zenon DEF ExpiryBound, Occupied
  <1>8. GenerationsOld(t)
    <2>1. \A j \in Occupied(st) : /\ st.sessions[j].generation \in Nat
                                  /\ st.sessions[j].generation < st.next_generation
      BY <1>1, Zenon DEF GoodStore, GenerationsOld, Occupied, Session
    <2>2. st.next_generation \in Nat
      BY <1>1, Zenon DEF Store
    <2>3. \A j \in Occupied(st) : st.sessions[j].generation < g
      BY <1>0, <2>1, <2>2
    <2> QED
      BY <1>1, <1>2, <1>4, <1>5, <1>0, <2>3, Zenon DEF GenerationsOld, Occupied
  <1> QED
    BY <1>0, <1>2, <1>4, <1>6, <1>7, <1>8, Zenon DEF Changed, GoodStore

\* open resumes a Session.
Reopened(st, i, interval) ==
    [st.sessions[i] EXCEPT !.generation = st.next_generation, !.connected = TRUE,
                           !.expiry_interval = interval, !.expires_at = Never]

\* A Session that is resumed keeps its place in both indexes.
LEMMA ResumedGood ==
    ASSUME NEW st, GoodStore(st), NEW i \in Occupied(st),
           NEW interval \in ExpiryIntervals
    PROVE  /\ Changed(st, Resumed(st, i, interval), i, Reopened(st, i, interval))
           /\ Resumed(st, i, interval).next_generation = st.next_generation + 1
  <1> DEFINE x == Reopened(st, i, interval)
             t == Resumed(st, i, interval)
             g == st.next_generation + 1
             e == st.next_expiry
  <1>1. /\ st \in Store /\ i \in SessionSlots
        /\ st.sessions[i] \in Session
        /\ st.next_generation \in Nat \ {0}
        /\ e \in Nat
    BY Zenon DEF GoodStore, Occupied, Store
  <1>2. /\ x \in Session
        /\ x.client_id = st.sessions[i].client_id
        /\ x.route_id = st.sessions[i].route_id
        /\ x.generation = st.next_generation
        /\ x.connected = TRUE
    BY <1>1, StoreAssumption, Zenon DEF Session, Reopened
  <1>3. t = [st EXCEPT !.sessions = [st.sessions EXCEPT ![i] = x],
                       !.next_generation = g, !.next_expiry = e]
    BY <1>1, Zenon DEF Resumed, Store, Reopened
  <1>4. /\ g \in Nat \ {0} /\ g >= st.next_generation /\ x.generation < g
        /\ e <= st.next_expiry /\ (~x.connected => e <= x.expires_at)
    BY <1>1, <1>2
  <1> HIDE DEF x, t, g, e
  <1>5. Changed(st, t, i, x) /\ t.next_generation = g
    <2>1. Changes(st, t, i, x, g, e)
      BY <1>1, <1>2, <1>3, <1>4, Zenon DEF Changes
    <2> QED
      BY <2>1, ChangeGood, Zenon
  <1> QED
    BY <1>5, Zenon DEF x, t, g

\* A subscription is added or removed.
LEMMA ResubscribedGood ==
    ASSUME NEW st, GoodStore(st), NEW i \in Occupied(st), NEW F \in SUBSET Filters
    PROVE  LET t == [st EXCEPT !.sessions[i].subscriptions = F] IN
           /\ Changed(st, t, i, [st.sessions[i] EXCEPT !.subscriptions = F])
           /\ t.next_generation = st.next_generation
  <1> DEFINE x == [st.sessions[i] EXCEPT !.subscriptions = F]
             t == [st EXCEPT !.sessions[i].subscriptions = F]
             g == st.next_generation
             e == st.next_expiry
  <1>1. /\ st \in Store /\ i \in SessionSlots
        /\ st.sessions[i] \in Session
        /\ st.next_generation \in Nat \ {0}
        /\ st.sessions[i].generation < st.next_generation
        /\ e \in Nat
        /\ ~st.sessions[i].connected => e <= st.sessions[i].expires_at
    BY Zenon DEF GoodStore, Occupied, Store, GenerationsOld, ExpiryBound
  <1>2. /\ x \in Session
        /\ x.client_id = st.sessions[i].client_id
        /\ x.route_id = st.sessions[i].route_id
        /\ x.generation = st.sessions[i].generation
        /\ x.connected = st.sessions[i].connected
        /\ x.expires_at = st.sessions[i].expires_at
    BY <1>1, Zenon DEF Session
  <1>3. t = [st EXCEPT !.sessions = [st.sessions EXCEPT ![i] = x],
                       !.next_generation = g, !.next_expiry = e]
    BY <1>1, Zenon DEF Store
  <1> HIDE DEF x, t
  <1>4. Changes(st, t, i, x, g, e)
    BY <1>1, <1>2, <1>3 DEF Changes
  <1>5. Changed(st, t, i, x) /\ t.next_generation = g
    BY <1>4, ChangeGood, Zenon
  <1> QED
    BY <1>5, Zenon DEF x, t

\* The lower of two deadlines.
LEMMA Lowered ==
    ASSUME NEW m \in Nat, NEW n \in Nat
    PROVE  /\ LoweredExpiry(m, n) \in Nat
           /\ LoweredExpiry(m, n) <= m /\ LoweredExpiry(m, n) <= n
  BY LeastOfSet, Zenon DEF LoweredExpiry

\* disconnect of a Session that outlives its connection.
LEMMA OfflineGood ==
    ASSUME NEW st, GoodStore(st), NEW h \in Handle, h.index \in Occupied(st),
           NEW interval \in ExpiryIntervals, interval # 0, NEW time \in Nat
    PROVE  /\ Changed(st, Disconnected(st, h, interval, time), h.index,
                      [st.sessions[h.index] EXCEPT !.connected = FALSE,
                                                   !.expiry_interval = interval,
                                                   !.expires_at = Deadline(interval, time)])
           /\ Disconnected(st, h, interval, time).next_generation = st.next_generation
  <1> DEFINE i == h.index
             due == Deadline(interval, time)
             x == [st.sessions[i] EXCEPT !.connected = FALSE,
                                         !.expiry_interval = interval,
                                         !.expires_at = due]
             t == Disconnected(st, h, interval, time)
             g == st.next_generation
             e == LoweredExpiry(st.next_expiry, due)
  <1>1. /\ st \in Store /\ i \in SessionSlots /\ i \in Occupied(st)
        /\ st.sessions[i] \in Session
        /\ st.next_generation \in Nat \ {0}
        /\ st.sessions[i].generation < st.next_generation
        /\ st.next_expiry \in Nat
    BY Zenon DEF GoodStore, Occupied, Store, GenerationsOld
  <1>2. due \in Nat
    BY StoreAssumption DEF Deadline, ExpiryIntervals
  <1>3. t = [st EXCEPT !.sessions = [st.sessions EXCEPT ![i] = x],
                       !.next_generation = g, !.next_expiry = e]
    BY <1>1, Zenon DEF Disconnected, Store
  <1> HIDE DEF due
  <1>4. e \in Nat /\ e <= st.next_expiry /\ e <= due
    BY <1>1, <1>2, Lowered, Zenon
  <1>5. /\ x \in Session
        /\ x.client_id = st.sessions[i].client_id
        /\ x.route_id = st.sessions[i].route_id
        /\ x.generation = st.sessions[i].generation
        /\ x.expires_at = due
    BY <1>1, <1>2, Zenon DEF Session
  <1> HIDE DEF x, t, e, i
  <1>6. Changes(st, t, i, x, g, e)
    BY <1>1, <1>3, <1>4, <1>5 DEF Changes
  <1>7. Changed(st, t, i, x) /\ t.next_generation = g
    BY <1>6, ChangeGood, Zenon
  <1> QED
    BY <1>7, Zenon DEF x, t, i, due

\* removeAt of one Session.
LEMMA RemovedLeft ==
    ASSUME NEW st, GoodStore(st), NEW i \in Occupied(st)
    PROVE  /\ Left(st, RemoveAt(st, {i}), i)
           /\ RemoveAt(st, {i}).sessions[i] = NoSession
  <1>1. Without(st, RemoveAt(st, {i}), {i}) /\ i \in SessionSlots
    BY RemoveAtGood, Zenon DEF Occupied
  <1> QED
    BY <1>1, Zenon DEF Without, Left

\* disconnect, which removes a Session without an interval.
LEMMA DisconnectedLeft ==
    ASSUME NEW st, GoodStore(st), NEW h \in Handle, h.index \in Occupied(st),
           NEW interval \in ExpiryIntervals, NEW time \in Nat
    PROVE  /\ Left(st, Disconnected(st, h, interval, time), h.index)
           /\ Disconnected(st, h, interval, time).sessions[h.index] = NoSession
                <=> interval = 0
  <1>1. CASE interval = 0
    <2>1. Disconnected(st, h, interval, time) = RemoveAt(st, {h.index})
      BY <1>1, Zenon DEF Disconnected
    <2> QED
      BY <1>1, <2>1, RemovedLeft, Zenon
  <1>2. CASE interval # 0
    <2> DEFINE i == h.index
               t == Disconnected(st, h, interval, time)
               x == [st.sessions[i] EXCEPT !.connected = FALSE,
                                           !.expiry_interval = interval,
                                           !.expires_at = Deadline(interval, time)]
    <2>1. Changed(st, t, i, x) /\ t.next_generation = st.next_generation
      BY <1>2, OfflineGood, Zenon
    <2>2. st.sessions[i] \in Session /\ i \in SessionSlots
      BY Zenon DEF GoodStore, Store, Occupied
    <2>3. /\ x.connected = FALSE
          /\ x.generation = st.sessions[i].generation
          /\ x.route_id = st.sessions[i].route_id
          /\ x.subscriptions = st.sessions[i].subscriptions
      BY <2>2, Zenon DEF Session
    <2>4. x # NoSession
      BY <2>1, NoSessionAssumption, Zenon DEF Changed
    <2> HIDE DEF x, t, i
    <2>5. Left(st, t, i) /\ t.sessions[i] # NoSession
      BY <2>1, <2>3, <2>4, Zenon DEF Changed, Left
    <2> QED
      BY <1>2, <2>5, Zenon DEF t, i
  <1> QED
    BY <1>1, <1>2, Zenon

-----------------------------------------------------------------------------
(* A Session is created or restored.                                       *)

\* A table that is not full has a free slot.
LEMMA FreeSlot ==
    ASSUME NEW st, GoodStore(st), st.session_count < MaxSessions
    PROVE  LeastOf(SessionSlots \ Occupied(st)) \in SessionSlots \ Occupied(st)
  <1> DEFINE free == SessionSlots \ Occupied(st)
  <1>1. free # {}
    <2>1. Cardinality(SessionSlots) = MaxSessions
      BY FS_Interval, StoreAssumption DEF SessionSlots
    <2>2. Occupied(st) # SessionSlots
      BY <2>1, StoreAssumption DEF GoodStore, IndexesExact
    <2> QED
      BY <2>2, Zenon DEF Occupied
  <1>2. free \in SUBSET Nat
    BY DEF SessionSlots
  <1> QED
    BY <1>1, <1>2, LeastOfSet, Zenon

\* A free route has no slot in the index.
LEMMA FreeRoute ==
    ASSUME NEW st, GoodStore(st), NEW r \in RouteIds,
           \A i \in Occupied(st) : st.sessions[i].route_id # r
    PROVE  st.route_index[r] = 0
  BY DEF GoodStore, Store, IndexesExact, Occupied

\* nextRouteId finds an identity that no Session has, and takes the next one
\* as long as all that are in use lie behind it.
LEMMA NextRoute ==
    ASSUME NEW st, GoodStore(st), st.session_count < MaxSessions
    PROVE  /\ NextRouteId(st) \in RouteIds
           /\ st.route_index[NextRouteId(st)] = 0
           /\ RoutesBehind(st) => NextRouteId(st) = st.next_route_id
  <1> DEFINE free == {r \in RouteIds : st.route_index[r] = 0}
             first == st.next_route_id
             D == {(r - first) % MaxRouteId : r \in free}
             P(r) == /\ r \in RouteIds /\ st.route_index[r] = 0
                     /\ \A q \in RouteIds : st.route_index[q] = 0 =>
                          (r - first) % MaxRouteId <= (q - first) % MaxRouteId
  <1>1. /\ first \in RouteIds /\ MaxRouteId \in Nat \ {0}
        /\ st.route_index \in [RouteIds -> SessionSlots \cup {0}]
    BY StoreAssumption DEF GoodStore, Store
  <1>2. free # {}
    <2> SUFFICES ASSUME free = {} PROVE FALSE
      BY Zenon
    <2>1. st.route_index \in [RouteIds -> Occupied(st)]
      <3>1. \A q \in RouteIds : st.route_index[q] \in SessionSlots
        BY <1>1
      <3>2. \A q \in RouteIds : st.route_index[q] \in Occupied(st)
        BY <3>1, Zenon DEF GoodStore, IndexesExact, Occupied
      <3> QED
        BY <1>1, <3>2
    <2>2. IsFiniteSet(RouteIds) /\ Cardinality(RouteIds) = MaxRouteId
      BY <1>1, FS_Interval DEF RouteIds
    <2>3. IsFiniteSet(Occupied(st)) /\ Cardinality(Occupied(st)) < Cardinality(RouteIds)
      <3>1. IsFiniteSet(Occupied(st))
        BY SlotsFinite, Zenon DEF Occupied
      <3> QED
        BY <2>2, <3>1, StoreAssumption DEF GoodStore, IndexesExact, Store
    <2>4. PICK r, q \in RouteIds : r # q /\ st.route_index[r] = st.route_index[q]
      BY <2>1, <2>2, <2>3, FS_PigeonHole
    <2> QED
      BY <2>1, <2>4 DEF GoodStore, IndexesExact, Occupied
  <1>3. \A r, q \in RouteIds : /\ (r - q) % MaxRouteId \in Nat
                               /\ (r - q) % MaxRouteId = 0 => r = q
                               /\ (q - q) % MaxRouteId = 0
    BY <1>1, Distance, Zenon DEF RouteIds
  <1>4. D \in SUBSET Nat /\ D # {}
    BY <1>1, <1>2, <1>3
  <1>5. PICK r \in free : (r - first) % MaxRouteId = LeastOf(D)
    BY <1>4, LeastOfSet, Zenon
  <1>6. \A d \in D : LeastOf(D) <= d
    BY <1>4, LeastOfSet, Zenon
  <1>7. P(r)
    BY <1>5, <1>6, Zenon
  <1>8. NextRouteId(st) = CHOOSE q : P(q)
    BY Zenon DEF NextRouteId
  <1>9. P(NextRouteId(st))
    BY <1>7, <1>8, Zenon
  <1>10. ASSUME RoutesBehind(st) PROVE NextRouteId(st) = first
    <2>1. st.route_index[first] = 0
      <3>1. \A i \in Occupied(st) : st.sessions[i].route_id # first
        BY <1>1, <1>10 DEF RoutesBehind, RouteIds, Occupied, GoodStore, Store, Session
      <3> QED
        BY <1>1, <3>1, FreeRoute, Zenon
    <2> QED
      BY <1>1, <1>3, <1>9, <2>1
  <1> QED
    BY <1>9, <1>10, Zenon

\* A Session x is put into the free slot i.
Added(st, t, i, x) ==
    /\ GoodStore(t)
    /\ i \in SessionSlots \ Occupied(st)
    /\ t.sessions[i] = x /\ x \in Session
    /\ \A j \in SessionSlots \ {i} : t.sessions[j] = st.sessions[j]
    /\ t.client_index[x.client_id] = i
    /\ t.session_count = st.session_count + 1
    /\ t.next_generation = st.next_generation + 1

Adds(st, t, i, x, r, e) ==
    /\ i \in SessionSlots \ Occupied(st) /\ x \in Session
    /\ st.client_index[x.client_id] = 0
    /\ st.route_index[x.route_id] = 0
    /\ x.generation = st.next_generation
    /\ r \in RouteIds
    /\ e \in Nat /\ e <= st.next_expiry /\ (~x.connected => e <= x.expires_at)
    /\ t = [st EXCEPT !.sessions = [st.sessions EXCEPT ![i] = x],
                      !.client_index = [st.client_index EXCEPT ![x.client_id] = i],
                      !.route_index = [st.route_index EXCEPT ![x.route_id] = i],
                      !.session_count = st.session_count + 1,
                      !.next_generation = st.next_generation + 1,
                      !.next_route_id = r,
                      !.next_expiry = e]

\* Such an addition keeps the table consistent.
LEMMA AddGood ==
    ASSUME NEW st, GoodStore(st), NEW t, NEW i, NEW x, NEW r, NEW e,
           Adds(st, t, i, x, r, e)
    PROVE  Added(st, t, i, x) /\ t.next_route_id = r
  <1> DEFINE a == [st.sessions EXCEPT ![i] = x]
             b == [st.client_index EXCEPT ![x.client_id] = i]
             d == [st.route_index EXCEPT ![x.route_id] = i]
             n == st.session_count + 1
             g == st.next_generation + 1
  <1>1. /\ i \in SessionSlots /\ i \notin Occupied(st) /\ x \in Session
        /\ st.client_index[x.client_id] = 0
        /\ st.route_index[x.route_id] = 0
        /\ x.generation = st.next_generation
        /\ r \in RouteIds
        /\ e \in Nat /\ e <= st.next_expiry /\ (~x.connected => e <= x.expires_at)
        /\ t = [st EXCEPT !.sessions = a, !.client_index = b, !.route_index = d,
                          !.session_count = n, !.next_generation = g,
                          !.next_route_id = r, !.next_expiry = e]
    BY Zenon DEF Adds
  <1>2. /\ st \in Store /\ x # NoSession /\ 0 \notin SessionSlots
        /\ x.client_id \in Clients /\ x.route_id \in RouteIds
        /\ st.sessions[i] = NoSession
    BY <1>1, NoSessionAssumption DEF GoodStore, Occupied, Session, SessionSlots
  <1>3. /\ st.sessions \in [SessionSlots -> Session \cup {NoSession}]
        /\ st.client_index \in [Clients -> SessionSlots \cup {0}]
        /\ st.route_index \in [RouteIds -> SessionSlots \cup {0}]
        /\ st.next_generation \in Nat \ {0} /\ st.next_expiry \in Nat
        /\ st.session_count \in Nat
    BY <1>2 DEF Store
  <1>4. /\ a \in [SessionSlots -> Session \cup {NoSession}]
        /\ b \in [Clients -> SessionSlots \cup {0}]
        /\ d \in [RouteIds -> SessionSlots \cup {0}]
        /\ \A j \in SessionSlots : a[j] = IF j = i THEN x ELSE st.sessions[j]
        /\ \A c \in Clients : b[c] = IF c = x.client_id THEN i ELSE st.client_index[c]
        /\ \A q \in RouteIds : d[q] = IF q = x.route_id THEN i ELSE st.route_index[q]
    BY <1>1, <1>2, <1>3, Zenon
  <1> HIDE DEF a, b, d
  <1>5. /\ t.sessions = a /\ t.client_index = b /\ t.route_index = d
        /\ t.session_count = n /\ t.next_generation = g
        /\ t.next_route_id = r /\ t.next_expiry = e
    BY <1>1, <1>2, Zenon DEF Store
  <1>6. Occupied(t) = Occupied(st) \cup {i}
    BY <1>1, <1>2, <1>4, <1>5 DEF Occupied
  <1>7. n = Cardinality(Occupied(t)) /\ n \in 0..MaxSessions
    <2>1. /\ IsFiniteSet(Occupied(st))
          /\ Cardinality(Occupied(t)) \in 0..MaxSessions
      BY <1>6, SlotsFinite, Zenon DEF Occupied
    <2>2. Cardinality(Occupied(st) \cup {i}) = Cardinality(Occupied(st)) + 1
      BY <1>1, <2>1, FS_AddElement, Zenon
    <2> QED
      BY <1>6, <2>1, <2>2 DEF GoodStore, IndexesExact
  <1>8. g \in Nat \ {0}
    BY <1>3
  <1> HIDE DEF n, g
  <1>9. t \in Store
    BY <1>1, <1>2, <1>4, <1>7, <1>8, Zenon DEF Store
  <1>10. IndexesExact(t)
    <2>1. \A c \in Clients, j \in SessionSlots :
            t.client_index[c] = j <=> t.sessions[j] # NoSession /\ t.sessions[j].client_id = c
      BY <1>1, <1>2, <1>4, <1>5 DEF GoodStore, IndexesExact
    <2>2. \A q \in RouteIds, j \in SessionSlots :
            t.route_index[q] = j <=> t.sessions[j] # NoSession /\ t.sessions[j].route_id = q
      BY <1>1, <1>2, <1>4, <1>5 DEF GoodStore, IndexesExact
    <2> QED
      BY <1>5, <1>7, <2>1, <2>2, Zenon DEF IndexesExact
  <1>11. ExpiryBound(t)
    <2>1. \A j \in Occupied(st) : ~st.sessions[j].connected =>
            /\ st.next_expiry <= st.sessions[j].expires_at
            /\ st.sessions[j].expires_at \in Nat
      BY <1>3, Zenon DEF GoodStore, ExpiryBound, Occupied, Session
    <2>2. \A j \in Occupied(st) : ~st.sessions[j].connected
                                     => e <= st.sessions[j].expires_at
      BY <1>1, <1>3, <2>1
    <2> QED
      BY <1>1, <1>4, <1>5, <1>6, <2>2 DEF ExpiryBound, Occupied
  <1>12. GenerationsOld(t)
    <2>1. \A j \in Occupied(st) : /\ st.sessions[j].generation \in Nat
                                  /\ st.sessions[j].generation < st.next_generation
      BY <1>3, Zenon DEF GoodStore, GenerationsOld, Occupied, Session
    <2>2. \A j \in Occupied(st) : st.sessions[j].generation < g
      BY <1>3, <2>1 DEF g
    <2>3. x.generation < g
      BY <1>1, <1>3 DEF g
    <2> QED
      BY <1>1, <1>4, <1>5, <1>6, <2>2, <2>3 DEF GenerationsOld, Occupied
  <1>13. /\ t.client_index[x.client_id] = i /\ t.sessions[i] = x
         /\ \A j \in SessionSlots \ {i} : t.sessions[j] = st.sessions[j]
    BY <1>1, <1>2, <1>4, <1>5, Zenon
  <1> QED
    BY <1>1, <1>5, <1>9, <1>10, <1>11, <1>12, <1>13, Zenon DEF Added, GoodStore, n, g

\* open creates a Session for a client without one.
Creates(st, t, c, i, x) ==
    /\ Added(st, t, i, x)
    /\ x.client_id = c
    /\ x.generation = st.next_generation
    /\ x.connected
    /\ x.subscriptions = {}
    /\ RoutesBehind(st) => x.route_id = st.next_route_id
    /\ t.next_route_id = RouteAfter(x.route_id)

\* A new Session, with a route that is free.
LEMMA CreatedGood ==
    ASSUME NEW st, GoodStore(st), st.session_count < MaxSessions,
           NEW c \in Clients, st.client_index[c] = 0, NEW interval \in ExpiryIntervals
    PROVE  \E i, x : Creates(st, Created(st, c, interval), c, i, x)
  <1> DEFINE i == LeastOf(SessionSlots \ Occupied(st))
             r == NextRouteId(st)
             x == [client_id |-> c, generation |-> st.next_generation,
                   route_id |-> r, connected |-> TRUE,
                   expiry_interval |-> interval, expires_at |-> Never,
                   subscriptions |-> {}]
             t == Created(st, c, interval)
             e == st.next_expiry
  <1>1. /\ i \in SessionSlots \ Occupied(st)
        /\ r \in RouteIds /\ st.route_index[r] = 0
        /\ RoutesBehind(st) => r = st.next_route_id
    BY FreeSlot, NextRoute, Zenon
  <1>2. st \in Store /\ st.next_generation \in Nat \ {0} /\ e \in Nat
    BY Zenon DEF GoodStore, Store
  <1>3. t = [st EXCEPT !.sessions = [st.sessions EXCEPT ![i] = x],
                       !.client_index = [st.client_index EXCEPT ![c] = i],
                       !.route_index = [st.route_index EXCEPT ![r] = i],
                       !.session_count = st.session_count + 1,
                       !.next_generation = st.next_generation + 1,
                       !.next_route_id = RouteAfter(r),
                       !.next_expiry = e]
    BY <1>2, Zenon DEF Created, Store
  <1> HIDE DEF i, r, t, e
  <1>4. RouteAfter(r) \in RouteIds
    <2>1. r % MaxRouteId \in 0..(MaxRouteId - 1)
      BY <1>1, StoreAssumption, Distance DEF RouteIds
    <2> QED
      BY <2>1, StoreAssumption DEF RouteAfter, RouteIds
  <1>5. /\ x \in Session
        /\ x.client_id = c /\ x.route_id = r /\ x.generation = st.next_generation
        /\ x.connected = TRUE /\ x.subscriptions = {}
    BY <1>1, <1>2, StoreAssumption, Zenon DEF Session
  <1> HIDE DEF x
  <1>6. Adds(st, t, i, x, RouteAfter(r), e)
    <2>1. e <= st.next_expiry
      BY <1>2 DEF e
    <2> QED
      BY <1>1, <1>2, <1>3, <1>4, <1>5, <2>1, Zenon DEF Adds
  <1>7. Added(st, t, i, x) /\ t.next_route_id = RouteAfter(r)
    BY <1>6, AddGood, Zenon
  <1>8. Creates(st, t, c, i, x)
    BY <1>1, <1>5, <1>7, Zenon DEF Creates
  <1> QED
    BY <1>8, Zenon DEF t

\* The slot in the index has a Session of the client.
LEMMA ClientSlot ==
    ASSUME NEW st, GoodStore(st), NEW c \in Clients, st.client_index[c] # 0
    PROVE  /\ st.client_index[c] \in Occupied(st)
           /\ st.sessions[st.client_index[c]] \in Session
           /\ st.sessions[st.client_index[c]].client_id = c
  <1>1. st.client_index[c] \in SessionSlots
    BY Zenon DEF GoodStore, Store
  <1> QED
    BY <1>1 DEF GoodStore, IndexesExact, Occupied, Store

\* open, when it does not refuse.
LEMMA OpenedGood ==
    ASSUME NEW st, GoodStore(st), NEW c \in Clients, NEW clean_start,
           NEW interval \in ExpiryIntervals, NEW time,
           CanOpen(st, c, clean_start, time)
    PROVE  \E i : Opens(st, Opened(st, c, clean_start, interval, time), c, i)
  <1> DEFINE old == st.client_index[c]
             S == Cleared(st, c, clean_start, time)
             t == Opened(st, c, clean_start, interval, time)
  <1>1. CASE SessionPresent(st, c, clean_start, time)
    <2> DEFINE x == Reopened(st, old, interval)
    <2>1. old # 0 /\ t = Resumed(st, old, interval)
      BY <1>1, Zenon DEF SessionPresent, Opened
    <2>2. old \in Occupied(st) /\ st.sessions[old] \in Session
      BY <2>1, ClientSlot, Zenon
    <2>3. Changed(st, t, old, x) /\ t.next_generation = st.next_generation + 1
      BY <2>1, <2>2, ResumedGood, Zenon
    <2>4. /\ x.generation = st.next_generation /\ x.connected = TRUE
          /\ x.route_id = st.sessions[old].route_id
          /\ x.subscriptions = st.sessions[old].subscriptions
      BY <2>2, Zenon DEF Session, Reopened
    <2> HIDE DEF x, t
    <2>5. Opens(st, t, c, old)
      BY <2>2, <2>3, <2>4, Zenon DEF Opens, Changed, Occupied
    <2> QED
      BY <2>5, Zenon DEF t
  <1>2. CASE ~SessionPresent(st, c, clean_start, time)
    <2> DEFINE u == RemoveAt(st, S)
    <2>1. t = Created(u, c, interval) /\ u.session_count < MaxSessions
      BY <1>2, Zenon DEF Opened, CanOpen
    <2>2. S = IF old = 0 THEN {} ELSE {old}
      BY <1>2, Zenon DEF SessionPresent, Cleared
    <2>3. S \in SUBSET Occupied(st)
      BY <2>2, ClientSlot
    <2>4. /\ Without(st, u, S)
          /\ u.client_index[c] = 0
      BY <2>2, <2>3, RemoveAtGood, Zenon
    <2> HIDE DEF S, u, t
    <2>5. GoodStore(u)
      BY <2>4, Zenon DEF Without
    <2>6. PICK i, x : Creates(u, t, c, i, x)
      BY <2>1, <2>4, <2>5, CreatedGood, Zenon
    <2>7. RoutesBehind(st) => RoutesBehind(u)
      BY <2>4, Zenon DEF Without, RoutesBehind, Occupied
    <2>8. i \in SessionSlots /\ (i = old \/ i \notin Occupied(st))
      BY <2>2, <2>4, <2>6, Zenon DEF Creates, Added, Without, Occupied
    <2>9. \A j \in SessionSlots \ {i} :
            t.sessions[j] = IF j = old THEN NoSession ELSE st.sessions[j]
      <3>1. \A j \in SessionSlots : j = old => j \in S
        BY <2>2 DEF SessionSlots
      <3>2. \A j \in SessionSlots : j \in S => j = old
        BY <2>2, Zenon
      <3> QED
        BY <2>4, <2>6, <3>1, <3>2 DEF Creates, Added, Without
    <2>10. Opens(st, t, c, i)
      BY <2>4, <2>6, <2>7, <2>8, <2>9, Zenon DEF Opens, Creates, Added, Without
    <2> QED
      BY <2>10, Zenon DEF t
  <1> QED
    BY <1>1, <1>2, Zenon

-----------------------------------------------------------------------------
(* The store that a restart builds.                                        *)

\* What restoring slot n does to the store built so far.
RestoreSlot(st, time, downtime, built, n) ==
    IF n \in Survivors(st, time, downtime)
    THEN RestoreSession(built, st.sessions[n], time, downtime)
    ELSE built

Builds(st, time, downtime, f, k) ==
    f = [n \in 0..k |-> IF n = 0 THEN EmptyStore
                        ELSE RestoreSlot(st, time, downtime, f[n - 1], n)]

\* The recursion is well founded: there is such a sequence of stores.
LEMMA BuildExists ==
    ASSUME NEW st, NEW time, NEW downtime, NEW k \in Nat
    PROVE  \E f : Builds(st, time, downtime, f, k)
  <1> DEFINE Step(built, n) == RestoreSlot(st, time, downtime, built, n)
             B == {n \in Nat : ~\E f : Builds(st, time, downtime, f, n)}
  <1> SUFFICES ASSUME B # {} PROVE FALSE
    BY Zenon
  <1>1. PICK m \in B : \A n \in B : m <= n
    BY LeastOfSet, Zenon
  <1>2. CASE m = 0
    <2> DEFINE f == [n \in 0..0 |-> EmptyStore]
    <2>1. f = [n \in 0..0 |-> IF n = 0 THEN EmptyStore ELSE Step(f[n - 1], n)]
      OBVIOUS
    <2> QED
      BY <1>1, <1>2, <2>1, Zenon DEF Builds
  <1>3. CASE m # 0
    <2>1. m \in Nat /\ m - 1 \in Nat /\ m - 1 \notin B
      BY <1>1, <1>3
    <2>2. PICK g : Builds(st, time, downtime, g, m - 1)
      BY <2>1, Zenon
    <2> DEFINE h == [n \in 0..m |-> IF n = m THEN Step(g[m - 1], m) ELSE g[n]]
    <2>3. \A n \in 0..(m - 1) : g[n] = IF n = 0 THEN EmptyStore ELSE Step(g[n - 1], n)
      BY <2>2, Zenon DEF Builds
    <2>4. \A n \in 0..m : h[n] = IF n = 0 THEN EmptyStore ELSE Step(h[n - 1], n)
      <3> TAKE n \in 0..m
      <3>1. CASE n = m
        <4>1. h[n] = Step(g[m - 1], m) /\ h[n - 1] = g[m - 1]
          BY <2>1, <3>1
        <4> QED
          BY <1>3, <3>1, <4>1, Zenon
      <3>2. CASE n # m
        <4>1. n \in 0..(m - 1) /\ h[n] = g[n] /\ (n # 0 => h[n - 1] = g[n - 1])
          BY <2>1, <3>2
        <4> QED
          BY <2>3, <4>1, Zenon
      <3> QED
        BY <3>1, <3>2, Zenon
    <2>5. h = [n \in 0..m |-> h[n]]
      BY Zenon
    <2> HIDE DEF h
    <2>6. Builds(st, time, downtime, h, m)
      BY <2>4, <2>5, Zenon DEF Builds
    <2> QED
      BY <1>1, <2>6, Zenon
  <1> QED
    BY <1>2, <1>3, Zenon

\* The stores restoreSession builds, one slot after the other.
LEMMA RestoredSteps ==
    ASSUME NEW st, NEW time, NEW downtime
    PROVE  LET f == RestoredUpTo(st, time, downtime) IN
           /\ f[0] = EmptyStore
           /\ \A n \in 1..MaxSessions :
                f[n] = RestoreSlot(st, time, downtime, f[n - 1], n)
  <1> DEFINE f == RestoredUpTo(st, time, downtime)
  <1>1. MaxSessions \in Nat
    BY StoreAssumption, Zenon
  <1>2. f = CHOOSE g : Builds(st, time, downtime, g, MaxSessions)
    BY Zenon DEF RestoredUpTo, Builds, RestoreSlot
  <1> HIDE DEF f
  <1>3. Builds(st, time, downtime, f, MaxSessions)
    BY <1>1, <1>2, BuildExists, Zenon
  <1>4. \A n \in 0..MaxSessions :
          f[n] = IF n = 0 THEN EmptyStore
                 ELSE RestoreSlot(st, time, downtime, f[n - 1], n)
    BY <1>3, Zenon DEF Builds
  <1> QED
    BY <1>1, <1>4 DEF f

\* The empty store.
LEMMA EmptyGood ==
    /\ GoodStore(EmptyStore) /\ Occupied(EmptyStore) = {}
    /\ EmptyStore.session_count = 0 /\ EmptyStore.next_route_id = 1
    /\ EmptyStore.sessions = [i \in SessionSlots |-> NoSession]
    /\ EmptyStore.route_index = [r \in RouteIds |-> 0]
  <1> DEFINE st == EmptyStore
             a == [i \in SessionSlots |-> NoSession]
             b == [c \in Clients |-> 0]
             d == [r \in RouteIds |-> 0]
  <1>1. /\ a \in [SessionSlots -> Session \cup {NoSession}]
        /\ b \in [Clients -> SessionSlots \cup {0}]
        /\ d \in [RouteIds -> SessionSlots \cup {0}]
        /\ \A i \in SessionSlots : a[i] = NoSession
        /\ \A c \in Clients : b[c] = 0
        /\ \A r \in RouteIds : d[r] = 0
    BY Zenon
  <1>2. /\ st.sessions = a /\ st.client_index = b /\ st.route_index = d
        /\ st.session_count = 0 /\ st.next_generation = 1
        /\ st.next_route_id = 1 /\ st.next_expiry = Never
    BY Zenon DEF EmptyStore
  <1>3. st = [sessions |-> a, client_index |-> b, route_index |-> d, session_count |-> 0,
              next_generation |-> 1, next_route_id |-> 1, next_expiry |-> Never]
    BY Zenon DEF EmptyStore
  <1> HIDE DEF st, a, b, d
  <1>4. st \in Store
    BY <1>1, <1>3, StoreAssumption DEF Store, RouteIds
  <1>5. Occupied(st) = {} /\ 0 \notin SessionSlots
    BY <1>1, <1>2 DEF Occupied, SessionSlots
  <1>6. IndexesExact(st)
    BY <1>1, <1>2, <1>5, FS_EmptySet DEF IndexesExact
  <1>7. ExpiryBound(st) /\ GenerationsOld(st)
    BY <1>5, Zenon DEF ExpiryBound, GenerationsOld
  <1> QED
    BY <1>2, <1>4, <1>5, <1>6, <1>7, Zenon DEF GoodStore, st, a, d

\* An interval that ends is a number.
LEMMA FiniteInterval ==
    ASSUME NEW interval \in ExpiryIntervals, interval # Forever
    PROVE  interval \in Nat
  BY StoreAssumption DEF ExpiryIntervals

\* restoreSession finds neither the client nor the route in use.
LEMMA RestoreSlotGood ==
    ASSUME NEW st, GoodStore(st), NEW time \in Nat, NEW downtime \in Nat,
           NEW n \in 1..MaxSessions, NEW built, RestoredFrom(st, built, n - 1)
    PROVE  RestoredFrom(st, RestoreSlot(st, time, downtime, built, n), n)
  <1>0. n \in Nat /\ n - 1 \in Nat /\ n <= MaxSessions /\ MaxSessions \in Nat
    BY StoreAssumption
  <1>1. /\ GoodStore(built) /\ built.session_count <= n - 1
        /\ built.session_count \in Nat
    BY DEF RestoredFrom, GoodStore, Store
  <1>2. CASE n \notin Survivors(st, time, downtime)
    <2>1. RestoreSlot(st, time, downtime, built, n) = built
      BY <1>2, Zenon DEF RestoreSlot
    <2>2. built.session_count <= n
      BY <1>0, <1>1
    <2>3. \A i \in Occupied(st) : i <= n - 1 => i <= n
      BY <1>0 DEF Occupied, SessionSlots
    <2> QED
      BY <2>1, <2>2, <2>3, Zenon DEF RestoredFrom
  <1>3. CASE n \in Survivors(st, time, downtime)
    <2> DEFINE session == st.sessions[n]
               i == LeastOf(SessionSlots \ Occupied(built))
               left == Remaining(session, time)
               deadline == IF left = Never THEN Never ELSE time + left - downtime
               after == IF session.route_id + 1 > built.next_route_id
                        THEN session.route_id + 1 ELSE built.next_route_id
               r == IF after > MaxRouteId THEN 1 ELSE after
               x == [session EXCEPT !.generation = built.next_generation,
                                    !.connected = FALSE,
                                    !.expires_at = deadline]
               e == LoweredExpiry(built.next_expiry, deadline)
               t == RestoreSlot(st, time, downtime, built, n)
    <2>1. /\ n \in Occupied(st) /\ left > downtime
          /\ session \in Session
          /\ built \in Store /\ built.next_generation \in Nat \ {0}
          /\ built.next_expiry \in Nat /\ built.next_route_id \in RouteIds
          /\ st.next_route_id \in RouteIds
      BY <1>1, <1>3, Zenon DEF Survivors, Saved, GoodStore, Store, Occupied
    <2>2. i \in SessionSlots \ Occupied(built)
      BY <1>0, <1>1, FreeSlot
    <2>3. t = [built EXCEPT !.sessions = [built.sessions EXCEPT ![i] = x],
                            !.client_index = [built.client_index EXCEPT
                                                ![session.client_id] = i],
                            !.route_index = [built.route_index EXCEPT
                                               ![session.route_id] = i],
                            !.session_count = built.session_count + 1,
                            !.next_generation = built.next_generation + 1,
                            !.next_route_id = r,
                            !.next_expiry = e]
      <3>1. t = RestoreSession(built, session, time, downtime)
        BY <1>3, Zenon DEF RestoreSlot
      <3> QED
        BY ONLY <3>1, SMTT(20) DEF RestoreSession
    <2>4. deadline \in Nat
      <3>1. left \in Int
        <4>1. session.expiry_interval \in ExpiryIntervals /\ session.expires_at \in Nat
          BY <2>1, Zenon DEF Session
        <4>2. session.expiry_interval # Forever => session.expiry_interval \in Nat
          BY <4>1, FiniteInterval, Zenon
        <4>3. session.expires_at - time \in Int
          BY <4>1
        <4> QED
          BY <4>2, <4>3, StoreAssumption DEF Remaining
      <3> HIDE DEF left
      <3> QED
        BY <2>1, <3>1, StoreAssumption
    <2>5. session.route_id \in RouteIds /\ session.client_id \in Clients
      BY <2>1, Zenon DEF Session
    <2>6. r \in RouteIds
      BY <2>1, <2>5, StoreAssumption DEF RouteIds
    <2> HIDE DEF deadline, i, t
    <2>7. e \in Nat /\ e <= built.next_expiry /\ e <= deadline
      BY <2>1, <2>4, Lowered, Zenon
    <2>8. /\ x \in Session
          /\ x.client_id = session.client_id /\ x.route_id = session.route_id
          /\ x.generation = built.next_generation
          /\ x.connected = FALSE /\ x.expires_at = deadline
      BY <2>1, <2>4, Zenon DEF Session
    <2>9. \A m \in Occupied(st) : m <= n - 1 =>
            /\ st.sessions[m].client_id # session.client_id
            /\ st.sessions[m].route_id # session.route_id
      <3>1. \A m \in Occupied(st) : m \in SessionSlots /\ (m <= n - 1 => m # n)
        BY <1>0 DEF Occupied, SessionSlots
      <3> QED
        BY <2>1, <2>5, <3>1 DEF GoodStore, IndexesExact, Occupied
    <2>10. built.client_index[session.client_id] = 0
      <3>1. \A j \in Occupied(built) : built.sessions[j].client_id # session.client_id
        BY <2>9, Zenon DEF RestoredFrom
      <3> QED
        BY <1>1, <2>5, <3>1, ClientSlot, Zenon
    <2>11. built.route_index[session.route_id] = 0
      <3>1. \A j \in Occupied(built) : built.sessions[j].route_id # session.route_id
        BY <2>9, Zenon DEF RestoredFrom
      <3> QED
        BY <1>1, <2>5, <3>1, FreeRoute, Zenon
    <2> HIDE DEF x, e, r, left
    <2>12. Adds(built, t, i, x, r, e)
      BY <2>2, <2>3, <2>6, <2>7, <2>8, <2>10, <2>11, Zenon DEF Adds
    <2>13. Added(built, t, i, x) /\ t.next_route_id = r
      BY <1>1, <2>12, AddGood, Zenon
    <2>14. t.session_count <= n
      BY <1>0, <1>1, <2>13 DEF Added
    <2>15. ASSUME NEW j \in Occupied(t)
           PROVE  /\ ~t.sessions[j].connected
                  /\ \E m \in Occupied(st) :
                        /\ m <= n
                        /\ t.sessions[j].client_id = st.sessions[m].client_id
                        /\ t.sessions[j].route_id = st.sessions[m].route_id
      <3>1. CASE j = i
        BY <1>0, <2>1, <2>8, <2>13, <3>1 DEF Added
      <3>2. CASE j # i
        <4>1. j \in Occupied(built) /\ t.sessions[j] = built.sessions[j]
          BY <2>13, <2>15, <3>2, Zenon DEF Added, Occupied
        <4>2. \A m \in Occupied(st) : m <= n - 1 => m <= n
          BY <1>0 DEF Occupied, SessionSlots
        <4> QED
          BY <4>1, <4>2, Zenon DEF RestoredFrom
      <3> QED
        BY <3>1, <3>2, Zenon
    <2>16. ASSUME RoutesBehind(st)
           PROVE  RoutesBehind(t) /\ t.next_route_id <= st.next_route_id
      <3>1. session.route_id < st.next_route_id
        BY <2>1, <2>16, Zenon DEF RoutesBehind
      <3>2. RoutesBehind(built) /\ built.next_route_id <= st.next_route_id
        BY <2>16, Zenon DEF RestoredFrom
      <3>3. /\ r <= st.next_route_id /\ session.route_id < r
            /\ built.next_route_id <= r
        <4>1. /\ session.route_id \in Nat /\ built.next_route_id \in Nat
              /\ st.next_route_id \in Nat /\ MaxRouteId \in Nat
              /\ st.next_route_id <= MaxRouteId
          BY <2>1, <2>5, StoreAssumption DEF RouteIds
        <4>2. ~(after > MaxRouteId)
          BY <3>1, <3>2, <4>1
        <4> QED
          BY <3>1, <3>2, <4>1, <4>2 DEF r
      <3>4. \A j \in Occupied(built) : built.sessions[j].route_id \in RouteIds
        BY <2>1, Zenon DEF Store, Occupied, Session
      <3>5. \A j \in Occupied(built) : built.sessions[j].route_id < r
        <4>1. /\ built.next_route_id \in Nat /\ r \in Nat
              /\ \A j \in Occupied(built) : built.sessions[j].route_id \in Nat
          BY <2>1, <2>6, <3>4 DEF RouteIds
        <4>2. \A j \in Occupied(built) : built.sessions[j].route_id < built.next_route_id
          BY <3>2, Zenon DEF RoutesBehind
        <4> QED
          BY <3>3, <4>1, <4>2
      <3> QED
        BY <2>8, <2>13, <3>3, <3>5, Zenon DEF RoutesBehind, Added, Occupied
    <2> QED
      BY <2>13, <2>14, <2>15, <2>16, Zenon DEF RestoredFrom, Added, t
  <1> QED
    BY <1>2, <1>3, Zenon

\* A restart builds a consistent store of offline Sessions.
LEMMA RestoredGood ==
    ASSUME NEW st, GoodStore(st), NEW time \in Nat, NEW downtime \in Nat
    PROVE  RestoredFrom(st, Restored(st, time, downtime), MaxSessions)
  <1> DEFINE f == RestoredUpTo(st, time, downtime)
             B == {n \in 0..MaxSessions : ~RestoredFrom(st, f[n], n)}
  <1>0. MaxSessions \in Nat
    BY StoreAssumption, Zenon
  <1>1. /\ f[0] = EmptyStore
        /\ \A n \in 1..MaxSessions : f[n] = RestoreSlot(st, time, downtime, f[n - 1], n)
    BY RestoredSteps, Zenon
  <1> HIDE DEF f
  <1> SUFFICES ASSUME B # {} PROVE FALSE
    BY <1>0 DEF Restored, f
  <1>2. PICK m \in B : \A n \in B : m <= n
    <2>1. B \in SUBSET Nat
      OBVIOUS
    <2> QED
      BY <2>1, LeastOfSet, Zenon
  <1>3. CASE m = 0
    <2>1. EmptyStore.next_route_id <= st.next_route_id
      BY EmptyGood DEF GoodStore, Store, RouteIds
    <2>2. RestoredFrom(st, EmptyStore, 0)
      BY <2>1, EmptyGood DEF RestoredFrom, RoutesBehind
    <2> QED
      BY <1>1, <1>2, <1>3, <2>2, Zenon
  <1>4. CASE m # 0
    <2>1. m \in 1..MaxSessions /\ m - 1 \in 0..MaxSessions /\ m - 1 \notin B
      BY <1>0, <1>2, <1>4
    <2>2. RestoredFrom(st, f[m - 1], m - 1)
      BY <2>1, Zenon
    <2>3. RestoredFrom(st, f[m], m)
      BY <1>1, <2>1, <2>2, RestoreSlotGood, Zenon
    <2> QED
      BY <1>2, <2>3, Zenon
  <1> QED
    BY <1>3, <1>4, Zenon

=============================================================================

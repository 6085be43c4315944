----------------------- MODULE SessionDeliveryProofs -----------------------
(***************************************************************************)
(* Delivery from a Session to its client, for every number of messages,    *)
(* queue and table size, identifier space and receive maximum: the broker  *)
(* and the client implement the abstract exchange, and with its invariant  *)
(* deliver exactly once, complete only what was delivered and respect the  *)
(* Receive Maximum.                                                        *)
(***************************************************************************)
EXTENDS SessionStepProofs, SessionStateProofs

WithinWindow == Cardinality(SentPublishes(inflight)) <= receive_maximum

\* What the slots, the queue and the connection keep.
Local == IInv /\ LinkGood /\ Distinct(queued) /\ WithinWindow

-----------------------------------------------------------------------------
(* The window.                                                             *)

\* The slots that count against the window are finitely many.
LEMMA SentFinite ==
    ASSUME NEW t \in [Slots -> Inflight \cup {NoEntry}]
    PROVE  IsFiniteSet(SentPublishes(t)) /\ Cardinality(SentPublishes(t)) \in Nat
  <1>1. SentPublishes(t) \in SUBSET (1..MaxInflight) /\ MaxInflight \in Nat
    BY SessionAssumption DEF SentPublishes, Used, Slots
  <1> QED
    BY <1>1, IntervalSubset, Zenon

\* With fewer publications sent, the window is respected still.
LEMMA SentShrinks ==
    ASSUME NEW t \in [Slots -> Inflight \cup {NoEntry}],
           NEW u \in [Slots -> Inflight \cup {NoEntry}],
           SentPublishes(u) \subseteq SentPublishes(t),
           NEW r \in Nat, Cardinality(SentPublishes(t)) <= r
    PROVE  Cardinality(SentPublishes(u)) <= r
  <1>1. Cardinality(SentPublishes(u)) <= Cardinality(SentPublishes(t))
    BY SentFinite, FS_Subset
  <1> QED
    BY <1>1, SentFinite

\* Where the window is open one more may be sent.
LEMMA SentGrows ==
    ASSUME NEW t \in [Slots -> Inflight \cup {NoEntry}],
           NEW u \in [Slots -> Inflight \cup {NoEntry}],
           NEW s, SentPublishes(u) \subseteq SentPublishes(t) \cup {s},
           NEW r \in Nat, WindowOpen(t, r)
    PROVE  Cardinality(SentPublishes(u)) <= r
  <1>1. IsFiniteSet(SentPublishes(t)) /\ Cardinality(SentPublishes(t)) \in Nat
    BY SentFinite, Zenon
  <1>2. IsFiniteSet(SentPublishes(t) \cup {s})
        /\ Cardinality(SentPublishes(t) \cup {s}) <= Cardinality(SentPublishes(t)) + 1
        /\ Cardinality(SentPublishes(t) \cup {s}) \in Nat
    <2>1. CASE s \in SentPublishes(t)
      <3>1. SentPublishes(t) \cup {s} = SentPublishes(t)
        BY <2>1, Zenon
      <3>2. Cardinality(SentPublishes(t)) <= Cardinality(SentPublishes(t)) + 1
        BY <1>1
      <3> QED
        BY <1>1, <3>1, <3>2, Zenon
    <2>2. CASE s \notin SentPublishes(t)
      BY <1>1, <2>2, FS_AddElement
    <2> QED
      BY <2>1, <2>2, Zenon
  <1>3. Cardinality(SentPublishes(u)) <= Cardinality(SentPublishes(t) \cup {s})
        /\ Cardinality(SentPublishes(u)) \in Nat
    BY <1>2, FS_Subset, SentFinite
  <1>4. Cardinality(SentPublishes(t)) < r
    BY Zenon DEF WindowOpen
  <1> QED
    BY <1>1, <1>2, <1>3, <1>4

\* No step sends more than the window allows.
LEMMA WindowKept ==
    ASSUME Local, IInv', LinkGood', WindowStep
    PROVE  WithinWindow'
  <1>1. /\ inflight \in [Slots -> Inflight \cup {NoEntry}]
        /\ inflight' \in [Slots -> Inflight \cup {NoEntry}]
        /\ receive_maximum \in Nat /\ receive_maximum' \in Nat
    BY SessionAssumption, Zenon DEF Local, IInv, GoodTable, LinkGood
  <1>2. PrunedInflight \in [Slots -> Inflight \cup {NoEntry}]
    BY PrunedTableGood, Zenon DEF Local, GoodTable
  <1>3. CASE /\ receive_maximum' = receive_maximum
             /\ SentPublishes(inflight') \subseteq SentPublishes(inflight)
    <2>1. Cardinality(SentPublishes(inflight)) <= receive_maximum
      BY Zenon DEF Local, WithinWindow
    <2>2. Cardinality(SentPublishes(inflight')) <= receive_maximum
      BY <1>1, <1>3, <2>1, SentShrinks, Zenon
    <2> QED
      BY <1>3, <2>2, Zenon DEF WithinWindow, SentPublishes, Used
  <1>4. CASE SentPublishes(inflight') = {}
    <2>1. Cardinality(SentPublishes(inflight')) = 0
      BY <1>4, FS_EmptySet
    <2> QED
      BY <1>1, <2>1 DEF WithinWindow, SentPublishes, Used
  <1>5. CASE /\ receive_maximum' = receive_maximum
             /\ WindowOpen(PrunedInflight, receive_maximum)
             /\ \E s \in Slots : SentPublishes(inflight') \subseteq
                                  SentPublishes(PrunedInflight) \cup {s}
    <2>1. PICK s \in Slots : SentPublishes(inflight') \subseteq
                               SentPublishes(PrunedInflight) \cup {s}
      BY <1>5, Zenon
    <2>2. Cardinality(SentPublishes(inflight')) <= receive_maximum
      BY <1>1, <1>2, <1>5, <2>1, SentGrows, Zenon
    <2> QED
      BY <1>5, <2>2, Zenon DEF WithinWindow, SentPublishes, Used
  <1> QED
    BY <1>3, <1>4, <1>5, Zenon DEF WindowStep

\* What pruning and restoring leave behind is consistent.
LEMMA LocalReady == Local /\ Known => Ready /\ RestoresAll
  <1> SUFFICES ASSUME Local, Known
               PROVE  Ready /\ RestoresAll
    BY Zenon
  <1>1. IInv
    BY Zenon DEF Local
  <1>2. PrunedGood
    BY <1>1, PrunedTableGood, PrunedQueueGood, Zenon DEF PrunedGood
  <1>3. ASSUME NEW items \in Orders(MaxQueued), NEW order \in Orders(MaxInflight),
               SaveAndRestore(items, order)
        PROVE  Restored(order)
    <2>1. order \in Seq(Nat)
      BY SessionAssumption, OrderOfPositions
    <2> QED
      BY <1>1, <1>3, <2>1, RestoredEntry, Zenon
  <1> QED
    BY <1>2, <1>3, Zenon DEF Local, Ready, RestoresAll

\* A step of the broker or the client, with what it keeps.
LEMMA LocalStep ==
    ASSUME Local, Known, [DeliveryNext]_vars
    PROVE  /\ [Next]_sessionVars
           /\ Local'
           /\ Exchange!Next \/ UNCHANGED Exchange!vars
  <1>1. Ready /\ RestoresAll /\ IInv
    BY LocalReady, Zenon DEF Local
  <1>2. [Next]_sessionVars
    BY <1>1, SessionStep, Zenon
  <1>3. IInv'
    BY <1>1, <1>2, NextGood, Zenon
  <1>4. Implements
    BY <1>1, <1>3, DeliveryStep, Zenon
  <1>5. WithinWindow'
    BY <1>3, <1>4, WindowKept, Zenon DEF Implements
  <1> QED
    BY <1>2, <1>3, <1>4, <1>5, Zenon DEF Local, Implements

\* The exchange begins where the broker begins.
LEMMA DeliveryBegins == DeliveryInit => Local /\ Exchange!Init
  <1> SUFFICES ASSUME DeliveryInit
               PROVE  Local /\ Exchange!Init
    BY Zenon
  <1>1. /\ IInv /\ queued = <<>> /\ inflight = [s \in Slots |-> NoEntry]
        /\ packet_index = [p \in PacketIds |-> NoSlot] /\ expired = {}
    BY InitGood, Zenon DEF DeliveryInit, Init, Fresh
  <1>2. Live(<<>>) = {}
    BY DEF Live
  <1>3. Waiting(queued) = {} /\ Distinct(queued)
    BY <1>1, <1>2, Zenon DEF Waiting, Distinct
  <1>4. Entry = [p \in PacketIds |-> NoEntry]
    BY <1>1, Zenon DEF Entry, EntryOf
  <1>5. LinkGood
    BY <1>1, Zenon DEF DeliveryInit, LinkGood
  <1>6. SentPublishes(inflight) = {}
    BY <1>1, Zenon DEF SentPublishes, Used
  <1>7. Cardinality({}) = 0 /\ receive_maximum \in Nat
    BY FS_EmptySet, SessionAssumption DEF DeliveryInit
  <1>8. WithinWindow
    BY <1>6, <1>7 DEF WithinWindow
  <1>9. Exchange!Init
    BY <1>3, <1>4, Zenon DEF DeliveryInit, Exchange!Init
  <1> QED
    BY <1>1, <1>3, <1>5, <1>8, <1>9, Zenon DEF Local

-----------------------------------------------------------------------------
(* The invariant of the exchange.                                          *)

\* The proofs about the exchange, for the Session's transactions and queue.
XP == INSTANCE SessionExchangeProofs
        WITH waiting <- Waiting(queued), entry <- Entry

\* The inductive invariant: what the broker keeps, and the invariant of the
\* exchange.
DInv == Local /\ XP!Inv

\* The steps that SessionDelivery implements are the steps the proofs about the
\* exchange are about.
LEMMA SameNext == (Exchange!Next \/ UNCHANGED Exchange!vars) <=> [XP!Next]_XP!vars
  BY Zenon
  DEF Exchange!sessionVars, XP!sessionVars, Exchange!linkVars, XP!linkVars,
      Exchange!clientVars, XP!clientVars, Exchange!historyVars, XP!historyVars,
      Exchange!vars, XP!vars, Exchange!Route, XP!Route, Exchange!Prune,
      XP!Prune, Exchange!Interrupt, XP!Interrupt, Exchange!Resends, XP!Resends,
      Exchange!Promotes, XP!Promotes, Exchange!Transmits, XP!Transmits,
      Exchange!Take, XP!Take, Exchange!Write, XP!Write, Exchange!Discard,
      XP!Discard, Exchange!Expects, XP!Expects, Exchange!Advances, XP!Advances,
      Exchange!Acknowledge, XP!Acknowledge, Exchange!Disregard, XP!Disregard,
      Exchange!Answer, XP!Answer, Exchange!DeliverToApplication,
      XP!DeliverToApplication, Exchange!ClientTakesQoS1, XP!ClientTakesQoS1,
      Exchange!ClientTakesQoS2, XP!ClientTakesQoS2, Exchange!ClientRefusesQoS2,
      XP!ClientRefusesQoS2, Exchange!ClientReleases, XP!ClientReleases,
      Exchange!Next, XP!Next, Exchange!ManyTimes, XP!ManyTimes,
      Exchange!InflightState, XP!InflightState, Exchange!Inflight, XP!Inflight,
      Exchange!Packet, XP!Packet, Exchange!Owned, XP!Owned, Exchange!GoodTable,
      XP!GoodTable, Exchange!Publications, XP!Publications, Exchange!FirstState,
      XP!FirstState, Exchange!Keeps, XP!Keeps, Exchange!PrunesAt, XP!PrunesAt,
      Exchange!Prunes, XP!Prunes

\* What the steps of the broker need to know of the exchange.
LEMMA ExchangeKnown == XP!Inv => Known
  <1> SUFFICES ASSUME XP!Inv
               PROVE  Known
    BY Zenon
  <1>1. Waiting(queued) \subseteq enqueued
    BY Zenon DEF XP!Inv, XP!Exchange, XP!Always, XP!Unsent
  <1>2. toBroker \in Seq(Ack)
    BY Zenon DEF XP!Inv, XP!TypeOK, XP!Ack, Ack
  <1>3. holding # NoPacket => holding.packet_id \in Owned(Entry)
    BY Zenon DEF XP!Inv, XP!Exchange, XP!Always, XP!HoldsOwn, XP!Matches, XP!Owned, Owned
  <1> QED
    BY <1>1, <1>2, <1>3, Zenon DEF Known

\* The invariant holds at first.
LEMMA DeliveryBeginsWell == DeliveryInit => DInv
  <1>1. Exchange!Init => XP!Init
    BY Zenon DEF Exchange!Init, XP!Init
  <1> QED
    BY <1>1, DeliveryBegins, XP!InitHolds, Zenon DEF DInv

\* And every step keeps it.
LEMMA DeliveryKeeps == DInv /\ [DeliveryNext]_vars => DInv'
  <1> SUFFICES ASSUME DInv, [DeliveryNext]_vars
               PROVE  DInv'
    BY Zenon
  <1>1. Local' /\ (Exchange!Next \/ UNCHANGED Exchange!vars)
    BY ExchangeKnown, LocalStep DEF DInv
  <1>2. XP!Inv /\ [XP!Next]_XP!vars
    BY <1>1, SameNext, Zenon DEF DInv
  <1>3. XP!Inv'
    BY <1>2, XP!NextHolds, Zenon
  <1> QED
    BY <1>1, <1>3, Zenon DEF DInv

\* What the broker has forgotten, by slot and by identifier.
LEMMA ForgottenIsLost == IInv => Forgotten = XP!Lost(Entry)
  <1> SUFFICES ASSUME IInv
               PROVE  Forgotten = XP!Lost(Entry)
    BY Zenon
  <1>1. /\ \A s \in Used(inflight) : /\ inflight[s].packet_id \in Owned(Entry)
                                     /\ Entry[inflight[s].packet_id] = inflight[s]
        /\ \A p \in Owned(Entry) : /\ packet_index[p] \in Used(inflight)
                                   /\ Entry[p] = inflight[packet_index[p]]
    BY ViewOfTable DEF IInv, Entry
  <1>2. XP!Owned(Entry) = Owned(Entry)
    BY Zenon DEF XP!Owned, Owned
  <1>3. \A m : (\A s \in Used(inflight) : inflight[s].publish # m)
               <=> (\A p \in Owned(Entry) : Entry[p].publish # m)
    <2> TAKE m
    <2>1. ASSUME \A s \in Used(inflight) : inflight[s].publish # m
          PROVE  \A p \in Owned(Entry) : Entry[p].publish # m
      BY <1>1, <2>1
    <2>2. ASSUME \A p \in Owned(Entry) : Entry[p].publish # m
          PROVE  \A s \in Used(inflight) : inflight[s].publish # m
      BY <1>1, <2>2, Zenon
    <2> QED
      BY <2>1, <2>2, Zenon
  <1> QED
    BY <1>2, <1>3 DEF Forgotten, XP!Lost

\* A QoS 2 publication reaches the application at most once.
LEMMA DeliversOnce == DInv => ExactlyOnce
  BY SessionAssumption, Zenon
  DEF DInv, XP!Inv, XP!Exchange, XP!Always, XP!TakenOnce,
      ExactlyOnce

\* Where the broker has forgotten nothing, what is complete was delivered.
LEMMA CompletesDelivered == DInv => CompletedMeansDelivered
  <1> SUFFICES ASSUME DInv, Forgotten = {}
               PROVE  \A m \in completed : delivered[m] > 0
    BY Zenon DEF CompletedMeansDelivered
  <1>1. XP!Lost(Entry) = {}
    BY ForgottenIsLost, Zenon DEF DInv, Local
  <1>2. XP!ClientKnows(Entry)
    BY <1>1, Zenon DEF DInv, XP!Inv, XP!Exchange
  <1> QED
    BY <1>2, Zenon DEF XP!ClientKnows

\* Every publication the client has not answered occupies a slot of its own
\* that counts against the window.
LEMMA UnansweredCounted ==
    ASSUME DInv, XP!Tokens(Entry), NEW p \in Unanswered
    PROVE  /\ p \in PacketIds
           /\ packet_index[p] \in SentPublishes(inflight)
           /\ inflight[packet_index[p]].packet_id = p
  <1> DEFINE Counted == /\ p \in XP!Owned(Entry)
                        /\ ~Entry[p].needs_send
                        /\ Entry[p].state # "await_pubcomp"
  <1>1. toClient \in Seq(XP!Packet) /\ toBroker \in Seq(XP!Ack)
    BY Zenon DEF DInv, XP!Inv, XP!TypeOK
  <1>2. ASSUME NEW i \in 1..Len(toClient), toClient[i].kind = "publish",
               p = toClient[i].packet_id
        PROVE  Counted
    <2>1. i \in XP!At(XP!Pipe) /\ XP!Pipe[i] = toClient[i]
      BY <1>1 DEF XP!At, XP!Pipe
    <2>2. XP!Matches(Entry, toClient[i])
      BY <2>1, Zenon DEF XP!Tokens
    <2> QED
      BY <1>2, <2>2 DEF XP!Matches
  <1>3. ASSUME NEW i \in 1..Len(toBroker), toBroker[i].kind # "pubcomp",
               p = toBroker[i].packet_id
        PROVE  Counted
    <2>1. toBroker[i].kind \in {"puback", "pubrec", "refused"}
      <3>1. toBroker[i] \in XP!Ack
        BY <1>1, <1>3
      <3>2. toBroker[i].kind \in {"puback", "pubrec", "refused", "pubcomp"}
        BY <3>1, Zenon DEF XP!Ack
      <3> QED
        BY <1>3, <3>2, Zenon
    <2>2. XP!Answers(Entry, toBroker[i])
      BY <1>3, Zenon DEF XP!Tokens, XP!At
    <2> QED
      BY <1>3, <2>1, <2>2, Zenon DEF XP!Answers
  <1>4. Counted
    BY <1>2, <1>3, Zenon DEF Unanswered
  <1>5. p \in Owned(Entry) /\ p \in PacketIds
    BY <1>4, Zenon DEF XP!Owned, Owned
  <1>6. packet_index[p] \in Used(inflight) /\ Entry[p] = inflight[packet_index[p]]
    BY <1>5, ViewOfTable DEF DInv, Local, IInv, Entry
  <1>7. inflight[packet_index[p]].packet_id = p
    BY <1>5, <1>6, ViewOfTable DEF DInv, Local, IInv, Entry, GoodView
  <1> QED
    BY <1>4, <1>5, <1>6, <1>7 DEF SentPublishes

\* What the client has not answered is sent and counted, so the window bounds it.
LEMMA RespectsMaximum == DInv => ReceiveMaximumRespected
  <1> SUFFICES ASSUME DInv, Forgotten \cap Expirable = {}
               PROVE  Cardinality(Unanswered) <= receive_maximum
    BY Zenon DEF ReceiveMaximumRespected
  <1>1. XP!Tokens(Entry)
    BY ForgottenIsLost DEF DInv, Local, XP!Inv, XP!Exchange
  <1> DEFINE f == [p \in Unanswered |-> packet_index[p]]
  <1>2. f \in [Unanswered -> SentPublishes(inflight)]
    BY <1>1, UnansweredCounted, Zenon
  <1>3. \A p, q \in Unanswered : f[p] = f[q] => p = q
    BY <1>1, UnansweredCounted, Zenon
  <1>4. f \in Injection(Unanswered, SentPublishes(inflight))
    BY <1>2, <1>3 DEF Injection, IsInjective
  <1>5. /\ IsFiniteSet(SentPublishes(inflight))
        /\ Cardinality(SentPublishes(inflight)) \in Nat
    BY SentFinite DEF DInv, Local, IInv, GoodTable
  <1> HIDE DEF f
  <1>6. /\ IsFiniteSet(Unanswered)
        /\ Cardinality(Unanswered) <= Cardinality(SentPublishes(inflight))
    BY <1>4, <1>5, FS_Injection
  <1>7. /\ Cardinality(Unanswered) \in Nat
        /\ receive_maximum \in Nat
        /\ Cardinality(SentPublishes(inflight)) <= receive_maximum
    BY <1>6, FS_CardinalityType, SessionAssumption DEF DInv, Local, LinkGood, WithinWindow
  <1> QED
    BY <1>5, <1>6, <1>7

-----------------------------------------------------------------------------
(* The theorems.                                                           *)

\* Whatever connections, takeovers, failed writes, expiry, restarts and answers
\* of the client are interleaved, the slots, the queue and the connection stay
\* consistent with one another and with what the client knows.
THEOREM DeliveryInvariant == DeliverySpec => []DInv
  BY DeliveryBeginsWell, DeliveryKeeps, PTL DEF DeliverySpec

\* drainInto, handleAck, retryUnsentPublish, dropOversizedPublish, open,
\* disconnect and the snapshot, with their slots, index, queue and cursor,
\* implement the exchange of SessionExchange.
THEOREM DeliveryRefines == DeliverySpec => RefinesExchange
  <1>1. DeliveryInit => Exchange!Init
    BY DeliveryBegins, Zenon
  <1>2. DInv /\ [DeliveryNext]_vars => [Exchange!Next]_Exchange!vars
    BY ExchangeKnown, LocalStep, Zenon DEF DInv
  <1> QED
    BY <1>1, <1>2, DeliveryInvariant, PTL
    DEF DeliverySpec, RefinesExchange, Exchange!Spec

\* All of that uses the Session through Store's operations, as SessionState has
\* them: acknowledgements and rollbacks name identifiers in range, and drains
\* the Receive Maximum of the connection.  What SessionStateProofs proves of
\* those operations therefore holds of a Session in use.
THEOREM DeliveryUsesStore == DeliverySpec => Spec
  <1>1. DeliveryInit => Init
    BY Zenon DEF DeliveryInit
  <1>2. DInv /\ [DeliveryNext]_vars => [Next]_sessionVars
    BY ExchangeKnown, LocalStep, Zenon DEF DInv
  <1> QED
    BY <1>1, <1>2, DeliveryInvariant, PTL DEF DeliverySpec, Spec

\* A QoS 2 publication reaches the application at most once, over any
\* reconnects, takeovers, retransmissions and restarts.
THEOREM ExactlyOnceDelivery == DeliverySpec => []ExactlyOnce
  BY DeliveryInvariant, DeliversOnce, PTL

\* The broker takes a publication for acknowledged only after the application
\* has it, as long as expiry or dropOversizedPublish has forgotten none.
THEOREM CompletionAfterDelivery == DeliverySpec => []CompletedMeansDelivered
  BY DeliveryInvariant, CompletesDelivered, PTL

\* The client never has more publications unanswered than its Receive Maximum,
\* as long as expiry has forgotten none of those it received.
THEOREM ReceiveMaximumKept == DeliverySpec => []ReceiveMaximumRespected
  BY DeliveryInvariant, RespectsMaximum, PTL

=============================================================================

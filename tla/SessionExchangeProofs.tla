----------------------- MODULE SessionExchangeProofs ------------------------
(***************************************************************************)
(* The invariant of SessionExchange, for every set of messages and packet  *)
(* identifiers and connections of any length: a packet or an               *)
(* acknowledgement under way belongs to the transaction of its identifier, *)
(* and the client knows what it has delivered.  First the sending half of  *)
(* the exchange: transactions may vanish, packets and acknowledgements may *)
(* be lost, and a packet is taken for a transaction.  Then the answering   *)
(* half, the loss of the connection, and the theorem.                      *)
(***************************************************************************)
EXTENDS SessionExchange, TLAPS

At(s) == 1..Len(s)

\* What the writer holds goes behind what is on the connection already.
Pipe == IF holding = NoPacket THEN toClient ELSE Append(toClient, holding)

-----------------------------------------------------------------------------
(* The inductive invariant.                                                *)

TypeOK ==
    /\ waiting \subseteq Messages
    /\ GoodTable(entry)
    /\ holding \in Packet \cup {NoPacket}
    /\ toClient \in Seq(Packet)
    /\ toBroker \in Seq(Ack)
    /\ received \subseteq PacketIds
    /\ delivered \in [Messages -> 0..ManyTimes]
    /\ enqueued \subseteq Messages
    /\ completed \subseteq Messages

\* Nothing has happened to a message yet.
Untouched(m, E) ==
    /\ delivered[m] = 0
    /\ m \notin written \cup completed \cup refused
    /\ \A p \in Owned(E) : E[p].publish # m
    /\ \A i \in At(Pipe) : Pipe[i].publish # m

Unsent(W, E) ==
    /\ W \subseteq enqueued
    /\ \A m \in Messages : m \notin enqueued \/ m \in W => Untouched(m, E)

\* A message goes by one identifier.
OneIdentifier(E) ==
    /\ \A p, q \in Owned(E) : E[p].publish = E[q].publish => p = q
    /\ \A p \in Owned(E), i \in At(Pipe) :
          Pipe[i].publish = E[p].publish => Pipe[i].packet_id = p
    /\ \A i, j \in At(Pipe) :
          Pipe[i].publish = Pipe[j].publish
            => Pipe[i].packet_id = Pipe[j].packet_id

StillOpen(E) == \A p \in Owned(E) : E[p].publish \notin completed \cup refused

\* A PUBREL or PUBCOMP under way belongs to a transaction that waits for it.
Released(E, p) ==
    p \in Owned(E) /\ E[p].state = "await_pubcomp" /\ ~E[p].needs_send

ReleasesOwed(E) ==
    /\ \A i \in At(Pipe) :
          Pipe[i].kind = "pubrel" => Released(E, Pipe[i].packet_id)
    /\ \A i \in At(toBroker) :
          toBroker[i].kind = "pubcomp" => Released(E, toBroker[i].packet_id)

\* There is one PUBREL or PUBCOMP of an identifier at a time, and nothing
\* else of that identifier follows a PUBREL.
ReleasedOnce ==
    /\ \A i, j \in At(Pipe) :
          i < j /\ Pipe[i].kind = "pubrel"
            => Pipe[i].packet_id # Pipe[j].packet_id
    /\ \A i, j \in At(toBroker) :
          /\ toBroker[i].kind = "pubcomp" /\ toBroker[j].kind = "pubcomp"
          /\ toBroker[i].packet_id = toBroker[j].packet_id
          => i = j
    /\ \A i \in At(Pipe), j \in At(toBroker) :
          Pipe[i].kind = "pubrel" /\ toBroker[j].kind = "pubcomp"
            => Pipe[i].packet_id # toBroker[j].packet_id

\* As long as a QoS 2 publication may reach the client again, the client
\* remembers the identifier of one it has delivered.
TakenOnce(E) ==
    /\ \A m \in Messages : m \in QoS2Messages => delivered[m] <= 1
    /\ \A i \in At(Pipe) :
          /\ Pipe[i].kind = "publish"
          /\ Pipe[i].publish \in QoS2Messages
          /\ delivered[Pipe[i].publish] > 0
          => Pipe[i].packet_id \in received
    /\ \A p \in Owned(E) :
          E[p].state = "await_pubrec" /\ delivered[E[p].publish] > 0
            => p \in received

WrittenFirst ==
    /\ \A i \in At(toClient) :
          toClient[i].kind = "publish" => toClient[i].publish \in written
    /\ \A m \in Messages : delivered[m] > 0 => m \in written

\* A packet is the current transmission of the transaction it belongs to.
Matches(E, packet) ==
    /\ packet.packet_id \in Owned(E)
    /\ E[packet.packet_id].publish = packet.publish
    /\ ~E[packet.packet_id].needs_send
    /\ packet.kind = "publish" <=> E[packet.packet_id].state # "await_pubcomp"

HoldsOwn(E) == holding # NoPacket => Matches(E, holding)

\* What holds whatever the broker forgets.
Always(W, E) ==
    /\ Unsent(W, E) /\ OneIdentifier(E) /\ StillOpen(E)
    /\ ReleasesOwed(E) /\ ReleasedOnce /\ TakenOnce(E)
    /\ WrittenFirst /\ HoldsOwn(E)

\* Forgotten, by identifier.
Lost(E) ==
    {m \in written \ (completed \cup refused) :
        \A p \in Owned(E) : E[p].publish # m}

\* An acknowledgement is the one its transaction waits for.
Answers(E, ack) ==
    /\ ack.packet_id \in Owned(E)
    /\ ~E[ack.packet_id].needs_send
    /\ ack.kind = "puback" => E[ack.packet_id].state = "await_puback"
    /\ ack.kind \in {"pubrec", "refused"} => E[ack.packet_id].state = "await_pubrec"
    /\ ack.kind = "pubcomp" => E[ack.packet_id].state = "await_pubcomp"

\* Its publication was written.
WrittenToo(E, ack) ==
    ack.kind # "pubcomp" => E[ack.packet_id].publish \in written

OneToken ==
    /\ \A i, j \in At(Pipe) : Pipe[i].packet_id = Pipe[j].packet_id => i = j
    /\ \A i, j \in At(toBroker) :
          toBroker[i].packet_id = toBroker[j].packet_id => i = j
    /\ \A i \in At(Pipe), j \in At(toBroker) :
          Pipe[i].packet_id # toBroker[j].packet_id

\* Every packet and acknowledgement under way is the only one of its
\* transaction.
Tokens(E) ==
    /\ \A i \in At(Pipe) : Matches(E, Pipe[i])
    /\ \A i \in At(toBroker) : Answers(E, toBroker[i])
    /\ \A i \in At(toBroker) : WrittenToo(E, toBroker[i])
    /\ OneToken

\* The client remembers only identifiers of publications it has delivered and
\* the broker still owns, and answers only what it has delivered.
ClientKnows(E) ==
    /\ \A p \in received : /\ p \in Owned(E)
                           /\ E[p].publish \in QoS2Messages
                           /\ delivered[E[p].publish] > 0
    /\ \A p \in Owned(E) :
          E[p].state = "await_pubcomp" => delivered[E[p].publish] > 0
    /\ \A i \in At(toBroker) :
          LET p == toBroker[i].packet_id IN
          /\ toBroker[i].kind # "refused" => delivered[E[p].publish] > 0
          /\ toBroker[i].kind \in {"refused", "pubcomp"} => p \notin received
    /\ \A m \in completed : delivered[m] > 0

Exchange(W, E) ==
    /\ Always(W, E)
    /\ Lost(E) \cap Expirable = {} => Tokens(E)
    /\ Lost(E) = {} => ClientKnows(E)

Inv == TypeOK /\ Exchange(waiting, entry)

-----------------------------------------------------------------------------
(* Lemmas.                                                                 *)

\* Appending to a sequence.
LEMMA AppendFacts ==
    ASSUME NEW S, NEW s \in Seq(S), NEW e \in S
    PROVE  /\ Append(s, e) \in Seq(S)
           /\ At(Append(s, e)) = At(s) \cup {Len(s) + 1}
           /\ Len(s) + 1 \notin At(s)
           /\ Append(s, e)[Len(s) + 1] = e
           /\ \A i \in At(s) : Append(s, e)[i] = s[i] /\ i < Len(s) + 1
  BY DEF At

\* Transactions that vanish take their written publications to Lost; no other
\* message leaves it.
LEMMA LostGrows ==
    ASSUME NEW E, NEW F, Keeps(E, F), NEW W, Always(W, E)
    PROVE  /\ Lost(E) \subseteq Lost(F)
           /\ \A p \in Owned(E) \ Owned(F) :
                E[p].publish \in written => E[p].publish \in Lost(F)
  <1>1. Lost(E) \subseteq Lost(F)
    BY Zenon DEF Lost, Keeps
  <1>2. ASSUME NEW p \in Owned(E) \ Owned(F), E[p].publish \in written
        PROVE  E[p].publish \in Lost(F)
    <2>1. E[p].publish \notin completed \cup refused
      BY Zenon DEF Always, StillOpen
    <2>2. \A q \in Owned(F) : F[q].publish # E[p].publish
      BY <1>2, Zenon DEF Always, OneIdentifier, Keeps
    <2> QED
      BY <1>2, <2>1, <2>2, Zenon DEF Lost
  <1> QED
    BY <1>1, <1>2, Zenon

\* pruneExpiredPublishes, while no packet is held.
LEMMA PruneKeeps ==
    ASSUME NEW E, NEW F, NEW W, NEW V,
           GoodTable(E), GoodTable(F), Prunes(E, F), V \subseteq W,
           TypeOK, holding = NoPacket, Exchange(W, E)
    PROVE  Exchange(V, F)
  <1>1. \A p \in Owned(F) : p \in Owned(E) /\ F[p] = E[p]
    BY Zenon DEF Prunes, PrunesAt, Owned
  <1>2. Keeps(E, F)
    BY <1>1, Zenon DEF Keeps
  <1>3. Always(W, E) /\ Pipe = toClient
    BY Zenon DEF Exchange, Pipe
  <1>4. /\ Lost(E) \subseteq Lost(F)
        /\ \A p \in Owned(E) \ Owned(F) :
             E[p].publish \in written => E[p].publish \in Lost(F)
    BY <1>2, <1>3, LostGrows, Zenon
  <1>5. \A p \in Owned(E) \ Owned(F) :
           E[p].state # "await_pubcomp" /\ E[p].publish \in Expirable
    BY Zenon DEF Prunes, PrunesAt, Owned
  <1>6. \A p : Released(E, p) => Released(F, p)
    BY <1>1, <1>5, Zenon DEF Released
  <1>7. Always(V, F)
    <2>1. Unsent(V, F)
      <3>1. \A m \in Messages : Untouched(m, E) => Untouched(m, F)
        BY <1>1, Zenon DEF Untouched
      <3> QED
        BY <1>3, <3>1, Zenon DEF Always, Unsent
    <2>2. OneIdentifier(F)
      <3>1. OneIdentifier(E)
        BY <1>3, Zenon DEF Always
      <3> QED
        BY <1>1, <3>1 DEF OneIdentifier
    <2>3. StillOpen(F)
      BY <1>1, <1>3, Zenon DEF Always, StillOpen
    <2>4. ReleasesOwed(F)
      BY <1>3, <1>6, Zenon DEF Always, ReleasesOwed
    <2>5. TakenOnce(F)
      BY <1>1, <1>3, Zenon DEF Always, TakenOnce
    <2>6. HoldsOwn(F)
      BY Zenon DEF HoldsOwn
    <2> QED
      BY <1>3, <2>1, <2>2, <2>3, <2>4, <2>5, <2>6, Zenon DEF Always
  <1>8. ASSUME Lost(F) \cap Expirable = {}
        PROVE  Tokens(F)
    <2>1. Tokens(E)
      BY <1>4, <1>8, Zenon DEF Exchange
    <2>2. \A i \in At(Pipe) : Pipe[i].packet_id \in Owned(F)
      <3> TAKE i \in At(Pipe)
      <3>1. Matches(E, Pipe[i])
        BY <2>1, Zenon DEF Tokens
      <3>2. SUFFICES ASSUME Pipe[i].packet_id \in Owned(E) \ Owned(F)
                     PROVE  FALSE
        BY <3>1, Zenon DEF Matches
      <3>3. Pipe[i].kind = "publish"
        BY <1>5, <3>1, <3>2, Zenon DEF Matches
      <3>4. Pipe[i].publish \in written
        BY <1>3, <3>3, Zenon DEF Always, WrittenFirst
      <3> QED
        BY <1>4, <1>5, <1>8, <3>1, <3>2, <3>4, Zenon DEF Matches
    <2>3. \A i \in At(toBroker) : toBroker[i].packet_id \in Owned(F)
      <3> TAKE i \in At(toBroker)
      <3>1. Answers(E, toBroker[i]) /\ WrittenToo(E, toBroker[i])
        BY <2>1, Zenon DEF Tokens
      <3>2. SUFFICES ASSUME toBroker[i].packet_id \in Owned(E) \ Owned(F)
                     PROVE  FALSE
        BY <3>1, Zenon DEF Answers
      <3>3. E[toBroker[i].packet_id].publish \in written
        BY <1>5, <3>1, <3>2, Zenon DEF Answers, WrittenToo
      <3> QED
        BY <1>4, <1>5, <1>8, <3>2, <3>3, Zenon
    <2> QED
      BY <1>1, <2>1, <2>2, <2>3, Zenon DEF Tokens, Matches, Answers, WrittenToo
  <1>9. ASSUME Lost(F) = {}
        PROVE  ClientKnows(F)
    <2>1. ClientKnows(E)
      BY <1>4, <1>9, Zenon DEF Exchange
    <2>2. \A p \in received : p \in Owned(F)
      <3> SUFFICES ASSUME NEW p \in received, p \notin Owned(F)
                   PROVE  FALSE
        BY Zenon
      <3>1. p \in Owned(E) /\ delivered[E[p].publish] > 0
        BY <2>1, Zenon DEF ClientKnows
      <3>2. E[p].publish \in Messages
        BY <3>1, Zenon DEF GoodTable, Inflight
      <3>3. E[p].publish \in written
        BY <1>3, <3>1, <3>2, Zenon DEF Always, WrittenFirst
      <3> QED
        BY <1>4, <1>9, <3>1, <3>3, Zenon
    <2>3. \A i \in At(toBroker) : toBroker[i].packet_id \in Owned(F)
      <3>1. Tokens(F)
        BY <1>8, <1>9, Zenon
      <3> QED
        BY <3>1, Zenon DEF Tokens, Answers
    <2> QED
      BY <1>1, <2>1, <2>2, <2>3, Zenon DEF ClientKnows
  <1> QED
    BY <1>7, <1>8, <1>9, Zenon DEF Exchange

\* enqueuePublish of a message that was never routed here before.
LEMMA EnqueueKeeps ==
    ASSUME NEW m \in Messages, m \notin enqueued,
           waiting' \subseteq waiting \cup {m},
           enqueued' = enqueued \cup {m},
           entry' = entry,
           Exchange(waiting, entry),
           UNCHANGED <<holding, toClient, toBroker, received, delivered, written,
                       completed, refused>>
    PROVE  Exchange(waiting, entry)'
  <1>1. Always(waiting, entry)
    BY Zenon DEF Exchange
  <1>2. Pipe' = Pipe /\ Owned(entry)' = Owned(entry) /\ Lost(entry)' = Lost(entry)
    BY Zenon DEF Pipe, Owned, Lost
  <1>3. Unsent(waiting, entry)'
    <2>1. \A k \in Messages : Untouched(k, entry) => Untouched(k, entry)'
      BY <1>2, Zenon DEF Untouched
    <2> QED
      BY <1>1, <2>1, Zenon DEF Always, Unsent
  <1>4. OneIdentifier(entry)' /\ StillOpen(entry)' /\ WrittenFirst'
    BY <1>1, <1>2 DEF Always, OneIdentifier, StillOpen, WrittenFirst
  <1>5. ReleasesOwed(entry)' /\ ReleasedOnce' /\ TakenOnce(entry)' /\ HoldsOwn(entry)'
    BY <1>1, <1>2 DEF Always, ReleasesOwed, Released, ReleasedOnce, TakenOnce,
                      HoldsOwn, Matches
  <1>6. Tokens(entry)' = Tokens(entry) /\ ClientKnows(entry)' = ClientKnows(entry)
    BY <1>2 DEF Tokens, Matches, Answers, WrittenToo, OneToken, ClientKnows
  <1>7. Always(waiting, entry)'
    BY <1>3, <1>4, <1>5, Zenon DEF Always
  <1> QED
    BY <1>2, <1>6, <1>7, Zenon DEF Exchange

\* The transaction of p is due for transmission: marked to be sent again, or
\* about to be made from a waiting message.
Due(W, E, p, e) ==
    \/ /\ p \in Owned(E)
       /\ E[p].needs_send
       /\ e.publish = E[p].publish
       /\ e.state = E[p].state
       /\ waiting' \subseteq W
    \/ /\ p \notin Owned(E)
       /\ e.publish \in W
       /\ e.state = FirstState(e.publish)
       /\ waiting' \subseteq W \ {e.publish}

\* The writer holds at most one packet behind those on the connection.
LEMMA PipeLength ==
    ASSUME TypeOK
    PROVE  Pipe \in Seq(Packet) /\ Len(Pipe) \in Nat
  BY DEF TypeOK, Pipe

\* A packet that is taken queues behind those on the wire.
LEMMA TakeFacts ==
    ASSUME TypeOK, holding = NoPacket, holding' \in Packet, holding' # NoPacket,
           toClient' = toClient
    PROVE  /\ At(Pipe') = At(Pipe) \cup {Len(Pipe) + 1}
           /\ Len(Pipe) + 1 \notin At(Pipe)
           /\ Pipe'[Len(Pipe) + 1] = holding'
           /\ \A i \in At(Pipe) : Pipe'[i] = Pipe[i] /\ i < Len(Pipe) + 1
  <1>1. Pipe = toClient /\ Pipe' = Append(Pipe, holding') /\ Pipe \in Seq(Packet)
    BY Zenon DEF Pipe, TypeOK
  <1> QED
    BY <1>1 DEF At

\* takeSessionPacketLocked: the packet is the only one of its transaction.
LEMMA TakeKeeps ==
    ASSUME NEW W, NEW E, GoodTable(E), W \subseteq Messages,
           NEW p \in PacketIds, NEW e \in Inflight,
           entry' = [E EXCEPT ![p] = e],
           e.packet_id = p, ~e.needs_send, Due(W, E, p, e),
           e.state = "await_puback" <=> e.publish \notin QoS2Messages,
           TypeOK, Exchange(W, E),
           holding = NoPacket,
           holding'.kind = (IF e.state = "await_pubcomp" THEN "pubrel" ELSE "publish"),
           holding'.packet_id = p,
           holding'.publish = e.publish,
           holding' \in Packet, holding' # NoPacket, p \in Owned(entry'),
           UNCHANGED <<toClient, toBroker, received, delivered, enqueued, written,
                       completed, refused>>
    PROVE  Exchange(waiting, entry)'
  <1> DEFINE k == holding'
             F == entry'
             n == Len(Pipe) + 1
  <1>1. Always(W, E)
    BY Zenon DEF Exchange
  <1>2. /\ At(Pipe') = At(Pipe) \cup {n} /\ n \notin At(Pipe) /\ Pipe'[n] = k
        /\ \A i \in At(Pipe) : Pipe'[i] = Pipe[i] /\ i < n
    BY TakeFacts, Zenon
  <1>3. /\ At(Pipe') = At(Pipe) \cup {n} /\ n \notin At(Pipe) /\ Pipe'[n] = k
        /\ \A i \in At(Pipe) : Pipe'[i] = Pipe[i] /\ i < n
        /\ ~(n < n) /\ \A i \in At(Pipe) : ~(n < i)
    <2>1. ~(n < n) /\ \A i \in At(Pipe) : ~(n < i)
      BY PipeLength DEF At
    <2> QED
      BY <1>2, <2>1, Zenon
  <1>4. /\ Owned(F) = Owned(E) \cup {p} /\ F[p] = e
        /\ \A q \in Owned(E) : q # p => F[q] = E[q]
        /\ \A q \in Owned(F) : q # p => q \in Owned(E)
        /\ Owned(entry)' = Owned(F)
    BY Zenon DEF Owned, GoodTable
  <1>5. ~Released(E, p)
    BY Zenon DEF Released, Due
  <1>6. e.publish \in Messages /\ e.state \in InflightState
    BY Zenon DEF Inflight
  <1> HIDE DEF k, F, n
  <1>7. Unsent(waiting, entry)'
    <2>1. waiting' \subseteq W
      BY Zenon DEF Due
    <2>2. ASSUME NEW m \in Messages, m \notin enqueued \/ m \in waiting'
          PROVE  Untouched(m, E) /\ e.publish # m
      <3>1. m \notin enqueued \/ m \in W
        BY <2>1, <2>2, Zenon
      <3>2. Untouched(m, E)
        BY <1>1, <3>1, Zenon DEF Always, Unsent
      <3>3. W \subseteq enqueued
        BY <1>1, Zenon DEF Always, Unsent
      <3> QED
        BY <2>2, <3>2, <3>3, Zenon DEF Untouched, Due
    <2>3. ASSUME NEW m \in Messages, Untouched(m, E), e.publish # m
          PROVE  Untouched(m, entry)'
      <3>1. \A q \in Owned(F) : F[q].publish # m
        BY <1>4, <2>3, Zenon DEF Untouched
      <3>2. \A i \in At(Pipe') : Pipe'[i].publish # m
        BY <1>3, <2>3, Zenon DEF Untouched, k
      <3> QED
        BY <1>4, <2>3, <3>1, <3>2, Zenon DEF Untouched, F
    <2>4. W \subseteq enqueued
      BY <1>1, Zenon DEF Always, Unsent
    <2> QED
      BY <2>1, <2>2, <2>3, <2>4, Zenon DEF Unsent
  <1>8. /\ \A q \in Owned(E) : E[q].publish = e.publish => q = p
        /\ \A i \in At(Pipe) : Pipe[i].publish = e.publish => Pipe[i].packet_id = p
    <2>1. CASE p \in Owned(E)
      <3>1. e.publish = E[p].publish
        BY <2>1, Zenon DEF Due
      <3> QED
        BY <1>1, <2>1, <3>1 DEF Always, OneIdentifier
    <2>2. CASE p \notin Owned(E)
      <3>1. Untouched(e.publish, E)
        BY <1>1, <1>6, <2>2, Zenon DEF Due, Always, Unsent
      <3> QED
        BY <3>1, Zenon DEF Untouched
    <2> QED
      BY <2>1, <2>2, Zenon
  <1>9. OneIdentifier(entry)'
    <2>1. \A q, r \in Owned(F) : F[q].publish = F[r].publish => q = r
      BY <1>1, <1>4, <1>8 DEF Always, OneIdentifier
    <2>2. \A q \in Owned(F), i \in At(Pipe') :
             Pipe'[i].publish = F[q].publish => Pipe'[i].packet_id = q
      BY <1>1, <1>3, <1>4, <1>8 DEF Always, OneIdentifier, k
    <2>3. \A i, j \in At(Pipe') : Pipe'[i].publish = Pipe'[j].publish
                                    => Pipe'[i].packet_id = Pipe'[j].packet_id
      BY <1>1, <1>3, <1>8 DEF Always, OneIdentifier, k
    <2> QED
      BY <1>4, <2>1, <2>2, <2>3, Zenon DEF OneIdentifier, F
  <1>10. StillOpen(entry)'
    <2>1. e.publish \notin completed \cup refused
      BY <1>1, <1>6, Zenon DEF Always, StillOpen, Unsent, Untouched, Due
    <2> QED
      BY <1>1, <1>4, <2>1, Zenon DEF Always, StillOpen, F
  <1>11. \A q : Released(E, q) => Released(entry, q)'
    BY <1>4, <1>5, Zenon DEF Released, F
  <1>12. ReleasesOwed(entry)'
    <2>1. k.kind = "pubrel" => Released(entry, p)'
      BY <1>4, Zenon DEF Released, k, F
    <2> QED
      BY <1>1, <1>3, <1>11, <2>1, Zenon DEF Always, ReleasesOwed, k
  <1>13. /\ \A i \in At(Pipe) : Pipe[i].kind = "pubrel" => Pipe[i].packet_id # p
         /\ \A i \in At(toBroker) :
               toBroker[i].kind = "pubcomp" => toBroker[i].packet_id # p
    BY <1>1, <1>5, Zenon DEF Always, ReleasesOwed
  <1>14. ReleasedOnce'
    BY <1>1, <1>3, <1>13 DEF Always, ReleasedOnce, k
  <1>15. TakenOnce(entry)'
    <2>1. e.state # "await_puback" /\ e.state # "await_pubcomp"
            => e.state = "await_pubrec"
      BY <1>6, Zenon DEF InflightState
    <2>2. e.state = "await_pubrec" /\ delivered[e.publish] > 0 => p \in received
      <3>1. CASE p \in Owned(E)
        BY <1>1, <3>1, Zenon DEF Due, Always, TakenOnce
      <3>2. CASE p \notin Owned(E)
        <4>1. delivered[e.publish] = 0
          BY <1>1, <1>6, <3>2, Zenon DEF Due, Always, Unsent, Untouched
        <4> QED
          BY <4>1
      <3> QED
        BY <3>1, <3>2, Zenon
    <2>3. k.kind = "publish" /\ k.publish \in QoS2Messages
            => e.state = "await_pubrec"
      BY <2>1, Zenon DEF k
    <2> QED
      BY <1>1, <1>3, <1>4, <2>2, <2>3, Zenon DEF Always, TakenOnce, k, F
  <1>16. WrittenFirst'
    BY <1>1, Zenon DEF Always, WrittenFirst
  <1>17. Matches(entry', k)
    BY <1>4, Zenon DEF Matches, k, F
  <1>18. HoldsOwn(entry)'
    BY <1>17, Zenon DEF HoldsOwn, Matches, Owned, k
  <1>19. Lost(E) \subseteq Lost(entry)'
    <2> SUFFICES ASSUME NEW m \in Lost(E)
                 PROVE  m # e.publish
      <3>1. \A m \in Lost(E) : m # e.publish => \A q \in Owned(F) : F[q].publish # m
        BY <1>4, Zenon DEF Lost
      <3> QED
        BY <1>4, <3>1, Zenon DEF Lost, F
    <2>1. CASE p \in Owned(E)
      BY <2>1, Zenon DEF Due, Lost
    <2>2. CASE p \notin Owned(E)
      <3>1. e.publish \notin written
        BY <1>1, <1>6, <2>2, Zenon DEF Due, Always, Unsent, Untouched
      <3> QED
        BY <3>1, Zenon DEF Lost
    <2> QED
      BY <2>1, <2>2, Zenon
  <1>20. (Lost(entry) \cap Expirable = {} => Tokens(entry))'
    <2> SUFFICES ASSUME (Lost(entry) \cap Expirable)' = {}
                 PROVE  Tokens(entry)'
      BY Zenon
    <2>1. Tokens(E)
      BY <1>19, Zenon DEF Exchange
    <2>2. p \in Owned(E) => E[p].needs_send
      BY Zenon DEF Due
    <2>3. /\ \A i \in At(Pipe) : Pipe[i].packet_id # p
          /\ \A i \in At(toBroker) : toBroker[i].packet_id # p
      BY <2>1, <2>2, Zenon DEF Tokens, Matches, Answers
    <2>4. \A i \in At(Pipe') : Matches(F, Pipe'[i])
      <3>1. \A i \in At(Pipe) : Matches(F, Pipe[i])
        BY <1>4, <2>1, <2>3, Zenon DEF Tokens, Matches
      <3> QED
        BY <1>3, <1>17, <3>1, Zenon DEF F
    <2>5. \A i \in At(toBroker) : Answers(F, toBroker[i])
      BY <1>4, <2>1, <2>3, Zenon DEF Tokens, Answers
    <2>6. \A i \in At(toBroker) : WrittenToo(F, toBroker[i])
      BY <1>4, <2>1, <2>3, Zenon DEF Tokens, Answers, WrittenToo
    <2>7. OneToken'
      BY <1>3, <2>1, <2>3 DEF Tokens, OneToken, k
    <2>8. toBroker' = toBroker /\ written' = written
      BY Zenon
    <2> QED
      BY <2>4, <2>5, <2>6, <2>7, <2>8, Zenon DEF Tokens, WrittenToo, F
  <1>21. (Lost(entry) = {} => ClientKnows(entry))'
    <2> SUFFICES ASSUME Lost(entry)' = {}
                 PROVE  ClientKnows(entry)'
      BY Zenon
    <2>1. ClientKnows(E) /\ Tokens(E)
      BY <1>19, Zenon DEF Exchange
    <2>2. \A i \in At(toBroker) : /\ toBroker[i].packet_id # p
                                  /\ toBroker[i].packet_id \in Owned(E)
      BY <2>1, Zenon DEF Tokens, Answers, Due
    <2>3. \A q \in Owned(E) : F[q].publish = E[q].publish
      BY <1>4, Zenon DEF Due
    <2>4. \A q \in Owned(F) : F[q].state = "await_pubcomp" => delivered[F[q].publish] > 0
      BY <1>4, <2>1, Zenon DEF Due, FirstState, ClientKnows
    <2> QED
      <3>2. \A q \in received : /\ q \in Owned(F)
                               /\ F[q].publish \in QoS2Messages
                               /\ delivered[F[q].publish] > 0
        BY <1>4, <2>1, <2>3, Zenon DEF ClientKnows
      <3>3. \A i \in At(toBroker) :
               /\ toBroker[i].kind # "refused"
                    => delivered[F[toBroker[i].packet_id].publish] > 0
               /\ toBroker[i].kind \in {"refused", "pubcomp"}
                    => toBroker[i].packet_id \notin received
        BY <2>1, <2>2, <2>3, Zenon DEF ClientKnows
      <3>4. \A m \in completed : delivered[m] > 0
        BY <2>1, Zenon DEF ClientKnows
      <3> QED
        BY <1>4, <2>4, <3>2, <3>3, <3>4, Zenon DEF ClientKnows, F
  <1>22. Always(waiting, entry)'
    BY <1>7, <1>9, <1>10, <1>12, <1>14, <1>15, <1>16, <1>18, Zenon DEF Always
  <1> QED
    BY <1>20, <1>21, <1>22, Zenon DEF Exchange

\* Some packet or acknowledgement of q is under way.
Busy(pipe, acks, q) ==
    \/ \E i \in At(pipe) : pipe[i].packet_id = q
    \/ \E i \in At(acks) : acks[i].packet_id = q

\* Packets and acknowledgements only disappear.
Fewer(up, down) ==
    /\ \A i \in At(Pipe') : up[i] \in At(Pipe) /\ Pipe'[i] = Pipe[up[i]]
    /\ \A i, j \in At(Pipe') : i < j => up[i] < up[j]
    /\ \A i, j \in At(Pipe') : up[i] = up[j] => i = j
    /\ \A i \in At(toBroker') :
          down[i] \in At(toBroker) /\ toBroker'[i] = toBroker[down[i]]
    /\ \A i, j \in At(toBroker') : down[i] = down[j] => i = j
    /\ \A i \in At(toClient') : \E j \in At(toClient) : toClient'[i] = toClient[j]

\* A transaction that changes or ends has nothing under way afterwards.
Loses ==
    /\ waiting' \subseteq waiting
    /\ Keeps(entry, entry')
    /\ \A q \in Owned(entry) :
          \/ entry'[q] = entry[q] /\ q \in Owned(entry')
          \/ ~Busy(Pipe', toBroker', q)
          \/ entry[q].state # "await_pubcomp" /\ (Tokens(entry) => ~Busy(Pipe', toBroker', q))
    /\ written \subseteq written'
    /\ \A m \in written' : m \in written \/ \E i \in At(Pipe) : Pipe[i].publish = m
    /\ holding' = NoPacket \/ (holding' = holding /\ entry' = entry)

\* A connection that ends or begins, a restart, a packet that is not written
\* and an acknowledgement no transaction waits for.
LEMMA LossKeeps ==
    ASSUME TypeOK, Exchange(waiting, entry), Loses, NEW up, NEW down, Fewer(up, down),
           UNCHANGED <<received, delivered, enqueued, completed, refused>>
    PROVE  Exchange(waiting, entry)'
  <1> DEFINE E == entry
             F == entry'
             W == waiting
  <1>1. Always(W, E)
    BY Zenon DEF Exchange
  <1>2. /\ \A i \in At(Pipe') : up[i] \in At(Pipe) /\ Pipe'[i] = Pipe[up[i]]
        /\ \A i, j \in At(Pipe') : up[i] = up[j] => i = j
        /\ \A i \in At(toBroker') :
              down[i] \in At(toBroker) /\ toBroker'[i] = toBroker[down[i]]
        /\ \A i, j \in At(toBroker') : down[i] = down[j] => i = j
    BY Zenon DEF Fewer
  <1>3. \A q \in Owned(F) : /\ q \in Owned(E)
                            /\ F[q].publish = E[q].publish
                            /\ F[q].state = E[q].state
    BY Zenon DEF Keeps, Loses
  <1>4. /\ UNCHANGED <<received, delivered, enqueued, completed, refused>>
        /\ waiting' \subseteq W /\ written \subseteq written'
        /\ Owned(entry)' = Owned(F)
    BY Zenon DEF Loses, Owned
  <1>5. \A q \in Owned(E) :
           Busy(Pipe', toBroker', q) /\ (E[q].state = "await_pubcomp" \/ Tokens(E))
             => F[q] = E[q] /\ q \in Owned(F)
    BY Zenon DEF Loses
  <1>6. /\ \A i \in At(Pipe') : Busy(Pipe', toBroker', Pipe'[i].packet_id)
        /\ \A i \in At(toBroker') : Busy(Pipe', toBroker', toBroker'[i].packet_id)
    BY Zenon DEF Busy
  <1>7. Lost(E) \subseteq Lost(entry)'
    BY <1>3, <1>4, Zenon DEF Lost
  <1>8. \A p \in Owned(E) \ Owned(F) :
           E[p].publish \in written' => E[p].publish \in Lost(entry)'
    <2> SUFFICES ASSUME NEW p \in Owned(E) \ Owned(F), E[p].publish \in written'
                 PROVE  E[p].publish \in Lost(entry)'
      BY Zenon
    <2>1. E[p].publish \notin completed' \cup refused'
      BY <1>1, <1>4, Zenon DEF Always, StillOpen
    <2>2. \A q \in Owned(F) : F[q].publish # E[p].publish
      BY <1>1, <1>3, Zenon DEF Always, OneIdentifier
    <2> QED
      BY <2>1, <2>2, Zenon DEF Lost
  <1> HIDE DEF E, F, W
  <1>9. Unsent(waiting, entry)'
    <2>1. \A m \in written' : m \in written \/ \E i \in At(Pipe) : Pipe[i].publish = m
      BY Zenon DEF Loses
    <2>2. ASSUME NEW m \in Messages, Untouched(m, E)
          PROVE  Untouched(m, entry)'
      <3>1. m \notin written' \cup completed' \cup refused' /\ delivered'[m] = 0
        BY <1>4, <2>1, <2>2, Zenon DEF Untouched
      <3>2. \A q \in Owned(F) : F[q].publish # m
        BY <1>3, <2>2, Zenon DEF Untouched
      <3>3. \A i \in At(Pipe') : Pipe'[i].publish # m
        BY <1>2, <2>2 DEF Untouched
      <3> QED
        BY <1>4, <3>1, <3>2, <3>3, Zenon DEF Untouched, F
    <2> QED
      BY <1>1, <1>4, <2>2, Zenon DEF Always, Unsent
  <1>10. OneIdentifier(entry)'
    <2>1. OneIdentifier(E)
      BY <1>1, Zenon DEF Always
    <2>2. \A q, r \in Owned(F) : F[q].publish = F[r].publish => q = r
      BY <1>3, <2>1, Zenon DEF OneIdentifier
    <2>3. \A q \in Owned(F), i \in At(Pipe') :
             Pipe'[i].publish = F[q].publish => Pipe'[i].packet_id = q
      BY <1>2, <1>3, <2>1 DEF OneIdentifier
    <2>4. \A i, j \in At(Pipe') : Pipe'[i].publish = Pipe'[j].publish
                                    => Pipe'[i].packet_id = Pipe'[j].packet_id
      BY <1>2, <2>1 DEF OneIdentifier
    <2> QED
      BY <1>4, <2>2, <2>3, <2>4, Zenon DEF OneIdentifier, F
  <1>11. StillOpen(entry)'
    BY <1>1, <1>3, <1>4, Zenon DEF Always, StillOpen, F
  <1>12. ReleasesOwed(entry)'
    <2>1. \A q : Released(E, q) /\ Busy(Pipe', toBroker', q) => Released(entry, q)'
      BY <1>4, <1>5, Zenon DEF Released, F
    <2>2. ReleasesOwed(E)
      BY <1>1, Zenon DEF Always
    <2> QED
      BY <1>2, <1>6, <2>1, <2>2 DEF ReleasesOwed
  <1>13. ReleasedOnce'
    <2>1. ReleasedOnce
      BY <1>1, Zenon DEF Always
    <2>2. \A i, j \in At(Pipe') : i < j => up[i] < up[j]
      BY Zenon DEF Fewer
    <2> QED
      BY <1>2, <2>1, <2>2 DEF ReleasedOnce
  <1>14. TakenOnce(entry)'
    <2>1. TakenOnce(E)
      BY <1>1, Zenon DEF Always
    <2>2. \A q \in Owned(F) : F[q].state = "await_pubrec" /\ delivered[F[q].publish] > 0
                                => q \in received
      BY <1>3, <2>1, Zenon DEF TakenOnce
    <2> QED
      BY <1>2, <1>4, <2>1, <2>2 DEF TakenOnce, F
  <1>15. WrittenFirst'
    <2>1. WrittenFirst
      BY <1>1, Zenon DEF Always
    <2>2. \A i \in At(toClient') : \E j \in At(toClient) : toClient'[i] = toClient[j]
      BY Zenon DEF Fewer
    <2> QED
      BY <1>4, <2>1, <2>2 DEF WrittenFirst
  <1>16. HoldsOwn(entry)'
    <2>1. HoldsOwn(E) /\ (holding' = NoPacket \/ (holding' = holding /\ entry' = E))
      BY <1>1, Zenon DEF Always, Loses, E
    <2> QED
      BY <2>1, Zenon DEF HoldsOwn, Matches, Owned
  <1>17. (Lost(entry) \cap Expirable = {} => Tokens(entry))'
    <2> SUFFICES ASSUME (Lost(entry) \cap Expirable)' = {}
                 PROVE  Tokens(entry)'
      BY Zenon
    <2>1. Tokens(E)
      BY <1>7, Zenon DEF Exchange, E
    <2>2. \A i \in At(Pipe') : Matches(F, Pipe'[i])
      BY <1>2, <1>5, <1>6, <2>1, SMTT(30) DEF Tokens, Matches
    <2>3. \A i \in At(toBroker') : Answers(F, toBroker'[i]) /\ WrittenToo(F, toBroker'[i])
      <3> SUFFICES ASSUME NEW i \in At(toBroker')
                   PROVE  Answers(F, toBroker'[i]) /\ WrittenToo(F, toBroker'[i])
        BY Zenon
      <3> DEFINE ack == toBroker'[i]
      <3>1. Answers(E, ack) /\ WrittenToo(E, ack)
        BY <1>2, <2>1, Zenon DEF Tokens
      <3>2. Busy(Pipe', toBroker', ack.packet_id)
        BY <1>6, Zenon
      <3> HIDE DEF ack
      <3>3. F[ack.packet_id] = E[ack.packet_id] /\ ack.packet_id \in Owned(F)
        BY <1>5, <2>1, <3>1, <3>2, Zenon DEF Answers
      <3>4. Answers(F, ack) /\ WrittenToo(F, ack)
        BY <3>1, <3>3, Zenon DEF Answers, WrittenToo
      <3> QED
        BY <3>4, Zenon DEF ack
    <2>4. OneToken'
      BY <1>2, <2>1 DEF Tokens, OneToken
    <2> QED
      BY <1>4, <2>2, <2>3, <2>4, Zenon DEF Tokens, WrittenToo, F
  <1>18. (Lost(entry) = {} => ClientKnows(entry))'
    <2> SUFFICES ASSUME Lost(entry)' = {}
                 PROVE  ClientKnows(entry)'
      BY Zenon
    <2>1. ClientKnows(E) /\ Tokens(E)
      BY <1>7, Zenon DEF Exchange, E
    <2>2. \A p \in received : p \in Owned(F)
      <3> SUFFICES ASSUME NEW p \in received, p \notin Owned(F)
                   PROVE  FALSE
        BY Zenon
      <3>1. p \in Owned(E) /\ delivered[E[p].publish] > 0
        BY <2>1, Zenon DEF ClientKnows
      <3>2. E[p].publish \in Messages
        BY <3>1, Zenon DEF TypeOK, GoodTable, Inflight, E
      <3>3. E[p].publish \in written
        BY <1>1, <3>1, <3>2, Zenon DEF Always, WrittenFirst
      <3> QED
        BY <1>4, <1>8, <3>1, <3>3, Zenon
    <2>3. \A i \in At(toBroker') : F[toBroker'[i].packet_id] = E[toBroker'[i].packet_id]
      BY <1>2, <1>5, <1>6, <2>1, Zenon DEF Tokens, Answers
    <2>4. \A p \in received : /\ F[p].publish \in QoS2Messages
                              /\ delivered[F[p].publish] > 0
      BY <1>3, <2>1, <2>2, Zenon DEF ClientKnows
    <2>5. \A p \in Owned(F) : F[p].state = "await_pubcomp" => delivered[F[p].publish] > 0
      BY <1>3, <2>1, Zenon DEF ClientKnows
    <2>6. \A i \in At(toBroker') :
             /\ toBroker'[i].kind # "refused"
                  => delivered[F[toBroker'[i].packet_id].publish] > 0
             /\ toBroker'[i].kind \in {"refused", "pubcomp"}
                  => toBroker'[i].packet_id \notin received
      BY <1>2, <2>1, <2>3 DEF ClientKnows
    <2> QED
      BY <1>4, <2>1, <2>2, <2>4, <2>5, <2>6, Zenon DEF ClientKnows, F
  <1>19. Always(waiting, entry)'
    BY <1>9, <1>10, <1>11, <1>12, <1>13, <1>14, <1>15, <1>16, Zenon DEF Always
  <1> QED
    BY <1>17, <1>18, <1>19, Zenon DEF Exchange

-----------------------------------------------------------------------------
(* The client answers the packet at the head of the connection, and the    *)
(* broker takes the acknowledgement at the head of the other direction.    *)

\* t is what follows the first element of s.
Follows(s, t, up) ==
    /\ 1 \in At(s)
    /\ \A i \in At(t) : up[i] \in At(s) /\ up[i] # 1 /\ t[i] = s[up[i]]
    /\ \A i, j \in At(t) : up[i] = up[j] => i = j
    /\ \A i, j \in At(t) : i < j => up[i] < up[j]

\* Tail drops the first element and keeps the order of the others.
LEMMA TailFollows ==
    ASSUME NEW S, NEW s \in Seq(S), s # <<>>
    PROVE  /\ \E up : Follows(s, Tail(s), up)
           /\ s[1] = Head(s)
           /\ Head(s) \in S
  <1> DEFINE up == [i \in At(Tail(s)) |-> i + 1]
  <1>1. \A i \in At(Tail(s)) : /\ i \in Nat
                               /\ i + 1 \in At(s) /\ i + 1 # 1
                               /\ Tail(s)[i] = s[i + 1]
    BY DEF At
  <1>2. \A i \in At(Tail(s)) : up[i] = i + 1
    BY Zenon
  <1> HIDE DEF up
  <1>3. /\ \A i, j \in At(Tail(s)) : up[i] = up[j] => i = j
        /\ \A i, j \in At(Tail(s)) : i < j => up[i] < up[j]
    BY <1>1, <1>2
  <1>4. 1 \in At(s) /\ s[1] = Head(s) /\ Head(s) \in S
    BY DEF At
  <1>5. Follows(s, Tail(s), up)
    BY <1>1, <1>2, <1>3, <1>4, Zenon DEF Follows
  <1> QED
    BY <1>4, <1>5, Zenon

\* The acknowledgement is the one the transaction of its identifier waits
\* for: handleAck takes the transaction a step further or ends it.
Applies(ack, p, E, F) ==
    /\ ack \in Ack
    /\ p = ack.packet_id
    /\ p \in Owned(E)
    /\ ack.kind = "puback" => E[p].state = "await_puback"
    /\ ack.kind \in {"pubrec", "refused"} => E[p].state = "await_pubrec"
    /\ ack.kind = "pubcomp" => E[p].state = "await_pubcomp"
    /\ \A q \in Owned(E) : q # p => q \in Owned(F) /\ F[q] = E[q]
    /\ \A q \in Owned(F) : q \in Owned(E)
    /\ ack.kind = "pubrec" => /\ p \in Owned(F)
                              /\ F[p].publish = E[p].publish
                              /\ F[p].state = "await_pubcomp"
    /\ ack.kind # "pubrec" => p \notin Owned(F)
    /\ completed' = IF ack.kind \in {"puback", "pubcomp"}
                    THEN completed \cup {E[p].publish} ELSE completed
    /\ refused' = IF ack.kind = "refused"
                  THEN refused \cup {E[p].publish} ELSE refused

\* An acknowledgement the broker expects ends its transaction, or takes it to
\* PUBREL, and the invariant of the exchange holds still: nothing else of that
\* identifier is under way.
LEMMA AckKeeps ==
    ASSUME GoodTable(entry), holding = NoPacket,
           NEW up, Follows(toBroker, toBroker', up),
           NEW p, Applies(toBroker[1], p, entry, entry'),
           Exchange(waiting, entry),
           UNCHANGED <<waiting, holding, toClient, received, delivered, enqueued, written>>
    PROVE  Exchange(waiting, entry)'
  <1> DEFINE E == entry
             F == entry'
             m == E[p].publish
             ack == toBroker[1]
             done == ack.kind # "pubrec"
  <1>1. Always(waiting, E)
    BY Zenon DEF Exchange
  <1>2. /\ Pipe' = Pipe /\ waiting' = waiting
        /\ Owned(entry)' = Owned(F)
    BY Zenon DEF Pipe, Owned
  <1>3. /\ \A i \in At(toBroker') : /\ up[i] \in At(toBroker)
                                    /\ up[i] # 1
                                    /\ toBroker'[i] = toBroker[up[i]]
        /\ \A i, j \in At(toBroker') : up[i] = up[j] => i = j
        /\ 1 \in At(toBroker) /\ ack \in Ack
    BY Zenon DEF Follows, Applies
  <1>4. ack.kind \in {"puback", "pubrec", "refused", "pubcomp"}
    BY <1>3, Zenon DEF Ack
  <1>5. /\ p \in Owned(E)
        /\ \A q \in Owned(E) : q # p => q \in Owned(F) /\ F[q] = E[q]
        /\ \A q \in Owned(F) : q \in Owned(E)
        /\ p \in Owned(F) => ~done /\ F[p].publish = m /\ F[p].state = "await_pubcomp"
        /\ completed' \cup refused' = completed \cup refused \cup (IF done THEN {m} ELSE {})
        /\ ~done => p \in Owned(F)
        /\ completed' = IF ack.kind \in {"puback", "pubcomp"}
                        THEN completed \cup {m} ELSE completed
    BY <1>4, Zenon DEF Applies
  <1>6. /\ UNCHANGED <<holding, toClient, received, delivered, enqueued, written>>
        /\ m \in Messages
    BY <1>5, Zenon DEF GoodTable, Inflight
  <1>7. /\ ack.kind = "puback" => E[p].state = "await_puback"
        /\ ack.kind \in {"pubrec", "refused"} => E[p].state = "await_pubrec"
        /\ ack.kind = "pubcomp" => E[p].state = "await_pubcomp"
        /\ E[p].state = "await_puback" <=> m \notin QoS2Messages
    BY <1>5, Zenon DEF GoodTable, Applies
  <1>8. \A q \in Owned(F) : q \in Owned(E) /\ F[q].publish = E[q].publish
    BY <1>5, Zenon
  <1>9. \A q \in Owned(E) : E[q].publish = m => q = p
    BY <1>1, <1>5, Zenon DEF Always, OneIdentifier
  <1>10. p = toBroker[1].packet_id /\ ack.kind = toBroker[1].kind
    BY Zenon DEF Applies
  <1> HIDE DEF E, F, m, done, ack
  <1>11. Unsent(waiting, entry)'
    <2>1. ASSUME NEW k \in Messages, Untouched(k, E)
          PROVE  Untouched(k, entry)'
      <3>1. k # m /\ k \notin completed \cup refused
        BY <1>5, <2>1, Zenon DEF Untouched, m
      <3>2. k \notin (completed \cup refused)'
        BY <1>5, <3>1, Zenon
      <3>3. \A q \in Owned(F) : F[q].publish # k
        BY <1>8, <2>1, Zenon DEF Untouched
      <3> QED
        BY <1>2, <1>6, <2>1, <3>2, <3>3, Zenon DEF Untouched, F
    <2> QED
      BY <1>1, <1>2, <1>6, <2>1, Zenon DEF Always, Unsent
  <1>12. OneIdentifier(entry)'
    <2>1. OneIdentifier(E)
      BY <1>1, Zenon DEF Always
    <2> QED
      BY <1>2, <1>8, <2>1 DEF OneIdentifier, F
  <1>13. StillOpen(entry)'
    <2>1. \A q \in Owned(F) : F[q].publish \notin completed \cup refused
      BY <1>1, <1>8, Zenon DEF Always, StillOpen
    <2>2. \A q \in Owned(F) : F[q].publish = m => ~done
      BY <1>5, <1>8, <1>9, Zenon
    <2> QED
      BY <1>2, <1>5, <2>1, <2>2, Zenon DEF StillOpen, F
  <1>14. /\ \A i \in At(Pipe) : Pipe[i].kind = "pubrel" => Pipe[i].packet_id # p
         /\ \A i \in At(toBroker') :
               toBroker'[i].kind = "pubcomp" => toBroker'[i].packet_id # p
    <2>1. CASE ack.kind = "pubcomp"
      <3>1. ReleasedOnce
        BY <1>1, Zenon DEF Always
      <3>2. \A i \in At(Pipe) : Pipe[i].kind = "pubrel" => Pipe[i].packet_id # p
        BY <1>3, <1>10, <2>1, <3>1, Zenon DEF ReleasedOnce
      <3>3. \A j \in At(toBroker) :
               toBroker[j].kind = "pubcomp" /\ toBroker[j].packet_id = p => j = 1
        BY <1>3, <1>10, <2>1, <3>1, Zenon DEF ReleasedOnce
      <3> QED
        BY <1>3, <3>2, <3>3, Zenon
    <2>2. CASE ack.kind # "pubcomp"
      <3>1. ~Released(E, p)
        BY <1>4, <1>7, <2>2, Zenon DEF Released
      <3> QED
        BY <1>1, <1>3, <3>1 DEF Always, ReleasesOwed
    <2> QED
      BY <2>1, <2>2, Zenon
  <1>15. ReleasesOwed(entry)'
    <2>1. \A q : q # p /\ Released(E, q) => Released(entry, q)'
      BY <1>2, <1>5, Zenon DEF Released, F
    <2> QED
      BY <1>1, <1>2, <1>3, <1>14, <2>1 DEF Always, ReleasesOwed
  <1>16. ReleasedOnce'
    <2>1. ReleasedOnce
      BY <1>1, Zenon DEF Always
    <2> QED
      BY <1>2, <1>3, <2>1 DEF ReleasedOnce
  <1>17. TakenOnce(entry)'
    <2>1. TakenOnce(E)
      BY <1>1, Zenon DEF Always
    <2>2. \A q \in Owned(F) : F[q].state = "await_pubrec" => F[q] = E[q]
      BY <1>5, Zenon
    <2> QED
      BY <1>2, <1>6, <1>8, <2>1, <2>2, Zenon DEF TakenOnce, F
  <1>18. WrittenFirst' /\ HoldsOwn(entry)'
    BY <1>1, <1>6, Zenon DEF Always, WrittenFirst, HoldsOwn
  <1>19. Lost(entry)' = Lost(E)
    <2>1. \A k : k \in written /\ k # m =>
             /\ k \in completed' \cup refused' <=> k \in completed \cup refused
             /\ (\A q \in Owned(F) : F[q].publish # k)
                  <=> (\A q \in Owned(E) : E[q].publish # k)
      BY <1>5, <1>8, Zenon DEF m
    <2>2. m \notin Lost(E)
      BY <1>5, Zenon DEF Lost, m
    <2>3. m \notin Lost(entry)'
      BY <1>2, <1>5, Zenon DEF Lost, F
    <2> QED
      BY <1>2, <1>6, <2>1, <2>2, <2>3, Zenon DEF Lost, F
  <1>20. Tokens(E) => Tokens(entry)'
    <2> HAVE Tokens(E)
    <2>1. /\ \A i \in At(Pipe) : Pipe[i].packet_id # p
          /\ \A i \in At(toBroker') : toBroker'[i].packet_id # p
      BY <1>3, <1>10 DEF Tokens, OneToken
    <2>2. \A i \in At(Pipe) : Matches(F, Pipe[i])
      BY <1>5, <2>1, Zenon DEF Tokens, Matches
    <2>3. \A i \in At(toBroker') : /\ Answers(F, toBroker'[i])
                                   /\ WrittenToo(F, toBroker'[i])
      BY <1>3, <1>5, <2>1 DEF Tokens, Answers, WrittenToo
    <2>4. OneToken'
      BY <1>2, <1>3 DEF Tokens, OneToken
    <2> QED
      BY <1>2, <1>6, <2>2, <2>3, <2>4, Zenon DEF Tokens, WrittenToo, F
  <1>21. Tokens(E) /\ ClientKnows(E) => ClientKnows(entry)'
    <2> HAVE Tokens(E) /\ ClientKnows(E)
    <2>1. \A i \in At(toBroker') : /\ toBroker'[i].packet_id # p
                                   /\ toBroker'[i].packet_id \in Owned(E)
      BY <1>3, <1>10 DEF Tokens, OneToken, Answers
    <2>2. /\ ack.kind # "refused" => delivered[m] > 0
          /\ ack.kind \in {"refused", "pubcomp"} => p \notin received
      BY <1>3, <1>10, Zenon DEF ClientKnows, m
    <2>3. p \in received => ~done
      BY <1>4, <1>7, <2>2, Zenon DEF ClientKnows, done, m
    <2>4. \A q \in received : /\ q \in Owned(F)
                              /\ F[q].publish \in QoS2Messages
                              /\ delivered[F[q].publish] > 0
      BY <1>5, <1>8, <2>3, Zenon DEF ClientKnows
    <2>5. \A q \in Owned(F) : F[q].state = "await_pubcomp" => delivered[F[q].publish] > 0
      BY <1>5, <1>8, <2>2, Zenon DEF ClientKnows, done
    <2>6. \A i \in At(toBroker') :
             /\ toBroker'[i].kind # "refused"
                  => delivered[F[toBroker'[i].packet_id].publish] > 0
             /\ toBroker'[i].kind \in {"refused", "pubcomp"}
                  => toBroker'[i].packet_id \notin received
      BY <1>3, <1>5, <2>1 DEF ClientKnows
    <2>7. \A k \in completed' : delivered[k] > 0
      BY <1>5, <2>2, Zenon DEF ClientKnows
    <2> QED
      BY <1>2, <1>6, <2>4, <2>5, <2>6, <2>7, Zenon DEF ClientKnows, F
  <1>22. Always(waiting, entry)'
    BY <1>11, <1>12, <1>13, <1>15, <1>16, <1>17, <1>18, Zenon DEF Always
  <1> QED
    BY <1>19, <1>20, <1>21, <1>22, Zenon DEF Exchange, E

\* What the client makes of a packet: it passes a publication on and answers
\* it, refuses it, or releases an identifier.
Takes(packet, kind) ==
    \/ /\ packet.kind = "publish" /\ packet.publish \notin QoS2Messages
       /\ kind = "puback"
       /\ received' = received
       /\ delivered'[packet.publish] > 0
    \/ /\ packet.kind = "publish" /\ packet.publish \in QoS2Messages
       /\ kind = "pubrec"
       /\ received' = received \cup {packet.packet_id}
       /\ packet.packet_id \in received =>
            delivered'[packet.publish] = delivered[packet.publish]
       /\ packet.packet_id \notin received =>
            /\ delivered'[packet.publish] > 0
            /\ delivered[packet.publish] = 0 => delivered'[packet.publish] = 1
    \/ /\ packet.kind = "publish" /\ packet.publish \in QoS2Messages
       /\ kind = "refused"
       /\ packet.packet_id \notin received
       /\ received' = received
       /\ delivered'[packet.publish] = delivered[packet.publish]
    \/ /\ packet.kind = "pubrel"
       /\ kind = "pubcomp"
       /\ received' = received \ {packet.packet_id}
       /\ delivered'[packet.publish] = delivered[packet.publish]

\* The answer joins the acknowledgements under way.
Joins(s, t, n, ack) ==
    /\ At(t) = At(s) \cup {n}
    /\ n \notin At(s)
    /\ t[n] = ack
    /\ \A i \in At(s) : t[i] = s[i]

\* The packet at the head of both toClient and Pipe gives way to an answer.
Reads(packet, ack, n, up, down) ==
    /\ packet \in Packet
    /\ packet = Pipe[1] /\ Follows(Pipe, Pipe', up)
    /\ packet = toClient[1] /\ Follows(toClient, toClient', down)
    /\ ack.packet_id = packet.packet_id
    /\ Joins(toBroker, toBroker', n, ack)
    /\ \A m \in Messages : m # packet.publish => delivered'[m] = delivered[m]

\* Append puts one element behind all others.
LEMMA AppendJoins ==
    ASSUME NEW S, NEW s \in Seq(S), NEW e \in S
    PROVE  Joins(s, Append(s, e), Len(s) + 1, e)
  BY DEF Joins, At

\* The client answers the packet at the head of the connection, in any of its
\* four ways, and the invariant of the exchange holds still.
LEMMA ClientKeeps ==
    ASSUME GoodTable(entry), TypeOK,
           NEW packet, NEW ack, NEW n, NEW up, NEW down,
           Reads(packet, ack, n, up, down), Takes(packet, ack.kind),
           Exchange(waiting, entry),
           UNCHANGED <<waiting, entry, holding, enqueued, written,
                       completed, refused>>
    PROVE  Exchange(waiting, entry)'
  <1> DEFINE E == entry
             p == packet.packet_id
             m == packet.publish
  <1>1. Always(waiting, E)
    BY Zenon DEF Exchange
  <1>2. /\ entry' = E /\ waiting' = waiting
        /\ Owned(entry)' = Owned(E) /\ Lost(entry)' = Lost(E)
        /\ UNCHANGED <<holding, enqueued, written, completed, refused>>
    BY Zenon DEF Owned, Lost
  <1>3. /\ \A i \in At(Pipe') : /\ up[i] \in At(Pipe)
                                /\ up[i] # 1
                                /\ Pipe'[i] = Pipe[up[i]]
        /\ \A i, j \in At(Pipe') : up[i] = up[j] => i = j
        /\ \A i, j \in At(Pipe') : i < j => up[i] < up[j]
        /\ 1 \in At(Pipe) /\ Pipe[1] = packet
        /\ \A i \in At(Pipe') : 1 < up[i]
    <2>1. \A i \in At(Pipe) : i # 1 => 1 < i
      BY PipeLength DEF At
    <2> QED
      BY <2>1, Zenon DEF Follows, Reads
  <1>4. /\ \A i \in At(toClient') : /\ down[i] \in At(toClient)
                                    /\ toClient'[i] = toClient[down[i]]
        /\ 1 \in At(toClient) /\ toClient[1] = packet
    BY Zenon DEF Follows, Reads
  <1>5. /\ At(toBroker') = At(toBroker) \cup {n}
        /\ n \notin At(toBroker)
        /\ toBroker'[n] = ack
        /\ \A i \in At(toBroker) : toBroker'[i] = toBroker[i]
    BY Zenon DEF Joins, Reads
  <1>6. /\ p \in PacketIds /\ m \in Messages /\ ack.packet_id = p
        /\ packet.kind \in {"publish", "pubrel"}
    BY Zenon DEF Packet, Reads
  <1>7. \A k \in Messages : k # m => delivered'[k] = delivered[k]
    BY Zenon DEF Reads
  <1>8. \A k \in Messages : delivered[k] \in Nat
    BY DEF TypeOK
  <1>9. delivered[m] > 0 => delivered'[m] > 0
    BY <1>6, <1>8, Zenon DEF Takes
  <1>10. \A k \in Messages : delivered[k] > 0 => delivered'[k] > 0
    BY <1>7, <1>9, Zenon
  <1>11. packet.kind = "publish" => m \in written
    BY <1>1, <1>4, Zenon DEF Always, WrittenFirst
  <1>12. \A q \in Owned(E) : /\ E[q].publish \in Messages
                             /\ E[q].state \in InflightState
                             /\ E[q].state = "await_puback"
                                  <=> E[q].publish \notin QoS2Messages
    BY Zenon DEF GoodTable, Inflight
  <1>13. /\ \A q \in Owned(E) : E[q].publish = m => q = p
         /\ \A i \in At(Pipe) : Pipe[i].publish = m => Pipe[i].packet_id = p
    <2>1. /\ OneIdentifier(E) /\ 1 \in At(Pipe)
          /\ Pipe[1].publish = m /\ Pipe[1].packet_id = p
      BY <1>1, <1>3, Zenon DEF Always
    <2> HIDE DEF E, m, p
    <2>2. \A q \in Owned(E) : E[q].publish = m => q = p
      BY <2>1, Zenon DEF OneIdentifier
    <2>3. \A i \in At(Pipe) : Pipe[i].publish = m => Pipe[i].packet_id = p
      BY <2>1, Zenon DEF OneIdentifier
    <2> QED
      BY <2>2, <2>3, Zenon
  <1>14. /\ received' \subseteq received \cup {p}
         /\ packet.kind = "publish" => received \subseteq received'
         /\ packet.kind = "pubrel" => received' = received \ {p} /\ delivered'[m] = delivered[m]
         /\ ack.kind = "pubcomp" <=> packet.kind = "pubrel"
    BY <1>6, Zenon DEF Takes
  <1> HIDE DEF E, p, m
  <1>15. Unsent(waiting, entry)'
    <2>1. ASSUME NEW k \in Messages, Untouched(k, E)
          PROVE  Untouched(k, entry)'
      <3>1. k # m
        BY <1>3, <2>1, Zenon DEF Untouched, m
      <3>2. delivered'[k] = 0
        BY <1>7, <2>1, <3>1, Zenon DEF Untouched
      <3>3. \A i \in At(Pipe') : Pipe'[i].publish # k
        BY <1>3, <2>1 DEF Untouched
      <3> QED
        BY <1>2, <2>1, <3>2, <3>3, Zenon DEF Untouched
    <2> QED
      BY <1>1, <1>2, <2>1, Zenon DEF Always, Unsent
  <1>16. OneIdentifier(entry)'
    <2>1. OneIdentifier(E)
      BY <1>1, Zenon DEF Always
    <2> QED
      BY <1>2, <1>3, <2>1 DEF OneIdentifier
  <1>17. StillOpen(entry)' /\ HoldsOwn(entry)'
    BY <1>1, <1>2, Zenon DEF Always, StillOpen, HoldsOwn, Matches
  <1>18. packet.kind = "pubrel" =>
            /\ Released(E, p)
            /\ \A i \in At(Pipe') : Pipe'[i].packet_id # p
            /\ \A i \in At(toBroker) :
                  toBroker[i].kind = "pubcomp" => toBroker[i].packet_id # p
    <2> SUFFICES ASSUME packet.kind = "pubrel"
                 PROVE  /\ Released(E, p)
                        /\ \A i \in At(Pipe') : Pipe'[i].packet_id # p
                        /\ \A i \in At(toBroker) :
                              toBroker[i].kind = "pubcomp" => toBroker[i].packet_id # p
      BY Zenon
    <2>1. /\ ReleasesOwed(E) /\ ReleasedOnce /\ 1 \in At(Pipe)
          /\ Pipe[1].kind = "pubrel" /\ Pipe[1].packet_id = p
      BY <1>1, <1>3, Zenon DEF Always, p
    <2>2. Released(E, p)
      BY <2>1, Zenon DEF ReleasesOwed
    <2>3. \A i \in At(Pipe') : Pipe'[i].packet_id # p
      BY <1>3, <2>1 DEF ReleasedOnce
    <2>4. \A i \in At(toBroker) :
             toBroker[i].kind = "pubcomp" => toBroker[i].packet_id # p
      BY <2>1, Zenon DEF ReleasedOnce
    <2> QED
      BY <2>2, <2>3, <2>4, Zenon
  <1>19. ReleasesOwed(entry)'
    <2>1. ReleasesOwed(E)
      BY <1>1, Zenon DEF Always
    <2>2. \A i \in At(Pipe') : Pipe'[i].kind = "pubrel" => Released(E, Pipe'[i].packet_id)
      BY <1>3, <2>1 DEF ReleasesOwed
    <2>3. \A i \in At(toBroker') :
             toBroker'[i].kind = "pubcomp" => Released(E, toBroker'[i].packet_id)
      BY <1>5, <1>6, <1>14, <1>18, <2>1, Zenon DEF ReleasesOwed
    <2> QED
      BY <1>2, <2>2, <2>3, Zenon DEF ReleasesOwed
  <1>20. ReleasedOnce'
    <2>1. ReleasedOnce
      BY <1>1, Zenon DEF Always
    <2>2. \A i, j \in At(Pipe') :
             i < j /\ Pipe'[i].kind = "pubrel" => Pipe'[i].packet_id # Pipe'[j].packet_id
      BY <1>3, <2>1 DEF ReleasedOnce
    <2>3. \A i, j \in At(toBroker') :
             /\ toBroker'[i].kind = "pubcomp" /\ toBroker'[j].kind = "pubcomp"
             /\ toBroker'[i].packet_id = toBroker'[j].packet_id
             => i = j
      BY <1>5, <1>6, <1>14, <1>18, <2>1, SMTT(30) DEF ReleasedOnce
    <2>4. \A i \in At(Pipe'), j \in At(toBroker') :
             Pipe'[i].kind = "pubrel" /\ toBroker'[j].kind = "pubcomp"
               => Pipe'[i].packet_id # toBroker'[j].packet_id
      BY <1>3, <1>5, <1>6, <1>14, <1>18, <2>1 DEF ReleasedOnce
    <2> QED
      BY <2>2, <2>3, <2>4, Zenon DEF ReleasedOnce
  <1>21. TakenOnce(entry)'
    <2>1. TakenOnce(E)
      BY <1>1, Zenon DEF Always
    <2>2. m \in QoS2Messages =>
             /\ delivered'[m] <= 1
             /\ packet.kind = "publish" /\ delivered'[m] > 0 => p \in received'
      <3>1. m \in QoS2Messages /\ packet.kind = "publish" /\ delivered[m] > 0
              => p \in received
        BY <1>3, <2>1, Zenon DEF TakenOnce, m, p
      <3>2. m \in QoS2Messages => delivered[m] <= 1
        BY <1>6, <2>1, Zenon DEF TakenOnce, m
      <3> QED
        BY <1>6, <1>8, <3>1, <3>2 DEF Takes, m, p
    <2>3. \A k \in Messages : k \in QoS2Messages => delivered'[k] <= 1
      BY <1>7, <2>1, <2>2, Zenon DEF TakenOnce
    <2>4. ASSUME NEW i \in At(Pipe'), Pipe'[i].kind = "publish",
                 Pipe'[i].publish \in QoS2Messages, delivered'[Pipe'[i].publish] > 0
          PROVE  Pipe'[i].packet_id \in received'
      <3>2. /\ up[i] \in At(Pipe) /\ Pipe'[i] = Pipe[up[i]]
        BY <1>3, Zenon
      <3>1. Pipe'[i].publish \in Messages
        <4>1. Pipe[up[i]] \in Packet
          BY <3>2, PipeLength DEF At
        <4> QED
          BY <3>2, <4>1, Zenon DEF Packet
      <3>3. CASE Pipe'[i].publish = m
        <4>1. Pipe'[i].packet_id = p
          BY <1>13, <3>2, <3>3, Zenon
        <4>2. packet.kind = "publish"
          BY <1>6, <1>18, <4>1, Zenon
        <4> QED
          BY <2>2, <2>4, <3>3, <4>1, <4>2, Zenon
      <3>4. CASE Pipe'[i].publish # m
        <4>1. Pipe'[i].packet_id \in received
          BY <1>7, <2>1, <2>4, <3>1, <3>2, <3>4, Zenon DEF TakenOnce
        <4>2. packet.kind = "pubrel" => Pipe'[i].packet_id # p
          BY <1>18, Zenon
        <4> QED
          BY <1>6, <1>14, <4>1, <4>2, Zenon
      <3> QED
        BY <3>3, <3>4, Zenon
    <2>5. ASSUME NEW q \in Owned(E), E[q].state = "await_pubrec",
                 delivered'[E[q].publish] > 0
          PROVE  q \in received'
      <3>1. /\ E[q].publish \in QoS2Messages /\ E[q].publish \in Messages
            /\ packet.kind = "pubrel" => q # p
        BY <1>12, <1>18, <2>5, Zenon DEF Released
      <3>2. CASE E[q].publish = m
        BY <1>6, <1>13, <2>2, <2>5, <3>1, <3>2, Zenon
      <3>3. CASE E[q].publish # m
        <4>1. q \in received
          BY <1>7, <2>1, <2>5, <3>1, <3>3, Zenon DEF TakenOnce
        <4> QED
          BY <1>6, <1>14, <3>1, <4>1, Zenon
      <3> QED
        BY <3>2, <3>3, Zenon
    <2> QED
      BY <1>2, <2>3, <2>4, <2>5, Zenon DEF TakenOnce
  <1>22. WrittenFirst'
    <2>1. \A i \in At(toClient') :
             toClient'[i].kind = "publish" => toClient'[i].publish \in written
      BY <1>1, <1>4, Zenon DEF Always, WrittenFirst
    <2>2. \A k \in Messages : delivered'[k] > 0 => k \in written
      <3>1. delivered'[m] > 0 => packet.kind = "publish" \/ delivered[m] > 0
        BY <1>6, <1>14, Zenon
      <3> QED
        BY <1>1, <1>6, <1>7, <1>11, <3>1, Zenon DEF Always, WrittenFirst
    <2> QED
      BY <1>2, <2>1, <2>2, Zenon DEF WrittenFirst
  <1>23. Tokens(E) => Answers(E, ack) /\ WrittenToo(E, ack)
    <2> HAVE Tokens(E)
    <2>1. Matches(E, packet)
      BY <1>3, Zenon DEF Tokens
    <2>2. p \in Owned(E) /\ E[p].publish = m /\ ~E[p].needs_send
          /\ (packet.kind = "publish" <=> E[p].state # "await_pubcomp")
      BY <2>1, Zenon DEF Matches, p, m
    <2>3. E[p].state \in InflightState
          /\ (E[p].state = "await_puback" <=> m \notin QoS2Messages)
      BY <1>12, <2>2, Zenon
    <2>4. /\ ack.kind = "puback" => packet.kind = "publish" /\ m \notin QoS2Messages
          /\ ack.kind \in {"pubrec", "refused"}
               => packet.kind = "publish" /\ m \in QoS2Messages
          /\ ack.kind # "pubcomp" => packet.kind = "publish"
          /\ ack.kind = "pubcomp" => packet.kind # "publish"
      BY Zenon DEF Takes, m
    <2>5. Answers(E, ack)
      BY <1>6, <2>2, <2>3, <2>4, Zenon DEF Answers, InflightState
    <2>6. WrittenToo(E, ack)
      BY <1>6, <1>11, <2>2, <2>4, Zenon DEF WrittenToo
    <2> QED
      BY <2>5, <2>6, Zenon
  <1>24. Tokens(E) => Tokens(entry)'
    <2> HAVE Tokens(E)
    <2>1. OneToken'
      <3>1. OneToken /\ Pipe[1].packet_id = p
        BY <1>3, Zenon DEF Tokens, p
      <3>2. \A i, j \in At(Pipe') : Pipe'[i].packet_id = Pipe'[j].packet_id => i = j
        BY <1>3, <3>1 DEF OneToken
      <3>3. \A i, j \in At(toBroker') :
               toBroker'[i].packet_id = toBroker'[j].packet_id => i = j
        <4>1. \A i \in At(toBroker) : toBroker[i].packet_id # p
          BY <1>3, <3>1, Zenon DEF OneToken
        <4>2. \A i, j \in At(toBroker) :
                 toBroker[i].packet_id = toBroker[j].packet_id => i = j
          BY <3>1, Zenon DEF OneToken
        <4> QED
          BY <1>5, <1>6, <4>1, <4>2, Zenon
      <3>4. \A i \in At(Pipe'), j \in At(toBroker') :
               Pipe'[i].packet_id # toBroker'[j].packet_id
        <4>1. \A i \in At(Pipe') : Pipe'[i].packet_id # p
          BY <1>3, <3>1 DEF OneToken
        <4>2. \A i \in At(Pipe'), j \in At(toBroker) :
                 Pipe'[i].packet_id # toBroker[j].packet_id
          BY <1>3, <3>1 DEF OneToken
        <4> QED
          BY <1>5, <1>6, <4>1, <4>2, Zenon
      <3> QED
        BY <3>2, <3>3, <3>4, Zenon DEF OneToken
    <2>2. \A i \in At(Pipe') : Matches(E, Pipe'[i])
      BY <1>3, Zenon DEF Tokens
    <2>3. \A i \in At(toBroker') : /\ Answers(E, toBroker'[i])
                                   /\ WrittenToo(E, toBroker'[i])
      BY <1>5, <1>23, Zenon DEF Tokens
    <2> QED
      BY <1>2, <2>1, <2>2, <2>3, Zenon DEF Tokens, WrittenToo
  <1>25. Tokens(E) /\ ClientKnows(E) => ClientKnows(entry)'
    <2> HAVE Tokens(E) /\ ClientKnows(E)
    <2>1. /\ p \in Owned(E) /\ E[p].publish = m
          /\ packet.kind = "pubrel" => E[p].state = "await_pubcomp"
      <3>1. Matches(E, packet)
        BY <1>3, Zenon DEF Tokens
      <3> QED
        BY <1>6, <3>1, Zenon DEF Matches, p, m
    <2>2. \A i \in At(toBroker) : /\ toBroker[i].packet_id # p
                                  /\ toBroker[i].packet_id \in Owned(E)
      <3>1. OneToken /\ Pipe[1].packet_id = p /\ 1 \in At(Pipe)
        BY <1>3, Zenon DEF Tokens, p
      <3>2. \A i \in At(toBroker) : toBroker[i].packet_id # p
        BY <3>1, Zenon DEF OneToken
      <3>3. \A i \in At(toBroker) : toBroker[i].packet_id \in Owned(E)
        BY Zenon DEF Tokens, Answers
      <3> QED
        BY <3>2, <3>3, Zenon
    <2>3. /\ p \in received => delivered[m] > 0 /\ m \in QoS2Messages
          /\ packet.kind = "pubrel" => delivered[m] > 0
      BY <2>1, Zenon DEF ClientKnows
    <2>4. /\ p \in received' => delivered'[m] > 0 /\ m \in QoS2Messages
          /\ ack.kind # "refused" => delivered'[m] > 0
          /\ ack.kind \in {"refused", "pubcomp"} => p \notin received'
      BY <1>9, <2>3, Zenon DEF Takes, p, m
    <2>5. \A q \in received' : /\ q \in Owned(E)
                               /\ E[q].publish \in QoS2Messages
                               /\ delivered'[E[q].publish] > 0
      BY <1>10, <1>12, <1>14, <2>1, <2>4, Zenon DEF ClientKnows
    <2>6. \A q \in Owned(E) : E[q].state = "await_pubcomp" => delivered'[E[q].publish] > 0
      BY <1>10, <1>12, Zenon DEF ClientKnows
    <2>7. \A i \in At(toBroker') :
             /\ toBroker'[i].kind # "refused"
                  => delivered'[E[toBroker'[i].packet_id].publish] > 0
             /\ toBroker'[i].kind \in {"refused", "pubcomp"}
                  => toBroker'[i].packet_id \notin received'
      <3>1. \A i \in At(toBroker) :
               /\ toBroker[i].kind # "refused"
                    => delivered'[E[toBroker[i].packet_id].publish] > 0
               /\ toBroker[i].kind \in {"refused", "pubcomp"}
                    => toBroker[i].packet_id \notin received'
        BY <1>10, <1>12, <1>14, <2>2, Zenon DEF ClientKnows
      <3> QED
        BY <1>5, <1>6, <2>1, <2>4, <3>1, Zenon
    <2>8. \A k \in completed : delivered'[k] > 0
      <3>1. completed \subseteq Messages
        BY Zenon DEF TypeOK
      <3> QED
        BY <1>10, <3>1, Zenon DEF ClientKnows
    <2> QED
      BY <1>2, <2>5, <2>6, <2>7, <2>8, Zenon DEF ClientKnows
  <1>26. Always(waiting, entry)'
    BY <1>15, <1>16, <1>17, <1>19, <1>20, <1>21, <1>22, Zenon DEF Always
  <1> QED
    BY <1>2, <1>24, <1>25, <1>26, Zenon DEF Exchange, E

-----------------------------------------------------------------------------
(* What the writer, the broker and the connection do besides.              *)

\* The packet the writer holds is the last one of the pipe.
LEMMA HeldFacts ==
    ASSUME TypeOK, holding # NoPacket
    PROVE  /\ At(Pipe) = At(toClient) \cup {Len(toClient) + 1}
           /\ Len(toClient) + 1 \notin At(toClient)
           /\ Pipe[Len(toClient) + 1] = holding
           /\ \A i \in At(toClient) : Pipe[i] = toClient[i]
           /\ holding \in Packet
  <1>1. Pipe = Append(toClient, holding) /\ toClient \in Seq(Packet) /\ holding \in Packet
    BY Zenon DEF Pipe, TypeOK
  <1> QED
    BY <1>1 DEF At

\* The packet is written.
LEMMA WriteKeeps ==
    ASSUME TypeOK, holding # NoPacket,
           toClient' = Append(toClient, holding), holding' = NoPacket,
           written' = written \cup Publications(holding),
           Exchange(waiting, entry),
           UNCHANGED <<waiting, entry, toBroker, received, delivered,
                       enqueued, completed, refused>>
    PROVE  Exchange(waiting, entry)'
  <1> DEFINE n == Len(toClient) + 1
  <1>1. Always(waiting, entry)
    BY Zenon DEF Exchange
  <1>2. /\ Pipe' = Pipe /\ entry' = entry /\ waiting' = waiting
        /\ Owned(entry)' = Owned(entry)
    BY Zenon DEF Pipe, Owned
  <1>3. /\ At(Pipe) = At(toClient) \cup {n} /\ n \notin At(toClient)
        /\ Pipe[n] = holding
        /\ \A i \in At(toClient) : Pipe[i] = toClient[i]
        /\ holding \in Packet
    BY HeldFacts, Zenon
  <1>4. Matches(entry, holding)
    BY <1>1, Zenon DEF Always, HoldsOwn
  <1>5. Publications(holding) \subseteq {holding.publish}
    BY Zenon DEF Publications
  <1>6. holding.kind = "publish" => holding.publish \in written'
    BY Zenon DEF Publications
  <1>7. toClient' = Pipe
    BY Zenon DEF Pipe
  <1>8. UNCHANGED <<toBroker, received, delivered, enqueued, completed, refused>>
    BY Zenon
  <1> HIDE DEF n
  <1>9. Lost(entry)' = Lost(entry)
    BY <1>2, <1>4, <1>5, <1>8, Zenon DEF Lost, Matches
  <1>10. Unsent(waiting, entry)'
    <2>1. ASSUME NEW m \in Messages, Untouched(m, entry)
          PROVE  Untouched(m, entry)'
      <3>1. m # holding.publish
        BY <1>3, <2>1, Zenon DEF Untouched
      <3>2. m \notin written'
        BY <1>5, <2>1, <3>1, Zenon DEF Untouched
      <3> QED
        BY <1>2, <1>8, <2>1, <3>2, Zenon DEF Untouched
    <2> QED
      BY <1>1, <1>2, <1>8, <2>1, Zenon DEF Always, Unsent
  <1>11. OneIdentifier(entry)' /\ StillOpen(entry)'
    <2>1. OneIdentifier(entry)'
      BY <1>1, <1>2, <1>8 DEF Always, OneIdentifier
    <2>2. StillOpen(entry)'
      BY <1>1, <1>2, <1>8, Zenon DEF Always, StillOpen
    <2> QED
      BY <2>1, <2>2, Zenon
  <1>12. ReleasesOwed(entry)' /\ ReleasedOnce' /\ TakenOnce(entry)'
    <2>1. ReleasesOwed(entry)'
      BY <1>1, <1>2, <1>8, Zenon DEF Always, ReleasesOwed, Released
    <2>2. ReleasedOnce'
      <3>1. ReleasedOnce
        BY <1>1, Zenon DEF Always
      <3>2. Pipe' = Pipe /\ toBroker' = toBroker
        BY <1>2, <1>8, Zenon
      <3> QED
        BY ONLY <3>1, <3>2 DEF ReleasedOnce, At
    <2>3. TakenOnce(entry)'
      BY <1>1, <1>2, <1>8, Zenon DEF Always, TakenOnce
    <2> QED
      BY <2>1, <2>2, <2>3, Zenon
  <1>13. HoldsOwn(entry)'
    BY Zenon DEF HoldsOwn
  <1>14. WrittenFirst'
    <2>1. \A i \in At(Pipe) : Pipe[i].kind = "publish" => Pipe[i].publish \in written'
      BY <1>1, <1>3, <1>6, Zenon DEF Always, WrittenFirst
    <2>2. \A m \in Messages : delivered[m] > 0 => m \in written'
      BY <1>1, Zenon DEF Always, WrittenFirst
    <2> QED
      BY <1>7, <1>8, <2>1, <2>2, Zenon DEF WrittenFirst
  <1>15. Tokens(entry) => Tokens(entry)'
    <2>1. OneToken' = OneToken
      BY <1>2, <1>8 DEF OneToken
    <2>2. \A i \in At(Pipe) : Matches(entry', Pipe'[i]) <=> Matches(entry, Pipe[i])
      BY <1>2, Zenon
    <2>3. \A i \in At(toBroker) : Answers(entry', toBroker[i]) <=> Answers(entry, toBroker[i])
      BY <1>2, Zenon
    <2>4. \A i \in At(toBroker) : WrittenToo(entry, toBroker[i]) => WrittenToo(entry, toBroker[i])'
      BY <1>2, <1>8, Zenon DEF WrittenToo
    <2> QED
      BY <1>2, <1>8, <2>1, <2>2, <2>3, <2>4, Zenon DEF Tokens
  <1>16. ClientKnows(entry)' = ClientKnows(entry)
    BY <1>2, <1>8, Zenon DEF ClientKnows
  <1>17. Always(waiting, entry)'
    BY <1>10, <1>11, <1>12, <1>13, <1>14, Zenon DEF Always
  <1> QED
    BY <1>9, <1>15, <1>16, <1>17, Zenon DEF Exchange

-----------------------------------------------------------------------------
(* Every step preserves the invariant.                                     *)

\* What the variables other than waiting and entry say of a Session they did
\* not change with.
LEMMA SameElsewhere ==
    ASSUME Exchange(waiting', entry'),
           UNCHANGED <<holding, toClient, toBroker, received, delivered,
                       enqueued, written, completed, refused>>
    PROVE  Exchange(waiting, entry)'
  <1> DEFINE W == waiting'
             E == entry'
  <1>1. Pipe' = Pipe /\ Owned(entry)' = Owned(E) /\ Lost(entry)' = Lost(E)
    BY Zenon DEF Pipe, Owned, Lost
  <1>2. Always(W, E) => Always(waiting, entry)'
    <2> HAVE Always(W, E)
    <2>1. Unsent(waiting, entry)'
      BY <1>1, Zenon DEF Always, Unsent, Untouched
    <2>2. OneIdentifier(entry)'
      BY <1>1 DEF Always, OneIdentifier
    <2>3. StillOpen(entry)'
      BY <1>1, Zenon DEF Always, StillOpen
    <2>4. WrittenFirst'
      BY <1>1, Zenon DEF Always, WrittenFirst
    <2>5. ReleasesOwed(entry)'
      BY <1>1, Zenon DEF Always, ReleasesOwed, Released
    <2>6. ReleasedOnce' /\ TakenOnce(entry)'
      <3>1. ReleasedOnce'
        BY <1>1 DEF Always, ReleasedOnce
      <3>2. TakenOnce(entry)'
        BY <1>1, Zenon DEF Always, TakenOnce
      <3> QED
        BY <3>1, <3>2, Zenon
    <2>7. HoldsOwn(entry)'
      BY <1>1, Zenon DEF Always, HoldsOwn, Matches
    <2> QED
      BY <2>1, <2>2, <2>3, <2>4, <2>5, <2>6, <2>7, Zenon DEF Always
  <1>3. Tokens(E) => Tokens(entry)'
    BY <1>1, Zenon DEF Tokens, Matches, Answers, WrittenToo, OneToken
  <1>4. ClientKnows(E) => ClientKnows(entry)'
    BY <1>1, Zenon DEF ClientKnows
  <1> QED
    BY <1>1, <1>2, <1>3, <1>4, Zenon DEF Exchange

\* A message that is routed here.
LEMMA RouteStep ==
    ASSUME Exchange(waiting, entry), NEW m \in Messages, Route(m)
    PROVE  Exchange(waiting, entry)'
  BY EnqueueKeeps, Zenon DEF Route, linkVars, clientVars

\* Expired messages leave.
LEMMA PruneStep ==
    ASSUME TypeOK, Exchange(waiting, entry), Prune
    PROVE  Exchange(waiting, entry)'
  <1>1. Exchange(waiting', entry')
    <2>1. /\ GoodTable(entry) /\ GoodTable(entry') /\ Prunes(entry, entry')
          /\ waiting' \subseteq waiting /\ holding = NoPacket
      BY Zenon DEF Prune, TypeOK
    <2> QED
      BY <2>1, PruneKeeps, Zenon
  <1> QED
    BY <1>1, SameElsewhere, Zenon DEF Prune, linkVars, clientVars, historyVars

\* A connection ends, and what is under way is lost.
LEMMA InterruptStep ==
    ASSUME TypeOK, Exchange(waiting, entry), Interrupt
    PROVE  Exchange(waiting, entry)'
  <1>1. Pipe' = <<>> /\ toBroker' = <<>> /\ toClient' = <<>> /\ At(<<>>) = {}
    BY DEF Interrupt, Pipe, At
  <1>2. Fewer(<<>>, <<>>)
    BY <1>1, Zenon DEF Fewer
  <1>3. \A m \in written' : m \in written \/ \E i \in At(Pipe) : Pipe[i].publish = m
    <2>1. CASE holding = NoPacket
      BY <2>1, Zenon DEF Interrupt, Publications
    <2>2. CASE holding # NoPacket
      BY <2>2, HeldFacts, Zenon DEF Interrupt, Publications
    <2> QED
      BY <2>1, <2>2, Zenon
  <1>4. Loses
    BY <1>1, <1>3, Zenon DEF Interrupt, Loses, Busy
  <1> QED
    BY <1>2, <1>4, LossKeeps, Zenon DEF Interrupt, clientVars

\* Between the pruned table and the one after Take there is only p.
LEMMA TakeStep ==
    ASSUME TypeOK, Exchange(waiting, entry), NEW p \in PacketIds, Take(p)
    PROVE  Exchange(waiting, entry)'
  <1> DEFINE e == entry'[p]
             old == IF Resends(p) THEN entry[p] ELSE NoEntry
             E == [entry' EXCEPT ![p] = old]
  <1>1. /\ GoodTable(entry) /\ GoodTable(entry') /\ waiting \subseteq Messages
        /\ p \in Owned(entry') /\ holding = NoPacket
        /\ ~e.needs_send /\ Transmits(holding', e)
        /\ Resends(p) \/ Promotes(p)
        /\ UNCHANGED <<toClient, toBroker, received, delivered, enqueued, written,
                       completed, refused>>
        /\ \A q \in PacketIds \ {p} : PrunesAt(entry, entry', q)
    BY Zenon DEF Take, TypeOK, clientVars, historyVars
  <1>2. /\ entry' \in [PacketIds -> Inflight \cup {NoEntry}]
        /\ e \in Inflight /\ e.packet_id = p
        /\ e.state = "await_puback" <=> e.publish \notin QoS2Messages
    BY <1>1, Zenon DEF GoodTable
  <1>3. old \in Inflight \cup {NoEntry}
    BY <1>1, Zenon DEF GoodTable
  <1> HIDE DEF old
  <1>4. /\ E \in [PacketIds -> Inflight \cup {NoEntry}]
        /\ E[p] = old
        /\ \A q \in PacketIds : q # p => E[q] = entry'[q]
        /\ entry' = [E EXCEPT ![p] = e]
    BY <1>2, <1>3, Zenon
  <1> HIDE DEF E, e
  <1>5. GoodTable(E)
    <2>1. ASSUME NEW q \in Owned(E)
          PROVE  /\ E[q] \in Inflight
                 /\ E[q].packet_id = q
                 /\ E[q].state = "await_puback" <=> E[q].publish \notin QoS2Messages
      <3>1. CASE q = p
        <4>1. E[q] = entry[q] /\ q \in Owned(entry)
          BY <1>4, <2>1, <3>1, Zenon DEF old, Owned, Resends
        <4> QED
          BY <1>1, <4>1, Zenon DEF GoodTable
      <3>2. CASE q # p
        <4>1. E[q] = entry'[q] /\ q \in Owned(entry')
          BY <1>4, <2>1, <3>2, Zenon DEF Owned
        <4> QED
          BY <1>1, <4>1, Zenon DEF GoodTable
      <3> QED
        BY <3>1, <3>2, Zenon
    <2> QED
      BY <1>4, <2>1, Zenon DEF GoodTable
  <1>6. Prunes(entry, E)
    <2>1. \A q \in PacketIds \ {p} : PrunesAt(entry, E, q)
      BY <1>1, <1>4, Zenon DEF PrunesAt
    <2>2. PrunesAt(entry, E, p)
      <3>1. CASE Resends(p)
        BY <1>4, <3>1, Zenon DEF old, PrunesAt
      <3>2. CASE ~Resends(p)
        <4>1. PrunesAt(entry, [entry EXCEPT ![p] = NoEntry], p)
          BY <1>1, <3>2, Zenon DEF Promotes
        <4>2. [entry EXCEPT ![p] = NoEntry][p] = NoEntry
          BY <1>1, Zenon DEF GoodTable
        <4> QED
          BY <1>4, <3>2, <4>1, <4>2, Zenon DEF old, PrunesAt
      <3> QED
        BY <3>1, <3>2, Zenon
    <2> QED
      BY <2>1, <2>2, Zenon DEF Prunes
  <1>7. Exchange(waiting, E)
    BY <1>1, <1>5, <1>6, PruneKeeps, Zenon
  <1>8. Due(waiting, E, p, e)
    <2>1. CASE Resends(p)
      BY <1>4, <2>1, Zenon DEF old, e, Due, Resends, Owned
    <2>2. CASE ~Resends(p)
      BY <1>1, <1>4, <2>2, Zenon DEF old, e, Due, Promotes, Owned
    <2> QED
      BY <2>1, <2>2, Zenon
  <1>9. /\ holding' \in Packet /\ holding' # NoPacket
        /\ holding'.kind = (IF e.state = "await_pubcomp" THEN "pubrel" ELSE "publish")
        /\ holding'.packet_id = p
        /\ holding'.publish = e.publish
    BY <1>1, <1>2, Zenon DEF Transmits
  <1> QED
    BY <1>1, <1>2, <1>4, <1>5, <1>7, <1>8, <1>9, TakeKeeps, Zenon

\* The writer writes what it holds.
LEMMA WriteStep ==
    ASSUME TypeOK, Exchange(waiting, entry), Write
    PROVE  Exchange(waiting, entry)'
  BY WriteKeeps, Zenon DEF Write, sessionVars, clientVars

\* The writer gives up what it holds.
LEMMA DiscardStep ==
    ASSUME TypeOK, Exchange(waiting, entry), Discard
    PROVE  Exchange(waiting, entry)'
  <1> DEFINE p == holding.packet_id
             n == Len(toClient) + 1
             same == [i \in At(toClient) |-> i]
             still == [i \in At(toBroker) |-> i]
  <1>1. /\ holding # NoPacket /\ Pipe' = toClient /\ toBroker' = toBroker
        /\ toClient' = toClient
    BY Zenon DEF Discard, Pipe
  <1>2. /\ At(Pipe) = At(toClient) \cup {n} /\ n \notin At(toClient)
        /\ Pipe[n] = holding
        /\ \A i \in At(toClient) : Pipe[i] = toClient[i]
    BY <1>1, HeldFacts, Zenon
  <1>3. Fewer(same, still)
    BY <1>1, <1>2, Zenon DEF Fewer
  <1>4. Matches(entry, holding)
    BY <1>1, Zenon DEF Exchange, Always, HoldsOwn
  <1> HIDE DEF n
  <1>5. Tokens(entry) => ~Busy(Pipe', toBroker', p)
    BY <1>1, <1>2, Zenon DEF Tokens, OneToken, Busy
  <1>6. \A q \in Owned(entry) :
           \/ entry'[q] = entry[q] /\ q \in Owned(entry')
           \/ /\ entry[q].state # "await_pubcomp"
              /\ Tokens(entry) => ~Busy(Pipe', toBroker', q)
    <2> TAKE q \in Owned(entry)
    <2>1. CASE entry'[q] = entry[q]
      BY <2>1, Zenon DEF Owned
    <2>2. CASE q = p /\ holding.kind = "publish"
      BY <1>4, <1>5, <2>2, Zenon DEF Matches
    <2> QED
      BY <2>1, <2>2, Zenon DEF Discard
  <1>7. Loses
    <2>1. /\ waiting' = waiting /\ Keeps(entry, entry') /\ written' = written
          /\ holding' = NoPacket
      BY Zenon DEF Discard, historyVars
    <2> QED
      BY <1>6, <2>1, Zenon DEF Loses
  <1> QED
    BY <1>3, <1>7, LossKeeps, Zenon DEF Discard, clientVars, historyVars

\* An acknowledgement that is expected.
LEMMA AcknowledgeStep ==
    ASSUME TypeOK, Exchange(waiting, entry), Acknowledge
    PROVE  Exchange(waiting, entry)'
  <1> DEFINE ack == toBroker[1]
             p == ack.packet_id
  <1>1. GoodTable(entry) /\ toBroker \in Seq(Ack) /\ toBroker # <<>>
    BY Zenon DEF TypeOK, Acknowledge
  <1>2. PICK up : Follows(toBroker, Tail(toBroker), up)
    BY <1>1, TailFollows, Zenon
  <1>3. ack = Head(toBroker) /\ ack \in Ack
    BY <1>1, TailFollows, Zenon
  <1>4. /\ holding = NoPacket /\ Expects(ack) /\ Advances(ack)
        /\ completed' = IF ack.kind \in {"puback", "pubcomp"}
                        THEN completed \cup {entry[p].publish} ELSE completed
        /\ refused' = IF ack.kind = "refused"
                      THEN refused \cup {entry[p].publish} ELSE refused
        /\ toBroker' = Tail(toBroker)
        /\ UNCHANGED <<waiting, holding, toClient, received, delivered, enqueued, written>>
    BY <1>3, Zenon DEF Acknowledge, clientVars
  <1>5. Applies(ack, p, entry, entry')
    <2>1. p \in PacketIds /\ ack.kind \in {"puback", "pubrec", "refused", "pubcomp"}
      BY <1>3, Zenon DEF Ack
    <2>2. /\ p \in Owned(entry)
          /\ ack.kind = "puback" => entry[p].state = "await_puback"
          /\ ack.kind \in {"pubrec", "refused"} => entry[p].state = "await_pubrec"
          /\ ack.kind = "pubcomp" => entry[p].state = "await_pubcomp"
      BY <1>4, <2>1, Zenon DEF Expects
    <2>3. /\ \A q \in Owned(entry) : q # p => q \in Owned(entry') /\ entry'[q] = entry[q]
          /\ \A q \in Owned(entry') : q \in Owned(entry)
          /\ ack.kind = "pubrec" => /\ p \in Owned(entry')
                                    /\ entry'[p].publish = entry[p].publish
                                    /\ entry'[p].state = "await_pubcomp"
          /\ ack.kind # "pubrec" => p \notin Owned(entry')
      BY <1>4, <2>1, <2>2, Zenon DEF Advances, Owned
    <2> QED
      BY <1>3, <1>4, <2>2, <2>3, Zenon DEF Applies
  <1> HIDE DEF p
  <1>6. Follows(toBroker, toBroker', up)
    BY <1>2, <1>4, Zenon
  <1> QED
    BY <1>1, <1>4, <1>5, <1>6, AckKeeps, Zenon

\* An acknowledgement that is not.
LEMMA DisregardStep ==
    ASSUME TypeOK, Exchange(waiting, entry), Disregard
    PROVE  Exchange(waiting, entry)'
  <1> DEFINE same == [i \in At(Pipe) |-> i]
  <1>1. /\ toBroker \in Seq(Ack) /\ toBroker # <<>> /\ toBroker' = Tail(toBroker)
        /\ UNCHANGED <<waiting, entry, holding, toClient, received, delivered,
                       enqueued, written, completed, refused>>
    BY Zenon DEF TypeOK, Disregard, sessionVars, clientVars, historyVars
  <1>2. PICK up : Follows(toBroker, Tail(toBroker), up)
    BY <1>1, TailFollows, Zenon
  <1>3. Pipe' = Pipe
    BY <1>1, Zenon DEF Pipe
  <1>4. Fewer(same, up)
    BY <1>1, <1>2, <1>3, Zenon DEF Fewer, Follows
  <1>5. Loses
    BY <1>1, Zenon DEF Loses, Keeps, Owned
  <1> QED
    BY <1>1, <1>4, <1>5, LossKeeps, Zenon

\* The client takes the packet at the head of toClient and of Pipe.
LEMMA AnswerReads ==
    ASSUME TypeOK, NEW kind, toClient # <<>>, Answer(kind, Head(toClient)),
           [kind |-> kind, packet_id |-> Head(toClient).packet_id] \in Ack,
           \A m \in Messages : m # Head(toClient).publish => delivered'[m] = delivered[m]
    PROVE  \E n, up, down :
              Reads(Head(toClient), [kind |-> kind, packet_id |-> Head(toClient).packet_id],
                    n, up, down)
  <1> DEFINE packet == Head(toClient)
             ack == [kind |-> kind, packet_id |-> packet.packet_id]
  <1>1. /\ toClient \in Seq(Packet) /\ toBroker \in Seq(Ack)
        /\ holding \in Packet \cup {NoPacket}
        /\ toClient' = Tail(toClient) /\ toBroker' = Append(toBroker, ack)
        /\ holding' = holding
    BY Zenon DEF TypeOK, Answer
  <1>2. PICK down : Follows(toClient, toClient', down)
    BY <1>1, TailFollows, Zenon
  <1>3. packet = toClient[1] /\ packet \in Packet
    BY <1>1, TailFollows, Zenon
  <1>4. Joins(toBroker, toBroker', Len(toBroker) + 1, ack)
    <2> HIDE DEF ack
    <2>1. ack \in Ack
      BY Zenon DEF ack
    <2>2. Joins(toBroker, Append(toBroker, ack), Len(toBroker) + 1, ack)
      BY <1>1, <2>1, AppendJoins, Zenon
    <2> QED
      BY <1>1, <2>2, Zenon
  <1>5. \E up : Follows(Pipe, Pipe', up) /\ packet = Pipe[1]
    <2>1. CASE holding = NoPacket
      <3>1. Pipe = toClient /\ Pipe' = toClient'
        BY <1>1, <2>1, Zenon DEF Pipe
      <3> QED
        BY <1>2, <1>3, <3>1, Zenon
    <2>2. CASE holding # NoPacket
      <3>1. /\ Pipe = Append(toClient, holding) /\ Pipe' = Append(toClient', holding)
            /\ holding \in Packet
        BY <1>1, <2>2, Zenon DEF Pipe
      <3>2. Pipe \in Seq(Packet) /\ Pipe # <<>> /\ Pipe' = Tail(Pipe)
        BY <1>1, <3>1, SMTT(30)
      <3>3. packet = Pipe[1]
        BY <1>1, <1>3, <3>1
      <3> QED
        BY <3>2, <3>3, TailFollows, Zenon
    <2> QED
      BY <2>1, <2>2, Zenon
  <1>6. PICK up : Follows(Pipe, Pipe', up) /\ packet = Pipe[1]
    BY <1>5, Zenon
  <1>7. Reads(packet, ack, Len(toBroker) + 1, up, down)
    BY <1>2, <1>3, <1>4, <1>6, Zenon DEF Reads
  <1> QED
    BY <1>7, Zenon

\* The client answers a packet.
LEMMA ClientStep ==
    ASSUME TypeOK, Exchange(waiting, entry),
           ClientTakesQoS1 \/ ClientTakesQoS2 \/ ClientRefusesQoS2 \/ ClientReleases
    PROVE  Exchange(waiting, entry)'
  <1> DEFINE packet == Head(toClient)
             more == [delivered EXCEPT ![packet.publish] =
                        IF @ < ManyTimes THEN @ + 1 ELSE @]
  <1>1. /\ toClient # <<>> /\ packet \in Packet
        /\ delivered \in [Messages -> 0..ManyTimes] /\ GoodTable(entry)
    <2>1. toClient # <<>>
      BY Zenon DEF ClientTakesQoS1, ClientTakesQoS2, ClientRefusesQoS2, ClientReleases
    <2> QED
      BY <2>1, TailFollows, Zenon DEF TypeOK
  <1>2. packet.publish \in Messages /\ packet.packet_id \in PacketIds
    BY <1>1, Zenon DEF Packet
  <1>3. /\ more[packet.publish] > 0
        /\ delivered[packet.publish] = 0 => more[packet.publish] = 1
        /\ \A m \in Messages : m # packet.publish => more[m] = delivered[m]
    BY <1>1, <1>2 DEF ManyTimes
  <1> HIDE DEF more
  <1>4. \E kind \in {"puback", "pubrec", "refused", "pubcomp"} :
           /\ Answer(kind, packet) /\ Takes(packet, kind)
           /\ \A m \in Messages : m # packet.publish => delivered'[m] = delivered[m]
    <2>1. CASE ClientTakesQoS1
      BY <1>3, <2>1, Zenon DEF ClientTakesQoS1, DeliverToApplication, Takes, more
    <2>2. CASE ClientTakesQoS2
      BY <1>3, <2>2, Zenon DEF ClientTakesQoS2, DeliverToApplication, Takes, more
    <2>3. CASE ClientRefusesQoS2
      BY <2>3, Zenon DEF ClientRefusesQoS2, Takes, clientVars
    <2>4. CASE ClientReleases
      BY <2>4, Zenon DEF ClientReleases, Takes
    <2> QED
      BY <2>1, <2>2, <2>3, <2>4, Zenon
  <1>5. PICK kind \in {"puback", "pubrec", "refused", "pubcomp"} :
           /\ Answer(kind, packet) /\ Takes(packet, kind)
           /\ \A m \in Messages : m # packet.publish => delivered'[m] = delivered[m]
    BY <1>4, Zenon
  <1> DEFINE ack == [kind |-> kind, packet_id |-> packet.packet_id]
  <1>6. ack \in Ack /\ ack.kind = kind
    BY <1>2, Zenon DEF Ack
  <1>7. PICK n, up, down : Reads(packet, ack, n, up, down)
    BY <1>1, <1>5, <1>6, AnswerReads, Zenon
  <1>8. Takes(packet, ack.kind)
    BY <1>5, <1>6, Zenon
  <1>9. UNCHANGED <<waiting, entry, holding, enqueued, written, completed, refused>>
    BY <1>5, Zenon DEF Answer, sessionVars, historyVars
  <1> HIDE DEF ack, packet
  <1> QED
    BY <1>1, <1>7, <1>8, <1>9, ClientKeeps, Zenon

\* Every step keeps the types.
LEMMA TypeStep ==
    ASSUME TypeOK, Next
    PROVE  TypeOK'
  <1> USE DEF sessionVars, linkVars, clientVars, historyVars
  <1>1. CASE \E m \in Messages : Route(m)
    BY <1>1, Zenon DEF Route, TypeOK, GoodTable, Owned
  <1>2. CASE Prune
    BY <1>2, Zenon DEF Prune, TypeOK, GoodTable, Owned
  <1>3. CASE Interrupt
    BY <1>3 DEF Interrupt, TypeOK, GoodTable, Owned
  <1>4. CASE \E p \in PacketIds : Take(p)
    <2> PICK p \in PacketIds : Take(p)
      BY <1>4, Zenon
    <2>1. waiting' \subseteq waiting /\ holding' \in Packet
      BY Zenon DEF Take, Resends, Promotes, Transmits
    <2> QED
      BY <2>1, Zenon DEF Take, TypeOK, GoodTable, Owned
  <1>5. CASE Write
    BY <1>5 DEF Write, TypeOK, GoodTable, Owned
  <1>6. CASE Discard
    BY <1>6, Zenon DEF Discard, TypeOK, GoodTable, Owned
  <1>7. CASE Acknowledge
    <2>1. entry[Head(toBroker).packet_id].publish \in Messages
      BY <1>7, Zenon DEF Acknowledge, Expects, TypeOK, GoodTable, Inflight
    <2>2. toBroker' \in Seq(Ack) /\ completed' \subseteq Messages
      BY <1>7, <2>1 DEF Acknowledge, TypeOK
    <2> QED
      BY <1>7, <2>2, Zenon DEF Acknowledge, TypeOK, GoodTable, Owned
  <1>8. CASE Disregard
    BY <1>8 DEF Disregard, TypeOK, GoodTable, Owned
  <1>9. CASE ClientTakesQoS1 \/ ClientTakesQoS2 \/ ClientRefusesQoS2 \/ ClientReleases
    <2> DEFINE packet == Head(toClient)
    <2>1. /\ toClient # <<>> /\ toClient \in Seq(Packet)
          /\ \E kind \in {"puback", "pubrec", "refused", "pubcomp"} : Answer(kind, packet)
          /\ delivered' = delivered \/ DeliverToApplication(packet)
          /\ received' \subseteq received \cup {packet.packet_id}
      BY <1>9, Zenon
         DEF ClientTakesQoS1, ClientTakesQoS2, ClientRefusesQoS2, ClientReleases,
                  TypeOK
    <2>2. packet \in Packet /\ Tail(toClient) \in Seq(Packet)
      BY <2>1
    <2>3. packet.packet_id \in PacketIds /\ packet.publish \in Messages
      BY <2>2, Zenon DEF Packet
    <2>4. received' \subseteq PacketIds
      BY <2>1, <2>3, Zenon DEF TypeOK
    <2> HIDE DEF packet
    <2>5. delivered' \in [Messages -> 0..ManyTimes]
      BY <2>1, <2>3 DEF TypeOK, DeliverToApplication, ManyTimes
    <2>6. PICK kind \in {"puback", "pubrec", "refused", "pubcomp"} : Answer(kind, packet)
      BY <2>1, Zenon
    <2>7. [kind |-> kind, packet_id |-> packet.packet_id] \in Ack
      BY <2>3, Zenon DEF Ack
    <2>8. toBroker' \in Seq(Ack) /\ toClient' \in Seq(Packet)
      BY <2>2, <2>6, <2>7 DEF Answer, TypeOK
    <2> QED
      BY <2>4, <2>5, <2>6, <2>8, Zenon DEF Answer, TypeOK, GoodTable, Owned
  <1> QED
    BY <1>1, <1>2, <1>3, <1>4, <1>5, <1>6, <1>7, <1>8, <1>9, Zenon DEF Next

\* The invariant holds at first.
LEMMA InitHolds == Init => Inv
  <1> SUFFICES ASSUME Init
               PROVE  Inv
    BY Zenon
  <1>1. Owned(entry) = {} /\ Pipe = <<>> /\ At(<<>>) = {}
    BY DEF Init, Owned, Pipe, At
  <1>2. TypeOK
    BY <1>1 DEF Init, TypeOK, GoodTable, ManyTimes
  <1>3. Unsent(waiting, entry) /\ TakenOnce(entry) /\ WrittenFirst
    BY <1>1, SMTT(30) DEF Init, Unsent, Untouched, TakenOnce, WrittenFirst
  <1>4. /\ OneIdentifier(entry) /\ StillOpen(entry) /\ ReleasesOwed(entry)
        /\ ReleasedOnce /\ HoldsOwn(entry) /\ Tokens(entry)
    BY <1>1, Zenon DEF Init, OneIdentifier, StillOpen, ReleasesOwed, ReleasedOnce, HoldsOwn,
                Tokens, OneToken
  <1>5. ClientKnows(entry)
    BY <1>1, Zenon DEF Init, ClientKnows
  <1> QED
    BY <1>2, <1>3, <1>4, <1>5, Zenon DEF Inv, Exchange, Always

\* The inductive step, by action.
LEMMA NextHolds ==
    ASSUME Inv, [Next]_vars
    PROVE  Inv'
  <1>1. TypeOK /\ Exchange(waiting, entry)
    BY Zenon DEF Inv
  <1>2. CASE UNCHANGED vars
    <2>1. Exchange(waiting', entry')
      BY <1>1, <1>2, Zenon DEF vars, sessionVars
    <2>2. Exchange(waiting, entry)'
      BY <1>2, <2>1, SameElsewhere, Zenon DEF vars, linkVars, clientVars, historyVars
    <2>3. TypeOK'
      BY <1>1, <1>2, Zenon DEF vars, sessionVars, linkVars, clientVars, historyVars,
                        TypeOK, GoodTable, Owned
    <2> QED
      BY <2>2, <2>3, Zenon DEF Inv
  <1>3. CASE Next
    <2>1. TypeOK'
      BY <1>1, <1>3, TypeStep, Zenon
    <2>2. Exchange(waiting, entry)'
      BY <1>1, <1>3, RouteStep, PruneStep, InterruptStep, TakeStep, WriteStep,
         DiscardStep, AcknowledgeStep, DisregardStep, ClientStep, Zenon DEF Next
    <2> QED
      BY <2>1, <2>2, Zenon DEF Inv
  <1> QED
    BY <1>2, <1>3, Zenon

\* However the exchange is interrupted, pruned and resumed, every packet and
\* acknowledgement under way belongs to its transaction, and the client knows
\* what it has delivered (what drainInto sends and handleAck accepts).
THEOREM ExchangeInvariance == Spec => []Inv
  BY InitHolds, NextHolds, PTL DEF Spec
=============================================================================

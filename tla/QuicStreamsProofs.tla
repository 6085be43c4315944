-------------------------- MODULE QuicStreamsProofs --------------------------
(***************************************************************************)
(* Proofs about QuicStreams, for every number of streams, window size,     *)
(* initial limit and amount of data: advertised limits may be repeated,    *)
(* delayed and reordered without end, and still no limit moves back and    *)
(* the sender never believes in credit the receiver did not hand out.      *)
(***************************************************************************)
EXTENDS QuicStreams, FiniteSetTheorems, WellFoundedInduction, TLAPS

\* The values of the two flow controllers.
SendFlow == [limit : Int, used : Int]
RecvFlow == [limit : Int, window : Int, maxWindow : Int, highest : Int,
             consumed : Int, epoch : Int]

-----------------------------------------------------------------------------
(* The flow controllers.                                                   *)

\* initWithMaxWindow, and the other constructors, make flows.
LEMMA NewFlows ==
    /\ \A n \in Int : NewSendFlow(n) \in SendFlow /\ NewSendFlow(n).limit <= n
    /\ \A n, w, m \in Int : NewRecvFlow(n, w, m) \in RecvFlow /\ NewRecvFlow(n, w, m).limit = n
  BY VarintMaxAssumption DEF NewSendFlow, NewRecvFlow, SendFlow, RecvFlow, Least, Most

\* reserve and refund spend credit; they never touch the limit.
LEMMA SpendingKeepsLimit ==
    ASSUME NEW f \in SendFlow, NEW n \in Int
    PROVE  /\ Reserve(f, n) \in SendFlow /\ Reserve(f, n).limit = f.limit
           /\ Refund(f, n) \in SendFlow /\ Refund(f, n).limit = f.limit
  BY DEF Reserve, Refund, SendFlow, Most

\* updateLimit moves the limit up, and no further than the advertised one.
LEMMA UpdateLimitGrows ==
    ASSUME NEW f \in SendFlow, NEW n \in Int
    PROVE  /\ UpdateLimit(f, n) \in SendFlow
           /\ UpdateLimit(f, n).limit >= f.limit
           /\ UpdateLimit(f, n).limit <= f.limit \/ UpdateLimit(f, n).limit <= n
  BY VarintMaxAssumption DEF UpdateLimit, SendFlow, Least

\* noteReceived leaves the limit alone.
LEMMA NoteReceivedKeepsLimit ==
    ASSUME NEW f \in RecvFlow, NEW n \in Int
    PROVE  NoteReceived(f, n) \in RecvFlow /\ NoteReceived(f, n).limit = f.limit
  BY Zenon DEF NoteReceived, RecvFlow, Most

\* maybeGrowWindow changes the window and the epoch only.
LEMMA MaybeGrowWindowKeepsLimit ==
    ASSUME NEW f \in RecvFlow
    PROVE  MaybeGrowWindow(f) \in RecvFlow /\ MaybeGrowWindow(f).limit = f.limit
  <1>1. Least(2 * f.window, f.maxWindow) \in Int
    BY DEF RecvFlow, Least
  <1> QED
    BY <1>1, Zenon DEF MaybeGrowWindow, RecvFlow

\* consume, with maybeGrowWindow: the limit never falls.
LEMMA ReturnCreditGrows ==
    ASSUME NEW f \in RecvFlow, NEW n \in Int
    PROVE  ReturnCredit(f, n) \in RecvFlow /\ ReturnCredit(f, n).limit >= f.limit
  <1> DEFINE eaten == [f EXCEPT !.consumed = Least(f.highest, @ + n)]
             grown == MaybeGrowWindow(eaten)
  <1>1. eaten \in RecvFlow /\ eaten.limit = f.limit
    BY DEF RecvFlow, Least
  <1>2. grown \in RecvFlow /\ grown.limit = f.limit
    BY <1>1, MaybeGrowWindowKeepsLimit, Zenon
  <1>3. Least(grown.consumed + grown.window, VarintMax) \in Int
    BY <1>2, VarintMaxAssumption DEF RecvFlow, Least
  <1> QED
    BY <1>1, <1>2, <1>3 DEF ReturnCredit, RecvFlow, Most

-----------------------------------------------------------------------------
(* The sender.                                                             *)

\* One stream of the sender, and the whole sender.
SendEntryType == [flow : SendFlow, high : Int, final : Int, stopped : BOOLEAN, reset : BOOLEAN]

IsSender(x) ==
    /\ x = [flow |-> x.flow, maxStreams |-> x.maxStreams, blockedAt |-> x.blockedAt,
            next |-> x.next, streams |-> x.streams]
    /\ x.flow \in SendFlow
    /\ x.maxStreams \in Int /\ x.blockedAt \in Int /\ x.next \in Int
    /\ x.streams \in [Known(x.streams) -> SendEntryType]
    /\ Known(x.streams) \subseteq Streams

\* What everything the sender does by itself leaves alone: the limits and the
\* final sizes.  Streams may come into use, with the initial limit.
Kept(x, y) ==
    /\ IsSender(y)
    /\ y.flow.limit = x.flow.limit /\ y.maxStreams = x.maxStreams
    /\ Known(x.streams) \subseteq Known(y.streams)
    /\ \A s \in Known(x.streams) :
         /\ y.streams[s].flow.limit = x.streams[s].flow.limit
         /\ x.streams[s].final # NoSize => y.streams[s].final = x.streams[s].final
    /\ \A s \in Known(y.streams) \ Known(x.streams) :
         y.streams[s].flow.limit <= InitialStreamLimit

\* The STREAM frames a write is made of.
SendFrames == [type : {"stream"}, s : Streams, from : Int, to : Int, fin : BOOLEAN]

\* Steps that keep the limits can follow each other.
LEMMA KeptTransitive ==
    ASSUME NEW x, NEW y, NEW z, Kept(x, y), Kept(y, z)
    PROVE  Kept(x, z)
  BY Zenon DEF Kept

\* Doing nothing keeps the limits.
LEMMA KeptReflexive ==
    ASSUME NEW x, IsSender(x)
    PROVE  Kept(x, x)
  BY Zenon DEF Kept

\* A new entry starts from the initial limit.
LEMMA NewSendEntryType ==
    NewSendEntry \in SendEntryType /\ NewSendEntry.flow.limit <= InitialStreamLimit
  <1>1. InitialStreamLimit \in Int
    BY StreamsBounds, VarintMaxAssumption
  <1> QED
    BY <1>1, NewFlows DEF NewSendEntry, SendEntryType, NoSize

\* sendStreamEntry.
LEMMA WithSendEntryKeeps ==
    ASSUME NEW x, IsSender(x), NEW s \in Streams
    PROVE  /\ Kept(x, WithSendEntry(x, s)) /\ s \in Known(WithSendEntry(x, s).streams)
           /\ \A t \in Known(x.streams) : WithSendEntry(x, s).streams[t] = x.streams[t]
           /\ s \notin Known(x.streams) => WithSendEntry(x, s).streams[s] = NewSendEntry
  <1> DEFINE y == WithSendEntry(x, s)
  <1>1. CASE s \in Known(x.streams)
    BY <1>1, KeptReflexive, Zenon DEF WithSendEntry
  <1>2. CASE s \notin Known(x.streams)
    <2>1. /\ y = [x EXCEPT !.streams = Put(x.streams, s, NewSendEntry), !.next = Most(x.next, s + 1)]
      BY <1>2, Zenon DEF WithSendEntry
    <2>2. /\ Known(y.streams) = Known(x.streams) \cup {s}
          /\ y.streams \in [Known(x.streams) \cup {s} -> SendEntryType]
          /\ \A t \in Known(x.streams) : y.streams[t] = x.streams[t]
          /\ y.streams[s] = NewSendEntry
      BY <2>1, <1>2, NewSendEntryType DEF IsSender, Put, Known
    <2>3. Most(x.next, s + 1) \in Int
      BY StreamsBounds DEF IsSender, Most, Streams
    <2>4. IsSender(y)
      BY <2>1, <2>2, <2>3, Zenon DEF IsSender
    <2> QED
      BY <2>1, <2>2, <2>4, NewSendEntryType, Zenon DEF Kept, IsSender
  <1> QED
    BY <1>1, <1>2, Zenon

\* noteSentStreams, of a frame that agrees with a final size already set.
LEMMA NoteSentKeeps ==
    ASSUME NEW x, IsSender(x), NEW f \in SendFrames, f.s \in Known(x.streams),
           f.fin /\ x.streams[f.s].final # NoSize => f.to = x.streams[f.s].final
    PROVE  Kept(x, NoteSent(x, f)) /\ Known(NoteSent(x, f).streams) = Known(x.streams)
  <1> DEFINE y == NoteSent(x, f)
             e == [x.streams[f.s] EXCEPT !.high = Most(@, f.to),
                                         !.final = IF f.fin THEN f.to ELSE @]
  <1>1. x.streams[f.s] \in SendEntryType
    BY Zenon DEF IsSender
  <1>2. e \in SendEntryType /\ e.flow = x.streams[f.s].flow
        /\ (x.streams[f.s].final # NoSize => e.final = x.streams[f.s].final)
    BY <1>1, Zenon DEF SendEntryType, SendFrames, Most
  <1>3. y = [x EXCEPT !.streams = [x.streams EXCEPT ![f.s] = e]]
    BY <1>1, Zenon DEF NoteSent, IsSender, SendEntryType
  <1>4. /\ y.streams \in [Known(x.streams) -> SendEntryType]
        /\ \A s \in Known(x.streams) : y.streams[s] = IF s = f.s THEN e ELSE x.streams[s]
    BY <1>2, <1>3 DEF IsSender, Known
  <1>5. IsSender(y) /\ Known(y.streams) = Known(x.streams)
    BY <1>3, <1>4, Zenon DEF IsSender, Known
  <1> QED
    BY <1>2, <1>3, <1>4, <1>5, Zenon DEF Kept, IsSender

\* A packet of one frame or two.
IsWrite(packet) ==
    \/ \E f \in SendFrames : packet = <<f>>
    \/ \E f, g \in SendFrames : packet = <<f, g>> /\ ~f.fin /\ ~g.fin

\* What a call of the application (appendFrames) makes: a part of a stream, its end,
\* two parts of a stream, or parts of two.
LEMMA WritesForms ==
    ASSUME NEW packet \in Writes
    PROVE  \/ \E s \in Streams, n \in WriteSizes : packet = <<Chunk(s, n, FALSE)>>
           \/ \E s \in Streams, n \in {0} \cup WriteSizes : packet = <<Chunk(s, n, TRUE)>>
           \/ \E s \in Streams, n \in WriteSizes :
                packet = <<Chunk(s, n, FALSE),
                           StreamFrame(s, Chunk(s, n, FALSE).to, Chunk(s, 2 * n, FALSE).to, FALSE)>>
           \/ \E s \in Streams, t \in Streams, n \in WriteSizes :
                s < t /\ packet = <<Chunk(s, n, FALSE), Chunk(t, n, FALSE)>>
  <1> DEFINE Part(s, n) == Chunk(s, n, FALSE)
             End(s, n) == Chunk(s, n, TRUE)
             Later(s, n) == StreamFrame(s, Part(s, n).to, Part(s, 2 * n).to, FALSE)
  <1> DEFINE Plain == {<<Part(sn[1], sn[2])>> : sn \in Streams \X WriteSizes}
             Last == {<<End(sn[1], sn[2])>> : sn \in Streams \X ({0} \cup WriteSizes)}
             Two == {<<Part(sn[1], sn[2]), Later(sn[1], sn[2])>> : sn \in Streams \X WriteSizes}
             Both == {<<Part(stn[1], stn[3]), Part(stn[2], stn[3])>> :
                         stn \in {p \in Streams \X Streams \X WriteSizes : p[1] < p[2]}}
  <1>1. packet \in Plain \cup Last \cup Two \cup Both
    BY Zenon DEF Writes
  <1>2. packet \in Plain => \E s \in Streams, n \in WriteSizes : packet = <<Part(s, n)>>
    BY Zenon
  <1>3. packet \in Last => \E s \in Streams, n \in {0} \cup WriteSizes : packet = <<End(s, n)>>
    BY Zenon
  <1>4. packet \in Two =>
            \E s \in Streams, n \in WriteSizes : packet = <<Part(s, n), Later(s, n)>>
    BY Zenon
  <1>5. packet \in Both => \E s \in Streams, t \in Streams, n \in WriteSizes :
                             s < t /\ packet = <<Part(s, n), Part(t, n)>>
    BY Zenon
  <1> HIDE DEF Plain, Last, Two, Both
  <1> QED
    BY <1>1, <1>2, <1>3, <1>4, <1>5, Zenon

\* That is one frame, or two that do not end a stream.
LEMMA WritesShape ==
    ASSUME IsSender(snd), NEW packet \in Writes
    PROVE  IsWrite(packet)
  <1> DEFINE Part(s, n) == Chunk(s, n, FALSE)
             End(s, n) == Chunk(s, n, TRUE)
             Later(s, n) == StreamFrame(s, Part(s, n).to, Part(s, 2 * n).to, FALSE)
  <1>6. \/ \E s \in Streams, n \in WriteSizes : packet = <<Part(s, n)>>
        \/ \E s \in Streams, n \in {0} \cup WriteSizes : packet = <<End(s, n)>>
        \/ \E s \in Streams, n \in WriteSizes : packet = <<Part(s, n), Later(s, n)>>
        \/ \E s \in Streams, t \in Streams, n \in WriteSizes : packet = <<Part(s, n), Part(t, n)>>
    BY WritesForms, Zenon
  <1>7. \A s \in Streams : SendEntry(s).high \in Int
    BY NewSendEntryType, Zenon DEF SendEntry, IsSender, SendEntryType
  <1>8. \A s \in Streams, n \in Int :
            /\ Part(s, n) \in SendFrames /\ ~Part(s, n).fin /\ Part(s, n).to \in Int
            /\ End(s, n) \in SendFrames
    BY <1>7 DEF Chunk, StreamFrame, SendFrames
  <1> HIDE DEF Part, End
  <1>9. \A s \in Streams, n \in Int : Later(s, n) \in SendFrames /\ ~Later(s, n).fin
    BY <1>8 DEF StreamFrame, SendFrames
  <1> HIDE DEF Later
  <1>14. WriteSizes \subseteq Int /\ 0 \in Int
    BY StreamsBounds
  <1>10. CASE \E s \in Streams, n \in WriteSizes : packet = <<Part(s, n)>>
    BY <1>8, <1>10, <1>14, Zenon DEF IsWrite
  <1>11. CASE \E s \in Streams, n \in {0} \cup WriteSizes : packet = <<End(s, n)>>
    BY <1>8, <1>11, <1>14, Zenon DEF IsWrite
  <1>12. CASE \E s \in Streams, n \in WriteSizes : packet = <<Part(s, n), Later(s, n)>>
    BY <1>8, <1>9, <1>12, <1>14, Zenon DEF IsWrite
  <1>13. CASE \E s \in Streams, t \in Streams, n \in WriteSizes : packet = <<Part(s, n), Part(t, n)>>
    BY <1>8, <1>13, <1>14, Zenon DEF IsWrite
  <1> QED
    BY <1>6, <1>10, <1>11, <1>12, <1>13, Zenon

\* The bytes of a packet (collectOutboundStreamCredits) are a number.
LEMMA PacketBytesType ==
    ASSUME NEW packet, IsWrite(packet), NEW s
    PROVE  BytesFor(packet, s) \in Int /\ PacketBytes(packet) \in Int
  <1>1. \A f \in SendFrames : FrameBytes(f) \in Int
    BY DEF SendFrames, FrameBytes
  <1>2. ASSUME NEW f \in SendFrames, packet = <<f>>
        PROVE  BytesFor(packet, s) \in Int /\ PacketBytes(packet) \in Int
    BY <1>1, <1>2 DEF BytesFor, PacketBytes, InOrder
  <1>3. ASSUME NEW f \in SendFrames, NEW g \in SendFrames, packet = <<f, g>>
        PROVE  BytesFor(packet, s) \in Int /\ PacketBytes(packet) \in Int
    BY <1>1, <1>3 DEF BytesFor, PacketBytes, InOrder
  <1> QED
    BY <1>2, <1>3, Zenon DEF IsWrite

\* sendStreamEntry for each frame: the streams of the packet come into use, nothing moves.
LEMMA MaterialisedKeeps ==
    ASSUME IsSender(snd), NEW packet, IsWrite(packet)
    PROVE  /\ Kept(snd, Materialised(packet))
           /\ \A i \in DOMAIN packet :
                /\ packet[i].s \in Known(Materialised(packet).streams)
                /\ Materialised(packet).streams[packet[i].s] = SendEntry(packet[i].s)
  <1>0. \A f \in SendFrames : f.s \in Streams
    BY Zenon DEF SendFrames
  <1>1. ASSUME NEW f \in SendFrames, packet = <<f>>
        PROVE  /\ Kept(snd, Materialised(packet))
               /\ \A i \in DOMAIN packet :
                    /\ packet[i].s \in Known(Materialised(packet).streams)
                    /\ Materialised(packet).streams[packet[i].s] = SendEntry(packet[i].s)
    <2>1. Materialised(packet) = WithSendEntry(snd, f.s)
      BY <1>1, Zenon DEF Materialised, InOrder
    <2> QED
      BY <2>1, <1>0, <1>1, WithSendEntryKeeps DEF SendEntry
  <1>2. ASSUME NEW f \in SendFrames, NEW g \in SendFrames, packet = <<f, g>>
        PROVE  /\ Kept(snd, Materialised(packet))
               /\ \A i \in DOMAIN packet :
                    /\ packet[i].s \in Known(Materialised(packet).streams)
                    /\ Materialised(packet).streams[packet[i].s] = SendEntry(packet[i].s)
    <2> DEFINE y == WithSendEntry(snd, f.s)
               z == WithSendEntry(y, g.s)
    <2>1. Materialised(packet) = z
      BY <1>2 DEF Materialised, InOrder
    <2>2. /\ Kept(snd, y) /\ f.s \in Known(y.streams) /\ y.streams[f.s] = SendEntry(f.s)
          /\ g.s \in Known(y.streams) => y.streams[g.s] = SendEntry(g.s)
      <3>1. /\ Kept(snd, y) /\ f.s \in Known(y.streams)
            /\ \A t \in Known(snd.streams) : y.streams[t] = snd.streams[t]
            /\ f.s \notin Known(snd.streams) => y.streams[f.s] = NewSendEntry
        BY <1>0, WithSendEntryKeeps
      <3>2. Known(y.streams) \subseteq Known(snd.streams) \cup {f.s}
        BY Zenon DEF WithSendEntry, IsSender, Put, Known
      <3> QED
        BY <3>1, <3>2, Zenon DEF SendEntry
    <2>3. g.s \notin Known(y.streams) => SendEntry(g.s) = NewSendEntry
      BY <2>2, Zenon DEF SendEntry, Kept
    <2> HIDE DEF y
    <2>4. /\ Kept(y, z) /\ g.s \in Known(z.streams)
          /\ \A t \in Known(y.streams) : z.streams[t] = y.streams[t]
          /\ g.s \notin Known(y.streams) => z.streams[g.s] = NewSendEntry
      BY <2>2, <1>0, WithSendEntryKeeps, Zenon DEF Kept
    <2> HIDE DEF z
    <2>5. f.s \in Known(z.streams)
      BY <2>2, <2>4, Zenon DEF Kept
    <2>6. z.streams[f.s] = SendEntry(f.s) /\ z.streams[g.s] = SendEntry(g.s)
      BY <2>2, <2>3, <2>4, Zenon
    <2>7. Kept(snd, z)
      BY <2>2, <2>4, KeptTransitive, Zenon
    <2> QED
      BY <1>2, <2>1, <2>4, <2>5, <2>6, <2>7
  <1> QED
    BY <1>1, <1>2, Zenon DEF IsWrite

\* The charge and its rollback.
LEMMA ChargedKeeps ==
    ASSUME NEW x, IsSender(x), NEW packet, IsWrite(packet)
    PROVE  /\ Kept(x, Charged(x, packet)) /\ Known(Charged(x, packet).streams) = Known(x.streams)
           /\ \A s \in Known(x.streams) : Charged(x, packet).streams[s].final = x.streams[s].final
           /\ Kept(x, Uncharged(x, packet))
  <1> DEFINE c(s) == [x.streams[s] EXCEPT !.flow = Reserve(@, BytesFor(packet, s))]
             u(s) == [x.streams[s] EXCEPT !.flow = Refund(@, BytesFor(packet, s))]
  <1>1. \A s \in Known(x.streams) : x.streams[s] \in SendEntryType
    BY Zenon DEF IsSender
  <1>2. \A s \in Known(x.streams) :
            /\ c(s) \in SendEntryType /\ c(s).flow.limit = x.streams[s].flow.limit
            /\ c(s).final = x.streams[s].final
            /\ u(s) \in SendEntryType /\ u(s).flow.limit = x.streams[s].flow.limit
            /\ u(s).final = x.streams[s].final
    BY <1>1, PacketBytesType, SpendingKeepsLimit, Zenon DEF SendEntryType
  <1>3. /\ Reserve(x.flow, PacketBytes(packet)) \in SendFlow
        /\ Reserve(x.flow, PacketBytes(packet)).limit = x.flow.limit
        /\ Refund(x.flow, PacketBytes(packet)) \in SendFlow
        /\ Refund(x.flow, PacketBytes(packet)).limit = x.flow.limit
    BY PacketBytesType, SpendingKeepsLimit, Zenon DEF IsSender
  <1>4. /\ Charged(x, packet) = [x EXCEPT !.flow = Reserve(x.flow, PacketBytes(packet)),
                                          !.streams = [s \in Known(x.streams) |-> c(s)]]
        /\ Uncharged(x, packet) = [x EXCEPT !.flow = Refund(x.flow, PacketBytes(packet)),
                                            !.streams = [s \in Known(x.streams) |-> u(s)]]
    BY Zenon DEF Charged, Uncharged
  <1> HIDE DEF c, u
  <1>5. /\ Charged(x, packet).streams \in [Known(x.streams) -> SendEntryType]
        /\ \A s \in Known(x.streams) : Charged(x, packet).streams[s] = c(s)
        /\ Uncharged(x, packet).streams \in [Known(x.streams) -> SendEntryType]
        /\ \A s \in Known(x.streams) : Uncharged(x, packet).streams[s] = u(s)
    BY <1>2, <1>4 DEF IsSender
  <1>6. /\ IsSender(Charged(x, packet)) /\ Known(Charged(x, packet).streams) = Known(x.streams)
        /\ IsSender(Uncharged(x, packet)) /\ Known(Uncharged(x, packet).streams) = Known(x.streams)
    BY <1>3, <1>4, <1>5, Zenon DEF IsSender, Known
  <1>7. Kept(x, Charged(x, packet)) /\ Kept(x, Uncharged(x, packet))
    BY <1>2, <1>3, <1>4, <1>5, <1>6 DEF Kept, IsSender
  <1> QED
    BY <1>2, <1>5, <1>6, <1>7, Zenon

\* What the receiver may be sent: frames of streams the sender knows.
FrameOK(f, x) ==
    \/ f.type = "streams_blocked"
    \/ f.s \in Known(x.streams) /\ (f \in SendFrames \/ (f.type = "reset" /\ f.size \in Int))

\* A packet of the sender holds one or two of those.
PacketOK(packet, x) ==
    \/ \E f : packet = <<f>> /\ FrameOK(f, x)
    \/ \E f, g : packet = <<f, g>> /\ FrameOK(f, x) /\ FrameOK(g, x)

\* A step of the sender's own.
SenderActs ==
    /\ Kept(snd, snd')
    /\ \A packet \in toReceiver' : packet \in toReceiver \/ PacketOK(packet, snd')

\* sendWithEcnAtRaw.
LEMMA WriteKeeps ==
    ASSUME IsSender(snd), NEW packet \in Writes, Write(packet)
    PROVE  SenderActs
  <1> DEFINE x == Materialised(packet)
             c == Charged(x, packet)
  <1>0. IsWrite(packet)
    BY WritesShape, Zenon
  <1>1. /\ Kept(snd, x)
        /\ \A i \in DOMAIN packet : /\ packet[i].s \in Known(x.streams)
                                    /\ x.streams[packet[i].s] = SendEntry(packet[i].s)
    BY <1>0, MaterialisedKeeps, Zenon
  <1> HIDE DEF x
  <1>2. IsSender(x)
    BY <1>1, Zenon DEF Kept
  <1>3. /\ Kept(x, c) /\ Known(c.streams) = Known(x.streams)
        /\ \A s \in Known(x.streams) : c.streams[s].final = x.streams[s].final
    BY <1>0, <1>2, ChargedKeeps, Zenon
  <1> HIDE DEF c
  <1>4. Kept(snd, c) /\ IsSender(c)
    <2>1. IsSender(c)
      BY <1>3, Zenon DEF Kept
    <2> QED
      BY <1>0, <1>1, <1>3, <2>1, KeptTransitive, Zenon
  <1>5. Kept(c, Uncharged(c, packet))
    BY <1>0, <1>4, ChargedKeeps, Zenon
  <1>6. \A i \in DOMAIN packet : MaySend(packet[i])
    BY Zenon DEF Write
  <1>7. CASE snd' = InOrder(NoteSent, c, packet) /\ toReceiver' = toReceiver \cup {packet}
    <2>1. ASSUME NEW f \in SendFrames, packet = <<f>>
          PROVE  Kept(snd, snd') /\ PacketOK(packet, snd')
      <3>1. snd' = NoteSent(c, f)
        BY <2>1, <1>7, Zenon DEF InOrder
      <3>2. f.s \in Known(c.streams) /\ c.streams[f.s].final = SendEntry(f.s).final
        BY <2>1, <1>1, <1>3
      <3>3. f.fin /\ c.streams[f.s].final # NoSize => f.to = c.streams[f.s].final
        BY <2>1, <3>2, <1>6 DEF MaySend
      <3>4. Kept(c, snd') /\ Known(snd'.streams) = Known(c.streams)
        BY <3>1, <3>2, <3>3, <1>4, NoteSentKeeps, Zenon
      <3>5. Kept(snd, snd')
        BY <1>4, <3>4, KeptTransitive, Zenon
      <3> QED
        BY <2>1, <3>2, <3>4, <3>5, Zenon DEF PacketOK, FrameOK
    <2>2. ASSUME NEW f \in SendFrames, NEW g \in SendFrames, packet = <<f, g>>, ~f.fin, ~g.fin
          PROVE  Kept(snd, snd') /\ PacketOK(packet, snd')
      <3> DEFINE d == NoteSent(c, f)
      <3>1. snd' = NoteSent(d, g)
        BY <2>2, <1>7 DEF InOrder
      <3>2. f.s \in Known(c.streams) /\ g.s \in Known(c.streams)
        BY <2>2, <1>1, <1>3
      <3>3. Kept(c, d) /\ Known(d.streams) = Known(c.streams)
        BY <2>2, <3>2, <1>4, NoteSentKeeps, Zenon
      <3>6. IsSender(d)
        BY <3>3, Zenon DEF Kept
      <3> HIDE DEF d
      <3>4. Kept(d, snd') /\ Known(snd'.streams) = Known(d.streams)
        BY <2>2, <3>1, <3>2, <3>3, <3>6, NoteSentKeeps, Zenon
      <3>5. Kept(snd, snd')
        BY <1>4, <3>3, <3>4, KeptTransitive, Zenon
      <3> QED
        BY <2>2, <3>2, <3>3, <3>4, <3>5, Zenon DEF PacketOK, FrameOK
    <2> QED
      BY <1>0, <1>7, <2>1, <2>2, Zenon DEF IsWrite, SenderActs
  <1>8. CASE snd' = Uncharged(c, packet) /\ UNCHANGED toReceiver
    BY <1>4, <1>5, <1>8, KeptTransitive, Zenon DEF SenderActs
  <1> QED
    BY <1>7, <1>8, Zenon DEF Write, x, c

\* The same call when it is blocked: only the entries come into being.
LEMMA BlockedByCreditKeeps ==
    ASSUME IsSender(snd), NEW packet \in Writes, BlockedByCredit(packet)
    PROVE  SenderActs
  <1>1. snd' = Materialised(packet) /\ toReceiver' = toReceiver
    BY Zenon DEF BlockedByCredit
  <1> QED
    BY <1>1, WritesShape, MaterialisedKeeps, Zenon DEF SenderActs

\* sendStreamsBlocked and openLocalStream.
LEMMA CountKeeps ==
    ASSUME IsSender(snd), BlockedByCount \/ OpenLocalStream
    PROVE  SenderActs
  <1>1. Kept(snd, snd')
    BY DEF BlockedByCount, OpenLocalStream, Kept, IsSender
  <1>2. \A packet \in toReceiver' : packet \in toReceiver \/ PacketOK(packet, snd')
    BY DEF BlockedByCount, OpenLocalStream, PacketOK, FrameOK
  <1> QED
    BY <1>1, <1>2, Zenon DEF SenderActs

\* sendResetStream.
LEMMA SendResetKeeps ==
    ASSUME NEW x, Kept(snd, x), NEW s \in Known(x.streams), SendReset(x, s)
    PROVE  SenderActs
  <1> DEFINE e == [x.streams[s] EXCEPT !.reset = TRUE]
             y == [x EXCEPT !.streams[s].reset = TRUE]
  <1>1. IsSender(x) /\ x.streams[s] \in SendEntryType
    BY Zenon DEF Kept, IsSender
  <1>2. e \in SendEntryType /\ e.flow = x.streams[s].flow /\ e.final = x.streams[s].final
    BY <1>1, Zenon DEF SendEntryType
  <1>3. y = [x EXCEPT !.streams = [x.streams EXCEPT ![s] = e]]
    BY <1>1, Zenon DEF IsSender, SendEntryType
  <1> HIDE DEF e, y
  <1>4. /\ y.streams \in [Known(x.streams) -> SendEntryType]
        /\ \A t \in Known(x.streams) : y.streams[t] = IF t = s THEN e ELSE x.streams[t]
    BY <1>1, <1>2, <1>3, Zenon DEF IsSender, Known
  <1>5. IsSender(y) /\ Known(y.streams) = Known(x.streams)
    BY <1>1, <1>3, <1>4, Zenon DEF IsSender, Known
  <1>6. Kept(x, y)
    BY <1>1, <1>2, <1>3, <1>4, <1>5, Zenon DEF Kept, IsSender
  <1>7. Kept(snd, y)
    BY <1>6, KeptTransitive, Zenon
  <1>8. PacketOK(<<ResetFrame(s, x.streams[s].high)>>, y)
    <2>1. FrameOK(ResetFrame(s, x.streams[s].high), y)
      BY <1>1, <1>5, Zenon DEF FrameOK, ResetFrame, SendEntryType
    <2> QED
      BY <2>1, Zenon DEF PacketOK
  <1> QED
    BY <1>7, <1>8, Zenon DEF SendReset, SenderActs, y
-----------------------------------------------------------------------------
(* The receiver.                                                           *)

\* The reassembly state of a stream, one stream, and the whole receiver.
IsRecvState(r) ==
    /\ r = [k \in DOMAIN r |-> r[k]]
    /\ {"storage", "read", "total"} \subseteq DOMAIN r
    /\ r.storage \in Int /\ r.read \in Int /\ r.total \in Int

IsRecvEntry(e) ==
    /\ e = [k \in DOMAIN e |-> e[k]]
    /\ {"flow", "rs", "final"} \subseteq DOMAIN e
    /\ e.flow \in RecvFlow
    /\ IsRecvState(e.rs)

IsReceiver(y) ==
    /\ y = [flow |-> y.flow, total |-> y.total, maxStreams |-> y.maxStreams, streams |-> y.streams]
    /\ y.flow \in RecvFlow
    /\ y.total \in Int /\ y.maxStreams \in Int
    /\ y.streams = [s \in Known(y.streams) |-> y.streams[s]]
    /\ \A s \in Known(y.streams) : IsRecvEntry(y.streams[s])

\* What the receiver does to its limits and to final sizes.
Grows(x, y) ==
    /\ IsReceiver(y)
    /\ y.flow.limit >= x.flow.limit /\ y.maxStreams >= x.maxStreams
    /\ Known(x.streams) \subseteq Known(y.streams)
    /\ \A s \in Known(x.streams) :
         /\ y.streams[s].flow.limit >= x.streams[s].flow.limit
         /\ x.streams[s].final # NoSize => y.streams[s].final = x.streams[s].final
    /\ \A s \in Known(y.streams) \ Known(x.streams) :
         y.streams[s].flow.limit >= InitialStreamLimit

\* What arrives at the receiver moves none of its limits; a new stream has the initial one.
SameLimits(x, y) ==
    /\ y.flow.limit = x.flow.limit
    /\ \A s \in Known(y.streams) :
         y.streams[s].flow.limit = IF s \in Known(x.streams) THEN x.streams[s].flow.limit
                                   ELSE InitialStreamLimit

\* Doing nothing lets no limit fall.
LEMMA GrowsReflexive ==
    ASSUME NEW x, IsReceiver(x)
    PROVE  Grows(x, x)
  <1>1. /\ x.flow.limit \in Int /\ x.maxStreams \in Int
        /\ \A s \in Known(x.streams) : x.streams[s].flow.limit \in Int
    BY Zenon DEF IsReceiver, IsRecvEntry, RecvFlow
  <1> QED
    BY <1>1 DEF Grows

\* Steps that let no limit fall can follow each other.
LEMMA GrowsTransitive ==
    ASSUME NEW x, NEW y, NEW z, IsReceiver(x), Grows(x, y), Grows(y, z)
    PROVE  Grows(x, z)
  <1>1. InitialStreamLimit \in Int
    BY StreamsBounds, VarintMaxAssumption
  <1>2. IsReceiver(x) /\ IsReceiver(y) /\ IsReceiver(z)
    BY Zenon DEF Grows
  <1>3. /\ x.flow.limit \in Int /\ y.flow.limit \in Int /\ z.flow.limit \in Int
        /\ x.maxStreams \in Int /\ y.maxStreams \in Int /\ z.maxStreams \in Int
        /\ \A s \in Known(x.streams) : x.streams[s].flow.limit \in Int
        /\ \A s \in Known(y.streams) : y.streams[s].flow.limit \in Int
        /\ \A s \in Known(z.streams) : z.streams[s].flow.limit \in Int
    BY <1>2, Zenon DEF IsReceiver, IsRecvEntry, RecvFlow
  <1> QED
    BY <1>1, <1>2, <1>3 DEF Grows

\* A stream the receiver hears of starts from the initial limit.
LEMMA NewRecvEntryOK ==
    /\ IsRecvEntry(NewRecvEntry) /\ NewRecvEntry.final = NoSize
    /\ NewRecvEntry.flow.limit = InitialStreamLimit
  <1>1. InitialStreamLimit \in Int /\ StreamWindow \in Int /\ MaxStreamWindow \in Int
    BY StreamsBounds, VarintMaxAssumption
  <1> QED
    BY <1>1, NewFlows DEF NewRecvEntry, IsRecvEntry, IsRecvState, NewRecvState

\* The bytes a frame adds are finitely many.
LEMMA NewlyReceivedType ==
    ASSUME NEW r, IsRecvState(r), NEW f \in SendFrames
    PROVE  NewlyReceived(r, f) \in Int
  <1> DEFINE S == {i \in Positions(r, f) : ~Stored(r, i)}
  <1>1. f.to - r.storage \in Int
    BY DEF IsRecvState, SendFrames
  <1>2. IsFiniteSet(1 .. f.to - r.storage)
    BY <1>1, FS_Interval
  <1>3. S \subseteq 1 .. f.to - r.storage
    BY Zenon DEF Positions
  <1>4. Cardinality(S) \in Nat
    BY <1>2, <1>3, FS_Subset, FS_CardinalityType, Zenon
  <1> QED
    BY <1>4 DEF NewlyReceived

\* insertTracked and consume.
LEMMA InsertTrackedOK ==
    ASSUME NEW r, IsRecvState(r), NEW f \in SendFrames
    PROVE  IsRecvState(InsertTracked(r, f))
  <1>1. ASSUME NEW n
        PROVE  IsRecvState([r EXCEPT !.final = n])
    BY Zenon DEF IsRecvState
  <1>2. ASSUME NEW b, NEW c, NEW h, NEW t \in Int, NEW n
        PROVE  IsRecvState([r EXCEPT !.buffer = b, !.contiguous = c, !.highest = h,
                                     !.total = t, !.final = n])
    BY Zenon DEF IsRecvState
  <1>3. r.total + NewlyReceived(r, f) \in Int
    BY NewlyReceivedType DEF IsRecvState
  <1>4. CASE f.to <= r.storage
    BY <1>1, <1>4, Zenon DEF InsertTracked
  <1>5. CASE ~(f.to <= r.storage)
    BY <1>2, <1>3, <1>5, Zenon DEF InsertTracked
  <1> QED
    BY <1>4, <1>5, Zenon

\* consume: reading moves the read offset, and leaves a known final size alone.
LEMMA ConsumeOK ==
    ASSUME NEW r, IsRecvState(r), NEW n \in Int
    PROVE  IsRecvState(Consume(r, n))
  <1> DEFINE q == [r EXCEPT !.read = @ + n]
  <1>1. IsRecvState(q)
    BY DEF IsRecvState
  <1> HIDE DEF q
  <1>2. ASSUME NEW b
        PROVE  IsRecvState([q EXCEPT !.buffer = b, !.storage = q.read])
    BY <1>1, Zenon DEF IsRecvState
  <1>3. IsRecvState(CompactConsumedPrefix(q))
    BY <1>1, <1>2, Zenon DEF CompactConsumedPrefix
  <1> QED
    BY <1>3, Zenon DEF Consume, q

\* A frame the receiver acts on, and how far it reaches.
Sizes(f) == f \in SendFrames \/ (f.type = "reset" /\ f.size \in Int)

\* The STREAM case of applyReceivedFramesForDestination, and receiveResetStream.
LEMMA ApplyToStreamGrows ==
    ASSUME NEW x, IsReceiver(x), NEW f, Sizes(f)
    PROVE  /\ Grows(x, ApplyToStream(x, f)) /\ SameLimits(x, ApplyToStream(x, f))
           /\ Known(ApplyToStream(x, f).streams) = Known(x.streams) \cup {f.s}
  <1> DEFINE e == IF f.s \in Known(x.streams) THEN x.streams[f.s] ELSE NewRecvEntry
             size == IF f.type = "stream" THEN f.to ELSE f.size
             final == f.type = "reset" \/ f.fin
             fresh == NewBytes(e, f)
             rs == IF f.type = "stream" THEN InsertTracked(e.rs, f) ELSE e.rs
             d == [e EXCEPT !.final = IF @ = NoSize /\ final THEN size ELSE @,
                            !.flow = NoteReceived(@, size),
                            !.rs = IF f.type = "stream" THEN InsertTracked(@, f) ELSE @,
                            !.high = Most(@, size),
                            !.reset = @ \/ f.type = "reset"]
             y == ApplyToStream(x, f)
  <1>1. /\ IsRecvEntry(e)
        /\ f.s \notin Known(x.streams) => e.flow.limit = InitialStreamLimit
    BY NewRecvEntryOK, Zenon DEF IsReceiver
  <1>2. size \in Int /\ (f.type = "stream" => f \in SendFrames)
    BY Zenon DEF Sizes, SendFrames
  <1>3. fresh \in Int
    <2> HIDE DEF e
    <2>1. IsRecvState(e.rs) /\ e.rs.total \in Int
      BY <1>1, Zenon DEF IsRecvEntry, IsRecvState
    <2>2. CASE f.type = "stream"
      BY <1>2, <2>1, <2>2, NewlyReceivedType, Zenon DEF NewBytes
    <2>3. CASE f.type # "stream"
      <3>1. f.size \in Int
        BY <1>2, <2>3, Zenon
      <3>2. f.size - e.rs.total \in Int
        BY <2>1, <3>1
      <3> QED
        BY <2>3, <3>2, Zenon DEF NewBytes
    <2> QED
      BY <2>2, <2>3, Zenon
  <1>4. IsRecvState(rs)
    BY <1>1, <1>2, InsertTrackedOK, Zenon DEF IsRecvEntry
  <1>5. y = [x EXCEPT !.total = x.total + fresh,
                      !.flow = NoteReceived(x.flow, x.total + fresh),
                      !.streams = Put(x.streams, f.s, d)]
    BY DEF ApplyToStream, Zenon
  <1>6. /\ NoteReceived(e.flow, size) \in RecvFlow
        /\ NoteReceived(e.flow, size).limit = e.flow.limit
    BY <1>1, <1>2, NoteReceivedKeepsLimit, Zenon DEF IsRecvEntry
  <1> HIDE DEF size, final, fresh, e
  <1>7. /\ IsRecvEntry(d) /\ d.flow.limit = e.flow.limit
        /\ e.final # NoSize => d.final = e.final
    BY <1>1, <1>4, <1>6, Zenon DEF IsRecvEntry
  <1> HIDE DEF d, rs
  <1>8. /\ NoteReceived(x.flow, x.total + fresh) \in RecvFlow
        /\ NoteReceived(x.flow, x.total + fresh).limit = x.flow.limit
        /\ x.total + fresh \in Int
    BY <1>3, NoteReceivedKeepsLimit DEF IsReceiver
  <1> HIDE DEF y
  <1>9. /\ Known(y.streams) = Known(x.streams) \cup {f.s}
        /\ y.streams = [t \in Known(y.streams) |-> y.streams[t]]
        /\ \A t \in Known(y.streams) : y.streams[t] = IF t = f.s THEN d ELSE x.streams[t]
    BY <1>5, Zenon DEF Put, Known, IsReceiver
  <1>10. IsReceiver(y)
    BY <1>5, <1>7, <1>8, <1>9, Zenon DEF IsReceiver
  <1>0. InitialStreamLimit \in Int
    BY StreamsBounds, VarintMaxAssumption
  <1>11. /\ x.flow.limit \in Int /\ x.maxStreams \in Int
         /\ \A s \in Known(x.streams) : x.streams[s].flow.limit \in Int
    BY Zenon DEF IsReceiver, IsRecvEntry, RecvFlow
  <1>12. y.flow.limit = x.flow.limit /\ y.maxStreams = x.maxStreams
    BY <1>5, <1>8, Zenon DEF IsReceiver
  <1>13. f.s \in Known(x.streams) => e = x.streams[f.s]
    BY Zenon DEF e
  <1>14. /\ y.flow.limit >= x.flow.limit /\ y.maxStreams >= x.maxStreams
         /\ \A s \in Known(x.streams) : x.streams[s].flow.limit >= x.streams[s].flow.limit
         /\ InitialStreamLimit >= InitialStreamLimit
    BY <1>0, <1>11, <1>12
  <1>15. ASSUME NEW s \in Known(x.streams)
         PROVE  /\ y.streams[s].flow.limit >= x.streams[s].flow.limit
                /\ x.streams[s].final # NoSize => y.streams[s].final = x.streams[s].final
    <2>1. CASE s = f.s
      <3>1. y.streams[s] = d /\ x.streams[s] = e
        BY <1>9, <1>13, <2>1, Zenon
      <3> QED
        BY <1>7, <1>14, <3>1, Zenon
    <2>2. CASE s # f.s
      <3>1. y.streams[s] = x.streams[s]
        BY <1>9, <2>2, Zenon
      <3> QED
        BY <1>14, <3>1, Zenon
    <2> QED
      BY <2>1, <2>2, Zenon
  <1>16. ASSUME NEW s \in Known(y.streams) \ Known(x.streams)
         PROVE  y.streams[s].flow.limit >= InitialStreamLimit
    <2>1. s = f.s
      BY <1>9, Zenon
    <2> QED
      BY <1>1, <1>7, <1>9, <1>14, <2>1, Zenon
  <1>17. Grows(x, y)
    BY <1>9, <1>10, <1>14, <1>15, <1>16, Zenon DEF Grows
  <1>18. SameLimits(x, y)
    BY <1>1, <1>7, <1>9, <1>12, <1>13, Zenon DEF SameLimits
  <1> QED
    BY <1>9, <1>17, <1>18, Zenon DEF y

\* One frame of an accepted packet, its stream created when it is new.
LEMMA ApplyFrameGrows ==
    ASSUME NEW acc, IsReceiver(acc.rcv), NEW f, NEW x, FrameOK(f, x)
    PROVE  /\ Grows(acc.rcv, ApplyFrame(acc, f).rcv) /\ SameLimits(acc.rcv, ApplyFrame(acc, f).rcv)
           /\ Known(ApplyFrame(acc, f).rcv.streams) \subseteq Known(acc.rcv.streams) \cup Known(x.streams)
  <1>0. SameLimits(acc.rcv, acc.rcv)
    BY Zenon DEF SameLimits
  <1>1. CASE acc.error # Fine \/ f.type = "streams_blocked"
    BY <1>0, <1>1, GrowsReflexive, Zenon DEF ApplyFrame
  <1>2. CASE ~(acc.error # Fine \/ f.type = "streams_blocked")
    <2>1. Sizes(f) /\ f.s \in Known(x.streams)
      BY <1>2, Zenon DEF FrameOK, Sizes
    <2>2. ApplyFrame(acc, f).rcv \in {acc.rcv, ApplyToStream(acc.rcv, f)}
      BY <1>2, Zenon DEF ApplyFrame
    <2> QED
      BY <1>0, <2>1, <2>2, GrowsReflexive, ApplyToStreamGrows
  <1> QED
    BY <1>1, <1>2, Zenon

\* applyReceivedFramesForDestinationOrClose of a packet that is accepted.
LEMMA AcceptGrows ==
    ASSUME IsReceiver(rcv), NEW packet, PacketOK(packet, snd), Accept(packet)
    PROVE  /\ Grows(rcv, rcv') /\ SameLimits(rcv, rcv')
           /\ Known(rcv'.streams) \subseteq Known(rcv.streams) \cup Known(snd.streams)
  <1> DEFINE start == [error |-> Fine, rcv |-> rcv]
  <1>1. \E result \in Outcomes(ApplyFrame, start, packet) : rcv' = result.rcv
    BY Zenon DEF Accept, Applied
  <1>2. start.rcv = rcv
    BY Zenon
  <1> HIDE DEF start
  <1>3. ASSUME NEW f, packet = <<f>>, FrameOK(f, snd)
        PROVE  /\ Grows(rcv, rcv') /\ SameLimits(rcv, rcv')
               /\ Known(rcv'.streams) \subseteq Known(rcv.streams) \cup Known(snd.streams)
    <2>1. rcv' = ApplyFrame(start, f).rcv
      BY <1>1, <1>3, Zenon DEF Outcomes
    <2> QED
      BY <2>1, <1>2, <1>3, ApplyFrameGrows, Zenon
  <1>4. ASSUME NEW f, NEW g, packet = <<f, g>>, FrameOK(f, snd), FrameOK(g, snd)
        PROVE  /\ Grows(rcv, rcv') /\ SameLimits(rcv, rcv')
               /\ Known(rcv'.streams) \subseteq Known(rcv.streams) \cup Known(snd.streams)
    <2> DEFINE next == ApplyFrame(start, f)
    <2>1. rcv' = ApplyFrame(next, g).rcv
      BY <1>1, <1>4 DEF Outcomes
    <2>2. /\ Grows(rcv, next.rcv) /\ SameLimits(rcv, next.rcv)
          /\ Known(next.rcv.streams) \subseteq Known(rcv.streams) \cup Known(snd.streams)
      BY <1>2, <1>4, ApplyFrameGrows, Zenon
    <2> HIDE DEF next
    <2>3. IsReceiver(next.rcv)
      BY <2>2, Zenon DEF Grows
    <2>4. /\ Grows(next.rcv, rcv') /\ SameLimits(next.rcv, rcv')
          /\ Known(rcv'.streams) \subseteq Known(next.rcv.streams) \cup Known(snd.streams)
      BY <2>1, <2>3, <1>4, ApplyFrameGrows, Zenon
    <2>5. SameLimits(rcv, rcv')
      BY <2>2, <2>4, Zenon DEF SameLimits, Grows
    <2> QED
      BY <2>2, <2>4, <2>5, GrowsTransitive, Zenon
  <1> QED
    BY <1>3, <1>4, Zenon DEF PacketOK

\* A stream's entry is replaced by one with no lower limit.
LEMMA UpdateEntryGrows ==
    ASSUME NEW x, IsReceiver(x), NEW s \in Known(x.streams), NEW e, IsRecvEntry(e),
           e.flow.limit >= x.streams[s].flow.limit, e.final = x.streams[s].final,
           NEW flow \in RecvFlow, flow.limit >= x.flow.limit,
           NEW n \in Int, n >= x.maxStreams,
           NEW y, y = [flow |-> flow, total |-> x.total, maxStreams |-> n,
                       streams |-> [x.streams EXCEPT ![s] = e]]
    PROVE  Grows(x, y) /\ Known(y.streams) = Known(x.streams)
  <1>1. /\ Known(y.streams) = Known(x.streams)
        /\ y.streams = [t \in Known(y.streams) |-> y.streams[t]]
        /\ \A t \in Known(x.streams) : y.streams[t] = IF t = s THEN e ELSE x.streams[t]
    BY Zenon DEF IsReceiver, Known
  <1>2. IsReceiver(y)
    BY <1>1, Zenon DEF IsReceiver
  <1>3. \A t \in Known(x.streams) : x.streams[t].flow.limit \in Int
    BY Zenon DEF IsReceiver, IsRecvEntry, RecvFlow
  <1>4. \A t \in Known(x.streams) : x.streams[t].flow.limit >= x.streams[t].flow.limit
    BY <1>3
  <1>5. ASSUME NEW t \in Known(x.streams)
        PROVE  /\ y.streams[t].flow.limit >= x.streams[t].flow.limit
               /\ y.streams[t].final = x.streams[t].final
    <2>1. CASE t = s
      BY <1>1, <2>1, Zenon
    <2>2. CASE t # s
      <3>1. y.streams[t] = x.streams[t]
        BY <1>1, <2>2, Zenon
      <3> QED
        BY <1>4, <3>1, Zenon
    <2> QED
      BY <2>1, <2>2, Zenon
  <1>6. y.flow = flow /\ y.maxStreams = n
    BY Zenon
  <1>7. y.flow.limit >= x.flow.limit /\ y.maxStreams >= x.maxStreams
    BY <1>6, Zenon
  <1> QED
    BY <1>1, <1>2, <1>5, <1>7, Zenon DEF Grows
-----------------------------------------------------------------------------
(* The two together.                                                       *)

\* What the sender may be told: limits the receiver has reached.
AdvertOK(f, y) ==
    \/ f.type = "max_data" /\ f.limit \in Int /\ f.limit <= y.flow.limit
    \/ /\ f.type = "max_stream_data" /\ f.s \in Known(y.streams)
       /\ f.limit \in Int /\ f.limit <= y.streams[f.s].flow.limit
    \/ f.type = "max_streams" /\ f.max \in Int /\ f.max <= y.maxStreams

\* A packet of the receiver: one or two such frames, or STOP_SENDING.
AdvertsOK(packet, y) ==
    \/ \E f : packet = <<f>> /\ AdvertOK(f, y)
    \/ \E f, g : packet = <<f, g>> /\ AdvertOK(f, y) /\ AdvertOK(g, y)
    \/ \E f : packet = <<f>> /\ f.type = "stop" /\ f.s \in Known(y.streams)

\* SenderNeverAhead, with the streams the receiver has not heard of.
Behind(x, y) ==
    /\ x.flow.limit <= y.flow.limit /\ x.maxStreams <= y.maxStreams
    /\ Known(y.streams) \subseteq Known(x.streams)
    /\ \A s \in Known(y.streams) : x.streams[s].flow.limit <= y.streams[s].flow.limit
    /\ \A s \in Known(x.streams) \ Known(y.streams) :
         x.streams[s].flow.limit <= InitialStreamLimit

\* The inductive invariant: SenderNeverAhead holds because no packet in the
\* network, however old, names a limit above the receiver's present one.
StreamsInv ==
    /\ IsSender(snd) /\ IsReceiver(rcv) /\ Behind(snd, rcv)
    /\ \A packet \in toReceiver : PacketOK(packet, snd)
    /\ \A packet \in toSender : AdvertsOK(packet, rcv)

\* The limits that NoLimitFalls compares are numbers.
LEMMA LimitsAreInts ==
    /\ \A x : IsSender(x) =>
         /\ x.flow.limit \in Int /\ x.maxStreams \in Int
         /\ \A s \in Known(x.streams) : x.streams[s].flow.limit \in Int
    /\ \A y : IsReceiver(y) =>
         /\ y.flow.limit \in Int /\ y.maxStreams \in Int
         /\ \A s \in Known(y.streams) : y.streams[s].flow.limit \in Int
    /\ InitialStreamLimit \in Int
  <1>1. ASSUME NEW x, IsSender(x)
        PROVE  /\ x.flow.limit \in Int /\ x.maxStreams \in Int
               /\ \A s \in Known(x.streams) : x.streams[s].flow.limit \in Int
    BY <1>1, Zenon DEF IsSender, SendEntryType, SendFlow
  <1>2. ASSUME NEW y, IsReceiver(y)
        PROVE  /\ y.flow.limit \in Int /\ y.maxStreams \in Int
               /\ \A s \in Known(y.streams) : y.streams[s].flow.limit \in Int
    BY <1>2, Zenon DEF IsReceiver, IsRecvEntry, RecvFlow
  <1>3. InitialStreamLimit \in Int
    BY StreamsBounds, VarintMaxAssumption
  <1> QED
    BY <1>1, <1>2, <1>3, Zenon

\* The limits both ends start from (the transport parameters) are the same.
LEMMA StreamsInitInv == StreamsInit => StreamsInv
  <1> SUFFICES ASSUME StreamsInit PROVE StreamsInv
    BY Zenon
  <1>1. /\ InitialConnLimit \in Int /\ ConnWindow \in Int /\ MaxConnWindow \in Int
        /\ InitialMaxStreams \in Int
    BY StreamsBounds, VarintMaxAssumption
  <1>2. IsSender(snd) /\ snd.flow.limit <= InitialConnLimit /\ Known(snd.streams) = {}
    <2>1. <<>> \in [{} -> SendEntryType] /\ DOMAIN <<>> = {}
      OBVIOUS
    <2>2. snd.streams = <<>>
      BY Zenon DEF StreamsInit
    <2>3. Known(snd.streams) = {} /\ snd.streams \in [Known(snd.streams) -> SendEntryType]
      BY <2>1, <2>2, Zenon DEF Known
    <2>4. NewSendFlow(InitialConnLimit) \in SendFlow /\ NewSendFlow(InitialConnLimit).limit <= InitialConnLimit
      BY <1>1, NewFlows, Zenon
    <2> QED
      BY <1>1, <2>3, <2>4 DEF StreamsInit, IsSender, NotBlocked
  <1>3. IsReceiver(rcv) /\ rcv.flow.limit = InitialConnLimit /\ Known(rcv.streams) = {}
    BY <1>1, NewFlows DEF StreamsInit, IsReceiver, Known
  <1>4. snd.maxStreams = rcv.maxStreams /\ rcv.maxStreams \in Int
    BY <1>1, Zenon DEF StreamsInit
  <1>5. snd.maxStreams <= rcv.maxStreams
    BY <1>4
  <1>6. Behind(snd, rcv)
    BY <1>2, <1>3, <1>5, Zenon DEF Behind
  <1> QED
    BY <1>2, <1>3, <1>6, Zenon DEF StreamsInv, StreamsInit

\* A step of the sender's own.
LEMMA SenderActsInv ==
    ASSUME StreamsInv, SenderActs, rcv' = rcv, toSender' = toSender
    PROVE  StreamsInv' /\ NoLimitFalls
  <1>1. Kept(snd, snd') /\ IsSender(snd) /\ IsSender(snd') /\ IsReceiver(rcv)
    BY DEF StreamsInv, SenderActs, Kept, Zenon
  <1>2. Behind(snd', rcv)
    BY <1>1, Zenon DEF StreamsInv, Behind, Kept
  <1>3. \A packet : PacketOK(packet, snd) => PacketOK(packet, snd')
    <2>1. \A f : FrameOK(f, snd) => FrameOK(f, snd')
      BY <1>1, Zenon DEF FrameOK, Kept
    <2> QED
      BY <2>1, Zenon DEF PacketOK
  <1>4. \A packet \in toReceiver' : PacketOK(packet, snd')
    BY <1>3, Zenon DEF StreamsInv, SenderActs
  <1>5. StreamsInv'
    BY <1>1, <1>2, <1>4, Zenon DEF StreamsInv
  <1>6. NoLimitFalls
    BY <1>1, LimitsAreInts DEF NoLimitFalls, Kept
  <1> QED
    BY <1>5, <1>6, Zenon

\* A step of the receiver's own.
LEMMA ReceiverActsInv ==
    ASSUME StreamsInv, Grows(rcv, rcv'), Known(rcv'.streams) \subseteq Known(snd.streams),
           snd' = snd, toReceiver' = toReceiver,
           \A packet \in toSender' : packet \in toSender \/ AdvertsOK(packet, rcv')
    PROVE  StreamsInv' /\ NoLimitFalls
  <1>1. IsSender(snd) /\ IsReceiver(rcv) /\ IsReceiver(rcv')
    BY Zenon DEF StreamsInv, Grows
  <1>2. Behind(snd, rcv')
    <2>1. Behind(snd, rcv) /\ Grows(rcv, rcv')
      BY Zenon DEF StreamsInv
    <2>2. snd.flow.limit <= rcv'.flow.limit /\ snd.maxStreams <= rcv'.maxStreams
      <3>1. /\ snd.flow.limit <= rcv.flow.limit /\ snd.maxStreams <= rcv.maxStreams
            /\ rcv'.flow.limit >= rcv.flow.limit /\ rcv'.maxStreams >= rcv.maxStreams
        BY <2>1, Zenon DEF Behind, Grows
      <3>2. /\ snd.flow.limit \in Int /\ rcv.flow.limit \in Int /\ rcv'.flow.limit \in Int
            /\ snd.maxStreams \in Int /\ rcv.maxStreams \in Int /\ rcv'.maxStreams \in Int
        BY <1>1, LimitsAreInts, Zenon
      <3> QED
        BY <3>1, <3>2
    <2>3. ASSUME NEW s \in Known(rcv'.streams)
          PROVE  snd.streams[s].flow.limit <= rcv'.streams[s].flow.limit
      <3>1. /\ snd.streams[s].flow.limit \in Int /\ rcv'.streams[s].flow.limit \in Int
            /\ InitialStreamLimit \in Int
        BY <1>1, <2>3, LimitsAreInts, Zenon
      <3>2. CASE s \in Known(rcv.streams)
        <4>1. rcv.streams[s].flow.limit \in Int
          BY <1>1, <3>2, LimitsAreInts, Zenon
        <4>2. /\ snd.streams[s].flow.limit <= rcv.streams[s].flow.limit
              /\ rcv'.streams[s].flow.limit >= rcv.streams[s].flow.limit
          BY <2>1, <3>2, Zenon DEF Behind, Grows
        <4> QED
          BY <3>1, <4>1, <4>2
      <3>3. CASE s \notin Known(rcv.streams)
        <4>1. /\ snd.streams[s].flow.limit <= InitialStreamLimit
              /\ rcv'.streams[s].flow.limit >= InitialStreamLimit
          BY <2>1, <2>3, <3>3, Zenon DEF Behind, Grows
        <4> QED
          BY <3>1, <4>1
      <3> QED
        BY <3>2, <3>3, Zenon
    <2>4. \A s \in Known(snd.streams) \ Known(rcv'.streams) :
              snd.streams[s].flow.limit <= InitialStreamLimit
      BY <2>1, Zenon DEF Behind, Grows
    <2> QED
      BY <2>2, <2>3, <2>4, Zenon DEF Behind
  <1>3. \A packet : AdvertsOK(packet, rcv) => AdvertsOK(packet, rcv')
    <2>1. \A f : AdvertOK(f, rcv) => AdvertOK(f, rcv')
      <3> SUFFICES ASSUME NEW f, AdvertOK(f, rcv) PROVE AdvertOK(f, rcv')
        BY Zenon
      <3>1. CASE f.type = "max_data" /\ f.limit \in Int /\ f.limit <= rcv.flow.limit
        <4>1. rcv'.flow.limit >= rcv.flow.limit
          BY Zenon DEF Grows
        <4>2. rcv.flow.limit \in Int /\ rcv'.flow.limit \in Int
          BY <1>1, LimitsAreInts, Zenon
        <4>3. f.limit <= rcv'.flow.limit
          BY <3>1, <4>1, <4>2
        <4> QED
          BY <3>1, <4>3, Zenon DEF AdvertOK
      <3>2. CASE /\ f.type = "max_stream_data" /\ f.s \in Known(rcv.streams)
                 /\ f.limit \in Int /\ f.limit <= rcv.streams[f.s].flow.limit
        <4>1. /\ f.s \in Known(rcv'.streams)
              /\ rcv'.streams[f.s].flow.limit >= rcv.streams[f.s].flow.limit
          BY <3>2, Zenon DEF Grows
        <4>2. rcv.streams[f.s].flow.limit \in Int /\ rcv'.streams[f.s].flow.limit \in Int
          BY <1>1, <3>2, <4>1, LimitsAreInts, Zenon
        <4>3. f.limit <= rcv'.streams[f.s].flow.limit
          BY <3>2, <4>1, <4>2
        <4> QED
          BY <3>2, <4>1, <4>3, Zenon DEF AdvertOK
      <3>3. CASE f.type = "max_streams" /\ f.max \in Int /\ f.max <= rcv.maxStreams
        <4>1. rcv'.maxStreams >= rcv.maxStreams
          BY Zenon DEF Grows
        <4>2. rcv.maxStreams \in Int /\ rcv'.maxStreams \in Int
          BY <1>1, LimitsAreInts, Zenon
        <4>3. f.max <= rcv'.maxStreams
          BY <3>3, <4>1, <4>2
        <4> QED
          BY <3>3, <4>3, Zenon DEF AdvertOK
      <3> QED
        BY <3>1, <3>2, <3>3, Zenon DEF AdvertOK
    <2>2. Known(rcv.streams) \subseteq Known(rcv'.streams)
      BY Zenon DEF Grows
    <2> QED
      BY <2>1, <2>2, Zenon DEF AdvertsOK
  <1>4. \A packet \in toSender' : AdvertsOK(packet, rcv')
    BY <1>3, Zenon DEF StreamsInv
  <1>5. StreamsInv'
    BY <1>1, <1>2, <1>4, Zenon DEF StreamsInv
  <1>6. NoLimitFalls
    <2>1. /\ snd.flow.limit >= snd.flow.limit /\ snd.maxStreams >= snd.maxStreams
          /\ \A s \in Known(snd.streams) : snd.streams[s].flow.limit >= snd.streams[s].flow.limit
      BY <1>1, LimitsAreInts
    <2>2. snd' = snd
      BY Zenon
    <2> QED
      BY <2>1, <2>2, Zenon DEF NoLimitFalls, Grows
  <1> QED
    BY <1>5, <1>6, Zenon

\* What an advertisement does to the sender.
Raised(x, z) ==
    /\ IsSender(z)
    /\ z.flow.limit >= x.flow.limit /\ z.maxStreams >= x.maxStreams
    /\ Known(z.streams) = Known(x.streams)
    /\ \A s \in Known(x.streams) : /\ z.streams[s].flow.limit >= x.streams[s].flow.limit
                                   /\ z.streams[s].final = x.streams[s].final

\* Raising limits can be done frame by frame.
LEMMA RaisedTransitive ==
    ASSUME NEW x, NEW y, NEW z, IsSender(x), Raised(x, y), Raised(y, z)
    PROVE  Raised(x, z)
  <1>1. IsSender(y) /\ IsSender(z)
    BY Zenon DEF Raised
  <1> QED
    BY <1>1, LimitsAreInts DEF Raised

\* MAX_DATA, MAX_STREAM_DATA and MAX_STREAMS, however old.
LEMMA RaiseLimitOK ==
    ASSUME NEW x, IsSender(x), NEW y, IsReceiver(y), Behind(x, y), NEW f, AdvertOK(f, y)
    PROVE  Raised(x, RaiseLimit(x, f)) /\ Behind(RaiseLimit(x, f), y)
  <1> DEFINE z == RaiseLimit(x, f)
  <1>0. /\ x.flow.limit \in Int /\ x.maxStreams \in Int /\ y.flow.limit \in Int /\ y.maxStreams \in Int
        /\ \A s \in Known(x.streams) : x.streams[s].flow.limit \in Int
        /\ \A s \in Known(y.streams) : y.streams[s].flow.limit \in Int
    BY LimitsAreInts, Zenon
  <1>00. /\ x.flow.limit >= x.flow.limit /\ x.maxStreams >= x.maxStreams
         /\ \A s \in Known(x.streams) : x.streams[s].flow.limit >= x.streams[s].flow.limit
    BY <1>0
  <1>1. CASE f.type = "max_data"
    <2> DEFINE flow == UpdateLimit(x.flow, f.limit)
    <2>1. z = [x EXCEPT !.flow = flow]
      BY <1>1, Zenon DEF RaiseLimit
    <2>2. f.limit \in Int /\ f.limit <= y.flow.limit
      BY <1>1, Zenon DEF AdvertOK
    <2>3. /\ flow \in SendFlow /\ flow.limit >= x.flow.limit
          /\ flow.limit <= x.flow.limit \/ flow.limit <= f.limit
      BY <2>2, UpdateLimitGrows, Zenon DEF IsSender
    <2>4. flow.limit \in Int
      BY <2>3, Zenon DEF SendFlow
    <2> HIDE DEF flow, z
    <2>5. IsSender(z) /\ z.flow = flow /\ z.maxStreams = x.maxStreams /\ z.streams = x.streams
      BY <2>1, <2>3, Zenon DEF IsSender
    <2>6. Raised(x, z) /\ Behind(z, y)
      BY <1>0, <2>2, <2>3, <2>4, <2>5 DEF Raised, Behind
    <2> QED
      BY <2>6, Zenon DEF z
  <1>2. CASE f.type = "max_stream_data"
    <2> DEFINE old == x.streams[f.s]
               flow == UpdateLimit(old.flow, f.limit)
               e == [old EXCEPT !.flow = flow]
    <2>1. /\ f.s \in Known(y.streams) /\ f.s \in Known(x.streams)
          /\ f.limit \in Int /\ f.limit <= y.streams[f.s].flow.limit
      BY <1>2, Zenon DEF AdvertOK, Behind
    <2>2. old \in SendEntryType
      BY <2>1, Zenon DEF IsSender
    <2>3. /\ flow \in SendFlow /\ flow.limit >= old.flow.limit
          /\ flow.limit <= old.flow.limit \/ flow.limit <= f.limit
      BY <2>1, <2>2, UpdateLimitGrows, Zenon DEF SendEntryType
    <2>4. e \in SendEntryType /\ e.flow = flow /\ e.final = old.final
      BY <2>2, <2>3, Zenon DEF SendEntryType
    <2>5. z = [x EXCEPT !.streams = [x.streams EXCEPT ![f.s] = e]]
      BY <1>2, <2>1, <2>2, Zenon DEF RaiseLimit, IsSender, SendEntryType
    <2>6. flow.limit \in Int
      BY <2>3, Zenon DEF SendFlow
    <2> HIDE DEF flow, e, z
    <2>7. /\ z.streams \in [Known(x.streams) -> SendEntryType] /\ Known(z.streams) = Known(x.streams)
          /\ \A s \in Known(x.streams) : z.streams[s] = IF s = f.s THEN e ELSE x.streams[s]
      BY <2>1, <2>4, <2>5, Zenon DEF IsSender, Known
    <2>8. IsSender(z) /\ z.flow = x.flow /\ z.maxStreams = x.maxStreams
      BY <2>5, <2>7, Zenon DEF IsSender
    <2>9. \A s \in Known(x.streams) :
              /\ z.streams[s].flow.limit >= x.streams[s].flow.limit
              /\ z.streams[s].final = x.streams[s].final
              /\ s \in Known(y.streams) => z.streams[s].flow.limit <= y.streams[s].flow.limit
              /\ s # f.s => z.streams[s] = x.streams[s]
      <3> SUFFICES ASSUME NEW s \in Known(x.streams)
                   PROVE  /\ z.streams[s].flow.limit >= x.streams[s].flow.limit
                          /\ z.streams[s].final = x.streams[s].final
                          /\ s \in Known(y.streams) =>
                                z.streams[s].flow.limit <= y.streams[s].flow.limit
                          /\ s # f.s => z.streams[s] = x.streams[s]
        BY Zenon
      <3>1. CASE s = f.s
        <4>1. z.streams[s].flow.limit = flow.limit /\ z.streams[s].final = old.final
          BY <2>4, <2>7, <3>1, Zenon
        <4>2. old.flow.limit <= y.streams[f.s].flow.limit
          BY <2>1, Zenon DEF Behind
        <4>3. old.flow.limit \in Int /\ y.streams[f.s].flow.limit \in Int
          BY <1>0, <2>1, Zenon
        <4>4. flow.limit <= y.streams[f.s].flow.limit
          BY <2>1, <2>3, <2>6, <4>2, <4>3
        <4> QED
          BY <2>3, <3>1, <4>1, <4>4, Zenon
      <3>2. CASE s # f.s
        <4>1. z.streams[s] = x.streams[s]
          BY <2>7, <3>2, Zenon
        <4> QED
          BY <1>00, <3>2, <4>1, Zenon DEF Behind
      <3> QED
        BY <3>1, <3>2, Zenon
    <2>10. Raised(x, z)
      BY <1>00, <2>7, <2>8, <2>9, Zenon DEF Raised
    <2>11. Behind(z, y)
      BY <2>1, <2>7, <2>8, <2>9, Zenon DEF Behind
    <2> QED
      BY <2>10, <2>11, Zenon DEF z
  <1>3. CASE f.type = "max_streams"
    <2>1. f.max \in Int /\ f.max <= y.maxStreams
      BY <1>3, Zenon DEF AdvertOK
    <2>2. CASE f.max <= x.maxStreams
      <3>1. z = x
        BY <1>3, <2>2, Zenon DEF RaiseLimit
      <3> QED
        BY <1>0, <3>1 DEF Raised
    <2>3. CASE ~(f.max <= x.maxStreams)
      <3>1. z = [x EXCEPT !.maxStreams = f.max, !.blockedAt = NotBlocked]
        BY <1>3, <2>3, Zenon DEF RaiseLimit
      <3> HIDE DEF z
      <3>2. x = [flow |-> x.flow, maxStreams |-> x.maxStreams, blockedAt |-> x.blockedAt,
                 next |-> x.next, streams |-> x.streams]
        BY Zenon DEF IsSender
      <3>3. NotBlocked \in Int
        BY DEF NotBlocked
      <3>4. z = [flow |-> x.flow, maxStreams |-> f.max, blockedAt |-> NotBlocked,
                 next |-> x.next, streams |-> x.streams]
        BY <3>1, <3>2, Zenon
      <3>5. IsSender(z) /\ z.flow = x.flow /\ z.maxStreams = f.max /\ z.streams = x.streams
        BY <2>1, <3>4, <3>3, Zenon DEF IsSender
      <3>6. Raised(x, z) /\ Behind(z, y)
        <4>1. f.max >= x.maxStreams
          BY <1>0, <2>1, <2>3
        <4> QED
          BY <1>00, <2>1, <3>5, <4>1, Zenon DEF Raised, Behind
      <3> QED
        BY <3>6, Zenon DEF z
    <2> QED
      BY <2>2, <2>3, Zenon
  <1> QED
    BY <1>1, <1>2, <1>3, Zenon DEF AdvertOK

\* MAX_DATA, MAX_STREAM_DATA and MAX_STREAMS (updateLimit, receiveMaxStreams), in a
\* packet of any age.
LEMMA ReceiveLimitsInv ==
    ASSUME StreamsInv, NEW packet \in toSender, ReceiveLimits(packet)
    PROVE  StreamsInv' /\ NoLimitFalls
  <1>0. /\ IsSender(snd) /\ IsReceiver(rcv) /\ Behind(snd, rcv) /\ AdvertsOK(packet, rcv)
        /\ packet[1].type # "stop"
        /\ snd' = InOrder(RaiseLimit, snd, packet)
        /\ UNCHANGED <<rcv, toReceiver, toSender>>
    BY Zenon DEF StreamsInv, ReceiveLimits
  <1>1. Raised(snd, snd') /\ Behind(snd', rcv)
    <2>1. ASSUME NEW f, packet = <<f>>, AdvertOK(f, rcv)
          PROVE  Raised(snd, snd') /\ Behind(snd', rcv)
      <3>1. snd' = RaiseLimit(snd, f)
        BY <1>0, <2>1, Zenon DEF InOrder
      <3> QED
        BY <1>0, <2>1, <3>1, RaiseLimitOK, Zenon
    <2>2. ASSUME NEW f, NEW g, packet = <<f, g>>, AdvertOK(f, rcv), AdvertOK(g, rcv)
          PROVE  Raised(snd, snd') /\ Behind(snd', rcv)
      <3> DEFINE x == RaiseLimit(snd, f)
      <3>1. snd' = RaiseLimit(x, g)
        BY <1>0, <2>2 DEF InOrder
      <3>2. Raised(snd, x) /\ Behind(x, rcv)
        BY <1>0, <2>2, RaiseLimitOK, Zenon
      <3> HIDE DEF x
      <3>3. IsSender(x)
        BY <3>2, Zenon DEF Raised
      <3>4. Raised(x, snd') /\ Behind(snd', rcv)
        BY <1>0, <2>2, <3>1, <3>2, <3>3, RaiseLimitOK, Zenon
      <3> QED
        BY <1>0, <3>2, <3>4, RaisedTransitive, Zenon
    <2>3. ASSUME NEW f, packet = <<f>> PROVE packet[1] = f
      BY <2>3, Zenon
    <2> QED
      BY <1>0, <2>1, <2>2, <2>3, Zenon DEF AdvertsOK
  <1>2. IsSender(snd') /\ Known(snd'.streams) = Known(snd.streams)
    BY <1>1, Zenon DEF Raised
  <1>3. \A p : PacketOK(p, snd) => PacketOK(p, snd')
    BY <1>2, Zenon DEF PacketOK, FrameOK
  <1>4. StreamsInv'
    BY <1>0, <1>1, <1>2, <1>3, Zenon DEF StreamsInv
  <1>5. NoLimitFalls
    <2>1. /\ rcv.flow.limit >= rcv.flow.limit /\ rcv.maxStreams >= rcv.maxStreams
          /\ \A s \in Known(rcv.streams) : rcv.streams[s].flow.limit >= rcv.streams[s].flow.limit
      BY <1>0, LimitsAreInts
    <2> QED
      BY <1>0, <1>1, <2>1, Zenon DEF NoLimitFalls, Raised
  <1> QED
    BY <1>4, <1>5, Zenon

\* receiveStopSending.
LEMMA ReceiveStopSendingInv ==
    ASSUME StreamsInv, NEW packet \in toSender, ReceiveStopSending(packet)
    PROVE  StreamsInv' /\ NoLimitFalls
  <1> DEFINE s == packet[1].s
             e == [snd.streams[s] EXCEPT !.stopped = TRUE]
             x == [snd EXCEPT !.streams[s].stopped = TRUE]
  <1>1. packet[1].type = "stop" /\ SendReset(x, s) /\ UNCHANGED <<rcv, toSender>>
    BY Zenon DEF ReceiveStopSending
  <1>2. s \in Known(rcv.streams)
    <2>1. AdvertsOK(packet, rcv)
      BY Zenon DEF StreamsInv
    <2>2. ASSUME NEW f, AdvertOK(f, rcv) PROVE f.type # "stop"
      BY <2>2, Zenon DEF AdvertOK
    <2> QED
      BY <1>1, <2>1, <2>2 DEF AdvertsOK
  <1> HIDE DEF s
  <1>3. IsSender(snd) /\ s \in Known(snd.streams) /\ snd.streams[s] \in SendEntryType
    BY <1>2, Zenon DEF StreamsInv, Behind, IsSender
  <1>4. e \in SendEntryType /\ e.flow = snd.streams[s].flow /\ e.final = snd.streams[s].final
    BY <1>3, Zenon DEF SendEntryType
  <1>5. x = [snd EXCEPT !.streams = [snd.streams EXCEPT ![s] = e]]
    BY <1>3, Zenon DEF IsSender, SendEntryType
  <1> HIDE DEF e, x
  <1>6. /\ x.streams \in [Known(snd.streams) -> SendEntryType]
        /\ \A t \in Known(snd.streams) : x.streams[t] = IF t = s THEN e ELSE snd.streams[t]
    BY <1>3, <1>4, <1>5, Zenon DEF IsSender, Known
  <1>7. IsSender(x) /\ Known(x.streams) = Known(snd.streams)
    BY <1>3, <1>5, <1>6, Zenon DEF IsSender, Known
  <1>8. Kept(snd, x)
    BY <1>3, <1>4, <1>5, <1>6, <1>7, Zenon DEF Kept, IsSender
  <1>9. SenderActs
    BY <1>1, <1>3, <1>7, <1>8, SendResetKeeps, Zenon
  <1> QED
    BY <1>1, <1>9, SenderActsInv, Zenon

\* releaseReceivedCapacity announces the limits that returning credit moves.
LEMMA AdvertisementForms ==
    ASSUME NEW s, NEW n,
           NEW f, f = [type |-> "max_data", limit |-> ReturnCredit(rcv.flow, n).limit],
           NEW g, g = [type |-> "max_stream_data", s |-> s,
                       limit |-> ReturnCredit(rcv.streams[s].flow, n).limit]
    PROVE  Advertisement(s, n) =
               IF ReturnCredit(rcv.flow, n).limit # rcv.flow.limit
               THEN IF ReturnCredit(rcv.streams[s].flow, n).limit # rcv.streams[s].flow.limit
                    THEN <<f, g>> ELSE <<f>>
               ELSE IF ReturnCredit(rcv.streams[s].flow, n).limit # rcv.streams[s].flow.limit
                    THEN <<g>> ELSE <<>>
  <1> DEFINE conn == ReturnCredit(rcv.flow, n)
             stream == ReturnCredit(rcv.streams[s].flow, n)
  <1>1. Advertisement(s, n) = (IF conn.limit # rcv.flow.limit THEN <<f>> ELSE <<>>)
                              \o (IF stream.limit # rcv.streams[s].flow.limit THEN <<g>> ELSE <<>>)
    BY Zenon DEF Advertisement
  <1> HIDE DEF conn, stream
  <1>2. <<f>> \o <<>> = <<f>>
    BY ONLY TRUE
  <1>3. <<>> \o <<g>> = <<g>>
    BY ONLY TRUE
  <1>4. <<f>> \o <<g>> = <<f, g>>
    <2> DEFINE q == <<f>> \o <<g>>
    <2>1. q \in Seq({f, g}) /\ Len(q) = 2 /\ q[1] = f /\ q[2] = g
      BY ONLY TRUE
    <2> HIDE DEF q
    <2>2. q = <<f, g>>
      BY ONLY <2>1
    <2> QED
      BY <2>2, Zenon DEF q
  <1>5. <<>> \o <<>> = <<>>
    BY ONLY TRUE
  <1> QED
    BY <1>1, <1>2, <1>3, <1>4, <1>5, Zenon DEF conn, stream

\* The MAX_DATA and MAX_STREAM_DATA of an advertisement name the new limits.
LEMMA AdvertisementOK ==
    ASSUME IsReceiver(rcv), NEW s \in Known(rcv.streams), NEW n \in Int,
           Advertisement(s, n) # <<>>, NEW y, s \in Known(y.streams),
           y.flow = ReturnCredit(rcv.flow, n), y.streams[s].flow = ReturnCredit(rcv.streams[s].flow, n)
    PROVE  AdvertsOK(Advertisement(s, n), y)
  <1> DEFINE conn == ReturnCredit(rcv.flow, n)
             stream == ReturnCredit(rcv.streams[s].flow, n)
             f == [type |-> "max_data", limit |-> conn.limit]
             g == [type |-> "max_stream_data", s |-> s, limit |-> stream.limit]
  <1>1. conn.limit \in Int /\ stream.limit \in Int
    BY ReturnCreditGrows, Zenon DEF IsReceiver, IsRecvEntry, RecvFlow
  <1>2. AdvertOK(f, y) /\ AdvertOK(g, y)
    <2>1. conn.limit <= conn.limit /\ stream.limit <= stream.limit
      BY <1>1
    <2> HIDE DEF conn, stream
    <2>2. AdvertOK(f, y)
      <3>1. f.type = "max_data" /\ f.limit = conn.limit /\ y.flow.limit = conn.limit
        BY Zenon DEF conn
      <3> QED
        BY <1>1, <2>1, <3>1, Zenon DEF AdvertOK
    <2>3. AdvertOK(g, y)
      <3>1. /\ g.type = "max_stream_data" /\ g.s = s /\ g.limit = stream.limit
            /\ y.streams[s].flow.limit = stream.limit
        BY Zenon DEF stream
      <3> QED
        BY <1>1, <2>1, <3>1, Zenon DEF AdvertOK
    <2> QED
      BY <2>2, <2>3, Zenon
  <1>3. Advertisement(s, n) \in {<<f>>, <<g>>, <<f, g>>}
    <2>1. Advertisement(s, n) = IF conn.limit # rcv.flow.limit
                                THEN IF stream.limit # rcv.streams[s].flow.limit
                                     THEN <<f, g>> ELSE <<f>>
                                ELSE IF stream.limit # rcv.streams[s].flow.limit
                                     THEN <<g>> ELSE <<>>
      BY AdvertisementForms, Zenon
    <2> HIDE DEF f, g, conn, stream
    <2> QED
      BY <2>1, Zenon
  <1> HIDE DEF f, g
  <1> QED
    BY <1>2, <1>3, Zenon DEF AdvertsOK

\* releaseReceivedCapacity.
LEMMA ReleaseReceivedCapacityInv ==
    ASSUME StreamsInv, NEW s \in Known(rcv.streams), NEW n \in 1 .. MaxRead,
           ReleaseReceivedCapacity(s, n)
    PROVE  StreamsInv' /\ NoLimitFalls
  <1> DEFINE frames == Advertisement(s, n)
             old == rcv.streams[s]
             e == [old EXCEPT !.flow = ReturnCredit(old.flow, n), !.rs = Consume(old.rs, n)]
             y == [flow |-> ReturnCredit(rcv.flow, n), total |-> rcv.total,
                   maxStreams |-> rcv.maxStreams, streams |-> [rcv.streams EXCEPT ![s] = e]]
  <1>0. n \in Int /\ IsReceiver(rcv) /\ IsRecvEntry(old) /\ Known(rcv.streams) \subseteq Known(snd.streams)
    BY StreamsBounds DEF StreamsInv, IsReceiver, Behind
  <1>1. snd' = snd /\ toReceiver' = toReceiver
    BY Zenon DEF ReleaseReceivedCapacity
  <1>2. CASE UNCHANGED <<rcv, toSender>>
    BY <1>0, <1>1, <1>2, GrowsReflexive, ReceiverActsInv, Zenon
  <1>3. CASE /\ rcv' = [Returned(rcv, s, n) EXCEPT !.streams[s].rs = Consume(@, n)]
             /\ toSender' = IF frames = <<>> THEN toSender ELSE toSender \cup {frames}
    <2>1. rcv' = y
      BY <1>0, <1>3, Zenon DEF Returned, IsReceiver, IsRecvEntry
    <2>2. IsRecvState(Consume(old.rs, n))
      BY <1>0, ConsumeOK, Zenon DEF IsRecvEntry
    <2>3. /\ ReturnCredit(old.flow, n) \in RecvFlow
          /\ ReturnCredit(old.flow, n).limit >= old.flow.limit
          /\ ReturnCredit(rcv.flow, n) \in RecvFlow
          /\ ReturnCredit(rcv.flow, n).limit >= rcv.flow.limit
      BY <1>0, ReturnCreditGrows, Zenon DEF IsReceiver, IsRecvEntry
    <2>4. IsRecvEntry(e) /\ e.flow = ReturnCredit(old.flow, n) /\ e.final = old.final
      BY <1>0, <2>2, <2>3, Zenon DEF IsRecvEntry
    <2>5. rcv.maxStreams \in Int
      BY <1>0, Zenon DEF IsReceiver
    <2> HIDE DEF e
    <2>6. Grows(rcv, y) /\ Known(y.streams) = Known(rcv.streams)
      <3>1. rcv.maxStreams >= rcv.maxStreams
        BY <2>5
      <3>2. e.flow.limit >= rcv.streams[s].flow.limit /\ e.final = rcv.streams[s].final
        BY <2>3, <2>4, Zenon
      <3> HIDE DEF old
      <3> QED
        BY <1>0, <2>3, <2>4, <2>5, <3>1, <3>2, UpdateEntryGrows
    <2>7. y.flow = ReturnCredit(rcv.flow, n) /\ y.streams[s].flow = ReturnCredit(old.flow, n)
      BY <1>0, <2>4, Zenon DEF IsReceiver, Known
    <2> HIDE DEF y
    <2>8. frames # <<>> => AdvertsOK(frames, y)
      BY <1>0, <2>6, <2>7, AdvertisementOK, Zenon
    <2> HIDE DEF frames
    <2> QED
      BY <1>0, <1>1, <1>3, <2>1, <2>6, <2>8, ReceiverActsInv, Zenon
  <1> QED
    BY <1>2, <1>3, Zenon DEF ReleaseReceivedCapacity

\* sendStopSending, the receiver's own half, and releaseCompletedPeerStream.
LEMMA EndOfStreamInv ==
    ASSUME StreamsInv, NEW s \in Known(rcv.streams),
           SendStopSending(s) \/ Answer(s) \/ ReleaseCompletedPeerStream(s)
    PROVE  StreamsInv' /\ NoLimitFalls
  <1> DEFINE old == rcv.streams[s]
             With(e, n) == [flow |-> rcv.flow, total |-> rcv.total, maxStreams |-> n,
                            streams |-> [rcv.streams EXCEPT ![s] = e]]
             stopped == [old EXCEPT !.stopSent = TRUE]
             answered == [old EXCEPT !.answered = TRUE]
             released == [old EXCEPT !.released = TRUE]
  <1>0. IsReceiver(rcv) /\ IsRecvEntry(old) /\ Known(rcv.streams) \subseteq Known(snd.streams)
    BY Zenon DEF StreamsInv, IsReceiver, Behind
  <1>1. \A e \in {stopped, answered, released} :
            IsRecvEntry(e) /\ e.flow = old.flow /\ e.final = old.final
    BY <1>0, Zenon DEF IsRecvEntry
  <1>2. ASSUME NEW e \in {stopped, answered, released},
               NEW n \in {rcv.maxStreams, rcv.maxStreams + 1}
        PROVE  Grows(rcv, With(e, n)) /\ Known(With(e, n).streams) = Known(rcv.streams)
    <2>1. IsRecvEntry(e) /\ e.flow = old.flow /\ e.final = old.final
      BY <1>1, Zenon
    <2>2. /\ rcv.flow \in RecvFlow /\ n \in Int /\ n >= rcv.maxStreams
          /\ rcv.flow.limit >= rcv.flow.limit /\ e.flow.limit >= old.flow.limit
      BY <1>0, <2>1 DEF IsReceiver, IsRecvEntry, RecvFlow
    <2> HIDE DEF stopped, answered, released
    <2> QED
      <3>1. e.flow.limit >= rcv.streams[s].flow.limit /\ e.final = rcv.streams[s].final
        BY <2>1, <2>2, Zenon
      <3> HIDE DEF old
      <3> QED
        BY <1>0, <2>1, <2>2, <3>1, UpdateEntryGrows
  <1>3. snd' = snd /\ toReceiver' = toReceiver
    BY Zenon DEF SendStopSending, Answer, ReleaseCompletedPeerStream
  <1>4. CASE SendStopSending(s)
    <2>1. rcv' = With(stopped, rcv.maxStreams)
      BY <1>0, <1>4, Zenon DEF SendStopSending, IsReceiver
    <2>2. Grows(rcv, rcv') /\ Known(rcv'.streams) = Known(rcv.streams)
      BY <1>2, <2>1, Zenon
    <2>3. toSender' = toSender \cup {<<[type |-> "stop", s |-> s]>>}
      BY <1>4, Zenon DEF SendStopSending
    <2> DEFINE f == [type |-> "stop", s |-> s]
    <2>4. f.type = "stop" /\ f.s \in Known(rcv'.streams)
      BY <2>2, Zenon
    <2> HIDE DEF f
    <2>5. AdvertsOK(<<f>>, rcv')
      BY <2>4, Zenon DEF AdvertsOK
    <2>6. toSender' = toSender \cup {<<f>>}
      BY <2>3, Zenon DEF f
    <2> QED
      BY <1>0, <1>3, <2>2, <2>5, <2>6, ReceiverActsInv, Zenon
  <1>5. CASE Answer(s)
    <2>1. rcv' = With(answered, rcv.maxStreams) /\ toSender' = toSender
      BY <1>0, <1>5, Zenon DEF Answer, IsReceiver
    <2>2. Grows(rcv, rcv') /\ Known(rcv'.streams) = Known(rcv.streams)
      BY <1>2, <2>1, Zenon
    <2> QED
      BY <1>0, <1>3, <2>1, <2>2, ReceiverActsInv, Zenon
  <1>6. CASE ReleaseCompletedPeerStream(s)
    <2>1. CASE rcv' = [rcv EXCEPT !.streams[s].released = TRUE] /\ UNCHANGED toSender
      <3>1. rcv' = With(released, rcv.maxStreams)
        BY <1>0, <2>1, Zenon DEF IsReceiver
      <3>2. Grows(rcv, rcv') /\ Known(rcv'.streams) = Known(rcv.streams)
        BY <1>2, <3>1, Zenon
      <3> QED
        BY <1>0, <1>3, <2>1, <3>2, ReceiverActsInv, Zenon
    <2>2. CASE /\ rcv' = [rcv EXCEPT !.streams[s].released = TRUE, !.maxStreams = @ + 1]
               /\ toSender' = toSender \cup {<<MaxStreamsFrame(rcv.maxStreams + 1)>>}
      <3>1. rcv' = With(released, rcv.maxStreams + 1)
        BY <1>0, <2>2, Zenon DEF IsReceiver
      <3>2. Grows(rcv, rcv') /\ Known(rcv'.streams) = Known(rcv.streams)
        BY <1>2, <3>1, Zenon
      <3>3. AdvertOK(MaxStreamsFrame(rcv.maxStreams + 1), rcv')
        BY <1>0, <3>1 DEF AdvertOK, MaxStreamsFrame, IsReceiver
      <3>4. AdvertsOK(<<MaxStreamsFrame(rcv.maxStreams + 1)>>, rcv')
        BY <3>3, Zenon DEF AdvertsOK
      <3> QED
        BY <1>0, <1>3, <2>2, <3>2, <3>4, ReceiverActsInv, Zenon
    <2> QED
      BY <1>6, <2>1, <2>2, Zenon DEF ReleaseCompletedPeerStream
  <1> QED
    BY <1>4, <1>5, <1>6, Zenon

\* Packets that change nothing at the receiver, or close it.
LEMMA OtherPacketsInv ==
    ASSUME StreamsInv, NEW packet \in toReceiver,
           (\E error : Refuse(error)) \/ ReceiveStreamsBlocked(packet)
    PROVE  StreamsInv' /\ NoLimitFalls
  <1>1. UNCHANGED <<snd, rcv, toReceiver>>
    BY Zenon DEF Refuse, ReceiveStreamsBlocked
  <1>2. IsReceiver(rcv) /\ Known(rcv.streams) \subseteq Known(snd.streams)
    BY Zenon DEF StreamsInv, Behind
  <1>3. AdvertOK(MaxStreamsFrame(rcv.maxStreams), rcv)
    BY <1>2 DEF AdvertOK, MaxStreamsFrame, IsReceiver
  <1>4. AdvertsOK(<<MaxStreamsFrame(rcv.maxStreams)>>, rcv)
    BY <1>3, Zenon DEF AdvertsOK
  <1>5. \A p \in toSender' : p \in toSender \/ AdvertsOK(p, rcv')
    BY <1>1, <1>4, Zenon DEF Refuse, ReceiveStreamsBlocked
  <1> QED
    BY <1>1, <1>2, <1>5, GrowsReflexive, ReceiverActsInv, Zenon

-----------------------------------------------------------------------------

\* Every step keeps the invariant and moves no limit back.
LEMMA StreamsStep ==
    ASSUME StreamsInv, StreamsNext
    PROVE  StreamsInv' /\ NoLimitFalls
  <1>0. IsSender(snd) /\ IsReceiver(rcv) /\ Known(rcv.streams) \subseteq Known(snd.streams)
    BY Zenon DEF StreamsInv, Behind
  <1>1. ASSUME NEW packet \in Writes, Write(packet) \/ BlockedByCredit(packet)
        PROVE  StreamsInv' /\ NoLimitFalls
    <2>1. SenderActs
      BY <1>0, <1>1, WriteKeeps, BlockedByCreditKeeps, Zenon
    <2>2. UNCHANGED <<rcv, toSender>>
      BY <1>1, Zenon DEF Write, BlockedByCredit
    <2> QED
      BY <2>1, <2>2, SenderActsInv, Zenon
  <1>2. CASE BlockedByCount \/ OpenLocalStream
    <2>1. UNCHANGED <<rcv, toSender>>
      BY <1>2, Zenon DEF BlockedByCount, OpenLocalStream
    <2> QED
      BY <1>0, <1>2, <2>1, CountKeeps, SenderActsInv, Zenon
  <1>3. ASSUME NEW s \in Abandonable, ResetStream(s)
        PROVE  StreamsInv' /\ NoLimitFalls
    <2>1. s \in Streams
      BY StreamsBounds, Zenon DEF Streams
    <2>2. Kept(snd, WithSendEntry(snd, s)) /\ s \in Known(WithSendEntry(snd, s).streams)
      BY <1>0, <2>1, WithSendEntryKeeps, Zenon
    <2>3. SendReset(WithSendEntry(snd, s), s) /\ UNCHANGED <<rcv, toSender>>
      BY <1>3, Zenon DEF ResetStream
    <2> QED
      BY <2>2, <2>3, SendResetKeeps, SenderActsInv, Zenon
  <1>4. ASSUME NEW packet \in toSender, ReceiveLimits(packet) \/ ReceiveStopSending(packet)
        PROVE  StreamsInv' /\ NoLimitFalls
    BY <1>4, ReceiveLimitsInv, ReceiveStopSendingInv, Zenon
  <1>5. ASSUME NEW packet \in toReceiver, Accept(packet)
        PROVE  StreamsInv' /\ NoLimitFalls
    <2>1. PacketOK(packet, snd)
      BY DEF StreamsInv, Zenon
    <2>2. Grows(rcv, rcv') /\ Known(rcv'.streams) \subseteq Known(snd.streams)
      BY <1>0, <1>5, <2>1, AcceptGrows, Zenon
    <2>3. UNCHANGED <<snd, toReceiver, toSender>>
      BY <1>5, Zenon DEF Accept
    <2> QED
      BY <2>2, <2>3, ReceiverActsInv, Zenon
  <1>6. ASSUME NEW packet \in toReceiver,
               (\E error : Refuse(error)) \/ ReceiveStreamsBlocked(packet)
        PROVE  StreamsInv' /\ NoLimitFalls
    BY <1>6, OtherPacketsInv, Zenon
  <1>7. ASSUME NEW s \in Known(rcv.streams), NEW n \in 1 .. MaxRead, ReleaseReceivedCapacity(s, n)
        PROVE  StreamsInv' /\ NoLimitFalls
    BY <1>7, ReleaseReceivedCapacityInv, Zenon
  <1>8. ASSUME NEW s \in Known(rcv.streams),
               SendStopSending(s) \/ Answer(s) \/ ReleaseCompletedPeerStream(s)
        PROVE  StreamsInv' /\ NoLimitFalls
    BY <1>8, EndOfStreamInv, Zenon
  <1>9. ASSUME NEW packet \in toReceiver, ReceiveFrames(packet)
        PROVE  Accept(packet) \/ \E error : Refuse(error)
    BY <1>9, Zenon DEF ReceiveFrames
  <1> QED
    BY <1>1, <1>2, <1>3, <1>4, <1>5, <1>6, <1>7, <1>8, <1>9, Zenon DEF StreamsNext

\* The inductive invariant holds in every reachable state.
LEMMA StreamsInvariant == StreamsSpec => []StreamsInv
  <1>1. StreamsInv /\ UNCHANGED streamVars => StreamsInv'
    BY Zenon DEF StreamsInv, streamVars
  <1>2. StreamsInv /\ [StreamsNext]_streamVars => StreamsInv'
    BY <1>1, StreamsStep, Zenon
  <1> QED
    BY <1>2, StreamsInitInv, PTL DEF StreamsSpec

\* The sender never believes in credit that the receiver did not hand out, on the
\* connection, on any stream or in the number of streams, whatever the network
\* does to the advertisements (updateLimit, receiveMaxStreams,
\* releaseReceivedCapacity, releaseCompletedPeerStream).
THEOREM SenderStaysBehind == StreamsSpec => []SenderNeverAhead
  <1>1. StreamsInv => SenderNeverAhead
    BY Zenon DEF StreamsInv, Behind, SenderNeverAhead
  <1> QED
    BY <1>1, StreamsInvariant, PTL

\* No limit of either end moves back and no final size changes, in any step of
\* either end (updateLimit, receiveMaxStreams, consume, noteSentStreams).
THEOREM NoLimitMovesBack == StreamsSpec => LimitsOnlyGrow
  <1>1. StreamsInv /\ [StreamsNext]_streamVars => [NoLimitFalls]_streamVars
    BY StreamsStep, Zenon
  <1> QED
    BY <1>1, StreamsInvariant, PTL DEF StreamsSpec, LimitsOnlyGrow

-----------------------------------------------------------------------------
(* Reassembly: one stream's RecvState.                                     *)

\* The least and the greatest member that FiniteSetsExt chooses.
LEMMA LeastMember ==
    ASSUME NEW S \in SUBSET Nat, S # {}
    PROVE  Min(S) \in S /\ \A n \in S : Min(S) <= n
  <1>1. PICK i \in S : \A j \in S : ~(<<j, i>> \in OpToRel(<, Nat))
    BY WFMin, NatLessThanWellFounded, Zenon
  <1>2. \A j \in S : i <= j
    <2> TAKE j \in S
    <2>1. ~(j < i)
      BY <1>1, Zenon DEF OpToRel
    <2> QED
      BY <2>1
  <1> QED
    BY <1>2, Zenon DEF Min

\* The greater of two numbers, as insertTracked takes it for the highest received offset.
LEMMA GreaterOfTwo ==
    ASSUME NEW a \in Int, NEW b \in Int
    PROVE  Max({a, b}) \in {a, b} /\ Max({a, b}) >= a /\ Max({a, b}) >= b
  <1>1. \E x \in {a, b} : \A y \in {a, b} : x >= y
    <2>1. CASE a >= b
      <3>1. \A y \in {a, b} : a >= y
        BY <2>1
      <3> QED
        BY <3>1, Zenon
    <2>2. CASE b >= a
      <3>1. \A y \in {a, b} : b >= y
        BY <2>2
      <3> QED
        BY <3>1, Zenon
    <2> QED
      BY <2>1, <2>2
  <1> QED
    BY <1>1, Zenon DEF Max

\* The reassembly state of one stream.
RecvStateType == [storage : Nat, buffer : Seq(Int), read : Nat, contiguous : Nat,
                  final : Int, total : Int, highest : Int]

\* What makes a reassembly buffer right: a position holds its own byte or none, and
\* there is no hole before the contiguous end, which reading has not passed.
Reassembles(r) ==
    /\ r \in RecvStateType
    /\ r.storage <= r.read /\ r.read <= r.contiguous
    /\ r.contiguous <= r.storage + Len(r.buffer)
    /\ \A i \in 1 .. Len(r.buffer) : r.buffer[i] \in {Hole, r.storage + i}
    /\ \A i \in 1 .. r.contiguous - r.storage : r.buffer[i] = r.storage + i

\* The reassembly state's numbers.
LEMMA ReassemblyInts ==
    ASSUME NEW r, Reassembles(r)
    PROVE  /\ r.storage \in Nat /\ r.read \in Nat /\ r.contiguous \in Nat /\ r.final \in Int
           /\ r.buffer \in Seq(Int) /\ Len(r.buffer) \in Nat
  <1>1. /\ r.storage \in Nat /\ r.read \in Nat /\ r.contiguous \in Nat /\ r.final \in Int
        /\ r.buffer \in Seq(Int)
    BY Zenon DEF Reassembles, RecvStateType
  <1>2. Len(r.buffer) \in Nat
    BY ONLY <1>1
  <1> QED
    BY <1>1, <1>2, Zenon

\* A stream starts with an empty buffer.
LEMMA NewReassembles == Reassembles(NewRecvState)
  <1>1. <<>> \in Seq(Int) /\ Len(<<>>) = 0
    OBVIOUS
  <1> QED
    BY <1>1 DEF Reassembles, NewRecvState, RecvStateType, NoSize

\* insertTracked, when it writes: every position has its own byte or none.
LEMMA SpliceFits ==
    ASSUME NEW r, Reassembles(r), NEW f \in SendFrames, f.to > r.storage
    PROVE  /\ Splice(r, f) \in Seq(Int)
           /\ Len(Splice(r, f)) \in {Len(r.buffer), f.to - r.storage}
           /\ Len(Splice(r, f)) >= Len(r.buffer) /\ Len(Splice(r, f)) >= f.to - r.storage
           /\ \A i \in 1 .. Len(Splice(r, f)) :
                /\ Splice(r, f)[i] \in {Hole, r.storage + i}
                /\ i \in Positions(r, f) => Splice(r, f)[i] = r.storage + i
                /\ i \notin Positions(r, f) /\ i <= Len(r.buffer) =>
                     Splice(r, f)[i] = r.buffer[i]
  <1> DEFINE m == Max({Len(r.buffer), f.to - r.storage})
             b == Splice(r, f)
             Byte(i) == IF i \in Positions(r, f) THEN r.storage + i
                        ELSE IF i <= Len(r.buffer) THEN r.buffer[i] ELSE Hole
  <1>1. /\ r.storage \in Nat /\ r.buffer \in Seq(Int) /\ Len(r.buffer) \in Nat /\ f.to \in Int
        /\ f.to - r.storage \in Nat
    <2>1. r.storage \in Nat /\ r.buffer \in Seq(Int) /\ Len(r.buffer) \in Nat
      BY ReassemblyInts, Zenon
    <2>2. f.to \in Int /\ f.to > r.storage
      BY Zenon DEF SendFrames
    <2>3. f.to - r.storage \in Nat
      BY ONLY <2>1, <2>2
    <2> QED
      BY <2>1, <2>2, <2>3, Zenon
  <1>2. /\ m \in {Len(r.buffer), f.to - r.storage} /\ m \in Nat
        /\ m >= Len(r.buffer) /\ m >= f.to - r.storage
    <2>1. Len(r.buffer) \in Int /\ f.to - r.storage \in Int
      BY <1>1
    <2>2. /\ m \in {Len(r.buffer), f.to - r.storage}
          /\ m >= Len(r.buffer) /\ m >= f.to - r.storage
      BY <2>1, GreaterOfTwo, Zenon
    <2> QED
      BY <1>1, <2>2, Zenon
  <1>3. b = [i \in 1 .. m |-> Byte(i)]
    BY Zenon DEF Splice
  <1>4. \A i \in 1 .. m : Byte(i) \in {Hole, r.storage + i}
    <2> TAKE i \in 1 .. m
    <2>1. CASE i \in Positions(r, f)
      BY <2>1, Zenon
    <2>2. CASE i \notin Positions(r, f) /\ i <= Len(r.buffer)
      <3>1. i \in 1 .. Len(r.buffer)
        BY <1>1, <1>2, <2>2
      <3> QED
        BY <2>2, <3>1, Zenon DEF Reassembles
    <2>3. CASE i \notin Positions(r, f) /\ ~(i <= Len(r.buffer))
      BY <2>3, Zenon
    <2> QED
      BY <2>1, <2>2, <2>3, Zenon
  <1>5. \A i \in 1 .. m : Byte(i) \in Int
    <2> TAKE i \in 1 .. m
    <2>1. r.storage + i \in Int /\ Hole \in Int
      BY <1>1, <1>2 DEF Hole
    <2> QED
      BY <1>4, <2>1, Zenon
  <1>6. /\ \A i \in 1 .. m : i \in Positions(r, f) => Byte(i) = r.storage + i
        /\ \A i \in 1 .. m : i \notin Positions(r, f) /\ i <= Len(r.buffer) =>
                               Byte(i) = r.buffer[i]
    BY Zenon
  <1> HIDE DEF m, b, Byte
  <1>7. b \in Seq(Int) /\ Len(b) = m /\ \A i \in 1 .. m : b[i] = Byte(i)
    BY <1>2, <1>3, <1>5
  <1>8. /\ Len(b) \in {Len(r.buffer), f.to - r.storage}
        /\ Len(b) >= Len(r.buffer) /\ Len(b) >= f.to - r.storage
    BY <1>2, <1>7, Zenon
  <1> QED
    BY <1>4, <1>6, <1>7, <1>8, Zenon DEF b

\* insertTracked: the contiguous end jumps over the frame if the frame covers it,
\* walks over what was stored, and stops at the first hole.
LEMMA AdvanceStops ==
    ASSUME NEW r, Reassembles(r), NEW f \in SendFrames, f.to > r.storage,
           NEW b, b = Splice(r, f), NEW c, c = Advance(r, f, b)
    PROVE  /\ c \in Nat /\ r.contiguous <= c /\ c <= r.storage + Len(b)
           /\ \A i \in 1 .. c - r.storage : b[i] = r.storage + i
  <1> DEFINE reached == r.contiguous - r.storage
             start == IF reached + 1 \in Positions(r, f) THEN f.to - r.storage ELSE reached
             holes == {i \in start + 1 .. Len(b) : b[i] = Hole}
             k == IF holes = {} THEN Len(b) ELSE Min(holes) - 1
  <1>1. /\ r.storage \in Nat /\ r.contiguous \in Nat /\ r.buffer \in Seq(Int)
        /\ Len(r.buffer) \in Nat /\ f.to \in Int /\ f.from \in Int
        /\ reached \in Nat /\ reached <= Len(r.buffer) /\ f.to - r.storage \in Nat
    <2>1. /\ r.storage \in Nat /\ r.read \in Nat /\ r.contiguous \in Nat
          /\ r.buffer \in Seq(Int) /\ Len(r.buffer) \in Nat
      BY ReassemblyInts, Zenon
    <2>2. f.to \in Int /\ f.from \in Int /\ f.to > r.storage
      BY Zenon DEF SendFrames
    <2>3. /\ r.storage <= r.read /\ r.read <= r.contiguous
          /\ r.contiguous <= r.storage + Len(r.buffer)
      BY Zenon DEF Reassembles
    <2>4. reached \in Nat /\ reached <= Len(r.buffer) /\ f.to - r.storage \in Nat
      BY ONLY <2>1, <2>2, <2>3, SMTT(20)
    <2> QED
      BY <2>1, <2>2, <2>4, Zenon
  <1>2. /\ b \in Seq(Int) /\ Len(b) \in Nat
        /\ Len(b) >= Len(r.buffer) /\ Len(b) >= f.to - r.storage
        /\ \A i \in 1 .. Len(b) :
             /\ b[i] \in {Hole, r.storage + i}
             /\ i \in Positions(r, f) => b[i] = r.storage + i
             /\ i \notin Positions(r, f) /\ i <= Len(r.buffer) => b[i] = r.buffer[i]
    <2>1. b \in Seq(Int)
      BY SpliceFits, Zenon
    <2>2. Len(b) \in Nat
      BY <2>1
    <2> QED
      BY <2>1, <2>2, SpliceFits, Zenon
  <1>3. c = r.storage + k
    BY Zenon DEF Advance
  <1>4. start \in Nat /\ reached <= start /\ start <= Len(b)
    <2> DEFINE d == f.to - r.storage
               e == Len(b)
    <2>1. /\ reached \in Nat /\ d \in Nat /\ e \in Nat /\ reached <= e /\ d <= e
      <3>1. Len(r.buffer) \in Nat /\ reached \in Nat /\ reached <= Len(r.buffer)
        BY <1>1, Zenon
      <3>2. e \in Nat /\ e >= Len(r.buffer) /\ e >= d /\ d \in Nat
        BY <1>1, <1>2, Zenon
      <3> HIDE DEF reached, d, e
      <3> QED
        BY ONLY <3>1, <3>2
    <2>2. reached + 1 \in Positions(r, f) => reached + 1 \in 1 .. d
      BY Zenon DEF Positions
    <2> HIDE DEF reached, d, e
    <2>3. reached + 1 \in 1 .. d => reached <= d
      BY ONLY <2>1
    <2>4. reached <= reached
      BY ONLY <2>1
    <2>5. CASE reached + 1 \in Positions(r, f)
      BY <2>1, <2>2, <2>3, <2>5, Zenon DEF d, e
    <2>6. CASE reached + 1 \notin Positions(r, f)
      BY <2>1, <2>4, <2>6, Zenon DEF e
    <2> QED
      BY <2>5, <2>6, Zenon
  <1>5. ASSUME NEW i \in 1 .. start
        PROVE  b[i] = r.storage + i
    <2>1. i \in 1 .. Len(b)
      BY <1>2, <1>4
    <2>2. CASE i \in Positions(r, f)
      BY <1>2, <2>1, <2>2, Zenon
    <2>3. CASE i \notin Positions(r, f)
      <3>1. i <= reached
        BY <1>1, <1>4, <2>3, SMTT(20) DEF Positions
      <3>2. i \in 1 .. r.contiguous - r.storage /\ i <= Len(r.buffer)
        BY <1>1, <3>1
      <3>3. r.buffer[i] = r.storage + i
        BY <3>2, Zenon DEF Reassembles
      <3> QED
        BY <1>2, <2>1, <2>3, <3>2, <3>3, Zenon
    <2> QED
      BY <2>2, <2>3, Zenon
  <1> HIDE DEF start, reached
  <1>6. \A i \in start + 1 .. Len(b) : i \notin holes => b[i] = r.storage + i
    <2> TAKE i \in start + 1 .. Len(b)
    <2>1. i \in 1 .. Len(b)
      BY <1>2, <1>4
    <2> QED
      BY <1>2, <2>1, Zenon
  <1>7. /\ k \in Nat /\ start <= k /\ k <= Len(b)
        /\ \A i \in start + 1 .. k : i \notin holes /\ i \in start + 1 .. Len(b)
    <2>0. Len(b) \in Nat
      BY <1>2, Zenon
    <2>1. CASE holes = {}
      <3>1. k = Len(b) /\ \A i \in start + 1 .. Len(b) : i \notin holes
        BY <2>1, Zenon
      <3> HIDE DEF k, holes
      <3> QED
        BY ONLY <1>4, <2>0, <3>1
    <2>2. CASE holes # {}
      <3>1. holes \in SUBSET Nat
        BY <1>2, <1>4
      <3>2. Min(holes) \in holes /\ \A n \in holes : Min(holes) <= n
        BY <2>2, <3>1, LeastMember, Zenon
      <3>3. Min(holes) \in start + 1 .. Len(b) /\ k = Min(holes) - 1
        BY <2>2, <3>2, Zenon
      <3> HIDE DEF k, holes
      <3>4. /\ k \in Nat /\ start <= k /\ k <= Len(b)
            /\ \A i \in start + 1 .. k : i \in start + 1 .. Len(b) /\ ~(Min(holes) <= i)
        BY <1>2, <1>4, <3>3, SMTT(20)
      <3> QED
        BY <3>2, <3>4, Zenon
    <2> QED
      BY <2>1, <2>2, Zenon
  <1> HIDE DEF k, holes
  <1>8. ASSUME NEW i \in 1 .. k
        PROVE  b[i] = r.storage + i
    <2>1. i \in 1 .. start \/ i \in start + 1 .. k
      BY <1>4, <1>7
    <2> QED
      BY <1>5, <1>6, <1>7, <2>1, Zenon
  <1>9. c \in Nat /\ r.contiguous <= c /\ c <= r.storage + Len(b) /\ c - r.storage = k
    <2>1. /\ r.storage \in Nat /\ r.contiguous \in Nat /\ Len(b) \in Nat /\ k \in Nat
          /\ reached <= start /\ start <= k /\ k <= Len(b) /\ start \in Nat
      BY <1>1, <1>2, <1>4, <1>7, Zenon
    <2> QED
      BY ONLY <1>3, <2>1, SMTT(20) DEF reached
  <1> QED
    BY <1>8, <1>9, Zenon

\* How one insertion or one read moves a stream on.
MovesOn(r, t) ==
    /\ r.contiguous <= t.contiguous /\ r.read <= t.read
    /\ r.storage <= t.storage

\* insertTracked.
LEMMA InsertReassembles ==
    ASSUME NEW r, Reassembles(r), NEW f \in SendFrames
    PROVE  /\ Reassembles(InsertTracked(r, f)) /\ MovesOn(r, InsertTracked(r, f))
           /\ InsertTracked(r, f).final = IF f.fin THEN f.to ELSE r.final
           /\ \/ InsertTracked(r, f).storage + Len(InsertTracked(r, f).buffer)
                   = r.storage + Len(r.buffer)
              \/ InsertTracked(r, f).storage + Len(InsertTracked(r, f).buffer) = f.to
  <1> DEFINE t == InsertTracked(r, f)
             final == IF f.fin THEN f.to ELSE r.final
             b == Splice(r, f)
             c == Advance(r, f, b)
  <1>1. r \in RecvStateType /\ f.to \in Int /\ f.fin \in BOOLEAN
    BY Zenon DEF Reassembles, SendFrames
  <1>2. final \in Int
    BY <1>1, Zenon DEF RecvStateType
  <1>3. CASE f.to <= r.storage
    <2>1. t = [r EXCEPT !.final = final]
      BY <1>3, Zenon DEF InsertTracked
    <2>2. /\ t \in RecvStateType /\ t.final = final
          /\ t.storage = r.storage /\ t.buffer = r.buffer /\ t.read = r.read
          /\ t.contiguous = r.contiguous
      BY <1>1, <1>2, <2>1, Zenon DEF RecvStateType
    <2>3. Reassembles(t)
      BY <2>2, Zenon DEF Reassembles
    <2>4. MovesOn(r, t)
      <3>1. r.storage \in Nat /\ r.read \in Nat /\ r.contiguous \in Nat
        BY <1>1, Zenon DEF RecvStateType
      <3>2. r.storage <= r.storage /\ r.read <= r.read /\ r.contiguous <= r.contiguous
        BY <3>1
      <3> QED
        BY <2>2, <3>2, Zenon DEF MovesOn
    <2> QED
      BY <2>2, <2>3, <2>4, Zenon
  <1>4. CASE ~(f.to <= r.storage)
    <2> DEFINE high == Max({r.highest, f.to})
               total == r.total + NewlyReceived(r, f)
    <2>0. r.storage \in Nat /\ r.read \in Nat /\ r.contiguous \in Nat /\ f.to > r.storage
      BY <1>1, <1>4 DEF RecvStateType
    <2>1. t = [r EXCEPT !.buffer = b, !.contiguous = c, !.highest = high, !.total = total,
                        !.final = final]
      BY <1>4, Zenon DEF InsertTracked
    <2>2. high \in Int
      <3>1. r.highest \in Int
        BY <1>1, Zenon DEF RecvStateType
      <3> QED
        BY <1>1, <3>1, GreaterOfTwo, Zenon
    <2>3. total \in Int
      <3>1. IsRecvState(r) /\ r.total \in Int
        BY <1>1 DEF RecvStateType, IsRecvState
      <3>2. NewlyReceived(r, f) \in Int
        BY <3>1, NewlyReceivedType, Zenon
      <3> QED
        BY <3>1, <3>2
    <2>4. /\ b \in Seq(Int) /\ Len(b) \in {Len(r.buffer), f.to - r.storage}
          /\ \A i \in 1 .. Len(b) : b[i] \in {Hole, r.storage + i}
      BY <2>0, SpliceFits, Zenon
    <2>5. /\ c \in Nat /\ r.contiguous <= c /\ c <= r.storage + Len(b)
          /\ \A i \in 1 .. c - r.storage : b[i] = r.storage + i
      <3>1. b = Splice(r, f) /\ c = Advance(r, f, b) /\ f \in SendFrames /\ f.to > r.storage
        BY <2>0, Zenon
      <3> HIDE DEF b, c
      <3> QED
        BY <3>1, AdvanceStops, Zenon
    <2> HIDE DEF high, total, b, c, final
    <2>6. /\ t \in RecvStateType /\ t.final = final
          /\ t.storage = r.storage /\ t.buffer = b /\ t.read = r.read
          /\ t.contiguous = c
      BY <1>1, <1>2, <2>1, <2>2, <2>3, <2>4, <2>5, Zenon DEF RecvStateType
    <2>7. r.storage <= r.read /\ r.read <= c /\ r.read <= r.read /\ r.storage <= r.storage
      <3>1. r.storage <= r.read /\ r.read <= r.contiguous
        BY Zenon DEF Reassembles
      <3> QED
        BY <2>0, <2>5, <3>1
    <2>8. Reassembles(t) /\ MovesOn(r, t)
      BY <2>4, <2>5, <2>6, <2>7, Zenon DEF Reassembles, MovesOn
    <2>9. r.storage + Len(b) = r.storage + Len(r.buffer) \/ r.storage + Len(b) = f.to
      <3>1. Len(b) = Len(r.buffer) \/ Len(b) = f.to - r.storage
        BY <2>4, Zenon
      <3>2. CASE Len(b) = f.to - r.storage
        BY <1>1, <2>0, <3>2
      <3> QED
        BY <3>1, <3>2, Zenon
    <2> HIDE DEF t
    <2> QED
      BY <2>6, <2>8, <2>9, Zenon DEF t, final
  <1> QED
    BY <1>3, <1>4, Zenon

\* available: the next bytes in order.
LEMMA AvailableInOrder ==
    ASSUME NEW r, Reassembles(r)
    PROVE  /\ AvailableBytes(r) = [i \in 1 .. r.contiguous - r.read |-> r.read + i]
           /\ Len(AvailableBytes(r)) = r.contiguous - r.read
  <1> DEFINE m == r.read - r.storage + 1
             n == r.contiguous - r.storage
             q == AvailableBytes(r)
  <1>1. /\ r.storage \in Nat /\ r.read \in Nat /\ r.contiguous \in Nat /\ r.buffer \in Seq(Int)
        /\ r.storage <= r.read /\ r.read <= r.contiguous
        /\ r.contiguous <= r.storage + Len(r.buffer) /\ Len(r.buffer) \in Nat
    BY DEF Reassembles, RecvStateType
  <1>2. m \in Int /\ n \in Int /\ m >= 1 /\ n - m + 1 = r.contiguous - r.read
    BY <1>1
  <1>3. \A i \in m .. n : r.buffer[i] = r.storage + i /\ r.buffer[i] \in Int
    <2> TAKE i \in m .. n
    <2>1. i \in 1 .. r.contiguous - r.storage /\ r.storage + i \in Int
      BY <1>1
    <2> QED
      BY <2>1, Zenon DEF Reassembles
  <1>4. q = SubSeq(r.buffer, m, n)
    BY Zenon DEF AvailableBytes
  <1> HIDE DEF q
  <1>5. /\ q \in Seq(Int) /\ Len(q) = IF m <= n THEN n - m + 1 ELSE 0
        /\ \A i \in 1 .. n - m + 1 : q[i] = r.buffer[m + i - 1]
    <2> HIDE DEF m, n
    <2> QED
      BY <1>2, <1>3, <1>4
  <1>6. Len(q) = r.contiguous - r.read
    BY <1>1, <1>2, <1>5, SMTT(20)
  <1>7. \A i \in 1 .. r.contiguous - r.read : q[i] = r.read + i
    <2> TAKE i \in 1 .. r.contiguous - r.read
    <2>1. /\ m + i - 1 \in m .. n /\ i \in 1 .. n - m + 1
          /\ r.storage + (m + i - 1) = r.read + i
      <3>1. /\ r.storage \in Nat /\ r.read \in Nat /\ r.contiguous \in Nat
            /\ i \in 1 .. r.contiguous - r.read
        BY <1>1, Zenon
      <3> QED
        BY ONLY <3>1
    <2> HIDE DEF m, n
    <2> QED
      BY <1>3, <1>5, <2>1, Zenon
  <1>8. q = [i \in 1 .. r.contiguous - r.read |-> r.read + i]
    BY <1>5, <1>6, <1>7
  <1> QED
    BY <1>6, <1>8, Zenon DEF q

\* consume, of bytes that are available, with compactConsumedPrefix.
LEMMA ConsumeReassembles ==
    ASSUME NEW r, Reassembles(r), NEW n \in Nat, n <= Len(AvailableBytes(r))
    PROVE  /\ Reassembles(Consume(r, n)) /\ MovesOn(r, Consume(r, n))
           /\ Consume(r, n).final = r.final
           /\ Consume(r, n).storage + Len(Consume(r, n).buffer) = r.storage + Len(r.buffer)
  <1> DEFINE q == [r EXCEPT !.read = r.read + n]
             k == q.read - q.storage
             b == SubSeq(q.buffer, k + 1, Len(q.buffer))
             t == [q EXCEPT !.buffer = b, !.storage = q.read]
  <1>1. r \in RecvStateType /\ n <= r.contiguous - r.read
    BY AvailableInOrder, Zenon DEF Reassembles
  <1>2. /\ r.storage \in Nat /\ r.read \in Nat /\ r.contiguous \in Nat /\ r.buffer \in Seq(Int)
        /\ r.storage <= r.read /\ r.read <= r.contiguous
        /\ r.contiguous <= r.storage + Len(r.buffer) /\ Len(r.buffer) \in Nat
    BY DEF Reassembles, RecvStateType
  <1>3. /\ r.read + n \in Nat /\ r.read <= r.read + n /\ r.read + n <= r.contiguous
        /\ r.storage <= r.read + n /\ r.storage <= r.storage /\ r.contiguous <= r.contiguous
    BY <1>1, <1>2, SMTT(20)
  <1>4. /\ q \in RecvStateType /\ q.read = r.read + n /\ q.storage = r.storage
        /\ q.buffer = r.buffer /\ q.contiguous = r.contiguous /\ q.final = r.final
    BY <1>1, <1>3, Zenon DEF RecvStateType
  <1> HIDE DEF q
  <1>5. /\ Reassembles(q) /\ MovesOn(r, q) /\ q.final = r.final
        /\ q.storage + Len(q.buffer) = r.storage + Len(r.buffer)
    BY <1>3, <1>4, Zenon DEF Reassembles, MovesOn
  <1>6. /\ k \in Nat /\ k <= q.contiguous - r.storage /\ k <= Len(r.buffer)
        /\ r.storage + k = q.read
    <2>1. /\ r.storage \in Nat /\ r.contiguous \in Nat /\ Len(r.buffer) \in Nat
          /\ q.read \in Nat /\ r.storage <= q.read /\ q.read <= r.contiguous
          /\ r.contiguous <= r.storage + Len(r.buffer)
          /\ q.storage = r.storage /\ q.contiguous = r.contiguous
      BY <1>2, <1>3, <1>4, Zenon
    <2> DEFINE o == r.storage
               e == r.contiguous
               m == q.read
               z == Len(r.buffer)
    <2>2. o \in Nat /\ e \in Nat /\ z \in Nat /\ m \in Nat /\ o <= m /\ m <= e /\ e <= o + z
      BY <2>1, Zenon
    <2> HIDE DEF o, e, m, z
    <2>3. m - o \in Nat /\ m - o <= e - o /\ m - o <= z /\ o + (m - o) = m
      BY ONLY <2>2
    <2>4. q.storage = o /\ q.contiguous = e
      BY <2>1, Zenon DEF o, e
    <2> QED
      BY <2>3, <2>4, Zenon DEF o, e, m, z
  <1>7. /\ b \in Seq(Int) /\ Len(b) = Len(r.buffer) - k
        /\ \A i \in 1 .. Len(r.buffer) - k : b[i] = r.buffer[i + k]
    <2>1. \A i \in k + 1 .. Len(r.buffer) : r.buffer[i] \in Int
      BY <1>2, <1>6
    <2> HIDE DEF k
    <2>2. b = SubSeq(r.buffer, k + 1, Len(r.buffer))
      BY <1>4, Zenon
    <2> HIDE DEF b
    <2>3. /\ b \in Seq(Int)
          /\ Len(b) = IF k + 1 <= Len(r.buffer) THEN Len(r.buffer) - (k + 1) + 1 ELSE 0
          /\ \A i \in 1 .. Len(r.buffer) - (k + 1) + 1 : b[i] = r.buffer[k + 1 + i - 1]
      BY <1>2, <1>6, <2>1, <2>2
    <2>4. Len(r.buffer) \in Nat /\ k \in Nat /\ k <= Len(r.buffer)
      BY <1>2, <1>6, Zenon
    <2>5. Len(b) = Len(r.buffer) - k /\ Len(r.buffer) - (k + 1) + 1 = Len(r.buffer) - k
      BY ONLY <2>3, <2>4
    <2>6. \A i \in 1 .. Len(r.buffer) - k : k + 1 + i - 1 = i + k
      BY ONLY <2>4
    <2> QED
      BY <2>3, <2>5, <2>6, Zenon
  <1> HIDE DEF b
  <1>8. /\ t \in RecvStateType /\ t.read = q.read /\ t.storage = q.read
        /\ t.buffer = b /\ t.contiguous = r.contiguous /\ t.final = r.final
    BY <1>3, <1>4, <1>7, Zenon DEF RecvStateType
  <1> HIDE DEF t, k
  <1>13. /\ r.storage \in Nat /\ r.contiguous \in Nat /\ Len(r.buffer) \in Nat /\ k \in Nat
         /\ k <= Len(r.buffer) /\ Len(b) = Len(r.buffer) - k /\ t.storage = r.storage + k
         /\ t.contiguous = r.contiguous /\ t.read = t.storage /\ t.read <= r.contiguous
         /\ r.contiguous <= r.storage + Len(r.buffer) /\ t.buffer = b
    BY <1>2, <1>3, <1>4, <1>6, <1>7, <1>8, Zenon
  <1>9. \A i \in 1 .. Len(b) :
          /\ b[i] \in {Hole, t.storage + i}
          /\ i \in 1 .. t.contiguous - t.storage => b[i] = t.storage + i
    <2> TAKE i \in 1 .. Len(b)
    <2>1. /\ i + k \in 1 .. Len(r.buffer) /\ r.storage + (i + k) = t.storage + i
          /\ i \in 1 .. Len(r.buffer) - k
          /\ i \in 1 .. t.contiguous - t.storage => i + k \in 1 .. r.contiguous - r.storage
      BY ONLY <1>13, i \in 1 .. Len(b), SMTT(20)
    <2>2. b[i] = r.buffer[i + k]
      BY <1>7, <2>1, Zenon
    <2> QED
      BY <2>1, <2>2, Zenon DEF Reassembles
  <1>10. /\ t.storage <= t.read /\ t.read <= t.contiguous
         /\ t.contiguous <= t.storage + Len(t.buffer)
         /\ t.storage + Len(t.buffer) = r.storage + Len(r.buffer)
         /\ \A i \in 1 .. t.contiguous - t.storage : i \in 1 .. Len(t.buffer)
    BY ONLY <1>13, SMTT(20)
  <1>11. Reassembles(t) /\ MovesOn(r, t)
    <2>1. Reassembles(t)
      BY <1>8, <1>9, <1>10, Zenon DEF Reassembles
    <2> QED
      BY <1>3, <1>4, <1>8, <2>1, Zenon DEF MovesOn
  <1>12. Consume(r, n) \in {q, t}
    BY Zenon DEF Consume, CompactConsumedPrefix, q, t, k, b
  <1> QED
    BY <1>5, <1>8, <1>10, <1>11, <1>12, Zenon

=============================================================================

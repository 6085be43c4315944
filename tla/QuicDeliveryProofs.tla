------------------------- MODULE QuicDeliveryProofs -------------------------
(***************************************************************************)
(* What the receiver of QuicStreams delivers, how many streams it has open *)
(* and which limits it has announced, for every number of streams, window  *)
(* and amount of data.                                                     *)
(***************************************************************************)
EXTENDS QuicStreamsProofs

-----------------------------------------------------------------------------
(* The sender: how far each stream was written, and where it ends.         *)

\* A stream that has an end was written up to it; no stream in use is given out.
Sound(x) ==
    \A s \in Known(x.streams) :
        /\ x.streams[s].high \in Nat
        /\ x.streams[s].final \in {NoSize, x.streams[s].high}
        /\ s < x.next

\* A stream is written further until its end is set, and then never again.
Further(d, e) ==
    /\ d.high <= e.high
    /\ d.final # NoSize => e.high = d.high /\ e.final = d.final

Onward(x, y) ==
    /\ Sound(y) /\ x.next <= y.next
    /\ Known(x.streams) \subseteq Known(y.streams)
    /\ \A s \in Known(x.streams) : Further(x.streams[s], y.streams[s])

\* The extents are numbers.
LEMMA ExtentsAreInts ==
    ASSUME NEW x, IsSender(x)
    PROVE  x.next \in Int /\ \A s \in Known(x.streams) : x.streams[s].high \in Int
  BY Zenon DEF IsSender, SendEntryType

\* Steps of the sender follow each other.
LEMMA OnwardTransitive ==
    ASSUME NEW x, NEW y, NEW z, IsSender(x), IsSender(y), IsSender(z), Onward(x, y), Onward(y, z)
    PROVE  Onward(x, z)
  <1>1. x.next \in Int /\ y.next \in Int /\ z.next \in Int
    BY ExtentsAreInts, Zenon
  <1>2. x.next <= y.next /\ y.next <= z.next
    BY Zenon DEF Onward
  <1>3. x.next <= z.next
    BY ONLY <1>1, <1>2
  <1>4. ASSUME NEW s \in Known(x.streams)
        PROVE  Further(x.streams[s], z.streams[s])
    <2>1. /\ s \in Known(y.streams) /\ s \in Known(z.streams)
          /\ Further(x.streams[s], y.streams[s]) /\ Further(y.streams[s], z.streams[s])
      BY Zenon DEF Onward
    <2>2. x.streams[s].high \in Int /\ y.streams[s].high \in Int /\ z.streams[s].high \in Int
      BY <2>1, ExtentsAreInts, Zenon
    <2>3. x.streams[s].high <= y.streams[s].high /\ y.streams[s].high <= z.streams[s].high
      BY <2>1, Zenon DEF Further
    <2>4. x.streams[s].high <= z.streams[s].high
      BY ONLY <2>2, <2>3
    <2> QED
      BY <2>1, <2>4, Zenon DEF Further
  <1> QED
    BY <1>3, <1>4, Zenon DEF Onward

\* Whatever leaves extents, ends and numbers alone.
LEMMA OnwardSame ==
    ASSUME NEW x, NEW y, IsSender(x), Sound(x), Known(y.streams) = Known(x.streams),
           x.next <= y.next, y.next \in Int,
           \A s \in Known(x.streams) : /\ y.streams[s].high = x.streams[s].high
                                       /\ y.streams[s].final = x.streams[s].final
    PROVE  Onward(x, y)
  <1>1. \A s \in Known(x.streams) : /\ x.streams[s].high \in Int /\ s \in Int /\ s < x.next
                                    /\ x.next \in Int
    <2>1. Known(x.streams) \subseteq Streams /\ x.next \in Int
      BY Zenon DEF IsSender
    <2>2. Streams \subseteq Int
      BY ONLY StreamsBounds DEF Streams
    <2> QED
      BY <2>1, <2>2, ExtentsAreInts, Zenon DEF Sound
  <1>2. \A s \in Known(x.streams) : x.streams[s].high <= x.streams[s].high /\ s < y.next
    <2> TAKE s \in Known(x.streams)
    <2>1. x.streams[s].high \in Int /\ s \in Int /\ s < x.next /\ x.next \in Int
      BY <1>1, Zenon
    <2> QED
      BY ONLY <2>1, x.next <= y.next, y.next \in Int
  <1>3. Sound(y)
    BY <1>2, Zenon DEF Sound
  <1> QED
    BY <1>2, <1>3, Zenon DEF Onward, Further

\* Doing nothing.
LEMMA OnwardReflexive ==
    ASSUME NEW x, IsSender(x), Sound(x)
    PROVE  Onward(x, x)
  <1>1. x.next \in Int
    BY ExtentsAreInts, Zenon
  <1>2. x.next <= x.next
    BY ONLY <1>1
  <1> QED
    BY <1>1, <1>2, OnwardSame, Zenon

\* sendStreamEntry: a stream in use is below the next one that openLocalStream gives.
LEMMA WithSendEntryOnward ==
    ASSUME NEW x, IsSender(x), Sound(x), NEW s \in Streams
    PROVE  Onward(x, WithSendEntry(x, s))
  <1> DEFINE y == WithSendEntry(x, s)
  <1>1. CASE s \in Known(x.streams)
    <2>1. y = x
      BY <1>1, Zenon DEF WithSendEntry
    <2> QED
      BY <2>1, OnwardReflexive, Zenon
  <1>2. CASE s \notin Known(x.streams)
    <2>1. y = [x EXCEPT !.streams = Put(x.streams, s, NewSendEntry), !.next = Most(x.next, s + 1)]
      BY <1>2, Zenon DEF WithSendEntry
    <2>2. /\ y.streams = Put(x.streams, s, NewSendEntry) /\ y.next = Most(x.next, s + 1)
      BY <2>1, Zenon DEF IsSender
    <2>3. /\ Known(y.streams) = Known(x.streams) \cup {s}
          /\ \A t \in Known(x.streams) : y.streams[t] = x.streams[t]
          /\ y.streams[s] = NewSendEntry
      BY <1>2, <2>2, Zenon DEF Put, Known
    <2>4. x.next \in Int /\ s \in Int /\ \A t \in Known(x.streams) : t \in Int
      <3>1. Known(x.streams) \subseteq Streams /\ x.next \in Int
        BY Zenon DEF IsSender
      <3>2. Streams \subseteq Int
        BY ONLY StreamsBounds DEF Streams
      <3> QED
        BY <3>1, <3>2, Zenon
    <2>5. x.next <= Most(x.next, s + 1) /\ s < Most(x.next, s + 1)
      BY ONLY <2>4 DEF Most
    <2>6. \A t \in Known(x.streams) : t < x.next /\ x.streams[t].high \in Nat
      BY Zenon DEF Sound
    <2>7. \A t \in Known(x.streams) : /\ t < Most(x.next, s + 1)
                                      /\ x.streams[t].high <= x.streams[t].high
      BY ONLY <2>4, <2>6 DEF Most
    <2>8. NewSendEntry.high \in Nat /\ NewSendEntry.final = NoSize
      BY DEF NewSendEntry
    <2>9. Sound(y)
      BY <2>2, <2>3, <2>5, <2>7, <2>8, Zenon DEF Sound
    <2> QED
      BY <2>2, <2>3, <2>5, <2>7, <2>9, Zenon DEF Onward, Further
  <1> QED
    BY <1>1, <1>2, Zenon

\* Bringing a packet's streams into use.
LEMMA MaterialisedOnward ==
    ASSUME IsSender(snd), Sound(snd), NEW packet, IsWrite(packet)
    PROVE  Onward(snd, Materialised(packet))
  <1>0. \A f \in SendFrames : f.s \in Streams
    BY Zenon DEF SendFrames
  <1>1. ASSUME NEW f \in SendFrames, packet = <<f>>
        PROVE  Onward(snd, Materialised(packet))
    <2>1. Materialised(packet) = WithSendEntry(snd, f.s)
      BY <1>1, Zenon DEF Materialised, InOrder
    <2> QED
      BY <2>1, <1>0, WithSendEntryOnward, Zenon
  <1>2. ASSUME NEW f \in SendFrames, NEW g \in SendFrames, packet = <<f, g>>
        PROVE  Onward(snd, Materialised(packet))
    <2> DEFINE y == WithSendEntry(snd, f.s)
               z == WithSendEntry(y, g.s)
    <2>1. Materialised(packet) = z
      BY <1>2 DEF Materialised, InOrder
    <2>2. IsSender(y) /\ Onward(snd, y)
      BY <1>0, WithSendEntryKeeps, WithSendEntryOnward, Zenon DEF Kept
    <2>3. Sound(y)
      BY <2>2, Zenon DEF Onward
    <2> HIDE DEF y
    <2>4. IsSender(z) /\ Onward(y, z)
      BY <1>0, <2>2, <2>3, WithSendEntryKeeps, WithSendEntryOnward, Zenon DEF Kept
    <2> HIDE DEF z
    <2> QED
      BY <2>1, <2>2, <2>4, OnwardTransitive, Zenon
  <1> QED
    BY <1>1, <1>2, Zenon DEF IsWrite

\* Charging and giving back touch credit only.
LEMMA ChargedOnward ==
    ASSUME NEW x, IsSender(x), Sound(x), NEW packet, IsWrite(packet)
    PROVE  /\ Onward(x, Charged(x, packet)) /\ Onward(x, Uncharged(x, packet))
           /\ \A s \in Known(x.streams) :
                /\ Charged(x, packet).streams[s].high = x.streams[s].high
                /\ Charged(x, packet).streams[s].final = x.streams[s].final
  <1> DEFINE c == Charged(x, packet)
             u == Uncharged(x, packet)
             ce(s) == [x.streams[s] EXCEPT !.flow = Reserve(@, BytesFor(packet, s))]
             ue(s) == [x.streams[s] EXCEPT !.flow = Refund(@, BytesFor(packet, s))]
  <1>1. /\ c.next = x.next /\ u.next = x.next
        /\ c.streams = [s \in Known(x.streams) |-> ce(s)]
        /\ u.streams = [s \in Known(x.streams) |-> ue(s)]
    BY Zenon DEF Charged, Uncharged, IsSender
  <1>2. \A s \in Known(x.streams) :
            /\ ce(s).high = x.streams[s].high /\ ce(s).final = x.streams[s].final
            /\ ue(s).high = x.streams[s].high /\ ue(s).final = x.streams[s].final
    <2>1. \A s \in Known(x.streams) : x.streams[s] \in SendEntryType
      BY Zenon DEF IsSender
    <2> QED
      BY <2>1, Zenon DEF SendEntryType
  <1> HIDE DEF c, u, ce, ue
  <1>3. /\ Known(c.streams) = Known(x.streams) /\ Known(u.streams) = Known(x.streams)
        /\ \A s \in Known(x.streams) :
             /\ c.streams[s].high = x.streams[s].high /\ c.streams[s].final = x.streams[s].final
             /\ u.streams[s].high = x.streams[s].high /\ u.streams[s].final = x.streams[s].final
    BY <1>1, <1>2, Zenon DEF Known
  <1>4. x.next \in Int
    BY ExtentsAreInts, Zenon
  <1>5. x.next <= x.next
    BY ONLY <1>4
  <1>6. Onward(x, c) /\ Onward(x, u)
    BY <1>1, <1>3, <1>4, <1>5, OnwardSame, Zenon
  <1> QED
    BY <1>3, <1>6, Zenon DEF c, u

\* noteSentStreams, of a frame that goes on where the stream was.
LEMMA NoteSentOnward ==
    ASSUME NEW x, IsSender(x), Sound(x), NEW f \in SendFrames, f.s \in Known(x.streams),
           f.to >= x.streams[f.s].high,
           x.streams[f.s].final # NoSize => f.to = x.streams[f.s].high
    PROVE  /\ Onward(x, NoteSent(x, f)) /\ Known(NoteSent(x, f).streams) = Known(x.streams)
           /\ NoteSent(x, f).streams[f.s].high = f.to
           /\ NoteSent(x, f).streams[f.s].final = IF f.fin THEN f.to ELSE x.streams[f.s].final
           /\ \A t \in Known(x.streams) \ {f.s} : NoteSent(x, f).streams[t] = x.streams[t]
  <1> DEFINE y == NoteSent(x, f)
             d == x.streams[f.s]
             e == [d EXCEPT !.high = Most(@, f.to), !.final = IF f.fin THEN f.to ELSE @]
  <1>1. d \in SendEntryType /\ f.to \in Int
    BY Zenon DEF IsSender, SendFrames
  <1>2. y = [x EXCEPT !.streams = [x.streams EXCEPT ![f.s] = e]]
    BY <1>1, Zenon DEF NoteSent, IsSender, SendEntryType
  <1>3. e.high = Most(d.high, f.to) /\ e.final = IF f.fin THEN f.to ELSE d.final
    BY <1>1, Zenon DEF SendEntryType
  <1>4. d.high \in Nat /\ d.final \in {NoSize, d.high} /\ d.high <= f.to
    <2>1. d.high \in Nat /\ d.final \in {NoSize, d.high}
      BY Zenon DEF Sound
    <2> HIDE DEF d
    <2> QED
      BY <1>1, <2>1 DEF d
  <1>5. e.high = f.to /\ f.to \in Nat
    BY ONLY <1>1, <1>3, <1>4 DEF Most
  <1>6. /\ y.next = x.next /\ Known(y.streams) = Known(x.streams)
        /\ \A t \in Known(x.streams) : y.streams[t] = IF t = f.s THEN e ELSE x.streams[t]
    <2> HIDE DEF e
    <2> QED
      BY <1>2, Zenon DEF IsSender, Known
  <1> HIDE DEF y
  <1>7. e.final \in {NoSize, e.high}
    BY <1>3, <1>4, <1>5, Zenon
  <1>8. Further(d, e)
    BY <1>3, <1>4, <1>5, Zenon DEF Further
  <1> HIDE DEF e
  <1>9. Sound(y)
    BY <1>5, <1>6, <1>7, Zenon DEF Sound
  <1>10. x.next \in Int /\ \A t \in Known(x.streams) : x.streams[t].high \in Int
    BY ExtentsAreInts, Zenon
  <1>11. x.next <= x.next /\ \A t \in Known(x.streams) : x.streams[t].high <= x.streams[t].high
    BY ONLY <1>10
  <1>12. ASSUME NEW t \in Known(x.streams)
         PROVE  Further(x.streams[t], y.streams[t])
    <2>1. CASE t = f.s
      BY <1>6, <1>8, <2>1, Zenon
    <2>2. CASE t # f.s
      BY <1>6, <1>11, <2>2, Zenon DEF Further
    <2> QED
      BY <2>1, <2>2, Zenon
  <1>13. Onward(x, y)
    BY <1>6, <1>9, <1>11, <1>12, Zenon DEF Onward
  <1> QED
    BY <1>3, <1>5, <1>6, <1>13, Zenon DEF y

\* A frame that goes on where its stream was, and carries nothing once it has an end.
GoesOn(f) ==
    /\ f \in SendFrames /\ f.to >= SendEntry(f.s).high
    /\ SendEntry(f.s).final # NoSize => f.to = SendEntry(f.s).high

\* Two frames of one packet: parts that follow each other, of streams without an end.
GoTogether(f, g) ==
    /\ GoesOn(f) /\ GoesOn(g) /\ ~f.fin /\ ~g.fin
    /\ SendEntry(f.s).final = NoSize /\ SendEntry(g.s).final = NoSize
    /\ g.s = f.s => g.to >= f.to

\* validateStreamFrameForSend lets pass only what goes on; two frames of one packet
\* continue each other, on streams without an end.
LEMMA WritesGoOn ==
    ASSUME IsSender(snd), Sound(snd), NEW packet \in Writes,
           \A i \in DOMAIN packet : MaySend(packet[i])
    PROVE  \/ \E f : packet = <<f>> /\ GoesOn(f)
           \/ \E f, g : packet = <<f, g>> /\ GoTogether(f, g)
  <1>1. ASSUME NEW s \in Streams
        PROVE  SendEntry(s).high \in Nat
    <2>1. NewSendEntry.high \in Nat
      BY DEF NewSendEntry
    <2> QED
      BY <2>1, Zenon DEF SendEntry, Sound
  <1>2. ASSUME NEW s \in Streams, NEW n \in Nat, NEW fin \in BOOLEAN
        PROVE  /\ Chunk(s, n, fin) \in SendFrames
               /\ Chunk(s, n, fin).s = s /\ Chunk(s, n, fin).fin = fin
               /\ Chunk(s, n, fin).from = SendEntry(s).high
               /\ Chunk(s, n, fin).to = SendEntry(s).high + n
    <2>1. SendEntry(s).high \in Int /\ SendEntry(s).high + n \in Int
      BY <1>1
    <2> QED
      BY <2>1, Zenon DEF Chunk, StreamFrame, SendFrames
  <1>3. ASSUME NEW s \in Streams, NEW n \in Nat, NEW fin \in BOOLEAN, MaySend(Chunk(s, n, fin))
        PROVE  GoesOn(Chunk(s, n, fin)) /\ (n # 0 => SendEntry(s).final = NoSize)
    <2> DEFINE f == Chunk(s, n, fin)
               h == SendEntry(s).high
    <2>1. f \in SendFrames /\ f.s = s /\ f.from = h /\ f.to = h + n /\ h \in Nat
      <3>1. f \in SendFrames /\ f.s = s /\ f.from = h /\ f.to = h + n
        BY <1>2, Zenon
      <3>2. h \in Nat
        BY <1>1, Zenon
      <3> QED
        BY <3>1, <3>2, Zenon
    <2>2. SendEntry(f.s).final # NoSize => f.from = f.to
      BY <1>3, Zenon DEF MaySend
    <2> HIDE DEF f, h
    <2>3. f.to >= h /\ (f.from = f.to => n = 0 /\ f.to = h)
      BY ONLY <2>1, n \in Nat
    <2> QED
      BY <2>1, <2>2, <2>3, Zenon DEF GoesOn, f, h
  <1>4. /\ WriteSizes \subseteq Nat /\ 0 \in Nat /\ 0 \notin WriteSizes
        /\ \A n \in WriteSizes : 2 * n \in Nat
    BY StreamsBounds
  <1>5. ASSUME NEW f, packet = <<f>> PROVE MaySend(f)
    BY <1>5
  <1>6. ASSUME NEW f, NEW g, packet = <<f, g>> PROVE MaySend(f) /\ MaySend(g)
    BY <1>6
  <1>7. ASSUME NEW s \in Streams, NEW n \in Nat, NEW fin \in BOOLEAN,
               packet = <<Chunk(s, n, fin)>>
        PROVE  \E f : packet = <<f>> /\ GoesOn(f)
    BY <1>3, <1>5, <1>7, Zenon
  <1>8. ASSUME NEW s \in Streams, NEW n \in WriteSizes,
               packet = <<Chunk(s, n, FALSE),
                          StreamFrame(s, Chunk(s, n, FALSE).to, Chunk(s, 2 * n, FALSE).to, FALSE)>>
        PROVE  \E f, g : packet = <<f, g>> /\ GoTogether(f, g)
    <2> DEFINE f == Chunk(s, n, FALSE)
               k == Chunk(s, 2 * n, FALSE)
               g == StreamFrame(s, f.to, k.to, FALSE)
               h == SendEntry(s).high
    <2>0. n \in Nat /\ n # 0 /\ 2 * n \in Nat
      BY <1>4, Zenon
    <2>1. /\ f.s = s /\ ~f.fin /\ f.to = h + n /\ k.to = h + 2 * n /\ h \in Nat
      <3>1. FALSE \in BOOLEAN
        BY Zenon
      <3>2. f.s = s /\ f.fin = FALSE /\ f.to = h + n
        BY <1>2, <2>0, <3>1, Zenon
      <3>3. k.to = h + 2 * n
        BY <1>2, <2>0, <3>1, Zenon
      <3>4. h \in Nat
        BY <1>1, Zenon
      <3> QED
        BY <3>2, <3>3, <3>4, Zenon
    <2>2. GoesOn(f) /\ SendEntry(s).final = NoSize
      BY <1>3, <1>6, <1>8, <2>0, Zenon
    <2> HIDE DEF f, k, h
    <2>3. f.to \in Int /\ k.to \in Int /\ k.to >= f.to /\ k.to >= h
      BY ONLY <2>0, <2>1
    <2>4. g \in SendFrames /\ g.s = s /\ ~g.fin /\ g.to = k.to
      BY <2>3, Zenon DEF StreamFrame, SendFrames
    <2> HIDE DEF g
    <2>5. GoesOn(g)
      BY <2>2, <2>3, <2>4, Zenon DEF GoesOn, h
    <2>6. packet = <<f, g>>
      BY <1>8, Zenon DEF f, g, k
    <2> QED
      BY <2>1, <2>2, <2>3, <2>4, <2>5, <2>6, Zenon DEF GoTogether
  <1>9. ASSUME NEW s \in Streams, NEW t \in Streams, NEW n \in WriteSizes, s < t,
               packet = <<Chunk(s, n, FALSE), Chunk(t, n, FALSE)>>
        PROVE  \E f, g : packet = <<f, g>> /\ GoTogether(f, g)
    <2>0. n \in Nat /\ n # 0
      BY <1>4, Zenon
    <2>1. s \in Int /\ t \in Int
      BY StreamsBounds DEF Streams
    <2>2. s # t
      BY ONLY <2>1, <1>9
    <2> DEFINE f == Chunk(s, n, FALSE)
               g == Chunk(t, n, FALSE)
    <2>3. f.s = s /\ ~f.fin /\ g.s = t /\ ~g.fin
      BY <1>2, <2>0, Zenon
    <2>4. GoesOn(f) /\ GoesOn(g) /\ SendEntry(s).final = NoSize /\ SendEntry(t).final = NoSize
      BY <1>3, <1>6, <1>9, <2>0, Zenon
    <2>5. packet = <<f, g>>
      BY <1>9, Zenon
    <2> HIDE DEF f, g
    <2> QED
      BY <2>2, <2>3, <2>4, <2>5, Zenon DEF GoTogether
  <1>10. CASE \E s \in Streams, n \in WriteSizes : packet = <<Chunk(s, n, FALSE)>>
    BY <1>4, <1>7, <1>10, Zenon
  <1>11. CASE \E s \in Streams, n \in {0} \cup WriteSizes : packet = <<Chunk(s, n, TRUE)>>
    BY <1>4, <1>7, <1>11, Zenon
  <1>12. CASE \E s \in Streams, t \in Streams, n \in WriteSizes :
                s < t /\ packet = <<Chunk(s, n, FALSE), Chunk(t, n, FALSE)>>
    BY <1>9, <1>12, Zenon
  <1>13. CASE \E s \in Streams, n \in WriteSizes :
                packet = <<Chunk(s, n, FALSE),
                           StreamFrame(s, Chunk(s, n, FALSE).to, Chunk(s, 2 * n, FALSE).to, FALSE)>>
    BY <1>8, <1>13, Zenon
  <1> QED
    BY <1>10, <1>11, <1>12, <1>13, WritesForms, Zenon

\* What the receiver may find in a frame: bytes that were written, and the right end.
FrameTrue(f, x) ==
    f.type = "stream" =>
        /\ f.to \in Nat /\ f.to <= x.streams[f.s].high
        /\ f.fin => f.to = x.streams[f.s].final

PacketTrue(packet, x) == \A i \in DOMAIN packet : FrameTrue(packet[i], x)

\* A step of the sender's own.
SenderGoesOn ==
    /\ Onward(snd, snd')
    /\ \A packet \in toReceiver' : packet \in toReceiver \/ PacketTrue(packet, snd')

\* Frames stay true.
LEMMA FrameStaysTrue ==
    ASSUME NEW x, NEW y, IsSender(x), IsSender(y), Onward(x, y), NEW f,
           f.type = "stream" => f.s \in Known(x.streams), FrameTrue(f, x)
    PROVE  FrameTrue(f, y)
  <1> SUFFICES ASSUME f.type = "stream" PROVE FrameTrue(f, y)
    BY Zenon DEF FrameTrue
  <1>1. /\ f.to \in Nat /\ f.to <= x.streams[f.s].high
        /\ f.fin => f.to = x.streams[f.s].final
    BY Zenon DEF FrameTrue
  <1>2. f.s \in Known(y.streams) /\ Further(x.streams[f.s], y.streams[f.s])
    BY Zenon DEF Onward
  <1>3. x.streams[f.s].high \in Int /\ y.streams[f.s].high \in Int
    BY <1>2, ExtentsAreInts, Zenon
  <1>4. x.streams[f.s].high <= y.streams[f.s].high
    BY <1>2, Zenon DEF Further
  <1>5. f.to <= y.streams[f.s].high /\ f.to # NoSize
    BY ONLY <1>1, <1>3, <1>4 DEF NoSize
  <1> QED
    BY <1>1, <1>2, <1>5, Zenon DEF FrameTrue, Further

\* sendWithEcnAtRaw.
LEMMA WriteOnward ==
    ASSUME IsSender(snd), Sound(snd), NEW packet \in Writes, Write(packet)
    PROVE  SenderGoesOn
  <1> DEFINE x == Materialised(packet)
             c == Charged(x, packet)
  <1>0. IsWrite(packet)
    BY WritesShape, Zenon
  <1>1. /\ IsSender(x) /\ Onward(snd, x)
        /\ \A i \in DOMAIN packet : /\ packet[i].s \in Known(x.streams)
                                    /\ x.streams[packet[i].s] = SendEntry(packet[i].s)
    BY <1>0, MaterialisedKeeps, MaterialisedOnward, Zenon DEF Kept
  <1> HIDE DEF x
  <1>2. Sound(x)
    BY <1>1, Zenon DEF Onward
  <1>3. /\ IsSender(c) /\ Onward(x, c) /\ Known(c.streams) = Known(x.streams)
        /\ \A s \in Known(x.streams) : /\ c.streams[s].high = x.streams[s].high
                                        /\ c.streams[s].final = x.streams[s].final
    <2>1. IsSender(c) /\ Known(c.streams) = Known(x.streams)
      BY <1>0, <1>1, ChargedKeeps, Zenon DEF Kept
    <2>2. /\ Onward(x, c)
          /\ \A s \in Known(x.streams) : /\ c.streams[s].high = x.streams[s].high
                                          /\ c.streams[s].final = x.streams[s].final
      BY <1>0, <1>1, <1>2, ChargedOnward, Zenon
    <2> QED
      BY <2>1, <2>2, Zenon
  <1> HIDE DEF c
  <1>4. Onward(snd, c) /\ Sound(c)
    BY <1>1, <1>3, OnwardTransitive, Zenon DEF Onward
  <1>5. IsSender(Uncharged(c, packet)) /\ Onward(c, Uncharged(c, packet))
    BY <1>0, <1>3, <1>4, ChargedKeeps, ChargedOnward, Zenon DEF Kept
  <1>6. \A i \in DOMAIN packet : MaySend(packet[i])
    BY Zenon DEF Write
  <1>7. ASSUME NEW i \in DOMAIN packet
        PROVE  /\ packet[i].s \in Known(c.streams)
               /\ c.streams[packet[i].s].high = SendEntry(packet[i].s).high
               /\ c.streams[packet[i].s].final = SendEntry(packet[i].s).final
    BY <1>1, <1>3, Zenon
  <1>8. \A f \in SendFrames : f.to \in Int /\ f.fin \in BOOLEAN
    BY Zenon DEF SendFrames
  <1>9. CASE snd' = InOrder(NoteSent, c, packet) /\ toReceiver' = toReceiver \cup {packet}
    <2>1. ASSUME NEW f, packet = <<f>>, GoesOn(f)
          PROVE  Onward(snd, snd') /\ PacketTrue(packet, snd')
      <3>1. snd' = NoteSent(c, f)
        BY <1>9, <2>1, Zenon DEF InOrder
      <3>2. /\ f \in SendFrames /\ f.s \in Known(c.streams) /\ f.to >= c.streams[f.s].high
            /\ c.streams[f.s].final # NoSize => f.to = c.streams[f.s].high
        <4>1. 1 \in DOMAIN packet /\ packet[1] = f
          BY <2>1
        <4> QED
          BY <1>7, <2>1, <4>1, Zenon DEF GoesOn
      <3>3. /\ Onward(c, snd') /\ Known(snd'.streams) = Known(c.streams)
            /\ snd'.streams[f.s].high = f.to /\ (f.fin => snd'.streams[f.s].final = f.to)
        BY <1>3, <1>4, <3>1, <3>2, NoteSentOnward, Zenon
      <3>4. IsSender(snd')
        <4>1. c.streams[f.s].final # NoSize => f.to = c.streams[f.s].final
          BY <1>4, <3>2, Zenon DEF Sound
        <4> QED
          BY <1>3, <3>1, <3>2, <4>1, NoteSentKeeps, Zenon DEF Kept
      <3>5. f.to \in Nat /\ f.to <= f.to
        <4>1. snd'.streams[f.s].high \in Nat
          BY <3>2, <3>3, Zenon DEF Onward, Sound
        <4>2. f.to \in Nat
          BY <3>3, <4>1, Zenon
        <4> QED
          BY ONLY <4>2
      <3>6. FrameTrue(f, snd')
        BY <3>3, <3>5, Zenon DEF FrameTrue
      <3>7. Onward(snd, snd')
        BY <1>3, <1>4, <3>3, <3>4, OnwardTransitive, Zenon
      <3> QED
        BY <2>1, <3>6, <3>7 DEF PacketTrue
    <2>2. ASSUME NEW f, NEW g, packet = <<f, g>>, GoesOn(f), GoesOn(g), ~f.fin, ~g.fin,
                 SendEntry(f.s).final = NoSize, SendEntry(g.s).final = NoSize,
                 g.s = f.s => g.to >= f.to
          PROVE  Onward(snd, snd') /\ PacketTrue(packet, snd')
      <3> DEFINE d == NoteSent(c, f)
      <3>1. snd' = NoteSent(d, g)
        BY <1>9, <2>2 DEF InOrder
      <3>2. /\ f \in SendFrames /\ f.s \in Known(c.streams) /\ f.to >= c.streams[f.s].high
            /\ g \in SendFrames /\ g.s \in Known(c.streams) /\ g.to >= c.streams[g.s].high
            /\ c.streams[f.s].final = NoSize /\ c.streams[g.s].final = NoSize
        <4>1. 1 \in DOMAIN packet /\ packet[1] = f /\ 2 \in DOMAIN packet /\ packet[2] = g
          BY <2>2
        <4> QED
          BY <1>7, <2>2, <4>1, Zenon DEF GoesOn
      <3>3. /\ Onward(c, d) /\ Known(d.streams) = Known(c.streams)
            /\ d.streams[f.s].high = f.to /\ d.streams[f.s].final = NoSize
            /\ \A t \in Known(c.streams) \ {f.s} : d.streams[t] = c.streams[t]
        BY <1>3, <1>4, <2>2, <3>2, NoteSentOnward, Zenon
      <3>4. IsSender(d)
        BY <1>3, <2>2, <3>2, NoteSentKeeps, Zenon DEF Kept
      <3> HIDE DEF d
      <3>5. g.to >= d.streams[g.s].high /\ d.streams[g.s].final = NoSize
        BY <2>2, <3>2, <3>3, Zenon
      <3>6. Sound(d)
        BY <3>3, Zenon DEF Onward
      <3>7. /\ Onward(d, snd') /\ snd'.streams[g.s].high = g.to
            /\ Known(snd'.streams) = Known(d.streams)
        BY <3>1, <3>2, <3>3, <3>4, <3>5, <3>6, NoteSentOnward, Zenon
      <3>8. IsSender(snd')
        BY <2>2, <3>1, <3>2, <3>3, <3>4, NoteSentKeeps, Zenon DEF Kept
      <3>9. /\ f.to \in Nat /\ g.to \in Nat /\ g.to <= g.to /\ f.to <= f.to
        <4>1. d.streams[f.s].high \in Nat /\ snd'.streams[g.s].high \in Nat
          BY <3>2, <3>3, <3>6, <3>7, Zenon DEF Onward, Sound
        <4>2. f.to \in Nat /\ g.to \in Nat
          BY <3>3, <3>7, <4>1, Zenon
        <4> QED
          BY ONLY <4>2
      <3>10. FrameTrue(g, snd') /\ FrameTrue(f, d)
        BY <2>2, <3>3, <3>7, <3>9, Zenon DEF FrameTrue
      <3>11. FrameTrue(f, snd')
        BY <3>2, <3>3, <3>4, <3>7, <3>8, <3>10, FrameStaysTrue, Zenon
      <3>12. Onward(c, snd')
        BY <1>3, <3>3, <3>4, <3>7, <3>8, OnwardTransitive, Zenon
      <3>13. Onward(snd, snd')
        BY <1>3, <1>4, <3>8, <3>12, OnwardTransitive, Zenon
      <3> QED
        BY <2>2, <3>10, <3>11, <3>13 DEF PacketTrue
    <2>3. Onward(snd, snd') /\ PacketTrue(packet, snd')
      BY <1>6, <2>1, <2>2, WritesGoOn, Zenon DEF GoTogether
    <2> QED
      BY <1>9, <2>3, Zenon DEF SenderGoesOn
  <1>10. CASE snd' = Uncharged(c, packet) /\ UNCHANGED toReceiver
    BY <1>3, <1>4, <1>5, <1>10, OnwardTransitive, Zenon DEF SenderGoesOn
  <1> QED
    BY <1>9, <1>10, Zenon DEF Write, x, c

\* The same call when it is blocked, sendStreamsBlocked and openLocalStream.
LEMMA BlockedOnward ==
    ASSUME IsSender(snd), Sound(snd),
           \/ \E packet \in Writes : BlockedByCredit(packet)
           \/ BlockedByCount \/ OpenLocalStream
    PROVE  SenderGoesOn
  <1>1. ASSUME NEW packet \in Writes, BlockedByCredit(packet)
        PROVE  SenderGoesOn
    <2>1. snd' = Materialised(packet) /\ toReceiver' = toReceiver
      BY <1>1, Zenon DEF BlockedByCredit
    <2> QED
      BY <2>1, WritesShape, MaterialisedOnward, Zenon DEF SenderGoesOn
  <1>2. CASE BlockedByCount \/ OpenLocalStream
    <2>1. snd'.streams = snd.streams /\ snd.next <= snd'.next /\ snd'.next \in Int
      BY <1>2 DEF BlockedByCount, OpenLocalStream, IsSender
    <2>2. Onward(snd, snd')
      BY <2>1, OnwardSame, Zenon
    <2>3. \A packet \in toReceiver' : packet \in toReceiver \/ PacketTrue(packet, snd')
      <3> DEFINE f == [type |-> "streams_blocked", max |-> snd.maxStreams]
      <3>1. FrameTrue(f, snd')
        BY Zenon DEF FrameTrue
      <3> HIDE DEF f
      <3>2. PacketTrue(<<f>>, snd')
        BY <3>1 DEF PacketTrue
      <3>3. toReceiver' = toReceiver \/ toReceiver' = toReceiver \cup {<<f>>}
        BY <1>2, Zenon DEF BlockedByCount, OpenLocalStream, f
      <3> QED
        BY <3>2, <3>3, Zenon
    <2> QED
      BY <2>2, <2>3, Zenon DEF SenderGoesOn
  <1> QED
    BY <1>1, <1>2, Zenon

\* An entry is marked (stopped, reset) or its limit raised: its extent stays.
LEMMA MarkedOnward ==
    ASSUME NEW x, IsSender(x), Sound(x), NEW s \in Known(x.streams), NEW e,
           e.high = x.streams[s].high, e.final = x.streams[s].final,
           NEW y, y = [x EXCEPT !.streams = [x.streams EXCEPT ![s] = e]]
    PROVE  Onward(x, y)
  <1>1. /\ Known(y.streams) = Known(x.streams) /\ y.next = x.next
        /\ \A t \in Known(x.streams) : y.streams[t] = IF t = s THEN e ELSE x.streams[t]
    BY Zenon DEF IsSender, Known
  <1>2. \A t \in Known(x.streams) : /\ y.streams[t].high = x.streams[t].high
                                    /\ y.streams[t].final = x.streams[t].final
    BY <1>1, Zenon
  <1>3. x.next <= y.next /\ y.next \in Int
    BY <1>1 DEF IsSender
  <1> QED
    BY <1>1, <1>2, <1>3, OnwardSame, Zenon

\* sendResetStream.
LEMMA SendResetOnward ==
    ASSUME IsSender(snd), NEW x, IsSender(x), Onward(snd, x), NEW s \in Known(x.streams),
           SendReset(x, s)
    PROVE  SenderGoesOn
  <1> DEFINE e == [x.streams[s] EXCEPT !.reset = TRUE]
             y == [x EXCEPT !.streams[s].reset = TRUE]
             f == ResetFrame(s, x.streams[s].high)
  <1>1. Sound(x) /\ x.streams[s] \in SendEntryType
    BY Zenon DEF Onward, IsSender
  <1>2. e \in SendEntryType /\ e.high = x.streams[s].high /\ e.final = x.streams[s].final
    BY <1>1, Zenon DEF SendEntryType
  <1>3. y = [x EXCEPT !.streams = [x.streams EXCEPT ![s] = e]]
    BY <1>1, Zenon DEF IsSender, SendEntryType
  <1>4. FrameTrue(f, y)
    BY Zenon DEF FrameTrue, ResetFrame
  <1>5. \/ snd' = x /\ toReceiver' = toReceiver
        \/ snd' = y /\ toReceiver' = toReceiver \cup {<<f>>}
    BY Zenon DEF SendReset
  <1> HIDE DEF e, y, f
  <1>6. IsSender(y)
    <2>1. /\ y.streams \in [Known(x.streams) -> SendEntryType] /\ Known(y.streams) = Known(x.streams)
      BY <1>1, <1>2, <1>3, Zenon DEF IsSender, Known
    <2> QED
      BY <1>3, <2>1, Zenon DEF IsSender
  <1>7. Onward(x, y)
    BY <1>1, <1>2, <1>3, MarkedOnward, Zenon
  <1>8. Onward(snd, y)
    BY <1>6, <1>7, OnwardTransitive, Zenon
  <1>9. PacketTrue(<<f>>, y)
    BY <1>4 DEF PacketTrue
  <1> QED
    BY <1>5, <1>8, <1>9, Zenon DEF SenderGoesOn

\* MAX_DATA, MAX_STREAM_DATA and MAX_STREAMS leave what was written alone.
LEMMA RaiseLimitOnward ==
    ASSUME NEW x, IsSender(x), Sound(x), NEW y, Behind(x, y), NEW f, AdvertOK(f, y)
    PROVE  Onward(x, RaiseLimit(x, f))
  <1> DEFINE z == RaiseLimit(x, f)
  <1>1. CASE f.type = "max_stream_data"
    <2> DEFINE old == x.streams[f.s]
               e == [old EXCEPT !.flow = UpdateLimit(old.flow, f.limit)]
    <2>1. f.s \in Known(x.streams)
      BY <1>1, Zenon DEF AdvertOK, Behind
    <2>2. old \in SendEntryType
      BY <2>1, Zenon DEF IsSender
    <2>3. e.high = old.high /\ e.final = old.final
      BY <2>2, Zenon DEF SendEntryType
    <2>4. z = [x EXCEPT !.streams = [x.streams EXCEPT ![f.s] = e]]
      BY <1>1, <2>1, <2>2, Zenon DEF RaiseLimit, IsSender, SendEntryType
    <2> HIDE DEF e, z
    <2>5. Onward(x, z)
      BY <2>1, <2>3, <2>4, MarkedOnward, Zenon
    <2> QED
      BY <2>5, Zenon DEF z
  <1>2. CASE f.type \in {"max_data", "max_streams"}
    <2>1. z.streams = x.streams /\ z.next = x.next
      <3>1. \A flow : /\ [x EXCEPT !.flow = flow].streams = x.streams
                      /\ [x EXCEPT !.flow = flow].next = x.next
        BY Zenon DEF IsSender
      <3>2. \A m, n : /\ [x EXCEPT !.maxStreams = m, !.blockedAt = n].streams = x.streams
                      /\ [x EXCEPT !.maxStreams = m, !.blockedAt = n].next = x.next
        BY Zenon DEF IsSender
      <3> QED
        BY <1>2, <3>1, <3>2, Zenon DEF RaiseLimit
    <2> HIDE DEF z
    <2>2. x.next <= z.next /\ z.next \in Int
      BY <2>1 DEF IsSender
    <2>3. Onward(x, z)
      BY <2>1, <2>2, OnwardSame, Zenon
    <2> QED
      BY <2>3, Zenon DEF z
  <1> QED
    BY <1>1, <1>2, Zenon DEF AdvertOK

\* A packet of the receiver that arrives at the sender, of any age.
LEMMA AdvertsOnward ==
    ASSUME StreamsInv, Sound(snd), NEW packet \in toSender,
           ReceiveLimits(packet) \/ ReceiveStopSending(packet)
    PROVE  SenderGoesOn
  <1>0. IsSender(snd) /\ IsReceiver(rcv) /\ Behind(snd, rcv) /\ AdvertsOK(packet, rcv)
    BY Zenon DEF StreamsInv
  <1>1. CASE ReceiveLimits(packet)
    <2>0. /\ packet[1].type # "stop" /\ snd' = InOrder(RaiseLimit, snd, packet)
          /\ toReceiver' = toReceiver
      BY <1>1, Zenon DEF ReceiveLimits
    <2>1. ASSUME NEW f, packet = <<f>>, AdvertOK(f, rcv)
          PROVE  Onward(snd, snd')
      <3>1. snd' = RaiseLimit(snd, f)
        BY <2>0, <2>1, Zenon DEF InOrder
      <3> QED
        BY <1>0, <2>1, <3>1, RaiseLimitOnward, Zenon
    <2>2. ASSUME NEW f, NEW g, packet = <<f, g>>, AdvertOK(f, rcv), AdvertOK(g, rcv)
          PROVE  Onward(snd, snd')
      <3> DEFINE x == RaiseLimit(snd, f)
      <3>1. snd' = RaiseLimit(x, g)
        BY <2>0, <2>2 DEF InOrder
      <3>2. IsSender(x) /\ Behind(x, rcv) /\ Onward(snd, x)
        BY <1>0, <2>2, RaiseLimitOK, RaiseLimitOnward, Zenon DEF Raised
      <3> HIDE DEF x
      <3>3. Sound(x)
        BY <3>2, Zenon DEF Onward
      <3>4. IsSender(snd')
        BY <1>0, <2>2, <3>1, <3>2, RaiseLimitOK, Zenon DEF Raised
      <3>5. Onward(x, snd')
        BY <2>2, <3>1, <3>2, <3>3, RaiseLimitOnward, Zenon
      <3> QED
        BY <1>0, <3>2, <3>4, <3>5, OnwardTransitive, Zenon
    <2>3. ASSUME NEW f, packet = <<f>> PROVE packet[1] = f
      BY <2>3, Zenon
    <2>4. Onward(snd, snd')
      BY <1>0, <2>0, <2>1, <2>2, <2>3, Zenon DEF AdvertsOK
    <2> QED
      BY <2>0, <2>4, Zenon DEF SenderGoesOn
  <1>2. CASE ReceiveStopSending(packet)
    <2> DEFINE s == packet[1].s
               e == [snd.streams[s] EXCEPT !.stopped = TRUE]
               x == [snd EXCEPT !.streams[s].stopped = TRUE]
    <2>1. packet[1].type = "stop" /\ SendReset(x, s)
      BY <1>2, Zenon DEF ReceiveStopSending
    <2>2. s \in Known(rcv.streams)
      <3>1. ASSUME NEW f, AdvertOK(f, rcv) PROVE f.type # "stop"
        BY <3>1, Zenon DEF AdvertOK
      <3> QED
        BY <1>0, <2>1, <3>1 DEF AdvertsOK
    <2> HIDE DEF s
    <2>3. s \in Known(snd.streams) /\ snd.streams[s] \in SendEntryType
      BY <1>0, <2>2, Zenon DEF Behind, IsSender
    <2>4. e \in SendEntryType /\ e.high = snd.streams[s].high /\ e.final = snd.streams[s].final
      BY <2>3, Zenon DEF SendEntryType
    <2>5. x = [snd EXCEPT !.streams = [snd.streams EXCEPT ![s] = e]]
      BY <1>0, <2>3, Zenon DEF IsSender, SendEntryType
    <2> HIDE DEF e, x
    <2>6. /\ x.streams \in [Known(snd.streams) -> SendEntryType]
          /\ Known(x.streams) = Known(snd.streams)
      BY <1>0, <2>3, <2>4, <2>5, Zenon DEF IsSender, Known
    <2>7. IsSender(x)
      BY <1>0, <2>5, <2>6, Zenon DEF IsSender
    <2>8. Onward(snd, x)
      BY <1>0, <2>3, <2>4, <2>5, MarkedOnward, Zenon
    <2> QED
      BY <1>0, <2>1, <2>3, <2>6, <2>7, <2>8, SendResetOnward, Zenon
  <1> QED
    BY <1>1, <1>2, Zenon

-----------------------------------------------------------------------------
(* What the receiver holds.                                                *)

\* One stream at the receiver, against its entry d at the sender: only bytes that were
\* written, the end that was set, and a slot returned only after both halves ended.
EntryTrue(e, d) ==
    /\ {"reset", "answered", "released"} \subseteq DOMAIN e
    /\ Reassembles(e.rs)
    /\ e.rs.storage + Len(e.rs.buffer) <= d.high
    /\ e.rs.final # NoSize => e.rs.final = d.final
    /\ e.released => e.answered /\ Ended(e)

\* A stream that was complete stays so while its buffer moves on.
LEMMA StaysComplete ==
    ASSUME NEW r, NEW t, Reassembles(r), Reassembles(t), MovesOn(r, t), t.final = r.final,
           Complete(r)
    PROVE  Complete(t)
  <1>1. /\ r.contiguous \in Nat /\ t.contiguous \in Nat /\ r.read \in Nat /\ t.read \in Nat
        /\ r.final \in Int
    BY ReassemblyInts, Zenon
  <1>2. /\ r.contiguous <= t.contiguous /\ r.read <= t.read /\ t.final = r.final
        /\ r.final # NoSize /\ r.contiguous >= r.final /\ r.read >= r.final
    BY Zenon DEF MovesOn, Complete
  <1>3. t.contiguous >= r.final /\ t.read >= r.final
    BY ONLY <1>1, <1>2
  <1> QED
    BY <1>2, <1>3, Zenon DEF Complete

\* The sender goes on writing.
LEMMA EntryStaysTrue ==
    ASSUME NEW e, NEW d, NEW g, EntryTrue(e, d), Further(d, g), d.high \in Int, g.high \in Int
    PROVE  EntryTrue(e, g)
  <1>1. Reassembles(e.rs) /\ e.rs.storage + Len(e.rs.buffer) <= d.high /\ d.high <= g.high
    BY Zenon DEF EntryTrue, Further
  <1>2. e.rs.storage \in Nat /\ Len(e.rs.buffer) \in Nat
    BY <1>1, ReassemblyInts, Zenon
  <1>3. e.rs.storage + Len(e.rs.buffer) <= g.high
    BY ONLY <1>1, <1>2, d.high \in Int, g.high \in Int
  <1> QED
    BY <1>3, Zenon DEF EntryTrue, Further

\* A stream the receiver hears of.
LEMMA NewEntryTrue ==
    ASSUME NEW d, d.high \in Nat
    PROVE  EntryTrue(NewRecvEntry, d) /\ ~NewRecvEntry.released
  <1>1. /\ NewRecvEntry.rs = NewRecvState /\ ~NewRecvEntry.released
        /\ {"reset", "answered", "released"} \subseteq DOMAIN NewRecvEntry
    BY DEF NewRecvEntry
  <1>2. NewRecvState.storage + Len(NewRecvState.buffer) <= d.high /\ NewRecvState.final = NoSize
    <2>1. NewRecvState.storage = 0 /\ NewRecvState.buffer = <<>> /\ NewRecvState.final = NoSize
      BY DEF NewRecvState
    <2>2. Len(<<>>) = 0
      OBVIOUS
    <2> QED
      BY <2>1, <2>2
  <1> QED
    BY <1>1, <1>2, NewReassembles, Zenon DEF EntryTrue

\* A STREAM frame carries only what was written on its stream.
Fits(f, d) ==
    f.type = "stream" => f \in SendFrames /\ f.to <= d.high /\ (f.fin => f.to = d.final)

\* The STREAM case of applyReceivedFramesForDestination, and receiveResetStream.
LEMMA AppliedEntryTrue ==
    ASSUME NEW d, d.high \in Int, NEW e, EntryTrue(e, d), NEW f, Fits(f, d),
           NEW g, DOMAIN g = DOMAIN e, g.answered = e.answered, g.released = e.released,
           g.rs = IF f.type = "stream" THEN InsertTracked(e.rs, f) ELSE e.rs,
           e.reset => g.reset
    PROVE  EntryTrue(g, d)
  <1> DEFINE rs == IF f.type = "stream" THEN InsertTracked(e.rs, f) ELSE e.rs
  <1>1. f.type = "stream" => f \in SendFrames /\ f.to <= d.high /\ (f.fin => f.to = d.final)
    BY Zenon DEF Fits
  <1>2. g.rs = rs
    BY Zenon
  <1>3. /\ Reassembles(e.rs) /\ e.rs.storage + Len(e.rs.buffer) <= d.high
        /\ e.rs.final # NoSize => e.rs.final = d.final
    BY Zenon DEF EntryTrue
  <1>4. /\ Reassembles(rs) /\ rs.storage + Len(rs.buffer) <= d.high
        /\ rs.final # NoSize => rs.final = d.final
        /\ Complete(e.rs) => Complete(rs)
    <2>1. CASE f.type = "stream"
      <3>1. /\ Reassembles(rs) /\ MovesOn(e.rs, rs)
            /\ rs.final = IF f.fin THEN f.to ELSE e.rs.final
            /\ \/ rs.storage + Len(rs.buffer) = e.rs.storage + Len(e.rs.buffer)
               \/ rs.storage + Len(rs.buffer) = f.to
        BY <1>1, <1>3, <2>1, InsertReassembles, Zenon
      <3>2. rs.storage + Len(rs.buffer) <= d.high
        BY <1>1, <1>3, <2>1, <3>1, Zenon
      <3>3. f.fin => f.to = d.final
        BY <1>1, <2>1, Zenon
      <3> HIDE DEF rs
      <3>4. rs.final # NoSize => rs.final = d.final
        BY <1>3, <3>1, <3>3, Zenon
      <3>5. ASSUME Complete(e.rs) PROVE Complete(rs)
        <4>1. e.rs.final = d.final
          BY <1>3, <3>5, Zenon DEF Complete
        <4>2. rs.final = e.rs.final
          BY <3>1, <3>3, <4>1, Zenon
        <4> QED
          BY <1>3, <3>1, <3>5, <4>2, StaysComplete, Zenon
      <3> QED
        BY <3>1, <3>2, <3>4, <3>5, Zenon
    <2>2. CASE f.type # "stream"
      BY <1>3, <2>2, Zenon
    <2> QED
      BY <2>1, <2>2, Zenon
  <1> HIDE DEF rs
  <1>5. e.released => g.answered /\ Ended(g)
    BY <1>2, <1>4, Zenon DEF EntryTrue, Ended
  <1> QED
    BY <1>2, <1>4, <1>5, Zenon DEF EntryTrue

\* The streams that may be open: those admitted whose slot has not been returned.
Unreturned(y) ==
    {s \in 1 .. y.maxStreams : s \notin Known(y.streams) \/ ~y.streams[s].released}

\* releaseCompletedPeerStream admits a stream only for one that ended.
Slots(y) ==
    /\ y.maxStreams \in Nat /\ Known(y.streams) \subseteq 1 .. y.maxStreams
    /\ Cardinality(Unreturned(y)) <= InitialMaxStreams

\* There are finitely many.
LEMMA UnreturnedFinite ==
    ASSUME NEW y, y.maxStreams \in Nat
    PROVE  IsFiniteSet(Unreturned(y)) /\ Cardinality(Unreturned(y)) \in Nat
  <1>1. IsFiniteSet(1 .. y.maxStreams)
    BY FS_Interval
  <1>2. Unreturned(y) \subseteq 1 .. y.maxStreams
    BY Zenon DEF Unreturned
  <1> QED
    BY <1>1, <1>2, FS_Subset, FS_CardinalityType, Zenon

\* What returns no slot: a stream that comes into use had one already.
LEMMA SlotsKept ==
    ASSUME NEW x, Slots(x), NEW y, y.maxStreams = x.maxStreams,
           Known(x.streams) \subseteq Known(y.streams),
           Known(y.streams) \subseteq 1 .. x.maxStreams,
           \A s \in Known(x.streams) : y.streams[s].released = x.streams[s].released,
           \A s \in Known(y.streams) \ Known(x.streams) : ~y.streams[s].released
    PROVE  Slots(y)
  <1>1. Unreturned(y) = Unreturned(x)
    BY Zenon DEF Unreturned
  <1> QED
    BY <1>1, Zenon DEF Slots

\* releaseCompletedPeerStream: one slot for one stream.
LEMMA SlotReturned ==
    ASSUME NEW x, Slots(x), NEW s \in Known(x.streams), ~x.streams[s].released,
           NEW y, Known(y.streams) = Known(x.streams), y.streams[s].released,
           \A t \in Known(x.streams) \ {s} : y.streams[t].released = x.streams[t].released,
           y.maxStreams \in {x.maxStreams, x.maxStreams + 1}
    PROVE  Slots(y)
  <1> DEFINE m == x.maxStreams
             U == Unreturned(x)
  <1>1. m \in Nat /\ Cardinality(U) <= InitialMaxStreams /\ Known(x.streams) \subseteq 1 .. m
    BY Zenon DEF Slots
  <1>2. IsFiniteSet(U) /\ Cardinality(U) \in Nat /\ s \in U
    BY <1>1, UnreturnedFinite, Zenon DEF Unreturned
  <1>3. InitialMaxStreams \in Int
    BY StreamsBounds
  <1>4. Cardinality(U \ {s}) = Cardinality(U) - 1 /\ IsFiniteSet(U \ {s})
    BY <1>2, FS_RemoveElement, Zenon
  <1> HIDE DEF U
  <1>5. CASE y.maxStreams = m
    <2>1. Unreturned(y) = U \ {s}
      BY <1>1, <1>5, Zenon DEF Unreturned, U
    <2>2. Cardinality(U \ {s}) <= InitialMaxStreams
      BY ONLY <1>1, <1>2, <1>3, <1>4
    <2> QED
      BY <1>1, <1>5, <2>1, <2>2, Zenon DEF Slots
  <1>6. CASE y.maxStreams = m + 1
    <2>1. /\ 1 .. m + 1 = (1 .. m) \cup {m + 1} /\ m + 1 \notin 1 .. m /\ m + 1 \in Nat
      BY ONLY <1>1
    <2> HIDE DEF m
    <2>2. Unreturned(y) \subseteq (U \ {s}) \cup {m + 1}
      <3> SUFFICES ASSUME NEW t \in 1 .. m + 1, t # m + 1,
                          t \notin Known(y.streams) \/ ~y.streams[t].released
                   PROVE  t \in U \ {s}
        BY <1>6, Zenon DEF Unreturned
      <3>1. t \in 1 .. m
        BY <2>1, Zenon
      <3>2. t \in Unreturned(x)
        BY <1>1, <3>1, Zenon DEF Unreturned, m
      <3>3. t # s
        BY <1>1, Zenon
      <3> QED
        BY <3>2, <3>3, Zenon DEF U
    <2>3. m + 1 \notin U \ {s}
      BY <2>1, Zenon DEF Unreturned, U, m
    <2>a. ASSUME NEW A, IsFiniteSet(A), NEW z, z \notin A
          PROVE  Cardinality(A \cup {z}) = Cardinality(A) + 1 /\ IsFiniteSet(A \cup {z})
      BY <2>a, FS_AddElement, Zenon
    <2>4. /\ Cardinality((U \ {s}) \cup {m + 1}) = Cardinality(U \ {s}) + 1
          /\ IsFiniteSet((U \ {s}) \cup {m + 1})
      BY <1>4, <2>3, <2>a, Zenon
    <2>5. Cardinality(Unreturned(y)) <= Cardinality((U \ {s}) \cup {m + 1})
      BY <2>2, <2>4, FS_Subset, Zenon
    <2>6. Cardinality(Unreturned(y)) \in Nat
      BY <1>6, <2>1, UnreturnedFinite, Zenon
    <2>7. Cardinality(Unreturned(y)) <= InitialMaxStreams
      <3> DEFINE a == Cardinality(Unreturned(y))
                 b == Cardinality((U \ {s}) \cup {m + 1})
                 c == Cardinality(U \ {s})
                 k == Cardinality(U)
      <3>1. a \in Nat /\ a <= b /\ b = c + 1 /\ c = k - 1 /\ k \in Nat /\ k <= InitialMaxStreams
        BY <1>1, <1>2, <1>4, <2>4, <2>5, <2>6, Zenon
      <3> HIDE DEF a, b, c, k
      <3>2. a <= InitialMaxStreams
        BY ONLY <3>1, <1>3
      <3> QED
        BY <3>2, Zenon DEF a
    <2>8. Known(y.streams) \subseteq 1 .. m + 1
      BY <1>1, <2>1, Zenon
    <2> QED
      BY <1>6, <2>1, <2>7, <2>8, Zenon DEF Slots
  <1> QED
    BY <1>5, <1>6, Zenon

\* A frame without an error has none of them.
LEMMA NoErrorAtAll ==
    ASSUME NEW errors, DOMAIN errors \subseteq Nat, FirstError(errors) = Fine
    PROVE  \A i \in DOMAIN errors : errors[i] = Fine
  <1> DEFINE bad == {i \in DOMAIN errors : errors[i] # Fine}
  <1>1. bad # {} => Min(bad) \in bad
    <2>1. bad \in SUBSET Nat
      BY Zenon
    <2> QED
      BY <2>1, LeastMember, Zenon
  <1>2. bad # {} => FirstError(errors) = errors[Min(bad)]
    BY Zenon DEF FirstError
  <1> QED
    BY <1>1, <1>2, Zenon

\* A new stream is one that was admitted (validateStreamLimit).
LEMMA AdmittedOnly ==
    ASSUME NEW x, NEW f, ApplyError(x, f) = Fine
    PROVE  f.s \in Known(x.streams) \/ ~(f.s > x.maxStreams)
  <1> SUFFICES ASSUME f.s \notin Known(x.streams), f.s > x.maxStreams PROVE FALSE
    BY Zenon
  <1>1. PICK a, b, c, d :
            ApplyError(x, f) = FirstError(<<
                ErrorIf(f.s \notin Known(x.streams) /\ f.s > x.maxStreams, "StreamLimitExceeded"),
                a, b, c, d>>)
    BY Zenon DEF ApplyError
  <1> DEFINE first == ErrorIf(f.s \notin Known(x.streams) /\ f.s > x.maxStreams, "StreamLimitExceeded")
             errors == <<first, a, b, c, d>>
  <1>2. first = "StreamLimitExceeded"
    BY Zenon DEF ErrorIf
  <1> HIDE DEF first
  <1>3. DOMAIN errors = 1 .. 5 /\ errors[1] = first /\ 1 \in 1 .. 5 /\ 1 .. 5 \subseteq Nat
    OBVIOUS
  <1>4. FirstError(errors) = Fine
    BY <1>1, Zenon DEF first
  <1> HIDE DEF errors
  <1>5. errors[1] = Fine
    BY <1>3, <1>4, NoErrorAtAll, Zenon
  <1> QED
    BY <1>2, <1>3, <1>5 DEF Fine

\* The receiver, against what the sender wrote.
ReceiverTrue(y, x) ==
    /\ Known(y.streams) \subseteq Known(x.streams)
    /\ \A s \in Known(y.streams) : EntryTrue(y.streams[s], x.streams[s])
    /\ Slots(y)

\* One frame that has no error.
LEMMA ApplyToStreamTrue ==
    ASSUME NEW x, IsSender(x), Sound(x), NEW y, IsReceiver(y), ReceiverTrue(y, x),
           NEW f, FrameOK(f, x), FrameTrue(f, x), f.type # "streams_blocked",
           ApplyError(y, f) = Fine
    PROVE  ReceiverTrue(ApplyToStream(y, f), x)
  <1> DEFINE e == IF f.s \in Known(y.streams) THEN y.streams[f.s] ELSE NewRecvEntry
             size == IF f.type = "stream" THEN f.to ELSE f.size
             final == f.type = "reset" \/ f.fin
             fresh == NewBytes(e, f)
             g == [e EXCEPT !.final = IF @ = NoSize /\ final THEN size ELSE @,
                            !.flow = NoteReceived(@, size),
                            !.rs = IF f.type = "stream" THEN InsertTracked(@, f) ELSE @,
                            !.high = Most(@, size),
                            !.reset = @ \/ f.type = "reset"]
             z == ApplyToStream(y, f)
             d == x.streams[f.s]
  <1>1. /\ f.s \in Known(x.streams) /\ f.s \in Streams /\ d.high \in Nat
        /\ f.type = "stream" => f \in SendFrames /\ f.to <= d.high /\ (f.fin => f.to = d.final)
    BY Zenon DEF FrameOK, FrameTrue, Sound, IsSender
  <1>2. d.high \in Int
    BY <1>1
  <1>3. /\ IsRecvEntry(e) /\ EntryTrue(e, d)
        /\ f.s \notin Known(y.streams) => ~e.released
    <2> HIDE DEF d
    <2>1. CASE f.s \in Known(y.streams)
      BY <2>1, Zenon DEF ReceiverTrue, IsReceiver, d
    <2>2. CASE f.s \notin Known(y.streams)
      BY <1>1, <2>2, NewRecvEntryOK, NewEntryTrue, Zenon
    <2> QED
      BY <2>1, <2>2, Zenon
  <1>4. f.s \in Known(y.streams) => e = y.streams[f.s]
    BY Zenon
  <1>5. z = [y EXCEPT !.total = y.total + fresh,
                      !.flow = NoteReceived(y.flow, y.total + fresh),
                      !.streams = Put(y.streams, f.s, g)]
    BY DEF ApplyToStream, Zenon
  <1> HIDE DEF e, size, final, fresh, d
  <1>6. EntryTrue(g, d) /\ g.released = e.released
    <2>1. /\ e = [k \in DOMAIN e |-> e[k]]
          /\ {"flow", "rs", "final", "reset", "answered", "released"} \subseteq DOMAIN e
      BY <1>3, Zenon DEF IsRecvEntry, EntryTrue
    <2>2. /\ DOMAIN g = DOMAIN e /\ g.answered = e.answered /\ g.released = e.released
          /\ g.rs = IF f.type = "stream" THEN InsertTracked(e.rs, f) ELSE e.rs
          /\ e.reset => g.reset
      BY <2>1, Zenon
    <2> HIDE DEF g
    <2>3. Fits(f, d)
      BY <1>1, Zenon DEF Fits
    <2> QED
      BY <1>2, <1>3, <2>2, <2>3, AppliedEntryTrue, Zenon
  <1> HIDE DEF g, z
  <1>7. /\ Known(z.streams) = Known(y.streams) \cup {f.s} /\ z.maxStreams = y.maxStreams
        /\ \A t \in Known(z.streams) : z.streams[t] = IF t = f.s THEN g ELSE y.streams[t]
    BY <1>5, Zenon DEF Put, Known, IsReceiver
  <1>8. f.s \in 1 .. y.maxStreams /\ Known(y.streams) \subseteq 1 .. y.maxStreams
    <2>1. Known(y.streams) \subseteq 1 .. y.maxStreams /\ y.maxStreams \in Nat
      BY Zenon DEF ReceiverTrue, Slots
    <2>2. f.s \in Nat /\ f.s >= 1
      BY <1>1, StreamsBounds DEF Streams
    <2>3. ~(f.s > y.maxStreams) => f.s \in 1 .. y.maxStreams
      BY ONLY <2>1, <2>2
    <2> QED
      BY <2>1, <2>3, AdmittedOnly, Zenon
  <1>9. Slots(z)
    <2>1. Known(y.streams) \subseteq Known(z.streams) /\ Known(z.streams) \subseteq 1 .. y.maxStreams
      BY <1>7, <1>8, Zenon
    <2>2. \A s \in Known(y.streams) : z.streams[s].released = y.streams[s].released
      BY <1>4, <1>6, <1>7, Zenon
    <2>3. \A s \in Known(z.streams) \ Known(y.streams) : ~z.streams[s].released
      BY <1>3, <1>6, <1>7, Zenon
    <2>4. Slots(y)
      BY Zenon DEF ReceiverTrue
    <2> QED
      BY <1>7, <2>1, <2>2, <2>3, <2>4, SlotsKept, Zenon
  <1>10. /\ Known(z.streams) \subseteq Known(x.streams)
         /\ \A s \in Known(z.streams) : EntryTrue(z.streams[s], x.streams[s])
    BY <1>1, <1>6, <1>7, Zenon DEF ReceiverTrue, d
  <1>11. ReceiverTrue(z, x)
    BY <1>9, <1>10, Zenon DEF ReceiverTrue
  <1> QED
    BY <1>11, Zenon DEF z

\* One frame of a packet.
LEMMA ApplyFrameTrue ==
    ASSUME NEW x, IsSender(x), Sound(x), NEW acc, IsReceiver(acc.rcv), ReceiverTrue(acc.rcv, x),
           NEW f, FrameOK(f, x), FrameTrue(f, x)
    PROVE  IsReceiver(ApplyFrame(acc, f).rcv) /\ ReceiverTrue(ApplyFrame(acc, f).rcv, x)
  <1>1. IsReceiver(ApplyFrame(acc, f).rcv)
    BY ApplyFrameGrows, Zenon DEF Grows
  <1>2. \/ ApplyFrame(acc, f).rcv = acc.rcv
        \/ /\ f.type # "streams_blocked" /\ ApplyError(acc.rcv, f) = Fine
           /\ ApplyFrame(acc, f).rcv = ApplyToStream(acc.rcv, f)
    BY Zenon DEF ApplyFrame
  <1> QED
    BY <1>1, <1>2, ApplyToStreamTrue, Zenon

\* applyReceivedFramesForDestinationOrClose of a packet that is accepted.
LEMMA AcceptTrue ==
    ASSUME IsSender(snd), Sound(snd), IsReceiver(rcv), ReceiverTrue(rcv, snd),
           NEW packet, PacketOK(packet, snd), PacketTrue(packet, snd), Accept(packet)
    PROVE  ReceiverTrue(rcv', snd)
  <1> DEFINE start == [error |-> Fine, rcv |-> rcv]
  <1>1. \E result \in Outcomes(ApplyFrame, start, packet) : rcv' = result.rcv
    BY Zenon DEF Accept, Applied
  <1>2. start.rcv = rcv
    BY Zenon
  <1> HIDE DEF start
  <1>3. ASSUME NEW f, packet = <<f>>, FrameOK(f, snd)
        PROVE  ReceiverTrue(rcv', snd)
    <2>1. rcv' = ApplyFrame(start, f).rcv
      BY <1>1, <1>3, Zenon DEF Outcomes
    <2>2. FrameTrue(f, snd)
      BY <1>3 DEF PacketTrue
    <2> QED
      BY <1>2, <1>3, <2>1, <2>2, ApplyFrameTrue, Zenon
  <1>4. ASSUME NEW f, NEW g, packet = <<f, g>>, FrameOK(f, snd), FrameOK(g, snd)
        PROVE  ReceiverTrue(rcv', snd)
    <2> DEFINE next == ApplyFrame(start, f)
    <2>1. rcv' = ApplyFrame(next, g).rcv
      BY <1>1, <1>4 DEF Outcomes
    <2>2. FrameTrue(f, snd) /\ FrameTrue(g, snd)
      BY <1>4 DEF PacketTrue
    <2>3. IsReceiver(next.rcv) /\ ReceiverTrue(next.rcv, snd)
      BY <1>2, <1>4, <2>2, ApplyFrameTrue, Zenon
    <2> HIDE DEF next
    <2> QED
      BY <1>4, <2>1, <2>2, <2>3, ApplyFrameTrue, Zenon
  <1> QED
    BY <1>3, <1>4, Zenon DEF PacketOK

\* A stream's entry is replaced by one that still holds the truth, its slot kept.
LEMMA UpdatedTrue ==
    ASSUME NEW x, NEW y, IsReceiver(y), ReceiverTrue(y, x), NEW s \in Known(y.streams), NEW e,
           EntryTrue(e, x.streams[s]), e.released = y.streams[s].released,
           NEW z, z.maxStreams = y.maxStreams, z.streams = [y.streams EXCEPT ![s] = e]
    PROVE  ReceiverTrue(z, x)
  <1>1. /\ Known(z.streams) = Known(y.streams)
        /\ \A t \in Known(y.streams) : z.streams[t] = IF t = s THEN e ELSE y.streams[t]
    BY Zenon DEF IsReceiver, Known
  <1>2. \A t \in Known(y.streams) : /\ z.streams[t].released = y.streams[t].released
                                    /\ EntryTrue(z.streams[t], x.streams[t])
    BY <1>1, Zenon DEF ReceiverTrue
  <1>3. Slots(y) /\ Known(y.streams) \subseteq 1 .. y.maxStreams
    BY Zenon DEF ReceiverTrue, Slots
  <1>4. Slots(z)
    BY <1>1, <1>2, <1>3, SlotsKept, Zenon
  <1> QED
    BY <1>1, <1>2, <1>4, Zenon DEF ReceiverTrue

\* releaseReceivedCapacity.
LEMMA ReleaseReceivedCapacityTrue ==
    ASSUME IsReceiver(rcv), ReceiverTrue(rcv, snd), NEW s \in Known(rcv.streams),
           NEW n \in 1 .. MaxRead, ReleaseReceivedCapacity(s, n)
    PROVE  ReceiverTrue(rcv', snd)
  <1> DEFINE old == rcv.streams[s]
             rs == Consume(old.rs, n)
             e == [old EXCEPT !.flow = ReturnCredit(old.flow, n), !.rs = rs]
             y == [flow |-> ReturnCredit(rcv.flow, n), total |-> rcv.total,
                   maxStreams |-> rcv.maxStreams, streams |-> [rcv.streams EXCEPT ![s] = e]]
  <1>0. n \in Nat /\ n <= Len(AvailableBytes(old.rs))
    BY StreamsBounds DEF ReleaseReceivedCapacity
  <1>1. IsRecvEntry(old) /\ EntryTrue(old, snd.streams[s])
    BY Zenon DEF IsReceiver, ReceiverTrue
  <1>2. CASE rcv' = rcv
    BY <1>2, Zenon
  <1>3. CASE rcv' = [Returned(rcv, s, n) EXCEPT !.streams[s].rs = Consume(@, n)]
    <2>1. rcv' = y
      BY <1>1, <1>3, Zenon DEF Returned, IsReceiver, IsRecvEntry
    <2>2. Reassembles(old.rs)
      BY <1>1, Zenon DEF EntryTrue
    <2>3. /\ Reassembles(rs) /\ MovesOn(old.rs, rs) /\ rs.final = old.rs.final
          /\ rs.storage + Len(rs.buffer) = old.rs.storage + Len(old.rs.buffer)
      BY <1>0, <2>2, ConsumeReassembles, Zenon
    <2> HIDE DEF rs
    <2>4. Complete(old.rs) => Complete(rs)
      BY <2>2, <2>3, StaysComplete, Zenon
    <2>5. /\ DOMAIN e = DOMAIN old /\ e.rs = rs /\ e.reset = old.reset
          /\ e.answered = old.answered /\ e.released = old.released
      BY <1>1, Zenon DEF IsRecvEntry, EntryTrue
    <2> HIDE DEF e
    <2>6. EntryTrue(e, snd.streams[s])
      BY <1>1, <2>3, <2>4, <2>5, Zenon DEF EntryTrue, Ended
    <2>7. y.maxStreams = rcv.maxStreams /\ y.streams = [rcv.streams EXCEPT ![s] = e]
      BY Zenon
    <2> HIDE DEF y
    <2>8. ReceiverTrue(y, snd)
      BY <2>5, <2>6, <2>7, UpdatedTrue, Zenon
    <2> QED
      BY <2>1, <2>8, Zenon
  <1> QED
    BY <1>2, <1>3, Zenon DEF ReleaseReceivedCapacity

\* sendStopSending, the receiver's own half, and releaseCompletedPeerStream.
LEMMA EndOfStreamTrue ==
    ASSUME IsReceiver(rcv), ReceiverTrue(rcv, snd), NEW s \in Known(rcv.streams),
           SendStopSending(s) \/ Answer(s) \/ ReleaseCompletedPeerStream(s)
    PROVE  ReceiverTrue(rcv', snd)
  <1> DEFINE old == rcv.streams[s]
             stopped == [old EXCEPT !.stopSent = TRUE]
             answered == [old EXCEPT !.answered = TRUE]
             released == [old EXCEPT !.released = TRUE]
  <1>1. /\ old = [k \in DOMAIN old |-> old[k]] /\ "rs" \in DOMAIN old
        /\ EntryTrue(old, snd.streams[s]) /\ {"reset", "answered", "released"} \subseteq DOMAIN old
    BY Zenon DEF IsReceiver, IsRecvEntry, ReceiverTrue, EntryTrue
  <1>2. /\ DOMAIN stopped = DOMAIN old /\ stopped.rs = old.rs /\ stopped.reset = old.reset
        /\ stopped.answered = old.answered /\ stopped.released = old.released
    BY <1>1, Zenon
  <1>3. /\ DOMAIN answered = DOMAIN old /\ answered.rs = old.rs /\ answered.reset = old.reset
        /\ answered.answered /\ answered.released = old.released
    BY <1>1, Zenon
  <1>4. /\ DOMAIN released = DOMAIN old /\ released.rs = old.rs /\ released.reset = old.reset
        /\ released.answered = old.answered /\ released.released
    BY <1>1, Zenon
  <1>5. /\ SendStopSending(s) => /\ rcv'.streams = [rcv.streams EXCEPT ![s] = stopped]
                                 /\ rcv'.maxStreams = rcv.maxStreams
        /\ Answer(s) => /\ rcv'.streams = [rcv.streams EXCEPT ![s] = answered]
                        /\ rcv'.maxStreams = rcv.maxStreams
    BY Zenon DEF SendStopSending, Answer, IsReceiver
  <1>6. ReleaseCompletedPeerStream(s) =>
            /\ rcv'.streams = [rcv.streams EXCEPT ![s] = released]
            /\ rcv'.maxStreams \in {rcv.maxStreams, rcv.maxStreams + 1}
            /\ ~old.released /\ old.answered /\ Ended(old)
    BY Zenon DEF ReleaseCompletedPeerStream, IsReceiver
  <1> HIDE DEF stopped, answered, released
  <1>7. CASE SendStopSending(s)
    <2>1. EntryTrue(stopped, snd.streams[s])
      BY <1>1, <1>2, Zenon DEF EntryTrue, Ended
    <2> QED
      BY <1>2, <1>5, <1>7, <2>1, UpdatedTrue, Zenon
  <1>8. CASE Answer(s)
    <2>1. EntryTrue(answered, snd.streams[s])
      BY <1>1, <1>3, Zenon DEF EntryTrue, Ended
    <2> QED
      BY <1>3, <1>5, <1>8, <2>1, UpdatedTrue, Zenon
  <1>9. CASE ReleaseCompletedPeerStream(s)
    <2>1. EntryTrue(released, snd.streams[s])
      BY <1>1, <1>4, <1>6, <1>9, Zenon DEF EntryTrue, Ended
    <2>2. /\ Known(rcv'.streams) = Known(rcv.streams)
          /\ \A t \in Known(rcv.streams) : rcv'.streams[t] = IF t = s THEN released ELSE rcv.streams[t]
      BY <1>6, <1>9, Zenon DEF IsReceiver, Known
    <2>3. Slots(rcv')
      <3>1. /\ Slots(rcv) /\ ~rcv.streams[s].released /\ rcv'.streams[s].released
            /\ \A t \in Known(rcv.streams) \ {s} : rcv'.streams[t].released = rcv.streams[t].released
        BY <1>4, <1>6, <1>9, <2>2, Zenon DEF ReceiverTrue
      <3> QED
        BY <1>6, <1>9, <2>2, <3>1, SlotReturned, Zenon
    <2> QED
      BY <2>1, <2>2, <2>3, Zenon DEF ReceiverTrue
  <1> QED
    BY <1>7, <1>8, <1>9, Zenon

-----------------------------------------------------------------------------
(* The two together.                                                       *)

\* The inductive invariant: no packet in the network, however old, carries a byte that
\* was not written or an end that was not set, so neither does any buffer.
DeliveryInv ==
    /\ StreamsInv /\ Sound(snd)
    /\ \A packet \in toReceiver : PacketTrue(packet, snd)
    /\ ReceiverTrue(rcv, snd)

\* A connection starts without streams, all its slots free.
LEMMA DeliveryInit == StreamsInit => DeliveryInv
  <1> SUFFICES ASSUME StreamsInit PROVE DeliveryInv
    BY Zenon
  <1>1. /\ snd.streams = <<>> /\ rcv.streams = <<>> /\ rcv.maxStreams = InitialMaxStreams
        /\ toReceiver = {}
    BY Zenon DEF StreamsInit
  <1>2. Known(snd.streams) = {} /\ Known(rcv.streams) = {}
    BY <1>1 DEF Known
  <1>3. InitialMaxStreams \in Nat
    BY StreamsBounds
  <1>4. Cardinality(1 .. InitialMaxStreams) <= InitialMaxStreams
    <2>1. Cardinality(1 .. InitialMaxStreams)
            = IF 1 > InitialMaxStreams THEN 0 ELSE InitialMaxStreams - 1 + 1
      BY <1>3, FS_Interval
    <2> QED
      BY ONLY <1>3, <2>1
  <1>5. Unreturned(rcv) = 1 .. InitialMaxStreams
    BY <1>1, <1>2, Zenon DEF Unreturned
  <1>6. Slots(rcv)
    BY <1>1, <1>2, <1>3, <1>4, <1>5, Zenon DEF Slots
  <1> QED
    BY <1>1, <1>2, <1>6, StreamsInitInv, Zenon DEF DeliveryInv, Sound, ReceiverTrue

\* A step of the sender's own.
LEMMA SenderGoesOnInv ==
    ASSUME DeliveryInv, StreamsInv', SenderGoesOn, rcv' = rcv
    PROVE  DeliveryInv'
  <1>1. /\ IsSender(snd) /\ IsSender(snd') /\ Onward(snd, snd') /\ Sound(snd')
        /\ ReceiverTrue(rcv, snd)
    BY Zenon DEF DeliveryInv, StreamsInv, SenderGoesOn, Onward
  <1>2. ASSUME NEW packet \in toReceiver PROVE PacketTrue(packet, snd')
    <2>1. PacketOK(packet, snd) /\ PacketTrue(packet, snd)
      BY Zenon DEF DeliveryInv, StreamsInv
    <2>2. \A i \in DOMAIN packet : FrameOK(packet[i], snd)
      BY <2>1 DEF PacketOK
    <2>3. ASSUME NEW i \in DOMAIN packet PROVE FrameTrue(packet[i], snd')
      <3>1. packet[i].type = "stream" => packet[i].s \in Known(snd.streams)
        BY <2>2 DEF FrameOK
      <3>2. FrameTrue(packet[i], snd)
        BY <2>1, Zenon DEF PacketTrue
      <3> QED
        BY <1>1, <3>1, <3>2, FrameStaysTrue, Zenon
    <2> QED
      BY <2>3, Zenon DEF PacketTrue
  <1>3. \A packet \in toReceiver' : PacketTrue(packet, snd')
    BY <1>2, Zenon DEF SenderGoesOn
  <1>4. ASSUME NEW s \in Known(rcv.streams) PROVE EntryTrue(rcv.streams[s], snd'.streams[s])
    <2>1. /\ s \in Known(snd.streams) /\ s \in Known(snd'.streams)
          /\ Further(snd.streams[s], snd'.streams[s]) /\ EntryTrue(rcv.streams[s], snd.streams[s])
      BY <1>1, Zenon DEF ReceiverTrue, Onward
    <2>2. snd.streams[s].high \in Int /\ snd'.streams[s].high \in Int
      BY <1>1, <2>1, ExtentsAreInts, Zenon
    <2> QED
      BY <2>1, <2>2, EntryStaysTrue, Zenon
  <1>5. ReceiverTrue(rcv, snd')
    BY <1>1, <1>4, Zenon DEF ReceiverTrue, Onward
  <1> QED
    BY <1>1, <1>3, <1>5, Zenon DEF DeliveryInv

\* Every step keeps what the buffers, the packets and the slots promise.
LEMMA DeliveryStep ==
    ASSUME DeliveryInv, StreamsNext
    PROVE  DeliveryInv'
  <1>0. /\ StreamsInv /\ Sound(snd) /\ IsSender(snd) /\ IsReceiver(rcv) /\ ReceiverTrue(rcv, snd)
    BY Zenon DEF DeliveryInv, StreamsInv
  <1>1. StreamsInv'
    BY <1>0, StreamsStep, Zenon
  <1>2. ASSUME SenderGoesOn, rcv' = rcv PROVE DeliveryInv'
    BY <1>1, <1>2, SenderGoesOnInv, Zenon
  <1>3. ASSUME ReceiverTrue(rcv', snd), snd' = snd, toReceiver' = toReceiver PROVE DeliveryInv'
    BY <1>1, <1>3, Zenon DEF DeliveryInv
  <1>4. ASSUME NEW packet \in Writes, Write(packet) \/ BlockedByCredit(packet)
        PROVE  DeliveryInv'
    <2>1. rcv' = rcv
      BY <1>4, Zenon DEF Write, BlockedByCredit
    <2> QED
      BY <1>0, <1>2, <1>4, <2>1, WriteOnward, BlockedOnward, Zenon
  <1>5. CASE BlockedByCount \/ OpenLocalStream
    <2>1. rcv' = rcv
      BY <1>5, Zenon DEF BlockedByCount, OpenLocalStream
    <2> QED
      BY <1>0, <1>2, <1>5, <2>1, BlockedOnward, Zenon
  <1>6. ASSUME NEW s \in Abandonable, ResetStream(s)
        PROVE  DeliveryInv'
    <2>1. s \in Streams
      BY StreamsBounds, Zenon DEF Streams
    <2>2. /\ IsSender(WithSendEntry(snd, s)) /\ s \in Known(WithSendEntry(snd, s).streams)
          /\ Onward(snd, WithSendEntry(snd, s))
      BY <1>0, <2>1, WithSendEntryKeeps, WithSendEntryOnward, Zenon DEF Kept
    <2>3. SendReset(WithSendEntry(snd, s), s) /\ rcv' = rcv
      BY <1>6, Zenon DEF ResetStream
    <2> QED
      BY <1>0, <1>2, <2>2, <2>3, SendResetOnward, Zenon
  <1>7. ASSUME NEW packet \in toSender, ReceiveLimits(packet) \/ ReceiveStopSending(packet)
        PROVE  DeliveryInv'
    <2>1. rcv' = rcv
      BY <1>7, Zenon DEF ReceiveLimits, ReceiveStopSending
    <2> QED
      BY <1>0, <1>2, <1>7, <2>1, AdvertsOnward, Zenon
  <1>8. ASSUME NEW packet \in toReceiver, Accept(packet)
        PROVE  DeliveryInv'
    <2>1. PacketOK(packet, snd) /\ PacketTrue(packet, snd)
      BY Zenon DEF DeliveryInv, StreamsInv
    <2>2. snd' = snd /\ toReceiver' = toReceiver
      BY <1>8, Zenon DEF Accept
    <2> QED
      BY <1>0, <1>3, <1>8, <2>1, <2>2, AcceptTrue, Zenon
  <1>9. ASSUME NEW packet \in toReceiver,
               (\E error : Refuse(error)) \/ ReceiveStreamsBlocked(packet)
        PROVE  DeliveryInv'
    <2>1. UNCHANGED <<snd, rcv, toReceiver>>
      BY <1>9, Zenon DEF Refuse, ReceiveStreamsBlocked
    <2> QED
      BY <1>0, <1>3, <2>1, Zenon
  <1>10. ASSUME NEW s \in Known(rcv.streams), NEW n \in 1 .. MaxRead, ReleaseReceivedCapacity(s, n)
         PROVE  DeliveryInv'
    <2>1. snd' = snd /\ toReceiver' = toReceiver
      BY <1>10, Zenon DEF ReleaseReceivedCapacity
    <2> QED
      BY <1>0, <1>3, <1>10, <2>1, ReleaseReceivedCapacityTrue, Zenon
  <1>11. ASSUME NEW s \in Known(rcv.streams),
                SendStopSending(s) \/ Answer(s) \/ ReleaseCompletedPeerStream(s)
         PROVE  DeliveryInv'
    <2>1. snd' = snd /\ toReceiver' = toReceiver
      BY <1>11, Zenon DEF SendStopSending, Answer, ReleaseCompletedPeerStream
    <2> QED
      BY <1>0, <1>3, <1>11, <2>1, EndOfStreamTrue, Zenon
  <1>12. ASSUME NEW packet \in toReceiver, ReceiveFrames(packet)
         PROVE  Accept(packet) \/ \E error : Refuse(error)
    BY <1>12, Zenon DEF ReceiveFrames
  <1> QED
    BY <1>4, <1>5, <1>6, <1>7, <1>8, <1>9, <1>10, <1>11, <1>12, Zenon DEF StreamsNext

\* The inductive invariant of reassembly and of the stream slots holds in every
\* reachable state (RecvState, noteSentStreams, releaseCompletedPeerStream).
THEOREM DeliveryInvariance == StreamsSpec => []DeliveryInv
  <1>1. DeliveryInv /\ UNCHANGED streamVars => DeliveryInv'
    BY Zenon DEF DeliveryInv, StreamsInv, streamVars
  <1>2. DeliveryInv /\ [StreamsNext]_streamVars => DeliveryInv'
    BY <1>1, DeliveryStep, Zenon
  <1> QED
    BY <1>2, DeliveryInit, PTL DEF StreamsSpec

\* Whatever the network repeats, delays and reorders, RecvState.available hands out
\* the stream's next bytes in order, and a stream that counts as complete was read
\* to the very end its sender set (insertTracked, consume, compactConsumedPrefix).
THEOREM BytesArriveInOrder == StreamsSpec => []DeliveredInOrder
  <1>1. DeliveryInv => DeliveredInOrder
    <2> SUFFICES ASSUME DeliveryInv, NEW s \in Known(rcv.streams), NEW r, r = rcv.streams[s].rs
                 PROVE  /\ AvailableBytes(r) = [i \in 1 .. r.contiguous - r.read |-> r.read + i]
                        /\ Complete(r) => r.read = snd.streams[s].final
      BY Zenon DEF DeliveredInOrder
    <2>1. EntryTrue(rcv.streams[s], snd.streams[s]) /\ s \in Known(snd.streams)
      BY Zenon DEF DeliveryInv, ReceiverTrue
    <2> DEFINE d == snd.streams[s]
    <2>2. /\ Reassembles(r) /\ r.storage + Len(r.buffer) <= d.high
          /\ r.final # NoSize => r.final = d.final
      BY <2>1, Zenon DEF EntryTrue
    <2>3. d.high \in Nat /\ d.final \in {NoSize, d.high}
      BY <2>1, Zenon DEF DeliveryInv, Sound
    <2>4. AvailableBytes(r) = [i \in 1 .. r.contiguous - r.read |-> r.read + i]
      BY <2>2, AvailableInOrder, Zenon
    <2> HIDE DEF d
    <2>5. ASSUME Complete(r) PROVE r.read = d.final
      <3>1. r.final # NoSize /\ r.read >= r.final /\ r.final = d.final /\ d.final = d.high
        BY <2>2, <2>3, <2>5, Zenon DEF Complete
      <3>2. r.read <= r.contiguous /\ r.contiguous <= r.storage + Len(r.buffer)
        BY <2>2, Zenon DEF Reassembles
      <3>3. r.storage \in Nat /\ r.read \in Nat /\ r.contiguous \in Nat /\ Len(r.buffer) \in Nat
        BY <2>2, ReassemblyInts, Zenon
      <3> QED
        BY ONLY <2>2, <2>3, <3>1, <3>2, <3>3
    <2> QED
      BY <2>4, <2>5, Zenon DEF d
  <1> QED
    BY <1>1, DeliveryInvariance, PTL

\* However streams end, are reset and come back, no more are open at once than were
\* admitted at first, a slot is returned only after both halves of its stream ended,
\* and openLocalStream gives no number twice (releaseCompletedPeerStream,
\* validateStreamLimit, sendStreamEntry).
THEOREM SlotsReturnOnce == StreamsSpec => []OpenStreamsBounded
  <1>1. DeliveryInv => OpenStreamsBounded
    <2> SUFFICES ASSUME DeliveryInv PROVE OpenStreamsBounded
      BY Zenon
    <2> DEFINE open == {s \in Known(rcv.streams) : ~rcv.streams[s].released}
    <2>1. Slots(rcv) /\ (\A s \in Known(rcv.streams) : EntryTrue(rcv.streams[s], snd.streams[s]))
      BY Zenon DEF DeliveryInv, ReceiverTrue
    <2>2. open \subseteq Unreturned(rcv)
      BY <2>1, Zenon DEF Slots, Unreturned
    <2> HIDE DEF open
    <2>3. IsFiniteSet(Unreturned(rcv)) /\ Cardinality(Unreturned(rcv)) \in Nat
      BY <2>1, UnreturnedFinite, Zenon DEF Slots
    <2>4. Cardinality(open) <= Cardinality(Unreturned(rcv)) /\ Cardinality(open) \in Nat
      BY <2>2, <2>3, FS_Subset, FS_CardinalityType, Zenon
    <2>5. Cardinality(Unreturned(rcv)) <= InitialMaxStreams
      BY <2>1, Zenon DEF Slots
    <2>6. InitialMaxStreams \in Int
      BY StreamsBounds
    <2>7. Cardinality(open) <= InitialMaxStreams
      BY ONLY <2>3, <2>4, <2>5, <2>6
    <2>8. \A s \in Known(rcv.streams) : rcv.streams[s].released =>
              rcv.streams[s].answered /\ Ended(rcv.streams[s])
      BY <2>1, Zenon DEF EntryTrue
    <2>9. LocalIdsFresh
      BY Zenon DEF DeliveryInv, Sound, LocalIdsFresh
    <2> QED
      BY <2>7, <2>8, <2>9, Zenon DEF OpenStreamsBounded, open
  <1> QED
    BY <1>1, DeliveryInvariance, PTL

-----------------------------------------------------------------------------
(* No credit is lost.                                                      *)

\* A frame of a packet that was sent.
LEMMA FramesMember ==
    ASSUME NEW packets, NEW p \in packets, NEW i \in DOMAIN p
    PROVE  p[i] \in Frames(packets)
  <1>1. p[i] \in {p[j] : j \in DOMAIN p}
    BY Zenon
  <1>2. {p[j] : j \in DOMAIN p} \in {{q[j] : j \in DOMAIN q} : q \in packets}
    BY Zenon
  <1> QED
    BY <1>1, <1>2, Zenon DEF Frames

\* A limit that does not move stays announced.
LEMMA AnnouncedStays ==
    ASSUME LimitsAnnounced, toSender \subseteq toSender', SameLimits(rcv, rcv')
    PROVE  LimitsAnnounced'
  <1>1. Frames(toSender) \subseteq Frames(toSender')
    BY Zenon DEF Frames
  <1>2. \/ rcv'.flow.limit = InitialConnLimit
        \/ [type |-> "max_data", limit |-> rcv'.flow.limit] \in Frames(toSender')
    BY <1>1, Zenon DEF LimitsAnnounced, SameLimits
  <1>3. ASSUME NEW s \in Known(rcv'.streams)
        PROVE  \/ rcv'.streams[s].flow.limit = InitialStreamLimit
               \/ [type |-> "max_stream_data", s |-> s, limit |-> rcv'.streams[s].flow.limit]
                     \in Frames(toSender')
    BY <1>1, <1>3, Zenon DEF LimitsAnnounced, SameLimits
  <1> QED
    BY <1>2, <1>3, Zenon DEF LimitsAnnounced

\* releaseReceivedCapacity: the windows move only when the advertisement goes out.
LEMMA ReleaseReceivedCapacityAnnounces ==
    ASSUME LimitsAnnounced, IsReceiver(rcv), NEW s \in Known(rcv.streams), NEW n \in 1 .. MaxRead,
           ReleaseReceivedCapacity(s, n)
    PROVE  LimitsAnnounced'
  <1> DEFINE frames == Advertisement(s, n)
             old == rcv.streams[s]
             conn == ReturnCredit(rcv.flow, n)
             stream == ReturnCredit(old.flow, n)
             e == [old EXCEPT !.flow = stream, !.rs = Consume(old.rs, n)]
             f == [type |-> "max_data", limit |-> conn.limit]
             g == [type |-> "max_stream_data", s |-> s, limit |-> stream.limit]
  <1>1. CASE UNCHANGED <<rcv, toSender>>
    BY <1>1, Zenon DEF LimitsAnnounced
  <1>2. CASE /\ rcv' = [Returned(rcv, s, n) EXCEPT !.streams[s].rs = Consume(@, n)]
             /\ toSender' = IF frames = <<>> THEN toSender ELSE toSender \cup {frames}
    <2>1. IsRecvEntry(old)
      BY Zenon DEF IsReceiver
    <2>2. /\ rcv' = [flow |-> conn, total |-> rcv.total, maxStreams |-> rcv.maxStreams,
                     streams |-> [rcv.streams EXCEPT ![s] = e]]
          /\ e.flow = stream
      BY <1>2, <2>1, Zenon DEF Returned, IsReceiver, IsRecvEntry
    <2> HIDE DEF e
    <2>3. /\ rcv'.flow = conn /\ Known(rcv'.streams) = Known(rcv.streams)
          /\ \A t \in Known(rcv.streams) : rcv'.streams[t] = IF t = s THEN e ELSE rcv.streams[t]
      BY <2>2, Zenon DEF IsReceiver, Known
    <2>4. frames = IF conn.limit # rcv.flow.limit
                   THEN IF stream.limit # old.flow.limit THEN <<f, g>> ELSE <<f>>
                   ELSE IF stream.limit # old.flow.limit THEN <<g>> ELSE <<>>
      BY AdvertisementForms, Zenon
    <2> HIDE DEF frames, f, g, conn, stream, old
    <2>5. /\ conn.limit # rcv.flow.limit => 1 \in DOMAIN frames /\ frames[1] = f
          /\ stream.limit # old.flow.limit => \E i \in DOMAIN frames : frames[i] = g
      <3>1. <<f, g>> # <<>> /\ 1 \in DOMAIN <<f, g>> /\ 2 \in DOMAIN <<f, g>>
            /\ <<f, g>>[1] = f /\ <<f, g>>[2] = g
        BY ONLY TRUE
      <3>2. 1 \in DOMAIN <<f>> /\ <<f>>[1] = f /\ 1 \in DOMAIN <<g>> /\ <<g>>[1] = g
        BY ONLY TRUE
      <3> QED
        BY <2>4, <3>1, <3>2, Zenon
    <2>6. \A i \in DOMAIN frames : frames \in toSender'
      <3>1. frames = <<>> => DOMAIN frames = {}
        BY ONLY TRUE
      <3> QED
        BY <1>2, <3>1, Zenon
    <2>7. /\ conn.limit # rcv.flow.limit => f \in Frames(toSender')
          /\ stream.limit # old.flow.limit => g \in Frames(toSender')
      BY <2>5, <2>6, FramesMember, Zenon
    <2>8. Frames(toSender) \subseteq Frames(toSender')
      <3>1. toSender \subseteq toSender'
        BY <1>2, Zenon
      <3> QED
        BY <3>1, Zenon DEF Frames
    <2>9. \/ rcv'.flow.limit = InitialConnLimit
          \/ [type |-> "max_data", limit |-> rcv'.flow.limit] \in Frames(toSender')
      <3>1. rcv'.flow.limit = conn.limit
        BY <2>3, Zenon
      <3>2. CASE conn.limit = rcv.flow.limit
        BY <2>8, <3>1, <3>2, Zenon DEF LimitsAnnounced
      <3>3. CASE conn.limit # rcv.flow.limit
        BY <2>7, <3>1, <3>3, Zenon DEF f
      <3> QED
        BY <3>2, <3>3, Zenon
    <2>10. ASSUME NEW t \in Known(rcv'.streams)
           PROVE  \/ rcv'.streams[t].flow.limit = InitialStreamLimit
                  \/ [type |-> "max_stream_data", s |-> t, limit |-> rcv'.streams[t].flow.limit]
                        \in Frames(toSender')
      <3>1. CASE rcv'.streams[t].flow.limit = rcv.streams[t].flow.limit
        BY <2>3, <2>8, <2>10, <3>1, Zenon DEF LimitsAnnounced
      <3>2. CASE rcv'.streams[t].flow.limit # rcv.streams[t].flow.limit
        <4>1. t = s /\ rcv'.streams[t].flow.limit = stream.limit /\ stream.limit # old.flow.limit
          BY <2>2, <2>3, <2>10, <3>2, Zenon DEF old
        <4> QED
          BY <2>7, <4>1, Zenon DEF g
      <3> QED
        BY <3>1, <3>2, Zenon
    <2> QED
      BY <2>9, <2>10, Zenon DEF LimitsAnnounced
  <1> QED
    BY <1>1, <1>2, Zenon DEF ReleaseReceivedCapacity

\* sendStopSending, the receiver's own half, and releaseCompletedPeerStream.
LEMMA EndOfStreamAnnounces ==
    ASSUME LimitsAnnounced, IsReceiver(rcv), NEW s \in Known(rcv.streams),
           SendStopSending(s) \/ Answer(s) \/ ReleaseCompletedPeerStream(s)
    PROVE  LimitsAnnounced'
  <1> DEFINE old == rcv.streams[s]
             Marks == {[old EXCEPT !.stopSent = TRUE], [old EXCEPT !.answered = TRUE],
                       [old EXCEPT !.released = TRUE]}
  <1>1. IsRecvEntry(old)
    BY Zenon DEF IsReceiver
  <1>2. \A e \in Marks : e.flow = old.flow
    BY <1>1, Zenon DEF IsRecvEntry
  <1>3. \E e \in Marks : rcv'.streams = [rcv.streams EXCEPT ![s] = e] /\ rcv'.flow = rcv.flow
    <2>1. CASE SendStopSending(s)
      BY <2>1, Zenon DEF SendStopSending, IsReceiver
    <2>2. CASE Answer(s)
      BY <2>2, Zenon DEF Answer, IsReceiver
    <2>3. CASE ReleaseCompletedPeerStream(s)
      BY <2>3, Zenon DEF ReleaseCompletedPeerStream, IsReceiver
    <2> QED
      BY <2>1, <2>2, <2>3, Zenon
  <1> HIDE DEF Marks
  <1>4. PICK e \in Marks : rcv'.streams = [rcv.streams EXCEPT ![s] = e] /\ rcv'.flow = rcv.flow
    BY <1>3, Zenon
  <1>5. /\ Known(rcv'.streams) = Known(rcv.streams)
        /\ \A t \in Known(rcv.streams) : rcv'.streams[t] = IF t = s THEN e ELSE rcv.streams[t]
    BY <1>4, Zenon DEF IsReceiver, Known
  <1>6. SameLimits(rcv, rcv')
    BY <1>2, <1>4, <1>5, Zenon DEF SameLimits
  <1>7. toSender \subseteq toSender'
    BY Zenon DEF SendStopSending, Answer, ReleaseCompletedPeerStream
  <1> QED
    BY <1>6, <1>7, AnnouncedStays, Zenon

\* Every limit the receiver moved to is in a packet for the sender, so that none is
\* left waiting for credit the receiver believes to have handed out: when
\* releaseReceivedCapacity cannot send, both windows go back.
THEOREM NoCreditLost == StreamsSpec => []LimitsAnnounced
  <1>1. StreamsInit => LimitsAnnounced
    <2> SUFFICES ASSUME StreamsInit PROVE LimitsAnnounced
      BY Zenon
    <2>1. rcv.streams = <<>> /\ rcv.flow = NewRecvFlow(InitialConnLimit, ConnWindow, MaxConnWindow)
      BY Zenon DEF StreamsInit
    <2>2. Known(rcv.streams) = {}
      BY <2>1 DEF Known
    <2>3. InitialConnLimit \in Int /\ ConnWindow \in Int /\ MaxConnWindow \in Int
      BY StreamsBounds, VarintMaxAssumption
    <2>4. rcv.flow.limit = InitialConnLimit
      BY <2>1, <2>3, NewFlows
    <2> QED
      BY <2>2, <2>4, Zenon DEF LimitsAnnounced
  <1>2. ASSUME StreamsInv, LimitsAnnounced, StreamsNext PROVE LimitsAnnounced'
    <2>0. IsSender(snd) /\ IsReceiver(rcv)
      BY <1>2, Zenon DEF StreamsInv
    <2>1. ASSUME rcv' = rcv, toSender \subseteq toSender' PROVE LimitsAnnounced'
      <3>1. SameLimits(rcv, rcv')
        BY <2>1, Zenon DEF SameLimits
      <3> QED
        BY <1>2, <2>1, <3>1, AnnouncedStays, Zenon
    <2>2. ASSUME NEW packet \in Writes, Write(packet) \/ BlockedByCredit(packet)
          PROVE  LimitsAnnounced'
      BY <2>1, <2>2, Zenon DEF Write, BlockedByCredit
    <2>3. CASE BlockedByCount \/ OpenLocalStream
      BY <2>1, <2>3, Zenon DEF BlockedByCount, OpenLocalStream
    <2>4. ASSUME NEW s \in Abandonable, ResetStream(s)
          PROVE  LimitsAnnounced'
      BY <2>1, <2>4, Zenon DEF ResetStream
    <2>5. ASSUME NEW packet \in toSender, ReceiveLimits(packet) \/ ReceiveStopSending(packet)
          PROVE  LimitsAnnounced'
      BY <2>1, <2>5, Zenon DEF ReceiveLimits, ReceiveStopSending
    <2>6. ASSUME NEW packet \in toReceiver, Accept(packet)
          PROVE  LimitsAnnounced'
      <3>1. PacketOK(packet, snd)
        BY <1>2, Zenon DEF StreamsInv
      <3>2. SameLimits(rcv, rcv')
        BY <2>0, <2>6, <3>1, AcceptGrows, Zenon
      <3>3. toSender' = toSender
        BY <2>6, Zenon DEF Accept
      <3> QED
        BY <1>2, <3>2, <3>3, AnnouncedStays, Zenon
    <2>7. ASSUME NEW packet \in toReceiver,
                 (\E error : Refuse(error)) \/ ReceiveStreamsBlocked(packet)
          PROVE  LimitsAnnounced'
      BY <2>1, <2>7, Zenon DEF Refuse, ReceiveStreamsBlocked
    <2>8. ASSUME NEW s \in Known(rcv.streams), NEW n \in 1 .. MaxRead, ReleaseReceivedCapacity(s, n)
          PROVE  LimitsAnnounced'
      BY <1>2, <2>0, <2>8, ReleaseReceivedCapacityAnnounces, Zenon
    <2>9. ASSUME NEW s \in Known(rcv.streams),
                 SendStopSending(s) \/ Answer(s) \/ ReleaseCompletedPeerStream(s)
          PROVE  LimitsAnnounced'
      BY <1>2, <2>0, <2>9, EndOfStreamAnnounces, Zenon
    <2>10. ASSUME NEW packet \in toReceiver, ReceiveFrames(packet)
           PROVE  Accept(packet) \/ \E error : Refuse(error)
      BY <2>10, Zenon DEF ReceiveFrames
    <2> QED
      BY <1>2, <2>2, <2>3, <2>4, <2>5, <2>6, <2>7, <2>8, <2>9, <2>10, Zenon DEF StreamsNext
  <1>3. LimitsAnnounced /\ UNCHANGED streamVars => LimitsAnnounced'
    BY Zenon DEF LimitsAnnounced, streamVars
  <1>4. StreamsInv /\ LimitsAnnounced /\ [StreamsNext]_streamVars => LimitsAnnounced'
    BY <1>2, <1>3, Zenon
  <1> QED
    BY <1>1, <1>4, StreamsInvariant, PTL DEF StreamsSpec
=============================================================================

----------------------------- MODULE QuicStreams -----------------------------
(***************************************************************************)
(* Streams and flow control of a 1-RTT connection (quic/one_rtt.zig): one  *)
(* endpoint opens streams and writes, resets or finishes them, the other   *)
(* reassembles, reads and returns credit.                                  *)
(*                                                                         *)
(* A packet is retransmitted under a new number until it is acknowledged,  *)
(* so whatever was sent may arrive late, repeatedly and in any order: the  *)
(* network is the set of the packets ever sent.  A send that the socket,   *)
(* the congestion window or the pacer refuses fails as a whole.            *)
(* DATA_BLOCKED and STREAM_DATA_BLOCKED change nothing where they arrive,  *)
(* so only their sending is modelled.                                      *)
(***************************************************************************)
EXTENDS QuicFlowControl, QuicReceiveStream

CONSTANTS
    MaxStreamCount,     \* quic.max_stream_count; streams are numbered from 1
    InitialMaxStreams,  \* how many streams the receiver admits at first
    InitialStreamLimit, StreamWindow, MaxStreamWindow,
    InitialConnLimit, ConnWindow, MaxConnWindow,
    WriteSizes,         \* bound: bytes of one write
    MaxRead,            \* bound: bytes the application takes at once
    DataSizes,          \* bound: how many bytes the application has for each stream
    Abandonable         \* bound: streams that either side may give up

ASSUME StreamsBounds ==
    /\ MaxStreamCount \in Nat /\ InitialMaxStreams \in 0 .. MaxStreamCount
    /\ InitialStreamLimit \in 0 .. VarintMax /\ InitialConnLimit \in 0 .. VarintMax
    /\ StreamWindow \in Nat \ {0} /\ MaxStreamWindow \in Nat \ {0}
    /\ ConnWindow \in Nat \ {0} /\ MaxConnWindow \in Nat \ {0}
    /\ MaxBuffered = Most(InitialStreamLimit, Most(StreamWindow, MaxStreamWindow))
    /\ WriteSizes \subseteq Nat \ {0} /\ MaxRead \in Nat \ {0}
    /\ DataSizes \in [1 .. MaxStreamCount -> Nat]
    /\ Abandonable \subseteq 1 .. MaxStreamCount

VARIABLES
    snd,         \* the sender: connection flow, stream count, send entries
    rcv,         \* the receiver: connection flow, stream count, receive entries
    toReceiver,  \* packets the sender has sent
    toSender,    \* packets the receiver has sent
    broken       \* the receiver closed the connection with an error

streamVars == <<snd, rcv, toReceiver, toSender, broken>>

Streams == 1 .. MaxStreamCount
StaysOpen == broken = Fine /\ UNCHANGED broken
NotBlocked == -1  \* streams_blocked_at is null

Known(entries) == DOMAIN entries
Put(entries, s, e) == [t \in Known(entries) \cup {s} |-> IF t = s THEN e ELSE entries[t]]

\* One pass over the frames of a packet, which here has one or two.
InOrder(op(_, _), base, packet) ==
    IF Len(packet) = 1 THEN op(base, packet[1]) ELSE op(op(base, packet[1]), packet[2])

\* The same pass as the set of its outcomes, which has one member.
Outcomes(op(_, _), base, packet) ==
    LET first == {op(base, packet[1])}
    IN  IF Len(packet) = 1 THEN first ELSE {op(acc, packet[2]) : acc \in first}

StreamsInit ==
    /\ snd = [flow |-> NewSendFlow(InitialConnLimit), maxStreams |-> InitialMaxStreams,
              blockedAt |-> NotBlocked, next |-> 1, streams |-> <<>>]
    /\ rcv = [flow |-> NewRecvFlow(InitialConnLimit, ConnWindow, MaxConnWindow), total |-> 0,
              maxStreams |-> InitialMaxStreams, streams |-> <<>>]
    /\ toReceiver = {} /\ toSender = {}
    /\ broken = Fine

-----------------------------------------------------------------------------
\* The sender.

NewSendEntry == [flow |-> NewSendFlow(InitialStreamLimit), high |-> 0, final |-> NoSize,
                 stopped |-> FALSE, reset |-> FALSE]

SendEntry(s) == IF s \in Known(snd.streams) THEN snd.streams[s] ELSE NewSendEntry

\* sendStreamEntry: using a local stream reserves its number and all below.
WithSendEntry(x, s) ==
    IF s \in Known(x.streams) THEN x
    ELSE [x EXCEPT !.streams = Put(@, s, NewSendEntry), !.next = Most(@, s + 1)]

Admitted(s) == s \in Known(snd.streams) \/ s <= snd.maxStreams

StreamFrame(s, from, to, fin) == [type |-> "stream", s |-> s, from |-> from, to |-> to, fin |-> fin]

\* validateStreamFrameForSend.
MaySend(f) ==
    LET e == SendEntry(f.s)
    IN  /\ Admitted(f.s) /\ ~e.stopped /\ ~e.reset
        /\ e.final # NoSize => f.from = f.to /\ f.to <= e.final /\ (f.fin => f.to = e.final)

\* The next bytes of a stream.
Chunk(s, n, fin) == StreamFrame(s, SendEntry(s).high, SendEntry(s).high + n, fin)

\* What one send may carry: a chunk, two chunks of a stream, or chunks of two.
Writes ==
    LET packets == {<<Chunk(sn[1], sn[2], FALSE)>> : sn \in Streams \X WriteSizes}
            \cup {<<Chunk(sn[1], sn[2], TRUE)>> : sn \in Streams \X ({0} \cup WriteSizes)}
            \cup {<<Chunk(sn[1], sn[2], FALSE),
                    StreamFrame(sn[1], Chunk(sn[1], sn[2], FALSE).to,
                                Chunk(sn[1], 2 * sn[2], FALSE).to, FALSE)>> :
                    sn \in Streams \X WriteSizes}
            \cup {<<Chunk(stn[1], stn[3], FALSE), Chunk(stn[2], stn[3], FALSE)>> :
                    stn \in {p \in Streams \X Streams \X WriteSizes : p[1] < p[2]}}
    IN  {p \in packets : \A i \in DOMAIN p : p[i].to <= DataSizes[p[i].s]}

BytesFor(packet, s) ==
    InOrder(LAMBDA n, f : IF f.s = s THEN n + FrameBytes(f) ELSE n, 0, packet)
PacketBytes(packet) == InOrder(LAMBDA n, f : n + FrameBytes(f), 0, packet)
StreamsOf(packet) == {packet[i].s : i \in DOMAIN packet}

\* noteSentStreams.
NoteSent(x, f) ==
    [x EXCEPT !.streams[f.s].high = Most(@, f.to),
              !.streams[f.s].final = IF f.fin THEN f.to ELSE @]

Materialised(packet) == InOrder(LAMBDA x, f : WithSendEntry(x, f.s), snd, packet)

Charged(x, packet) ==
    [x EXCEPT !.flow = Reserve(@, PacketBytes(packet)),
              !.streams = [s \in Known(x.streams) |->
                  [x.streams[s] EXCEPT !.flow = Reserve(@, BytesFor(packet, s))]]]

\* The errdefer of sendWithEcnAtRaw.
Uncharged(x, packet) ==
    [x EXCEPT !.flow = Refund(@, PacketBytes(packet)),
              !.streams = [s \in Known(x.streams) |->
                  [x.streams[s] EXCEPT !.flow = Refund(@, BytesFor(packet, s))]]]

\* sendWithEcnAtRaw of STREAM frames within both limits.
Write(packet) ==
    LET x == Materialised(packet)
    IN  /\ \A i \in DOMAIN packet : MaySend(packet[i])
        /\ PacketBytes(packet) <= Spendable(x.flow)
        /\ \A s \in StreamsOf(packet) : BytesFor(packet, s) <= Spendable(x.streams[s].flow)
        /\ \/ /\ snd' = InOrder(NoteSent, Charged(x, packet), packet)
              /\ toReceiver' = toReceiver \cup {packet}
           \/ /\ snd' = Uncharged(Charged(x, packet), packet)
              /\ UNCHANGED toReceiver
    /\ UNCHANGED <<rcv, toSender>> /\ StaysOpen

\* The same call when a limit is in the way: it fails, but the entries stay, so
\* that a later MAX_STREAM_DATA finds its stream.
BlockedByCredit(packet) ==
    LET x == Materialised(packet)
    IN  /\ \A i \in DOMAIN packet : MaySend(packet[i])
        /\ \/ PacketBytes(packet) > Spendable(x.flow)
           \/ \E s \in StreamsOf(packet) : BytesFor(packet, s) > Spendable(x.streams[s].flow)
        /\ snd' = x
        /\ UNCHANGED <<rcv, toReceiver, toSender>> /\ StaysOpen

\* sendStreamsBlocked, from a write or openLocalStream past the limit.
BlockedByCount ==
    /\ snd.maxStreams < MaxStreamCount /\ snd.blockedAt # snd.maxStreams
    /\ snd' = [snd EXCEPT !.blockedAt = snd.maxStreams]
    /\ toReceiver' = toReceiver \cup {<<[type |-> "streams_blocked", max |-> snd.maxStreams]>>}
    /\ UNCHANGED <<rcv, toSender>> /\ StaysOpen

\* openLocalStream.
OpenLocalStream ==
    /\ snd.next <= snd.maxStreams
    /\ snd' = [snd EXCEPT !.next = @ + 1]
    /\ UNCHANGED <<rcv, toReceiver, toSender>> /\ StaysOpen

ResetFrame(s, size) == [type |-> "reset", s |-> s, size |-> size]

\* sendResetStream: a failed send leaves the stream as it was.
SendReset(x, s) ==
    IF x.streams[s].reset
    THEN snd' = x /\ UNCHANGED toReceiver
    ELSE \/ /\ snd' = [x EXCEPT !.streams[s].reset = TRUE]
            /\ toReceiver' = toReceiver \cup {<<ResetFrame(s, x.streams[s].high)>>}
         \/ snd' = x /\ UNCHANGED toReceiver

ResetStream(s) ==
    /\ Admitted(s)
    /\ SendReset(WithSendEntry(snd, s), s)
    /\ UNCHANGED <<rcv, toSender>> /\ StaysOpen

\* applyReceivedFramesForDestination at the sender: MAX_DATA, MAX_STREAM_DATA,
\* MAX_STREAMS (receiveMaxStreams).
RaiseLimit(x, f) ==
    CASE f.type = "max_data" -> [x EXCEPT !.flow = UpdateLimit(@, f.limit)]
      [] f.type = "max_stream_data" -> [x EXCEPT !.streams[f.s].flow = UpdateLimit(@, f.limit)]
      [] f.type = "max_streams" ->
            IF f.max <= x.maxStreams THEN x
            ELSE [x EXCEPT !.maxStreams = f.max, !.blockedAt = NotBlocked]

ReceiveLimits(packet) ==
    /\ packet[1].type # "stop"
    /\ snd' = InOrder(RaiseLimit, snd, packet)
    /\ UNCHANGED <<rcv, toReceiver, toSender>> /\ StaysOpen

\* receiveStopSending.
ReceiveStopSending(packet) ==
    /\ packet[1].type = "stop"
    /\ SendReset([snd EXCEPT !.streams[packet[1].s].stopped = TRUE], packet[1].s)
    /\ UNCHANGED <<rcv, toSender>> /\ StaysOpen

-----------------------------------------------------------------------------
\* The receiver.  A packet's frames are all tried first, then applied.

NewRecvEntry == [flow |-> NewRecvFlow(InitialStreamLimit, StreamWindow, MaxStreamWindow),
                 rs |-> NewRecvState, high |-> 0, final |-> NoSize, reset |-> FALSE,
                 stopSent |-> FALSE, answered |-> FALSE, released |-> FALSE]

RecvEntry(s) == IF s \in Known(rcv.streams) THEN rcv.streams[s] ELSE NewRecvEntry

FirstError(errors) ==
    LET bad == {i \in DOMAIN errors : errors[i] # Fine}
    IN  IF bad = {} THEN Fine ELSE errors[Min(bad)]

ErrorIf(condition, error) == IF condition THEN error ELSE Fine

Shadow(acc, s) ==
    IF s \in Known(acc.streams) THEN acc.streams[s] ELSE NewPreflight(RecvEntry(s).rs)

\* validateStreamFramePrecondition and validateResetStreamPrecondition.
PreflightFrame(acc, f) ==
    LET size == IF f.type = "stream" THEN f.to ELSE f.size
        final == f.type = "reset" \/ f.fin
        p == PreflightFinalSize(Shadow(acc, f.s), size, final)
        fresh == IF f.type = "stream" THEN PreflightNew(p, f) ELSE size - p.total
        error == FirstError(<<
            ErrorIf(f.s > rcv.maxStreams, "StreamLimitExceeded"),
            PreflightFinalSizeError(Shadow(acc, f.s), size, final),
            ErrorIf(~WithinLimit(RecvEntry(f.s).flow, size), "FlowControlViolation"),
            IF f.type = "stream" THEN PreflightInsertError(p, f)
                                 ELSE ErrorIf(size < p.total, "FinalSizeMismatch"),
            ErrorIf(fresh # 0 /\ acc.total + fresh > rcv.flow.limit, "FlowControlViolation")>>)
    IN  IF acc.error # Fine \/ f.type = "streams_blocked" THEN acc
        ELSE IF error # Fine THEN [acc EXCEPT !.error = error]
        ELSE [acc EXCEPT !.total = @ + fresh,
                         !.streams = Put(@, f.s, IF f.type = "stream" THEN PreflightInsert(p, f)
                                                 ELSE p)]

NothingTried == [error |-> Fine, total |-> rcv.total, streams |-> <<>>]

\* validateReceivedFramePreconditions.
Preflighted(packet) == Outcomes(PreflightFrame, NothingTried, packet)

FinalSizeError(e, size, final) ==
    ErrorIf(\/ final /\ size < e.high
            \/ e.final # NoSize /\ (size > e.final \/ (final /\ size # e.final)),
            "FinalSizeMismatch")

\* The bytes of the connection's credit that a frame uses.
NewBytes(e, f) == IF f.type = "stream" THEN NewlyReceived(e.rs, f) ELSE f.size - e.rs.total

\* The STREAM case of applyReceivedFramesForDestination, and receiveResetStream.
ApplyError(x, f) ==
    LET e == IF f.s \in Known(x.streams) THEN x.streams[f.s] ELSE NewRecvEntry
        size == IF f.type = "stream" THEN f.to ELSE f.size
        fresh == NewBytes(e, f)
    IN  FirstError(<<
            ErrorIf(f.s \notin Known(x.streams) /\ f.s > x.maxStreams, "StreamLimitExceeded"),
            FinalSizeError(e, size, f.type = "reset" \/ f.fin),
            ErrorIf(~WithinLimit(e.flow, size), "FlowControlViolation"),
            IF f.type = "stream" THEN InsertError(e.rs, f)
                                 ELSE ErrorIf(size < e.rs.total, "FinalSizeMismatch"),
            ErrorIf(fresh # 0 /\ ~WithinLimit(x.flow, x.total + fresh), "FlowControlViolation")>>)

ApplyToStream(x, f) ==
    LET e == IF f.s \in Known(x.streams) THEN x.streams[f.s] ELSE NewRecvEntry
        size == IF f.type = "stream" THEN f.to ELSE f.size
        final == f.type = "reset" \/ f.fin
        fresh == NewBytes(e, f)
    IN  [x EXCEPT
            !.total = @ + fresh,
            !.flow = NoteReceived(@, x.total + fresh),
            !.streams = Put(@, f.s,
                [e EXCEPT !.final = IF @ = NoSize /\ final THEN size ELSE @,
                          !.flow = NoteReceived(@, size),
                          !.rs = IF f.type = "stream" THEN InsertTracked(@, f) ELSE @,
                          !.high = Most(@, size),
                          !.reset = @ \/ f.type = "reset"])]

ApplyFrame(acc, f) ==
    IF acc.error # Fine \/ f.type = "streams_blocked" THEN acc
    ELSE LET error == ApplyError(acc.rcv, f)
         IN  [error |-> error, rcv |-> IF error = Fine THEN ApplyToStream(acc.rcv, f) ELSE acc.rcv]

Applied(packet) == Outcomes(ApplyFrame, [error |-> Fine, rcv |-> rcv], packet)

\* A packet that passes the preflight.  A frame that failed now would leave
\* the packet half applied.
Accept(packet) ==
    /\ \E result \in Applied(packet) :
        /\ rcv' = result.rcv
        /\ broken' = IF result.error = Fine THEN Fine ELSE "half applied"
    /\ UNCHANGED <<snd, toReceiver, toSender>>

\* A packet the preflight refuses: classifySemanticCloseError decides whether
\* the connection is closed or the packet only dropped.
Refuse(error) ==
    /\ error # "StreamBufferTooLarge"
    /\ broken' = error
    /\ UNCHANGED <<snd, rcv, toReceiver, toSender>>

\* applyReceivedFramesForDestinationOrClose.
ReceiveFrames(packet) ==
    /\ packet[1].type # "streams_blocked"
    /\ broken = Fine
    /\ \E tried \in Preflighted(packet) :
        IF tried.error = Fine THEN Accept(packet) ELSE Refuse(tried.error)

MaxStreamsFrame(n) == [type |-> "max_streams", max |-> n]

\* receiveStreamsBlocked: a peer behind the current limit is told again.
ReceiveStreamsBlocked(packet) ==
    /\ packet[1].type = "streams_blocked" /\ packet[1].max < rcv.maxStreams
    /\ toSender' = toSender \cup {<<MaxStreamsFrame(rcv.maxStreams)>>}
    /\ UNCHANGED <<snd, rcv, toReceiver>> /\ StaysOpen

\* The MAX_DATA and MAX_STREAM_DATA that returning n bytes of s produces.
Advertisement(s, n) ==
    LET conn == ReturnCredit(rcv.flow, n)
        stream == ReturnCredit(rcv.streams[s].flow, n)
        All == (IF conn.limit # rcv.flow.limit
                THEN <<[type |-> "max_data", limit |-> conn.limit]>> ELSE <<>>)
               \o (IF stream.limit # rcv.streams[s].flow.limit
                   THEN <<[type |-> "max_stream_data", s |-> s, limit |-> stream.limit]>> ELSE <<>>)
    IN  All

Returned(x, s, n) ==
    [x EXCEPT !.flow = ReturnCredit(@, n), !.streams[s].flow = ReturnCredit(@, n)]

\* Mutant: the windows stay advanced when the advertisement is not sent.
ReleaseReceivedCapacityMutant(s, n) ==
    LET frames == Advertisement(s, n)
    IN  /\ n <= Len(AvailableBytes(rcv.streams[s].rs))
        /\ \/ /\ toSender' = IF frames = <<>> THEN toSender ELSE toSender \cup {frames}
              /\ rcv' = [Returned(rcv, s, n) EXCEPT !.streams[s].rs = Consume(@, n)]
           \/ /\ frames # <<>>
              /\ rcv' = Returned(rcv, s, n)
              /\ UNCHANGED toSender
        /\ UNCHANGED <<snd, toReceiver>> /\ StaysOpen

\* Mutant: the windows go back although the advertisement went out.
ReleaseReceivedCapacityRestoredMutant(s, n) ==
    LET frames == Advertisement(s, n)
    IN  /\ n <= Len(AvailableBytes(rcv.streams[s].rs))
        /\ toSender' = IF frames = <<>> THEN toSender ELSE toSender \cup {frames}
        /\ \/ rcv' = [Returned(rcv, s, n) EXCEPT !.streams[s].rs = Consume(@, n)]
           \/ frames # <<>> /\ UNCHANGED rcv
        /\ UNCHANGED <<snd, toReceiver>> /\ StaysOpen

\* releaseReceivedCapacity; when the advertisement cannot be sent both windows
\* are restored and nothing is consumed.
ReleaseReceivedCapacity(s, n) ==
    LET frames == Advertisement(s, n)
    IN  /\ n <= Len(AvailableBytes(rcv.streams[s].rs))
        /\ \/ /\ toSender' = IF frames = <<>> THEN toSender ELSE toSender \cup {frames}
              /\ rcv' = [Returned(rcv, s, n) EXCEPT !.streams[s].rs = Consume(@, n)]
           \/ /\ frames # <<>>
              /\ UNCHANGED <<rcv, toSender>>
        /\ UNCHANGED <<snd, toReceiver>> /\ StaysOpen

Ended(e) == Complete(e.rs) \/ e.reset

\* sendStopSending with one error code, of a stream the application has seen.
SendStopSending(s) ==
    /\ ~rcv.streams[s].stopSent
    /\ rcv' = [rcv EXCEPT !.streams[s].stopSent = TRUE]
    /\ toSender' = toSender \cup {<<[type |-> "stop", s |-> s]>>}
    /\ UNCHANGED <<snd, toReceiver>> /\ StaysOpen

\* The receiver ends its own half of a bidirectional stream, when it likes.
Answer(s) ==
    /\ ~rcv.streams[s].answered
    /\ rcv' = [rcv EXCEPT !.streams[s].answered = TRUE]
    /\ UNCHANGED <<snd, toReceiver, toSender>> /\ StaysOpen

\* Mutant: the slot is returned while the receiver's own half is open, and
\* a second call returns it again.
ReleaseCompletedPeerStreamMutant(s) ==
    /\ Ended(rcv.streams[s])
    /\ rcv.maxStreams < MaxStreamCount
    /\ rcv' = [rcv EXCEPT !.streams[s].released = TRUE, !.maxStreams = @ + 1]
    /\ toSender' = toSender \cup {<<MaxStreamsFrame(rcv.maxStreams + 1)>>}
    /\ UNCHANGED <<snd, toReceiver>> /\ StaysOpen

\* releaseCompletedPeerStream.
ReleaseCompletedPeerStream(s) ==
    LET e == rcv.streams[s]
    IN  /\ ~e.released
        /\ Ended(e)
        /\ e.answered
        /\ \/ /\ rcv.maxStreams = MaxStreamCount
              /\ rcv' = [rcv EXCEPT !.streams[s].released = TRUE]
              /\ UNCHANGED toSender
           \/ /\ rcv.maxStreams < MaxStreamCount
              /\ rcv' = [rcv EXCEPT !.streams[s].released = TRUE, !.maxStreams = @ + 1]
              /\ toSender' = toSender \cup {<<MaxStreamsFrame(rcv.maxStreams + 1)>>}
    /\ UNCHANGED <<snd, toReceiver>> /\ StaysOpen

StreamsNext ==
    \/ \E packet \in Writes : Write(packet) \/ BlockedByCredit(packet)
    \/ BlockedByCount \/ OpenLocalStream
    \/ \E s \in Abandonable : ResetStream(s)
    \/ \E packet \in toSender : ReceiveLimits(packet) \/ ReceiveStopSending(packet)
    \/ \E packet \in toReceiver :
         ReceiveFrames(packet) \/ ReceiveStreamsBlocked(packet)
    \/ \E s \in Known(rcv.streams) :
         \/ \E n \in 1 .. MaxRead : ReleaseReceivedCapacity(s, n)
         \/ Answer(s) \/ ReleaseCompletedPeerStream(s)
    \/ \E s \in Known(rcv.streams) \cap Abandonable : SendStopSending(s)

StreamsSpec == StreamsInit /\ [][StreamsNext]_streamVars

-----------------------------------------------------------------------------
\* Properties.

Offsets == 0 .. VarintMax
SendFlowType == [limit : Offsets, used : Offsets]
RecvFlowType == [limit : Offsets, window : Nat, maxWindow : Nat, highest : Offsets,
                 consumed : Offsets, epoch : Offsets]

\* Every counter stays inside its varint range and every flow is a SendFlow
\* or RecvFlow of flow_control.zig.
StreamsTypeOK ==
    /\ snd.flow \in SendFlowType /\ rcv.flow \in RecvFlowType
    /\ snd.next \in 1 .. MaxStreamCount + 1
    /\ snd.maxStreams \in 0 .. MaxStreamCount /\ rcv.maxStreams \in 0 .. MaxStreamCount
    /\ Known(snd.streams) \subseteq Streams /\ Known(rcv.streams) \subseteq Streams
    /\ \A s \in Known(snd.streams) : snd.streams[s].flow \in SendFlowType
    /\ \A s \in Known(rcv.streams) : rcv.streams[s].flow \in RecvFlowType

\* The bytes RecvState.available hands out are the stream's next bytes in order,
\* none missing, repeated or misplaced, however frames overlapped and whenever the
\* buffer was compacted; a stream that counts as complete was read to the very end
\* that its sender set.
DeliveredInOrder ==
    \A s \in Known(rcv.streams) :
        LET r == rcv.streams[s].rs
        IN  /\ AvailableBytes(r) = [i \in 1 .. r.contiguous - r.read |-> r.read + i]
            /\ Complete(r) => r.read = snd.streams[s].final

\* The sender never believes in credit that the receiver did not hand out, on the
\* connection, on a stream or in the number of streams, although advertisements
\* arrive late and out of order.
SenderNeverAhead ==
    /\ snd.flow.limit <= rcv.flow.limit /\ snd.maxStreams <= rcv.maxStreams
    /\ \A s \in Known(rcv.streams) : snd.streams[s].flow.limit <= rcv.streams[s].flow.limit

Frames(packets) == UNION {{p[i] : i \in DOMAIN p} : p \in packets}

\* Every limit the receiver moved to is on its way to the sender: when
\* releaseReceivedCapacity cannot send, both windows go back, so that a retry
\* announces the limit again and the sender is not left blocked.
LimitsAnnounced ==
    /\ \/ rcv.flow.limit = InitialConnLimit
       \/ [type |-> "max_data", limit |-> rcv.flow.limit] \in Frames(toSender)
    /\ \A s \in Known(rcv.streams) :
        \/ rcv.streams[s].flow.limit = InitialStreamLimit
        \/ [type |-> "max_stream_data", s |-> s, limit |-> rcv.streams[s].flow.limit]
              \in Frames(toSender)

\* When the application has read everything that was ever written, the receiver has
\* handed out new credit on the connection and on the stream: no sender waits for
\* credit that nobody owes it.  (Streams that were reset take part of the
\* connection's window with them.)
CreditReturns ==
    (\A s \in Known(snd.streams) :
        /\ ~snd.streams[s].reset
        /\ snd.streams[s].high # 0 =>
            s \in Known(rcv.streams) /\ rcv.streams[s].rs.read = snd.streams[s].high)
    => /\ rcv.flow.limit > snd.flow.used \/ rcv.flow.limit = VarintMax
       /\ \A s \in Known(rcv.streams) :
            \/ rcv.streams[s].flow.limit > snd.streams[s].flow.used
            \/ rcv.streams[s].flow.limit = VarintMax

\* What the sender has charged is what it has sent: the connection's credit is
\* the sum of the streams', and a send the socket refused leaves no charge.
ChargedExactly ==
    /\ \A s \in Known(snd.streams) : snd.streams[s].flow.used = snd.streams[s].high
    /\ snd.flow.used = MapThenSumSet(LAMBDA s : snd.streams[s].flow.used, Known(snd.streams))

\* The receiver charges each byte once: what it counts against the connection is
\* what its streams hold, however much the frames overlapped.
ReceivedExactly ==
    (\A s \in Known(rcv.streams) : ~rcv.streams[s].reset)
    => rcv.total = MapThenSumSet(LAMBDA s : rcv.streams[s].rs.total, Known(rcv.streams))

\* Both ends' accounts of the credit agree: nothing is charged, returned or
\* believed that the other end does not know of or will not be told.
CreditExact ==
    StreamsTypeOK /\ LimitsAnnounced /\ ChargedExactly /\ ReceivedExactly

\* openLocalStream never returns a stream that is already in use.
LocalIdsFresh == \A s \in Known(snd.streams) : s < snd.next

\* No more streams are open at once than were admitted at first: a slot comes back
\* only after both halves of its stream ended, and once; no number is given twice.
OpenStreamsBounded ==
    /\ Cardinality({s \in Known(rcv.streams) : ~rcv.streams[s].released}) <= InitialMaxStreams
    /\ \A s \in Known(rcv.streams) : rcv.streams[s].released =>
        rcv.streams[s].answered /\ Ended(rcv.streams[s])
    /\ LocalIdsFresh

\* Every frame fits in max_buffered bytes behind the application's cursor, so it
\* is refused as StreamBufferTooLarge only while bytes already read are kept.
\* That cannot block the stream: when the application has read all there is, the
\* frame with the next bytes is not refused.
NextBytesAccepted ==
    \A f \in Frames(toReceiver) : f.type = "stream" =>
        LET r == RecvEntry(f.s).rs IN
        /\ f.to - r.read <= MaxBuffered
        /\ r.read = r.contiguous /\ f.from <= r.read => f.to - r.storage <= MaxBuffered

\* A sender that keeps to the limits does not have its connection closed, whatever
\* is repeated or reordered, except that a stream reset earlier may have been
\* charged again; a packet that passes the preflight is applied as a whole; and
\* the bytes a reader waits for are not refused.
HonestSenderAccepted ==
    /\ broken # Fine =>
        /\ broken = "FlowControlViolation"
        /\ \E s \in Known(rcv.streams) : rcv.streams[s].reset
    /\ NextBytesAccepted
    /\ \A f \in Frames(toSender) : f.type \in {"max_stream_data", "stop"} => f.s \in Known(snd.streams)

NoLimitFalls ==
    /\ snd'.flow.limit >= snd.flow.limit /\ rcv'.flow.limit >= rcv.flow.limit
    /\ snd'.maxStreams >= snd.maxStreams /\ rcv'.maxStreams >= rcv.maxStreams
    /\ \A s \in Known(snd.streams) :
         /\ snd'.streams[s].flow.limit >= snd.streams[s].flow.limit
         /\ snd.streams[s].final # NoSize => snd'.streams[s].final = snd.streams[s].final
    /\ \A s \in Known(rcv.streams) :
         /\ rcv'.streams[s].flow.limit >= rcv.streams[s].flow.limit
         /\ rcv.streams[s].final # NoSize => rcv'.streams[s].final = rcv.streams[s].final

\* Limits never move back and a final size, once known, never changes, although
\* MAX_DATA, MAX_STREAM_DATA and MAX_STREAMS arrive late, repeated and out of
\* order (SendFlow.updateLimit, receiveMaxStreams, RecvFlow.consume).
LimitsOnlyGrow == [][NoLimitFalls]_streamVars

\* Retransmissions consume no connection credit again (one_rtt.zig, the comment of
\* the STREAM case): the receiver never counts more bytes than the sender spent.
CreditCountedOnce == rcv.total <= snd.flow.used
=============================================================================

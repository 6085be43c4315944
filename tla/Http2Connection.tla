--------------------------- MODULE Http2Connection ---------------------------
(***************************************************************************)
(* The state one end of an HTTP/2 connection keeps (`Connection` of        *)
(* http2/runtime.zig) and the steps the runtime takes on it: stream        *)
(* numbering, the active-stream sets, the two levels of flow control, the  *)
(* GOAWAY boundaries and the control frames every reading loop handles.    *)
(* Both ends of Http2Exchange are values of this record.                   *)
(*                                                                         *)
(* Every operator returns [c, out, err]: the connection afterwards, the    *)
(* frames it wrote and the error it returned ("" for none).  HPACK, header *)
(* validation and the control frames that carry no connection state (PING, *)
(* PRIORITY, ORIGIN, ALTSVC) are left out; a header block is only its      *)
(* Content-Length.  Server push is not modelled.                           *)
(***************************************************************************)
EXTENDS Integers, Sequences, FiniteSets, TLC

CONSTANTS
    StreamCount,                     \* how many streams the client may open
    initial_window_size,             \* Limits: receive window of a stream
    initial_connection_window_size,  \* Limits: receive window of a connection
    max_concurrent_streams,          \* Limits, announced to the peer
    FrameLimit                       \* outboundFramePayloadLimit, in bytes

None == -1

\* Client-initiated streams have the odd ids.
StreamOrder == [k \in 1..StreamCount |-> 2 * k - 1]

StreamIds == {StreamOrder[k] : k \in 1..StreamCount}

max_flow_window == 2147483647

LesserOf(a, b) == IF a < b THEN a ELSE b

\* Frames.  n is a DATA length, a WINDOW_UPDATE increment, a Content-Length
\* or a GOAWAY last stream id; end is END_STREAM; s = 0 is the connection.
Headers(s, length, end) == [type |-> "headers", s |-> s, n |-> length, end |-> end]
Data(s, n, end) == [type |-> "data", s |-> s, n |-> n, end |-> end]
WindowUpdate(s, n) == [type |-> "window_update", s |-> s, n |-> n, end |-> FALSE]
ResetStream(s) == [type |-> "rst_stream", s |-> s, n |-> 0, end |-> FALSE]
GoAway(last) == [type |-> "goaway", s |-> 0, n |-> last, end |-> FALSE]

NoFrame == [type |-> "none", s |-> 0, n |-> 0, end |-> FALSE]

Result(c, out, err) == [c |-> c, out |-> out, err |-> err]

\* A connection once the SETTINGS of both ends have been applied.
Connection(role) ==
    [role |-> role,
     next_client_stream_id |-> 1,
     last_peer_client_stream_id |-> 0,
     send_connection_window |-> initial_connection_window_size,
     recv_connection_window |-> initial_connection_window_size,
     send_stream_windows |-> <<>>,
     recv_stream_windows |-> <<>>,
     peer_initial_stream_window |-> initial_window_size,
     active_local |-> {},
     active_peer |-> {},
     pending_client_frame |-> NoFrame,
     pending_requests |-> <<>>,
     peer_goaway |-> None,
     local_goaway |-> None]

available(window) == IF window > 0 THEN window ELSE 0

\* Stream windows are created when they are first looked up.
sendStreamWindow(c, s) ==
    IF s \in DOMAIN c.send_stream_windows THEN c.send_stream_windows[s]
    ELSE c.peer_initial_stream_window

recvStreamWindow(c, s) ==
    IF s \in DOMAIN c.recv_stream_windows THEN c.recv_stream_windows[s]
    ELSE initial_window_size

SetSendStreamWindow(c, s, value) ==
    [c EXCEPT !.send_stream_windows = (s :> value) @@ @]

SetRecvStreamWindow(c, s, value) ==
    [c EXCEPT !.recv_stream_windows = (s :> value) @@ @]

Without(f, s) == [x \in DOMAIN f \ {s} |-> f[x]]

forgetStreamWindows(c, s) ==
    [c EXCEPT !.send_stream_windows = Without(@, s),
              !.recv_stream_windows = Without(@, s)]

outboundStreamIsActive(c, s) == s \in c.active_local \cup c.active_peer

\* A stream nobody has opened yet.
streamIsIdle(c, s) ==
    /\ ~outboundStreamIsActive(c, s)
    /\ IF c.role = "server" THEN s > c.last_peer_client_stream_id
       ELSE s >= c.next_client_stream_id

releaseLocalStream(c, s) == [c EXCEPT !.active_local = @ \ {s}]

releasePeerStream(c, s) == [c EXCEPT !.active_peer = @ \ {s}]

\* A stream both of whose directions are closed at once.
RetireStream(c, s) ==
    forgetStreamWindows(releasePeerStream(releaseLocalStream(c, s), s), s)

\* Mutant: only the windows of a stream the peer reset are given up.
recordResetStreamMutant(c, s) == forgetStreamWindows(c, s)

\* RST_STREAM was received.
recordResetStream(c, s) == RetireStream(c, s)

sendResetStream(c, s) ==
    IF ~outboundStreamIsActive(c, s) THEN Result(c, <<>>, "InvalidStreamId")
    ELSE Result(RetireStream(c, s), <<ResetStream(s)>>, "")

\* Mutant: one stream more than the limit.
reserveNextClientStreamIdMutant(c) ==
    LET s == c.next_client_stream_id IN
    CASE c.peer_goaway # None /\ s > c.peer_goaway ->
             Result(c, <<>>, "ConnectionGoAway")
      [] Cardinality(c.active_local) > max_concurrent_streams ->
             Result(c, <<>>, "FlowControlBlocked")
      [] OTHER ->
             Result([c EXCEPT !.active_local = @ \cup {s},
                              !.next_client_stream_id = s + 2], <<>>, "")

\* A new stream of the client: not above a GOAWAY, and within the limit.
reserveNextClientStreamId(c) ==
    LET s == c.next_client_stream_id IN
    CASE c.peer_goaway # None /\ s > c.peer_goaway ->
             Result(c, <<>>, "ConnectionGoAway")
      [] Cardinality(c.active_local) >= max_concurrent_streams ->
             Result(c, <<>>, "FlowControlBlocked")
      [] OTHER ->
             Result([c EXCEPT !.active_local = @ \cup {s},
                              !.next_client_stream_id = s + 2], <<>>, "")

\* The server counts a new stream; it must fit the limit that was announced.
reservePeerStream(c, s) ==
    IF Cardinality(c.active_peer) >= max_concurrent_streams
    THEN Result(c, <<>>, "FlowControlViolation")
    ELSE Result([c EXCEPT !.active_peer = @ \cup {s}], <<>>, "")

\* What every reading loop does with the HEADERS of a new request: its id must
\* be new, and is remembered once the stream is counted.
openPeerStream(c, s) ==
    LET r == reservePeerStream(c, s) IN
    CASE s <= c.last_peer_client_stream_id -> Result(c, <<>>, "InvalidFrame")
      [] r.err # "" -> r
      [] OTHER -> Result([r.c EXCEPT !.last_peer_client_stream_id = s], <<>>, "")

\* The DATA frames of one write: chunks of at most FrameLimit bytes.
DataFrames(s, n, end) ==
    LET count == IF n = 0 THEN 1 ELSE (n + FrameLimit - 1) \div FrameLimit
    IN  [i \in 1..count |->
            IF i < count THEN Data(s, FrameLimit, FALSE)
            ELSE Data(s, n - (count - 1) * FrameLimit, end)]

\* What can be sent on s at once of n bytes.
SendCredit(c, s, n) ==
    LesserOf(n, LesserOf(available(c.send_connection_window),
                         available(sendStreamWindow(c, s))))

\* One burst: both windows are charged before the frames are written.
writeDataBurst(c, s, n, end) ==
    Result([SetSendStreamWindow(c, s, sendStreamWindow(c, s) - n)
            EXCEPT !.send_connection_window = @ - n],
           DataFrames(s, n, end), "")

\* Mutant: the connection window is not charged.
receiveDataPayloadMutant(c, s, n) ==
    IF n > c.recv_connection_window \/ n > recvStreamWindow(c, s)
    THEN Result(c, <<>>, "FlowControlViolation")
    ELSE Result(SetRecvStreamWindow(c, s, recvStreamWindow(c, s) - n), <<>>, "")

\* Both receive windows are charged, or neither.
receiveDataPayload(c, s, n) ==
    IF n > c.recv_connection_window \/ n > recvStreamWindow(c, s)
    THEN Result(c, <<>>, "FlowControlViolation")
    ELSE Result([SetRecvStreamWindow(c, s, recvStreamWindow(c, s) - n)
                 EXCEPT !.recv_connection_window = @ - n], <<>>, "")

\* WINDOW_UPDATEs for the increments given (0: none), in one write.
sendWindowUpdates(c, s, connection_increment, stream_increment) ==
    Result(LET credited == [c EXCEPT !.recv_connection_window =
                                       @ + connection_increment]
           IN  IF stream_increment = 0 THEN credited
               ELSE SetRecvStreamWindow(credited, s,
                        recvStreamWindow(c, s) + stream_increment),
           (IF connection_increment = 0 THEN <<>>
            ELSE <<WindowUpdate(0, connection_increment)>>) \o
           (IF stream_increment = 0 THEN <<>>
            ELSE <<WindowUpdate(s, stream_increment)>>), "")

\* A window is refilled to its target once it is half empty.
Refill(window, target) ==
    IF available(window) <= target \div 2 /\ available(window) < target
    THEN target - available(window) ELSE 0

\* Mutant: the connection window is never refilled.
maybeReleaseReceivedCapacityMutant(c, s) ==
    sendWindowUpdates(c, s, 0, Refill(recvStreamWindow(c, s), initial_window_size))

\* After a frame was taken in, both windows are topped up if they are low.
maybeReleaseReceivedCapacity(c, s) ==
    sendWindowUpdates(c, s,
        Refill(c.recv_connection_window, initial_connection_window_size),
        Refill(recvStreamWindow(c, s), initial_window_size))

releaseReceivedCapacity(c, s, n) ==
    IF n = 0 THEN Result(c, <<>>, "") ELSE sendWindowUpdates(c, s, n, n)

recordPeerGoAway(c, last) ==
    IF c.peer_goaway # None /\ last > c.peer_goaway
    THEN Result(c, <<>>, "InvalidFrame")
    ELSE Result([c EXCEPT !.peer_goaway = last], <<>>, "")

sendGoAway(c, last) ==
    IF c.local_goaway # None /\ last > c.local_goaway
    THEN Result(c, <<>>, "InvalidFrame")
    ELSE Result([c EXCEPT !.local_goaway = last], <<GoAway(last)>>, "")

\* The frames every reading loop gives to handleConnectionFrame first.
IsConnectionFrame(f) == f.type = "window_update"

handleConnectionFrame(c, f) ==
    IF f.s = 0 THEN
        IF c.send_connection_window + f.n > max_flow_window
        THEN LET g == sendGoAway(c, c.last_peer_client_stream_id)
             IN  Result(g.c, g.out, "ConnectionGoAway")
        ELSE Result([c EXCEPT !.send_connection_window = @ + f.n], <<>>, "")
    ELSE IF streamIsIdle(c, f.s) THEN Result(c, <<>>, "InvalidFrame")
    ELSE IF ~outboundStreamIsActive(c, f.s) THEN Result(c, <<>>, "")
    ELSE IF sendStreamWindow(c, f.s) + f.n > max_flow_window
    THEN Result(RetireStream(c, f.s), <<ResetStream(f.s)>>, "")
    ELSE Result(SetSendStreamWindow(c, f.s, sendStreamWindow(c, f.s) + f.n),
                <<>>, "")
===============================================================================

---------------------------- MODULE Http2Exchange ----------------------------
(***************************************************************************)
(* A client and a server of http2/runtime.zig on one connection.  The      *)
(* runtime blocks: an end reads frames only inside a call, so each end is  *)
(* a process whose `call` says which reading or writing loop it is in, and *)
(* each step of a loop handles one frame or writes one burst.  The two     *)
(* byte streams deliver every frame once and in order.                     *)
(*                                                                         *)
(* The client's application issues aggregate requests, batches, and        *)
(* incremental requests through RequestWriter objects, and may abandon     *)
(* them; the server's application reads requests, may reject them while    *)
(* their bodies arrive, may answer before the body has ended, and answers  *)
(* through writeResponse, a ResponseWriter it drops, or a response batch.  *)
(* An error that leaves the connection unusable ends the exchange          *)
(* (h2fault).                                                              *)
(***************************************************************************)
EXTENDS Http2Connection

CONSTANTS
    RequestSizes,     \* lengths of request bodies
    BatchSizes,       \* lengths of the bodies in a request batch
    ResponseSizes,    \* lengths of response bodies
    ChunkSize,        \* body_chunk_size of a response batch
    MaxServed,        \* max_requests of `serve`
    MaxEvents         \* bound: streams opened and streams cut short, in all

VARIABLES
    h2client, h2server,   \* the two Connections
    h2up, h2down,         \* frames on the way to the server, to the client
    h2caller,             \* the client application's call and its writers
    h2handler,            \* the server application's call and its requests
    h2fault,              \* the error that ended the exchange
    h2seen                \* what happened to each stream (history)

h2vars == <<h2client, h2server, h2up, h2down, h2caller, h2handler, h2fault,
            h2seen>>

\* A fault: the error, the call that returned it, the stream of the frame and
\* the streams the server counted at that moment.
NoFault == [err |-> "", at |-> "", s |-> 0, counted |-> {}]

\* The client's application.  In call "write" it sends `left` bytes on s and
\* then does `next`; in call "read" it waits for the responses of `members`,
\* in a `streaming` batch through requestBatchStreamingInto.
IdleCaller == [call |-> "none", s |-> 0, left |-> 0, next |-> "", members |-> {},
               streaming |-> FALSE, heads |-> <<>>, writers |-> <<>>]

\* The server's application.  `owed` are the requests it has read and not
\* answered; `gathered` the requests of a batch it is reading; `want` and `got`
\* the length announced and received of one being read; `left` the bytes of
\* each response it is writing, `turn` whose turn it is.  A read may be
\* readRequest or a streaming one; `aggregate` says that the one in progress
\* has done what only readRequest does.
IdleHandler == [call |-> "accept", aggregate |-> FALSE, s |-> 0, want |-> 0,
                got |-> 0, early |-> FALSE, gathered |-> <<>>, owed |-> <<>>,
                left |-> <<>>, turn |-> 1, served |-> 0, last |-> 0]

Http2Init ==
    /\ h2client = Connection("client")
    /\ h2server = Connection("server")
    /\ h2up = <<>> /\ h2down = <<>>
    /\ h2caller = IdleCaller
    /\ h2handler = IdleHandler
    /\ h2fault = NoFault
    /\ h2seen = [reset |-> {}, early |-> {}, lost |-> {}]

Running == h2fault = NoFault

Fail(err, at, s) == h2fault' = [err |-> err, at |-> at, s |-> s,
                                counted |-> h2server.active_peer]

\* Streams cancelled by an RST_STREAM, and streams the client gives up without
\* telling the server.
Reset(ss) == h2seen' = [h2seen EXCEPT !.reset = @ \cup ss]

Lost(ss) == h2seen' = [h2seen EXCEPT !.lost = @ \cup ss]

-------------------------------------------------------------------------------
(* Client calls.                                                            *)

ClientUnchanged == UNCHANGED <<h2server, h2down, h2handler, h2fault>>

\* The streams opened and the streams cut short so far.
Events == (h2client.next_client_stream_id - 1) \div 2
            + Cardinality(h2seen.reset \cup h2seen.early)

CallerIdle == /\ Running /\ h2caller.call = "none"
              /\ h2client.next_client_stream_id \in StreamIds
              /\ Events < MaxEvents

\* sendCompleteRequest: HEADERS and the body the credit allows in one write,
\* then the rest of the body, then the response is read.  The stream id is
\* reserved first; a refusal leaves the connection as it was.
Request(n) ==
    LET r == reserveNextClientStreamId(h2client)
        s == h2client.next_client_stream_id
        k == SendCredit(r.c, s, n)
        w == writeDataBurst(r.c, s, k, k = n)
    IN  /\ CallerIdle
        /\ r.err = ""
        /\ h2client' = IF k = 0 THEN r.c ELSE w.c
        /\ h2up' = h2up \o <<Headers(s, n, n = 0)>>
                        \o (IF k = 0 THEN <<>> ELSE w.out)
        /\ h2caller' = IF k = n
                       THEN [h2caller EXCEPT !.call = "read", !.members = {s}]
                       ELSE [h2caller EXCEPT !.call = "write", !.s = s,
                                             !.left = n - k, !.next = "read"]
        /\ ClientUnchanged /\ UNCHANGED h2seen

\* startRequest: HEADERS only; the body follows through the RequestWriter.
StartRequest(n) ==
    LET r == reserveNextClientStreamId(h2client)
        s == h2client.next_client_stream_id
    IN  /\ CallerIdle
        /\ r.err = ""
        /\ h2client' = r.c
        /\ h2up' = Append(h2up, Headers(s, n, FALSE))
        /\ h2caller' = [h2caller EXCEPT
                          !.writers = (s :> [left |-> n, finished |-> FALSE]) @@ @]
        /\ ClientUnchanged /\ UNCHANGED h2seen

\* RequestWriter.finishData: refused once a response frame is pending (the
\* request half is then ended with an empty DATA), otherwise it writes.
FinishData(s) ==
    /\ Running /\ h2caller.call = "none"
    /\ s \in DOMAIN h2caller.writers /\ ~h2caller.writers[s].finished
    /\ LET n == h2caller.writers[s].left
           done == [h2caller EXCEPT !.writers[s].finished = TRUE]
       IN  IF h2client.pending_client_frame # NoFrame \/ n = 0
           THEN /\ h2up' = Append(h2up, Data(s, 0, TRUE))
                /\ h2caller' = done
           ELSE /\ h2up' = h2up
                /\ h2caller' = [h2caller EXCEPT !.call = "write", !.s = s,
                                                !.left = n, !.next = "none"]
    /\ ClientUnchanged /\ UNCHANGED <<h2client, h2seen>>

\* RequestWriter.readResponse, once the body has ended.
ReadWriterResponse(s) ==
    /\ Running /\ h2caller.call = "none"
    /\ s \in DOMAIN h2caller.writers /\ h2caller.writers[s].finished
    /\ h2caller' = [h2caller EXCEPT !.call = "read", !.members = {s},
                                    !.writers = Without(@, s)]
    /\ ClientUnchanged /\ UNCHANGED <<h2client, h2up, h2seen>>

\* RequestWriter.deinit and reset: the stream is cancelled and retired.
CancelRequest(s) ==
    LET r == sendResetStream(h2client, s)
    IN  /\ Running /\ h2caller.call = "none"
        /\ s \in DOMAIN h2caller.writers
        /\ h2client' = r.c
        /\ h2up' = h2up \o r.out
        /\ h2caller' = [h2caller EXCEPT !.writers = Without(@, s)]
        /\ Reset({s})
        /\ ClientUnchanged

\* requestBatchInto, requestBodyBatchInto and, for requests without a body,
\* requestBatchStreamingInto: two requests are written, with bodies only if all
\* of them fit the credit there is, and both responses are then awaited.
\* Nothing else may be active.
RequestBatch(n1, n2, streaming) ==
    LET r1 == reserveNextClientStreamId(h2client)
        r2 == reserveNextClientStreamId(r1.c)
        s1 == h2client.next_client_stream_id
        s2 == r1.c.next_client_stream_id
        w1 == IF n1 = 0 THEN r2 ELSE writeDataBurst(r2.c, s1, n1, TRUE)
        w2 == IF n2 = 0 THEN w1 ELSE writeDataBurst(w1.c, s2, n2, TRUE)
    IN  /\ CallerIdle
        /\ h2client.active_local = {}
        /\ streaming => n1 = 0 /\ n2 = 0
        /\ r1.err = "" /\ s2 \in StreamIds /\ Events + 1 < MaxEvents /\ r2.err = ""
        /\ {n1, n2} \subseteq 0 .. available(h2client.peer_initial_stream_window)
        /\ n1 + n2 <= available(h2client.send_connection_window)
        /\ h2client' = w2.c
        /\ h2up' = h2up \o <<Headers(s1, n1, n1 = 0), Headers(s2, n2, n2 = 0)>>
                        \o w1.out \o (IF n2 = 0 THEN <<>> ELSE w2.out)
        /\ h2caller' = [h2caller EXCEPT !.call = "read", !.members = {s1, s2},
                                       !.streaming = streaming]
        /\ ClientUnchanged /\ UNCHANGED h2seen

\* A call returns to the application.
Returned(caller) == [caller EXCEPT !.call = "none", !.s = 0, !.left = 0,
                                   !.next = "", !.members = {},
                                   !.streaming = FALSE, !.heads = <<>>]

-------------------------------------------------------------------------------
(* The client writing a body: writeDataTracked and waitForSendCapacity.     *)

WriteBody ==
    LET n == SendCredit(h2client, h2caller.s, h2caller.left)
        w == writeDataBurst(h2client, h2caller.s, n, n = h2caller.left)
    IN  /\ Running /\ h2caller.call = "write"
        /\ h2client.pending_client_frame = NoFrame
        /\ n > 0
        /\ h2client' = w.c
        /\ h2up' = h2up \o w.out
        /\ h2caller' =
             IF n < h2caller.left THEN [h2caller EXCEPT !.left = @ - n]
             ELSE IF h2caller.next = "read"
             THEN [h2caller EXCEPT !.call = "read", !.left = 0,
                                   !.members = {h2caller.s}]
             ELSE [Returned(h2caller) EXCEPT !.writers[h2caller.s] =
                                               [left |-> 0, finished |-> TRUE]]
        /\ ClientUnchanged /\ UNCHANGED h2seen

\* The call ends without having written everything.  `request` returns the
\* error and releases the stream; a RequestWriter stays with the application.
WriteAborted(c, kept) ==
    IF h2caller.next = "read"
    THEN /\ h2client' = releaseLocalStream(c, h2caller.s)
         /\ h2caller' = Returned(h2caller)
         /\ Lost({h2caller.s})
    ELSE /\ h2client' = c
         /\ h2seen' = h2seen
         /\ h2caller' = [Returned(h2caller) EXCEPT !.writers =
                IF kept THEN [@ EXCEPT ![h2caller.s] = [left |-> 0, finished |-> TRUE]]
                ELSE Without(@, h2caller.s)]

\* writeDataTracked refuses at once while a response frame is pending, also
\* one of an earlier request.
WriteRefused ==
    /\ Running /\ h2caller.call = "write"
    /\ h2client.pending_client_frame # NoFrame
    /\ WriteAborted(h2client, TRUE)
    /\ ClientUnchanged /\ UNCHANGED h2up

\* One frame read by a writer without credit.  A response frame is kept for
\* the response reader and the writer ends the request half.
WaitForSendCapacity ==
    LET s == h2caller.s
        f == Head(h2down)
        r == handleConnectionFrame(h2client, f)
        g == recordPeerGoAway(h2client, f.n)
    IN  /\ Running /\ h2caller.call = "write"
        /\ h2client.pending_client_frame = NoFrame
        /\ SendCredit(h2client, s, h2caller.left) = 0
        /\ h2down # <<>>
        /\ h2down' = Tail(h2down)
        /\ CASE IsConnectionFrame(f) /\ r.err = "" ->
                  /\ h2client' = r.c
                  /\ UNCHANGED <<h2up, h2caller, h2fault, h2seen>>
             [] f.type = "goaway" /\ g.err = "" ->
                  /\ IF s > f.n THEN WriteAborted(releaseLocalStream(g.c, s), FALSE)
                     ELSE h2client' = g.c /\ UNCHANGED <<h2caller, h2seen>>
                  /\ UNCHANGED <<h2up, h2fault>>
             [] f.type = "rst_stream" ->
                  /\ IF f.s = s THEN WriteAborted(recordResetStream(h2client, s), FALSE)
                     ELSE UNCHANGED <<h2client, h2caller, h2seen>>
                  /\ UNCHANGED <<h2up, h2fault>>
             [] f.type \in {"headers", "data"} /\ f.s = s ->
                  /\ WriteAborted([h2client EXCEPT !.pending_client_frame = f], TRUE)
                  /\ h2up' = IF h2caller.next = "read" THEN h2up
                             ELSE Append(h2up, Data(s, 0, TRUE))
                  /\ UNCHANGED h2fault
             [] OTHER ->
                  /\ Fail(IF IsConnectionFrame(f) THEN r.err
                          ELSE IF f.type = "goaway" THEN g.err
                          ELSE "UnexpectedFrame", "write", f.s)
                  /\ UNCHANGED <<h2client, h2up, h2caller, h2seen>>
        /\ UNCHANGED <<h2server, h2handler>>

-------------------------------------------------------------------------------
(* The client reading responses: readResponse, readResponseBatch.           *)

\* A response head: what its Content-Length announced and what has arrived.
NoHead == [expected |-> None, got |-> 0, seen |-> FALSE, done |-> FALSE]

HeadOf(caller, s) == IF s \in DOMAIN caller.heads THEN caller.heads[s] ELSE NoHead

ValidLength(expected, got) == expected = None \/ expected = got

\* A HEADERS or DATA frame of a response, for a stream still being read.
ResponseFrame(c, head, f) ==
    IF f.type = "headers" THEN
        [c |-> c, out |-> <<>>,
         head |-> [expected |-> f.n, got |-> 0, seen |-> TRUE, done |-> f.end],
         err |-> IF head.seen THEN "UnexpectedFrame"
                 ELSE IF f.end /\ ~ValidLength(f.n, 0) THEN "InvalidContentLength"
                 ELSE ""]
    ELSE
        LET charged == receiveDataPayload(c, f.s, f.n)
            released == maybeReleaseReceivedCapacity(charged.c, f.s)
            got == head.got + f.n
        IN  [c |-> released.c, out |-> released.out,
             head |-> [head EXCEPT !.got = got, !.done = f.end],
             err |-> IF ~head.seen THEN "UnexpectedFrame"
                     ELSE IF charged.err # "" THEN charged.err
                     ELSE IF f.end /\ ~ValidLength(head.expected, got)
                     THEN "InvalidContentLength" ELSE ""]

ReleaseAll(c, ss) == [c EXCEPT !.active_local = @ \ ss]

ForgetAll(c, ss) ==
    [c EXCEPT !.send_stream_windows = [x \in DOMAIN @ \ ss |-> @[x]],
              !.recv_stream_windows = [x \in DOMAIN @ \ ss |-> @[x]]]

Unfinished(caller) == {s \in caller.members : ~HeadOf(caller, s).done}

\* A frame kept by a blocked writer comes first, except in a streaming batch,
\* which reads from the transport only.
Kept == h2client.pending_client_frame # NoFrame /\ ~h2caller.streaming

Incoming == IF Kept THEN h2client.pending_client_frame ELSE Head(h2down)

TakeIncoming == IF Kept THEN h2down' = h2down ELSE h2down' = Tail(h2down)

Reader == IF Kept THEN [h2client EXCEPT !.pending_client_frame = NoFrame] ELSE h2client

Reading == Running /\ h2caller.call = "read" /\ (Kept \/ h2down # <<>>)

\* writeBatchResponseResets: one write for all of them.
Resets(ss) ==
    LET ids == SelectSeq(StreamOrder, LAMBDA s : s \in ss)
    IN  [i \in 1..Len(ids) |-> ResetStream(ids[i])]

\* The responses are given up: every stream of the call is released here.  A
\* streaming batch cancels its unfinished streams at the server; any other
\* call leaves them open there.
ResponsesLost(c) ==
    /\ IF h2caller.streaming
       THEN /\ h2client' = ReleaseAll(ForgetAll(c, Unfinished(h2caller)), h2caller.members)
            /\ h2up' = h2up \o Resets(Unfinished(h2caller))
            /\ Reset(Unfinished(h2caller))
       ELSE /\ h2client' = ReleaseAll(c, h2caller.members)
            /\ h2up' = h2up
            /\ Lost(Unfinished(h2caller))
    /\ h2caller' = Returned(h2caller)

ReadResponse ==
    LET f == Incoming
        r == handleConnectionFrame(Reader, f)
        g == recordPeerGoAway(Reader, f.n)
        a == ResponseFrame(Reader, HeadOf(h2caller, f.s), f)
        next == [h2caller EXCEPT !.heads = (f.s :> a.head) @@ @]
    IN  /\ Reading
        /\ TakeIncoming
        /\ CASE IsConnectionFrame(f) /\ r.err = "" ->
                  /\ h2client' = r.c
                  /\ UNCHANGED <<h2up, h2caller, h2fault, h2seen>>
             [] f.type = "goaway" /\ g.err = "" ->
                  /\ IF \E s \in Unfinished(h2caller) : s > f.n
                     THEN ResponsesLost(g.c)
                     ELSE h2client' = g.c /\ UNCHANGED <<h2up, h2caller, h2seen>>
                  /\ UNCHANGED h2fault
             [] f.type = "rst_stream" /\ f.s \in Unfinished(h2caller) ->
                  /\ ResponsesLost(Reader)
                  /\ UNCHANGED h2fault
             [] /\ f.type \in {"headers", "data"}
                /\ f.s \in Unfinished(h2caller) /\ a.err = "" ->
                  /\ h2up' = h2up \o a.out
                  /\ IF Unfinished(next) # {}
                     THEN h2client' = a.c /\ h2caller' = next
                     ELSE /\ h2client' = ReleaseAll(a.c, h2caller.members)
                          /\ h2caller' = Returned(h2caller)
                  /\ UNCHANGED <<h2fault, h2seen>>
             [] OTHER ->
                  /\ Fail(IF IsConnectionFrame(f) THEN r.err
                          ELSE IF f.type = "goaway" THEN g.err
                          ELSE IF f.s \in Unfinished(h2caller) THEN a.err
                          ELSE "UnexpectedFrame", "read", f.s)
                  /\ UNCHANGED <<h2client, h2up, h2caller, h2seen>>
        /\ UNCHANGED <<h2server, h2handler>>

\* A streaming callback refuses a DATA frame: exactly what the frame charged
\* is given back, and every unfinished response of the call is cancelled.
\* A batch also forgets the windows of the streams it cancels.
ConsumeFails ==
    LET f == Incoming
        charged == receiveDataPayload(Reader, f.s, f.n)
        released == releaseReceivedCapacity(charged.c, f.s, f.n)
        cancelled == Unfinished(h2caller) \ (IF f.end THEN {f.s} ELSE {})
        c == ReleaseAll(released.c, h2caller.members)
    IN  /\ Reading
        /\ h2caller.streaming \/ Cardinality(h2caller.members) = 1
        /\ f.type = "data" /\ f.n > 0 /\ f.s \in Unfinished(h2caller)
        /\ HeadOf(h2caller, f.s).seen
        /\ charged.err = ""
        /\ TakeIncoming
        /\ h2client' = IF h2caller.streaming THEN ForgetAll(c, cancelled) ELSE c
        /\ h2up' = h2up \o released.out \o Resets(cancelled)
        /\ h2caller' = Returned(h2caller)
        /\ Reset(cancelled)
        /\ UNCHANGED <<h2server, h2handler, h2fault>>

\* serveConnection closes the connection behind the GOAWAY: a call that needs
\* another frame fails.
ConnectionClosed ==
    /\ Running /\ h2handler.call = "stopped"
    /\ h2down = <<>>
    /\ \/ h2caller.call = "read" /\ ~Kept
       \/ /\ h2caller.call = "write" /\ h2client.pending_client_frame = NoFrame
          /\ SendCredit(h2client, h2caller.s, h2caller.left) = 0
    /\ Fail("EndOfStream", h2caller.call, h2caller.s)
    /\ UNCHANGED <<h2client, h2server, h2up, h2down, h2caller, h2handler, h2seen>>

-------------------------------------------------------------------------------
(* The server reading a request: readRequest, readRequestStreaming.         *)

ServerUnchanged == UNCHANGED <<h2client, h2up, h2caller, h2fault>>

Handed(handler, s) == [handler EXCEPT !.call = "none", !.aggregate = FALSE,
                                      !.s = 0, !.want = 0, !.got = 0,
                                      !.owed = Append(@, s)]

\* The request being read is given up; the application reads the next one,
\* or goes back to the ones it owes.
Abandoned(handler) ==
    [handler EXCEPT !.call = IF handler.owed = <<>> THEN "accept" ELSE "none",
                    !.aggregate = FALSE, !.s = 0, !.want = 0, !.got = 0,
                    !.early = FALSE]

\* A request that was queued while another one's body was being read.
PopPendingRequest ==
    LET s == Head(h2server.pending_requests) IN
    /\ Running /\ h2handler.call = "accept" /\ h2handler.served < MaxServed
    /\ h2server.pending_requests # <<>>
    /\ h2server' = [h2server EXCEPT !.pending_requests = Tail(@)]
    /\ h2handler' = Handed(h2handler, s)
    /\ ServerUnchanged /\ UNCHANGED <<h2down, h2seen>>

\* Between requests readRequest records an RST_STREAM and reads on; a
\* streaming read has no place for it.
ReadResetBetween(s) ==
    \/ /\ ~streamIsIdle(h2server, s)
       /\ h2server' = recordResetStream(h2server, s)
       /\ h2handler' = [h2handler EXCEPT !.aggregate = TRUE]
       /\ UNCHANGED h2fault
    \/ /\ streamIsIdle(h2server, s) \/ ~h2handler.aggregate
       /\ Fail(IF streamIsIdle(h2server, s) THEN "InvalidFrame"
               ELSE "UnexpectedFrame", "accept", s)
       /\ UNCHANGED <<h2server, h2handler>>

AcceptRequest ==
    LET f == Head(h2up)
        r == handleConnectionFrame(h2server, f)
        p == openPeerStream(h2server, f.s)
    IN  /\ Running /\ h2handler.call = "accept" /\ h2handler.served < MaxServed
        /\ h2server.pending_requests = <<>>
        /\ h2up # <<>>
        /\ h2up' = Tail(h2up)
        /\ CASE IsConnectionFrame(f) /\ r.err = "" ->
                  /\ h2server' = r.c
                  /\ UNCHANGED <<h2handler, h2fault, h2seen>>
             [] f.type = "headers" /\ p.err = "" ->
                  /\ h2server' = p.c
                  /\ h2handler' = IF f.end THEN Handed(h2handler, f.s)
                                  ELSE [h2handler EXCEPT !.call = "body",
                                          !.s = f.s, !.want = f.n, !.got = 0,
                                          !.early = FALSE]
                  /\ UNCHANGED <<h2fault, h2seen>>
             [] f.type = "rst_stream" -> ReadResetBetween(f.s) /\ UNCHANGED h2seen
             [] OTHER ->
                  /\ Fail(IF IsConnectionFrame(f) THEN r.err
                          ELSE IF f.type = "headers" THEN p.err
                          ELSE "UnexpectedFrame", "accept", f.s)
                  /\ UNCHANGED <<h2server, h2handler, h2seen>>
        /\ UNCHANGED <<h2client, h2down, h2caller>>

\* The head callback of a streaming read refuses a request: the stream is
\* reset and released, the windows of a queued request are forgotten too.
RejectHead ==
    LET queued == h2server.pending_requests # <<>>
        s == IF queued THEN Head(h2server.pending_requests) ELSE Head(h2up).s
        p == openPeerStream(h2server, s)
        r == sendResetStream([h2server EXCEPT !.pending_requests = Tail(@)], s)
    IN  /\ Running /\ h2handler.call = "accept" /\ h2handler.served < MaxServed
        /\ ~h2handler.aggregate
        /\ IF queued
           THEN /\ h2server' = r.c
                /\ h2down' = h2down \o r.out
                /\ h2up' = h2up
           ELSE /\ h2up # <<>> /\ Head(h2up).type = "headers" /\ p.err = ""
                /\ h2server' = releasePeerStream(p.c, s)
                /\ h2down' = Append(h2down, ResetStream(s))
                /\ h2up' = Tail(h2up)
        /\ h2handler' = Abandoned(h2handler)
        /\ Reset({s})
        /\ UNCHANGED <<h2client, h2caller, h2fault>>

\* A request of another stream that is complete in its HEADERS waits in
\* pending_requests; no other frame of another stream is accepted.
queueCompletePeerRequestFrame(c, f) ==
    LET p == openPeerStream(c, f.s) IN
    IF f.type # "headers" \/ ~f.end THEN Result(c, <<>>, "UnexpectedFrame")
    ELSE IF p.err # "" THEN p
    ELSE Result([p.c EXCEPT !.pending_requests = Append(@, f.s)], <<>>, "")

ReadRequestBody ==
    LET f == Head(h2up)
        s == h2handler.s
        r == handleConnectionFrame(h2server, f)
        q == queueCompletePeerRequestFrame(h2server, f)
        charged == receiveDataPayload(h2server, s, f.n)
        released == maybeReleaseReceivedCapacity(charged.c, s)
        got == h2handler.got + f.n
    IN  /\ Running /\ h2handler.call = "body"
        /\ h2up # <<>>
        /\ h2up' = Tail(h2up)
        /\ CASE IsConnectionFrame(f) /\ r.err = "" ->
                  /\ h2server' = r.c
                  /\ UNCHANGED <<h2down, h2handler, h2fault, h2seen>>
             [] ~IsConnectionFrame(f) /\ f.s # s /\ q.err = "" ->
                  /\ h2server' = q.c
                  /\ UNCHANGED <<h2down, h2handler, h2fault, h2seen>>
             [] f.s = s /\ f.type = "data" /\ charged.err = "" ->
                  /\ h2down' = h2down \o released.out
                  /\ UNCHANGED h2seen
                  /\ IF ~f.end
                     THEN /\ h2server' = released.c
                          /\ h2handler' = [h2handler EXCEPT !.got = got]
                          /\ UNCHANGED h2fault
                     ELSE IF ~ValidLength(h2handler.want, got)
                     THEN /\ h2server' = releasePeerStream(released.c, s)
                          /\ Fail("InvalidContentLength", "body", s)
                          /\ UNCHANGED h2handler
                     ELSE /\ h2server' = released.c
                          /\ h2handler' =
                               IF h2handler.early
                               THEN [Abandoned(h2handler) EXCEPT
                                       !.served = @ + 1, !.last = s]
                               ELSE Handed(h2handler, s)
                          /\ UNCHANGED h2fault
             [] f.s = s /\ f.type = "rst_stream" ->
                  /\ h2server' = recordResetStream(h2server, s)
                  /\ h2handler' = Abandoned(h2handler)
                  /\ UNCHANGED <<h2down, h2fault, h2seen>>
             [] OTHER ->
                  /\ Fail(IF IsConnectionFrame(f) THEN r.err
                          ELSE IF f.s # s THEN q.err
                          ELSE IF f.type # "data" THEN "UnexpectedFrame"
                          ELSE charged.err, "body", f.s)
                  /\ UNCHANGED <<h2server, h2down, h2handler, h2seen>>
        /\ UNCHANGED <<h2client, h2caller>>

\* A streaming read's application refuses a DATA frame of a request: what the
\* frame charged is given back, RST_STREAM is written and the stream is
\* released; its windows are not forgotten.
RejectRequest ==
    LET f == Head(h2up)
        s == h2handler.s
        charged == receiveDataPayload(h2server, s, f.n)
        released == releaseReceivedCapacity(charged.c, s, f.n)
    IN  /\ Running /\ h2handler.call = "body" /\ ~h2handler.aggregate
        /\ h2up # <<>>
        /\ f.type = "data" /\ f.s = s /\ f.n > 0 /\ charged.err = ""
        /\ h2up' = Tail(h2up)
        /\ h2server' = releasePeerStream(released.c, s)
        /\ h2down' = h2down \o released.out \o <<ResetStream(s)>>
        /\ h2handler' = Abandoned(h2handler)
        /\ Reset({s})
        /\ UNCHANGED <<h2client, h2caller, h2fault>>

\* The application answers from the head callback, before the body has been
\* read: startResponse and finish.  The body is read to its end all the same.
AnswerEarly ==
    LET s == h2handler.s IN
    /\ Running /\ h2handler.call = "body" /\ ~h2handler.early
    /\ h2handler.got = 0 /\ ~h2handler.aggregate
    /\ h2server' = releasePeerStream(h2server, s)
    /\ h2down' = h2down \o <<Headers(s, None, FALSE), Data(s, 0, TRUE)>>
    /\ h2handler' = [h2handler EXCEPT !.early = TRUE]
    /\ h2seen' = [h2seen EXCEPT !.early = @ \cup {s}]
    /\ ServerUnchanged

\* readRequestBatchStreamingInto: the application reads two requests whose
\* frames may interleave.
ReadRequestBatch ==
    /\ Running /\ h2handler.call = "accept" /\ ~h2handler.aggregate
    /\ h2handler.owed = <<>>
    /\ h2handler.served + 2 <= MaxServed
    /\ Cardinality({i \in DOMAIN h2up : h2up[i].type = "headers"}) >= 2
    /\ h2handler' = [h2handler EXCEPT !.call = "gather"]
    /\ ServerUnchanged /\ UNCHANGED <<h2server, h2down, h2seen>>

\* The requests of the batch begun so far, in the order of their HEADERS.
Begun(gathered) ==
    SelectSeq(StreamOrder, LAMBDA s : s \in DOMAIN gathered)

\* A batch that fails cancels every request it has begun.
CancelBatch(c) ==
    /\ h2server' = [c EXCEPT !.active_peer = @ \ DOMAIN h2handler.gathered]
    /\ h2down' = h2down \o Resets(DOMAIN h2handler.gathered)
    /\ h2handler' = [Abandoned(h2handler) EXCEPT !.gathered = <<>>]

ReadBatchFrame ==
    LET f == Head(h2up)
        r == handleConnectionFrame(h2server, f)
        p == openPeerStream(h2server, f.s)
        known == f.s \in DOMAIN h2handler.gathered
        full == Cardinality(DOMAIN h2handler.gathered) = 2
        charged == receiveDataPayload(h2server, f.s, f.n)
        released == maybeReleaseReceivedCapacity(charged.c, f.s)
        opened == (f.s :> [want |-> f.n, got |-> 0, done |-> f.end])
                  @@ h2handler.gathered
        grown == [h2handler.gathered EXCEPT ![f.s] =
                    [@ EXCEPT !.got = @ + f.n, !.done = f.end]]
        Gather(gathered) ==
            IF Cardinality(DOMAIN gathered) = 2
               /\ \A s \in DOMAIN gathered : gathered[s].done
            THEN h2handler' = [h2handler EXCEPT !.call = "none", !.gathered = <<>>,
                                                !.owed = Begun(gathered)]
            ELSE h2handler' = [h2handler EXCEPT !.gathered = gathered]
    IN  /\ Running /\ h2handler.call = "gather"
        /\ h2up # <<>>
        /\ h2up' = Tail(h2up)
        /\ CASE IsConnectionFrame(f) /\ r.err = "" ->
                  /\ h2server' = r.c
                  /\ UNCHANGED <<h2down, h2handler, h2fault, h2seen>>
             [] f.type = "headers" /\ ~known /\ ~full /\ p.err = "" ->
                  /\ h2server' = p.c
                  /\ Gather(opened)
                  /\ UNCHANGED <<h2down, h2fault, h2seen>>
             [] /\ f.type = "data" /\ known /\ ~h2handler.gathered[f.s].done
                /\ charged.err = ""
                /\ f.end => ValidLength(grown[f.s].want, grown[f.s].got) ->
                  /\ h2server' = released.c
                  /\ h2down' = h2down \o released.out
                  /\ Gather(grown)
                  /\ UNCHANGED <<h2fault, h2seen>>
             [] f.type = "rst_stream" ->
                  /\ CancelBatch(recordResetStream(h2server, f.s))
                  /\ Reset(DOMAIN h2handler.gathered)
                  /\ UNCHANGED h2fault
             [] OTHER ->
                  /\ Fail(IF IsConnectionFrame(f) THEN r.err
                          ELSE IF f.type = "headers" /\ ~known /\ ~full THEN p.err
                          ELSE IF f.type = "headers" \/ ~known \/ h2handler.gathered[f.s].done
                          THEN "UnexpectedFrame"
                          ELSE IF charged.err # "" THEN charged.err
                          ELSE "InvalidContentLength", "gather", f.s)
                  /\ CancelBatch(h2server)
                  /\ UNCHANGED h2seen
        /\ UNCHANGED <<h2client, h2caller>>

-------------------------------------------------------------------------------
(* The server answering.                                                    *)

\* An application that expects several requests reads the next one before it
\* answers: one is queued or its HEADERS have been sent.
ReadAnother ==
    /\ Running /\ h2handler.call = "none"
    /\ Len(h2handler.owed) = 1 /\ h2handler.served < MaxServed
    /\ \/ h2server.pending_requests # <<>>
       \/ \E i \in DOMAIN h2up : h2up[i].type = "headers"
    /\ h2handler' = [h2handler EXCEPT !.call = "accept"]
    /\ ServerUnchanged /\ UNCHANGED <<h2server, h2down, h2seen>>

NextRequest(handler) ==
    LET rest == Tail(handler.owed) IN
    [handler EXCEPT !.call = IF rest = <<>> THEN "accept" ELSE "none",
                    !.owed = rest, !.s = 0, !.left = <<>>,
                    !.served = @ + 1, !.last = Head(handler.owed)]

\* writeResponse: HEADERS make the stream active again if it is not, the body
\* follows, and the stream is released.
WriteResponse(n) ==
    LET s == Head(h2handler.owed)
        c == [h2server EXCEPT !.active_peer = @ \cup {s}]
    IN  /\ Running /\ h2handler.call = "none"
        /\ h2down' = Append(h2down, Headers(s, n, n = 0))
        /\ IF n = 0
           THEN /\ h2server' = releasePeerStream(c, s)
                /\ h2handler' = NextRequest(h2handler)
           ELSE /\ h2server' = c
                /\ h2handler' = [h2handler EXCEPT !.call = "respond", !.s = s,
                                                  !.left = s :> n]
        /\ ServerUnchanged /\ UNCHANGED h2seen

\* startResponse and a ResponseWriter dropped unfinished: refused if the
\* stream is no longer active, otherwise HEADERS and RST_STREAM.
DropResponse ==
    LET s == Head(h2handler.owed)
        r == sendResetStream(h2server, s)
    IN  /\ Running /\ h2handler.call = "none"
        /\ h2server' = r.c
        /\ h2down' = IF r.err # "" THEN h2down
                     ELSE h2down \o <<Headers(s, None, FALSE)>> \o r.out
        /\ h2handler' = NextRequest(h2handler)
        /\ Reset({s})
        /\ ServerUnchanged

WriteResponseBody ==
    LET s == h2handler.s
        n == SendCredit(h2server, s, h2handler.left[s])
        w == writeDataBurst(h2server, s, n, n = h2handler.left[s])
    IN  /\ Running /\ h2handler.call = "respond"
        /\ n > 0
        /\ h2down' = h2down \o w.out
        /\ IF n < h2handler.left[s]
           THEN /\ h2server' = w.c
                /\ h2handler' = [h2handler EXCEPT !.left[s] = @ - n]
           ELSE /\ h2server' = releasePeerStream(w.c, s)
                /\ h2handler' = NextRequest(h2handler)
        /\ ServerUnchanged /\ UNCHANGED h2seen

\* The server's waitForSendCapacity: a reset of the stream ends the response,
\* a reset of another stream is dropped, and any request frame is an error.
AwaitResponseCredit ==
    LET s == h2handler.s
        f == Head(h2up)
        r == handleConnectionFrame(h2server, f)
    IN  /\ Running /\ h2handler.call = "respond"
        /\ SendCredit(h2server, s, h2handler.left[s]) = 0
        /\ h2up # <<>>
        /\ h2up' = Tail(h2up)
        /\ CASE IsConnectionFrame(f) /\ r.err = "" ->
                  h2server' = r.c /\ UNCHANGED <<h2handler, h2fault>>
             [] f.type = "rst_stream" ->
                  /\ IF f.s = s
                     THEN /\ h2server' = recordResetStream(h2server, s)
                          /\ h2handler' = NextRequest(h2handler)
                     ELSE UNCHANGED <<h2server, h2handler>>
                  /\ UNCHANGED h2fault
             [] OTHER ->
                  /\ Fail(IF IsConnectionFrame(f) THEN r.err
                          ELSE "UnexpectedFrame", "respond", f.s)
                  /\ UNCHANGED <<h2server, h2handler>>
        /\ UNCHANGED <<h2client, h2down, h2caller, h2seen>>

\* writeResponseBodyBatch for the two requests read: the heads of both, then
\* their bodies in turns.  Every stream must still be active.
WriteResponseBatch(n) ==
    LET s1 == h2handler.owed[1]
        s2 == h2handler.owed[2]
    IN  /\ Running /\ h2handler.call = "none"
        /\ Len(h2handler.owed) = 2
        /\ {s1, s2} \subseteq h2server.active_peer
        /\ h2down' = h2down \o <<Headers(s1, n, n = 0), Headers(s2, n, n = 0)>>
        /\ IF n = 0
           THEN /\ h2server' = releasePeerStream(releasePeerStream(h2server, s1), s2)
                /\ h2handler' = NextRequest(NextRequest(h2handler))
           ELSE /\ h2server' = h2server
                /\ h2handler' = [h2handler EXCEPT !.call = "batch", !.turn = 1,
                                   !.left = (s1 :> n) @@ (s2 :> n)]
        /\ ServerUnchanged /\ UNCHANGED h2seen

\* One stream's contribution to a pass; the next pass starts after it.
appendResponseBatchContribution(pass, index) ==
    LET s == h2handler.owed[index]
        n == SendCredit(pass.c, s, LesserOf(ChunkSize, pass.left[s]))
        w == writeDataBurst(pass.c, s, n, n = pass.left[s])
    IN  IF n = 0 THEN pass
        ELSE [c |-> w.c, out |-> pass.out \o w.out,
              left |-> [pass.left EXCEPT ![s] = @ - n],
              turn |-> (index % 2) + 1]

BatchPass ==
    LET start == [c |-> h2server, out |-> <<>>, left |-> h2handler.left,
                  turn |-> h2handler.turn]
        first == h2handler.turn
    IN  appendResponseBatchContribution(
            appendResponseBatchContribution(start, first), (first % 2) + 1)

WriteResponseBatchBody ==
    LET pass == BatchPass
        s1 == h2handler.owed[1]
        s2 == h2handler.owed[2]
    IN  /\ Running /\ h2handler.call = "batch"
        /\ pass.out # <<>>
        /\ h2down' = h2down \o pass.out
        /\ IF pass.left[s1] = 0 /\ pass.left[s2] = 0
           THEN /\ h2server' = releasePeerStream(releasePeerStream(pass.c, s1), s2)
                /\ h2handler' = NextRequest(NextRequest(h2handler))
           ELSE /\ h2server' = pass.c
                /\ h2handler' = [h2handler EXCEPT !.left = pass.left,
                                                  !.turn = pass.turn]
        /\ ServerUnchanged /\ UNCHANGED h2seen

\* waitForResponseBatchCapacity: a reset of a member fails the whole batch.
AwaitBatchCredit ==
    LET f == Head(h2up)
        r == handleConnectionFrame(h2server, f)
    IN  /\ Running /\ h2handler.call = "batch"
        /\ BatchPass.out = <<>>
        /\ h2up # <<>>
        /\ h2up' = Tail(h2up)
        /\ IF IsConnectionFrame(f) /\ r.err = ""
           THEN h2server' = r.c /\ UNCHANGED h2fault
           ELSE /\ Fail(IF IsConnectionFrame(f) THEN r.err
                        ELSE IF f.type = "rst_stream"
                             /\ f.s \in DOMAIN h2handler.left THEN "StreamReset"
                        ELSE "UnexpectedFrame", "batch", f.s)
                /\ UNCHANGED h2server
        /\ UNCHANGED <<h2client, h2down, h2caller, h2handler, h2seen>>

\* `serve` has answered max_requests: GOAWAY names the last one.
ServeComplete ==
    LET g == sendGoAway(h2server, h2handler.last) IN
    /\ Running /\ h2handler.call = "accept"
    /\ h2handler.served >= MaxServed /\ h2handler.owed = <<>>
    /\ h2server' = g.c
    /\ h2down' = h2down \o g.out
    /\ h2handler' = [h2handler EXCEPT !.call = "stopped"]
    /\ ServerUnchanged /\ UNCHANGED h2seen

-------------------------------------------------------------------------------
ClientCalls ==
    \/ \E n \in RequestSizes : Request(n) \/ StartRequest(n)
    \/ \E n1, n2 \in BatchSizes, streaming \in BOOLEAN : RequestBatch(n1, n2, streaming)
    \/ \E s \in StreamIds : FinishData(s) \/ ReadWriterResponse(s)

ClientSteps ==
    \/ WriteBody \/ WriteRefused \/ WaitForSendCapacity
    \/ ReadResponse \/ ConnectionClosed

ServerSteps ==
    \/ PopPendingRequest \/ AcceptRequest \/ ReadRequestBody \/ ReadBatchFrame
    \/ \E n \in ResponseSizes : WriteResponse(n)
    \/ WriteResponseBody \/ AwaitResponseCredit
    \/ WriteResponseBatchBody \/ AwaitBatchCredit
    \/ ServeComplete

ServerChoices ==
    \/ ReadRequestBatch \/ ReadAnother
    \/ \E n \in ResponseSizes : WriteResponseBatch(n)

\* An application cuts an exchange short.
Cuts ==
    /\ Events < MaxEvents
    /\ \/ \E s \in StreamIds : CancelRequest(s)
       \/ ConsumeFails
       \/ RejectHead \/ RejectRequest \/ AnswerEarly \/ DropResponse

Http2Next == ClientCalls \/ ClientSteps \/ ServerSteps \/ ServerChoices \/ Cuts

\* The calls an end is in that can go on: there is credit or a frame to read.
ClientReady ==
    LET frame == Kept \/ h2down # <<>> \/ h2handler.call = "stopped" IN
    /\ Running
    /\ \/ h2caller.call = "write"
          /\ (frame \/ SendCredit(h2client, h2caller.s, h2caller.left) > 0)
       \/ h2caller.call = "read" /\ frame

ServerReady ==
    /\ Running
    /\ CASE h2handler.call = "accept" ->
               IF h2handler.served < MaxServed
               THEN h2server.pending_requests # <<>> \/ h2up # <<>>
               ELSE h2handler.owed = <<>>
         [] h2handler.call \in {"body", "gather"} -> h2up # <<>>
         [] h2handler.call = "none" -> TRUE
         [] h2handler.call = "respond" ->
               \/ h2up # <<>>
               \/ SendCredit(h2server, h2handler.s, h2handler.left[h2handler.s]) > 0
         [] h2handler.call = "batch" -> h2up # <<>> \/ BatchPass.out # <<>>
         [] OTHER -> FALSE

\* The runtime keeps running each end's loop while it can: a frame that has
\* arrived is read and credit that exists is used.  What the applications
\* choose to start is not fair.  This is weak fairness of ClientSteps and of
\* ServerSteps, with the conditions under which they are enabled spelt out.
Http2Fairness ==
    /\ []<>(~ClientReady) \/ []<><<ClientSteps>>_h2vars
    /\ []<>(~ServerReady) \/ []<><<ServerSteps>>_h2vars

Http2Spec == Http2Init /\ [][Http2Next]_h2vars /\ Http2Fairness

-------------------------------------------------------------------------------
\* What the frames of one type for the streams ss carry, in all.
Total(q, type, ss) ==
    LET sum[i \in 0..Len(q)] ==
            IF i = 0 THEN 0
            ELSE sum[i - 1] + (IF q[i].type = type /\ q[i].s \in ss THEN q[i].n ELSE 0)
    IN  sum[Len(q)]

DataOn(q, ss) == Total(q, "data", ss)

UpdatesOn(q, s) == Total(q, "window_update", {s})

\* Nothing on the wire is forgotten: for the connection and for every stream
\* that is open at its sender and was never reset, the credit the sender
\* holds, the DATA on the way to the receiver and the WINDOW_UPDATEs on the
\* way back add up to the window the receiver keeps.
Http2CreditExact ==
    Running =>
      LET down == Append(h2down, h2client.pending_client_frame) IN
      /\ h2client.send_connection_window + DataOn(h2up, StreamIds)
            + UpdatesOn(h2down, 0) = h2server.recv_connection_window
      /\ h2server.send_connection_window + DataOn(down, StreamIds)
            + UpdatesOn(h2up, 0) = h2client.recv_connection_window
      /\ \A s \in h2client.active_local \ h2seen.reset :
            sendStreamWindow(h2client, s) + DataOn(h2up, {s})
              + UpdatesOn(h2down, s) = recvStreamWindow(h2server, s)
      /\ \A s \in h2server.active_peer \ h2seen.reset :
            sendStreamWindow(h2server, s) + DataOn(down, {s})
              + UpdatesOn(h2up, s) = recvStreamWindow(h2client, s)

\* The frame that ended the exchange opened a request the server refused.
RequestRefused == h2fault.s > h2server.last_peer_client_stream_id

\* Two ends of this runtime accuse each other of a protocol violation in one
\* case only.  No window, stream id or GOAWAY check fails; a new request is
\* refused, for the stream limit or as one too many for a batch, only while the
\* server still counts a stream that the client has cancelled, or has given up
\* silently: a request cut short by an answer, a batch cut short by a reset.
\* Otherwise an exchange ends early only through a frame its reader has no
\* place for: of a stream that was cancelled, given up or answered early, of
\* another request the client has open, or of any request while the server
\* waits to send; or through a writer whose body an early answer cut short.
Http2FaultsExplained ==
    /\ h2fault.err \in {"", "UnexpectedFrame", "StreamReset", "InvalidContentLength",
                       "FlowControlViolation", "EndOfStream"}
    /\ h2fault.err = "InvalidContentLength" => h2seen.early # {}
    /\ h2fault.err = "StreamReset" => h2fault.at = "batch"
    /\ h2fault.err = "FlowControlViolation" => RequestRefused
    /\ \/ h2fault.err = "FlowControlViolation"
       \/ h2fault.err = "UnexpectedFrame" /\ h2fault.at \in {"accept", "gather"}
       => IF RequestRefused THEN h2fault.counted \cap (h2seen.reset \cup h2seen.lost) # {}
          ELSE h2fault.s \in h2seen.reset \cup h2seen.lost
    /\ h2fault.at \in {"read", "write"} /\ h2fault.err # "EndOfStream" =>
         h2fault.s \in UNION {h2seen.reset, h2seen.lost, h2seen.early,
                             DOMAIN h2caller.writers}

\* No stream slot is leaked: once nothing is on the wire, no call is in
\* progress and no request is held by an application, neither end counts a
\* stream as active, so a later request finds the whole limit free.
StreamSlotsReturned ==
    /\ Running
    /\ h2up = <<>> /\ h2down = <<>>
    /\ h2caller.call = "none" /\ DOMAIN h2caller.writers = {}
    /\ h2handler.call \in {"accept", "stopped"} /\ h2handler.owed = <<>>
    /\ h2server.pending_requests = <<>>
    => h2client.active_local = {} /\ h2server.active_peer = {}

\* The server reads the body of a request whose writer the client left open.
HeldByWriter ==
    /\ h2handler.call = "body" /\ h2handler.s \in DOMAIN h2caller.writers
    /\ ~h2caller.writers[h2handler.s].finished

\* A client blocked for flow-control credit is not blocked for ever: the body
\* goes out, or the call ends with an answer, a reset, a GOAWAY or an error.
\* The one exception is an application that leaves another body unfinished.
BlockedUploadResumes ==
    (h2caller.call = "write") ~> (h2caller.call # "write" \/ ~Running \/ HeldByWriter)
===============================================================================

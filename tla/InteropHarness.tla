--------------------------- MODULE InteropHarness ---------------------------
(***************************************************************************)
(* tools/interop/mqtt_mosquitto_vectors.py runs each of its vectors against *)
(* a broker process: the harness is one sequential client of all the       *)
(* vector's sockets, and the broker's tasks run between any two of its     *)
(* steps.  TCP is external: each direction is a FIFO of whole packets (see *)
(* MqttFraming for their bytes), and what has arrived stays readable after *)
(* the peer closes.                                                        *)
(*                                                                         *)
(* The sockets' timeout of five seconds is not modelled: a read that never *)
(* succeeds leaves the vector unfinished.  Time passes in sleeps and, for  *)
(* vectors that depend on it, a slack of a few half seconds.               *)
(***************************************************************************)
EXTENDS MqttVectors, MqttBrokerWire

VARIABLES
    vector,    \* the name of the vector that runs
    script,    \* the steps it has still to take
    wanted,    \* what the step's expect has still to read
    assigned,  \* client identifiers the broker has assigned
    verdict,   \* "running", "passed" or "failed"
    slack      \* how much time may still pass beyond sleeps

harnessVars == <<vector, script, wanted, assigned, verdict, slack>>
vars == <<brokerVars, harnessVars>>

\* NetzBroker.__init__: the command line.
Config(v) == [limits |-> v.limits, connections |-> v.connections, ignore_errors |-> v.ignore_errors]

\* What the first step is to read, if anything.
Wanted(steps) == IF steps # <<>> /\ Head(steps).do = "expect" THEN Head(steps).want ELSE {}

HarnessInit ==
    \E v \in Vectors :
        /\ BrokerInit({Config(v)})
        /\ vector = v.name /\ script = v.script /\ slack = v.slack
        /\ wanted = Wanted(v.script) /\ assigned = {} /\ verdict = "running"

-----------------------------------------------------------------------------
(* What the harness does *)

Step == Head(script)

At(do) == verdict = "running" /\ script # <<>> /\ Step.do = do

\* On to the next step, unless an assertion fails.
Proceed(ok) ==
    /\ verdict' = IF ok THEN "running" ELSE "failed"
    /\ script' = Tail(script) /\ wanted' = Wanted(Tail(script))
    /\ UNCHANGED <<vector, slack>>

Socket == sockets[Step.c]

\* The step leaves this of its socket.
Leaves(socket) ==
    /\ sockets' = [sockets EXCEPT ![Step.c] = socket]
    /\ UNCHANGED <<config, slots, store, accepting, driver, failed, exited, now>>

\* NetzBroker.connect.
OpenSocket ==
    /\ At("open") /\ Leaves([Socket EXCEPT !.client = "open"])
    /\ Proceed(TRUE) /\ UNCHANGED assigned

\* The end of a socket's with statement.
CloseSocket ==
    /\ At("close") /\ Leaves([Socket EXCEPT !.client = "closed"])
    /\ Proceed(TRUE) /\ UNCHANGED assigned

SendPacket ==
    /\ At("send") /\ Leaves([Socket EXCEPT !.up = Append(@, Step.packet)])
    /\ Proceed(TRUE) /\ UNCHANGED assigned

Readable == Socket.down # <<>>

\* recv returns: with data, or because the connection has ended.
Returns == Readable \/ Socket.server # "open"

Reading == IF Readable THEN Leaves([Socket EXCEPT !.down = Tail(@)]) ELSE UNCHANGED brokerVars

\* expect_packet and expect_packets_unordered: the packet read is one of those
\* still expected.
ExpectPacket ==
    LET met == IF Readable THEN {want \in wanted : Head(Socket.down) \in want} ELSE {} IN
    /\ At("expect") /\ Returns /\ Reading
    /\ IF met = {} \/ met = wanted THEN Proceed(met # {})
       ELSE /\ wanted' = wanted \ {CHOOSE want \in met : TRUE}
            /\ UNCHANGED <<vector, script, verdict, slack>>
    /\ UNCHANGED assigned

ReadsConnAck == Readable /\ Head(Socket.down).type = "CONNACK"

\* connect_client and connect_persistent_v5 compare a part of CONNACK.
ReadConnAck ==
    /\ At("accepted") /\ Returns /\ Reading
    /\ Proceed(/\ ReadsConnAck
               /\ Head(Socket.down).present \in Step.presents
               /\ Head(Socket.down).rc \in Step.reasons)
    /\ UNCHANGED assigned

\* assigned_client_identifier: a fresh session is accepted, with an identifier
\* that is a new one, and everything else is as for any other client.
ReadAssigned ==
    LET id == Head(Socket.down).assigned IN
    /\ At("assigned") /\ Returns /\ Reading
    /\ Proceed(/\ ReadsConnAck
               /\ id \notin assigned \cup {""}
               /\ Head(Socket.down) = GenConnAck(5, FALSE, id, GenLimits))
    /\ assigned' = IF ReadsConnAck THEN assigned \cup {id} ELSE assigned

\* recv with a timeout of 0.05 seconds: nothing has come by then.
StaySilent ==
    /\ At("silence") /\ Proceed(~Readable)
    /\ UNCHANGED <<brokerVars, assigned>>

\* recv must find the end of the stream; what the broker has not read when it
\* closes turns that into a reset.
ReadEnd ==
    /\ At("ended") \/ At("eof")
    /\ Returns
    /\ Proceed(~Readable /\ (Step.do = "eof" => Socket.up = <<>>))
    /\ UNCHANGED <<brokerVars, assigned>>

SleepFor ==
    /\ At("sleep") /\ Proceed(TRUE)
    /\ now' = now + Step.for
    /\ UNCHANGED <<config, sockets, slots, store, accepting, driver, failed, exited, assigned>>

\* NetzBroker.__exit__: the broker must end by itself, with status 0.
AwaitExit ==
    /\ verdict = "running" /\ script = <<>> /\ exited # "no"
    /\ verdict' = IF exited = "ok" THEN "passed" ELSE "failed"
    /\ UNCHANGED <<brokerVars, vector, script, wanted, assigned, slack>>

\* Time passes between two steps.
Elapse ==
    /\ verdict = "running" /\ slack > 0
    /\ slack' = slack - 1 /\ now' = now + 1
    /\ UNCHANGED <<vector, script, wanted, assigned, verdict>>
    /\ UNCHANGED <<config, sockets, slots, store, accepting, driver, failed, exited>>

Harness ==
    \/ OpenSocket \/ CloseSocket \/ SendPacket \/ ExpectPacket \/ ReadConnAck \/ ReadAssigned
    \/ StaySilent \/ ReadEnd \/ SleepFor \/ AwaitExit \/ Elapse

\* The harness, or some part of the broker, has something to do.
Busy ==
    \/ /\ verdict = "running"
       /\ IF script = <<>> THEN exited # "no"
          ELSE Step.do \in {"open", "close", "send", "silence", "sleep"} \/ Returns
    \/ BrokerBusy

\* Everyone waits for someone else, or the vector is over.
Idle == ~Busy /\ UNCHANGED vars

HarnessNext == Harness \/ (BrokerNext /\ UNCHANGED harnessVars) \/ Idle

\* The operating system schedules the harness and the broker's tasks:
\* something happens as long as there is something to do.
HarnessSpec ==
    HarnessInit /\ [][HarnessNext]_vars /\ ([]<>(~Busy) \/ []<><<TRUE>>_vars)

-----------------------------------------------------------------------------
(* Properties *)

\* No assertion of a vector can fail, whatever order the broker's tasks, the
\* accept loop and the Will driver run in: every packet the broker writes is
\* the one expect_packet compares it with, silences stay silent, and the broker
\* exits with status 0 (NetzBroker.__exit__).
VectorsPass == verdict # "failed"

\* Every vector comes to its end: no read of the harness waits for a packet
\* that the broker has no reason left to send, and Broker.serve returns once
\* the expected connections have been served.
VectorsFinish == <>(verdict # "running")

=============================================================================

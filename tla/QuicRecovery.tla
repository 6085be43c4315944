---------------------------- MODULE QuicRecovery ----------------------------
(***************************************************************************)
(* Reliable delivery over one 1-RTT packet number space (quic/one_rtt.zig).*)
(*                                                                         *)
(* One endpoint sends application payloads; the sent-packet tracker, the   *)
(* recovery queue and the congestion controller each keep their own record *)
(* of a packet, and every send, ACK, loss and rollback must move all three *)
(* together.  The other endpoint records what arrives, and acknowledges it *)
(* at once or after the ACK delay.  The network loses, reorders and        *)
(* duplicates packets in both directions; sockets may refuse a datagram    *)
(* after it was protected.                                                 *)
(*                                                                         *)
(* Every packet is ack-eliciting, in flight and one unit long.  Clocks are *)
(* abstracted: a loss delay that expires is any cutoff at or below the     *)
(* largest acknowledged number, and pacing may stop any batch early.       *)
(***************************************************************************)
EXTENDS QuicPacketSpace, QuicCongestion, QuicRecoveryQueue

CONSTANTS
    Payloads,         \* what the application sends
    MaxPacketNumber,  \* bound: packet numbers are 0 .. MaxPacketNumber
    MaxAcks,          \* bound: how many of the newest ACK frames may still arrive
    PersistentSpan,   \* persistentCongestionThreshold, in send times
    InitialPolicy,    \* the receiver's ack_eliciting_threshold and requested_max_ack_delay
    AckPolicies,      \* what they may change to
    ReorderThreshold, \* ack_reordering_threshold
    MaxFailures,      \* bound: how often a socket refuses datagrams
    MaxPolicyChanges  \* bound: how often the ACK policy changes

ASSUME RecoveryBounds ==
    /\ MaxPacketNumber \in Nat /\ MaxAcks \in Nat \ {0} /\ PersistentSpan \in Nat
    /\ InitialPolicy \in Nat \X Nat /\ AckPolicies \subseteq Nat \X Nat
    /\ ReorderThreshold \in Nat \ {0}
    /\ MaxFailures \in Nat /\ MaxPolicyChanges \in Nat

VARIABLES
    todo,      \* payloads the application has not handed over yet
    tx,        \* the sender's transport state
    closed,    \* close_info is set
    failures,  \* how often a socket refused datagrams
    wire,      \* packets the socket accepted; any of them may arrive, again and again
    received,  \* the receiver's ReceivedPacketTracker
    processed, \* ghost: how often the receiver applied each packet
    policy,    \* the receiver's ack_eliciting_threshold and requested_max_ack_delay
    changes,   \* how often the policy changed
    owed,      \* ack_eliciting_since_last_ack
    ackTimer,  \* ack_delay_deadline_ns is set
    lapsed,    \* ghost: packets since the last ACK whose own ACK could not be sent
    untimed,   \* ghost: packets since the last ACK that came when no delay was set
    acks,      \* ACK frames in the network, newest first
    reported,  \* ghost: numbers named by some ACK frame that was sent
    confirmed  \* the largest number in an ACK frame that the sender received

ackVars == <<owed, ackTimer, lapsed, untimed, acks, reported>>
receiver == <<received, processed, policy, changes, ackVars>>
vars == <<todo, tx, closed, failures, wire, receiver, confirmed>>

PacketNumbers == 0 .. MaxPacketNumber

Policy(p) == [threshold |-> Larger(1, p[1]), delay |-> p[2]]

RecoveryInit ==
    /\ todo = Payloads
    /\ tx = [next |-> 0, sent |-> NothingSent, queue |-> EmptyQueue, cc |-> NewController,
             sample |-> NoPacket, persistent |-> NoPacket]
    /\ closed = FALSE
    /\ failures = 0
    /\ wire = {}
    /\ received = NothingReceived
    /\ processed = [pn \in PacketNumbers |-> 0]
    /\ policy = Policy(InitialPolicy) /\ changes = 0
    /\ owed = 0 /\ ackTimer = FALSE /\ lapsed = {} /\ untimed = {}
    /\ acks = <<>> /\ reported = {} /\ confirmed = NoPacket

-----------------------------------------------------------------------------
\* Sending.  A packet is entered in the controller, the queue and the tracker
\* before the socket sees it; what the socket refuses is taken out again.

SentPacket(pn) ==
    [pn |-> pn, eliciting |-> TRUE, inFlight |-> TRUE, acked |-> FALSE, lost |-> FALSE, bytes |-> 1]

Room(n) == tx.next + n <= MaxPacketNumber + 1

\* A payload carries the sender's ACK of what has arrived, as encoded once.
Carried(data) == [data |-> data, confirmed |-> confirmed]

SocketAccepts == UNCHANGED failures
SocketFails == failures < MaxFailures /\ failures' = failures + 1

\* sendPreparedFramesEcnAtUnchecked, up to the socket call.
TrackNew(t, pn, payload) ==
    [t EXCEPT !.cc = Charge(@, 1),
              !.queue = TrackSent(@, pn, payload),
              !.sent = RecordSent(@, SentPacket(pn))]

\* retransmitCandidateAt, up to the socket call.
TrackCopy(t, pn, position) ==
    [t EXCEPT !.cc = Charge(@, 1),
              !.queue = RecordRetransmission(@, position, pn),
              !.sent = RecordSent(@, SentPacket(pn))]

\* Mutant: a rollback forgets the controller.
UntrackChargeMutant(t, pn) ==
    [t EXCEPT !.sent = Forget(@, pn), !.queue = ForgetPacketNumber(@, pn)]

\* The errdefer blocks of the senders.
Untrack(t, pn) ==
    [t EXCEPT !.sent = Forget(@, pn),
              !.queue = ForgetPacketNumber(@, pn),
              !.cc = Discharge(@, 1)]

\* sendWithEcnAtRaw of one payload: on success the number is used up; when the
\* socket fails everything is undone.
Send(payload) ==
    /\ ~closed /\ Room(1) /\ CanReserve(tx.cc, 1)
    /\ LET tracked == TrackNew(tx, tx.next, Carried(payload))
       IN  \/ /\ SocketAccepts
              /\ tx' = [tracked EXCEPT !.next = @ + 1]
              /\ wire' = wire \cup {[pn |-> tx.next, payload |-> Carried(payload)]}
              /\ todo' = todo \ {payload}
           \/ /\ SocketFails
              /\ tx' = Untrack(tracked, tx.next)
              /\ UNCHANGED <<wire, todo>>
    /\ UNCHANGED <<closed, receiver, confirmed>>

\* sendManyProgressAt: the batch is cut to what the window holds, the socket
\* takes a prefix, the suffix is forgotten, and every protected number is used.
SendBatch(a, b) ==
    /\ ~closed /\ Room(2) /\ CanReserve(tx.cc, 2)
    /\ LET tracked == TrackNew(TrackNew(tx, tx.next, Carried(a)), tx.next + 1, Carried(b))
           First == [pn |-> tx.next, payload |-> Carried(a)]
           Second == [pn |-> tx.next + 1, payload |-> Carried(b)]
           kept == [tracked EXCEPT !.next = @ + 2]
       IN  \/ /\ SocketAccepts
              /\ tx' = kept
              /\ wire' = wire \cup {First, Second}
              /\ todo' = todo \ {a, b}
           \/ /\ SocketFails
              /\ tx' = Untrack(kept, tx.next + 1)
              /\ wire' = wire \cup {First}
              /\ todo' = todo \ {a}
           \/ /\ SocketFails
              /\ tx' = Untrack(Untrack(kept, tx.next), tx.next + 1)
              /\ UNCHANGED <<wire, todo>>
    /\ UNCHANGED <<closed, receiver, confirmed>>

\* retransmitCandidateAt of the group at a position; the caller has checked
\* the congestion window where the mode asks for it.
Retransmit(position) ==
    LET tracked == TrackCopy(tx, tx.next, position)
    IN  /\ \/ /\ SocketAccepts
              /\ tx' = [tracked EXCEPT !.next = @ + 1]
              /\ wire' = wire \cup {[pn |-> tx.next, payload |-> tx.queue.pending[position].payload]}
           \/ /\ SocketFails
              /\ tx' = Untrack(tracked, tx.next)
              /\ UNCHANGED wire

\* The PTO branch of serviceLossDetectionTimer with one pending group: a single
\* probe, outside the congestion window.
PtoProbe ==
    /\ ~closed /\ Room(1) /\ Len(tx.queue.pending) = 1
    /\ Retransmit(1)
    /\ UNCHANGED <<todo, closed, receiver, confirmed>>

\* ... and with more: retransmitPtoProbeBatchAt protects count probes, the
\* socket takes the first accepted of them, and next_packet_number advances by
\* the accepted ones only.
PtoProbeBatch(count, accepted) ==
    LET Track[n \in 0 .. count] ==
            IF n = 0 THEN tx ELSE TrackCopy(Track[n - 1], tx.next + n - 1, n)
        Cut[n \in accepted .. count] ==
            IF n = accepted THEN Track[count] ELSE Untrack(Cut[n - 1], tx.next + n - 1)
    IN  /\ ~closed /\ Room(count) /\ Len(tx.queue.pending) >= 2
        /\ IF accepted < count THEN SocketFails ELSE SocketAccepts
        /\ tx' = [Cut[count] EXCEPT !.next = @ + accepted]
        /\ wire' = wire \cup {[pn |-> tx.next + n - 1, payload |-> tx.queue.pending[n].payload] :
                                 n \in 1 .. accepted}
        /\ UNCHANGED <<todo, closed, receiver, confirmed>>

\* retransmitPacketThresholdLoss.
RetransmitThresholdLoss ==
    LET candidate == ThresholdCandidate(tx.queue, tx.sent.largest - PacketThreshold)
    IN  /\ ~closed /\ Room(1) /\ candidate # 0 /\ CanReserve(tx.cc, 1)
        /\ Retransmit(candidate)
        /\ UNCHANGED <<todo, closed, receiver, confirmed>>

-----------------------------------------------------------------------------
\* Loss.

\* applyPersistentCongestionIfDetected.
ApplyPersistentCongestion(t) ==
    LET periods == {p \in PersistentCongestionPeriods(t.sent, t.sample, t.sent.largest, t.persistent) :
                       p[2] - p[1] > PersistentSpan}
        longest == CHOOSE p \in periods : \A q \in periods :
                      \/ q[2] - q[1] < p[2] - p[1]
                      \/ q[2] - q[1] = p[2] - p[1] /\ q[2] <= p[2]
    IN  IF periods = {} THEN t
        ELSE [t EXCEPT !.cc = OnPersistentCongestion(@), !.sample = NoPacket,
                       !.persistent = longest[2]]

\* One loss detection pass over the packets numbered up to pn.
DeclareLost(t, pn) ==
    LET lost == LostResult(t.sent, pn)
        marked == [t EXCEPT !.sent = MarkLost(@, pn)]
    IN  IF lost.bytes = 0 THEN marked
        ELSE ApplyPersistentCongestion(
                [marked EXCEPT !.cc = OnLost(@, lost.bytes, lost.largest, t.next - 1)])

\* The lost packets that are still the newest copy of their group, in order.
LostNewest(t) ==
    SelectSeq(t.sent.packets, LAMBDA p :
        /\ p.lost /\ PositionOf(t.queue, p.pn) # 0
        /\ t.queue.pending[PositionOf(t.queue, p.pn)].newest = p.pn)

\* retransmitTimeThresholdLoss: declare the packets up to cutoff lost and send
\* the lost groups again until the window, the pacer or the socket stops it.
LossTimer(cutoff, count, fails) ==
    LET lossy == DeclareLost(tx, cutoff)
        again == LostNewest(lossy)
        At(n) == PositionOf(lossy.queue, again[n].pn)
        Sent[n \in 0 .. count] ==
            IF n = 0 THEN lossy
            ELSE [TrackCopy(Sent[n - 1], tx.next + n - 1, At(n)) EXCEPT !.next = @ + 1]
        done == Sent[count]
    IN  /\ ~closed /\ tx.queue.pending # <<>>
        /\ cutoff <= tx.sent.largest
        /\ count <= Len(again) /\ Room(count) /\ CanReserve(lossy.cc, count)
        /\ wire' = wire \cup {[pn |-> tx.next + n - 1, payload |-> lossy.queue.pending[At(n)].payload] :
                                 n \in 1 .. count}
        /\ IF fails
           THEN /\ SocketFails /\ count < Len(again) /\ Room(count + 1) /\ CanReserve(done.cc, 1)
                /\ tx' = Untrack(TrackCopy(done, done.next, At(count + 1)), done.next)
           ELSE /\ SocketAccepts /\ tx' = done
        /\ UNCHANGED <<todo, closed, receiver, confirmed>>

\* updateRttFromAck: only the epoch of the first sample matters here.
SampleRtt(t, ack) ==
    LET newest == {i \in DOMAIN t.sent.packets :
                      t.sent.packets[i].pn = ack.largest /\ ~t.sent.packets[i].acked}
    IN  IF ack.largest > t.sent.largest /\ newest # {} /\ t.sample = NoPacket
        THEN [t EXCEPT !.sample = ack.largest] ELSE t

\* The ACK branch of applyReceivedFramesForDestination.
ApplyAckFrame(t, ack, cutoff) ==
    LET utilized == WindowUtilized(t.cc)
        sampled == SampleRtt(t, ack)
        acked == AckResult(t.sent, ack)
        marked == [sampled EXCEPT !.sent = ApplyAck(@, ack),
                                  !.cc = OnAcked(@, acked.bytes, acked.largest, utilized)]
        lossy == DeclareLost(DeclareLost(marked, ack.largest - PacketThreshold), cutoff)
    IN  [lossy EXCEPT !.queue = RetireAcked(@, AckedNumbers(ack))]

\* An ACK frame arrives.  validateReceivedFramePreconditions runs first and an
\* ACK it refuses closes the connection.
RecvAck(i, cutoff) ==
    /\ ~closed /\ cutoff <= acks[i].largest
    /\ IF AckCoversSentPackets(tx.sent, acks[i])
       THEN /\ tx' = ApplyAckFrame(tx, acks[i], cutoff)
            /\ confirmed' = Larger(confirmed, acks[i].largest)
            /\ UNCHANGED closed
       ELSE /\ closed' = TRUE
            /\ UNCHANGED <<tx, confirmed>>
    /\ UNCHANGED <<todo, failures, wire, receiver>>

-----------------------------------------------------------------------------
\* Receiving.

\* sendAck with ackDelaySent: everything retained is reported.
AckSent(tracker) ==
    /\ tracker.ranges # <<>> /\ SocketAccepts
    /\ acks' = SubSeq(<<AckFrame(tracker)>> \o acks, 1, Smaller(Len(acks) + 1, MaxAcks))
    /\ reported' = reported \cup Retained(tracker)
    /\ owed' = 0 /\ ackTimer' = FALSE
    /\ lapsed' = {} /\ untimed' = {}

\* sendAck fails: there is nothing to report (ackFrameInto), or the socket
\* refuses the packet.
AckFails(tracker) == IF tracker.ranges = <<>> THEN SocketAccepts ELSE SocketFails

\* The immediate ACK of a packet; when it fails the errdefer takes the packet
\* out of the count again, and no timer is set.
SendAck(tracker, pn) ==
    \/ AckSent(tracker)
    \/ /\ AckFails(tracker)
       /\ lapsed' = lapsed \cup {pn}
       /\ UNCHANGED <<owed, ackTimer, untimed, acks, reported>>

\* Mutant: the timer is set by the second packet.
ScheduleAckDelayMutant(pn) ==
    /\ owed' = owed + 1
    /\ ackTimer' = (ackTimer \/ (policy.delay # 0 /\ owed > 0))
    /\ untimed' = IF policy.delay = 0 THEN untimed \cup {pn} ELSE untimed
    /\ UNCHANGED <<failures, lapsed, acks, reported>>

\* scheduleAckDelayIfNeeded: without a requested_max_ack_delay there is no
\* timer, and the packet waits for others to reach the threshold.
ScheduleAckDelay(pn) ==
    /\ owed' = owed + 1
    /\ ackTimer' = (ackTimer \/ policy.delay # 0)
    /\ untimed' = IF policy.delay = 0 THEN untimed \cup {pn} ELSE untimed
    /\ UNCHANGED <<failures, lapsed, acks, reported>>

\* A packet arrives: applyReceivedFramesForDestination, then the ACK policy of
\* sendAckForPacketIfNeeded.  The payload may carry an ACK of the packet that
\* carried our ACK, which lets the tracker drop what that one reported.
Receive(w, prunes) ==
    LET recorded == RecordFresh(received, w.pn)
        tracker == IF prunes THEN PruneAckedRanges(recorded.tracker, w.payload.confirmed)
                             ELSE recorded.tracker
        largest == Head(tracker.ranges).end
        reordered == /\ tracker.ranges # <<>> /\ w.pn < largest
                     /\ largest - w.pn >= ReorderThreshold
        delayed == ~reordered /\ owed + 1 < policy.threshold
    IN  /\ WouldRecordFresh(received, w.pn)
        /\ prunes => w.payload.confirmed # NoPacket
        /\ received' = tracker
        /\ processed' = [processed EXCEPT ![w.pn] = @ + IF recorded.fresh THEN 1 ELSE 0]
        /\ IF delayed THEN ScheduleAckDelay(w.pn) ELSE SendAck(tracker, w.pn)
        /\ UNCHANGED <<todo, tx, closed, wire, policy, changes, confirmed>>

\* serviceAckDelayTimerAt: when the ACK cannot be sent the timer stays.
AckDelayExpires ==
    /\ ackTimer
    /\ \/ AckSent(received)
       \/ AckFails(received) /\ UNCHANGED ackVars
    /\ UNCHANGED <<todo, tx, closed, wire, received, processed, policy, changes, confirmed>>

\* configureAckPolicy, or an ACK_FREQUENCY frame of the peer: a timer that is
\* set stays, a packet that waits without one goes on waiting.
ConfigureAckPolicy(p) ==
    /\ changes < MaxPolicyChanges
    /\ policy' = Policy(p)
    /\ changes' = changes + 1
    /\ UNCHANGED <<todo, tx, closed, failures, wire, received, processed, ackVars, confirmed>>

\* What an expired loss delay may reach: the newest packet it has run out for.
OutstandingNumbers ==
    {tx.sent.packets[i].pn : i \in {j \in DOMAIN tx.sent.packets : Outstanding(tx.sent.packets[j])}}

RecoveryNext ==
    \/ \E p \in todo : Send(p)
    \/ \E a, b \in todo : a # b /\ SendBatch(a, b)
    \/ PtoProbe
    \/ \E count \in 1 .. 2 : \E accepted \in 0 .. count : PtoProbeBatch(count, accepted)
    \/ RetransmitThresholdLoss
    \/ \E cutoff \in OutstandingNumbers, count \in 0 .. 2, fails \in BOOLEAN :
           LossTimer(cutoff, count, fails)
    \/ \E i \in DOMAIN acks, cutoff \in {NoPacket} \cup OutstandingNumbers : RecvAck(i, cutoff)
    \/ \E w \in wire, prunes \in BOOLEAN : Receive(w, prunes)
    \/ AckDelayExpires
    \/ \E p \in AckPolicies : ConfigureAckPolicy(p)

RecoverySpec == RecoveryInit /\ [][RecoveryNext]_vars
-----------------------------------------------------------------------------
Delivered == {w.payload.data : w \in {v \in wire : processed[v.pn] > 0}}

\* The types of the endpoints' state; the window never falls below its minimum.
RecoveryTypeOK ==
    /\ todo \subseteq Payloads /\ closed \in BOOLEAN /\ ackTimer \in BOOLEAN
    /\ tx.next \in 0 .. MaxPacketNumber + 1
    /\ tx.cc.window >= MinimumWindow /\ tx.cc.inFlight \in Nat
    /\ \A w \in wire : w.pn \in PacketNumbers /\ w.payload.data \in Payloads
    /\ owed \in 0 .. MaxPacketNumber /\ Len(acks) <= MaxAcks
    /\ policy.threshold \in Nat \ {0} /\ policy.delay \in Nat
    /\ confirmed \in {NoPacket} \cup PacketNumbers

\* The congestion controller's bytes_in_flight is the sum over the tracker's
\* outstanding packets after every send, partial batch, rollback, ACK and loss
\* (one_rtt.zig charges and discharges the two separately).
\* What counts as in flight is on the wire: a rollback leaves no phantom charge.
InFlightExact ==
    /\ tx.cc.inFlight = BytesOutstanding(tx.sent)
    /\ OutstandingNumbers \subseteq {w.pn : w \in wire}

\* The recovery queue lets go of a payload only when the peer has processed a
\* copy of it: what the application handed over is pending or delivered.
NothingForgotten ==
    Payloads \ todo \subseteq
        Delivered \cup {tx.queue.pending[i].payload.data : i \in DOMAIN tx.queue.pending}

\* The queue's packet index and counters describe its groups, and the newest
\* copy of a group, which schedules its retransmission, is the newest.
RecoveryQueueExact == QueueExact(tx.queue)

\* A group that is retransmitted was sent: every copy the queue answers for is
\* a packet of the sent tracker, and not one the peer acknowledged.
CopiesAreTracked ==
    \A i \in DOMAIN tx.queue.pending : \A pn \in CopiesOf(tx.queue.pending[i]) :
        \E j \in DOMAIN tx.sent.packets : tx.sent.packets[j].pn = pn /\ ~tx.sent.packets[j].acked

\* The tracker's cached cursor and PTO base, and the receiver's ranges, are
\* what a scan from scratch would give.
TrackersExact == CursorsExact(tx.sent) /\ RangesWellFormed(received)

\* A packet number is on the wire with one content only, whatever prefix of a
\* batch the socket took, and the tracker lists the numbers in ascending order.
WireNumbersUnique ==
    /\ \A v, w \in wire : v.pn = w.pn => v = w
    /\ \A i \in 1 .. Len(tx.sent.packets) - 1 :
           tx.sent.packets[i].pn < tx.sent.packets[i + 1].pn

\* What the sender keeps about its packets in four places (the tracker, the
\* recovery queue, the congestion controller, the wire) agrees.
SendStateExact ==
    /\ RecoveryTypeOK
    /\ WireNumbersUnique /\ TrackersExact
    /\ RecoveryQueueExact /\ CopiesAreTracked
    /\ InFlightExact

\* wouldRecordFresh, which runs before the frames are validated, predicts what
\* recordFresh does after it.
PreflightAgrees ==
    \A pn \in PacketNumbers : WouldRecordFresh(received, pn) = RecordFresh(received, pn).fresh

\* However packets are duplicated, reordered, and their history evicted or
\* pruned, the receiver applies a packet at most once, and what it asks before
\* it validates a packet's frames is what it finds after.
ProcessedOnce == PreflightAgrees /\ \A pn \in PacketNumbers : processed[pn] <= 1

\* An ACK frame names only packets the receiver processed, after its ranges
\* are encoded as gaps and decoded again by the peer.
AcksAreTrue ==
    \A i \in DOMAIN acks : \A pn \in AckedNumbers(acks[i]) :
        pn \in PacketNumbers /\ processed[pn] > 0

\* No received packet is forgotten by the ACK policy.  One that is remembered
\* and not yet reported is counted towards the threshold, and the ACK delay
\* timer runs for it and will find something to report.  The exceptions are the
\* code's own: a packet whose immediate ACK failed, which the errdefer takes out
\* of the count, and one that came when requested_max_ack_delay was zero, which
\* has no timer; the next ACK that is sent reports them too.
AckIsPending ==
    LET waiting == Retained(received) \ (reported \cup lapsed)
    IN  /\ Cardinality(waiting) <= owed
        /\ waiting \subseteq untimed \/ ackTimer
        /\ ackTimer => received.ranges # <<>>

\* The peer of this model reports only packets it received, so the connection
\* is never closed for an invalid ACK ("QUIC peers are allowed to repeat ACKs").
HonestAckAccepted == ~closed
=============================================================================

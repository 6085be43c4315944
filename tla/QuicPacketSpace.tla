-------------------------- MODULE QuicPacketSpace --------------------------
(***************************************************************************)
(* quic/packet_space.zig: what one QUIC packet number space remembers.     *)
(*                                                                         *)
(* ReceivedPacketTracker is the bounded history of packet numbers that     *)
(* arrived: it decides which packets are fresh and is what an ACK frame    *)
(* reports.  SentPacketTracker is the list of packets that were sent, with *)
(* a cursor over its acknowledged prefix, a cached PTO base and the bounds *)
(* of the prefix whose records were dropped.                               *)
(*                                                                         *)
(* The trackers are values here; QuicRecovery gives them to two endpoints. *)
(* A packet's send time is its packet number: the space is numbered in     *)
(* sending order, so "sent before" is "has a smaller number".  The list is *)
(* always in ascending order (only unit tests insert out of order), and    *)
(* the lookup map packet_index is a search of it.  ECN counters and PMTU   *)
(* probe sizes are left out.                                               *)
(***************************************************************************)
EXTENDS Integers, FiniteSets, SequencesExt

CONSTANTS
    MaxRanges,        \* ReceivedPacketTracker.max_ranges (64 by default)
    PacketThreshold,  \* default_packet_threshold (3)
    CompactThreshold  \* compact_acknowledged_threshold (256)

ASSUME PacketSpaceBounds ==
    MaxRanges \in Nat /\ PacketThreshold \in Nat \ {0} /\ CompactThreshold \in Nat \ {0}

NoPacket == -1   \* a null packet number

-----------------------------------------------------------------------------
\* The received history: ranges from the newest to the oldest, the number at
\* or below which everything is forgotten, and the cached packet count.
NothingReceived == [ranges |-> <<>>, forgotten |-> NoPacket, retained |-> 0]

Span(r) == r.start .. r.end

Retained(t) == UNION {Span(t.ranges[i]) : i \in DOMAIN t.ranges}

ForgetThrough(t, pn) == [t EXCEPT !.forgotten = IF @ < pn THEN pn ELSE @]

\* The number of ranges that lie above pn.
Above(t, pn) == Cardinality({i \in DOMAIN t.ranges : t.ranges[i].start > pn})

JoinsAbove(t, pn) == Above(t, pn) > 0 /\ t.ranges[Above(t, pn)].start = pn + 1

JoinsBelow(t, pn) ==
    Above(t, pn) < Len(t.ranges) /\ t.ranges[Above(t, pn) + 1].end = pn - 1

\* wouldRecordFresh: the preflight answer, without recording.
WouldRecordFresh(t, pn) ==
    /\ MaxRanges # 0
    /\ pn > t.forgotten
    /\ pn \notin Retained(t)
    /\ t.ranges # <<>> /\ pn < Last(t.ranges).start =>
           JoinsAbove(t, pn) \/ Len(t.ranges) < MaxRanges

\* Mutant: the evicted range is not remembered as forgotten.
InsertRangeMutant(t, i, pn) ==
    LET Inserted(u) == [u EXCEPT !.ranges = InsertAt(@, i, [start |-> pn, end |-> pn]),
                                 !.retained = @ + 1]
        evicted == [t EXCEPT !.ranges = Front(@),
                             !.retained = @ - Cardinality(Span(Last(t.ranges)))]
    IN  IF Len(t.ranges) < MaxRanges THEN [fresh |-> TRUE, tracker |-> Inserted(t)]
        ELSE IF i > Len(t.ranges) THEN [fresh |-> FALSE, tracker |-> ForgetThrough(t, pn)]
        ELSE [fresh |-> TRUE, tracker |-> Inserted(evicted)]

\* insertRange of the single number pn before position i: at capacity the
\* oldest range makes room, unless pn itself would be the oldest.
InsertRange(t, i, pn) ==
    LET Inserted(u) == [u EXCEPT !.ranges = InsertAt(@, i, [start |-> pn, end |-> pn]),
                                 !.retained = @ + 1]
        oldest == Last(t.ranges)
        evicted == [ForgetThrough(t, oldest.end) EXCEPT
                        !.ranges = Front(@),
                        !.retained = @ - Cardinality(Span(oldest))]
    IN  IF MaxRanges = 0 THEN [fresh |-> FALSE, tracker |-> t]
        ELSE IF Len(t.ranges) < MaxRanges THEN [fresh |-> TRUE, tracker |-> Inserted(t)]
        ELSE IF i > Len(t.ranges) THEN [fresh |-> FALSE, tracker |-> ForgetThrough(t, pn)]
        ELSE [fresh |-> TRUE, tracker |-> Inserted(evicted)]

\* recordFresh: extend a neighbouring range, merge two, or insert a new one.
RecordFresh(t, pn) ==
    LET i == Above(t, pn)
        counted == [t EXCEPT !.retained = @ + 1]
    IN  IF pn <= t.forgotten \/ pn \in Retained(t) THEN [fresh |-> FALSE, tracker |-> t]
        ELSE IF JoinsAbove(t, pn) /\ JoinsBelow(t, pn) THEN
            [fresh |-> TRUE,
             tracker |-> [counted EXCEPT !.ranges[i].start = t.ranges[i + 1].start,
                                         !.ranges = RemoveAt(@, i + 1)]]
        ELSE IF JoinsAbove(t, pn) THEN
            [fresh |-> TRUE, tracker |-> [counted EXCEPT !.ranges[i].start = pn]]
        ELSE IF JoinsBelow(t, pn) THEN
            [fresh |-> TRUE, tracker |-> [counted EXCEPT !.ranges[i + 1].end = pn]]
        ELSE InsertRange(t, i + 1, pn)

\* pruneAckedRanges: the peer has seen an ACK that covers everything up to pn.
PruneAckedRanges(t, pn) ==
    LET kept == SelectSeq(t.ranges, LAMBDA r : r.end > pn)
        cut == IF kept # <<>> /\ Last(kept).start <= pn
                   THEN [kept EXCEPT ![Len(kept)].start = pn + 1] ELSE kept
    IN  [ForgetThrough(t, pn) EXCEPT
            !.ranges = cut,
            !.retained = @ - Cardinality({p \in Retained(t) : p <= pn})]

\* Mutant: the gap is encoded without the numbers that delimit it.
AckFrameMutant(t) ==
    [largest |-> Head(t.ranges).end,
     first   |-> Head(t.ranges).end - Head(t.ranges).start,
     ranges  |-> [i \in 1 .. Len(t.ranges) - 1 |->
                     [gap |-> t.ranges[i].start - t.ranges[i + 1].end - 1,
                      length |-> t.ranges[i + 1].end - t.ranges[i + 1].start]]]

\* ackFrameInto: the ranges as QUIC encodes them, each one by the gap to the
\* range above it and its length less one.
AckFrame(t) ==
    [largest |-> Head(t.ranges).end,
     first   |-> Head(t.ranges).end - Head(t.ranges).start,
     ranges  |-> [i \in 1 .. Len(t.ranges) - 1 |->
                     [gap |-> t.ranges[i].start - t.ranges[i + 1].end - 2,
                      length |-> t.ranges[i + 1].end - t.ranges[i + 1].start]]]

\* decodeAckRanges: back to absolute bounds, newest first.  A bound below
\* zero is the code's InvalidAckFrame.
DecodeAckRanges(ack) ==
    LET r[i \in 1 .. Len(ack.ranges) + 1] ==
            IF i = 1 THEN [start |-> ack.largest - ack.first, end |-> ack.largest]
            ELSE LET end == r[i - 1].start - ack.ranges[i - 1].gap - 2
                 IN  [start |-> end - ack.ranges[i - 1].length, end |-> end]
    IN  r

AckedNumbers(ack) == UNION {Span(DecodeAckRanges(ack)[i]) : i \in 1 .. Len(ack.ranges) + 1}

-----------------------------------------------------------------------------
\* The sent history.  first counts the packets of the acknowledged prefix;
\* latest is the position of the PTO base (0 when there is none).
NothingSent ==
    [packets |-> <<>>, first |-> 0, latest |-> 0, largest |-> NoPacket,
     retiredFrom |-> NoPacket, retiredTo |-> NoPacket]

Outstanding(p) == p.inFlight /\ ~p.acked /\ ~p.lost

IsPtoBase(p) == p.eliciting /\ Outstanding(p)

\* stats().bytes_in_flight, the reference the congestion controller must match.
BytesOutstanding(t) ==
    FoldSeq(LAMBDA p, sum : sum + IF Outstanding(p) THEN p.bytes ELSE 0, 0, t.packets)

SentNumbers(t) ==
    {t.packets[i].pn : i \in DOMAIN t.packets}
        \cup (IF t.retiredTo = NoPacket THEN {} ELSE t.retiredFrom .. t.retiredTo)

\* recomputeLatestAckElicitingInFlight scans from the cursor.
RecomputeLatest(t) ==
    LET bases == {i \in t.first + 1 .. Len(t.packets) : IsPtoBase(t.packets[i])}
    IN  [t EXCEPT !.latest = IF bases = {} THEN 0
                             ELSE CHOOSE i \in bases : \A j \in bases : j <= i]

\* sentInFlightAtWithMetadata.
RecordSent(t, p) ==
    LET sent == [t EXCEPT !.packets = Append(@, p)]
    IN  IF IsPtoBase(p) THEN [sent EXCEPT !.latest = Len(sent.packets)] ELSE sent

AdvanceFirst(t) ==
    LET unacked == {i \in t.first + 1 .. Len(t.packets) : ~t.packets[i].acked}
    IN  [t EXCEPT !.first = IF unacked = {} THEN Len(t.packets)
                            ELSE (CHOOSE i \in unacked : \A j \in unacked : i <= j) - 1]

\* forget: a packet that was recorded but could not be sent.
Forget(t, pn) ==
    LET found == {i \in DOMAIN t.packets : t.packets[i].pn = pn}
        index == CHOOSE i \in found : TRUE
        removed == [t EXCEPT !.packets = RemoveAt(@, index),
                             !.first = IF index <= @ THEN @ - 1 ELSE @]
    IN  IF found = {} THEN t
        ELSE AdvanceFirst(IF t.latest = index THEN RecomputeLatest(removed)
                          ELSE IF t.latest > index THEN [removed EXCEPT !.latest = @ - 1]
                          ELSE removed)

\* precheckAckRanges: every number an ACK names was sent.
AckPrechecks(t, ack) == AckedNumbers(ack) \subseteq SentNumbers(t)

\* validateAckCoversSentPackets, run before any frame of a packet is applied.
AckCoversSentPackets(t, ack) == t.packets # <<>> /\ AckPrechecks(t, ack)

\* compactAcknowledgedPrefix drops the records of a contiguously numbered
\* acknowledged prefix that continues the one already dropped.
CompactAcknowledgedPrefix(t) ==
    LET expected == IF t.retiredTo = NoPacket THEN t.packets[1].pn ELSE t.retiredTo + 1
        run == {n \in 1 .. t.first : \A i \in 1 .. n : t.packets[i].pn = expected + i - 1}
        count == Cardinality(run)
    IN  IF t.first < CompactThreshold \/ count < CompactThreshold THEN t
        ELSE [t EXCEPT !.packets = SubSeq(@, count + 1, Len(@)),
                       !.first = @ - count,
                       !.latest = IF @ <= count THEN 0 ELSE @ - count,
                       !.retiredFrom = IF @ = NoPacket THEN t.packets[1].pn ELSE @,
                       !.retiredTo = t.packets[count].pn]

\* What applyAckDetailed reports of the packets an ACK newly acknowledges.
AckResult(t, ack) ==
    LET newly == SelectSeq(t.packets,
                           LAMBDA p : ~p.acked /\ p.pn \in AckedNumbers(ack))
    IN  [packets |-> Len(newly),
         eliciting |-> \E i \in DOMAIN newly : newly[i].eliciting,
         bytes |-> FoldSeq(LAMBDA p, sum : sum + IF Outstanding(p) THEN p.bytes ELSE 0, 0, newly),
         largest |-> IF newly = <<>> THEN NoPacket ELSE Last(newly).pn]

\* applyAckDetailed with markRanges.
ApplyAck(t, ack) ==
    LET acked == AckedNumbers(ack)
        marked == [t EXCEPT !.packets = [i \in DOMAIN @ |->
                       [@[i] EXCEPT !.acked = @ \/ t.packets[i].pn \in acked]]]
        observed == [marked EXCEPT !.largest =
                        IF AckResult(t, ack).packets # 0 /\ ack.largest > @ THEN ack.largest ELSE @]
        relatest == IF t.latest # 0 /\ t.packets[t.latest].pn \in acked
                        THEN RecomputeLatest(AdvanceFirst(observed)) ELSE AdvanceFirst(observed)
    IN  CompactAcknowledgedPrefix(relatest)

\* Declares lost every outstanding packet numbered up to pn; the shared body
\* of detectPacketThresholdLoss and detectTimeThresholdLoss.
MarkLost(t, pn) ==
    LET marked == [t EXCEPT !.packets = [i \in DOMAIN @ |->
                       [@[i] EXCEPT !.lost = @ \/ (/\ Outstanding(t.packets[i])
                                                   /\ t.packets[i].pn <= pn)]]]
    IN  IF t.latest # 0 /\ t.packets[t.latest].pn <= pn THEN RecomputeLatest(marked) ELSE marked

LostResult(t, pn) ==
    LET newly == SelectSeq(t.packets, LAMBDA p : Outstanding(p) /\ p.pn <= pn)
    IN  [bytes |-> FoldSeq(LAMBDA p, sum : sum + p.bytes, 0, newly),
         largest |-> IF newly = <<>> THEN NoPacket ELSE Last(newly).pn]

\* persistentCongestionPeriod: the longest run of consecutively numbered lost
\* packets, sent after the first RTT sample, with ack-eliciting ends, that was
\* not reported before.
PersistentCongestionPeriods(t, firstSample, largest, after) ==
    LET At(pn) == {i \in DOMAIN t.packets :
                      /\ t.packets[i].pn = pn
                      /\ t.packets[i].lost /\ ~t.packets[i].acked}
        Eliciting(pn) == \E i \in At(pn) : t.packets[i].eliciting
    IN  IF firstSample = NoPacket \/ after >= largest THEN {}
        ELSE {<<a, b>> \in (firstSample .. largest) \X (firstSample .. largest) :
                 /\ a < b /\ b > after
                 /\ Eliciting(a) /\ Eliciting(b)
                 /\ \A pn \in a .. b : At(pn) # {}}

\* The trackers' own consistency, for the records above.
RangesWellFormed(t) ==
    /\ Len(t.ranges) <= MaxRanges
    /\ t.retained = Cardinality(Retained(t))
    /\ \A i \in DOMAIN t.ranges : t.forgotten < t.ranges[i].start
                                     /\ t.ranges[i].start <= t.ranges[i].end
    /\ \A i \in 1 .. Len(t.ranges) - 1 : t.ranges[i + 1].end + 1 < t.ranges[i].start

CursorsExact(t) ==
    /\ t.first = AdvanceFirst([t EXCEPT !.first = 0]).first
    /\ t.latest = RecomputeLatest([t EXCEPT !.first = 0]).latest
=============================================================================

------------------------- MODULE QuicRecoveryQueue -------------------------
(***************************************************************************)
(* quic/recovery.zig: the queue of encoded payloads that were sent and not *)
(* yet acknowledged.  A payload is one group; every packet number it was   *)
(* sent under stays with the group, so that an ACK of any copy retires it. *)
(* The queue keeps a map from packet numbers to physical positions and two *)
(* cached counters, which every removal has to refresh.                    *)
(***************************************************************************)
EXTENDS Integers, SequencesExt

LOCAL NoNumber == -1

EmptyQueue ==
    [pending |-> <<>>, index |-> <<>>, copies |-> 0, retransmissions |-> 0]

\* The packet numbers a group was sent under and still answers for.
CopiesOf(g) == ({g.original} \ {NoNumber}) \cup ToSet(g.again)

PacketCount(g) == (IF g.original = NoNumber THEN 0 ELSE 1) + Len(g.again)

\* packet_index.get, orelse 0.
PositionOf(q, pn) == IF pn \in DOMAIN q.index THEN q.index[pn] ELSE 0

Without(f, S) == [x \in DOMAIN f \ S |-> f[x]]

\* refreshIndexesFrom(start) and rebuildIndexesAssumeCapacity (start = 1): the
\* indexed copies of the groups at or after start are given their positions.
RefreshFrom(q, start) ==
    LET At(pn) == {i \in start .. Len(q.pending) : pn \in CopiesOf(q.pending[i])}
    IN  [q EXCEPT !.index = [pn \in DOMAIN @ |->
            IF At(pn) = {} THEN @[pn] ELSE CHOOSE i \in At(pn) : TRUE]]

\* trackSent: a new group at the end of the queue.
TrackSent(q, pn, payload) ==
    [pending |-> Append(q.pending, [payload |-> payload, original |-> pn,
                                    again |-> <<>>, newest |-> pn]),
     index |-> [n \in DOMAIN q.index \cup {pn} |->
                   IF n = pn THEN Len(q.pending) + 1 ELSE q.index[n]],
     copies |-> q.copies + 1,
     retransmissions |-> q.retransmissions]

\* recordRetransmission of the group at position i.
RecordRetransmission(q, i, pn) ==
    [pending |-> [q.pending EXCEPT ![i].again = Append(@, pn), ![i].newest = pn],
     index |-> [n \in DOMAIN q.index \cup {pn} |-> IF n = pn THEN i ELSE q.index[n]],
     copies |-> q.copies + 1,
     retransmissions |-> q.retransmissions + 1]

\* removeGroupOrdered.
RemoveGroup(q, i) ==
    LET g == q.pending[i]
    IN  RefreshFrom([pending |-> RemoveAt(q.pending, i),
                     index |-> Without(q.index, CopiesOf(g)),
                     copies |-> q.copies - PacketCount(g),
                     retransmissions |-> q.retransmissions - Len(g.again)], i)

\* forgetPacketNumber: a copy that was recorded but not sent.
ForgetPacketNumber(q, pn) ==
    LET i == PositionOf(q, pn)
        g == q.pending[i]
        k == CHOOSE n \in DOMAIN g.again : g.again[n] = pn
        shorter == Front(g.again)
        unlisted == IF k = Len(g.again)
                    THEN [g EXCEPT !.again = shorter,
                                   !.newest = IF shorter # <<>> THEN Last(shorter)
                                              ELSE IF g.original # NoNumber THEN g.original ELSE @]
                    ELSE [g EXCEPT !.again = ReplaceAt(shorter, k, Last(g.again))]
        less == [q EXCEPT !.index = Without(@, {pn}), !.copies = @ - 1]
    IN  IF i = 0 THEN q
        ELSE IF PacketCount(g) = 1 THEN RemoveGroup(q, i)
        ELSE IF g.original = pn THEN [less EXCEPT !.pending[i].original = NoNumber]
        ELSE [less EXCEPT !.pending[i] = unlisted, !.retransmissions = @ - 1]

\* Mutant: an ACK retires every group sent before its largest number.
RetireAckedMutant(q, acked) ==
    LET kept == SelectSeq(q.pending, LAMBDA g : \A pn \in acked, c \in CopiesOf(g) : c > pn)
    IN  RefreshFrom([pending |-> kept,
                     index |-> [pn \in UNION {CopiesOf(kept[i]) : i \in DOMAIN kept} |-> 0],
                     copies |-> FoldSeq(LAMBDA g, n : n + PacketCount(g), 0, kept),
                     retransmissions |-> FoldSeq(LAMBDA g, n : n + Len(g.again), 0, kept)], 1)

\* applyAck: retainUnacknowledgedAck keeps, in order, the groups no copy of
\* which is acknowledged, and rebuilds the map when it dropped one.
RetireAcked(q, acked) ==
    LET kept == SelectSeq(q.pending, LAMBDA g : CopiesOf(g) \cap acked = {})
        gone == SelectSeq(q.pending, LAMBDA g : CopiesOf(g) \cap acked # {})
        keptCopies == UNION {CopiesOf(kept[i]) : i \in DOMAIN kept}
    IN  IF gone = <<>> THEN q
        ELSE RefreshFrom(
                [pending |-> kept,
                 index |-> [pn \in keptCopies |-> 0],
                 copies |-> q.copies - FoldSeq(LAMBDA g, n : n + PacketCount(g), 0, gone),
                 retransmissions |-> q.retransmissions
                                         - FoldSeq(LAMBDA g, n : n + Len(g.again), 0, gone)], 1)

\* packetThresholdCandidate: the first group whose newest copy is old enough.
ThresholdCandidate(q, largestLost) ==
    LET old == {i \in DOMAIN q.pending : q.pending[i].newest <= largestLost}
    IN  IF old = {} THEN 0 ELSE CHOOSE i \in old : \A j \in old : i <= j

\* The map and the counters agree with the groups.
QueueExact(q) ==
    /\ q.index = [pn \in UNION {CopiesOf(q.pending[i]) : i \in DOMAIN q.pending} |->
                     CHOOSE i \in DOMAIN q.pending : pn \in CopiesOf(q.pending[i])]
    /\ q.copies = FoldSeq(LAMBDA g, n : n + PacketCount(g), 0, q.pending)
    /\ q.retransmissions = FoldSeq(LAMBDA g, n : n + Len(g.again), 0, q.pending)
    /\ \A i \in DOMAIN q.pending :
           /\ CopiesOf(q.pending[i]) # {}
           /\ q.pending[i].newest \in CopiesOf(q.pending[i])
           /\ \A pn \in CopiesOf(q.pending[i]) : pn <= q.pending[i].newest
=============================================================================

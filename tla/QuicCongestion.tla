--------------------------- MODULE QuicCongestion ---------------------------
(***************************************************************************)
(* quic/congestion.zig: the congestion controller of one path, with the    *)
(* NewReno algorithm.  CUBIC and HyStart++ change only how far an ACK      *)
(* grows the window and are floating-point; they are left out, and what    *)
(* they share with NewReno (bytes in flight, recovery epochs, the cut on a *)
(* congestion event, the minimum window) is here.                          *)
(*                                                                         *)
(* Times are packet numbers, as in QuicPacketSpace.                        *)
(***************************************************************************)
EXTENDS Integers

CONSTANTS
    MaxDatagramSize,   \* config.max_datagram_size
    InitialWindowCap   \* the 14_720 of initialWindow

ASSUME CongestionBounds == MaxDatagramSize \in Nat \ {0} /\ InitialWindowCap \in Nat

Larger(a, b) == IF a < b THEN b ELSE a
Smaller(a, b) == IF a < b THEN a ELSE b

NoEpoch == -1              \* congestion_recovery_start_time_ns is null
NoSlowStartLimit == 10^6   \* slow_start_threshold is maxInt(usize)

InitialWindow == Smaller(10 * MaxDatagramSize, Larger(InitialWindowCap, 2 * MaxDatagramSize))
MinimumWindow == 2 * MaxDatagramSize

NewController ==
    [window |-> InitialWindow, threshold |-> NoSlowStartLimit, inFlight |-> 0,
     avoidance |-> 0, epoch |-> NoEpoch]

InSlowStart(c) == c.window < c.threshold

Available(c) == Larger(c.window - c.inFlight, 0)

CanReserve(c, bytes) == bytes <= Available(c)

Charge(c, bytes) == [c EXCEPT !.inFlight = @ + bytes]

Discharge(c, bytes) == [c EXCEPT !.inFlight = Larger(@ - bytes, 0)]

WindowUtilized(c) ==
    \/ c.inFlight >= c.window
    \/ IF InSlowStart(c) THEN c.inFlight >= c.window \div 2
                         ELSE Available(c) <= 3 * MaxDatagramSize

\* growNewReno: one datagram per window of acknowledged bytes.
GrowNewReno(c, bytes) ==
    LET g[a \in Nat, w \in Nat] ==
            IF a < w THEN <<a, w>> ELSE g[a - w, w + MaxDatagramSize]
        grown == g[c.avoidance + bytes, c.window]
    IN  [c EXCEPT !.avoidance = grown[1], !.window = grown[2]]

\* onAckedWithContextAndUtilization: bytes always leave the flight, the window
\* grows only outside the recovery epoch and only if it was being used.
OnAcked(c, bytes, sentTime, utilized) ==
    LET d == Discharge(c, bytes)
        left == [d EXCEPT !.epoch = NoEpoch]
    IN  IF bytes = 0 THEN c
        ELSE IF c.epoch # NoEpoch /\ sentTime <= c.epoch THEN d
        ELSE IF ~utilized THEN left
        ELSE IF InSlowStart(c) THEN [left EXCEPT !.window = @ + bytes]
        ELSE GrowNewReno(left, bytes)

\* reduceForCongestion, with betaReduction.
ReduceForCongestion(c, now) ==
    LET reduced == Larger((c.window * 7) \div 10, MinimumWindow)
    IN  [c EXCEPT !.window = reduced, !.threshold = reduced, !.avoidance = 0, !.epoch = now]

\* onLostAt: a loss of the current epoch does not cut the window again.
OnLost(c, bytes, sentTime, now) ==
    LET d == Discharge(c, bytes)
    IN  IF bytes = 0 THEN c
        ELSE IF c.epoch # NoEpoch /\ sentTime <= c.epoch THEN d
        ELSE ReduceForCongestion(d, now)

OnPersistentCongestion(c) ==
    [c EXCEPT !.window = MinimumWindow, !.threshold = MinimumWindow,
              !.avoidance = 0, !.epoch = NoEpoch]
=============================================================================

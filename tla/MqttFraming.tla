----------------------------- MODULE MqttFraming -----------------------------
(***************************************************************************)
(* One MQTT packet read from a TCP stream, which hands over its bytes in   *)
(* pieces of any size: by the broker (readTcpPacketInternal and the keep   *)
(* alive Reader of src/mqtt/runtime, decodeRemainingLength of              *)
(* src/mqtt/mod.zig), or by the interoperability harness (read_packet and  *)
(* recv_exact).  A byte of the Remaining Length is [digit, more]; the body *)
(* is what is left of it to read.                                          *)
(*                                                                         *)
(* Base stands for 128 and ProgressThreshold for 1000 bytes.               *)
(***************************************************************************)
EXTENDS Integers, Sequences

CONSTANTS Base, MaxLengthBytes, MaxPacketSize, ProgressThreshold,
          Timeout,      \* one and a half times the Keep Alive
          MaxClock

ASSUME FramingAssumption ==
    /\ Base \in Nat \ {0, 1} /\ MaxLengthBytes \in Nat \ {0}
    /\ MaxPacketSize \in Nat /\ ProgressThreshold \in Nat /\ Timeout \in Nat \ {0} /\ MaxClock \in Nat

VARIABLES reader,    \* "broker" or "harness"
          sent,      \* the bytes the peer sends for the Remaining Length
          phase,     \* "type", "length", "body", "read" or an error
          seen,      \* how many bytes of the Remaining Length are read
          left,      \* how much of the body is not
          clock, deadline,
          shortly    \* when no more than ProgressThreshold bytes were left

framingVars == <<reader, sent, phase, seen, left, clock, deadline, shortly>>

LengthByte == [digit : 0..(Base - 1), more : BOOLEAN]

\* encodeRemainingLength.
EncodeRemainingLength(value) ==
    LET rest[i \in Nat] == IF i = 0 THEN value ELSE rest[i - 1] \div Base
        count == CHOOSE n \in 1..MaxLengthBytes : rest[n] = 0 /\ \A m \in 1..(n - 1) : rest[m] # 0
    IN [i \in 1..count |-> [digit |-> rest[i - 1] % Base, more |-> i < count]]

\* The value that decodeRemainingLength and read_packet accumulate.
DecodedValue(bytes) ==
    LET value[i \in 0..Len(bytes)] ==
            IF i = 0 THEN 0 ELSE value[i - 1] + bytes[i].digit * Base ^ (i - 1)
    IN value[Len(bytes)]

\* Mutant of Decodes: an encoding with leading zeros is accepted.
DecodesMutant(bytes) == TRUE

\* decodeRemainingLength refuses an encoding longer than it need be.
Decodes(bytes) == Len(bytes) = 1 \/ DecodedValue(bytes) >= Base ^ (Len(bytes) - 1)

\* The reader waits for a packet with this Remaining Length.
FramingStart(who, bytes) ==
    /\ reader = who /\ sent = bytes
    /\ phase = "type" /\ seen = 0 /\ left = 0
    /\ clock = 0 /\ deadline = Timeout /\ shortly = -1

FramingInit ==
    \E who \in {"broker", "harness"}, n \in 1..(MaxLengthBytes + 1) :
        \E bytes \in [1..n -> LengthByte] :
            /\ \A i \in 1..n : bytes[i].more = (i < n)
            /\ FramingStart(who, bytes)

\* The deadline cannot pass while bytes are taken.
InTime == reader = "harness" \/ clock <= deadline

ReadType ==
    /\ phase = "type" /\ InTime
    /\ phase' = "length"
    /\ UNCHANGED <<reader, sent, seen, left, clock, deadline, shortly>>

\* Mutant of Renewed: any progress renews the deadline.
RenewedMutant(rest) == clock + Timeout

\* readExact: only a body with much left renews the deadline.
Renewed(rest) == IF rest > ProgressThreshold THEN clock + Timeout ELSE deadline

\* The body begins, or has got this much shorter.
BodyLeft(rest) ==
    /\ left' = rest
    /\ phase' = IF rest = 0 THEN "read" ELSE "body"
    /\ deadline' = Renewed(rest)
    /\ shortly' = IF shortly = -1 /\ rest <= ProgressThreshold THEN clock ELSE shortly

\* One byte of the Remaining Length; the last one tells how long the body is.
ReadLength ==
    LET bytes == SubSeq(sent, 1, seen + 1)
        value == DecodedValue(bytes)
        refused == reader = "broker" /\ ~Decodes(bytes)
        large == reader = "broker" /\ 1 + Len(bytes) + value > MaxPacketSize
        stops(error) == phase' = error /\ UNCHANGED <<left, deadline, shortly>>
    IN /\ phase = "length" /\ InTime
       /\ seen' = seen + 1
       /\ IF sent[seen + 1].more
          THEN stops(IF seen + 1 = MaxLengthBytes THEN "malformed" ELSE "length")
          ELSE IF refused THEN stops("malformed")
          ELSE IF large THEN stops("too_large")
          ELSE BodyLeft(value)
       /\ UNCHANGED <<reader, sent, clock>>

\* recv returns some of what was asked for.
ReadBody ==
    /\ phase = "body" /\ InTime
    /\ \E count \in 1..left : BodyLeft(left - count)
    /\ UNCHANGED <<reader, sent, seen, clock>>

Reading == phase \in {"type", "length", "body"}

\* readSomeTimeout.
TimesOut ==
    /\ Reading /\ reader = "broker" /\ clock >= deadline
    /\ phase' = "timed_out"
    /\ UNCHANGED <<reader, sent, seen, left, clock, deadline, shortly>>

\* The peer is slow.
Wait ==
    /\ Reading /\ clock < MaxClock /\ (reader = "broker" => clock < deadline)
    /\ clock' = clock + 1
    /\ UNCHANGED <<reader, sent, phase, seen, left, deadline, shortly>>

\* The packet is there, or the connection is closed.
ReadOver == ~Reading /\ UNCHANGED framingVars

FramingNext == ReadType \/ ReadLength \/ ReadBody \/ TimesOut \/ Wait \/ ReadOver

FramingSpec == FramingInit /\ [][FramingNext]_framingVars

-----------------------------------------------------------------------------
(* Properties *)

\* However the stream is cut into pieces, a packet that readTcpPacketInternal
\* accepts is the one encodeRemainingLength would frame, within the maximum
\* size, and its end is where the body ends; read_packet finds the same end.
FramesExact ==
    LET value == DecodedValue(SubSeq(sent, 1, seen)) IN
    /\ phase \in {"body", "read"} => ~sent[seen].more /\ left \in 0..value
    /\ phase = "read" => left = 0
    /\ reader = "broker" /\ phase \in {"body", "read"} =>
         sent = EncodeRemainingLength(value) /\ 1 + seen + value <= MaxPacketSize
    /\ phase = "malformed" =>
         \A v \in 0..(Base ^ MaxLengthBytes - 1) : sent # EncodeRemainingLength(v)

\* A peer that trickles its bytes is not read for longer than the inactivity
\* timeout once no more than progress_threshold bytes are left: progress renews
\* the deadline of large bodies only (Reader.readExact).
TrickleBounded ==
    reader = "broker" /\ Reading /\ shortly # -1 => clock <= shortly + Timeout

=============================================================================

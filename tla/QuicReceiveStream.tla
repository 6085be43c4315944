-------------------------- MODULE QuicReceiveStream --------------------------
(***************************************************************************)
(* quic/stream.zig: the reassembly buffer of one stream (RecvState) and    *)
(* the shadow of it that a packet's frames are tried on before any of them *)
(* is applied (RecvState.Preflight).                                       *)
(*                                                                         *)
(* A frame carries the bytes from + 1 .. to of its stream.  The byte at an *)
(* offset is named by the offset, so a byte stored at or read from a wrong *)
(* place is seen.  A buffer position not yet received holds Hole.          *)
(***************************************************************************)
EXTENDS Integers, Sequences, FiniteSets, FiniteSetsExt

CONSTANT MaxBuffered  \* max_buffered: how far past storage bytes are kept

ASSUME MaxBufferedAssumption == MaxBuffered \in Nat \ {0}

Hole == 0
NoSize == -1      \* final_size is null
Fine == "none"    \* no error

FrameBytes(f) == f.to - f.from

NewRecvState ==
    [storage |-> 0, buffer |-> <<>>, read |-> 0, contiguous |-> 0, final |-> NoSize,
     total |-> 0, highest |-> 0]

\* The positions of the buffer a frame's retained bytes go to.
Positions(r, f) == (1 .. f.to - r.storage) \ (1 .. f.from - r.storage)

Stored(r, i) == i <= Len(r.buffer) /\ r.buffer[i] # Hole

BadFinal(final, f) == final # NoSize /\ (f.to > final \/ (f.fin /\ f.to # final))

ShrinksExtent(r, f) == f.fin /\ f.to < r.highest

\* The errors of insertTracked, in the order the code finds them.
InsertError(r, f) ==
    CASE BadFinal(r.final, f) -> "FinalSizeMismatch"
      [] f.to <= r.storage -> IF ShrinksExtent(r, f) THEN "FinalSizeMismatch" ELSE Fine
      [] f.to - r.storage > MaxBuffered -> "StreamBufferTooLarge"
      [] \E i \in Positions(r, f) : Stored(r, i) /\ r.buffer[i] # r.storage + i ->
            "ConflictingStreamData"
      [] ShrinksExtent(r, f) -> "FinalSizeMismatch"
      [] OTHER -> Fine

NewlyReceived(r, f) == Cardinality({i \in Positions(r, f) : ~Stored(r, i)})

\* Mutant: a gap in front of a frame is taken for received.
AdvanceMutant(r, f, buffer) == r.storage + Len(buffer)

\* The contiguous end after a write: it jumps to the end of a frame that
\* covers it and then walks over what was already stored.
Advance(r, f, buffer) ==
    LET reached == r.contiguous - r.storage
        start == IF reached + 1 \in Positions(r, f) THEN f.to - r.storage ELSE reached
        holes == {i \in start + 1 .. Len(buffer) : buffer[i] = Hole}
    IN  r.storage + (IF holes = {} THEN Len(buffer) ELSE Min(holes) - 1)

Splice(r, f) ==
    [i \in 1 .. Max({Len(r.buffer), f.to - r.storage}) |->
        IF i \in Positions(r, f) THEN r.storage + i
        ELSE IF i <= Len(r.buffer) THEN r.buffer[i] ELSE Hole]

\* insertTracked of a frame without an error.
InsertTracked(r, f) ==
    LET final == IF f.fin THEN f.to ELSE r.final
        buffer == Splice(r, f)
    IN  IF f.to <= r.storage THEN [r EXCEPT !.final = final]
        ELSE [r EXCEPT !.buffer = buffer,
                       !.contiguous = Advance(r, f, buffer),
                       !.highest = Max({@, f.to}),
                       !.total = @ + NewlyReceived(r, f),
                       !.final = final]

AvailableBytes(r) == SubSeq(r.buffer, r.read - r.storage + 1, r.contiguous - r.storage)

\* Mutant: what was read is never dropped.
CompactConsumedPrefixMutant(r) == r

CompactConsumedPrefix(r) ==
    LET consumed == r.read - r.storage
    IN  IF consumed = 0 \/ (consumed < Len(r.buffer) \div 2 /\ consumed < MaxBuffered \div 2)
        THEN r
        ELSE [r EXCEPT !.buffer = SubSeq(@, consumed + 1, Len(@)), !.storage = r.read]

Consume(r, amount) == CompactConsumedPrefix([r EXCEPT !.read = @ + amount])

Complete(r) == r.final # NoSize /\ r.contiguous >= r.final /\ r.read >= r.final

-----------------------------------------------------------------------------
\* Preflight borrows the buffer and remembers the packet's earlier frames.

NewPreflight(r) ==
    [base |-> r, pending |-> {}, final |-> r.final, total |-> r.total, highest |-> r.highest]

Uncovered(p, f) ==
    {i \in Positions(p.base, f) :
        ~Stored(p.base, i) /\ \A g \in p.pending : i + p.base.storage \notin g.from + 1 .. g.to}

PreflightFinalSizeError(p, size, final) ==
    IF \/ final /\ size < p.highest
       \/ p.final # NoSize /\ (size > p.final \/ (final /\ size # p.final))
    THEN "FinalSizeMismatch" ELSE Fine

PreflightFinalSize(p, size, final) ==
    IF p.final = NoSize /\ final THEN [p EXCEPT !.final = size] ELSE p

\* Overlaps within the packet agree, since a byte is named by its offset.
PreflightInsertError(p, f) ==
    InsertError([p.base EXCEPT !.final = p.final, !.highest = p.highest], f)

PreflightNew(p, f) == Cardinality(Uncovered(p, f))

PreflightInsert(p, f) ==
    LET final == IF f.fin THEN f.to ELSE p.final
    IN  IF f.to <= p.base.storage THEN [p EXCEPT !.final = final]
        ELSE [p EXCEPT !.pending = @ \cup {f}, !.final = final,
                       !.total = @ + PreflightNew(p, f),
                       !.highest = Max({@, f.to})]
=============================================================================

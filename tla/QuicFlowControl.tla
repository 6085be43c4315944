--------------------------- MODULE QuicFlowControl ---------------------------
(***************************************************************************)
(* quic/flow_control.zig: the credit a sender may spend (SendFlow) and the *)
(* credit a receiver has handed out (RecvFlow), used once per connection   *)
(* and once per stream.  The BLOCKED frames a sender emits, once per limit,*)
(* change nothing where they arrive and are left out with blocked_at.      *)
(***************************************************************************)
EXTENDS Integers

CONSTANT VarintMax  \* quic.varint.max_value: no limit is ever larger

ASSUME VarintMaxAssumption == VarintMax \in Nat

Least(a, b) == IF a < b THEN a ELSE b
Most(a, b) == IF a < b THEN b ELSE a

-----------------------------------------------------------------------------
NewSendFlow(limit) == [limit |-> Least(limit, VarintMax), used |-> 0]

Spendable(f) == Most(f.limit - f.used, 0)

Reserve(f, amount) == [f EXCEPT !.used = @ + amount]

Refund(f, amount) == [f EXCEPT !.used = Most(@ - amount, 0)]

UpdateLimitMutant(f, new) == [f EXCEPT !.limit = Least(new, VarintMax)]

UpdateLimit(f, new) ==
    IF Least(new, VarintMax) <= f.limit THEN f
    ELSE [f EXCEPT !.limit = Least(new, VarintMax)]

-----------------------------------------------------------------------------
\* initWithMaxWindow; the windows are positive.
NewRecvFlow(limit, window, maxWindow) ==
    [limit |-> limit, window |-> window, maxWindow |-> Most(window, maxWindow),
     highest |-> 0, consumed |-> 0, epoch |-> 0]

WithinLimit(f, end) == end <= f.limit

NoteReceived(f, end) == [f EXCEPT !.highest = Most(@, end)]

MaybeGrowWindow(f) ==
    IF f.window >= f.maxWindow \/ Most(f.consumed - f.epoch, 0) <= f.window \div 4 THEN f
    ELSE [f EXCEPT !.window = Least(2 * @, f.maxWindow), !.epoch = f.consumed]

\* Mutant: bytes that bring no new limit are forgotten.
ReturnCreditMutant(f, amount) ==
    IF amount = 0 \/ f.consumed >= f.highest THEN f
    ELSE LET eaten == [f EXCEPT !.consumed = Least(f.highest, @ + amount)]
             grown == MaybeGrowWindow(eaten)
         IN  IF eaten.limit - eaten.consumed > eaten.window \div 2 THEN f
             ELSE [grown EXCEPT !.limit = Most(@, Least(grown.consumed + grown.window, VarintMax))]

\* consume: a new limit is announced exactly when the limit changes.
ReturnCredit(f, amount) ==
    IF amount = 0 \/ f.consumed >= f.highest THEN f
    ELSE LET eaten == [f EXCEPT !.consumed = Least(f.highest, @ + amount)]
             grown == MaybeGrowWindow(eaten)
         IN  IF eaten.limit - eaten.consumed > eaten.window \div 2 THEN eaten
             ELSE [grown EXCEPT !.limit = Most(@, Least(grown.consumed + grown.window, VarintMax))]
=============================================================================

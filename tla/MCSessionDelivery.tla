------------------------- MODULE MCSessionDelivery -------------------------
(* Instances of SessionDelivery for TLC.                                   *)
EXTENDS SessionDelivery

CONSTANTS a, b, c

MCMessages == {a, b, c}
MCQoS2Messages == {a, c}
MCReceiveMaximums == {1, 2}
MCJustA == {a}
MCAAndB == {a, b}
MCJustC == {c}
=============================================================================

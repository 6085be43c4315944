-------------------------- MODULE MCSessionState --------------------------
(***************************************************************************)
(* TLC instance of SessionState: every operation in every order.           *)
(***************************************************************************)
EXTENDS SessionState

CONSTANTS a, b

\* A QoS 2 and a QoS 1 message, enqueued any number of times, against two
\* slots and three identifiers, so that identifiers wrap around while others
\* are in use.
MCMessages == {a, b}
MCQoS2Messages == {a}
MCReceiveMaximums == {1, 2}

=============================================================================

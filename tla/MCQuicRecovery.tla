--------------------------- MODULE MCQuicRecovery ---------------------------
(***************************************************************************)
(* Small instances of QuicRecovery: the thresholds are scaled down with    *)
(* the packet numbers so that every one of them is crossed.                *)
(***************************************************************************)
EXTENDS QuicRecovery, TLC

\* Every other packet is acknowledged, at first without and then with a delay.
MCInitialPolicy == <<2, 0>>
MCAckPolicies == {<<2, 1>>}

PayloadSymmetry == Permutations(Payloads)
=============================================================================

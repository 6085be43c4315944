------------------------------ MODULE MCInterop ------------------------------
(***************************************************************************)
(* TLC instance of InteropHarness: every vector, under every interleaving. *)
(***************************************************************************)
EXTENDS InteropHarness

=============================================================================

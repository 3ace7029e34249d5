-------------------------------- MODULE MCTlb --------------------------------
(* Tlb for TLC. *)
EXTENDS Tlb
=============================================================================

------------------------------- MODULE MCFutex -------------------------------
(* Futex for TLC. *)
EXTENDS Futex

CONSTANTS t1, t2, k1, k2, b1
=============================================================================

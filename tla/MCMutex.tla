------------------------------- MODULE MCMutex -------------------------------
(* Mutex for TLC: three tasks, of which the cfg lets two block. *)
EXTENDS Mutex

CONSTANTS t1, t2, t3
=============================================================================

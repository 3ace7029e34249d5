------------------------------- MODULE MCSched -------------------------------
(* Sched on small machines: one or two tasks. *)
EXTENDS Sched

CONSTANTS t1, t2

=============================================================================

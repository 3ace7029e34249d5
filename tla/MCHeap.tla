-------------------------------- MODULE MCHeap --------------------------------
(* Heap for TLC. *)
EXTENDS Heap
=============================================================================

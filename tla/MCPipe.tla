------------------------------- MODULE MCPipe -------------------------------
(* Pipe for TLC: bytes and tasks are model values.  Every write is of the  *)
(* same two bytes, enough to see a byte lost, repeated or out of order.    *)
EXTENDS Pipe

CONSTANTS t1, t2, a, b

TwoBytes == {<<a, b>>}
=============================================================================

----------------------------- MODULE ByteStream -----------------------------
(***************************************************************************)
(* What a pipe promises: the bytes of every write go into the stream in    *)
(* order and once, those of other writes possibly between them, and each   *)
(* byte of the stream is delivered to one reader once and in order.        *)
(***************************************************************************)
EXTENDS Naturals, Sequences

CONSTANTS Tasks

VARIABLES stream,   \* bytes written and not read yet
          todo,     \* what the current write of a task has still to put
          got       \* what the current read of a task has delivered

vars == <<stream, todo, got>>

Init ==
    /\ stream = <<>>
    /\ todo = [t \in Tasks |-> <<>>]
    /\ got = [t \in Tasks |-> <<>>]

(* A write begins. *)
Offer(t) ==
    /\ todo[t] = <<>>
    /\ todo' = [todo EXCEPT ![t] = todo'[t]]
    /\ UNCHANGED <<stream, got>>

Put(t) ==
    /\ \E n \in 1 .. Len(todo[t]) :
         /\ stream' = stream \o SubSeq(todo[t], 1, n)
         /\ todo' = [todo EXCEPT ![t] = SubSeq(@, n + 1, Len(@))]
    /\ UNCHANGED got

(* A write returns without the bytes that are left. *)
Stop(t) ==
    /\ todo' = [todo EXCEPT ![t] = <<>>]
    /\ UNCHANGED <<stream, got>>

Get(t) ==
    /\ got[t] = <<>>
    /\ \E n \in 1 .. Len(stream) :
         /\ got' = [got EXCEPT ![t] = SubSeq(stream, 1, n)]
         /\ stream' = SubSeq(stream, n + 1, Len(stream))
    /\ UNCHANGED todo

(* The read returns. *)
Take(t) ==
    /\ got' = [got EXCEPT ![t] = <<>>]
    /\ UNCHANGED <<stream, todo>>

(* The last descriptor is closed. *)
Drop == stream' = <<>> /\ UNCHANGED <<todo, got>>

Next == Drop \/ \E t \in Tasks : Offer(t) \/ Put(t) \/ Stop(t) \/ Get(t) \/ Take(t)

Spec == Init /\ [][Next]_vars
=============================================================================

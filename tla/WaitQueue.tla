------------------------------ MODULE WaitQueue ------------------------------
(***************************************************************************)
(* The kernel's intrusive wait queues (kernel/arch/x86_64/task.c).  A      *)
(* queue is a singly linked list threaded through task->wait_next and is   *)
(* used last in, first out: waitq_add links a task in front of q->head and *)
(* waitq_pop_locked unlinks the head.  The list is modelled as a sequence  *)
(* whose first element is q->head.  A task is on at most one queue: the    *)
(* in_wait_queue / waiting_queue pair of the task is the membership test   *)
(* of the callers, so it is their state and not part of this module.       *)
(***************************************************************************)
EXTENDS Naturals, Sequences, SequencesExt

(* waitq_add: the task becomes the new head. *)
waitq_link(q, t) == Cons(t, q)

(* waitq_remove_locked: the task is unlinked wherever it stands. *)
waitq_unlink(q, t) == RemoveFirst(q, t)
=============================================================================

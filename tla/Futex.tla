-------------------------------- MODULE Futex --------------------------------
(***************************************************************************)
(* Futexes (task_futex_wait, task_futex_wake_bitset and task_futex_requeue *)
(* in kernel/arch/x86_64/task.c) with what else ends a wait: the sleep     *)
(* queue's timer and signals.  A waiting task is on no list: it is found   *)
(* by its waiting_queue field, which holds the key.  One step is one       *)
(* sched_lock section or one unlocked access.                              *)
(*                                                                         *)
(* pc[t] is where task t stands:                                           *)
(*   out     in user code         stored  has stored a word, will wake     *)
(*   lock    in task_futex_wait, before its first sched_lock section       *)
(*   asleep  inside schedule()    resume  back from schedule()             *)
(*   result  after the second section, before the test for signals         *)
(*   done    the call is over and its result is on its way to the user     *)
(***************************************************************************)
EXTENDS Integers, FiniteSets, FiniteSetsExt

CONSTANTS Tasks,
          Keys,       \* physical addresses of futex words
          NoKey,      \* waiting_queue == NULL
          Values,     \* what the words may hold
          Bits,       \* the bits of a bitset
          Timeouts,   \* a subset of {"zero", "finite", "never"}
          Counts,     \* how many tasks a wake or requeue asks for
          Signalled   \* the tasks that signals are sent to

ASSUME KeysAssumption == NoKey \notin Keys
ASSUME SomeCall == Keys # {} /\ Values # {} /\ Timeouts # {}
ASSUME TimeoutsAssumption == Timeouts \subseteq {"zero", "finite", "never"}
ASSUME CountsAssumption == Counts \subseteq Nat
ASSUME SignalledAssumption == Signalled \subseteq Tasks

VARIABLES
    word,            \* the futex words
    tstate,          \* task->state
    waiting_queue,   \* task->waiting_queue, while in_wait_queue is FUTEX
    futex_bitset,    \* task->futex_bitset
    in_sleep_queue,  \* task->in_sleep_queue
    pending,         \* an unmasked signal that is not ignored is pending
    sender,          \* a sender of a signal to the task: none, test or wake
    pc,
    stored,          \* the key whose word the task has just stored
    arg,             \* key, expected, bitset and timeout of the current call
    timed_out,       \* the local variable of task_futex_wait
    result,          \* what task_futex_wait returns
    credited,        \* ghost: a wake has counted this wait
    interrupted,     \* ghost: a sender of a signal has ended this wait
    requeued         \* ghost: this wait has been moved to another key

userVars == <<word, stored>>
waitVars == <<waiting_queue, futex_bitset, in_sleep_queue>>
sigVars == <<pending, sender>>
callVars == <<arg, timed_out, result>>
ghostVars == <<credited, interrupted, requeued>>
vars == <<userVars, tstate, waitVars, sigVars, pc, callVars, ghostVars>>

Args == [key : Keys, expected : Values, bitset : SUBSET Bits, timeout : Timeouts]

(* What a task outside task_futex_wait has in arg, where nobody reads it. *)
NoCall == CHOOSE a \in Args : TRUE

TypeOK ==
    /\ word \in [Keys -> Values]
    /\ tstate \in [Tasks -> {"READY", "RUNNING", "BLOCKED"}]
    /\ waiting_queue \in [Tasks -> Keys \cup {NoKey}]
    /\ futex_bitset \in [Tasks -> SUBSET Bits]
    /\ in_sleep_queue \in [Tasks -> BOOLEAN]
    /\ pending \in [Tasks -> BOOLEAN]
    /\ sender \in [Tasks -> {"none", "test", "wake"}]
    /\ pc \in [Tasks -> {"out", "stored", "lock", "asleep", "resume", "result", "done"}]
    /\ stored \in [Tasks -> Keys \cup {NoKey}]
    /\ arg \in [Tasks -> Args]
    /\ timed_out \in [Tasks -> BOOLEAN]
    /\ result \in [Tasks -> {"none", "ok", "EAGAIN", "ETIMEDOUT", "EINTR"}]
    /\ credited \in [Tasks -> BOOLEAN]
    /\ interrupted \in [Tasks -> BOOLEAN]
    /\ requeued \in [Tasks -> BOOLEAN]

Init ==
    /\ \E v \in Values : word = [k \in Keys |-> v]
    /\ tstate = [t \in Tasks |-> "RUNNING"]
    /\ waiting_queue = [t \in Tasks |-> NoKey]
    /\ futex_bitset = [t \in Tasks |-> {}]
    /\ in_sleep_queue = [t \in Tasks |-> FALSE]
    /\ pending = [t \in Tasks |-> FALSE]
    /\ sender = [t \in Tasks |-> "none"]
    /\ pc = [t \in Tasks |-> "out"]
    /\ stored = [t \in Tasks |-> NoKey]
    /\ arg = [t \in Tasks |-> NoCall]
    /\ timed_out = [t \in Tasks |-> FALSE]
    /\ result = [t \in Tasks |-> "none"]
    /\ credited = [t \in Tasks |-> FALSE]
    /\ interrupted = [t \in Tasks |-> FALSE]
    /\ requeued = [t \in Tasks |-> FALSE]

Goto(t, from, to) ==
    /\ pc[t] = from
    /\ pc' = [pc EXCEPT ![t] = to]

-----------------------------------------------------------------------------
(***************************************************************************)
(* task_futex_wait                                                         *)
(***************************************************************************)

(* FUTEX_WAIT and FUTEX_WAIT_BITSET, whose bitset is not empty. *)
WaitCall(t) ==
    /\ Goto(t, "out", "lock")
    /\ \E a \in Args : a.bitset # {} /\ arg' = [arg EXCEPT ![t] = a]
    /\ UNCHANGED <<userVars, tstate, waitVars, sigVars, timed_out, result, ghostVars>>

(* The first sched_lock section returns at once: the word has changed, or  *)
(* the timeout is zero.                                                    *)
WaitRefused(t) ==
    /\ \/ /\ word[arg[t].key] # arg[t].expected
          /\ result' = [result EXCEPT ![t] = "EAGAIN"]
       \/ /\ word[arg[t].key] = arg[t].expected
          /\ arg[t].timeout = "zero"
          /\ result' = [result EXCEPT ![t] = "ETIMEDOUT"]
    /\ Goto(t, "lock", "done")
    /\ arg' = [arg EXCEPT ![t] = NoCall]
    /\ UNCHANGED <<userVars, tstate, waitVars, sigVars, timed_out, ghostVars>>

(* The word is not compared again under sched_lock. *)
WaitBlock_NoTest(t) ==
    /\ arg[t].timeout # "zero"
    /\ Goto(t, "lock", "asleep")
    /\ waiting_queue' = [waiting_queue EXCEPT ![t] = arg[t].key]
    /\ futex_bitset' = [futex_bitset EXCEPT ![t] = arg[t].bitset]
    /\ tstate' = [tstate EXCEPT ![t] = "BLOCKED"]
    /\ in_sleep_queue' = [in_sleep_queue EXCEPT ![t] = arg[t].timeout = "finite"]
    /\ UNCHANGED <<userVars, sigVars, callVars, ghostVars>>

(* It blocks.  (The test of in_wait_queue never fails here: WaitConfined.) *)
WaitBlock(t) ==
    /\ word[arg[t].key] = arg[t].expected
    /\ arg[t].timeout # "zero"
    /\ Goto(t, "lock", "asleep")
    /\ waiting_queue' = [waiting_queue EXCEPT ![t] = arg[t].key]
    /\ futex_bitset' = [futex_bitset EXCEPT ![t] = arg[t].bitset]
    /\ tstate' = [tstate EXCEPT ![t] = "BLOCKED"]
    /\ in_sleep_queue' = [in_sleep_queue EXCEPT ![t] = arg[t].timeout = "finite"]
    /\ UNCHANGED <<userVars, sigVars, callVars, ghostVars>>

(* schedule() returns; a task made READY before it switched away keeps     *)
(* that state.                                                             *)
WaitAwake(t) ==
    /\ tstate[t] = "READY"
    /\ Goto(t, "asleep", "resume")
    /\ \E s \in {"READY", "RUNNING"} : tstate' = [tstate EXCEPT ![t] = s]
    /\ UNCHANGED <<userVars, waitVars, sigVars, callVars, ghostVars>>

(* The wait is removed before it is tested. *)
WaitResume_Swapped(t) ==
    /\ Goto(t, "resume", "result")
    /\ timed_out' = [timed_out EXCEPT ![t] = FALSE]
    /\ waiting_queue' = [waiting_queue EXCEPT ![t] = NoKey]
    /\ futex_bitset' = [futex_bitset EXCEPT ![t] = {}]
    /\ in_sleep_queue' = [in_sleep_queue EXCEPT ![t] = FALSE]
    /\ arg' = [arg EXCEPT ![t] = NoCall]
    /\ UNCHANGED <<userVars, tstate, sigVars, result, ghostVars>>

(* The second sched_lock section. *)
WaitResume(t) ==
    /\ Goto(t, "resume", "result")
    /\ timed_out' = [timed_out EXCEPT ![t] = waiting_queue[t] # NoKey]
    /\ waiting_queue' = [waiting_queue EXCEPT ![t] = NoKey]
    /\ futex_bitset' = [futex_bitset EXCEPT ![t] = {}]
    /\ in_sleep_queue' = [in_sleep_queue EXCEPT ![t] = FALSE]
    /\ arg' = [arg EXCEPT ![t] = NoCall]
    /\ UNCHANGED <<userVars, tstate, sigVars, result, ghostVars>>

(* task_has_pending_signals comes before timed_out. *)
WaitReturn(t) ==
    /\ Goto(t, "result", "done")
    /\ result' = [result EXCEPT ![t] = CASE pending[t] -> "EINTR"
                                         [] ~pending[t] /\ timed_out[t] -> "ETIMEDOUT"
                                         [] OTHER -> "ok"]
    /\ UNCHANGED <<userVars, tstate, waitVars, sigVars, arg, timed_out, ghostVars>>

(* The return to user code, which takes a pending signal.  A task that was *)
(* killed ends here and stands from then on for a new one.                 *)
Leave(t) ==
    /\ Goto(t, "done", "out")
    /\ \E p \in {FALSE, pending[t]} : pending' = [pending EXCEPT ![t] = p]
    /\ timed_out' = [timed_out EXCEPT ![t] = FALSE]
    /\ result' = [result EXCEPT ![t] = "none"]
    /\ credited' = [credited EXCEPT ![t] = FALSE]
    /\ interrupted' = [interrupted EXCEPT ![t] = FALSE]
    /\ requeued' = [requeued EXCEPT ![t] = FALSE]
    /\ UNCHANGED <<userVars, tstate, waitVars, sender, arg>>

-----------------------------------------------------------------------------
(***************************************************************************)
(* task_futex_wake_bitset and task_futex_requeue                           *)
(***************************************************************************)

Waiters(k, bits) ==
    {t \in Tasks : waiting_queue[t] = k /\ futex_bitset[t] \cap bits # {}}

(* n of the tasks S, or all of them when they are fewer. *)
UpTo(n, S) == {W \in SUBSET S : Cardinality(W) = Min({n, Cardinality(S)})}

(* The tasks W leave their wait and become READY; R moves to key k2. *)
WakeAndMove(W, R, k2) ==
    /\ waiting_queue' = [t \in Tasks |-> CASE t \in W -> NoKey
                                           [] t \in R -> k2
                                           [] OTHER -> waiting_queue[t]]
    /\ in_sleep_queue' = [t \in Tasks |-> in_sleep_queue[t] /\ t \notin W]
    /\ tstate' = [t \in Tasks |-> IF t \in W /\ tstate[t] = "BLOCKED" THEN "READY"
                                                                  ELSE tstate[t]]
    /\ credited' = [t \in Tasks |-> credited[t] \/ t \in W]
    /\ requeued' = [t \in Tasks |-> requeued[t] \/ t \in R]
    /\ UNCHANGED <<futex_bitset, interrupted>>

(* FUTEX_WAKE_BITSET; FUTEX_WAKE is the case of all bits. *)
Wake(t) ==
    /\ pc[t] = "out"
    /\ \E k \in Keys, bits \in SUBSET Bits \ {{}}, n \in Counts :
         \E W \in UpTo(n, Waiters(k, bits)) : WakeAndMove(W, {}, k)
    /\ UNCHANGED <<userVars, sigVars, pc, callVars>>

(* The new key is not tested for null. *)
Requeue_NullKey(t) ==
    /\ pc[t] = "out"
    /\ \E k \in Keys, k2 \in Keys \cup {NoKey}, n, m \in Counts :
         LET S == Waiters(k, Bits) IN
         \E W \in UpTo(n, S) : \E R \in UpTo(m, S \ W) : WakeAndMove(W, R, k2)
    /\ UNCHANGED <<userVars, sigVars, pc, callVars>>

(* FUTEX_REQUEUE: n tasks are woken and up to m of the others are moved.   *)
(* FUTEX_CMP_REQUEUE compares the word before the section, so the section  *)
(* may run whatever the word is by then: it is the same step.              *)
Requeue(t) ==
    /\ pc[t] = "out"
    /\ \E k, k2 \in Keys, n, m \in Counts :
         LET S == Waiters(k, Bits) IN
         \E W \in UpTo(n, S) : \E R \in UpTo(m, S \ W) : WakeAndMove(W, R, k2)
    /\ UNCHANGED <<userVars, sigVars, pc, callVars>>

(* How user code uses a futex: it stores the word, then wakes everybody. *)
Store(t) ==
    /\ Goto(t, "out", "stored")
    /\ \E k \in Keys, v \in Values :
         /\ word' = [word EXCEPT ![k] = v]
         /\ stored' = [stored EXCEPT ![t] = k]
    /\ UNCHANGED <<tstate, waitVars, sigVars, callVars, ghostVars>>

WakeAll(t) ==
    /\ Goto(t, "stored", "out")
    /\ WakeAndMove(Waiters(stored[t], Bits), {}, NoKey)
    /\ stored' = [stored EXCEPT ![t] = NoKey]
    /\ UNCHANGED <<word, sigVars, callVars>>

-----------------------------------------------------------------------------
(***************************************************************************)
(* The sleep queue and signals                                             *)
(***************************************************************************)

(* sleep_queue_deadline_ns is not stored for a task that is first in the   *)
(* queue, and the interrupt does not look further.                         *)
Timeout_HeadNotStored(t) ==
    /\ in_sleep_queue[t]
    /\ \E u \in Tasks \ {t} : in_sleep_queue[u]
    /\ in_sleep_queue' = [in_sleep_queue EXCEPT ![t] = FALSE]
    /\ tstate' = [tstate EXCEPT ![t] = IF @ = "BLOCKED" THEN "READY" ELSE @]
    /\ UNCHANGED <<userVars, waiting_queue, futex_bitset, sigVars, pc, callVars,
                   ghostVars>>

(* wake_sleeping_tasks_locked: the deadline has passed.  The task stays    *)
(* findable by its key until it runs.                                      *)
Timeout(t) ==
    /\ in_sleep_queue[t]
    /\ in_sleep_queue' = [in_sleep_queue EXCEPT ![t] = FALSE]
    /\ tstate' = [tstate EXCEPT ![t] = IF @ = "BLOCKED" THEN "READY" ELSE @]
    /\ UNCHANGED <<userVars, waiting_queue, futex_bitset, sigVars, pc, callVars,
                   ghostVars>>

(* deliver_signal_to_task sets the pending bit, of a signal that may be    *)
(* masked, tests the state without a lock, and calls wake_task.  (A signal *)
(* ignored by default changes nothing that is modelled.)                   *)
SignalSet(t) ==
    /\ sender[t] = "none"
    /\ \E p \in {pending[t], TRUE} : pending' = [pending EXCEPT ![t] = p]
    /\ sender' = [sender EXCEPT ![t] = "test"]
    /\ UNCHANGED <<userVars, tstate, waitVars, pc, callVars, ghostVars>>

SignalTest(t) ==
    /\ sender[t] = "test"
    /\ sender' = [sender EXCEPT ![t] = IF tstate[t] = "BLOCKED" THEN "wake" ELSE "none"]
    /\ UNCHANGED <<userVars, tstate, waitVars, pending, pc, callVars, ghostVars>>

(* A blocked task is taken out of its wait and made READY. *)
EndWait(t) ==
    IF tstate[t] = "BLOCKED"
      THEN /\ waiting_queue' = [waiting_queue EXCEPT ![t] = NoKey]
           /\ in_sleep_queue' = [in_sleep_queue EXCEPT ![t] = FALSE]
           /\ tstate' = [tstate EXCEPT ![t] = "READY"]
           /\ interrupted' = [interrupted EXCEPT ![t] = TRUE]
      ELSE UNCHANGED <<waiting_queue, in_sleep_queue, tstate, interrupted>>

(* wake_task, which tests the state again under sched_lock. *)
SignalWake(t) ==
    /\ sender[t] = "wake"
    /\ sender' = [sender EXCEPT ![t] = "none"]
    /\ EndWait(t)
    /\ UNCHANGED <<userVars, futex_bitset, pending, pc, callVars, credited, requeued>>

(* task_kill of a task in a system call: one section marks it as exiting,  *)
(* which task_has_pending_signals reports, and ends its wait.              *)
Kill(t) ==
    /\ pending' = [pending EXCEPT ![t] = TRUE]
    /\ EndWait(t)
    /\ UNCHANGED <<userVars, futex_bitset, sender, pc, callVars, credited, requeued>>

(* A signal that reaches a task in user code is taken at its next entry    *)
(* into the kernel.                                                        *)
SignalTaken(t) ==
    /\ pc[t] = "out"
    /\ pending[t]
    /\ pending' = [pending EXCEPT ![t] = FALSE]
    /\ UNCHANGED <<userVars, tstate, waitVars, sender, pc, callVars, ghostVars>>

-----------------------------------------------------------------------------
WaitStep(t) == WaitRefused(t) \/ WaitBlock(t) \/ WaitAwake(t) \/ WaitResume(t)
               \/ WaitReturn(t) \/ Leave(t)

Next ==
    \/ \E t \in Tasks : \/ WaitCall(t) \/ WaitStep(t) \/ Wake(t) \/ Requeue(t)
                        \/ Store(t) \/ WakeAll(t) \/ Timeout(t)
    \/ \E t \in Signalled : \/ SignalSet(t) \/ SignalTest(t) \/ SignalWake(t)
                            \/ Kill(t) \/ SignalTaken(t)

Spec == Init /\ [][Next]_vars

(* A task that is READY gets a CPU and finishes its call; deadlines pass. *)
FairSpec == Spec /\ \A t \in Tasks : WF_vars(WaitStep(t)) /\ WF_vars(Timeout(t))

-----------------------------------------------------------------------------
(* A wait leaves nothing behind: a task is findable by a key, or has a     *)
(* deadline in the sleep queue, only while it is in that wait.  A key left *)
(* behind would swallow a wake, a deadline would end a later wait.         *)
WaitConfined ==
    \A t \in Tasks :
        waiting_queue[t] # NoKey \/ in_sleep_queue[t] => pc[t] \in {"asleep", "resume"}

(* Whatever wakes, moves, signals and timers did, a blocked task can still *)
(* be found: by a wake on a key with one of its bits, and by the timer     *)
(* exactly if its wait has a deadline.                                     *)
SleeperFindable ==
    \A t \in Tasks :
        tstate[t] = "BLOCKED" =>
            /\ pc[t] = "asleep"
            /\ waiting_queue[t] # NoKey
            /\ futex_bitset[t] = arg[t].bitset
            /\ in_sleep_queue[t] <=> arg[t].timeout = "finite"

(* A wake that races the timeout is not lost: a wait that a wake counted   *)
(* never returns ETIMEDOUT, and one that returns 0 was ended by a wake or  *)
(* by the sender of a signal.                                              *)
ReturnHonest ==
    \A t \in Tasks : /\ result[t] = "ETIMEDOUT" => ~credited[t]
                     /\ result[t] = "ok" => credited[t] \/ interrupted[t]

(* No lost wake-up between the test of the word and the sleep: a task      *)
(* asleep on a word that no longer has the value it expects is about to be *)
(* woken by the task that stored it.                                       *)
NoStrandedSleeper ==
    \A t \in Tasks :
        /\ tstate[t] = "BLOCKED"
        /\ ~requeued[t]
        /\ word[arg[t].key] # arg[t].expected
        => \E u \in Tasks : stored[u] = arg[t].key

(* A wait ends if it has a deadline, and if a wake has counted it. *)
WaitEnds ==
    \A t \in Tasks :
        (pc[t] = "asleep" /\ (arg[t].timeout = "finite" \/ credited[t])) ~> pc[t] = "out"
=============================================================================

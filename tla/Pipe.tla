-------------------------------- MODULE Pipe --------------------------------
(***************************************************************************)
(* An anonymous pipe: the pipe branches of sys_read and sys_write          *)
(* (syscalls/syscall_core.c), the references of pipe.h and the signals     *)
(* that end a sleep.  One step is one section of the pipe's lock or one    *)
(* unlocked access.  The sched_lock sections inside a section of the pipe  *)
(* (queueing, waking) are part of it: they meet only those of signals.     *)
(*                                                                         *)
(* pc[t] is where task t stands:                                           *)
(*   out       in user code                                                *)
(*   w_lock    before the section that resizes and writes                  *)
(*   w_sleep   in schedule(); w_test back from it; w_again before the      *)
(*             section that tests for space again                          *)
(*   r_lock, r_sleep, r_test   the same for a reader; r_done: bytes read   *)
(*                                                                         *)
(* Only wake-all and removal are used on the two wait queues, so their     *)
(* order does not matter and they are sets.                                *)
(***************************************************************************)
EXTENDS PipeRing, FiniteSets

CONSTANTS Tasks,
          Creator,     \* the task that called pipe2
          Signalled,   \* the tasks that signals are sent to
          Writes,      \* bound: what a task may write
          MaxBuffer,   \* bound: the largest buffer kmalloc can give
          WorkSize     \* SYS_RW_HEAP_LIMIT: bytes copied from the user at a time

ASSUME TasksAssumption == IsFiniteSet(Tasks)
ASSUME CreatorAssumption == Creator \in Tasks
ASSUME SignalledAssumption == Signalled \subseteq Tasks
ASSUME WritesAssumption == Writes \subseteq Seq(Byte) \ {<<>>}
ASSUME BoundsAssumption == /\ MaxBuffer \in Nat
                           /\ WorkSize \in Nat \ {0}

VARIABLES
    p,             \* the ring of the pipe
    readers,
    writers,
    read_waitq,
    write_waitq,
    open,          \* the ends a task has a descriptor for, "r" and "w"
    tstate,        \* task->state
    pending,       \* an unmasked signal that is not ignored is pending
    sender,        \* a sender of a signal to the task: none, test or wake
    pc,
    data,          \* the bytes a write has still to put into the pipe
    left,          \* chunk - done: how many of them are in kbuf
    nonblock,      \* VFS_O_NONBLOCK of the descriptor in use
    got,           \* the bytes a read has taken
    misled         \* ghost: sleeping writers that took an empty pipe for a full one

refVars == <<readers, writers, open>>
queueVars == <<read_waitq, write_waitq, tstate>>
sigVars == <<pending, sender>>
callVars == <<data, left, nonblock>>
vars == <<p, refVars, queueVars, sigVars, pc, callVars, got, misled>>

Allocs == 1 .. MaxBuffer

TypeOK ==
    /\ IsRing(p)
    /\ readers \in Nat
    /\ writers \in Nat
    /\ read_waitq \in SUBSET Tasks
    /\ write_waitq \in SUBSET Tasks
    /\ open \in [Tasks -> SUBSET {"r", "w"}]
    /\ tstate \in [Tasks -> {"READY", "RUNNING", "BLOCKED"}]
    /\ pending \in [Tasks -> BOOLEAN]
    /\ sender \in [Tasks -> {"none", "test", "wake"}]
    /\ pc \in [Tasks -> {"out", "w_lock", "w_sleep", "w_test", "w_again",
                         "r_lock", "r_sleep", "r_test", "r_done"}]
    /\ data \in [Tasks -> Seq(Byte)]
    /\ left \in [Tasks -> Nat]
    /\ nonblock \in [Tasks -> BOOLEAN]
    /\ got \in [Tasks -> Seq(Byte)]
    /\ misled \in SUBSET Tasks

(* sys_pipe2 has just returned. *)
Init ==
    /\ p = EmptyRing
    /\ readers = 1
    /\ writers = 1
    /\ read_waitq = {}
    /\ write_waitq = {}
    /\ open = [t \in Tasks |-> IF t = Creator THEN {"r", "w"} ELSE {}]
    /\ tstate = [t \in Tasks |-> "RUNNING"]
    /\ pending = [t \in Tasks |-> FALSE]
    /\ sender = [t \in Tasks |-> "none"]
    /\ pc = [t \in Tasks |-> "out"]
    /\ data = [t \in Tasks |-> <<>>]
    /\ left = [t \in Tasks |-> 0]
    /\ nonblock = [t \in Tasks |-> FALSE]
    /\ got = [t \in Tasks |-> <<>>]
    /\ misled = {}

Goto(t, from, to) ==
    /\ pc[t] = from
    /\ pc' = [pc EXCEPT ![t] = to]

(* A call returns; what is left in its locals is gone. *)
Return(t) ==
    /\ pc' = [pc EXCEPT ![t] = "out"]
    /\ data' = [data EXCEPT ![t] = <<>>]
    /\ left' = [left EXCEPT ![t] = 0]
    /\ nonblock' = [nonblock EXCEPT ![t] = FALSE]

(* waitq_wake_all of both queues, of W and of R. *)
WakeAll(R, W) ==
    /\ read_waitq' = read_waitq \ R
    /\ write_waitq' = write_waitq \ W
    /\ tstate' = [t \in Tasks |-> IF t \in R \cup W /\ tstate[t] = "BLOCKED" THEN "READY"
                                                                        ELSE tstate[t]]

(* waitq_add of the task in R or in W and, when a signal is already        *)
(* pending, wake_task: one sched_lock section.                             *)
SleepOn_NoTest(t, R, W) ==
    /\ read_waitq' = read_waitq \cup R
    /\ write_waitq' = write_waitq \cup W
    /\ tstate' = [tstate EXCEPT ![t] = "BLOCKED"]

SleepOn(t, R, W) ==
    IF pending[t]
      THEN /\ tstate' = [tstate EXCEPT ![t] = "READY"]
           /\ UNCHANGED <<read_waitq, write_waitq>>
      ELSE /\ tstate' = [tstate EXCEPT ![t] = "BLOCKED"]
           /\ read_waitq' = read_waitq \cup R
           /\ write_waitq' = write_waitq \cup W

-----------------------------------------------------------------------------
(***************************************************************************)
(* sys_write                                                               *)
(***************************************************************************)

WriteCall(t) ==
    /\ "w" \in open[t]
    /\ Goto(t, "out", "w_lock")
    /\ \E s \in Writes : /\ data' = [data EXCEPT ![t] = s]
                         /\ left' = [left EXCEPT ![t] = Lesser(Len(s), WorkSize)]
    /\ \E b \in BOOLEAN : nonblock' = [nonblock EXCEPT ![t] = b]
    /\ UNCHANGED <<p, refVars, queueVars, sigVars, got, misled>>

(* Bytes are put into the ring r, which has space, and all readers woken.  *)
(* The call goes on with the rest of kbuf, with the next chunk, or returns.*)
WriteBytes(t, r) ==
    LET n == Lesser(left[t], r.buf_size - r.count)
        rest == SubSeq(data[t], n + 1, Len(data[t]))
    IN  /\ p' = Written(r, SubSeq(data[t], 1, n))
        /\ WakeAll(read_waitq, {})
        /\ UNCHANGED misled
        /\ IF rest = <<>>
             THEN Return(t)
             ELSE /\ pc' = [pc EXCEPT ![t] = "w_lock"]
                  /\ data' = [data EXCEPT ![t] = rest]
                  /\ left' = [left EXCEPT ![t] = IF n < left[t] THEN left[t] - n
                                                              ELSE Lesser(Len(rest), WorkSize)]
                  /\ UNCHANGED nonblock

(* The pipe r is full, or taken for full because both its sizes are zero. *)
WriteSleep(t, r) ==
    /\ p' = r
    /\ pc' = [pc EXCEPT ![t] = "w_sleep"]
    /\ SleepOn(t, {}, {t})
    /\ misled' = IF r.count = 0 THEN misled \cup {t} ELSE misled
    /\ UNCHANGED callVars

(* The ring after the attempt to make space for the bytes in kbuf. *)
Grown(r, n) ==
    IF r.count + n > r.buf_size
      THEN {r} \cup {Resized(r, c) : c \in {Capacity(r, r.count + n)} \cap Allocs}
      ELSE {r}

WriteLock(t) ==
    /\ pc[t] = "w_lock"
    /\ UNCHANGED <<refVars, sigVars, got>>
    /\ \/ /\ readers = 0
          /\ Return(t)
          /\ UNCHANGED <<p, queueVars, misled>>
       \/ /\ readers > 0
          /\ \E r \in Grown(p, left[t]) :
               \/ /\ r.count < r.buf_size
                  /\ WriteBytes(t, r)
               \/ /\ r.count = r.buf_size
                  /\ r.buf_size = 0 \/ nonblock[t]
                  /\ Return(t)
                  /\ UNCHANGED <<p, queueVars, misled>>
               \/ /\ r.count = r.buf_size
                  /\ r.buf_size > 0
                  /\ ~nonblock[t]
                  /\ WriteSleep(t, r)

(* schedule() returns; a task made READY before it switched away keeps     *)
(* that state.                                                             *)
Awake(t, from, to) ==
    /\ Goto(t, from, to)
    /\ tstate[t] = "READY"
    /\ \E s \in {"READY", "RUNNING"} : tstate' = [tstate EXCEPT ![t] = s]
    /\ misled' = misled \ {t}
    /\ UNCHANGED <<p, refVars, read_waitq, write_waitq, sigVars, callVars, got>>

(* The test for signals after schedule() is left out. *)
Test_Skipped(t, from, to) ==
    /\ Goto(t, from, to)
    /\ UNCHANGED <<p, refVars, queueVars, sigVars, callVars, got, misled>>

(* The test for signals, without a lock. *)
Test(t, from, to) ==
    /\ pc[t] = from
    /\ IF pending[t] THEN Return(t)
                     ELSE pc' = [pc EXCEPT ![t] = to] /\ UNCHANGED callVars
    /\ UNCHANGED <<p, refVars, queueVars, sigVars, got, misled>>

(* The section after a sleep does not resize. *)
WriteAgain(t) ==
    /\ pc[t] = "w_again"
    /\ UNCHANGED <<refVars, sigVars, got>>
    /\ \/ /\ readers = 0
          /\ Return(t)
          /\ UNCHANGED <<p, queueVars, misled>>
       \/ /\ readers > 0
          /\ p.count < p.buf_size
          /\ WriteBytes(t, p)
       \/ /\ readers > 0
          /\ p.count = p.buf_size
          /\ WriteSleep(t, p)

-----------------------------------------------------------------------------
(***************************************************************************)
(* sys_read                                                                *)
(***************************************************************************)

ReadCall(t) ==
    /\ "r" \in open[t]
    /\ Goto(t, "out", "r_lock")
    /\ \E b \in BOOLEAN : nonblock' = [nonblock EXCEPT ![t] = b]
    /\ UNCHANGED <<p, refVars, queueVars, sigVars, data, left, got, misled>>

(* End of file, or nothing to wait for. *)
ReadNone(t) ==
    /\ p.count = 0
    /\ writers = 0 \/ nonblock[t]
    /\ Return(t)
    /\ UNCHANGED <<p, queueVars, got>>

ReadSleep(t) ==
    /\ p.count = 0
    /\ writers > 0
    /\ ~nonblock[t]
    /\ pc' = [pc EXCEPT ![t] = "r_sleep"]
    /\ SleepOn(t, {t}, {})
    /\ UNCHANGED <<p, callVars, got>>

(* The writers are not woken. *)
ReadBytes_NoWake(t) ==
    /\ \E n \in 1 .. Lesser(p.count, WorkSize) :
         /\ p' \in Shrunk(Consumed(p, n), Allocs)
         /\ got' = [got EXCEPT ![t] = FirstBytes(p, n)]
    /\ pc' = [pc EXCEPT ![t] = "r_done"]
    /\ UNCHANGED queueVars
    /\ UNCHANGED callVars

(* The read asks for some number of bytes.  (That a pipe that is not empty *)
(* has a buffer is PositionsExact.)                                        *)
ReadBytes(t) ==
    /\ \E n \in 1 .. Lesser(p.count, WorkSize) :
         /\ p' \in Shrunk(Consumed(p, n), Allocs)
         /\ got' = [got EXCEPT ![t] = FirstBytes(p, n)]
    /\ pc' = [pc EXCEPT ![t] = "r_done"]
    /\ WakeAll({}, write_waitq)
    /\ UNCHANGED callVars

ReadLock(t) ==
    /\ pc[t] = "r_lock"
    /\ ReadNone(t) \/ ReadSleep(t) \/ ReadBytes(t)
    /\ UNCHANGED <<refVars, sigVars, misled>>

ReadReturn(t) ==
    /\ pc[t] = "r_done"
    /\ Return(t)
    /\ got' = [got EXCEPT ![t] = <<>>]
    /\ UNCHANGED <<p, refVars, queueVars, sigVars, misled>>

-----------------------------------------------------------------------------
(***************************************************************************)
(* References                                                              *)
(***************************************************************************)

Count(b) == IF b THEN 1 ELSE 0

(* pipe_retain_reference: fork, dup and descriptor passing. *)
Retain(t) ==
    /\ pc[t] = "out"
    /\ \E e \in open[t], u \in Tasks :
         /\ pc[u] = "out"
         /\ e \notin open[u]
         /\ open' = [open EXCEPT ![u] = @ \cup {e}]
         /\ readers' = readers + Count(e = "r")
         /\ writers' = writers + Count(e = "w")
    /\ UNCHANGED <<p, queueVars, sigVars, pc, callVars, got, misled>>

(* The last writer does not wake the readers. *)
Release_ReadersAsleep(t) ==
    /\ pc[t] = "out"
    /\ \E e \in open[t] :
         /\ open' = [open EXCEPT ![t] = @ \ {e}]
         /\ readers' = readers - Count(e = "r")
         /\ writers' = writers - Count(e = "w")
    /\ WakeAll({}, IF readers' = 0 THEN write_waitq ELSE {})
    /\ p' = IF readers' = 0 /\ writers' = 0 THEN EmptyRing ELSE p
    /\ UNCHANGED <<sigVars, pc, callVars, got, misled>>

(* pipe_release_reference and pipe_destroy_if_unused: close, exec, exit. *)
Release(t) ==
    /\ pc[t] = "out"
    /\ \E e \in open[t] :
         /\ open' = [open EXCEPT ![t] = @ \ {e}]
         /\ readers' = readers - Count(e = "r")
         /\ writers' = writers - Count(e = "w")
    /\ WakeAll(IF writers' = 0 THEN read_waitq ELSE {}, IF readers' = 0 THEN write_waitq ELSE {})
    /\ p' = IF readers' = 0 /\ writers' = 0 THEN EmptyRing ELSE p
    /\ UNCHANGED <<sigVars, pc, callVars, got, misled>>

-----------------------------------------------------------------------------
(***************************************************************************)
(* Signals                                                                 *)
(***************************************************************************)

(* deliver_signal_to_task sets the pending bit, of a signal that may be    *)
(* masked, tests the state without a lock, and calls wake_task.            *)
SignalSet(t) ==
    /\ sender[t] = "none"
    /\ \E b \in {pending[t], TRUE} : pending' = [pending EXCEPT ![t] = b]
    /\ sender' = [sender EXCEPT ![t] = "test"]
    /\ UNCHANGED <<p, refVars, queueVars, pc, callVars, got, misled>>

SignalTest(t) ==
    /\ sender[t] = "test"
    /\ sender' = [sender EXCEPT ![t] = IF tstate[t] = "BLOCKED" THEN "wake" ELSE "none"]
    /\ UNCHANGED <<p, refVars, queueVars, pending, pc, callVars, got, misled>>

(* wake_task, which tests the state again under sched_lock. *)
SignalWake(t) ==
    /\ sender[t] = "wake"
    /\ sender' = [sender EXCEPT ![t] = "none"]
    /\ IF tstate[t] = "BLOCKED" THEN WakeAll(read_waitq \cap {t}, write_waitq \cap {t})
                                ELSE UNCHANGED queueVars
    /\ UNCHANGED <<p, refVars, pending, pc, callVars, got, misled>>

(* The signal is taken on the way back to user code. *)
SignalTaken(t) ==
    /\ pc[t] = "out"
    /\ pending[t]
    /\ pending' = [pending EXCEPT ![t] = FALSE]
    /\ UNCHANGED <<p, refVars, queueVars, sender, pc, callVars, got, misled>>

-----------------------------------------------------------------------------
WriteStep(t) == WriteLock(t) \/ Awake(t, "w_sleep", "w_test") \/ Test(t, "w_test", "w_again")
                \/ WriteAgain(t)
ReadStep(t) == ReadLock(t) \/ Awake(t, "r_sleep", "r_test") \/ Test(t, "r_test", "r_lock")
               \/ ReadReturn(t)

Next ==
    \/ \E t \in Tasks : \/ WriteCall(t) \/ WriteStep(t) \/ ReadCall(t) \/ ReadStep(t)
                        \/ Retain(t) \/ Release(t)
    \/ \E t \in Signalled : SignalSet(t) \/ SignalTest(t) \/ SignalWake(t) \/ SignalTaken(t)

Spec == Init /\ [][Next]_vars

(* A task that is READY gets a CPU and a spin lock is obtained; a sender   *)
(* of a signal finishes.                                                   *)
FairSpec ==
    /\ Spec
    /\ \A t \in Tasks : WF_vars(WriteStep(t) \/ ReadStep(t))
    /\ \A t \in Signalled : WF_vars(SignalTest(t) \/ SignalWake(t))

-----------------------------------------------------------------------------
(* The ring's positions stay exact through every write, read, growth and   *)
(* shrinking, and whenever the pipe has no descriptor it is empty.         *)
RingExact == PositionsExact(p) /\ (readers = 0 /\ writers = 0 => p = EmptyRing)

(* readers and writers count the descriptors. *)
ReferencesExact ==
    /\ readers = Cardinality({t \in Tasks : "r" \in open[t]})
    /\ writers = Cardinality({t \in Tasks : "w" \in open[t]})

(* No lost wake-up of a reader: one that sleeps sleeps on an empty pipe    *)
(* that somebody can still write to, and is on the queue.                  *)
ReaderSleepsOnEmpty ==
    \A t \in Tasks : tstate[t] = "BLOCKED" /\ pc[t] = "r_sleep" =>
        p.count = 0 /\ writers > 0 /\ t \in read_waitq

(* No lost wake-up of a writer: while one sleeps somebody can still read,  *)
(* it is on the queue, and there are bytes whose reader will wake it.  The *)
(* exception is a writer that went back to sleep when a reader had freed   *)
(* the buffer: count and buf_size are then both zero.                      *)
WriterSleepsOnBytes ==
    \A t \in Tasks : tstate[t] = "BLOCKED" /\ pc[t] = "w_sleep" =>
        readers > 0 /\ t \in write_waitq /\ (p.count > 0 \/ t \in misled)

(* A signal that arrives between the last test and the sleep is not lost:  *)
(* a sleeping task has none pending, or its sender is about to wake it.    *)
NoSleepWithSignal ==
    \A t \in Tasks : tstate[t] = "BLOCKED" /\ pending[t] => sender[t] # "none"

(* The pipe is a stream of bytes: whatever is resized and however writers  *)
(* and readers interleave, the bytes of a write go in once and in order,   *)
(* and the bytes of the pipe come out once and in order.                   *)
Stream == INSTANCE ByteStream WITH stream <- Contents(p), todo <- data
IsStream == Stream!Spec

(* A sleeping reader or writer returns once it has a signal or the other   *)
(* end is closed.                                                          *)
SleepersReleased ==
    \A t \in Tasks :
        (\/ pc[t] = "r_sleep" /\ (pending[t] \/ writers = 0)
         \/ pc[t] = "w_sleep" /\ (pending[t] \/ readers = 0)) ~> pc[t] = "out"
=============================================================================

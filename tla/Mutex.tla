-------------------------------- MODULE Mutex --------------------------------
(***************************************************************************)
(* The kernel's blocking, recursive mutex (kernel/arch/x86_64/mutex.c) on  *)
(* an SMP machine.  Every task runs mutex_lock, mutex_trylock and          *)
(* mutex_unlock one atomic memory access (or one sched_lock section) at a  *)
(* time.  m->locked, m->owner, m->depth and the head of m->waiters are     *)
(* read without sched_lock by the fast paths; the wait queue and the task  *)
(* states only change under it.                                            *)
(*                                                                         *)
(* pc[t] is where task t stands:                                           *)
(*   out     not in a mutex function            cas     first CAS          *)
(*   recur   owner test after a failed CAS      spin    64 reads of locked *)
(*   enter   about to lock_scheduler            enq     waitq_add          *)
(*   cas2    CAS while queued                   boost   set holder's boost *)
(*   leave   about to unlock_scheduler          asleep  inside schedule()  *)
(*   resume  back from schedule()               own     store owner, depth *)
(*   own2    the same, inside sched_lock                                   *)
(*   tcas    CAS of mutex_trylock               release store locked = 0   *)
(*   peek    load waiters.head                  wake    waitq_wake_one     *)
(***************************************************************************)
EXTENDS WaitQueue, FiniteSets

CONSTANTS Tasks,      \* the tasks that use the mutex
          CanBlock,   \* those with id # 0 and scheduler_lock_depth = 0
          NoTask,     \* the null task pointer
          MaxDepth    \* bound: how deep a task nests its acquisitions

ASSUME TasksAssumption == NoTask \notin Tasks
ASSUME CanBlockAssumption == CanBlock \subseteq Tasks
ASSUME MaxDepthAssumption == MaxDepth \in Nat \ {0}

VARIABLES
    locked,     \* m->locked
    owner,      \* m->owner
    depth,      \* m->depth
    waiters,    \* m->waiters
    tstate,     \* task->state, for each task
    queued,     \* task->waiting_queue == &m->waiters, for each task
    pi_boost,   \* task->pi_boost = 40, for each task
    sched,      \* the task whose CPU holds sched_lock
    holder,     \* the m->owner that mutex_lock read before boosting
    pc,
    held        \* acquisitions each task has made and not yet given back

vars == <<locked, owner, depth, waiters, tstate, queued, pi_boost, sched,
          holder, pc, held>>

PCs == {"out", "cas", "recur", "spin", "enter", "enq", "cas2", "boost",
        "leave", "asleep", "resume", "own", "own2", "tcas", "release",
        "peek", "wake"}

TypeOK ==
    /\ locked \in BOOLEAN
    /\ owner \in Tasks \cup {NoTask}
    /\ depth \in Nat
    /\ waiters \in Seq(Tasks)
    /\ tstate \in [Tasks -> {"READY", "RUNNING", "BLOCKED"}]
    /\ queued \in [Tasks -> BOOLEAN]
    /\ pi_boost \in [Tasks -> BOOLEAN]
    /\ sched \in Tasks \cup {NoTask}
    /\ holder \in [Tasks -> Tasks \cup {NoTask}]
    /\ pc \in [Tasks -> PCs]
    /\ held \in [Tasks -> Nat]

(* mutex_init, and tasks that have not touched the mutex yet. *)
Init ==
    /\ locked = FALSE
    /\ owner = NoTask
    /\ depth = 0
    /\ waiters = <<>>
    /\ tstate = [t \in Tasks |-> "RUNNING"]
    /\ queued = [t \in Tasks |-> FALSE]
    /\ pi_boost = [t \in Tasks |-> FALSE]
    /\ sched = NoTask
    /\ holder = [t \in Tasks |-> NoTask]
    /\ pc = [t \in Tasks |-> "out"]
    /\ held = [t \in Tasks |-> 0]

Goto(t, from, to) ==
    /\ pc[t] = from
    /\ pc' = [pc EXCEPT ![t] = to]

lockVars == <<locked, owner, depth>>
schedVars == <<waiters, tstate, queued, sched>>
boostVars == <<pi_boost, holder>>

-----------------------------------------------------------------------------
(***************************************************************************)
(* mutex_lock                                                              *)
(***************************************************************************)

LockCall(t) ==
    /\ held[t] < MaxDepth
    /\ Goto(t, "out", "cas")
    /\ UNCHANGED <<lockVars, schedVars, boostVars, held>>

(* Mutant: a load and a store instead of the compare-and-swap. *)
LockCas_NotAtomic(t) ==
    /\ Goto(t, "cas", IF owner # NoTask THEN "recur" ELSE "own")
    /\ locked' = TRUE
    /\ UNCHANGED <<owner, depth, schedVars, boostVars, held>>

(* __sync_bool_compare_and_swap(&m->locked, 0, 1), first attempt. *)
LockCas(t) ==
    /\ IF locked
         THEN Goto(t, "cas", "recur") /\ UNCHANGED locked
         ELSE Goto(t, "cas", "own") /\ locked' = TRUE
    /\ UNCHANGED <<owner, depth, schedVars, boostVars, held>>

(* The stores that follow a successful CAS outside sched_lock. *)
TakeOwnership(t) ==
    /\ Goto(t, "own", "out")
    /\ owner' = t
    /\ depth' = 1
    /\ held' = [held EXCEPT ![t] = @ + 1]
    /\ UNCHANGED <<locked, schedVars, boostVars>>

(* Mutant: the nested acquisition is not counted. *)
LockRecursive_NoCount(t) ==
    /\ pc[t] = "recur"
    /\ pc' = [pc EXCEPT ![t] = IF owner = t THEN "out" ELSE "spin"]
    /\ held' = [held EXCEPT ![t] = IF owner = t THEN @ + 1 ELSE @]
    /\ UNCHANGED <<lockVars, schedVars, boostVars>>

(* m->owner == owner: the caller already holds the mutex. *)
LockRecursive(t) ==
    /\ pc[t] = "recur"
    /\ IF owner = t
         THEN /\ pc' = [pc EXCEPT ![t] = "out"]
              /\ depth' = depth + 1
              /\ held' = [held EXCEPT ![t] = @ + 1]
         ELSE /\ pc' = [pc EXCEPT ![t] = "spin"]
              /\ UNCHANGED <<depth, held>>
    /\ UNCHANGED <<locked, owner, schedVars, boostVars>>

(* The bounded spin, then "m->locked && can_block". *)
LockSpin(t) ==
    /\ Goto(t, "spin", IF locked /\ t \in CanBlock THEN "enter" ELSE "cas")
    /\ UNCHANGED <<lockVars, schedVars, boostVars, held>>

LockEnter(t) ==
    /\ sched = NoTask
    /\ Goto(t, "enter", "enq")
    /\ sched' = t
    /\ UNCHANGED <<lockVars, waiters, tstate, queued, boostVars, held>>

(* Second owner test, then waitq_add. *)
LockEnqueue(t) ==
    /\ pc[t] = "enq"
    /\ IF owner = t
         THEN /\ depth' = depth + 1
              /\ held' = [held EXCEPT ![t] = @ + 1]
              /\ sched' = NoTask
              /\ pc' = [pc EXCEPT ![t] = "out"]
              /\ UNCHANGED <<waiters, tstate, queued>>
         ELSE /\ waiters' = IF queued[t] THEN waiters ELSE waitq_link(waiters, t)
              /\ tstate' = [tstate EXCEPT ![t] = "BLOCKED"]
              /\ queued' = [queued EXCEPT ![t] = TRUE]
              /\ pc' = [pc EXCEPT ![t] = "cas2"]
              /\ UNCHANGED <<depth, held, sched>>
    /\ UNCHANGED <<locked, owner, boostVars>>

(* Mutant: no second CAS once the task is queued. *)
LockCasQueued_NoRetry(t) ==
    /\ Goto(t, "cas2", "boost")
    /\ holder' = [holder EXCEPT ![t] = owner]
    /\ UNCHANGED <<lockVars, schedVars, pi_boost, held>>

(* The CAS made while queued: on success the task unlinks itself.  On      *)
(* failure it reads m->owner, the task it will boost.                      *)
LockCasQueued(t) ==
    /\ pc[t] = "cas2"
    /\ IF locked
         THEN /\ holder' = [holder EXCEPT ![t] = owner]
              /\ pc' = [pc EXCEPT ![t] = "boost"]
              /\ UNCHANGED <<locked, waiters, tstate, queued>>
         ELSE /\ locked' = TRUE
              /\ waiters' = waitq_unlink(waiters, t)
              /\ queued' = [queued EXCEPT ![t] = FALSE]
              /\ tstate' = [tstate EXCEPT ![t] = "RUNNING"]
              /\ pc' = [pc EXCEPT ![t] = "own2"]
              /\ UNCHANGED holder
    /\ UNCHANGED <<owner, depth, sched, pi_boost, held>>

(* The stores that follow a successful queued CAS, then unlock_scheduler. *)
TakeOwnershipQueued(t) ==
    /\ Goto(t, "own2", "out")
    /\ owner' = t
    /\ depth' = 1
    /\ held' = [held EXCEPT ![t] = @ + 1]
    /\ sched' = NoTask
    /\ UNCHANGED <<locked, waiters, tstate, queued, boostVars>>

(* Priority inheritance: the holder read above gets pi_boost 40. *)
LockBoost(t) ==
    /\ Goto(t, "boost", "leave")
    /\ pi_boost' = IF holder[t] \notin {NoTask, t}
                     THEN [pi_boost EXCEPT ![holder[t]] = TRUE]
                     ELSE pi_boost
    /\ UNCHANGED <<lockVars, schedVars, holder, held>>

LockLeave(t) ==
    /\ Goto(t, "leave", "asleep")
    /\ sched' = NoTask
    /\ UNCHANGED <<lockVars, waiters, tstate, queued, boostVars, held>>

(* schedule() returns: another CPU made the task ready.  schedule_from_irq *)
(* either switched away and back, or found nothing else to run and left    *)
(* the READY state as it was.                                              *)
LockAwake(t) ==
    /\ tstate[t] = "READY"
    /\ Goto(t, "asleep", "resume")
    /\ \E s \in {"READY", "RUNNING"} : tstate' = [tstate EXCEPT ![t] = s]
    /\ UNCHANGED <<lockVars, waiters, queued, sched, boostVars, held>>

(* The short sched_lock section after schedule(). *)
LockResume(t) ==
    /\ sched = NoTask
    /\ Goto(t, "resume", "cas")
    /\ tstate' = [tstate EXCEPT ![t] = "RUNNING"]
    /\ UNCHANGED <<lockVars, waiters, queued, sched, boostVars, held>>

-----------------------------------------------------------------------------
(***************************************************************************)
(* mutex_trylock                                                           *)
(***************************************************************************)

TryLockCall(t) ==
    /\ held[t] < MaxDepth
    /\ Goto(t, "out", "tcas")
    /\ UNCHANGED <<lockVars, schedVars, boostVars, held>>

TryLock(t) ==
    /\ pc[t] = "tcas"
    /\ \/ /\ ~locked
          /\ locked' = TRUE
          /\ pc' = [pc EXCEPT ![t] = "own"]
          /\ UNCHANGED <<depth, held>>
       \/ /\ locked
          /\ owner = t
          /\ depth' = depth + 1
          /\ held' = [held EXCEPT ![t] = @ + 1]
          /\ pc' = [pc EXCEPT ![t] = "out"]
          /\ UNCHANGED locked
       \/ /\ locked
          /\ owner # t
          /\ pc' = [pc EXCEPT ![t] = "out"]
          /\ UNCHANGED <<locked, depth, held>>
    /\ UNCHANGED <<owner, schedVars, boostVars>>

-----------------------------------------------------------------------------
(***************************************************************************)
(* mutex_unlock                                                            *)
(***************************************************************************)

(* The tests and the stores up to the release of m->locked.  A caller that *)
(* does not own the mutex leaves it alone.                                 *)
Unlock(t) ==
    /\ pc[t] = "out"
    /\ \/ /\ ~locked \/ owner # t
          /\ UNCHANGED <<owner, depth, pi_boost, held, pc>>
       \/ /\ locked /\ owner = t /\ depth > 1
          /\ depth' = depth - 1
          /\ held' = [held EXCEPT ![t] = @ - 1]
          /\ UNCHANGED <<owner, pi_boost, pc>>
       \/ /\ locked /\ owner = t /\ depth <= 1
          /\ depth' = 0
          /\ owner' = NoTask
          /\ pi_boost' = [pi_boost EXCEPT ![t] = FALSE]
          /\ held' = [held EXCEPT ![t] = @ - 1]
          /\ pc' = [pc EXCEPT ![t] = "release"]
    /\ UNCHANGED <<locked, schedVars, holder>>

(* __atomic_exchange_n(&m->locked, 0). *)
UnlockRelease(t) ==
    /\ Goto(t, "release", "peek")
    /\ locked' = FALSE
    /\ UNCHANGED <<owner, depth, schedVars, boostVars, held>>

(* __atomic_load_n(&m->waiters.head). *)
UnlockPeek(t) ==
    /\ Goto(t, "peek", IF waiters = <<>> THEN "out" ELSE "wake")
    /\ UNCHANGED <<lockVars, schedVars, boostVars, held>>

(* Mutant: the queue is looked at again until it is empty, and the head is *)
(* never taken off it.                                                     *)
UnlockWake_NotPopped(t) ==
    /\ sched = NoTask
    /\ Goto(t, "wake", "peek")
    /\ UNCHANGED <<lockVars, schedVars, boostVars, held>>

(* waitq_wake_one: pop the head and make it ready, under sched_lock. *)
UnlockWake(t) ==
    /\ sched = NoTask
    /\ Goto(t, "wake", "out")
    /\ IF waiters = <<>>
         THEN UNCHANGED <<waiters, tstate, queued>>
         ELSE LET w == Head(waiters) IN
              /\ waiters' = Tail(waiters)
              /\ queued' = [queued EXCEPT ![w] = FALSE]
              /\ tstate' = IF tstate[w] = "BLOCKED"
                             THEN [tstate EXCEPT ![w] = "READY"] ELSE tstate
    /\ UNCHANGED <<lockVars, sched, boostVars, held>>

-----------------------------------------------------------------------------
(* wake_task from elsewhere in the kernel (a signal, a kill): a blocked    *)
(* task leaves the queue and becomes ready without owning the mutex.       *)
WakeTask(t) ==
    /\ sched = NoTask
    /\ tstate[t] = "BLOCKED"
    /\ waiters' = waitq_unlink(waiters, t)
    /\ queued' = [queued EXCEPT ![t] = FALSE]
    /\ tstate' = [tstate EXCEPT ![t] = "READY"]
    /\ UNCHANGED <<lockVars, sched, boostVars, pc, held>>

LockStep(t) ==
    \/ LockCas(t) \/ TakeOwnership(t) \/ LockRecursive(t) \/ LockSpin(t)
    \/ LockEnter(t) \/ LockEnqueue(t) \/ LockCasQueued(t)
    \/ TakeOwnershipQueued(t) \/ LockBoost(t) \/ LockLeave(t)
    \/ LockAwake(t) \/ LockResume(t)

UnlockStep(t) == UnlockRelease(t) \/ UnlockPeek(t) \/ UnlockWake(t)

Next ==
    \E t \in Tasks :
        \/ LockCall(t) \/ TryLockCall(t) \/ TryLock(t) \/ Unlock(t)
        \/ LockStep(t) \/ UnlockStep(t) \/ WakeTask(t)

(* A task inside a mutex function keeps running while it is runnable, and  *)
(* a holder gives the mutex back.                                          *)
Fairness ==
    \A t \in Tasks :
        /\ WF_vars(LockStep(t) \/ UnlockStep(t) \/ TryLock(t))
        /\ WF_vars(held[t] > 0 /\ Unlock(t))

Spec == Init /\ [][Next]_vars
FairSpec == Spec /\ Fairness

-----------------------------------------------------------------------------
(* Two tasks never have the mutex at once: acquisitions that mutex_lock    *)
(* and mutex_trylock have handed out, and mutex_unlock has not taken back, *)
(* all belong to one task.                                                 *)
MutualExclusion ==
    \A t, u \in Tasks : held[t] > 0 /\ held[u] > 0 => t = u

(* m->owner and m->depth describe the holder exactly: the owner word names *)
(* the task that holds the mutex, and depth counts its acquisitions, so a  *)
(* nested mutex_unlock cannot release the mutex early.                     *)
OwnerAndDepthExact ==
    \A t \in Tasks : held[t] > 0 => locked /\ owner = t /\ depth = held[t]

(* A task that will look at m->locked again, or is about to pop a waiter.  *)
Rescuer(t) ==
    \/ pc[t] \in {"cas", "recur", "spin", "enter", "enq", "cas2", "resume",
                  "peek", "wake"}
    \/ pc[t] = "asleep" /\ tstate[t] # "BLOCKED"

(* No lost wake-up: when the mutex is free and tasks sleep on it, some     *)
(* task is on its way to wake one or to take the mutex.  mutex_unlock      *)
(* reads waiters.head without sched_lock, and mutex_lock queues itself     *)
(* before its second CAS, precisely for this.                              *)
NoLostWakeup ==
    ~locked /\ waiters # <<>> => \E t \in Tasks : Rescuer(t)

(* The wait queue, the membership flags and the task states agree: a task  *)
(* asleep in BLOCKED state is on the queue, once, or nobody could wake it. *)
SleepersQueued ==
    /\ IsInjective(waiters)
    /\ \A t \in Tasks :
         /\ queued[t] <=> t \in ToSet(waiters)
         /\ pc[t] = "asleep" /\ tstate[t] = "BLOCKED" => queued[t]

(* A task whose CAS succeeded, up to its release of m->locked. *)
Possesses(t) == held[t] > 0 \/ pc[t] \in {"own", "own2", "release"}

(* The possession behind MutualExclusion: the CAS to 1 has one winner at a *)
(* time, the owner word is set only by the winner, and it is cleared       *)
(* before m->locked is.                                                    *)
PossessionExact ==
    /\ \A t, u \in Tasks : Possesses(t) /\ Possesses(u) => t = u
    /\ \A t \in Tasks : Possesses(t) => locked
    /\ \A t \in Tasks : held[t] > 0 =>
         /\ owner = t
         /\ depth = held[t]
         /\ pc[t] \notin {"own", "own2", "release"}
    /\ owner # NoTask => held[owner] > 0

(* sched_lock is held exactly inside mutex_lock's critical section. *)
SchedLockExact ==
    \A t \in Tasks :
        sched = t <=> pc[t] \in {"enq", "cas2", "boost", "leave", "own2"}

(* The wait queue holds exactly the blocked tasks, and a task is blocked   *)
(* only between its waitq_add and its wake-up.                             *)
QueueExact ==
    /\ IsInjective(waiters)
    /\ \A t \in Tasks :
         /\ queued[t] <=> t \in ToSet(waiters)
         /\ queued[t] <=> tstate[t] = "BLOCKED"
         /\ queued[t] => pc[t] \in {"cas2", "boost", "leave", "asleep"}
         /\ pc[t] \in {"cas2", "boost", "leave"} => queued[t]

IInv ==
    /\ TypeOK
    /\ PossessionExact
    /\ SchedLockExact
    /\ QueueExact
    /\ NoLostWakeup

(* The mutex does not stay free while somebody sleeps on it. *)
HandoffHappens ==
    (~locked /\ waiters # <<>>) ~> (locked \/ waiters = <<>>)
=============================================================================

-------------------------------- MODULE Life --------------------------------
(***************************************************************************)
(* The life of a task: fork, exit and kill, job control, the wait calls of *)
(* its parent, and the reaper (task.c, syscalls/syscall_process.c,         *)
(* syscalls/syscall_signal.c).  One step is one section of sched_lock or   *)
(* one unlocked access.                                                    *)
(*                                                                         *)
(* READY and RUNNING are one state, "ready".  "none" is a task that is not *)
(* forked yet, "freed" one whose task_t the reaper has unlinked and freed. *)
(* pc[t] is where task t stands:                                           *)
(*   user        in user code, where it may be preempted                   *)
(*   stopped     in the schedule() that follows task_job_stop              *)
(*   gone        behind task_exit_deferred                                 *)
(*   pid, pid_asleep, pid_intr    in task_wait_child_pid                   *)
(*   find, prep, any_asleep       in wait_child for any child              *)
(*   join, join_asleep, mark      in its task_join and behind it           *)
(*   garbage     task_join was given a freed task                          *)
(*   reap        in its reap_dead_tasks                                    *)
(* dead_queue is a set: the order only decides which child is found first. *)
(* A WNOHANG call is left out: it does what a call that waits does up to   *)
(* the point where it returns.  Process groups are not told apart.         *)
(***************************************************************************)
EXTENDS Naturals, FiniteSets

CONSTANTS Tasks,
          Root,       \* the task that exists at first; its parent is gone
          NoTask,
          Parents,    \* bound: the tasks that fork and wait
          Options,    \* bound: the options of their waits, sets of
                      \* "stopped" (WUNTRACED) and "continued" (WCONTINUED)
          Catches,    \* the tasks that have a handler for SIGCHLD
          Killers,    \* callers of kill(2) outside of Tasks
          Sent,       \* bound: what they send to whom, pairs of a task and
                      \* "kill", "sig", "stop" or "cont"
          Workers     \* CPUs that run task_deferred_work

ASSUME RootAssumption == Root \in Tasks /\ NoTask \notin Tasks
ASSUME KillersAssumption == Killers \cap Tasks = {}
ASSUME FiniteAssumption == IsFiniteSet(Tasks) /\ IsFiniteSet(Killers)
ASSUME SentAssumption == Sent \subseteq Tasks \X {"kill", "sig", "stop", "cont"}

VARIABLES
    state, ppid, waited, refs,
    oncpu,          \* a dead task still runs, or is being switched from
    exit_pending,   \* TASK_EXIT_PENDING of exit_code
    pending,        \* unblocked signals that are not ignored: "sig", "stop"
    job_event,      \* 0, 1 (stopped) or 2 (continued)
    job_stopped,    \* job_stop_signal # 0
    join_refs,
    join_target,
    waiting_for_any_child,
    queued,         \* in_wait_queue: on join_waiters of join_target
    wait_options,
    dead_queue,
    reap_requested, \* TASK_DEFERRED_REAP of task_deferred_pending
    pc,
    found,          \* the child of a wait call: its argument, or the one found
    again,          \* ghost: that child had been waited for when it was found
    sender,         \* who delivers a signal: where it stands, to whom, what
    reaper          \* who is in reap_dead_tasks, and its locals

taskVars == <<ppid, waited, exit_pending>>
jobVars == <<job_event, job_stopped>>
joinVars == <<join_refs, join_target, waiting_for_any_child>>
callVars == <<wait_options, pc, found, again>>
queueVars == <<dead_queue, reap_requested, oncpu>>
vars == <<state, queued, taskVars, refs, pending, jobVars, joinVars, callVars,
          queueVars, sender, reaper>>

NoSender == [at |-> "idle", to |-> NoTask, what |-> "none"]
NoReaper == [at |-> "idle", list |-> {}, keep |-> {}, retry |-> FALSE, cur |-> NoTask]

Init ==
    /\ state = [t \in Tasks |-> IF t = Root THEN "ready" ELSE "none"]
    /\ ppid = [t \in Tasks |-> NoTask]
    /\ waited = [t \in Tasks |-> FALSE]
    /\ refs = [t \in Tasks |-> 0]
    /\ oncpu = [t \in Tasks |-> FALSE]
    /\ exit_pending = [t \in Tasks |-> FALSE]
    /\ pending = [t \in Tasks |-> {}]
    /\ job_event = [t \in Tasks |-> 0]
    /\ job_stopped = [t \in Tasks |-> FALSE]
    /\ join_refs = [t \in Tasks |-> 0]
    /\ join_target = [t \in Tasks |-> NoTask]
    /\ waiting_for_any_child = [t \in Tasks |-> FALSE]
    /\ queued = [t \in Tasks |-> FALSE]
    /\ wait_options = [t \in Tasks |-> {}]
    /\ dead_queue = {}
    /\ reap_requested = FALSE
    /\ pc = [t \in Tasks |-> "user"]
    /\ found = [t \in Tasks |-> NoTask]
    /\ again = [t \in Tasks |-> FALSE]
    /\ sender = [x \in Tasks \cup Killers |-> NoSender]
    /\ reaper = [x \in Tasks \cup Workers |-> NoReaper]

-----------------------------------------------------------------------------
(* all_tasks_head, and the children of a task that are on it. *)
AllTasks == {t \in Tasks : state[t] \notin {"none", "freed"}}
Children(t) == {c \in AllTasks : ppid[c] = t}

task_has_pending_signals(t) == exit_pending[t] \/ pending[t] # {}

(* A step of task t: it has a CPU and is in none of the calls below. *)
Runs(t) == state[t] = "ready" /\ sender[t].at = "idle" /\ reaper[t].at = "idle"

(* The task goes on at the place l.  At the end of a call it is in user    *)
(* code, and what the call has left in the task does not matter any more.  *)
Goto(t, l) == pc' = [pc EXCEPT ![t] = l]
Return(t) ==
    /\ Goto(t, "user")
    /\ found' = [found EXCEPT ![t] = NoTask]
    /\ again' = [again EXCEPT ![t] = FALSE]
    /\ wait_options' = [wait_options EXCEPT ![t] = {}]

(* task_wake_parent_waiter_locked: the parents of C that wait for any child. *)
WaitingParents(C) ==
    {p \in Tasks : /\ waiting_for_any_child[p]
                   /\ state[p] = "blocked"
                   /\ \E c \in C : ppid[c] = p}

(* t comes into state s, the tasks on its join_waiters and a parent that   *)
(* waits for any child are woken (waitq_wake_all, task_mark_ready_locked). *)
Announce(t, s) ==
    LET joined == {u \in Tasks : queued[u] /\ join_target[u] = t}
        woken == {u \in joined : state[u] = "blocked"} \cup WaitingParents({t})
    IN  /\ state' = [u \in Tasks |-> IF u = t THEN s
                                     ELSE IF u \in woken THEN "ready" ELSE state[u]]
        /\ queued' = [u \in Tasks |-> queued[u] /\ u \notin joined]

(* wake_task takes a blocked task off its wait queue and makes it READY. *)
WakeTask(t) ==
    IF state[t] = "blocked"
      THEN /\ state' = [state EXCEPT ![t] = "ready"]
           /\ queued' = [queued EXCEPT ![t] = FALSE]
      ELSE UNCHANGED <<state, queued>>

-----------------------------------------------------------------------------
(***************************************************************************)
(* Birth and death                                                         *)
(***************************************************************************)

(* fork publishes a child that is set up completely. *)
Fork(t) ==
    /\ pc[t] = "user" /\ t \in Parents
    /\ \E c \in Tasks :
         /\ state[c] = "none"
         /\ state' = [state EXCEPT ![c] = "ready"]
         /\ ppid' = [ppid EXCEPT ![c] = t]
    /\ UNCHANGED <<queued, waited, exit_pending, refs, pending, jobVars, joinVars,
                   callVars, queueVars, sender, reaper>>

(* The section of sched_lock that task_exit_deferred and task_kill share.  *)
(* A task dies in user code or stopped there, so it has no join_target.    *)
Die(t, cpu) ==
    /\ Announce(t, "dead")
    /\ dead_queue' = dead_queue \cup {t}
    /\ oncpu' = [oncpu EXCEPT ![t] = cpu]
    /\ Goto(t, "gone")

(* task_exit_deferred, by exit, by a signal or for TASK_EXIT_PENDING; the  *)
(* parent is signalled next.                                               *)
Exit(t) ==
    /\ pc[t] = "user"
    /\ Die(t, TRUE)
    /\ sender' = [sender EXCEPT ![t] = [at |-> "chld", to |-> t, what |-> "kill"]]
    /\ UNCHANGED <<taskVars, refs, pending, jobVars, joinVars, wait_options, found,
                   again, reap_requested, reaper>>

(* The dead task has been switched from and no CPU names it any more. *)
OffCpu(t) ==
    /\ oncpu[t] /\ sender[t].at = "idle"
    /\ oncpu' = [oncpu EXCEPT ![t] = FALSE]
    /\ UNCHANGED <<state, queued, taskVars, refs, pending, jobVars, joinVars, callVars,
                   dead_queue, reap_requested, sender, reaper>>

(* Signals are taken on the way to user code: a handler runs. *)
SignalTaken(t) ==
    /\ pc[t] = "user" /\ ~exit_pending[t]
    /\ "sig" \in pending[t]
    /\ pending' = [pending EXCEPT ![t] = @ \ {"sig"}]
    /\ UNCHANGED <<state, queued, taskVars, refs, jobVars, joinVars, callVars,
                   queueVars, sender, reaper>>

(* A stop signal: task_job_stop, then signal_notify_parent_job. *)
JobStop(t) ==
    /\ pc[t] = "user" /\ ~exit_pending[t]
    /\ "stop" \in pending[t]
    /\ pending' = [pending EXCEPT ![t] = @ \ {"stop"}]
    /\ job_stopped' = [job_stopped EXCEPT ![t] = TRUE]
    /\ job_event' = [job_event EXCEPT ![t] = 1]
    /\ Announce(t, "stopped")
    /\ Goto(t, "stopped")
    /\ sender' = [sender EXCEPT ![t] = [at |-> "chld", to |-> t, what |-> "cont"]]
    /\ UNCHANGED <<taskVars, refs, joinVars, wait_options, found, again, queueVars, reaper>>

Resume(t) ==
    /\ pc[t] = "stopped"
    /\ Goto(t, "user")
    /\ UNCHANGED <<state, queued, taskVars, refs, pending, jobVars, joinVars,
                   wait_options, found, again, queueVars, sender, reaper>>

-----------------------------------------------------------------------------
(***************************************************************************)
(* Signals: kill(2), deliver_signal_to_task and task_kill.  A delivery is  *)
(* one step: how it meets a task that is about to sleep is in Futex, Pipe. *)
(***************************************************************************)

(* task_find_retain. *)
Retain(k) ==
    /\ sender[k].at = "idle"
    /\ \E s \in Sent :
         /\ s[1] \in AllTasks
         /\ refs' = [refs EXCEPT ![s[1]] = @ + 1]
         /\ sender' = [sender EXCEPT ![k] = [at |-> "send", to |-> s[1], what |-> s[2]]]
    /\ UNCHANGED <<state, queued, taskVars, pending, jobVars, joinVars, callVars,
                   queueVars, reaper>>

(* Only a task in user code, or stopped there, can be off every CPU and    *)
(* without a syscall frame.                                                *)
KillDirect(t) ==
    \/ Runs(t) /\ pc[t] = "user"
    \/ state[t] = "stopped" /\ sender[t].at = "idle"

At(k, l) == sender' = [sender EXCEPT ![k].at = l]

(* task_kill of a task that must end itself. *)
SendKillDeferred(k) ==
    LET t == sender[k].to IN
    /\ sender[k].at = "send" /\ sender[k].what = "kill" /\ state[t] # "dead"
    /\ exit_pending' = [exit_pending EXCEPT ![t] = TRUE]
    /\ state' = [state EXCEPT ![t] = "ready"]
    /\ queued' = [queued EXCEPT ![t] = FALSE]
    /\ At(k, "release")
    /\ UNCHANGED <<ppid, waited, refs, pending, jobVars, joinVars, callVars, queueVars,
                   reaper>>

(* task_kill of a task that is preempted in user code, or stopped. *)
SendKillDirect(k) ==
    LET t == sender[k].to IN
    /\ sender[k].at = "send" /\ sender[k].what = "kill" /\ state[t] # "dead"
    /\ KillDirect(t)
    /\ Die(t, FALSE)
    /\ At(k, "chld")
    /\ UNCHANGED <<taskVars, refs, pending, jobVars, joinVars, wait_options, found,
                   again, reap_requested, reaper>>

(* The signal is made pending, a stop signal likewise, and the task woken. *)
SendSignal(k) ==
    LET t == sender[k].to IN
    /\ sender[k].at = "send" /\ sender[k].what \in {"sig", "stop"} /\ state[t] # "dead"
    /\ pending' = [pending EXCEPT ![t] = @ \cup {sender[k].what}]
    /\ WakeTask(t)
    /\ At(k, "release")
    /\ UNCHANGED <<taskVars, refs, jobVars, joinVars, callVars, queueVars, reaper>>

(* SIGCONT: stop signals are dropped; task_job_continue; then the parent   *)
(* is notified.                                                            *)
SendContinue(k) ==
    LET t == sender[k].to IN
    /\ sender[k].at = "send" /\ sender[k].what = "cont" /\ state[t] # "dead"
    /\ pending' = [pending EXCEPT ![t] = @ \ {"stop"}]
    /\ IF job_stopped[t]
         THEN /\ job_stopped' = [job_stopped EXCEPT ![t] = FALSE]
              /\ job_event' = [job_event EXCEPT ![t] = 2]
              /\ Announce(t, IF state[t] = "stopped" THEN "ready" ELSE state[t])
              /\ At(k, "chld")
         ELSE /\ At(k, "release")
              /\ UNCHANGED <<jobVars, state, queued>>
    /\ UNCHANGED <<taskVars, refs, joinVars, callVars, queueVars, reaper>>

SendDead(k) ==
    /\ sender[k].at = "send" /\ state[sender[k].to] = "dead"
    /\ At(k, "release")
    /\ UNCHANGED <<state, queued, taskVars, refs, pending, jobVars, joinVars, callVars,
                   queueVars, reaper>>

Release(k) ==
    /\ sender[k].at = "release"
    /\ refs' = [refs EXCEPT ![sender[k].to] = @ - 1]
    /\ sender' = [sender EXCEPT ![k] = NoSender]
    /\ UNCHANGED <<state, queued, taskVars, pending, jobVars, joinVars, callVars,
                   queueVars, reaper>>

(* SIGCHLD for the parent, if it has a handler; a death then requests the  *)
(* reaper.                                                                 *)
NotifyParent(x) ==
    LET p == ppid[sender[x].to]
    IN  /\ sender[x].at = "chld"
        /\ IF p \in AllTasks /\ state[p] # "dead" /\ p \in Catches
             THEN /\ pending' = [pending EXCEPT ![p] = @ \cup {"sig"}]
                  /\ WakeTask(p)
             ELSE UNCHANGED <<pending, state, queued>>
        /\ reap_requested' = (reap_requested \/ sender[x].what = "kill")
        /\ sender' = [sender EXCEPT ![x] = IF x \in Killers
                                                THEN [sender[x] EXCEPT !.at = "release"]
                                                ELSE NoSender]
        /\ UNCHANGED <<taskVars, refs, jobVars, joinVars, callVars, dead_queue, oncpu, reaper>>

-----------------------------------------------------------------------------
(***************************************************************************)
(* waitpid                                                                 *)
(***************************************************************************)

task_stop_pending(t, c) ==
    /\ ppid[c] = t
    /\ \/ job_event[c] = 1 /\ state[c] = "stopped" /\ "stopped" \in wait_options[t]
       \/ job_event[c] = 2 /\ "continued" \in wait_options[t]

(* task_take_stop. *)
TakeStop(c) == job_event' = [job_event EXCEPT ![c] = 0] /\ UNCHANGED job_stopped

(* The end of a call: reap_dead_tasks, with the queue that it detaches.    *)
Detached(x) ==
    IF dead_queue = {}
      THEN UNCHANGED <<dead_queue, reaper>>
      ELSE /\ reaper' = [reaper EXCEPT ![x] = [NoReaper EXCEPT !.at = "next", !.list = dead_queue]]
           /\ dead_queue' = {}

WaitCall(t) ==
    /\ pc[t] = "user" /\ t \in Parents /\ Children(t) # {}
    /\ \E o \in Options : wait_options' = [wait_options EXCEPT ![t] = o]
    /\ \/ Goto(t, "find") /\ UNCHANGED found
       \/ /\ Goto(t, "pid")
          /\ \E c \in Children(t) : found' = [found EXCEPT ![t] = c]
    /\ UNCHANGED <<state, queued, taskVars, refs, pending, jobVars, joinVars, again,
                   queueVars, sender, reaper>>

(* A task is blocked on join_waiters of c. *)
SleepOn(t, c) ==
    /\ join_refs' = [join_refs EXCEPT ![c] = @ + 1]
    /\ join_target' = [join_target EXCEPT ![t] = c]
    /\ queued' = [queued EXCEPT ![t] = TRUE]
    /\ state' = [state EXCEPT ![t] = "blocked"]
    /\ UNCHANGED waiting_for_any_child

(* A call that a signal ends keeps its reference. *)
Unjoin_SignalKeeps(t) ==
    /\ join_refs' = IF task_has_pending_signals(t) THEN join_refs
                                                   ELSE [join_refs EXCEPT ![join_target[t]] = @ - 1]
    /\ join_target' = [join_target EXCEPT ![t] = NoTask]
    /\ queued' = [queued EXCEPT ![t] = FALSE]
    /\ UNCHANGED waiting_for_any_child

(* It is off the queue again and its reference is dropped. *)
Unjoin(t) ==
    /\ join_refs' = [join_refs EXCEPT ![join_target[t]] = @ - 1]
    /\ join_target' = [join_target EXCEPT ![t] = NoTask]
    /\ queued' = [queued EXCEPT ![t] = FALSE]
    /\ UNCHANGED waiting_for_any_child

(* The first section of task_wait_child_pid. *)
PidLock(t) ==
    LET c == found[t]
        unchanged == UNCHANGED <<state, queued, joinVars>>
    IN  /\ pc[t] = "pid"
        /\ \/ /\ c \notin Children(t)
              /\ Return(t) /\ unchanged /\ UNCHANGED <<jobVars, waited>>
           \/ /\ c \in Children(t) /\ task_stop_pending(t, c)
              /\ TakeStop(c)
              /\ Goto(t, "reap") /\ unchanged /\ UNCHANGED <<waited, wait_options, found, again>>
           \/ /\ c \in Children(t) /\ ~task_stop_pending(t, c) /\ state[c] = "dead"
              /\ waited' = [waited EXCEPT ![c] = TRUE]
              /\ Goto(t, "reap") /\ unchanged /\ UNCHANGED <<jobVars, wait_options, found, again>>
           \/ /\ c \in Children(t) /\ ~task_stop_pending(t, c) /\ state[c] # "dead"
              /\ IF task_has_pending_signals(t)
                   THEN Return(t) /\ unchanged
                   ELSE Goto(t, "pid_asleep") /\ SleepOn(t, c)
                        /\ UNCHANGED <<wait_options, found, again>>
              /\ UNCHANGED <<jobVars, waited>>
        /\ UNCHANGED <<ppid, exit_pending, refs, pending, queueVars, sender, reaper>>

(* Back from schedule(). *)
PidWoken(t) ==
    /\ pc[t] = "pid_asleep"
    /\ Unjoin(t)
    /\ Goto(t, IF task_has_pending_signals(t) THEN "pid_intr" ELSE "pid")
    /\ UNCHANGED <<state, taskVars, refs, pending, jobVars, wait_options, found, again,
                   queueVars, sender, reaper>>

(* The section that looks once more before the call ends with EINTR. *)
PidInterrupted(t) ==
    LET c == found[t] IN
    /\ pc[t] = "pid_intr"
    /\ \/ /\ c \in Children(t) /\ task_stop_pending(t, c)
          /\ TakeStop(c)
          /\ Goto(t, "reap") /\ UNCHANGED <<waited, wait_options, found, again>>
       \/ /\ c \in Children(t) /\ ~task_stop_pending(t, c) /\ state[c] = "dead"
          /\ waited' = [waited EXCEPT ![c] = TRUE]
          /\ Goto(t, "reap") /\ UNCHANGED <<jobVars, wait_options, found, again>>
       \/ /\ c \in Children(t) => ~task_stop_pending(t, c) /\ state[c] # "dead"
          /\ Return(t) /\ UNCHANGED <<jobVars, waited>>
    /\ UNCHANGED <<state, queued, joinVars, ppid, exit_pending, refs, pending, queueVars,
                   sender, reaper>>

(* What task_find_dead_child_of may return: a child on the dead queue      *)
(* before one that has stopped or continued.                               *)
Findable(t) ==
    LET dead == {c \in dead_queue : ppid[c] = t}
    IN  IF dead # {} THEN dead ELSE {c \in Children(t) : task_stop_pending(t, c)}

FindChild(t) ==
    /\ pc[t] = "find"
    /\ IF Findable(t) = {}
         THEN Goto(t, "prep") /\ UNCHANGED <<found, again>>
         ELSE /\ Goto(t, "join")
              /\ \E c \in Findable(t) : /\ found' = [found EXCEPT ![t] = c]
                                        /\ again' = [again EXCEPT ![t] = waited[c]]
    /\ UNCHANGED <<state, queued, taskVars, refs, pending, jobVars, joinVars,
                   wait_options, queueVars, sender, reaper>>

(* task_prepare_wait_any_child.  The reaper frees children, but not all:   *)
(* a call may find none left.                                              *)
PrepareWaitAny(t) ==
    /\ pc[t] = "prep"
    /\ \/ /\ Findable(t) # {}
          /\ Goto(t, "find")
          /\ UNCHANGED <<state, joinVars, wait_options, found, again>>
       \/ /\ Findable(t) = {} /\ Children(t) = {}
          /\ Return(t)
          /\ UNCHANGED <<state, joinVars>>
       \/ /\ Findable(t) = {}
          /\ \E c \in Children(t) : join_target' = [join_target EXCEPT ![t] = c]
          /\ waiting_for_any_child' = [waiting_for_any_child EXCEPT ![t] = TRUE]
          /\ state' = [state EXCEPT ![t] = "blocked"]
          /\ Goto(t, "any_asleep")
          /\ UNCHANGED <<join_refs, wait_options, found, again>>
    /\ UNCHANGED <<queued, taskVars, refs, pending, jobVars, queueVars, sender, reaper>>

(* task_finish_wait_any_child and the test for signals behind it. *)
FinishWaitAny(t) ==
    /\ pc[t] = "any_asleep"
    /\ waiting_for_any_child' = [waiting_for_any_child EXCEPT ![t] = FALSE]
    /\ join_target' = [join_target EXCEPT ![t] = NoTask]
    /\ IF task_has_pending_signals(t) /\ Findable(t) = {}
         THEN Return(t)
         ELSE Goto(t, "find") /\ UNCHANGED <<wait_options, found, again>>
    /\ UNCHANGED <<state, queued, taskVars, refs, pending, jobVars, join_refs, queueVars,
                   sender, reaper>>

(* task_join of the child that was found, up to its schedule().  A child   *)
(* that was found a second time may be freed by now: what the call reads   *)
(* is a dead task as long as the memory is not used again, else anything.  *)
Join(t) ==
    LET c == found[t] IN
    /\ pc[t] = "join"
    /\ \/ /\ task_stop_pending(t, c) /\ state[c] # "freed"
          /\ TakeStop(c)
          /\ Goto(t, "reap")
          /\ UNCHANGED <<state, queued, joinVars>>
       \/ /\ \/ state[c] = "freed"
             \/ state[c] = "dead" /\ ~task_stop_pending(t, c)
          /\ Goto(t, "mark")
          /\ UNCHANGED <<state, queued, joinVars, jobVars>>
       \/ /\ state[c] = "freed"
          /\ Goto(t, "garbage")
          /\ UNCHANGED <<state, queued, joinVars, jobVars>>
       \/ /\ state[c] \notin {"dead", "freed"} /\ ~task_stop_pending(t, c)
          /\ SleepOn(t, c)
          /\ Goto(t, "join_asleep")
          /\ UNCHANGED jobVars
    /\ UNCHANGED <<taskVars, refs, pending, wait_options, found, again, queueVars, sender,
                   reaper>>

(* Its loop: the child is dead or has stopped; or a signal, or a wake for  *)
(* another reason, ends the call.  Whatever wakes a task takes it off the  *)
(* queue, so the loop never goes round.                                    *)
JoinWoken(t) ==
    LET c == found[t] IN
    /\ pc[t] = "join_asleep"
    /\ Unjoin(t)
    /\ \/ /\ task_stop_pending(t, c)
          /\ TakeStop(c)
          /\ Goto(t, "reap") /\ UNCHANGED <<wait_options, found, again>>
       \/ /\ ~task_stop_pending(t, c) /\ state[c] = "dead"
          /\ Goto(t, "mark") /\ UNCHANGED <<jobVars, wait_options, found, again>>
       \/ /\ ~task_stop_pending(t, c) /\ state[c] # "dead"
          /\ Return(t) /\ UNCHANGED jobVars
    /\ UNCHANGED <<state, taskVars, refs, pending, queueVars, sender, reaper>>

(* dead->waited = 1, without the lock. *)
Mark(t) ==
    /\ pc[t] = "mark"
    /\ waited' = [waited EXCEPT ![found[t]] = TRUE]
    /\ Goto(t, "reap")
    /\ UNCHANGED <<state, queued, ppid, exit_pending, refs, pending, jobVars, joinVars,
                   wait_options, found, again, queueVars, sender, reaper>>

WaitReaps(t) ==
    /\ pc[t] = "reap"
    /\ Detached(t)
    /\ Return(t)
    /\ UNCHANGED <<state, queued, taskVars, refs, pending, jobVars, joinVars,
                   reap_requested, oncpu, sender>>

-----------------------------------------------------------------------------
(***************************************************************************)
(* The reaper                                                              *)
(***************************************************************************)

(* task_deferred_work. *)
DeferredWork(w) ==
    /\ reaper[w].at = "idle" /\ reap_requested
    /\ reap_requested' = FALSE
    /\ Detached(w)
    /\ UNCHANGED <<state, queued, taskVars, refs, pending, jobVars, joinVars, callVars,
                   oncpu, sender>>

reapUnchanged == UNCHANGED <<queued, taskVars, refs, pending, jobVars, joinVars,
                             callVars, sender>>

Keep(x, retry) ==
    reaper' = [reaper EXCEPT ![x] =
                 [reaper[x] EXCEPT !.at = "next", !.keep = reaper[x].keep \cup {reaper[x].cur},
                                   !.retry = reaper[x].retry \/ retry, !.cur = NoTask]]

(* The first look at the next task, without the lock: is it in use, or a   *)
(* zombie that its parent has not waited for?                              *)
ReapLook(x) ==
    /\ reaper[x].at = "next"
    /\ \E t \in reaper[x].list :
         LET inUse == oncpu[t] \/ join_refs[t] > 0 \/ queued[t] \/ refs[t] > 0
             zombie == ~waited[t] /\ ppid[t] \in AllTasks
         IN  reaper' = [reaper EXCEPT ![x] =
                          [reaper[x] EXCEPT !.list = reaper[x].list \ {t}, !.cur = t,
                                            !.retry = reaper[x].retry \/ oncpu[t],
                                            !.at = IF inUse \/ zombie THEN "again" ELSE "release"]]
    /\ reapUnchanged /\ UNCHANGED <<state, queueVars>>

(* The second look decides whether the reaper must come back. *)
ReapAgain(x) ==
    LET t == reaper[x].cur IN
    /\ reaper[x].at = "again"
    /\ Keep(x, join_refs[t] > 0 \/ queued[t] \/ refs[t] > 0)
    /\ reapUnchanged /\ UNCHANGED <<state, queueVars>>

(* The task is freed although it has been retained meanwhile. *)
ReapRelease_NoSecondTest(x) ==
    LET t == reaper[x].cur IN
    /\ reaper[x].at = "release"
    /\ state' = [state EXCEPT ![t] = "freed"]
    /\ reaper' = [reaper EXCEPT ![x] = [reaper[x] EXCEPT !.at = "next", !.cur = NoTask]]
    /\ reapUnchanged /\ UNCHANGED queueVars

(* task_release_dead_resources, which may leave some for later, and the    *)
(* section that unlinks the task unless it has been retained meanwhile.    *)
ReapRelease(x) ==
    LET t == reaper[x].cur IN
    /\ reaper[x].at = "release"
    /\ \/ Keep(x, TRUE) /\ UNCHANGED state
       \/ /\ refs[t] = 0
          /\ state' = [state EXCEPT ![t] = "freed"]
          /\ reaper' = [reaper EXCEPT ![x] = [reaper[x] EXCEPT !.at = "next", !.cur = NoTask]]
    /\ reapUnchanged /\ UNCHANGED queueVars

(* Nobody is woken for the tasks that go back to the queue. *)
ReapPutBack_NoWake(x) ==
    /\ reaper[x].at = "next" /\ reaper[x].list = {}
    /\ dead_queue' = dead_queue \cup reaper[x].keep
    /\ reap_requested' = (reap_requested \/ reaper[x].retry)
    /\ reaper' = [reaper EXCEPT ![x] = NoReaper]
    /\ reapUnchanged /\ UNCHANGED <<state, oncpu>>

(* The tasks that were kept go back to the queue, and parents that have    *)
(* found it without them are woken.                                        *)
ReapPutBack(x) ==
    /\ reaper[x].at = "next" /\ reaper[x].list = {}
    /\ dead_queue' = dead_queue \cup reaper[x].keep
    /\ state' = [t \in Tasks |-> IF t \in WaitingParents(reaper[x].keep) THEN "ready"
                                                                         ELSE state[t]]
    /\ reap_requested' = (reap_requested \/ reaper[x].retry)
    /\ reaper' = [reaper EXCEPT ![x] = NoReaper]
    /\ reapUnchanged /\ UNCHANGED oncpu

-----------------------------------------------------------------------------
TaskStep(t) ==
    /\ Runs(t)
    /\ \/ Fork(t) \/ Exit(t) \/ SignalTaken(t) \/ JobStop(t) \/ Resume(t) \/ WaitCall(t)
       \/ PidLock(t) \/ PidWoken(t) \/ PidInterrupted(t)
       \/ FindChild(t) \/ PrepareWaitAny(t) \/ FinishWaitAny(t)
       \/ Join(t) \/ JoinWoken(t) \/ Mark(t) \/ WaitReaps(t)

KillerStep(k) ==
    \/ Retain(k) \/ SendKillDeferred(k) \/ SendKillDirect(k) \/ SendSignal(k)
    \/ SendContinue(k) \/ SendDead(k) \/ Release(k)

ReapStep(x) == ReapLook(x) \/ ReapAgain(x) \/ ReapRelease(x) \/ ReapPutBack(x)

Next ==
    \/ \E t \in Tasks : TaskStep(t) \/ OffCpu(t)
    \/ \E k \in Killers : KillerStep(k)
    \/ \E x \in Tasks \cup Killers : NotifyParent(x)
    \/ \E w \in Workers : DeferredWork(w)
    \/ \E x \in Tasks \cup Workers : ReapStep(x)

Spec == Init /\ [][Next]_vars

-----------------------------------------------------------------------------
(* No task is used after it is freed: by a sender that has retained it, by *)
(* a parent that sleeps on its join_waiters, and, with no reference, by a  *)
(* parent between finding it and marking it waited for, unless it had been *)
(* marked before.                                                          *)
HandlesLive ==
    /\ \A k \in Killers : sender[k].at # "idle" => state[sender[k].to] # "freed"
    /\ \A t \in Tasks :
         /\ pc[t] \in {"pid_asleep", "join_asleep"} => state[found[t]] # "freed"
         /\ pc[t] \in {"join", "mark"} /\ ~again[t] => state[found[t]] # "freed"

(* A parent does not sleep on news it waits for: one that waits for any    *)
(* child has none on the dead queue, only in the hands of a reaper that    *)
(* will wake it, and one that waits for a certain child is on its queue    *)
(* and the child is not dead.  Nor has such a child stopped or continued,  *)
(* if the call asks for that.                                              *)
NoMissedChild ==
    \A t \in Tasks : state[t] = "blocked" =>
        /\ pc[t] = "any_asleep" =>
             /\ waiting_for_any_child[t]
             /\ \A c \in Children(t) :
                  /\ ~task_stop_pending(t, c)
                  /\ state[c] = "dead" =>
                        \E x \in Tasks \cup Workers :
                            c \in reaper[x].list \cup reaper[x].keep \cup {reaper[x].cur}
        /\ pc[t] # "any_asleep" =>
             /\ queued[t] /\ join_target[t] = found[t]
             /\ state[found[t]] # "dead" /\ ~task_stop_pending(t, found[t])

(* refs and join_refs count who uses a task, whichever way a wait ended or *)
(* a sender went: too few let the reaper free it, too many keep it.        *)
RefsExact ==
    \A t \in Tasks :
        /\ refs[t] = Cardinality({k \in Killers : sender[k].to = t})
        /\ join_refs[t] = Cardinality({u \in Tasks : join_target[u] = t
                                                     /\ ~waiting_for_any_child[u]})
=============================================================================

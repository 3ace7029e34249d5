-------------------------------- MODULE Sched --------------------------------
(***************************************************************************)
(* The SMP scheduler (schedule_from_irq in kernel/arch/x86_64/task.c) with *)
(* the interrupt paths that call it (idt.c, interrupts.S) and the idle-CPU *)
(* machinery around it (smp.c): application processors (APs) stop their    *)
(* tick when they have no work, the bootstrap processor (BSP) stretches    *)
(* its own when every AP has stopped, and a task that becomes READY kicks  *)
(* a stopped CPU with an inter-processor interrupt.                        *)
(*                                                                         *)
(* One step is one sched_lock section, or one unlocked atomic access.      *)
(* Which READY task is picked (rank, vruntime) and when a time slice ends  *)
(* or spin_trylock(&sched_lock) fails are nondeterministic.                *)
(*                                                                         *)
(* pc[c].at is what CPU c executes:                                        *)
(*   run       the code of running_task[c], interrupts enabled             *)
(*   halt      the hlt at the end of a round of kernel_idle_loop (BSP)     *)
(*   restart   smp_tick_restart, after tick_stopped = 0                    *)
(*   tick      the timer interrupt, before it schedules                    *)
(*   sched     about to call schedule_from_irq                             *)
(*   kick      task_kick_idle_cpus          kickcpu  its loop, at CPU pc.i *)
(*   deliver   signal_deliver_pending on the way back to user mode         *)
(*   tickstop, tickcheck, tickoff           task_cpu_tick_stop             *)
(*   stretch, recheck                       smp_tick_idle                  *)
(*   ret       the end of isr_common_stub   panic    kernel_panic_custom   *)
(* pc[c].irq is the interrupt being handled and pc[c].then what follows    *)
(* the kick.                                                               *)
(***************************************************************************)
EXTENDS Integers, FiniteSets, FiniteSetsExt

CONSTANTS Tasks,      \* user tasks
          init_task,  \* the first of them, PID 1
          Idle,       \* bootstrap_task, the BSP's idle task
          NoTask,     \* the null task pointer
          NCpus,      \* cpu_count; CPU 0 is the BSP
          Affinities, \* the masks sched_setaffinity is called with
          Signals,    \* the default actions of the signals tasks send
          Entries     \* how tasks enter the kernel

ASSUME TasksAssumption == /\ init_task \in Tasks
                          /\ Idle \notin Tasks
                          /\ NoTask \notin Tasks \cup {Idle}
ASSUME NCpusAssumption == NCpus \in Nat \ {0}

CPUs == 0 .. NCpus - 1
BSP == 0
APs == CPUs \ {BSP}
AllTasks == Tasks \cup {Idle}

ASSUME AffinitiesAssumption == Affinities \subseteq (SUBSET CPUs \ {{}})
ASSUME SignalsAssumption == Signals \subseteq {"stop", "exit"}
ASSUME EntriesAssumption == Entries \subseteq {"syscall", "fault"}

VARIABLES
    tstate,            \* task->state; NEW before the fork, FREED once reaped
    running_cpu,       \* task->running_cpu
    mode,              \* user, syscall (syscall_frame set) or fault (pinned)
    pending,           \* the signals waiting for signal_deliver_pending
    affinity,          \* task->affinity64 as a set of CPUs
    running_task,      \* cpu->running_task
    switching_task,    \* cpu->switching_task
    stack,             \* the task on whose kernel stack the CPU executes
    tick_stopped,      \* cpu->tick_stopped
    timer,             \* whether the CPU's LAPIC timer counts
    wake_pending,      \* cpu->wake_pending
    wake_ipi,          \* IPI_WAKE_VECTOR requested at the CPU's LAPIC
    idle_wake_pending,
    bsp_stretched,
    backed_out,        \* APs that found work after announcing a stopped tick,
                       \* while the BSP was stretched
    overlooked,        \* tasks that an AP did not take for work when it stopped
                       \* its tick, as a CPU was still on their stack
    pc

taskVars == <<tstate, running_cpu, mode, pending, affinity>>
cpuVars == <<running_task, switching_task, stack>>
kickVars == <<wake_pending, idle_wake_pending>>
tickVars == <<tick_stopped, timer, wake_ipi, bsp_stretched, backed_out, overlooked>>
vars == <<taskVars, cpuVars, kickVars, tickVars, pc>>

PCs == [at : {"run", "halt", "restart", "tick", "sched", "kick", "kickcpu", "deliver",
              "tickstop", "tickcheck", "tickoff", "stretch", "recheck", "ret",
              "panic"},
        irq : {"none", "timer", "late", "early", "wake", "int48", "exit"},
        then : {"run", "tick", "sched", "deliver", "tickstop", "ret"},
        i : 0 .. NCpus - 1]

TypeOK ==
    /\ tstate \in [AllTasks -> {"NEW", "READY", "RUNNING", "BLOCKED",
                                "STOPPED", "DEAD", "FREED"}]
    /\ running_cpu \in [AllTasks -> -(NCpus + 1) .. NCpus - 1]
    /\ mode \in [AllTasks -> {"user", "syscall", "fault", "kernel"}]
    /\ pending \in [AllTasks -> SUBSET Signals]
    /\ affinity \in [AllTasks -> SUBSET CPUs]
    /\ running_task \in [CPUs -> AllTasks \cup {NoTask}]
    /\ switching_task \in [CPUs -> AllTasks \cup {NoTask}]
    /\ stack \in [CPUs -> AllTasks \cup {NoTask}]
    /\ tick_stopped \in [CPUs -> BOOLEAN]
    /\ timer \in [CPUs -> BOOLEAN]
    /\ wake_pending \in [CPUs -> BOOLEAN]
    /\ wake_ipi \in [CPUs -> BOOLEAN]
    /\ idle_wake_pending \in BOOLEAN
    /\ bsp_stretched \in BOOLEAN
    /\ backed_out \in SUBSET APs
    /\ overlooked \in SUBSET AllTasks
    /\ pc \in [CPUs -> PCs]

Running == [at |-> "run", irq |-> "none", then |-> "run", i |-> 0]

(* The end of boot: init is READY, no other task exists yet, and the APs   *)
(* idle without a task.                                                    *)
Init ==
    /\ tstate = [t \in AllTasks |-> CASE t = Idle -> "RUNNING"
                                     [] t = init_task -> "READY"
                                     [] OTHER -> "NEW"]
    /\ running_cpu = [t \in AllTasks |-> IF t = Idle THEN BSP ELSE -1]
    /\ mode = [t \in AllTasks |-> IF t = Idle THEN "kernel" ELSE "user"]
    /\ pending = [t \in AllTasks |-> {}]
    /\ affinity = [t \in AllTasks |-> CPUs]
    /\ running_task = [c \in CPUs |-> IF c = BSP THEN Idle ELSE NoTask]
    /\ switching_task = [c \in CPUs |-> NoTask]
    /\ stack = running_task
    /\ tick_stopped = [c \in CPUs |-> FALSE]
    /\ timer = [c \in CPUs |-> TRUE]
    /\ wake_pending = [c \in CPUs |-> FALSE]
    /\ wake_ipi = [c \in CPUs |-> FALSE]
    /\ idle_wake_pending = FALSE
    /\ bsp_stretched = FALSE
    /\ backed_out = {}
    /\ overlooked = {}
    /\ pc = [c \in CPUs |-> Running]

-----------------------------------------------------------------------------
(***************************************************************************)
(* Helpers of task.c                                                       *)
(***************************************************************************)

(* Mutant: switching_task is not looked at. *)
task_is_current_RunningOnly(t) ==
    \E c \in CPUs : running_task[c] = t

task_is_current_on_any_cpu(t) ==
    \E c \in CPUs : running_task[c] = t \/ switching_task[c] = t

Reserved(c) == -(c + 2)

task_cpu_available(t, c) ==
    /\ running_cpu[t] \in {-1, Reserved(c)}
    /\ ~task_is_current_on_any_cpu(t)
    /\ running_cpu[t] = -1 => c \in affinity[t]

(* The CPU task_kick_stopped_cpu_locked picks among the CPUs S, when the   *)
(* wake_pending flags of the CPUs K have just been set.                    *)
StoppedCpu(S, K) ==
    LET stopped == {i \in S \ K : tick_stopped[i] /\ ~wake_pending[i]}
    IN  IF stopped = {} THEN {} ELSE {Min(stopped)}

(* Mutant: a task reserved for another CPU does not wake it. *)
MarkReadyKicks_FreeOnly(t, c, K) ==
    IF running_cpu[t] = -1 THEN StoppedCpu(affinity[t], K) ELSE {}

(* The CPUs task_mark_ready_locked(t) flags when CPU c executes it, having *)
(* flagged the CPUs K in the same sched_lock section.                      *)
MarkReadyKicks(t, c, K) ==
    LET owner == running_cpu[t]
        target == -(owner + 2)
    IN  CASE owner = -1 -> StoppedCpu(affinity[t], K)
          [] owner < -1 /\ target # c
                        /\ running_task[target] \in {NoTask, Idle} -> {target}
          [] OTHER -> {}

SetWakePending(K) ==
    /\ wake_pending' = [i \in CPUs |-> wake_pending[i] \/ i \in K]
    /\ idle_wake_pending' = (idle_wake_pending \/ K # {})

(* CPU c goes on at label at; ThenKick goes there through                  *)
(* task_kick_idle_cpus, which every sched_lock section ends with.          *)
Goto(c, at) ==
    pc' = [pc EXCEPT ![c] = [at |-> at, irq |-> IF at = "ret" THEN "none" ELSE @.irq,
                             then |-> @.then, i |-> @.i]]
ThenKick(c, then) ==
    pc' = [pc EXCEPT ![c] = [at |-> "kick", irq |-> @.irq, then |-> then, i |-> @.i]]
Resume(c) == pc' = [pc EXCEPT ![c] = Running]

requires_schedule(t) == t # NoTask /\ tstate[t] \in {"BLOCKED", "STOPPED", "DEAD"}

(* The task state after the sleeping task w, if any, is marked READY. *)
Woken(w) == IF w = NoTask THEN tstate ELSE [tstate EXCEPT ![w] = "READY"]
Sleepers == {t \in Tasks : tstate[t] = "BLOCKED"}
KicksFor(w, c, K) == IF w = NoTask THEN K ELSE K \cup MarkReadyKicks(w, c, K)

-----------------------------------------------------------------------------
(***************************************************************************)
(* task_kick_idle_cpus                                                     *)
(***************************************************************************)

KickDone(c) ==
    pc' = [pc EXCEPT ![c] = [at |-> @.then, irq |-> IF @.then = "ret" THEN "none" ELSE @.irq,
                             then |-> "run", i |-> 0]]

KickTake(c) ==
    /\ pc[c].at = "kick"
    /\ idle_wake_pending' = FALSE
    /\ IF idle_wake_pending THEN Goto(c, "kickcpu") ELSE KickDone(c)
    /\ UNCHANGED <<taskVars, cpuVars, wake_pending, tickVars>>

KickCpu(c) ==
    /\ pc[c].at = "kickcpu"
    /\ LET i == pc[c].i IN
         /\ wake_pending' = [wake_pending EXCEPT ![i] = FALSE]
         /\ wake_ipi' = [wake_ipi EXCEPT ![i] = @ \/ wake_pending[i]]
         /\ IF i + 1 = NCpus THEN KickDone(c)
                             ELSE pc' = [pc EXCEPT ![c] = [at |-> @.at, irq |-> @.irq,
                                                           then |-> @.then, i |-> i + 1]]
    /\ UNCHANGED <<taskVars, cpuVars, idle_wake_pending, tick_stopped, timer,
                   bsp_stretched, backed_out, overlooked>>

-----------------------------------------------------------------------------
(***************************************************************************)
(* Interrupt entry and smp_tick_restart                                    *)
(***************************************************************************)

smp_aps_idle == \A c \in APs : tick_stopped[c]

(* Mutant: the flag is cleared but the timer is not restarted. *)
InterruptEntry_NoRestart(c, irq) ==
    /\ pc[c].at \in {"run", "halt"}
    /\ bsp_stretched' = (bsp_stretched /\ (c = BSP => smp_aps_idle))
    /\ tick_stopped' = [tick_stopped EXCEPT ![c] = FALSE]
    /\ pc' = [pc EXCEPT ![c] = [at |-> IF tick_stopped[c] THEN "restart"
                                                          ELSE "tick",
                                irq |-> irq, then |-> "run", i |-> 0]]
    /\ UNCHANGED <<taskVars, cpuVars, kickVars, timer, backed_out, overlooked>>

(* interrupt_handler on CPU c up to the point where the handlers of the    *)
(* timer and of the wake IPI part.  An AP that had stopped its tick clears *)
(* the flag, restarts its timer and, one access later, reads bsp_stretched.*)
InterruptEntry(c, irq) ==
    /\ pc[c].at \in {"run", "halt"}
    /\ bsp_stretched' = (bsp_stretched /\ (c = BSP => smp_aps_idle))
    /\ tick_stopped' = [tick_stopped EXCEPT ![c] = FALSE]
    /\ timer' = [timer EXCEPT ![c] = TRUE]
    /\ pc' = [pc EXCEPT ![c] = [at |-> IF tick_stopped[c] THEN "restart"
                                                          ELSE "tick",
                                irq |-> irq, then |-> "run", i |-> 0]]
    /\ UNCHANGED <<taskVars, cpuVars, kickVars, backed_out, overlooked>>

(* The periodic timer of an AP, or the BSP's one-shot timer: "early" when  *)
(* it was armed for a sleeper's deadline and no tick is due.               *)
TimerInterrupt(c) ==
    /\ timer[c]
    /\ InterruptEntry(c, "timer")
    /\ UNCHANGED wake_ipi

EarlyInterrupt(c) ==
    /\ c = BSP
    /\ InterruptEntry(c, "early")
    /\ UNCHANGED wake_ipi

WakeInterrupt(c) ==
    /\ wake_ipi[c]
    /\ wake_ipi' = [wake_ipi EXCEPT ![c] = FALSE]
    /\ InterruptEntry(c, "wake")

RestartNotify(c) ==
    /\ pc[c].at = "restart"
    /\ wake_ipi' = [wake_ipi EXCEPT ![BSP] = @ \/ bsp_stretched]
    /\ Goto(c, "tick")
    /\ UNCHANGED <<taskVars, cpuVars, kickVars, tick_stopped, timer,
                   bsp_stretched, backed_out, overlooked>>

(* The rest of the handler before schedule_from_irq.  smp_tick_due ends    *)
(* the stretch; a sub-tick timer interrupt and the wake IPI schedule only  *)
(* on an idle CPU (the IPI also when the task has to leave the CPU).       *)
HandleTick(c) ==
    /\ pc[c].at = "tick"
    /\ LET t == running_task[c]
           idle == t \in {NoTask, Idle}
           schedule == \/ pc[c].irq = "timer"
                       \/ idle
                       \/ pc[c].irq = "wake" /\ requires_schedule(t)
       IN  Goto(c, IF schedule THEN "sched" ELSE "ret")
    /\ bsp_stretched' = (bsp_stretched /\ ~(c = BSP /\ pc[c].irq = "timer"))
    /\ UNCHANGED <<taskVars, cpuVars, kickVars, tick_stopped, timer, wake_ipi,
                   backed_out, overlooked>>

(* wake_sleeping_tasks_from_irq, one expired sleeper at a time. *)
WakeSleeper(c) ==
    /\ pc[c].at = "tick"
    /\ pc[c].irq \in {"timer", "early"}
    /\ \E w \in Sleepers :
         /\ tstate' = Woken(w)
         /\ SetWakePending(MarkReadyKicks(w, c, {}))
    /\ ThenKick(c, "tick")
    /\ UNCHANGED <<running_cpu, mode, pending, affinity, cpuVars, tickVars>>

-----------------------------------------------------------------------------
(***************************************************************************)
(* schedule_from_irq                                                       *)
(***************************************************************************)

Migrate(c, prev) ==
    /\ prev # NoTask
    /\ tstate[prev] = "RUNNING"
    /\ mode[prev] = "user"
    /\ c \notin affinity[prev]

MustSwitch(c, prev) == requires_schedule(prev) \/ Migrate(c, prev)

(* A task in a pinned section, or in a system call, gives up the CPU only  *)
(* through int 48 (or because it has to).                                  *)
HoldsCpu(c, prev) ==
    /\ pc[c].irq # "int48"
    /\ prev # NoTask
    /\ \/ mode[prev] = "fault" /\ tstate[prev] = "RUNNING"
       \/ mode[prev] = "syscall" /\ ~MustSwitch(c, prev)

Candidates(c, prev) ==
    {t \in AllTasks \ {prev} : /\ tstate[t] = "READY"
                               /\ task_cpu_available(t, c)
                               /\ c = BSP \/ t # Idle}

(* READY tasks that this CPU leaves to others. *)
Spare(prev) ==
    Cardinality({t \in Tasks \ {prev} : tstate[t] = "READY"
                                        /\ running_cpu[t] = -1})

(* Mutant: READY tasks left over are not passed on to a stopped CPU. *)
SpareKicks_Never(prev, picked) == {}

SpareKicks(prev, picked) ==
    IF Spare(prev) > picked THEN StoppedCpu(CPUs, {}) ELSE {}

(* What follows schedule_from_irq: a timer interrupt goes on to deliver    *)
(* signals; "late" is its second call, for a task that a signal stopped.   *)
AfterSched(c) ==
    CASE pc[c].irq = "timer" -> "deliver"
      [] pc[c].irq = "late" -> "tickstop"
      [] OTHER -> "ret"

(* The early returns: a CPU held, time slice left, sched_lock busy. *)
SchedKeep(c) ==
    /\ pc[c].at = "sched"
    /\ ~MustSwitch(c, running_task[c])
    /\ Goto(c, AfterSched(c))
    /\ UNCHANGED <<taskVars, cpuVars, kickVars, tickVars>>

(* No task to switch to, and no need to. *)
SchedNone(c) ==
    LET prev == running_task[c] IN
    /\ pc[c].at = "sched"
    /\ ~MustSwitch(c, prev)
    /\ ~HoldsCpu(c, prev)
    /\ Candidates(c, prev) = {}
    /\ SetWakePending(SpareKicks(prev, 0))
    /\ ThenKick(c, AfterSched(c))
    /\ UNCHANGED <<taskVars, cpuVars, tickVars>>

(* Mutant: a task that blocks keeps the CPU as its owner. *)
Released_Kept(c, prev) ==
    IF (MustSwitch(c, prev) \/ mode[prev] = "fault") /\ mode[prev] # "user"
      THEN c ELSE -1

(* task_release_from_cpu for prev, then task_set_current(next). *)
Released(c, prev) ==
    IF (MustSwitch(c, prev) \/ mode[prev] = "fault") /\ mode[prev] # "user"
      THEN Reserved(c) ELSE -1

SwitchOut(c, next) ==
    LET prev == running_task[c] IN
    /\ running_cpu' = [t \in AllTasks |-> CASE t = next -> c
                                            [] t = prev -> Released(c, prev)
                                            [] OTHER -> running_cpu[t]]
    /\ running_task' = [running_task EXCEPT ![c] = next]
    /\ switching_task' =
         [switching_task EXCEPT ![c] = IF @ = NoTask THEN prev ELSE @]
    /\ UNCHANGED stack
    /\ ThenKick(c, AfterSched(c))

(* The states after the switch: prev is preempted or migrates, unless it   *)
(* is BLOCKED, STOPPED or DEAD.                                            *)
SwitchStates(prev, next) ==
    [t \in AllTasks |-> CASE t = next -> "RUNNING"
                          [] t = prev /\ tstate[t] = "RUNNING" -> "READY"
                          [] OTHER -> tstate[t]]

SchedSwitch(c) ==
    LET prev == running_task[c] IN
    /\ pc[c].at = "sched"
    /\ ~HoldsCpu(c, prev)
    /\ \E next \in Candidates(c, prev) :
         /\ tstate' = SwitchStates(prev, next)
         /\ SwitchOut(c, next)
         /\ overlooked' = overlooked \ {next}
         /\ bsp_stretched' = (bsp_stretched /\ ~(c = BSP /\ next # Idle))
         /\ LET spare == SpareKicks(prev, 1)
                preempted == prev # NoTask /\ tstate[prev] = "RUNNING"
                             /\ ~Migrate(c, prev)
            IN  SetWakePending(spare \cup
                  (IF preempted THEN StoppedCpu(affinity[prev], spare) ELSE {}))
    /\ UNCHANGED <<mode, pending, affinity, tick_stopped, timer, wake_ipi,
                   backed_out>>

(* Nothing READY and prev cannot stay: an AP takes its idle frame.  (The   *)
(* idle task never blocks, so on the BSP it is one of the candidates       *)
(* unless the CPU is still on its stack.)                                  *)
SchedIdle(c) ==
    LET prev == running_task[c] IN
    /\ pc[c].at = "sched"
    /\ c \in APs
    /\ MustSwitch(c, prev)
    /\ Candidates(c, prev) = {}
    /\ tstate' = SwitchStates(prev, NoTask)
    /\ SwitchOut(c, NoTask)
    /\ SetWakePending(SpareKicks(prev, 0))
    /\ UNCHANGED <<mode, pending, affinity, tickVars>>

(* The BSP has no READY task and may not take its idle task either. *)
SchedPanic(c) ==
    LET prev == running_task[c] IN
    /\ pc[c].at = "sched"
    /\ MustSwitch(c, prev)
    /\ Candidates(c, prev) = {}
    /\ c = BSP
    /\ Goto(c, "panic")
    /\ UNCHANGED <<taskVars, cpuVars, kickVars, tickVars>>

(* isr_common_stub switches stacks and then clears switching_task. *)
InterruptReturn(c) ==
    /\ pc[c].at = "ret"
    /\ switching_task' = [switching_task EXCEPT
                            ![c] = IF stack[c] # running_task[c] THEN NoTask ELSE @]
    /\ stack' = [stack EXCEPT ![c] = running_task[c]]
    /\ Resume(c)
    /\ UNCHANGED <<taskVars, running_task, kickVars, tickVars>>

(* signal_deliver_pending for the user task CPU c is about to return to:   *)
(* task_job_stop or task_exit_deferred, which also wake a waiting parent.  *)
Deliver(c) ==
    LET t == running_task[c]
        rest == IF pc[c].irq = "timer" THEN "tickstop" ELSE "ret"
        reaches == t \in Tasks /\ mode[t] = "user"
    IN
    /\ pc[c].at = "deliver"
    /\ \/ /\ reaches => pending[t] = {}
          /\ Goto(c, rest)
          /\ UNCHANGED <<tstate, pending, kickVars>>
       \/ /\ reaches
          /\ \E sig \in pending[t], w \in Sleepers \cup {NoTask} :
               /\ pending' = [pending EXCEPT ![t] = @ \ {sig}]
               /\ tstate' = [Woken(w) EXCEPT ![t] = IF sig = "stop" THEN "STOPPED"
                                                                  ELSE "DEAD"]
               /\ SetWakePending(KicksFor(w, c, {}))
          /\ pc' = [pc EXCEPT ![c] = [at |-> "kick", then |-> "sched", i |-> 0,
                                      irq |-> IF @.irq = "timer" THEN "late"
                                                                 ELSE @.irq]]
    /\ UNCHANGED <<running_cpu, mode, affinity, cpuVars, tickVars>>

-----------------------------------------------------------------------------
(***************************************************************************)
(* Stopping the tick: task_cpu_tick_stop on an AP, smp_tick_idle on the    *)
(* BSP                                                                     *)
(***************************************************************************)

(* Mutant: only tasks reserved for the CPU count as work. *)
HasWork_ReservedOnly(c) ==
    \E t \in Tasks : /\ tstate[t] = "READY"
                     /\ running_cpu[t] = Reserved(c)
                     /\ task_cpu_available(t, c)

HasWork(c) ==
    \E t \in Tasks : tstate[t] = "READY" /\ task_cpu_available(t, c)

(* READY tasks that are no work for CPU c only because some CPU has not    *)
(* left their stack yet.                                                   *)
Overlooks(c) ==
    {t \in Tasks : /\ tstate[t] = "READY"
                   /\ running_cpu[t] \in {-1, Reserved(c)}
                   /\ task_is_current_on_any_cpu(t)}

TickStop(c) ==
    /\ pc[c].at = "tickstop"
    /\ IF c \in APs /\ running_task[c] = NoTask
         THEN /\ tick_stopped' = [tick_stopped EXCEPT ![c] = TRUE]
              /\ backed_out' = backed_out \ {c}
              /\ Goto(c, "tickcheck")
         ELSE /\ Goto(c, "ret")
              /\ UNCHANGED <<tick_stopped, backed_out>>
    /\ UNCHANGED <<taskVars, cpuVars, kickVars, timer, wake_ipi, bsp_stretched,
                   overlooked>>

TickCheck(c) ==
    /\ pc[c].at = "tickcheck"
    /\ tick_stopped' = [tick_stopped EXCEPT ![c] = ~HasWork(c)]
    /\ backed_out' = IF HasWork(c) /\ bsp_stretched THEN backed_out \cup {c}
                                                    ELSE backed_out
    /\ overlooked' = IF HasWork(c) THEN overlooked ELSE overlooked \cup Overlooks(c)
    /\ Goto(c, IF HasWork(c) THEN "ret" ELSE "tickoff")
    /\ UNCHANGED <<taskVars, cpuVars, kickVars, timer, wake_ipi, bsp_stretched>>

TickOff(c) ==
    /\ pc[c].at = "tickoff"
    /\ timer' = [timer EXCEPT ![c] = FALSE]
    /\ Goto(c, "ret")
    /\ UNCHANGED <<taskVars, cpuVars, kickVars, tick_stopped, wake_ipi,
                   bsp_stretched, backed_out, overlooked>>

(* kernel_idle_loop calls smp_tick_idle with interrupts disabled and       *)
(* halts.  When there is work, or sched_lock is busy, or a deadline is     *)
(* near, smp_tick_idle resumes the tick instead of stretching it.          *)
TickIdle(c) ==
    /\ c = BSP
    /\ running_task[c] = Idle
    /\ pc[c].at = "run"
    /\ \/ /\ smp_aps_idle
          /\ ~HasWork(c)
          /\ Goto(c, "stretch")
          /\ UNCHANGED bsp_stretched
       \/ /\ Goto(c, "halt")
          /\ bsp_stretched' = FALSE
    /\ UNCHANGED <<taskVars, cpuVars, kickVars, tick_stopped, timer, wake_ipi,
                   backed_out, overlooked>>

TickStretch(c) ==
    /\ pc[c].at = "stretch"
    /\ bsp_stretched' = TRUE
    /\ Goto(c, "recheck")
    /\ UNCHANGED <<taskVars, cpuVars, kickVars, tick_stopped, timer, wake_ipi,
                   backed_out, overlooked>>

(* Mutant: the APs are not looked at again after the announcement. *)
TickRecheck_Skipped(c) ==
    /\ pc[c].at = "recheck"
    /\ Goto(c, "halt")
    /\ UNCHANGED <<taskVars, cpuVars, kickVars, tickVars>>

TickRecheck(c) ==
    /\ pc[c].at = "recheck"
    /\ bsp_stretched' = smp_aps_idle
    /\ Goto(c, "halt")
    /\ UNCHANGED <<taskVars, cpuVars, kickVars, tick_stopped, timer, wake_ipi,
                   backed_out, overlooked>>

-----------------------------------------------------------------------------
(***************************************************************************)
(* What the task t running on CPU c does                                   *)
(***************************************************************************)

Executes(c, t) ==
    /\ t \in Tasks
    /\ pc[c].at = "run"
    /\ running_task[c] = t
    /\ tstate[t] \in {"RUNNING", "READY"}

(* A system call, or a page fault on a mapped file (kernel_cpu_pinned). *)
EnterKernel(c, t) ==
    /\ mode[t] = "user"
    /\ \E m \in Entries : mode' = [mode EXCEPT ![t] = m]
    /\ UNCHANGED <<tstate, running_cpu, pending, affinity, cpuVars, kickVars,
                   tickVars, pc>>

(* Only a system call delivers signals on its way out. *)
LeaveKernel(c, t) ==
    /\ mode[t] # "user"
    /\ mode' = [mode EXCEPT ![t] = "user"]
    /\ IF mode[t] = "syscall"
         THEN pc' = [pc EXCEPT ![c] = [at |-> "deliver", irq |-> "exit", then |-> "run", i |-> 0]]
         ELSE UNCHANGED pc
    /\ UNCHANGED <<tstate, running_cpu, pending, affinity, cpuVars, kickVars,
                   tickVars>>

(* The task marks itself BLOCKED; it calls schedule() in a later step. *)
Block(c, t) ==
    /\ mode[t] # "user"
    /\ tstate' = [tstate EXCEPT ![t] = "BLOCKED"]
    /\ ThenKick(c, "run")
    /\ UNCHANGED <<running_cpu, mode, pending, affinity, cpuVars, kickVars,
                   tickVars>>

(* task_exit up to its call of schedule().  PID 1 never exits (the         *)
(* watchdog panics if it does).                                            *)
Exit(c, t) ==
    /\ t # init_task
    /\ mode[t] = "syscall"
    /\ \E w \in Sleepers \cup {NoTask} :
         /\ tstate' = [Woken(w) EXCEPT ![t] = "DEAD"]
         /\ SetWakePending(KicksFor(w, c, {}))
    /\ ThenKick(c, "run")
    /\ UNCHANGED <<running_cpu, mode, pending, affinity, cpuVars, tickVars>>

(* schedule(): after Block or Exit, or to yield. *)
Schedule(c, t) ==
    /\ t \in Tasks
    /\ pc[c].at = "run"
    /\ running_task[c] = t
    /\ mode[t] # "user"
    /\ pc' = [pc EXCEPT ![c] = [at |-> "sched", irq |-> "int48", then |-> "run", i |-> 0]]
    /\ UNCHANGED <<taskVars, cpuVars, kickVars, tickVars>>

(* wake_task on a sleeping task u. *)
WakeTask(c, t, u) ==
    /\ mode[t] = "syscall"
    /\ tstate[u] = "BLOCKED"
    /\ tstate' = Woken(u)
    /\ SetWakePending(MarkReadyKicks(u, c, {}))
    /\ ThenKick(c, "run")
    /\ UNCHANGED <<running_cpu, mode, pending, affinity, cpuVars, tickVars>>

(* deliver_signal_to_task for a signal whose default action is sig; PID 1  *)
(* ignores such signals.                                                   *)
SendSignal(c, t, u, sig) ==
    /\ u # init_task
    /\ mode[t] = "syscall"
    /\ tstate[u] \in {"READY", "RUNNING", "BLOCKED", "STOPPED"}
    /\ pending' = [pending EXCEPT ![u] = @ \cup {sig}]
    /\ IF tstate[u] = "BLOCKED"
         THEN tstate' = Woken(u) /\ SetWakePending(MarkReadyKicks(u, c, {}))
         ELSE UNCHANGED <<tstate, kickVars>>
    /\ ThenKick(c, "run")
    /\ UNCHANGED <<running_cpu, mode, affinity, cpuVars, tickVars>>

(* SIGCONT: the pending stops go, a stopped task becomes READY, and        *)
(* task_job_continue wakes a waiting parent, also for a task that was      *)
(* killed while it was stopped.                                            *)
Continue(c, t, u) ==
    LET stopped == tstate[u] = "STOPPED"
        kicks == IF stopped THEN MarkReadyKicks(u, c, {}) ELSE {}
        notified == IF stopped \/ "exit" \in pending[u] THEN Sleepers \ {u} ELSE {}
    IN
    /\ mode[t] = "syscall"
    /\ tstate[u] \in {"READY", "RUNNING", "BLOCKED", "STOPPED"}
    /\ pending' = [pending EXCEPT ![u] = @ \ {"stop"}]
    /\ \E w \in notified \cup {NoTask} :
         /\ tstate' = [Woken(w) EXCEPT ![u] = IF stopped THEN "READY" ELSE @]
         /\ SetWakePending(KicksFor(w, c, kicks))
    /\ ThenKick(c, "run")
    /\ UNCHANGED <<running_cpu, mode, affinity, cpuVars, tickVars>>

(* task_kill: a task that is on a CPU, in a system call or reserved for a  *)
(* CPU dies when it next returns to user mode, any other at once.          *)
Kill(c, t, u) ==
    /\ mode[t] = "syscall"
    /\ u \notin {t, init_task}
    /\ "exit" \in Signals
    /\ tstate[u] \in {"READY", "RUNNING", "BLOCKED", "STOPPED"}
    /\ IF task_is_current_on_any_cpu(u) \/ mode[u] = "syscall" \/ running_cpu[u] < -1
         THEN /\ pending' = [pending EXCEPT ![u] = @ \cup {"exit"}]
              /\ IF tstate[u] \in {"BLOCKED", "STOPPED"}
                   THEN tstate' = Woken(u) /\ SetWakePending(MarkReadyKicks(u, c, {}))
                   ELSE UNCHANGED <<tstate, kickVars>>
         ELSE /\ \E w \in (Sleepers \ {u}) \cup {NoTask} :
                   /\ tstate' = [Woken(w) EXCEPT ![u] = "DEAD"]
                   /\ SetWakePending(KicksFor(w, c, {}))
              /\ UNCHANGED pending
    /\ ThenKick(c, "run")
    /\ UNCHANGED <<running_cpu, mode, affinity, cpuVars, tickVars>>

(* task_set_cpu_affinity_mask. *)
SetAffinity(c, t, u) ==
    /\ mode[t] = "syscall"
    /\ tstate[u] \in {"READY", "RUNNING", "BLOCKED", "STOPPED"}
    /\ \E mask \in Affinities : affinity' = [affinity EXCEPT ![u] = mask]
    /\ ThenKick(c, "run")
    /\ UNCHANGED <<tstate, running_cpu, mode, pending, cpuVars, kickVars, tickVars>>

(* task_fork: the child inherits the mask and enters the run queue. *)
Fork(c, t, u) ==
    /\ mode[t] = "syscall"
    /\ tstate[u] = "NEW"
    /\ tstate' = [tstate EXCEPT ![u] = "READY"]
    /\ affinity' = [affinity EXCEPT ![u] = affinity[t]]
    /\ ThenKick(c, "run")
    /\ UNCHANGED <<running_cpu, mode, pending, cpuVars, kickVars, tickVars>>

(* Mutant: a dead task is freed while a CPU is still leaving its stack. *)
Reap_RunningOnly(u) ==
    /\ tstate[u] = "DEAD"
    /\ \A c \in CPUs : running_task[c] # u
    /\ tstate' = [tstate EXCEPT ![u] = "FREED"]
    /\ running_cpu' = [running_cpu EXCEPT ![u] = -1]
    /\ mode' = [mode EXCEPT ![u] = "user"]
    /\ pending' = [pending EXCEPT ![u] = {}]
    /\ UNCHANGED <<affinity, cpuVars, kickVars, tickVars, pc>>

(* reap_dead_tasks frees the kernel stack and the task structure, whose    *)
(* fields no longer mean anything.                                         *)
Reap(u) ==
    /\ tstate[u] = "DEAD"
    /\ ~task_is_current_on_any_cpu(u)
    /\ tstate' = [tstate EXCEPT ![u] = "FREED"]
    /\ running_cpu' = [running_cpu EXCEPT ![u] = -1]
    /\ mode' = [mode EXCEPT ![u] = "user"]
    /\ pending' = [pending EXCEPT ![u] = {}]
    /\ UNCHANGED <<affinity, cpuVars, kickVars, tickVars, pc>>

-----------------------------------------------------------------------------
TaskStep(c, t) ==
    \/ Schedule(c, t)
    \/ /\ Executes(c, t)
       /\ \/ EnterKernel(c, t) \/ LeaveKernel(c, t) \/ Block(c, t) \/ Exit(c, t)
          \/ \E u \in Tasks : \/ WakeTask(c, t, u)
                              \/ Continue(c, t, u)
                              \/ Kill(c, t, u)
                              \/ SetAffinity(c, t, u)
                              \/ Fork(c, t, u)
                              \/ \E sig \in Signals : SendSignal(c, t, u, sig)

HandlerStep(c) ==
    \/ KickTake(c) \/ KickCpu(c) \/ RestartNotify(c) \/ HandleTick(c)
    \/ SchedKeep(c) \/ SchedNone(c) \/ SchedSwitch(c) \/ SchedIdle(c)
    \/ SchedPanic(c) \/ InterruptReturn(c) \/ Deliver(c)
    \/ TickStop(c) \/ TickCheck(c) \/ TickOff(c)
    \/ TickStretch(c) \/ TickRecheck(c)

Next ==
    \/ \E c \in CPUs : \/ HandlerStep(c)
                       \/ TimerInterrupt(c) \/ EarlyInterrupt(c)
                       \/ WakeInterrupt(c)
                       \/ WakeSleeper(c) \/ TickIdle(c)
                       \/ \E t \in Tasks : TaskStep(c, t)
    \/ \E u \in Tasks : Reap(u)

Spec == Init /\ [][Next]_vars

(* A handler runs to its end, an armed timer and a requested IPI are       *)
(* taken, the idle loop goes round, and time slices end and sched_lock is  *)
(* free again and again.                                                   *)
Fairness ==
    \A c \in CPUs : /\ WF_vars(HandlerStep(c))
                    /\ WF_vars(TickIdle(c))
                    /\ SF_vars(TimerInterrupt(c))
                    /\ SF_vars(WakeInterrupt(c))
                    /\ SF_vars(SchedSwitch(c) \/ SchedNone(c))

FairSpec == Spec /\ Fairness

-----------------------------------------------------------------------------
(***************************************************************************)
(* Properties                                                              *)
(***************************************************************************)

(* No two CPUs ever execute on the kernel stack of the same task, neither  *)
(* as its running task nor inside an interrupt that is still returning     *)
(* from it: what switching_task and task_is_current_on_any_cpu are for.    *)
StackExclusive ==
    \A c, d \in CPUs :
        /\ c # d
        /\ stack[c] # NoTask
        => stack[d] # stack[c] /\ running_task[d] # stack[c]

(* running_cpu and running_task name each other: a task is owned by CPU c  *)
(* exactly when it is that CPU's running task.                             *)
OwnerExact ==
    \A t \in AllTasks, c \in CPUs : (running_cpu[t] = c) <=> (running_task[c] = t)

(* reap_dead_tasks never frees the stack that a CPU still executes on. *)
NoFreedStack ==
    \A c \in CPUs, t \in Tasks :
        tstate[t] = "FREED" => t \notin {stack[c], running_task[c], switching_task[c]}

(* A CPU that runs a task has its tick, so the task can be preempted. *)
TickRunsWithTask ==
    \A c \in APs : running_task[c] # NoTask => timer[c] /\ ~tick_stopped[c]

(* The BSP, which keeps the time, does not stay stretched once an AP has   *)
(* restarted its tick: the AP is about to tell it, or has told it, or the  *)
(* BSP is about to look again (smp_tick_restart against smp_tick_idle).    *)
(* The exception is an AP that backs out of task_cpu_tick_stop.            *)
BspToldOfRestart ==
    bsp_stretched =>
        \/ \A c \in APs : tick_stopped[c] \/ c \in backed_out
        \/ wake_ipi[BSP]
        \/ pc[BSP].at = "recheck"
        \/ \E c \in APs : pc[c].at = "restart"

(* A wake-up is on its way to CPU c, or c looks for work by itself. *)
Attentive(c) ==
    \/ wake_ipi[c]
    \/ wake_pending[c] /\ \E d \in CPUs : pc[d].at \in {"kick", "kickcpu"}
    \/ IF c = BSP THEN ~bsp_stretched \/ pc[c].at # "halt"
                  ELSE timer[c] \/ pc[c].at # "run"

(* A READY task reserved for CPU c is never forgotten there.  The          *)
(* exception is a task that c overlooked because an interrupt switched     *)
(* twice and c was still on its stack when it stopped the tick.            *)
ReservedAttended ==
    \A t \in Tasks, c \in CPUs :
        tstate[t] = "READY" /\ running_cpu[t] = Reserved(c) /\ t \notin overlooked
            => Attentive(c)

(* A READY task that any CPU may take is never forgotten by all of them.   *)
(* The exception is a task that an AP overlooked because it, or another    *)
(* CPU, was still on the task's stack when the AP stopped its tick.        *)
ReadyAttended ==
    \A t \in Tasks :
        tstate[t] = "READY" /\ running_cpu[t] = -1 /\ t \notin overlooked
            => \E c \in CPUs : Attentive(c)

(* A READY task that is not on a CPU gets one. *)
ReadyRuns ==
    \A t \in Tasks :
        (tstate[t] = "READY" /\ running_cpu[t] < 0)
            ~> (tstate[t] # "READY" \/ running_cpu[t] >= 0)

(* schedule_from_irq always finds something to run: its panic              *)
(* "SCHEDULER IDLE FAILURE" is never reached.                              *)
NoIdleFailure == \A c \in CPUs : pc[c].at # "panic"
=============================================================================

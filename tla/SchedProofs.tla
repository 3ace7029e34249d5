----------------------------- MODULE SchedProofs -----------------------------
(***************************************************************************)
(* Proofs about the scheduler of Sched, for any number of CPUs and tasks,  *)
(* any affinity masks and all signals.                                     *)
(*                                                                         *)
(* Two inductive invariants carry the argument.  IInv is about where tasks *)
(* are: the stack a CPU executes on is that of its running task, or the    *)
(* one switching_task names (StacksCovered); no other CPU runs or leaves a *)
(* task that switching_task names (SwitchingExclusive); and an AP without  *)
(* a tick has no task and is in no handler that could give it one          *)
(* (StoppedIdle).  Due, relative to IInv, is about wake-ups: a READY task  *)
(* that a sleeping CPU should take has flagged it, and a flag leads to an  *)
(* IPI.                                                                    *)
(***************************************************************************)
EXTENDS Sched, TLAPS

(* Most steps are first-order reasoning, which Zenon does; the steps that  *)
(* do arithmetic or compare functions name SMT.                            *)
USE Zenon

(* The stack under a CPU is that of its running task or is covered by      *)
(* switching_task, which only the first switch of an interrupt sets.       *)
StacksCovered ==
    \A c \in CPUs : stack[c] # NoTask =>
        /\ stack[c] = running_task[c] => switching_task[c] = NoTask
        /\ stack[c] # running_task[c] => switching_task[c] = stack[c]

(* The task that a CPU is leaving is on no other CPU. *)
SwitchingExclusive ==
    \A c, d \in CPUs : c # d /\ switching_task[c] # NoTask =>
        /\ running_task[d] # switching_task[c]
        /\ switching_task[d] # switching_task[c]

(* An AP whose tick is stopped, or is being stopped, has no task, and the  *)
(* labels of smp_tick_idle belong to the BSP.                              *)
StoppedIdle ==
    \A c \in APs :
        /\ tick_stopped[c] \/ ~timer[c] =>
             /\ running_task[c] = NoTask
             /\ pc[c].at \in {"run", "tickcheck", "tickoff", "ret"}
        /\ pc[c].at \in {"tickcheck", "tickoff"} => running_task[c] = NoTask
        /\ pc[c].at \notin {"halt", "stretch", "recheck"}

(* The BSP never stops its tick, it only stretches it. *)
BspTicks == pc[BSP].at \notin {"tickcheck", "tickoff"}

Ownership == OwnerExact /\ StacksCovered /\ SwitchingExclusive /\ NoFreedStack
Ticks == StoppedIdle /\ BspTicks /\ BspToldOfRestart
IInv == TypeOK /\ Ownership /\ Ticks

-----------------------------------------------------------------------------
(***************************************************************************)
(* Where a step leaves pc                                                  *)
(***************************************************************************)

Ats == {"run", "halt", "restart", "tick", "sched", "kick", "kickcpu", "deliver",
        "tickstop", "tickcheck", "tickoff", "stretch", "recheck", "ret", "panic"}
Irqs == {"none", "timer", "late", "early", "wake", "int48", "exit"}
Thens == {"run", "tick", "sched", "deliver", "tickstop", "ret"}

(* CPU c, and no other, goes on at label at. *)
Moves(c, at) ==
    /\ pc' \in [CPUs -> PCs]
    /\ pc'[c].at = at
    /\ \A d \in CPUs : d # c => pc'[d] = pc[d]

LEMMA ZeroCpu == 0 \in CPUs /\ BSP \in CPUs /\ CPUs \subseteq Int
BY NCpusAssumption, SMT DEF CPUs, BSP

LEMMA RunningType == Running \in PCs
BY NCpusAssumption, SMT DEF Running, PCs

(* A record of PCs, field by field. *)
LEMMA PcFields ==
    ASSUME NEW r \in PCs
    PROVE  /\ r.at \in Ats /\ r.irq \in Irqs /\ r.then \in Thens /\ r.i \in 0 .. NCpus - 1
           /\ r = [at |-> r.at, irq |-> r.irq, then |-> r.then, i |-> r.i]
BY DEF PCs, Ats, Irqs, Thens

LEMMA PcMake ==
    ASSUME NEW a \in Ats, NEW q \in Irqs, NEW n \in Thens, NEW k \in 0 .. NCpus - 1
    PROVE  [at |-> a, irq |-> q, then |-> n, i |-> k] \in PCs
BY DEF PCs, Ats, Irqs, Thens

LEMMA GotoMoves ==
    ASSUME pc \in [CPUs -> PCs], NEW c \in CPUs, NEW STATE at, at \in Ats, Goto(c, at)
    PROVE  Moves(c, at) /\ pc'[c].then = pc[c].then /\ pc'[c].i = pc[c].i
<1> DEFINE q == IF at = "ret" THEN "none" ELSE pc[c].irq
           r == [at |-> at, irq |-> q, then |-> pc[c].then, i |-> pc[c].i]
<1>1. pc[c] \in PCs
  OBVIOUS
<1>2. /\ pc[c].irq \in Irqs /\ pc[c].then \in Thens /\ pc[c].i \in 0 .. NCpus - 1
      /\ pc[c] = [at |-> pc[c].at, irq |-> pc[c].irq, then |-> pc[c].then, i |-> pc[c].i]
  BY <1>1, PcFields
<1>3. q \in Irqs
  BY <1>2 DEF Irqs
<1>4. r \in PCs
  BY <1>2, <1>3, PcMake
<1>5. pc' = [pc EXCEPT ![c] = r]
  BY <1>2 DEF Goto
<1>6. QED
  BY <1>4, <1>5 DEF Moves

LEMMA ThenKickMoves ==
    ASSUME pc \in [CPUs -> PCs], NEW c \in CPUs,
           NEW STATE then, then \in Thens, ThenKick(c, then)
    PROVE  Moves(c, "kick") /\ pc'[c].then = then /\ pc'[c].i = pc[c].i
<1> DEFINE r == [at |-> "kick", irq |-> pc[c].irq, then |-> then, i |-> pc[c].i]
<1>1. pc[c] \in PCs
  OBVIOUS
<1>2. /\ pc[c].irq \in Irqs /\ pc[c].i \in 0 .. NCpus - 1
      /\ pc[c] = [at |-> pc[c].at, irq |-> pc[c].irq, then |-> pc[c].then, i |-> pc[c].i]
  BY <1>1, PcFields
<1>3. r \in PCs
  BY <1>2, PcMake DEF Ats
<1>4. pc' = [pc EXCEPT ![c] = r]
  BY <1>2 DEF ThenKick
<1>5. QED
  BY <1>3, <1>4 DEF Moves

LEMMA KickDoneMoves ==
    ASSUME pc \in [CPUs -> PCs], NEW c \in CPUs, KickDone(c)
    PROVE  Moves(c, pc[c].then) /\ pc[c].then \in Thens /\ pc'[c].i = 0
<1> DEFINE q == IF pc[c].then = "ret" THEN "none" ELSE pc[c].irq
           r == [at |-> pc[c].then, irq |-> q, then |-> "run", i |-> 0]
<1>1. pc[c].irq \in Irqs /\ pc[c].then \in Thens
  BY PcFields
<1>2. q \in Irqs /\ pc[c].then \in Ats
  BY <1>1 DEF Irqs, Thens, Ats
<1>3. r \in PCs
  BY <1>2, PcMake, NCpusAssumption, SMT DEF Thens
<1>4. pc' = [pc EXCEPT ![c] = r]
  BY DEF KickDone, Running
<1>5. QED
  BY <1>1, <1>3, <1>4 DEF Moves

LEMMA ResumeMoves ==
    ASSUME pc \in [CPUs -> PCs], NEW c \in CPUs, Resume(c)
    PROVE  Moves(c, "run") /\ pc'[c].i = 0
BY RunningType DEF Moves, Resume, Running

LEMMA AfterSchedLabel ==
    ASSUME NEW c \in CPUs
    PROVE  AfterSched(c) \in {"deliver", "tickstop", "ret"} /\ AfterSched(c) \in Thens \cap Ats
BY DEF AfterSched, Thens, Ats

-----------------------------------------------------------------------------
(***************************************************************************)
(* The two halves of the invariant, for steps that do not switch           *)
(***************************************************************************)

(* A step that moves no task between CPUs and frees none. *)
QuietTasks ==
    /\ running_cpu' = running_cpu
    /\ running_task' = running_task
    /\ switching_task' = switching_task
    /\ stack' = stack
    /\ \A t \in AllTasks : tstate'[t] = "FREED" => tstate[t] = "FREED"

LEMMA QuietOwnership ==
    ASSUME Ownership, QuietTasks
    PROVE  Ownership'
<1>1. OwnerExact'
  BY DEF Ownership, OwnerExact, QuietTasks
<1>2. StacksCovered' /\ SwitchingExclusive'
  BY DEF Ownership, StacksCovered, SwitchingExclusive, QuietTasks
<1>3. NoFreedStack'
  BY DEF Ownership, NoFreedStack, QuietTasks, AllTasks
<1>4. QED
  BY <1>1, <1>2, <1>3 DEF Ownership

(* A step of CPU c outside the code that stops and restarts ticks, to the  *)
(* label at.                                                               *)
QuietTick(c, at) ==
    /\ Moves(c, at)
    /\ tick_stopped' = tick_stopped
    /\ timer' = timer
    /\ backed_out' = backed_out
    /\ bsp_stretched' => bsp_stretched
    /\ wake_ipi[BSP] => wake_ipi'[BSP]
    /\ \A d \in CPUs : d # c => running_task'[d] = running_task[d]
    /\ pc[c].at \notin {"restart", "recheck"}
    /\ at \notin {"halt", "tickcheck", "tickoff", "stretch", "recheck"}
    /\ \/ pc[c].at \notin {"run", "tickcheck", "tickoff", "ret"}
       \/ running_task[c] # NoTask
       \/ at \in {"run", "ret"} /\ running_task'[c] = running_task[c]

LEMMA QuietTicks ==
    ASSUME Ticks, NEW c \in CPUs, NEW STATE at, QuietTick(c, at)
    PROVE  Ticks'
<1>1. ASSUME NEW d \in APs
      PROVE  /\ tick_stopped'[d] \/ ~timer'[d] =>
                  /\ running_task'[d] = NoTask
                  /\ pc'[d].at \in {"run", "tickcheck", "tickoff", "ret"}
             /\ pc'[d].at \in {"tickcheck", "tickoff"} => running_task'[d] = NoTask
             /\ pc'[d].at \notin {"halt", "stretch", "recheck"}
  <2>1. d \in CPUs
    BY DEF APs
  <2>2. CASE d = c
    BY <2>2, <1>1 DEF Ticks, StoppedIdle, QuietTick, Moves
  <2>3. CASE d # c
    BY <2>1, <2>3, <1>1 DEF Ticks, StoppedIdle, QuietTick, Moves
  <2>4. QED
    BY <2>2, <2>3
<1>2. StoppedIdle'
  BY <1>1 DEF StoppedIdle, APs, CPUs, BSP
<1>3. ASSUME bsp_stretched'
      PROVE  \/ \A d \in APs : tick_stopped'[d] \/ d \in backed_out'
             \/ wake_ipi'[BSP]
             \/ pc'[BSP].at = "recheck"
             \/ \E d \in APs : pc'[d].at = "restart"
  <2>1. bsp_stretched
    BY <1>3 DEF QuietTick
  <2>2. CASE \A d \in APs : tick_stopped[d] \/ d \in backed_out
    BY <2>2 DEF QuietTick
  <2>3. CASE wake_ipi[BSP]
    BY <2>3 DEF QuietTick
  <2>4. CASE pc[BSP].at = "recheck"
    BY <2>4, ZeroCpu DEF QuietTick, Moves
  <2>5. CASE \E d \in APs : pc[d].at = "restart"
    BY <2>5 DEF QuietTick, Moves, APs
  <2>6. QED
    BY <2>1, <2>2, <2>3, <2>4, <2>5 DEF Ticks, BspToldOfRestart
<1>4. BspToldOfRestart'
  BY <1>3 DEF BspToldOfRestart, APs, CPUs, BSP
<1>5. BspTicks'
  BY ZeroCpu DEF Ticks, BspTicks, QuietTick, Moves, BSP
<1>6. QED
  BY <1>2, <1>4, <1>5 DEF Ticks
-----------------------------------------------------------------------------
(***************************************************************************)
(* Types of what several steps assign                                      *)
(***************************************************************************)

TStates == {"NEW", "READY", "RUNNING", "BLOCKED", "STOPPED", "DEAD", "FREED"}

LEMMA WakeFlags ==
    ASSUME NEW STATE K, SetWakePending(K)
    PROVE  wake_pending' \in [CPUs -> BOOLEAN] /\ idle_wake_pending' \in BOOLEAN
BY DEF SetWakePending

(* Waking frees nobody. *)
LEMMA WokenKeeps ==
    ASSUME TypeOK, NEW w \in Tasks \cup {NoTask}
    PROVE  /\ Woken(w) \in [AllTasks -> TStates]
           /\ \A t \in AllTasks : Woken(w)[t] = "FREED" => tstate[t] = "FREED"
BY DEF TypeOK, Woken, TStates, AllTasks

(* Nor does setting the state of one more task u. *)
LEMMA WokenThenKeeps ==
    ASSUME TypeOK, NEW w \in Tasks \cup {NoTask}, NEW u \in Tasks,
           NEW STATE s, s \in TStates \ {"FREED"}, tstate' = [Woken(w) EXCEPT ![u] = s]
    PROVE  /\ tstate' \in [AllTasks -> TStates]
           /\ \A t \in AllTasks : tstate'[t] = "FREED" => tstate[t] = "FREED"
<1>1. /\ Woken(w) \in [AllTasks -> TStates]
      /\ \A t \in AllTasks : Woken(w)[t] = "FREED" => tstate[t] = "FREED"
  BY WokenKeeps
<1>2. QED
  BY <1>1 DEF TStates

LEMMA SleepersAreTasks == Sleepers \subseteq Tasks
BY DEF Sleepers

(* TypeOK in parts, as the steps change them. *)
TaskType ==
    /\ tstate \in [AllTasks -> TStates]
    /\ running_cpu \in [AllTasks -> -(NCpus + 1) .. NCpus - 1]
    /\ mode \in [AllTasks -> {"user", "syscall", "fault", "kernel"}]
    /\ pending \in [AllTasks -> SUBSET Signals]
    /\ affinity \in [AllTasks -> SUBSET CPUs]
CpuType ==
    /\ running_task \in [CPUs -> AllTasks \cup {NoTask}]
    /\ switching_task \in [CPUs -> AllTasks \cup {NoTask}]
    /\ stack \in [CPUs -> AllTasks \cup {NoTask}]
KickType == wake_pending \in [CPUs -> BOOLEAN] /\ idle_wake_pending \in BOOLEAN
TickType ==
    /\ tick_stopped \in [CPUs -> BOOLEAN]
    /\ timer \in [CPUs -> BOOLEAN]
    /\ wake_ipi \in [CPUs -> BOOLEAN]
    /\ bsp_stretched \in BOOLEAN
    /\ backed_out \in SUBSET APs
    /\ overlooked \in SUBSET AllTasks
PcType == pc \in [CPUs -> PCs]

LEMMA TypeParts == TypeOK <=> TaskType /\ CpuType /\ KickType /\ TickType /\ PcType
BY DEF TypeOK, TaskType, CpuType, KickType, TickType, PcType, TStates

LEMMA TypePartsNext ==
    ASSUME TaskType', CpuType', KickType', TickType', PcType'
    PROVE  TypeOK'
BY DEF TypeOK, TaskType, CpuType, KickType, TickType, PcType, TStates

LEMMA TaskTypeKept == ASSUME TaskType, UNCHANGED taskVars PROVE TaskType'
BY DEF TaskType, taskVars
LEMMA CpuTypeKept == ASSUME CpuType, UNCHANGED cpuVars PROVE CpuType'
BY DEF CpuType, cpuVars
LEMMA KickTypeKept == ASSUME KickType, UNCHANGED kickVars PROVE KickType'
BY DEF KickType, kickVars
LEMMA TickTypeKept == ASSUME TickType, UNCHANGED tickVars PROVE TickType'
BY DEF TickType, tickVars

(* A step of a CPU that changes no task and no tick: only where the CPU    *)
(* goes, and the flags of a kick.                                          *)
LEMMA PlainStep ==
    ASSUME IInv, NEW c \in CPUs, NEW STATE at, Moves(c, at), KickType',
           UNCHANGED <<taskVars, cpuVars, tickVars>>,
           pc[c].at \notin {"restart", "recheck"},
           at \notin {"halt", "tickcheck", "tickoff", "stretch", "recheck"},
           \/ pc[c].at \notin {"run", "tickcheck", "tickoff", "ret"}
           \/ running_task[c] # NoTask
    PROVE  IInv'
<1>1. TaskType /\ CpuType /\ TickType
  BY TypeParts DEF IInv
<1>2. TaskType' /\ CpuType' /\ TickType'
  BY <1>1, TaskTypeKept, CpuTypeKept, TickTypeKept
<1>3. TypeOK'
  BY <1>2, TypePartsNext DEF PcType, Moves
<1>4. QuietTasks
  BY DEF QuietTasks, taskVars, cpuVars
<1>5. QuietTick(c, at)
  BY DEF QuietTick, cpuVars, tickVars
<1>6. QED
  BY <1>3, <1>4, <1>5, QuietOwnership, QuietTicks DEF IInv

(* A step that changes the tasks otherwise but moves and frees none. *)
LEMMA TaskChange ==
    ASSUME IInv, NEW c \in CPUs, NEW STATE at, Moves(c, at), TaskType', KickType',
           running_cpu' = running_cpu, UNCHANGED <<cpuVars, tickVars>>,
           \A t \in AllTasks : tstate'[t] = "FREED" => tstate[t] = "FREED",
           pc[c].at \notin {"restart", "recheck"},
           at \notin {"halt", "tickcheck", "tickoff", "stretch", "recheck"},
           \/ pc[c].at \notin {"run", "tickcheck", "tickoff", "ret"}
           \/ running_task[c] # NoTask
    PROVE  IInv'
<1>1. CpuType /\ TickType
  BY TypeParts DEF IInv
<1>2. CpuType' /\ TickType'
  BY <1>1, CpuTypeKept, TickTypeKept
<1>3. TypeOK'
  BY <1>2, TypePartsNext DEF PcType, Moves
<1>4. QuietTasks
  BY DEF QuietTasks, cpuVars
<1>5. QuietTick(c, at)
  BY DEF QuietTick, cpuVars, tickVars
<1>6. QED
  BY <1>3, <1>4, <1>5, QuietOwnership, QuietTicks DEF IInv

-----------------------------------------------------------------------------
(***************************************************************************)
(* The steps of the handlers                                               *)
(***************************************************************************)

LEMMA InvPc == ASSUME IInv PROVE pc \in [CPUs -> PCs]
BY TypeParts DEF IInv, PcType

LEMMA KickTakeKept == ASSUME IInv, NEW c \in CPUs, KickTake(c) PROVE IInv'
<1>1. pc \in [CPUs -> PCs] /\ pc[c].at = "kick" /\ UNCHANGED <<taskVars, cpuVars, tickVars>>
  BY InvPc DEF KickTake
<1>2. KickType'
  BY TypeParts DEF KickTake, KickType, IInv
<1>3. CASE idle_wake_pending
  <2>1. Moves(c, "kickcpu")
    BY <1>1, <1>3, GotoMoves DEF KickTake, Ats
  <2>2. QED
    BY <1>1, <1>2, <2>1, PlainStep
<1>4. CASE ~idle_wake_pending
  <2>1. Moves(c, pc[c].then) /\ pc[c].then \in Thens
    BY <1>1, <1>4, KickDoneMoves DEF KickTake
  <2>2. QED
    BY <1>1, <1>2, <2>1, PlainStep DEF Thens
<1>5. QED
  BY <1>3, <1>4

LEMMA KickCpuKept == ASSUME IInv, NEW c \in CPUs, KickCpu(c) PROVE IInv'
<1> DEFINE k == pc[c].i
<1>1. pc \in [CPUs -> PCs] /\ pc[c].at = "kickcpu"
  BY InvPc DEF KickCpu
<1>2. TaskType /\ CpuType /\ KickType /\ TickType
  BY TypeParts DEF IInv
<1>3. k \in 0 .. NCpus - 1 /\ k \in CPUs /\ pc[c].irq \in Irqs /\ pc[c].then \in Thens
  BY <1>1, PcFields DEF CPUs
<1>4. /\ wake_pending' = [wake_pending EXCEPT ![k] = FALSE]
      /\ wake_ipi' = [wake_ipi EXCEPT ![k] = @ \/ wake_pending[k]]
      /\ idle_wake_pending' = idle_wake_pending
      /\ UNCHANGED <<tick_stopped, timer, bsp_stretched, backed_out, overlooked>>
      /\ UNCHANGED taskVars /\ UNCHANGED cpuVars
  BY DEF KickCpu
<1>5. KickType'
  BY <1>2, <1>3, <1>4 DEF KickType
<1>6. TickType'
  BY <1>2, <1>3, <1>4 DEF TickType
<1>7. \E at \in Thens \cup {"kickcpu"} : Moves(c, at)
  <2>1. CASE k + 1 = NCpus
    BY <2>1, <1>1, KickDoneMoves DEF KickCpu
  <2>2. CASE k + 1 # NCpus
    <3> DEFINE r == [at |-> pc[c].at, irq |-> pc[c].irq, then |-> pc[c].then, i |-> k + 1]
    <3>1. k + 1 \in 0 .. NCpus - 1
      BY <1>3, <2>2, NCpusAssumption, SMT
    <3>2. r \in PCs
      BY <1>1, <1>3, <3>1, PcMake DEF Ats
    <3>3. pc' = [pc EXCEPT ![c] = r]
      BY <2>2 DEF KickCpu
    <3>4. QED
      BY <1>1, <3>2, <3>3 DEF Moves
  <2>3. QED
    BY <2>1, <2>2
<1>8. PICK at \in Thens \cup {"kickcpu"} : Moves(c, at)
  BY <1>7
<1>9. TypeOK'
  BY <1>2, <1>4, <1>5, <1>6, <1>8, TypePartsNext, TaskTypeKept, CpuTypeKept DEF PcType, Moves
<1>10. QuietTasks
  BY <1>4 DEF QuietTasks, taskVars, cpuVars
<1>11. wake_ipi[BSP] => wake_ipi'[BSP]
  BY <1>2, <1>3, <1>4, ZeroCpu DEF TickType
<1>12. QuietTick(c, at)
  BY <1>1, <1>4, <1>8, <1>11 DEF QuietTick, cpuVars, Thens
<1>13. QED
  BY <1>9, <1>10, <1>12, QuietOwnership, QuietTicks DEF IInv

LEMMA SchedKeepKept == ASSUME IInv, NEW c \in CPUs, SchedKeep(c) PROVE IInv'
<1>1. pc \in [CPUs -> PCs] /\ pc[c].at = "sched" /\ UNCHANGED <<taskVars, cpuVars, tickVars>>
  BY InvPc DEF SchedKeep
<1>2. KickType'
  BY TypeParts, KickTypeKept DEF SchedKeep, IInv
<1>3. Moves(c, AfterSched(c))
  BY <1>1, AfterSchedLabel, GotoMoves DEF SchedKeep
<1>4. QED
  BY <1>1, <1>2, <1>3, AfterSchedLabel, PlainStep

LEMMA SchedNoneKept == ASSUME IInv, NEW c \in CPUs, SchedNone(c) PROVE IInv'
<1>1. pc \in [CPUs -> PCs] /\ pc[c].at = "sched" /\ UNCHANGED <<taskVars, cpuVars, tickVars>>
  BY InvPc DEF SchedNone
<1>2. KickType'
  BY WakeFlags DEF SchedNone, KickType
<1>3. Moves(c, "kick")
  BY <1>1, AfterSchedLabel, ThenKickMoves DEF SchedNone
<1>4. QED
  BY <1>1, <1>2, <1>3, PlainStep

LEMMA SchedPanicKept == ASSUME IInv, NEW c \in CPUs, SchedPanic(c) PROVE IInv'
<1>1. pc \in [CPUs -> PCs] /\ pc[c].at = "sched" /\ UNCHANGED <<taskVars, cpuVars, tickVars>>
  BY InvPc DEF SchedPanic
<1>2. KickType'
  BY TypeParts, KickTypeKept DEF SchedPanic, IInv
<1>3. Moves(c, "panic")
  BY <1>1, GotoMoves DEF SchedPanic, Ats
<1>4. QED
  BY <1>1, <1>2, <1>3, PlainStep

LEMMA WakeSleeperKept == ASSUME IInv, NEW c \in CPUs, WakeSleeper(c) PROVE IInv'
<1>1. /\ pc \in [CPUs -> PCs] /\ pc[c].at = "tick"
      /\ UNCHANGED <<running_cpu, mode, pending, affinity, cpuVars, tickVars>>
  BY InvPc DEF WakeSleeper
<1>2. PICK w \in Sleepers : tstate' = Woken(w) /\ SetWakePending(MarkReadyKicks(w, c, {}))
  BY DEF WakeSleeper
<1>3. w \in Tasks \cup {NoTask}
  BY SleepersAreTasks
<1>4. /\ tstate' \in [AllTasks -> TStates]
      /\ \A t \in AllTasks : tstate'[t] = "FREED" => tstate[t] = "FREED"
  BY <1>2, <1>3, WokenKeeps DEF IInv
<1>5. TaskType'
  BY <1>1, <1>4, TypeParts DEF TaskType, IInv
<1>6. KickType'
  BY <1>2, WakeFlags DEF KickType
<1>7. Moves(c, "kick")
  BY <1>1, ThenKickMoves DEF WakeSleeper, Thens
<1>8. QED
  BY <1>1, <1>4, <1>5, <1>6, <1>7, TaskChange

(* Steps that touch ticks but no task: Ownership and most types are kept. *)
LEMMA TickStep ==
    ASSUME IInv, UNCHANGED <<taskVars, cpuVars, kickVars>>, TickType', PcType', Ticks'
    PROVE  IInv'
<1>1. TaskType' /\ CpuType' /\ KickType'
  BY TypeParts, TaskTypeKept, CpuTypeKept, KickTypeKept DEF IInv
<1>2. TypeOK'
  BY <1>1, TypePartsNext
<1>3. QuietTasks
  BY DEF QuietTasks, taskVars, cpuVars
<1>4. QED
  BY <1>2, <1>3, QuietOwnership DEF IInv

(* What StoppedIdle asks of AP d in the next state. *)
IdleNext(d) ==
    /\ tick_stopped'[d] \/ ~timer'[d] =>
         /\ running_task'[d] = NoTask
         /\ pc'[d].at \in {"run", "tickcheck", "tickoff", "ret"}
    /\ pc'[d].at \in {"tickcheck", "tickoff"} => running_task'[d] = NoTask
    /\ pc'[d].at \notin {"halt", "stretch", "recheck"}

(* What BspToldOfRestart asks of the next state. *)
ToldNext ==
    bsp_stretched' =>
        \/ \A d \in APs : tick_stopped'[d] \/ d \in backed_out'
        \/ wake_ipi'[BSP]
        \/ pc'[BSP].at = "recheck"
        \/ \E d \in APs : pc'[d].at = "restart"

LEMMA TicksFrom ==
    ASSUME Ticks, NEW c \in CPUs, NEW STATE at, Moves(c, at),
           c = BSP => at \notin {"tickcheck", "tickoff"},
           \A d \in APs : IdleNext(d), ToldNext
    PROVE  Ticks'
<1>1. StoppedIdle' /\ BspToldOfRestart'
  BY DEF StoppedIdle, BspToldOfRestart, IdleNext, ToldNext, APs, CPUs, BSP
<1>2. BspTicks'
  BY ZeroCpu DEF Ticks, BspTicks, Moves, BSP
<1>3. QED
  BY <1>1, <1>2 DEF Ticks

(* An AP other than the one that moves stays as it was. *)
LEMMA IdleOther ==
    ASSUME Ticks, NEW c \in CPUs, NEW STATE at, Moves(c, at), NEW d \in APs, d # c,
           running_task'[d] = running_task[d], tick_stopped'[d] = tick_stopped[d],
           timer'[d] = timer[d]
    PROVE  IdleNext(d)
BY DEF Ticks, StoppedIdle, IdleNext, Moves, APs

LEMMA InterruptEntryKept ==
    ASSUME IInv, NEW c \in CPUs, NEW irq \in {"timer", "early", "wake"},
           InterruptEntry(c, irq),
           \/ wake_ipi' = wake_ipi
           \/ wake_ipi' = [wake_ipi EXCEPT ![c] = FALSE]
    PROVE  IInv'
<1> DEFINE a == IF tick_stopped[c] THEN "restart" ELSE "tick"
           r == [at |-> a, irq |-> irq, then |-> "run", i |-> 0]
<1>1. /\ pc[c].at \in {"run", "halt"}
      /\ bsp_stretched' = (bsp_stretched /\ (c = BSP => smp_aps_idle))
      /\ tick_stopped' = [tick_stopped EXCEPT ![c] = FALSE]
      /\ timer' = [timer EXCEPT ![c] = TRUE]
      /\ pc' = [pc EXCEPT ![c] = r]
      /\ backed_out' = backed_out /\ overlooked' = overlooked
      /\ UNCHANGED <<taskVars, cpuVars, kickVars>>
  BY DEF InterruptEntry
<1>2. TickType /\ CpuType /\ Ticks /\ pc \in [CPUs -> PCs]
  BY TypeParts, InvPc DEF IInv
<1>3. TickType'
  BY <1>1, <1>2 DEF TickType
<1>4. r \in PCs
  <2>1. a \in Ats /\ irq \in Irqs /\ "run" \in Thens /\ 0 \in 0 .. NCpus - 1
    BY NCpusAssumption, SMT DEF Ats, Irqs, Thens
  <2>2. QED
    BY <2>1 DEF PCs, Ats, Irqs, Thens
<1>5. Moves(c, a)
  BY <1>1, <1>2, <1>4 DEF Moves
<1>6. ASSUME NEW d \in APs PROVE IdleNext(d)
  <2>1. d \in CPUs /\ running_task' = running_task
    BY <1>1 DEF APs, cpuVars
  <2>2. CASE d = c
    BY <2>1, <2>2, <1>1, <1>2, <1>5 DEF IdleNext, Moves, TickType
  <2>3. CASE d # c
    <3>1. tick_stopped'[d] = tick_stopped[d] /\ timer'[d] = timer[d]
      BY <2>1, <2>3, <1>1, <1>2 DEF TickType
    <3>2. QED
      BY <1>2, <1>5, <2>1, <2>3, <3>1, IdleOther
  <2>4. QED
    BY <2>2, <2>3
<1>7. ToldNext
  <2>1. SUFFICES ASSUME bsp_stretched' PROVE ToldNext
    BY DEF ToldNext
  <2>2. bsp_stretched /\ (c = BSP => smp_aps_idle)
    BY <1>1, <2>1
  <2>3. CASE c = BSP
    <3>1. \A d \in APs : tick_stopped'[d]
      BY <2>2, <2>3, <1>1, <1>2 DEF smp_aps_idle, APs, TickType
    <3>2. QED
      BY <3>1 DEF ToldNext
  <2>4. CASE c # BSP /\ tick_stopped[c]
    <3>1. c \in APs /\ pc'[c].at = "restart"
      BY <2>4, <1>5 DEF APs, Moves
    <3>2. QED
      BY <3>1 DEF ToldNext
  <2>5. CASE c # BSP /\ ~tick_stopped[c]
    <3>1. \A d \in CPUs : tick_stopped'[d] = tick_stopped[d]
      BY <2>5, <1>1, <1>2 DEF TickType
    <3>2. wake_ipi'[BSP] = wake_ipi[BSP]
      BY <2>5, <1>2, ZeroCpu DEF TickType
    <3>3. \A d \in CPUs : pc[d].at \in {"recheck", "restart"} => pc'[d].at = pc[d].at
      BY <1>1, <1>5 DEF Moves
    <3>4. QED
      BY <1>1, <1>2, <2>2, <3>1, <3>2, <3>3, ZeroCpu
      DEF ToldNext, Ticks, BspToldOfRestart, APs
  <2>6. QED
    BY <2>3, <2>4, <2>5
<1>8. PcType'
  BY <1>5 DEF PcType, Moves
<1>9. QED
  BY <1>1, <1>2, <1>3, <1>5, <1>6, <1>7, <1>8, TicksFrom, TickStep

LEMMA RestartNotifyKept == ASSUME IInv, NEW c \in CPUs, RestartNotify(c) PROVE IInv'
<1>1. /\ pc[c].at = "restart"
      /\ wake_ipi' = [wake_ipi EXCEPT ![BSP] = @ \/ bsp_stretched]
      /\ UNCHANGED <<tick_stopped, timer, bsp_stretched, backed_out, overlooked>>
      /\ UNCHANGED <<taskVars, cpuVars, kickVars>>
  BY DEF RestartNotify
<1>2. TickType /\ Ticks /\ pc \in [CPUs -> PCs]
  BY TypeParts, InvPc DEF IInv
<1>3. TickType'
  BY <1>1, <1>2, ZeroCpu DEF TickType
<1>4. Moves(c, "tick")
  BY <1>2, GotoMoves DEF RestartNotify, Ats
<1>5. ASSUME NEW d \in APs PROVE IdleNext(d)
  <2>1. d \in CPUs /\ running_task' = running_task
    BY <1>1 DEF APs, cpuVars
  <2>2. CASE d = c
    BY <2>1, <2>2, <1>1, <1>2, <1>4 DEF IdleNext, Moves, Ticks, StoppedIdle
  <2>3. CASE d # c
    BY <1>1, <1>2, <1>4, <2>1, <2>3, IdleOther
  <2>4. QED
    BY <2>2, <2>3
<1>6. ToldNext
  BY <1>1, <1>2, ZeroCpu DEF ToldNext, TickType
<1>7. QED
  BY <1>1, <1>2, <1>3, <1>4, <1>5, <1>6, TicksFrom, TickStep DEF PcType, Moves

(* A step that changes nothing but pc[c] and lets the BSP end its stretch. *)
LEMMA StretchEnds ==
    ASSUME IInv, NEW c \in CPUs, NEW STATE at, Moves(c, at),
           UNCHANGED <<taskVars, cpuVars, kickVars>>,
           UNCHANGED <<tick_stopped, timer, wake_ipi, backed_out, overlooked>>,
           bsp_stretched' \in BOOLEAN, bsp_stretched' => bsp_stretched,
           pc[c].at \notin {"restart", "recheck", "run", "tickcheck", "tickoff", "ret"},
           at \notin {"halt", "tickcheck", "tickoff", "stretch", "recheck"}
    PROVE  IInv'
<1>1. TickType /\ Ticks
  BY TypeParts DEF IInv
<1>2. TickType'
  BY <1>1 DEF TickType
<1>3. QuietTick(c, at)
  BY DEF QuietTick, cpuVars
<1>4. QED
  BY <1>1, <1>2, <1>3, QuietTicks, TickStep DEF PcType, Moves

LEMMA HandleTickKept == ASSUME IInv, NEW c \in CPUs, HandleTick(c) PROVE IInv'
<1>1. /\ pc[c].at = "tick"
      /\ bsp_stretched' = (bsp_stretched /\ ~(c = BSP /\ pc[c].irq = "timer"))
      /\ UNCHANGED <<tick_stopped, timer, wake_ipi, backed_out, overlooked>>
      /\ UNCHANGED <<taskVars, cpuVars, kickVars>>
  BY DEF HandleTick
<1>2. \E at \in {"sched", "ret"} : Goto(c, at)
  BY DEF HandleTick
<1>3. PICK at \in {"sched", "ret"} : Goto(c, at)
  BY <1>2
<1>4. Moves(c, at)
  BY <1>3, InvPc, GotoMoves DEF Ats
<1>5. QED
  BY <1>1, <1>4, StretchEnds

LEMMA TickStopKept == ASSUME IInv, NEW c \in CPUs, TickStop(c) PROVE IInv'
<1>1. /\ pc[c].at = "tickstop"
      /\ UNCHANGED <<timer, wake_ipi, bsp_stretched, overlooked>>
      /\ UNCHANGED <<taskVars, cpuVars, kickVars>>
  BY DEF TickStop
<1>2. TickType /\ CpuType /\ Ticks /\ pc \in [CPUs -> PCs]
  BY TypeParts, InvPc DEF IInv
<1>3. CASE c \in APs /\ running_task[c] = NoTask
  <2>1. /\ tick_stopped' = [tick_stopped EXCEPT ![c] = TRUE]
        /\ backed_out' = backed_out \ {c}
        /\ Goto(c, "tickcheck")
    BY <1>3 DEF TickStop
  <2>2. Moves(c, "tickcheck")
    BY <1>2, <2>1, GotoMoves DEF Ats
  <2>3. TickType'
    BY <1>1, <1>2, <2>1 DEF TickType
  <2>4. ASSUME NEW d \in APs PROVE IdleNext(d)
    <3>1. d \in CPUs /\ running_task' = running_task
      BY <1>1 DEF APs, cpuVars
    <3>2. CASE d = c
      BY <3>1, <3>2, <1>3, <2>2 DEF IdleNext, Moves
    <3>3. CASE d # c
      <4>1. tick_stopped'[d] = tick_stopped[d] /\ timer'[d] = timer[d]
        BY <1>1, <1>2, <2>1, <3>1, <3>3 DEF TickType
      <4>2. QED
        BY <1>2, <2>2, <3>1, <3>3, <4>1, IdleOther
    <3>4. QED
      BY <3>2, <3>3
  <2>5. ToldNext
    <3>1. \A d \in APs : tick_stopped[d] \/ d \in backed_out => tick_stopped'[d] \/ d \in backed_out'
      BY <1>2, <2>1 DEF TickType, APs
    <3>2. \A d \in CPUs : pc[d].at \in {"recheck", "restart"} => pc'[d].at = pc[d].at
      BY <1>1, <2>2 DEF Moves
    <3>3. QED
      BY <1>1, <1>2, <3>1, <3>2, ZeroCpu DEF ToldNext, Ticks, BspToldOfRestart, APs
  <2>6. QED
    BY <1>1, <1>2, <1>3, <2>2, <2>3, <2>4, <2>5, TicksFrom, TickStep DEF PcType, Moves, APs
<1>4. CASE ~(c \in APs /\ running_task[c] = NoTask)
  <2>1. Goto(c, "ret") /\ UNCHANGED <<tick_stopped, backed_out>>
    BY <1>4 DEF TickStop
  <2>2. Moves(c, "ret")
    BY <1>2, <2>1, GotoMoves DEF Ats
  <2>3. KickType' /\ UNCHANGED tickVars
    BY <1>1, <2>1, TypeParts, KickTypeKept DEF IInv, tickVars
  <2>4. QED
    BY <1>1, <2>2, <2>3, PlainStep
<1>5. QED
  BY <1>3, <1>4

LEMMA TickCheckKept == ASSUME IInv, NEW c \in CPUs, TickCheck(c) PROVE IInv'
<1> DEFINE work == HasWork(c)
<1>1. /\ pc[c].at = "tickcheck"
      /\ tick_stopped' = [tick_stopped EXCEPT ![c] = ~work]
      /\ backed_out' = IF work /\ bsp_stretched THEN backed_out \cup {c} ELSE backed_out
      /\ overlooked' = IF work THEN overlooked ELSE overlooked \cup Overlooks(c)
      /\ Goto(c, IF work THEN "ret" ELSE "tickoff")
      /\ UNCHANGED <<timer, wake_ipi, bsp_stretched>>
      /\ UNCHANGED <<taskVars, cpuVars, kickVars>>
  BY DEF TickCheck
<1>2. TickType /\ CpuType /\ Ticks /\ pc \in [CPUs -> PCs] /\ c \in APs
  BY <1>1, TypeParts, InvPc DEF IInv, APs, Ticks, BspTicks
<1>3. work \in BOOLEAN
  BY DEF HasWork
<1> HIDE DEF work
<1>4. PICK at \in {"ret", "tickoff"} : Goto(c, at)
  BY <1>1
<1>5. Moves(c, at)
  BY <1>2, <1>4, GotoMoves DEF Ats
<1>6. TickType'
  BY <1>1, <1>2, <1>3 DEF TickType, AllTasks, Overlooks
<1>7. ASSUME NEW d \in APs PROVE IdleNext(d)
  <2>1. d \in CPUs /\ running_task' = running_task
    BY <1>1 DEF APs, cpuVars
  <2>2. CASE d = c
    BY <2>1, <2>2, <1>1, <1>2, <1>5 DEF IdleNext, Moves, Ticks, StoppedIdle
  <2>3. CASE d # c
    <3>1. tick_stopped'[d] = tick_stopped[d] /\ timer'[d] = timer[d]
      BY <1>1, <1>2, <2>1, <2>3 DEF TickType
    <3>2. QED
      BY <1>2, <1>5, <2>1, <2>3, <3>1, IdleOther
  <2>4. QED
    BY <2>2, <2>3
<1>8. ToldNext
  <2>1. SUFFICES ASSUME bsp_stretched' PROVE ToldNext
    BY DEF ToldNext
  <2>2. \A d \in APs : tick_stopped[d] \/ d \in backed_out => tick_stopped'[d] \/ d \in backed_out'
    BY <1>1, <1>2, <1>3, <2>1 DEF TickType, APs
  <2>3. \A d \in CPUs : pc[d].at \in {"recheck", "restart"} => pc'[d].at = pc[d].at
    BY <1>1, <1>5 DEF Moves
  <2>4. QED
    BY <1>1, <1>2, <2>1, <2>2, <2>3, ZeroCpu DEF ToldNext, Ticks, BspToldOfRestart, APs
<1>9. QED
  BY <1>1, <1>2, <1>5, <1>6, <1>7, <1>8, TicksFrom, TickStep DEF PcType, Moves, APs

LEMMA TickOffKept == ASSUME IInv, NEW c \in CPUs, TickOff(c) PROVE IInv'
<1>1. /\ pc[c].at = "tickoff"
      /\ timer' = [timer EXCEPT ![c] = FALSE]
      /\ UNCHANGED <<tick_stopped, wake_ipi, bsp_stretched, backed_out, overlooked>>
      /\ UNCHANGED <<taskVars, cpuVars, kickVars>>
  BY DEF TickOff
<1>2. TickType /\ Ticks /\ pc \in [CPUs -> PCs]
  BY TypeParts, InvPc DEF IInv
<1>3. Moves(c, "ret")
  BY <1>2, GotoMoves DEF TickOff, Ats
<1>4. TickType'
  BY <1>1, <1>2 DEF TickType
<1>5. ASSUME NEW d \in APs PROVE IdleNext(d)
  <2>1. d \in CPUs /\ running_task' = running_task
    BY <1>1 DEF APs, cpuVars
  <2>2. CASE d = c
    BY <2>1, <2>2, <1>1, <1>2, <1>3 DEF IdleNext, Moves, Ticks, StoppedIdle
  <2>3. CASE d # c
    <3>1. tick_stopped'[d] = tick_stopped[d] /\ timer'[d] = timer[d]
      BY <1>1, <1>2, <2>1, <2>3 DEF TickType
    <3>2. QED
      BY <1>2, <1>3, <2>1, <2>3, <3>1, IdleOther
  <2>4. QED
    BY <2>2, <2>3
<1>6. ToldNext
  <2>1. \A d \in CPUs : pc[d].at \in {"recheck", "restart"} => pc'[d].at = pc[d].at
    BY <1>1, <1>3 DEF Moves
  <2>2. QED
    BY <1>1, <1>2, <2>1, ZeroCpu DEF ToldNext, Ticks, BspToldOfRestart, APs
<1>7. QED
  BY <1>1, <1>2, <1>3, <1>4, <1>5, <1>6, TicksFrom, TickStep DEF PcType, Moves

(* A step of the BSP in smp_tick_idle. *)
LEMMA BspStep ==
    ASSUME IInv, NEW STATE at, Moves(BSP, at), at \notin {"tickcheck", "tickoff"},
           UNCHANGED <<taskVars, cpuVars, kickVars>>,
           UNCHANGED <<tick_stopped, timer, wake_ipi, backed_out, overlooked>>,
           bsp_stretched' \in BOOLEAN, ToldNext
    PROVE  IInv'
<1>1. TickType /\ Ticks /\ BSP \in CPUs
  BY TypeParts, ZeroCpu DEF IInv
<1>2. TickType'
  BY <1>1 DEF TickType
<1>3. ASSUME NEW d \in APs PROVE IdleNext(d)
  <2>1. d \in CPUs /\ d # BSP /\ running_task' = running_task
    BY DEF APs, cpuVars
  <2>2. QED
    BY <1>1, <2>1, IdleOther
<1>4. QED
  BY <1>1, <1>2, <1>3, TicksFrom, TickStep DEF PcType, Moves

LEMMA TickIdleKept == ASSUME IInv, NEW c \in CPUs, TickIdle(c) PROVE IInv'
<1>1. /\ c = BSP /\ pc[c].at = "run"
      /\ UNCHANGED <<tick_stopped, timer, wake_ipi, backed_out, overlooked>>
      /\ UNCHANGED <<taskVars, cpuVars, kickVars>>
  BY DEF TickIdle
<1>2. TickType /\ Ticks /\ pc \in [CPUs -> PCs]
  BY TypeParts, InvPc DEF IInv
<1>3. CASE Goto(c, "stretch") /\ bsp_stretched' = bsp_stretched
  <2>1. Moves(c, "stretch")
    BY <1>2, <1>3, GotoMoves DEF Ats
  <2>2. \A d \in CPUs : pc[d].at \in {"recheck", "restart"} => pc'[d].at = pc[d].at
    BY <1>1, <2>1 DEF Moves
  <2>3. ToldNext
    BY <1>1, <1>2, <1>3, <2>2, ZeroCpu DEF ToldNext, Ticks, BspToldOfRestart, APs
  <2>4. QED
    BY <1>1, <1>2, <1>3, <2>1, <2>3, BspStep DEF TickType
<1>4. CASE Goto(c, "halt") /\ bsp_stretched' = FALSE
  <2>1. Moves(c, "halt")
    BY <1>2, <1>4, GotoMoves DEF Ats
  <2>2. QED
    BY <1>1, <1>4, <2>1, BspStep DEF ToldNext
<1>5. QED
  BY <1>3, <1>4 DEF TickIdle

LEMMA TickStretchKept == ASSUME IInv, NEW c \in CPUs, TickStretch(c) PROVE IInv'
<1>1. /\ pc[c].at = "stretch" /\ bsp_stretched' = TRUE
      /\ UNCHANGED <<tick_stopped, timer, wake_ipi, backed_out, overlooked>>
      /\ UNCHANGED <<taskVars, cpuVars, kickVars>>
  BY DEF TickStretch
<1>2. c = BSP
  BY <1>1 DEF IInv, Ticks, StoppedIdle, APs
<1>3. Moves(c, "recheck")
  BY InvPc, GotoMoves DEF TickStretch, Ats
<1>4. ToldNext
  BY <1>2, <1>3 DEF ToldNext, Moves
<1>5. QED
  BY <1>1, <1>2, <1>3, <1>4, BspStep

LEMMA TickRecheckKept == ASSUME IInv, NEW c \in CPUs, TickRecheck(c) PROVE IInv'
<1>1. /\ pc[c].at = "recheck" /\ bsp_stretched' = smp_aps_idle
      /\ UNCHANGED <<tick_stopped, timer, wake_ipi, backed_out, overlooked>>
      /\ UNCHANGED <<taskVars, cpuVars, kickVars>>
  BY DEF TickRecheck
<1>2. c = BSP
  BY <1>1 DEF IInv, Ticks, StoppedIdle, APs
<1>3. Moves(c, "halt")
  BY InvPc, GotoMoves DEF TickRecheck, Ats
<1>4. ToldNext /\ bsp_stretched' \in BOOLEAN
  BY <1>1 DEF ToldNext, smp_aps_idle
<1>5. QED
  BY <1>1, <1>2, <1>3, <1>4, BspStep

LEMMA DeliverKept == ASSUME IInv, NEW c \in CPUs, Deliver(c) PROVE IInv'
<1> DEFINE t == running_task[c]
<1>1. /\ pc[c].at = "deliver" /\ pc \in [CPUs -> PCs]
      /\ running_cpu' = running_cpu /\ UNCHANGED <<mode, affinity>>
      /\ UNCHANGED <<cpuVars, tickVars>>
  BY InvPc DEF Deliver
<1>2. TaskType /\ KickType
  BY TypeParts DEF IInv
<1>3. CASE /\ \E at \in {"tickstop", "ret"} : Goto(c, at)
           /\ UNCHANGED <<tstate, pending, kickVars>>
  <2>1. PICK at \in {"tickstop", "ret"} : Goto(c, at)
    BY <1>3
  <2>2. Moves(c, at)
    BY <1>1, <2>1, GotoMoves DEF Ats
  <2>3. UNCHANGED taskVars /\ KickType'
    BY <1>1, <1>2, <1>3, KickTypeKept DEF taskVars
  <2>4. QED
    BY <1>1, <2>2, <2>3, PlainStep
<1>4. ASSUME t \in Tasks, NEW sig \in pending[t], NEW w \in Sleepers \cup {NoTask},
             pending' = [pending EXCEPT ![t] = @ \ {sig}],
             tstate' = [Woken(w) EXCEPT ![t] = IF sig = "stop" THEN "STOPPED" ELSE "DEAD"],
             SetWakePending(KicksFor(w, c, {})),
             pc' = [pc EXCEPT ![c] = [at |-> "kick", then |-> "sched", i |-> 0,
                                      irq |-> IF @.irq = "timer" THEN "late" ELSE @.irq]]
      PROVE  IInv'
  <2> DEFINE q == IF pc[c].irq = "timer" THEN "late" ELSE pc[c].irq
             r == [at |-> "kick", then |-> "sched", i |-> 0, irq |-> q]
             s == IF sig = "stop" THEN "STOPPED" ELSE "DEAD"
  <2>1. q \in Irqs
    BY <1>1, PcFields DEF Irqs
  <2>2. r \in PCs
    BY <2>1, NCpusAssumption, SMT DEF PCs, Irqs
  <2>3. Moves(c, "kick")
    BY <1>1, <1>4, <2>2 DEF Moves
  <2>4. w \in Tasks \cup {NoTask} /\ s \in TStates \ {"FREED"}
    BY <1>4, SleepersAreTasks DEF TStates
  <2>5. TypeOK /\ Woken(w) \in [AllTasks -> TStates]
        /\ \A u \in AllTasks : Woken(w)[u] = "FREED" => tstate[u] = "FREED"
    BY <2>4, WokenKeeps DEF IInv
  <2>6. /\ tstate' \in [AllTasks -> TStates]
        /\ \A u \in AllTasks : tstate'[u] = "FREED" => tstate[u] = "FREED"
    BY <1>4, <2>4, <2>5 DEF TStates
  <2>7. pending' \in [AllTasks -> SUBSET Signals]
    BY <1>2, <1>4 DEF TaskType, AllTasks
  <2>8. TaskType'
    BY <1>1, <1>2, <2>6, <2>7 DEF TaskType
  <2>9. KickType'
    BY <1>4, WakeFlags DEF KickType
  <2>10. QED
    BY <1>1, <2>3, <2>6, <2>8, <2>9, TaskChange
<1>5. QED
  BY <1>3, <1>4 DEF Deliver

-----------------------------------------------------------------------------
(***************************************************************************)
(* The steps that switch: the heart of the argument                        *)
(***************************************************************************)

(* A task that is given up belongs to no CPU. *)
LEMMA ReleasedNegative ==
    ASSUME NEW c \in CPUs, NEW STATE prev
    PROVE  Released(c, prev) \in -(NCpus + 1) .. -1
<1>1. c \in 0 .. NCpus - 1 /\ NCpus \in Nat
  BY NCpusAssumption DEF CPUs
<1>2. -(c + 2) \in -(NCpus + 1) .. -1 /\ -1 \in -(NCpus + 1) .. -1
  BY <1>1, SMT
<1>3. QED
  BY <1>2 DEF Released, Reserved

(* A candidate is on no CPU and is not freed. *)
LEMMA CandidateFree ==
    ASSUME TypeOK, NEW c \in CPUs, NEW STATE prev, NEW next \in Candidates(c, prev)
    PROVE  /\ next \in AllTasks /\ next # prev /\ next # NoTask
           /\ tstate[next] = "READY"
           /\ \A d \in CPUs : running_task[d] # next /\ switching_task[d] # next
BY TasksAssumption DEF Candidates, task_cpu_available, task_is_current_on_any_cpu, AllTasks

(* SwitchOut to a task that is on no CPU, or to none. *)
LEMMA SwitchOutOwnership ==
    ASSUME IInv, NEW c \in CPUs, NEW next \in AllTasks \cup {NoTask}, SwitchOut(c, next),
           next # running_task[c],
           \A d \in CPUs : next # NoTask => running_task[d] # next /\ switching_task[d] # next,
           next # NoTask => tstate[next] # "FREED",
           \A t \in AllTasks : tstate'[t] = "FREED" => tstate[t] = "FREED"
    PROVE  /\ Ownership' /\ CpuType'
           /\ running_cpu' \in [AllTasks -> -(NCpus + 1) .. NCpus - 1]
<1> DEFINE prev == running_task[c]
           rel == Released(c, prev)
<1>1. TaskType /\ CpuType /\ Ownership /\ NoTask \notin AllTasks
  BY TypeParts, TasksAssumption DEF IInv, AllTasks
<1>2. rel \in -(NCpus + 1) .. -1
  BY ReleasedNegative
<1>3. /\ running_cpu' = [t \in AllTasks |-> CASE t = next -> c
                                              [] t = prev -> rel
                                              [] OTHER -> running_cpu[t]]
      /\ running_task' = [running_task EXCEPT ![c] = next]
      /\ switching_task' = [switching_task EXCEPT ![c] = IF @ = NoTask THEN prev ELSE @]
      /\ stack' = stack
  BY DEF SwitchOut
<1> HIDE DEF rel
<1>4. /\ running_task'[c] = next
      /\ \A d \in CPUs : d # c => running_task'[d] = running_task[d]
      /\ switching_task'[c] = IF switching_task[c] = NoTask THEN prev ELSE switching_task[c]
      /\ \A d \in CPUs : d # c => switching_task'[d] = switching_task[d]
  BY <1>1, <1>3 DEF CpuType
<1>5. CpuType'
  BY <1>1, <1>3 DEF CpuType
<1>6. /\ \A t \in AllTasks : t = next => running_cpu'[t] = c
      /\ \A t \in AllTasks : t # next /\ t = prev => running_cpu'[t] = rel
      /\ \A t \in AllTasks : t # next /\ t # prev => running_cpu'[t] = running_cpu[t]
  BY <1>3
<1>7. c \in 0 .. NCpus - 1 /\ NCpus \in Nat
  BY NCpusAssumption DEF CPUs
<1>8. running_cpu' \in [AllTasks -> -(NCpus + 1) .. NCpus - 1]
  <2>1. c \in -(NCpus + 1) .. NCpus - 1 /\ rel \in -(NCpus + 1) .. NCpus - 1
    BY <1>2, <1>7, SMT
  <2>2. \A t \in AllTasks : running_cpu'[t] \in -(NCpus + 1) .. NCpus - 1
    BY <1>1, <1>6, <2>1 DEF TaskType
  <2>3. QED
    BY <1>3, <2>2
<1>9. OwnerExact'
  <2>1. ASSUME NEW t \in AllTasks, NEW d \in CPUs
        PROVE  (running_cpu'[t] = d) <=> (running_task'[d] = t)
    <3>1. (running_cpu[t] = d) <=> (running_task[d] = t)
      BY <1>1 DEF Ownership, OwnerExact
    <3>2. CASE t = next
      BY <1>4, <1>6, <3>2, <1>1
    <3>3. CASE t # next /\ t = prev
      <4>1. running_cpu'[t] = rel /\ rel # d
        BY <1>2, <1>6, <3>3, SMT DEF CPUs
      <4>2. d # c => running_task[d] # t
        BY <3>3, <1>1, SMT DEF Ownership, OwnerExact
      <4>3. QED
        BY <1>4, <3>3, <4>1, <4>2
    <3>4. CASE t # next /\ t # prev
      BY <1>4, <1>6, <3>1, <3>4
    <3>5. QED
      BY <3>2, <3>3, <3>4
  <2>2. QED
    BY <2>1 DEF OwnerExact, CPUs
<1>10. \A d \in CPUs : d # c /\ prev # NoTask => running_task[d] # prev /\ switching_task[d] # prev
  <2>1. ASSUME NEW d \in CPUs, d # c, prev # NoTask
        PROVE  running_task[d] # prev /\ switching_task[d] # prev
    <3>1. prev \in AllTasks
      BY <1>1, <2>1 DEF CpuType
    <3>2. running_task[d] # prev
      BY <1>1, <2>1, <3>1, SMT DEF Ownership, OwnerExact
    <3>3. switching_task[d] # prev
      BY <1>1, <2>1 DEF Ownership, SwitchingExclusive
    <3>4. QED
      BY <3>2, <3>3
  <2>2. QED
    BY <2>1
<1>11. SwitchingExclusive'
  <2>1. ASSUME NEW d \in CPUs, NEW e \in CPUs, d # e, switching_task'[d] # NoTask
        PROVE  running_task'[e] # switching_task'[d] /\ switching_task'[e] # switching_task'[d]
    <3>1. CASE d # c /\ e # c
      BY <1>1, <1>4, <2>1, <3>1, SMT DEF Ownership, SwitchingExclusive
    <3>2. CASE d = c
      BY <1>1, <1>4, <1>10, <2>1, <3>2, SMT DEF Ownership, SwitchingExclusive
    <3>3. CASE e = c
      BY <1>1, <1>4, <1>10, <2>1, <3>3, SMT DEF Ownership, SwitchingExclusive
    <3>4. QED
      BY <3>1, <3>2, <3>3
  <2>2. QED
    BY <2>1 DEF SwitchingExclusive, CPUs
<1>12. StacksCovered'
  <2>1. ASSUME NEW d \in CPUs, stack[d] # NoTask
        PROVE  /\ stack[d] = running_task'[d] => switching_task'[d] = NoTask
               /\ stack[d] # running_task'[d] => switching_task'[d] = stack[d]
    <3>1. /\ stack[d] = running_task[d] => switching_task[d] = NoTask
          /\ stack[d] # running_task[d] => switching_task[d] = stack[d]
      BY <1>1, <2>1 DEF Ownership, StacksCovered
    <3>2. CASE d # c
      BY <1>4, <3>1, <3>2
    <3>3. CASE d = c
      BY <1>4, <2>1, <3>1, <3>3
    <3>4. QED
      BY <3>2, <3>3
  <2>2. QED
    BY <1>3, <2>1 DEF StacksCovered, CPUs
<1>13. NoFreedStack'
  <2>1. ASSUME NEW d \in CPUs, NEW t \in Tasks, tstate'[t] = "FREED"
        PROVE  t # stack'[d] /\ t # running_task'[d] /\ t # switching_task'[d]
    <3>1. tstate[t] = "FREED" /\ t \in AllTasks /\ t # NoTask
      BY <2>1, <1>1 DEF AllTasks
    <3>2. \A e \in CPUs : t # stack[e] /\ t # running_task[e] /\ t # switching_task[e]
      BY <1>1, <2>1, <3>1 DEF Ownership, NoFreedStack
    <3>3. t # next
      BY <3>1
    <3>4. QED
      BY <1>3, <1>4, <3>2, <3>3, SMT
  <2>2. QED
    BY <2>1 DEF NoFreedStack, CPUs
<1>14. QED
  BY <1>5, <1>8, <1>9, <1>11, <1>12, <1>13 DEF Ownership

(* The states after a switch free nobody. *)
LEMMA SwitchStatesKeep ==
    ASSUME TaskType, NEW STATE prev, NEW next, tstate' = SwitchStates(prev, next)
    PROVE  /\ tstate' \in [AllTasks -> TStates]
           /\ \A t \in AllTasks : tstate'[t] = "FREED" => tstate[t] = "FREED"
<1>1. \A t \in AllTasks :
        tstate'[t] = CASE t = next -> "RUNNING"
                       [] t = prev /\ tstate[t] = "RUNNING" -> "READY"
                       [] OTHER -> tstate[t]
  BY DEF SwitchStates
<1>2. \A t \in AllTasks : tstate'[t] \in {"RUNNING", "READY", tstate[t]}
  BY <1>1
<1>3. \A t \in AllTasks : tstate[t] \in TStates
  BY DEF TaskType
<1>4. \A t \in AllTasks : tstate'[t] \in TStates
  BY <1>2, <1>3 DEF TStates
<1>5. QED
  BY <1>2, <1>4 DEF SwitchStates

LEMMA SchedSwitchKept == ASSUME IInv, NEW c \in CPUs, SchedSwitch(c) PROVE IInv'
<1> DEFINE prev == running_task[c]
<1>1. PICK next \in Candidates(c, prev) :
        /\ tstate' = SwitchStates(prev, next)
        /\ SwitchOut(c, next)
        /\ overlooked' = overlooked \ {next}
        /\ bsp_stretched' = (bsp_stretched /\ ~(c = BSP /\ next # Idle))
  BY DEF SchedSwitch
<1>2. /\ pc[c].at = "sched" /\ pc \in [CPUs -> PCs]
      /\ UNCHANGED <<mode, pending, affinity>>
      /\ UNCHANGED <<tick_stopped, timer, wake_ipi, backed_out>>
  BY InvPc DEF SchedSwitch
<1>3. TaskType /\ TickType /\ Ticks /\ TypeOK
  BY TypeParts DEF IInv
<1>4. KickType'
  BY WakeFlags DEF SchedSwitch, KickType
<1>5. /\ next \in AllTasks /\ next # prev /\ next # NoTask /\ tstate[next] = "READY"
      /\ \A d \in CPUs : running_task[d] # next /\ switching_task[d] # next
  BY <1>3, CandidateFree
<1>6. /\ tstate' \in [AllTasks -> TStates]
      /\ \A t \in AllTasks : tstate'[t] = "FREED" => tstate[t] = "FREED"
  BY <1>1, <1>3, SwitchStatesKeep
<1>7. /\ Ownership' /\ CpuType'
      /\ running_cpu' \in [AllTasks -> -(NCpus + 1) .. NCpus - 1]
  BY <1>1, <1>5, <1>6, SwitchOutOwnership
<1>8. TaskType'
  BY <1>2, <1>3, <1>6, <1>7 DEF TaskType
<1>9. TickType'
  BY <1>1, <1>2, <1>3 DEF TickType
<1>10. Moves(c, "kick")
  BY <1>1, <1>2, AfterSchedLabel, ThenKickMoves DEF SwitchOut
<1>11. \A d \in CPUs : d # c => running_task'[d] = running_task[d]
  BY <1>1, <1>3 DEF SwitchOut, TypeOK
<1>12. QuietTick(c, "kick")
  BY <1>1, <1>2, <1>10, <1>11 DEF QuietTick
<1>13. QED
  BY <1>3, <1>4, <1>7, <1>8, <1>9, <1>10, <1>12, QuietTicks, TypePartsNext DEF IInv, PcType, Moves

LEMMA SchedIdleKept == ASSUME IInv, NEW c \in CPUs, SchedIdle(c) PROVE IInv'
<1> DEFINE prev == running_task[c]
<1>1. /\ pc[c].at = "sched" /\ pc \in [CPUs -> PCs]
      /\ tstate' = SwitchStates(prev, NoTask)
      /\ SwitchOut(c, NoTask)
      /\ UNCHANGED <<mode, pending, affinity>> /\ UNCHANGED tickVars
  BY InvPc DEF SchedIdle
<1>2. prev # NoTask
  BY DEF SchedIdle, MustSwitch, requires_schedule, Migrate
<1>3. TaskType /\ TickType /\ Ticks /\ TypeOK
  BY TypeParts DEF IInv
<1>4. KickType'
  BY WakeFlags DEF SchedIdle, KickType
<1>5. /\ tstate' \in [AllTasks -> TStates]
      /\ \A t \in AllTasks : tstate'[t] = "FREED" => tstate[t] = "FREED"
  BY <1>1, <1>3, SwitchStatesKeep
<1>6. /\ Ownership' /\ CpuType'
      /\ running_cpu' \in [AllTasks -> -(NCpus + 1) .. NCpus - 1]
  BY <1>1, <1>2, <1>5, SwitchOutOwnership
<1>7. TaskType' /\ TickType'
  BY <1>1, <1>3, <1>5, <1>6, TickTypeKept DEF TaskType
<1>8. Moves(c, "kick")
  BY <1>1, AfterSchedLabel, ThenKickMoves DEF SwitchOut
<1>9. \A d \in CPUs : d # c => running_task'[d] = running_task[d]
  BY <1>1, <1>3 DEF SwitchOut, TypeOK
<1>10. QuietTick(c, "kick")
  BY <1>1, <1>8, <1>9 DEF QuietTick, tickVars
<1>11. QED
  BY <1>3, <1>4, <1>6, <1>7, <1>8, <1>10, QuietTicks, TypePartsNext DEF IInv, PcType, Moves

LEMMA InterruptReturnKept == ASSUME IInv, NEW c \in CPUs, InterruptReturn(c) PROVE IInv'
<1>1. /\ pc[c].at = "ret" /\ pc \in [CPUs -> PCs]
      /\ switching_task' = [switching_task EXCEPT
                              ![c] = IF stack[c] # running_task[c] THEN NoTask ELSE @]
      /\ stack' = [stack EXCEPT ![c] = running_task[c]]
      /\ running_task' = running_task
      /\ UNCHANGED taskVars /\ UNCHANGED kickVars /\ UNCHANGED tickVars
  BY InvPc DEF InterruptReturn
<1>2. TaskType /\ CpuType /\ KickType /\ TickType /\ Ownership /\ Ticks
  BY TypeParts DEF IInv
<1>3. CpuType'
  BY <1>1, <1>2 DEF CpuType
<1>4. /\ stack'[c] = running_task[c]
      /\ \A d \in CPUs : d # c => stack'[d] = stack[d] /\ switching_task'[d] = switching_task[d]
      /\ switching_task'[c] = IF stack[c] # running_task[c] THEN NoTask ELSE switching_task[c]
  BY <1>1, <1>2 DEF CpuType
<1>5. \A d \in CPUs : switching_task'[d] \in {NoTask, switching_task[d]}
  BY <1>4
<1>6. OwnerExact'
  BY <1>1, <1>2 DEF Ownership, OwnerExact, taskVars
<1>7. StacksCovered'
  <2>1. ASSUME NEW d \in CPUs, stack'[d] # NoTask
        PROVE  /\ stack'[d] = running_task[d] => switching_task'[d] = NoTask
               /\ stack'[d] # running_task[d] => switching_task'[d] = stack'[d]
    BY <1>2, <1>4, <2>1 DEF Ownership, StacksCovered
  <2>2. QED
    BY <1>1, <2>1 DEF StacksCovered, CPUs
<1>8. SwitchingExclusive'
  BY <1>1, <1>2, <1>5 DEF Ownership, SwitchingExclusive
<1>9. NoFreedStack'
  <2>1. ASSUME NEW d \in CPUs, NEW t \in Tasks, tstate[t] = "FREED"
        PROVE  t # stack'[d] /\ t # running_task[d] /\ t # switching_task'[d]
    <3>1. t # NoTask /\ \A e \in CPUs : t # stack[e] /\ t # running_task[e] /\ t # switching_task[e]
      BY <1>2, <2>1, TasksAssumption DEF Ownership, NoFreedStack
    <3>2. QED
      BY <1>4, <1>5, <3>1
  <2>2. QED
    BY <1>1, <2>1 DEF NoFreedStack, CPUs, taskVars
<1>10. Moves(c, "run")
  BY <1>1, ResumeMoves DEF InterruptReturn
<1>11. QuietTick(c, "run")
  BY <1>1, <1>10 DEF QuietTick, tickVars
<1>12. TaskType' /\ KickType' /\ TickType'
  BY <1>1, <1>2, TaskTypeKept, KickTypeKept, TickTypeKept
<1>13. Ticks'
  BY <1>2, <1>11, QuietTicks
<1>14. QED
  BY <1>3, <1>6, <1>7, <1>8, <1>9, <1>10, <1>12, <1>13, TypePartsNext
  DEF IInv, Ownership, PcType, Moves

(* reap_dead_tasks: a task that no CPU runs or leaves is under no stack. *)
LEMMA ReapKept == ASSUME IInv, NEW u \in Tasks, Reap(u) PROVE IInv'
<1>1. /\ tstate' = [tstate EXCEPT ![u] = "FREED"]
      /\ running_cpu' = [running_cpu EXCEPT ![u] = -1]
      /\ mode' = [mode EXCEPT ![u] = "user"]
      /\ pending' = [pending EXCEPT ![u] = {}]
      /\ affinity' = affinity /\ pc' = pc
      /\ UNCHANGED cpuVars /\ UNCHANGED kickVars /\ UNCHANGED tickVars
  BY DEF Reap
<1>2. TaskType /\ CpuType /\ KickType /\ TickType /\ PcType /\ Ownership /\ Ticks
  BY TypeParts DEF IInv
<1>3. u \in AllTasks /\ u # NoTask
  BY TasksAssumption DEF AllTasks
<1>4. \A c \in CPUs : running_task[c] # u /\ switching_task[c] # u
  BY DEF Reap, task_is_current_on_any_cpu
<1>5. \A c \in CPUs : stack[c] # u
  BY <1>2, <1>3, <1>4 DEF Ownership, StacksCovered
<1>6. TaskType'
  <2>1. -1 \in -(NCpus + 1) .. NCpus - 1
    BY NCpusAssumption, SMT
  <2>2. QED
    BY <1>1, <1>2, <1>3, <2>1 DEF TaskType, TStates
<1>7. CpuType' /\ KickType' /\ TickType' /\ PcType'
  BY <1>1, <1>2, CpuTypeKept, KickTypeKept, TickTypeKept DEF PcType
<1>8. OwnerExact'
  <2>1. ASSUME NEW t \in AllTasks, NEW d \in CPUs
        PROVE  (running_cpu'[t] = d) <=> (running_task[d] = t)
    <3>1. (running_cpu[t] = d) <=> (running_task[d] = t)
      BY <1>2 DEF Ownership, OwnerExact
    <3>2. CASE t = u
      <4>1. running_cpu'[t] = -1 /\ d # -1
        BY <1>1, <1>2, <1>3, <3>2, SMT DEF TaskType, CPUs
      <4>2. QED
        BY <1>4, <3>2, <4>1
    <3>3. CASE t # u
      BY <1>1, <1>2, <3>1, <3>3 DEF TaskType
    <3>4. QED
      BY <3>2, <3>3
  <2>2. QED
    BY <1>1, <2>1 DEF OwnerExact, CPUs, cpuVars
<1>9. StacksCovered' /\ SwitchingExclusive'
  BY <1>1, <1>2 DEF Ownership, StacksCovered, SwitchingExclusive, cpuVars
<1>10. NoFreedStack'
  <2>1. ASSUME NEW c \in CPUs, NEW t \in Tasks, tstate'[t] = "FREED"
        PROVE  t # stack[c] /\ t # running_task[c] /\ t # switching_task[c]
    <3>1. CASE t = u
      BY <1>4, <1>5, <3>1
    <3>2. CASE t # u
      BY <1>1, <1>2, <2>1, <3>2 DEF Ownership, NoFreedStack, TaskType, AllTasks
    <3>3. QED
      BY <3>1, <3>2
  <2>2. QED
    BY <1>1, <2>1 DEF NoFreedStack, CPUs, cpuVars
<1>11. Ticks'
  BY <1>1, <1>2 DEF Ticks, StoppedIdle, BspTicks, BspToldOfRestart, cpuVars, tickVars, APs, CPUs,
        BSP
<1>12. QED
  BY <1>6, <1>7, <1>8, <1>9, <1>10, <1>11, TypePartsNext DEF IInv, Ownership

-----------------------------------------------------------------------------
(***************************************************************************)
(* The steps of tasks                                                      *)
(***************************************************************************)

(* What a task's step may change: states, except to FREED, modes, signals, *)
(* masks and the flags of a kick, on its way to another label.             *)
LEMMA TaskStepFrom ==
    ASSUME IInv, NEW c \in CPUs, NEW t \in Tasks, pc[c].at = "run", running_task[c] = t,
           NEW STATE at, at \in {"run", "kick", "sched", "deliver"}, Moves(c, at),
           tstate' \in [AllTasks -> TStates],
           \A u \in AllTasks : tstate'[u] = "FREED" => tstate[u] = "FREED",
           running_cpu' = running_cpu,
           mode' \in [AllTasks -> {"user", "syscall", "fault", "kernel"}],
           pending' \in [AllTasks -> SUBSET Signals],
           affinity' \in [AllTasks -> SUBSET CPUs],
           KickType', UNCHANGED <<cpuVars, tickVars>>
    PROVE  IInv'
<1>1. TaskType'
  BY TypeParts DEF IInv, TaskType
<1>2. running_task[c] # NoTask
  BY TasksAssumption
<1>3. QED
  BY <1>1, <1>2, TaskChange

(* The facts a step that leaves a variable alone takes from the invariant. *)
LEMMA TaskFacts ==
    ASSUME IInv
    PROVE  /\ tstate \in [AllTasks -> TStates]
           /\ running_cpu \in [AllTasks -> -(NCpus + 1) .. NCpus - 1]
           /\ mode \in [AllTasks -> {"user", "syscall", "fault", "kernel"}]
           /\ pending \in [AllTasks -> SUBSET Signals]
           /\ affinity \in [AllTasks -> SUBSET CPUs]
           /\ KickType /\ pc \in [CPUs -> PCs] /\ TypeOK
           /\ Tasks \subseteq AllTasks
BY TypeParts, InvPc DEF IInv, TaskType, AllTasks

LEMMA ScheduleKept ==
    ASSUME IInv, NEW c \in CPUs, NEW t \in Tasks, Schedule(c, t) PROVE IInv'
<1> DEFINE r == [at |-> "sched", irq |-> "int48", then |-> "run", i |-> 0]
<1>1. r \in PCs
  BY NCpusAssumption, SMT DEF PCs
<1>2. Moves(c, "sched")
  BY <1>1, TaskFacts DEF Moves, Schedule
<1>3. KickType'
  BY TaskFacts, KickTypeKept DEF Schedule
<1>4. pc[c].at = "run" /\ running_task[c] # NoTask /\ UNCHANGED <<taskVars, cpuVars, tickVars>>
  BY TasksAssumption DEF Schedule
<1>5. QED
  BY <1>2, <1>3, <1>4, PlainStep

LEMMA EnterKernelKept ==
    ASSUME IInv, NEW c \in CPUs, NEW t \in Tasks, Executes(c, t), EnterKernel(c, t) PROVE IInv'
<1>1. pc[c].at = "run" /\ running_task[c] = t /\ pc' = pc
  BY DEF Executes, EnterKernel
<1>2. Moves(c, "run")
  BY <1>1, TaskFacts DEF Moves
<1>3. mode' \in [AllTasks -> {"user", "syscall", "fault", "kernel"}]
  BY TaskFacts, EntriesAssumption DEF EnterKernel
<1>4. KickType'
  BY TaskFacts, KickTypeKept DEF EnterKernel
<1>5. QED
  BY <1>1, <1>2, <1>3, <1>4, TaskFacts, TaskStepFrom DEF EnterKernel

LEMMA LeaveKernelKept ==
    ASSUME IInv, NEW c \in CPUs, NEW t \in Tasks, Executes(c, t), LeaveKernel(c, t) PROVE IInv'
<1> DEFINE r == [at |-> "deliver", irq |-> "exit", then |-> "run", i |-> 0]
<1>1. pc[c].at = "run" /\ running_task[c] = t
  BY DEF Executes
<1>2. \E at \in {"run", "deliver"} : Moves(c, at)
  <2>1. r \in PCs
    BY NCpusAssumption, SMT DEF PCs
  <2>2. CASE mode[t] = "syscall"
    BY <2>1, <2>2, TaskFacts, SMT DEF Moves, LeaveKernel
  <2>3. CASE mode[t] # "syscall"
    BY <1>1, <2>3, TaskFacts, SMT DEF LeaveKernel, Moves
  <2>4. QED
    BY <2>2, <2>3
<1>3. PICK at \in {"run", "deliver"} : Moves(c, at)
  BY <1>2
<1>4. mode' \in [AllTasks -> {"user", "syscall", "fault", "kernel"}]
  BY TaskFacts DEF LeaveKernel
<1>5. KickType'
  BY TaskFacts, KickTypeKept DEF LeaveKernel
<1>6. QED
  BY <1>1, <1>3, <1>4, <1>5, TaskFacts, TaskStepFrom DEF LeaveKernel

(* The remaining calls end with task_kick_idle_cpus. *)
LEMMA CallFrom ==
    ASSUME IInv, NEW c \in CPUs, NEW t \in Tasks, Executes(c, t), ThenKick(c, "run"),
           tstate' \in [AllTasks -> TStates],
           \A u \in AllTasks : tstate'[u] = "FREED" => tstate[u] = "FREED",
           running_cpu' = running_cpu, mode' = mode,
           pending' \in [AllTasks -> SUBSET Signals],
           affinity' \in [AllTasks -> SUBSET CPUs],
           KickType', UNCHANGED <<cpuVars, tickVars>>
    PROVE  IInv'
<1>1. pc[c].at = "run" /\ running_task[c] = t
  BY DEF Executes
<1>2. Moves(c, "kick")
  BY TaskFacts, ThenKickMoves DEF Thens
<1>3. mode' \in [AllTasks -> {"user", "syscall", "fault", "kernel"}]
  BY TaskFacts
<1>4. QED
  BY <1>1, <1>2, <1>3, TaskStepFrom

LEMMA BlockKept ==
    ASSUME IInv, NEW c \in CPUs, NEW t \in Tasks, Executes(c, t), Block(c, t) PROVE IInv'
<1>1. /\ tstate' \in [AllTasks -> TStates]
      /\ \A u \in AllTasks : tstate'[u] = "FREED" => tstate[u] = "FREED"
  BY TaskFacts DEF Block, TStates
<1>2. KickType'
  BY TaskFacts, KickTypeKept DEF Block
<1>3. QED
  BY <1>1, <1>2, TaskFacts, CallFrom DEF Block

LEMMA ExitKept ==
    ASSUME IInv, NEW c \in CPUs, NEW t \in Tasks, Executes(c, t), Exit(c, t) PROVE IInv'
<1>1. PICK w \in Sleepers \cup {NoTask} : /\ tstate' = [Woken(w) EXCEPT ![t] = "DEAD"]
                                          /\ SetWakePending(KicksFor(w, c, {}))
  BY DEF Exit
<1>2. w \in Tasks \cup {NoTask} /\ "DEAD" \in TStates \ {"FREED"}
  BY SleepersAreTasks DEF TStates
<1>3. /\ tstate' \in [AllTasks -> TStates]
      /\ \A u \in AllTasks : tstate'[u] = "FREED" => tstate[u] = "FREED"
  BY <1>1, <1>2, TaskFacts, WokenThenKeeps
<1>4. KickType'
  BY <1>1, WakeFlags DEF KickType
<1>5. QED
  BY <1>3, <1>4, TaskFacts, CallFrom DEF Exit

LEMMA WakeTaskKept ==
    ASSUME IInv, NEW c \in CPUs, NEW t \in Tasks, NEW u \in Tasks, Executes(c, t),
           WakeTask(c, t, u)
    PROVE  IInv'
<1>1. /\ tstate' \in [AllTasks -> TStates]
      /\ \A v \in AllTasks : tstate'[v] = "FREED" => tstate[v] = "FREED"
  BY TaskFacts, WokenKeeps DEF WakeTask
<1>2. KickType'
  BY WakeFlags DEF WakeTask, KickType
<1>3. QED
  BY <1>1, <1>2, TaskFacts, CallFrom DEF WakeTask

(* deliver_signal_to_task and task_kill wake u or leave the tasks alone. *)
LEMMA WakesOrNot ==
    ASSUME IInv, NEW c \in CPUs, NEW u \in Tasks,
           \/ tstate' = Woken(u) /\ SetWakePending(MarkReadyKicks(u, c, {}))
           \/ UNCHANGED <<tstate, kickVars>>
    PROVE  /\ tstate' \in [AllTasks -> TStates]
           /\ \A v \in AllTasks : tstate'[v] = "FREED" => tstate[v] = "FREED"
           /\ KickType'
<1>1. CASE tstate' = Woken(u) /\ SetWakePending(MarkReadyKicks(u, c, {}))
  BY <1>1, TaskFacts, WokenKeeps, WakeFlags DEF KickType
<1>2. CASE UNCHANGED <<tstate, kickVars>>
  BY <1>2, TaskFacts, KickTypeKept
<1>3. QED
  BY <1>1, <1>2

LEMMA SendSignalKept ==
    ASSUME IInv, NEW c \in CPUs, NEW t \in Tasks, NEW u \in Tasks, NEW sig \in Signals,
           Executes(c, t), SendSignal(c, t, u, sig)
    PROVE  IInv'
<1>1. /\ tstate' \in [AllTasks -> TStates]
      /\ \A v \in AllTasks : tstate'[v] = "FREED" => tstate[v] = "FREED"
      /\ KickType'
  BY WakesOrNot DEF SendSignal
<1>2. pending' \in [AllTasks -> SUBSET Signals]
  BY TaskFacts DEF SendSignal
<1>3. QED
  BY <1>1, <1>2, TaskFacts, CallFrom DEF SendSignal

LEMMA ContinueKept ==
    ASSUME IInv, NEW c \in CPUs, NEW t \in Tasks, NEW u \in Tasks, Executes(c, t),
           Continue(c, t, u)
    PROVE  IInv'
<1>1. PICK w \in Sleepers \cup {NoTask} :
        tstate' = [Woken(w) EXCEPT ![u] = IF tstate[u] = "STOPPED" THEN "READY" ELSE @]
  BY DEF Continue
<1>2. w \in Tasks \cup {NoTask} /\ u \in AllTasks
  BY SleepersAreTasks, TaskFacts
<1>3. /\ Woken(w) \in [AllTasks -> TStates]
      /\ \A v \in AllTasks : Woken(w)[v] = "FREED" => tstate[v] = "FREED"
  BY <1>2, TaskFacts, WokenKeeps
<1>4. /\ tstate' \in [AllTasks -> TStates]
      /\ \A v \in AllTasks : tstate'[v] = "FREED" => tstate[v] = "FREED"
  BY <1>1, <1>2, <1>3 DEF TStates
<1>5. KickType'
  BY WakeFlags DEF Continue, KickType
<1>6. pending' \in [AllTasks -> SUBSET Signals]
  BY TaskFacts DEF Continue
<1>7. QED
  BY <1>4, <1>5, <1>6, TaskFacts, CallFrom DEF Continue

LEMMA KillKept ==
    ASSUME IInv, NEW c \in CPUs, NEW t \in Tasks, NEW u \in Tasks, Executes(c, t),
           Kill(c, t, u)
    PROVE  IInv'
<1>1. CASE /\ pending' = [pending EXCEPT ![u] = @ \cup {"exit"}]
           /\ \/ tstate' = Woken(u) /\ SetWakePending(MarkReadyKicks(u, c, {}))
              \/ UNCHANGED <<tstate, kickVars>>
  <2>1. /\ tstate' \in [AllTasks -> TStates]
        /\ \A v \in AllTasks : tstate'[v] = "FREED" => tstate[v] = "FREED"
        /\ KickType'
    BY <1>1, WakesOrNot
  <2>2. pending' \in [AllTasks -> SUBSET Signals]
    BY <1>1, TaskFacts DEF Kill
  <2>3. QED
    BY <2>1, <2>2, TaskFacts, CallFrom DEF Kill
<1>2. ASSUME NEW w \in (Sleepers \ {u}) \cup {NoTask},
             tstate' = [Woken(w) EXCEPT ![u] = "DEAD"],
             SetWakePending(KicksFor(w, c, {})), pending' = pending
      PROVE  IInv'
  <2>1. w \in Tasks \cup {NoTask} /\ "DEAD" \in TStates \ {"FREED"}
    BY SleepersAreTasks DEF TStates
  <2>2. /\ tstate' \in [AllTasks -> TStates]
        /\ \A v \in AllTasks : tstate'[v] = "FREED" => tstate[v] = "FREED"
    BY <1>2, <2>1, TaskFacts, WokenThenKeeps
  <2>3. KickType'
    BY <1>2, WakeFlags DEF KickType
  <2>4. QED
    BY <1>2, <2>2, <2>3, TaskFacts, CallFrom DEF Kill
<1>3. QED
  BY <1>1, <1>2 DEF Kill

LEMMA SetAffinityKept ==
    ASSUME IInv, NEW c \in CPUs, NEW t \in Tasks, NEW u \in Tasks, Executes(c, t),
           SetAffinity(c, t, u)
    PROVE  IInv'
<1>1. affinity' \in [AllTasks -> SUBSET CPUs]
  BY TaskFacts, AffinitiesAssumption DEF SetAffinity
<1>2. KickType'
  BY TaskFacts, KickTypeKept DEF SetAffinity
<1>3. QED
  BY <1>1, <1>2, TaskFacts, CallFrom DEF SetAffinity

LEMMA ForkKept ==
    ASSUME IInv, NEW c \in CPUs, NEW t \in Tasks, NEW u \in Tasks, Executes(c, t),
           Fork(c, t, u)
    PROVE  IInv'
<1>1. /\ tstate' \in [AllTasks -> TStates]
      /\ \A v \in AllTasks : tstate'[v] = "FREED" => tstate[v] = "FREED"
  BY TaskFacts DEF Fork, TStates
<1>2. affinity' \in [AllTasks -> SUBSET CPUs]
  BY TaskFacts DEF Fork
<1>3. KickType'
  BY TaskFacts, KickTypeKept DEF Fork
<1>4. QED
  BY <1>1, <1>2, <1>3, TaskFacts, CallFrom DEF Fork

-----------------------------------------------------------------------------
(***************************************************************************)
(* The invariant and what follows from it                                  *)
(***************************************************************************)

LEMMA InitIInv == Init => IInv
<1> SUFFICES ASSUME Init PROVE IInv
  OBVIOUS
<1>1. TypeOK
  <2>1. BSP \in -(NCpus + 1) .. NCpus - 1 /\ -1 \in -(NCpus + 1) .. NCpus - 1
    BY NCpusAssumption, SMT DEF BSP
  <2>2. running_cpu \in [AllTasks -> -(NCpus + 1) .. NCpus - 1]
    BY <2>1 DEF Init
  <2>3. tstate \in [AllTasks -> TStates]
    <3>1. \A t \in AllTasks : tstate[t] \in {"RUNNING", "READY", "NEW"}
      BY DEF Init
    <3>2. QED
      BY <3>1 DEF Init, TStates
  <2>4. TaskType
    BY <2>2, <2>3 DEF Init, TaskType
  <2>5. CpuType
    BY DEF Init, CpuType, AllTasks
  <2>6. KickType /\ TickType /\ PcType
    BY RunningType DEF Init, KickType, TickType, PcType
  <2>7. QED
    BY <2>4, <2>5, <2>6, TypeParts
<1>2. OwnerExact
  BY NCpusAssumption, TasksAssumption, SMT DEF Init, OwnerExact, AllTasks, CPUs, BSP
<1>3. StacksCovered /\ SwitchingExclusive /\ NoFreedStack
  BY TasksAssumption DEF Init, StacksCovered, SwitchingExclusive, NoFreedStack, AllTasks
<1>4. Ticks
  BY ZeroCpu DEF Init, Ticks, StoppedIdle, BspTicks, BspToldOfRestart, Running, APs
<1>5. QED
  BY <1>1, <1>2, <1>3, <1>4 DEF IInv, Ownership

LEMMA HandlerStepKept == ASSUME IInv, NEW c \in CPUs, HandlerStep(c) PROVE IInv'
BY KickTakeKept, KickCpuKept, RestartNotifyKept, HandleTickKept, SchedKeepKept, SchedNoneKept,
   SchedSwitchKept, SchedIdleKept, SchedPanicKept, InterruptReturnKept, DeliverKept,
   TickStopKept, TickCheckKept, TickOffKept, TickStretchKept, TickRecheckKept
DEF HandlerStep

LEMMA TaskStepKept == ASSUME IInv, NEW c \in CPUs, NEW t \in Tasks, TaskStep(c, t) PROVE IInv'
BY ScheduleKept, EnterKernelKept, LeaveKernelKept, BlockKept, ExitKept, WakeTaskKept,
   ContinueKept, KillKept, SetAffinityKept, ForkKept, SendSignalKept
DEF TaskStep

LEMMA InterruptKept ==
    ASSUME IInv, NEW c \in CPUs, TimerInterrupt(c) \/ EarlyInterrupt(c) \/ WakeInterrupt(c)
    PROVE  IInv'
BY InterruptEntryKept DEF TimerInterrupt, EarlyInterrupt, WakeInterrupt

LEMMA NextIInv == IInv /\ [Next]_vars => IInv'
<1> SUFFICES ASSUME IInv, [Next]_vars PROVE IInv'
  OBVIOUS
<1>1. CASE UNCHANGED vars
  <2>1. /\ UNCHANGED taskVars /\ UNCHANGED cpuVars /\ UNCHANGED kickVars
        /\ UNCHANGED tickVars /\ pc' = pc
    BY <1>1 DEF vars
  <2>2. TickType' /\ PcType'
    BY <2>1, TypeParts, TickTypeKept DEF IInv, PcType
  <2>3. Ticks'
    BY <2>1 DEF IInv, Ticks, StoppedIdle, BspTicks, BspToldOfRestart, cpuVars, tickVars,
                APs, CPUs, BSP
  <2>4. QED
    BY <2>1, <2>2, <2>3, TickStep
<1>2. ASSUME NEW c \in CPUs, HandlerStep(c) PROVE IInv'
  BY <1>2, HandlerStepKept
<1>3. ASSUME NEW c \in CPUs, NEW t \in Tasks, TaskStep(c, t) PROVE IInv'
  BY <1>3, TaskStepKept
<1>4. ASSUME NEW c \in CPUs, TimerInterrupt(c) \/ EarlyInterrupt(c) \/ WakeInterrupt(c)
      PROVE  IInv'
  BY <1>4, InterruptKept
<1>5. ASSUME NEW c \in CPUs, WakeSleeper(c) \/ TickIdle(c) PROVE IInv'
  BY <1>5, WakeSleeperKept, TickIdleKept
<1>6. ASSUME NEW u \in Tasks, Reap(u) PROVE IInv'
  BY <1>6, ReapKept
<1>7. QED
  BY <1>1, <1>2, <1>3, <1>4, <1>5, <1>6 DEF Next

(* The invariant holds in every reachable state. *)
THEOREM Invariance == Spec => []IInv
BY InitIInv, NextIInv, PTL DEF Spec

(* Every variable of the scheduler has its type: in particular a task's    *)
(* running_cpu is a CPU, -1 or the reservation of a CPU, and the loop of   *)
(* task_kick_idle_cpus stays inside the table of CPUs.                     *)
THEOREM TypeCorrect == Spec => []TypeOK
<1>1. IInv => TypeOK
  BY DEF IInv
<1>2. QED
  BY <1>1, Invariance, PTL

(* running_cpu and running_task name each other (task_set_current and      *)
(* task_release_from_cpu), for any number of CPUs and tasks.               *)
THEOREM OwnersAgree == Spec => []OwnerExact
<1>1. IInv => OwnerExact
  BY DEF IInv, Ownership
<1>2. QED
  BY <1>1, Invariance, PTL

(* No two CPUs execute on one kernel stack, however often an interrupt     *)
(* switches before isr_common_stub leaves the stack it came in on.         *)
THEOREM StacksExclusive == Spec => []StackExclusive
<1>1. IInv => StackExclusive
  <2> SUFFICES ASSUME IInv, NEW c \in CPUs, NEW d \in CPUs, c # d, stack[c] # NoTask
               PROVE  stack[d] # stack[c] /\ running_task[d] # stack[c]
    BY DEF StackExclusive
  <2>1. CpuType /\ OwnerExact /\ StacksCovered /\ SwitchingExclusive
    BY TypeParts DEF IInv, Ownership
  <2>2. stack[c] \in AllTasks
    BY <2>1 DEF CpuType
  <2>3. stack[c] \in {running_task[c], switching_task[c]}
    BY <2>1 DEF StacksCovered
  <2>4. running_task[d] # stack[c] /\ switching_task[d] # stack[c]
    <3>1. CASE stack[c] = running_task[c]
      BY <2>1, <2>2, <3>1, SMT DEF OwnerExact, SwitchingExclusive
    <3>2. CASE stack[c] = switching_task[c]
      BY <2>1, <3>2 DEF SwitchingExclusive
    <3>3. QED
      BY <2>3, <3>1, <3>2
  <2>5. stack[d] # NoTask => stack[d] \in {running_task[d], switching_task[d]}
    BY <2>1 DEF StacksCovered
  <2>6. QED
    BY <2>4, <2>5
<1>2. QED
  BY <1>1, Invariance, PTL

(* reap_dead_tasks frees no stack that a CPU is on or has still to leave. *)
THEOREM StacksNotFreed == Spec => []NoFreedStack
<1>1. IInv => NoFreedStack
  BY DEF IInv, Ownership
<1>2. QED
  BY <1>1, Invariance, PTL

(* An AP that runs a task has its timer and has not announced a stopped    *)
(* tick (task_cpu_tick_stop against smp_tick_restart).                     *)
THEOREM TicksWithTasks == Spec => []TickRunsWithTask
<1>1. IInv => TickRunsWithTask
  BY TypeParts DEF IInv, Ticks, StoppedIdle, TickRunsWithTask
<1>2. QED
  BY <1>1, Invariance, PTL

(* The BSP does not stay stretched unnoticed when an AP restarts its tick  *)
(* (smp_tick_restart against smp_tick_idle).                               *)
THEOREM BspTold == Spec => []BspToldOfRestart
<1>1. IInv => BspToldOfRestart
  BY DEF IInv, Ticks
<1>2. QED
  BY <1>1, Invariance, PTL
-----------------------------------------------------------------------------
(***************************************************************************)
(* No READY task is forgotten                                              *)
(*                                                                         *)
(* A CPU is dormant from the moment it has decided, under sched_lock, that *)
(* it has no work until an interrupt ends its sleep.  What makes the       *)
(* wake-ups work is that a task which becomes READY for a dormant CPU      *)
(* flags it (ReservedDue), that the last AP to go dormant has looked at    *)
(* every READY task, as has the BSP (ReadyDue), and that a flag leads to   *)
(* an IPI: whoever sets one calls task_kick_idle_cpus (KickOwed).          *)
(***************************************************************************)

(* CPU c is on the stack of its running task: it is not inside a switch. *)
Settled(c) ==
    \/ pc[c].at \in {"run", "halt", "stretch", "recheck", "restart", "tick"}
    \/ pc[c].at \in {"kick", "kickcpu"} /\ pc[c].then \in {"run", "tick"}
SettledOnStack == \A c \in CPUs : Settled(c) => stack[c] = running_task[c]

(* Only the idle task halts the BSP. *)
BspIdles == pc[BSP].at \in {"halt", "stretch", "recheck"} => running_task[BSP] = Idle

(* A task that was not forked yet is nowhere. *)
NewNowhere ==
    \A t \in Tasks : tstate[t] = "NEW" =>
        running_cpu[t] = -1 /\ \A c \in CPUs : switching_task[c] # t

(* The task that a CPU is leaving is free or reserved for that CPU. *)
SwitchingReleased ==
    \A c \in CPUs, t \in AllTasks :
        switching_task[c] = t => running_cpu[t] \in {-1, Reserved(c)}

Places == SettledOnStack /\ BspIdles /\ NewNowhere /\ SwitchingReleased

(* A wake_pending flag is seen by a CPU that is in task_kick_idle_cpus or  *)
(* about to enter it.                                                      *)
KickOwed ==
    /\ idle_wake_pending => \E d \in CPUs : pc[d].at = "kick"
    /\ \A c \in CPUs : wake_pending[c] =>
         idle_wake_pending \/ \E d \in CPUs : pc[d].at = "kickcpu" /\ pc[d].i <= c
    /\ \A d \in CPUs : pc[d].at # "kickcpu" => pc[d].i = 0

Dormant(c) ==
    IF c = BSP THEN \/ pc[c].at \in {"stretch", "recheck"}
                    \/ pc[c].at = "halt" /\ bsp_stretched
               ELSE tick_stopped[c] /\ pc[c].at # "tickcheck"
Flagged(c) == wake_ipi[c] \/ wake_pending[c]

(* A dormant CPU is flagged when a READY task is reserved for it. *)
ReservedDue ==
    \A t \in Tasks, c \in CPUs :
        tstate[t] = "READY" /\ running_cpu[t] = Reserved(c) /\ t \notin overlooked /\ Dormant(c)
            => Flagged(c)

(* When all APs are dormant, a READY task that is free has flagged one of  *)
(* them, or the BSP has still to look and will find it.                    *)
FreeDue(t) ==
    \/ \E c \in APs : Flagged(c)
    \/ ~Dormant(BSP) /\ \A c \in APs : switching_task[c] # t
ReadyDue ==
    \A t \in Tasks :
        /\ tstate[t] = "READY" /\ running_cpu[t] = -1 /\ t \notin overlooked
        /\ \A c \in APs : Dormant(c)
        => FreeDue(t)

(* No task is confined to some CPUs. *)
AnyCpu == Affinities \subseteq {CPUs}
FullMasks == \A t \in Tasks : affinity[t] = CPUs

Due == Places /\ KickOwed /\ ReservedDue /\ (AnyCpu => FullMasks /\ ReadyDue)

(* Which CPU a reservation is for. *)
LEMMA ReservedOne ==
    ASSUME NEW c \in CPUs, NEW d \in CPUs
    PROVE  Reserved(c) # -1 /\ Reserved(c) # d /\ (Reserved(c) = Reserved(d) => c = d)
BY ZeroCpu, SMT DEF Reserved, CPUs

WF == INSTANCE WellFoundedInduction

(* The first CPU of a set is one of the set. *)
LEMMA FirstCpu ==
    ASSUME NEW S, S \subseteq CPUs, S # {}
    PROVE  Min(S) \in S
<1> DEFINE less == WF!OpToRel(<, Nat)
<1>1. WF!IsWellFoundedOn(less, Nat)
  BY WF!NatLessThanWellFounded
<1>2. S \subseteq Nat
  BY NCpusAssumption, SMT DEF CPUs
<1> HIDE DEF less
<1>3. PICK x \in S : \A y \in S : <<y, x>> \notin less
  BY <1>1, <1>2, WF!WFMin
<1>4. \A y \in S : <<y, x>> \in less <=> y < x
  BY <1>2, SMT DEF less, WF!OpToRel
<1>5. \A y \in S : ~(y < x)
  BY <1>3, <1>4
<1>6. \A y \in S : x <= y
  BY <1>2, <1>5, SMT
<1> QED
  BY <1>6 DEF Min

-----------------------------------------------------------------------------
(***************************************************************************)
(* What keeps each part                                                    *)
(***************************************************************************)

(* A step of CPU c that switches no task. *)
LEMMA PlacesKept ==
    ASSUME Places, NEW c \in CPUs, NEW STATE at, Moves(c, at),
           running_cpu' = running_cpu, UNCHANGED cpuVars,
           Settled(c)' => Settled(c),
           at \in {"halt", "stretch", "recheck"} => running_task[c] = Idle,
           \A t \in Tasks : tstate'[t] = "NEW" => tstate[t] = "NEW"
    PROVE  Places'
<1>1. SettledOnStack'
  <2> SUFFICES ASSUME NEW d \in CPUs, Settled(d)' PROVE stack'[d] = running_task'[d]
    BY DEF SettledOnStack, CPUs
  <2>1. Settled(d)
    BY DEF Settled, Moves
  <2> QED
    BY <2>1 DEF Places, SettledOnStack, cpuVars
<1>2. BspIdles'
  BY ZeroCpu DEF Places, BspIdles, Moves, cpuVars, BSP
<1>3. NewNowhere' /\ SwitchingReleased'
  BY DEF Places, NewNowhere, SwitchingReleased, cpuVars, Reserved
<1> QED
  BY <1>1, <1>2, <1>3 DEF Places

(* A step of CPU c outside task_kick_idle_cpus leaves the flags alone, or  *)
(* sets some on its way there.                                             *)
KicksAdded ==
    /\ \A d \in CPUs : wake_pending[d] => wake_pending'[d]
    /\ \A d \in CPUs : wake_pending'[d] => wake_pending[d] \/ idle_wake_pending'
    /\ idle_wake_pending => idle_wake_pending'

LEMMA KickOwedKept ==
    ASSUME KickOwed, NEW c \in CPUs, NEW STATE at, Moves(c, at), pc'[c].i = 0,
           pc[c].at \notin {"kick", "kickcpu"}, at # "kickcpu",
           UNCHANGED kickVars \/ (at = "kick" /\ KicksAdded)
    PROVE  KickOwed' /\ \A d \in CPUs : wake_pending[d] => wake_pending'[d]
<1>1. \A d \in CPUs : pc[d].at \in {"kick", "kickcpu"} => pc'[d] = pc[d]
  BY DEF Moves
<1>2. (\E d \in CPUs : pc[d].at = "kick") => \E d \in CPUs : pc'[d].at = "kick"
  BY <1>1
<1>3. ASSUME NEW e \in CPUs, \E d \in CPUs : pc[d].at = "kickcpu" /\ pc[d].i <= e
      PROVE  \E d \in CPUs : pc'[d].at = "kickcpu" /\ pc'[d].i <= e
  BY <1>1, <1>3
<1>4. \A d \in CPUs : pc'[d].at # "kickcpu" => pc'[d].i = 0
  BY DEF KickOwed, Moves
<1>5. CASE UNCHANGED kickVars
  BY <1>2, <1>3, <1>4, <1>5 DEF KickOwed, kickVars, CPUs
<1>6. CASE at = "kick" /\ KicksAdded
  <2>1. \E d \in CPUs : pc'[d].at = "kick"
    BY <1>6 DEF Moves
  <2>2. \A e \in CPUs : wake_pending'[e] =>
          idle_wake_pending' \/ \E d \in CPUs : pc'[d].at = "kickcpu" /\ pc'[d].i <= e
    BY <1>3, <1>6 DEF KickOwed, KicksAdded
  <2> QED
    BY <1>4, <1>6, <2>1, <2>2 DEF KickOwed, CPUs, KicksAdded
<1> QED
  BY <1>5, <1>6

LEMMA SetAdds ==
    ASSUME NEW STATE K, KickType, SetWakePending(K)
    PROVE  KicksAdded /\ \A d \in CPUs : d \in K => wake_pending'[d]
BY DEF SetWakePending, KicksAdded, KickType

(* A step that makes no task READY, wakes no flag away and puts no CPU to  *)
(* sleep.                                                                  *)
LEMMA DueKept ==
    ASSUME ReservedDue, AnyCpu => ReadyDue,
           \A t \in Tasks : tstate'[t] = "READY" =>
               tstate[t] = "READY" /\ running_cpu'[t] = running_cpu[t],
           \A t \in Tasks : tstate'[t] = "READY" /\ t \in overlooked => t \in overlooked',
           \A d \in CPUs : Dormant(d)' => Dormant(d),
           \A d \in CPUs : Flagged(d) /\ Dormant(d)' => Flagged(d)',
           \A d \in CPUs, t \in Tasks : switching_task'[d] = t => switching_task[d] = t
    PROVE  ReservedDue' /\ (AnyCpu => ReadyDue')
<1>1. ReservedDue'
  <2> SUFFICES ASSUME NEW t \in Tasks, NEW c \in CPUs, tstate'[t] = "READY",
                      running_cpu'[t] = Reserved(c), t \notin overlooked', Dormant(c)'
               PROVE  Flagged(c)'
    BY DEF ReservedDue, Reserved, CPUs
  <2> QED
    BY DEF ReservedDue
<1>2. ASSUME AnyCpu PROVE ReadyDue'
  <2> SUFFICES ASSUME NEW t \in Tasks, tstate'[t] = "READY", running_cpu'[t] = -1,
                      t \notin overlooked', \A c \in APs : Dormant(c)'
               PROVE  FreeDue(t)'
    BY DEF ReadyDue, APs, CPUs, BSP
  <2>1. FreeDue(t) /\ BSP \in CPUs /\ APs \subseteq CPUs
    BY <1>2, ZeroCpu DEF ReadyDue, APs
  <2>2. CASE \E c \in APs : Flagged(c)
    BY <2>1, <2>2 DEF FreeDue, APs, CPUs, BSP
  <2>3. CASE ~Dormant(BSP) /\ \A c \in APs : switching_task[c] # t
    BY <2>1, <2>3 DEF FreeDue, APs, CPUs, BSP
  <2> QED
    BY <2>1, <2>2, <2>3 DEF FreeDue
<1> QED
  BY <1>1, <1>2

-----------------------------------------------------------------------------
(***************************************************************************)
(* The steps of the handlers                                               *)
(***************************************************************************)

LEMMA DueParts ==
    ASSUME IInv, Due
    PROVE  /\ Places /\ KickOwed /\ ReservedDue /\ (AnyCpu => FullMasks /\ ReadyDue)
           /\ TaskType /\ CpuType /\ KickType /\ TickType /\ Ownership /\ Ticks
           /\ pc \in [CPUs -> PCs] /\ BSP \in CPUs /\ APs \subseteq CPUs
           /\ \A c \in CPUs : pc[c].at # "kickcpu" => pc[c].i = 0
BY TypeParts, InvPc, ZeroCpu DEF IInv, Due, KickOwed, APs

(* A step of CPU c that makes nothing READY, switches no task and does not *)
(* take part in stopping ticks or in kicking.                              *)
LEMMA PlainDue ==
    ASSUME IInv, Due, NEW c \in CPUs, NEW STATE at, Moves(c, at), pc'[c].i = 0,
           \A t \in Tasks : /\ tstate'[t] = "READY" => tstate[t] = "READY"
                            /\ tstate'[t] = "NEW" => tstate[t] = "NEW",
           running_cpu' = running_cpu, UNCHANGED cpuVars, AnyCpu => FullMasks',
           overlooked' = overlooked, tick_stopped' = tick_stopped,
           bsp_stretched' => bsp_stretched, \A d \in CPUs : wake_ipi[d] => wake_ipi'[d],
           pc[c].at \notin {"kick", "kickcpu", "tickcheck"},
           at \notin {"kickcpu", "halt", "stretch", "recheck"},
           UNCHANGED kickVars \/ (at = "kick" /\ KicksAdded),
           Settled(c)' => Settled(c)
    PROVE  Due'
<1>1. Places /\ KickOwed /\ ReservedDue /\ (AnyCpu => FullMasks /\ ReadyDue) /\ BSP \in CPUs
  BY DueParts
<1>2. Places'
  BY <1>1, PlacesKept
<1>3. KickOwed' /\ \A d \in CPUs : wake_pending[d] => wake_pending'[d]
  BY <1>1, KickOwedKept
<1>4. ASSUME NEW d \in CPUs PROVE Dormant(d)' => Dormant(d)
  <2>1. CASE d = c
    BY <2>1 DEF Dormant, Moves
  <2>2. CASE d # c
    BY <2>2 DEF Dormant, Moves
  <2> QED
    BY <2>1, <2>2
<1>5. \A d \in CPUs : Flagged(d) => Flagged(d)'
  BY <1>3 DEF Flagged
<1>6. \A d \in CPUs, t \in Tasks : switching_task'[d] = t => switching_task[d] = t
  BY DEF cpuVars
<1>7. ReservedDue' /\ (AnyCpu => ReadyDue')
  BY <1>1, <1>4, <1>5, <1>6, DueKept
<1> QED
  BY <1>2, <1>3, <1>7 DEF Due

LEMMA MasksKept == ASSUME Due, affinity' = affinity PROVE AnyCpu => FullMasks'
BY DEF Due, FullMasks

LEMMA TasksSame ==
    ASSUME Due, UNCHANGED taskVars
    PROVE  /\ \A t \in Tasks : /\ tstate'[t] = "READY" => tstate[t] = "READY"
                               /\ tstate'[t] = "NEW" => tstate[t] = "NEW"
           /\ running_cpu' = running_cpu /\ (AnyCpu => FullMasks')
BY MasksKept DEF taskVars

LEMMA GotoDue ==
    ASSUME IInv, Due, NEW c \in CPUs, NEW STATE at, at \in Ats, Goto(c, at),
           pc[c].at # "kickcpu"
    PROVE  Moves(c, at) /\ pc'[c].i = 0 /\ pc'[c].then = pc[c].then
BY DueParts, GotoMoves

LEMMA ThenKickDue ==
    ASSUME IInv, Due, NEW c \in CPUs, NEW STATE then, then \in Thens, ThenKick(c, then),
           pc[c].at # "kickcpu"
    PROVE  Moves(c, "kick") /\ pc'[c].i = 0 /\ pc'[c].then = then
BY DueParts, ThenKickMoves

(* A handler's step to a label at that is not settled. *)
LEMMA HandlerDue ==
    ASSUME IInv, Due, NEW c \in CPUs, NEW STATE at, at \in Ats, Goto(c, at),
           UNCHANGED taskVars, UNCHANGED cpuVars, UNCHANGED kickVars,
           overlooked' = overlooked, tick_stopped' = tick_stopped,
           bsp_stretched' => bsp_stretched, \A d \in CPUs : wake_ipi[d] => wake_ipi'[d],
           pc[c].at \notin {"kick", "kickcpu", "tickcheck"},
           at \notin {"kick", "kickcpu", "halt", "stretch", "recheck"},
           at \in {"run", "restart", "tick"} => Settled(c)
    PROVE  Due'
<1>1. Moves(c, at) /\ pc'[c].i = 0
  BY GotoDue
<1>2. Settled(c)' => Settled(c)
  BY <1>1 DEF Settled, Moves
<1> QED
  BY <1>1, <1>2, TasksSame, PlainDue

LEMMA RestartNotifyDue == ASSUME IInv, Due, NEW c \in CPUs, RestartNotify(c) PROVE Due'
<1>1. \A d \in CPUs : wake_ipi[d] => wake_ipi'[d]
  BY DueParts DEF RestartNotify, TickType
<1> QED
  BY <1>1, HandlerDue DEF RestartNotify, Ats, Settled

LEMMA HandleTickDue == ASSUME IInv, Due, NEW c \in CPUs, HandleTick(c) PROVE Due'
<1>1. PICK at \in {"sched", "ret"} : Goto(c, at)
  BY DEF HandleTick
<1> QED
  BY <1>1, HandlerDue DEF HandleTick, Ats

LEMMA SchedKeepDue == ASSUME IInv, Due, NEW c \in CPUs, SchedKeep(c) PROVE Due'
<1>1. AfterSched(c) \in {"deliver", "tickstop", "ret"} /\ AfterSched(c) \in Ats
  BY AfterSchedLabel
<1> QED
  BY <1>1, HandlerDue DEF SchedKeep, tickVars

LEMMA SchedPanicDue == ASSUME IInv, Due, NEW c \in CPUs, SchedPanic(c) PROVE Due'
BY HandlerDue DEF SchedPanic, tickVars, Ats

LEMMA TickOffDue == ASSUME IInv, Due, NEW c \in CPUs, TickOff(c) PROVE Due'
BY HandlerDue DEF TickOff, Ats

LEMMA SchedNoneDue == ASSUME IInv, Due, NEW c \in CPUs, SchedNone(c) PROVE Due'
<1>1. Moves(c, "kick") /\ pc'[c].i = 0 /\ pc'[c].then = AfterSched(c)
  BY AfterSchedLabel, ThenKickDue DEF SchedNone
<1>2. ~Settled(c)'
  BY <1>1, AfterSchedLabel DEF Settled, Moves
<1>3. KicksAdded
  BY DueParts, SetAdds DEF SchedNone
<1> QED
  BY <1>1, <1>2, <1>3, TasksSame, PlainDue DEF SchedNone, tickVars

(* task_kick_idle_cpus takes the flags and sends an IPI for each. *)
LEMMA KickMoveDue ==
    ASSUME IInv, Due, NEW c \in CPUs, NEW STATE at, Moves(c, at), KickOwed',
           UNCHANGED taskVars, UNCHANGED cpuVars, overlooked' = overlooked,
           tick_stopped' = tick_stopped, bsp_stretched' = bsp_stretched,
           \A d \in CPUs : Flagged(d) => Flagged(d)', pc[c].at \in {"kick", "kickcpu"},
           \/ at = pc[c].then /\ at \in Thens
           \/ at = "kickcpu" /\ pc'[c].then = pc[c].then
    PROVE  Due'
<1>1. Places /\ ReservedDue /\ (AnyCpu => FullMasks /\ ReadyDue)
  BY DueParts
<1>2. Settled(c)' => Settled(c)
  BY DEF Settled, Moves, Thens
<1>3. Places'
  BY <1>1, <1>2, TasksSame, PlacesKept DEF Thens
<1>4. ASSUME NEW d \in CPUs PROVE Dormant(d)' => Dormant(d)
  <2>1. CASE d = c
    BY <2>1 DEF Dormant, Moves, Thens
  <2>2. CASE d # c
    BY <2>2 DEF Dormant, Moves
  <2> QED
    BY <2>1, <2>2
<1>5. \A d \in CPUs, t \in Tasks : switching_task'[d] = t => switching_task[d] = t
  BY DEF cpuVars
<1>6. ReservedDue' /\ (AnyCpu => ReadyDue')
  BY <1>1, <1>4, <1>5, TasksSame, DueKept
<1> QED
  BY <1>3, <1>6, TasksSame DEF Due

LEMMA KickTakeDue == ASSUME IInv, Due, NEW c \in CPUs, KickTake(c) PROVE Due'
<1>1. /\ pc[c].at = "kick" /\ idle_wake_pending' = FALSE /\ wake_pending' = wake_pending
      /\ UNCHANGED taskVars /\ UNCHANGED cpuVars /\ UNCHANGED tickVars
      /\ pc \in [CPUs -> PCs] /\ KickOwed
  BY DueParts DEF KickTake
<1>2. \A d \in CPUs : Flagged(d) => Flagged(d)'
  BY <1>1 DEF Flagged, tickVars
<1>3. CASE idle_wake_pending
  <2>1. Moves(c, "kickcpu") /\ pc'[c].then = pc[c].then /\ pc'[c].i = 0
    BY <1>1, <1>3, GotoMoves DEF KickTake, Ats, KickOwed
  <2>2. \A e \in CPUs : 0 <= e
    BY SMT DEF CPUs
  <2>3. \A d \in CPUs : pc'[d].at # "kickcpu" => pc'[d].i = 0
    BY <1>1, <2>1 DEF KickOwed, Moves
  <2>4. \A e \in CPUs : \E d \in CPUs : pc'[d].at = "kickcpu" /\ pc'[d].i <= e
    BY <2>1, <2>2 DEF Moves
  <2>5. KickOwed'
    BY <1>1, <2>3, <2>4 DEF KickOwed, CPUs
  <2> QED
    BY <1>1, <1>2, <2>1, <2>5, KickMoveDue DEF tickVars
<1>4. CASE ~idle_wake_pending
  <2>1. Moves(c, pc[c].then) /\ pc[c].then \in Thens /\ pc'[c].i = 0
    BY <1>1, <1>4, KickDoneMoves DEF KickTake
  <2>2. \A d \in CPUs : pc[d].at = "kickcpu" => pc'[d] = pc[d]
    BY <1>1, <2>1 DEF Moves
  <2>3. \A d \in CPUs : pc'[d].at # "kickcpu" => pc'[d].i = 0
    BY <1>1, <2>1 DEF KickOwed, Moves
  <2>4. \A e \in CPUs : wake_pending'[e] => \E d \in CPUs : pc'[d].at = "kickcpu" /\ pc'[d].i <= e
    BY <1>1, <1>4, <2>2 DEF KickOwed
  <2>5. KickOwed'
    BY <1>1, <2>3, <2>4 DEF KickOwed, CPUs
  <2> QED
    BY <1>1, <1>2, <2>1, <2>5, KickMoveDue DEF tickVars
<1> QED
  BY <1>3, <1>4

LEMMA KickCpuDue == ASSUME IInv, Due, NEW c \in CPUs, KickCpu(c) PROVE Due'
<1> DEFINE k == pc[c].i
<1>1. /\ pc[c].at = "kickcpu"
      /\ wake_pending' = [wake_pending EXCEPT ![k] = FALSE]
      /\ wake_ipi' = [wake_ipi EXCEPT ![k] = @ \/ wake_pending[k]]
      /\ idle_wake_pending' = idle_wake_pending
      /\ UNCHANGED <<tick_stopped, timer, bsp_stretched, backed_out, overlooked>>
      /\ UNCHANGED taskVars /\ UNCHANGED cpuVars
  BY DEF KickCpu
<1>2. KickType /\ TickType /\ KickOwed /\ pc \in [CPUs -> PCs]
  BY DueParts
<1>3. k \in CPUs /\ pc[c].irq \in Irqs /\ pc[c].then \in Thens
  BY <1>2, PcFields DEF CPUs
<1>4. /\ \A d \in CPUs : wake_pending'[d] => d # k /\ wake_pending[d]
      /\ \A d \in CPUs : Flagged(d) => Flagged(d)'
  BY <1>1, <1>2, <1>3 DEF KickType, TickType, Flagged
<1>5. \A d \in CPUs : pc[d].at = "kick" => d # c
  BY <1>1
<1>6. CASE k + 1 = NCpus
  <2>1. Moves(c, pc[c].then) /\ pc'[c].i = 0
    BY <1>2, <1>6, KickDoneMoves DEF KickCpu
  <2>2. \A e \in CPUs : k <= e => e = k
    BY <1>3, <1>6, NCpusAssumption, SMT DEF CPUs
  <2>3. \A e \in CPUs : wake_pending'[e] =>
          idle_wake_pending \/ \E d \in CPUs : pc'[d].at = "kickcpu" /\ pc'[d].i <= e
    <3> SUFFICES ASSUME NEW e \in CPUs, wake_pending'[e], ~idle_wake_pending
                 PROVE  \E d \in CPUs : pc'[d].at = "kickcpu" /\ pc'[d].i <= e
      OBVIOUS
    <3>1. PICK d \in CPUs : pc[d].at = "kickcpu" /\ pc[d].i <= e
      BY <1>2, <1>4 DEF KickOwed
    <3>2. d # c
      BY <1>4, <2>2, <3>1
    <3> QED
      BY <2>1, <3>1, <3>2 DEF Moves
  <2>4. \A d \in CPUs : pc'[d].at # "kickcpu" => pc'[d].i = 0
    BY <1>2, <2>1 DEF KickOwed, Moves
  <2>5. idle_wake_pending => \E d \in CPUs : pc'[d].at = "kick"
    BY <1>2, <1>5, <2>1 DEF KickOwed, Moves
  <2>6. KickOwed'
    BY <1>1, <2>3, <2>4, <2>5 DEF KickOwed, CPUs
  <2> QED
    BY <1>1, <1>3, <1>4, <2>1, <2>6, KickMoveDue
<1>7. CASE k + 1 # NCpus
  <2> DEFINE r == [at |-> pc[c].at, irq |-> pc[c].irq, then |-> pc[c].then, i |-> k + 1]
  <2>1. k + 1 \in 0 .. NCpus - 1
    BY <1>3, <1>7, NCpusAssumption, SMT DEF CPUs
  <2>2. r \in PCs
    BY <1>1, <1>3, <2>1, PcMake DEF Ats
  <2>3. pc' = [pc EXCEPT ![c] = r]
    BY <1>7 DEF KickCpu
  <2>4. Moves(c, "kickcpu") /\ pc'[c].then = pc[c].then /\ pc'[c].i = k + 1
    BY <1>1, <1>2, <2>2, <2>3 DEF Moves
  <2>5. \A e \in CPUs : k <= e /\ e # k => k + 1 <= e
    BY <1>3, NCpusAssumption, SMT DEF CPUs
  <2>6. \A e \in CPUs : wake_pending'[e] =>
          idle_wake_pending \/ \E d \in CPUs : pc'[d].at = "kickcpu" /\ pc'[d].i <= e
    <3> SUFFICES ASSUME NEW e \in CPUs, wake_pending'[e], ~idle_wake_pending
                 PROVE  \E d \in CPUs : pc'[d].at = "kickcpu" /\ pc'[d].i <= e
      OBVIOUS
    <3>1. PICK d \in CPUs : pc[d].at = "kickcpu" /\ pc[d].i <= e
      BY <1>2, <1>4 DEF KickOwed
    <3>2. CASE d = c
      BY <1>4, <2>4, <2>5, <3>1, <3>2 DEF Moves
    <3>3. CASE d # c
      BY <2>4, <3>1, <3>3 DEF Moves
    <3> QED
      BY <3>2, <3>3
  <2>7. \A d \in CPUs : pc'[d].at # "kickcpu" => pc'[d].i = 0
    BY <1>2, <2>4 DEF KickOwed, Moves
  <2>8. idle_wake_pending => \E d \in CPUs : pc'[d].at = "kick"
    BY <1>2, <1>5, <2>4 DEF KickOwed, Moves
  <2>9. KickOwed'
    BY <1>1, <2>6, <2>7, <2>8 DEF KickOwed, CPUs
  <2> QED
    BY <1>1, <1>4, <2>4, <2>9, KickMoveDue
<1> QED
  BY <1>6, <1>7

(* A step of CPU c in the code that stops and restarts ticks. *)
LEMMA TickDue ==
    ASSUME IInv, Due, NEW c \in CPUs, NEW STATE at, Moves(c, at), pc'[c].i = 0,
           UNCHANGED taskVars, UNCHANGED cpuVars, UNCHANGED kickVars,
           pc[c].at \notin {"kick", "kickcpu"}, at # "kickcpu", Settled(c)' => Settled(c),
           at \in {"halt", "stretch", "recheck"} => running_task[c] = Idle,
           ReservedDue' /\ (AnyCpu => ReadyDue')
    PROVE  Due'
<1>1. Places' /\ KickOwed'
  BY DueParts, TasksSame, PlacesKept, KickOwedKept
<1> QED
  BY <1>1, TasksSame DEF Due

(* The same, where no CPU goes dormant. *)
LEMMA TickAwakeDue ==
    ASSUME IInv, Due, NEW c \in CPUs, NEW STATE at, Moves(c, at), pc'[c].i = 0,
           UNCHANGED taskVars, UNCHANGED cpuVars, UNCHANGED kickVars,
           pc[c].at \notin {"kick", "kickcpu"}, at # "kickcpu", Settled(c)' => Settled(c),
           at \in {"halt", "stretch", "recheck"} => running_task[c] = Idle,
           overlooked' = overlooked,
           \A d \in CPUs : Dormant(d)' => Dormant(d) /\ wake_ipi'[d] = wake_ipi[d]
    PROVE  Due'
<1>1. \A d \in CPUs : Flagged(d) /\ Dormant(d)' => Flagged(d)'
  BY DEF Flagged, kickVars
<1>2. \A d \in CPUs, t \in Tasks : switching_task'[d] = t => switching_task[d] = t
  BY DEF cpuVars
<1>3. ReservedDue' /\ (AnyCpu => ReadyDue')
  BY <1>1, <1>2, DueParts, TasksSame, DueKept
<1> QED
  BY <1>3, TickDue

LEMMA InterruptEntryDue ==
    ASSUME IInv, Due, NEW c \in CPUs, NEW irq \in {"timer", "early", "wake"},
           InterruptEntry(c, irq),
           \/ wake_ipi' = wake_ipi
           \/ wake_ipi' = [wake_ipi EXCEPT ![c] = FALSE]
    PROVE  Due'
<1> DEFINE a == IF tick_stopped[c] THEN "restart" ELSE "tick"
           r == [at |-> a, irq |-> irq, then |-> "run", i |-> 0]
<1>1. /\ pc[c].at \in {"run", "halt"}
      /\ bsp_stretched' => bsp_stretched
      /\ tick_stopped' = [tick_stopped EXCEPT ![c] = FALSE]
      /\ pc' = [pc EXCEPT ![c] = r]
      /\ overlooked' = overlooked
      /\ UNCHANGED taskVars /\ UNCHANGED cpuVars /\ UNCHANGED kickVars
  BY DEF InterruptEntry
<1>2. TickType /\ pc \in [CPUs -> PCs]
  BY DueParts
<1>3. r \in PCs
  BY NCpusAssumption, SMT DEF PCs
<1>4. Moves(c, a) /\ pc'[c].i = 0
  BY <1>1, <1>2, <1>3 DEF Moves
<1>5. Settled(c)
  BY <1>1 DEF Settled
<1>6. ASSUME NEW d \in CPUs PROVE Dormant(d)' => Dormant(d) /\ wake_ipi'[d] = wake_ipi[d]
  <2>1. CASE d = c
    BY <1>1, <1>2, <1>4, <2>1 DEF Dormant, Moves, TickType
  <2>2. CASE d # c
    <3>1. tick_stopped'[d] = tick_stopped[d] /\ wake_ipi'[d] = wake_ipi[d] /\ pc'[d] = pc[d]
      BY <1>1, <1>2, <1>4, <2>2 DEF Moves, TickType
    <3> QED
      BY <1>1, <3>1 DEF Dormant
  <2> QED
    BY <2>1, <2>2
<1> QED
  BY <1>1, <1>4, <1>5, <1>6, TickAwakeDue

LEMMA TickStopDue == ASSUME IInv, Due, NEW c \in CPUs, TickStop(c) PROVE Due'
<1>1. /\ pc[c].at = "tickstop" /\ bsp_stretched' = bsp_stretched
      /\ wake_ipi' = wake_ipi /\ overlooked' = overlooked
      /\ UNCHANGED taskVars /\ UNCHANGED cpuVars /\ UNCHANGED kickVars
  BY DEF TickStop
<1>2. CASE c \in APs /\ running_task[c] = NoTask
  <2>1. tick_stopped' = [tick_stopped EXCEPT ![c] = TRUE] /\ Goto(c, "tickcheck")
    BY <1>2 DEF TickStop
  <2>2. Moves(c, "tickcheck") /\ pc'[c].i = 0
    BY <1>1, <2>1, GotoDue DEF Ats
  <2>3. ~Settled(c)'
    BY <2>2 DEF Settled, Moves
  <2>4. ASSUME NEW d \in CPUs PROVE Dormant(d)' => Dormant(d) /\ wake_ipi'[d] = wake_ipi[d]
    <3>1. CASE d = c
      BY <1>2, <2>2, <3>1 DEF Dormant, Moves, APs
    <3>2. CASE d # c
      <4>1. tick_stopped'[d] = tick_stopped[d] /\ pc'[d] = pc[d]
        BY <2>1, <2>2, <3>2, DueParts DEF Moves, TickType
      <4> QED
        BY <1>1, <4>1 DEF Dormant
    <3> QED
      BY <3>1, <3>2
  <2> QED
    BY <1>1, <2>2, <2>3, <2>4, TickAwakeDue
<1>3. CASE ~(c \in APs /\ running_task[c] = NoTask)
  <2>1. Goto(c, "ret") /\ tick_stopped' = tick_stopped
    BY <1>3 DEF TickStop
  <2> QED
    BY <1>1, <2>1, HandlerDue DEF Ats
<1> QED
  BY <1>2, <1>3

(* task_cpu_tick_stop looks at every task under sched_lock: what it leaves *)
(* is reserved for another CPU, or overlooked.                             *)
LEMMA TickCheckDue == ASSUME IInv, Due, NEW c \in CPUs, TickCheck(c) PROVE Due'
<1> DEFINE work == HasWork(c)
<1>1. /\ pc[c].at = "tickcheck"
      /\ tick_stopped' = [tick_stopped EXCEPT ![c] = ~work]
      /\ overlooked' = IF work THEN overlooked ELSE overlooked \cup Overlooks(c)
      /\ Goto(c, IF work THEN "ret" ELSE "tickoff")
      /\ wake_ipi' = wake_ipi /\ bsp_stretched' = bsp_stretched
      /\ UNCHANGED taskVars /\ UNCHANGED cpuVars /\ UNCHANGED kickVars
  BY DEF TickCheck
<1>2. c \in APs /\ c # BSP
  BY <1>1 DEF IInv, APs, Ticks, BspTicks
<1>3. ~work => \A t \in Tasks : tstate[t] = "READY" /\ running_cpu[t] \in {-1, Reserved(c)}
                  /\ (running_cpu[t] = -1 => c \in affinity[t]) => t \in overlooked'
  BY <1>1 DEF HasWork, task_cpu_available, Overlooks
<1>4. overlooked \subseteq overlooked'
  BY <1>1
<1> HIDE DEF work
<1>5. PICK at \in {"ret", "tickoff"} : Goto(c, at)
  BY <1>1
<1>6. Moves(c, at) /\ pc'[c].i = 0
  BY <1>1, <1>5, GotoDue DEF Ats
<1>7. ~Settled(c)'
  BY <1>6 DEF Settled, Moves
<1>8. \A d \in CPUs : d # c /\ Dormant(d)' => Dormant(d)
  <2> SUFFICES ASSUME NEW d \in CPUs, d # c, Dormant(d)' PROVE Dormant(d)
    OBVIOUS
  <2>1. tick_stopped'[d] = tick_stopped[d] /\ pc'[d] = pc[d]
    BY <1>1, <1>6, DueParts DEF Moves, TickType
  <2> QED
    BY <1>1, <2>1 DEF Dormant
<1>9. Dormant(c)' => ~work
  BY <1>1, <1>2, DueParts DEF Dormant, TickType
<1>10. \A d \in CPUs : Flagged(d)' <=> Flagged(d)
  BY <1>1 DEF Flagged, kickVars
<1>11. ReservedDue'
  <2> SUFFICES ASSUME NEW t \in Tasks, NEW d \in CPUs, tstate'[t] = "READY",
                      running_cpu'[t] = Reserved(d), t \notin overlooked', Dormant(d)'
               PROVE  Flagged(d)'
    BY DEF ReservedDue, Reserved, CPUs
  <2>1. tstate[t] = "READY" /\ running_cpu[t] = Reserved(d) /\ t \notin overlooked
    BY <1>1, <1>4 DEF taskVars
  <2>2. d # c
    BY <1>3, <1>9, <2>1, ReservedOne
  <2> QED
    BY <1>8, <1>10, <2>1, <2>2, DueParts DEF ReservedDue
<1>12. ASSUME AnyCpu PROVE ReadyDue'
  <2> SUFFICES ASSUME NEW t \in Tasks, tstate'[t] = "READY", running_cpu'[t] = -1,
                      t \notin overlooked', \A d \in APs : Dormant(d)'
               PROVE  FALSE
    BY DEF ReadyDue, APs, CPUs, BSP
  <2>1. tstate[t] = "READY" /\ running_cpu[t] = -1 /\ affinity[t] = CPUs
    BY <1>1, <1>12, DueParts DEF taskVars, FullMasks
  <2> QED
    BY <1>2, <1>3, <1>9, <2>1
<1> QED
  BY <1>1, <1>6, <1>7, <1>11, <1>12, TickDue

(* A task that some CPU is on is being left by that CPU. *)
LEMMA CurrentLeft ==
    ASSUME IInv, Due, NEW t \in Tasks, NEW c \in CPUs, running_cpu[t] \in {-1, Reserved(c)},
           task_is_current_on_any_cpu(t)
    PROVE  \E d \in CPUs : /\ switching_task[d] = t
                           /\ running_cpu[t] = Reserved(c) => d = c
<1>1. PICK d \in CPUs : running_task[d] = t \/ switching_task[d] = t
  BY DEF task_is_current_on_any_cpu
<1>2. t \in AllTasks
  BY DEF AllTasks
<1>3. running_task[d] # t
  <2>1. running_task[d] = t => running_cpu[t] = d
    BY <1>2 DEF IInv, Ownership, OwnerExact
  <2>2. d # -1
    BY SMT DEF CPUs
  <2> QED
    BY <2>1, <2>2, ReservedOne
<1>4. running_cpu[t] \in {-1, Reserved(d)}
  BY <1>1, <1>2, <1>3 DEF Due, Places, SwitchingReleased
<1> QED
  BY <1>1, <1>3, <1>4, ReservedOne

(* smp_tick_idle looks at the tasks before the BSP stretches its tick, on  *)
(* the stack of the idle task.                                             *)
LEMMA TickIdleDue == ASSUME IInv, Due, NEW c \in CPUs, TickIdle(c) PROVE Due'
<1>1. /\ c = BSP /\ pc[c].at = "run" /\ running_task[c] = Idle
      /\ tick_stopped' = tick_stopped /\ wake_ipi' = wake_ipi /\ overlooked' = overlooked
      /\ UNCHANGED taskVars /\ UNCHANGED cpuVars /\ UNCHANGED kickVars
  BY DEF TickIdle
<1>2. Settled(c)
  BY <1>1 DEF Settled
<1>3. CASE Goto(c, "halt") /\ bsp_stretched' = FALSE
  <2>1. Moves(c, "halt") /\ pc'[c].i = 0
    BY <1>1, <1>3, GotoDue DEF Ats
  <2>2. \A d \in CPUs : Dormant(d)' => Dormant(d) /\ wake_ipi'[d] = wake_ipi[d]
    BY <1>1, <1>3, <2>1 DEF Dormant, Moves
  <2> QED
    BY <1>1, <1>2, <2>1, <2>2, TickAwakeDue
<1>4. CASE ~HasWork(c) /\ Goto(c, "stretch") /\ bsp_stretched' = bsp_stretched
  <2>1. Moves(c, "stretch") /\ pc'[c].i = 0
    BY <1>1, <1>4, GotoDue DEF Ats
  <2>2. switching_task[c] = NoTask
    <3>1. stack[c] = running_task[c] /\ Idle # NoTask
      BY <1>2, DueParts, TasksAssumption DEF Places, SettledOnStack
    <3> QED
      BY <1>1, <3>1 DEF IInv, Ownership, StacksCovered
  <2>3. ASSUME NEW t \in Tasks, tstate[t] = "READY", running_cpu[t] \in {-1, Reserved(c)},
               running_cpu[t] = -1 => affinity[t] = CPUs
        PROVE  running_cpu[t] = -1 /\ \E d \in APs : switching_task[d] = t
    <3>1. task_is_current_on_any_cpu(t)
      BY <1>4, <2>3 DEF HasWork, task_cpu_available
    <3>2. PICK d \in CPUs : /\ switching_task[d] = t
                            /\ running_cpu[t] = Reserved(c) => d = c
      BY <2>3, <3>1, CurrentLeft
    <3>3. d # c
      BY <2>2, <3>2, TasksAssumption DEF AllTasks
    <3> QED
      BY <1>1, <2>3, <3>2, <3>3 DEF APs
  <2>4. \A d \in CPUs : d # c /\ Dormant(d)' => Dormant(d)
    BY <1>1, <2>1 DEF Dormant, Moves
  <2>5. \A d \in CPUs : Flagged(d)' <=> Flagged(d)
    BY <1>1 DEF Flagged, kickVars
  <2>6. ReservedDue'
    <3> SUFFICES ASSUME NEW t \in Tasks, NEW d \in CPUs, tstate'[t] = "READY",
                        running_cpu'[t] = Reserved(d), t \notin overlooked', Dormant(d)'
                 PROVE  Flagged(d)'
      BY DEF ReservedDue, Reserved, CPUs
    <3>1. tstate[t] = "READY" /\ running_cpu[t] = Reserved(d) /\ t \notin overlooked
      BY <1>1 DEF taskVars
    <3>2. d # c
      BY <2>3, <3>1, ReservedOne
    <3> QED
      BY <2>4, <2>5, <3>1, <3>2, DueParts DEF ReservedDue
  <2>7. ASSUME AnyCpu PROVE ReadyDue'
    <3> SUFFICES ASSUME NEW t \in Tasks, tstate'[t] = "READY", running_cpu'[t] = -1,
                        t \notin overlooked', \A d \in APs : Dormant(d)'
                 PROVE  \E d \in APs : Flagged(d)'
      BY DEF ReadyDue, FreeDue, APs, CPUs, BSP
    <3>1. tstate[t] = "READY" /\ running_cpu[t] = -1 /\ affinity[t] = CPUs
          /\ t \notin overlooked
      BY <1>1, <2>7, DueParts DEF taskVars, FullMasks
    <3>2. \A d \in APs : d \in CPUs /\ Dormant(d)
      BY <1>1, <2>4 DEF APs
    <3>3. FreeDue(t)
      BY <2>7, <3>1, <3>2, DueParts DEF ReadyDue
    <3> QED
      BY <2>3, <2>5, <3>1, <3>2, <3>3 DEF FreeDue
  <2> QED
    BY <1>1, <1>2, <2>1, <2>6, <2>7, TickDue
<1> QED
  BY <1>3, <1>4 DEF TickIdle

LEMMA TickStretchDue == ASSUME IInv, Due, NEW c \in CPUs, TickStretch(c) PROVE Due'
<1>1. /\ pc[c].at = "stretch" /\ tick_stopped' = tick_stopped /\ wake_ipi' = wake_ipi
      /\ overlooked' = overlooked
      /\ UNCHANGED taskVars /\ UNCHANGED cpuVars /\ UNCHANGED kickVars
  BY DEF TickStretch
<1>2. c = BSP
  BY <1>1 DEF IInv, Ticks, StoppedIdle, APs
<1>3. Moves(c, "recheck") /\ pc'[c].i = 0
  BY <1>1, GotoDue DEF TickStretch, Ats
<1>4. running_task[c] = Idle /\ Settled(c)
  BY <1>1, <1>2, DueParts DEF Places, BspIdles, Settled
<1>5. \A d \in CPUs : Dormant(d)' => Dormant(d) /\ wake_ipi'[d] = wake_ipi[d]
  BY <1>1, <1>2, <1>3 DEF Dormant, Moves
<1> QED
  BY <1>1, <1>3, <1>4, <1>5, TickAwakeDue

LEMMA TickRecheckDue == ASSUME IInv, Due, NEW c \in CPUs, TickRecheck(c) PROVE Due'
<1>1. /\ pc[c].at = "recheck" /\ tick_stopped' = tick_stopped /\ wake_ipi' = wake_ipi
      /\ overlooked' = overlooked
      /\ UNCHANGED taskVars /\ UNCHANGED cpuVars /\ UNCHANGED kickVars
  BY DEF TickRecheck
<1>2. c = BSP
  BY <1>1 DEF IInv, Ticks, StoppedIdle, APs
<1>3. Moves(c, "halt") /\ pc'[c].i = 0
  BY <1>1, GotoDue DEF TickRecheck, Ats
<1>4. running_task[c] = Idle /\ Settled(c)
  BY <1>1, <1>2, DueParts DEF Places, BspIdles, Settled
<1>5. \A d \in CPUs : Dormant(d)' => Dormant(d) /\ wake_ipi'[d] = wake_ipi[d]
  BY <1>1, <1>2, <1>3 DEF Dormant, Moves
<1> QED
  BY <1>1, <1>3, <1>4, <1>5, TickAwakeDue

LEMMA InterruptReturnDue == ASSUME IInv, Due, NEW c \in CPUs, InterruptReturn(c) PROVE Due'
<1>1. /\ pc[c].at = "ret" /\ stack' = [stack EXCEPT ![c] = running_task[c]]
      /\ switching_task' = [switching_task EXCEPT
                              ![c] = IF stack[c] # running_task[c] THEN NoTask ELSE @]
      /\ running_task' = running_task
      /\ UNCHANGED taskVars /\ UNCHANGED kickVars /\ UNCHANGED tickVars
  BY DEF InterruptReturn
<1>2. Moves(c, "run") /\ pc'[c].i = 0
  BY DueParts, ResumeMoves DEF InterruptReturn
<1>3. \A d \in CPUs, t \in AllTasks : switching_task'[d] = t => switching_task[d] = t
  BY <1>1, DueParts, TasksAssumption DEF CpuType, AllTasks
<1>4. SettledOnStack'
  <2> SUFFICES ASSUME NEW d \in CPUs, Settled(d)' PROVE stack'[d] = running_task'[d]
    BY DEF SettledOnStack, CPUs
  <2>1. CASE d = c
    BY <1>1, <2>1, DueParts DEF CpuType
  <2>2. CASE d # c
    <3>1. stack'[d] = stack[d] /\ Settled(d)
      BY <1>1, <1>2, <2>2, DueParts DEF CpuType, Settled, Moves
    <3> QED
      BY <1>1, <3>1, DueParts DEF Places, SettledOnStack
  <2> QED
    BY <2>1, <2>2
<1>5. BspIdles'
  BY <1>1, <1>2, DueParts DEF Places, BspIdles, Moves, BSP
<1>6. NewNowhere' /\ SwitchingReleased'
  BY <1>1, <1>3, DueParts DEF Places, NewNowhere, SwitchingReleased, taskVars, Reserved, AllTasks
<1>7. KickOwed'
  BY <1>1, <1>2, DueParts, KickOwedKept
<1>8. ASSUME NEW d \in CPUs PROVE Dormant(d)' => Dormant(d)
  <2>1. CASE d = c
    BY <1>1, <1>2, <2>1 DEF Dormant, Moves, tickVars
  <2>2. CASE d # c
    BY <1>1, <1>2, <2>2 DEF Dormant, Moves, tickVars
  <2> QED
    BY <2>1, <2>2
<1>9. \A d \in CPUs : Flagged(d) => Flagged(d)'
  BY <1>1 DEF Flagged, kickVars, tickVars
<1>10. ReservedDue' /\ (AnyCpu => ReadyDue')
  BY <1>1, <1>3, <1>8, <1>9, DueParts, TasksSame, DueKept DEF tickVars, AllTasks
<1> QED
  BY <1>1, <1>4, <1>5, <1>6, <1>7, <1>10, TasksSame DEF Due, Places

LEMMA ReapDue == ASSUME IInv, Due, NEW u \in Tasks, Reap(u) PROVE Due'
<1>1. /\ tstate' = [tstate EXCEPT ![u] = "FREED"]
      /\ running_cpu' = [running_cpu EXCEPT ![u] = -1]
      /\ affinity' = affinity /\ pc' = pc
      /\ UNCHANGED cpuVars /\ UNCHANGED kickVars /\ UNCHANGED tickVars
  BY DEF Reap
<1>2. \A c \in CPUs : switching_task[c] # u
  BY DEF Reap, task_is_current_on_any_cpu
<1>3. /\ \A t \in AllTasks : t # u => tstate'[t] = tstate[t] /\ running_cpu'[t] = running_cpu[t]
      /\ tstate'[u] = "FREED" /\ Tasks \subseteq AllTasks
  BY <1>1, DueParts DEF TaskType, AllTasks
<1>4. SettledOnStack' /\ BspIdles'
  BY <1>1, DueParts DEF Places, SettledOnStack, BspIdles, Settled, cpuVars, BSP
<1>5. NewNowhere' /\ SwitchingReleased'
  BY <1>1, <1>2, <1>3, DueParts DEF Places, NewNowhere, SwitchingReleased, cpuVars, Reserved
<1>6. KickOwed'
  BY <1>1, DueParts DEF KickOwed, kickVars
<1>7. \A d \in CPUs : (Dormant(d)' <=> Dormant(d)) /\ (Flagged(d)' <=> Flagged(d))
  BY <1>1 DEF Dormant, Flagged, kickVars, tickVars
<1>8. ReservedDue' /\ (AnyCpu => ReadyDue')
  BY <1>1, <1>3, <1>7, DueParts, DueKept DEF tickVars, cpuVars
<1> QED
  BY <1>1, <1>4, <1>5, <1>6, <1>8, MasksKept DEF Due, Places

(* A switch on CPU c: the task it leaves stays with c, or is free.  In the *)
(* second case c itself, which is not dormant, is there to take it.        *)
LEMMA SwitchDue ==
    ASSUME IInv, Due, NEW c \in CPUs, NEW next \in AllTasks \cup {NoTask},
           pc[c].at = "sched", SwitchOut(c, next), next # running_task[c],
           tstate' = SwitchStates(running_task[c], next),
           \A d \in CPUs : next # NoTask => running_task[d] # next /\ switching_task[d] # next,
           overlooked \subseteq overlooked' \cup {next}, KicksAdded,
           bsp_stretched' => bsp_stretched, UNCHANGED <<affinity, tick_stopped, wake_ipi>>
    PROVE  Due'
<1> DEFINE prev == running_task[c]
           rel == Released(c, prev)
<1>1. /\ running_cpu' = [t \in AllTasks |-> CASE t = next -> c
                                              [] t = prev -> rel
                                              [] OTHER -> running_cpu[t]]
      /\ running_task' = [running_task EXCEPT ![c] = next]
      /\ switching_task' = [switching_task EXCEPT ![c] = IF @ = NoTask THEN prev ELSE @]
      /\ stack' = stack
  BY DEF SwitchOut
<1>2. rel \in {-1, Reserved(c)}
  BY DEF Released
<1> HIDE DEF rel
<1>3. /\ \A t \in AllTasks : t = next => running_cpu'[t] = c
      /\ \A t \in AllTasks : t # next /\ t = prev => running_cpu'[t] = rel
      /\ \A t \in AllTasks : t # next /\ t # prev => running_cpu'[t] = running_cpu[t]
  BY <1>1
<1>4. /\ running_task'[c] = next
      /\ \A d \in CPUs : d # c => running_task'[d] = running_task[d]
      /\ switching_task'[c] = IF switching_task[c] = NoTask THEN prev ELSE switching_task[c]
      /\ \A d \in CPUs : d # c => switching_task'[d] = switching_task[d]
  BY <1>1, DueParts DEF CpuType
<1>5. \A t \in AllTasks :
        /\ t = next => tstate'[t] = "RUNNING"
        /\ t # next /\ t = prev => tstate'[t] = tstate[t] \/ tstate'[t] = "READY"
        /\ t # next /\ t # prev => tstate'[t] = tstate[t]
  BY DEF SwitchStates
<1>6. Moves(c, "kick") /\ pc'[c].i = 0 /\ pc'[c].then = AfterSched(c)
  BY AfterSchedLabel, ThenKickDue DEF SwitchOut
<1>7. ~Settled(c)'
  BY <1>6, AfterSchedLabel DEF Settled, Moves
<1>8. Tasks \subseteq AllTasks /\ NoTask \notin AllTasks
  BY TasksAssumption DEF AllTasks
<1>9. prev \in AllTasks =>
        /\ running_cpu[prev] = c
        /\ \A d \in CPUs : switching_task[d] # prev
  <2> SUFFICES ASSUME prev \in AllTasks
               PROVE  running_cpu[prev] = c /\ \A d \in CPUs : switching_task[d] # prev
    OBVIOUS
  <2>1. running_cpu[prev] = c /\ c # -1
    BY DueParts, SMT DEF Ownership, OwnerExact, CPUs
  <2>2. ASSUME NEW d \in CPUs PROVE switching_task[d] # prev
    <3>1. c # Reserved(d)
      BY ReservedOne
    <3>2. SwitchingReleased
      BY DueParts DEF Places
    <3> QED
      BY <2>1, <3>1, <3>2 DEF SwitchingReleased
  <2> QED
    BY <2>1, <2>2
<1>10. SettledOnStack'
  <2> SUFFICES ASSUME NEW d \in CPUs, Settled(d)' PROVE stack'[d] = running_task'[d]
    BY DEF SettledOnStack, CPUs
  <2>1. d # c
    BY <1>7
  <2>2. Settled(d)
    BY <1>6, <2>1 DEF Settled, Moves
  <2> QED
    BY <1>1, <1>4, <2>1, <2>2, DueParts DEF Places, SettledOnStack
<1>11. BspIdles'
  BY <1>4, <1>6, DueParts DEF Places, BspIdles, Moves, BSP
<1>12. NewNowhere'
  <2> SUFFICES ASSUME NEW t \in Tasks, tstate'[t] = "NEW"
               PROVE  running_cpu'[t] = -1 /\ \A d \in CPUs : switching_task'[d] # t
    BY DEF NewNowhere, CPUs
  <2>1. t # next /\ tstate[t] = "NEW" /\ t \in AllTasks
    BY <1>5, <1>8
  <2>2. running_cpu[t] = -1 /\ \A d \in CPUs : switching_task[d] # t
    BY <2>1, DueParts DEF Places, NewNowhere
  <2>3. c # -1
    BY SMT DEF CPUs
  <2>4. t # prev
    BY <1>9, <2>1, <2>2, <2>3
  <2> QED
    BY <1>3, <1>4, <2>1, <2>2, <2>4
<1>13. SwitchingReleased'
  <2> SUFFICES ASSUME NEW d \in CPUs, NEW t \in AllTasks, switching_task'[d] = t
               PROVE  running_cpu'[t] \in {-1, Reserved(d)}
    BY DEF SwitchingReleased, CPUs, Reserved
  <2>1. CASE switching_task[d] = t
    <3>1. t # next /\ t # prev
      BY <1>8, <1>9, <2>1
    <3> QED
      BY <1>3, <2>1, <3>1, DueParts DEF Places, SwitchingReleased
  <2>2. CASE switching_task[d] # t
    BY <1>2, <1>3, <1>4, <2>2
  <2> QED
    BY <2>1, <2>2
<1>14. KickOwed' /\ \A d \in CPUs : wake_pending[d] => wake_pending'[d]
  BY <1>6, DueParts, KickOwedKept
<1>15. ~Dormant(c)' /\ \A d \in CPUs : Dormant(d)' => Dormant(d)
  <2>1. ~Dormant(c)'
    BY <1>6, DueParts DEF Dormant, Moves, Ticks, StoppedIdle, APs
  <2>2. \A d \in CPUs : d # c /\ Dormant(d)' => Dormant(d)
    BY <1>6 DEF Dormant, Moves
  <2> QED
    BY <2>1, <2>2
<1>16. \A d \in CPUs : Flagged(d) => Flagged(d)'
  BY <1>14 DEF Flagged
<1>17. ReservedDue'
  <2> SUFFICES ASSUME NEW t \in Tasks, NEW d \in CPUs, tstate'[t] = "READY",
                      running_cpu'[t] = Reserved(d), t \notin overlooked', Dormant(d)'
               PROVE  Flagged(d)'
    BY DEF ReservedDue, Reserved, CPUs
  <2>1. t # next /\ t \in AllTasks /\ t \notin overlooked
    BY <1>5, <1>8
  <2>2. t # prev
    BY <1>2, <1>3, <1>15, <2>1, ReservedOne
  <2> QED
    BY <1>3, <1>5, <1>15, <1>16, <2>1, <2>2, DueParts DEF ReservedDue
<1>18. ASSUME AnyCpu PROVE ReadyDue'
  <2> SUFFICES ASSUME NEW t \in Tasks, tstate'[t] = "READY", running_cpu'[t] = -1,
                      t \notin overlooked', \A d \in APs : Dormant(d)'
               PROVE  FreeDue(t)'
    BY DEF ReadyDue, APs, CPUs, BSP
  <2>1. t # next /\ t \in AllTasks /\ t \notin overlooked
    BY <1>5, <1>8
  <2>2. c = BSP /\ \A d \in APs : d # c /\ d \in CPUs
    BY <1>15 DEF APs
  <2>3. CASE t = prev
    <3>1. \A d \in APs : switching_task'[d] # t
      BY <1>4, <1>9, <2>1, <2>2, <2>3
    <3> QED
      BY <1>15, <2>2, <3>1 DEF FreeDue, APs, CPUs, BSP
  <2>4. CASE t # prev
    <3>1. FreeDue(t)
      BY <1>3, <1>5, <1>15, <1>18, <2>1, <2>2, <2>4, DueParts DEF ReadyDue
    <3>2. \A d \in APs : switching_task'[d] = switching_task[d]
      BY <1>4, <2>2
    <3> QED
      BY <1>15, <1>16, <2>2, <3>1, <3>2 DEF FreeDue, APs, CPUs, BSP
  <2> QED
    BY <2>3, <2>4
<1> QED
  BY <1>10, <1>11, <1>12, <1>13, <1>14, <1>17, <1>18, MasksKept DEF Due, Places

LEMMA SchedSwitchDue == ASSUME IInv, Due, NEW c \in CPUs, SchedSwitch(c) PROVE Due'
<1> DEFINE prev == running_task[c]
<1>1. PICK next \in Candidates(c, prev) :
        /\ tstate' = SwitchStates(prev, next)
        /\ SwitchOut(c, next)
        /\ overlooked' = overlooked \ {next}
        /\ bsp_stretched' = (bsp_stretched /\ ~(c = BSP /\ next # Idle))
  BY DEF SchedSwitch
<1>2. /\ next \in AllTasks /\ next # prev
      /\ \A d \in CPUs : running_task[d] # next /\ switching_task[d] # next
  BY CandidateFree DEF IInv
<1>3. KicksAdded
  BY DueParts, SetAdds DEF SchedSwitch
<1>4. pc[c].at = "sched" /\ UNCHANGED <<affinity, tick_stopped, wake_ipi>>
  BY DEF SchedSwitch
<1> QED
  BY <1>1, <1>2, <1>3, <1>4, SwitchDue

LEMMA SchedIdleDue == ASSUME IInv, Due, NEW c \in CPUs, SchedIdle(c) PROVE Due'
<1>1. /\ pc[c].at = "sched" /\ tstate' = SwitchStates(running_task[c], NoTask)
      /\ SwitchOut(c, NoTask) /\ affinity' = affinity /\ UNCHANGED tickVars
      /\ running_task[c] # NoTask
  BY DEF SchedIdle, MustSwitch, requires_schedule, Migrate
<1>2. KicksAdded
  BY DueParts, SetAdds DEF SchedIdle
<1> QED
  BY <1>1, <1>2, SwitchDue DEF tickVars

-----------------------------------------------------------------------------
(***************************************************************************)
(* Steps that make tasks READY                                             *)
(***************************************************************************)

(* An AP's timer is off only where its tick is announced as stopped, and   *)
(* the BSP's tick never is.                                                *)
Stopped ==
    /\ ~tick_stopped[BSP]
    /\ \A c \in APs : /\ ~timer[c] => tick_stopped[c] /\ pc[c].at # "tickcheck"
                      /\ pc[c].at = "tickoff" => tick_stopped[c]

(* CPU e marks t READY by task_mark_ready_locked. *)
Kicked(t, e) == \E K : \A d \in CPUs : d \in K \cup MarkReadyKicks(t, e, K) => wake_pending'[d]

LEMMA KickedReserved ==
    ASSUME IInv, Due, NEW e \in CPUs, NEW c \in CPUs, NEW t \in Tasks, Kicked(t, e),
           running_cpu[t] = Reserved(c), Dormant(c), c # e
    PROVE  wake_pending'[c]
<1>1. PICK K : \A d \in CPUs : d \in K \cup MarkReadyKicks(t, e, K) => wake_pending'[d]
  BY DEF Kicked
<1>2. running_task[c] \in {NoTask, Idle}
  <2>1. CASE c = BSP
    BY <2>1, DueParts DEF Places, BspIdles, Dormant
  <2>2. CASE c # BSP
    BY <2>2, DueParts DEF Ticks, StoppedIdle, Dormant, APs
  <2> QED
    BY <2>1, <2>2
<1>3. Reserved(c) # -1 /\ Reserved(c) < -1 /\ -(Reserved(c) + 2) = c
  BY SMT DEF Reserved, CPUs
<1>4. MarkReadyKicks(t, e, K) = {c}
  BY <1>2, <1>3, SMT DEF MarkReadyKicks
<1> QED
  BY <1>1, <1>4

LEMMA KickedFree ==
    ASSUME Stopped, NEW e \in CPUs, NEW t \in Tasks, Kicked(t, e), KicksAdded,
           running_cpu[t] = -1, affinity[t] = CPUs, APs # {}, \A c \in APs : tick_stopped[c]
    PROVE  \E c \in APs : wake_pending'[c]
<1>1. PICK K : \A d \in CPUs : d \in K \cup MarkReadyKicks(t, e, K) => wake_pending'[d]
  BY DEF Kicked
<1> DEFINE S == {i \in CPUs \ K : tick_stopped[i] /\ ~wake_pending[i]}
<1>2. MarkReadyKicks(t, e, K) = IF S = {} THEN {} ELSE {Min(S)}
  BY SMT DEF MarkReadyKicks, StoppedCpu
<1>3. APs \subseteq CPUs
  BY DEF APs
<1>4. CASE S = {}
  <2>1. PICK a : a \in APs
    OBVIOUS
  <2>2. a \in K \/ wake_pending[a]
    BY <1>3, <1>4, <2>1
  <2> QED
    BY <1>1, <1>3, <2>1, <2>2 DEF KicksAdded
<1>5. CASE S # {}
  <2>1. Min(S) \in S
    BY <1>5, FirstCpu
  <2> DEFINE m == Min(S)
  <2>2. m \in CPUs /\ tick_stopped[m]
    BY <2>1
  <2>3. m \in APs
    BY <2>2 DEF Stopped, APs
  <2>4. m \in MarkReadyKicks(t, e, K)
    BY <1>2, <1>5
  <2> QED
    BY <1>1, <2>2, <2>3, <2>4
<1> QED
  BY <1>4, <1>5

(* A CPU in a handler or with a task has not stopped its tick. *)
LEMMA AwakeCpu ==
    ASSUME IInv, NEW e \in CPUs, Stopped,
           pc[e].at \in {"tick", "deliver"} \/ running_task[e] # NoTask
    PROVE  ~tick_stopped[e]
BY DEF Stopped, IInv, Ticks, StoppedIdle, APs

LEMMA WakeDue ==
    ASSUME IInv, Due, Stopped, NEW e \in CPUs, Moves(e, "kick"), pc'[e].i = 0,
           pc[e].at \in {"run", "tick", "deliver"}, ~tick_stopped[e],
           Settled(e)' => Settled(e), KicksAdded,
           \A t \in Tasks : /\ tstate'[t] = "READY" =>
                                 tstate[t] \in {"READY", "NEW"} \/ Kicked(t, e)
                            /\ tstate'[t] = "NEW" => tstate[t] = "NEW",
           running_cpu' = running_cpu, AnyCpu => FullMasks',
           UNCHANGED cpuVars, UNCHANGED tickVars
    PROVE  Due'
<1>1. Places'
  BY DueParts, PlacesKept
<1>2. KickOwed' /\ \A d \in CPUs : wake_pending[d] => wake_pending'[d]
  BY DueParts, KickOwedKept
<1>3. ~Dormant(e)'
  BY DEF Dormant, Moves, tickVars
<1>4. \A d \in CPUs : Dormant(d)' => Dormant(d) /\ d # e
  BY <1>3 DEF Dormant, Moves, tickVars
<1>5. \A d \in CPUs : Flagged(d) => Flagged(d)'
  BY <1>2 DEF Flagged, tickVars
<1>6. ReservedDue'
  <2> SUFFICES ASSUME NEW t \in Tasks, NEW c \in CPUs, tstate'[t] = "READY",
                      running_cpu'[t] = Reserved(c), t \notin overlooked', Dormant(c)'
               PROVE  Flagged(c)'
    BY DEF ReservedDue, Reserved, CPUs
  <2>1. running_cpu[t] = Reserved(c) /\ t \notin overlooked /\ Dormant(c) /\ c # e
    BY <1>4 DEF tickVars
  <2>2. CASE tstate[t] = "READY"
    BY <1>5, <2>1, <2>2, DueParts DEF ReservedDue
  <2>3. CASE tstate[t] = "NEW"
    BY <2>1, <2>3, DueParts, ReservedOne DEF Places, NewNowhere
  <2>4. CASE Kicked(t, e)
    BY <2>1, <2>4, KickedReserved DEF Flagged
  <2> QED
    BY <2>2, <2>3, <2>4
<1>7. ASSUME AnyCpu PROVE ReadyDue'
  <2> SUFFICES ASSUME NEW t \in Tasks, tstate'[t] = "READY", running_cpu'[t] = -1,
                      t \notin overlooked', \A d \in APs : Dormant(d)'
               PROVE  FreeDue(t)'
    BY DEF ReadyDue, APs, CPUs, BSP
  <2>1. running_cpu[t] = -1 /\ t \notin overlooked
    BY DEF tickVars
  <2>2. APs \subseteq CPUs /\ BSP \in CPUs
    BY DueParts
  <2>3. e = BSP /\ \A d \in APs : Dormant(d)
    BY <1>3, <1>4, <2>2 DEF APs
  <2>4. CASE \A d \in APs : switching_task[d] # t
    BY <1>3, <2>3, <2>4 DEF FreeDue, cpuVars, APs, CPUs, BSP
  <2>5. CASE \E d \in APs : Flagged(d)
    BY <1>5, <2>2, <2>5 DEF FreeDue, APs, CPUs, BSP
  <2>6. CASE tstate[t] = "READY"
    BY <1>7, <2>1, <2>3, <2>4, <2>5, <2>6, DueParts DEF ReadyDue, FreeDue
  <2>7. CASE tstate[t] = "NEW"
    BY <2>2, <2>4, <2>7, DueParts DEF Places, NewNowhere
  <2>8. CASE Kicked(t, e)
    <3>1. CASE APs = {}
      BY <2>4, <3>1
    <3>2. CASE APs # {}
      <4>1. affinity[t] = CPUs
        BY <1>7, DueParts DEF FullMasks
      <4>2. \A d \in APs : tick_stopped[d]
        BY <2>3 DEF Dormant, APs
      <4>3. \E d \in APs : wake_pending'[d]
        BY <2>1, <2>8, <3>2, <4>1, <4>2, KickedFree
      <4> QED
        BY <4>3 DEF FreeDue, Flagged, APs, CPUs, BSP
    <3> QED
      BY <3>1, <3>2
  <2> QED
    BY <2>6, <2>7, <2>8
<1> QED
  BY <1>1, <1>2, <1>6, <1>7 DEF Due

-----------------------------------------------------------------------------
(* What task_mark_ready_locked tells about the task it marks. *)
LEMMA MarkedKicked ==
    ASSUME KickType, NEW STATE L, SetWakePending(L), NEW t, NEW e \in CPUs, NEW STATE K,
           K \cup MarkReadyKicks(t, e, K) \subseteq L
    PROVE  Kicked(t, e)
<1>1. \A d \in CPUs : d \in L => wake_pending'[d]
  BY SetAdds
<1>2. \A d \in CPUs : d \in K \cup MarkReadyKicks(t, e, K) => wake_pending'[d]
  BY <1>1
<1> QED
  BY <1>2 DEF Kicked

(* At most the sleeper w becomes READY, and u gets a state s. *)
LEMMA WokenKicked ==
    ASSUME IInv, NEW e \in CPUs, NEW w \in Sleepers \cup {NoTask}, NEW u \in Tasks,
           NEW STATE s, s \notin {"READY", "NEW"}, tstate' = [Woken(w) EXCEPT ![u] = s],
           SetWakePending(KicksFor(w, e, {}))
    PROVE  \A t \in Tasks : /\ tstate'[t] = "READY" =>
                                 tstate[t] \in {"READY", "NEW"} \/ Kicked(t, e)
                            /\ tstate'[t] = "NEW" => tstate[t] = "NEW"
<1> SUFFICES ASSUME NEW t \in Tasks
             PROVE  /\ tstate'[t] = "READY" => tstate[t] \in {"READY", "NEW"} \/ Kicked(t, e)
                    /\ tstate'[t] = "NEW" => tstate[t] = "NEW"
  OBVIOUS
<1>1. /\ w \in Tasks \cup {NoTask} /\ NoTask \notin Tasks /\ Tasks \subseteq AllTasks
      /\ KickType /\ TypeOK
  BY SleepersAreTasks, TasksAssumption, TaskFacts
<1>2. Woken(w) \in [AllTasks -> TStates] /\ tstate \in [AllTasks -> TStates]
  BY <1>1, WokenKeeps, TaskFacts
<1>3. tstate'[t] = IF t = u THEN s ELSE Woken(w)[t]
  BY <1>1, <1>2
<1>4. Woken(w)[t] = IF t = w THEN "READY" ELSE tstate[t]
  BY <1>1, <1>2 DEF Woken
<1>5. ASSUME t = w PROVE Kicked(t, e)
  <2>1. KicksFor(w, e, {}) = {} \cup MarkReadyKicks(t, e, {})
    BY <1>1, <1>5 DEF KicksFor
  <2> QED
    BY <1>1, <2>1, MarkedKicked
<1> QED
  BY <1>3, <1>4, <1>5

(* The sleeper u becomes READY, or no task does. *)
LEMMA WokenAlone ==
    ASSUME IInv, NEW e \in CPUs, NEW u \in Tasks,
           \/ tstate' = Woken(u) /\ SetWakePending(MarkReadyKicks(u, e, {}))
           \/ UNCHANGED <<tstate, kickVars>>
    PROVE  /\ KicksAdded
           /\ \A t \in Tasks : /\ tstate'[t] = "READY" =>
                                    tstate[t] \in {"READY", "NEW"} \/ Kicked(t, e)
                               /\ tstate'[t] = "NEW" => tstate[t] = "NEW"
<1>1. NoTask \notin Tasks /\ Tasks \subseteq AllTasks /\ KickType /\ tstate \in [AllTasks -> TStates]
  BY TasksAssumption, TaskFacts
<1>2. CASE tstate' = Woken(u) /\ SetWakePending(MarkReadyKicks(u, e, {}))
  <2>1. KicksAdded
    BY <1>1, <1>2, SetAdds
  <2>2. {} \cup MarkReadyKicks(u, e, {}) \subseteq MarkReadyKicks(u, e, {})
    OBVIOUS
  <2>3. Kicked(u, e)
    BY <1>1, <1>2, <2>2, MarkedKicked
  <2>4. \A t \in Tasks : tstate'[t] = IF t = u THEN "READY" ELSE tstate[t]
    BY <1>1, <1>2 DEF Woken
  <2> QED
    BY <2>1, <2>3, <2>4
<1>3. CASE UNCHANGED <<tstate, kickVars>>
  BY <1>3 DEF KicksAdded, kickVars
<1> QED
  BY <1>2, <1>3

-----------------------------------------------------------------------------
LEMMA WakeSleeperDue == ASSUME IInv, Due, Stopped, NEW c \in CPUs, WakeSleeper(c) PROVE Due'
<1>1. PICK w \in Sleepers : tstate' = Woken(w) /\ SetWakePending(MarkReadyKicks(w, c, {}))
  BY DEF WakeSleeper
<1>2. pc[c].at = "tick" /\ ThenKick(c, "tick") /\ running_cpu' = running_cpu
      /\ affinity' = affinity /\ UNCHANGED cpuVars /\ UNCHANGED tickVars
  BY DEF WakeSleeper
<1>3. Moves(c, "kick") /\ pc'[c].i = 0 /\ pc'[c].then = "tick"
  BY <1>2, ThenKickDue DEF Thens
<1>4. Settled(c)
  BY <1>2 DEF Settled
<1>5. ~tick_stopped[c] /\ (AnyCpu => FullMasks')
  BY <1>2, AwakeCpu, MasksKept
<1>6. w \in Tasks
  BY SleepersAreTasks
<1> QED
  BY <1>1, <1>2, <1>3, <1>4, <1>5, <1>6, WokenAlone, WakeDue

LEMMA DeliverDue == ASSUME IInv, Due, Stopped, NEW c \in CPUs, Deliver(c) PROVE Due'
<1> DEFINE t == running_task[c]
<1>1. /\ pc[c].at = "deliver" /\ pc \in [CPUs -> PCs]
      /\ running_cpu' = running_cpu /\ mode' = mode /\ affinity' = affinity
      /\ UNCHANGED cpuVars /\ UNCHANGED tickVars
  BY InvPc DEF Deliver
<1>2. CASE /\ \E at \in {"tickstop", "ret"} : Goto(c, at)
           /\ UNCHANGED <<tstate, pending, kickVars>>
  <2>1. PICK at \in {"tickstop", "ret"} : Goto(c, at)
    BY <1>2
  <2>2. UNCHANGED taskVars /\ UNCHANGED kickVars
    BY <1>1, <1>2 DEF taskVars
  <2> QED
    BY <1>1, <2>1, <2>2, HandlerDue DEF Ats, tickVars
<1>3. ASSUME t \in Tasks, NEW sig \in pending[t], NEW w \in Sleepers \cup {NoTask},
             tstate' = [Woken(w) EXCEPT ![t] = IF sig = "stop" THEN "STOPPED" ELSE "DEAD"],
             SetWakePending(KicksFor(w, c, {})),
             pc' = [pc EXCEPT ![c] = [at |-> "kick", then |-> "sched", i |-> 0,
                                      irq |-> IF @.irq = "timer" THEN "late" ELSE @.irq]]
      PROVE  Due'
  <2> DEFINE q == IF pc[c].irq = "timer" THEN "late" ELSE pc[c].irq
             r == [at |-> "kick", then |-> "sched", i |-> 0, irq |-> q]
             s == IF sig = "stop" THEN "STOPPED" ELSE "DEAD"
  <2>1. q \in Irqs
    BY <1>1, PcFields DEF Irqs
  <2>2. r \in PCs
    BY <2>1, NCpusAssumption, SMT DEF PCs, Irqs
  <2>3. Moves(c, "kick") /\ pc'[c].i = 0 /\ pc'[c].then = "sched"
    BY <1>1, <1>3, <2>2 DEF Moves
  <2>4. ~Settled(c)'
    BY <2>3 DEF Settled, Moves
  <2>5. ~tick_stopped[c] /\ (AnyCpu => FullMasks')
    BY <1>1, AwakeCpu, MasksKept
  <2>6. KicksAdded
    BY <1>3, DueParts, SetAdds
  <2>7. PICK u \in Tasks : u = t
    BY <1>3
  <2>8. s \notin {"READY", "NEW"} /\ tstate' = [Woken(w) EXCEPT ![u] = s]
    BY <1>3, <2>7
  <2>9. \A v \in Tasks : /\ tstate'[v] = "READY" =>
                              tstate[v] \in {"READY", "NEW"} \/ Kicked(v, c)
                         /\ tstate'[v] = "NEW" => tstate[v] = "NEW"
    BY <1>3, <2>8, WokenKicked
  <2> QED
    BY <1>1, <2>3, <2>4, <2>5, <2>6, <2>9, WakeDue
<1> QED
  BY <1>2, <1>3 DEF Deliver

(* A task's call that ends with task_kick_idle_cpus. *)
LEMMA CallDue ==
    ASSUME IInv, Due, Stopped, NEW c \in CPUs, NEW t \in Tasks, Executes(c, t),
           ThenKick(c, "run"), KicksAdded,
           \A u \in Tasks : /\ tstate'[u] = "READY" =>
                                 tstate[u] \in {"READY", "NEW"} \/ Kicked(u, c)
                            /\ tstate'[u] = "NEW" => tstate[u] = "NEW",
           running_cpu' = running_cpu, AnyCpu => FullMasks',
           UNCHANGED cpuVars, UNCHANGED tickVars
    PROVE  Due'
<1>1. pc[c].at = "run" /\ running_task[c] # NoTask
  BY TasksAssumption DEF Executes
<1>2. Moves(c, "kick") /\ pc'[c].i = 0 /\ Settled(c)
  BY <1>1, ThenKickDue DEF Thens, Settled
<1>3. ~tick_stopped[c]
  BY <1>1, AwakeCpu
<1> QED
  BY <1>1, <1>2, <1>3, WakeDue

LEMMA NoKicks == ASSUME UNCHANGED kickVars PROVE KicksAdded
BY DEF KicksAdded, kickVars

LEMMA BlockDue ==
    ASSUME IInv, Due, Stopped, NEW c \in CPUs, NEW t \in Tasks, Executes(c, t), Block(c, t)
    PROVE  Due'
<1>1. \A u \in Tasks : /\ tstate'[u] = "READY" => tstate[u] = "READY"
                       /\ tstate'[u] = "NEW" => tstate[u] = "NEW"
  BY TaskFacts DEF Block
<1> QED
  BY <1>1, NoKicks, MasksKept, CallDue DEF Block

LEMMA ExitDue ==
    ASSUME IInv, Due, Stopped, NEW c \in CPUs, NEW t \in Tasks, Executes(c, t), Exit(c, t)
    PROVE  Due'
<1>1. PICK w \in Sleepers \cup {NoTask} : /\ tstate' = [Woken(w) EXCEPT ![t] = "DEAD"]
                                          /\ SetWakePending(KicksFor(w, c, {}))
  BY DEF Exit
<1>2. KicksAdded
  BY <1>1, DueParts, SetAdds
<1>3. "DEAD" \notin {"READY", "NEW"}
  OBVIOUS
<1>4. \A u \in Tasks : /\ tstate'[u] = "READY" =>
                            tstate[u] \in {"READY", "NEW"} \/ Kicked(u, c)
                       /\ tstate'[u] = "NEW" => tstate[u] = "NEW"
  BY <1>1, <1>3, WokenKicked
<1> QED
  BY <1>2, <1>4, MasksKept, CallDue DEF Exit

LEMMA WakeTaskDue ==
    ASSUME IInv, Due, Stopped, NEW c \in CPUs, NEW t \in Tasks, NEW u \in Tasks,
           Executes(c, t), WakeTask(c, t, u)
    PROVE  Due'
BY WokenAlone, MasksKept, CallDue DEF WakeTask

LEMMA SendSignalDue ==
    ASSUME IInv, Due, Stopped, NEW c \in CPUs, NEW t \in Tasks, NEW u \in Tasks,
           NEW sig \in Signals, Executes(c, t), SendSignal(c, t, u, sig)
    PROVE  Due'
BY WokenAlone, MasksKept, CallDue DEF SendSignal

LEMMA ContinueDue ==
    ASSUME IInv, Due, Stopped, NEW c \in CPUs, NEW t \in Tasks, NEW u \in Tasks,
           Executes(c, t), Continue(c, t, u)
    PROVE  Due'
<1> DEFINE stopped == tstate[u] = "STOPPED"
           kicks == IF stopped THEN MarkReadyKicks(u, c, {}) ELSE {}
<1>1. PICK w \in Sleepers \cup {NoTask} :
        /\ tstate' = [Woken(w) EXCEPT ![u] = IF stopped THEN "READY" ELSE @]
        /\ SetWakePending(KicksFor(w, c, kicks))
  BY DEF Continue
<1>2. /\ w \in Tasks \cup {NoTask} /\ NoTask \notin Tasks /\ Tasks \subseteq AllTasks
      /\ KickType /\ TypeOK
  BY SleepersAreTasks, TasksAssumption, TaskFacts
<1>3. Woken(w) \in [AllTasks -> TStates] /\ tstate \in [AllTasks -> TStates]
  BY <1>2, WokenKeeps, TaskFacts
<1>4. \A v \in Tasks : Woken(w)[v] = IF v = w THEN "READY" ELSE tstate[v]
  BY <1>2, <1>3 DEF Woken
<1>5. \A v \in Tasks : tstate'[v] = IF v = u /\ stopped THEN "READY" ELSE Woken(w)[v]
  BY <1>1, <1>2, <1>3
<1>6. kicks \subseteq KicksFor(w, c, kicks)
  BY DEF KicksFor
<1>7. ASSUME stopped PROVE Kicked(u, c)
  <2>1. {} \cup MarkReadyKicks(u, c, {}) \subseteq KicksFor(w, c, kicks)
    BY <1>6, <1>7
  <2> HIDE DEF kicks
  <2> QED
    BY <1>1, <1>2, <2>1, MarkedKicked
<1>8. ASSUME w # NoTask PROVE Kicked(w, c)
  <2> HIDE DEF kicks
  <2>1. kicks \cup MarkReadyKicks(w, c, kicks) \subseteq KicksFor(w, c, kicks)
    BY <1>8 DEF KicksFor
  <2> QED
    BY <1>1, <1>2, <2>1, MarkedKicked
<1>9. \A v \in Tasks : /\ tstate'[v] = "READY" =>
                            tstate[v] \in {"READY", "NEW"} \/ Kicked(v, c)
                       /\ tstate'[v] = "NEW" => tstate[v] = "NEW"
  BY <1>2, <1>4, <1>5, <1>7, <1>8
<1>10. KicksAdded
  <2> HIDE DEF kicks
  <2> QED
    BY <1>1, <1>2, SetAdds
<1> QED
  BY <1>9, <1>10, MasksKept, CallDue DEF Continue

LEMMA KillDue ==
    ASSUME IInv, Due, Stopped, NEW c \in CPUs, NEW t \in Tasks, NEW u \in Tasks,
           Executes(c, t), Kill(c, t, u)
    PROVE  Due'
<1>1. CASE \/ tstate' = Woken(u) /\ SetWakePending(MarkReadyKicks(u, c, {}))
           \/ UNCHANGED <<tstate, kickVars>>
  BY <1>1, WokenAlone, MasksKept, CallDue DEF Kill
<1>2. ASSUME NEW w \in (Sleepers \ {u}) \cup {NoTask},
             tstate' = [Woken(w) EXCEPT ![u] = "DEAD"],
             SetWakePending(KicksFor(w, c, {}))
      PROVE  Due'
  <2>1. w \in Sleepers \cup {NoTask} /\ "DEAD" \notin {"READY", "NEW"}
    OBVIOUS
  <2>2. KicksAdded
    BY <1>2, DueParts, SetAdds
  <2>3. \A v \in Tasks : /\ tstate'[v] = "READY" =>
                              tstate[v] \in {"READY", "NEW"} \/ Kicked(v, c)
                         /\ tstate'[v] = "NEW" => tstate[v] = "NEW"
    BY <1>2, <2>1, WokenKicked
  <2> QED
    BY <2>2, <2>3, MasksKept, CallDue DEF Kill
<1> QED
  BY <1>1, <1>2 DEF Kill

LEMMA SetAffinityDue ==
    ASSUME IInv, Due, Stopped, NEW c \in CPUs, NEW t \in Tasks, NEW u \in Tasks,
           Executes(c, t), SetAffinity(c, t, u)
    PROVE  Due'
<1>1. PICK mask \in Affinities : affinity' = [affinity EXCEPT ![u] = mask]
  BY DEF SetAffinity
<1>2. AnyCpu => FullMasks'
  BY <1>1, DueParts, TaskFacts DEF AnyCpu, FullMasks, CPUs
<1>3. tstate' = tstate
  BY DEF SetAffinity
<1> QED
  BY <1>2, <1>3, NoKicks, CallDue DEF SetAffinity

(* The child of a fork is READY without a flag: the CPU that forks takes   *)
(* it, unless another does.                                                *)
LEMMA ForkDue ==
    ASSUME IInv, Due, Stopped, NEW c \in CPUs, NEW t \in Tasks, NEW u \in Tasks,
           Executes(c, t), Fork(c, t, u)
    PROVE  Due'
<1>1. AnyCpu => FullMasks'
  BY DueParts, TaskFacts DEF Fork, FullMasks, CPUs
<1>2. \A v \in Tasks : /\ tstate'[v] = "READY" => tstate[v] \in {"READY", "NEW"}
                       /\ tstate'[v] = "NEW" => tstate[v] = "NEW"
  BY TaskFacts DEF Fork
<1> QED
  BY <1>1, <1>2, NoKicks, CallDue DEF Fork

LEMMA ScheduleDue ==
    ASSUME IInv, Due, NEW c \in CPUs, NEW t \in Tasks, Schedule(c, t) PROVE Due'
<1> DEFINE r == [at |-> "sched", irq |-> "int48", then |-> "run", i |-> 0]
<1>1. r \in PCs
  BY NCpusAssumption, SMT DEF PCs
<1>2. Moves(c, "sched") /\ pc'[c].i = 0
  BY <1>1, TaskFacts DEF Moves, Schedule
<1>3. ~Settled(c)'
  BY <1>2 DEF Settled, Moves
<1>4. pc[c].at = "run" /\ UNCHANGED taskVars /\ UNCHANGED cpuVars /\ UNCHANGED tickVars
      /\ UNCHANGED kickVars
  BY DEF Schedule
<1> QED
  BY <1>2, <1>3, <1>4, TasksSame, PlainDue DEF tickVars

LEMMA EnterKernelDue ==
    ASSUME IInv, Due, NEW c \in CPUs, NEW t \in Tasks, Executes(c, t), EnterKernel(c, t)
    PROVE  Due'
<1>1. /\ pc[c].at = "run" /\ pc' = pc /\ tstate' = tstate /\ running_cpu' = running_cpu
      /\ affinity' = affinity /\ UNCHANGED cpuVars /\ UNCHANGED kickVars /\ UNCHANGED tickVars
  BY DEF Executes, EnterKernel
<1>2. Moves(c, "run") /\ pc'[c].i = 0 /\ (Settled(c)' => Settled(c))
  BY <1>1, DueParts DEF Moves, Settled
<1> QED
  BY <1>1, <1>2, MasksKept, PlainDue DEF tickVars

LEMMA LeaveKernelDue ==
    ASSUME IInv, Due, NEW c \in CPUs, NEW t \in Tasks, Executes(c, t), LeaveKernel(c, t)
    PROVE  Due'
<1> DEFINE r == [at |-> "deliver", irq |-> "exit", then |-> "run", i |-> 0]
<1>1. /\ pc[c].at = "run" /\ tstate' = tstate /\ running_cpu' = running_cpu
      /\ affinity' = affinity /\ UNCHANGED cpuVars /\ UNCHANGED kickVars /\ UNCHANGED tickVars
      /\ pc' = pc \/ pc' = [pc EXCEPT ![c] = r]
  BY DEF Executes, LeaveKernel
<1>2. Settled(c)
  BY <1>1 DEF Settled
<1>3. CASE pc' = pc
  <2>1. Moves(c, "run") /\ pc'[c].i = 0
    BY <1>1, <1>3, DueParts DEF Moves
  <2> QED
    BY <1>1, <1>2, <2>1, MasksKept, PlainDue DEF tickVars
<1>4. CASE pc' = [pc EXCEPT ![c] = r]
  <2>1. r \in PCs
    BY NCpusAssumption, SMT DEF PCs
  <2>2. Moves(c, "deliver") /\ pc'[c].i = 0
    BY <1>4, <2>1, DueParts DEF Moves
  <2> QED
    BY <1>1, <1>2, <2>2, MasksKept, PlainDue DEF tickVars
<1> QED
  BY <1>1, <1>3, <1>4

-----------------------------------------------------------------------------
(***************************************************************************)
(* Only task_cpu_tick_stop and interrupts touch an AP's tick               *)
(***************************************************************************)

(* CPU c goes on outside the end of task_cpu_tick_stop. *)
Leads(c) ==
    /\ \A d \in CPUs : d # c => pc'[d] = pc[d]
    /\ pc'[c].at \notin {"tickcheck", "tickoff"}

LEMMA StoppedKept ==
    ASSUME Stopped, NEW c \in CPUs, Leads(c), UNCHANGED <<tick_stopped, timer>>
    PROVE  Stopped'
<1>1. \A d \in APs : /\ ~timer'[d] => tick_stopped'[d] /\ pc'[d].at # "tickcheck"
                     /\ pc'[d].at = "tickoff" => tick_stopped'[d]
  BY DEF Stopped, Leads, APs
<1> QED
  BY <1>1 DEF Stopped, APs, CPUs, BSP

LEMMA MovesLeads ==
    ASSUME NEW c \in CPUs, NEW STATE at, Moves(c, at), at \notin {"tickcheck", "tickoff"}
    PROVE  Leads(c)
BY DEF Moves, Leads

LEMMA GotoLeads ==
    ASSUME IInv, NEW c \in CPUs, NEW STATE at, at \in Ats \ {"tickcheck", "tickoff"}, Goto(c, at)
    PROVE  Leads(c)
BY InvPc, GotoMoves, MovesLeads

LEMMA ThenKickLeads ==
    ASSUME IInv, NEW c \in CPUs, NEW STATE then, then \in Thens, ThenKick(c, then)
    PROVE  Leads(c)
BY InvPc, ThenKickMoves, MovesLeads

LEMMA KickStopped ==
    ASSUME IInv, Stopped, NEW c \in CPUs, KickTake(c) \/ KickCpu(c) PROVE Stopped'
<1>1. UNCHANGED <<tick_stopped, timer>>
  BY DEF KickTake, KickCpu, tickVars
<1>2. CASE KickDone(c)
  BY <1>1, <1>2, InvPc, KickDoneMoves, MovesLeads, StoppedKept DEF Thens
<1>3. CASE Goto(c, "kickcpu")
  BY <1>1, <1>3, GotoLeads, StoppedKept DEF Ats
<1>4. CASE pc[c].at = "kickcpu" /\ pc' = [pc EXCEPT ![c] = [at |-> @.at, irq |-> @.irq,
                                                           then |-> @.then, i |-> @.i + 1]]
  <2>1. Leads(c)
    BY <1>4, InvPc DEF Leads
  <2> QED
    BY <1>1, <2>1, StoppedKept
<1> QED
  BY <1>2, <1>3, <1>4 DEF KickTake, KickCpu

LEMMA ScheduleStopped ==
    ASSUME IInv, Stopped, NEW c \in CPUs,
           SchedKeep(c) \/ SchedNone(c) \/ SchedSwitch(c) \/ SchedIdle(c) \/ SchedPanic(c)
    PROVE  Stopped'
<1>1. UNCHANGED <<tick_stopped, timer>>
  BY DEF SchedKeep, SchedNone, SchedSwitch, SchedIdle, SchedPanic, tickVars
<1>2. \/ Goto(c, "panic") \/ Goto(c, AfterSched(c)) \/ ThenKick(c, AfterSched(c))
  BY DEF SchedKeep, SchedNone, SchedSwitch, SchedIdle, SchedPanic, SwitchOut
<1>3. "panic" \in Ats \ {"tickcheck", "tickoff"}
  BY DEF Ats
<1>4. AfterSched(c) \in Ats \ {"tickcheck", "tickoff"} /\ AfterSched(c) \in Thens
  BY AfterSchedLabel
<1>5. Leads(c)
  BY <1>2, <1>3, <1>4, GotoLeads, ThenKickLeads
<1> QED
  BY <1>1, <1>5, StoppedKept

LEMMA HandleStopped ==
    ASSUME IInv, Stopped, NEW c \in CPUs,
           \/ RestartNotify(c) \/ HandleTick(c) \/ InterruptReturn(c) \/ WakeSleeper(c)
           \/ TickIdle(c) \/ TickStretch(c) \/ TickRecheck(c)
    PROVE  Stopped'
<1>1. UNCHANGED <<tick_stopped, timer>>
  BY DEF RestartNotify, HandleTick, InterruptReturn, WakeSleeper, TickIdle, TickStretch,
         TickRecheck, tickVars
<1>2. ASSUME NEW at \in {"tick", "sched", "ret", "stretch", "halt", "recheck"}, Goto(c, at)
      PROVE  Stopped'
  BY <1>1, <1>2, GotoLeads, StoppedKept DEF Ats
<1>3. CASE RestartNotify(c) \/ HandleTick(c)
  BY <1>2, <1>3 DEF RestartNotify, HandleTick
<1>4. CASE InterruptReturn(c)
  BY <1>1, <1>4, InvPc, ResumeMoves, MovesLeads, StoppedKept DEF InterruptReturn
<1>5. CASE WakeSleeper(c)
  BY <1>1, <1>5, ThenKickLeads, StoppedKept DEF WakeSleeper, Thens
<1>6. CASE TickIdle(c) \/ TickStretch(c) \/ TickRecheck(c)
  BY <1>2, <1>6 DEF TickIdle, TickStretch, TickRecheck
<1> QED
  BY <1>3, <1>4, <1>5, <1>6

LEMMA DeliverStopped == ASSUME IInv, Stopped, NEW c \in CPUs, Deliver(c) PROVE Stopped'
<1>1. UNCHANGED <<tick_stopped, timer>>
  BY DEF Deliver, tickVars
<1>2. CASE \E at \in {"tickstop", "ret"} : Goto(c, at)
  BY <1>1, <1>2, GotoLeads, StoppedKept DEF Ats
<1>3. CASE pc' = [pc EXCEPT ![c] = [at |-> "kick", then |-> "sched", i |-> 0,
                                    irq |-> IF @.irq = "timer" THEN "late" ELSE @.irq]]
  <2>1. Leads(c)
    BY <1>3, InvPc DEF Leads
  <2> QED
    BY <1>1, <2>1, StoppedKept
<1> QED
  BY <1>2, <1>3 DEF Deliver

LEMMA TaskStepStopped ==
    ASSUME IInv, Stopped, NEW c \in CPUs, NEW t \in Tasks, TaskStep(c, t) PROVE Stopped'
<1>1. UNCHANGED <<tick_stopped, timer>>
  BY DEF TaskStep, Schedule, EnterKernel, LeaveKernel, Block, Exit, WakeTask, Continue, Kill,
         SetAffinity, Fork, SendSignal, tickVars
<1>2. CASE ThenKick(c, "run")
  BY <1>1, <1>2, ThenKickLeads, StoppedKept DEF Thens
<1>3. CASE pc' = pc
  BY <1>1, <1>3 DEF Stopped, APs, CPUs, BSP
<1>4. ASSUME NEW at \in {"sched", "deliver"}, NEW irq \in {"int48", "exit"},
             pc' = [pc EXCEPT ![c] = [at |-> at, irq |-> irq, then |-> "run", i |-> 0]]
      PROVE  Stopped'
  <2>1. Leads(c)
    BY <1>4, InvPc DEF Leads
  <2> QED
    BY <1>1, <2>1, StoppedKept
<1>5. CASE Schedule(c, t) \/ EnterKernel(c, t) \/ LeaveKernel(c, t)
  BY <1>3, <1>4, <1>5 DEF Schedule, EnterKernel, LeaveKernel
<1>6. CASE Block(c, t) \/ Exit(c, t)
  BY <1>2, <1>6 DEF Block, Exit
<1>7. ASSUME NEW u \in Tasks,
             \/ WakeTask(c, t, u) \/ Continue(c, t, u) \/ Kill(c, t, u)
             \/ SetAffinity(c, t, u) \/ Fork(c, t, u)
             \/ \E sig \in Signals : SendSignal(c, t, u, sig)
      PROVE  Stopped'
  BY <1>2, <1>7 DEF WakeTask, Continue, Kill, SetAffinity, Fork, SendSignal
<1> QED
  BY <1>5, <1>6, <1>7 DEF TaskStep

(* The steps that do touch the tick. *)
LEMMA OneTick ==
    ASSUME IInv, Stopped, NEW c \in CPUs, NEW STATE at, Moves(c, at),
           NEW STATE on, on \in BOOLEAN, NEW STATE stop, stop \in BOOLEAN,
           timer' = [timer EXCEPT ![c] = on], tick_stopped' = [tick_stopped EXCEPT ![c] = stop],
           stop => c \in APs, ~on => stop /\ at # "tickcheck", at = "tickoff" => stop
    PROVE  Stopped'
<1>1. TickType /\ BSP \in CPUs
  BY TypeParts, ZeroCpu DEF IInv
<1>2. ~tick_stopped'[BSP]
  BY <1>1 DEF Stopped, TickType, APs
<1>3. ASSUME NEW d \in APs
      PROVE  /\ ~timer'[d] => tick_stopped'[d] /\ pc'[d].at # "tickcheck"
             /\ pc'[d].at = "tickoff" => tick_stopped'[d]
  <2>1. d \in CPUs
    BY DEF APs
  <2>2. CASE d = c
    BY <1>1, <2>1, <2>2 DEF TickType, Moves
  <2>3. CASE d # c
    BY <1>1, <2>1, <2>3 DEF TickType, Moves, Stopped
  <2> QED
    BY <2>2, <2>3
<1> QED
  BY <1>2, <1>3 DEF Stopped, APs, CPUs, BSP

LEMMA InterruptStopped ==
    ASSUME IInv, Stopped, NEW c \in CPUs, NEW irq \in Irqs, InterruptEntry(c, irq)
    PROVE  Stopped'
<1>1. timer' = [timer EXCEPT ![c] = TRUE] /\ tick_stopped' = [tick_stopped EXCEPT ![c] = FALSE]
  BY DEF InterruptEntry
<1> DEFINE a == IF tick_stopped[c] THEN "restart" ELSE "tick"
           r == [at |-> a, irq |-> irq, then |-> "run", i |-> 0]
<1>2. r \in PCs
  BY NCpusAssumption, SMT DEF PCs, Irqs
<1>3. Moves(c, a)
  BY <1>2, InvPc DEF Moves, InterruptEntry
<1>4. a \notin {"tickcheck", "tickoff"}
  OBVIOUS
<1> HIDE DEF a
<1> QED
  BY <1>1, <1>3, <1>4, OneTick

LEMMA TickStopStopped ==
    ASSUME IInv, Stopped, NEW c \in CPUs, TickStop(c) \/ TickCheck(c) \/ TickOff(c)
    PROVE  Stopped'
<1>1. TickType /\ pc \in [CPUs -> PCs]
  BY TypeParts, InvPc DEF IInv
<1>2. pc[c].at \in {"tickcheck", "tickoff"} => c \in APs
  BY DEF IInv, Ticks, BspTicks, APs
<1>3. CASE TickStop(c)
  <2>1. timer' = timer /\ pc[c].at = "tickstop"
    BY <1>3 DEF TickStop
  <2>2. CASE c \in APs /\ running_task[c] = NoTask
    <3>1. timer[c]
      BY <2>1, <2>2 DEF IInv, Ticks, StoppedIdle
    <3>2. tick_stopped' = [tick_stopped EXCEPT ![c] = TRUE] /\ Goto(c, "tickcheck")
      BY <1>3, <2>2 DEF TickStop
    <3>3. Moves(c, "tickcheck")
      BY <1>1, <3>2, GotoMoves DEF Ats
    <3>4. timer' = [timer EXCEPT ![c] = TRUE]
      BY <1>1, <2>1, <3>1, SMT DEF TickType
    <3> QED
      BY <2>2, <3>2, <3>3, <3>4, OneTick
  <2>3. CASE ~(c \in APs /\ running_task[c] = NoTask)
    <3>1. tick_stopped' = tick_stopped /\ Goto(c, "ret")
      BY <1>3, <2>3 DEF TickStop
    <3> QED
      BY <2>1, <3>1, GotoLeads, StoppedKept DEF Ats
  <2> QED
    BY <2>2, <2>3
<1>4. CASE TickCheck(c)
  <2> DEFINE stop == ~HasWork(c)
             at == IF stop THEN "tickoff" ELSE "ret"
  <2>1. /\ tick_stopped' = [tick_stopped EXCEPT ![c] = stop] /\ timer' = timer
        /\ pc[c].at = "tickcheck" /\ Goto(c, at)
    BY <1>4 DEF TickCheck
  <2>2. c \in APs /\ timer[c]
    BY <1>2, <2>1 DEF Stopped
  <2>3. at \in Ats /\ stop \in BOOLEAN /\ (at = "tickoff" => stop)
    BY DEF Ats, HasWork
  <2>4. timer' = [timer EXCEPT ![c] = TRUE]
    BY <1>1, <2>1, <2>2, SMT DEF TickType
  <2> HIDE DEF stop, at
  <2>5. Moves(c, at)
    BY <1>1, <2>1, <2>3, GotoMoves
  <2> QED
    BY <2>1, <2>2, <2>3, <2>4, <2>5, OneTick
<1>5. CASE TickOff(c)
  <2>1. timer' = [timer EXCEPT ![c] = FALSE] /\ tick_stopped' = tick_stopped
        /\ pc[c].at = "tickoff" /\ Goto(c, "ret")
    BY <1>5 DEF TickOff
  <2>2. c \in APs /\ tick_stopped[c]
    BY <1>2, <2>1 DEF Stopped
  <2>3. tick_stopped' = [tick_stopped EXCEPT ![c] = TRUE]
    BY <1>1, <2>1, <2>2, SMT DEF TickType
  <2>4. Moves(c, "ret") /\ "ret" \notin {"tickcheck", "tickoff"}
    BY <1>1, <2>1, GotoMoves DEF Ats
  <2> QED
    BY <2>1, <2>2, <2>3, <2>4, OneTick
<1> QED
  BY <1>3, <1>4, <1>5

-----------------------------------------------------------------------------
(***************************************************************************)
(* The second invariant and what follows from it                           *)
(***************************************************************************)

LEMMA InitDue == Init => Stopped /\ Due
<1> SUFFICES ASSUME Init PROVE Stopped /\ Due
  OBVIOUS
<1>1. /\ \A c \in CPUs : pc[c].at = "run" /\ pc[c].then = "run" /\ pc[c].i = 0
      /\ \A c \in CPUs : ~tick_stopped[c] /\ timer[c] /\ switching_task[c] = NoTask
      /\ \A c \in CPUs : ~wake_pending[c] /\ stack[c] = running_task[c]
      /\ ~idle_wake_pending /\ ~bsp_stretched /\ BSP \in CPUs /\ APs \subseteq CPUs
  BY ZeroCpu DEF Init, Running, APs
<1>2. Stopped
  BY <1>1 DEF Stopped
<1>3. \A c \in CPUs : ~Dormant(c)
  BY <1>1 DEF Dormant
<1>4. NoTask \notin AllTasks /\ Tasks \subseteq AllTasks
  BY TasksAssumption DEF AllTasks
<1>5. Places
  <2>1. \A t \in Tasks : tstate[t] = "NEW" => running_cpu[t] = -1
    BY <1>4, TasksAssumption DEF Init, AllTasks
  <2> QED
    BY <1>1, <1>4, <2>1 DEF Places, SettledOnStack, BspIdles, NewNowhere, SwitchingReleased
<1>6. KickOwed
  BY <1>1 DEF KickOwed
<1>7. ReservedDue
  BY <1>3 DEF ReservedDue
<1>8. FullMasks
  BY <1>4 DEF Init, FullMasks
<1>9. ReadyDue
  BY <1>1, <1>3, <1>4 DEF ReadyDue, FreeDue
<1> QED
  BY <1>2, <1>5, <1>6, <1>7, <1>8, <1>9 DEF Due

LEMMA StutterDue == ASSUME Stopped, Due, UNCHANGED vars PROVE Stopped' /\ Due'
<1>1. /\ UNCHANGED taskVars /\ UNCHANGED cpuVars /\ UNCHANGED kickVars
      /\ UNCHANGED tickVars /\ pc' = pc
  BY DEF vars
<1>2. Stopped'
  BY <1>1 DEF Stopped, tickVars, APs, CPUs, BSP
<1>3. Places' /\ KickOwed'
  BY <1>1 DEF Due, Places, SettledOnStack, BspIdles, NewNowhere, SwitchingReleased, Settled,
              KickOwed, taskVars, cpuVars, kickVars, CPUs, BSP, Reserved
<1>4. /\ \A d \in CPUs : (Dormant(d)' <=> Dormant(d)) /\ (Flagged(d)' <=> Flagged(d))
      /\ overlooked' = overlooked /\ switching_task' = switching_task
  BY <1>1 DEF Dormant, Flagged, kickVars, tickVars, cpuVars
<1>5. ReservedDue' /\ (AnyCpu => ReadyDue')
  BY <1>1, <1>4, TasksSame, DueKept DEF Due
<1> QED
  BY <1>1, <1>2, <1>3, <1>5, TasksSame DEF Due

LEMMA HandlerStepDue ==
    ASSUME IInv, Stopped, Due, NEW c \in CPUs, HandlerStep(c) PROVE Stopped' /\ Due'
<1>1. Due'
  BY KickTakeDue, KickCpuDue, RestartNotifyDue, HandleTickDue, SchedKeepDue, SchedNoneDue,
     SchedSwitchDue, SchedIdleDue, SchedPanicDue, InterruptReturnDue, DeliverDue,
     TickStopDue, TickCheckDue, TickOffDue, TickStretchDue, TickRecheckDue
  DEF HandlerStep
<1>2. Stopped'
  BY KickStopped, ScheduleStopped, HandleStopped, DeliverStopped, TickStopStopped
  DEF HandlerStep
<1> QED
  BY <1>1, <1>2

LEMMA TaskStepDue ==
    ASSUME IInv, Stopped, Due, NEW c \in CPUs, NEW t \in Tasks, TaskStep(c, t)
    PROVE  Stopped' /\ Due'
<1>1. Due'
  BY ScheduleDue, EnterKernelDue, LeaveKernelDue, BlockDue, ExitDue, WakeTaskDue, ContinueDue,
     KillDue, SetAffinityDue, ForkDue, SendSignalDue
  DEF TaskStep
<1> QED
  BY <1>1, TaskStepStopped

LEMMA InterruptDue ==
    ASSUME IInv, Stopped, Due, NEW c \in CPUs,
           TimerInterrupt(c) \/ EarlyInterrupt(c) \/ WakeInterrupt(c)
    PROVE  Stopped' /\ Due'
<1>1. PICK irq \in {"timer", "early", "wake"} :
        /\ InterruptEntry(c, irq)
        /\ wake_ipi' = wake_ipi \/ wake_ipi' = [wake_ipi EXCEPT ![c] = FALSE]
  BY DEF TimerInterrupt, EarlyInterrupt, WakeInterrupt
<1>2. irq \in Irqs
  BY DEF Irqs
<1> QED
  BY <1>1, <1>2, InterruptEntryDue, InterruptStopped

LEMMA NextDue == IInv /\ Stopped /\ Due /\ [Next]_vars => Stopped' /\ Due'
<1> SUFFICES ASSUME IInv, Stopped, Due, [Next]_vars PROVE Stopped' /\ Due'
  OBVIOUS
<1>1. CASE UNCHANGED vars
  BY <1>1, StutterDue
<1>2. ASSUME NEW c \in CPUs, HandlerStep(c) PROVE Stopped' /\ Due'
  BY <1>2, HandlerStepDue
<1>3. ASSUME NEW c \in CPUs, NEW t \in Tasks, TaskStep(c, t) PROVE Stopped' /\ Due'
  BY <1>3, TaskStepDue
<1>4. ASSUME NEW c \in CPUs, TimerInterrupt(c) \/ EarlyInterrupt(c) \/ WakeInterrupt(c)
      PROVE  Stopped' /\ Due'
  BY <1>4, InterruptDue
<1>5. ASSUME NEW c \in CPUs, WakeSleeper(c) \/ TickIdle(c) PROVE Stopped' /\ Due'
  BY <1>5, WakeSleeperDue, TickIdleDue, HandleStopped
<1>6. ASSUME NEW u \in Tasks, Reap(u) PROVE Stopped' /\ Due'
  <2>1. UNCHANGED tickVars /\ pc' = pc
    BY <1>6 DEF Reap
  <2>2. Stopped'
    BY <2>1 DEF Stopped, tickVars, APs, CPUs, BSP
  <2> QED
    BY <1>6, <2>2, ReapDue
<1> QED
  BY <1>1, <1>2, <1>3, <1>4, <1>5, <1>6 DEF Next

(* The second invariant holds in every reachable state. *)
THEOREM WakeupsDue == Spec => [](IInv /\ Stopped /\ Due)
BY InitIInv, InitDue, NextIInv, NextDue, PTL DEF Spec

(* A CPU that is flagged, or that is not dormant, is attentive. *)
LEMMA DormantOrAttentive ==
    ASSUME IInv, Stopped, Due, NEW c \in CPUs
    PROVE  Attentive(c) \/ (Dormant(c) /\ ~Flagged(c))
<1>1. Flagged(c) => Attentive(c)
  BY DueParts DEF Flagged, Attentive, KickOwed
<1>2. CASE c = BSP
  BY <1>1, <1>2 DEF Dormant, Attentive
<1>3. CASE c # BSP
  BY <1>1, <1>3 DEF Dormant, Attentive, Stopped, APs
<1> QED
  BY <1>2, <1>3

(* A READY task that is reserved for a CPU is never left to a CPU that     *)
(* sleeps without a wake-up on its way: task_mark_ready_locked against     *)
(* task_cpu_tick_stop and smp_tick_idle, for any number of CPUs and tasks  *)
(* and any masks.                                                          *)
THEOREM ReservedNotForgotten == Spec => []ReservedAttended
<1>1. IInv /\ Stopped /\ Due => ReservedAttended
  <2> SUFFICES ASSUME IInv, Stopped, Due, NEW t \in Tasks, NEW c \in CPUs,
                      tstate[t] = "READY", running_cpu[t] = Reserved(c), t \notin overlooked
               PROVE  Attentive(c)
    BY DEF ReservedAttended
  <2>1. Dormant(c) => Flagged(c)
    BY DueParts DEF ReservedDue
  <2> QED
    BY <2>1, DormantOrAttentive
<1> QED
  BY <1>1, WakeupsDue, PTL

(* Where every task may run on every CPU, a READY task that is free is     *)
(* never left while all CPUs sleep: the last AP to stop its tick, or the   *)
(* BSP before it stretches its own, has looked at the task, or a wake-up   *)
(* is on its way.  (task_set_cpu_affinity_mask changes the mask of a READY *)
(* task without waking the CPUs it now names, so the theorem does not      *)
(* extend to other masks.)                                                 *)
THEOREM ReadyNotForgotten ==
    ASSUME Affinities \subseteq {CPUs}
    PROVE  Spec => []ReadyAttended
<1>1. IInv /\ Stopped /\ Due => ReadyAttended
  <2> SUFFICES ASSUME IInv, Stopped, Due, NEW t \in Tasks, tstate[t] = "READY",
                      running_cpu[t] = -1, t \notin overlooked,
                      \A c \in CPUs : ~Attentive(c)
               PROVE  FALSE
    BY DEF ReadyAttended
  <2>1. \A c \in CPUs : Dormant(c) /\ ~Flagged(c)
    BY DormantOrAttentive
  <2>2. APs \subseteq CPUs /\ BSP \in CPUs /\ ReadyDue
    BY DueParts DEF AnyCpu
  <2>3. FreeDue(t)
    BY <2>1, <2>2 DEF ReadyDue
  <2> QED
    BY <2>1, <2>2, <2>3 DEF FreeDue
<1> QED
  BY <1>1, WakeupsDue, PTL
=============================================================================

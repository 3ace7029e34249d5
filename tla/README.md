# Lebirun kernel: TLA+ models and proofs

Lebirun is an x86_64 operating system kernel in C (`src/kernel`), with loadable modules
(`src/modules`), a C library (`src/libc`) and user programs (`src/userprog`). This directory
models the parts of the kernel where several actors meet: CPUs, tasks, interrupts and the
queues between them. TLC checks the models on small instances; TLAPS proves the central
invariants for every instance. `PROJECT.json` maps every definition to the lines it models.

Paths below are relative to `src/kernel/arch/x86_64/`.

## The system

| Part | State | Operations | What makes it hard |
|---|---|---|---|
| wait queues (`task.c`) | a list threaded through `wait_next`, `in_wait_queue`, `waiting_queue` | `waitq_add`, `waitq_pop_locked`, `waitq_remove_locked` | a task must never be linked twice or left linked |
| kernel mutex (`mutex.c`) | `locked`, `owner`, `depth`, `waiters`, `pi_boost` | `mutex_lock`, `mutex_trylock`, `mutex_unlock` | fast paths read without `sched_lock`; lost wake-ups |
| SMP scheduler (`task.c`, `idt.c`, `interrupts.S`) | `state`, `running_cpu`, `running_task`, `switching_task` | `schedule_from_irq` and its callers, wake, kill, stop, fork, reap | two CPUs on one kernel stack; a stack freed under a CPU |
| idle CPUs (`smp.c`, `task.c`) | `tick_stopped`, `wake_pending`, `bsp_stretched` | `task_cpu_tick_stop`, `smp_tick_restart`, `smp_tick_idle`, the wake IPI | a READY task that every CPU sleeps through |
| futexes (`task.c`, `syscalls/syscall_epoll.c`) | `waiting_queue` as a key, `futex_bitset`, deadlines | wait, wake, requeue | a wake between test and sleep; timeout against wake |
| pipes (`syscalls/syscall_core.c`, `pipe.h`) | `buffer`, positions, `count`, `readers`, `writers`, two wait queues | read, write, resize, retain, release | wrap and resize; sleeping after a stale test |
| process life cycle, signals | `refs`, `join_refs`, `waited`, pending sets | `waitpid`, join, reap, delivery | unlocked tests, check-then-block |
| descriptor readiness, epoll, ptys, sockets, pthread objects | generations, byte rings, wait queues | poll, read, write, close | sleeping after a stale test |
| memory (`mem/`), TLB shootdown (`smp.c`) | reference counts, free lists, generations | allocate, copy on write, flush | counts at their limits, everyone waiting on everyone |
| network protocols (`drivers/net`) | connection states, caches, leases | segment, timer and user handlers | lost and reordered packets, retries |
| file systems, drivers, console, loader, emulator, crypto | tables and formats | mostly sequential | data rather than control |

`PROJECT.json` lists every part with its status. Everything from the seventh row down is not
modelled yet; the last section gives the order in which it is planned.

How the modelled parts interact: a blocked `mutex_lock` waits on a wait queue; leaving a wait
queue makes a task READY (`task_mark_ready_locked`), which may flag a CPU whose tick is stopped;
`task_kick_idle_cpus`, run at the end of every `sched_lock` section, turns flags into IPIs; the
IPI's handler calls `schedule_from_irq`.

## Modules

**`WaitQueue`** has the list operations as operators on sequences (the first element is
`q->head`). `waitq_pop_locked` is `Head` and `Tail` in its users. Its skipping of DEAD tasks is
left out: a task is unlinked before it dies.

**`Mutex`** runs `mutex_lock`, `mutex_trylock` and `mutex_unlock` one atomic access or one
`sched_lock` section at a time; `pc[t]` names the place (the list is at the head of the module).
`held[t]` is a ghost: acquisitions handed out and not given back. Left out: the branches taken
before the scheduler starts (one CPU, no contention) and the `kernel_stage` byte. Merged: the
stores of `owner` and `depth` after a successful CAS, and the 64 reads of the spin.

**`Sched`** is the scheduler together with the idle-CPU machinery. One step is one `sched_lock`
section or one unlocked atomic access. `pc[c]` is what CPU c executes; `stack[c]` is a ghost
naming the task on whose kernel stack it does so, which differs from `running_task[c]` from the
switch until `isr_common_stub` leaves the old stack. `mode[t]` is where a task is: user code, a
system call (`syscall_frame` set), or a page fault on a mapped file (`kernel_cpu_pinned`).
`backed_out` is a ghost naming the APs that took the work branch of `task_cpu_tick_stop` while
the BSP was stretched.
Nondeterministic: which READY candidate is picked (rank and vruntime), whether a time slice has
ended, whether `spin_trylock(&sched_lock)` succeeds, and when a sleeper's deadline passes.
Abstracted: deadlines become the order of ticks; sleepers are woken one at a time; a death, stop
or continue wakes at most one waiting parent; signals are their default actions; the early
break of the candidate loop for the deadline class is left out, so all spare tasks are counted.
Left out: FPU state, page tables, TSS, statistics, tracing, kernel threads. The idle task
never blocks and PID 1 never exits.

**`Futex`** is `task_futex_wait`, `task_futex_wake_bitset` and `task_futex_requeue`, with the timer,
`wake_task` of a signal and `task_kill`, which end a wait too. One step is one `sched_lock` section or
one unlocked access. `Store` and `WakeAll` are the user's side (external): a word is changed and then
its waiters are woken. `FUTEX_CMP_REQUEUE` is the same step as `FUTEX_REQUEUE`, because its comparison
is made outside the lock. Left out: `FUTEX_WAKE_OP`, the robust list, the translation of addresses.

**`PipeRing`** has the ring of a pipe as operators on a record: `Resized`, `Written`, `Consumed`,
`Shrunk`. **`Pipe`** runs the pipe branches of `sys_read` and `sys_write` one section of the pipe's
lock at a time, with references and signals. `kmalloc` may always fail, and always does above
`MaxBuffer`. `misled` is a ghost naming sleeping writers that took an empty pipe for a full one.
**`ByteStream`** is what a pipe promises; `IsStream` says that `Pipe` implements it with
`stream <- Contents(p)` and `todo <- data`. Every task has a descriptor table of its own. Left out:
tables shared by threads (where a close can meet a call in progress), named pipes, failed copies from
and to the user, result codes, the sequences for poll, `task_kill`.

`MCMutex`, `MCSched`, `MCFutex` and `MCPipe` instantiate them for TLC.

## Runs

| Run | Instance | Shows |
|---|---|---|
| `mutex` | 3 tasks, 2 of which may block, nesting up to 2 | `MutualExclusion`, `OwnerAndDepthExact`, `NoLostWakeup`, `SleepersQueued`, `HandoffHappens` |
| `sched_smp` | 2 tasks, 2 CPUs, system calls and faults | stacks exclusive, ownership exact, ticks run with tasks, the BSP is told of restarts, no READY task is forgotten |
| `sched_kill` | the same with fatal signals and kills, system calls only | `Safety` when one interrupt can switch twice |
| `sched_stop` | the same with stop and continue signals instead | `Safety` |
| `sched_jobs` | 2 tasks, 1 CPU, all signals | `OwnerExact` and `NoFreedStack` when stopped tasks are killed |
| `sched_affinity` | 1 task, 2 CPUs, every mask | `Safety` while the task migrates |
| `sched_live` | 1 task, 2 CPUs, masks {1} and {0, 1} | `ReadyRuns` |
| `futex_safety` | 2 tasks, both signalled, 2 words, all timeouts, counts 0 and 1, symmetric | `WaitConfined`, `SleeperFindable`, `ReturnHonest`, `NoStrandedSleeper`, also while waiters are moved |
| `futex_live` | 2 tasks, 1 word, 2 bits | `WaitEnds` |
| `pipe_ring` | 1 task, 2 byte values, writes up to 4, buffers up to 6, 3 bytes copied at a time | `RingExact`, `IsStream` |
| `pipe_sleep` | 2 tasks, 1 signalled, 1 byte value, writes and buffers up to 2, 1 byte copied at a time | `ReferencesExact`, `ReaderSleepsOnEmpty`, `WriterSleepsOnBytes`, `NoSleepWithSignal`, `SleepersReleased` |
| `sched_idle` | 2 tasks, 1 CPU, fatal signals | **violated**: `NoIdleFailure` |

`Safety` is the conjunction of `TypeOK` and five safety invariants of `Sched` (`StackExclusive`,
`OwnerExact`, `NoFreedStack`, `TickRunsWithTask`, `BspToldOfRestart`), each of which `sched_smp` checks
by itself.

*Bounds.* The mutex races are between a releaser, a sleeper and a newcomer, so three tasks; the one
that may not block only spins. Depth 2 is the first nested acquisition. In the scheduler a stack is
shared by two CPUs, and a BSP and an AP have different idle protocols, so two CPUs are the least that
matter; two tasks let one leave a CPU while another takes it. Three CPUs are not checked: the choice among several stopped
APs is only exercised through `StoppedCpu` with one AP and the BSP. Stops and kills are checked
separately on two CPUs and together only on one, to keep the runs short. Deadlock is not checked for
`Sched`, because its panic state is final.

In the futex runs one task waits and another wakes, moves or signals it; both may do either. Three
tasks, where a wake has a choice, are left to the proof of the same invariants for every set of tasks.
In the pipe runs a buffer of 4 is the first that a ring with wrapped bytes can grow to, which
`pipe_ring` reaches and `pipe_sleep`, whose buffers are smaller, does not. A writer sleeps only when
growth failed, which small buffers make frequent. `IsStream` is checked with one task, and proved
with any number. Deadlock is not checked for `Pipe`: when all ends are closed nothing is left to do.

*`ReservedAttended` and `ReadyAttended`* are checked without signals and with full masks. With
signals they do not hold (first observation below). With changing masks a READY task may wait for
the BSP's next tick, and `ReadyRuns` states what is left: it still gets a CPU.

*Fairness.* `Mutex`: a runnable task inside a mutex function goes on, and a holder unlocks.
`Futex`: a task in a wait that is not asleep goes on, and the timer fires. `Pipe`: a task in a call
that is not asleep goes on, and a sender of a signal finishes (weak in both).
`Sched`: handlers finish and the idle loop goes round (weak); an armed timer and a requested IPI
are taken (strong, since a handler masks interrupts meanwhile); `schedule_from_irq` gets past
its early returns again and again (strong: slices end, and `sched_lock` is held only for short
sections). A stretched BSP tick is a timer that still fires, because `pit_idle_deadline_ns` is
bounded by the watchdog's periodic callback.

## What the checks found

**`sched_idle` (finding).** The timer interrupts the idle task on the BSP and `schedule_from_irq`
picks task B; `switching_task` names the idle task until the interrupt returns. If
`signal_deliver_pending` then ends or stops B and nothing else is READY, the second
`schedule_from_irq` (`idt.c:677`) cannot take the idle task, because
`task_is_current_on_any_cpu` is true of it, and reaches
`kernel_panic_custom("SCHEDULER IDLE FAILURE", ...)` (`task.c:4518`).

Six observations no document of the repository speaks about, recorded as hazards:

- *A reserved task can be stranded.* An AP switches from a sleeping task A, reserved for it, to
  B; in the same interrupt a signal ends B and wakes A. A's own CPU is not flagged
  (`task.c:1090`), the second schedule may not pick A, and `task_cpu_has_work_locked` skips it
  too, so the AP stops its tick with A READY.
- *The BSP is not told of a backed-out stop.* The work branch of `task_cpu_tick_stop`
  (`task.c:4656`) clears `tick_stopped` without the notification of `smp_tick_restart`.
  `BspToldOfRestart` exempts exactly the APs in `backed_out`; the stretch ends at the BSP's own
  deadline.
- *A futex wait does not test for signals before it sleeps* (`task.c:3875`). A signal or a kill that
  arrives after the call began and before the task blocks finds it RUNNING and does not wake it.
- *A counted futex wake can be reported as `EINTR`* (`task.c:3890`), when a signal arrives after it.
  `ReturnHonest` speaks about 0 and `ETIMEDOUT` only.
- *A pipe writer can take an empty pipe for a full one* (`syscall_core.c:726`). It slept because the
  buffer could not grow; a reader drained the pipe and freed the buffer, so `count` and `buf_size` are
  both zero and the writer sleeps again. With one writer, a reader that comes back sleeps too, and
  only a signal or a close ends that. `WriterSleepsOnBytes` exempts exactly the writers in `misled`.
- *A writer that grows a full pipe wakes readers only* (`syscall_core.c:766`). Other writers sleep on
  although there is space, until the next read: "a writer sleeps only on a full pipe" does not hold.

The branch of `pipe_resize_buffer` for a buffer that is just full (`count == capacity`) is never taken
in these instances: growth asks for more than `count` and shrinking for twice `count`.

## Proofs

`WaitQueueProofs` proves what linking, popping and unlinking do to the set of queued tasks, and
that they keep the list free of duplicates.

`MutexProofs` proves, for any set of tasks, any subset that may block and any nesting bound:
`TypeCorrect`, `MutualExclusionHolds`, `OwnerAndDepthHold`, `NoLostWakeupHolds` and
`SleepersQueuedHolds`. The assumptions are those of `Mutex` (the null task is not a task, the
blocking tasks are tasks, the bound is positive). `MutualExclusion` is not inductive: between the
CAS and the store of `owner`, and between the clearing of `owner` and of `locked`, nobody is
counted as a holder. The inductive invariant `IInv` adds

- `PossessionExact`: from a won CAS to the release of `locked` there is one possessor, and a
  non-null `owner` is a holder;
- `SchedLockExact`: `sched_lock` is held exactly inside the queueing section;
- `QueueExact`: the queue, the membership flags and the BLOCKED states agree;
- `NoLostWakeup` itself, which needs all three.

One lemma per conjunct shows that every action preserves it, with one step per action.

`FutexProofs` proves, for any sets of tasks, words, values and bits, all five safety invariants of
`Futex`. The inductive invariant adds `CreditExact` and `KeyExact`: which waits a wake has counted,
place by place, and that a waiter that was not moved sleeps on the key it asked for. Without them a
timeout could not be told from a wake.

`PipeRingProofs` proves what the operations on the ring do to its contents, for buffers of every size:
`Resized` and `Shrunk` keep them, `Written` appends, and `Consumed` takes away what `FirstBytes` copied.

`PipeProofs` proves `PipeIsStream`, that `Pipe` implements `ByteStream`, and its type invariant and
five safety invariants, for any finite set of tasks and writes and buffers of any size. The inductive
invariant `PipeInv` has five parts:

- `TypesExact`: the types, and that every occupied cell of the ring holds a byte that was written;
- `CallsExact`: a writer in the kernel has bytes in `kbuf`, nobody else has any; without it a write
  could wake the readers of an empty pipe;
- `RefsExact`: the counts are exact, and a call has the descriptor it came through;
- `Unused`: a pipe without descriptors has no buffer;
- `SleepExact`: a BLOCKED task is on the right queue, with somebody left to wake it and no signal
  that nobody reports to it. It needs `CallsExact` for writes and `RefsExact` for closes.

Only model-checked: everything about `Sched`, and the liveness properties `HandoffHappens`,
`ReadyRuns`, `WaitEnds` and `SleepersReleased` (liveness under fairness is outside the prover's reach).

## Plan

1. `SchedProofs`: `OwnerExact` and `StackExclusive` for any number of CPUs and tasks.
2. Process life cycle (exit, kill, join, waitpid, reap with `refs` and `join_refs`) and signals.
3. Descriptor readiness, poll and epoll, composed with `Pipe`.
4. TLB shootdown; page reference counts, copy on write, heap and slab.
5. TCP connection states over a lossy network, ARP and DHCP; sockets above them.
6. Terminals, shared memory, inotify, file locks, descriptor rings of the drivers.

Not planned: on-disk formats, rendering, the instruction emulator and crypto, whose difficulty is
data and not the order of steps.

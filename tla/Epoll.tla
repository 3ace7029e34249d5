------------------------------- MODULE Epoll -------------------------------
(***************************************************************************)
(* Waiting for descriptors: epoll_wait and poll over pipes, eventfds,      *)
(* timerfds and input devices, and the readiness announcements they sleep  *)
(* on (syscalls/syscall_epoll.c, syscalls/syscall_select.c, evdev.c, the   *)
(* pipes of syscalls/syscall_core.c and descriptor_ready_* of task.c).     *)
(* One step is one section of a lock or one unlocked access.               *)
(*                                                                         *)
(* The counters descriptor_ready_sequence, read_sequence, write_sequence   *)
(* and sequence are 64 bits wide, only ever incremented and only compared  *)
(* for equality with an earlier value of themselves.  The model keeps the  *)
(* answer instead of the numbers: stale holds the waiters whose            *)
(* ready_generation is not the current one, fresh of an entry the          *)
(* directions whose sequence is not the recorded one.                      *)
(*                                                                         *)
(* Time is the order of events: a timer goes off some time after it was    *)
(* set, and a finite timeout ends some time after the call.  covers holds  *)
(* pairs of a waiter and a timer: the sleep of the waiter ends no later    *)
(* than that timer goes off.                                               *)
(*                                                                         *)
(* An eventfd or a timerfd can only be used by the task that has created   *)
(* it (owner_pid); to any other task, a thread of the same process too, it *)
(* is a bad descriptor.  An input device can be grabbed by a process, and  *)
(* is empty to the tasks of the others until the grab is lifted, which     *)
(* announces nothing.                                                      *)
(*                                                                         *)
(* There is one epoll instance; get_epoll lets only threads of the process *)
(* that has created it use it.  ep->lock is only taken by a holder of      *)
(* epoll_lock and is not told apart from it.  sched_lock is held over two  *)
(* steps only by a waiter that goes to sleep.                              *)
(***************************************************************************)
EXTENDS Naturals, Sequences

CONSTANTS Epollers,     \* tasks that call epoll_wait
          Pollers,      \* tasks that call poll
          PollFds,      \* bound: the descriptors they give, a sequence
          Actors,       \* other tasks: read, write, grab, signal and control
          Pipes,        \* one end of each of these pipes is waited for
          WriteEnds,    \* the pipes of which that is the write end
          Eventfds, Timerfds, Evdevs,
          owner_pid,    \* the waiter that has created an eventfd or timerfd
          Semaphores,   \* the eventfds created with EFD_SEMAPHORE
          MaxCounter,   \* UINT64_MAX - 1, the largest counter of an eventfd;
                        \* bound: bytes in a pipe
          PIPE_BUF_SIZE,
          MaxRing,      \* bound: events in the ring of a device
          MaxEvents,    \* bound: maxevents of epoll_wait
          Timeouts,     \* bound: who waits how long, pairs of a task and
                        \* "zero", "finite" or "none"
          FdSeq,        \* the order of the entries of the epoll instance
          Grabbers,     \* bound: the processes that grab devices
          Interests,    \* bound: what epoll_ctl is called with, pairs of a
                        \* descriptor and a set of "in", "out", "et" (EPOLLET)
                        \* and "oneshot" (EPOLLONESHOT)
          None

Waiters == Epollers \cup Pollers
Tasks == Waiters \cup Actors
Owned == Eventfds \cup Timerfds
Fds == Pipes \cup Owned \cup Evdevs
Dirs == {"in", "out", "hup"}    \* "hup": EPOLLHUP or EPOLLERR

Processes == {"ours", "other"}
Process(w) == IF w \in Epollers THEN "ours" ELSE "other"

All == "all"

ASSUME NamesAssumption ==
    /\ None \notin Waiters \cup Fds \cup {All} /\ All \notin Fds /\ None \notin Processes
    /\ Eventfds \cap Timerfds = {} /\ Eventfds \cap Evdevs = {} /\ Timerfds \cap Evdevs = {}
    /\ Pipes \cap (Owned \cup Evdevs) = {} /\ WriteEnds \subseteq Pipes
    /\ Actors \cap Waiters = {} /\ owner_pid \in [Owned -> Waiters]
ASSUME OrderAssumption ==
    /\ PollFds \in Seq(Fds)
    /\ FdSeq \in Seq(Fds)
    /\ \A f \in Fds : \E i \in DOMAIN FdSeq : FdSeq[i] = f
    /\ \A i, j \in DOMAIN FdSeq : FdSeq[i] = FdSeq[j] => i = j
ASSUME BoundsAssumption ==
    /\ MaxCounter \in Nat /\ MaxRing \in Nat /\ MaxEvents \in Nat \ {0}
    /\ Timeouts \subseteq Waiters \X {"zero", "finite", "none"}
    /\ PIPE_BUF_SIZE \in Nat /\ Grabbers \subseteq Processes
    /\ Interests \subseteq Fds \X SUBSET {"in", "out", "et", "oneshot"}
(* Nobody but its owner waits for an edge of an eventfd: the scan of       *)
(* another thread records the error it gets as the last readiness.         *)
ASSUME OwnAssumption ==
    \A p \in Interests : p[1] \in Eventfds /\ "et" \in p[2] => Epollers = {owner_pid[p[1]]}

VARIABLES
    counter,        \* of an eventfd, and the bytes in a pipe
    hung,           \* the pipes whose other end is closed
    timer,          \* "off", "armed" or "expired"
    ring,           \* number of events in the ring of a device
    grab_pid,       \* the process that has grabbed a device, or None
    open,           \* the epoll instance is in use
    entries,        \* its fds: NoEntry, or the entry of a descriptor
    epoll_lock, sched_lock,
    irq_pending,    \* descriptor_ready_irq_pending
    stale, covers,
    pc, kind, timeout, pos, count,
    seen,           \* what event_descriptor_poll has said of entry pos
    filter,         \* keys of descriptor_wait_filter_t, {} for any
    signalled,      \* waiters with a signal pending
    call,           \* the key a task is about to announce, All or None
    irq,            \* where the interrupt of a device stands
    owed,           \* ghost: sequences that changed and were not reported
    lifted          \* ghost: pairs of a waiter and a device whose grab by
                    \* another process was lifted since the waiter began to
                    \* look, with no event since

NoEntry == [events |-> {}, active |-> FALSE, last_ready |-> {}, fresh |-> {}]

descVars == <<counter, hung, timer, ring, grab_pid>>
epVars == <<open, entries>>
readyVars == <<irq_pending, stale>>
waitVars == <<covers, pc, kind, timeout, pos, count, seen, filter, signalled, lifted>>
vars == <<descVars, epVars, epoll_lock, sched_lock, readyVars, waitVars, call, irq, owed>>

Init ==
    /\ counter = [e \in Pipes \cup Eventfds |-> 0]
    /\ hung = {}
    /\ timer = [t \in Timerfds |-> "off"]
    /\ ring = [d \in Evdevs |-> 0]
    /\ grab_pid = [d \in Evdevs |-> None]
    /\ open = TRUE
    /\ entries = [f \in Fds |-> NoEntry]
    /\ epoll_lock = None
    /\ sched_lock = None
    /\ irq_pending = FALSE
    /\ stale = {}
    /\ covers = {}
    /\ pc = [w \in Waiters |-> "user"]
    /\ kind = [w \in Waiters |-> "epoll"]
    /\ timeout = [w \in Waiters |-> "none"]
    /\ pos = [w \in Waiters |-> 0]
    /\ count = [w \in Waiters |-> 0]
    /\ seen = [w \in Waiters |-> {}]
    /\ filter = [w \in Waiters |-> {}]
    /\ signalled = {}
    /\ call = [a \in Tasks |-> None]
    /\ irq = [d \in Evdevs |-> "idle"]
    /\ owed = [f \in Fds |-> {}]
    /\ lifted = {}

-----------------------------------------------------------------------------
(* Descriptors *)

Uses(t, f) == f \in Owned => owner_pid[f] = t

evdev_grab_allowed(p, d) == grab_pid[d] \in {None, p}

Readable(w, f) ==
    \/ f \in Eventfds /\ counter[f] # 0
    \/ f \in Pipes \ WriteEnds /\ (counter[f] # 0 \/ f \in hung)
    \/ f \in Timerfds /\ timer[f] = "expired"
    \/ f \in Evdevs /\ evdev_grab_allowed(Process(w), f) /\ ring[f] # 0

Writable(f) ==
    \/ f \in Eventfds /\ counter[f] # MaxCounter
    \/ f \in WriteEnds /\ f \notin hung /\ counter[f] < PIPE_BUF_SIZE

(* For waiter w.  A bad descriptor is an error event to both scans. *)
event_descriptor_poll(w, f) ==
    IF Uses(w, f) THEN {d \in Dirs : \/ d = "in" /\ Readable(w, f)
                                     \/ d = "out" /\ Writable(f)
                                     \/ d = "hup" /\ f \in hung}
    ELSE {"hup"}

(* Of that, what the entry of f asks for. *)
Wanted(w, f) == event_descriptor_poll(w, f) \cap (entries[f].events \cup {"hup"})

(* The sequence of direction d of f goes up.  Only an edge-triggered entry *)
(* makes use of it.                                                        *)
Bump(f, d) ==
    LET e == entries[f]
        D == IF {"et", d} \subseteq e.events THEN {d} ELSE {}
    IN /\ entries' = [entries EXCEPT ![f] = [e EXCEPT !.fresh = @ \cup D]]
       /\ owed' = [owed EXCEPT ![f] = @ \cup D]

(* The sequence of a timer is next_tick plus its expirations: it changes   *)
(* when the timer is set or read and with each expiration, and may be the  *)
(* recorded value again.                                                   *)
BumpTimer(t) ==
    \E D \in SUBSET (IF {"et", "in"} \subseteq entries[t].events THEN {"in"} ELSE {}) :
        entries' = [entries EXCEPT ![t] = [@ EXCEPT !.fresh = D]]

(* The key under which f is announced; None is the key 0. *)
epoll_target_key(f) == IF f \in Evdevs THEN None ELSE f

-----------------------------------------------------------------------------
(* Announcements *)

Asleep(w) == pc[w] = "asleep"

(* The waiters that have read the generation and are still to compare it. *)
Started == {w \in Waiters : pc[w] \notin {"user", "asleep", "woken"}}

Wake(W) == pc' = [w \in Waiters |-> IF w \in W THEN "woken" ELSE pc[w]]

(* The filter of a waiter lets an announcement of key k through. *)
Matches(w, k) == k = All \/ filter[w] = {} \/ k \in filter[w]

(* Mutant: an announcement of one key leaves descriptor_ready_sequence. *)
Notify_KeyKeepsGeneration(a) ==
    /\ call[a] # None /\ sched_lock = None
    /\ call' = [call EXCEPT ![a] = None]
    /\ irq_pending' = (irq_pending /\ call[a] # All)
    /\ stale' = IF call[a] = All THEN Started ELSE stale
    /\ Wake({w \in Waiters : Asleep(w) /\ Matches(w, call[a])})
    /\ UNCHANGED <<descVars, epVars, epoll_lock, sched_lock, covers, kind, timeout,
                   pos, count, seen, filter, signalled, irq, owed, lifted>>

(* descriptor_ready_notify and descriptor_ready_notify_key, at the end of  *)
(* a call of task a.                                                       *)
Notify(a) ==
    /\ call[a] # None /\ sched_lock = None
    /\ call' = [call EXCEPT ![a] = None]
    /\ irq_pending' = (irq_pending /\ call[a] # All)
    /\ stale' = Started
    /\ Wake({w \in Waiters : Asleep(w) /\ Matches(w, call[a])})
    /\ UNCHANGED <<descVars, epVars, epoll_lock, sched_lock, covers, kind, timeout,
                   pos, count, seen, filter, signalled, irq, owed, lifted>>

(* The scheduler interrupt finds irq_pending and sched_lock free. *)
DrainIrq ==
    /\ irq_pending /\ sched_lock = None
    /\ irq_pending' = FALSE
    /\ Wake({w \in Waiters : Asleep(w)})
    /\ UNCHANGED <<descVars, epVars, epoll_lock, sched_lock, stale, covers, kind, timeout,
                   pos, count, seen, filter, signalled, call, irq, owed, lifted>>

(* The interrupt of an input device: an event is put into the ring, the    *)
(* sequence first (evdev_ring_put); behind the last one                    *)
(* descriptor_ready_notify_irq.  It takes no lock.                         *)
IrqSequence(d) ==
    /\ irq[d] \in {"idle", "gen"} /\ ring[d] < MaxRing
    /\ irq' = [irq EXCEPT ![d] = "put"]
    /\ Bump(d, "in")
    /\ UNCHANGED <<descVars, open, epoll_lock, sched_lock, readyVars, waitVars, call>>

IrqPut(d) ==
    /\ irq[d] = "put"
    /\ irq' = [irq EXCEPT ![d] = "gen"]
    /\ ring' = [ring EXCEPT ![d] = @ + 1]
    /\ lifted' = {c \in lifted : c[2] # d}
    /\ UNCHANGED <<counter, hung, timer, grab_pid, epVars, epoll_lock, sched_lock, readyVars,
                   covers, pc, kind, timeout, pos, count, seen, filter, signalled, call, owed>>

IrqGeneration(d) ==
    /\ irq[d] = "gen"
    /\ irq' = [irq EXCEPT ![d] = "pend"]
    /\ stale' = Started
    /\ UNCHANGED <<descVars, epVars, epoll_lock, sched_lock, irq_pending, waitVars, call, owed>>

IrqPending(d) ==
    /\ irq[d] = "pend"
    /\ irq' = [irq EXCEPT ![d] = "idle"]
    /\ irq_pending' = TRUE
    /\ UNCHANGED <<descVars, epVars, epoll_lock, sched_lock, stale, waitVars, call, owed>>

-----------------------------------------------------------------------------
(* Calls of the actors, and of waiters on what they own while they do not  *)
(* wait.  Each ends in Notify, except where the code announces nothing.    *)

Announce(a, k) == call' = [call EXCEPT ![a] = k]

EventWrite(a, f) ==
    /\ \E v \in 1..(MaxCounter - counter[f]) : counter' = [counter EXCEPT ![f] = @ + v]
    /\ Bump(f, "in")
    /\ Announce(a, f)
    /\ UNCHANGED <<hung, timer, ring, grab_pid, open, readyVars, waitVars>>

EventRead(a, f) ==
    /\ counter[f] # 0
    /\ counter' = [counter EXCEPT ![f] = IF f \in Semaphores THEN @ - 1 ELSE 0]
    /\ Bump(f, "out")
    /\ Announce(a, f)
    /\ UNCHANGED <<hung, timer, ring, grab_pid, open, readyVars, waitVars>>

(* A turn of the loop of a write to a pipe, which needs a reader. *)
PipeWrite(a, f) ==
    /\ f \notin hung
    /\ \E v \in 1..(MaxCounter - counter[f]) : counter' = [counter EXCEPT ![f] = @ + v]
    /\ Bump(f, "in")
    /\ Announce(a, f)
    /\ UNCHANGED <<hung, timer, ring, grab_pid, open, readyVars, waitVars>>

PipeRead(a, f) ==
    /\ f \in WriteEnds => f \notin hung
    /\ \E v \in 1..counter[f] : counter' = [counter EXCEPT ![f] = @ - v]
    /\ Bump(f, "out")
    /\ Announce(a, f)
    /\ UNCHANGED <<hung, timer, ring, grab_pid, open, readyVars, waitVars>>

(* A descriptor of the other end is closed, which may be the last one. *)
pipe_release_reference(a, f) ==
    /\ f \notin hung
    /\ hung' \in {hung, hung \cup {f}}
    /\ Announce(a, f)
    /\ UNCHANGED <<counter, timer, ring, grab_pid, epVars, readyVars, waitVars, owed>>

timerfd_settime(a, t) ==
    /\ \E s \in {"off", "armed"} : timer' = [timer EXCEPT ![t] = s]
    /\ BumpTimer(t)
    /\ Announce(a, t)
    /\ UNCHANGED <<counter, hung, ring, grab_pid, open, readyVars, waitVars, owed>>

(* A timer with an interval goes on, one without is off. *)
TimerRead(a, t) ==
    /\ timer[t] = "expired"
    /\ \E s \in {"off", "armed"} : timer' = [timer EXCEPT ![t] = s]
    /\ BumpTimer(t)
    /\ UNCHANGED <<counter, hung, ring, grab_pid, open, readyVars, waitVars, call, owed>>

EvdevRead(p, d) ==
    /\ evdev_grab_allowed(p, d) /\ ring[d] # 0
    /\ ring' = [ring EXCEPT ![d] = @ - 1]
    /\ UNCHANGED <<counter, hung, timer, grab_pid, epVars, readyVars, waitVars, call, owed>>

(* EVIOCGRAB of a task of process p. *)
EvdevGrab(p, d) ==
    /\ grab_pid[d] = None
    /\ grab_pid' = [grab_pid EXCEPT ![d] = p]
    /\ UNCHANGED <<counter, hung, timer, ring, epVars, readyVars, waitVars, call, owed>>

(* EVIOCGRAB with 0, the close of the device, or the exit of the task. *)
EvdevUngrab(d) ==
    /\ grab_pid[d] # None
    /\ grab_pid' = [grab_pid EXCEPT ![d] = None]
    /\ LET Kept == {w \in Started \cup {v \in Waiters : Asleep(v)} : Process(w) # grab_pid[d]}
       IN lifted' = lifted \cup (Kept \X {d})
    /\ UNCHANGED <<counter, hung, timer, ring, epVars, readyVars, covers, pc, kind, timeout,
                   pos, count, seen, filter, signalled, call, owed>>

epoll_ctl_add(f, events) ==
    /\ entries[f] = NoEntry
    /\ entries' = [entries EXCEPT ![f] =
          [events |-> events, active |-> TRUE, last_ready |-> {}, fresh |-> {}]]
    /\ UNCHANGED owed

(* The recorded sequences stay. *)
epoll_ctl_mod(f, events) ==
    LET Kept == IF "et" \in events THEN events ELSE {}
    IN /\ entries[f] # NoEntry
       /\ entries' = [entries EXCEPT ![f] =
             [events |-> events, active |-> TRUE, last_ready |-> {},
              fresh |-> entries[f].fresh \cap Kept]]
       /\ owed' = [owed EXCEPT ![f] = @ \cap Kept]

epoll_ctl_del(f) ==
    /\ entries[f] # NoEntry
    /\ entries' = [entries EXCEPT ![f] = NoEntry]
    /\ owed' = [owed EXCEPT ![f] = {}]

(* epoll_target_valid: what is added or changed is a good descriptor. *)
epoll_ctl(a, f) ==
    /\ open /\ epoll_lock = None
    /\ \/ /\ Uses(a, f)
          /\ \E events \in {p[2] : p \in {q \in Interests : q[1] = f}} :
                epoll_ctl_add(f, events) \/ epoll_ctl_mod(f, events)
       \/ epoll_ctl_del(f)
    /\ Announce(a, All)
    /\ UNCHANGED <<descVars, open, readyVars, waitVars>>

(* epoll_close_fd of the instance, and a new one in its place. *)
EpollClose(a) ==
    /\ open /\ epoll_lock = None
    /\ open' = FALSE
    /\ entries' = [f \in Fds |-> NoEntry]
    /\ owed' = [f \in Fds |-> {}]
    /\ Announce(a, All)
    /\ UNCHANGED <<descVars, readyVars, waitVars>>

epoll_create(a) ==
    /\ ~open /\ epoll_lock = None
    /\ open' = TRUE
    /\ UNCHANGED <<descVars, entries, readyVars, waitVars, call, owed>>

(* deliver_signal_to_task: a target that is not BLOCKED is not told.  A    *)
(* call that does not wait does not look at signals.                       *)
SendSignal(a, w) ==
    /\ pc[w] # "user" /\ timeout[w] # "zero" /\ w \notin signalled /\ sched_lock = None
    /\ signalled' = signalled \cup {w}
    /\ IF Asleep(w) THEN Wake({w}) /\ Announce(a, All)
       ELSE UNCHANGED <<pc, call>>
    /\ UNCHANGED <<descVars, epVars, readyVars, covers, kind, timeout, pos, count, seen,
                   filter, owed, lifted>>

ActorStep(a) ==
    /\ call[a] = None
    /\ \/ \E f \in Pipes : PipeWrite(a, f) \/ PipeRead(a, f) \/ pipe_release_reference(a, f)
       \/ \E d \in Evdevs : \/ \E p \in Processes : EvdevRead(p, d)
                           \/ \E p \in Grabbers : EvdevGrab(p, d)
                           \/ EvdevUngrab(d)
       \/ \E f \in Fds : epoll_ctl(a, f)
       \/ EpollClose(a)
       \/ epoll_create(a)
       \/ \E w \in Waiters : SendSignal(a, w)
    /\ UNCHANGED <<epoll_lock, sched_lock, irq>>

(* A waiter outside of its calls: on what it owns, and epoll_ctl.  What    *)
(* else it does an actor does as well.                                     *)
OwnerStep(w) ==
    /\ call[w] = None /\ pc[w] = "user"
    /\ \/ \E f \in Eventfds : Uses(w, f) /\ (EventWrite(w, f) \/ EventRead(w, f))
       \/ \E t \in Timerfds : Uses(w, t) /\ (timerfd_settime(w, t) \/ TimerRead(w, t))
       \/ \E f \in Fds : w \in Epollers /\ epoll_ctl(w, f)
    /\ UNCHANGED <<epoll_lock, sched_lock, irq>>

(* A timer goes off, or an interval timer once more. *)
TimerExpires(t) ==
    /\ timer[t] # "off"
    /\ timer' = [timer EXCEPT ![t] = "expired"]
    /\ BumpTimer(t)
    /\ UNCHANGED <<counter, hung, ring, grab_pid, open, epoll_lock, sched_lock, readyVars,
                   waitVars, call, irq, owed>>

-----------------------------------------------------------------------------
(* epoll_wait and poll.  pc[w] is where waiter w stands:                   *)
(*   user     outside of the call                                          *)
(*   lock     before mutex_lock(&epoll_lock)                               *)
(*   scan     before the poll of entry pos, or behind the last one         *)
(*   seq      between event_descriptor_poll and epoll_poll_sequence of it  *)
(*   decide   behind the scan that has found nothing                       *)
(*   wait     before descriptor_ready_wait_owned_keys                      *)
(*   queued   in it, on the wait queue, before the second test             *)
(*   asleep   in its schedule()                                            *)
(*   woken    made ready again                                             *)
(* kind[w] is "epoll" or "poll", the call that w is in.                    *)

Goto(w, l) == pc' = [pc EXCEPT ![w] = l]

Uncovered(w) == {c \in covers : c[1] # w}
NotLifted(w) == lifted' = {c \in lifted : c[1] # w}

(* The call returns; what it leaves in its locals does not matter. *)
Return(w) ==
    /\ Goto(w, "user")
    /\ kind' = [kind EXCEPT ![w] = "epoll"]
    /\ timeout' = [timeout EXCEPT ![w] = "none"]
    /\ pos' = [pos EXCEPT ![w] = 0]
    /\ count' = [count EXCEPT ![w] = 0]
    /\ seen' = [seen EXCEPT ![w] = {}]
    /\ filter' = [filter EXCEPT ![w] = {}]
    /\ covers' = Uncovered(w)
    /\ signalled' = signalled \ {w}
    /\ stale' = stale \ {w}
    /\ NotLifted(w)

(* A turn of the loop: the read of descriptor_ready_generation. *)
descriptor_ready_generation(w, k) ==
    /\ Goto(w, IF k = "epoll" THEN "lock" ELSE "scan")
    /\ stale' = stale \ {w}
    /\ NotLifted(w)
    /\ pos' = [pos EXCEPT ![w] = 1]

Call(w) ==
    /\ pc[w] = "user" /\ call[w] = None
    /\ \E to \in {p[2] : p \in {q \in Timeouts : q[1] = w}} :
          timeout' = [timeout EXCEPT ![w] = to]
    /\ \E k \in {"epoll", "poll"} :
          /\ w \in (IF k = "epoll" THEN Epollers ELSE Pollers)
          /\ kind' = [kind EXCEPT ![w] = k]
          /\ descriptor_ready_generation(w, k)
    /\ UNCHANGED <<epVars, epoll_lock, sched_lock, covers, count, seen, filter,
                   signalled, owed>>

(* From position n on the first active entry is at i, which is behind the  *)
(* last one when there is none: no other task changes the entries during a *)
(* scan.                                                                   *)
FirstActive(n, i) ==
    /\ \A j \in n..i-1 : ~entries[FdSeq[j]].active
    /\ i <= Len(FdSeq) => entries[FdSeq[i]].active

(* The scan of w goes on at position n. *)
ScanFrom(w, n) ==
    \E i \in n..Len(FdSeq) + 1 : FirstActive(n, i) /\ pos' = [pos EXCEPT ![w] = i]

EpollLock(w) ==
    /\ pc[w] = "lock" /\ epoll_lock = None
    /\ IF open THEN /\ epoll_lock' = w
                    /\ Goto(w, "scan")
                    /\ ScanFrom(w, 1)
                    /\ UNCHANGED <<stale, covers, kind, timeout, count, seen, filter, signalled,
                                    lifted>>
               ELSE Return(w) /\ UNCHANGED epoll_lock
    /\ UNCHANGED <<epVars, sched_lock, owed>>

(* The entry is done: nothing to report, or one more event for the caller. *)
NextEntry(w, n) ==
    /\ Goto(w, "scan")
    /\ IF kind[w] = "epoll" THEN ScanFrom(w, pos[w] + 1)
       ELSE pos' = [pos EXCEPT ![w] = @ + 1]
    /\ count' = [count EXCEPT ![w] = @ + n]
    /\ seen' = [seen EXCEPT ![w] = {}]
    /\ UNCHANGED <<epoll_lock, stale, covers, kind, timeout, filter, signalled, lifted>>

(* The events R of f go to the caller; e is its entry as the scan has left *)
(* it.  The caller's buffer may be bad.                                    *)
Report(w, f, e, R) ==
    \/ /\ R = {}
       /\ entries' = [entries EXCEPT ![f] = e]
       /\ NextEntry(w, 0)
       /\ UNCHANGED owed
    \/ /\ R # {}
       /\ owed' = [owed EXCEPT ![f] = @ \ R]
       /\ \/ /\ entries' = [entries EXCEPT ![f] =
                   [e EXCEPT !.active = "oneshot" \notin e.events]]
             /\ NextEntry(w, 1)
          \/ /\ entries' = [entries EXCEPT ![f] = e]
             /\ epoll_lock' = None
             /\ Return(w)

Scanning(w) ==
    /\ pc[w] = "scan"
    /\ IF kind[w] = "epoll" THEN pos[w] <= Len(FdSeq) /\ count[w] < MaxEvents
       ELSE pos[w] <= Len(PollFds)

ScanEpoll(w) ==
    /\ kind[w] = "epoll" /\ Scanning(w)
    /\ LET f == FdSeq[pos[w]]
           e == entries[f]
           R == Wanted(w, f)
       IN IF "et" \notin e.events THEN Report(w, f, e, R)
          ELSE /\ Goto(w, "seq")
               /\ seen' = [seen EXCEPT ![w] = R]
               /\ UNCHANGED <<entries, epoll_lock, stale, covers, kind, timeout, pos,
                              count, filter, signalled, owed, lifted>>
    /\ UNCHANGED <<open, sched_lock>>

(* Mutant: only what was not ready at the last scan. *)
Edges_NoSequence(e, ready) == ready \ e.last_ready

(* The edges: what was not ready at the last scan, and what is ready and   *)
(* has a sequence that has changed.                                        *)
Edges(e, ready) == (ready \ e.last_ready) \cup (ready \cap e.fresh)

ScanEdges(w) ==
    /\ pc[w] = "seq"
    /\ LET f == FdSeq[pos[w]]
           e == entries[f]
       IN Report(w, f, [e EXCEPT !.last_ready = seen[w], !.fresh = {}], Edges(e, seen[w]))
    /\ UNCHANGED <<open, sched_lock>>

(* poll asks for POLLIN. *)
Polled(w, f) == event_descriptor_poll(w, f) \cap {"in", "hup"} # {}

ScanPoll(w) ==
    /\ kind[w] = "poll" /\ Scanning(w)
    /\ \/ NextEntry(w, IF Polled(w, PollFds[pos[w]]) THEN 1 ELSE 0)
       \/ Return(w) /\ UNCHANGED epoll_lock
    /\ UNCHANGED <<epVars, sched_lock, owed>>

(* The keys of the active entries, if each has one.  Without memory for    *)
(* them the sleep is not filtered.                                         *)
ActiveKeys == {epoll_target_key(f) : f \in {g \in Fds : entries[g].active}}
Keys == IF None \in ActiveKeys THEN {} ELSE ActiveKeys

ScanEnd(w) ==
    /\ pc[w] = "scan" /\ ~Scanning(w)
    /\ epoll_lock' = IF kind[w] = "epoll" THEN None ELSE epoll_lock
    /\ IF count[w] # 0 \/ timeout[w] = "zero" THEN Return(w)
       ELSE /\ Goto(w, "decide")
            /\ pos' = [pos EXCEPT ![w] = 0]
            /\ \E K \in {Keys, {}} :
                  filter' = [filter EXCEPT ![w] = IF kind[w] = "epoll" THEN K ELSE {}]
            /\ UNCHANGED <<stale, covers, kind, timeout, count, seen, signalled, lifted>>
    /\ UNCHANGED <<epVars, sched_lock, owed>>

(* The sleep of w ends with the first of its own timers that are set. *)
event_descriptor_wait_timeout(w) ==
    covers \cup {<<w, t>> : t \in {u \in Timerfds : Uses(w, u) /\ timer[u] # "off"}}

(* The timeout is over, or a signal is pending, or the call goes on with   *)
(* event_descriptor_wait_timeout.                                          *)
Decide(w) ==
    /\ pc[w] = "decide"
    /\ \/ (timeout[w] = "finite" \/ w \in signalled) /\ Return(w)
       \/ /\ w \notin signalled
          /\ Goto(w, "wait")
          /\ covers' = event_descriptor_wait_timeout(w)
          /\ UNCHANGED <<stale, kind, timeout, pos, count, seen, filter, signalled, lifted>>
    /\ UNCHANGED <<epVars, epoll_lock, sched_lock, owed>>

(* Back in the loop of the caller: epoll_wait starts over, poll looks at   *)
(* its signals and its timeout first.                                      *)
Again(w) ==
    \/ kind[w] = "poll" /\ (timeout[w] = "finite" \/ w \in signalled) /\ Return(w)
    \/ /\ kind[w] = "poll" => w \notin signalled
       /\ descriptor_ready_generation(w, kind[w])
       /\ filter' = [filter EXCEPT ![w] = {}]
       /\ covers' = Uncovered(w)
       /\ UNCHANGED <<kind, timeout, count, seen, signalled>>

WaitLock(w) ==
    /\ pc[w] = "wait" /\ sched_lock = None
    /\ IF w \in stale THEN Again(w) /\ UNCHANGED sched_lock
       ELSE /\ sched_lock' = w
            /\ Goto(w, "queued")
            /\ UNCHANGED <<stale, covers, kind, timeout, pos, count, seen, filter, signalled,
                            lifted>>
    /\ UNCHANGED <<epVars, epoll_lock, owed>>

WaitSecondTest(w) ==
    /\ pc[w] = "queued"
    /\ sched_lock' = None
    /\ IF w \in stale THEN Again(w)
       ELSE /\ Goto(w, "asleep")
            /\ UNCHANGED <<stale, covers, kind, timeout, pos, count, seen, filter, signalled,
                            lifted>>
    /\ UNCHANGED <<epVars, epoll_lock, owed>>

(* The sleep queue: the timeout of the call, or a timer that was set when  *)
(* it went to sleep.                                                       *)
SleepEnds(w) ==
    /\ Asleep(w) /\ sched_lock = None
    /\ timeout[w] = "finite" \/ \E t \in Timerfds : <<w, t>> \in covers
    /\ Wake({w})
    /\ UNCHANGED <<epVars, epoll_lock, sched_lock, stale, covers, kind, timeout, pos, count,
                   seen, filter, signalled, owed, lifted>>

Woken(w) ==
    /\ pc[w] = "woken" /\ sched_lock = None
    /\ Again(w)
    /\ UNCHANGED <<epVars, epoll_lock, sched_lock, owed>>

WaiterStep(w) ==
    /\ \/ Call(w) \/ EpollLock(w)
       \/ ScanEpoll(w) \/ ScanEdges(w) \/ ScanPoll(w) \/ ScanEnd(w)
       \/ Decide(w) \/ WaitLock(w) \/ WaitSecondTest(w) \/ SleepEnds(w) \/ Woken(w)
    /\ UNCHANGED <<descVars, irq_pending, call, irq>>

Next ==
    \/ \E w \in Waiters : WaiterStep(w) \/ OwnerStep(w)
    \/ \E a \in Actors : ActorStep(a)
    \/ \E a \in Tasks : Notify(a)
    \/ \E t \in Timerfds : TimerExpires(t)
    \/ \E d \in Evdevs : IrqSequence(d) \/ IrqPut(d) \/ IrqGeneration(d) \/ IrqPending(d)
    \/ DrainIrq

Spec == Init /\ [][Next]_vars

-----------------------------------------------------------------------------
(* What a scan of w would report of the entry of f now. *)
News(w, f) ==
    IF "et" \in entries[f].events THEN Edges(entries[f], Wanted(w, f)) ELSE Wanted(w, f)

(* A scan of waiter w would find something to report now of a descriptor   *)
(* that w may use, other than of a device whose grab was lifted meanwhile. *)
HasNews(w) ==
    \E f \in Fds : /\ Uses(w, f) /\ <<w, f>> \notin lifted
                   /\ IF kind[w] = "poll"
                      THEN (\E i \in DOMAIN PollFds : PollFds[i] = f) /\ Polled(w, f)
                      ELSE entries[f].active /\ News(w, f) # {}

(* No lost announcement: while a waiter sleeps in epoll_wait or poll and   *)
(* one of its descriptors has something to report, somebody is about to    *)
(* wake it: a task whose announcement passes its filter, an interrupt on   *)
(* its way to irq_pending or irq_pending itself, or the end of its sleep.  *)
(* The one exception is an input device that another process had grabbed:  *)
(* evdev.c lifts a grab without an announcement (376, 473, 493-496), so a  *)
(* waiter learns of the events that are left in its ring only by the next  *)
(* event; from that event on the device is no exception any more.          *)
NoMissedReady ==
    \A w \in Waiters : Asleep(w) /\ HasNews(w) =>
        \/ \E a \in Tasks : call[a] # None /\ Matches(w, call[a])
        \/ irq_pending
        \/ \E d \in Evdevs : irq[d] # "idle"
        \/ \E t \in Timerfds : <<w, t>> \in covers

(* No lost edge: when the sequence of a descriptor has changed since it    *)
(* was last reported and it is ready, the next scan of its edge-triggered  *)
(* entry has an edge, although readiness and sequence are read in two      *)
(* steps and other tasks read, write and grab in between.  Timers are not  *)
(* meant: their sequence is no counter (BumpTimer).                        *)
EdgeKept ==
    \A f \in Fds, w \in Epollers : "et" \in entries[f].events =>
        \A d \in owed[f] \cap entries[f].events \cap event_descriptor_poll(w, f) :
            d \notin entries[f].last_ready \/ d \in entries[f].fresh
=============================================================================

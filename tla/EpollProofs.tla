----------------------------- MODULE EpollProofs -----------------------------
(***************************************************************************)
(* Proofs about Epoll: no announcement and no edge is lost.                *)
(*                                                                         *)
(* NoMissedReady speaks of a waiter that is asleep; the step that makes it *)
(* true is far behind, when the scan passed a descriptor that was not      *)
(* ready.  Heard says what holds from there on: if a waiter is past f,     *)
(* has found nothing and the generation it read is still the current one,  *)
(* and f has something to report now, then something is due that makes it  *)
(* look again.  An announcement in flight changes the generation before    *)
(* the waiter compares it, or finds the waiter asleep.  The interrupt of a *)
(* device changes the generation first and sets irq_pending afterwards,    *)
(* hence the different places of "gen" and "pend" in Due.  A timer         *)
(* announces nothing when it goes off: the sleep is cut to end with it,    *)
(* which is settled only when the waiter leaves "decide".                  *)
(*                                                                         *)
(* FilterCovers is needed for an announcement that does not pass the       *)
(* filter of a sleeper: the descriptor is then not among its entries, or   *)
(* the epoll_ctl that added it has still to announce its change to all.    *)
(* SeqSeen is Heard for the entry that a scan is at, between the read of   *)
(* its readiness and that of its sequence.  What a scan records for one    *)
(* thread must do for the others: SameView.                                *)
(*                                                                         *)
(* Stirs leaves out the descriptors of other tasks and the devices whose   *)
(* grab was lifted, as NoMissedReady does.  EdgesOwed is EdgeKept for      *)
(* descriptors that are not ready as well: a grab that ends, or an input   *)
(* interrupt that has raised the sequence and not yet filled the ring,     *)
(* makes a device ready later.                                             *)
(***************************************************************************)
EXTENDS Epoll, TLAPS

(* Most steps are first-order reasoning, which Zenon does; the steps that  *)
(* do arithmetic or compare functions name SMT.                            *)
USE Zenon

Events == {"in", "out", "et", "oneshot"}
Entries == [events : SUBSET Events, active : BOOLEAN, last_ready : SUBSET Dirs,
            fresh : SUBSET Dirs]
PCs == {"user", "lock", "scan", "seq", "decide", "wait", "queued", "asleep", "woken"}

(* The types, in the groups in which the actions change them. *)
DescTypes == /\ counter \in [Pipes \cup Eventfds -> 0..MaxCounter]
             /\ hung \in SUBSET Pipes
             /\ timer \in [Timerfds -> {"off", "armed", "expired"}]
             /\ ring \in [Evdevs -> Nat]
             /\ grab_pid \in [Evdevs -> Processes \cup {None}]
EpTypes == /\ open \in BOOLEAN
           /\ entries \in [Fds -> Entries]
           /\ owed \in [Fds -> SUBSET Dirs]
LockTypes == epoll_lock \in Waiters \cup {None} /\ sched_lock \in Waiters \cup {None}
ReadyTypes == /\ irq_pending \in BOOLEAN
              /\ stale \in SUBSET Waiters
              /\ call \in [Tasks -> Pipes \cup Owned \cup {All, None}]
              /\ irq \in [Evdevs -> {"idle", "put", "gen", "pend"}]
CallTypes == /\ pc \in [Waiters -> PCs]
             /\ kind \in [Waiters -> {"epoll", "poll"}]
             /\ timeout \in [Waiters -> {"zero", "finite", "none"}]
             /\ signalled \in SUBSET Waiters
ScanTypes == /\ pos \in [Waiters -> Nat]
             /\ count \in [Waiters -> Nat]
             /\ seen \in [Waiters -> SUBSET Dirs]
SleepTypes == /\ filter \in [Waiters -> SUBSET Fds]
              /\ covers \in SUBSET (Waiters \X Timerfds)
              /\ lifted \in SUBSET (Waiters \X Evdevs)

TypeOK == /\ DescTypes /\ EpTypes /\ LockTypes /\ ReadyTypes
          /\ CallTypes /\ ScanTypes /\ SleepTypes

(* The states of a waiter behind the scan that has found nothing. *)
Behind == {"decide", "wait", "queued", "asleep"}

(* The scan of w is past f. *)
Passed(w, f) ==
    \/ pc[w] \in Behind
    \/ /\ pc[w] \in {"scan", "seq"}
       /\ IF kind[w] = "epoll" THEN \E i \in DOMAIN FdSeq : i < pos[w] /\ FdSeq[i] = f
          ELSE \E i \in DOMAIN PollFds : i < pos[w] /\ PollFds[i] = f

(* w waits for f. *)
Concerns(w, f) ==
    IF kind[w] = "poll" THEN \E i \in DOMAIN PollFds : PollFds[i] = f ELSE entries[f].active

(* w waits for f, which has something to report or is a timer that may. *)
Stirs(w, f) ==
    /\ Concerns(w, f) /\ Uses(w, f) /\ <<w, f>> \notin lifted
    /\ \/ f \in Timerfds /\ timer[f] # "off"
       \/ kind[w] = "poll" /\ Polled(w, f)
       \/ kind[w] = "epoll" /\ News(w, f) # {}

(* An announcement of f is due. *)
Told(f) == \E a \in Tasks : call[a] \in {f, All}

(* Something is due that makes w look at f again. *)
Due(w, f) ==
    \/ Told(f)
    \/ \E d \in Evdevs : irq[d] \in {"put", "gen"}
    \/ Asleep(w) /\ (irq_pending \/ \E d \in Evdevs : irq[d] = "pend")
    \/ /\ f \in Timerfds
       /\ \/ <<w, f>> \in covers
          \/ pc[w] \in {"scan", "seq", "decide"} /\ Uses(w, f) /\ timer[f] # "off"

(* w has found nothing so far and takes that for current. *)
Trusts(w) == count[w] = 0 /\ w \notin stale

Heard == \A w \in Waiters, f \in Fds : Trusts(w) /\ Passed(w, f) /\ Stirs(w, f) => Due(w, f)

(* What has become ready between the two reads of an edge-triggered entry  *)
(* by w, that of f, is due for v, if v is past the entry or is w.          *)
SeqHeard(w, v, f) ==
    /\ pc[w] = "seq" /\ f = FdSeq[pos[w]]
    /\ kind[v] = "epoll" /\ Trusts(v) /\ (Passed(v, f) \/ v = w)
    /\ Uses(v, f) /\ <<v, f>> \notin lifted
    /\ Wanted(v, f) \ seen[w] # {}
    => Due(v, f)

SeqSeen == \A w, v \in Waiters, f \in Fds : SeqHeard(w, v, f)

(* The filter of w lets through what is announced for the active entries,  *)
(* unless a change of the entries is still to be announced.                *)
FilterHolds(w) ==
    filter[w] # {} =>
        /\ kind[w] = "epoll" /\ pc[w] \in Behind \cup {"woken"}
        /\ w \notin stale /\ pc[w] # "woken" =>
             \A f \in Fds \ Evdevs :
                entries[f].active => f \in filter[w] \/ \E a \in Tasks : call[a] = All

FilterCovers == \A w \in Waiters : FilterHolds(w)

(* Where a scan of w stands. *)
ScanPlace(w) ==
    /\ kind[w] = "epoll" /\ pc[w] \in {"scan", "seq"} <=> epoll_lock = w
    /\ epoll_lock = w => pos[w] \in 1..Len(FdSeq) + 1
    /\ epoll_lock = w /\ pos[w] <= Len(FdSeq) => entries[FdSeq[pos[w]]].active
    /\ pc[w] = "seq" => /\ kind[w] = "epoll" /\ pos[w] <= Len(FdSeq)
                        /\ "et" \in entries[FdSeq[pos[w]]].events
    /\ pc[w] = "scan" /\ kind[w] = "poll" => pos[w] \in 1..Len(PollFds) + 1
    /\ pc[w] = "lock" => kind[w] = "epoll"
    /\ kind[w] = "epoll" => w \in Epollers \/ pc[w] = "user"
    /\ pc[w] \in Behind => count[w] = 0

Scanner == \A w \in Waiters : ScanPlace(w)

StaleStarted == stale \subseteq Started

(* An edge that is owed will be seen.  The timers owe none, and an eventfd *)
(* gives edges to nobody but its owner.                                    *)
EdgesOwed ==
    /\ \A f \in Fds : \A d \in owed[f] :
          d \notin entries[f].last_ready \/ d \in entries[f].fresh
    /\ \A t \in Timerfds : owed[t] = {}
    /\ \A f \in Eventfds : "et" \in entries[f].events => Epollers = {owner_pid[f]}

IInv == /\ TypeOK /\ Heard /\ SeqSeen /\ FilterCovers /\ Scanner /\ StaleStarted
        /\ EdgesOwed

-----------------------------------------------------------------------------
LEMMA WantedTyped ==
    ASSUME NEW w, NEW f
    PROVE  Wanted(w, f) \in SUBSET Dirs
  BY DEF Wanted, event_descriptor_poll, Dirs

(* The epollers see the same of an entry that gives edges, but for timers. *)
LEMMA SameView ==
    ASSUME EdgesOwed, NEW w \in Epollers, NEW v \in Epollers, NEW f \in Fds \ Timerfds,
           "et" \in entries[f].events
    PROVE  Wanted(v, f) = Wanted(w, f)
<1>1. CASE f \in Eventfds
  <2>1. Epollers = {owner_pid[f]}
    BY <1>1 DEF EdgesOwed
  <2>2. v = w
    BY <2>1
  <2> QED
    BY <2>2
<1>2. CASE f \notin Eventfds
  <2>1. Uses(w, f) /\ Uses(v, f)
    BY <1>2 DEF Uses, Owned
  <2>2. Process(w) = Process(v)
    BY DEF Process
  <2>3. Readable(w, f) <=> Readable(v, f)
    BY <2>2 DEF Readable
  <2> QED
    BY <2>1, <2>3 DEF Wanted, event_descriptor_poll
<1> QED
  BY <1>1, <1>2

LEMMA EdgesTyped ==
    ASSUME NEW e, NEW R \in SUBSET Dirs
    PROVE  Edges(e, R) \in SUBSET Dirs
  BY DEF Edges

LEMMA EntryFields ==
    ASSUME EpTypes, NEW f \in Fds
    PROVE  /\ entries[f] \in Entries /\ entries[f].events \in SUBSET Events
           /\ entries[f].active \in BOOLEAN
           /\ entries[f].last_ready \in SUBSET Dirs /\ entries[f].fresh \in SUBSET Dirs
  BY DEF EpTypes, Entries

(* Bump adds to fresh and owed of one entry and leaves the rest. *)
LEMMA BumpEffect ==
    ASSUME EpTypes, NEW f \in Fds, NEW d \in Dirs, Bump(f, d), UNCHANGED open
    PROVE  /\ EpTypes'
           /\ \A g \in Fds : /\ entries'[g].events = entries[g].events
                             /\ entries'[g].active = entries[g].active
                             /\ entries'[g].last_ready = entries[g].last_ready
           /\ \A g \in Fds : g # f => entries'[g] = entries[g] /\ owed'[g] = owed[g]
           /\ \A b \in Dirs :
                /\ b \in entries'[f].fresh <=>
                     b \in entries[f].fresh \/ (b = d /\ {"et", d} \subseteq entries[f].events)
                /\ b \in owed'[f] <=>
                     b \in owed[f] \/ (b = d /\ {"et", d} \subseteq entries[f].events)
<1> DEFINE D == IF {"et", d} \subseteq entries[f].events THEN {d} ELSE {}
<1>1. D \in SUBSET Dirs /\ \A b : b \in D <=> b = d /\ {"et", d} \subseteq entries[f].events
  OBVIOUS
<1>2. entries' = [entries EXCEPT ![f] = [entries[f] EXCEPT !.fresh = @ \cup D]]
      /\ owed' = [owed EXCEPT ![f] = @ \cup D]
  BY DEF Bump
<1> HIDE DEF D
<1>3. /\ entries[f] \in Entries /\ entries[f].fresh \in SUBSET Dirs
  BY EntryFields
<1>4. [entries[f] EXCEPT !.fresh = @ \cup D] \in Entries
  BY <1>1, <1>3, SMT DEF Entries
<1>5. EpTypes'
  <2>1. entries' \in [Fds -> Entries]
    BY <1>2, <1>4 DEF EpTypes
  <2>2. owed[f] \cup D \in SUBSET Dirs
    BY <1>1 DEF EpTypes
  <2>3. owed' \in [Fds -> SUBSET Dirs]
    BY <1>2, <2>2 DEF EpTypes
  <2> QED
    BY <2>1, <2>3 DEF EpTypes
<1>6. ASSUME NEW g \in Fds
      PROVE  /\ entries'[g].events = entries[g].events
             /\ entries'[g].active = entries[g].active
             /\ entries'[g].last_ready = entries[g].last_ready
  BY <1>2, <1>3, SMT DEF EpTypes, Entries
<1>7. ASSUME NEW g \in Fds, g # f
      PROVE  entries'[g] = entries[g] /\ owed'[g] = owed[g]
  BY <1>2, <1>7 DEF EpTypes
<1>8. entries'[f].fresh = entries[f].fresh \cup D /\ owed'[f] = owed[f] \cup D
  BY <1>2, <1>3, SMT DEF EpTypes, Entries
<1> QED
  BY <1>1, <1>5, <1>6, <1>7, <1>8

-----------------------------------------------------------------------------
(* Steps of one waiter. *)
LocalStep(w) ==
    /\ \A v \in Waiters : v # w =>
         /\ pc'[v] = pc[v] /\ kind'[v] = kind[v] /\ pos'[v] = pos[v]
         /\ count'[v] = count[v] /\ seen'[v] = seen[v] /\ filter'[v] = filter[v]
         /\ v \in stale' <=> v \in stale
         /\ \A t \in Timerfds : <<v, t>> \in covers' <=> <<v, t>> \in covers
         /\ \A f \in Fds : <<v, f>> \in lifted' <=> <<v, f>> \in lifted
    /\ UNCHANGED <<descVars, irq_pending, call, irq>>

LEMMA ToldSame ==
    ASSUME NEW f, call' = call
    PROVE  Told(f)' <=> Told(f)
  BY DEF Told

LEMMA OthersKeep ==
    ASSUME NEW w \in Waiters, LocalStep(w), NEW v \in Waiters, v # w, NEW f
    PROVE  /\ Trusts(v)' <=> Trusts(v)
           /\ Passed(v, f)' <=> Passed(v, f)
           /\ Due(v, f)' <=> Due(v, f)
<1>1. Told(f)' <=> Told(f)
  BY ToldSame DEF LocalStep
<1>2. Trusts(v)' <=> Trusts(v)
  BY DEF Trusts, LocalStep
<1>3. Passed(v, f)' <=> Passed(v, f)
  BY DEF Passed, LocalStep
<1>4. Due(v, f)' <=> Due(v, f)
  BY <1>1 DEF Due, LocalStep, Asleep, descVars
<1> QED
  BY <1>2, <1>3, <1>4

LEMMA PollSame ==
    ASSUME NEW v, NEW f, UNCHANGED descVars
    PROVE  event_descriptor_poll(v, f)' = event_descriptor_poll(v, f)
<1>1. Readable(v, f)' <=> Readable(v, f)
  BY DEF Readable, evdev_grab_allowed, descVars
<1>2. Writable(f)' <=> Writable(f)
  BY DEF Writable, descVars
<1> QED
  BY <1>1, <1>2 DEF event_descriptor_poll, descVars

LEMMA WantedSame ==
    ASSUME NEW v, NEW f \in Fds, UNCHANGED descVars, entries'[f].events = entries[f].events
    PROVE  Wanted(v, f)' = Wanted(v, f)
  BY PollSame DEF Wanted

LEMMA StirsSame ==
    ASSUME NEW v \in Waiters, NEW f \in Fds, UNCHANGED descVars,
           entries'[f] = entries[f], kind'[v] = kind[v],
           <<v, f>> \in lifted' <=> <<v, f>> \in lifted
    PROVE  Stirs(v, f)' <=> Stirs(v, f)
<1>1. News(v, f)' = News(v, f)
  BY WantedSame DEF News, Edges
<1>2. Polled(v, f)' <=> Polled(v, f)
  BY PollSame DEF Polled
<1> QED
  BY <1>1, <1>2 DEF Stirs, Concerns, descVars

(* Only the holder of epoll_lock is between two reads of an entry. *)
LEMMA OneScanner ==
    ASSUME Scanner, NEW w \in Waiters, epoll_lock \in {w, None}, NEW v \in Waiters, v # w
    PROVE  pc[v] # "seq" /\ epoll_lock # v
<1>1. epoll_lock # v
  BY NamesAssumption
<1>2. ScanPlace(v)
  BY DEF Scanner
<1> QED
  BY <1>1, <1>2 DEF ScanPlace

LEMMA ScannerKept ==
    ASSUME Scanner, NEW w \in Waiters, LocalStep(w), ScanPlace(w)',
           epoll_lock' = epoll_lock \/ (epoll_lock \in {w, None} /\ epoll_lock' \in {w, None}),
           entries' = entries \/ epoll_lock \in {w, None}
    PROVE  Scanner'
<1> SUFFICES ASSUME NEW v \in Waiters, v # w PROVE ScanPlace(v)'
  BY DEF Scanner
<1>1. ScanPlace(v)
  BY DEF Scanner
<1>2. CASE epoll_lock \in {w, None}
  <2>1. pc[v] # "seq" /\ epoll_lock # v
    BY <1>2, OneScanner
  <2>2. epoll_lock' # v
    BY <1>2, NamesAssumption
  <2> QED
    BY <1>1, <2>1, <2>2 DEF ScanPlace, LocalStep
<1>3. CASE epoll_lock \notin {w, None}
  <2>1. epoll_lock' = epoll_lock /\ entries' = entries
    BY <1>3
  <2> QED
    BY <1>1, <2>1 DEF ScanPlace, LocalStep
<1> QED
  BY <1>2, <1>3

LEMMA EdgeSame ==
    ASSUME EdgesOwed, UNCHANGED <<entries, owed>>
    PROVE  EdgesOwed'
  BY DEF EdgesOwed

LEMMA FilterKept ==
    ASSUME FilterCovers, NEW w \in Waiters, LocalStep(w), FilterHolds(w)',
           \A f \in Fds : entries'[f].active => entries[f].active
    PROVE  FilterCovers'
<1> SUFFICES ASSUME NEW v \in Waiters, v # w PROVE FilterHolds(v)'
  BY DEF FilterCovers
<1>1. FilterHolds(v)
  BY DEF FilterCovers
<1> QED
  BY <1>1 DEF FilterHolds, LocalStep

LEMMA StartedKept ==
    ASSUME StaleStarted, NEW w \in Waiters, LocalStep(w), stale' \in SUBSET Waiters,
           w \in stale' => pc'[w] \notin {"user", "asleep", "woken"}
    PROVE  StaleStarted'
  BY DEF StaleStarted, Started, LocalStep

LEMMA HeardKept ==
    ASSUME Heard, NEW w \in Waiters, LocalStep(w), entries' = entries,
           \A f \in Fds : Trusts(w)' /\ Passed(w, f)' /\ Stirs(w, f)' => Due(w, f)'
    PROVE  Heard'
<1> SUFFICES ASSUME NEW v \in Waiters, v # w, NEW f \in Fds,
                    Trusts(v)', Passed(v, f)', Stirs(v, f)'
             PROVE  Due(v, f)'
  BY DEF Heard
<1>1. Stirs(v, f)
  BY StirsSame DEF LocalStep
<1> QED
  BY <1>1, OthersKeep DEF Heard

(* A waiter that does not scan, and is past nothing that it was not past   *)
(* before.                                                                 *)
LEMMA SeqKept ==
    ASSUME SeqSeen, NEW w \in Waiters, LocalStep(w), entries' = entries, Scanner,
           pc'[w] # "seq",
           \/ epoll_lock \in {w, None}
           \/ \A f \in Fds : kind'[w] = "epoll" /\ Trusts(w)' /\ Passed(w, f)' =>
                /\ kind[w] = "epoll" /\ Trusts(w) /\ Passed(w, f)
                /\ <<w, f>> \in lifted => <<w, f>> \in lifted'
                /\ Due(w, f) => Due(w, f)'
    PROVE  SeqSeen'
<1> SUFFICES ASSUME NEW u \in Waiters, NEW v \in Waiters, NEW f \in Fds
             PROVE  SeqHeard(u, v, f)'
  BY DEF SeqSeen
<1>1. CASE u = w
  BY <1>1 DEF SeqHeard
<1>2. CASE u # w /\ epoll_lock \in {w, None}
  <2>1. pc'[u] # "seq"
    BY <1>2, OneScanner DEF LocalStep
  <2> QED
    BY <2>1 DEF SeqHeard
<1>3. CASE u # w /\ epoll_lock \notin {w, None}
  <2>1. SeqHeard(u, v, f)
    BY DEF SeqSeen
  <2>2. pc'[u] = pc[u] /\ pos'[u] = pos[u] /\ seen'[u] = seen[u]
    BY <1>3 DEF LocalStep
  <2>3. Wanted(v, f)' = Wanted(v, f)
    BY WantedSame DEF LocalStep
  <2>4. CASE v = w
    <3>1. kind'[w] = "epoll" /\ Trusts(w)' /\ Passed(w, f)' =>
             /\ kind[w] = "epoll" /\ Trusts(w) /\ Passed(w, f)
             /\ <<w, f>> \in lifted => <<w, f>> \in lifted'
             /\ Due(w, f) => Due(w, f)'
      BY <1>3
    <3> QED
      BY <1>3, <2>1, <2>2, <2>3, <2>4, <3>1 DEF SeqHeard
  <2>5. CASE v # w
    <3>1. kind'[v] = kind[v] /\ (<<v, f>> \in lifted' <=> <<v, f>> \in lifted)
      BY <2>5 DEF LocalStep
    <3> QED
      BY <2>1, <2>2, <2>3, <2>5, <3>1, OthersKeep DEF SeqHeard
  <2> QED
    BY <2>4, <2>5
<1> QED
  BY <1>1, <1>2, <1>3

(* A step of a waiter that leaves the entries alone. *)
LEMMA LocalKept ==
    ASSUME IInv, TypeOK', NEW w \in Waiters, LocalStep(w), UNCHANGED <<entries, owed>>,
           ScanPlace(w)', FilterHolds(w)', pc'[w] # "seq",
           w \in stale' => pc'[w] \notin {"user", "asleep", "woken"},
           epoll_lock' = epoll_lock \/ (epoll_lock \in {w, None} /\ epoll_lock' \in {w, None}),
           \A f \in Fds : Trusts(w)' /\ Passed(w, f)' /\ Stirs(w, f)' => Due(w, f)',
           \/ epoll_lock \in {w, None}
           \/ \A f \in Fds : kind'[w] = "epoll" /\ Trusts(w)' /\ Passed(w, f)' =>
                /\ kind[w] = "epoll" /\ Trusts(w) /\ Passed(w, f)
                /\ <<w, f>> \in lifted => <<w, f>> \in lifted'
                /\ Due(w, f) => Due(w, f)'
    PROVE  IInv'
<1>1. Scanner'
  BY ScannerKept DEF IInv
<1>2. FilterCovers'
  BY FilterKept DEF IInv
<1>3. StaleStarted'
  BY StartedKept DEF IInv, TypeOK, ReadyTypes
<1>4. Heard'
  BY HeardKept DEF IInv
<1>5. SeqSeen'
  BY SeqKept DEF IInv
<1>6. EdgesOwed'
  BY EdgeSame DEF IInv, LocalStep
<1> QED
  BY <1>1, <1>2, <1>3, <1>4, <1>5, <1>6 DEF IInv

-----------------------------------------------------------------------------
(* The steps of epoll_wait and poll that leave the entries alone. *)
Outside == UNCHANGED <<descVars, irq_pending, call, irq>>

LEMMA ReturnEffect ==
    ASSUME TypeOK, NEW w \in Waiters, Return(w), Outside
    PROVE  /\ DescTypes' /\ ReadyTypes' /\ CallTypes' /\ ScanTypes' /\ SleepTypes'
           /\ LocalStep(w)
           /\ pc'[w] = "user" /\ w \notin stale' /\ filter'[w] = {}
<1>1. DescTypes' /\ ReadyTypes'
  BY DEF TypeOK, DescTypes, ReadyTypes, Outside, descVars, Return
<1>2. CallTypes'
  BY DEF TypeOK, CallTypes, Return, Goto, PCs
<1>3. ScanTypes'
  BY SMT DEF TypeOK, ScanTypes, Return, Dirs
<1>4. SleepTypes'
  BY DEF TypeOK, SleepTypes, Return, Uncovered, NotLifted
<1>5. LocalStep(w)
  BY DEF LocalStep, TypeOK, CallTypes, ScanTypes, SleepTypes, Return, Goto, Outside, Uncovered,
         NotLifted
<1>6. pc'[w] = "user" /\ w \notin stale' /\ filter'[w] = {}
  BY DEF TypeOK, CallTypes, SleepTypes, Return, Goto
<1> QED
  BY <1>1, <1>2, <1>3, <1>4, <1>5, <1>6

LEMMA ReturnKept ==
    ASSUME IInv, NEW w \in Waiters, Return(w), Outside, EpTypes', LockTypes',
           UNCHANGED <<entries, owed>>, epoll_lock' # w,
           epoll_lock' = epoll_lock \/ (epoll_lock = w /\ epoll_lock' = None)
    PROVE  IInv'
<1>1. /\ DescTypes' /\ ReadyTypes' /\ CallTypes' /\ ScanTypes' /\ SleepTypes'
      /\ LocalStep(w)
      /\ pc'[w] = "user" /\ w \notin stale' /\ filter'[w] = {}
  BY ReturnEffect DEF IInv
<1>2. TypeOK'
  BY <1>1 DEF TypeOK
<1>3. ScanPlace(w)' /\ FilterHolds(w)'
  BY <1>1 DEF ScanPlace, FilterHolds, Behind
<1>4. \A f : ~Passed(w, f)'
  BY <1>1 DEF Passed, Behind
<1> QED
  BY <1>1, <1>2, <1>3, <1>4, LocalKept

(* Reading the generation, from user mode, after a sleep or instead of it. *)
LEMMA GenerationEffect ==
    ASSUME TypeOK, NEW w \in Waiters, NEW k \in {"epoll", "poll"},
           descriptor_ready_generation(w, k)
    PROVE  /\ pc' \in [Waiters -> PCs] /\ pos' \in [Waiters -> Nat]
           /\ stale' \in SUBSET Waiters
           /\ \A v \in Waiters : v # w => /\ pc'[v] = pc[v] /\ pos'[v] = pos[v]
                                          /\ v \in stale' <=> v \in stale
           /\ pc'[w] = (IF k = "epoll" THEN "lock" ELSE "scan")
           /\ pos'[w] = 1 /\ w \notin stale'
           /\ lifted' \in SUBSET (Waiters \X Evdevs)
           /\ \A v \in Waiters, f \in Fds :
                v # w => (<<v, f>> \in lifted' <=> <<v, f>> \in lifted)
<1>1. pos' \in [Waiters -> Nat] /\ pos'[w] = 1 /\ \A v \in Waiters : v # w => pos'[v] = pos[v]
  BY SMT DEF TypeOK, ScanTypes, descriptor_ready_generation
<1>2. (IF k = "epoll" THEN "lock" ELSE "scan") \in PCs
  BY DEF PCs
<1>3. /\ lifted' \in SUBSET (Waiters \X Evdevs)
      /\ \A v \in Waiters, f \in Fds : v # w => (<<v, f>> \in lifted' <=> <<v, f>> \in lifted)
  BY DEF TypeOK, SleepTypes, descriptor_ready_generation, NotLifted
<1> QED
  BY <1>1, <1>2, <1>3 DEF TypeOK, CallTypes, ReadyTypes, descriptor_ready_generation, Goto

LEMMA GenerationKept ==
    ASSUME IInv, TypeOK', NEW w \in Waiters, LocalStep(w), UNCHANGED <<entries, owed, epoll_lock>>,
           epoll_lock # w, pos'[w] = 1, w \notin stale', filter'[w] = {},
           kind'[w] = "epoll" => w \in Epollers,
           pc'[w] = (IF kind'[w] = "epoll" THEN "lock" ELSE "scan")
    PROVE  IInv'
<1>1. kind'[w] \in {"epoll", "poll"}
  BY DEF TypeOK, CallTypes
<1>2. pc'[w] \in {"lock", "scan"} /\ (pc'[w] = "scan" <=> kind'[w] = "poll")
  BY <1>1
<1>3. Len(PollFds) \in Nat
  BY OrderAssumption, SMT
<1>4. 1 \in 1..Len(PollFds) + 1
  BY <1>3, SMT
<1>5. ScanPlace(w)'
  BY <1>2, <1>4 DEF ScanPlace, Behind
<1>6. FilterHolds(w)'
  BY DEF FilterHolds
<1>7. \A i \in DOMAIN PollFds : ~(i < 1)
  BY OrderAssumption, SMT
<1>8. \A f : ~Passed(w, f)'
  BY <1>2, <1>7 DEF Passed, Behind
<1> QED
  BY <1>2, <1>5, <1>6, <1>8, LocalKept

(* A task outside of a scan does not hold epoll_lock. *)
LEMMA NotScanning ==
    ASSUME Scanner, NEW w \in Waiters, pc[w] \notin {"scan", "seq"} \/ kind[w] # "epoll"
    PROVE  epoll_lock # w
  BY DEF Scanner, ScanPlace

LEMMA InEpoll ==
    ASSUME IInv, NEW w \in Waiters, pc[w] # "user", kind[w] = "epoll"
    PROVE  w \in Epollers
  BY DEF IInv, Scanner, ScanPlace

(* Another turn of the loop, in a step that may change sched_lock. *)
LEMMA AgainKept ==
    ASSUME IInv, NEW w \in Waiters, Again(w), Outside, LockTypes',
           UNCHANGED <<epVars, epoll_lock, owed>>,
           pc[w] \in {"wait", "queued", "woken"}
    PROVE  IInv'
<1>1. epoll_lock # w
  BY NotScanning DEF IInv
<1>2. UNCHANGED <<open, entries, owed>> /\ EpTypes' /\ DescTypes'
  BY DEF IInv, TypeOK, EpTypes, DescTypes, epVars, Outside, descVars
<1>3. CASE Return(w)
  BY <1>1, <1>2, <1>3, ReturnKept
<1>4. CASE /\ descriptor_ready_generation(w, kind[w])
           /\ filter' = [filter EXCEPT ![w] = {}]
           /\ covers' = Uncovered(w)
           /\ UNCHANGED <<kind, timeout, count, seen, signalled>>
  <2>1. kind[w] \in {"epoll", "poll"} /\ kind' = kind
    BY <1>4 DEF IInv, TypeOK, CallTypes
  <2>2. PICK k \in {"epoll", "poll"} : k = kind[w]
    BY <2>1
  <2>3. /\ pc' \in [Waiters -> PCs] /\ pos' \in [Waiters -> Nat]
        /\ stale' \in SUBSET Waiters
        /\ \A v \in Waiters : v # w => /\ pc'[v] = pc[v] /\ pos'[v] = pos[v]
                                       /\ v \in stale' <=> v \in stale
        /\ pc'[w] = (IF k = "epoll" THEN "lock" ELSE "scan")
        /\ pos'[w] = 1 /\ w \notin stale'
        /\ lifted' \in SUBSET (Waiters \X Evdevs)
        /\ \A v \in Waiters, f \in Fds :
             v # w => (<<v, f>> \in lifted' <=> <<v, f>> \in lifted)
    BY <1>4, <2>2, GenerationEffect DEF IInv
  <2>4. filter' \in [Waiters -> SUBSET Fds] /\ filter'[w] = {}
        /\ \A v \in Waiters : v # w => filter'[v] = filter[v]
    BY <1>4 DEF IInv, TypeOK, SleepTypes
  <2>5. /\ covers' \in SUBSET (Waiters \X Timerfds)
        /\ \A v \in Waiters, t \in Timerfds :
             v # w => (<<v, t>> \in covers' <=> <<v, t>> \in covers)
    BY <1>4 DEF IInv, TypeOK, SleepTypes, Uncovered
  <2>6. TypeOK'
    BY <1>2, <1>4, <2>3, <2>4, <2>5
       DEF IInv, TypeOK, ReadyTypes, CallTypes, ScanTypes, SleepTypes, Outside
  <2>7. LocalStep(w)
    BY <1>4, <2>3, <2>4, <2>5 DEF LocalStep, Outside
  <2>8. kind'[w] = "epoll" => w \in Epollers
    BY <2>1 DEF IInv, Scanner, ScanPlace
  <2> QED
    BY <1>1, <1>2, <2>1, <2>2, <2>3, <2>4, <2>6, <2>7, <2>8, GenerationKept
<1> QED
  BY <1>3, <1>4 DEF Again

LEMMA CallKept ==
    ASSUME IInv, NEW w \in Waiters, Call(w), Outside
    PROVE  IInv'
<1>1. PICK to \in {p[2] : p \in {q \in Timeouts : q[1] = w}} : timeout' = [timeout EXCEPT ![w] = to]
  BY DEF Call
<1>2. to \in {"zero", "finite", "none"}
  BY BoundsAssumption
<1>3. PICK k \in {"epoll", "poll"} :
         /\ kind' = [kind EXCEPT ![w] = k] /\ descriptor_ready_generation(w, k)
         /\ k = "epoll" => w \in Epollers
  BY DEF Call
<1>4. pc[w] = "user"
      /\ UNCHANGED <<epVars, epoll_lock, sched_lock, covers, count, seen, filter, signalled, owed>>
  BY DEF Call
<1>5. /\ pc' \in [Waiters -> PCs] /\ pos' \in [Waiters -> Nat]
      /\ stale' \in SUBSET Waiters
      /\ \A v \in Waiters : v # w => /\ pc'[v] = pc[v] /\ pos'[v] = pos[v]
                                     /\ v \in stale' <=> v \in stale
      /\ pc'[w] = (IF k = "epoll" THEN "lock" ELSE "scan")
      /\ pos'[w] = 1 /\ w \notin stale'
      /\ lifted' \in SUBSET (Waiters \X Evdevs)
      /\ \A v \in Waiters, f \in Fds : v # w => (<<v, f>> \in lifted' <=> <<v, f>> \in lifted)
  BY <1>3, GenerationEffect DEF IInv
<1>6. /\ kind' \in [Waiters -> {"epoll", "poll"}] /\ kind'[w] = k
      /\ \A v \in Waiters : v # w => kind'[v] = kind[v]
  BY <1>3 DEF IInv, TypeOK, CallTypes
<1>7. timeout' \in [Waiters -> {"zero", "finite", "none"}]
  BY <1>1, <1>2 DEF IInv, TypeOK, CallTypes
<1>8. UNCHANGED <<open, entries, owed>>
  BY <1>4 DEF epVars
<1>9. TypeOK'
  BY <1>4, <1>5, <1>6, <1>7, <1>8
     DEF IInv, TypeOK, DescTypes, EpTypes, LockTypes, ReadyTypes, CallTypes, ScanTypes,
         SleepTypes, Outside, descVars
<1>10. LocalStep(w)
  BY <1>4, <1>5, <1>6 DEF LocalStep, Outside
<1>11. epoll_lock # w
  BY <1>4, NotScanning DEF IInv
<1>12. filter'[w] = {}
  <2>1. FilterHolds(w)
    BY DEF IInv, FilterCovers
  <2> QED
    BY <1>4, <2>1 DEF FilterHolds, Behind
<1> QED
  BY <1>3, <1>4, <1>5, <1>6, <1>8, <1>9, <1>10, <1>11, <1>12, GenerationKept

LEMMA WokenKept ==
    ASSUME IInv, NEW w \in Waiters, Woken(w), Outside
    PROVE  IInv'
<1>1. pc[w] = "woken" /\ Again(w) /\ UNCHANGED <<epVars, epoll_lock, sched_lock, owed>>
  BY DEF Woken
<1>2. LockTypes'
  BY <1>1 DEF IInv, TypeOK, LockTypes
<1> QED
  BY <1>1, <1>2, AgainKept

(* On the way from the scan to the sleep. *)
LEMMA BehindKept ==
    ASSUME IInv, TypeOK', NEW w \in Waiters, LocalStep(w),
           UNCHANGED <<entries, owed, epoll_lock, kind, count, filter, stale, lifted>>,
           pc[w] \in {"decide", "wait", "queued"}, pc'[w] \in Behind,
           w \in stale => pc'[w] # "asleep",
           \A t \in Timerfds :
              <<w, t>> \in covers \/ (pc[w] = "decide" /\ Uses(w, t) /\ timer[t] # "off")
              => <<w, t>> \in covers'
    PROVE  IInv'
<1>1. epoll_lock # w
  BY NotScanning DEF IInv
<1>2. ScanPlace(w)'
  <2>1. ScanPlace(w)
    BY DEF IInv, Scanner
  <2> QED
    BY <1>1, <2>1 DEF ScanPlace, Behind
<1>3. FilterHolds(w)'
  <2>1. FilterHolds(w)
    BY DEF IInv, FilterCovers
  <2> QED
    BY <2>1 DEF FilterHolds, LocalStep, Behind
<1>4. ASSUME NEW f \in Fds, Due(w, f) PROVE Due(w, f)'
  <2>1. Told(f)' <=> Told(f)
    BY ToldSame DEF LocalStep
  <2> QED
    BY <1>4, <2>1 DEF Due, LocalStep, Asleep, descVars
<1>5. ASSUME NEW f \in Fds, Trusts(w)', Passed(w, f)', Stirs(w, f)'
      PROVE  Due(w, f)'
  <2>1. Stirs(w, f)
    BY <1>5, StirsSame DEF LocalStep
  <2>2. Trusts(w) /\ Passed(w, f)
    BY <1>5 DEF Trusts, Passed, Behind
  <2> QED
    BY <1>4, <2>1, <2>2 DEF IInv, Heard
<1>6. \A f \in Fds : kind'[w] = "epoll" /\ Trusts(w)' /\ Passed(w, f)' =>
                /\ kind[w] = "epoll" /\ Trusts(w) /\ Passed(w, f)
                /\ <<w, f>> \in lifted => <<w, f>> \in lifted'
                /\ Due(w, f) => Due(w, f)'
  BY <1>4 DEF Trusts, Passed, Behind
<1>7. pc'[w] # "seq" /\ (w \in stale' => pc'[w] \notin {"user", "asleep", "woken"})
  BY DEF Behind
<1> QED
  BY <1>2, <1>3, <1>5, <1>6, <1>7, LocalKept

LEMMA GotoEffect ==
    ASSUME CallTypes, NEW w \in Waiters, NEW l \in PCs, Goto(w, l)
    PROVE  /\ pc' \in [Waiters -> PCs] /\ pc'[w] = l
           /\ \A v \in Waiters : v # w => pc'[v] = pc[v]
  BY DEF CallTypes, Goto

LEMMA DecideKept ==
    ASSUME IInv, NEW w \in Waiters, Decide(w), Outside
    PROVE  IInv'
<1>1. pc[w] = "decide" /\ UNCHANGED <<open, entries, epoll_lock, sched_lock, owed>>
  BY DEF Decide, epVars
<1>2. EpTypes' /\ LockTypes' /\ DescTypes'
  BY <1>1 DEF IInv, TypeOK, EpTypes, LockTypes, DescTypes, Outside, descVars
<1>3. epoll_lock # w
  BY <1>1, NotScanning DEF IInv
<1>4. CASE Return(w)
  BY <1>1, <1>2, <1>3, <1>4, ReturnKept
<1>5. CASE /\ Goto(w, "wait")
           /\ covers' = event_descriptor_wait_timeout(w)
           /\ UNCHANGED <<stale, kind, timeout, pos, count, seen, filter, signalled, lifted>>
  <2>1. /\ pc' \in [Waiters -> PCs] /\ pc'[w] = "wait"
        /\ \A v \in Waiters : v # w => pc'[v] = pc[v]
    BY <1>5, GotoEffect DEF IInv, TypeOK, PCs
  <2>2. /\ covers' \in SUBSET (Waiters \X Timerfds)
        /\ \A v \in Waiters, t \in Timerfds :
             <<v, t>> \in covers' <=> 
                <<v, t>> \in covers \/ (v = w /\ Uses(w, t) /\ timer[t] # "off")
    BY <1>5, SMT DEF IInv, TypeOK, SleepTypes, event_descriptor_wait_timeout
  <2>3. TypeOK'
    BY <1>2, <1>5, <2>1, <2>2 DEF IInv, TypeOK, ReadyTypes, CallTypes, ScanTypes, SleepTypes,
          Outside
  <2>4. LocalStep(w)
    BY <1>5, <2>1, <2>2 DEF LocalStep, Outside
  <2> QED
    BY <1>1, <1>5, <2>1, <2>2, <2>3, <2>4, BehindKept DEF Behind
<1> QED
  BY <1>4, <1>5 DEF Decide

LEMMA WaitLockKept ==
    ASSUME IInv, NEW w \in Waiters, WaitLock(w), Outside
    PROVE  IInv'
<1>1. pc[w] = "wait" /\ UNCHANGED <<epVars, epoll_lock, owed>>
  BY DEF WaitLock
<1>2. CASE Again(w) /\ UNCHANGED sched_lock
  <2>1. LockTypes'
    BY <1>1, <1>2 DEF IInv, TypeOK, LockTypes
  <2> QED
    BY <1>1, <1>2, <2>1, AgainKept
<1>3. CASE /\ w \notin stale /\ sched_lock' = w
           /\ Goto(w, "queued")
           /\ UNCHANGED <<stale, covers, kind, timeout, pos, count, seen, filter, signalled,
                          lifted>>
  <2>1. /\ pc' \in [Waiters -> PCs] /\ pc'[w] = "queued"
        /\ \A v \in Waiters : v # w => pc'[v] = pc[v]
    BY <1>3, GotoEffect DEF IInv, TypeOK, PCs
  <2>2. TypeOK'
    BY <1>1, <1>3, <2>1
       DEF IInv, TypeOK, DescTypes, EpTypes, LockTypes, ReadyTypes, CallTypes, ScanTypes,
           SleepTypes, Outside, descVars, epVars
  <2>3. LocalStep(w)
    BY <1>3, <2>1 DEF LocalStep, Outside
  <2> QED
    BY <1>1, <1>3, <2>1, <2>2, <2>3, BehindKept DEF Behind, epVars
<1> QED
  BY <1>2, <1>3 DEF WaitLock

LEMMA WaitSecondTestKept ==
    ASSUME IInv, NEW w \in Waiters, WaitSecondTest(w), Outside
    PROVE  IInv'
<1>1. pc[w] = "queued" /\ sched_lock' = None /\ UNCHANGED <<epVars, epoll_lock, owed>>
  BY DEF WaitSecondTest
<1>2. LockTypes'
  BY <1>1 DEF IInv, TypeOK, LockTypes
<1>3. CASE Again(w)
  BY <1>1, <1>2, <1>3, AgainKept
<1>4. CASE /\ w \notin stale
           /\ Goto(w, "asleep")
           /\ UNCHANGED <<stale, covers, kind, timeout, pos, count, seen, filter, signalled,
                          lifted>>
  <2>1. /\ pc' \in [Waiters -> PCs] /\ pc'[w] = "asleep"
        /\ \A v \in Waiters : v # w => pc'[v] = pc[v]
    BY <1>4, GotoEffect DEF IInv, TypeOK, PCs
  <2>2. TypeOK'
    BY <1>1, <1>2, <1>4, <2>1
       DEF IInv, TypeOK, DescTypes, EpTypes, ReadyTypes, CallTypes, ScanTypes,
           SleepTypes, Outside, descVars, epVars
  <2>3. LocalStep(w)
    BY <1>4, <2>1 DEF LocalStep, Outside
  <2> QED
    BY <1>1, <1>4, <2>1, <2>2, <2>3, BehindKept DEF Behind, epVars
<1> QED
  BY <1>3, <1>4 DEF WaitSecondTest

LEMMA ScanFromEffect ==
    ASSUME ScanTypes, NEW w \in Waiters, NEW n \in Nat \ {0}, ScanFrom(w, n)
    PROVE  /\ pos' \in [Waiters -> Nat]
           /\ \A v \in Waiters : v # w => pos'[v] = pos[v]
           /\ pos'[w] \in 1..Len(FdSeq) + 1 /\ n <= pos'[w]
           /\ pos'[w] <= Len(FdSeq) => entries[FdSeq[pos'[w]]].active
           /\ \A i \in DOMAIN FdSeq : i < pos'[w] => i < n \/ ~entries[FdSeq[i]].active
<1>1. PICK i \in n..Len(FdSeq) + 1 : FirstActive(n, i) /\ pos' = [pos EXCEPT ![w] = i]
  BY DEF ScanFrom
<1>2. Len(FdSeq) \in Nat /\ DOMAIN FdSeq = 1..Len(FdSeq)
  BY OrderAssumption, SMT
<1>3. i \in Nat /\ i \in 1..Len(FdSeq) + 1 /\ n <= i
  BY <1>1, <1>2, SMT
<1>4. pos' \in [Waiters -> Nat] /\ pos'[w] = i /\ \A v \in Waiters : v # w => pos'[v] = pos[v]
  BY <1>1, <1>3 DEF ScanTypes
<1>5. \A k \in DOMAIN FdSeq : k < i => k < n \/ k \in n..i-1
  BY <1>2, <1>3, SMT
<1> QED
  BY <1>1, <1>3, <1>4, <1>5 DEF FirstActive

LEMMA EpollLockKept ==
    ASSUME IInv, NEW w \in Waiters, EpollLock(w), Outside
    PROVE  IInv'
<1>1. /\ pc[w] = "lock" /\ epoll_lock = None
      /\ UNCHANGED <<open, entries, sched_lock, owed>>
  BY DEF EpollLock, epVars
<1>2. EpTypes' /\ DescTypes'
  BY <1>1 DEF IInv, TypeOK, EpTypes, DescTypes, Outside, descVars
<1>3. epoll_lock # w
  BY <1>1, NamesAssumption
<1>4. CASE Return(w) /\ UNCHANGED epoll_lock
  <2>1. LockTypes'
    BY <1>1, <1>4 DEF IInv, TypeOK, LockTypes
  <2> QED
    BY <1>1, <1>2, <1>3, <1>4, <2>1, ReturnKept
<1>5. CASE /\ epoll_lock' = w
           /\ Goto(w, "scan")
           /\ ScanFrom(w, 1)
           /\ UNCHANGED <<stale, covers, kind, timeout, count, seen, filter, signalled,
                          lifted>>
  <2>1. /\ pc' \in [Waiters -> PCs] /\ pc'[w] = "scan"
        /\ \A v \in Waiters : v # w => pc'[v] = pc[v]
    BY <1>5, GotoEffect DEF IInv, TypeOK, PCs
  <2>2. /\ pos' \in [Waiters -> Nat]
        /\ \A v \in Waiters : v # w => pos'[v] = pos[v]
        /\ pos'[w] \in 1..Len(FdSeq) + 1
        /\ pos'[w] <= Len(FdSeq) => entries[FdSeq[pos'[w]]].active
        /\ \A i \in DOMAIN FdSeq : i < pos'[w] => i < 1 \/ ~entries[FdSeq[i]].active
    <3>1. 1 \in Nat \ {0}
      BY SMT
    <3> QED
      BY <1>5, <3>1, ScanFromEffect DEF IInv, TypeOK
  <2>3. TypeOK'
    BY <1>1, <1>2, <1>5, <2>1, <2>2
       DEF IInv, TypeOK, LockTypes, ReadyTypes, CallTypes, ScanTypes, SleepTypes, Outside
  <2>4. LocalStep(w)
    BY <1>5, <2>1, <2>2 DEF LocalStep, Outside
  <2>5. kind'[w] = "epoll"
    <3>1. ScanPlace(w)
      BY DEF IInv, Scanner
    <3> QED
      BY <1>1, <1>5, <3>1 DEF ScanPlace
  <2>6. ScanPlace(w)'
    <3>1. w \in Epollers
      BY <1>1, <1>5, <2>5, InEpoll
    <3> QED
      BY <1>1, <1>5, <2>1, <2>2, <2>5, <3>1 DEF ScanPlace, Behind
  <2>7. FilterHolds(w)'
    <3>1. FilterHolds(w)
      BY DEF IInv, FilterCovers
    <3> QED
      BY <1>1, <1>5, <3>1 DEF FilterHolds, Behind
  <2>8. ASSUME NEW f \in Fds, Passed(w, f)', Stirs(w, f)' PROVE FALSE
    <3>1. PICK i \in DOMAIN FdSeq : i < pos'[w] /\ FdSeq[i] = f
      BY <2>1, <2>5, <2>8 DEF Passed, Behind
    <3>2. ~(i < 1)
      BY OrderAssumption, SMT
    <3>3. ~entries'[f].active
      BY <1>1, <2>2, <3>1, <3>2
    <3> QED
      BY <2>5, <2>8, <3>3 DEF Stirs, Concerns
  <2>9. pc'[w] \notin {"seq", "user", "asleep", "woken"}
    BY <2>1
  <2> QED
    BY <1>1, <1>5, <2>3, <2>4, <2>6, <2>7, <2>8, <2>9, LocalKept
<1> QED
  BY <1>4, <1>5 DEF EpollLock

LEMMA ScanPollKept ==
    ASSUME IInv, NEW w \in Waiters, ScanPoll(w), Outside
    PROVE  IInv'
<1>1. /\ pc[w] = "scan" /\ kind[w] = "poll" /\ pos[w] <= Len(PollFds)
      /\ UNCHANGED <<open, entries, sched_lock, owed>>
  BY DEF ScanPoll, Scanning, epVars
<1>2. EpTypes' /\ DescTypes'
  BY <1>1 DEF IInv, TypeOK, EpTypes, DescTypes, Outside, descVars
<1>3. epoll_lock # w
  BY <1>1, NotScanning DEF IInv
<1>4. CASE Return(w) /\ UNCHANGED epoll_lock
  <2>1. LockTypes'
    BY <1>1, <1>4 DEF IInv, TypeOK, LockTypes
  <2> QED
    BY <1>1, <1>2, <1>3, <1>4, <2>1, ReturnKept
<1>5. CASE NextEntry(w, IF Polled(w, PollFds[pos[w]]) THEN 1 ELSE 0)
  <2>1. PICK n \in {0, 1} : /\ NextEntry(w, n)
                            /\ n = 0 => ~Polled(w, PollFds[pos[w]])
    <3>1. CASE Polled(w, PollFds[pos[w]])
      <4>1. NextEntry(w, 1) /\ 1 # 0
        BY <1>5, <3>1, SMT
      <4> QED
        BY <4>1
    <3>2. CASE ~Polled(w, PollFds[pos[w]])
      BY <1>5, <3>2
    <3> QED
      BY <3>1, <3>2
  <2>2. /\ Goto(w, "scan")
        /\ pos' = [pos EXCEPT ![w] = @ + 1]
        /\ count' = [count EXCEPT ![w] = @ + n]
        /\ seen' = [seen EXCEPT ![w] = {}]
        /\ UNCHANGED <<epoll_lock, stale, covers, kind, timeout, filter, signalled, lifted>>
    BY <1>1, <2>1 DEF NextEntry
  <2>3. /\ pc' \in [Waiters -> PCs] /\ pc'[w] = "scan"
        /\ \A v \in Waiters : v # w => pc'[v] = pc[v]
    BY <2>2, GotoEffect DEF IInv, TypeOK, PCs
  <2>4. /\ pos' \in [Waiters -> Nat] /\ pos'[w] = pos[w] + 1
        /\ \A v \in Waiters : v # w => pos'[v] = pos[v]
    BY <2>2, SMT DEF IInv, TypeOK, ScanTypes
  <2>5. /\ count' \in [Waiters -> Nat] /\ count'[w] = count[w] + n
        /\ \A v \in Waiters : v # w => count'[v] = count[v]
    BY <2>2, SMT DEF IInv, TypeOK, ScanTypes
  <2>6. /\ seen' \in [Waiters -> SUBSET Dirs]
        /\ \A v \in Waiters : v # w => seen'[v] = seen[v]
    BY <2>2 DEF IInv, TypeOK, ScanTypes
  <2>7. TypeOK'
    BY <1>1, <1>2, <2>2, <2>3, <2>4, <2>5, <2>6
       DEF IInv, TypeOK, LockTypes, ReadyTypes, CallTypes, ScanTypes, SleepTypes, Outside
  <2>8. LocalStep(w)
    BY <2>2, <2>3, <2>4, <2>5, <2>6 DEF LocalStep, Outside
  <2>9. pos[w] \in 1..Len(PollFds) + 1 /\ pos[w] \in DOMAIN PollFds
    <3>1. ScanPlace(w)
      BY DEF IInv, Scanner
    <3>2. pos[w] \in 1..Len(PollFds) + 1
      BY <1>1, <3>1 DEF ScanPlace
    <3> QED
      BY <1>1, <3>2, OrderAssumption, SMT
  <2>10. pos'[w] \in 1..Len(PollFds) + 1
    BY <1>1, <2>4, <2>9, OrderAssumption, SMT
  <2>11. ScanPlace(w)'
    BY <1>1, <1>3, <2>2, <2>3, <2>10 DEF ScanPlace, Behind
  <2>12. FilterHolds(w)'
    <3>1. FilterHolds(w)
      BY DEF IInv, FilterCovers
    <3> QED
      BY <1>1, <2>2, <3>1 DEF FilterHolds, Behind
  <2>13. ASSUME NEW f \in Fds, Trusts(w)', Passed(w, f)', Stirs(w, f)'
         PROVE  Due(w, f)'
    <3>1. Stirs(w, f)
      BY <1>1, <2>2, <2>13, StirsSame DEF Outside
    <3>2. n = 0 /\ Trusts(w)
      <4>1. count'[w] = 0
        BY <2>13 DEF Trusts
      <4>2. n = 0 /\ count[w] = 0
        BY <2>5, <4>1, SMT DEF IInv, TypeOK, ScanTypes
      <4> QED
        BY <2>2, <2>13, <4>2 DEF Trusts
    <3>3. PICK i \in DOMAIN PollFds : i < pos'[w] /\ PollFds[i] = f
      BY <1>1, <2>2, <2>3, <2>13 DEF Passed, Behind
    <3>4. i < pos[w] \/ i = pos[w]
      BY <2>4, <2>9, <3>3, OrderAssumption, SMT
    <3>5. CASE i < pos[w]
      <4>1. Passed(w, f)
        BY <1>1, <3>3, <3>5 DEF Passed
      <4>2. Due(w, f)
        BY <3>1, <3>2, <4>1 DEF IInv, Heard
      <4> QED
        BY <1>1, <2>2, <2>3, <4>2, ToldSame DEF Due, Outside, descVars, Asleep
    <3>6. CASE i = pos[w]
      <4>1. f \in Timerfds /\ Uses(w, f) /\ timer[f] # "off"
        BY <1>1, <2>1, <3>1, <3>2, <3>3, <3>6 DEF Stirs
      <4> QED
        BY <2>3, <4>1 DEF Due, Outside, descVars
    <3> QED
      BY <3>4, <3>5, <3>6
  <2>14. kind'[w] # "epoll" /\ pc'[w] \notin {"seq", "user", "asleep", "woken"}
    BY <1>1, <2>2, <2>3
  <2> QED
    BY <1>1, <2>2, <2>7, <2>8, <2>11, <2>12, <2>13, <2>14, LocalKept
<1> QED
  BY <1>4, <1>5 DEF ScanPoll

LEMMA ScanEndKept ==
    ASSUME IInv, NEW w \in Waiters, ScanEnd(w), Outside
    PROVE  IInv'
<1>1. /\ pc[w] = "scan" /\ ~Scanning(w)
      /\ epoll_lock' = IF kind[w] = "epoll" THEN None ELSE epoll_lock
      /\ UNCHANGED <<open, entries, sched_lock, owed>>
  BY DEF ScanEnd, epVars
<1>2. EpTypes' /\ DescTypes'
  BY <1>1 DEF IInv, TypeOK, EpTypes, DescTypes, Outside, descVars
<1>3. ScanPlace(w)
  BY DEF IInv, Scanner
<1>4. kind[w] = "epoll" <=> epoll_lock = w
  BY <1>1, <1>3 DEF ScanPlace
<1>5. /\ epoll_lock' # w
      /\ epoll_lock' = epoll_lock \/ (epoll_lock = w /\ epoll_lock' = None)
  BY <1>1, <1>4, NamesAssumption
<1>6. LockTypes'
  BY <1>1 DEF IInv, TypeOK, LockTypes
<1>7. CASE Return(w)
  BY <1>1, <1>2, <1>5, <1>6, <1>7, ReturnKept
<1>8. CASE /\ count[w] = 0
           /\ Goto(w, "decide")
           /\ pos' = [pos EXCEPT ![w] = 0]
           /\ \E K \in {Keys, {}} :
                filter' = [filter EXCEPT ![w] = IF kind[w] = "epoll" THEN K ELSE {}]
           /\ UNCHANGED <<stale, covers, kind, timeout, count, seen, signalled, lifted>>
  <2>1. /\ pc' \in [Waiters -> PCs] /\ pc'[w] = "decide"
        /\ \A v \in Waiters : v # w => pc'[v] = pc[v]
    BY <1>8, GotoEffect DEF IInv, TypeOK, PCs
  <2>2. /\ pos' \in [Waiters -> Nat]
        /\ \A v \in Waiters : v # w => pos'[v] = pos[v]
    BY <1>8, SMT DEF IInv, TypeOK, ScanTypes
  <2>3. PICK K \in SUBSET Fds :
          /\ filter' = [filter EXCEPT ![w] = K]
          /\ K # {} => kind[w] = "epoll"
                       /\ \A f \in Fds \ Evdevs : entries[f].active => f \in K
    <3>1. Keys \in SUBSET Fds /\ (Keys # {} => Keys = ActiveKeys)
      BY DEF Keys, ActiveKeys, epoll_target_key
    <3>2. \A f \in Fds \ Evdevs : entries[f].active => f \in ActiveKeys
      BY DEF ActiveKeys, epoll_target_key
    <3>3. PICK L \in {Keys, {}} :
            filter' = [filter EXCEPT ![w] = IF kind[w] = "epoll" THEN L ELSE {}]
      BY <1>8
    <3>4. CASE kind[w] = "epoll"
      BY <3>1, <3>2, <3>3, <3>4
    <3>5. CASE kind[w] # "epoll"
      BY <3>3, <3>5
    <3> QED
      BY <3>4, <3>5
  <2>4. /\ filter' \in [Waiters -> SUBSET Fds] /\ filter'[w] = K
        /\ \A v \in Waiters : v # w => filter'[v] = filter[v]
    BY <2>3 DEF IInv, TypeOK, SleepTypes
  <2>5. TypeOK'
    BY <1>1, <1>2, <1>6, <1>8, <2>1, <2>2, <2>4
       DEF IInv, TypeOK, ReadyTypes, CallTypes, ScanTypes, SleepTypes, Outside
  <2>6. LocalStep(w)
    BY <1>8, <2>1, <2>2, <2>4 DEF LocalStep, Outside
  <2>7. ScanPlace(w)'
    <3>1. kind'[w] = "epoll" => w \in Epollers
      BY <1>1, <1>8, InEpoll
    <3> QED
      BY <1>5, <1>8, <2>1, <3>1 DEF ScanPlace
  <2>8. FilterHolds(w)'
    BY <1>1, <1>8, <2>1, <2>3, <2>4 DEF FilterHolds, Behind
  <2>9. ASSUME NEW f \in Fds, Trusts(w)', Stirs(w, f)' PROVE Due(w, f)'
    <3>1. Stirs(w, f) /\ Trusts(w)
      BY <1>1, <1>8, <2>9, StirsSame DEF Outside, Trusts
    <3>2. Passed(w, f)
      <4>1. CASE kind[w] = "epoll"
        <5>1. ~(pos[w] <= Len(FdSeq))
          <6>1. 0 < MaxEvents
            BY BoundsAssumption, SMT
          <6> QED
            BY <1>1, <1>8, <4>1, <6>1 DEF Scanning
        <5>2. PICK i \in DOMAIN FdSeq : FdSeq[i] = f
          BY OrderAssumption
        <5>3. i < pos[w]
          BY <5>1, <5>2, OrderAssumption, SMT DEF IInv, TypeOK, ScanTypes
        <5> QED
          BY <1>1, <4>1, <5>2, <5>3 DEF Passed
      <4>2. CASE kind[w] = "poll"
        <5>1. ~(pos[w] <= Len(PollFds))
          BY <1>1, <4>2 DEF Scanning
        <5>2. PICK i \in DOMAIN PollFds : PollFds[i] = f
          BY <3>1, <4>2 DEF Stirs, Concerns
        <5>3. i < pos[w]
          BY <5>1, <5>2, OrderAssumption, SMT DEF IInv, TypeOK, ScanTypes
        <5> QED
          BY <1>1, <4>2, <5>2, <5>3 DEF Passed
      <4> QED
        BY <4>1, <4>2 DEF IInv, TypeOK, CallTypes
    <3>3. Due(w, f)
      BY <3>1, <3>2 DEF IInv, Heard
    <3> QED
      BY <1>1, <1>8, <2>1, <3>3, ToldSame DEF Due, Outside, descVars, Asleep
  <2>10. \/ epoll_lock \in {w, None}
         \/ kind'[w] # "epoll"
    BY <1>4, <1>8
  <2>11. pc'[w] \notin {"seq", "user", "asleep", "woken"}
    BY <2>1
  <2>12. epoll_lock' = epoll_lock \/ (epoll_lock \in {w, None} /\ epoll_lock' \in {w, None})
    BY <1>5
  <2> QED
    BY <1>1, <2>5, <2>6, <2>7, <2>8, <2>9, <2>10, <2>11, <2>12, LocalKept
<1> QED
  BY <1>7, <1>8, <1>1 DEF ScanEnd

LEMMA SleepEndsKept ==
    ASSUME IInv, NEW w \in Waiters, SleepEnds(w), Outside
    PROVE  IInv'
<1>1. /\ pc[w] = "asleep" /\ pc' = [v \in Waiters |-> IF v \in {w} THEN "woken" ELSE pc[v]]
      /\ UNCHANGED <<open, entries, epoll_lock, sched_lock, stale, covers, kind, timeout, pos,
                     count, seen, filter, signalled, owed, lifted>>
  BY DEF SleepEnds, Wake, Asleep, epVars
<1>2. /\ pc' \in [Waiters -> PCs] /\ pc'[w] = "woken"
      /\ \A v \in Waiters : v # w => pc'[v] = pc[v]
  BY <1>1 DEF IInv, TypeOK, CallTypes, PCs
<1>3. TypeOK'
  BY <1>1, <1>2
     DEF IInv, TypeOK, DescTypes, EpTypes, LockTypes, ReadyTypes, CallTypes, ScanTypes,
         SleepTypes, Outside, descVars
<1>4. LocalStep(w)
  BY <1>1, <1>2 DEF LocalStep, Outside
<1>5. epoll_lock # w
  BY <1>1, NotScanning DEF IInv
<1>6. ScanPlace(w)'
  <2>1. kind'[w] = "epoll" => w \in Epollers
    BY <1>1, InEpoll
  <2> QED
    BY <1>1, <1>2, <1>5, <2>1 DEF ScanPlace, Behind
<1>7. FilterHolds(w)'
  <2>1. FilterHolds(w)
    BY DEF IInv, FilterCovers
  <2> QED
    BY <1>1, <1>2, <2>1 DEF FilterHolds
<1>8. \A f : ~Passed(w, f)'
  BY <1>2 DEF Passed, Behind
<1>9. w \notin stale' /\ pc'[w] # "seq"
  BY <1>1, <1>2 DEF IInv, StaleStarted, Started
<1> QED
  BY <1>1, <1>3, <1>4, <1>6, <1>7, <1>8, <1>9, LocalKept

-----------------------------------------------------------------------------
(* The steps of a scan that change an entry. *)

(* What an entry e of f, changed to e, would report to w. *)
NewsOf(w, e, f) == IF "et" \in e.events THEN Edges(e, Wanted(w, f)) ELSE Wanted(w, f)

LEMMA NewsSame ==
    ASSUME NEW v, NEW e, NEW f \in Fds, UNCHANGED descVars,
           entries'[f].events = e.events, entries'[f].last_ready = e.last_ready,
           entries'[f].fresh = e.fresh, e.events = entries[f].events
    PROVE  News(v, f)' = NewsOf(v, e, f)
  BY WantedSame DEF News, NewsOf, Edges

(* The scan of w writes e as the entry of f and reports R. *)
Scanned(w, f, e, R) ==
    /\ epoll_lock = w /\ kind[w] = "epoll" /\ pc[w] \in {"scan", "seq"}
    /\ pos[w] \in DOMAIN FdSeq /\ f = FdSeq[pos[w]]
    /\ e.events = entries[f].events
    /\ \A v \in Waiters :
         /\ kind[v] = "epoll" /\ Trusts(v) /\ Uses(v, f) /\ <<v, f>> \notin lifted
         /\ Passed(v, f) \/ (v = w /\ R = {})
         /\ NewsOf(v, e, f) # {}
         => Due(v, f)
    /\ \A d \in owed[f] \ R : d \notin e.last_ready \/ d \in e.fresh

(* The entry that Report leaves. *)
LEMMA ReportEffect ==
    ASSUME TypeOK, NEW w \in Waiters, NEW f \in Fds, NEW e \in Entries, NEW R \in SUBSET Dirs,
           Report(w, f, e, R)
    PROVE  /\ entries' \in [Fds -> Entries] /\ owed' \in [Fds -> SUBSET Dirs]
           /\ entries'[f].events = e.events /\ entries'[f].last_ready = e.last_ready
           /\ entries'[f].fresh = e.fresh
           /\ \A g \in Fds : g # f => entries'[g] = entries[g] /\ owed'[g] = owed[g]
           /\ owed'[f] = owed[f] \ R
<1>1. PICK x \in Entries : /\ entries' = [entries EXCEPT ![f] = x]
                           /\ x.events = e.events /\ x.last_ready = e.last_ready
                           /\ x.fresh = e.fresh
  <2>1. CASE entries' = [entries EXCEPT ![f] = e]
    BY <2>1
  <2>2. CASE entries' = [entries EXCEPT ![f] = [e EXCEPT !.active = "oneshot" \notin e.events]]
    <3>1. [e EXCEPT !.active = "oneshot" \notin e.events]
            = [events |-> e.events, active |-> "oneshot" \notin e.events,
               last_ready |-> e.last_ready, fresh |-> e.fresh]
      BY SMT DEF Entries
    <3>2. [events |-> e.events, active |-> "oneshot" \notin e.events,
           last_ready |-> e.last_ready, fresh |-> e.fresh] \in Entries
      BY DEF Entries
    <3> QED
      BY <2>2, <3>1, <3>2
  <2> QED
    BY <2>1, <2>2 DEF Report
<1>2. owed' = [owed EXCEPT ![f] = owed[f] \ R]
  <2>1. CASE R # {}
    BY <2>1 DEF Report
  <2>2. CASE R = {}
    <3>1. owed' = owed /\ owed[f] \ R = owed[f]
      BY <2>2 DEF Report
    <3> QED
      BY <3>1 DEF TypeOK, EpTypes
  <2> QED
    BY <2>1, <2>2
<1>3. owed[f] \ R \in SUBSET Dirs
  BY DEF TypeOK, EpTypes
<1>4. owed' \in [Fds -> SUBSET Dirs] /\ owed'[f] = owed[f] \ R
      /\ \A g \in Fds : g # f => owed'[g] = owed[g]
  BY <1>2, <1>3 DEF TypeOK, EpTypes
<1>5. entries' \in [Fds -> Entries] /\ entries'[f] = x
      /\ \A g \in Fds : g # f => entries'[g] = entries[g]
  BY <1>1 DEF TypeOK, EpTypes
<1> QED
  BY <1>1, <1>4, <1>5

LEMMA ReportEdges ==
    ASSUME TypeOK, EdgesOwed, NEW w \in Waiters, NEW f \in Fds,
           NEW e \in Entries, NEW R \in SUBSET Dirs, Report(w, f, e, R), Scanned(w, f, e, R)
    PROVE  EdgesOwed'
<1>1. /\ entries'[f].events = e.events /\ entries'[f].last_ready = e.last_ready
      /\ entries'[f].fresh = e.fresh
      /\ \A g \in Fds : g # f => entries'[g] = entries[g] /\ owed'[g] = owed[g]
      /\ owed'[f] = owed[f] \ R
  BY ReportEffect, SMT
<1>2. \A g \in Fds : \A d \in owed'[g] : d \notin entries'[g].last_ready \/ d \in entries'[g].fresh
  BY <1>1 DEF EdgesOwed, Scanned
<1>3. \A t \in Timerfds : owed'[t] = {}
  BY <1>1 DEF EdgesOwed, Fds, Owned
<1>4. \A g \in Eventfds : "et" \in entries'[g].events => Epollers = {owner_pid[g]}
  <2>1. \A g \in Fds : entries'[g].events = entries[g].events
    BY <1>1 DEF Scanned
  <2> QED
    BY <2>1 DEF EdgesOwed, Fds, Owned
<1> QED
  BY <1>2, <1>3, <1>4 DEF EdgesOwed

LEMMA ScannedHeard ==
    ASSUME IInv, NEW w \in Waiters, LocalStep(w), NEW f \in Fds, NEW e \in Entries,
           NEW R \in SUBSET Dirs, Report(w, f, e, R), Scanned(w, f, e, R),
           \A g \in Fds : Trusts(w)' /\ Passed(w, g)' /\ Stirs(w, g)' => Due(w, g)'
    PROVE  Heard'
<1>1. /\ entries' \in [Fds -> Entries] /\ owed' \in [Fds -> SUBSET Dirs]
      /\ entries'[f].events = e.events /\ entries'[f].last_ready = e.last_ready
      /\ entries'[f].fresh = e.fresh
      /\ \A g \in Fds : g # f => entries'[g] = entries[g] /\ owed'[g] = owed[g]
      /\ owed'[f] = owed[f] \ R
  BY ReportEffect, SMT DEF IInv
<1> SUFFICES ASSUME NEW v \in Waiters, v # w, NEW g \in Fds,
                    Trusts(v)', Passed(v, g)', Stirs(v, g)'
             PROVE  Due(v, g)'
  BY DEF Heard
<1>2. /\ Trusts(v) /\ Passed(v, g) /\ (Due(v, g) => Due(v, g)') /\ kind'[v] = kind[v]
      /\ <<v, g>> \in lifted' <=> <<v, g>> \in lifted
  BY OthersKeep DEF LocalStep
<1>3. UNCHANGED descVars
  BY DEF LocalStep
<1>4. CASE g # f
  <2>1. Stirs(v, g)
    BY <1>1, <1>2, <1>3, <1>4, StirsSame
  <2> QED
    BY <1>2, <2>1 DEF IInv, Heard
<1>5. CASE g = f /\ kind[v] = "epoll" /\ News(v, f)' # {}
  <2>1. NewsOf(v, e, f) # {}
    <3>1. e.events = entries[f].events
      BY DEF Scanned
    <3> QED
      BY <1>1, <1>3, <1>5, <3>1, NewsSame
  <2>2. Uses(v, f) /\ <<v, f>> \notin lifted
    BY <1>2, <1>5 DEF Stirs
  <2> QED
    BY <1>2, <1>5, <2>1, <2>2 DEF Scanned
<1>6. CASE g = f /\ ~(kind[v] = "epoll" /\ News(v, f)' # {})
  <2>1. entries[f].active
    <3>1. ScanPlace(w)
      BY DEF IInv, Scanner
    <3>2. pos[w] <= Len(FdSeq)
      BY OrderAssumption, SMT DEF Scanned
    <3> QED
      BY <3>1, <3>2 DEF ScanPlace, Scanned
  <2>2. (Polled(v, f)' <=> Polled(v, f)) /\ timer' = timer
    BY <1>3, PollSame DEF descVars, Polled
  <2>3. Stirs(v, f)
    BY <1>2, <1>6, <2>1, <2>2 DEF Stirs, Concerns
  <2> QED
    BY <1>2, <1>6, <2>3 DEF IInv, Heard
<1> QED
  BY <1>4, <1>5, <1>6

LEMMA ReportRest ==
    ASSUME IInv, TypeOK', NEW w \in Waiters, LocalStep(w), NEW f \in Fds, NEW e \in Entries,
           NEW R \in SUBSET Dirs, Report(w, f, e, R), Scanned(w, f, e, R),
           ScanPlace(w)', filter'[w] = {}, epoll_lock' \in {w, None},
           pc'[w] \in {"scan", "user"}, w \in stale' => pc'[w] = "scan",
           \A g \in Fds : Trusts(w)' /\ Passed(w, g)' /\ Stirs(w, g)' => Due(w, g)'
    PROVE  IInv'
<1>1. /\ entries' \in [Fds -> Entries] /\ owed' \in [Fds -> SUBSET Dirs]
      /\ entries'[f].events = e.events /\ entries'[f].last_ready = e.last_ready
      /\ entries'[f].fresh = e.fresh
      /\ \A g \in Fds : g # f => entries'[g] = entries[g] /\ owed'[g] = owed[g]
      /\ owed'[f] = owed[f] \ R
  BY ReportEffect, SMT DEF IInv
<1>2. epoll_lock = w /\ entries[f].active
  <2>1. ScanPlace(w)
    BY DEF IInv, Scanner
  <2>2. pos[w] <= Len(FdSeq)
    BY OrderAssumption, SMT DEF Scanned
  <2> QED
    BY <2>1, <2>2 DEF ScanPlace, Scanned
<1>3. Heard'
  BY ScannedHeard
<1>4. Scanner'
  BY <1>2, ScannerKept DEF IInv
<1>5. SeqSeen'
  <2>1. \A u \in Waiters : pc'[u] # "seq"
    BY <1>2, OneScanner DEF IInv, LocalStep
  <2> QED
    BY <2>1 DEF SeqSeen, SeqHeard
<1>6. FilterCovers'
  <2>1. FilterHolds(w)'
    BY DEF FilterHolds
  <2>2. \A g \in Fds : entries'[g].active => entries[g].active
    BY <1>1, <1>2
  <2> QED
    BY <2>1, <2>2, FilterKept DEF IInv
<1>7. StaleStarted'
  BY StartedKept DEF IInv, TypeOK, ReadyTypes
<1>8. EdgesOwed'
  BY ReportEdges DEF IInv
<1> QED
  BY <1>3, <1>4, <1>5, <1>6, <1>7, <1>8 DEF IInv

LEMMA ReportKept ==
    ASSUME IInv, NEW w \in Waiters, NEW f \in Fds, NEW e \in Entries, NEW R \in SUBSET Dirs,
           Report(w, f, e, R), Scanned(w, f, e, R), UNCHANGED <<open, sched_lock>>, Outside
    PROVE  IInv'
<1>1. /\ entries' \in [Fds -> Entries] /\ owed' \in [Fds -> SUBSET Dirs]
      /\ entries'[f].events = e.events /\ entries'[f].last_ready = e.last_ready
      /\ entries'[f].fresh = e.fresh
      /\ \A g \in Fds : g # f => entries'[g] = entries[g] /\ owed'[g] = owed[g]
      /\ owed'[f] = owed[f] \ R
  BY ReportEffect, SMT DEF IInv
<1>2. EpTypes' /\ DescTypes'
  BY <1>1 DEF IInv, TypeOK, EpTypes, DescTypes, Outside, descVars
<1>3. filter[w] = {}
  <2>1. FilterHolds(w)
    BY DEF IInv, FilterCovers
  <2> QED
    BY <2>1 DEF FilterHolds, Scanned, Behind
<1>4. CASE epoll_lock' = None /\ Return(w)
  <2>1. /\ ReadyTypes' /\ CallTypes' /\ ScanTypes' /\ SleepTypes' /\ LocalStep(w)
        /\ pc'[w] = "user" /\ w \notin stale' /\ filter'[w] = {}
    BY <1>4, ReturnEffect DEF IInv
  <2>2. TypeOK'
    BY <1>2, <1>4, <2>1 DEF IInv, TypeOK, LockTypes
  <2>3. ScanPlace(w)'
    BY <1>4, <2>1, NamesAssumption DEF ScanPlace, Behind
  <2>4. \A g : ~Passed(w, g)'
    BY <2>1 DEF Passed, Behind
  <2> QED
    BY <1>4, <2>1, <2>2, <2>3, <2>4, ReportRest
<1>5. ASSUME NEW n \in {0, 1}, NextEntry(w, n), n = 0 => R = {} PROVE IInv'
  <2>1. /\ Goto(w, "scan")
        /\ ScanFrom(w, pos[w] + 1)
        /\ count' = [count EXCEPT ![w] = @ + n]
        /\ seen' = [seen EXCEPT ![w] = {}]
        /\ UNCHANGED <<epoll_lock, stale, covers, kind, timeout, filter, signalled, lifted>>
    BY <1>5 DEF NextEntry, Scanned
  <2>2. /\ pc' \in [Waiters -> PCs] /\ pc'[w] = "scan"
        /\ \A v \in Waiters : v # w => pc'[v] = pc[v]
    BY <2>1, GotoEffect DEF IInv, TypeOK, PCs
  <2>3. pos[w] \in Nat /\ pos[w] + 1 \in Nat \ {0}
    BY SMT DEF IInv, TypeOK, ScanTypes
  <2>4. PICK m \in Nat \ {0} : m = pos[w] + 1
    BY <2>3
  <2>5. /\ pos' \in [Waiters -> Nat]
        /\ \A v \in Waiters : v # w => pos'[v] = pos[v]
        /\ pos'[w] \in 1..Len(FdSeq) + 1 /\ m <= pos'[w]
        /\ pos'[w] <= Len(FdSeq) => entries[FdSeq[pos'[w]]].active
        /\ \A i \in DOMAIN FdSeq : i < pos'[w] => i < m \/ ~entries[FdSeq[i]].active
    <3>1. ScanFrom(w, m)
      BY <2>1, <2>4
    <3> QED
      BY <3>1, ScanFromEffect DEF IInv, TypeOK
  <2>6. /\ count' \in [Waiters -> Nat] /\ count'[w] = count[w] + n
        /\ \A v \in Waiters : v # w => count'[v] = count[v]
    BY <2>1, SMT DEF IInv, TypeOK, ScanTypes
  <2>7. /\ seen' \in [Waiters -> SUBSET Dirs]
        /\ \A v \in Waiters : v # w => seen'[v] = seen[v]
    BY <2>1 DEF IInv, TypeOK, ScanTypes
  <2>8. TypeOK'
    BY <1>2, <2>1, <2>2, <2>5, <2>6, <2>7
       DEF IInv, TypeOK, LockTypes, ReadyTypes, CallTypes, ScanTypes, SleepTypes, Outside
  <2>9. LocalStep(w)
    BY <2>1, <2>2, <2>5, <2>6, <2>7 DEF LocalStep, Outside
  <2>10. \A i \in DOMAIN FdSeq : i # pos[w] => entries'[FdSeq[i]] = entries[FdSeq[i]]
    <3>1. \A i \in DOMAIN FdSeq : FdSeq[i] \in Fds
      BY OrderAssumption, SMT
    <3> QED
      BY <1>1, <3>1, OrderAssumption DEF Scanned
  <2>11. ScanPlace(w)'
    <3>1. pos'[w] <= Len(FdSeq) => pos'[w] \in DOMAIN FdSeq /\ pos'[w] # pos[w]
      BY <2>3, <2>4, <2>5, OrderAssumption, SMT
    <3>2. pos'[w] <= Len(FdSeq) => entries'[FdSeq[pos'[w]]].active
      BY <2>5, <2>10, <3>1
    <3>3. w \in Epollers
      BY InEpoll DEF Scanned
    <3> QED
      BY <2>1, <2>2, <2>5, <3>2, <3>3 DEF ScanPlace, Scanned, Behind
  <2>12. ASSUME NEW g \in Fds, Trusts(w)', Passed(w, g)', Stirs(w, g)'
         PROVE  Due(w, g)'
    <3>1. n = 0 /\ Trusts(w)
      <4>1. count'[w] = 0
        BY <2>12 DEF Trusts
      <4>2. n = 0 /\ count[w] = 0
        BY <2>6, <4>1, SMT DEF IInv, TypeOK, ScanTypes
      <4> QED
        BY <2>1, <2>12, <4>2 DEF Trusts
    <3>2. kind'[w] = "epoll" /\ UNCHANGED descVars
      BY <2>1 DEF Scanned, Outside
    <3>3. PICK i \in DOMAIN FdSeq : i < pos'[w] /\ FdSeq[i] = g
      BY <2>2, <2>12, <3>2 DEF Passed, Behind
    <3>4. Due(w, g) => Due(w, g)'
      BY <2>1, <2>2, ToldSame DEF Due, Outside, descVars, Asleep, Scanned
    <3>5. CASE i = pos[w]
      <4>1. g = f
        BY <3>3, <3>5 DEF Scanned
      <4>2. CASE f \in Timerfds /\ timer[f] # "off"
        <5>1. Uses(w, f)
          BY <2>12, <4>1 DEF Stirs
        <5> QED
          BY <2>2, <3>2, <4>1, <4>2, <5>1 DEF Due, descVars
      <4>3. CASE ~(f \in Timerfds /\ timer[f] # "off")
        <5>1. News(w, f)' # {} /\ Uses(w, f) /\ <<w, f>> \notin lifted
          BY <2>1, <2>12, <3>2, <4>1, <4>3 DEF Stirs, descVars
        <5>2. NewsOf(w, e, f) # {}
          <6>1. e.events = entries[f].events
            BY DEF Scanned
          <6> QED
            BY <1>1, <3>2, <5>1, <6>1, NewsSame
        <5> QED
          BY <1>5, <3>1, <3>4, <4>1, <5>1, <5>2 DEF Scanned
      <4> QED
        BY <4>2, <4>3
    <3>6. CASE i # pos[w]
      <4>1. entries'[g] = entries[g]
        BY <2>10, <3>3, <3>6
      <4>2. i < m
        BY <2>5, <2>12, <3>2, <3>3, <4>1 DEF Stirs, Concerns
      <4>3. i < pos[w]
        BY <2>3, <2>4, <3>6, <4>2, OrderAssumption, SMT
      <4>4. Passed(w, g)
        BY <3>3, <4>3 DEF Passed, Scanned
      <4>5. Stirs(w, g)
        BY <2>1, <2>12, <3>2, <4>1, StirsSame
      <4> QED
        BY <3>1, <3>4, <4>4, <4>5 DEF IInv, Heard
    <3> QED
      BY <3>5, <3>6
  <2>13. filter'[w] = {} /\ epoll_lock' = w
    BY <1>3, <2>1 DEF Scanned
  <2> QED
    BY <2>2, <2>8, <2>9, <2>11, <2>12, <2>13, ReportRest
<1>6. CASE R = {} /\ NextEntry(w, 0)
  <2>1. 0 \in {0, 1}
    OBVIOUS
  <2> QED
    BY <1>5, <1>6, <2>1
<1>7. CASE R # {} /\ NextEntry(w, 1)
  <2>1. 1 \in {0, 1} /\ 1 # 0
    BY SMT
  <2> QED
    BY <1>5, <1>7, <2>1
<1> QED
  BY <1>4, <1>6, <1>7 DEF Report

LEMMA ScanEpollKept ==
    ASSUME IInv, NEW w \in Waiters, ScanEpoll(w), Outside
    PROVE  IInv'
<1>1. /\ pc[w] = "scan" /\ kind[w] = "epoll" /\ pos[w] <= Len(FdSeq)
      /\ UNCHANGED <<open, sched_lock>>
  BY DEF ScanEpoll, Scanning
<1>2. ScanPlace(w)
  BY DEF IInv, Scanner
<1>3. epoll_lock = w /\ pos[w] \in 1..Len(FdSeq) + 1 /\ entries[FdSeq[pos[w]]].active
  BY <1>1, <1>2 DEF ScanPlace
<1>4. pos[w] \in DOMAIN FdSeq /\ FdSeq[pos[w]] \in Fds
  BY <1>1, <1>3, OrderAssumption, SMT
<1>5. PICK f \in Fds : f = FdSeq[pos[w]]
  BY <1>4
<1>6. PICK e \in Entries : e = entries[f]
  BY EntryFields DEF IInv, TypeOK
<1>7. PICK R \in SUBSET Dirs : R = Wanted(w, f)
  BY WantedTyped
<1>8. CASE "et" \notin e.events /\ Report(w, f, e, R)
  <2>1. \A v \in Waiters : News(v, f) = Wanted(v, f) /\ NewsOf(v, e, f) = Wanted(v, f)
    BY <1>6, <1>8 DEF News, NewsOf
  <2>2. ASSUME NEW v \in Waiters, kind[v] = "epoll", Trusts(v), Uses(v, f), <<v, f>> \notin lifted,
               Passed(v, f) \/ (v = w /\ R = {}), NewsOf(v, e, f) # {}
        PROVE  Due(v, f)
    <3>1. Stirs(v, f)
      BY <1>3, <1>5, <2>1, <2>2 DEF Stirs, Concerns
    <3>2. Passed(v, f)
      BY <1>7, <2>1, <2>2
    <3> QED
      BY <2>2, <3>1, <3>2 DEF IInv, Heard
  <2>3. \A d \in owed[f] \ R : d \notin e.last_ready \/ d \in e.fresh
    BY <1>6 DEF IInv, EdgesOwed
  <2>4. Scanned(w, f, e, R)
    BY <1>1, <1>3, <1>4, <1>5, <1>6, <1>8, <2>2, <2>3 DEF Scanned
  <2> QED
    BY <1>1, <1>8, <2>4, ReportKept
<1>9. CASE /\ "et" \in e.events
           /\ Goto(w, "seq")
           /\ seen' = [seen EXCEPT ![w] = R]
           /\ UNCHANGED <<entries, epoll_lock, stale, covers, kind, timeout, pos,
                          count, filter, signalled, owed, lifted>>
  <2>1. /\ pc' \in [Waiters -> PCs] /\ pc'[w] = "seq"
        /\ \A v \in Waiters : v # w => pc'[v] = pc[v]
    BY <1>9, GotoEffect DEF IInv, TypeOK, PCs
  <2>2. /\ seen' \in [Waiters -> SUBSET Dirs] /\ seen'[w] = R
        /\ \A v \in Waiters : v # w => seen'[v] = seen[v]
    BY <1>9 DEF IInv, TypeOK, ScanTypes
  <2>3. TypeOK'
    BY <1>1, <1>9, <2>1, <2>2
       DEF IInv, TypeOK, DescTypes, EpTypes, LockTypes, ReadyTypes, CallTypes, ScanTypes,
           SleepTypes, Outside, descVars
  <2>4. LocalStep(w)
    BY <1>9, <2>1, <2>2 DEF LocalStep, Outside
  <2>5. ScanPlace(w)'
    <3>1. w \in Epollers
      BY <1>1, InEpoll
    <3> QED
      BY <1>1, <1>3, <1>5, <1>6, <1>9, <2>1, <3>1 DEF ScanPlace, Behind
  <2>6. FilterHolds(w)'
    <3>1. FilterHolds(w)
      BY DEF IInv, FilterCovers
    <3> QED
      BY <1>1, <1>9, <3>1 DEF FilterHolds, Behind
  <2>7. ASSUME NEW g \in Fds, Trusts(w)', Passed(w, g)', Stirs(w, g)' PROVE Due(w, g)'
    <3>1. Stirs(w, g) /\ Trusts(w)
      BY <1>9, <2>7, StirsSame DEF Outside, Trusts
    <3>2. Passed(w, g)
      BY <1>1, <1>9, <2>1, <2>7 DEF Passed, Behind
    <3>3. Due(w, g)
      BY <3>1, <3>2 DEF IInv, Heard
    <3> QED
      BY <1>1, <1>9, <2>1, <3>3, ToldSame DEF Due, Outside, descVars, Asleep
  <2>8. Heard'
    BY <1>9, <2>4, <2>7, HeardKept DEF IInv
  <2>9. SeqSeen'
    <3> SUFFICES ASSUME NEW u \in Waiters, NEW v \in Waiters, NEW g \in Fds
                 PROVE  SeqHeard(u, v, g)'
      BY DEF SeqSeen
    <3>1. CASE u = w
      <4>1. CASE g = f
        <5> SUFFICES ASSUME kind'[v] = "epoll", Trusts(v)', Passed(v, f)' \/ v = w, Uses(v, f),
                            <<v, f>> \notin lifted', Wanted(v, f)' \ seen'[w] # {}
                     PROVE  Due(v, f)'
          BY <3>1, <4>1 DEF SeqHeard
        <5>1. Wanted(v, f)' = Wanted(v, f)
          BY <1>9, WantedSame DEF Outside
        <5>2. v # w /\ Wanted(v, f) # Wanted(w, f)
          BY <1>7, <2>2, <5>1
        <5>3. Passed(v, f) /\ Trusts(v) /\ kind[v] = "epoll"
          BY <1>9, <2>4, <5>2, OthersKeep
        <5>4. v \in Epollers /\ w \in Epollers
          <6>1. ScanPlace(v) /\ ScanPlace(w)
            BY DEF IInv, Scanner
          <6>2. pc[v] # "user"
            BY <5>3 DEF Passed, Behind
          <6> QED
            BY <1>1, <5>3, <6>1, <6>2 DEF ScanPlace
        <5>5. f \in Timerfds
          BY <1>6, <1>9, <5>2, <5>4, SameView DEF IInv
        <5>6. timer[f] # "off"
          <6>1. event_descriptor_poll(v, f) # {}
            BY <2>2, <5>1 DEF Wanted
          <6>2. f \notin Eventfds /\ f \notin Pipes /\ f \notin Evdevs /\ f \notin hung
            BY <5>5, NamesAssumption DEF IInv, TypeOK, DescTypes, Owned
          <6>3. f \notin WriteEnds
            BY <6>2, NamesAssumption
          <6>4. Readable(v, f)
            BY <6>1, <6>2, <6>3 DEF event_descriptor_poll, Writable
          <6> QED
            BY <6>2, <6>4 DEF Readable
        <5>7. Stirs(v, f)
          BY <1>3, <1>5, <1>9, <5>3, <5>5, <5>6 DEF Stirs, Concerns
        <5>8. Due(v, f)
          BY <5>3, <5>7 DEF IInv, Heard
        <5> QED
          BY <2>4, <5>2, <5>8, OthersKeep
      <4>2. CASE g # f
        BY <1>5, <1>9, <3>1, <4>2 DEF SeqHeard
      <4> QED
        BY <4>1, <4>2
    <3>2. CASE u # w
      <4>1. pc'[u] # "seq"
        BY <1>3, <2>1, <3>2, OneScanner DEF IInv
      <4> QED
        BY <4>1 DEF SeqHeard
    <3> QED
      BY <3>1, <3>2
  <2>10. Scanner'
    BY <1>9, <2>4, <2>5, ScannerKept DEF IInv
  <2>11. FilterCovers'
    BY <1>9, <2>4, <2>6, FilterKept DEF IInv
  <2>12. StaleStarted'
    BY <2>1, <2>3, <2>4, StartedKept DEF IInv, TypeOK, ReadyTypes
  <2>13. EdgesOwed'
    BY <1>9, EdgeSame DEF IInv
  <2> QED
    BY <2>3, <2>8, <2>9, <2>10, <2>11, <2>12, <2>13 DEF IInv
<1> QED
  BY <1>5, <1>6, <1>7, <1>8, <1>9 DEF ScanEpoll

LEMMA ScannedEntry ==
    ASSUME NEW z \in Entries, NEW S \in SUBSET Dirs
    PROVE  \E x \in Entries : /\ x = [z EXCEPT !.last_ready = S, !.fresh = {}]
                              /\ x.events = z.events /\ x.last_ready = S /\ x.fresh = {}
<1> DEFINE y == [events |-> z.events, active |-> z.active, last_ready |-> S, fresh |-> z.fresh]
           x == [events |-> z.events, active |-> z.active, last_ready |-> S, fresh |-> {}]
<1>1. [z EXCEPT !.last_ready = S] = y
  BY SMT DEF Entries
<1>2. [y EXCEPT !.fresh = {}] = x
  BY SMT DEF Entries
<1>3. [z EXCEPT !.last_ready = S, !.fresh = {}] = [[z EXCEPT !.last_ready = S] EXCEPT !.fresh = {}]
  BY DEF Entries
<1>4. x \in Entries /\ x.events = z.events /\ x.last_ready = S /\ x.fresh = {}
  BY DEF Entries
<1> HIDE DEF x, y
<1> QED
  BY <1>1, <1>2, <1>3, <1>4

LEMMA ScanEdgesKept ==
    ASSUME IInv, NEW w \in Waiters, ScanEdges(w), Outside
    PROVE  IInv'
<1>1. pc[w] = "seq" /\ UNCHANGED <<open, sched_lock>>
  BY DEF ScanEdges
<1>2. ScanPlace(w)
  BY DEF IInv, Scanner
<1>3. /\ kind[w] = "epoll" /\ pos[w] <= Len(FdSeq) /\ epoll_lock = w
      /\ pos[w] \in 1..Len(FdSeq) + 1 /\ "et" \in entries[FdSeq[pos[w]]].events
  BY <1>1, <1>2 DEF ScanPlace
<1>4. pos[w] \in DOMAIN FdSeq /\ FdSeq[pos[w]] \in Fds
  BY <1>3, OrderAssumption, SMT
<1>5. PICK f \in Fds : f = FdSeq[pos[w]]
  BY <1>4
<1>6. seen[w] \in SUBSET Dirs /\ entries[f] \in Entries
  BY EntryFields DEF IInv, TypeOK, ScanTypes
<1>7. PICK e \in Entries : /\ e = [entries[f] EXCEPT !.last_ready = seen[w], !.fresh = {}]
                           /\ e.events = entries[f].events
                           /\ e.last_ready = seen[w] /\ e.fresh = {}
  BY <1>6, ScannedEntry
<1>8. PICK R \in SUBSET Dirs : R = Edges(entries[f], seen[w])
  BY <1>6, EdgesTyped
<1>9. Report(w, f, e, R)
  BY <1>5, <1>7, <1>8 DEF ScanEdges
<1>10. ASSUME NEW v \in Waiters, kind[v] = "epoll", Trusts(v), Uses(v, f), <<v, f>> \notin lifted,
              Passed(v, f) \/ v = w, NewsOf(v, e, f) # {}
       PROVE  Due(v, f)
  <2>1. Wanted(v, f) \ seen[w] # {}
    <3>1. "et" \in e.events
      BY <1>3, <1>5, <1>7
    <3>2. NewsOf(v, e, f) = Edges(e, Wanted(v, f))
      BY <3>1 DEF NewsOf
    <3> QED
      BY <1>7, <1>10, <3>2 DEF Edges
  <2>2. SeqHeard(w, v, f)
    BY DEF IInv, SeqSeen
  <2> QED
    BY <1>1, <1>5, <1>10, <2>1, <2>2 DEF SeqHeard
<1>11. ASSUME NEW d \in owed[f] \ R
       PROVE  d \notin seen[w]
  <2>1. d \notin entries[f].last_ready \/ d \in entries[f].fresh
    BY <1>11 DEF IInv, EdgesOwed
  <2> QED
    BY <1>8, <1>11, <2>1 DEF Edges
<1>12. Scanned(w, f, e, R)
  BY <1>1, <1>3, <1>4, <1>5, <1>7, <1>10, <1>11 DEF Scanned
<1> QED
  BY <1>1, <1>9, <1>12, ReportKept

LEMMA WaiterKept ==
    ASSUME IInv, NEW w \in Waiters, WaiterStep(w)
    PROVE  IInv'
  BY CallKept, EpollLockKept, ScanEpollKept, ScanEdgesKept, ScanPollKept, ScanEndKept,
     DecideKept, WaitLockKept, WaitSecondTestKept, SleepEndsKept, WokenKept
     DEF WaiterStep, Outside

-----------------------------------------------------------------------------
(* The steps of the actors, the timers and the interrupts. *)
AllDue == \E a \in Tasks : call[a] = All

(* The step leaves what w is told of f in order. *)
Steady(w, f) ==
    /\ AllDue \/ (entries'[f].active /\ ~entries[f].active) => AllDue'
    /\ \/ Due(w, f)'
       \/ ~Concerns(w, f) /\ ~Concerns(w, f)'
       \/ ~Uses(w, f) \/ <<w, f>> \in lifted'
       \/ /\ Concerns(w, f) /\ Due(w, f) => Due(w, f)'
          /\ <<w, f>> \in lifted => <<w, f>> \in lifted'
          /\ Stirs(w, f)' => Stirs(w, f)
          /\ Wanted(w, f)' \subseteq Wanted(w, f)

(* A step outside of the waiters, which may wake some and may change the   *)
(* generation.                                                             *)
Noise ==
    /\ UNCHANGED <<epoll_lock, kind, pos, count, seen, filter>>
    /\ \A w \in Waiters : pc'[w] = pc[w] \/ (pc[w] = "asleep" /\ pc'[w] = "woken")
    /\ stale' = stale \/ stale' = Started
    /\ epoll_lock = None \/ \A f \in Fds : /\ entries'[f].active = entries[f].active
                                           /\ entries'[f].events = entries[f].events

LEMMA NoiseStale ==
    ASSUME StaleStarted, Noise
    PROVE  stale \subseteq stale' /\ StaleStarted'
<1>1. \A w \in Waiters : w \in Started => w \in Started'
  BY DEF Started, Noise
<1>2. stale \subseteq stale'
  BY DEF Noise, StaleStarted
<1> QED
  BY <1>1, <1>2 DEF Noise, StaleStarted, Started

LEMMA NoiseScanner ==
    ASSUME Scanner, Noise
    PROVE  Scanner'
<1> SUFFICES ASSUME NEW w \in Waiters PROVE ScanPlace(w)'
  BY DEF Scanner
<1>1. ScanPlace(w)
  BY DEF Scanner
<1>2. pc'[w] = pc[w] \/ (pc[w] = "asleep" /\ pc'[w] = "woken")
  BY DEF Noise
<1>3. CASE epoll_lock = w
  <2>1. FdSeq[pos[w]] \in Fds \/ ~(pos[w] <= Len(FdSeq))
    BY <1>1, <1>3, OrderAssumption, SMT DEF ScanPlace
  <2>2. epoll_lock # None
    BY <1>3, NamesAssumption
  <2> QED
    BY <1>1, <1>2, <1>3, <2>1, <2>2 DEF ScanPlace, Noise, Behind
<1>4. CASE epoll_lock # w
  BY <1>1, <1>2, <1>4 DEF ScanPlace, Noise, Behind
<1> QED
  BY <1>3, <1>4

LEMMA NoiseHeard ==
    ASSUME IInv, Noise, TypeOK', NEW w \in Waiters, NEW f \in Fds,
           w \notin stale' /\ pc'[w] = pc[w] /\ pc[w] \in Behind \cup {"scan", "seq"}
           => Steady(w, f)
    PROVE  Trusts(w)' /\ Passed(w, f)' /\ Stirs(w, f)' => Due(w, f)'
<1> SUFFICES ASSUME Trusts(w)', Passed(w, f)', Stirs(w, f)' PROVE Due(w, f)'
  OBVIOUS
<1>1. pc'[w] = pc[w] /\ pc[w] \in Behind \cup {"scan", "seq"}
  BY DEF Passed, Noise, Behind
<1>2. Trusts(w) /\ w \notin stale'
  BY NoiseStale DEF IInv, Trusts, Noise
<1>3. Passed(w, f)
  BY <1>1 DEF Passed, Noise
<1>4. Steady(w, f)
  BY <1>1, <1>2
<1>5. Concerns(w, f)'
  BY DEF Stirs
<1>6. CASE ~Uses(w, f) \/ <<w, f>> \in lifted'
  BY <1>6 DEF Stirs
<1>7. CASE /\ Concerns(w, f) /\ Due(w, f) => Due(w, f)'
           /\ Stirs(w, f)' => Stirs(w, f)
  <2>1. Stirs(w, f) /\ Concerns(w, f)
    BY <1>7 DEF Stirs
  <2> QED
    BY <1>2, <1>3, <1>7, <2>1 DEF IInv, Heard
<1> QED
  BY <1>4, <1>5, <1>6, <1>7 DEF Steady

LEMMA NoiseSeq ==
    ASSUME IInv, Noise, TypeOK', NEW u \in Waiters, NEW w \in Waiters, NEW f \in Fds,
           w \notin stale' /\ pc'[w] = pc[w] /\ pc[w] \in Behind \cup {"scan", "seq"}
           => Steady(w, f)
    PROVE  SeqHeard(u, w, f)'
<1> SUFFICES ASSUME pc'[u] = "seq", f = FdSeq[pos'[u]], kind'[w] = "epoll", Trusts(w)',
                    Passed(w, f)' \/ w = u, Uses(w, f), <<w, f>> \notin lifted',
                    Wanted(w, f)' \ seen'[u] # {}
             PROVE  Due(w, f)'
  BY DEF SeqHeard
<1>1. pc[u] = "seq" /\ f = FdSeq[pos[u]] /\ kind[w] = "epoll" /\ seen'[u] = seen[u]
  BY DEF Noise
<1>2. pc'[w] = pc[w] /\ pc[w] \in Behind \cup {"scan", "seq"}
  BY <1>1 DEF Passed, Noise, Behind
<1>3. Trusts(w) /\ w \notin stale'
  BY NoiseStale DEF IInv, Trusts, Noise
<1>4. Passed(w, f) \/ w = u
  BY <1>2 DEF Passed, Noise
<1>5. Steady(w, f)
  BY <1>2, <1>3
<1>6. Concerns(w, f)
  <2>1. ScanPlace(u)
    BY DEF IInv, Scanner
  <2> QED
    BY <1>1, <2>1 DEF ScanPlace, Concerns
<1>7. CASE /\ Concerns(w, f) /\ Due(w, f) => Due(w, f)'
           /\ <<w, f>> \in lifted => <<w, f>> \in lifted'
           /\ Wanted(w, f)' \subseteq Wanted(w, f)
  <2>1. Wanted(w, f) \ seen[u] # {}
    BY <1>1, <1>7
  <2>2. SeqHeard(u, w, f)
    BY DEF IInv, SeqSeen
  <2> QED
    BY <1>1, <1>3, <1>4, <1>6, <1>7, <2>1, <2>2 DEF SeqHeard
<1> QED
  BY <1>5, <1>6, <1>7 DEF Steady

LEMMA NoiseFilter ==
    ASSUME IInv, Noise, NEW w \in Waiters,
           \A f \in Fds : w \notin stale' /\ pc'[w] = pc[w] /\ pc[w] \in Behind \cup {"scan", "seq"}
                          => Steady(w, f)
    PROVE  FilterHolds(w)'
<1>1. FilterHolds(w)
  BY DEF IInv, FilterCovers
<1>2. SUFFICES ASSUME filter'[w] # {} PROVE FilterHolds(w)'
  BY DEF FilterHolds
<1>3. kind'[w] = "epoll" /\ pc'[w] \in Behind \cup {"woken"} /\ filter'[w] = filter[w]
  BY <1>1, <1>2 DEF FilterHolds, Noise
<1>4. ASSUME w \notin stale', pc'[w] # "woken", NEW f \in Fds \ Evdevs, entries'[f].active
      PROVE  f \in filter[w] \/ AllDue'
  <2>1. w \notin stale /\ pc[w] = pc'[w] /\ pc[w] \in Behind
    BY <1>3, <1>4, NoiseStale DEF IInv, Noise
  <2>2. Steady(w, f)
    BY <1>4, <2>1
  <2>3. CASE entries[f].active
    <3>1. f \in filter[w] \/ AllDue
      BY <1>1, <1>2, <1>3, <1>4, <2>1, <2>3 DEF FilterHolds, AllDue
    <3> QED
      BY <2>2, <3>1 DEF Steady
  <2>4. CASE ~entries[f].active
    BY <1>4, <2>2, <2>4 DEF Steady
  <2> QED
    BY <2>3, <2>4
<1> QED
  BY <1>3, <1>4 DEF FilterHolds, AllDue

LEMMA NoiseKept ==
    ASSUME IInv, Noise, TypeOK', EdgesOwed',
           \A w \in Waiters, f \in Fds :
              w \notin stale' /\ pc'[w] = pc[w] /\ pc[w] \in Behind \cup {"scan", "seq"}
              => Steady(w, f)
    PROVE  IInv'
<1>1. Heard'
  BY NoiseHeard DEF Heard
<1>2. SeqSeen'
  BY NoiseSeq DEF SeqSeen
<1>3. FilterCovers'
  BY NoiseFilter DEF FilterCovers
<1>4. Scanner' /\ StaleStarted'
  BY NoiseScanner, NoiseStale DEF IInv
<1> QED
  BY <1>1, <1>2, <1>3, <1>4 DEF IInv

LEMMA Announced ==
    ASSUME TypeOK, NEW a \in Tasks, NEW k \in Pipes \cup Owned \cup {All},
           call[a] = None, Announce(a, k)
    PROVE  /\ call' \in [Tasks -> Pipes \cup Owned \cup {All, None}]
           /\ \A f \in Fds : Told(f) => Told(f)'
           /\ AllDue => AllDue'
           /\ k = All => AllDue' /\ \A f \in Fds : Told(f)'
           /\ Told(k)'
<1>1. /\ call' \in [Tasks -> Pipes \cup Owned \cup {All, None}] /\ call'[a] = k
      /\ \A b \in Tasks : b # a => call'[b] = call[b]
  BY DEF TypeOK, ReadyTypes, Announce
<1>2. \A f \in Fds : call[a] \notin {f, All}
  BY NamesAssumption
<1>3. call[a] # All
  BY NamesAssumption
<1>4. \A f \in Fds : Told(f) => Told(f)'
  BY <1>1, <1>2 DEF Told
<1>5. AllDue => AllDue'
  BY <1>1, <1>3 DEF AllDue
<1>6. k = All => AllDue' /\ \A f \in Fds : Told(f)'
  BY <1>1 DEF AllDue, Told
<1>7. Told(k)'
  BY <1>1 DEF Told
<1> QED
  BY <1>1, <1>4, <1>5, <1>6, <1>7

LEMMA SteadySame ==
    ASSUME NEW w \in Waiters, NEW f \in Fds, UNCHANGED <<irq, irq_pending, covers>>,
           pc'[w] = pc[w], kind'[w] = kind[w], entries'[f] = entries[f],
           <<w, f>> \in lifted' <=> <<w, f>> \in lifted,
           event_descriptor_poll(w, f)' \subseteq event_descriptor_poll(w, f),
           f \in Timerfds => timer'[f] = timer[f], Told(f) => Told(f)', AllDue => AllDue'
    PROVE  Steady(w, f)
<1>1. Due(w, f) => Due(w, f)'
  BY DEF Due, Asleep
<1>2. Wanted(w, f)' \subseteq Wanted(w, f)
  BY DEF Wanted
<1>3. News(w, f)' \subseteq News(w, f)
  BY <1>2 DEF News, Edges
<1>4. Polled(w, f)' => Polled(w, f)
  BY DEF Polled
<1>5. Stirs(w, f)' => Stirs(w, f)
  BY <1>3, <1>4 DEF Stirs, Concerns
<1> QED
  BY <1>1, <1>2, <1>5 DEF Steady

(* What is told of f, and what f has to say, is the owner's, who does not  *)
(* wait.                                                                   *)
LEMMA OwnedSteady ==
    ASSUME NEW w \in Waiters, NEW f \in Owned, AllDue => AllDue', w # owner_pid[f],
           entries'[f].active = entries[f].active
    PROVE  Steady(w, f)
  BY DEF Steady, Uses

(* The sequence of direction d of f goes up. *)
LEMMA BumpEdges ==
    ASSUME EpTypes, EdgesOwed, NEW f \in Fds \ Timerfds, NEW d \in Dirs, Bump(f, d), UNCHANGED open
    PROVE  EdgesOwed'
<1>1. \A g \in Fds : /\ entries'[g].events = entries[g].events
                     /\ entries'[g].last_ready = entries[g].last_ready
  BY BumpEffect
<1>2. \A g \in Fds : g # f => entries'[g] = entries[g] /\ owed'[g] = owed[g]
  BY BumpEffect
<1>3. \A b \in Dirs :
        /\ b \in entries'[f].fresh <=>
             b \in entries[f].fresh \/ (b = d /\ {"et", d} \subseteq entries[f].events)
        /\ b \in owed'[f] <=>
             b \in owed[f] \/ (b = d /\ {"et", d} \subseteq entries[f].events)
  BY BumpEffect
<1>4. owed'[f] \in SUBSET Dirs
  BY BumpEffect DEF EpTypes
<1>5. ASSUME NEW g \in Fds, NEW b \in owed'[g]
      PROVE  b \notin entries'[g].last_ready \/ b \in entries'[g].fresh
  <2>1. CASE g # f
    BY <1>2, <1>5, <2>1 DEF EdgesOwed
  <2>2. CASE g = f
    <3>1. b \in Dirs
      BY <1>4, <1>5, <2>2
    <3> QED
      BY <1>1, <1>3, <1>5, <2>2, <3>1 DEF EdgesOwed
  <2> QED
    BY <2>1, <2>2
<1>6. \A t \in Timerfds : owed'[t] = {}
  BY <1>2 DEF EdgesOwed, Fds, Owned
<1>7. \A g \in Eventfds : "et" \in entries'[g].events => Epollers = {owner_pid[g]}
  BY <1>1 DEF EdgesOwed, Fds, Owned
<1> QED
  BY <1>5, <1>6, <1>7 DEF EdgesOwed

LEMMA BumpTimerEffect ==
    ASSUME EpTypes, EdgesOwed, NEW t \in Timerfds, BumpTimer(t), UNCHANGED <<open, owed>>
    PROVE  /\ EpTypes' /\ EdgesOwed'
           /\ \A g \in Fds : /\ entries'[g].events = entries[g].events
                             /\ entries'[g].active = entries[g].active
           /\ \A g \in Fds : g # t => entries'[g] = entries[g]
<1>1. PICK D \in SUBSET Dirs : entries' = [entries EXCEPT ![t] = [entries[t] EXCEPT !.fresh = D]]
  BY DEF BumpTimer, Dirs
<1>2. t \in Fds /\ entries[t] \in Entries
  BY EntryFields DEF Fds, Owned
<1>3. [entries[t] EXCEPT !.fresh = D] \in Entries
  BY <1>2, SMT DEF Entries
<1>4. entries' \in [Fds -> Entries] /\ \A g \in Fds : g # t => entries'[g] = entries[g]
  BY <1>1, <1>3 DEF EpTypes
<1>5. /\ entries'[t].events = entries[t].events
      /\ entries'[t].active = entries[t].active
  BY <1>1, <1>2, SMT DEF EpTypes, Entries
<1>6. EpTypes'
  BY <1>4 DEF EpTypes
<1>7. EdgesOwed'
  <2>1. \A g \in Fds : \A d \in owed'[g] :
          d \notin entries'[g].last_ready \/ d \in entries'[g].fresh
    BY <1>4 DEF EdgesOwed
  <2>2. \A g \in Eventfds : "et" \in entries'[g].events => Epollers = {owner_pid[g]}
    BY <1>4, <1>5 DEF EdgesOwed, Fds, Owned
  <2> QED
    BY <2>1, <2>2 DEF EdgesOwed
<1> QED
  BY <1>4, <1>5, <1>6, <1>7

Still == UNCHANGED <<epoll_lock, sched_lock, readyVars, waitVars, irq>>

LEMMA StillNoise ==
    ASSUME Still, epoll_lock = None \/ \A f \in Fds : /\ entries'[f].active = entries[f].active
                                                      /\ entries'[f].events = entries[f].events
    PROVE  Noise
  BY DEF Still, Noise, readyVars, waitVars

(* A change of a pipe or of an eventfd, which is announced. *)
LEMMA EventKept ==
    ASSUME IInv, NEW a \in Tasks, NEW f \in Pipes \cup Eventfds, call[a] = None,
           EpTypes', EdgesOwed',
           \A g \in Fds : /\ entries'[g].events = entries[g].events
                          /\ entries'[g].active = entries[g].active,
           \A g \in Fds : g # f => entries'[g] = entries[g],
           Announce(a, f), counter' \in [Pipes \cup Eventfds -> 0..MaxCounter],
           \A g \in Pipes \cup Eventfds : g # f => counter'[g] = counter[g],
           hung' \in SUBSET Pipes, \A g \in Pipes : g # f => (g \in hung' <=> g \in hung),
           UNCHANGED <<timer, ring, grab_pid>>, Still
    PROVE  IInv'
<1>1. f \in Fds \ Timerfds /\ f \in Pipes \cup Owned
  BY NamesAssumption DEF Fds, Owned
<1>2. /\ call' \in [Tasks -> Pipes \cup Owned \cup {All, None}]
      /\ \A g \in Fds : Told(g) => Told(g)'
      /\ AllDue => AllDue'
      /\ Told(f)'
  BY <1>1, Announced DEF IInv
<1>3. TypeOK'
  BY <1>2 DEF IInv, TypeOK, DescTypes, LockTypes, ReadyTypes, CallTypes, ScanTypes,
                    SleepTypes, Still, readyVars, waitVars
<1>4. ASSUME NEW w \in Waiters, NEW g \in Fds, g # f
      PROVE  event_descriptor_poll(w, g)' = event_descriptor_poll(w, g)
  <2>1. g \in hung' <=> g \in hung
    BY <1>4 DEF IInv, TypeOK, DescTypes
  <2>2. Readable(w, g)' <=> Readable(w, g)
    BY <1>4, <2>1 DEF Readable, evdev_grab_allowed
  <2>3. Writable(g)' <=> Writable(g)
    BY <1>4, <2>1, NamesAssumption DEF Writable
  <2> QED
    BY <2>1, <2>2, <2>3 DEF event_descriptor_poll
<1>5. Noise
  BY StillNoise
<1>6. ASSUME NEW w \in Waiters, NEW g \in Fds PROVE Steady(w, g)
  <2>1. CASE g = f
    BY <1>2, <2>1 DEF Steady, Due
  <2>2. CASE g # f
    <3>1. event_descriptor_poll(w, g)' \subseteq event_descriptor_poll(w, g)
      BY <1>4, <2>2
    <3> QED
      BY <1>2, <2>2, <3>1, SteadySame DEF Still, readyVars, waitVars
  <2> QED
    BY <2>1, <2>2
<1> QED
  BY <1>3, <1>5, <1>6, NoiseKept

(* The same with a sequence that goes up. *)
LEMMA BumpKept ==
    ASSUME IInv, NEW a \in Tasks, NEW f \in Pipes \cup Eventfds, NEW d \in Dirs, call[a] = None,
           Bump(f, d), Announce(a, f), NEW n \in 0..MaxCounter,
           counter' = [counter EXCEPT ![f] = n],
           UNCHANGED <<hung, timer, ring, grab_pid, open>>, Still
    PROVE  IInv'
<1>1. f \in Fds \ Timerfds
  BY NamesAssumption DEF Fds, Owned
<1>2. /\ EpTypes'
      /\ \A g \in Fds : /\ entries'[g].events = entries[g].events
                        /\ entries'[g].active = entries[g].active
      /\ \A g \in Fds : g # f => entries'[g] = entries[g]
  BY <1>1, BumpEffect DEF IInv, TypeOK
<1>3. EdgesOwed'
  BY <1>1, BumpEdges DEF IInv, TypeOK
<1>4. /\ counter' \in [Pipes \cup Eventfds -> 0..MaxCounter]
      /\ \A g \in Pipes \cup Eventfds : g # f => counter'[g] = counter[g]
  BY DEF IInv, TypeOK, DescTypes
<1>5. hung' \in SUBSET Pipes
  BY DEF IInv, TypeOK, DescTypes
<1> QED
  BY <1>2, <1>3, <1>4, <1>5, EventKept

LEMMA AddKept ==
    ASSUME IInv, NEW a \in Tasks, NEW f \in Pipes \cup Eventfds, call[a] = None,
           EventWrite(a, f) \/ PipeWrite(a, f), UNCHANGED <<epoll_lock, sched_lock, irq>>
    PROVE  IInv'
<1>1. PICK v \in 1..(MaxCounter - counter[f]) : counter' = [counter EXCEPT ![f] = counter[f] + v]
  BY DEF EventWrite, PipeWrite
<1>2. counter[f] \in 0..MaxCounter
  BY DEF IInv, TypeOK, DescTypes
<1>3. counter[f] + v \in 0..MaxCounter
  BY <1>1, <1>2, BoundsAssumption, SMT
<1>4. /\ Bump(f, "in") /\ Announce(a, f) /\ UNCHANGED <<hung, timer, ring, grab_pid, open>>
      /\ Still
  BY DEF EventWrite, PipeWrite, Still
<1>5. "in" \in Dirs
  BY DEF Dirs
<1> QED
  BY <1>1, <1>3, <1>4, <1>5, BumpKept

LEMMA TakeKept ==
    ASSUME IInv, NEW a \in Tasks, NEW f \in Pipes \cup Eventfds, call[a] = None,
           EventRead(a, f) \/ PipeRead(a, f), UNCHANGED <<epoll_lock, sched_lock, irq>>
    PROVE  IInv'
<1>1. counter[f] \in 0..MaxCounter
  BY DEF IInv, TypeOK, DescTypes
<1>2. PICK n \in 0..MaxCounter : counter' = [counter EXCEPT ![f] = n]
  <2>1. CASE EventRead(a, f)
    <3>1. counter[f] - 1 \in 0..MaxCounter /\ 0 \in 0..MaxCounter
      BY <1>1, <2>1, BoundsAssumption, SMT DEF EventRead
    <3>2. counter' = [counter EXCEPT ![f] = IF f \in Semaphores THEN counter[f] - 1 ELSE 0]
      BY <2>1 DEF EventRead
    <3> QED
      BY <3>1, <3>2
  <2>2. CASE PipeRead(a, f)
    <3>1. PICK v \in 1..counter[f] : counter' = [counter EXCEPT ![f] = counter[f] - v]
      BY <2>2 DEF PipeRead
    <3>2. counter[f] - v \in 0..MaxCounter
      BY <1>1, <3>1, BoundsAssumption, SMT
    <3> QED
      BY <3>1, <3>2
  <2> QED
    BY <2>1, <2>2
<1>3. /\ Bump(f, "out") /\ Announce(a, f) /\ UNCHANGED <<hung, timer, ring, grab_pid, open>>
      /\ Still
  BY DEF EventRead, PipeRead, Still
<1>4. "out" \in Dirs
  BY DEF Dirs
<1> QED
  BY <1>2, <1>3, <1>4, BumpKept

LEMMA ReleaseKept ==
    ASSUME IInv, NEW a \in Tasks, NEW f \in Pipes, call[a] = None, pipe_release_reference(a, f),
           UNCHANGED <<epoll_lock, sched_lock, irq>>
    PROVE  IInv'
<1>1. /\ hung' \in {hung, hung \cup {f}} /\ Announce(a, f)
      /\ UNCHANGED <<counter, timer, ring, grab_pid, open, entries, owed>> /\ Still
  BY DEF pipe_release_reference, epVars, Still
<1>2. hung' \in SUBSET Pipes /\ \A g \in Pipes : g # f => (g \in hung' <=> g \in hung)
  BY <1>1 DEF IInv, TypeOK, DescTypes
<1>3. EpTypes' /\ counter' \in [Pipes \cup Eventfds -> 0..MaxCounter]
  BY <1>1 DEF IInv, TypeOK, EpTypes, DescTypes
<1>4. EdgesOwed'
  BY <1>1, EdgeSame DEF IInv
<1>5. f \in Pipes \cup Eventfds
  OBVIOUS
<1> QED
  BY <1>1, <1>2, <1>3, <1>4, <1>5, EventKept

(* A change of a timer by its owner, which does not wait. *)
LEMMA TimerKept ==
    ASSUME IInv, NEW w \in Waiters, NEW t \in Timerfds, Uses(w, t), pc[w] = "user", call[w] = None,
           NEW s \in {"off", "armed"}, timer' = [timer EXCEPT ![t] = s], BumpTimer(t),
           Announce(w, t) \/ UNCHANGED call,
           UNCHANGED <<counter, hung, ring, grab_pid, open, owed>>, Still
    PROVE  IInv'
<1>1. t \in Owned /\ t \in Pipes \cup Owned \cup {All} /\ w \in Tasks
  BY DEF Owned, Tasks
<1>2. /\ call' \in [Tasks -> Pipes \cup Owned \cup {All, None}]
      /\ \A g \in Fds : Told(g) => Told(g)'
      /\ AllDue => AllDue'
  <2>1. CASE Announce(w, t)
    BY <1>1, <2>1, Announced DEF IInv
  <2>2. CASE UNCHANGED call
    BY <2>2, ToldSame DEF IInv, TypeOK, ReadyTypes, AllDue
  <2> QED
    BY <2>1, <2>2
<1>3. /\ timer' \in [Timerfds -> {"off", "armed", "expired"}]
      /\ \A u \in Timerfds : u # t => timer'[u] = timer[u]
  BY DEF IInv, TypeOK, DescTypes
<1>4. /\ EpTypes' /\ EdgesOwed'
      /\ \A g \in Fds : /\ entries'[g].events = entries[g].events
                        /\ entries'[g].active = entries[g].active
      /\ \A g \in Fds : g # t => entries'[g] = entries[g]
  BY BumpTimerEffect DEF IInv, TypeOK
<1>5. TypeOK'
  BY <1>2, <1>3, <1>4 DEF IInv, TypeOK, DescTypes, LockTypes, ReadyTypes,
                          CallTypes, ScanTypes, SleepTypes, Still, readyVars, waitVars
<1>6. Noise
  BY <1>4, StillNoise
<1>7. ASSUME NEW v \in Waiters, pc[v] \in Behind \cup {"scan", "seq"}, NEW g \in Fds
      PROVE  Steady(v, g)
  <2>1. CASE g = t
    <3>1. v # owner_pid[t]
      BY <1>1, <1>7 DEF Uses, Behind
    <3>2. t \in Fds
      BY DEF Fds, Owned
    <3> QED
      BY <1>1, <1>2, <1>4, <2>1, <3>1, <3>2, OwnedSteady
  <2>2. CASE g # t
    <3>1. event_descriptor_poll(v, g)' \subseteq event_descriptor_poll(v, g)
      <4>1. Readable(v, g)' <=> Readable(v, g)
        BY <1>3, <2>2 DEF Readable, evdev_grab_allowed
      <4>2. Writable(g)' <=> Writable(g)
        BY DEF Writable
      <4> QED
        BY <4>1, <4>2 DEF event_descriptor_poll
    <3> QED
      BY <1>2, <1>3, <1>4, <2>2, <3>1, SteadySame DEF Still, readyVars, waitVars
  <2> QED
    BY <2>1, <2>2
<1> QED
  BY <1>4, <1>5, <1>6, <1>7, NoiseKept

LEMMA SettimeKept ==
    ASSUME IInv, NEW w \in Waiters, NEW t \in Timerfds, Uses(w, t), pc[w] = "user", call[w] = None,
           timerfd_settime(w, t) \/ TimerRead(w, t), UNCHANGED <<epoll_lock, sched_lock, irq>>
    PROVE  IInv'
<1>1. PICK s \in {"off", "armed"} : timer' = [timer EXCEPT ![t] = s]
  BY DEF timerfd_settime, TimerRead
<1>2. /\ BumpTimer(t) /\ (Announce(w, t) \/ UNCHANGED call)
      /\ UNCHANGED <<counter, hung, ring, grab_pid, open, owed>> /\ Still
  BY DEF timerfd_settime, TimerRead, Still
<1> QED
  BY <1>1, <1>2, TimerKept

LEMMA TimerExpiresKept ==
    ASSUME IInv, NEW t \in Timerfds, TimerExpires(t)
    PROVE  IInv'
<1>1. /\ timer[t] # "off" /\ timer' = [timer EXCEPT ![t] = "expired"] /\ BumpTimer(t)
      /\ UNCHANGED <<counter, hung, ring, grab_pid, open, call, owed>> /\ Still
  BY DEF TimerExpires, Still
<1>2. /\ timer' \in [Timerfds -> {"off", "armed", "expired"}] /\ timer'[t] = "expired"
      /\ \A u \in Timerfds : u # t => timer'[u] = timer[u]
  BY <1>1 DEF IInv, TypeOK, DescTypes
<1>3. /\ EpTypes' /\ EdgesOwed'
      /\ \A g \in Fds : /\ entries'[g].events = entries[g].events
                        /\ entries'[g].active = entries[g].active
      /\ \A g \in Fds : g # t => entries'[g] = entries[g]
  BY <1>1, BumpTimerEffect DEF IInv, TypeOK
<1>4. TypeOK'
  BY <1>1, <1>2, <1>3 DEF IInv, TypeOK, DescTypes, LockTypes, ReadyTypes,
                    CallTypes, ScanTypes, SleepTypes, Still, readyVars, waitVars
<1>5. Noise
  BY <1>1, <1>3, StillNoise
<1>6. AllDue' <=> AllDue
  BY <1>1 DEF AllDue
<1>7. t \in Fds /\ \A w \in Waiters : <<w, t>> \notin lifted
  BY NamesAssumption DEF Fds, Owned, IInv, TypeOK, SleepTypes
<1>8. ASSUME NEW w \in Waiters, w \notin stale', pc[w] \in Behind \cup {"scan", "seq"},
             NEW g \in Fds
      PROVE  Steady(w, g)
  <2>1. CASE g = t /\ ~Uses(w, t)
    BY <1>3, <1>6, <2>1 DEF Steady
  <2>2. CASE g = t /\ Uses(w, t) /\ pc[w] \in {"scan", "seq", "decide"}
    <3>1. Due(w, t)'
      BY <1>1, <1>2, <2>2 DEF Due, Still, waitVars
    <3> QED
      BY <1>3, <1>6, <2>2, <3>1 DEF Steady
  <2>3. CASE g = t /\ Uses(w, t) /\ pc[w] \in Behind /\ pc[w] # "decide" /\ Concerns(w, t)
    <3>1. Stirs(w, t)
      BY <1>1, <1>7, <2>3 DEF Stirs
    <3>2. Trusts(w) /\ Passed(w, t)
      <4>1. ScanPlace(w)
        BY DEF IInv, Scanner
      <4> QED
        BY <1>1, <1>8, <2>3, <4>1 DEF ScanPlace, Trusts, Passed, Still, readyVars
    <3>3. Due(w, t)
      BY <2>3, <3>1, <3>2 DEF IInv, Heard
    <3>4. Due(w, t)'
      BY <1>1, <2>3, <3>3, ToldSame DEF Due, Still, readyVars, waitVars, Asleep, Behind
    <3> QED
      BY <1>3, <1>6, <2>3, <3>4 DEF Steady
  <2>4. CASE g = t /\ ~Concerns(w, t)
    <3>1. ~Concerns(w, t)'
      BY <1>1, <1>3, <2>4 DEF Concerns, Still, waitVars
    <3> QED
      BY <1>3, <1>6, <2>4, <3>1 DEF Steady
  <2>5. CASE g # t
    <3>1. event_descriptor_poll(w, g)' \subseteq event_descriptor_poll(w, g)
      <4>1. Readable(w, g)' <=> Readable(w, g)
        BY <1>1, <1>2, <2>5 DEF Readable, evdev_grab_allowed
      <4>2. Writable(g)' <=> Writable(g)
        BY <1>1 DEF Writable
      <4> QED
        BY <1>1, <4>1, <4>2 DEF event_descriptor_poll
    <3> QED
      BY <1>1, <1>2, <1>3, <1>6, <2>5, <3>1, SteadySame, ToldSame DEF Still, readyVars, waitVars
  <2> QED
    BY <1>8, <2>1, <2>2, <2>3, <2>4, <2>5 DEF Behind
<1> QED
  BY <1>3, <1>4, <1>5, <1>8, NoiseKept

(* A change of a device by the tasks that read and grab it. *)
LEMMA EvdevKept ==
    ASSUME IInv, NEW d \in Evdevs, ring' \in [Evdevs -> Nat],
           grab_pid' \in [Evdevs -> Processes \cup {None}], lifted' \in SUBSET (Waiters \X Evdevs),
           \A g \in Evdevs : g # d => ring'[g] = ring[g] /\ grab_pid'[g] = grab_pid[g],
           \A w \in Waiters, g \in Fds : g # d => (<<w, g>> \in lifted' <=> <<w, g>> \in lifted),
           \A w \in Waiters : pc[w] \in Behind \cup {"scan", "seq"} =>
             \/ <<w, d>> \in lifted'
             \/ /\ <<w, d>> \in lifted' <=> <<w, d>> \in lifted
                /\ Readable(w, d)' => Readable(w, d),
           UNCHANGED <<counter, hung, timer, epVars, readyVars, covers, pc, kind, timeout,
                       pos, count, seen, filter, signalled, call, owed>>,
           UNCHANGED <<epoll_lock, sched_lock, irq>>
    PROVE  IInv'
<1>1. d \in Fds /\ UNCHANGED <<open, entries, irq_pending, stale>>
  BY DEF Fds, epVars, readyVars
<1>2. TypeOK'
  BY <1>1 DEF IInv, TypeOK, DescTypes, EpTypes, LockTypes, ReadyTypes,
              CallTypes, ScanTypes, SleepTypes
<1>3. Noise
  BY <1>1 DEF Noise
<1>4. EdgesOwed'
  BY <1>1, EdgeSame DEF IInv
<1>5. AllDue' <=> AllDue
  BY DEF AllDue
<1>6. ASSUME NEW w \in Waiters, pc[w] \in Behind \cup {"scan", "seq"}, NEW g \in Fds
      PROVE  Steady(w, g)
  <2>1. CASE g = d /\ <<w, d>> \in lifted'
    BY <1>1, <1>5, <2>1 DEF Steady
  <2>2. CASE ~(g = d /\ <<w, d>> \in lifted')
    <3>1. Readable(w, g)' => Readable(w, g)
      <4>1. CASE g = d
        BY <1>6, <2>2, <4>1
      <4>2. CASE g # d
        BY <4>2 DEF Readable, evdev_grab_allowed
      <4> QED
        BY <4>1, <4>2
    <3>2. Writable(g)' <=> Writable(g)
      BY DEF Writable
    <3>3. event_descriptor_poll(w, g)' \subseteq event_descriptor_poll(w, g)
      BY <3>1, <3>2 DEF event_descriptor_poll
    <3>4. <<w, g>> \in lifted' <=> <<w, g>> \in lifted
      BY <1>6, <2>2
    <3> QED
      BY <1>1, <1>5, <3>3, <3>4, SteadySame, ToldSame
  <2> QED
    BY <2>1, <2>2
<1> QED
  BY <1>2, <1>3, <1>4, <1>6, NoiseKept

LEMMA EvdevReadKept ==
    ASSUME IInv, NEW p \in Processes, NEW d \in Evdevs, EvdevRead(p, d),
           UNCHANGED <<epoll_lock, sched_lock, irq>>
    PROVE  IInv'
<1>1. /\ ring[d] # 0 /\ ring' = [ring EXCEPT ![d] = @ - 1]
      /\ UNCHANGED <<counter, hung, timer, grab_pid, epVars, readyVars, covers, pc, kind, timeout,
                     pos, count, seen, filter, signalled, call, owed, lifted>>
  BY DEF EvdevRead, waitVars
<1>2. /\ ring' \in [Evdevs -> Nat]
      /\ \A g \in Evdevs : g # d => ring'[g] = ring[g]
  BY <1>1, SMT DEF IInv, TypeOK, DescTypes
<1>3. /\ grab_pid' \in [Evdevs -> Processes \cup {None}] /\ lifted' \in SUBSET (Waiters \X Evdevs)
  BY <1>1 DEF IInv, TypeOK, DescTypes, SleepTypes
<1>4. \A w \in Waiters : Readable(w, d)' => Readable(w, d)
  BY <1>1 DEF Readable, evdev_grab_allowed
<1> QED
  BY <1>1, <1>2, <1>3, <1>4, EvdevKept

LEMMA EvdevGrabKept ==
    ASSUME IInv, NEW p \in Processes, NEW d \in Evdevs, EvdevGrab(p, d),
           UNCHANGED <<epoll_lock, sched_lock, irq>>
    PROVE  IInv'
<1>1. /\ grab_pid[d] = None /\ grab_pid' = [grab_pid EXCEPT ![d] = p]
      /\ UNCHANGED <<counter, hung, timer, ring, epVars, readyVars, covers, pc, kind, timeout,
                     pos, count, seen, filter, signalled, call, owed, lifted>>
  BY DEF EvdevGrab, waitVars
<1>2. /\ grab_pid' \in [Evdevs -> Processes \cup {None}]
      /\ \A g \in Evdevs : g # d => grab_pid'[g] = grab_pid[g]
  BY <1>1 DEF IInv, TypeOK, DescTypes
<1>3. /\ ring' \in [Evdevs -> Nat] /\ lifted' \in SUBSET (Waiters \X Evdevs)
  BY <1>1 DEF IInv, TypeOK, DescTypes, SleepTypes
<1>4. \A w \in Waiters : Readable(w, d)' => Readable(w, d)
  BY <1>1 DEF Readable, evdev_grab_allowed
<1> QED
  BY <1>1, <1>2, <1>3, <1>4, EvdevKept

LEMMA EvdevUngrabKept ==
    ASSUME IInv, NEW d \in Evdevs, EvdevUngrab(d), UNCHANGED <<epoll_lock, sched_lock, irq>>
    PROVE  IInv'
<1> DEFINE Kept == {w \in Started \cup {v \in Waiters : Asleep(v)} : Process(w) # grab_pid[d]}
<1>1. /\ grab_pid[d] # None /\ grab_pid' = [grab_pid EXCEPT ![d] = None]
      /\ lifted' = lifted \cup (Kept \X {d})
      /\ UNCHANGED <<counter, hung, timer, ring, epVars, readyVars, covers, pc, kind, timeout,
                     pos, count, seen, filter, signalled, call, owed>>
  BY DEF EvdevUngrab
<1>2. /\ grab_pid' \in [Evdevs -> Processes \cup {None}]
      /\ \A g \in Evdevs : g # d => grab_pid'[g] = grab_pid[g]
  BY <1>1 DEF IInv, TypeOK, DescTypes
<1>3. Kept \in SUBSET Waiters
  BY DEF Started
<1>4. ring' \in [Evdevs -> Nat] /\ lifted \in SUBSET (Waiters \X Evdevs)
  BY <1>1 DEF IInv, TypeOK, DescTypes, SleepTypes
<1>5. ASSUME NEW w \in Waiters, pc[w] \in Behind \cup {"scan", "seq"}
      PROVE  \/ w \in Kept
             \/ w \notin Kept /\ (Readable(w, d)' => Readable(w, d))
  <2>1. w \in Started \cup {v \in Waiters : Asleep(v)}
    BY <1>5 DEF Started, Asleep, Behind
  <2>2. CASE Process(w) # grab_pid[d]
    BY <2>1, <2>2
  <2>3. CASE Process(w) = grab_pid[d]
    BY <1>1, <2>3 DEF Readable, evdev_grab_allowed
  <2> QED
    BY <2>2, <2>3
<1> HIDE DEF Kept
<1>6. /\ lifted' \in SUBSET (Waiters \X Evdevs)
      /\ \A w \in Waiters, g \in Fds : g # d => (<<w, g>> \in lifted' <=> <<w, g>> \in lifted)
      /\ \A w \in Waiters : <<w, d>> \in lifted' <=> <<w, d>> \in lifted \/ w \in Kept
  BY <1>1, <1>3, <1>4, SMT
<1>7. \A w \in Waiters : pc[w] \in Behind \cup {"scan", "seq"} =>
             \/ <<w, d>> \in lifted'
             \/ /\ <<w, d>> \in lifted' <=> <<w, d>> \in lifted
                /\ Readable(w, d)' => Readable(w, d)
  BY <1>5, <1>6
<1> QED
  BY <1>1, <1>2, <1>4, <1>6, <1>7, EvdevKept

(* A change of the entries, announced to all. *)
LEMMA AllSteady ==
    ASSUME AllDue', NEW w \in Waiters, NEW f \in Fds
    PROVE  Steady(w, f)
  BY DEF Steady, Due, Told, AllDue

LEMMA ControlKept ==
    ASSUME IInv, NEW a \in Tasks, call[a] = None, Announce(a, All), epoll_lock = None,
           UNCHANGED descVars, Still, open' \in BOOLEAN,
           NEW S \in SUBSET Fds, entries' \in [Fds -> Entries], owed' \in [Fds -> SUBSET Dirs],
           \A g \in Fds \ S : entries'[g] = entries[g] /\ owed'[g] = owed[g],
           \A g \in S : /\ entries'[g].last_ready = {} /\ owed'[g] \subseteq owed[g]
                        /\ g \in Eventfds /\ "et" \in entries'[g].events
                           => Epollers = {owner_pid[g]}
    PROVE  IInv'
<1>1. /\ call' \in [Tasks -> Pipes \cup Owned \cup {All, None}]
      /\ AllDue'
  BY Announced DEF IInv
<1>2. TypeOK'
  BY <1>1 DEF IInv, TypeOK, DescTypes, EpTypes, LockTypes, ReadyTypes,
              CallTypes, ScanTypes, SleepTypes, Still, readyVars, waitVars, descVars
<1>3. Noise
  BY StillNoise
<1>4. EdgesOwed'
  <2>1. \A g \in Fds : \A d \in owed'[g] :
          d \notin entries'[g].last_ready \/ d \in entries'[g].fresh
    BY DEF IInv, EdgesOwed
  <2>2. \A t \in Timerfds : owed'[t] = {}
    BY DEF IInv, EdgesOwed, Fds, Owned
  <2>3. \A g \in Eventfds : "et" \in entries'[g].events => Epollers = {owner_pid[g]}
    BY DEF IInv, EdgesOwed, Fds, Owned
  <2> QED
    BY <2>1, <2>2, <2>3 DEF EdgesOwed
<1> QED
  BY <1>1, <1>2, <1>3, <1>4, AllSteady, NoiseKept

LEMMA CtlEffect ==
    ASSUME TypeOK, NEW a \in Tasks, NEW f \in Fds, epoll_ctl(a, f)
    PROVE  \E x \in Entries : \E O \in SUBSET owed[f] :
             /\ entries' = [entries EXCEPT ![f] = x] /\ x.last_ready = {}
             /\ f \in Eventfds /\ "et" \in x.events => Epollers = {owner_pid[f]}
             /\ owed' = [owed EXCEPT ![f] = O]
<1>1. owed[f] \in SUBSET Dirs /\ entries[f].fresh \in SUBSET Dirs
      /\ owed \in [Fds -> SUBSET Dirs]
  BY EntryFields DEF TypeOK, EpTypes
<1>2. ASSUME NEW events \in SUBSET Events,
             f \in Eventfds /\ "et" \in events => Epollers = {owner_pid[f]},
             epoll_ctl_add(f, events)
      PROVE  \E x \in Entries : \E O \in SUBSET owed[f] :
               /\ entries' = [entries EXCEPT ![f] = x] /\ x.last_ready = {}
               /\ f \in Eventfds /\ "et" \in x.events => Epollers = {owner_pid[f]}
               /\ owed' = [owed EXCEPT ![f] = O]
  <2> DEFINE x == [events |-> events, active |-> TRUE, last_ready |-> {}, fresh |-> {}]
  <2>1. x \in Entries /\ x.last_ready = {} /\ x.events = events
    BY DEF Entries
  <2>2. owed' = [owed EXCEPT ![f] = owed[f]] /\ entries' = [entries EXCEPT ![f] = x]
    BY <1>1, <1>2 DEF epoll_ctl_add
  <2> HIDE DEF x
  <2> QED
    BY <1>2, <2>1, <2>2
<1>3. ASSUME NEW events \in SUBSET Events,
             f \in Eventfds /\ "et" \in events => Epollers = {owner_pid[f]},
             epoll_ctl_mod(f, events)
      PROVE  \E x \in Entries : \E O \in SUBSET owed[f] :
               /\ entries' = [entries EXCEPT ![f] = x] /\ x.last_ready = {}
               /\ f \in Eventfds /\ "et" \in x.events => Epollers = {owner_pid[f]}
               /\ owed' = [owed EXCEPT ![f] = O]
  <2> DEFINE Kept == IF "et" \in events THEN events ELSE {}
             x == [events |-> events, active |-> TRUE, last_ready |-> {},
                   fresh |-> entries[f].fresh \cap Kept]
  <2>1. x \in Entries /\ x.last_ready = {} /\ x.events = events
    BY <1>1 DEF Entries
  <2>2. owed' = [owed EXCEPT ![f] = owed[f] \cap Kept] /\ entries' = [entries EXCEPT ![f] = x]
    BY <1>3 DEF epoll_ctl_mod
  <2> HIDE DEF x, Kept
  <2>3. owed[f] \cap Kept \in SUBSET owed[f]
    OBVIOUS
  <2> QED
    BY <1>3, <2>1, <2>2, <2>3
<1>4. ASSUME epoll_ctl_del(f)
      PROVE  \E x \in Entries : \E O \in SUBSET owed[f] :
               /\ entries' = [entries EXCEPT ![f] = x] /\ x.last_ready = {}
               /\ f \in Eventfds /\ "et" \in x.events => Epollers = {owner_pid[f]}
               /\ owed' = [owed EXCEPT ![f] = O]
  <2>1. NoEntry \in Entries /\ NoEntry.last_ready = {} /\ "et" \notin NoEntry.events
    BY DEF NoEntry, Entries
  <2>2. owed' = [owed EXCEPT ![f] = {}] /\ entries' = [entries EXCEPT ![f] = NoEntry]
    BY <1>4 DEF epoll_ctl_del
  <2> QED
    BY <2>1, <2>2
<1>5. \A events \in {p[2] : p \in {q \in Interests : q[1] = f}} :
         /\ events \in SUBSET Events
         /\ f \in Eventfds /\ "et" \in events => Epollers = {owner_pid[f]}
  BY BoundsAssumption, OwnAssumption DEF Events
<1> QED
  BY <1>2, <1>3, <1>4, <1>5 DEF epoll_ctl

LEMMA CtlKept ==
    ASSUME IInv, NEW a \in Tasks, NEW f \in Fds, call[a] = None, epoll_ctl(a, f),
           UNCHANGED <<epoll_lock, sched_lock, irq>>
    PROVE  IInv'
<1>1. /\ epoll_lock = None /\ Announce(a, All) /\ UNCHANGED <<descVars, open>> /\ Still
  BY DEF epoll_ctl, Still
<1>2. entries \in [Fds -> Entries] /\ owed \in [Fds -> SUBSET Dirs] /\ open' \in BOOLEAN
  BY <1>1 DEF IInv, TypeOK, EpTypes
<1>3. PICK x \in Entries, O \in SUBSET owed[f] :
         /\ entries' = [entries EXCEPT ![f] = x] /\ x.last_ready = {}
         /\ f \in Eventfds /\ "et" \in x.events => Epollers = {owner_pid[f]}
         /\ owed' = [owed EXCEPT ![f] = O]
  BY CtlEffect DEF IInv
<1>4. O \in SUBSET Dirs
  BY <1>2, <1>3
<1>5. /\ entries' \in [Fds -> Entries] /\ owed' \in [Fds -> SUBSET Dirs]
      /\ \A g \in Fds \ {f} : entries'[g] = entries[g] /\ owed'[g] = owed[g]
      /\ entries'[f].last_ready = {} /\ owed'[f] \subseteq owed[f]
  BY <1>2, <1>3, <1>4
<1>6. PICK S \in SUBSET Fds : S = {f}
  OBVIOUS
<1>7. \A g \in S : /\ entries'[g].last_ready = {} /\ owed'[g] \subseteq owed[g]
                   /\ g \in Eventfds /\ "et" \in entries'[g].events
                      => Epollers = {owner_pid[g]}
  BY <1>2, <1>3, <1>5, <1>6
<1> QED
  BY <1>1, <1>2, <1>5, <1>6, <1>7, ControlKept

LEMMA CloseKept ==
    ASSUME IInv, NEW a \in Tasks, call[a] = None, EpollClose(a),
           UNCHANGED <<epoll_lock, sched_lock, irq>>
    PROVE  IInv'
<1>1. /\ epoll_lock = None /\ Announce(a, All) /\ UNCHANGED descVars /\ Still
      /\ open' \in BOOLEAN
      /\ entries' = [f \in Fds |-> NoEntry] /\ owed' = [f \in Fds |-> {}]
  BY DEF EpollClose, Still
<1>2. NoEntry \in Entries /\ NoEntry.last_ready = {} /\ "et" \notin NoEntry.events
  BY DEF NoEntry, Entries
<1>3. /\ entries' \in [Fds -> Entries] /\ owed' \in [Fds -> SUBSET Dirs]
      /\ \A g \in Fds : /\ entries'[g].last_ready = {} /\ owed'[g] \subseteq owed[g]
                        /\ "et" \notin entries'[g].events
  BY <1>1, <1>2
<1>4. PICK S \in SUBSET Fds : S = Fds
  OBVIOUS
<1> QED
  BY <1>1, <1>3, <1>4, ControlKept

(* A step that leaves the descriptors, the entries and what is due alone. *)
LEMMA SameKept ==
    ASSUME IInv, TypeOK', Noise, UNCHANGED <<descVars, entries, owed, irq, irq_pending, covers, lifted>>,
           \A f \in Fds : Told(f) => Told(f)', AllDue => AllDue'
    PROVE  IInv'
<1>1. EdgesOwed'
  BY EdgeSame DEF IInv
<1>2. ASSUME NEW w \in Waiters, NEW f \in Fds, pc'[w] = pc[w] PROVE Steady(w, f)
  <2>1. event_descriptor_poll(w, f)' \subseteq event_descriptor_poll(w, f) /\ timer' = timer
    BY PollSame DEF descVars
  <2> QED
    BY <1>2, <2>1, SteadySame DEF Noise
<1> QED
  BY <1>1, <1>2, NoiseKept

LEMMA CreateKept ==
    ASSUME IInv, NEW a \in Tasks, epoll_create(a), UNCHANGED <<epoll_lock, sched_lock, irq>>
    PROVE  IInv'
<1>1. /\ epoll_lock = None /\ open' = TRUE /\ UNCHANGED <<descVars, entries, call, owed>> /\ Still
  BY DEF epoll_create, Still
<1>2. TypeOK'
  BY <1>1 DEF IInv, TypeOK, DescTypes, EpTypes, LockTypes, ReadyTypes,
              CallTypes, ScanTypes, SleepTypes, Still, readyVars, waitVars, descVars
<1>3. Noise
  BY <1>1, StillNoise
<1> QED
  BY <1>1, <1>2, <1>3, SameKept, ToldSame DEF AllDue, Still, readyVars, waitVars

LEMMA SendSignalKept ==
    ASSUME IInv, NEW a \in Tasks, NEW w \in Waiters, call[a] = None, SendSignal(a, w),
           UNCHANGED <<epoll_lock, sched_lock, irq>>
    PROVE  IInv'
<1>1. /\ signalled' = signalled \cup {w}
      /\ UNCHANGED <<descVars, open, entries, readyVars, covers, kind, timeout, pos, count, seen,
                     filter, owed, lifted>>
  BY DEF SendSignal, epVars
<1>2. CASE Asleep(w) /\ Wake({w}) /\ Announce(a, All)
  <2>1. /\ call' \in [Tasks -> Pipes \cup Owned \cup {All, None}]
        /\ \A f \in Fds : Told(f) => Told(f)'
        /\ AllDue => AllDue'
    BY <1>2, Announced DEF IInv
  <2>2. /\ pc' \in [Waiters -> PCs]
        /\ \A v \in Waiters : pc'[v] = pc[v] \/ (pc[v] = "asleep" /\ pc'[v] = "woken")
    BY <1>2 DEF IInv, TypeOK, CallTypes, Wake, Asleep, PCs
  <2>3. TypeOK'
    BY <1>1, <2>1, <2>2 DEF IInv, TypeOK, DescTypes, EpTypes, LockTypes, ReadyTypes,
                CallTypes, ScanTypes, SleepTypes, readyVars, descVars
  <2>4. Noise
    BY <1>1, <2>2 DEF Noise, readyVars
  <2> QED
    BY <1>1, <2>1, <2>3, <2>4, SameKept DEF readyVars
<1>3. CASE UNCHANGED <<pc, call>>
  <2>1. TypeOK'
    BY <1>1, <1>3 DEF IInv, TypeOK, DescTypes, EpTypes, LockTypes, ReadyTypes,
                CallTypes, ScanTypes, SleepTypes, readyVars, descVars
  <2>2. Noise
    BY <1>1, <1>3 DEF Noise, readyVars
  <2> QED
    BY <1>1, <1>3, <2>1, <2>2, SameKept, ToldSame DEF AllDue, readyVars
<1> QED
  BY <1>2, <1>3 DEF SendSignal

LEMMA ActorKept ==
    ASSUME IInv, NEW a \in Actors, ActorStep(a)
    PROVE  IInv'
<1>1. a \in Tasks /\ \A f \in Pipes : f \in Pipes \cup Eventfds
  BY DEF Tasks
<1>2. \A p \in Grabbers : p \in Processes
  BY BoundsAssumption
<1> QED
  BY <1>1, <1>2, AddKept, TakeKept, ReleaseKept, EvdevReadKept, EvdevGrabKept, EvdevUngrabKept,
     CtlKept, CloseKept, CreateKept, SendSignalKept DEF ActorStep

LEMMA OwnerKept ==
    ASSUME IInv, NEW w \in Waiters, OwnerStep(w)
    PROVE  IInv'
<1>1. w \in Tasks /\ \A f \in Eventfds : f \in Pipes \cup Eventfds
  BY DEF Tasks
<1> QED
  BY <1>1, AddKept, TakeKept, SettimeKept, CtlKept DEF OwnerStep

LEMMA NotifyKept ==
    ASSUME IInv, NEW a \in Tasks, Notify(a)
    PROVE  IInv'
<1>1. /\ call[a] # None /\ call' = [call EXCEPT ![a] = None]
      /\ irq_pending' = (irq_pending /\ call[a] # All)
      /\ stale' = Started
      /\ pc' = [w \in Waiters |-> IF Asleep(w) /\ Matches(w, call[a]) THEN "woken" ELSE pc[w]]
      /\ UNCHANGED <<descVars, open, entries, epoll_lock, sched_lock, covers, kind, timeout,
                     pos, count, seen, filter, signalled, irq, owed, lifted>>
  BY DEF Notify, Wake, epVars
<1>2. /\ call[a] \in Pipes \cup Owned \cup {All}
      /\ call' \in [Tasks -> Pipes \cup Owned \cup {All, None}]
      /\ \A b \in Tasks : b # a => call'[b] = call[b]
  BY <1>1 DEF IInv, TypeOK, ReadyTypes
<1>3. /\ pc' \in [Waiters -> PCs]
      /\ \A w \in Waiters : pc'[w] = pc[w] \/ (pc[w] = "asleep" /\ pc'[w] = "woken")
      /\ \A w \in Waiters : pc'[w] = pc[w] /\ pc[w] = "asleep" => ~Matches(w, call[a])
  BY <1>1 DEF IInv, TypeOK, CallTypes, Asleep, PCs
<1>4. irq_pending' \in BOOLEAN
  BY <1>1
<1>5. TypeOK'
  BY <1>1, <1>2, <1>3, <1>4
     DEF IInv, TypeOK, DescTypes, EpTypes, LockTypes, ReadyTypes,
         CallTypes, ScanTypes, SleepTypes, descVars, Started
<1>6. Noise
  BY <1>1, <1>3 DEF Noise
<1>7. EdgesOwed'
  BY <1>1, EdgeSame DEF IInv
<1>8. ASSUME NEW w \in Waiters, NEW f \in Fds, w \notin stale', pc'[w] = pc[w],
             pc[w] \in Behind \cup {"scan", "seq"}
      PROVE  Steady(w, f)
  <2>1. pc[w] = "asleep"
    BY <1>1, <1>8 DEF Started, Behind
  <2>2. ~Matches(w, call[a])
    BY <1>3, <1>8, <2>1
  <2>3. call[a] # All /\ filter[w] # {} /\ call[a] \notin filter[w]
    BY <2>2 DEF Matches
  <2>4. AllDue => AllDue'
    BY <1>2, <2>3 DEF AllDue
  <2>5. ASSUME Concerns(w, f), Told(f) PROVE Told(f)'
    <3>1. PICK b \in Tasks : call[b] \in {f, All}
      BY <2>5 DEF Told
    <3>2. CASE b # a
      BY <1>2, <3>1, <3>2 DEF Told
    <3>3. CASE b = a
      <4>1. call[a] = f /\ f \notin Evdevs
        BY <1>2, <2>3, <3>1, <3>3, NamesAssumption DEF Owned
      <4>2. FilterHolds(w)
        BY DEF IInv, FilterCovers
      <4>3. kind[w] = "epoll" /\ w \notin stale
        BY <1>1, <1>8, <2>3, <4>2, NoiseStale, <1>6 DEF FilterHolds, IInv
      <4>4. entries[f].active
        BY <2>5, <4>3 DEF Concerns
      <4>5. AllDue
        BY <2>1, <2>3, <4>1, <4>2, <4>3, <4>4 DEF FilterHolds, AllDue
      <4> QED
        BY <2>4, <4>5 DEF AllDue, Told
    <3> QED
      BY <3>2, <3>3
  <2>6. irq_pending' <=> irq_pending
    BY <1>1, <2>3
  <2>7. Concerns(w, f) /\ Due(w, f) => Due(w, f)'
    BY <1>1, <1>8, <2>5, <2>6 DEF Due, Asleep, descVars
  <2>8. Stirs(w, f)' => Stirs(w, f)
    BY <1>1, StirsSame
  <2>9. Wanted(w, f)' = Wanted(w, f)
    BY <1>1, WantedSame
  <2> QED
    BY <1>1, <2>4, <2>7, <2>8, <2>9 DEF Steady
<1> QED
  BY <1>5, <1>6, <1>7, <1>8, NoiseKept

LEMMA DrainIrqKept ==
    ASSUME IInv, DrainIrq
    PROVE  IInv'
<1>1. /\ irq_pending' = FALSE
      /\ pc' = [w \in Waiters |-> IF Asleep(w) THEN "woken" ELSE pc[w]]
      /\ UNCHANGED <<descVars, open, entries, epoll_lock, sched_lock, stale, covers, kind, timeout,
                     pos, count, seen, filter, signalled, call, irq, owed, lifted>>
  BY DEF DrainIrq, Wake, epVars
<1>2. /\ pc' \in [Waiters -> PCs]
      /\ \A w \in Waiters : pc'[w] = pc[w] \/ (pc[w] = "asleep" /\ pc'[w] = "woken")
      /\ \A w \in Waiters : pc'[w] = pc[w] => pc[w] # "asleep"
  BY <1>1 DEF IInv, TypeOK, CallTypes, Asleep, PCs
<1>3. TypeOK'
  BY <1>1, <1>2
     DEF IInv, TypeOK, DescTypes, EpTypes, LockTypes, ReadyTypes,
         CallTypes, ScanTypes, SleepTypes, descVars
<1>4. Noise
  BY <1>1, <1>2 DEF Noise
<1>5. EdgesOwed'
  BY <1>1, EdgeSame DEF IInv
<1>6. ASSUME NEW w \in Waiters, NEW f \in Fds, pc'[w] = pc[w] PROVE Steady(w, f)
  <2>1. Due(w, f) => Due(w, f)'
    BY <1>1, <1>2, <1>6, ToldSame DEF Due, Asleep, descVars
  <2>2. Stirs(w, f)' => Stirs(w, f)
    BY <1>1, StirsSame
  <2>3. Wanted(w, f)' = Wanted(w, f)
    BY <1>1, WantedSame
  <2> QED
    BY <1>1, <2>1, <2>2, <2>3 DEF Steady, AllDue
<1> QED
  BY <1>3, <1>4, <1>5, <1>6, NoiseKept

LEMMA IrqSequenceKept ==
    ASSUME IInv, NEW d \in Evdevs, IrqSequence(d)
    PROVE  IInv'
<1>1. /\ irq' = [irq EXCEPT ![d] = "put"] /\ Bump(d, "in")
      /\ UNCHANGED <<descVars, open, epoll_lock, sched_lock, readyVars, waitVars, call>>
  BY DEF IrqSequence
<1>2. d \in Fds \ Timerfds /\ "in" \in Dirs
  BY NamesAssumption DEF Fds, Dirs
<1>3. /\ EpTypes'
      /\ \A g \in Fds : /\ entries'[g].events = entries[g].events
                        /\ entries'[g].active = entries[g].active
  BY <1>1, <1>2, BumpEffect DEF IInv, TypeOK
<1>4. /\ irq' \in [Evdevs -> {"idle", "put", "gen", "pend"}] /\ irq'[d] = "put"
      /\ \A g \in Evdevs : g # d => irq'[g] = irq[g]
  BY <1>1 DEF IInv, TypeOK, ReadyTypes
<1>5. TypeOK'
  BY <1>1, <1>3, <1>4
     DEF IInv, TypeOK, DescTypes, LockTypes, ReadyTypes,
         CallTypes, ScanTypes, SleepTypes, descVars, readyVars, waitVars
<1>6. Noise
  BY <1>1, <1>3 DEF Noise, readyVars, waitVars
<1>7. EdgesOwed'
  BY <1>1, <1>2, BumpEdges DEF IInv, TypeOK
<1>8. ASSUME NEW w \in Waiters, NEW f \in Fds PROVE Steady(w, f)
  BY <1>1, <1>3, <1>4 DEF Steady, Due, AllDue
<1> QED
  BY <1>5, <1>6, <1>7, <1>8, NoiseKept

LEMMA IrqPutKept ==
    ASSUME IInv, NEW d \in Evdevs, IrqPut(d)
    PROVE  IInv'
<1>1. /\ irq[d] = "put" /\ irq' = [irq EXCEPT ![d] = "gen"]
      /\ ring' = [ring EXCEPT ![d] = @ + 1]
      /\ lifted' = {c \in lifted : c[2] # d}
      /\ UNCHANGED <<counter, hung, timer, grab_pid, open, entries, epoll_lock, sched_lock,
                     readyVars, covers, pc, kind, timeout, pos, count, seen, filter, signalled,
                     call, owed>>
  BY DEF IrqPut, epVars
<1>2. /\ irq' \in [Evdevs -> {"idle", "put", "gen", "pend"}] /\ irq'[d] = "gen"
      /\ \A g \in Evdevs : g # d => irq'[g] = irq[g]
  BY <1>1 DEF IInv, TypeOK, ReadyTypes
<1>3. ring' \in [Evdevs -> Nat] /\ \A g \in Evdevs : g # d => ring'[g] = ring[g]
  BY <1>1, SMT DEF IInv, TypeOK, DescTypes
<1>4. TypeOK'
  BY <1>1, <1>2, <1>3
     DEF IInv, TypeOK, DescTypes, EpTypes, LockTypes, ReadyTypes,
         CallTypes, ScanTypes, SleepTypes, readyVars
<1>5. Noise
  BY <1>1 DEF Noise, readyVars
<1>6. EdgesOwed'
  BY <1>1, EdgeSame DEF IInv
<1>7. ASSUME NEW w \in Waiters, NEW f \in Fds PROVE Steady(w, f)
  BY <1>1, <1>2 DEF Steady, Due, AllDue
<1> QED
  BY <1>4, <1>5, <1>6, <1>7, NoiseKept

LEMMA IrqGenerationKept ==
    ASSUME IInv, NEW d \in Evdevs, IrqGeneration(d)
    PROVE  IInv'
<1>1. /\ irq' = [irq EXCEPT ![d] = "pend"] /\ stale' = Started
      /\ UNCHANGED <<descVars, open, entries, epoll_lock, sched_lock, irq_pending, waitVars, call,
                     owed>>
  BY DEF IrqGeneration, epVars
<1>2. /\ irq' \in [Evdevs -> {"idle", "put", "gen", "pend"}] /\ irq'[d] = "pend"
      /\ \A g \in Evdevs : irq'[g] = "put" => irq[g] = "put"
  BY <1>1 DEF IInv, TypeOK, ReadyTypes
<1>3. TypeOK'
  BY <1>1, <1>2
     DEF IInv, TypeOK, DescTypes, EpTypes, LockTypes, ReadyTypes,
         CallTypes, ScanTypes, SleepTypes, descVars, waitVars, Started
<1>4. Noise
  BY <1>1 DEF Noise, waitVars
<1>5. EdgesOwed'
  BY <1>1, EdgeSame DEF IInv
<1>6. ASSUME NEW w \in Waiters, NEW f \in Fds, w \notin stale', pc'[w] = pc[w],
             pc[w] \in Behind \cup {"scan", "seq"}
      PROVE  Steady(w, f)
  <2>1. pc'[w] = "asleep"
    BY <1>1, <1>6 DEF Started, Behind
  <2>2. Due(w, f)'
    BY <1>2, <2>1 DEF Due, Asleep
  <2> QED
    BY <1>1, <2>2 DEF Steady, AllDue
<1> QED
  BY <1>3, <1>4, <1>5, <1>6, NoiseKept

LEMMA IrqPendingKept ==
    ASSUME IInv, NEW d \in Evdevs, IrqPending(d)
    PROVE  IInv'
<1>1. /\ irq[d] = "pend" /\ irq' = [irq EXCEPT ![d] = "idle"] /\ irq_pending' = TRUE
      /\ UNCHANGED <<descVars, open, entries, epoll_lock, sched_lock, stale, waitVars, call, owed>>
  BY DEF IrqPending, epVars
<1>2. /\ irq' \in [Evdevs -> {"idle", "put", "gen", "pend"}]
      /\ \A g \in Evdevs : irq'[g] = "put" => irq[g] = "put"
      /\ \A g \in Evdevs : irq[g] \in {"put", "gen"} => irq'[g] = irq[g]
  BY <1>1 DEF IInv, TypeOK, ReadyTypes
<1>3. TypeOK'
  BY <1>1, <1>2
     DEF IInv, TypeOK, DescTypes, EpTypes, LockTypes, ReadyTypes,
         CallTypes, ScanTypes, SleepTypes, descVars, waitVars
<1>4. Noise
  BY <1>1 DEF Noise, waitVars
<1>5. EdgesOwed'
  BY <1>1, EdgeSame DEF IInv
<1>6. ASSUME NEW w \in Waiters, NEW f \in Fds PROVE Steady(w, f)
  <2>1. Due(w, f) => Due(w, f)'
    BY <1>1, <1>2, ToldSame DEF Due, Asleep, descVars, waitVars
  <2>2. Stirs(w, f)' => Stirs(w, f)
    BY <1>1, StirsSame DEF waitVars
  <2>3. Wanted(w, f)' = Wanted(w, f)
    BY <1>1, WantedSame
  <2> QED
    BY <1>1, <2>1, <2>2, <2>3 DEF Steady, AllDue, waitVars
<1> QED
  BY <1>3, <1>4, <1>5, <1>6, NoiseKept

-----------------------------------------------------------------------------
LEMMA InitKept == Init => IInv
<1> SUFFICES ASSUME Init PROVE IInv
  OBVIOUS
<1>1. counter \in [Pipes \cup Eventfds -> 0..MaxCounter] /\ ring \in [Evdevs -> Nat]
      /\ pos \in [Waiters -> Nat] /\ count \in [Waiters -> Nat]
  BY BoundsAssumption, SMT DEF Init
<1>2. NoEntry \in Entries /\ NoEntry.events = {} /\ NoEntry.active = FALSE
  BY DEF NoEntry, Entries
<1>3. TypeOK
  <2>1. DescTypes /\ EpTypes /\ LockTypes
    BY <1>1, <1>2 DEF Init, DescTypes, EpTypes, LockTypes
  <2>2. ReadyTypes /\ CallTypes /\ ScanTypes /\ SleepTypes
    BY <1>1 DEF Init, ReadyTypes, CallTypes, ScanTypes, SleepTypes, PCs
  <2> QED
    BY <2>1, <2>2 DEF TypeOK
<1>4. \A w \in Waiters : pc[w] = "user" /\ filter[w] = {} /\ epoll_lock # w
  BY NamesAssumption DEF Init
<1>5. Heard /\ SeqSeen
  BY <1>4 DEF Heard, SeqSeen, SeqHeard, Passed, Behind
<1>6. FilterCovers
  BY <1>4 DEF FilterCovers, FilterHolds
<1>7. Scanner
  BY <1>4 DEF Scanner, ScanPlace, Behind
<1>8. StaleStarted
  BY DEF StaleStarted, Init
<1>9. \A f \in Fds : owed[f] = {} /\ entries[f].events = {}
  BY <1>2 DEF Init
<1>10. EdgesOwed
  BY <1>9 DEF EdgesOwed, Fds, Owned
<1> QED
  BY <1>3, <1>5, <1>6, <1>7, <1>8, <1>10 DEF IInv

LEMMA StepKept == IInv /\ [Next]_vars => IInv'
<1> SUFFICES ASSUME IInv, [Next]_vars PROVE IInv'
  OBVIOUS
<1>1. CASE Next
  BY <1>1, WaiterKept, OwnerKept, ActorKept, NotifyKept, TimerExpiresKept, IrqSequenceKept, IrqPutKept,
     IrqGenerationKept, IrqPendingKept, DrainIrqKept DEF Next
<1>2. CASE UNCHANGED vars
  <2>1. /\ UNCHANGED <<descVars, entries, owed, irq, irq_pending, covers, lifted, call>>
        /\ UNCHANGED <<open, epoll_lock, sched_lock, readyVars, waitVars>>
    BY <1>2 DEF vars, epVars, readyVars, waitVars
  <2>2. TypeOK'
    BY <2>1 DEF IInv, TypeOK, DescTypes, EpTypes, LockTypes, ReadyTypes,
                CallTypes, ScanTypes, SleepTypes, descVars, readyVars, waitVars
  <2>3. Noise
    BY <2>1 DEF Noise, readyVars, waitVars
  <2> QED
    BY <2>1, <2>2, <2>3, SameKept, ToldSame DEF AllDue
<1> QED
  BY <1>1, <1>2

(* The inductive invariant holds in every reachable state, for any number  *)
(* of waiters, actors and descriptors of any of the four kinds, however    *)
(* the scans, the announcements and the interrupts interleave.             *)
THEOREM Invariance == Spec => []IInv
  BY InitKept, StepKept, PTL DEF Spec

(* Every variable keeps its type; in particular the counter of an eventfd  *)
(* stays within its bounds.                                                *)
THEOREM TypeCorrect == Spec => []TypeOK
<1>1. IInv => TypeOK
  BY DEF IInv
<1> QED
  BY <1>1, Invariance, PTL

LEMMA NothingMissed == IInv => NoMissedReady
<1> SUFFICES ASSUME IInv, NEW w \in Waiters, Asleep(w), HasNews(w)
             PROVE  \/ \E a \in Tasks : call[a] # None /\ Matches(w, call[a])
                    \/ irq_pending
                    \/ \E d \in Evdevs : irq[d] # "idle"
                    \/ \E t \in Timerfds : <<w, t>> \in covers
  BY DEF NoMissedReady
<1>1. PICK f \in Fds : Stirs(w, f)
  <2>1. PICK f \in Fds : /\ Uses(w, f) /\ <<w, f>> \notin lifted
                         /\ IF kind[w] = "poll"
                            THEN (\E i \in DOMAIN PollFds : PollFds[i] = f) /\ Polled(w, f)
                            ELSE entries[f].active /\ News(w, f) # {}
    BY DEF HasNews
  <2>2. CASE kind[w] = "poll"
    BY <2>1, <2>2 DEF Stirs, Concerns
  <2>3. CASE kind[w] = "epoll"
    BY <2>1, <2>3 DEF Stirs, Concerns
  <2> QED
    BY <2>2, <2>3 DEF IInv, TypeOK, CallTypes
<1>2. Trusts(w) /\ Passed(w, f) /\ w \notin stale
  <2>1. ScanPlace(w)
    BY DEF IInv, Scanner
  <2> QED
    BY <2>1 DEF ScanPlace, Trusts, Passed, Behind, Asleep, IInv, StaleStarted, Started
<1>3. Due(w, f)
  BY <1>1, <1>2 DEF IInv, Heard
<1>4. ASSUME Told(f) PROVE \E a \in Tasks : call[a] # None /\ Matches(w, call[a])
  <2>1. PICK a \in Tasks : call[a] \in {f, All}
    BY <1>4 DEF Told
  <2>2. CASE AllDue
    BY <2>2, NamesAssumption DEF AllDue, Matches
  <2>3. CASE ~AllDue
    <3>1. call[a] = f /\ f # None
      BY <2>1, <2>3, NamesAssumption DEF AllDue
    <3>2. f \notin Evdevs
      BY <3>1, NamesAssumption DEF IInv, TypeOK, ReadyTypes, Fds, Owned
    <3>3. filter[w] = {} \/ f \in filter[w]
      <4>1. FilterHolds(w)
        BY DEF IInv, FilterCovers
      <4>2. filter[w] # {} => entries[f].active
        BY <1>1, <4>1 DEF FilterHolds, Stirs, Concerns
      <4> QED
        BY <1>2, <2>3, <3>2, <4>1, <4>2 DEF FilterHolds, AllDue, Asleep
    <3> QED
      BY <3>1, <3>3 DEF Matches
  <2> QED
    BY <2>2, <2>3
<1> QED
  BY <1>3, <1>4 DEF Due, Asleep

(* No announcement is lost: whenever a task sleeps in epoll_wait or poll   *)
(* on a descriptor that it may use and that has something to report, a     *)
(* descriptor_ready_notify that passes its filter, an input interrupt, the *)
(* pending flag of one, or the end of its own sleep is still to come.      *)
(* This is what the generation read before the scan, the two comparisons   *)
(* with it before the sleep and the filter of keys have to ensure          *)
(* together.  A device whose grab by another process was lifted while the  *)
(* task waited is the exception NoMissedReady names: evdev.c announces the *)
(* end of a grab to nobody.                                                *)
THEOREM WakeupDue == Spec => []NoMissedReady
  BY Invariance, NothingMissed, PTL

(* No edge is lost: a descriptor that is ready and whose sequence went up  *)
(* since it was last reported gives an edge at the next scan, although     *)
(* epoll_wait reads readiness and sequence one after the other.            *)
THEOREM EdgePreserved == Spec => []EdgeKept
<1>1. IInv => EdgeKept
  BY DEF IInv, EdgesOwed, EdgeKept
<1> QED
  BY <1>1, Invariance, PTL

=============================================================================

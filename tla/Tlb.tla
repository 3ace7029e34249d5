--------------------------------- MODULE Tlb ---------------------------------
(***************************************************************************)
(* Shooting down translations (smp_tlb_flush_all_sync, _ack and _poll in   *)
(* kernel/arch/x86_64/smp.c) and the user of it that gives memory away:    *)
(* the demand-paged range of the kernel heap (mem/demand.c), whose pages   *)
(* are taken back while other CPUs may still have them in their TLBs.      *)
(*                                                                         *)
(* A flush gets a generation, writes it into tlb_request of every CPU,     *)
(* sends interrupts and waits until tlb_ack of every other CPU has reached *)
(* it.  Interrupts can get lost (lapic_send_ipi gives up on a busy ICR),   *)
(* so they are sent again in every round, and the flush can fail.  A CPU   *)
(* answers from the interrupt, or from smp_tlb_flush_poll, which every     *)
(* loop that waits with interrupts off has to call.                        *)
(*                                                                         *)
(* at[c] is where CPU c stands:                                            *)
(*   run     interrupts on           off   a section with interrupts off   *)
(*   lock    spins on demand_lock    gen   before the new generation       *)
(*   req     fills in tlb_request    send  before the first interrupts     *)
(*   wait    polls the tlb_acks      back  out of the flush, with a result *)
(* and hand[c] is how far smp_tlb_flush_ack has come on c, which runs with *)
(* interrupts off and holds up everything else on c: none, reload, store.  *)
(***************************************************************************)
EXTENDS Integers, FiniteSets

CONSTANTS CPUs, NoCPU,
          Frames, NoFrame,
          MaxPages,   \* demand_max_pages
          Rounds,     \* SMP_TLB_FLUSH_ROUNDS
          Reclaimers, \* bound: the CPUs that take pages back
          Flushers,   \* bound: the CPUs that flush for something else
          MaxGen      \* bound: how many flushes are started

ASSUME NoCPUAssumption == NoCPU \notin CPUs
ASSUME NoFrameAssumption == NoFrame \notin Frames
ASSUME BoundsAssumption == MaxPages \in Nat /\ Rounds \in Nat \ {0} /\ MaxGen \in Nat

Pages == 0 .. MaxPages - 1   \* of the demand-paged range

VARIABLES
    pte,            \* of each page: its frame and the present bit
    committed,      \* the bitmap of committed pages
    reserved_end,   \* demand_reserved_end
    free,           \* the free frames
    tlb,            \* the frame that a CPU has cached for a page
    demand_lock,    \* the CPU that holds it
    generation,     \* smp_tlb_flush_generation
    tlb_request, tlb_ack,   \* of each CPU
    ipi,            \* a flush interrupt is pending at the CPU
    at, hand,
    seen,           \* the request that a running smp_tlb_flush_ack has read
    iflag,          \* interrupts were on when the CPU began its operation
    op,             \* the operation: a commit, a decommit, or a flush alone
    range,          \* the pages first .. last-1 of the operation
    my_gen,         \* the local variables of smp_tlb_flush_all_sync
    todo, round, result,
    unflushed       \* ghost: CPUs with no reload since the flush began

memVars == <<pte, committed, reserved_end, free>>
ipcVars == <<generation, tlb_request, tlb_ack, ipi>>
ackVars == <<hand, seen>>
opVars == <<iflag, op, range>>
syncVars == <<my_gen, todo, round, result, unflushed>>
vars == <<memVars, tlb, demand_lock, ipcVars, at, ackVars, opVars, syncVars>>

Nothing == [frame |-> NoFrame, present |-> FALSE]

TypeOK ==
    /\ pte \in [Pages -> [frame : Frames \cup {NoFrame}, present : BOOLEAN]]
    /\ committed \in [Pages -> BOOLEAN]
    /\ reserved_end \in 0 .. MaxPages
    /\ free \subseteq Frames
    /\ tlb \in [CPUs -> [Pages -> Frames \cup {NoFrame}]]
    /\ demand_lock \in CPUs \cup {NoCPU}
    /\ generation \in Nat
    /\ tlb_request \in [CPUs -> Nat]
    /\ tlb_ack \in [CPUs -> Nat]
    /\ ipi \in [CPUs -> BOOLEAN]
    /\ at \in [CPUs -> {"run", "off", "lock", "gen", "req", "send", "wait", "back"}]
    /\ hand \in [CPUs -> {"none", "reload", "store"}]
    /\ seen \in [CPUs -> Nat]
    /\ iflag \in [CPUs -> BOOLEAN]
    /\ op \in [CPUs -> {"none", "commit", "decommit", "flush"}]
    /\ range \in [CPUs -> [first : 0 .. MaxPages, last : 0 .. MaxPages]]
    /\ my_gen \in [CPUs -> Nat]
    /\ todo \in [CPUs -> SUBSET CPUs]
    /\ round \in [CPUs -> 0 .. Rounds]
    /\ result \in [CPUs -> {0, -1}]
    /\ unflushed \in [CPUs -> SUBSET CPUs]

Init ==
    /\ pte = [p \in Pages |-> Nothing]
    /\ committed = [p \in Pages |-> FALSE]
    /\ reserved_end = 0
    /\ free = Frames
    /\ tlb = [c \in CPUs |-> [p \in Pages |-> NoFrame]]
    /\ demand_lock = NoCPU
    /\ generation = 0
    /\ tlb_request = [c \in CPUs |-> 0]
    /\ tlb_ack = [c \in CPUs |-> 0]
    /\ ipi = [c \in CPUs |-> FALSE]
    /\ at = [c \in CPUs |-> "run"]
    /\ hand = [c \in CPUs |-> "none"]
    /\ seen = [c \in CPUs |-> 0]
    /\ iflag = [c \in CPUs |-> TRUE]
    /\ op = [c \in CPUs |-> "none"]
    /\ range = [c \in CPUs |-> [first |-> 0, last |-> 0]]
    /\ my_gen = [c \in CPUs |-> 0]
    /\ todo = [c \in CPUs |-> {}]
    /\ round = [c \in CPUs |-> 0]
    /\ result = [c \in CPUs |-> 0]
    /\ unflushed = [c \in CPUs |-> {}]
-----------------------------------------------------------------------------
(* The hardware may cache a present translation at any moment. *)
Fill(c, p) ==
    /\ pte[p].present
    /\ tlb[c][p] # pte[p].frame
    /\ tlb' = [tlb EXCEPT ![c][p] = pte[p].frame]
    /\ UNCHANGED <<memVars, demand_lock, ipcVars, at, ackVars, opVars, syncVars>>

(* Interrupts reach a CPU in run, and one that spins on demand_lock if the *)
(* caller had them on (demand_lock_acquire turns them on between tries).   *)
InterruptsOn(c) == at[c] = "run" \/ (at[c] = "lock" /\ iflag[c])

(* Mutant: demand_lock_acquire spins without a poll. *)
Polls_NotAtLock(c) ==
    \/ at[c] \in {"req", "send", "wait"}
    \/ at[c] = "back" /\ my_gen[c] > 0

(* Where the code of c calls smp_tlb_flush_poll. *)
Polls(c) ==
    \/ at[c] = "lock" /\ demand_lock # NoCPU
    \/ at[c] \in {"req", "send", "wait"}
    \/ at[c] = "back" /\ my_gen[c] > 0

(* smp_tlb_flush_ack, up to its load of tlb_request. *)
AckBegin(c) ==
    /\ hand[c] = "none"
    /\ hand' = [hand EXCEPT ![c] = "reload"]
    /\ seen' = [seen EXCEPT ![c] = tlb_request[c]]
    /\ UNCHANGED <<memVars, tlb, demand_lock, generation, tlb_request, tlb_ack,
                   at, opVars, syncVars>>

(* The flush interrupt. *)
FlushInterrupt(c) ==
    /\ ipi[c] /\ InterruptsOn(c)
    /\ ipi' = [ipi EXCEPT ![c] = FALSE]
    /\ AckBegin(c)

(* smp_tlb_flush_poll answers only a request that is newer than the ack. *)
Poll(c) ==
    /\ Polls(c)
    /\ tlb_request[c] > tlb_ack[c]
    /\ UNCHANGED ipi
    /\ AckBegin(c)

(* Any other interrupt polls as well (interrupt_handler). *)
OtherInterrupt(c) ==
    /\ InterruptsOn(c)
    /\ tlb_request[c] > tlb_ack[c]
    /\ UNCHANGED ipi
    /\ AckBegin(c)

(* The reload of CR3 empties the TLB of the CPU. *)
AckReload(c) ==
    /\ hand[c] = "reload"
    /\ tlb' = [tlb EXCEPT ![c] = [p \in Pages |-> NoFrame]]
    /\ unflushed' = [d \in CPUs |-> unflushed[d] \ {c}]
    /\ hand' = [hand EXCEPT ![c] = "store"]
    /\ UNCHANGED <<memVars, demand_lock, ipcVars, at, seen, opVars, my_gen, todo,
                   round, result>>

(* Mutant: the request is loaded after the reload, not before it. *)
AckStore_LateLoad(c) ==
    /\ hand[c] = "store"
    /\ tlb_ack' = [tlb_ack EXCEPT ![c] = tlb_request[c]]
    /\ hand' = [hand EXCEPT ![c] = "none"]
    /\ seen' = [seen EXCEPT ![c] = 0]
    /\ UNCHANGED <<memVars, tlb, demand_lock, generation, tlb_request, ipi, at,
                   opVars, syncVars>>

AckStore(c) ==
    /\ hand[c] = "store"
    /\ tlb_ack' = [tlb_ack EXCEPT ![c] = seen[c]]
    /\ hand' = [hand EXCEPT ![c] = "none"]
    /\ seen' = [seen EXCEPT ![c] = 0]
    /\ UNCHANGED <<memVars, tlb, demand_lock, generation, tlb_request, ipi, at,
                   opVars, syncVars>>
-----------------------------------------------------------------------------
Idle(c) == hand[c] = "none" /\ at[c] \in {"run", "off"}

(* Some section that runs with interrupts off and does not poll. *)
DisableInterrupts(c) ==
    /\ hand[c] = "none" /\ at[c] = "run"
    /\ at' = [at EXCEPT ![c] = "off"]
    /\ UNCHANGED <<memVars, tlb, demand_lock, ipcVars, ackVars, opVars, syncVars>>

EnableInterrupts(c) ==
    /\ hand[c] = "none" /\ at[c] = "off"
    /\ at' = [at EXCEPT ![c] = "run"]
    /\ UNCHANGED <<memVars, tlb, demand_lock, ipcVars, ackVars, opVars, syncVars>>

(* demand_reserve_range for pages first .. last-1, one demand_lock section. *)
Reserve(c, first, last) ==
    /\ Idle(c) /\ demand_lock = NoCPU
    /\ first < last /\ last <= MaxPages
    /\ first <= reserved_end
    /\ last > reserved_end
    /\ reserved_end' = last
    /\ UNCHANGED <<pte, committed, free, tlb, demand_lock, ipcVars, at, ackVars,
                   opVars, syncVars>>

(* Bound: how many flushes may still be started. *)
Budget == generation + Cardinality({d \in CPUs : at[d] \in {"lock", "gen"}}) < MaxGen

(* demand_commit_page, called by the heap or by a page fault, wants        *)
(* demand_lock, and so does demand_decommit_range for first .. last-1.     *)
LockCall(c, what, first, last) ==
    /\ Idle(c)
    /\ first < last /\ last <= MaxPages
    /\ range' = [range EXCEPT ![c] = [first |-> first, last |-> last]]
    /\ op' = [op EXCEPT ![c] = what]
    /\ iflag' = [iflag EXCEPT ![c] = at[c] = "run"]
    /\ at' = [at EXCEPT ![c] = "lock"]
    /\ UNCHANGED <<memVars, tlb, demand_lock, ipcVars, ackVars, syncVars>>

CommitCall(c, p) == LockCall(c, "commit", p, p + 1)

DecommitCall(c, first, last) ==
    c \in Reclaimers /\ Budget /\ LockCall(c, "decommit", first, last)

(* The end of an operation; what was local to it is no longer looked at. *)
Return(c) ==
    /\ at' = [at EXCEPT ![c] = IF iflag[c] THEN "run" ELSE "off"]
    /\ op' = [op EXCEPT ![c] = "none"]
    /\ range' = [range EXCEPT ![c] = [first |-> 0, last |-> 0]]
    /\ iflag' = [iflag EXCEPT ![c] = TRUE]

(* The demand_lock section of demand_commit_page.  It refuses a page that  *)
(* is not reserved and fails without a frame; a page that another CPU has  *)
(* committed is left alone.  vmm_map_page_pae flushes on this CPU only.    *)
Commit(c) ==
    /\ hand[c] = "none" /\ at[c] = "lock" /\ op[c] = "commit"
    /\ demand_lock = NoCPU
    /\ LET p == range[c].first
       IN IF p < reserved_end /\ ~committed[p] /\ free # {}
          THEN /\ \E f \in free :
                    /\ free' = free \ {f}
                    /\ pte' = [pte EXCEPT ![p] = [frame |-> f, present |-> TRUE]]
               /\ tlb' = [tlb EXCEPT ![c][p] = NoFrame]
               /\ committed' = [committed EXCEPT ![p] = TRUE]
          ELSE UNCHANGED <<free, pte, tlb, committed>>
    /\ Return(c)
    /\ UNCHANGED <<reserved_end, demand_lock, ipcVars, ackVars, syncVars>>
-----------------------------------------------------------------------------
InRange(c, p) == range[c].first <= p /\ p < range[c].last

(* demand_decommit_batch_begin and _stage: the present bits go, and with   *)
(* them what this CPU has cached; nothing to flush if there were none.     *)
Stage(c) ==
    /\ hand[c] = "none" /\ at[c] = "lock" /\ op[c] = "decommit"
    /\ demand_lock = NoCPU
    /\ demand_lock' = c
    /\ pte' = [p \in Pages |-> IF InRange(c, p) /\ committed[p]
                               THEN [pte[p] EXCEPT !.present = FALSE] ELSE pte[p]]
    /\ tlb' = [tlb EXCEPT ![c] = [p \in Pages |-> IF InRange(c, p) /\ committed[p]
                                                  THEN NoFrame ELSE tlb[c][p]]]
    /\ result' = [result EXCEPT ![c] = 0]
    /\ at' = [at EXCEPT ![c] =
                 IF \E p \in Pages : InRange(c, p) /\ committed[p] /\ pte[p].present
                 THEN "gen" ELSE "back"]
    /\ UNCHANGED <<committed, reserved_end, free, ipcVars, ackVars, opVars, my_gen,
                   todo, round, unflushed>>

(* Mutant: the frames are freed whatever the flush returned. *)
Finish_IgnoresResult(c) ==
    /\ hand[c] = "none" /\ at[c] = "back" /\ op[c] = "decommit"
    /\ LET gone(p) == InRange(c, p) /\ committed[p]
       IN IF FALSE
          THEN /\ pte' = [p \in Pages |-> IF gone(p) THEN [pte[p] EXCEPT !.present = TRUE]
                                          ELSE pte[p]]
               /\ UNCHANGED <<committed, free, reserved_end>>
          ELSE /\ pte' = [p \in Pages |-> IF gone(p) THEN Nothing ELSE pte[p]]
               /\ committed' = [p \in Pages |-> committed[p] /\ ~gone(p)]
               /\ free' = free \cup {pte[p].frame : p \in {q \in Pages : gone(q)}}
               /\ reserved_end' = IF range[c].last = reserved_end
                                  THEN range[c].first ELSE reserved_end
    /\ demand_lock' = NoCPU
    /\ Return(c)
    /\ my_gen' = [my_gen EXCEPT ![c] = 0]
    /\ result' = [result EXCEPT ![c] = 0]
    /\ unflushed' = [unflushed EXCEPT ![c] = {}]
    /\ UNCHANGED <<tlb, ipcVars, ackVars, todo, round>>

(* Mutant: a failed flush leaves the present bits cleared. *)
Finish_NotPresent(c) ==
    /\ hand[c] = "none" /\ at[c] = "back" /\ op[c] = "decommit"
    /\ LET gone(p) == InRange(c, p) /\ committed[p]
       IN IF result[c] < 0
          THEN UNCHANGED <<pte, committed, free, reserved_end>>
          ELSE /\ pte' = [p \in Pages |-> IF gone(p) THEN Nothing ELSE pte[p]]
               /\ committed' = [p \in Pages |-> committed[p] /\ ~gone(p)]
               /\ free' = free \cup {pte[p].frame : p \in {q \in Pages : gone(q)}}
               /\ reserved_end' = IF range[c].last = reserved_end
                                  THEN range[c].first ELSE reserved_end
    /\ demand_lock' = NoCPU
    /\ Return(c)
    /\ my_gen' = [my_gen EXCEPT ![c] = 0]
    /\ result' = [result EXCEPT ![c] = 0]
    /\ unflushed' = [unflushed EXCEPT ![c] = {}]
    /\ UNCHANGED <<tlb, ipcVars, ackVars, todo, round>>

(* demand_decommit_batch_finish and _end.  A failed flush puts the present *)
(* bits back; only a flush that succeeded frees the frames.                *)
Finish(c) ==
    /\ hand[c] = "none" /\ at[c] = "back" /\ op[c] = "decommit"
    /\ LET gone(p) == InRange(c, p) /\ committed[p]
       IN IF result[c] < 0
          THEN /\ pte' = [p \in Pages |-> IF gone(p) THEN [pte[p] EXCEPT !.present = TRUE]
                                          ELSE pte[p]]
               /\ UNCHANGED <<committed, free, reserved_end>>
          ELSE /\ pte' = [p \in Pages |-> IF gone(p) THEN Nothing ELSE pte[p]]
               /\ committed' = [p \in Pages |-> committed[p] /\ ~gone(p)]
               /\ free' = free \cup {pte[p].frame : p \in {q \in Pages : gone(q)}}
               /\ reserved_end' = IF range[c].last = reserved_end
                                  THEN range[c].first ELSE reserved_end
    /\ demand_lock' = NoCPU
    /\ Return(c)
    /\ my_gen' = [my_gen EXCEPT ![c] = 0]
    /\ result' = [result EXCEPT ![c] = 0]
    /\ unflushed' = [unflushed EXCEPT ![c] = {}]
    /\ UNCHANGED <<tlb, ipcVars, ackVars, todo, round>>

(* The other callers of smp_tlb_flush_all_sync (fork, mprotect, munmap)    *)
(* hold no lock that this module knows of.                                 *)
FlushCall(c) ==
    /\ Idle(c) /\ c \in Flushers /\ Budget
    /\ op' = [op EXCEPT ![c] = "flush"]
    /\ iflag' = [iflag EXCEPT ![c] = at[c] = "run"]
    /\ at' = [at EXCEPT ![c] = "gen"]
    /\ UNCHANGED <<memVars, tlb, demand_lock, ipcVars, ackVars, range, syncVars>>

FlushReturn(c) ==
    /\ hand[c] = "none" /\ at[c] = "back" /\ op[c] = "flush"
    /\ Return(c)
    /\ my_gen' = [my_gen EXCEPT ![c] = 0]
    /\ result' = [result EXCEPT ![c] = 0]
    /\ unflushed' = [unflushed EXCEPT ![c] = {}]
    /\ UNCHANGED <<memVars, tlb, demand_lock, ipcVars, ackVars, todo, round>>
-----------------------------------------------------------------------------
(* smp_tlb_flush_all_sync.  The loops over the CPUs visit them in any order. *)
NewGeneration(c) ==
    /\ hand[c] = "none" /\ at[c] = "gen"
    /\ generation' = generation + 1
    /\ my_gen' = [my_gen EXCEPT ![c] = generation + 1]
    /\ todo' = [todo EXCEPT ![c] = CPUs]
    /\ unflushed' = [unflushed EXCEPT ![c] = CPUs \ {c}]
    /\ at' = [at EXCEPT ![c] = "req"]
    /\ UNCHANGED <<memVars, tlb, demand_lock, tlb_request, tlb_ack, ipi, ackVars,
                   opVars, round, result>>

(* The compare-and-exchange loop leaves the larger of the two generations. *)
Request(c, d) ==
    /\ hand[c] = "none" /\ at[c] = "req"
    /\ d \in todo[c]
    /\ tlb_request' = [tlb_request EXCEPT ![d] = IF @ < my_gen[c] THEN my_gen[c] ELSE @]
    /\ todo' = [todo EXCEPT ![c] = @ \ {d}]
    /\ at' = [at EXCEPT ![c] = IF todo[c] = {d} THEN "send" ELSE "req"]
    /\ UNCHANGED <<memVars, tlb, demand_lock, generation, tlb_ack, ipi, ackVars,
                   opVars, my_gen, round, result, unflushed>>

Missing(c) == {d \in CPUs \ {c} : tlb_ack[d] < my_gen[c]}

(* smp_tlb_flush_send_missing: any of the interrupts may be lost. *)
SendMissing(c) ==
    \E lost \in SUBSET Missing(c) :
        ipi' = [d \in CPUs |-> ipi[d] \/ d \in Missing(c) \ lost]

Send(c) ==
    /\ hand[c] = "none" /\ at[c] = "send"
    /\ SendMissing(c)
    /\ round' = [round EXCEPT ![c] = 0]
    /\ at' = [at EXCEPT ![c] = "wait"]
    /\ UNCHANGED <<memVars, tlb, demand_lock, generation, tlb_request, tlb_ack,
                   ackVars, opVars, my_gen, todo, result, unflushed>>

(* smp_tlb_flush_complete. *)
Complete(c) ==
    /\ hand[c] = "none" /\ at[c] = "wait"
    /\ Missing(c) = {}
    /\ result' = [result EXCEPT ![c] = 0]
    /\ round' = [round EXCEPT ![c] = 0]
    /\ at' = [at EXCEPT ![c] = "back"]
    /\ UNCHANGED <<memVars, tlb, demand_lock, ipcVars, ackVars, opVars, my_gen, todo,
                   unflushed>>

(* SMP_IPI_WAIT_SPINS looks in vain: send again, and fail after the last round. *)
RoundOver(c) ==
    /\ hand[c] = "none" /\ at[c] = "wait"
    /\ Missing(c) # {}
    /\ SendMissing(c)
    /\ IF round[c] + 1 < Rounds
       THEN /\ round' = [round EXCEPT ![c] = @ + 1]
            /\ UNCHANGED <<at, result>>
       ELSE /\ round' = [round EXCEPT ![c] = 0]
            /\ result' = [result EXCEPT ![c] = -1]
            /\ at' = [at EXCEPT ![c] = "back"]
    /\ UNCHANGED <<memVars, tlb, demand_lock, generation, tlb_request, tlb_ack,
                   ackVars, opVars, my_gen, todo, unflushed>>

Ack(c) == FlushInterrupt(c) \/ Poll(c) \/ AckReload(c) \/ AckStore(c)

Sync(c) == NewGeneration(c) \/ (\E d \in CPUs : Request(c, d)) \/ Send(c) \/ Complete(c)

Next ==
    \E c \in CPUs :
        \/ \E p \in Pages : Fill(c, p) \/ CommitCall(c, p)
        \/ Ack(c) \/ OtherInterrupt(c)
        \/ DisableInterrupts(c) \/ EnableInterrupts(c)
        \/ \E first, last \in 0 .. MaxPages :
             Reserve(c, first, last) \/ DecommitCall(c, first, last)
        \/ Commit(c) \/ Stage(c) \/ Finish(c)
        \/ FlushCall(c) \/ FlushReturn(c)
        \/ Sync(c) \/ RoundOver(c)

Spec == Init /\ [][Next]_vars

(* A CPU goes on with what it is doing: at demand_lock it takes the lock   *)
(* or polls.  A section with interrupts off ends, even if it calls into    *)
(* this module, and interrupts are not turned on again and again without a *)
(* pending one being taken.  No round has to end, and nobody is sure to    *)
(* get demand_lock.                                                        *)
Fairness ==
    \A c \in CPUs :
        /\ WF_vars(Ack(c) \/ Commit(c) \/ Stage(c) \/ Finish(c) \/ FlushReturn(c) \/ Sync(c))
        /\ SF_vars(FlushInterrupt(c))
        /\ SF_vars(EnableInterrupts(c))

FairSpec == Spec /\ Fairness
-----------------------------------------------------------------------------
(* A flush that returns 0 (smp_tlb_flush_all_sync) has had every other CPU *)
(* reload its TLB after the flush began, however many flushes run at once. *)
FlushedAll ==
    \A c \in CPUs :
        at[c] = "back" /\ my_gen[c] > 0 /\ result[c] = 0 => unflushed[c] = {}

(* What a CPU has cached for a heap page is the frame the page has, so no  *)
(* CPU reaches a frame after demand_decommit_batch_finish has freed it.    *)
TlbCoherent ==
    \A c \in CPUs, p \in Pages :
        tlb[c][p] # NoFrame => tlb[c][p] = pte[p].frame /\ pte[p].frame \notin free

(* A frame backs at most one page, a committed page has one, and outside a *)
(* decommit the bitmap and the present bits agree: nothing leaks, and a    *)
(* fault on a committed page finds it present once demand_lock is free.    *)
FramesAccounted ==
    /\ \A p \in Pages : committed[p] <=> pte[p].frame # NoFrame
    /\ \A p, q \in Pages : p # q /\ committed[p] => pte[p].frame # pte[q].frame
    /\ free = Frames \ {pte[p].frame : p \in Pages}
    /\ demand_lock = NoCPU => \A p \in Pages : pte[p].present = committed[p]
    /\ \A p \in Pages : committed[p] => p < reserved_end

(* Once the interrupts of a round have been sent to all that are missing,  *)
(* the wait of smp_tlb_flush_all_sync ends without a further round: no CPU *)
(* keeps it waiting for ever, not one that itself waits for a flush or for *)
(* demand_lock.                                                            *)
Sent(c) == at[c] = "wait" /\ \A d \in Missing(c) : ipi[d]

FlushEnds == \A c \in CPUs : Sent(c) ~> at[c] # "wait"
=============================================================================

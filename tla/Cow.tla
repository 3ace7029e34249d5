---------------------------------- MODULE Cow ----------------------------------
(***************************************************************************)
(* Copy on write: fork shares the pages of an address space (mem/vmm_pd.c, *)
(* vmm_clone_pml4_impl), a write fault takes a private copy                *)
(* (cow_handle_fault), munmap and exit give pages back, and the reference  *)
(* counts of mem/pmm.c say who is the last owner.                          *)
(*                                                                         *)
(* An address space v has threads with a TLB each.  Everything that        *)
(* changes its page table holds vm->lock, so at most one operation op[v]   *)
(* runs per address space, on behalf of thread op[v].by; its sections of   *)
(* vmm_user_lock are single steps.  User code of the other threads runs    *)
(* meanwhile.  A count is kept only for shared frames: no count (0) is one *)
(* owner, as is the count 1.                                               *)
(*                                                                         *)
(* Flushes are taken to succeed (module Tlb); every page is a page table   *)
(* of its own; shared and file mappings are left out.                      *)
(***************************************************************************)
EXTENDS Integers, FiniteSets

CONSTANTS VMs,          \* address spaces
          Threads,      \* of each address space
          Pages,        \* virtual pages
          Frames, NoFrame,
          Values,       \* what a page may contain; 0 is a zeroed page
          First         \* the address space of the first process

ASSUME NoFrameAssumption == NoFrame \notin Frames
ASSUME ValuesAssumption == 0 \in Values
ASSUME FirstAssumption == First \in VMs
ASSUME ThreadsAssumption == \A v \in VMs : IsFiniteSet(Threads[v]) /\ Threads[v] # {}
ASSUME FiniteAssumption == IsFiniteSet(VMs) /\ IsFiniteSet(Pages)

VARIABLES
    pte,       \* page table: frame, writable, and the copy-on-write mark
    refs,      \* the count of each frame
    free,      \* the free frames
    content,
    tlb,       \* what a thread has cached: frame and writable
    live,      \* none, clone (fork is filling it), live or exit
    op,        \* the operation under vm->lock
    value      \* ghost: what the user of a page wrote or inherited last

vars == <<pte, refs, free, content, tlb, live, op, value>>

Unmapped == [frame |-> NoFrame, write |-> FALSE, cow |-> FALSE]
Uncached == [frame |-> NoFrame, write |-> FALSE]

(* hold: a frame the operation still owns without mapping it; new, from:   *)
(* the copy that a fault has made, and of which frame; old: the frame that *)
(* a fault has replaced; todo: pages to share or threads to flush.         *)
NoOp == [kind |-> "none", by |-> 0, stage |-> "none", page |-> 0, new |-> NoFrame,
         from |-> NoFrame, old |-> NoFrame, hold |-> NoFrame, child |-> First, todo |-> {}]

AnyFrame == Frames \cup {NoFrame}
AllThreads == UNION {Threads[v] : v \in VMs}

Entries == [frame : AnyFrame, write : BOOLEAN, cow : BOOLEAN]
CacheEntries == [frame : AnyFrame, write : BOOLEAN]
Ops == [kind : {"none", "fault", "unmap", "fork"}, by : AllThreads \cup {0},
        stage : {"none", "check", "copy", "share", "flush", "undo"}, page : Pages \cup {0},
        new : AnyFrame, from : AnyFrame, old : AnyFrame, hold : AnyFrame,
        child : VMs, todo : SUBSET (Pages \cup AllThreads)]

TypeOK ==
    /\ pte \in [VMs -> [Pages -> Entries]]
    /\ refs \in [Frames -> Nat]
    /\ free \subseteq Frames
    /\ content \in [Frames -> Values]
    /\ tlb = [v \in VMs |-> tlb[v]]
    /\ \A v \in VMs : tlb[v] \in [Threads[v] -> [Pages -> CacheEntries]]
    /\ live \in [VMs -> {"none", "clone", "live", "exit"}]
    /\ op \in [VMs -> Ops]
    /\ value \in [VMs -> [Pages -> Values]]

Init ==
    /\ pte = [v \in VMs |-> [p \in Pages |-> Unmapped]]
    /\ refs = [f \in Frames |-> 0]
    /\ free = Frames
    /\ content = [f \in Frames |-> 0]
    /\ tlb = [v \in VMs |-> [t \in Threads[v] |-> [p \in Pages |-> Uncached]]]
    /\ live = [v \in VMs |-> IF v = First THEN "live" ELSE "none"]
    /\ op = [v \in VMs |-> NoOp]
    /\ value = [v \in VMs |-> [p \in Pages |-> 0]]
-----------------------------------------------------------------------------
(* The thread runs user code. *)
InUser(v, t) == live[v] = "live" /\ (op[v].kind = "none" \/ op[v].by # t)

Mapped(v, p) == pte[v][p].frame # NoFrame

(* The hardware caches the page table entry. *)
Fill(v, t, p) ==
    /\ InUser(v, t) /\ Mapped(v, p)
    /\ tlb' = [tlb EXCEPT ![v][t][p] = [frame |-> pte[v][p].frame, write |-> pte[v][p].write]]
    /\ tlb' # tlb
    /\ UNCHANGED <<pte, refs, free, content, live, op, value>>

Write(v, t, p, x) ==
    /\ InUser(v, t) /\ tlb[v][t][p].write
    /\ content' = [content EXCEPT ![tlb[v][t][p].frame] = x]
    /\ value' = [value EXCEPT ![v][p] = x]
    /\ UNCHANGED <<pte, refs, free, tlb, live, op>>

Begin(v, t, o) ==
    /\ live[v] = "live" /\ op[v].kind = "none"
    /\ op' = [op EXCEPT ![v] = [o EXCEPT !.by = t]]

End(v) == op' = [op EXCEPT ![v] = NoOp]

(* task_handle_anon_page_fault: a zeroed page. *)
MapAnon(v, t, p) ==
    /\ t \in Threads[v]
    /\ live[v] = "live" /\ op[v].kind = "none" /\ ~Mapped(v, p)
    /\ \E f \in free :
         /\ free' = free \ {f}
         /\ content' = [content EXCEPT ![f] = 0]
         /\ pte' = [pte EXCEPT ![v][p] = [frame |-> f, write |-> TRUE, cow |-> FALSE]]
    /\ value' = [value EXCEPT ![v][p] = 0]
    /\ UNCHANGED <<refs, tlb, live, op>>
-----------------------------------------------------------------------------
(* Mutant: the first count is 1 (pfa_ref_inc). *)
RefShare_FromOne(f) == refs' = [refs EXCEPT ![f] = @ + 1]

(* pfa_ref_share, pfa_ref_dec, and pfa_cow_release, which frees the frame  *)
(* if the caller was its last owner.                                       *)
RefShare(f) == refs' = [refs EXCEPT ![f] = IF @ = 0 THEN 2 ELSE @ + 1]

RefDec(f) == [refs EXCEPT ![f] = IF @ = 0 THEN 0 ELSE @ - 1]

CowRelease(f) ==
    /\ refs' = [refs EXCEPT ![f] = IF @ > 2 THEN @ - 1 ELSE 0]
    /\ free' = IF refs[f] <= 1 THEN free \cup {f} ELSE free

(* A thread drops what it has cached, at smp_tlb_flush_ack. *)
FlushThread(v, t) == tlb' = [tlb EXCEPT ![v][t] = [p \in Pages |-> Uncached]]

(* vmm_user_tlb_sync and smp_tlb_flush_all_sync, one thread after another. *)
Flush(v, t) ==
    /\ op[v].stage = "flush" /\ t \in op[v].todo
    /\ FlushThread(v, t)
    /\ op' = [op EXCEPT ![v] = [op[v] EXCEPT !.todo = @ \ {t}]]
    /\ UNCHANGED <<pte, refs, free, content, live, value>>
-----------------------------------------------------------------------------
(* cow_handle_fault, for a page that need not be write protected any more. *)
Fault(v, t, p) ==
    /\ Mapped(v, p)
    /\ Begin(v, t, [NoOp EXCEPT !.kind = "fault", !.stage = "check", !.page = p])
    /\ UNCHANGED <<pte, refs, free, content, tlb, live, value>>

Checking(v) == op[v].kind = "fault" /\ op[v].stage = "check"

GiveBack(f) == free' = IF f = NoFrame THEN free ELSE free \cup {f}

(* Nothing to do. *)
FaultDone(v) ==
    /\ Checking(v)
    /\ ~pte[v][op[v].page].cow
    /\ GiveBack(op[v].new)
    /\ End(v)
    /\ UNCHANGED <<pte, refs, content, tlb, live, value>>

(* The only owner writes in place. *)
FaultInPlace(v) ==
    LET p == op[v].page
        f == pte[v][p].frame
    IN /\ Checking(v)
       /\ pte[v][p].cow /\ refs[f] <= 1
       /\ pte' = [pte EXCEPT ![v][p] = [frame |-> f, write |-> TRUE, cow |-> FALSE]]
       /\ refs' = RefDec(f)
       /\ GiveBack(op[v].new)
       /\ tlb' = [tlb EXCEPT ![v][op[v].by][p] = Uncached]
       /\ End(v)
       /\ UNCHANGED <<content, live, value>>

MustCopy(v) == Checking(v) /\ pte[v][op[v].page].cow /\ refs[pte[v][op[v].page].frame] > 1

(* The frame is copied without the lock; there may be no frame for it. *)
FaultToCopy(v) ==
    /\ MustCopy(v)
    /\ op[v].new = NoFrame \/ op[v].from # pte[v][op[v].page].frame
    /\ op' = [op EXCEPT ![v] = [@ EXCEPT !.stage = "copy",
                                        !.from = pte[v][op[v].page].frame]]
    /\ UNCHANGED <<pte, refs, free, content, tlb, live, value>>

FaultCopy(v) ==
    /\ op[v].kind = "fault" /\ op[v].stage = "copy"
    /\ \E f \in IF op[v].new = NoFrame THEN free ELSE {op[v].new} :
         /\ free' = free \ {f}
         /\ content' = [content EXCEPT ![f] = content[op[v].from]]
         /\ op' = [op EXCEPT ![v] = [@ EXCEPT !.stage = "check", !.new = f]]
    /\ UNCHANGED <<pte, refs, tlb, live, value>>

FaultNoFrame(v) ==
    /\ op[v].kind = "fault" /\ op[v].stage = "copy" /\ op[v].new = NoFrame
    /\ End(v)
    /\ UNCHANGED <<pte, refs, free, content, tlb, live, value>>

(* The copy replaces the frame, and the count of the old frame goes down   *)
(* before the other threads are flushed.                                   *)
FaultCommit(v) ==
    LET p   == op[v].page
        old == pte[v][p].frame
    IN /\ MustCopy(v) /\ op[v].new # NoFrame /\ op[v].from = old
       /\ pte' = [pte EXCEPT ![v][p] = [frame |-> op[v].new, write |-> TRUE, cow |-> FALSE]]
       /\ refs' = RefDec(old)
       /\ tlb' = [tlb EXCEPT ![v][op[v].by][p] = Uncached]
       /\ op' = [op EXCEPT ![v] =
                    [@ EXCEPT !.stage = "flush", !.new = NoFrame, !.from = NoFrame, !.old = old,
                              !.hold = IF RefDec(old)[old] = 0 THEN old ELSE NoFrame,
                              !.todo = Threads[v] \ {op[v].by}]]
       /\ UNCHANGED <<free, content, live, value>>

(* task_replace_user_page has no room to record the copy. *)
FaultUntracked(v) ==
    /\ MustCopy(v) /\ op[v].new # NoFrame /\ op[v].from = pte[v][op[v].page].frame
    /\ GiveBack(op[v].new)
    /\ End(v)
    /\ UNCHANGED <<pte, refs, content, tlb, live, value>>

FaultEnd(v) ==
    /\ op[v].kind = "fault" /\ op[v].stage = "flush" /\ op[v].todo = {}
    /\ GiveBack(op[v].hold)
    /\ End(v)
    /\ UNCHANGED <<pte, refs, content, tlb, live, value>>
-----------------------------------------------------------------------------
(* Mutant: the other threads are not flushed. *)
Unmap_NoFlush(v, t, p) ==
    /\ Mapped(v, p)
    /\ Begin(v, t, [NoOp EXCEPT !.kind = "unmap", !.stage = "flush", !.page = p,
                                !.hold = pte[v][p].frame])
    /\ pte' = [pte EXCEPT ![v][p] = Unmapped]
    /\ tlb' = [tlb EXCEPT ![v][t][p] = Uncached]
    /\ UNCHANGED <<refs, free, content, live, value>>

(* munmap (release_user_leaf_range): unmap, flush, release. *)
Unmap(v, t, p) ==
    /\ Mapped(v, p)
    /\ Begin(v, t, [NoOp EXCEPT !.kind = "unmap", !.stage = "flush", !.page = p,
                                !.hold = pte[v][p].frame, !.todo = Threads[v] \ {t}])
    /\ pte' = [pte EXCEPT ![v][p] = Unmapped]
    /\ tlb' = [tlb EXCEPT ![v][t][p] = Uncached]
    /\ UNCHANGED <<refs, free, content, live, value>>

UnmapEnd(v) ==
    /\ op[v].kind = "unmap" /\ op[v].todo = {}
    /\ CowRelease(op[v].hold)
    /\ End(v)
    /\ UNCHANGED <<pte, content, tlb, live, value>>
-----------------------------------------------------------------------------
(* vmm_clone_pml4_impl. *)
Fork(v, t, w) ==
    /\ live[w] = "none"
    /\ Begin(v, t, [NoOp EXCEPT !.kind = "fork", !.stage = "share", !.child = w,
                                !.todo = {p \in Pages : Mapped(v, p)}])
    /\ live' = [live EXCEPT ![w] = "clone"]
    /\ UNCHANGED <<pte, refs, free, content, tlb, value>>

Sharing(v) == op[v].kind = "fork" /\ op[v].stage = "share"

(* Mutant: the entry of the parent stays writable. *)
ForkShare_ChildOnly(v, p) ==
    LET e == pte[v][p]
        c == IF e.write THEN [frame |-> e.frame, write |-> FALSE, cow |-> TRUE] ELSE e
    IN /\ Sharing(v) /\ p \in op[v].todo
       /\ RefShare(e.frame)
       /\ pte' = [pte EXCEPT ![op[v].child][p] = c]
       /\ op' = [op EXCEPT ![v] = [op[v] EXCEPT !.todo = @ \ {p}]]
       /\ UNCHANGED <<free, content, tlb, live, value>>

(* One page table: both entries lose the right to write. *)
ForkShare(v, p) ==
    LET e == pte[v][p]
        c == IF e.write THEN [frame |-> e.frame, write |-> FALSE, cow |-> TRUE] ELSE e
    IN /\ Sharing(v) /\ p \in op[v].todo
       /\ RefShare(e.frame)
       /\ pte' = [pte EXCEPT ![v][p] = c, ![op[v].child][p] = c]
       /\ op' = [op EXCEPT ![v] = [op[v] EXCEPT !.todo = @ \ {p}]]
       /\ UNCHANGED <<free, content, tlb, live, value>>

(* No memory for a table or for a count. *)
ForkFail(v) ==
    /\ Sharing(v) /\ op[v].todo # {}
    /\ op' = [op EXCEPT ![v] = [@ EXCEPT !.stage = "undo", !.todo = {}]]
    /\ UNCHANGED <<pte, refs, free, content, tlb, live, value>>

ForkFlush(v) ==
    /\ Sharing(v) /\ op[v].todo = {}
    /\ FlushThread(v, op[v].by)
    /\ op' = [op EXCEPT ![v] = [@ EXCEPT !.stage = "flush", !.todo = Threads[v] \ {op[v].by}]]
    /\ UNCHANGED <<pte, refs, free, content, live, value>>

ForkEnd(v) ==
    /\ op[v].kind = "fork" /\ op[v].stage = "flush" /\ op[v].todo = {}
    /\ live' = [live EXCEPT ![op[v].child] = "live"]
    /\ value' = [value EXCEPT ![op[v].child] = value[v]]
    /\ End(v)
    /\ UNCHANGED <<pte, refs, free, content, tlb>>

(* smp_tlb_flush_all_sync has failed. *)
ForkNotFlushed(v) ==
    /\ op[v].kind = "fork" /\ op[v].stage = "flush" /\ op[v].todo # {}
    /\ op' = [op EXCEPT ![v] = [@ EXCEPT !.stage = "undo", !.todo = {}]]
    /\ UNCHANGED <<pte, refs, free, content, tlb, live, value>>

(* cleanup_fail: the counts go back, the marks in the parent stay. *)
ForkUndo(v, p) ==
    LET w == op[v].child
    IN /\ op[v].kind = "fork" /\ op[v].stage = "undo" /\ Mapped(w, p)
       /\ CowRelease(pte[w][p].frame)
       /\ pte' = [pte EXCEPT ![w][p] = Unmapped]
       /\ UNCHANGED <<content, tlb, live, op, value>>

ForkUndone(v) ==
    /\ op[v].kind = "fork" /\ op[v].stage = "undo"
    /\ \A p \in Pages : ~Mapped(op[v].child, p)
    /\ live' = [live EXCEPT ![op[v].child] = "none"]
    /\ End(v)
    /\ UNCHANGED <<pte, refs, free, content, tlb, value>>
-----------------------------------------------------------------------------
(* The last task of an address space is gone (task_free_user_memory); no   *)
(* CPU has it loaded, and vmm_free_pml4 releases its pages.  The first     *)
(* process does not exit.                                                  *)
Exit(v) ==
    /\ v # First
    /\ live[v] = "live" /\ op[v].kind = "none"
    /\ live' = [live EXCEPT ![v] = "exit"]
    /\ tlb' = [tlb EXCEPT ![v] = [t \in Threads[v] |-> [p \in Pages |-> Uncached]]]
    /\ UNCHANGED <<pte, refs, free, content, op, value>>

ExitPage(v, p) ==
    /\ live[v] = "exit" /\ Mapped(v, p)
    /\ CowRelease(pte[v][p].frame)
    /\ pte' = [pte EXCEPT ![v][p] = Unmapped]
    /\ UNCHANGED <<content, tlb, live, op, value>>

Exited(v) ==
    /\ live[v] = "exit" /\ \A p \in Pages : ~Mapped(v, p)
    /\ live' = [live EXCEPT ![v] = "none"]
    /\ value' = [value EXCEPT ![v] = [p \in Pages |-> 0]]
    /\ UNCHANGED <<pte, refs, free, content, tlb, op>>

FaultStep(v) ==
    \/ FaultDone(v) \/ FaultInPlace(v) \/ FaultToCopy(v) \/ FaultCopy(v)
    \/ FaultNoFrame(v) \/ FaultCommit(v) \/ FaultUntracked(v) \/ FaultEnd(v)

ForkStep(v) ==
    \/ ForkFail(v) \/ ForkFlush(v) \/ ForkEnd(v) \/ ForkNotFlushed(v) \/ ForkUndone(v)
    \/ \E p \in Pages : ForkShare(v, p) \/ ForkUndo(v, p)

Next ==
    \E v \in VMs :
        \/ \E t \in Threads[v], p \in Pages :
             \/ Fill(v, t, p) \/ \E x \in Values : Write(v, t, p, x)
             \/ MapAnon(v, t, p) \/ Fault(v, t, p) \/ Unmap(v, t, p)
        \/ \E t \in Threads[v] : Flush(v, t) \/ \E w \in VMs : Fork(v, t, w)
        \/ FaultStep(v) \/ UnmapEnd(v) \/ ForkStep(v)
        \/ Exit(v) \/ Exited(v) \/ \E p \in Pages : ExitPage(v, p)

Spec == Init /\ [][Next]_vars
-----------------------------------------------------------------------------
(* Who owns a frame: the page table entries that map it, and operations    *)
(* that hold it without mapping it.                                        *)
Mappings(f) == {m \in VMs \X Pages : pte[m[1]][m[2]].frame = f}
Holders(f) == {v \in VMs : f \in {op[v].new, op[v].hold}}

(* The count of a shared frame is the number of its owners, and a frame is *)
(* free exactly when it has none: nothing is freed while somebody maps it, *)
(* and nothing leaks (pfa_ref_share, pfa_ref_dec, pfa_cow_release).        *)
RefExact ==
    \A f \in Frames :
        LET n == Cardinality(Mappings(f)) + Cardinality(Holders(f))
        IN /\ f \in free <=> n = 0
           /\ n >= 2 => refs[f] = n
           /\ n <= 1 => refs[f] <= n

(* What a page table entry maps is what the address space itself wrote or  *)
(* inherited: no copy is missed by fork, cow_handle_fault or a flush.      *)
PagesIsolated ==
    \A v \in VMs, p \in Pages :
        live[v] = "live" /\ Mapped(v, p) => content[pte[v][p].frame] = value[v][p]

(* And so is what a thread reaches through its TLB.  Exempt is the frame   *)
(* that a fault has just replaced: its count goes down before the flush,   *)
(* so until the flush ends another thread may read what the other owner    *)
(* writes there, but it can never write.                                   *)
CacheIsolated ==
    \A v \in VMs : \A t \in Threads[v], p \in Pages :
        LET e == tlb[v][t][p]
        IN /\ e.frame = NoFrame \/ e.frame = op[v].old
              \/ (e.frame \notin free /\ content[e.frame] = value[v][p])
           /\ e.write => e.frame # op[v].old
=============================================================================

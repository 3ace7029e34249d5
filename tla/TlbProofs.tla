------------------------------ MODULE TlbProofs ------------------------------
(***************************************************************************)
(* Proofs about the TLB shootdown and the demand-paged range of Tlb, for   *)
(* any sets of CPUs and frames, any number of pages, rounds and flushes.   *)
(*                                                                         *)
(* A CPU that has not reloaded since a flush began has acknowledged, or is *)
(* about to, only generations older than that flush (UnflushedUnanswered), *)
(* so a flush that finds all acknowledgements has had every CPU reload.    *)
(* What a CPU has cached of a page without its present bit belongs to the  *)
(* decommit that holds demand_lock, and the CPU is one that this decommit  *)
(* still has to flush (CachedCovered).                                     *)
(***************************************************************************)
EXTENDS Tlb, TLAPS

(* Most steps are first-order reasoning, which Zenon does; the steps that  *)
(* do arithmetic or compare functions name SMT.                            *)
USE Zenon

(* The labels of a decommit that has demand_lock, and of a flush. *)
Inside == {"gen", "req", "send", "wait", "back"}

(* demand_lock belongs to the decommit that is between its first section   *)
(* and its end.                                                            *)
LockExact ==
    \A c \in CPUs :
        /\ demand_lock = c <=> op[c] = "decommit" /\ at[c] \in Inside
        /\ at[c] \in Inside => op[c] \in {"decommit", "flush"}

(* No request, acknowledgement or flush is ahead of the last generation. *)
GenerationsBounded ==
    \A c \in CPUs :
        /\ tlb_request[c] <= generation /\ tlb_ack[c] <= generation
        /\ seen[c] <= generation /\ my_gen[c] <= generation

(* A flush has its generation from its first request on. *)
FlushRunning ==
    \A c \in CPUs :
        /\ at[c] \in {"req", "send", "wait"} => my_gen[c] > 0
        /\ at[c] \in {"run", "off", "lock", "gen"} => my_gen[c] = 0

(* A CPU that has not reloaded since the flush of c began has not          *)
(* acknowledged it, and a running smp_tlb_flush_ack of that CPU will not.  *)
UnflushedUnanswered ==
    \A c \in CPUs : \A d \in unflushed[c] :
        /\ d # c /\ tlb_ack[d] < my_gen[c]
        /\ hand[d] = "store" => seen[d] < my_gen[c]

(* While a decommit holds demand_lock the committed pages of its range,    *)
(* and no others, have lost their present bits; one that needs no flush    *)
(* has no such page.                                                       *)
PresentExact ==
    \A c \in CPUs : demand_lock = c =>
        /\ \A p \in Pages : pte[p].present <=> committed[p] /\ ~InRange(c, p)
        /\ at[c] = "back" /\ my_gen[c] = 0 =>
             \A p \in Pages : InRange(c, p) => ~committed[p]

(* A cached translation is that of its page, and if the page is not        *)
(* present the decommit that cleared the bit has still to flush the CPU.   *)
CachedCovered ==
    \A d \in CPUs, p \in Pages : tlb[d][p] # NoFrame =>
        /\ tlb[d][p] = pte[p].frame
        /\ \/ pte[p].present
           \/ /\ demand_lock \in CPUs \ {d}
              /\ at[demand_lock] = "gen" \/ d \in unflushed[demand_lock]

Flushes == GenerationsBounded /\ FlushRunning /\ UnflushedUnanswered /\ FlushedAll
Memory == PresentExact /\ CachedCovered /\ FramesAccounted
IInv == TypeOK /\ LockExact /\ Flushes /\ Memory

(* The entry of a page. *)
Entries == [frame : Frames \cup {NoFrame}, present : BOOLEAN]

USE NoCPUAssumption, NoFrameAssumption, BoundsAssumption
USE DEF memVars, ipcVars, ackVars, opVars, syncVars

-----------------------------------------------------------------------------
(* The initial state *)

LEMMA InitIInv == Init => IInv
<1> SUFFICES ASSUME Init PROVE IInv
  OBVIOUS
<1>1. TypeOK
  BY SMT DEF Init, TypeOK, Nothing, Pages
<1>2. LockExact
  BY DEF Init, LockExact, Inside
<1>3. Flushes
  BY SMT DEF Init, Flushes, GenerationsBounded, FlushRunning, UnflushedUnanswered,
         FlushedAll
<1>4. Memory
  BY DEF Init, Memory, PresentExact, CachedCovered, FramesAccounted, Nothing
<1> QED
  BY <1>1, <1>2, <1>3, <1>4 DEF IInv

-----------------------------------------------------------------------------
(* Answering a flush *)

(* Only a present entry is cached. *)
LEMMA FillKept ==
    ASSUME IInv, NEW c \in CPUs, NEW p \in Pages, Fill(c, p)
    PROVE  IInv'
<1>1. TypeOK'
  BY DEF IInv, TypeOK, Fill
<1>2. LockExact'
  BY DEF IInv, TypeOK, LockExact, Inside, Fill
<1>3. Flushes'
  BY DEF IInv, TypeOK, Flushes, GenerationsBounded, FlushRunning,
         UnflushedUnanswered, FlushedAll, Fill
<1>4. Memory'
  BY SMT DEF IInv, TypeOK, LockExact, Inside, Flushes, FlushRunning, Memory,
         PresentExact, InRange, CachedCovered, FramesAccounted, Fill
<1> QED
  BY <1>1, <1>2, <1>3, <1>4 DEF IInv

(* All three ways into smp_tlb_flush_ack only load tlb_request, which is   *)
(* at most the newest generation.                                          *)
LEMMA AckBeginKept ==
    ASSUME IInv, NEW c \in CPUs, AckBegin(c), ipi' \in [CPUs -> BOOLEAN]
    PROVE  IInv'
<1>1. TypeOK'
  BY DEF IInv, TypeOK, AckBegin
<1>2. LockExact'
  BY DEF IInv, LockExact, Inside, AckBegin
<1>3. Flushes'
  BY DEF IInv, TypeOK, Flushes, GenerationsBounded, FlushRunning,
         UnflushedUnanswered, FlushedAll, AckBegin
<1>4. Memory'
  BY SMT DEF IInv, Memory, PresentExact, InRange, CachedCovered, FramesAccounted, AckBegin
<1> QED
  BY <1>1, <1>2, <1>3, <1>4 DEF IInv

(* The CPU leaves every unflushed set, and its TLB is empty. *)
LEMMA AckReloadKept ==
    ASSUME IInv, NEW c \in CPUs, AckReload(c)
    PROVE  IInv'
<1>1. TypeOK'
  BY DEF IInv, TypeOK, AckReload
<1>2. LockExact'
  BY DEF IInv, TypeOK, LockExact, Inside, AckReload
<1>3. Flushes'
  BY DEF IInv, TypeOK, Flushes, GenerationsBounded, FlushRunning,
         UnflushedUnanswered, FlushedAll, AckReload
<1>4. Memory'
  BY SMT DEF IInv, TypeOK, LockExact, Inside, Flushes, FlushRunning, Memory,
         PresentExact, InRange, CachedCovered, FramesAccounted, AckReload
<1> QED
  BY <1>1, <1>2, <1>3, <1>4 DEF IInv

(* What is acknowledged was requested before the reload: a CPU that some   *)
(* flush still has in its unflushed set read an older request.             *)
LEMMA AckStoreKept ==
    ASSUME IInv, NEW c \in CPUs, AckStore(c)
    PROVE  IInv'
<1>1. TypeOK'
  BY DEF IInv, TypeOK, AckStore
<1>2. LockExact'
  BY DEF IInv, TypeOK, LockExact, Inside, AckStore
<1>3. Flushes'
  BY SMT DEF IInv, TypeOK, Flushes, GenerationsBounded, FlushRunning,
         UnflushedUnanswered, FlushedAll, AckStore
<1>4. Memory'
  BY SMT DEF IInv, TypeOK, LockExact, Inside, Flushes, FlushRunning, Memory,
         PresentExact, InRange, CachedCovered, FramesAccounted, AckStore
<1> QED
  BY <1>1, <1>2, <1>3, <1>4 DEF IInv

-----------------------------------------------------------------------------
(* The demand-paged range *)

LEMMA DisableInterruptsKept ==
    ASSUME IInv, NEW c \in CPUs, DisableInterrupts(c)
    PROVE  IInv'
<1>1. TypeOK'
  BY DEF IInv, TypeOK, DisableInterrupts
<1>2. LockExact'
  BY DEF IInv, TypeOK, LockExact, Inside, DisableInterrupts
<1>3. Flushes'
  BY DEF IInv, TypeOK, Flushes, GenerationsBounded, FlushRunning,
         UnflushedUnanswered, FlushedAll, DisableInterrupts
<1>4. Memory'
  BY SMT DEF IInv, TypeOK, LockExact, Inside, Flushes, FlushRunning, Memory,
         PresentExact, InRange, CachedCovered, FramesAccounted, DisableInterrupts
<1> QED
  BY <1>1, <1>2, <1>3, <1>4 DEF IInv

LEMMA EnableInterruptsKept ==
    ASSUME IInv, NEW c \in CPUs, EnableInterrupts(c)
    PROVE  IInv'
<1>1. TypeOK'
  BY DEF IInv, TypeOK, EnableInterrupts
<1>2. LockExact'
  BY DEF IInv, TypeOK, LockExact, Inside, EnableInterrupts
<1>3. Flushes'
  BY DEF IInv, TypeOK, Flushes, GenerationsBounded, FlushRunning,
         UnflushedUnanswered, FlushedAll, EnableInterrupts
<1>4. Memory'
  BY SMT DEF IInv, TypeOK, LockExact, Inside, Flushes, FlushRunning, Memory,
         PresentExact, InRange, CachedCovered, FramesAccounted, EnableInterrupts
<1> QED
  BY <1>1, <1>2, <1>3, <1>4 DEF IInv

(* reserved_end only grows. *)
LEMMA ReserveKept ==
    ASSUME IInv, NEW c \in CPUs, NEW first \in 0 .. MaxPages, NEW last \in 0 .. MaxPages,
           Reserve(c, first, last)
    PROVE  IInv'
<1>1. TypeOK'
  BY DEF IInv, TypeOK, Reserve
<1>2. LockExact'
  BY DEF IInv, LockExact, Inside, Reserve
<1>3. Flushes'
  BY DEF IInv, Flushes, GenerationsBounded, FlushRunning, UnflushedUnanswered,
         FlushedAll, Reserve
<1>4. \A p \in Pages : committed[p] => p < reserved_end'
  BY SMT DEF IInv, TypeOK, Memory, FramesAccounted, Reserve, Pages
<1>5. Memory'
  BY <1>4, SMT DEF IInv, Memory, PresentExact, InRange, CachedCovered, FramesAccounted,
         Reserve
<1> QED
  BY <1>1, <1>2, <1>3, <1>5 DEF IInv

(* The caller does not hold demand_lock, so its range is nobody's. *)
LEMMA LockCallKept ==
    ASSUME IInv, NEW c \in CPUs, NEW what \in {"commit", "decommit"},
           NEW first \in 0 .. MaxPages, NEW last \in 0 .. MaxPages,
           LockCall(c, what, first, last)
    PROVE  IInv'
<1>1. TypeOK'
  BY DEF IInv, TypeOK, LockCall
<1>2. LockExact'
  BY DEF IInv, TypeOK, LockExact, Inside, LockCall, Idle
<1>3. Flushes'
  BY DEF IInv, TypeOK, Flushes, GenerationsBounded, FlushRunning,
         UnflushedUnanswered, FlushedAll, LockCall, Idle
<1>4. demand_lock # c
  BY DEF IInv, LockExact, Inside, LockCall, Idle
<1>5. \A d \in CPUs \ {c} : range'[d] = range[d] /\ at'[d] = at[d]
  BY DEF IInv, TypeOK, LockCall
<1>6. PresentExact'
  BY <1>4, <1>5 DEF IInv, Memory, PresentExact, InRange, LockCall
<1>7. CachedCovered' /\ FramesAccounted'
  BY <1>4, <1>5, SMT DEF IInv, Memory, CachedCovered, FramesAccounted, LockCall
<1> QED
  BY <1>1, <1>2, <1>3, <1>6, <1>7 DEF IInv, Memory

(* The page had no frame, so no CPU has it cached. *)
LEMMA CommitKept ==
    ASSUME IInv, NEW c \in CPUs, Commit(c)
    PROVE  IInv'
<1> DEFINE p == range[c].first
<1>1. LockExact'
  BY DEF IInv, TypeOK, LockExact, Inside, Commit, Return
<1>2. Flushes'
  BY DEF IInv, TypeOK, Flushes, GenerationsBounded, FlushRunning,
         UnflushedUnanswered, FlushedAll, Commit, Return
<1>3. /\ at' \in [CPUs -> {"run", "off", "lock", "gen", "req", "send", "wait", "back"}]
      /\ op' \in [CPUs -> {"none", "commit", "decommit", "flush"}]
      /\ iflag' \in [CPUs -> BOOLEAN]
      /\ range' \in [CPUs -> [first : 0 .. MaxPages, last : 0 .. MaxPages]]
  BY SMT DEF IInv, TypeOK, Commit, Return
<1>4. demand_lock = NoCPU /\ demand_lock' = NoCPU /\ unflushed' = unflushed
  BY DEF Commit
<1>5. CASE UNCHANGED <<free, pte, tlb, committed>>
  <2>1. TypeOK'
    BY <1>3, <1>5 DEF IInv, TypeOK, Commit
  <2>2. Memory'
    BY <1>4, <1>5, SMT DEF IInv, Memory, PresentExact, CachedCovered, FramesAccounted,
           Commit
  <2> QED
    BY <1>1, <1>2, <2>1, <2>2 DEF IInv
<1>6. CASE p < reserved_end /\ ~committed[p] /\ free # {}
  <2>1. p \in Pages
    BY <1>6, SMT DEF IInv, TypeOK, Pages
  <2>2. PICK f \in free : /\ free' = free \ {f}
                          /\ pte' = [pte EXCEPT ![p] = [frame |-> f, present |-> TRUE]]
    BY <1>6 DEF Commit
  <2>3. /\ tlb' = [tlb EXCEPT ![c][p] = NoFrame]
        /\ committed' = [committed EXCEPT ![p] = TRUE]
        /\ reserved_end' = reserved_end
    BY <1>6 DEF Commit
  <2>4. f \in Frames
    BY DEF IInv, TypeOK
  <2>5. TypeOK'
    <3>1. pte' \in [Pages -> [frame : Frames \cup {NoFrame}, present : BOOLEAN]]
      BY <2>1, <2>2, <2>4 DEF IInv, TypeOK
    <3>2. tlb' \in [CPUs -> [Pages -> Frames \cup {NoFrame}]]
      BY <2>1, <2>3 DEF IInv, TypeOK
    <3> QED
      BY <1>3, <2>1, <2>2, <2>3, <3>1, <3>2 DEF IInv, TypeOK, Commit
  <2>6. pte[p].frame = NoFrame /\ \A d \in CPUs : tlb[d][p] = NoFrame
    BY <1>6, <2>1, SMT DEF IInv, Memory, FramesAccounted, CachedCovered
  <2>7. CachedCovered'
    BY <1>4, <2>1, <2>2, <2>3, <2>6, SMT DEF IInv, TypeOK, Memory, CachedCovered
  <2>8. FramesAccounted'
    <3>1. /\ \A q \in Pages : q # p => pte'[q] = pte[q] /\ committed'[q] = committed[q]
          /\ pte'[p].frame = f /\ pte'[p].present = TRUE /\ committed'[p] = TRUE
      BY <2>1, <2>2, <2>3 DEF IInv, TypeOK
    <3>2. f # NoFrame /\ \A q \in Pages : pte[q].frame # f
      BY <2>4 DEF IInv, Memory, FramesAccounted
    <3>3. \A x : x \in free' <=> x \in Frames /\ \A q \in Pages : x # pte'[q].frame
      BY <2>1, <2>2, <2>6, <3>1, SMT DEF IInv, Memory, FramesAccounted
    <3>4. free' = Frames \ {pte'[q].frame : q \in Pages}
      BY <3>3, SMT
    <3>5. /\ \A q \in Pages : committed'[q] <=> pte'[q].frame # NoFrame
          /\ \A q, r \in Pages : q # r /\ committed'[q] => pte'[q].frame # pte'[r].frame
      BY <2>1, <3>1, <3>2, SMT DEF IInv, Memory, FramesAccounted
    <3>6. \A q \in Pages : pte'[q].present = committed'[q]
      BY <1>4, <3>1 DEF IInv, Memory, FramesAccounted
    <3>7. \A q \in Pages : committed'[q] => q < reserved_end'
      BY <1>6, <2>3, <3>1 DEF IInv, Memory, FramesAccounted
    <3> QED
      BY <3>4, <3>5, <3>6, <3>7 DEF FramesAccounted
  <2>9. PresentExact'
    BY <1>4 DEF PresentExact
  <2> QED
    BY <1>1, <1>2, <2>5, <2>7, <2>8, <2>9 DEF IInv, Memory
<1> QED
  BY <1>5, <1>6 DEF Commit

(* An entry whose present bit is set or cleared keeps its frame. *)
LEMMA EntryMarked ==
    ASSUME NEW r \in Entries, NEW b \in BOOLEAN
    PROVE  /\ [r EXCEPT !.present = b] \in Entries
           /\ [r EXCEPT !.present = b].frame = r.frame
           /\ [r EXCEPT !.present = b].present = b
BY DEF Entries

(* The pages that lose their present bits are cached by other CPUs at      *)
(* most; if there were none, nothing in the range is committed.            *)
LEMMA StageKept ==
    ASSUME IInv, NEW c \in CPUs, Stage(c)
    PROVE  IInv'
<1>1. /\ demand_lock = NoCPU /\ at[c] = "lock"
      /\ \A p \in Pages : pte[p].present = committed[p]
  BY DEF Stage, IInv, Memory, FramesAccounted
<1>2. ASSUME NEW p \in Pages
      PROVE  /\ pte'[p].frame = pte[p].frame
             /\ pte'[p].present <=> committed[p] /\ ~InRange(c, p)
             /\ pte'[p] \in Entries
  <2>1. pte[p] \in Entries
    BY DEF IInv, TypeOK, Entries
  <2>2. pte'[p] = IF InRange(c, p) /\ committed[p]
                  THEN [pte[p] EXCEPT !.present = FALSE] ELSE pte[p]
    BY DEF Stage
  <2> QED
    BY <1>1, <2>1, <2>2, EntryMarked
<1>3. pte' \in [Pages -> Entries] /\ tlb' \in [CPUs -> [Pages -> Frames \cup {NoFrame}]]
  <2>1. pte' = [p \in Pages |-> pte'[p]]
    BY DEF Stage
  <2>2. pte' \in [Pages -> Entries]
    BY <1>2, <2>1
  <2>3. [p \in Pages |-> IF InRange(c, p) /\ committed[p] THEN NoFrame ELSE tlb[c][p]]
          \in [Pages -> Frames \cup {NoFrame}]
    BY SMT DEF IInv, TypeOK
  <2> QED
    BY <2>2, <2>3 DEF IInv, TypeOK, Stage
<1>4. /\ demand_lock' = c /\ committed' = committed /\ free' = free
      /\ reserved_end' = reserved_end /\ range' = range /\ unflushed' = unflushed
      /\ my_gen' = my_gen /\ at'[c] \in {"gen", "back"}
      /\ \A d \in CPUs \ {c} : at'[d] = at[d] /\ tlb'[d] = tlb[d]
      /\ \A p \in Pages :
           tlb'[c][p] = IF InRange(c, p) /\ committed[p] THEN NoFrame ELSE tlb[c][p]
      /\ at'[c] = "back" => \A p \in Pages : ~(InRange(c, p) /\ committed[p])
  BY <1>1 DEF IInv, TypeOK, Stage
<1>5. TypeOK'
  BY <1>3 DEF IInv, TypeOK, Stage, Entries
<1>6. LockExact'
  BY DEF IInv, TypeOK, LockExact, Inside, Stage
<1>7. Flushes'
  BY SMT DEF IInv, TypeOK, Flushes, GenerationsBounded, FlushRunning,
         UnflushedUnanswered, FlushedAll, Stage
<1>8. PresentExact'
  BY <1>1, <1>2, <1>4 DEF PresentExact, InRange
<1>9. CachedCovered'
  BY <1>1, <1>2, <1>4, SMT DEF IInv, Memory, CachedCovered
<1>10. FramesAccounted'
  BY <1>2, <1>4, SMT DEF IInv, Memory, FramesAccounted
<1> QED
  BY <1>5, <1>6, <1>7, <1>8, <1>9, <1>10 DEF IInv, Memory

(* After a failed flush the present bits come back and cover what is       *)
(* cached. After one that succeeded nobody is unflushed, so nothing is     *)
(* cached of the pages whose frames are freed.                             *)
LEMMA FinishKept ==
    ASSUME IInv, NEW c \in CPUs, Finish(c)
    PROVE  IInv'
<1> DEFINE gone(p) == InRange(c, p) /\ committed[p]
<1>1. /\ at[c] = "back" /\ op[c] = "decommit" /\ demand_lock = c
      /\ \A p \in Pages : pte[p].present <=> committed[p] /\ ~InRange(c, p)
      /\ my_gen[c] = 0 => \A p \in Pages : ~gone(p)
  BY DEF Finish, IInv, LockExact, Inside, Memory, PresentExact
<1>2. /\ demand_lock' = NoCPU /\ tlb' = tlb
      /\ my_gen' = [my_gen EXCEPT ![c] = 0]
      /\ unflushed' = [unflushed EXCEPT ![c] = {}]
  BY DEF Finish
<1>3. LockExact'
  BY <1>1, <1>2, SMT DEF IInv, TypeOK, LockExact, Inside, Finish, Return
<1>4. Flushes'
  BY <1>1, <1>2, SMT DEF IInv, TypeOK, Flushes, GenerationsBounded, FlushRunning,
         UnflushedUnanswered, FlushedAll, Finish, Return
<1>5. PresentExact'
  BY <1>2 DEF PresentExact
<1>6. /\ at' \in [CPUs -> {"run", "off", "lock", "gen", "req", "send", "wait", "back"}]
      /\ op' \in [CPUs -> {"none", "commit", "decommit", "flush"}]
      /\ iflag' \in [CPUs -> BOOLEAN]
      /\ range' \in [CPUs -> [first : 0 .. MaxPages, last : 0 .. MaxPages]]
      /\ my_gen' \in [CPUs -> Nat] /\ result' \in [CPUs -> {0, -1}]
      /\ unflushed' \in [CPUs -> SUBSET CPUs]
  BY SMT DEF IInv, TypeOK, Finish, Return
<1>7. CASE result[c] < 0
  <2>1. /\ pte' = [p \in Pages |-> IF gone(p) THEN [pte[p] EXCEPT !.present = TRUE]
                                  ELSE pte[p]]
        /\ committed' = committed /\ free' = free /\ reserved_end' = reserved_end
    BY <1>7 DEF Finish
  <2>2. ASSUME NEW p \in Pages
        PROVE  /\ pte'[p].frame = pte[p].frame
               /\ pte'[p].present <=> committed[p]
               /\ pte'[p] \in Entries
    <3>1. pte[p] \in Entries
      BY DEF IInv, TypeOK, Entries
    <3>2. pte'[p] = IF gone(p) THEN [pte[p] EXCEPT !.present = TRUE] ELSE pte[p]
      BY <2>1
    <3> QED
      BY <1>1, <3>1, <3>2, EntryMarked
  <2>3. TypeOK'
    <3>1. pte' = [p \in Pages |-> pte'[p]]
      BY <2>1
    <3>2. pte' \in [Pages -> Entries]
      BY <2>2, <3>1
    <3> QED
      BY <1>6, <2>1, <3>2 DEF IInv, TypeOK, Finish, Entries
  <2>4. FramesAccounted'
    <3>1. \A p \in Pages : pte'[p].present = committed[p]
      BY <2>2 DEF IInv, TypeOK, Entries
    <3>2. {pte'[p].frame : p \in Pages} = {pte[p].frame : p \in Pages}
      BY <2>2
    <3>3. free' = Frames \ {pte'[p].frame : p \in Pages}
      BY <2>1, <3>2 DEF IInv, Memory, FramesAccounted
    <3>4. /\ \A p \in Pages : committed'[p] <=> pte'[p].frame # NoFrame
          /\ \A p, q \in Pages : p # q /\ committed'[p] => pte'[p].frame # pte'[q].frame
          /\ \A p \in Pages : committed'[p] => p < reserved_end'
      BY <2>1, <2>2, SMT DEF IInv, Memory, FramesAccounted
    <3> QED
      BY <2>1, <3>1, <3>3, <3>4 DEF FramesAccounted
  <2>5. CachedCovered'
    <3>1. \A d \in CPUs, p \in Pages : tlb[d][p] # NoFrame => tlb[d][p] = pte[p].frame /\ committed[p]
      BY DEF IInv, Memory, CachedCovered, FramesAccounted
    <3> QED
      BY <1>2, <2>2, <3>1 DEF CachedCovered
  <2> QED
    BY <1>3, <1>4, <1>5, <2>3, <2>4, <2>5 DEF IInv, Memory
<1>8. CASE ~(result[c] < 0)
  <2>1. /\ pte' = [p \in Pages |-> IF gone(p) THEN Nothing ELSE pte[p]]
        /\ committed' = [p \in Pages |-> committed[p] /\ ~gone(p)]
        /\ free' = free \cup {pte[p].frame : p \in {q \in Pages : gone(q)}}
        /\ reserved_end' = IF range[c].last = reserved_end
                           THEN range[c].first ELSE reserved_end
    BY <1>8 DEF Finish
  <2>2. unflushed[c] = {}
    <3>1. result[c] = 0
      BY <1>8, SMT DEF IInv, TypeOK
    <3>2. CASE my_gen[c] = 0
      BY <3>2, SMT DEF IInv, TypeOK, Flushes, UnflushedUnanswered
    <3>3. CASE my_gen[c] > 0
      BY <1>1, <3>1, <3>3 DEF IInv, Flushes, FlushedAll
    <3> QED
      BY <3>2, <3>3, SMT DEF IInv, TypeOK
  <2>3. \A d \in CPUs, p \in Pages : tlb[d][p] # NoFrame => pte[p].present /\ ~gone(p)
    BY <1>1, <2>2 DEF IInv, Memory, CachedCovered
  <2>4. TypeOK'
    <3>1. /\ pte' \in [Pages -> [frame : Frames \cup {NoFrame}, present : BOOLEAN]]
          /\ committed' \in [Pages -> BOOLEAN]
      BY <2>1 DEF IInv, TypeOK, Nothing
    <3>2. free' \subseteq Frames
      BY <2>1, SMT DEF IInv, TypeOK, Memory, FramesAccounted
    <3>3. reserved_end' \in 0 .. MaxPages
      BY <2>1 DEF IInv, TypeOK
    <3> QED
      BY <1>2, <1>6, <3>1, <3>2, <3>3 DEF IInv, TypeOK, Finish
  <2>5. CachedCovered'
    BY <1>2, <2>1, <2>3 DEF IInv, TypeOK, Memory, CachedCovered
  <2>6. FramesAccounted'
    <3>1. FramesAccounted
      BY DEF IInv, Memory
    <3>2. \A p \in Pages : /\ gone(p) => pte'[p].frame = NoFrame /\ ~pte'[p].present
                           /\ ~gone(p) => pte'[p] = pte[p]
                           /\ committed'[p] <=> committed[p] /\ ~gone(p)
      BY <2>1 DEF Nothing
    <3>3. \A p \in Pages : pte'[p].present = committed'[p]
      BY <1>1, <2>1, <3>2 DEF IInv, TypeOK, Nothing
    <3>4. free' = Frames \ {pte'[p].frame : p \in Pages}
      <4>1. \A p \in Pages : gone(p) =>
              /\ pte[p].frame \in Frames
              /\ \A q \in Pages : pte'[q].frame # pte[p].frame
        BY <3>1, <3>2, SMT DEF IInv, TypeOK, FramesAccounted
      <4>2. \A x \in free : x \in Frames /\ \A q \in Pages : pte'[q].frame # x
        <5>1. \A x \in free : x \in Frames /\ \A q \in Pages : pte[q].frame # x
          BY <3>1 DEF FramesAccounted
        <5> QED
          BY <3>2, <5>1, NoFrameAssumption
      <4>3. \A x \in Frames : (\A q \in Pages : pte'[q].frame # x) =>
              x \in free \/ \E p \in Pages : gone(p) /\ x = pte[p].frame
        BY <3>1, <3>2, SMT DEF FramesAccounted
      <4> QED
        BY <2>1, <4>1, <4>2, <4>3, SMT
    <3>5. \A p \in Pages : committed'[p] => p < reserved_end'
      BY <2>1, <3>2, SMT DEF IInv, TypeOK, Memory, FramesAccounted, InRange, Pages
    <3>6. /\ \A p \in Pages : committed'[p] <=> pte'[p].frame # NoFrame
          /\ \A p, q \in Pages : p # q /\ committed'[p] => pte'[p].frame # pte'[q].frame
      BY <3>1, <3>2, SMT DEF FramesAccounted
    <3> QED
      BY <1>2, <3>3, <3>4, <3>5, <3>6 DEF FramesAccounted
  <2> QED
    BY <1>3, <1>4, <1>5, <2>4, <2>5, <2>6 DEF IInv, Memory
<1> QED
  BY <1>7, <1>8

-----------------------------------------------------------------------------
(* smp_tlb_flush_all_sync *)

LEMMA FlushCallKept ==
    ASSUME IInv, NEW c \in CPUs, FlushCall(c)
    PROVE  IInv'
<1>1. TypeOK'
  BY DEF IInv, TypeOK, FlushCall, Idle
<1>2. LockExact'
  BY DEF IInv, TypeOK, LockExact, Inside, FlushCall, Idle
<1>3. Flushes'
  BY DEF IInv, TypeOK, Flushes, GenerationsBounded, FlushRunning,
         UnflushedUnanswered, FlushedAll, FlushCall, Idle
<1>4. Memory'
  BY SMT DEF IInv, TypeOK, LockExact, Inside, Flushes, FlushRunning, Memory,
         PresentExact, InRange, CachedCovered, FramesAccounted, FlushCall, Idle
<1> QED
  BY <1>1, <1>2, <1>3, <1>4 DEF IInv

LEMMA FlushReturnKept ==
    ASSUME IInv, NEW c \in CPUs, FlushReturn(c)
    PROVE  IInv'
<1>1. TypeOK'
  BY SMT DEF IInv, TypeOK, FlushReturn, Return
<1>2. LockExact'
  BY DEF IInv, TypeOK, LockExact, Inside, FlushReturn, Return
<1>3. Flushes'
  BY SMT DEF IInv, TypeOK, Flushes, GenerationsBounded, FlushRunning,
         UnflushedUnanswered, FlushedAll, FlushReturn, Return
<1>4. Memory'
  BY SMT DEF IInv, TypeOK, LockExact, Inside, Flushes, FlushRunning, Memory,
         PresentExact, InRange, CachedCovered, FramesAccounted, FlushReturn, Return
<1> QED
  BY <1>1, <1>2, <1>3, <1>4 DEF IInv

(* Every acknowledgement and every request read so far is older than the   *)
(* new generation.                                                         *)
LEMMA NewGenerationKept ==
    ASSUME IInv, NEW c \in CPUs, NewGeneration(c)
    PROVE  IInv'
<1>1. TypeOK'
  BY SMT DEF IInv, TypeOK, NewGeneration
<1>2. LockExact'
  BY DEF IInv, TypeOK, LockExact, Inside, NewGeneration
<1>3. Flushes'
  BY SMT DEF IInv, TypeOK, Flushes, GenerationsBounded, FlushRunning,
         UnflushedUnanswered, FlushedAll, NewGeneration
<1>4. Memory'
  BY SMT DEF IInv, TypeOK, LockExact, Inside, Flushes, FlushRunning, Memory,
         PresentExact, InRange, CachedCovered, FramesAccounted, NewGeneration
<1> QED
  BY <1>1, <1>2, <1>3, <1>4 DEF IInv

LEMMA RequestKept ==
    ASSUME IInv, NEW c \in CPUs, NEW d \in CPUs, Request(c, d)
    PROVE  IInv'
<1>1. TypeOK'
  BY DEF IInv, TypeOK, Request
<1>2. LockExact'
  BY DEF IInv, TypeOK, LockExact, Inside, Request
<1>3. Flushes'
  BY DEF IInv, TypeOK, Flushes, GenerationsBounded, FlushRunning,
         UnflushedUnanswered, FlushedAll, Request
<1>4. Memory'
  BY SMT DEF IInv, TypeOK, LockExact, Inside, Flushes, FlushRunning, Memory,
         PresentExact, InRange, CachedCovered, FramesAccounted, Request
<1> QED
  BY <1>1, <1>2, <1>3, <1>4 DEF IInv

LEMMA SendKept ==
    ASSUME IInv, NEW c \in CPUs, Send(c)
    PROVE  IInv'
<1>1. TypeOK'
  BY SMT DEF IInv, TypeOK, Send, SendMissing
<1>2. LockExact'
  BY DEF IInv, TypeOK, LockExact, Inside, Send, SendMissing
<1>3. Flushes'
  BY DEF IInv, TypeOK, Flushes, GenerationsBounded, FlushRunning,
         UnflushedUnanswered, FlushedAll, Send, SendMissing
<1>4. Memory'
  BY SMT DEF IInv, TypeOK, LockExact, Inside, Flushes, FlushRunning, Memory,
         PresentExact, InRange, CachedCovered, FramesAccounted, Send, SendMissing
<1> QED
  BY <1>1, <1>2, <1>3, <1>4 DEF IInv

(* A CPU in unflushed has not acknowledged my_gen, so it would be missing. *)
LEMMA CompleteKept ==
    ASSUME IInv, NEW c \in CPUs, Complete(c)
    PROVE  IInv'
<1>1. TypeOK'
  BY SMT DEF IInv, TypeOK, Complete, Missing
<1>2. LockExact'
  BY DEF IInv, TypeOK, LockExact, Inside, Complete, Missing
<1>3. Flushes'
  BY SMT DEF IInv, TypeOK, Flushes, GenerationsBounded, FlushRunning,
         UnflushedUnanswered, FlushedAll, Complete, Missing
<1>4. Memory'
  BY SMT DEF IInv, TypeOK, LockExact, Inside, Flushes, FlushRunning, Memory,
         PresentExact, InRange, CachedCovered, FramesAccounted, Complete, Missing
<1> QED
  BY <1>1, <1>2, <1>3, <1>4 DEF IInv

(* The last round gives -1 and leaves unflushed as it is. *)
LEMMA RoundOverKept ==
    ASSUME IInv, NEW c \in CPUs, RoundOver(c)
    PROVE  IInv'
<1>1. ipi' \in [CPUs -> BOOLEAN]
  BY SMT DEF IInv, TypeOK, RoundOver, SendMissing
<1>2. CASE round[c] + 1 < Rounds
  <2>1. round' = [round EXCEPT ![c] = @ + 1] /\ at' = at /\ result' = result
    BY <1>2 DEF RoundOver
  <2>2. round' \in [CPUs -> 0 .. Rounds]
    BY <1>2, <2>1, SMT DEF IInv, TypeOK
  <2>3. TypeOK'
    BY <1>1, <2>1, <2>2 DEF IInv, TypeOK, RoundOver
  <2>4. LockExact'
    BY <2>1 DEF IInv, LockExact, RoundOver
  <2>5. Flushes'
    BY <2>1 DEF IInv, Flushes, GenerationsBounded, FlushRunning,
           UnflushedUnanswered, FlushedAll, RoundOver
  <2>6. Memory'
    BY <2>1, SMT DEF IInv, Memory, PresentExact, InRange, CachedCovered,
           FramesAccounted, RoundOver
  <2> QED
    BY <2>3, <2>4, <2>5, <2>6 DEF IInv
<1>3. CASE ~(round[c] + 1 < Rounds)
  <2>1. /\ round' = [round EXCEPT ![c] = 0] /\ at[c] = "wait"
        /\ at' = [at EXCEPT ![c] = "back"] /\ result' = [result EXCEPT ![c] = -1]
    BY <1>3 DEF RoundOver
  <2>2. TypeOK'
    BY <1>1, <2>1, SMT DEF IInv, TypeOK, RoundOver
  <2>3. LockExact'
    BY <2>1 DEF IInv, TypeOK, LockExact, Inside, RoundOver
  <2>4. Flushes'
    BY <2>1, SMT DEF IInv, TypeOK, Flushes, GenerationsBounded, FlushRunning,
           UnflushedUnanswered, FlushedAll, RoundOver
  <2>5. Memory'
    BY <2>1, SMT DEF IInv, TypeOK, Flushes, FlushRunning, Memory, PresentExact, InRange,
           CachedCovered, FramesAccounted, RoundOver
  <2> QED
    BY <2>2, <2>3, <2>4, <2>5 DEF IInv
<1> QED
  BY <1>2, <1>3

-----------------------------------------------------------------------------
(* The theorems *)

LEMMA NextIInv == IInv /\ [Next]_vars => IInv'
<1> SUFFICES ASSUME IInv, [Next]_vars PROVE IInv'
  OBVIOUS
<1>1. CASE UNCHANGED vars
  <2>1. TypeOK'
    BY <1>1 DEF IInv, TypeOK, vars
  <2>2. LockExact'
    BY <1>1 DEF IInv, LockExact, vars
  <2>3. Flushes'
    BY <1>1 DEF IInv, Flushes, GenerationsBounded, FlushRunning,
           UnflushedUnanswered, FlushedAll, vars
  <2>4. Memory'
    BY <1>1, SMT DEF IInv, Memory, PresentExact, InRange, CachedCovered,
           FramesAccounted, vars
  <2> QED
    BY <2>1, <2>2, <2>3, <2>4 DEF IInv
<1>2. CASE Next
  <2>1. PICK c \in CPUs :
          \/ \E p \in Pages : Fill(c, p) \/ CommitCall(c, p)
          \/ Ack(c) \/ OtherInterrupt(c)
          \/ DisableInterrupts(c) \/ EnableInterrupts(c)
          \/ \E first, last \in 0 .. MaxPages :
               Reserve(c, first, last) \/ DecommitCall(c, first, last)
          \/ Commit(c) \/ Stage(c) \/ Finish(c)
          \/ FlushCall(c) \/ FlushReturn(c)
          \/ Sync(c) \/ RoundOver(c)
    BY <1>2 DEF Next
  <2>2. ASSUME NEW p \in Pages, Fill(c, p) \/ CommitCall(c, p) PROVE IInv'
    <3>1. CASE CommitCall(c, p)
      <4>1. p \in 0 .. MaxPages /\ p + 1 \in 0 .. MaxPages
        BY SMT DEF Pages
      <4> QED
        BY <3>1, <4>1, LockCallKept DEF CommitCall
    <3> QED
      BY <2>2, <3>1, FillKept
  <2>3. CASE Ack(c) \/ OtherInterrupt(c)
    <3>1. CASE FlushInterrupt(c) \/ Poll(c) \/ OtherInterrupt(c)
      <4>1. AckBegin(c) /\ ipi' \in [CPUs -> BOOLEAN]
        BY <3>1 DEF FlushInterrupt, Poll, OtherInterrupt, IInv, TypeOK
      <4> QED
        BY <4>1, AckBeginKept
    <3> QED
      BY <2>3, <3>1, AckReloadKept, AckStoreKept DEF Ack
  <2>4. ASSUME NEW first \in 0 .. MaxPages, NEW last \in 0 .. MaxPages,
               Reserve(c, first, last) \/ DecommitCall(c, first, last)
        PROVE  IInv'
    BY <2>4, ReserveKept, LockCallKept DEF DecommitCall
  <2>5. CASE DisableInterrupts(c) \/ EnableInterrupts(c)
    BY <2>5, DisableInterruptsKept, EnableInterruptsKept
  <2>6. CASE Commit(c) \/ Stage(c) \/ Finish(c)
    BY <2>6, CommitKept, StageKept, FinishKept
  <2>7. CASE FlushCall(c) \/ FlushReturn(c)
    BY <2>7, FlushCallKept, FlushReturnKept
  <2>8. CASE Sync(c) \/ RoundOver(c)
    BY <2>8, NewGenerationKept, RequestKept, SendKept, CompleteKept, RoundOverKept
           DEF Sync
  <2> QED
    BY <2>1, <2>2, <2>3, <2>4, <2>5, <2>6, <2>7, <2>8
<1> QED
  BY <1>1, <1>2

(* The invariant holds in every reachable state. *)
THEOREM Invariance == Spec => []IInv
BY InitIInv, NextIInv, PTL DEF Spec

(* Every word of the flush protocol and of the demand-paged range has its  *)
(* type: the rounds of smp_tlb_flush_all_sync stay below their bound and   *)
(* reserved_end inside the range.                                          *)
THEOREM TypeCorrect == Spec => []TypeOK
<1>1. IInv => TypeOK
  BY DEF IInv
<1> QED
  BY <1>1, Invariance, PTL

(* smp_tlb_flush_all_sync returns 0 only when every other CPU has reloaded *)
(* its TLB since it began, for any number of CPUs that flush at once,      *)
(* whatever interrupts are lost.                                           *)
THEOREM FlushesReachAll == Spec => []FlushedAll
<1>1. IInv => FlushedAll
  BY DEF IInv, Flushes
<1> QED
  BY <1>1, Invariance, PTL

(* demand_decommit_batch_finish frees no frame that a CPU can still reach  *)
(* through its TLB.                                                        *)
THEOREM CachesCoherent == Spec => []TlbCoherent
<1>1. IInv => TlbCoherent
  BY DEF IInv, Memory, CachedCovered, FramesAccounted, TlbCoherent
<1> QED
  BY <1>1, Invariance, PTL

(* demand.c loses no frame and gives none to two pages, and when           *)
(* demand_lock is free the bitmap and the present bits agree, also after a *)
(* flush that failed.                                                      *)
THEOREM FramesKept == Spec => []FramesAccounted
<1>1. IInv => FramesAccounted
  BY DEF IInv, Memory
<1> QED
  BY <1>1, Invariance, PTL
=============================================================================

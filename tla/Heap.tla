--------------------------------- MODULE Heap ---------------------------------
(***************************************************************************)
(* The kernel heap (mem/heap.c): kmalloc, kfree, krealloc and              *)
(* heap_reclaim_unused over a range of demand-paged memory.  Every one of  *)
(* them is a section of heap_lock, so a step is a whole call.  The list of *)
(* blocks, threaded through their headers, is a sequence in the order of   *)
(* addresses; addresses count from HEAP_START.                             *)
(*                                                                         *)
(* Pages are committed one by one and any of them may fail, so a call that *)
(* fails can leave pages committed behind it.  Which of the blocks that    *)
(* are large enough find_best_fit prefers is left open; where it places an *)
(* allocation inside the block is not.  Blocks of the slab allocator,      *)
(* canaries and poisoning are left out, and callers free only what they    *)
(* were given.                                                             *)
(***************************************************************************)
EXTENDS Integers, Sequences, FiniteSets, FiniteSetsExt

CONSTANTS
    HEADER,           \* sizeof(heap_block_t)
    MIN_BLOCK,        \* HEAP_MIN_BLOCK
    CANARY_OVERHEAD,
    ALIGN,            \* to which block sizes are rounded
    PAGE_SIZE,
    INITIAL_SIZE,     \* HEAP_INITIAL_SIZE
    MaxAddr,          \* kernel_heap.max_addr
    Sizes             \* bound: what callers ask for

ASSUME SizesAssumption ==
    /\ {HEADER, MIN_BLOCK, CANARY_OVERHEAD, ALIGN, PAGE_SIZE} \subseteq Nat \ {0}
    /\ Sizes \subseteq Nat \ {0}
    /\ \A a \in {HEADER, MIN_BLOCK, PAGE_SIZE} : a % ALIGN = 0
    /\ PAGE_SIZE > HEADER + MIN_BLOCK
    /\ INITIAL_SIZE % PAGE_SIZE = 0 /\ MaxAddr % PAGE_SIZE = 0
    /\ INITIAL_SIZE <= MaxAddr

VARIABLES
    blocks,        \* the list from kernel_heap.free_list on
    end_addr,      \* kernel_heap.end_addr
    used_size,     \* kernel_heap.used_size
    committed,     \* the pages that demand.c has committed
    reserved_end   \* demand_reserved_end

vars == <<blocks, end_addr, used_size, committed, reserved_end>>

Up(a) == ((a + PAGE_SIZE - 1) \div PAGE_SIZE) * PAGE_SIZE

Down(a) == (a \div PAGE_SIZE) * PAGE_SIZE

(* The pages that the bytes from .. to-1 touch. *)
PagesOf(from, to) == Down(from) \div PAGE_SIZE .. Up(to) \div PAGE_SIZE - 1

(* The size of the block that holds n bytes between canaries. *)
Total(n) == ((n + CANARY_OVERHEAD + ALIGN - 1) \div ALIGN) * ALIGN

FreeBlock(from, to) == [at |-> from, size |-> to - from - HEADER, free |-> TRUE, alloc |-> 0]

BlockEnd(b) == b.at + HEADER + b.size

Used == {blocks[i] : i \in {j \in DOMAIN blocks : ~blocks[j].free}}

TypeOK ==
    /\ \A i \in DOMAIN blocks :
         /\ blocks[i].at \in 0 .. MaxAddr - 1 /\ blocks[i].size \in 1 .. MaxAddr
         /\ blocks[i].free \in BOOLEAN /\ blocks[i].alloc \in Sizes \cup {0}
         /\ blocks[i].at % ALIGN = 0 /\ blocks[i].size % ALIGN = 0
    /\ end_addr \in 0 .. MaxAddr /\ end_addr % PAGE_SIZE = 0
    /\ used_size \in 0 .. MaxAddr
    /\ committed \subseteq PagesOf(0, MaxAddr)
    /\ reserved_end \in 0 .. MaxAddr

(* heap_init. *)
Init ==
    /\ blocks = <<>>
    /\ end_addr = 0
    /\ used_size = 0
    /\ committed = {}
    /\ reserved_end = INITIAL_SIZE
-----------------------------------------------------------------------------
(* The block at i with the part before placement cut off (split_block_prefix). *)
CutPrefix(bs, i, placement) ==
    IF placement = bs[i].at THEN bs
    ELSE SubSeq(bs, 1, i - 1)
         \o <<FreeBlock(bs[i].at, placement), FreeBlock(placement, BlockEnd(bs[i]))>>
         \o SubSeq(bs, i + 1, Len(bs))

(* Mutant: the rest is taken for a block without a header. *)
Split_NoHeader(bs, i, size) ==
    IF bs[i].size < size + HEADER + MIN_BLOCK THEN bs
    ELSE SubSeq(bs, 1, i - 1)
         \o <<[bs[i] EXCEPT !.size = size],
              FreeBlock(bs[i].at + size, BlockEnd(bs[i]))>>
         \o SubSeq(bs, i + 1, Len(bs))

(* What is left of the block at i behind its first size bytes becomes a    *)
(* block of its own if it is large enough (split_block).                   *)
Split(bs, i, size) ==
    IF bs[i].size < size + HEADER + MIN_BLOCK THEN bs
    ELSE SubSeq(bs, 1, i - 1)
         \o <<[bs[i] EXCEPT !.size = size],
              FreeBlock(bs[i].at + HEADER + size, BlockEnd(bs[i]))>>
         \o SubSeq(bs, i + 1, Len(bs))

Joins(bs, i) ==
    /\ i \in 1 .. Len(bs) - 1
    /\ bs[i].free /\ bs[i + 1].free
    /\ BlockEnd(bs[i]) = bs[i + 1].at

Joined(bs, i) ==
    SubSeq(bs, 1, i - 1)
    \o <<[bs[i] EXCEPT !.size = @ + HEADER + bs[i + 1].size]>>
    \o SubSeq(bs, i + 2, Len(bs))

(* coalesce_free_blocks on the block at i. *)
Coalesced(bs, i) ==
    LET after == IF Joins(bs, i) THEN Joined(bs, i) ELSE bs
    IN IF Joins(after, i - 1) THEN Joined(after, i - 1) ELSE after
-----------------------------------------------------------------------------
(* Where find_best_fit puts size bytes in the block b: an allocation that  *)
(* fits into a page does not cross one, a larger one begins at a page, and *)
(* what stays in front is large enough for a block.                        *)
Placement(b, size) ==
    LET crosses == Down(b.at) # Down(b.at + HEADER + size + HEADER - 1)
        small   == size + 2 * HEADER <= PAGE_SIZE
        moved   == IF (small /\ crosses) \/ (~small /\ b.at % PAGE_SIZE # 0)
                   THEN Up(b.at + HEADER) ELSE b.at
    IN IF moved # b.at /\ moved - b.at < HEADER + MIN_BLOCK
       THEN moved + PAGE_SIZE ELSE moved

Fits(bs, size) ==
    {i \in DOMAIN bs :
        /\ bs[i].free /\ bs[i].size >= size
        /\ Placement(bs[i], size) + HEADER + size <= BlockEnd(bs[i])}

(* Mutant: the header of the rest is not committed. *)
CommitEnd_NoHeader(placement, size, extent) == placement + HEADER + size

(* How far kmalloc and krealloc have to commit for size bytes at placement *)
(* when the memory ends at extent: the header of the rest included.        *)
CommitEnd(placement, size, extent) ==
    LET e == placement + HEADER + size
    IN IF extent - e >= HEADER + MIN_BLOCK THEN e + HEADER ELSE e

(* heap_commit_span on the committed pages c: a page that is missing may   *)
(* not be had, and the ones before it stay.                                *)
Commits(c, from, to) ==
    LET pages == PagesOf(from, to)
    IN {[pages |-> c \cup pages, ok |-> TRUE]}
       \cup {[pages |-> c \cup {q \in pages : q < p}, ok |-> FALSE] : p \in pages \ c}

(* heap_expand from the end e to at least to, with r reserved. *)
Expansions(e, r, c, to) ==
    LET new == Up(IF to > MaxAddr THEN MaxAddr ELSE to)
        reserved == IF new > r THEN new ELSE r
    IN IF new <= e THEN {[end |-> e, reserved |-> r, pages |-> c, ok |-> TRUE]}
       ELSE {[end |-> e, reserved |-> r, pages |-> c, ok |-> FALSE]}
            \cup {[end |-> IF o.ok THEN new ELSE e, reserved |-> reserved,
                   pages |-> o.pages, ok |-> o.ok] : o \in Commits(c, e, e + 1)}
-----------------------------------------------------------------------------
(* The state of the heap while kmalloc runs is hp = [blocks, end, reserved, *)
(* pages]; kmalloc ends in Fail or in Take.                                 *)
Fail(hp) ==
    /\ blocks' = hp.blocks /\ end_addr' = hp.end
    /\ reserved_end' = hp.reserved /\ committed' = hp.pages
    /\ UNCHANGED used_size

(* From alloc_found on. *)
Take(hp, n) ==
    \E i \in Fits(hp.blocks, Total(n)) :
        LET b     == hp.blocks[i]
            place == Placement(b, Total(n))
            cut   == CutPrefix(hp.blocks, i, place)
            j     == IF place = b.at THEN i ELSE i + 1
            split == Split(cut, j, Total(n))
        IN \E o \in Commits(hp.pages, place, CommitEnd(place, Total(n), BlockEnd(b))) :
             IF o.ok
             THEN /\ blocks' = [split EXCEPT ![j].free = FALSE, ![j].alloc = n]
                  /\ used_size' = used_size + split[j].size + HEADER
                  /\ end_addr' = hp.end /\ reserved_end' = hp.reserved
                  /\ committed' = o.pages
             ELSE Fail([hp EXCEPT !.pages = o.pages])

(* The end of the heap moves; the new memory joins a free block there. *)
Grown(bs, old_end, new_end) ==
    LET last == Len(bs)
    IN IF last > 0 /\ bs[last].free /\ BlockEnd(bs[last]) = old_end
       THEN [bs EXCEPT ![last].size = @ + (new_end - old_end)]
       ELSE Coalesced(Append(bs, FreeBlock(old_end, new_end)), last + 1)

Grow(hp, n) ==
    LET to == hp.end + Total(n) + HEADER
    IN IF to > MaxAddr THEN Fail(hp)
       ELSE \E o \in Expansions(hp.end, hp.reserved, hp.pages, to) :
              LET new == [blocks |-> Grown(hp.blocks, hp.end, o.end), end |-> o.end,
                          reserved |-> o.reserved, pages |-> o.pages]
              IN IF ~o.ok THEN Fail([hp EXCEPT !.reserved = o.reserved, !.pages = o.pages])
                 ELSE IF Fits(new.blocks, Total(n)) = {} THEN Fail(new) ELSE Take(new, n)

(* kmalloc_internal, for n bytes. *)
Kmalloc(n) ==
    LET hp == [blocks |-> blocks, end |-> end_addr, reserved |-> reserved_end,
               pages |-> committed]
    IN IF Fits(blocks, Total(n)) # {} THEN Take(hp, n)
       ELSE IF blocks = <<>> /\ end_addr = 0
       THEN \E o \in Expansions(0, reserved_end, committed, INITIAL_SIZE) :
              LET new == [blocks |-> <<FreeBlock(0, o.end)>>, end |-> o.end,
                          reserved |-> o.reserved, pages |-> o.pages]
              IN IF ~o.ok THEN Fail([hp EXCEPT !.reserved = o.reserved, !.pages = o.pages])
                 ELSE IF Fits(new.blocks, Total(n)) # {} THEN Take(new, n) ELSE Grow(new, n)
       ELSE Grow(hp, n)

(* kfree_internal and kfree_secure. *)
Kfree(i) ==
    /\ ~blocks[i].free
    /\ used_size' = used_size - (blocks[i].size + HEADER)
    /\ blocks' = Coalesced([blocks EXCEPT ![i].free = TRUE, ![i].alloc = 0], i)
    /\ UNCHANGED <<end_addr, committed, reserved_end>>
-----------------------------------------------------------------------------
(* krealloc to n bytes.  To fewer bytes: the rest is given back. *)
Shrink(i, n) ==
    /\ ~blocks[i].free /\ blocks[i].alloc >= n
    /\ LET split == Split(blocks, i, Total(n))
           given == [split EXCEPT ![i].alloc = n]
       IN /\ blocks' = IF Len(split) > Len(blocks) THEN Coalesced(given, i + 1) ELSE given
          /\ used_size' = used_size - (blocks[i].size - split[i].size)
    /\ UNCHANGED <<end_addr, committed, reserved_end>>

(* To more bytes, within the block. *)
Stretch(i, n) ==
    /\ ~blocks[i].free /\ blocks[i].alloc < n
    /\ Total(n) <= blocks[i].size
    /\ blocks' = [blocks EXCEPT ![i].alloc = n]
    /\ UNCHANGED <<end_addr, used_size, committed, reserved_end>>

(* Into the free block behind it.  If that is not large enough, or its     *)
(* pages cannot be had, krealloc moves the bytes with kmalloc and kfree,   *)
(* in sections of their own.                                               *)
GrowInPlace(i, n) ==
    /\ ~blocks[i].free /\ blocks[i].alloc < n
    /\ Total(n) > blocks[i].size
    /\ i < Len(blocks) /\ blocks[i + 1].free /\ BlockEnd(blocks[i]) = blocks[i + 1].at
    /\ LET combined == blocks[i].size + HEADER + blocks[i + 1].size
           whole    == [Joined(blocks, i) EXCEPT ![i].alloc = n]
           split    == Split(whole, i, Total(n))
       IN /\ combined >= Total(n)
          /\ \E o \in Commits(committed, blocks[i].at,
                              CommitEnd(blocks[i].at, Total(n), BlockEnd(whole[i]))) :
                /\ committed' = o.pages
                /\ IF o.ok
                   THEN /\ blocks' = split
                        /\ used_size' = used_size + (split[i].size - blocks[i].size)
                   ELSE UNCHANGED <<blocks, used_size>>
    /\ UNCHANGED <<end_addr, reserved_end>>
-----------------------------------------------------------------------------
(* heap_trim_candidate: from where the free end of the heap can go, and    *)
(* whether the whole last block goes.                                      *)
NoTrim == [from |-> MaxAddr, removes |-> FALSE, some |-> FALSE]

TrimCandidate ==
    LET last == blocks[Len(blocks)]
        from == Up(last.at + HEADER)
    IN IF blocks = <<>> THEN NoTrim
       ELSE IF ~last.free \/ BlockEnd(last) # end_addr THEN NoTrim
       ELSE IF last.at % PAGE_SIZE = 0 THEN [from |-> last.at, removes |-> TRUE, some |-> TRUE]
       ELSE IF from >= end_addr \/ from <= last.at + HEADER THEN NoTrim
       ELSE [from |-> from, removes |-> FALSE, some |-> TRUE]

(* The whole pages inside a free block, without its header. *)
InnerPages(b) == Up(b.at + HEADER) \div PAGE_SIZE .. Down(BlockEnd(b)) \div PAGE_SIZE - 1

FreePages == UNION {InnerPages(blocks[i]) : i \in {j \in DOMAIN blocks : blocks[j].free}}

(* Mutant: the reservation is not raised to end_addr again. *)
ReservationLeft_Low(trim) ==
    LET ends == {b \in {blocks[i] : i \in DOMAIN blocks} :
                   b.free /\ InnerPages(b) # {} /\ Down(BlockEnd(b)) = reserved_end}
    IN IF trim.some /\ trim.removes /\ end_addr = reserved_end THEN trim.from
       ELSE IF ends # {} THEN Up((CHOOSE b \in ends : TRUE).at + HEADER)
       ELSE reserved_end

(* The reservation that is left: demand_decommit_batch_stage lowers it     *)
(* when a range ends there, heap_reclaim_unused raises it to end_addr      *)
(* again when the heap does not shrink.                                    *)
ReservationLeft(trim) ==
    LET ends == {b \in {blocks[i] : i \in DOMAIN blocks} :
                   b.free /\ InnerPages(b) # {} /\ Down(BlockEnd(b)) = reserved_end}
        low  == IF trim.some /\ trim.removes /\ end_addr = reserved_end THEN trim.from
                ELSE IF ends # {} THEN Up((CHOOSE b \in ends : TRUE).at + HEADER)
                ELSE reserved_end
    IN IF ~trim.some /\ low < end_addr THEN end_addr ELSE low

(* heap_reclaim_unused.  If the flush fails nothing changes. *)
Reclaim ==
    LET trim  == TrimCandidate
        taken == FreePages \cup IF trim.removes THEN PagesOf(trim.from, end_addr) ELSE {}
        last  == Len(blocks)
    IN /\ committed' = committed \ taken
       /\ reserved_end' = ReservationLeft(trim)
       /\ end_addr' = IF trim.some THEN trim.from ELSE end_addr
       /\ blocks' = IF ~trim.some THEN blocks
                    ELSE IF trim.removes THEN SubSeq(blocks, 1, last - 1)
                    ELSE [blocks EXCEPT ![last].size = trim.from - blocks[last].at - HEADER]
       /\ UNCHANGED used_size

Next ==
    \/ \E n \in Sizes : Kmalloc(n)
    \/ \E i \in DOMAIN blocks :
         \/ Kfree(i)
         \/ \E n \in Sizes : Shrink(i, n) \/ Stretch(i, n) \/ GrowInPlace(i, n)
    \/ Reclaim

Spec == Init /\ [][Next]_vars
-----------------------------------------------------------------------------
(* The blocks tile the heap from its start to end_addr: nothing overlaps,  *)
(* nothing is lost, and no two free blocks lie side by side (kfree and     *)
(* krealloc coalesce).                                                     *)
Tiled ==
    /\ blocks = <<>> => end_addr = 0
    /\ blocks # <<>> => blocks[1].at = 0 /\ BlockEnd(blocks[Len(blocks)]) = end_addr
    /\ \A i \in 1 .. Len(blocks) - 1 :
         /\ BlockEnd(blocks[i]) = blocks[i + 1].at
         /\ ~(blocks[i].free /\ blocks[i + 1].free)

(* Every header and every byte that was given out is committed, whatever   *)
(* heap_reclaim_unused took back and whatever commit failed, and no page   *)
(* behind the end of the heap stays committed.                             *)
Backed ==
    /\ \A i \in DOMAIN blocks :
         PagesOf(blocks[i].at, blocks[i].at + HEADER) \subseteq committed
    /\ \A b \in Used : PagesOf(b.at, b.at + HEADER + Total(b.alloc)) \subseteq committed
    /\ \A p \in committed : p * PAGE_SIZE < end_addr

(* The heap lies inside the reservation, so that a fault in it is served. *)
EndReserved == end_addr <= reserved_end
=============================================================================

------------------------------ MODULE CowProofs ------------------------------
(***************************************************************************)
(* Proofs about Cow for any number of address spaces, threads, pages and   *)
(* frames: the counts of mem/pmm.c are exact, and neither a page table nor *)
(* a TLB shows an address space what another one wrote.                    *)
(*                                                                         *)
(* The fields of the page tables, the TLBs and the operations are read     *)
(* through the operators below, which stay folded in most steps.           *)
(***************************************************************************)
EXTENDS Cow, TLAPS

(* Most steps are first-order reasoning, which Zenon does; the steps that  *)
(* count or compare functions name SMT.                                    *)
USE Zenon

USE NoFrameAssumption, ValuesAssumption, FirstAssumption

Frame(v, p) == pte[v][p].frame
Writable(v, p) == pte[v][p].write
CFrame(v, t, p) == tlb[v][t][p].frame
CWrite(v, t, p) == tlb[v][t][p].write
Kind(v) == op[v].kind
Runner(v) == op[v].by
Stage(v) == op[v].stage
PageOf(v) == op[v].page
New(v) == op[v].new
From(v) == op[v].from
Old(v) == op[v].old
Hold(v) == op[v].hold
Child(v) == op[v].child
Todo(v) == op[v].todo
Live(v) == live[v]
Refs(f) == refs[f]
Content(f) == content[f]
Value(v, p) == value[v][p]

Owned(v) == {New(v), Hold(v)}
Quiet(v) == New(v) = NoFrame /\ From(v) = NoFrame /\ Old(v) = NoFrame /\ Hold(v) = NoFrame
Forking(v, w) == Kind(v) = "fork" /\ Child(v) = w
-----------------------------------------------------------------------------
(* What an operation under vm->lock looks like at each stage. *)
OpExact(v) ==
    /\ Kind(v) # "none" => Live(v) = "live" /\ Runner(v) \in Threads[v]
    /\ Kind(v) = "none" => Quiet(v) /\ Stage(v) = "none"
    /\ Stage(v) = "flush" => Todo(v) \subseteq Threads[v] \ {Runner(v)}

FaultExact(v) ==
    Kind(v) = "fault" =>
        /\ PageOf(v) \in Pages /\ Frame(v, PageOf(v)) # NoFrame /\ Hold(v) = NoFrame
        /\ Stage(v) \in {"check", "copy", "flush"}
        /\ Stage(v) = "check" => (New(v) # NoFrame <=> From(v) # NoFrame)
        /\ Stage(v) \in {"check", "copy"} => Old(v) = NoFrame
        /\ Stage(v) = "copy" => From(v) # NoFrame
        /\ Stage(v) = "flush" => New(v) = NoFrame /\ From(v) = NoFrame

UnmapExact(v) ==
    Kind(v) = "unmap" =>
        /\ PageOf(v) \in Pages /\ Frame(v, PageOf(v)) = NoFrame /\ Hold(v) \in Frames
        /\ New(v) = NoFrame /\ From(v) = NoFrame /\ Old(v) = NoFrame
        /\ Stage(v) = "flush"

(* A clone maps what its parent maps, and neither may write there. *)
ForkExact(v) ==
    Kind(v) = "fork" =>
        /\ Quiet(v) /\ Stage(v) \in {"share", "flush", "undo"}
        /\ Live(Child(v)) = "clone"
        /\ Stage(v) = "share" => \A p \in Pages :
             p \in Todo(v) <=> Frame(v, p) # NoFrame /\ Frame(Child(v), p) = NoFrame
        /\ Stage(v) = "flush" => \A p \in Pages : ~Writable(v, p)
        /\ \A p \in Pages : Frame(Child(v), p) # NoFrame =>
             Frame(Child(v), p) = Frame(v, p) /\ ~Writable(v, p)

Exact(v) == OpExact(v) /\ FaultExact(v) /\ UnmapExact(v) /\ ForkExact(v)

(* An address space without a process maps nothing, and one that does not  *)
(* run is in no TLB.                                                       *)
LifeOf(v) ==
    /\ Live(v) = "none" => \A p \in Pages : Frame(v, p) = NoFrame
    /\ Live(v) = "clone" => \A p \in Pages : ~Writable(v, p)
    /\ Live(v) # "live" => \A t \in Threads[v], p \in Pages :
         CFrame(v, t, p) = NoFrame /\ ~CWrite(v, t, p)

(* A TLB holds what the page table holds, or what a flush under way will   *)
(* remove; a fork that has flushed a thread has taken its right to write.  *)
Stale(v, t, p) ==
    /\ Stage(v) = "flush" /\ Kind(v) \in {"fault", "unmap"}
    /\ p = PageOf(v) /\ t \in Todo(v)
    /\ CFrame(v, t, p) = Hold(v) \/ (CFrame(v, t, p) = Old(v) /\ ~CWrite(v, t, p))

Covered(v) ==
    \A t \in Threads[v], p \in Pages :
        /\ CFrame(v, t, p) # NoFrame => CFrame(v, t, p) = Frame(v, p) \/ Stale(v, t, p)
        /\ Kind(v) = "fork" /\ Stage(v) = "flush" /\ t \notin Todo(v) => ~CWrite(v, t, p)

(* The copy that a fault has made is still what the page contains, because *)
(* nobody can write the page meanwhile.                                    *)
CopyOf(v) ==
    /\ From(v) # NoFrame =>
         /\ From(v) = Frame(v, PageOf(v)) /\ ~Writable(v, PageOf(v))
         /\ \A t \in Threads[v] : ~CWrite(v, t, PageOf(v))
         /\ Stage(v) = "check" => Content(New(v)) = Content(From(v))
    /\ Kind(v) = "unmap" => Content(Hold(v)) = Value(v, PageOf(v))

Isolated(v) ==
    \A p \in Pages :
        Live(v) = "live" /\ Frame(v, p) # NoFrame => Content(Frame(v, p)) = Value(v, p)

(* What the state of one address space, and of a clone it makes, must be. *)
Local(v) == Exact(v) /\ LifeOf(v) /\ Covered(v) /\ CopyOf(v) /\ Isolated(v)
-----------------------------------------------------------------------------
ForksDistinct ==
    \A v, w \in VMs : Kind(v) = "fork" /\ Kind(w) = "fork" /\ w # v => Child(w) # Child(v)

(* A frame is mapped at one page only, whoever maps it. *)
SamePage ==
    \A v, w \in VMs, p, q \in Pages :
        /\ Frame(v, p) # NoFrame /\ Frame(w, q) = Frame(v, p) => q = p
        /\ Kind(v) = "unmap" /\ Frame(w, q) = Hold(v) => q = PageOf(v)

(* A writable entry is the only owner of its frame. *)
WriteExclusive ==
    \A v \in VMs, p \in Pages : Writable(v, p) =>
        /\ Frame(v, p) # NoFrame /\ Frame(v, p) # Old(v)
        /\ \A w \in VMs, q \in Pages : Frame(w, q) = Frame(v, p) => w = v /\ q = p
        /\ \A u \in VMs : Frame(v, p) \notin Owned(u)

(* So is the fault that has made a copy. *)
NewExclusive ==
    \A v \in VMs : New(v) # NoFrame =>
        /\ Refs(New(v)) = 0
        /\ \A w \in VMs, q \in Pages : Frame(w, q) # New(v)
        /\ \A u \in VMs : New(v) \in Owned(u) => u = v

(* A frame that a thread may write through its TLB is mapped at that page  *)
(* of that address space, or of a clone being made of it, and nowhere else.*)
Reached(v, p, f) ==
    /\ f # NoFrame /\ f # Old(v)
    /\ \A w \in VMs, q \in Pages : Frame(w, q) = f => q = p /\ (w = v \/ Forking(v, w))
    /\ \A u \in VMs : f \in Owned(u) => u = v /\ Kind(v) = "unmap"

CacheExclusive ==
    \A v \in VMs : \A t \in Threads[v], p \in Pages :
        CWrite(v, t, p) => Reached(v, p, CFrame(v, t, p))

Exclusion == ForksDistinct /\ SamePage /\ WriteExclusive /\ NewExclusive /\ CacheExclusive

Owners(f) == Cardinality(Mappings(f)) + Cardinality(Holders(f))

Counted ==
    \A f \in Frames :
        /\ f \in free <=> Owners(f) = 0
        /\ Owners(f) >= 2 => Refs(f) = Owners(f)
        /\ Owners(f) <= 1 => Refs(f) <= Owners(f)

Locals == \A v \in VMs : Local(v)

IInv == TypeOK /\ Locals /\ Exclusion /\ Counted
-----------------------------------------------------------------------------
(* What TypeOK says of the fields. *)
Typed ==
    /\ \A v \in VMs, p \in Pages : Frame(v, p) \in AnyFrame /\ Writable(v, p) \in BOOLEAN
    /\ \A v \in VMs : \A t \in Threads[v], p \in Pages :
         CFrame(v, t, p) \in AnyFrame /\ CWrite(v, t, p) \in BOOLEAN
    /\ \A v \in VMs :
         /\ New(v) \in AnyFrame /\ From(v) \in AnyFrame /\ Old(v) \in AnyFrame
         /\ Hold(v) \in AnyFrame /\ Child(v) \in VMs
         /\ Kind(v) \in {"none", "fault", "unmap", "fork"}
    /\ \A f \in Frames : Refs(f) \in Nat
    /\ free \subseteq Frames

LEMMA TypeOKTyped == ASSUME TypeOK PROVE Typed
<1>1. \A v \in VMs, p \in Pages : Frame(v, p) \in AnyFrame /\ Writable(v, p) \in BOOLEAN
  BY SMT DEF TypeOK, Entries, Frame, Writable
<1>2. \A v \in VMs : \A t \in Threads[v], p \in Pages :
        CFrame(v, t, p) \in AnyFrame /\ CWrite(v, t, p) \in BOOLEAN
  BY SMT DEF TypeOK, CacheEntries, CFrame, CWrite
<1>3. \A v \in VMs :
         /\ New(v) \in AnyFrame /\ From(v) \in AnyFrame /\ Old(v) \in AnyFrame
         /\ Hold(v) \in AnyFrame /\ Child(v) \in VMs
         /\ Kind(v) \in {"none", "fault", "unmap", "fork"}
  BY DEF TypeOK, Ops, New, From, Old, Hold, Child, Kind
<1>4. /\ \A f \in Frames : Refs(f) \in Nat
      /\ free \subseteq Frames
  BY DEF TypeOK, Refs
<1> QED
  BY <1>1, <1>2, <1>3, <1>4 DEF Typed

LEMMA Facts == ASSUME IInv PROVE Typed
BY TypeOKTyped DEF IInv

LEMMA NoOpType == NoOp \in Ops
BY DEF NoOp, Ops, AnyFrame

LEMMA UncachedType ==
    /\ Uncached \in CacheEntries /\ Uncached.frame = NoFrame /\ Uncached.write = FALSE
    /\ Unmapped \in Entries /\ Unmapped.frame = NoFrame /\ Unmapped.write = FALSE
BY DEF Uncached, CacheEntries, Unmapped, Entries, AnyFrame
-----------------------------------------------------------------------------
(* What a step leaves alone, or takes out of a TLB. *)
OpKept(v) ==
    /\ Kind(v)' = Kind(v) /\ Runner(v)' = Runner(v) /\ Stage(v)' = Stage(v)
    /\ PageOf(v)' = PageOf(v) /\ New(v)' = New(v) /\ From(v)' = From(v) /\ Old(v)' = Old(v)
    /\ Hold(v)' = Hold(v) /\ Child(v)' = Child(v) /\ Todo(v)' = Todo(v)

OpEnded(v) ==
    /\ Kind(v)' = "none" /\ Stage(v)' = "none" /\ Todo(v)' = {}
    /\ New(v)' = NoFrame /\ From(v)' = NoFrame /\ Old(v)' = NoFrame /\ Hold(v)' = NoFrame

OpsKept == \A v \in VMs : OpKept(v)
OtherOpsKept(v) == \A w \in VMs : w # v => OpKept(w)

EntryKept(v, p) == Frame(v, p)' = Frame(v, p) /\ Writable(v, p)' = Writable(v, p)
EntriesKept == \A v \in VMs, p \in Pages : EntryKept(v, p)
OtherEntriesKept(v, p) == \A w \in VMs, q \in Pages : w # v \/ q # p => EntryKept(w, q)

CacheKept(v, t, p) == CFrame(v, t, p)' = CFrame(v, t, p) /\ CWrite(v, t, p)' = CWrite(v, t, p)
CacheGone(v, t, p) == CFrame(v, t, p)' = NoFrame /\ ~CWrite(v, t, p)'
CachesShrink ==
    \A v \in VMs : \A t \in Threads[v], p \in Pages : CacheKept(v, t, p) \/ CacheGone(v, t, p)

(* Nothing of the address space changes, but a TLB may lose an entry. *)
SpaceKept(v) ==
    /\ OpKept(v) /\ Live(v)' = Live(v)
    /\ \A p \in Pages : EntryKept(v, p) /\ Value(v, p)' = Value(v, p)
    /\ \A t \in Threads[v], p \in Pages : CacheKept(v, t, p) \/ CacheGone(v, t, p)

(* The address space owns no more frames than before, and may write no     *)
(* more of them.                                                           *)
Shrinks(v) ==
    /\ \A p \in Pages :
         /\ Frame(v, p)' \in {Frame(v, p), NoFrame}
         /\ Writable(v, p)' => Writable(v, p) /\ Frame(v, p)' = Frame(v, p)
    /\ \A t \in Threads[v], p \in Pages :
         CWrite(v, t, p)' => CWrite(v, t, p) /\ CFrame(v, t, p)' = CFrame(v, t, p)
    /\ New(v)' \in {New(v), NoFrame} /\ Hold(v)' \in {Hold(v), NoFrame}
    /\ Old(v)' \in {Old(v), NoFrame}
    /\ Kind(v)' = "unmap" => Kind(v) = "unmap" /\ Hold(v)' = Hold(v) /\ PageOf(v)' = PageOf(v)
    /\ Kind(v) = "unmap" => Kind(v)' = "unmap" \/ Hold(v)' = NoFrame
    /\ \A w \in VMs : Forking(v, w) =>
         \/ Forking(v, w)'
         \/ \A t \in Threads[v], p \in Pages : ~CWrite(v, t, p)'
         \/ \A p \in Pages : Frame(w, p)' = NoFrame

(* The address space maps or holds the frame. *)
Owner(v, f) == f \in Owned(v) \/ \E p \in Pages : Frame(v, p) = f

LEMMA PteSame == ASSUME pte' = pte PROVE EntriesKept
BY DEF EntriesKept, EntryKept, Frame, Writable

LEMMA OpSame == ASSUME op' = op PROVE OpsKept
BY DEF OpsKept, OpKept, Kind, Runner, Stage, PageOf, New, From, Old, Hold, Child, Todo

LEMMA TlbSame == ASSUME tlb' = tlb PROVE CachesShrink
BY DEF CachesShrink, CacheKept, CFrame, CWrite

LEMMA LiveSame == ASSUME live' = live PROVE \A v \in VMs : Live(v)' = Live(v)
BY DEF Live

LEMMA ContentSame == ASSUME content' = content PROVE \A f : Content(f)' = Content(f)
BY DEF Content

LEMMA ValueSame == ASSUME value' = value PROVE \A v, p : Value(v, p)' = Value(v, p)
BY DEF Value

LEMMA RefsSame == ASSUME refs' = refs PROVE \A f : Refs(f)' = Refs(f)
BY DEF Refs
-----------------------------------------------------------------------------
(* The facts about finite sets that the counts need.  They are proved at   *)
(* the end, from the library's theorems; until then they are a hypothesis  *)
(* of the lemmas that count, which keeps the library out of their context. *)
FiniteLaw ==
    /\ \A S, T : IsFiniteSet(S) /\ IsFiniteSet(T) => IsFiniteSet(S \X T)
    /\ \A S : IsFiniteSet(S) => \A T \in SUBSET S : IsFiniteSet(T)

CardinalLaw == \A S : IsFiniteSet(S) => Cardinality(S) \in Nat

EmptyLaw ==
    /\ Cardinality({}) = 0
    /\ \A S : IsFiniteSet(S) => (Cardinality(S) = 0 <=> S = {})

SingleLaw ==
    /\ \A x : Cardinality({x}) = 1
    /\ \A S : IsFiniteSet(S) /\ Cardinality(S) = 1 => \E x : S = {x}
    /\ \A x : \A S \in SUBSET {x} : Cardinality(S) <= 1

AddLaw ==
    \A S, x : IsFiniteSet(S) =>
        Cardinality(S \cup {x}) = IF x \in S THEN Cardinality(S) ELSE Cardinality(S) + 1

RemoveLaw ==
    \A S, x : IsFiniteSet(S) =>
        Cardinality(S \ {x}) = IF x \in S THEN Cardinality(S) - 1 ELSE Cardinality(S)

CountingLaws == FiniteLaw /\ CardinalLaw /\ EmptyLaw /\ SingleLaw /\ AddLaw /\ RemoveLaw

-----------------------------------------------------------------------------
(* Counting owners. *)
LEMMA MappingsFinite ==
    ASSUME CountingLaws, NEW f
    PROVE  /\ IsFiniteSet(Mappings(f)) /\ IsFiniteSet(Holders(f))
           /\ Cardinality(Mappings(f)) \in Nat /\ Cardinality(Holders(f)) \in Nat
<1>1. IsFiniteSet(VMs \X Pages)
  BY FiniteAssumption DEF CountingLaws, FiniteLaw
<1>2. Mappings(f) \in SUBSET (VMs \X Pages) /\ Holders(f) \in SUBSET VMs
  BY DEF Mappings, Holders
<1>3. IsFiniteSet(Mappings(f)) /\ IsFiniteSet(Holders(f))
  BY <1>1, <1>2, FiniteAssumption DEF CountingLaws, FiniteLaw
<1> QED
  BY <1>3 DEF CountingLaws, CardinalLaw

LEMMA OwnersType ==
    ASSUME CountingLaws
    PROVE  \A f : Owners(f) \in Nat
BY MappingsFinite, SMT DEF Owners

LEMMA InMappings ==
    \A f : \A m \in VMs \X Pages : m \in Mappings(f) <=> Frame(m[1], m[2]) = f
BY DEF Mappings, Frame

LEMMA InHolders == \A f : \A v \in VMs : v \in Holders(f) <=> f \in Owned(v)
BY DEF Holders, Owned, New, Hold

LEMMA InMappingsNext ==
    \A f : \A m \in VMs \X Pages : m \in Mappings(f)' <=> Frame(m[1], m[2])' = f
BY DEF Mappings, Frame

LEMMA InHoldersNext == \A f : \A v \in VMs : v \in Holders(f)' <=> f \in Owned(v)'
BY DEF Holders, Owned, New, Hold

LEMMA SetsNext ==
    \A f : /\ Mappings(f)' \subseteq VMs \X Pages /\ Mappings(f) \subseteq VMs \X Pages
           /\ Holders(f)' \subseteq VMs /\ Holders(f) \subseteq VMs
BY DEF Mappings, Holders

(* One entry changes. *)
LEMMA MapMoved ==
    ASSUME CountingLaws, NEW v \in VMs, NEW p \in Pages, NEW f,
           \A w \in VMs, q \in Pages : w # v \/ q # p => Frame(w, q)' = Frame(w, q)
    PROVE  Cardinality(Mappings(f)') = Cardinality(Mappings(f))
               + (IF Frame(v, p)' = f THEN 1 ELSE 0) - (IF Frame(v, p) = f THEN 1 ELSE 0)
<1> DEFINE m == <<v, p>>
           M == Mappings(f)
<1>1. m \in VMs \X Pages /\ m[1] = v /\ m[2] = p
  OBVIOUS
<1>2. IsFiniteSet(M) /\ Cardinality(M) \in Nat
  BY MappingsFinite
<1>3. m \in M <=> Frame(v, p) = f
  BY <1>1, InMappings
<1>4. \A n \in VMs \X Pages : n # m => Frame(n[1], n[2])' = Frame(n[1], n[2])
  <2> SUFFICES ASSUME NEW n \in VMs \X Pages, n # m
               PROVE  Frame(n[1], n[2])' = Frame(n[1], n[2])
    OBVIOUS
  <2>1. n = <<n[1], n[2]>> /\ n[1] \in VMs /\ n[2] \in Pages
    BY SMT
  <2>2. n[1] # v \/ n[2] # p
    BY <2>1
  <2> QED
    BY <2>1, <2>2
<1>5. \A n \in VMs \X Pages : n # m => (n \in Mappings(f)' <=> n \in M)
  BY <1>4, InMappings, InMappingsNext, SMT
<1>6. m \in Mappings(f)' <=> Frame(v, p)' = f
  BY <1>1, InMappingsNext
<1>7. CASE Frame(v, p)' = f
  <2>1. Mappings(f)' = M \cup {m}
    BY <1>1, <1>5, <1>6, <1>7, SetsNext
  <2>2. Cardinality(M \cup {m}) = IF m \in M THEN Cardinality(M) ELSE Cardinality(M) + 1
    BY <1>2 DEF CountingLaws, AddLaw
  <2> QED
    BY <1>2, <1>3, <1>7, <2>1, <2>2, SMT
<1>8. CASE Frame(v, p)' # f
  <2>1. Mappings(f)' = M \ {m}
    BY <1>1, <1>5, <1>6, <1>8, SetsNext
  <2>2. Cardinality(M \ {m}) = IF m \in M THEN Cardinality(M) - 1 ELSE Cardinality(M)
    BY <1>2 DEF CountingLaws, RemoveLaw
  <2> QED
    BY <1>2, <1>3, <1>8, <2>1, <2>2, SMT
<1> QED
  BY <1>7, <1>8

(* One operation changes. *)
LEMMA HoldMoved ==
    ASSUME CountingLaws, NEW v \in VMs, NEW f, \A w \in VMs : w # v => Owned(w)' = Owned(w)
    PROVE  Cardinality(Holders(f)') = Cardinality(Holders(f))
               + (IF f \in Owned(v)' THEN 1 ELSE 0) - (IF f \in Owned(v) THEN 1 ELSE 0)
<1> DEFINE H == Holders(f)
<1>1. IsFiniteSet(H) /\ Cardinality(H) \in Nat
  BY MappingsFinite
<1>2. (v \in H <=> f \in Owned(v)) /\ (v \in Holders(f)' <=> f \in Owned(v)')
  BY InHolders, InHoldersNext
<1>3. \A w \in VMs : w # v => (w \in Holders(f)' <=> w \in H)
  BY InHolders, InHoldersNext, SMT
<1>4. CASE f \in Owned(v)'
  <2>1. Holders(f)' = H \cup {v}
    BY <1>2, <1>3, <1>4, SetsNext
  <2>2. Cardinality(H \cup {v}) = IF v \in H THEN Cardinality(H) ELSE Cardinality(H) + 1
    BY <1>1 DEF CountingLaws, AddLaw
  <2> QED
    BY <1>1, <1>2, <1>4, <2>1, <2>2, SMT
<1>5. CASE f \notin Owned(v)'
  <2>1. Holders(f)' = H \ {v}
    BY <1>2, <1>3, <1>5, SetsNext
  <2>2. Cardinality(H \ {v}) = IF v \in H THEN Cardinality(H) - 1 ELSE Cardinality(H)
    BY <1>1 DEF CountingLaws, RemoveLaw
  <2> QED
    BY <1>1, <1>2, <1>5, <2>1, <2>2, SMT
<1> QED
  BY <1>4, <1>5

Count(b) == IF b THEN 1 ELSE 0

(* Together: the entry at page p of w and the operation of v change. *)
LEMMA OwnersMoved ==
    ASSUME CountingLaws, NEW v \in VMs, NEW w \in VMs, NEW p \in Pages, NEW f,
           \A u \in VMs : u # v => Owned(u)' = Owned(u),
           \A u \in VMs, q \in Pages : u # w \/ q # p => Frame(u, q)' = Frame(u, q)
    PROVE  Owners(f)' = Owners(f) + Count(Frame(w, p)' = f) - Count(Frame(w, p) = f)
                                  + Count(f \in Owned(v)') - Count(f \in Owned(v))
<1>1. Cardinality(Mappings(f)') = Cardinality(Mappings(f))
          + (IF Frame(w, p)' = f THEN 1 ELSE 0) - (IF Frame(w, p) = f THEN 1 ELSE 0)
  BY MapMoved, SMT
<1>2. Cardinality(Holders(f)') = Cardinality(Holders(f))
          + (IF f \in Owned(v)' THEN 1 ELSE 0) - (IF f \in Owned(v) THEN 1 ELSE 0)
  BY HoldMoved
<1> QED
  BY <1>1, <1>2, MappingsFinite, SMT DEF Owners, Count

LEMMA OwnersSame ==
    ASSUME \A v \in VMs : Owned(v)' = Owned(v),
           \A v \in VMs, p \in Pages : Frame(v, p)' = Frame(v, p)
    PROVE  \A f : Owners(f)' = Owners(f)
<1> SUFFICES ASSUME NEW f PROVE Owners(f)' = Owners(f)
  OBVIOUS
<1>1. \A m \in VMs \X Pages : Frame(m[1], m[2])' = Frame(m[1], m[2])
  OBVIOUS
<1>2. Mappings(f)' = Mappings(f)
  <2>1. \A m \in VMs \X Pages : m \in Mappings(f)' <=> m \in Mappings(f)
    BY <1>1, InMappings, InMappingsNext, SMT
  <2> QED
    BY <2>1, SetsNext
<1>3. Holders(f)' = Holders(f)
  <2>1. \A v \in VMs : v \in Holders(f)' <=> v \in Holders(f)
    BY InHolders, InHoldersNext, SMT
  <2> QED
    BY <2>1, SetsNext
<1> QED
  BY <1>2, <1>3 DEF Owners

LEMMA Unowned ==
    ASSUME CountingLaws, NEW f
    PROVE  Owners(f) = 0 <=>
             /\ \A v \in VMs, p \in Pages : Frame(v, p) # f
             /\ \A v \in VMs : f \notin Owned(v)
<1>1. /\ Cardinality(Mappings(f)) = 0 <=> Mappings(f) = {}
      /\ Cardinality(Holders(f)) = 0 <=> Holders(f) = {}
  BY MappingsFinite DEF CountingLaws, EmptyLaw
<1>2. Owners(f) = 0 <=> Cardinality(Mappings(f)) = 0 /\ Cardinality(Holders(f)) = 0
  BY MappingsFinite, SMT DEF Owners
<1>3. Mappings(f) = {} <=> \A v \in VMs, p \in Pages : Frame(v, p) # f
  <2>1. ASSUME NEW v \in VMs, NEW p \in Pages, Frame(v, p) = f PROVE <<v, p>> \in Mappings(f)
    BY <2>1, InMappings
  <2>2. ASSUME NEW m \in Mappings(f)
        PROVE  m[1] \in VMs /\ m[2] \in Pages /\ Frame(m[1], m[2]) = f
    BY InMappings, SetsNext, SMT
  <2> QED
    BY <2>1, <2>2
<1>4. Holders(f) = {} <=> \A v \in VMs : f \notin Owned(v)
  BY InHolders, SetsNext
<1> QED
  BY <1>1, <1>2, <1>3, <1>4

(* The only owner of a frame that it maps. *)
LEMMA SoleOwner ==
    ASSUME CountingLaws, NEW f, Owners(f) <= 1, NEW v \in VMs, NEW p \in Pages, Frame(v, p) = f
    PROVE  /\ Owners(f) = 1
           /\ \A w \in VMs, q \in Pages : Frame(w, q) = f => w = v /\ q = p
           /\ \A w \in VMs : f \notin Owned(w)
<1> DEFINE m == <<v, p>>
<1>1. m \in Mappings(f)
  BY InMappings
<1>2. Mappings(f) # {}
  BY <1>1
<1>3. Cardinality(Mappings(f)) # 0
  BY <1>2, MappingsFinite DEF CountingLaws, EmptyLaw
<1>4. Cardinality(Mappings(f)) = 1 /\ Cardinality(Holders(f)) = 0 /\ Owners(f) = 1
  BY <1>3, MappingsFinite, SMT DEF Owners
<1>5. Holders(f) = {}
  BY <1>4, MappingsFinite DEF CountingLaws, EmptyLaw
<1>6. PICK x : Mappings(f) = {x}
  BY <1>4, MappingsFinite DEF CountingLaws, SingleLaw
<1>7. ASSUME NEW w \in VMs, NEW q \in Pages, Frame(w, q) = f PROVE w = v /\ q = p
  <2>1. <<w, q>> \in Mappings(f)
    BY <1>7, InMappings
  <2>2. <<w, q>> = m
    BY <1>1, <1>6, <2>1
  <2> QED
    BY <2>2
<1> QED
  BY <1>4, <1>5, <1>7, InHolders

LEMMA LoneOwner ==
    ASSUME CountingLaws, NEW f, NEW v \in VMs, NEW p \in Pages,
           \A w \in VMs, q \in Pages : Frame(w, q) = f => w = v /\ q = p,
           \A w \in VMs : f \notin Owned(w)
    PROVE  Owners(f) <= 1
<1> DEFINE m == <<v, p>>
<1>1. Mappings(f) \subseteq {m}
  BY SetsNext, InMappings, SMT
<1>3. Cardinality(Mappings(f)) <= 1
  BY <1>1 DEF CountingLaws, SingleLaw
<1>4. Holders(f) = {}
  BY SetsNext, InHolders
<1>5. Cardinality(Holders(f)) = 0
  BY <1>4 DEF CountingLaws, EmptyLaw
<1> QED
  BY <1>3, <1>5, MappingsFinite, SMT DEF Owners

LEMMA LoneHolder ==
    ASSUME CountingLaws, NEW f, NEW v \in VMs, f \in Owned(v),
           \A w \in VMs, q \in Pages : Frame(w, q) # f,
           \A w \in VMs : f \in Owned(w) => w = v
    PROVE  Owners(f) = 1
<1>1. Mappings(f) = {}
  <2>1. \A m \in VMs \X Pages : m \notin Mappings(f)
    BY InMappings
  <2> QED
    BY <2>1, SetsNext
<1>2. Holders(f) = {v}
  BY SetsNext, InHolders
<1>3. Cardinality({v}) = 1 /\ Cardinality({}) = 0
  BY DEF CountingLaws, EmptyLaw, SingleLaw
<1> QED
  BY <1>1, <1>2, <1>3, SMT DEF Owners

LEMMA CountedKept ==
    ASSUME Counted, free' = free, refs' = refs,
           \A v \in VMs : Owned(v)' = Owned(v),
           \A v \in VMs, p \in Pages : Frame(v, p)' = Frame(v, p)
    PROVE  Counted'
<1>1. \A f : Owners(f)' = Owners(f)
  BY OwnersSame
<1> QED
  BY <1>1 DEF Counted, Refs

LEMMA OpEnd ==
    ASSUME TypeOK, NEW v \in VMs, End(v)
    PROVE  op' \in [VMs -> Ops] /\ OpEnded(v) /\ OtherOpsKept(v)
<1>1. op' \in [VMs -> Ops] /\ op'[v] = NoOp /\ \A w \in VMs : w # v => op'[w] = op[w]
  BY NoOpType DEF TypeOK, End
<1>2. OpEnded(v)
  BY <1>1, SMT DEF OpEnded, NoOp, Kind, Stage, Todo, New, From, Old, Hold
<1>3. OtherOpsKept(v)
  BY <1>1 DEF OtherOpsKept, OpKept, Kind, Runner, Stage, PageOf, New, From, Old, Hold, Child, Todo
<1> QED
  BY <1>1, <1>2, <1>3

(* Only the operation of v changes. *)
LEMMA OwnersHeld ==
    ASSUME CountingLaws, NEW v \in VMs, NEW f,
           \A u \in VMs : u # v => Owned(u)' = Owned(u),
           \A u \in VMs, q \in Pages : Frame(u, q)' = Frame(u, q)
    PROVE  Owners(f)' = Owners(f) + Count(f \in Owned(v)') - Count(f \in Owned(v))
<1>1. \A m \in VMs \X Pages : Frame(m[1], m[2])' = Frame(m[1], m[2])
  OBVIOUS
<1>2. \A m \in VMs \X Pages : m \in Mappings(f)' <=> m \in Mappings(f)
  BY <1>1, InMappings, InMappingsNext, SMT
<1>3. Mappings(f)' = Mappings(f)
  BY <1>2, SetsNext
<1>4. Cardinality(Holders(f)') = Cardinality(Holders(f))
          + (IF f \in Owned(v)' THEN 1 ELSE 0) - (IF f \in Owned(v) THEN 1 ELSE 0)
  BY HoldMoved
<1> QED
  BY <1>3, <1>4, MappingsFinite, SMT DEF Owners, Count
-----------------------------------------------------------------------------
LEMMA InitIInv == ASSUME CountingLaws, Init PROVE IInv
<1>1. TypeOK
  <2>1. [v \in VMs |-> NoOp] \in [VMs -> Ops]
    BY NoOpType
  <2>2. [v \in VMs |-> [p \in Pages |-> Unmapped]] \in [VMs -> [Pages -> Entries]]
    BY UncachedType
  <2>3. \A v \in VMs : tlb[v] \in [Threads[v] -> [Pages -> CacheEntries]]
    <3> SUFFICES ASSUME NEW v \in VMs PROVE tlb[v] \in [Threads[v] -> [Pages -> CacheEntries]]
      OBVIOUS
    <3>1. [p \in Pages |-> Uncached] \in [Pages -> CacheEntries]
      BY UncachedType
    <3>2. tlb[v] = [t \in Threads[v] |-> [p \in Pages |-> Uncached]]
      BY DEF Init
    <3> QED
      BY <3>1, <3>2
  <2>4. tlb = [v \in VMs |-> tlb[v]]
    BY DEF Init
  <2> QED
    BY <2>1, <2>2, <2>3, <2>4 DEF Init, TypeOK
<1>2. \A v \in VMs, p \in Pages : Frame(v, p) = NoFrame /\ ~Writable(v, p)
  BY DEF Init, Unmapped, Frame, Writable
<1>3. \A v \in VMs : Kind(v) = "none" /\ Stage(v) = "none" /\ Quiet(v)
  BY DEF Init, NoOp, Quiet, Kind, Stage, New, From, Old, Hold
<1>4. \A v \in VMs : \A t \in Threads[v], p \in Pages :
        CFrame(v, t, p) = NoFrame /\ ~CWrite(v, t, p)
  BY DEF Init, Uncached, CFrame, CWrite
<1>5. Locals
  BY <1>2, <1>3, <1>4 DEF Locals, Local, Exact, OpExact, FaultExact, UnmapExact, ForkExact, LifeOf,
     Covered, CopyOf, Isolated, Quiet
<1>6. Exclusion
  BY <1>2, <1>3, <1>4 DEF Exclusion, ForksDistinct, SamePage, WriteExclusive, NewExclusive,
     CacheExclusive, Quiet
<1>7. Counted
  <2>1. \A f \in Frames : Owners(f) = 0
    BY <1>2, <1>3, Unowned, SMT DEF Quiet, Owned
  <2>2. \A f \in Frames : Refs(f) = 0
    BY DEF Init, Refs
  <2>3. free = Frames
    BY DEF Init
  <2> QED
    BY <2>1, <2>2, <2>3, SMT DEF Counted
<1> QED
  BY <1>1, <1>5, <1>6, <1>7 DEF IInv
-----------------------------------------------------------------------------
(* A fault that has recorded what it copies. *)
LEMMA Copying ==
    ASSUME IInv, NEW v \in VMs, From(v) # NoFrame
    PROVE  /\ Kind(v) = "fault" /\ Stage(v) \in {"check", "copy"}
           /\ PageOf(v) \in Pages /\ Frame(v, PageOf(v)) # NoFrame
           /\ From(v) \in Frames /\ Old(v) = NoFrame /\ Hold(v) = NoFrame
           /\ Stage(v) = "check" => New(v) \in Frames
BY Facts DEF IInv, Locals, Local, Exact, OpExact, FaultExact, UnmapExact, ForkExact, Quiet, Typed,
      AnyFrame

(* A frame with a count above one is written by nobody: cow_handle_fault   *)
(* may copy it without the lock.                                           *)
LEMMA SharedReadOnly ==
    ASSUME CountingLaws, IInv, NEW v \in VMs, MustCopy(v)
    PROVE  /\ Kind(v) = "fault" /\ Stage(v) = "check"
           /\ PageOf(v) \in Pages /\ Frame(v, PageOf(v)) \in Frames
           /\ Hold(v) = NoFrame /\ Old(v) = NoFrame
           /\ Owners(Frame(v, PageOf(v))) > 1
           /\ Refs(Frame(v, PageOf(v))) = Owners(Frame(v, PageOf(v)))
           /\ ~Writable(v, PageOf(v))
           /\ \A t \in Threads[v] : ~CWrite(v, t, PageOf(v))
<1> DEFINE p == PageOf(v)
           f == Frame(v, p)
<1>1. Kind(v) = "fault" /\ Stage(v) = "check" /\ Refs(f) > 1
  BY DEF MustCopy, Checking, Kind, Stage, Refs, Frame, PageOf
<1>2. p \in Pages /\ f # NoFrame /\ Hold(v) = NoFrame /\ Old(v) = NoFrame
  BY <1>1 DEF IInv, Locals, Local, Exact, FaultExact
<1>3. f \in Frames /\ Refs(f) \in Nat
  BY <1>2, Facts DEF Typed, AnyFrame
<1>4. Owners(f) > 1 /\ Refs(f) = Owners(f)
  BY <1>1, <1>3, OwnersType, SMT DEF IInv, Counted
<1>5. ASSUME Writable(v, p) PROVE FALSE
  <2>1. \A w \in VMs, q \in Pages : Frame(w, q) = f => w = v /\ q = p
    BY <1>2, <1>5 DEF IInv, Exclusion, WriteExclusive
  <2>2. \A w \in VMs : f \notin Owned(w)
    BY <1>2, <1>5 DEF IInv, Exclusion, WriteExclusive
  <2>3. Owners(f) <= 1
    BY <1>2, <2>1, <2>2, LoneOwner
  <2> QED
    BY <1>4, <2>3, OwnersType, SMT
<1>6. ASSUME NEW t \in Threads[v], CWrite(v, t, p) PROVE FALSE
  <2>1. Reached(v, p, CFrame(v, t, p))
    BY <1>2, <1>6 DEF IInv, Exclusion, CacheExclusive
  <2>2. CFrame(v, t, p) = f
    BY <1>1, <1>2, <2>1 DEF IInv, Locals, Local, Covered, Stale, Reached
  <2>3. /\ \A w \in VMs, q \in Pages : Frame(w, q) = f => w = v /\ q = p
        /\ \A w \in VMs : f \notin Owned(w)
    BY <1>1, <2>1, <2>2 DEF Reached, Forking
  <2>4. Owners(f) <= 1
    BY <1>2, <2>3, LoneOwner
  <2> QED
    BY <1>4, <2>4, OwnersType, SMT
<1> QED
  BY <1>1, <1>2, <1>3, <1>4, <1>5, <1>6

(* A free frame has no count, and nobody can write it. *)
LEMMA FreeUnreached ==
    ASSUME CountingLaws, IInv, NEW f \in free
    PROVE  /\ f \in Frames /\ Refs(f) = 0 /\ Owners(f) = 0
           /\ \A v \in VMs, p \in Pages : Frame(v, p) # f
           /\ \A v \in VMs : f \notin Owned(v)
           /\ \A v \in VMs : \A t \in Threads[v], p \in Pages :
                CWrite(v, t, p) => CFrame(v, t, p) # f
<1>1. f \in Frames /\ Refs(f) \in Nat
  BY Facts DEF Typed
<1>2. Owners(f) = 0 /\ Refs(f) = 0
  BY <1>1, SMT DEF IInv, Counted
<1>3. /\ \A v \in VMs, p \in Pages : Frame(v, p) # f
      /\ \A v \in VMs : f \notin Owned(v)
  BY <1>2, Unowned
<1>4. \A v \in VMs : \A t \in Threads[v], p \in Pages : CWrite(v, t, p) => CFrame(v, t, p) # f
  BY <1>1, <1>3 DEF IInv, Locals, Local, Covered, Stale, Owned
<1> QED
  BY <1>1, <1>2, <1>3, <1>4
-----------------------------------------------------------------------------
(* What carries over to the next state. *)
LEMMA ExactKept ==
    ASSUME IInv, NEW v \in VMs, OpKept(v), Live(v)' = Live(v), \A p \in Pages : EntryKept(v, p),
           \A w \in VMs : Forking(v, w) => Live(w)' = Live(w) /\ \A p \in Pages :
             EntryKept(w, p) \/ (Stage(v) = "undo" /\ Frame(w, p)' = NoFrame)
    PROVE  Exact(v)'
<1>1. Exact(v)
  BY DEF IInv, Locals, Local
<1>2. OpExact(v)' /\ FaultExact(v)' /\ UnmapExact(v)'
  BY <1>1 DEF Exact, OpExact, FaultExact, UnmapExact, OpKept, Quiet, EntryKept
<1>3. ForkExact(v)'
  <2> SUFFICES ASSUME Kind(v) = "fork" PROVE ForkExact(v)'
    BY DEF ForkExact, OpKept
  <2>1. PICK w \in VMs : w = Child(v)
    BY Facts DEF Typed
  <2>2. Live(w)' = Live(w) /\ \A p \in Pages :
          EntryKept(w, p) \/ (Stage(v) = "undo" /\ Frame(w, p)' = NoFrame)
    BY <2>1 DEF Forking
  <2> QED
    BY <1>1, <2>1, <2>2 DEF Exact, ForkExact, OpKept, EntryKept, Quiet
<1> QED
  BY <1>2, <1>3 DEF Exact

LEMMA LocalKept ==
    ASSUME IInv, NEW v \in VMs, SpaceKept(v),
           \A w \in VMs : Forking(v, w) => Live(w)' = Live(w) /\ \A p \in Pages :
             EntryKept(w, p) \/ (Stage(v) = "undo" /\ Frame(w, p)' = NoFrame),
           Live(v) = "live" => \A f \in Frames : Owner(v, f) => Content(f)' = Content(f)
    PROVE  Local(v)'
<1>1. Exact(v) /\ LifeOf(v) /\ Covered(v) /\ CopyOf(v) /\ Isolated(v)
  BY DEF IInv, Locals, Local
<1>2. OpKept(v) /\ Live(v)' = Live(v) /\ \A p \in Pages : EntryKept(v, p)
  BY DEF SpaceKept
<1>3. Exact(v)'
  BY <1>2, ExactKept
<1>4. LifeOf(v)' /\ Covered(v)'
  BY <1>1, <1>2 DEF LifeOf, Covered, Stale, SpaceKept, OpKept, EntryKept, CacheKept, CacheGone
<1>5. CopyOf(v)'
  <2>1. From(v) # NoFrame =>
          /\ Live(v) = "live" /\ PageOf(v) \in Pages /\ From(v) \in Frames /\ Owner(v, From(v))
          /\ Stage(v) = "check" => New(v) \in Frames /\ Owner(v, New(v))
    BY <1>1, Copying DEF Exact, OpExact, CopyOf, Owner, Owned
  <2>2. Kind(v) = "unmap" =>
          Live(v) = "live" /\ PageOf(v) \in Pages /\ Hold(v) \in Frames /\ Owner(v, Hold(v))
    BY <1>1 DEF Exact, OpExact, UnmapExact, Owner, Owned
  <2> QED
    BY <1>1, <1>2, <2>1, <2>2 DEF CopyOf, OpKept, EntryKept, SpaceKept, CacheKept, CacheGone
<1>6. Isolated(v)'
  <2>1. \A p \in Pages : Frame(v, p) # NoFrame => Frame(v, p) \in Frames /\ Owner(v, Frame(v, p))
    BY Facts DEF Typed, AnyFrame, Owner
  <2> QED
    BY <1>1, <1>2, <2>1 DEF Isolated, EntryKept, SpaceKept
<1> QED
  BY <1>3, <1>4, <1>5, <1>6 DEF Local

LEMMA KeptShrinks == ASSUME NEW v \in VMs, SpaceKept(v) PROVE Shrinks(v)
BY DEF SpaceKept, Shrinks, OpKept, EntryKept, CacheKept, CacheGone, Forking

LEMMA ExclusionKept ==
    ASSUME IInv, \A v \in VMs : Shrinks(v),
           \A v \in VMs, f \in Frames : New(v) = f /\ New(v)' = f => Refs(f)' = Refs(f)
    PROVE  SamePage' /\ WriteExclusive' /\ NewExclusive' /\ CacheExclusive'
<1>1. /\ \A v \in VMs, p \in Pages : Frame(v, p)' \in {Frame(v, p), NoFrame}
      /\ \A v \in VMs : Owned(v)' \subseteq Owned(v) \cup {NoFrame}
  BY DEF Shrinks, Owned
<1>2. SamePage'
  <2>1. \A v \in VMs : Kind(v) = "unmap" => Hold(v) # NoFrame
    BY DEF IInv, Locals, Local, Exact, UnmapExact
  <2> QED
    BY <1>1, <2>1, SMT DEF IInv, Exclusion, SamePage, Shrinks
<1>3. WriteExclusive'
  BY <1>1, SMT DEF IInv, Exclusion, WriteExclusive, Shrinks
<1>4. NewExclusive'
  BY <1>1, Facts, SMT DEF IInv, Exclusion, NewExclusive, Shrinks, Typed, AnyFrame
<1>5. CacheExclusive'
  <2> SUFFICES ASSUME NEW v \in VMs, NEW t \in Threads[v], NEW p \in Pages, CWrite(v, t, p)'
               PROVE  Reached(v, p, CFrame(v, t, p))'
    BY DEF CacheExclusive
  <2>1. CFrame(v, t, p)' = CFrame(v, t, p) /\ Reached(v, p, CFrame(v, t, p))
    BY DEF Shrinks, IInv, Exclusion, CacheExclusive
  <2>2. Kind(v) = "unmap" => New(v) = NoFrame
    BY DEF IInv, Locals, Local, Exact, UnmapExact
  <2> QED
    BY <1>1, <2>1, <2>2, SMT DEF Reached, Shrinks, Owned
<1> QED
  BY <1>2, <1>3, <1>4, <1>5

(* What a step leaves alone that only changes an operation. *)
MemoryKept ==
    /\ EntriesKept /\ \A v \in VMs : Live(v)' = Live(v)
    /\ \A v, p : Value(v, p)' = Value(v, p)
    /\ \A f : Content(f)' = Content(f)

LEMMA MemorySame == ASSUME UNCHANGED <<pte, content, live, value>> PROVE MemoryKept
BY PteSame, ContentSame, LiveSame, ValueSame DEF MemoryKept

LEMMA OpStep ==
    ASSUME IInv, NEW v \in VMs, TypeOK', OtherOpsKept(v), MemoryKept, CachesShrink,
           Exact(v)', Covered(v)', CopyOf(v)', Shrinks(v),
           Kind(v)' = "fork" => Kind(v) = "fork" /\ Child(v)' = Child(v),
           \A w \in VMs, f \in Frames : New(w) = f /\ New(w)' = f => Refs(f)' = Refs(f),
           Counted'
    PROVE  IInv'
<1>1. ASSUME NEW w \in VMs, w # v PROVE SpaceKept(w)
  BY <1>1 DEF SpaceKept, OtherOpsKept, MemoryKept, EntriesKept, CachesShrink
<1>2. ASSUME NEW w \in VMs, w # v PROVE Local(w)'
  BY <1>1, <1>2, LocalKept DEF MemoryKept, EntriesKept
<1>3. LifeOf(v)' /\ Isolated(v)'
  <2>1. LifeOf(v) /\ Isolated(v)
    BY DEF IInv, Locals, Local
  <2> QED
    BY <2>1 DEF LifeOf, Isolated, MemoryKept, EntriesKept, EntryKept, CachesShrink, CacheKept,
                CacheGone
<1>4. \A w \in VMs : Shrinks(w)
  BY <1>1, KeptShrinks
<1>5. SamePage' /\ WriteExclusive' /\ NewExclusive' /\ CacheExclusive'
  BY <1>4, ExclusionKept
<1>6. ForksDistinct'
  BY DEF IInv, Exclusion, ForksDistinct, OtherOpsKept, OpKept
<1> QED
  BY <1>2, <1>3, <1>5, <1>6 DEF IInv, Locals, Local, Exclusion

(* The steps on v leave the other address spaces alone, and v is no clone. *)
LEMMA OthersKept ==
    ASSUME IInv, NEW v \in VMs, Live(v) # "clone", \A w \in VMs : w # v => SpaceKept(w),
           \A w \in VMs, f \in Frames :
             w # v /\ Live(w) = "live" /\ Owner(w, f) => Content(f)' = Content(f)
    PROVE  \A w \in VMs : w # v => Local(w)'
<1>1. \A w, u \in VMs : Forking(w, u) => u # v
  BY DEF IInv, Locals, Local, Exact, ForkExact, Forking
<1> SUFFICES ASSUME NEW w \in VMs, w # v PROVE Local(w)'
  OBVIOUS
<1>2. \A u \in VMs : Forking(w, u) => Live(u)' = Live(u) /\ \A p \in Pages : EntryKept(u, p)
  BY <1>1 DEF SpaceKept
<1> QED
  BY <1>2, LocalKept
-----------------------------------------------------------------------------
(* The effects of the assignments that several actions share. *)
LEMMA EntrySet ==
    ASSUME IInv, NEW v \in VMs, NEW p \in Pages, NEW f \in AnyFrame, NEW b \in BOOLEAN,
           NEW c \in BOOLEAN, pte' = [pte EXCEPT ![v][p] = [frame |-> f, write |-> b, cow |-> c]]
    PROVE  /\ pte' \in [VMs -> [Pages -> Entries]]
           /\ Frame(v, p)' = f /\ Writable(v, p)' = b /\ OtherEntriesKept(v, p)
<1> DEFINE e == [frame |-> f, write |-> b, cow |-> c]
<1>1. e \in Entries /\ e.frame = f /\ e.write = b
  BY DEF Entries
<1>2. pte' = [pte EXCEPT ![v][p] = e]
  OBVIOUS
<1> HIDE DEF e
<1>3. /\ pte' \in [VMs -> [Pages -> Entries]] /\ pte'[v][p] = e
      /\ \A w \in VMs, q \in Pages : w # v \/ q # p => pte'[w][q] = pte[w][q]
  BY <1>1, <1>2, SMT DEF IInv, TypeOK
<1> QED
  BY <1>1, <1>3 DEF Frame, Writable, OtherEntriesKept, EntryKept

CachesTyped ==
    /\ tlb = [w \in VMs |-> tlb[w]]
    /\ \A w \in VMs : tlb[w] \in [Threads[w] -> [Pages -> CacheEntries]]

LEMMA CacheDropped ==
    ASSUME IInv, NEW v \in VMs, NEW t \in Threads[v], NEW p \in Pages,
           tlb' = [tlb EXCEPT ![v][t][p] = Uncached]
    PROVE  /\ CachesTyped' /\ CachesShrink /\ CacheGone(v, t, p)
           /\ \A w \in VMs : \A u \in Threads[w], q \in Pages :
                w # v \/ u # t \/ q # p => CacheKept(w, u, q)
<1>1. /\ CachesTyped' /\ tlb'[v][t][p] = Uncached
      /\ \A w \in VMs : \A u \in Threads[w], q \in Pages :
           w # v \/ u # t \/ q # p => tlb'[w][u][q] = tlb[w][u][q]
  BY UncachedType DEF IInv, TypeOK, CachesTyped
<1>2. CacheGone(v, t, p)
  BY <1>1, UncachedType DEF CacheGone, CFrame, CWrite
<1>3. \A w \in VMs : \A u \in Threads[w], q \in Pages :
        w # v \/ u # t \/ q # p => CacheKept(w, u, q)
  BY <1>1 DEF CacheKept, CFrame, CWrite
<1> QED
  BY <1>1, <1>2, <1>3 DEF CachesShrink

LEMMA ThreadFlushed ==
    ASSUME IInv, NEW v \in VMs, NEW t \in Threads[v], FlushThread(v, t)
    PROVE  /\ CachesTyped' /\ CachesShrink
           /\ \A p \in Pages : CacheGone(v, t, p)
<1>1. /\ CachesTyped' /\ \A p \in Pages : tlb'[v][t][p] = Uncached
      /\ \A w \in VMs : \A u \in Threads[w], q \in Pages :
           w # v \/ u # t => tlb'[w][u][q] = tlb[w][u][q]
  BY UncachedType DEF IInv, TypeOK, CachesTyped, FlushThread
<1>2. \A p \in Pages : CacheGone(v, t, p)
  BY <1>1, UncachedType DEF CacheGone, CFrame, CWrite
<1>3. \A w \in VMs : \A u \in Threads[w], q \in Pages : w # v \/ u # t => CacheKept(w, u, q)
  BY <1>1 DEF CacheKept, CFrame, CWrite
<1> QED
  BY <1>1, <1>2, <1>3 DEF CachesShrink

(* pfa_cow_release when its caller gives up one owner of the frame. *)
LEMMA Released ==
    ASSUME CountingLaws, IInv, NEW f \in Frames, Owners(f) >= 1, CowRelease(f),
           \A g \in Frames : Owners(g)' = Owners(g) - Count(g = f)
    PROVE  /\ refs' \in [Frames -> Nat] /\ free' \subseteq Frames
           /\ Counted' /\ \A g \in Frames : g # f => Refs(g)' = Refs(g)
<1>1. refs' = [refs EXCEPT ![f] = IF refs[f] > 2 THEN refs[f] - 1 ELSE 0]
  BY DEF CowRelease
<1>2. refs \in [Frames -> Nat] /\ free \subseteq Frames
  BY DEF IInv, TypeOK
<1>3. refs' \in [Frames -> Nat] /\ \A g \in Frames : g # f => Refs(g)' = Refs(g)
  BY <1>1, <1>2, SMT DEF Refs
<1>4. Refs(f)' = (IF Refs(f) > 2 THEN Refs(f) - 1 ELSE 0) /\ Refs(f) \in Nat
  BY <1>1, <1>2 DEF Refs
<1>5. free' = IF Refs(f) <= 1 THEN free \cup {f} ELSE free
  BY DEF CowRelease, Refs
<1>6. ASSUME NEW g \in Frames
      PROVE  /\ g \in free' <=> Owners(g)' = 0
             /\ Owners(g)' >= 2 => Refs(g)' = Owners(g)'
             /\ Owners(g)' <= 1 => Refs(g)' <= Owners(g)'
  <2>1. CASE g = f
    <3>1. Owners(f)' = Owners(f) - 1 /\ Owners(f) \in Nat
      BY OwnersType DEF Count
    <3>2. /\ f \notin free /\ (Owners(f) >= 2 => Refs(f) = Owners(f))
          /\ Owners(f) <= 1 => Refs(f) <= Owners(f)
      BY <3>1, SMT DEF IInv, Counted
    <3> QED
      BY <1>4, <1>5, <2>1, <3>1, <3>2, SMT
  <2>2. CASE g # f
    <3>1. Owners(g)' = Owners(g)
      BY <2>2, OwnersType, SMT DEF Count
    <3> QED
      BY <1>3, <1>5, <2>2, <3>1 DEF IInv, Counted
  <2> QED
    BY <2>1, <2>2
<1> QED
  BY <1>2, <1>3, <1>5, <1>6 DEF Counted

(* A fault gives the copy back that it has made. *)
LEMMA GivenBack ==
    ASSUME CountingLaws, IInv, NEW v \in VMs, Kind(v) = "fault", GiveBack(New(v)),
           OtherOpsKept(v), OpEnded(v),
           \A w \in VMs, q \in Pages : Frame(w, q)' = Frame(w, q),
           \A g \in Frames : Refs(g)' = Refs(g) \/ (Refs(g)' = 0 /\ Owners(g) = 1 /\ g # New(v))
    PROVE  free' \subseteq Frames /\ Counted'
<1>1. Owned(v) = {New(v), NoFrame} /\ Owned(v)' = {NoFrame}
  BY DEF IInv, Locals, Local, Exact, FaultExact, Owned, OpEnded
<1>2. \A w \in VMs : w # v => Owned(w)' = Owned(w)
  BY DEF OtherOpsKept, OpKept, Owned
<1>3. free' = (IF New(v) = NoFrame THEN free ELSE free \cup {New(v)}) /\ New(v) \in AnyFrame
  BY Facts DEF GiveBack, Typed
<1>4. free' \subseteq Frames
  BY <1>3, Facts DEF AnyFrame, Typed
<1>5. ASSUME NEW g \in Frames
      PROVE  /\ g \in free' <=> Owners(g)' = 0
             /\ Owners(g)' >= 2 => Refs(g)' = Owners(g)'
             /\ Owners(g)' <= 1 => Refs(g)' <= Owners(g)'
  <2>1. Owners(g)' = Owners(g) + Count(g \in Owned(v)') - Count(g \in Owned(v))
    BY <1>2, OwnersHeld
  <2>2. CASE g = New(v)
    <3>1. New(v) # NoFrame /\ Refs(g) = 0
      BY <2>2 DEF IInv, Exclusion, NewExclusive
    <3>2. Owners(g) = 1
      BY <1>1, <2>2, <3>1, LoneHolder DEF IInv, Exclusion, NewExclusive
    <3> QED
      BY <1>1, <1>3, <2>1, <2>2, <3>1, <3>2, SMT DEF Count
  <2>3. CASE g # New(v)
    <3>1. Owners(g)' = Owners(g)
      BY <1>1, <2>1, <2>3, OwnersType, SMT DEF Count
    <3> QED
      BY <1>3, <2>3, <3>1, OwnersType, SMT DEF IInv, Counted
  <2> QED
    BY <2>2, <2>3
<1> QED
  BY <1>4, <1>5 DEF Counted

LEMMA OpSet ==
    ASSUME TypeOK, NEW v \in VMs, NEW o \in Ops, op' = [op EXCEPT ![v] = o]
    PROVE  op' \in [VMs -> Ops] /\ op'[v] = o /\ OtherOpsKept(v)
<1>1. op' \in [VMs -> Ops] /\ op'[v] = o /\ \A w \in VMs : w # v => op'[w] = op[w]
  BY DEF TypeOK
<1>2. OtherOpsKept(v)
  BY <1>1 DEF OtherOpsKept, OpKept, Kind, Runner, Stage, PageOf, New, From, Old, Hold, Child, Todo
<1> QED
  BY <1>1, <1>2

(* One element of op->todo is done. *)
LEMMA TodoLess ==
    ASSUME IInv, NEW v \in VMs, NEW x,
           op' = [op EXCEPT ![v] = [op[v] EXCEPT !.todo = @ \ {x}]]
    PROVE  /\ op' \in [VMs -> Ops] /\ OtherOpsKept(v)
           /\ Kind(v)' = Kind(v) /\ Runner(v)' = Runner(v) /\ Stage(v)' = Stage(v)
           /\ PageOf(v)' = PageOf(v) /\ New(v)' = New(v) /\ From(v)' = From(v)
           /\ Old(v)' = Old(v) /\ Hold(v)' = Hold(v) /\ Child(v)' = Child(v)
           /\ Todo(v)' = Todo(v) \ {x}
<1> DEFINE s == op[v].todo \ {x}
           o == [op[v] EXCEPT !.todo = @ \ {x}]
<1>1. op[v] \in Ops
  BY DEF IInv, TypeOK
<1>2. op[v].todo \in SUBSET (Pages \cup AllThreads)
  BY <1>1 DEF Ops
<1>3. s \in SUBSET (Pages \cup AllThreads)
  BY <1>2
<1>4. op' = [op EXCEPT ![v] = o]
  OBVIOUS
<1>5. o \in Ops /\ o.todo = s
  BY <1>1, <1>3 DEF Ops
<1>6. /\ o.kind = op[v].kind /\ o.by = op[v].by /\ o.stage = op[v].stage
      /\ o.page = op[v].page /\ o.new = op[v].new /\ o.from = op[v].from
      /\ o.old = op[v].old /\ o.hold = op[v].hold /\ o.child = op[v].child
  BY <1>1 DEF Ops
<1> HIDE DEF o
<1>7. op' \in [VMs -> Ops] /\ op'[v] = o /\ OtherOpsKept(v)
  BY <1>4, <1>5, OpSet DEF IInv
<1> QED
  BY <1>5, <1>6, <1>7 DEF Kind, Runner, Stage, PageOf, New, From, Old, Hold, Child, Todo

(* What a fork under way knows of its clone. *)
LEMMA ForkStays ==
    ASSUME IInv, NEW v \in VMs, MemoryKept,
           Kind(v)' = Kind(v), Child(v)' = Child(v), New(v)' = New(v), From(v)' = From(v),
           Old(v)' = Old(v), Hold(v)' = Hold(v),
           Kind(v) = "fork" =>
             \/ Stage(v)' = "undo"
             \/ Stage(v)' = "flush" /\ (Stage(v) = "flush" \/ \A p \in Pages : ~Writable(v, p))
    PROVE  ForkExact(v)'
<1> SUFFICES ASSUME Kind(v) = "fork" PROVE ForkExact(v)'
  BY DEF ForkExact
<1>1. PICK c \in VMs : c = Child(v)
  BY Facts DEF Typed
<1>2. ForkExact(v)
  BY DEF IInv, Locals, Local, Exact
<1>3. Live(c)' = Live(c) /\ \A p \in Pages : EntryKept(v, p) /\ EntryKept(c, p)
  BY DEF MemoryKept, EntriesKept
<1> QED
  BY <1>1, <1>2, <1>3 DEF ForkExact, EntryKept, Quiet
-----------------------------------------------------------------------------
(* The steps that change an operation, but no page table. *)
LEMMA FaultKept ==
    ASSUME IInv, NEW v \in VMs, NEW t \in Threads[v], NEW p \in Pages, Fault(v, t, p)
    PROVE  IInv'
<1> DEFINE o == [[NoOp EXCEPT !.kind = "fault", !.stage = "check", !.page = p] EXCEPT !.by = t]
<1>1. Live(v) = "live" /\ Kind(v) = "none" /\ Frame(v, p) # NoFrame
  BY DEF Fault, Begin, Mapped, Live, Kind, Frame
<1>2. UNCHANGED <<pte, refs, free, content, tlb, live, value>> /\ op' = [op EXCEPT ![v] = o]
  BY DEF Fault, Begin
<1>3. MemoryKept /\ CachesShrink /\ \A g : Refs(g)' = Refs(g)
  BY <1>2, MemorySame, TlbSame, RefsSame
<1>4. NoOp \in Ops /\ t \in AllThreads
  BY NoOpType DEF AllThreads
<1>5. o \in Ops
  BY <1>4 DEF Ops
<1>6. op' \in [VMs -> Ops] /\ op'[v] = o /\ OtherOpsKept(v)
  BY <1>2, <1>5, OpSet DEF IInv
<1>7. /\ Kind(v)' = "fault" /\ Runner(v)' = t /\ Stage(v)' = "check" /\ PageOf(v)' = p
      /\ New(v)' = NoFrame /\ From(v)' = NoFrame /\ Old(v)' = NoFrame /\ Hold(v)' = NoFrame
  BY <1>6 DEF NoOp, Kind, Runner, Stage, PageOf, New, From, Old, Hold
<1> HIDE DEF o
<1>8. Stage(v) = "none" /\ Quiet(v) /\ Covered(v)
  BY <1>1 DEF IInv, Locals, Local, Exact, OpExact
<1>9. TypeOK'
  BY <1>2, <1>6 DEF IInv, TypeOK
<1>10. Exact(v)'
  BY <1>1, <1>3, <1>7 DEF Exact, OpExact, FaultExact, UnmapExact, ForkExact, MemoryKept,
     EntriesKept, EntryKept
<1>11. Covered(v)' /\ CopyOf(v)'
  BY <1>3, <1>7, <1>8 DEF Covered, Stale, CopyOf, MemoryKept, EntriesKept, EntryKept, CachesShrink,
     CacheKept, CacheGone
<1>12. Shrinks(v)
  BY <1>1, <1>3, <1>7 DEF Shrinks, Forking, MemoryKept, EntriesKept, EntryKept, CachesShrink,
     CacheKept, CacheGone
<1>13. Counted'
  BY <1>2, <1>3, <1>6, <1>7, <1>8, CountedKept DEF IInv, Owned, Quiet, OtherOpsKept, OpKept,
     MemoryKept, EntriesKept, EntryKept
<1> QED
  BY <1>3, <1>6, <1>7, <1>9, <1>10, <1>11, <1>12, <1>13, OpStep

LEMMA FaultToCopyKept ==
    ASSUME CountingLaws, IInv, NEW v \in VMs, FaultToCopy(v)
    PROVE  IInv'
<1> DEFINE f == Frame(v, PageOf(v))
           o == [op[v] EXCEPT !.stage = "copy", !.from = f]
<1>1. /\ Kind(v) = "fault" /\ Stage(v) = "check" /\ PageOf(v) \in Pages
      /\ f \in Frames /\ Hold(v) = NoFrame /\ Old(v) = NoFrame
      /\ ~Writable(v, PageOf(v)) /\ \A t \in Threads[v] : ~CWrite(v, t, PageOf(v))
  BY SharedReadOnly DEF FaultToCopy
<1>2. UNCHANGED <<pte, refs, free, content, tlb, live, value>> /\ op' = [op EXCEPT ![v] = o]
  BY DEF FaultToCopy, Frame, PageOf
<1>3. MemoryKept /\ CachesShrink /\ \A g : Refs(g)' = Refs(g)
  BY <1>2, MemorySame, TlbSame, RefsSame
<1>4. op[v] \in Ops /\ f \in AnyFrame
  BY <1>1 DEF IInv, TypeOK, AnyFrame
<1>5. o \in Ops
  BY <1>4 DEF Ops
<1>6. op' \in [VMs -> Ops] /\ op'[v] = o /\ OtherOpsKept(v)
  BY <1>2, <1>5, OpSet DEF IInv
<1>7. /\ Stage(v)' = "copy" /\ From(v)' = f /\ New(v)' = New(v)
      /\ Kind(v)' = Kind(v) /\ Runner(v)' = Runner(v) /\ PageOf(v)' = PageOf(v)
      /\ Old(v)' = Old(v) /\ Hold(v)' = Hold(v)
  BY <1>4, <1>6 DEF Ops, Kind, Runner, Stage, PageOf, New, From, Old, Hold
<1> HIDE DEF o
<1>8. OpExact(v) /\ FaultExact(v) /\ Covered(v)
  BY DEF IInv, Locals, Local, Exact
<1>9. TypeOK'
  BY <1>2, <1>6 DEF IInv, TypeOK
<1>10. Exact(v)'
  BY <1>1, <1>3, <1>7, <1>8 DEF Exact, OpExact, FaultExact, UnmapExact, ForkExact, MemoryKept,
     EntriesKept, EntryKept
<1>11. Covered(v)' /\ CopyOf(v)'
  BY <1>1, <1>3, <1>7, <1>8 DEF Covered, Stale, CopyOf, MemoryKept, EntriesKept, EntryKept,
     CachesShrink, CacheKept, CacheGone
<1>12. Shrinks(v)
  BY <1>1, <1>3, <1>7 DEF Shrinks, Forking, MemoryKept, EntriesKept, EntryKept, CachesShrink,
     CacheKept, CacheGone
<1>13. Counted'
  BY <1>2, <1>3, <1>6, <1>7, CountedKept DEF IInv, Owned, OtherOpsKept, OpKept,
     MemoryKept, EntriesKept, EntryKept
<1> QED
  BY <1>1, <1>3, <1>6, <1>7, <1>9, <1>10, <1>11, <1>12, <1>13, OpStep

(* A fault ends without a change, and gives back the copy it made. *)
LEMMA FaultEndsKept ==
    ASSUME CountingLaws, IInv, NEW v \in VMs, Kind(v) = "fault",
           Stage(v) = "flush" => Todo(v) = {}, GiveBack(New(v)), End(v),
           UNCHANGED <<pte, refs, content, tlb, live, value>>
    PROVE  IInv'
<1>1. MemoryKept /\ CachesShrink /\ \A g : Refs(g)' = Refs(g)
  BY MemorySame, TlbSame, RefsSame
<1>2. op' \in [VMs -> Ops] /\ OpEnded(v) /\ OtherOpsKept(v)
  BY OpEnd DEF IInv
<1>3. Counted' /\ free' \subseteq Frames
  BY <1>1, <1>2, GivenBack DEF MemoryKept, EntriesKept, EntryKept
<1>4. TypeOK'
  BY <1>2, <1>3 DEF IInv, TypeOK
<1>5. Exact(v)' /\ CopyOf(v)'
  BY <1>2 DEF Exact, OpExact, FaultExact, UnmapExact, ForkExact, CopyOf, Quiet, OpEnded
<1>6. Covered(v)'
  <2>1. Covered(v)
    BY DEF IInv, Locals, Local
  <2> QED
    BY <1>1, <1>2, <2>1 DEF Covered, Stale, OpEnded, MemoryKept, EntriesKept, EntryKept,
       CachesShrink, CacheKept, CacheGone
<1>7. Shrinks(v)
  BY <1>1, <1>2 DEF Shrinks, Forking, OpEnded, MemoryKept, EntriesKept, EntryKept, CachesShrink,
     CacheKept, CacheGone
<1> QED
  BY <1>1, <1>2, <1>3, <1>4, <1>5, <1>6, <1>7, OpStep DEF OpEnded

LEMMA UnmapEndKept ==
    ASSUME CountingLaws, IInv, NEW v \in VMs, UnmapEnd(v)
    PROVE  IInv'
<1>1. Kind(v) = "unmap" /\ Todo(v) = {} /\ UNCHANGED <<pte, content, tlb, live, value>>
  BY DEF UnmapEnd, Kind, Todo
<1>2. PICK f \in Frames : f = Hold(v) /\ New(v) = NoFrame
  BY <1>1 DEF IInv, Locals, Local, Exact, UnmapExact
<1>3. MemoryKept /\ CachesShrink
  BY <1>1, MemorySame, TlbSame
<1>4. op' \in [VMs -> Ops] /\ OpEnded(v) /\ OtherOpsKept(v)
  BY OpEnd DEF IInv, UnmapEnd
<1>5. /\ refs' \in [Frames -> Nat] /\ free' \subseteq Frames /\ Counted'
      /\ \A g \in Frames : g # f => Refs(g)' = Refs(g)
  <2>1. CowRelease(f)
    BY <1>2 DEF UnmapEnd, Hold
  <2>2. \A w \in VMs : w # v => Owned(w)' = Owned(w)
    BY <1>4 DEF OtherOpsKept, OpKept, Owned
  <2>3. Owned(v) = {f, NoFrame} /\ Owned(v)' = {NoFrame}
    BY <1>2, <1>4 DEF Owned, OpEnded
  <2>4. Owners(f) >= 1
    BY <2>3, Unowned, OwnersType, SMT
  <2>5. ASSUME NEW g \in Frames PROVE Owners(g)' = Owners(g) - Count(g = f)
    <3>1. Owners(g)' = Owners(g) + Count(g \in Owned(v)') - Count(g \in Owned(v))
      BY <1>3, <2>2, OwnersHeld DEF MemoryKept, EntriesKept, EntryKept
    <3> QED
      BY <2>3, <3>1, OwnersType, SMT DEF Count
  <2> QED
    BY <2>1, <2>4, <2>5, Released
<1>6. \A w \in VMs : New(w) # f
  BY <1>2 DEF IInv, Exclusion, NewExclusive, Owned
<1>7. TypeOK'
  BY <1>1, <1>4, <1>5 DEF IInv, TypeOK
<1>8. Exact(v)' /\ CopyOf(v)'
  BY <1>4 DEF Exact, OpExact, FaultExact, UnmapExact, ForkExact, CopyOf, Quiet, OpEnded
<1>9. Covered(v)'
  <2>1. Covered(v)
    BY DEF IInv, Locals, Local
  <2> QED
    BY <1>1, <1>3, <1>4, <2>1 DEF Covered, Stale, OpEnded, MemoryKept, EntriesKept, EntryKept,
       CachesShrink, CacheKept, CacheGone
<1>10. Shrinks(v)
  BY <1>1, <1>3, <1>4 DEF Shrinks, Forking, OpEnded, MemoryKept, EntriesKept, EntryKept,
     CachesShrink, CacheKept, CacheGone
<1> QED
  BY <1>3, <1>4, <1>5, <1>6, <1>7, <1>8, <1>9, <1>10, OpStep DEF OpEnded

LEMMA FlushKept ==
    ASSUME IInv, NEW v \in VMs, NEW t \in Threads[v], Flush(v, t)
    PROVE  IInv'
<1>1. /\ Stage(v) = "flush" /\ t \in Todo(v)
      /\ UNCHANGED <<pte, refs, free, content, live, value>>
  BY DEF Flush, Stage, Todo
<1>2. CachesTyped' /\ CachesShrink /\ \A p \in Pages : CacheGone(v, t, p)
  BY ThreadFlushed DEF Flush
<1>3. MemoryKept /\ \A g : Refs(g)' = Refs(g)
  BY <1>1, MemorySame, RefsSame
<1>4. op' \in [VMs -> Ops] /\ OtherOpsKept(v)
  BY TodoLess DEF Flush
<1>5. /\ Kind(v)' = Kind(v) /\ Runner(v)' = Runner(v) /\ Stage(v)' = Stage(v)
      /\ PageOf(v)' = PageOf(v) /\ New(v)' = New(v) /\ From(v)' = From(v)
      /\ Old(v)' = Old(v) /\ Hold(v)' = Hold(v) /\ Child(v)' = Child(v)
      /\ Todo(v)' = Todo(v) \ {t}
  BY TodoLess DEF Flush
<1>6. Exact(v) /\ Covered(v) /\ CopyOf(v) /\ From(v) = NoFrame
  BY <1>1, Copying DEF IInv, Locals, Local
<1>7. TypeOK'
  BY <1>1, <1>2, <1>4 DEF IInv, TypeOK, CachesTyped
<1>8. Exact(v)'
  <2>1. ForkExact(v)'
    BY <1>1, <1>3, <1>5, ForkStays
  <2> QED
    BY <1>3, <1>5, <1>6, <2>1 DEF Exact, OpExact, FaultExact, UnmapExact, Quiet, MemoryKept,
       EntriesKept, EntryKept
<1>9. Covered(v)'
  BY <1>2, <1>3, <1>5, <1>6 DEF Covered, Stale, MemoryKept, EntriesKept, EntryKept, CachesShrink,
     CacheKept, CacheGone
<1>10. CopyOf(v)'
  BY <1>3, <1>5, <1>6 DEF CopyOf, MemoryKept
<1>11. Shrinks(v)
  BY <1>2, <1>3, <1>5 DEF Shrinks, Forking, MemoryKept, EntriesKept, EntryKept, CachesShrink,
     CacheKept, CacheGone
<1>12. Counted'
  BY <1>1, <1>3, <1>4, <1>5, CountedKept DEF IInv, Owned, OtherOpsKept, OpKept, MemoryKept,
     EntriesKept, EntryKept
<1> QED
  BY <1>2, <1>3, <1>4, <1>5, <1>7, <1>8, <1>9, <1>10, <1>11, <1>12, OpStep

(* ForkFail and ForkNotFlushed: fork begins to undo. *)
LEMMA ForkAbortsKept ==
    ASSUME IInv, NEW v \in VMs, Kind(v) = "fork",
           op' = [op EXCEPT ![v] = [@ EXCEPT !.stage = "undo", !.todo = {}]],
           UNCHANGED <<pte, refs, free, content, tlb, live, value>>
    PROVE  IInv'
<1> DEFINE o == [op[v] EXCEPT !.stage = "undo", !.todo = {}]
<1>1. MemoryKept /\ CachesShrink /\ \A g : Refs(g)' = Refs(g)
  BY MemorySame, TlbSame, RefsSame
<1>2. op[v] \in Ops /\ op' = [op EXCEPT ![v] = o]
  BY DEF IInv, TypeOK
<1>3. o \in Ops
  BY <1>2 DEF Ops
<1>4. op' \in [VMs -> Ops] /\ op'[v] = o /\ OtherOpsKept(v)
  BY <1>2, <1>3, OpSet DEF IInv
<1>5. /\ Stage(v)' = "undo" /\ New(v)' = New(v) /\ From(v)' = From(v)
      /\ Kind(v)' = Kind(v) /\ Runner(v)' = Runner(v) /\ PageOf(v)' = PageOf(v)
      /\ Old(v)' = Old(v) /\ Hold(v)' = Hold(v) /\ Child(v)' = Child(v) /\ Todo(v)' = {}
  BY <1>2, <1>4 DEF Ops, Kind, Runner, Stage, PageOf, New, From, Old, Hold, Child, Todo
<1> HIDE DEF o
<1>6. Exact(v) /\ Covered(v) /\ Quiet(v)
  BY DEF IInv, Locals, Local, Exact, ForkExact
<1>7. TypeOK'
  BY <1>4 DEF IInv, TypeOK
<1>8. Exact(v)'
  <2>1. ForkExact(v)'
    BY <1>1, <1>5, ForkStays
  <2> QED
    BY <1>1, <1>5, <1>6, <2>1 DEF Exact, OpExact, FaultExact, UnmapExact, MemoryKept
<1>9. Covered(v)' /\ CopyOf(v)'
  BY <1>1, <1>5, <1>6 DEF Covered, Stale, CopyOf, Quiet, MemoryKept, EntriesKept, EntryKept,
     CachesShrink, CacheKept, CacheGone
<1>10. Shrinks(v)
  BY <1>1, <1>5 DEF Shrinks, Forking, MemoryKept, EntriesKept, EntryKept, CachesShrink,
     CacheKept, CacheGone
<1>11. Counted'
  BY <1>1, <1>4, <1>5, CountedKept DEF IInv, Owned, OtherOpsKept, OpKept, MemoryKept,
     EntriesKept, EntryKept
<1> QED
  BY <1>1, <1>4, <1>5, <1>7, <1>8, <1>9, <1>10, <1>11, OpStep

LEMMA ForkFlushKept ==
    ASSUME IInv, NEW v \in VMs, ForkFlush(v)
    PROVE  IInv'
<1> DEFINE o == [op[v] EXCEPT !.stage = "flush", !.todo = Threads[v] \ {Runner(v)}]
<1>1. /\ Kind(v) = "fork" /\ Stage(v) = "share" /\ Todo(v) = {}
      /\ UNCHANGED <<pte, refs, free, content, live, value>> /\ op' = [op EXCEPT ![v] = o]
  BY DEF ForkFlush, Sharing, Kind, Stage, Todo, Runner
<1>2. Exact(v) /\ Covered(v) /\ Quiet(v)
  BY <1>1 DEF IInv, Locals, Local, Exact, ForkExact
<1>3. PICK t \in Threads[v] : t = Runner(v)
  BY <1>1, <1>2 DEF Exact, OpExact
<1>4. \A p \in Pages : ~Writable(v, p)
  <2>1. \A p \in Pages : Writable(v, p) => Frame(v, p) # NoFrame
    BY DEF IInv, Exclusion, WriteExclusive
  <2>2. Child(v) \in VMs
    BY Facts DEF Typed
  <2> QED
    BY <1>1, <1>2, <2>1, <2>2 DEF Exact, ForkExact
<1>5. CachesTyped' /\ CachesShrink /\ \A p \in Pages : CacheGone(v, t, p)
  BY <1>3, ThreadFlushed DEF ForkFlush, Runner
<1>6. MemoryKept /\ \A g : Refs(g)' = Refs(g)
  BY <1>1, MemorySame, RefsSame
<1>7. op[v] \in Ops /\ Threads[v] \ {Runner(v)} \in SUBSET (Pages \cup AllThreads)
  BY DEF IInv, TypeOK, AllThreads
<1>8. o \in Ops
  BY <1>7 DEF Ops
<1>9. op' \in [VMs -> Ops] /\ op'[v] = o /\ OtherOpsKept(v)
  BY <1>1, <1>8, OpSet DEF IInv
<1>10. /\ Stage(v)' = "flush" /\ New(v)' = New(v) /\ From(v)' = From(v)
       /\ Kind(v)' = Kind(v) /\ Runner(v)' = Runner(v) /\ PageOf(v)' = PageOf(v)
       /\ Old(v)' = Old(v) /\ Hold(v)' = Hold(v) /\ Child(v)' = Child(v)
       /\ Todo(v)' = Threads[v] \ {t}
  BY <1>3, <1>7, <1>9 DEF Ops, Kind, Runner, Stage, PageOf, New, From, Old, Hold, Child, Todo
<1> HIDE DEF o
<1>11. TypeOK'
  BY <1>1, <1>5, <1>9 DEF IInv, TypeOK, CachesTyped
<1>12. Exact(v)'
  <2>1. ForkExact(v)'
    BY <1>4, <1>6, <1>10, ForkStays
  <2> QED
    BY <1>1, <1>2, <1>3, <1>6, <1>10, <2>1 DEF Exact, OpExact, FaultExact, UnmapExact, MemoryKept
<1>13. Covered(v)' /\ CopyOf(v)'
  BY <1>1, <1>2, <1>5, <1>6, <1>10 DEF Covered, Stale, CopyOf, Quiet, MemoryKept, EntriesKept,
     EntryKept, CachesShrink, CacheKept, CacheGone
<1>14. Shrinks(v)
  BY <1>1, <1>5, <1>6, <1>10 DEF Shrinks, Forking, MemoryKept, EntriesKept, EntryKept,
     CachesShrink, CacheKept, CacheGone
<1>15. Counted'
  BY <1>1, <1>6, <1>9, <1>10, CountedKept DEF IInv, Owned, OtherOpsKept, OpKept, MemoryKept,
     EntriesKept, EntryKept
<1> QED
  BY <1>1, <1>5, <1>6, <1>9, <1>10, <1>11, <1>12, <1>13, <1>14, <1>15, OpStep
-----------------------------------------------------------------------------
(* The steps of user code. *)
LEMMA FillKept ==
    ASSUME IInv, NEW v \in VMs, NEW t \in Threads[v], NEW p \in Pages, Fill(v, t, p)
    PROVE  IInv'
<1>1. /\ Live(v) = "live" /\ (Kind(v) = "none" \/ Runner(v) # t) /\ Frame(v, p) # NoFrame
      /\ UNCHANGED <<pte, refs, free, content, live, op, value>>
  BY DEF Fill, InUser, Mapped, Live, Kind, Runner, Frame
<1>2. MemoryKept /\ OpsKept /\ \A g : Refs(g)' = Refs(g)
  BY <1>1, MemorySame, OpSame, RefsSame
<1>3. /\ CachesTyped' /\ CFrame(v, t, p)' = Frame(v, p) /\ CWrite(v, t, p)' = Writable(v, p)
      /\ \A w \in VMs : \A u \in Threads[w], q \in Pages :
           w # v \/ u # t \/ q # p => CacheKept(w, u, q)
  <2> DEFINE e == [frame |-> Frame(v, p), write |-> Writable(v, p)]
  <2>1. e \in CacheEntries /\ e.frame = Frame(v, p) /\ e.write = Writable(v, p)
    BY Facts DEF Typed, CacheEntries
  <2>2. tlb' = [tlb EXCEPT ![v][t][p] = e]
    BY DEF Fill, Frame, Writable
  <2> HIDE DEF e
  <2>3. /\ CachesTyped' /\ tlb'[v][t][p] = e
        /\ \A w \in VMs : \A u \in Threads[w], q \in Pages :
             w # v \/ u # t \/ q # p => tlb'[w][u][q] = tlb[w][u][q]
    BY <2>1, <2>2 DEF IInv, TypeOK, CachesTyped
  <2> QED
    BY <2>1, <2>3 DEF CFrame, CWrite, CacheKept
<1>4. TypeOK'
  BY <1>1, <1>3 DEF IInv, TypeOK, CachesTyped
<1>5. ASSUME NEW w \in VMs, w # v PROVE SpaceKept(w) /\ Local(w)'
  <2>1. SpaceKept(w)
    BY <1>2, <1>3, <1>5 DEF SpaceKept, OpsKept, MemoryKept, EntriesKept
  <2> QED
    BY <1>2, <2>1, LocalKept DEF MemoryKept, EntriesKept
<1>6. Local(v)'
  <2>1. OpKept(v) /\ Live(v)' = Live(v) /\ \A q \in Pages : EntryKept(v, q)
    BY <1>2 DEF OpsKept, MemoryKept, EntriesKept
  <2>2. Exact(v) /\ Covered(v) /\ CopyOf(v) /\ Isolated(v)
    BY DEF IInv, Locals, Local
  <2>3. Exact(v)'
    BY <1>2, <2>1, ExactKept DEF MemoryKept, EntriesKept
  <2>4. LifeOf(v)'
    BY <1>1, <2>1 DEF LifeOf
  <2>5. Covered(v)'
    BY <1>3, <2>1, <2>2, SMT DEF Covered, Stale, OpKept, EntryKept, CacheKept, Exact, ForkExact
  <2>6. CopyOf(v)'
    BY <1>2, <1>3, <2>1, <2>2, Copying DEF CopyOf, OpKept, EntryKept, CacheKept, MemoryKept
  <2>7. Isolated(v)'
    BY <1>2, <2>1, <2>2 DEF Isolated, EntryKept, MemoryKept
  <2> QED
    BY <2>3, <2>4, <2>5, <2>6, <2>7 DEF Local
<1>7. \A w \in VMs : /\ Kind(w)' = Kind(w) /\ Child(w)' = Child(w) /\ Old(w)' = Old(w)
                     /\ Hold(w)' = Hold(w) /\ New(w)' = New(w) /\ PageOf(w)' = PageOf(w)
                     /\ \A q \in Pages : EntryKept(w, q)
  BY <1>2 DEF OpsKept, OpKept, MemoryKept, EntriesKept
<1>8. ForksDistinct' /\ SamePage' /\ WriteExclusive' /\ NewExclusive'
  BY <1>2, <1>7, SMT DEF IInv, Exclusion, ForksDistinct, SamePage, WriteExclusive, NewExclusive,
        Owned,
     EntryKept
<1>9. CacheExclusive'
  <2>1. \A w \in VMs, q \in Pages : \A f : Reached(w, q, f) => Reached(w, q, f)'
    BY <1>7, SMT DEF Reached, Owned, Forking, EntryKept
  <2>2. Writable(v, p) => Reached(v, p, Frame(v, p))
    BY DEF IInv, Exclusion, WriteExclusive, Reached
  <2> QED
    BY <1>3, <2>1, <2>2 DEF IInv, Exclusion, CacheExclusive, CacheKept
<1>10. Counted'
  BY <1>1, <1>7, CountedKept DEF IInv, Owned, EntryKept
<1> QED
  BY <1>4, <1>5, <1>6, <1>8, <1>9, <1>10 DEF IInv, Locals, Exclusion

LEMMA WriteKept ==
    ASSUME IInv, NEW v \in VMs, NEW t \in Threads[v], NEW p \in Pages, NEW x \in Values,
           Write(v, t, p, x)
    PROVE  IInv'
<1>1. Live(v) = "live" /\ CWrite(v, t, p) /\ UNCHANGED <<pte, refs, free, tlb, live, op>>
  BY DEF Write, InUser, Live, CWrite
<1>2. PICK f \in Frames : f = CFrame(v, t, p) /\ Reached(v, p, f)
  BY <1>1, Facts, SMT DEF IInv, Exclusion, CacheExclusive, Reached, Typed, AnyFrame
<1>3. /\ EntriesKept /\ CachesShrink /\ OpsKept
      /\ (\A w \in VMs : Live(w)' = Live(w)) /\ \A g : Refs(g)' = Refs(g)
  BY <1>1, PteSame, RefsSame, TlbSame, LiveSame, OpSame
<1>4. /\ content' \in [Frames -> Values] /\ value' \in [VMs -> [Pages -> Values]]
      /\ Content(f)' = x /\ Value(v, p)' = x
      /\ \A g \in Frames : g # f => Content(g)' = Content(g)
      /\ \A w \in VMs, q \in Pages : w # v \/ q # p => Value(w, q)' = Value(w, q)
  <2>1. content' = [content EXCEPT ![f] = x] /\ value' = [value EXCEPT ![v][p] = x]
    BY <1>2 DEF Write, CFrame
  <2> QED
    BY <2>1 DEF IInv, TypeOK, Content, Value
<1>5. TypeOK'
  BY <1>1, <1>4 DEF IInv, TypeOK
<1>6. \A w \in VMs : w # v => Local(w)'
  <2>1. \A w \in VMs : w # v => SpaceKept(w)
    BY <1>3, <1>4 DEF SpaceKept, OpsKept, EntriesKept, CachesShrink
  <2>2. \A w \in VMs : Forking(v, w) => Live(w) = "clone"
    BY DEF IInv, Locals, Local, Exact, ForkExact, Forking
  <2>3. \A w \in VMs : w # v /\ Live(w) = "live" => ~Owner(w, f)
    BY <1>2, <2>2 DEF Reached, Owner
  <2> QED
    BY <1>1, <1>4, <2>1, <2>3, OthersKept
<1>7. Local(v)'
  <2>1. OpKept(v) /\ Live(v)' = Live(v) /\ \A q \in Pages : EntryKept(v, q)
    BY <1>3 DEF OpsKept, EntriesKept
  <2>2. Exact(v) /\ LifeOf(v) /\ Covered(v) /\ CopyOf(v) /\ Isolated(v)
    BY DEF IInv, Locals, Local
  <2>3. Exact(v)'
    BY <1>3, <2>1, ExactKept DEF EntriesKept
  <2>4. LifeOf(v)' /\ Covered(v)'
    BY <1>3, <2>1, <2>2, SMT DEF LifeOf, Covered, Stale, OpKept, EntryKept, CachesShrink, CacheKept,
       CacheGone
  <2>5. f = Frame(v, p) \/ Stale(v, t, p)
    BY <1>2, <2>2 DEF Covered, Reached
  <2>6. \A q \in Pages : Frame(v, q) # NoFrame => (Frame(v, q) = f <=> q = p)
    BY <1>2, <2>2, <2>5 DEF Reached, Stale, Exact, FaultExact, UnmapExact
  <2>7. Isolated(v)'
    <3>1. \A q \in Pages : Frame(v, q) # NoFrame => Frame(v, q) \in Frames
      BY Facts DEF Typed, AnyFrame
    <3> QED
      BY <1>4, <2>1, <2>2, <2>6, <3>1 DEF Isolated, EntryKept
  <2>8. CopyOf(v)'
    <3>1. CASE From(v) # NoFrame
      <4>1. /\ Kind(v) = "fault" /\ PageOf(v) \in Pages /\ From(v) \in Frames
            /\ Stage(v) \in {"check", "copy"} /\ Stage(v) = "check" => New(v) \in Frames
        BY <3>1, Copying
      <4>2. PageOf(v) # p /\ From(v) = Frame(v, PageOf(v))
        BY <1>1, <2>2, <3>1 DEF CopyOf
      <4>3. From(v) # f /\ New(v) # f
        BY <1>2, <2>6, <4>1, <4>2 DEF Reached, Owned
      <4> QED
        BY <1>3, <1>4, <2>1, <2>2, <4>1, <4>3 DEF CopyOf, OpKept, EntryKept, CachesShrink,
           CacheKept, CacheGone
    <3>2. CASE Kind(v) = "unmap"
      <4>1. /\ Hold(v) \in Frames /\ PageOf(v) \in Pages /\ Frame(v, PageOf(v)) = NoFrame
            /\ From(v) = NoFrame /\ Old(v) = NoFrame
        BY <2>2, <3>2 DEF Exact, UnmapExact
      <4>2. p = PageOf(v) => f = Hold(v)
        BY <1>2, <2>5, <4>1 DEF Reached, Stale
      <4>3. f = Hold(v) => p = PageOf(v)
        BY <2>5, <3>2 DEF IInv, Exclusion, SamePage, Stale
      <4> QED
        BY <1>4, <2>1, <2>2, <3>2, <4>1, <4>2, <4>3 DEF CopyOf, OpKept
    <3> QED
      BY <2>1, <3>1, <3>2 DEF CopyOf, OpKept
  <2> QED
    BY <2>3, <2>4, <2>7, <2>8 DEF Local
<1>8. Exclusion'
  <2>1. \A w \in VMs : Shrinks(w)
    BY <1>3 DEF Shrinks, OpsKept, OpKept, EntriesKept, EntryKept, CachesShrink, CacheKept,
       CacheGone, Forking
  <2>2. ForksDistinct'
    BY <1>3 DEF IInv, Exclusion, ForksDistinct, OpsKept, OpKept
  <2> QED
    BY <1>3, <2>1, <2>2, ExclusionKept DEF Exclusion
<1>9. Counted'
  BY <1>1, <1>3, CountedKept DEF IInv, Owned, OpsKept, OpKept, EntriesKept, EntryKept
<1> QED
  BY <1>5, <1>6, <1>7, <1>8, <1>9 DEF IInv, Locals
-----------------------------------------------------------------------------
(* The steps that take a frame. *)
LEMMA FaultCopyKept ==
    ASSUME CountingLaws, IInv, NEW v \in VMs, FaultCopy(v)
    PROVE  IInv'
<1>1. /\ Kind(v) = "fault" /\ Stage(v) = "copy" /\ From(v) # NoFrame /\ Live(v) = "live"
      /\ From(v) \in Frames /\ Hold(v) = NoFrame /\ Old(v) = NoFrame /\ PageOf(v) \in Pages
      /\ UNCHANGED <<pte, refs, tlb, live, value>>
  <2>1. Kind(v) = "fault" /\ Stage(v) = "copy" /\ UNCHANGED <<pte, refs, tlb, live, value>>
    BY DEF FaultCopy, Kind, Stage
  <2> QED
    BY <2>1, Copying DEF IInv, Locals, Local, Exact, OpExact, FaultExact
<1>2. /\ EntriesKept /\ (\A g : Refs(g)' = Refs(g)) /\ CachesShrink
      /\ (\A w \in VMs : Live(w)' = Live(w)) /\ \A w, q : Value(w, q)' = Value(w, q)
  BY <1>1, PteSame, RefsSame, TlbSame, LiveSame, ValueSame
<1>3. PICK f \in IF New(v) = NoFrame THEN free ELSE {New(v)} :
           /\ free' = free \ {f}
           /\ content' = [content EXCEPT ![f] = Content(From(v))]
           /\ op' = [op EXCEPT ![v] = [@ EXCEPT !.stage = "check", !.new = f]]
  BY DEF FaultCopy, New, From, Content
<1>4. /\ f \in Frames /\ f # NoFrame /\ Refs(f) = 0
      /\ \A w \in VMs, q \in Pages : Frame(w, q) # f
      /\ \A w \in VMs : f \in Owned(w) => w = v
      /\ \A w \in VMs : \A t \in Threads[w], q \in Pages : CWrite(w, t, q) => CFrame(w, t, q) # f
  <2>1. CASE New(v) = NoFrame
    BY <1>3, <2>1, FreeUnreached
  <2>2. CASE New(v) # NoFrame
    <3>1. f = New(v) /\ f \in Frames
      BY <1>3, <2>2, Facts DEF Typed, AnyFrame
    <3>2. /\ Refs(f) = 0 /\ \A w \in VMs, q \in Pages : Frame(w, q) # f
          /\ \A w \in VMs : f \in Owned(w) => w = v
      BY <3>1 DEF IInv, Exclusion, NewExclusive
    <3>3. f \in Owned(v) /\ Kind(v) # "unmap"
      BY <1>1, <3>1 DEF Owned
    <3> QED
      BY <3>1, <3>2, <3>3, SMT DEF IInv, Exclusion, CacheExclusive, Reached
  <2> QED
    BY <2>1, <2>2
<1>5. /\ content' \in [Frames -> Values] /\ free' \subseteq Frames
      /\ \A g \in Frames : Content(g)' = IF g = f THEN Content(From(v)) ELSE Content(g)
  <2>1. Content(From(v)) \in Values /\ content \in [Frames -> Values] /\ free \subseteq Frames
    BY <1>1 DEF IInv, TypeOK, Content
  <2> QED
    BY <1>3, <1>4, <2>1 DEF Content
<1> DEFINE o == [op[v] EXCEPT !.stage = "check", !.new = f]
<1>6. op[v] \in Ops /\ f \in AnyFrame /\ op' = [op EXCEPT ![v] = o]
  BY <1>3, <1>4 DEF IInv, TypeOK, AnyFrame
<1>7. o \in Ops
  BY <1>6 DEF Ops
<1>8. op' \in [VMs -> Ops] /\ op'[v] = o /\ OtherOpsKept(v)
  BY <1>6, <1>7, OpSet DEF IInv
<1>9. /\ Stage(v)' = "check" /\ New(v)' = f /\ From(v)' = From(v)
      /\ Kind(v)' = Kind(v) /\ Runner(v)' = Runner(v) /\ PageOf(v)' = PageOf(v)
      /\ Old(v)' = Old(v) /\ Hold(v)' = Hold(v)
  BY <1>6, <1>8, SMT DEF Ops, Kind, Runner, Stage, PageOf, New, From, Old, Hold
<1> HIDE DEF o
<1>10. TypeOK'
  BY <1>1, <1>5, <1>8 DEF IInv, TypeOK
<1>11. \A w \in VMs : w # v => Local(w)'
  <2>1. \A w \in VMs : w # v => SpaceKept(w)
    BY <1>2, <1>8 DEF SpaceKept, OtherOpsKept, EntriesKept, CachesShrink
  <2>2. \A w \in VMs : w # v => ~Owner(w, f)
    BY <1>4 DEF Owner
  <2> QED
    BY <1>1, <1>5, <2>1, <2>2, OthersKept
<1>12. Local(v)'
  <2>1. Exact(v) /\ Covered(v) /\ CopyOf(v) /\ Isolated(v) /\ LifeOf(v)
    BY DEF IInv, Locals, Local
  <2>2. \A q \in Pages : EntryKept(v, q)
    BY <1>2 DEF EntriesKept
  <2>3. Exact(v)'
    BY <1>1, <1>2, <1>4, <1>9, <2>1, <2>2 DEF Exact, OpExact, FaultExact, UnmapExact, ForkExact,
       EntryKept
  <2>4. Covered(v)' /\ LifeOf(v)'
    BY <1>1, <1>2, <1>9, <2>1, <2>2 DEF Covered, LifeOf, Stale, EntryKept, CachesShrink, CacheKept,
       CacheGone
  <2>5. CopyOf(v)'
    <3>1. From(v) # f /\ From(v) = Frame(v, PageOf(v)) /\ ~Writable(v, PageOf(v))
      BY <1>1, <1>4, <2>1 DEF CopyOf
    <3>2. \A t \in Threads[v] : ~CWrite(v, t, PageOf(v))'
      BY <1>1, <1>2, <1>9, <2>1 DEF CopyOf, CachesShrink, CacheKept, CacheGone
    <3> QED
      BY <1>1, <1>4, <1>5, <1>9, <2>2, <3>1, <3>2 DEF CopyOf, EntryKept
  <2>6. Isolated(v)'
    BY <1>2, <1>4, <1>5, <2>1, <2>2, Facts DEF Isolated, EntryKept, Typed, AnyFrame
  <2> QED
    BY <2>3, <2>4, <2>5, <2>6 DEF Local
<1>13. Exclusion'
  <2>1. /\ \A w \in VMs : /\ Kind(w)' = Kind(w) /\ Old(w)' = Old(w) /\ Hold(w)' = Hold(w)
                          /\ PageOf(w)' = PageOf(w) /\ \A q \in Pages : EntryKept(w, q)
                          /\ w # v => Child(w)' = Child(w) /\ New(w)' = New(w)
        /\ \A w \in VMs : Owned(w)' \subseteq IF w = v THEN {f, NoFrame} ELSE Owned(w)
    BY <1>1, <1>2, <1>8, <1>9 DEF OtherOpsKept, OpKept, EntriesKept, Owned
  <2>2. ForksDistinct' /\ SamePage'
    BY <1>1, <2>1, SMT DEF IInv, Exclusion, ForksDistinct, SamePage, EntryKept
  <2>3. WriteExclusive'
    BY <1>4, <2>1, SMT DEF IInv, Exclusion, WriteExclusive, EntryKept
  <2>4. NewExclusive'
    BY <1>2, <1>4, <1>9, <2>1, SMT DEF IInv, Exclusion, NewExclusive, EntryKept, Owned
  <2>5. CacheExclusive'
    <3>1. \A w \in VMs, q \in Pages : \A g : g # f /\ Reached(w, q, g) => Reached(w, q, g)'
      BY <1>1, <2>1, SMT DEF Reached, Forking, EntryKept
    <3> QED
      BY <1>2, <1>4, <3>1 DEF IInv, Exclusion, CacheExclusive, CachesShrink, CacheKept, CacheGone
  <2> QED
    BY <2>2, <2>3, <2>4, <2>5 DEF Exclusion
<1>14. Counted'
  <2>1. \A w \in VMs, q \in Pages : Frame(w, q)' = Frame(w, q)
    BY <1>2 DEF EntriesKept, EntryKept
  <2>2. \A w \in VMs : w # v => Owned(w)' = Owned(w)
    BY <1>8 DEF OtherOpsKept, OpKept, Owned
  <2>3. Owned(v)' = {f, NoFrame} /\ Owned(v) = {New(v), NoFrame}
    BY <1>1, <1>9 DEF Owned
  <2>4. \A g \in Frames : Owners(g)' = Owners(g) + Count(g \in Owned(v)') - Count(g \in Owned(v))
    BY <2>1, <2>2, OwnersHeld
  <2>5. ASSUME NEW g \in Frames
        PROVE  /\ g \in free' <=> Owners(g)' = 0
               /\ Owners(g)' >= 2 => Refs(g)' = Owners(g)'
               /\ Owners(g)' <= 1 => Refs(g)' <= Owners(g)'
    <3>1. CASE g = f
      <4>1. Owners(g) = Count(g \in Owned(v))
        <5>1. CASE New(v) = NoFrame
          BY <1>3, <1>4, <2>3, <3>1, <5>1, FreeUnreached DEF Count
        <5>2. CASE New(v) # NoFrame
          BY <1>3, <1>4, <2>3, <3>1, <5>2, LoneHolder DEF Count
        <5> QED
          BY <5>1, <5>2
      <4>2. Owners(g)' = 1
        BY <2>3, <2>4, <3>1, <4>1, SMT DEF Count
      <4> QED
        BY <1>2, <1>3, <1>4, <3>1, <4>2, SMT
    <3>2. CASE g # f
      <4>1. g \notin Owned(v) /\ g \notin Owned(v)'
        BY <1>3, <2>3, <3>2
      <4>2. Owners(g)' = Owners(g)
        BY <2>4, <4>1, OwnersType, SMT DEF Count
      <4> QED
        BY <1>2, <1>3, <3>2, <4>2 DEF IInv, Counted
    <3> QED
      BY <3>1, <3>2
  <2> QED
    BY <2>5 DEF Counted
<1> QED
  BY <1>10, <1>11, <1>12, <1>13, <1>14 DEF IInv, Locals

LEMMA MapAnonKept ==
    ASSUME CountingLaws, IInv, NEW v \in VMs, NEW t \in Threads[v], NEW p \in Pages,
           MapAnon(v, t, p)
    PROVE  IInv'
<1>1. /\ Live(v) = "live" /\ Kind(v) = "none" /\ Frame(v, p) = NoFrame
      /\ UNCHANGED <<refs, tlb, live, op>> /\ value' = [value EXCEPT ![v][p] = 0]
  BY DEF MapAnon, Mapped, Live, Kind, Frame
<1>2. Exact(v) /\ Covered(v) /\ Isolated(v) /\ Quiet(v) /\ Stage(v) = "none"
  BY <1>1 DEF IInv, Locals, Local, Exact, OpExact
<1>3. /\ (\A g : Refs(g)' = Refs(g)) /\ CachesShrink
      /\ (\A w \in VMs : Live(w)' = Live(w)) /\ OpsKept
  BY <1>1, RefsSame, TlbSame, LiveSame, OpSame
<1>4. PICK f \in free :
           /\ free' = free \ {f}
           /\ content' = [content EXCEPT ![f] = 0]
           /\ pte' = [pte EXCEPT ![v][p] = [frame |-> f, write |-> TRUE, cow |-> FALSE]]
  BY DEF MapAnon
<1>5. /\ f \in Frames /\ f # NoFrame /\ Refs(f) = 0 /\ Owners(f) = 0
      /\ \A w \in VMs, q \in Pages : Frame(w, q) # f
      /\ \A w \in VMs : f \notin Owned(w)
      /\ \A w \in VMs : \A u \in Threads[w], q \in Pages : CWrite(w, u, q) => CFrame(w, u, q) # f
  BY <1>4, FreeUnreached
<1>6. /\ pte' \in [VMs -> [Pages -> Entries]]
      /\ Frame(v, p)' = f /\ Writable(v, p)' = TRUE /\ OtherEntriesKept(v, p)
  BY <1>4, <1>5, EntrySet DEF AnyFrame
<1>7. /\ content' \in [Frames -> Values] /\ value' \in [VMs -> [Pages -> Values]]
      /\ Content(f)' = 0 /\ Value(v, p)' = 0
      /\ \A g \in Frames : g # f => Content(g)' = Content(g)
      /\ \A w \in VMs, q \in Pages : w # v \/ q # p => Value(w, q)' = Value(w, q)
  BY <1>1, <1>4, <1>5 DEF IInv, TypeOK, Content, Value
<1>8. TypeOK'
  BY <1>1, <1>4, <1>6, <1>7 DEF IInv, TypeOK
<1>9. \A w \in VMs : w # v => Local(w)'
  <2>1. \A w \in VMs : w # v => SpaceKept(w) /\ ~Owner(w, f)
    BY <1>3, <1>5, <1>6, <1>7 DEF SpaceKept, OpsKept, OtherEntriesKept, CachesShrink, Owner
  <2> QED
    BY <1>1, <1>7, <2>1, OthersKept, SMT
<1>10. Local(v)'
  <2>1. OpKept(v) /\ Live(v)' = "live"
    BY <1>1, <1>3 DEF OpsKept
  <2>2. Exact(v)' /\ CopyOf(v)'
    BY <1>1, <1>2, <2>1 DEF Exact, OpExact, FaultExact, UnmapExact, ForkExact, CopyOf, OpKept, Quiet
  <2>3. Covered(v)' /\ LifeOf(v)'
    BY <1>1, <1>2, <1>3, <1>6, <2>1 DEF Covered, LifeOf, Stale, OpKept, OtherEntriesKept, EntryKept,
       CachesShrink, CacheKept, CacheGone
  <2>4. Isolated(v)'
    BY <1>1, <1>2, <1>5, <1>6, <1>7, Facts, SMT DEF Isolated, OtherEntriesKept, EntryKept, Typed,
       AnyFrame
  <2> QED
    BY <2>2, <2>3, <2>4 DEF Local
<1>11. Exclusion'
  <2>1. /\ \A w \in VMs : /\ Kind(w)' = Kind(w) /\ Child(w)' = Child(w) /\ Old(w)' = Old(w)
                          /\ Hold(w)' = Hold(w) /\ New(w)' = New(w) /\ PageOf(w)' = PageOf(w)
        /\ \A w \in VMs : Owned(w)' = Owned(w)
    BY <1>3 DEF OpsKept, OpKept, Owned
  <2>2. \A w \in VMs, q \in Pages : Frame(w, q)' = IF w = v /\ q = p THEN f ELSE Frame(w, q)
    BY <1>6 DEF OtherEntriesKept, EntryKept
  <2>3. \A w \in VMs, q \in Pages : w # v \/ q # p => Writable(w, q)' = Writable(w, q)
    BY <1>6 DEF OtherEntriesKept, EntryKept
  <2>4. ForksDistinct' /\ SamePage'
    BY <1>5, <2>1, <2>2, SMT DEF IInv, Exclusion, ForksDistinct, SamePage, Owned
  <2>5. WriteExclusive'
    BY <1>2, <1>5, <2>1, <2>2, <2>3, SMT DEF IInv, Exclusion, WriteExclusive, Quiet
  <2>6. NewExclusive'
    BY <1>3, <1>5, <2>1, <2>2, SMT DEF IInv, Exclusion, NewExclusive, Owned
  <2>7. CacheExclusive'
    <3>1. \A w \in VMs, q \in Pages : \A g : g # f /\ Reached(w, q, g) => Reached(w, q, g)'
      BY <2>1, <2>2, SMT DEF Reached, Forking
    <3> QED
      BY <1>3, <1>5, <3>1 DEF IInv, Exclusion, CacheExclusive, CachesShrink, CacheKept, CacheGone
  <2> QED
    BY <2>4, <2>5, <2>6, <2>7 DEF Exclusion
<1>12. Counted'
  <2>1. \A w \in VMs : Owned(w)' = Owned(w)
    BY <1>3 DEF OpsKept, OpKept, Owned
  <2>2. \A w \in VMs, q \in Pages : w # v \/ q # p => Frame(w, q)' = Frame(w, q)
    BY <1>6 DEF OtherEntriesKept, EntryKept
  <2>3. ASSUME NEW g \in Frames PROVE Owners(g)' = Owners(g) + Count(g = f)
    <3>1. Owners(g)' = Owners(g) + Count(Frame(v, p)' = g) - Count(Frame(v, p) = g)
                                 + Count(g \in Owned(v)') - Count(g \in Owned(v))
      BY <2>1, <2>2, OwnersMoved, SMT
    <3> QED
      BY <1>1, <1>6, <2>1, <3>1, OwnersType, SMT DEF Count
  <2> QED
    BY <1>3, <1>4, <1>5, <2>3, OwnersType, SMT DEF IInv, Counted, Count
<1> QED
  BY <1>8, <1>9, <1>10, <1>11, <1>12 DEF IInv, Locals

(* The only owner of a frame may write it. *)
LEMMA FaultInPlaceKept ==
    ASSUME CountingLaws, IInv, NEW v \in VMs, FaultInPlace(v)
    PROVE  IInv'
<1>1. Kind(v) = "fault" /\ Stage(v) = "check" /\ UNCHANGED <<content, live, value>>
  BY DEF FaultInPlace, Checking, Kind, Stage
<1>2. /\ Exact(v) /\ Covered(v) /\ Isolated(v) /\ LifeOf(v) /\ Live(v) = "live"
      /\ Runner(v) \in Threads[v]
  BY <1>1 DEF IInv, Locals, Local, Exact, OpExact
<1>3. PICK p \in Pages, f \in Frames : p = PageOf(v) /\ f = Frame(v, p)
  BY <1>1, <1>2, Facts DEF Exact, FaultExact, Typed, AnyFrame
<1>4. Refs(f) \in Nat /\ Refs(f) <= 1 /\ refs' = [refs EXCEPT ![f] = 0]
  <2>1. refs[f] <= 1 /\ refs' = RefDec(f) /\ refs[f] \in Nat
    BY <1>3 DEF FaultInPlace, Frame, PageOf, IInv, TypeOK
  <2>2. (IF refs[f] = 0 THEN 0 ELSE refs[f] - 1) = 0
    BY <2>1, SMT
  <2>3. RefDec(f) = [refs EXCEPT ![f] = 0]
    BY <2>2 DEF RefDec
  <2> QED
    BY <2>1, <2>3 DEF Refs
<1>5. /\ Owners(f) = 1
      /\ \A w \in VMs, q \in Pages : Frame(w, q) = f => w = v /\ q = p
      /\ \A w \in VMs : f \notin Owned(w)
  <2>1. Owners(f) <= 1
    BY <1>4, OwnersType, SMT DEF IInv, Counted
  <2> QED
    BY <1>3, <2>1, SoleOwner, SMT
<1>6. /\ refs' \in [Frames -> Nat] /\ Refs(f)' = 0
      /\ \A g \in Frames : g # f => Refs(g)' = Refs(g)
  BY <1>4 DEF IInv, TypeOK, Refs
<1>7. /\ pte' \in [VMs -> [Pages -> Entries]]
      /\ Frame(v, p)' = f /\ Writable(v, p)' = TRUE /\ OtherEntriesKept(v, p)
  <2>1. pte' = [pte EXCEPT ![v][p] = [frame |-> f, write |-> TRUE, cow |-> FALSE]]
    BY <1>3 DEF FaultInPlace, Frame, PageOf
  <2> QED
    BY <2>1, EntrySet DEF AnyFrame
<1>8. \A w \in VMs, q \in Pages : /\ Frame(w, q)' = Frame(w, q)
                                  /\ w # v \/ q # p => EntryKept(w, q)
  BY <1>3, <1>7 DEF OtherEntriesKept, EntryKept
<1>9. CachesTyped' /\ CachesShrink
  <2>1. tlb' = [tlb EXCEPT ![v][Runner(v)][p] = Uncached]
    BY <1>3 DEF FaultInPlace, Runner, PageOf
  <2> QED
    BY <1>2, <2>1, CacheDropped
<1>10. /\ \A w \in VMs : Live(w)' = Live(w)
       /\ (\A g : Content(g)' = Content(g)) /\ \A w, q : Value(w, q)' = Value(w, q)
  BY <1>1, LiveSame, ContentSame, ValueSame
<1>11. op' \in [VMs -> Ops] /\ OpEnded(v) /\ OtherOpsKept(v)
  BY OpEnd DEF IInv, FaultInPlace
<1>12. Counted' /\ free' \subseteq Frames
  <2>1. GiveBack(New(v)) /\ f # New(v)
    BY <1>5 DEF FaultInPlace, New, Owned
  <2>2. \A g \in Frames : Refs(g)' = Refs(g) \/ (Refs(g)' = 0 /\ Owners(g) = 1 /\ g # New(v))
    BY <1>5, <1>6, <2>1
  <2> QED
    BY <1>1, <1>8, <1>11, <2>1, <2>2, GivenBack
<1>13. TypeOK'
  BY <1>1, <1>6, <1>7, <1>9, <1>11, <1>12 DEF IInv, TypeOK, CachesTyped
<1>14. \A w \in VMs : w # v => SpaceKept(w) /\ Local(w)'
  <2>1. \A w \in VMs : w # v => SpaceKept(w)
    BY <1>8, <1>9, <1>10, <1>11 DEF SpaceKept, OtherOpsKept, CachesShrink
  <2> QED
    BY <1>2, <1>10, <2>1, OthersKept
<1>15. Local(v)'
  <2>1. Exact(v)' /\ CopyOf(v)'
    BY <1>11 DEF Exact, OpExact, FaultExact, UnmapExact, ForkExact, CopyOf, Quiet, OpEnded
  <2>2. Covered(v)' /\ LifeOf(v)'
    BY <1>1, <1>2, <1>8, <1>9, <1>10, <1>11 DEF Covered, LifeOf, Stale, OpEnded, CachesShrink,
       CacheKept, CacheGone
  <2>3. Isolated(v)'
    BY <1>2, <1>8, <1>10 DEF Isolated
  <2> QED
    BY <2>1, <2>2, <2>3 DEF Local
<1>16. SamePage' /\ NewExclusive' /\ CacheExclusive'
  <2>1. Owned(v)' \subseteq Owned(v) \cup {NoFrame} /\ \A w \in VMs : w # v => Owned(w)' = Owned(w)
    BY <1>11 DEF Owned, OpEnded, OtherOpsKept, OpKept
  <2>2. \A w \in VMs : w # v => OpKept(w)
    BY <1>11 DEF OtherOpsKept
  <2>3. SamePage'
    BY <1>8, <1>11, <2>2, SMT DEF IInv, Exclusion, SamePage, OpEnded, OpKept
  <2>4. NewExclusive'
    <3>1. \A w \in VMs : New(w) # f /\ (New(w) # NoFrame => New(w) \in Frames)
      BY <1>5, Facts DEF Owned, Typed, AnyFrame
    <3> QED
      BY <1>6, <1>8, <1>11, <2>1, <2>2, <3>1, SMT DEF IInv, Exclusion, NewExclusive, OpEnded, OpKept
  <2>5. CacheExclusive'
    <3>1. \A w \in VMs, q \in Pages : \A g : Reached(w, q, g) => Reached(w, q, g)'
      BY <1>1, <1>8, <1>11, <2>1, <2>2, SMT DEF Reached, Forking, OpEnded, OpKept
    <3> QED
      BY <1>9, <3>1 DEF IInv, Exclusion, CacheExclusive, CachesShrink, CacheKept, CacheGone
  <2> QED
    BY <2>3, <2>4, <2>5
<1>17. ForksDistinct' /\ WriteExclusive'
  <2>1. \A w \in VMs : Owned(w)' \subseteq Owned(w) \cup {NoFrame} /\ Old(w)' \in {Old(w), NoFrame}
    BY <1>11 DEF Owned, OpEnded, OtherOpsKept, OpKept
  <2>2. Old(v)' = NoFrame
    BY <1>11 DEF OpEnded
  <2>3. WriteExclusive'
    BY <1>5, <1>7, <1>8, <2>1, <2>2, SMT DEF IInv, Exclusion, WriteExclusive, EntryKept
  <2> QED
    BY <1>11, <2>3 DEF IInv, Exclusion, ForksDistinct, OpEnded, OtherOpsKept, OpKept
<1> QED
  BY <1>12, <1>13, <1>14, <1>15, <1>16, <1>17 DEF IInv, Locals, Exclusion

LEMMA FaultCommitKept ==
    ASSUME CountingLaws, IInv, NEW v \in VMs, FaultCommit(v)
    PROVE  IInv'
<1>1. /\ Kind(v) = "fault" /\ Stage(v) = "check" /\ Hold(v) = NoFrame /\ New(v) \in Frames
      /\ UNCHANGED <<free, content, live, value>>
  <2>1. New(v) # NoFrame /\ UNCHANGED <<free, content, live, value>>
    BY DEF FaultCommit, New
  <2> QED
    BY <2>1, SharedReadOnly, Facts DEF FaultCommit, Typed, AnyFrame
<1>2. /\ Exact(v) /\ Covered(v) /\ CopyOf(v) /\ Isolated(v) /\ LifeOf(v) /\ Live(v) = "live"
      /\ Runner(v) \in Threads[v]
  BY <1>1 DEF IInv, Locals, Local, Exact, OpExact
<1>3. PICK p \in Pages, f \in Frames :
           /\ p = PageOf(v) /\ f = Frame(v, p) /\ Owners(f) > 1 /\ Refs(f) = Owners(f)
           /\ ~Writable(v, p) /\ \A t \in Threads[v] : ~CWrite(v, t, p)
  BY SharedReadOnly DEF FaultCommit
<1>4. PICK n \in Frames : n = New(v)
  BY <1>1
<1>5. /\ Refs(n) = 0 /\ n # f /\ n # NoFrame
      /\ \A w \in VMs, q \in Pages : Frame(w, q) # n
      /\ \A w \in VMs : n \in Owned(w) => w = v
  BY <1>3, <1>4 DEF IInv, Exclusion, NewExclusive
<1>6. Content(n) = Value(v, p)
  <2>1. From(v) = f
    BY <1>3 DEF FaultCommit, From, Frame, PageOf
  <2> QED
    BY <1>1, <1>2, <1>3, <1>4, <2>1 DEF CopyOf, Isolated
<1>7. /\ refs' = [refs EXCEPT ![f] = refs[f] - 1] /\ refs[f] \in Nat /\ refs[f] > 1
      /\ RefDec(f)[f] # 0
  <2>1. refs' = RefDec(f)
    BY <1>3 DEF FaultCommit, Frame, PageOf
  <2>2. refs[f] \in Nat /\ refs[f] > 1
    BY <1>3, OwnersType DEF IInv, TypeOK, Refs
  <2>3. (IF refs[f] = 0 THEN 0 ELSE refs[f] - 1) = refs[f] - 1
    BY <2>2, SMT
  <2>4. RefDec(f) = [refs EXCEPT ![f] = refs[f] - 1]
    BY <2>3 DEF RefDec
  <2>5. RefDec(f)[f] = refs[f] - 1
    BY <2>4 DEF IInv, TypeOK
  <2> QED
    BY <2>1, <2>2, <2>4, <2>5, SMT
<1>8. /\ refs' \in [Frames -> Nat] /\ Refs(f)' = Refs(f) - 1
      /\ \A g \in Frames : g # f => Refs(g)' = Refs(g)
  BY <1>7, SMT DEF IInv, TypeOK, Refs
<1>9. /\ pte' \in [VMs -> [Pages -> Entries]]
      /\ Frame(v, p)' = n /\ Writable(v, p)' = TRUE /\ OtherEntriesKept(v, p)
  <2>1. pte' = [pte EXCEPT ![v][p] = [frame |-> n, write |-> TRUE, cow |-> FALSE]]
    BY <1>3, <1>4 DEF FaultCommit, PageOf, New
  <2> QED
    BY <2>1, EntrySet DEF AnyFrame
<1>10. /\ \A w \in VMs, q \in Pages : Frame(w, q)' = IF w = v /\ q = p THEN n ELSE Frame(w, q)
       /\ \A w \in VMs, q \in Pages : w # v \/ q # p => Writable(w, q)' = Writable(w, q)
  BY <1>9 DEF OtherEntriesKept, EntryKept
<1>11. CachesTyped' /\ CachesShrink /\ \A t \in Threads[v] : t = Runner(v) => CacheGone(v, t, p)
  <2>1. tlb' = [tlb EXCEPT ![v][Runner(v)][p] = Uncached]
    BY <1>3 DEF FaultCommit, Runner, PageOf
  <2> QED
    BY <1>2, <2>1, CacheDropped
<1>12. /\ \A w \in VMs : Live(w)' = Live(w)
       /\ (\A g : Content(g)' = Content(g)) /\ \A w, q : Value(w, q)' = Value(w, q)
  BY <1>1, LiveSame, ContentSame, ValueSame
<1> DEFINE o == [op[v] EXCEPT !.stage = "flush", !.new = NoFrame, !.from = NoFrame, !.old = f,
                              !.hold = NoFrame, !.todo = Threads[v] \ {Runner(v)}]
<1>13. /\ op[v] \in Ops /\ f \in AnyFrame /\ NoFrame \in AnyFrame
       /\ Threads[v] \ {Runner(v)} \in SUBSET (Pages \cup AllThreads)
  BY DEF IInv, TypeOK, AllThreads, AnyFrame
<1>14. o \in Ops
  BY <1>13 DEF Ops
<1>15. op' = [op EXCEPT ![v] = o]
  BY <1>3, <1>7 DEF FaultCommit, Frame, PageOf, Runner
<1>16. op' \in [VMs -> Ops] /\ op'[v] = o /\ OtherOpsKept(v)
  BY <1>14, <1>15, OpSet DEF IInv
<1>17. /\ Kind(v)' = Kind(v) /\ Runner(v)' = Runner(v) /\ PageOf(v)' = p /\ Stage(v)' = "flush"
       /\ New(v)' = NoFrame /\ From(v)' = NoFrame /\ Old(v)' = f /\ Hold(v)' = NoFrame
       /\ Todo(v)' = Threads[v] \ {Runner(v)}
  BY <1>3, <1>13, <1>16 DEF Ops, Kind, Runner, Stage, PageOf, New, From, Old, Hold, Todo
<1> HIDE DEF o
<1>18. TypeOK'
  BY <1>1, <1>8, <1>9, <1>11, <1>16 DEF IInv, TypeOK, CachesTyped
<1>19. \A w \in VMs : w # v => Local(w)'
  <2>1. \A w \in VMs : w # v => SpaceKept(w)
    BY <1>9, <1>11, <1>12, <1>16 DEF SpaceKept, OtherOpsKept, OtherEntriesKept, CachesShrink
  <2> QED
    BY <1>2, <1>12, <2>1, OthersKept
<1>20. Local(v)'
  <2>1. Exact(v)' /\ CopyOf(v)'
    BY <1>1, <1>2, <1>5, <1>9, <1>12, <1>17 DEF Exact, OpExact, FaultExact, UnmapExact, ForkExact,
       CopyOf
  <2>2. LifeOf(v)'
    BY <1>2, <1>12 DEF LifeOf
  <2>3. Covered(v)'
    BY <1>1, <1>2, <1>3, <1>10, <1>11, <1>17 DEF Covered, Stale, CachesShrink, CacheKept, CacheGone
  <2>4. Isolated(v)'
    BY <1>2, <1>6, <1>10, <1>12 DEF Isolated
  <2> QED
    BY <2>1, <2>2, <2>3, <2>4 DEF Local
<1>21. Exclusion'
  <2>1. /\ \A w \in VMs : w # v => OpKept(w)
        /\ \A w \in VMs : Owned(w)' \subseteq (Owned(w) \ {n}) \cup {NoFrame}
    BY <1>4, <1>5, <1>16, <1>17 DEF OtherOpsKept, OpKept, Owned
  <2>2. ForksDistinct'
    BY <1>1, <1>17, <2>1, SMT DEF IInv, Exclusion, ForksDistinct, OpKept
  <2>3. SamePage'
    <3>1. \A w \in VMs : Kind(w)' = "unmap" => /\ Kind(w) = "unmap" /\ Hold(w)' = Hold(w)
                                               /\ PageOf(w)' = PageOf(w) /\ Hold(w) # n
      BY <1>1, <1>5, <1>17, <2>1 DEF OpKept, Owned
    <3> QED
      BY <1>5, <1>10, <3>1, SMT DEF IInv, Exclusion, SamePage
  <2>4. WriteExclusive'
    <3>1. \A w \in VMs : Old(w)' = IF w = v THEN f ELSE Old(w)
      BY <1>17, <2>1 DEF OpKept
    <3>2. \A w \in VMs, q \in Pages : Writable(w, q) => Frame(w, q) # f
      BY <1>3, SMT DEF IInv, Exclusion, WriteExclusive
    <3> QED
      BY <1>5, <1>10, <2>1, <3>1, <3>2, SMT DEF IInv, Exclusion, WriteExclusive
  <2>5. NewExclusive'
    <3>1. \A w \in VMs : w # v /\ New(w) # NoFrame => New(w) # f /\ New(w) # n /\ New(w) \in Frames
      BY <1>3, <1>5, Facts DEF IInv, Exclusion, NewExclusive, Typed, AnyFrame, Owned
    <3> QED
      BY <1>8, <1>10, <1>17, <2>1, <3>1, SMT DEF IInv, Exclusion, NewExclusive, OpKept
  <2>6. CacheExclusive'
    <3> SUFFICES ASSUME NEW w \in VMs, NEW t \in Threads[w], NEW q \in Pages, CWrite(w, t, q)'
                 PROVE  Reached(w, q, CFrame(w, t, q))'
      BY DEF CacheExclusive
    <3>1. CWrite(w, t, q) /\ CFrame(w, t, q)' = CFrame(w, t, q) /\ Reached(w, q, CFrame(w, t, q))
      BY <1>11 DEF CachesShrink, CacheKept, CacheGone, IInv, Exclusion, CacheExclusive
    <3>2. CFrame(w, t, q) # n
      BY <1>1, <1>4, <3>1 DEF Reached, Owned
    <3>3. Old(w)' # CFrame(w, t, q)
      BY <1>3, <1>17, <2>1, <3>1 DEF Reached, OpKept
    <3>4. /\ \A u \in VMs : Forking(w, u) => Forking(w, u)'
          /\ Kind(w)' = Kind(w)
      BY <1>1, <1>17, <2>1 DEF Forking, OpKept
    <3> QED
      BY <1>10, <2>1, <3>1, <3>2, <3>3, <3>4, SMT DEF Reached
  <2> QED
    BY <2>2, <2>3, <2>4, <2>5, <2>6 DEF Exclusion
<1>22. Counted'
  <2>1. \A w \in VMs : w # v => Owned(w)' = Owned(w)
    BY <1>16 DEF OtherOpsKept, OpKept, Owned
  <2>2. Owned(v) = {n, NoFrame} /\ Owned(v)' = {NoFrame}
    BY <1>1, <1>4, <1>17 DEF Owned
  <2>3. ASSUME NEW g \in Frames PROVE Owners(g)' = Owners(g) - Count(g = f)
    <3>1. Owners(g)' = Owners(g) + Count(Frame(v, p)' = g) - Count(Frame(v, p) = g)
                                 + Count(g \in Owned(v)') - Count(g \in Owned(v))
      BY <1>10, <2>1, OwnersMoved, SMT
    <3> QED
      BY <1>3, <1>5, <1>9, <2>2, <3>1, OwnersType, SMT DEF Count
  <2>4. \A g \in Frames : Refs(g)' = Refs(g) - Count(g = f) /\ Refs(g) \in Nat
    BY <1>8, Facts, SMT DEF Count, Typed
  <2> QED
    BY <1>1, <1>3, <2>3, <2>4, OwnersType, SMT DEF IInv, Counted, Count
<1> QED
  BY <1>18, <1>19, <1>20, <1>21, <1>22 DEF IInv, Locals

LEMMA UnmapKept ==
    ASSUME CountingLaws, IInv, NEW v \in VMs, NEW t \in Threads[v], NEW p \in Pages, Unmap(v, t, p)
    PROVE  IInv'
<1>1. /\ Live(v) = "live" /\ Kind(v) = "none" /\ Frame(v, p) # NoFrame
      /\ UNCHANGED <<refs, free, content, live, value>>
  BY DEF Unmap, Begin, Mapped, Live, Kind, Frame
<1>2. Exact(v) /\ Covered(v) /\ Isolated(v) /\ LifeOf(v) /\ Quiet(v) /\ Stage(v) = "none"
  BY <1>1 DEF IInv, Locals, Local, Exact, OpExact
<1>3. PICK f \in Frames : f = Frame(v, p)
  BY <1>1, Facts DEF Typed, AnyFrame
<1>4. /\ pte' \in [VMs -> [Pages -> Entries]]
      /\ Frame(v, p)' = NoFrame /\ Writable(v, p)' = FALSE /\ OtherEntriesKept(v, p)
  <2>1. pte' = [pte EXCEPT ![v][p] = [frame |-> NoFrame, write |-> FALSE, cow |-> FALSE]]
    BY DEF Unmap, Unmapped
  <2> QED
    BY <2>1, EntrySet DEF AnyFrame
<1>5. /\ \A w \in VMs, q \in Pages : Frame(w, q)' = IF w = v /\ q = p THEN NoFrame ELSE Frame(w, q)
      /\ \A w \in VMs, q \in Pages : Writable(w, q)' => Writable(w, q) /\ (w # v \/ q # p)
  BY <1>4 DEF OtherEntriesKept, EntryKept
<1>6. CachesTyped' /\ CachesShrink /\ CacheGone(v, t, p)
  BY CacheDropped DEF Unmap
<1>7. /\ (\A g : Refs(g)' = Refs(g)) /\ (\A g : Content(g)' = Content(g))
      /\ (\A w \in VMs : Live(w)' = Live(w)) /\ (\A w, q : Value(w, q)' = Value(w, q))
  BY <1>1, RefsSame, ContentSame, LiveSame, ValueSame
<1> DEFINE o == [[NoOp EXCEPT !.kind = "unmap", !.stage = "flush", !.page = p, !.hold = f,
                              !.todo = Threads[v] \ {t}] EXCEPT !.by = t]
<1>8. /\ NoOp \in Ops /\ f \in AnyFrame /\ t \in AllThreads
      /\ Threads[v] \ {t} \in SUBSET (Pages \cup AllThreads)
  BY NoOpType DEF AllThreads, AnyFrame
<1>9. o \in Ops /\ op' = [op EXCEPT ![v] = o]
  <2>1. o \in Ops
    BY <1>8 DEF Ops
  <2> QED
    BY <1>3, <2>1 DEF Unmap, Begin, Frame
<1>10. op' \in [VMs -> Ops] /\ op'[v] = o /\ OtherOpsKept(v)
  BY <1>9, OpSet DEF IInv
<1>11. /\ Kind(v)' = "unmap" /\ Runner(v)' = t /\ PageOf(v)' = p /\ Stage(v)' = "flush"
       /\ New(v)' = NoFrame /\ From(v)' = NoFrame /\ Old(v)' = NoFrame /\ Hold(v)' = f
       /\ Todo(v)' = Threads[v] \ {t}
  BY <1>10 DEF NoOp, Kind, Runner, Stage, PageOf, New, From, Old, Hold, Todo
<1> HIDE DEF o
<1>12. TypeOK'
  BY <1>1, <1>4, <1>6, <1>10 DEF IInv, TypeOK, CachesTyped
<1>13. \A w \in VMs : w # v => Local(w)'
  <2>1. \A w \in VMs : w # v => SpaceKept(w)
    BY <1>4, <1>6, <1>7, <1>10 DEF SpaceKept, OtherOpsKept, OtherEntriesKept, CachesShrink
  <2> QED
    BY <1>1, <1>7, <2>1, OthersKept
<1>14. Local(v)'
  <2>1. Exact(v)'
    BY <1>1, <1>4, <1>7, <1>11 DEF Exact, OpExact, FaultExact, UnmapExact, ForkExact
  <2>2. LifeOf(v)' /\ CopyOf(v)'
    BY <1>1, <1>2, <1>3, <1>7, <1>11 DEF LifeOf, CopyOf, Isolated
  <2>3. Covered(v)'
    BY <1>1, <1>2, <1>3, <1>5, <1>6, <1>11 DEF Covered, Stale, CachesShrink, CacheKept, CacheGone
  <2>4. Isolated(v)'
    BY <1>2, <1>5, <1>7 DEF Isolated
  <2> QED
    BY <2>1, <2>2, <2>3, <2>4 DEF Local
<1>15. Exclusion'
  <2>1. /\ \A w \in VMs : w # v => OpKept(w)
        /\ \A w \in VMs : Owned(w)' \subseteq Owned(w) \cup (IF w = v THEN {f, NoFrame} ELSE {})
        /\ \A w \in VMs : Old(w)' \in {Old(w), NoFrame}
    BY <1>10, <1>11 DEF OtherOpsKept, OpKept, Owned
  <2>2. ForksDistinct'
    BY <1>11, <2>1 DEF IInv, Exclusion, ForksDistinct, OpKept
  <2>3. SamePage'
    <3>1. \A w \in VMs : Kind(w) = "unmap" => Hold(w) \in Frames
      BY DEF IInv, Locals, Local, Exact, UnmapExact
    <3> QED
      BY <1>3, <1>5, <1>11, <2>1, <3>1, SMT DEF IInv, Exclusion, SamePage, OpKept
  <2>4. WriteExclusive'
    <3>1. \A w \in VMs, q \in Pages : w # v \/ q # p => (Writable(w, q) => Frame(w, q) # f)
      BY <1>3 DEF IInv, Exclusion, WriteExclusive
    <3> QED
      BY <1>5, <2>1, <3>1, SMT DEF IInv, Exclusion, WriteExclusive
  <2>5. NewExclusive'
    BY <1>3, <1>5, <1>7, <1>11, <2>1, SMT DEF IInv, Exclusion, NewExclusive, OpKept
  <2>6. CacheExclusive'
    <3> SUFFICES ASSUME NEW w \in VMs, NEW u \in Threads[w], NEW q \in Pages, CWrite(w, u, q)'
                 PROVE  Reached(w, q, CFrame(w, u, q))'
      BY DEF CacheExclusive
    <3>1. CWrite(w, u, q) /\ CFrame(w, u, q)' = CFrame(w, u, q) /\ Reached(w, q, CFrame(w, u, q))
      BY <1>6 DEF CachesShrink, CacheKept, CacheGone, IInv, Exclusion, CacheExclusive
    <3>2. \A x \in VMs : Forking(w, x) => Forking(w, x)' /\ x # v
      BY <1>1, <2>1 DEF Forking, OpKept, IInv, Locals, Local, Exact, ForkExact
    <3>3. CFrame(w, u, q) = f => w = v
      BY <1>3, <3>1, <3>2 DEF Reached
    <3>4. Kind(w) = "unmap" \/ w = v => Kind(w)' = "unmap"
      BY <1>11, <2>1 DEF OpKept
    <3> QED
      BY <1>5, <2>1, <3>1, <3>2, <3>3, <3>4, SMT DEF Reached
  <2> QED
    BY <2>2, <2>3, <2>4, <2>5, <2>6 DEF Exclusion
<1>16. Counted'
  <2>1. \A w \in VMs : w # v => Owned(w)' = Owned(w)
    BY <1>10 DEF OtherOpsKept, OpKept, Owned
  <2>2. Owned(v) = {NoFrame} /\ Owned(v)' = {f, NoFrame}
    BY <1>2, <1>11 DEF Owned, Quiet
  <2>3. ASSUME NEW g \in Frames PROVE Owners(g)' = Owners(g)
    <3>1. Owners(g)' = Owners(g) + Count(Frame(v, p)' = g) - Count(Frame(v, p) = g)
                                 + Count(g \in Owned(v)') - Count(g \in Owned(v))
      BY <1>5, <2>1, OwnersMoved, SMT
    <3> QED
      BY <1>3, <1>4, <2>2, <3>1, OwnersType, SMT DEF Count
  <2> QED
    BY <1>1, <1>7, <2>3 DEF IInv, Counted
<1> QED
  BY <1>12, <1>13, <1>14, <1>15, <1>16 DEF IInv, Locals
-----------------------------------------------------------------------------
(* The clone that a fork makes belongs to that fork alone. *)
LEMMA CloneApart ==
    ASSUME IInv, NEW v \in VMs, NEW c \in VMs, Forking(v, c)
    PROVE  /\ Live(v) = "live" /\ Quiet(v) /\ Live(c) = "clone" /\ c # v
           /\ Kind(c) = "none" /\ Quiet(c)
           /\ \A w, u \in VMs : Forking(w, u) => u # v /\ (w # v => u # c)
<1>1. Live(v) = "live" /\ Quiet(v) /\ Live(c) = "clone"
  BY DEF IInv, Locals, Local, Exact, OpExact, ForkExact, Forking
<1>2. c # v /\ Kind(c) = "none"
  BY <1>1 DEF IInv, Locals, Local, Exact, OpExact
<1>3. Quiet(c)
  BY <1>2 DEF IInv, Locals, Local, Exact, OpExact
<1>4. \A w, u \in VMs : Forking(w, u) => u # v /\ (w # v => u # c)
  BY <1>1 DEF IInv, Locals, Local, Exact, ForkExact, Forking, Exclusion, ForksDistinct
<1> QED
  BY <1>1, <1>2, <1>3, <1>4

(* An address space without an operation, and in no TLB after the step. *)
LEMMA IdleLocal ==
    ASSUME IInv, NEW v \in VMs, Kind(v) = "none", OpKept(v), LifeOf(v)', Isolated(v)',
           \A t \in Threads[v], p \in Pages : CFrame(v, t, p)' = NoFrame
    PROVE  Local(v)'
<1>1. Quiet(v) /\ Stage(v) = "none"
  BY DEF IInv, Locals, Local, Exact, OpExact
<1>2. Exact(v)' /\ CopyOf(v)'
  BY <1>1 DEF Exact, OpExact, FaultExact, UnmapExact, ForkExact, CopyOf, OpKept, Quiet
<1>3. Covered(v)'
  BY DEF Covered, OpKept
<1> QED
  BY <1>2, <1>3 DEF Local

(* The other address spaces of a fork. *)
LEMMA BystandersKept ==
    ASSUME IInv, NEW v \in VMs, NEW c \in VMs,
           \A w, u \in VMs : w # v /\ Forking(w, u) => u # v /\ u # c,
           \A w \in VMs : w # v /\ w # c => SpaceKept(w),
           \A f : Content(f)' = Content(f)
    PROVE  \A w \in VMs : w # v /\ w # c => Local(w)'
<1> SUFFICES ASSUME NEW w \in VMs, w # v, w # c PROVE Local(w)'
  OBVIOUS
<1>1. \A u \in VMs : Forking(w, u) => Live(u)' = Live(u) /\ \A p \in Pages : EntryKept(u, p)
  BY DEF SpaceKept
<1> QED
  BY <1>1, LocalKept

LEMMA PageReleasedKept ==
    ASSUME CountingLaws, IInv, NEW v \in VMs, NEW p \in Pages, Live(v) # "live", Mapped(v, p),
           \A w \in VMs : Forking(w, v) => Stage(w) = "undo",
           CowRelease(pte[v][p].frame), pte' = [pte EXCEPT ![v][p] = Unmapped],
           UNCHANGED <<content, tlb, live, op, value>>
    PROVE  IInv'
<1>1. PICK f \in Frames : f = Frame(v, p)
  <2>1. Frame(v, p) # NoFrame
    BY DEF Mapped, Frame
  <2> QED
    BY <2>1, Facts DEF Typed, AnyFrame
<1>2. LifeOf(v) /\ Kind(v) = "none"
  BY DEF IInv, Locals, Local, Exact, OpExact
<1>3. /\ pte' \in [VMs -> [Pages -> Entries]]
      /\ Frame(v, p)' = NoFrame /\ Writable(v, p)' = FALSE /\ OtherEntriesKept(v, p)
  BY EntrySet DEF Unmapped, AnyFrame
<1>4. \A w \in VMs, q \in Pages : Frame(w, q)' = IF w = v /\ q = p THEN NoFrame ELSE Frame(w, q)
  BY <1>3 DEF OtherEntriesKept, EntryKept
<1>5. /\ (\A g : Content(g)' = Content(g)) /\ CachesShrink
      /\ (\A w \in VMs : Live(w)' = Live(w)) /\ OpsKept
      /\ (\A w, q : Value(w, q)' = Value(w, q))
  BY ContentSame, TlbSame, LiveSame, OpSame, ValueSame
<1>6. /\ refs' \in [Frames -> Nat] /\ free' \subseteq Frames /\ Counted'
      /\ \A g \in Frames : g # f => Refs(g)' = Refs(g)
  <2>1. CowRelease(f)
    BY <1>1 DEF Frame
  <2>2. \A w \in VMs : Owned(w)' = Owned(w)
    BY <1>5 DEF OpsKept, OpKept, Owned
  <2>3. Owners(f) >= 1
    BY <1>1, Unowned, OwnersType, SMT
  <2>4. ASSUME NEW g \in Frames PROVE Owners(g)' = Owners(g) - Count(g = f)
    <3>1. Owners(g)' = Owners(g) + Count(Frame(v, p)' = g) - Count(Frame(v, p) = g)
                                 + Count(g \in Owned(v)') - Count(g \in Owned(v))
      BY <1>4, <2>2, OwnersMoved, SMT
    <3> QED
      BY <1>1, <1>4, <2>2, <3>1, OwnersType, SMT DEF Count
  <2> QED
    BY <2>1, <2>3, <2>4, Released
<1>7. TypeOK'
  BY <1>3, <1>6 DEF IInv, TypeOK
<1>8. \A w \in VMs : w # v => SpaceKept(w)
  BY <1>3, <1>5 DEF SpaceKept, OpsKept, OtherEntriesKept, CachesShrink
<1>9. ASSUME NEW w \in VMs, w # v PROVE Local(w)'
  <2>1. \A u \in VMs : Forking(w, u) => Live(u)' = Live(u) /\ \A q \in Pages :
          EntryKept(u, q) \/ (Stage(w) = "undo" /\ Frame(u, q)' = NoFrame)
    BY <1>3, <1>5 DEF OtherEntriesKept
  <2> QED
    BY <1>5, <1>8, <1>9, <2>1, LocalKept
<1>10. Local(v)'
  <2>1. \A q \in Pages : /\ Frame(v, q)' \in {Frame(v, q), NoFrame}
                         /\ Writable(v, q)' => Writable(v, q)
    BY <1>3, <1>4 DEF OtherEntriesKept, EntryKept
  <2>2. \A t \in Threads[v], q \in Pages : CFrame(v, t, q)' = NoFrame /\ ~CWrite(v, t, q)'
    BY <1>2, <1>5 DEF LifeOf, CachesShrink, CacheKept, CacheGone
  <2>3. LifeOf(v)' /\ Isolated(v)'
    BY <1>2, <1>5, <2>1, <2>2 DEF LifeOf, Isolated
  <2>4. OpKept(v)
    BY <1>5 DEF OpsKept
  <2> QED
    BY <1>2, <2>2, <2>3, <2>4, IdleLocal
<1>11. Exclusion'
  <2>1. ForksDistinct'
    BY <1>5, SMT DEF IInv, Exclusion, ForksDistinct, OpsKept, OpKept
  <2>2. Shrinks(v)
    BY <1>3, <1>4, <1>5 DEF Shrinks, OpsKept, OpKept, OtherEntriesKept, EntryKept, CachesShrink,
       CacheKept, CacheGone, Forking
  <2>3. \A w \in VMs : Shrinks(w)
    BY <1>8, <2>2, KeptShrinks
  <2>4. \A w \in VMs, g \in Frames : New(w) = g /\ New(w)' = g => Refs(g)' = Refs(g)
    BY <1>1, <1>6 DEF IInv, Exclusion, NewExclusive
  <2> QED
    BY <2>1, <2>3, <2>4, ExclusionKept DEF Exclusion
<1> QED
  BY <1>6, <1>7, <1>9, <1>10, <1>11 DEF IInv, Locals
-----------------------------------------------------------------------------
LEMMA ForkKept ==
    ASSUME IInv, NEW v \in VMs, NEW t \in Threads[v], NEW c \in VMs, Fork(v, t, c)
    PROVE  IInv'
<1>1. Live(v) = "live" /\ Kind(v) = "none" /\ Live(c) = "none" /\ c # v
  BY DEF Fork, Begin, Live, Kind
<1>2. /\ Quiet(v) /\ Stage(v) = "none" /\ LifeOf(v) /\ Covered(v) /\ Isolated(v)
      /\ LifeOf(c) /\ Kind(c) = "none"
  BY <1>1 DEF IInv, Locals, Local, Exact, OpExact
<1>3. \A p \in Pages : Frame(c, p) = NoFrame /\ ~Writable(c, p)
  BY <1>1, <1>2 DEF LifeOf, IInv, Exclusion, WriteExclusive
<1>4. \A w, u \in VMs : Forking(w, u) => u # v /\ u # c /\ w # v
  BY <1>1 DEF IInv, Locals, Local, Exact, ForkExact, Forking
<1>5. /\ live' \in [VMs -> {"none", "clone", "live", "exit"}]
      /\ Live(c)' = "clone" /\ \A w \in VMs : w # c => Live(w)' = Live(w)
  BY DEF Fork, IInv, TypeOK, Live
<1>6. UNCHANGED <<pte, refs, free, content, tlb, value>>
  BY DEF Fork
<1>7. /\ EntriesKept /\ (\A g : Refs(g)' = Refs(g)) /\ (\A g : Content(g)' = Content(g))
      /\ CachesShrink /\ (\A w, q : Value(w, q)' = Value(w, q))
  BY <1>6, PteSame, RefsSame, ContentSame, TlbSame, ValueSame
<1>8. PICK s \in SUBSET Pages : s = {p \in Pages : Frame(v, p) # NoFrame}
  OBVIOUS
<1> DEFINE o == [[NoOp EXCEPT !.kind = "fork", !.stage = "share", !.child = c, !.todo = s]
                   EXCEPT !.by = t]
<1>9. NoOp \in Ops /\ t \in AllThreads /\ s \in SUBSET (Pages \cup AllThreads)
  BY NoOpType DEF AllThreads
<1>10. o \in Ops /\ op' = [op EXCEPT ![v] = o]
  <2>1. o \in Ops
    BY <1>9 DEF Ops
  <2> QED
    BY <1>8, <2>1 DEF Fork, Begin, Mapped, Frame
<1>11. op' \in [VMs -> Ops] /\ op'[v] = o /\ OtherOpsKept(v)
  BY <1>10, OpSet DEF IInv
<1>12. /\ Kind(v)' = "fork" /\ Runner(v)' = t /\ Stage(v)' = "share" /\ Child(v)' = c
       /\ New(v)' = NoFrame /\ From(v)' = NoFrame /\ Old(v)' = NoFrame /\ Hold(v)' = NoFrame
       /\ Todo(v)' = s
  BY <1>11 DEF NoOp, Kind, Runner, Stage, New, From, Old, Hold, Child, Todo
<1> HIDE DEF o
<1>13. TypeOK'
  BY <1>5, <1>6, <1>11 DEF IInv, TypeOK
<1>14. \A w \in VMs : w # v /\ w # c => Local(w)'
  <2>1. \A w \in VMs : w # v /\ w # c => SpaceKept(w)
    BY <1>5, <1>7, <1>11 DEF SpaceKept, EntriesKept, OtherOpsKept, CachesShrink
  <2> QED
    BY <1>4, <1>7, <2>1, BystandersKept
<1>15. Local(c)'
  <2>1. \A u \in Threads[c], p \in Pages : CFrame(c, u, p)' = NoFrame /\ ~CWrite(c, u, p)'
    BY <1>1, <1>2, <1>7 DEF LifeOf, CachesShrink, CacheKept, CacheGone
  <2>2. LifeOf(c)' /\ Isolated(c)'
    BY <1>3, <1>5, <1>7, <2>1 DEF LifeOf, Isolated, EntriesKept, EntryKept
  <2>3. OpKept(c)
    BY <1>1, <1>11 DEF OtherOpsKept
  <2> QED
    BY <1>2, <2>1, <2>2, <2>3, IdleLocal
<1>16. Local(v)'
  <2>1. Live(v)' = "live" /\ \A p \in Pages : EntryKept(v, p) /\ EntryKept(c, p)
    BY <1>1, <1>5, <1>7 DEF EntriesKept
  <2>2. Exact(v)'
    BY <1>3, <1>5, <1>8, <1>12, <2>1 DEF Exact, OpExact, FaultExact, UnmapExact, ForkExact, Quiet,
       EntryKept
  <2>3. LifeOf(v)' /\ CopyOf(v)'
    BY <1>12, <2>1 DEF LifeOf, CopyOf
  <2>4. Covered(v)'
    BY <1>2, <1>7, <1>12, <2>1 DEF Covered, Stale, CachesShrink, CacheKept, CacheGone, EntryKept
  <2>5. Isolated(v)'
    BY <1>1, <1>2, <1>7, <2>1 DEF Isolated, EntryKept
  <2> QED
    BY <2>2, <2>3, <2>4, <2>5 DEF Local
<1>17. Exclusion'
  <2>1. ForksDistinct'
    BY <1>4, <1>11, <1>12, Facts, SMT DEF IInv, Exclusion, ForksDistinct, OtherOpsKept, OpKept,
          Forking,
       Typed
  <2>2. ASSUME NEW w \in VMs PROVE Shrinks(w)
    <3>1. /\ New(w)' \in {New(w), NoFrame} /\ Hold(w)' \in {Hold(w), NoFrame}
          /\ Old(w)' \in {Old(w), NoFrame} /\ \A u \in VMs : Forking(w, u) => Forking(w, u)'
      BY <1>4, <1>11, <1>12 DEF OtherOpsKept, OpKept, Forking
    <3>2. Kind(w) = "unmap" \/ Kind(w)' = "unmap" =>
            Kind(w)' = Kind(w) /\ Hold(w)' = Hold(w) /\ PageOf(w)' = PageOf(w)
      BY <1>1, <1>11, <1>12 DEF OtherOpsKept, OpKept
    <3> QED
      BY <1>7, <3>1, <3>2 DEF Shrinks, EntriesKept, EntryKept, CachesShrink, CacheKept, CacheGone
  <2> QED
    BY <1>7, <2>1, <2>2, ExclusionKept DEF Exclusion
<1>18. Counted'
  <2>1. \A w \in VMs : Owned(w)' = Owned(w)
    BY <1>2, <1>11, <1>12 DEF Owned, Quiet, OtherOpsKept, OpKept
  <2> QED
    BY <1>6, <1>7, <2>1, CountedKept DEF IInv, EntriesKept, EntryKept
<1> QED
  BY <1>13, <1>14, <1>15, <1>16, <1>17, <1>18 DEF IInv, Locals

(* The fork is over, and its clone becomes a process or goes away. *)
LEMMA ForkOver ==
    ASSUME IInv, NEW v \in VMs, NEW c \in VMs, Forking(v, c), End(v), TypeOK',
           UNCHANGED <<pte, refs, free, content, tlb>>,
           Local(c)', \A w \in VMs : w # c => Live(w)' = Live(w),
           \A w \in VMs, p \in Pages : w # c => Value(w, p)' = Value(w, p),
           \/ \A t \in Threads[v], p \in Pages : ~CWrite(v, t, p)
           \/ \A p \in Pages : Frame(c, p) = NoFrame
    PROVE  IInv'
<1>1. /\ Live(v) = "live" /\ Quiet(v) /\ c # v /\ Kind(v) = "fork"
      /\ \A w, u \in VMs : Forking(w, u) => u # v /\ (w # v => u # c)
  BY CloneApart DEF Forking
<1>2. /\ EntriesKept /\ (\A g : Refs(g)' = Refs(g)) /\ (\A g : Content(g)' = Content(g))
      /\ CachesShrink
  BY PteSame, RefsSame, ContentSame, TlbSame
<1>3. OpEnded(v) /\ OtherOpsKept(v)
  BY OpEnd DEF IInv
<1>4. \A w \in VMs : w # v /\ w # c => Local(w)'
  <2>1. \A w \in VMs : w # v /\ w # c => SpaceKept(w)
    BY <1>2, <1>3 DEF SpaceKept, EntriesKept, OtherOpsKept, CachesShrink
  <2>2. \A w, u \in VMs : w # v /\ Forking(w, u) => u # v /\ u # c
    BY <1>1
  <2>3. \A g : Content(g)' = Content(g)
    BY <1>2
  <2> QED
    BY <2>1, <2>2, <2>3, BystandersKept
<1>5. Local(v)'
  <2>1. Covered(v) /\ Isolated(v)
    BY DEF IInv, Locals, Local
  <2>2. Live(v)' = "live" /\ \A p \in Pages : EntryKept(v, p) /\ Value(v, p)' = Value(v, p)
    BY <1>1, <1>2 DEF EntriesKept
  <2>3. Exact(v)' /\ LifeOf(v)' /\ CopyOf(v)'
    BY <1>3, <2>2 DEF Exact, OpExact, FaultExact, UnmapExact, ForkExact, LifeOf, CopyOf, OpEnded,
       Quiet
  <2>4. Covered(v)'
    BY <1>1, <1>2, <1>3, <2>1, <2>2 DEF Covered, Stale, CachesShrink, CacheKept, CacheGone,
       EntryKept, OpEnded
  <2>5. Isolated(v)'
    BY <1>1, <1>2, <2>1, <2>2 DEF Isolated, EntryKept
  <2> QED
    BY <2>3, <2>4, <2>5 DEF Local
<1>6. Exclusion'
  <2>1. ForksDistinct'
    BY <1>3 DEF IInv, Exclusion, ForksDistinct, OpEnded, OtherOpsKept, OpKept
  <2>2. \A w \in VMs, p \in Pages : EntryKept(w, p)
    BY <1>2 DEF EntriesKept
  <2>3. ASSUME NEW w \in VMs, w # v PROVE Shrinks(w)
    BY <1>2, <1>3, <2>2, <2>3 DEF Shrinks, OtherOpsKept, OpKept, EntryKept, CachesShrink, CacheKept,
       CacheGone, Forking
  <2>4. Shrinks(v)
    <3>1. \A u \in VMs : Forking(v, u) => u = c
      BY DEF Forking
    <3>2. \/ \A t \in Threads[v], p \in Pages : ~CWrite(v, t, p)'
          \/ \A p \in Pages : Frame(c, p)' = NoFrame
      BY <1>2, <2>2 DEF EntryKept, CachesShrink, CacheKept, CacheGone
    <3> QED
      BY <1>1, <1>2, <1>3, <2>2, <3>1, <3>2 DEF Shrinks, OpEnded, EntryKept, CachesShrink,
         CacheKept, CacheGone
  <2> QED
    BY <1>2, <2>1, <2>3, <2>4, ExclusionKept DEF Exclusion
<1>7. Counted'
  <2>1. \A w \in VMs : Owned(w)' = Owned(w)
    BY <1>1, <1>3 DEF Owned, Quiet, OpEnded, OtherOpsKept, OpKept
  <2> QED
    BY <1>2, <2>1, CountedKept DEF IInv, EntriesKept, EntryKept
<1> QED
  BY <1>4, <1>5, <1>6, <1>7 DEF IInv, Locals

LEMMA ForkEndKept ==
    ASSUME IInv, NEW v \in VMs, ForkEnd(v)
    PROVE  IInv'
<1>1. /\ Kind(v) = "fork" /\ Stage(v) = "flush" /\ Todo(v) = {} /\ End(v)
      /\ UNCHANGED <<pte, refs, free, content, tlb>>
  BY DEF ForkEnd, Kind, Stage, Todo
<1>2. PICK c \in VMs : c = Child(v)
  BY Facts DEF Typed
<1>3. Forking(v, c)
  BY <1>1, <1>2 DEF Forking
<1>4. Live(v) = "live" /\ Live(c) = "clone" /\ c # v /\ Kind(c) = "none"
  BY <1>3, CloneApart
<1>5. /\ \A t \in Threads[v], p \in Pages : ~CWrite(v, t, p)
      /\ \A p \in Pages : Frame(c, p) # NoFrame => Frame(c, p) = Frame(v, p)
      /\ Isolated(v) /\ LifeOf(c)
  BY <1>1, <1>2 DEF IInv, Locals, Local, Covered, Exact, ForkExact
<1>6. /\ live' \in [VMs -> {"none", "clone", "live", "exit"}]
      /\ value' \in [VMs -> [Pages -> Values]]
      /\ Live(c)' = "live" /\ \A w \in VMs : w # c => Live(w)' = Live(w)
      /\ \A w \in VMs, q \in Pages : Value(w, q)' = IF w = c THEN Value(v, q) ELSE Value(w, q)
  BY <1>2 DEF ForkEnd, IInv, TypeOK, Live, Child, Value
<1>7. op' \in [VMs -> Ops] /\ OtherOpsKept(v)
  BY <1>1, OpEnd DEF IInv
<1>8. TypeOK'
  BY <1>1, <1>6, <1>7 DEF IInv, TypeOK
<1>9. Local(c)'
  <2>1. EntriesKept /\ (\A g : Content(g)' = Content(g)) /\ CachesShrink
    BY <1>1, PteSame, ContentSame, TlbSame
  <2>2. \A t \in Threads[c], p \in Pages : CFrame(c, t, p)' = NoFrame /\ ~CWrite(c, t, p)'
    BY <1>4, <1>5, <2>1 DEF LifeOf, CachesShrink, CacheKept, CacheGone
  <2>3. LifeOf(c)' /\ Isolated(c)'
    BY <1>4, <1>5, <1>6, <2>1, SMT DEF LifeOf, Isolated, EntriesKept, EntryKept
  <2>4. OpKept(c)
    BY <1>4, <1>7 DEF OtherOpsKept
  <2> QED
    BY <1>4, <2>2, <2>3, <2>4, IdleLocal
<1> QED
  BY <1>1, <1>3, <1>5, <1>6, <1>8, <1>9, ForkOver

LEMMA ForkUndoneKept ==
    ASSUME IInv, NEW v \in VMs, ForkUndone(v)
    PROVE  IInv'
<1>1. Kind(v) = "fork" /\ End(v) /\ UNCHANGED <<pte, refs, free, content, tlb, value>>
  BY DEF ForkUndone, Kind
<1>2. PICK c \in VMs : c = Child(v)
  BY Facts DEF Typed
<1>3. Forking(v, c) /\ \A p \in Pages : Frame(c, p) = NoFrame
  BY <1>1, <1>2 DEF Forking, ForkUndone, Mapped, Frame, Child
<1>4. Live(c) = "clone" /\ c # v /\ Kind(c) = "none"
  BY <1>3, CloneApart
<1>5. /\ live' \in [VMs -> {"none", "clone", "live", "exit"}]
      /\ Live(c)' = "none" /\ \A w \in VMs : w # c => Live(w)' = Live(w)
  BY <1>2 DEF ForkUndone, IInv, TypeOK, Live, Child
<1>6. op' \in [VMs -> Ops] /\ OtherOpsKept(v)
  BY <1>1, OpEnd DEF IInv
<1>7. TypeOK'
  BY <1>1, <1>5, <1>6 DEF IInv, TypeOK
<1>8. Local(c)'
  <2>1. LifeOf(c)
    BY DEF IInv, Locals, Local
  <2>2. EntriesKept /\ CachesShrink
    BY <1>1, PteSame, TlbSame
  <2>3. \A t \in Threads[c], p \in Pages : CFrame(c, t, p)' = NoFrame /\ ~CWrite(c, t, p)'
    BY <1>4, <2>1, <2>2 DEF LifeOf, CachesShrink, CacheKept, CacheGone
  <2>4. LifeOf(c)' /\ Isolated(c)'
    BY <1>3, <1>5, <2>2, <2>3 DEF LifeOf, Isolated, EntriesKept, EntryKept
  <2>5. OpKept(c)
    BY <1>4, <1>6 DEF OtherOpsKept
  <2> QED
    BY <1>4, <2>3, <2>4, <2>5, IdleLocal
<1>9. \A w, q : Value(w, q)' = Value(w, q)
  BY <1>1, ValueSame
<1> QED
  BY <1>1, <1>3, <1>5, <1>7, <1>8, <1>9, ForkOver
-----------------------------------------------------------------------------
(* A process without an operation goes through a stage of its end. *)
LEMMA DeadKept ==
    ASSUME IInv, NEW v \in VMs, Kind(v) = "none", Live(v) # "clone", TypeOK', Local(v)',
           UNCHANGED <<pte, refs, free, content, op>>, CachesShrink,
           \A w \in VMs : w # v => Live(w)' = Live(w),
           \A w \in VMs, p \in Pages : w # v => Value(w, p)' = Value(w, p)
    PROVE  IInv'
<1>1. /\ EntriesKept /\ (\A g : Refs(g)' = Refs(g)) /\ (\A g : Content(g)' = Content(g))
      /\ OpsKept
  BY PteSame, RefsSame, ContentSame, OpSame
<1>2. \A w \in VMs : w # v => Local(w)'
  <2>1. \A w \in VMs : w # v => SpaceKept(w)
    BY <1>1 DEF SpaceKept, EntriesKept, OpsKept, CachesShrink
  <2> QED
    BY <1>1, <2>1, OthersKept
<1>3. Exclusion'
  <2>1. ForksDistinct'
    BY <1>1 DEF IInv, Exclusion, ForksDistinct, OpsKept, OpKept
  <2>2. \A w \in VMs : Shrinks(w)
    BY <1>1 DEF Shrinks, OpsKept, OpKept, EntriesKept, EntryKept, CachesShrink, CacheKept,
          CacheGone,
       Forking
  <2> QED
    BY <1>1, <2>1, <2>2, ExclusionKept DEF Exclusion
<1>4. Counted'
  BY <1>1, CountedKept DEF IInv, Owned, OpsKept, OpKept, EntriesKept, EntryKept
<1> QED
  BY <1>2, <1>3, <1>4 DEF IInv, Locals

LEMMA ExitKept ==
    ASSUME IInv, NEW v \in VMs, Exit(v)
    PROVE  IInv'
<1>1. Live(v) = "live" /\ Kind(v) = "none" /\ UNCHANGED <<pte, refs, free, content, op, value>>
  BY DEF Exit, Live, Kind
<1>2. /\ live' \in [VMs -> {"none", "clone", "live", "exit"}]
      /\ Live(v)' = "exit" /\ \A w \in VMs : w # v => Live(w)' = Live(w)
  BY DEF Exit, IInv, TypeOK, Live
<1>3. /\ CachesTyped' /\ \A t \in Threads[v], p \in Pages : tlb'[v][t][p] = Uncached
      /\ \A w \in VMs : w # v => tlb'[w] = tlb[w]
  <2> DEFINE e == [t \in Threads[v] |-> [p \in Pages |-> Uncached]]
  <2>1. e \in [Threads[v] -> [Pages -> CacheEntries]]
    BY UncachedType
  <2>2. tlb' = [tlb EXCEPT ![v] = e] /\ \A t \in Threads[v], p \in Pages : e[t][p] = Uncached
    BY DEF Exit
  <2> HIDE DEF e
  <2> QED
    BY <2>1, <2>2 DEF CachesTyped, IInv, TypeOK
<1>4. CachesShrink /\ \A t \in Threads[v], p \in Pages : CacheGone(v, t, p)
  <2>1. \A t \in Threads[v], p \in Pages : CacheGone(v, t, p)
    BY <1>3, UncachedType DEF CacheGone, CFrame, CWrite
  <2>2. \A w \in VMs : w # v => \A t \in Threads[w], p \in Pages : CacheKept(w, t, p)
    BY <1>3 DEF CacheKept, CFrame, CWrite
  <2> QED
    BY <2>1, <2>2 DEF CachesShrink
<1>5. TypeOK'
  BY <1>1, <1>2, <1>3 DEF IInv, TypeOK, CachesTyped
<1>6. OpsKept /\ \A w, q : Value(w, q)' = Value(w, q)
  BY <1>1, OpSame, ValueSame
<1>7. Local(v)'
  <2>1. LifeOf(v)' /\ Isolated(v)' /\ OpKept(v)
    BY <1>2, <1>4, <1>6 DEF LifeOf, Isolated, CacheGone, OpsKept
  <2>2. \A t \in Threads[v], p \in Pages : CFrame(v, t, p)' = NoFrame
    BY <1>4 DEF CacheGone
  <2> QED
    BY <1>1, <2>1, <2>2, IdleLocal
<1> QED
  BY <1>1, <1>2, <1>4, <1>5, <1>6, <1>7, DeadKept

LEMMA ExitedKept ==
    ASSUME IInv, NEW v \in VMs, Exited(v)
    PROVE  IInv'
<1>1. /\ Live(v) = "exit" /\ (\A p \in Pages : Frame(v, p) = NoFrame)
      /\ UNCHANGED <<pte, refs, free, content, tlb, op>>
  BY DEF Exited, Live, Mapped, Frame
<1>2. Kind(v) = "none" /\ LifeOf(v)
  BY <1>1 DEF IInv, Locals, Local, Exact, OpExact
<1>3. /\ live' \in [VMs -> {"none", "clone", "live", "exit"}]
      /\ value' \in [VMs -> [Pages -> Values]]
      /\ Live(v)' = "none" /\ (\A w \in VMs : w # v => Live(w)' = Live(w))
      /\ \A w \in VMs, q \in Pages : w # v => Value(w, q)' = Value(w, q)
  BY DEF Exited, IInv, TypeOK, Live, Value
<1>4. EntriesKept /\ CachesShrink /\ OpsKept
  BY <1>1, PteSame, TlbSame, OpSame
<1>5. TypeOK'
  BY <1>1, <1>3 DEF IInv, TypeOK
<1>6. Local(v)'
  <2>1. \A t \in Threads[v], p \in Pages : CFrame(v, t, p)' = NoFrame /\ ~CWrite(v, t, p)'
    BY <1>1, <1>2, <1>4 DEF LifeOf, CachesShrink, CacheKept, CacheGone
  <2>2. LifeOf(v)' /\ Isolated(v)' /\ OpKept(v)
    BY <1>1, <1>3, <1>4, <2>1 DEF LifeOf, Isolated, EntriesKept, EntryKept, OpsKept
  <2> QED
    BY <1>2, <2>1, <2>2, IdleLocal
<1> QED
  BY <1>1, <1>2, <1>3, <1>4, <1>5, <1>6, DeadKept
-----------------------------------------------------------------------------
LEMMA ForkShareKept ==
    ASSUME CountingLaws, IInv, NEW v \in VMs, NEW p \in Pages, ForkShare(v, p)
    PROVE  IInv'
<1>1. /\ Kind(v) = "fork" /\ Stage(v) = "share" /\ p \in Todo(v)
      /\ UNCHANGED <<free, content, tlb, live, value>>
  BY DEF ForkShare, Sharing, Kind, Stage, Todo
<1>2. PICK c \in VMs : c = Child(v)
  BY Facts DEF Typed
<1>3. /\ Forking(v, c) /\ Live(v) = "live" /\ Quiet(v) /\ Live(c) = "clone" /\ c # v
      /\ Kind(c) = "none"
      /\ \A w, u \in VMs : Forking(w, u) => u # v /\ (w # v => u # c)
  <2>1. Forking(v, c)
    BY <1>1, <1>2 DEF Forking
  <2> QED
    BY <2>1, CloneApart, SMT
<1>4. Exact(v) /\ Covered(v) /\ Isolated(v) /\ LifeOf(c)
  BY DEF IInv, Locals, Local
<1>5. Frame(v, p) # NoFrame /\ Frame(c, p) = NoFrame
  BY <1>1, <1>2, <1>4 DEF Exact, ForkExact
<1>6. PICK f \in Frames : f = Frame(v, p)
  BY <1>5, Facts DEF Typed, AnyFrame
<1>7. /\ pte' \in [VMs -> [Pages -> Entries]]
      /\ Frame(v, p)' = f /\ ~Writable(v, p)' /\ Frame(c, p)' = f /\ ~Writable(c, p)'
      /\ \A w \in VMs, q \in Pages : (w # v /\ w # c) \/ q # p => EntryKept(w, q)
  <2> DEFINE d == IF pte[v][p].write THEN [frame |-> pte[v][p].frame, write |-> FALSE, cow |-> TRUE]
                                      ELSE pte[v][p]
  <2>1. pte[v][p] \in Entries /\ pte[v][p].frame = f
    BY <1>6, SMT DEF IInv, TypeOK, Frame
  <2>2. d \in Entries /\ d.frame = f /\ d.write = FALSE
    BY <2>1 DEF Entries
  <2>3. pte' = [pte EXCEPT ![v][p] = d, ![c][p] = d]
    BY <1>2 DEF ForkShare, Child
  <2> HIDE DEF d
  <2>4. /\ pte' \in [VMs -> [Pages -> Entries]] /\ pte'[v][p] = d /\ pte'[c][p] = d
        /\ \A w \in VMs, q \in Pages : (w # v /\ w # c) \/ q # p => pte'[w][q] = pte[w][q]
    BY <1>3, <2>2, <2>3 DEF IInv, TypeOK
  <2> QED
    BY <2>2, <2>4 DEF Frame, Writable, EntryKept
<1>8. /\ \A w \in VMs, q \in Pages : Frame(w, q)' = IF w = c /\ q = p THEN f ELSE Frame(w, q)
      /\ \A w \in VMs, q \in Pages : Writable(w, q)' => Writable(w, q) /\ Frame(w, q) # f
  <2>1. \A w \in VMs, q \in Pages : Frame(w, q)' = IF w = c /\ q = p THEN f ELSE Frame(w, q)
    BY <1>6, <1>7 DEF EntryKept
  <2>2. \A w \in VMs, q \in Pages : Writable(w, q)' => Writable(w, q) /\ (w # v \/ q # p)
    BY <1>7 DEF EntryKept
  <2> QED
    BY <1>6, <2>1, <2>2, SMT DEF IInv, Exclusion, WriteExclusive
<1>9. /\ refs' \in [Frames -> Nat] /\ Refs(f)' = (IF Refs(f) = 0 THEN 2 ELSE Refs(f) + 1)
      /\ \A g \in Frames : g # f => Refs(g)' = Refs(g)
  <2>1. refs' = [refs EXCEPT ![f] = IF refs[f] = 0 THEN 2 ELSE refs[f] + 1]
    BY <1>6 DEF ForkShare, RefShare, Frame
  <2> QED
    BY <2>1, SMT DEF IInv, TypeOK, Refs
<1>10. /\ (\A g : Content(g)' = Content(g)) /\ CachesShrink
       /\ (\A w \in VMs : Live(w)' = Live(w)) /\ (\A w, q : Value(w, q)' = Value(w, q))
  BY <1>1, ContentSame, TlbSame, LiveSame, ValueSame
<1>11. /\ op' \in [VMs -> Ops] /\ OtherOpsKept(v)
       /\ Kind(v)' = Kind(v) /\ Runner(v)' = Runner(v) /\ Stage(v)' = Stage(v)
       /\ PageOf(v)' = PageOf(v) /\ New(v)' = New(v) /\ From(v)' = From(v)
       /\ Old(v)' = Old(v) /\ Hold(v)' = Hold(v) /\ Child(v)' = Child(v) /\ Todo(v)' = Todo(v) \ {p}
  BY TodoLess DEF ForkShare
<1>12. \A w \in VMs : /\ Kind(w)' = Kind(w) /\ Child(w)' = Child(w) /\ New(w)' = New(w)
                      /\ Old(w)' = Old(w) /\ Hold(w)' = Hold(w) /\ PageOf(w)' = PageOf(w)
                      /\ Owned(w)' = Owned(w)
  BY <1>11 DEF Owned, OtherOpsKept, OpKept
<1>13. TypeOK'
  BY <1>1, <1>7, <1>9, <1>11 DEF IInv, TypeOK
<1>14. \A w \in VMs : w # v /\ w # c => Local(w)'
  <2>1. \A w \in VMs : w # v /\ w # c => SpaceKept(w)
    BY <1>7, <1>10, <1>11 DEF SpaceKept, OtherOpsKept, CachesShrink
  <2> QED
    BY <1>3, <1>10, <2>1, BystandersKept, SMT
<1>15. Local(c)'
  <2>1. \A t \in Threads[c], q \in Pages : CFrame(c, t, q)' = NoFrame /\ ~CWrite(c, t, q)'
    BY <1>3, <1>4, <1>10 DEF LifeOf, CachesShrink, CacheKept, CacheGone
  <2>2. LifeOf(c)' /\ Isolated(c)'
    BY <1>3, <1>4, <1>8, <1>10, <2>1 DEF LifeOf, Isolated
  <2>3. OpKept(c)
    BY <1>3, <1>11 DEF OtherOpsKept
  <2> QED
    BY <1>3, <2>1, <2>2, <2>3, IdleLocal
<1>16. Local(v)'
  <2>1. OpExact(v)' /\ FaultExact(v)' /\ UnmapExact(v)'
    BY <1>1, <1>4, <1>10, <1>11 DEF Exact, OpExact, FaultExact, UnmapExact
  <2>2. ForkExact(v)'
    <3>1. \A q \in Pages : q \in Todo(v)' <=> Frame(v, q)' # NoFrame /\ Frame(c, q)' = NoFrame
      BY <1>1, <1>2, <1>3, <1>4, <1>8, <1>11, SMT DEF Exact, ForkExact
    <3>2. \A q \in Pages : Frame(c, q)' # NoFrame => Frame(c, q)' = Frame(v, q)' /\ ~Writable(v, q)'
      BY <1>1, <1>2, <1>3, <1>4, <1>6, <1>7, <1>8, SMT DEF Exact, ForkExact
    <3>3. Live(c)' = "clone" /\ Child(v)' = c /\ Quiet(v)'
      BY <1>2, <1>3, <1>10, <1>11 DEF Quiet
    <3> QED
      BY <1>1, <1>11, <3>1, <3>2, <3>3 DEF ForkExact
  <2>3. LifeOf(v)' /\ CopyOf(v)'
    BY <1>1, <1>3, <1>10, <1>11 DEF LifeOf, CopyOf, Quiet
  <2>4. Covered(v)'
    BY <1>1, <1>3, <1>4, <1>8, <1>10, <1>11 DEF Covered, Stale, CachesShrink, CacheKept, CacheGone
  <2>5. Isolated(v)'
    BY <1>3, <1>4, <1>8, <1>10 DEF Isolated
  <2> QED
    BY <2>1, <2>2, <2>3, <2>4, <2>5 DEF Local, Exact
<1>17. Exclusion'
  <2>1. ForksDistinct'
    BY <1>12 DEF IInv, Exclusion, ForksDistinct
  <2>2. SamePage'
    BY <1>6, <1>8, <1>12, SMT DEF IInv, Exclusion, SamePage
  <2>3. WriteExclusive'
    BY <1>5, <1>8, <1>12, SMT DEF IInv, Exclusion, WriteExclusive
  <2>4. NewExclusive'
    <3>1. \A w \in VMs : New(w) # NoFrame => New(w) \in Frames /\ New(w) # f
      BY <1>6, Facts, SMT DEF IInv, Exclusion, NewExclusive, Typed, AnyFrame
    <3> QED
      BY <1>8, <1>9, <1>12, <3>1, SMT DEF IInv, Exclusion, NewExclusive
  <2>5. CacheExclusive'
    <3> SUFFICES ASSUME NEW w \in VMs, NEW t \in Threads[w], NEW q \in Pages, CWrite(w, t, q)'
                 PROVE  Reached(w, q, CFrame(w, t, q))'
      BY DEF CacheExclusive
    <3>1. CWrite(w, t, q) /\ CFrame(w, t, q)' = CFrame(w, t, q) /\ Reached(w, q, CFrame(w, t, q))
      BY <1>10 DEF CachesShrink, CacheKept, CacheGone, IInv, Exclusion, CacheExclusive
    <3>2. CFrame(w, t, q) = f => w = v /\ q = p
      BY <1>3, <1>6, <3>1 DEF Reached
    <3>3. \A u \in VMs : Forking(w, u) => Forking(w, u)'
      BY <1>12 DEF Forking
    <3>4. CFrame(w, t, q) = f => Forking(w, c)'
      BY <1>3, <3>2, <3>3
    <3> DEFINE g == CFrame(w, t, q)
    <3>5. g # NoFrame /\ g # Old(w)'
      BY <1>12, <3>1 DEF Reached
    <3>6. ASSUME NEW u \in VMs, NEW r \in Pages, Frame(u, r)' = g
          PROVE  r = q /\ (u = w \/ Forking(w, u)')
      <4>1. CASE u = c /\ r = p
        BY <1>8, <3>2, <3>4, <3>6, <4>1
      <4>2. CASE ~(u = c /\ r = p)
        BY <1>8, <3>1, <3>3, <3>6, <4>2 DEF Reached
      <4> QED
        BY <4>1, <4>2
    <3>7. \A u \in VMs : g \in Owned(u)' => u = w /\ Kind(w)' = "unmap"
      BY <1>12, <3>1 DEF Reached
    <3> QED
      BY <3>1, <3>5, <3>6, <3>7 DEF Reached
  <2> QED
    BY <2>1, <2>2, <2>3, <2>4, <2>5 DEF Exclusion
<1>18. Counted'
  <2>1. \A w \in VMs, q \in Pages : w # c \/ q # p => Frame(w, q)' = Frame(w, q)
    BY <1>8
  <2>2. ASSUME NEW g \in Frames
        PROVE  /\ g \in free' <=> Owners(g)' = 0
               /\ Owners(g)' >= 2 => Refs(g)' = Owners(g)'
               /\ Owners(g)' <= 1 => Refs(g)' <= Owners(g)'
    <3>1. Owners(g)' = Owners(g) + Count(Frame(c, p)' = g) - Count(Frame(c, p) = g)
                                 + Count(g \in Owned(v)') - Count(g \in Owned(v))
      BY <1>12, <2>1, OwnersMoved, SMT
    <3>2. Owners(g)' = Owners(g) + Count(g = f) /\ Owners(g) \in Nat
      BY <1>5, <1>8, <1>12, <3>1, OwnersType, SMT DEF Count
    <3>3. CASE g = f
      <4>1. Owners(f) # 0 /\ Refs(f) \in Nat
        BY <1>6, Unowned, Facts DEF Typed
      <4> QED
        BY <1>1, <1>9, <3>2, <3>3, <4>1, SMT DEF Count, IInv, Counted
    <3>4. CASE g # f
      <4>1. Owners(g)' = Owners(g)
        BY <3>2, <3>4, SMT DEF Count
      <4> QED
        BY <1>1, <1>9, <3>4, <4>1 DEF IInv, Counted
    <3> QED
      BY <3>3, <3>4
  <2> QED
    BY <2>2 DEF Counted
<1> QED
  BY <1>13, <1>14, <1>15, <1>16, <1>17, <1>18 DEF IInv, Locals
-----------------------------------------------------------------------------
LEMMA FaultStepKept == ASSUME CountingLaws, IInv, NEW v \in VMs, FaultStep(v) PROVE IInv'
<1>1. CASE FaultDone(v)
  <2>1. Kind(v) = "fault" /\ Stage(v) = "check"
    BY <1>1 DEF FaultDone, Checking, Kind, Stage
  <2> QED
    BY <1>1, <2>1, FaultEndsKept DEF FaultDone, New
<1>2. CASE FaultNoFrame(v)
  <2>1. Kind(v) = "fault" /\ Stage(v) = "copy" /\ New(v) = NoFrame
    BY <1>2 DEF FaultNoFrame, Kind, Stage, New
  <2>2. GiveBack(New(v))
    BY <1>2, <2>1 DEF FaultNoFrame, GiveBack
  <2> QED
    BY <1>2, <2>1, <2>2, FaultEndsKept DEF FaultNoFrame
<1>3. CASE FaultUntracked(v)
  <2>1. Kind(v) = "fault" /\ Stage(v) = "check"
    BY <1>3 DEF FaultUntracked, MustCopy, Checking, Kind, Stage
  <2> QED
    BY <1>3, <2>1, FaultEndsKept DEF FaultUntracked, New
<1>4. CASE FaultEnd(v)
  <2>1. Kind(v) = "fault" /\ Stage(v) = "flush" /\ Todo(v) = {} /\ GiveBack(Hold(v))
    BY <1>4 DEF FaultEnd, Kind, Stage, Todo, Hold
  <2>2. New(v) = Hold(v)
    BY <2>1 DEF IInv, Locals, Local, Exact, FaultExact
  <2>3. GiveBack(New(v))
    BY <2>1, <2>2 DEF GiveBack
  <2> QED
    BY <1>4, <2>1, <2>3, FaultEndsKept DEF FaultEnd
<1> QED
  BY <1>1, <1>2, <1>3, <1>4, FaultInPlaceKept, FaultToCopyKept, FaultCopyKept, FaultCommitKept
     DEF FaultStep

LEMMA ForkStepKept == ASSUME CountingLaws, IInv, NEW v \in VMs, ForkStep(v) PROVE IInv'
<1>1. CASE ForkFail(v)
  <2>1. Kind(v) = "fork"
    BY <1>1 DEF ForkFail, Sharing, Kind
  <2> QED
    BY <1>1, <2>1, ForkAbortsKept DEF ForkFail
<1>2. CASE ForkNotFlushed(v)
  <2>1. Kind(v) = "fork"
    BY <1>2 DEF ForkNotFlushed, Kind
  <2> QED
    BY <1>2, <2>1, ForkAbortsKept DEF ForkNotFlushed
<1>3. ASSUME NEW p \in Pages, ForkUndo(v, p) PROVE IInv'
  <2>1. Kind(v) = "fork" /\ Stage(v) = "undo"
    BY <1>3 DEF ForkUndo, Kind, Stage
  <2>2. PICK c \in VMs : c = Child(v)
    BY Facts DEF Typed
  <2>3. Live(c) # "live" /\ \A w \in VMs : Forking(w, c) => Stage(w) = "undo"
    <3>1. Forking(v, c)
      BY <2>1, <2>2 DEF Forking
    <3> QED
      BY <2>1, <3>1, CloneApart, SMT
  <2>4. Mapped(c, p) /\ CowRelease(pte[c][p].frame) /\ pte' = [pte EXCEPT ![c][p] = Unmapped]
    BY <1>3, <2>2 DEF ForkUndo, Child
  <2>5. UNCHANGED <<content, tlb, live, op, value>>
    BY <1>3 DEF ForkUndo
  <2> QED
    BY <2>3, <2>4, <2>5, PageReleasedKept
<1> QED
  BY <1>1, <1>2, <1>3, ForkFlushKept, ForkEndKept, ForkUndoneKept, ForkShareKept DEF ForkStep

LEMMA ExitPageKept ==
    ASSUME CountingLaws, IInv, NEW v \in VMs, NEW p \in Pages, ExitPage(v, p)
    PROVE  IInv'
<1>1. Live(v) = "exit"
  BY DEF ExitPage, Live
<1>2. \A w \in VMs : ~Forking(w, v)
  BY <1>1 DEF IInv, Locals, Local, Exact, ForkExact, Forking
<1>3. /\ Mapped(v, p) /\ CowRelease(pte[v][p].frame) /\ pte' = [pte EXCEPT ![v][p] = Unmapped]
      /\ UNCHANGED <<content, tlb, live, op, value>>
  BY DEF ExitPage
<1> QED
  BY <1>1, <1>2, <1>3, PageReleasedKept

LEMMA StutterKept == ASSUME IInv, UNCHANGED vars PROVE IInv'
<1>1. TypeOK'
  BY DEF IInv, TypeOK, vars
<1>2. /\ EntriesKept /\ OpsKept /\ CachesShrink
      /\ \A v \in VMs : Live(v)' = Live(v)
      /\ (\A f : Content(f)' = Content(f)) /\ (\A v, p : Value(v, p)' = Value(v, p))
      /\ \A f : Refs(f)' = Refs(f)
  BY PteSame, OpSame, TlbSame, LiveSame, ContentSame, ValueSame, RefsSame DEF vars
<1>3. \A v \in VMs : SpaceKept(v)
  BY <1>2 DEF SpaceKept, EntriesKept, OpsKept, CachesShrink
<1>4. \A v \in VMs : Local(v)'
  BY <1>2, <1>3, LocalKept DEF SpaceKept
<1>5. Exclusion'
  <2>1. ForksDistinct'
    BY <1>2 DEF IInv, Exclusion, ForksDistinct, OpsKept, OpKept
  <2> QED
    BY <1>2, <1>3, <2>1, KeptShrinks, ExclusionKept DEF Exclusion
<1>6. Counted'
  BY <1>2, CountedKept DEF IInv, vars, Owned, OpsKept, OpKept, EntriesKept, EntryKept
<1> QED
  BY <1>1, <1>4, <1>5, <1>6 DEF IInv, Locals

LEMMA ThreadStepKept ==
    ASSUME CountingLaws, IInv, NEW v \in VMs, NEW t \in Threads[v], NEW p \in Pages,
           \/ Fill(v, t, p) \/ \E x \in Values : Write(v, t, p, x)
           \/ MapAnon(v, t, p) \/ Fault(v, t, p) \/ Unmap(v, t, p)
    PROVE  IInv'
BY FillKept, WriteKept, MapAnonKept, FaultKept, UnmapKept

(* Every step keeps the invariant. *)
LEMMA StepKept == ASSUME CountingLaws, IInv, [Next]_vars PROVE IInv'
<1>1. CASE UNCHANGED vars
  BY <1>1, StutterKept
<1>2. CASE Next
  BY <1>2, ThreadStepKept, FlushKept, ForkKept, FaultStepKept, UnmapEndKept, ForkStepKept, ExitKept,
     ExitedKept, ExitPageKept DEF Next
<1> QED
  BY <1>1, <1>2
-----------------------------------------------------------------------------
(* What the counting above takes from the library, whose operators on      *)
(* finite sets are those of FiniteSets.                                    *)
FST == INSTANCE FiniteSetTheorems

LEMMA SameFinite == \A S : FST!IsFiniteSet(S) <=> IsFiniteSet(S)
BY DEF FST!IsFiniteSet, IsFiniteSet

LEMMA SameCardinality == \A S : FST!Cardinality(S) = Cardinality(S)
BY DEF FST!Cardinality, Cardinality

LEMMA Laws == CountingLaws
<1> USE SameFinite, SameCardinality
<1>1. FiniteLaw
  BY FST!FS_Product, FST!FS_Subset DEF FiniteLaw
<1>2. CardinalLaw
  BY FST!FS_CardinalityType DEF CardinalLaw
<1>3. EmptyLaw
  BY FST!FS_EmptySet DEF EmptyLaw
<1>4. SingleLaw
  <2>1. \A x : IsFiniteSet({x}) /\ Cardinality({x}) = 1
    BY FST!FS_Singleton
  <2>2. \A S : IsFiniteSet(S) /\ Cardinality(S) = 1 => \E x : S = {x}
    BY FST!FS_Singleton
  <2>3. ASSUME NEW x, NEW S \in SUBSET {x} PROVE Cardinality(S) <= 1
    <3>1. FST!IsFiniteSet({x}) /\ Cardinality({x}) = 1
      BY <2>1
    <3>2. FST!Cardinality(S) <= FST!Cardinality({x})
      BY <3>1, FST!FS_Subset
    <3> QED
      BY <3>1, <3>2
  <2> QED
    BY <2>1, <2>2, <2>3 DEF SingleLaw
<1>5. AddLaw
  BY FST!FS_AddElement DEF AddLaw
<1>6. RemoveLaw
  BY FST!FS_RemoveElement DEF RemoveLaw
<1> QED
  BY <1>1, <1>2, <1>3, <1>4, <1>5, <1>6 DEF CountingLaws
-----------------------------------------------------------------------------
(* The invariant above holds in every reachable state. *)
THEOREM Invariance == Spec => []IInv
<1>1. Init => IInv
  BY InitIInv, Laws
<1>2. IInv /\ [Next]_vars => IInv'
  BY StepKept, Laws
<1> QED
  BY <1>1, <1>2, PTL DEF Spec

(* The page tables, the TLBs, the counts and the operations keep their     *)
(* types.                                                                  *)
THEOREM TypeCorrect == Spec => []TypeOK
<1>1. IInv => TypeOK
  BY DEF IInv
<1> QED
  BY <1>1, Invariance, PTL

(* The counts of mem/pmm.c are exact for any number of address spaces,     *)
(* threads, pages and frames: pfa_cow_release and cow_handle_fault free no *)
(* frame that somebody maps, and leak none.                                *)
THEOREM RefExactness == Spec => []RefExact
<1>1. IInv => RefExact
  BY DEF IInv, Counted, RefExact, Owners, Refs
<1> QED
  BY <1>1, Invariance, PTL

(* A page shows the address space only what it wrote or inherited itself,  *)
(* across fork, faults that copy, munmap and exit.                         *)
THEOREM PageIsolation == Spec => []PagesIsolated
<1>1. IInv => PagesIsolated
  BY DEF IInv, Locals, Local, Isolated, PagesIsolated, Mapped, Frame, Live, Content, Value
<1> QED
  BY <1>1, Invariance, PTL

(* So does every TLB entry that a flush is not about to remove, and no     *)
(* thread can write a frame that a fault has replaced.                     *)
THEOREM CacheIsolation == Spec => []CacheIsolated
<1>1. ASSUME IInv, NEW v \in VMs, NEW t \in Threads[v], NEW p \in Pages,
             CFrame(v, t, p) # NoFrame, CFrame(v, t, p) # Old(v)
      PROVE  CFrame(v, t, p) \notin free /\ Content(CFrame(v, t, p)) = Value(v, p)
  <2>1. Exact(v) /\ LifeOf(v) /\ Covered(v) /\ CopyOf(v) /\ Isolated(v)
    BY <1>1 DEF IInv, Locals, Local
  <2>2. \A f \in free : /\ \A q \in Pages : Frame(v, q) # f
                        /\ f \notin Owned(v)
    BY <1>1, FreeUnreached, Laws
  <2>3. CASE CFrame(v, t, p) = Frame(v, p)
    BY <1>1, <2>1, <2>2, <2>3 DEF LifeOf, Isolated
  <2>4. CASE CFrame(v, t, p) # Frame(v, p)
    <3>1. Stale(v, t, p) /\ CFrame(v, t, p) = Hold(v)
      BY <1>1, <2>1, <2>4 DEF Covered, Stale
    <3>2. Kind(v) = "unmap" /\ PageOf(v) = p
      BY <1>1, <2>1, <3>1 DEF Stale, Exact, FaultExact
    <3> QED
      BY <2>1, <2>2, <3>1, <3>2 DEF CopyOf, Owned
  <2> QED
    BY <2>3, <2>4
<1>2. ASSUME IInv, NEW v \in VMs, NEW t \in Threads[v], NEW p \in Pages, CWrite(v, t, p)
      PROVE  CFrame(v, t, p) # Old(v)
  BY <1>2 DEF IInv, Exclusion, CacheExclusive, Reached
<1>3. IInv => CacheIsolated
  BY <1>1, <1>2 DEF CacheIsolated, CFrame, CWrite, Old, Content, Value
<1> QED
  BY <1>3, Invariance, PTL
=============================================================================

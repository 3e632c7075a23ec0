----------------------------- MODULE ScratchArena -----------------------------
(***************************************************************************)
(* ScratchAllocator (base/scratch_allocator.{h,cc}, base/arena.h): a chain *)
(* of arenas with a bump pointer, grown on demand, reset by Purge and      *)
(* rewound by Scoped.  Not thread-safe: one owner (a connection's          *)
(* endpoint, a config load) calls it, so every operation is one step.      *)
(*                                                                         *)
(* An arena is its size and the residue of its start address modulo       *)
(* AddrModulus, which is all AlignPointer looks at; the start itself is    *)
(* what aligned_alloc returned for the arena's alignment.  A pointer is an *)
(* arena index and an offset into it.  Scoped(handler) is two steps,       *)
(* ScopedEnter and ScopedExit, with the handler's calls in between.        *)
(*                                                                         *)
(* The variable live is history, not code state: the blocks handed out    *)
(* whose lifetime (spec 4.A: until Purge, the end of the enclosing Scoped, *)
(* or destruction) has not ended.                                          *)
(***************************************************************************)
EXTENDS Naturals, Sequences, FiniteSets

CONSTANTS
    ReserveSize,   \* the constructor's reserve_size (> 0)
    MaxAlign,      \* alignof(max_align_t), Alloc's alignment
    Aligns,        \* alignments AllocAligned is called with (powers of 2)
    Sizes,         \* request sizes
    MaxAllocs,     \* bound on the number of allocations
    MaxDepth       \* bound on the nesting of Scoped

ASSUME ReserveSize > 0 /\ MaxAlign \in Aligns

\* Address residues are taken modulo the largest alignment in use.
AddrModulus == CHOOSE m \in Aligns : \A a \in Aligns : a <= m

VARIABLES
    arenas,   \* the chain from head_arena_: <<[size, base]>>
    cur,      \* cur_arena_, an index into arenas
    ptr,      \* cur_ptr_, an offset into arenas[cur]
    total,    \* total_size_
    scopes,   \* the (cur_arena_, cur_ptr_) each open Scoped saved, innermost last
    live,     \* blocks whose lifetime has not ended: [arena, off, size, align, depth]
    allocs    \* allocations made so far

vars == <<arenas, cur, ptr, total, scopes, live, allocs>>

-----------------------------------------------------------------------------
(* Helpers.                                                                *)

MaxOf(x, y) == IF x >= y THEN x ELSE y

ResiduesMalloc(a) == {r \in 0..AddrModulus - 1 : r % MaxAlign = 0}

\* The start residues aligned_alloc(a, n) may return.
Residues(a) == {r \in 0..AddrModulus - 1 : r % a = 0}

\* detail::AlignPointer on an offset of an arena starting at residue base.
AlignOff(base, off, a) == ((base + off + a - 1) \div a) * a - base

\* The search of AllocAligned's loop from arena c with the aligned offset
\* pa: the first arena from c on where the block fits, or 0 if the loop
\* reaches the end of the chain.
RECURSIVE Seek(_, _, _, _)
Seek(c, pa, a, n) ==
    IF pa + n <= arenas[c].size THEN [arena |-> c, off |-> pa]
    ELSE IF c = Len(arenas) THEN [arena |-> 0, off |-> 0]
    ELSE Seek(c + 1, AlignOff(arenas[c + 1].base, 0, a), a, n)

\* SizeAllocated: the whole of every arena before cur_arena_, and the part
\* of cur_arena_ below cur_ptr_.
SizeAllocatedOf(as, c, p) ==
    LET Sum[k \in 0..c - 1] == IF k = 0 THEN 0 ELSE Sum[k - 1] + as[k].size
    IN Sum[c - 1] + p

SizeAllocated == SizeAllocatedOf(arenas, cur, ptr)

-----------------------------------------------------------------------------
(* Operations.                                                             *)

\* The constructor: one arena of reserve_size at max_align_t alignment.
Init ==
    /\ \E r \in Residues(MaxAlign) : arenas = <<[size |-> ReserveSize, base |-> r]>>
    /\ cur = 1 /\ ptr = 0 /\ total = ReserveSize
    /\ scopes = <<>> /\ live = {} /\ allocs = 0

CarveNoBump(c, off, a, n) ==
    /\ cur' = c /\ ptr' = off
    /\ live' = live \cup {[arena |-> c, off |-> off, size |-> n, align |-> a,
                           depth |-> Len(scopes)]}
    /\ allocs' = allocs + 1

\* Hand out [c, off] of n bytes aligned to a.
Carve(c, off, a, n) ==
    /\ cur' = c /\ ptr' = off + n
    /\ live' = live \cup {[arena |-> c, off |-> off, size |-> n, align |-> a,
                           depth |-> Len(scopes)]}
    /\ allocs' = allocs + 1

AllocAlignedKeepsTotal(a, n) ==
    /\ allocs < MaxAllocs
    /\ LET s == Seek(cur, AlignOff(arenas[cur].base, ptr, a), a, n)
       IN IF s.arena # 0
          THEN /\ Carve(s.arena, s.off, a, n)
               /\ UNCHANGED <<arenas, total, scopes>>
          ELSE \E r \in Residues(a) :
                    /\ arenas' = Append(arenas, [size |-> MaxOf(total * 2, n), base |-> r])
                    /\ Carve(Len(arenas) + 1, 0, a, n)
                    /\ UNCHANGED <<total, scopes>>

\* AllocAligned: align cur_ptr_; while the block does not fit, move to the
\* next arena and align its start; at the end of the chain, append an
\* arena of max(total_size_ * 2, size) bytes aligned to a and use its start.
AllocAligned(a, n) ==
    /\ allocs < MaxAllocs
    /\ LET s == Seek(cur, AlignOff(arenas[cur].base, ptr, a), a, n)
       IN IF s.arena # 0
          THEN /\ Carve(s.arena, s.off, a, n)
               /\ UNCHANGED <<arenas, total, scopes>>
          ELSE LET size == MaxOf(total * 2, n)
               IN \E r \in Residues(a) :
                    /\ arenas' = Append(arenas, [size |-> size, base |-> r])
                    /\ total' = total + size
                    /\ Carve(Len(arenas) + 1, 0, a, n)
                    /\ UNCHANGED scopes

\* Alloc: AllocAligned with alignof(max_align_t).
Alloc(n) == AllocAligned(MaxAlign, n)

\* Purge: back to the start of the head arena; the arenas are kept.
Purge ==
    /\ cur' = 1 /\ ptr' = 0 /\ live' = {}
    /\ UNCHANGED <<arenas, total, scopes, allocs>>

\* Scoped, before the handler: save cur_arena_ and cur_ptr_.
ScopedEnter ==
    /\ Len(scopes) < MaxDepth
    /\ scopes' = Append(scopes, [cur |-> cur, ptr |-> ptr])
    /\ UNCHANGED <<arenas, cur, ptr, total, live, allocs>>

ScopedExitKeepsArena ==
    /\ scopes # <<>>
    /\ ptr' = scopes[Len(scopes)].ptr
    /\ scopes' = SubSeq(scopes, 1, Len(scopes) - 1)
    /\ live' = {b \in live : b.depth < Len(scopes)}
    /\ UNCHANGED <<arenas, cur, total, allocs>>

\* Scoped, after the handler: restore them; what the handler allocated is
\* dead.
ScopedExit ==
    /\ scopes # <<>>
    /\ LET top == scopes[Len(scopes)]
       IN cur' = top.cur /\ ptr' = top.ptr
    /\ scopes' = SubSeq(scopes, 1, Len(scopes) - 1)
    /\ live' = {b \in live : b.depth < Len(scopes)}
    /\ UNCHANGED <<arenas, total, allocs>>

Next ==
    \/ \E a \in Aligns, n \in Sizes : AllocAligned(a, n)
    \/ \E n \in Sizes : Alloc(n)
    \/ Purge \/ ScopedEnter \/ ScopedExit

Spec == Init /\ [][Next]_vars

-----------------------------------------------------------------------------
(* Properties.                                                             *)

TypeOK ==
    /\ arenas \in Seq([size : Nat \ {0}, base : 0..AddrModulus - 1])
    /\ cur \in 1..Len(arenas) /\ ptr \in 0..arenas[cur].size
    /\ total = SizeAllocatedOf(arenas, Len(arenas) + 1, 0)
    /\ allocs \in 0..MaxAllocs

\* No two blocks whose lifetime has not ended share a byte, and each lies
\* inside its arena: Purge, Scoped's rewind and the reuse of the arenas
\* after them never hand out memory that is still in use.
LiveBlocksDisjoint ==
    /\ \A b \in live : b.off + b.size <= arenas[b.arena].size
    /\ \A b1, b2 \in live :
          b1 # b2 /\ b1.arena = b2.arena =>
             b1.off + b1.size <= b2.off \/ b2.off + b2.size <= b1.off

\* Every block handed out is aligned as requested, including the first
\* block of a new arena, which AllocAligned takes without aligning.
BlocksAligned ==
    \A b \in live : (arenas[b.arena].base + b.off) % b.align = 0
====

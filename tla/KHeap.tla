-------------------------------- MODULE KHeap --------------------------------
(***************************************************************************)
(* The two-ended bump allocator of the GOAL kernel (game/kernel/kmalloc.cpp *)
(* and the heap-top save/restore of its users, kdgo.cpp and klink.cpp).     *)
(*                                                                         *)
(* A heap grows up from "base" by permanent allocations (current) and down *)
(* from "top_base" by temporary ones (top).  Nothing is ever freed one by  *)
(* one: a user of temporary memory remembers top and puts it back, which   *)
(* releases every temporary block made since.  Addresses are unsigned      *)
(* integers of AddrSpace values (2^32 in the program).                      *)
(***************************************************************************)
EXTENDS Integers, Sequences, FiniteSets

CONSTANTS
    Heaps,        \* the kheapinfo structures, the global heap among them
    kglobalheap,  \* the heap a null heap pointer stands for
    NoHeap,       \* the null heap pointer
    Base, Size,   \* the memory kinitheap gives to each heap
    AddrSpace,    \* number of addresses of the machine's address type
    Sizes,        \* the sizes callers ask for
    MaxFrames     \* bound: how deep saves of a heap's top nest

KMALLOC_ALIGN_16  == 16
KMALLOC_ALIGN_64  == 64
KMALLOC_ALIGN_256 == 256
AlignFlags        == {0, KMALLOC_ALIGN_16, KMALLOC_ALIGN_64, KMALLOC_ALIGN_256}

\* The heaps lie in disjoint parts of memory, above address 0.  Sizes are
\* signed 32-bit numbers and memory ends far below 2^31, so rounding up or
\* adding a size to an address of a heap cannot wrap.
ASSUME HeapsAssumption ==
    /\ kglobalheap \in Heaps /\ NoHeap \notin Heaps
    /\ Base \in [Heaps -> Nat] /\ Size \in [Heaps -> Nat]
    /\ AddrSpace \in Nat
    /\ Sizes \subseteq Nat
    /\ \A h \in Heaps : 0 < Base[h]
    /\ \A h \in Heaps, s \in Sizes :
          Base[h] + Size[h] + KMALLOC_ALIGN_256 + s < AddrSpace
    /\ \A g, h \in Heaps : g # h => \/ Base[g] + Size[g] <= Base[h]
                                    \/ Base[h] + Size[h] <= Base[g]
    /\ MaxFrames \in Nat

\* No request is larger than the address of any heap's memory: a larger one
\* makes the subtraction in the top allocator wrap around.
RequestsBelowBase == \A s \in Sizes, h \in Heaps : s <= Base[h]

VARIABLES
    heap,    \* kheapinfo: [base, current, top, top_base]
    allocs,  \* what is handed out and not released: blocks [lo, hi) of a heap
    saved,   \* per heap, the tops remembered by its users, innermost last
    ret      \* the address the last kmalloc returned (0: out of room)

vars == <<heap, allocs, saved, ret>>

\* x & ~(a-1) and (x + a-1) & ~(a-1), for a power of two a.
AlignDown(x, a) == x - (x % a)
AlignUp(x, a)   == AlignDown(x + a - 1, a)

kinitheap(mem, size) ==
    [base |-> mem, current |-> mem, top |-> mem + size, top_base |-> mem + size]

Init ==
    /\ heap = [h \in Heaps |-> kinitheap(Base[h], Size[h])]
    /\ allocs = {}
    /\ saved = [h \in Heaps |-> <<>>]
    /\ ret = 0

\* The heap kmalloc works on: a null pointer means the global heap.
Target(hp) == IF hp = NoHeap THEN kglobalheap ELSE hp

Block(h, end, lo, size) == [heap |-> h, end |-> end, lo |-> lo, hi |-> lo + size]

-----------------------------------------------------------------------------
(* Permanent allocation: from current upward.                              *)

\* Any alignment flag but 64 and 256 means 16.
BottomStart(h, align) ==
    AlignUp(heap[h].current,
            IF align \in {KMALLOC_ALIGN_64, KMALLOC_ALIGN_256} THEN align
                                                               ELSE KMALLOC_ALIGN_16)

BottomFits(h, memstart, size) == memstart + size <= heap[h].top

KMallocBottom(hp, size, align) ==
    LET h == Target(hp)
        memstart == BottomStart(h, align)
    IN  \/ /\ size = 0
           /\ ret' = memstart
           /\ UNCHANGED <<heap, allocs, saved>>
        \/ /\ size > 0 /\ ~BottomFits(h, memstart, size)
           /\ ret' = 0
           /\ UNCHANGED <<heap, allocs, saved>>
        \/ /\ size > 0 /\ BottomFits(h, memstart, size)
           /\ heap' = [heap EXCEPT ![h].current = memstart + size]
           /\ allocs' = allocs \cup {Block(h, "bottom", memstart, size)}
           /\ ret' = memstart
           /\ UNCHANGED saved

-----------------------------------------------------------------------------
(* Temporary allocation: from top downward.                                *)

\* Mutant: the start of a temporary block is rounded up.
TopStartRoundedUp(h, size, align) ==
    AlignUp((heap[h].top - size) % AddrSpace,
            IF align = 0 THEN KMALLOC_ALIGN_16 ELSE align)

TopStart(h, size, align) ==
    AlignDown((heap[h].top - size) % AddrSpace,
              IF align = 0 THEN KMALLOC_ALIGN_16 ELSE align)

\* Mutant: the room for a temporary block is not checked at all.
TopFitsAlways(h, memstart) == TRUE

TopFits(h, memstart) == heap[h].current < memstart

KMallocTop(hp, size, align) ==
    LET h == Target(hp)
        memstart == TopStart(h, size, align)
    IN  \/ /\ size = 0
           /\ ret' = memstart
           /\ UNCHANGED <<heap, allocs, saved>>
        \/ /\ size > 0 /\ ~TopFits(h, memstart)
           /\ ret' = 0
           /\ UNCHANGED <<heap, allocs, saved>>
        \/ /\ size > 0 /\ TopFits(h, memstart)
           /\ heap' = [heap EXCEPT ![h].top = memstart]
           /\ allocs' = allocs \cup {Block(h, "top", memstart, size)}
           /\ ret' = memstart
           /\ UNCHANGED saved

-----------------------------------------------------------------------------
(* Users of temporary memory: load_and_link_dgo_from_c (oldHeapTop) and    *)
(* link_control (m_heap_top).                                              *)

SaveTop(h) ==
    /\ Len(saved[h]) < MaxFrames
    /\ saved' = [saved EXCEPT ![h] = Append(@, heap[h].top)]
    /\ UNCHANGED <<heap, allocs, ret>>

\* Blocks of heap h that lie between its top and the top it is given back.
Released(h, newTop) ==
    {b \in allocs : b.heap = h /\ heap[h].top <= b.lo /\ b.lo < newTop}

\* Mutant: the outermost remembered top is put back.
RestoreOutermostTop(h) ==
    /\ saved[h] # <<>>
    /\ heap' = [heap EXCEPT ![h].top = saved[h][1]]
    /\ allocs' = allocs \ Released(h, saved[h][1])
    /\ saved' = [saved EXCEPT ![h] = SubSeq(@, 1, Len(@) - 1)]
    /\ UNCHANGED ret

RestoreTop(h) ==
    /\ saved[h] # <<>>
    /\ LET oldTop == saved[h][Len(saved[h])]
       IN  /\ heap' = [heap EXCEPT ![h].top = oldTop]
           /\ allocs' = allocs \ Released(h, oldTop)
    /\ saved' = [saved EXCEPT ![h] = SubSeq(@, 1, Len(@) - 1)]
    /\ UNCHANGED ret

Next ==
    \/ \E hp \in Heaps \cup {NoHeap}, size \in Sizes, align \in AlignFlags :
          KMallocBottom(hp, size, align) \/ KMallocTop(hp, size, align)
    \/ \E h \in Heaps : SaveTop(h) \/ RestoreTop(h)

Spec == Init /\ [][Next]_vars

-----------------------------------------------------------------------------
(* Properties.                                                             *)

\* Every pointer of a kheapinfo and every address kmalloc returns is an
\* address (failure is 0, never -1).
TypeOK ==
    /\ heap \in [Heaps -> [base : Nat, current : Nat, top : Nat, top_base : Nat]]
    /\ allocs \subseteq [heap : Heaps, end : {"bottom", "top"}, lo : Nat, hi : Nat]
    /\ saved \in [Heaps -> Seq(Nat)]
    /\ ret \in Nat

\* The two ends of a heap never cross, and neither leaves its memory.
HeapOrder ==
    \A h \in Heaps :
        /\ heap[h].base = Base[h] /\ heap[h].top_base = Base[h] + Size[h]
        /\ heap[h].base <= heap[h].current
        /\ heap[h].current <= heap[h].top
        /\ heap[h].top <= heap[h].top_base

\* A permanent block lies below current, a temporary one at or above top.
BlocksInRegion ==
    \A b \in allocs :
        /\ b.lo < b.hi
        /\ b.end = "bottom" => heap[b.heap].base <= b.lo /\ b.hi <= heap[b.heap].current
        /\ b.end = "top"    => heap[b.heap].top <= b.lo /\ b.hi <= heap[b.heap].top_base

\* The tops remembered for a heap are stacked: each is at least as high as
\* the ones remembered after it, and as the current top.
SavedOrder ==
    \A h \in Heaps :
        /\ \A i \in 1 .. Len(saved[h]) :
              heap[h].top <= saved[h][i] /\ saved[h][i] <= heap[h].top_base
        /\ \A i, j \in 1 .. Len(saved[h]) : i <= j => saved[h][j] <= saved[h][i]

\* No temporary block straddles the top that a user will put back.
NoStraddle ==
    \A b \in allocs : b.end = "top" =>
        \A i \in 1 .. Len(saved[b.heap]) :
            b.hi <= saved[b.heap][i] \/ saved[b.heap][i] <= b.lo

\* Memory handed out by kmalloc belongs to one owner: two live blocks, of
\* any heaps and from either end, share no address.
LiveBlocksDisjoint ==
    \A a, b \in allocs : a # b => a.hi <= b.lo \/ b.hi <= a.lo

\* kmalloc returns memory of the heap, or 0 "if we run out of room": every
\* live block lies inside the memory kinitheap gave to its heap.
RoomOrZero ==
    \A b \in allocs : Base[b.heap] <= b.lo /\ b.hi <= Base[b.heap] + Size[b.heap]

\* Putting back a heap's top releases temporary blocks only, and none of
\* those that already existed when that top was remembered (they lie at or
\* above it); no other step releases anything.
OnlyTemporariesReleased ==
    [][\A b \in allocs \ allocs' :
          /\ b.end = "top"
          /\ saved[b.heap] # <<>> /\ b.hi <= saved[b.heap][Len(saved[b.heap])]]_vars

\* The allocator keeps its books: pointers are addresses, the two ends never
\* cross, no two live blocks share an address, and the top that a user of
\* temporary memory will put back cuts no block in two.
HeapSound == TypeOK /\ HeapOrder /\ LiveBlocksDisjoint /\ NoStraddle
=============================================================================

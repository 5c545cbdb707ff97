-------------------------------- MODULE Heap --------------------------------
(***************************************************************************)
(* The kernel heap of mm.c: kmalloc and kfree on a circular free list      *)
(* ordered by address, with headers in the memory they describe.           *)
(*                                                                         *)
(* Addresses are counted in units of sizeof(malloc_header).  Unit 0 is the *)
(* header base, which the linker script puts below the heap; the heap is   *)
(* units 1 to HeapSize.  next and size are what memory holds at the places *)
(* of the two fields, headers or not: a header that is no longer one keeps *)
(* its fields.  A call is one step here: nothing in mm.c closes the        *)
(* interrupts, so this is the heap as long as one thread uses it.          *)
(***************************************************************************)
EXTENDS Integers

CONSTANTS HeapSize,     \* HEAP_SIZE, in units
          Requests      \* values of nunits, the header included

base == 0
kheap == 1
Memory == 0..(2 * HeapSize)     \* bound: the heap and as much behind it

ASSUME HeapSizeAssumption == HeapSize \in Nat \ {0}
ASSUME RequestsAssumption == Requests \subseteq Nat \ {0}

VARIABLES next,     \* the field next, in every unit
          size,     \* the field size, in every unit
          freep,    \* where the next search begins
          blocks,   \* the headers of the blocks handed out and not yet freed
          got       \* the block kmalloc returned last, 0 for a null pointer

heapVars == <<next, size, freep, blocks, got>>

\* After init_kheap.
Init ==
    /\ next = [a \in Memory |-> IF a = base THEN kheap ELSE base]
    /\ size = [a \in Memory |-> IF a = kheap THEN HeapSize ELSE 0]
    /\ freep = base
    /\ blocks = {}
    /\ got = 0

-----------------------------------------------------------------------------
\* The k-th header after freep, along next.
After[k \in 0..(HeapSize + 2)] == IF k = 0 THEN freep ELSE next[After[k - 1]]

\* The search of kmalloc stops at the k-th header: the first that is large
\* enough, if it comes not later than freep itself.
FirstFit(n, k) ==
    /\ size[After[k]] >= n
    /\ \A j \in 1..(k - 1) : size[After[j]] < n /\ After[j] # freep

\* Mutant: the search gives up before it has looked at freep itself.
NoFitBeforeFreep(n) ==
    \E k \in 1..(HeapSize + 2) : /\ After[k] = freep
                                 /\ \A j \in 1..(k - 1) : size[After[j]] < n

\* The search comes to freep and has found nothing, not even there.
NoFit(n) ==
    \E k \in 1..(HeapSize + 2) : /\ After[k] = freep
                                 /\ \A j \in 1..k : size[After[j]] < n

\* The block found has the right size: it leaves the list.
kmalloc_exact(n) ==
    \E k \in 1..(HeapSize + 2) :
        LET q == After[k - 1]
            p == After[k]
        IN  /\ FirstFit(n, k)
            /\ size[p] = n
            /\ next' = [next EXCEPT ![q] = next[p]]
            /\ freep' = q
            /\ blocks' = blocks \cup {p}
            /\ got' = p
            /\ UNCHANGED size

\* Mutant: the header of the new block is not filled in.
kmalloc_split_sizeless(n) ==
    \E k \in 1..(HeapSize + 2) :
        LET p == After[k]
            new == p + size[p] - n
        IN  /\ FirstFit(n, k)
            /\ size[p] > n
            /\ size' = [size EXCEPT ![p] = @ - n]
            /\ freep' = After[k - 1]
            /\ blocks' = blocks \cup {new}
            /\ got' = new
            /\ UNCHANGED next

\* It is larger: the request is cut from its end.
kmalloc_split(n) ==
    \E k \in 1..(HeapSize + 2) :
        LET p == After[k]
            new == p + size[p] - n
        IN  /\ FirstFit(n, k)
            /\ size[p] > n
            /\ size' = [size EXCEPT ![p] = @ - n, ![new] = n]
            /\ freep' = After[k - 1]
            /\ blocks' = blocks \cup {new}
            /\ got' = new
            /\ UNCHANGED next

kmalloc_fails(n) ==
    /\ NoFit(n)
    /\ got' = 0
    /\ UNCHANGED <<next, size, freep, blocks>>

-----------------------------------------------------------------------------
\* kfree's search for the free header below p stops at q.
Below(q, p) ==
    \/ q < p /\ p < next[q]
    \/ next[q] <= q /\ (q < p \/ p < next[q])

\* Mutant: only the block below is merged with, never the one above.
kfree_no_back_merge(p) ==
    \E k \in 0..(HeapSize + 1) :
        LET q == After[k]
            front == q + size[q] = p
        IN  /\ p \in blocks
            /\ Below(q, p)
            /\ \A j \in 0..(k - 1) : ~Below(After[j], p)
            /\ IF front
               THEN size' = [size EXCEPT ![q] = @ + size[p]] /\ next' = [next EXCEPT ![p] = next[q]]
               ELSE size' = size /\ next' = [next EXCEPT ![p] = next[q], ![q] = p]
            /\ freep' = q
            /\ blocks' = blocks \ {p}
            /\ UNCHANGED got

\* The block goes back between q and its successor r, and is merged with either
\* one it touches.
kfree(p) ==
    \E k \in 0..(HeapSize + 1) :
        LET q == After[k]
            r == next[q]
            back == p + size[p] = r
            front == q + size[q] = p
            merged == size[p] + (IF back THEN size[r] ELSE 0)
            rest == IF back THEN next[r] ELSE r
        IN  /\ p \in blocks
            /\ Below(q, p)
            /\ \A j \in 0..(k - 1) : ~Below(After[j], p)
            /\ IF front
               THEN /\ size' = [size EXCEPT ![p] = merged, ![q] = @ + merged]
                    /\ next' = [next EXCEPT ![p] = rest, ![q] = rest]
               ELSE /\ size' = [size EXCEPT ![p] = merged]
                    /\ next' = [next EXCEPT ![p] = rest, ![q] = p]
            /\ freep' = q
            /\ blocks' = blocks \ {p}
            /\ UNCHANGED got

Next ==
    \/ \E n \in Requests : kmalloc_exact(n) \/ kmalloc_split(n) \/ kmalloc_fails(n)
    \/ \E p \in blocks : kfree(p)

Spec == Init /\ [][Next]_heapVars

-----------------------------------------------------------------------------
FreeList == {After[k] : k \in 0..(HeapSize + 1)}
FreeBlocks == FreeList \ {base}
Units(b) == b..(b + size[b] - 1)

\* Every unit of the heap is in one block, free or handed out: none is lost and
\* none is in two (init_kheap, kmalloc, kfree).
EveryUnitInOneBlock ==
    /\ \A b \in FreeBlocks \cup blocks : b > base /\ Units(b) \subseteq 1..HeapSize
    /\ \A u \in 1..HeapSize : \E b \in FreeBlocks \cup blocks : u \in Units(b)
    /\ \A b, c \in FreeBlocks \cup blocks : b # c => Units(b) \cap Units(c) = {}
    /\ FreeBlocks \cap blocks = {}

\* The free list is a circle through base, in the order of the addresses, and
\* no two neighbours in it touch: what kfree searches and merges by (kfree).
OrderedAndMerged ==
    /\ base \in FreeList
    /\ \A b \in FreeBlocks : next[b] = base \/ b + size[b] < next[b]
    /\ \E k \in 1..(HeapSize + 2) : After[k] = freep

\* No caller can tell kmalloc and kfree from an ideal allocator: blocks are
\* disjoint, and null is returned only when no run of free units is long enough
\* (kmalloc, kfree).
Ideal == INSTANCE Allocator WITH
             taken <- {[start |-> b, size |-> size[b]] : b \in blocks}
ImplementsAllocator == Ideal!Spec
=============================================================================

---------------------------- MODULE HeapAligned ----------------------------
(***************************************************************************)
(* kmalloc_alignas of mm.c, beside the kmalloc and kfree of Heap.tla.  With *)
(* an alignment of 16 or less it is kmalloc; this is the rest.             *)
(***************************************************************************)
EXTENDS Heap, FiniteSetsExt

CONSTANTS
    Align,      \* align_size, in units
    Offset      \* unit numbers that are Offset modulo Align are aligned

\* get_aligned_address: the last aligned unit of the block, its first excepted.
AlignedIn(p) == {i \in (p + 1)..(p + size[p] - 1) : i % Align = Offset}

\* Whether nunits fit from the header before that unit to the end of the block.
FitsAligned(p, n) == AlignedIn(p) # {} /\ Max(AlignedIn(p)) - 1 + n <= p + size[p]

FirstAlignedFit(n, k) ==
    /\ FitsAligned(After[k], n)
    /\ \A j \in 1..(k - 1) : ~FitsAligned(After[j], n) /\ After[j] # freep

\* They fill the block to its end.
kmalloc_alignas_exact(n) ==
    \E k \in 1..(HeapSize + 2) :
        LET p == After[k]
            new == Max(AlignedIn(p)) - 1
        IN  /\ FirstAlignedFit(n, k)
            /\ new + n = p + size[p]
            /\ size' = [size EXCEPT ![p] = @ - n, ![new] = n]
            /\ freep' = After[k - 1]
            /\ blocks' = blocks \cup {new}
            /\ got' = new
            /\ UNCHANGED next

\* Some are left behind them, and become a free block of their own.
kmalloc_alignas_split(n) ==
    \E k \in 1..(HeapSize + 2) :
        LET p == After[k]
            new == Max(AlignedIn(p)) - 1
            fdiff_block == new - p
            bdiff_block == (p + size[p]) - (new - n)
            next_p == p + fdiff_block + n
        IN  /\ FirstAlignedFit(n, k)
            /\ new + n < p + size[p]
            /\ size' = [size EXCEPT ![p] = fdiff_block, ![new] = n, ![next_p] = bdiff_block]
            /\ next' = [next EXCEPT ![next_p] = next[p], ![p] = next_p]
            /\ freep' = After[k - 1]
            /\ blocks' = blocks \cup {new}
            /\ got' = new

kmalloc_alignas_fails(n) ==
    /\ \E k \in 1..(HeapSize + 2) : /\ After[k] = freep
                                    /\ \A j \in 1..k : ~FitsAligned(After[j], n)
    /\ got' = 0
    /\ UNCHANGED <<next, size, freep, blocks>>

AlignedNext ==
    \/ Next
    \/ \E n \in Requests : \/ kmalloc_alignas_exact(n) \/ kmalloc_alignas_split(n)
                           \/ kmalloc_alignas_fails(n)

AlignedSpec == Init /\ [][AlignedNext]_heapVars

-----------------------------------------------------------------------------
\* What a caller is given lies in the heap and is nobody else's: tests/
\* malloc-test.cpp writes to every block it is given and reads it back
\* (kmalloc_alignas).  The block behind an aligned one is entered in the free
\* list 2n units too large.
BlocksApart ==
    /\ \A b \in blocks : Units(b) \subseteq 1..HeapSize
    /\ \A b, c \in blocks : b # c => Units(b) \cap Units(c) = {}
=============================================================================

----------------------------- MODULE Allocator -----------------------------
(***************************************************************************)
(* What kmalloc and kfree promise to their callers: a block handed out     *)
(* lies in the heap and is nobody else's until it is given back, and a     *)
(* request is refused only when nowhere in the heap enough units in a row  *)
(* are free.                                                               *)
(***************************************************************************)
EXTENDS Integers

CONSTANTS HeapSize,     \* units in the heap, which are numbered from 1
          Requests      \* the sizes of block that are asked for, in units

VARIABLES taken,        \* [start, size] of the blocks handed out
          got           \* the last request's block, or 0

allocatorVars == <<taken, got>>

Units(b) == b.start..(b.start + b.size - 1)

Free == (1..HeapSize) \ UNION {Units(b) : b \in taken}

Init == taken = {} /\ got = 0

Fits(b) == Units(b) \subseteq Free

Grant(n) == \E start \in 1..HeapSize :
                LET b == [start |-> start, size |-> n]
                IN  /\ Fits(b)
                    /\ taken' = taken \cup {b}
                    /\ got' = start

Refuse(n) == /\ \A start \in 1..HeapSize : ~Fits([start |-> start, size |-> n])
             /\ got' = 0
             /\ UNCHANGED taken

GiveBack(b) == taken' = taken \ {b} /\ UNCHANGED got

Next == \/ \E n \in Requests : Grant(n) \/ Refuse(n)
        \/ \E b \in taken : GiveBack(b)

Spec == Init /\ [][Next]_allocatorVars
=============================================================================

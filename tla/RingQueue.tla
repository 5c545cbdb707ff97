----------------------------- MODULE RingQueue -----------------------------
(***************************************************************************)
(* The ring buffer that queue_sem (the threads waiting on a semaphore) and *)
(* queue_char (the console input) share: an array, the index of the oldest *)
(* entry and the number of entries.  Callers that need the two steps of an *)
(* enqueue to be one step close the interrupts around it; Semaphore.tla    *)
(* models the one caller that does not.                                    *)
(***************************************************************************)
EXTENDS Integers, Sequences

CONSTANTS Size,     \* NSEMQUEUE, or QUEUE_SIZE
          Values,   \* thread ids, or characters
          Empty     \* the filler a flush writes: -1, or '\0'

ASSUME SizeAssumption == Size \in Nat \ {0}
ASSUME ValuesAssumption == Empty \notin Values

VARIABLES que,      \* que[Size]
          head,     \* index of the oldest entry
          num,      \* number of entries
          ret,      \* what the last enqueue or dequeue returned
          got       \* the caller's *tid (or *c), written by a dequeue

ringVars == <<que, head, num, ret, got>>

Cells == 0..(Size - 1)

\* create_sem leaves the queue of a new semaphore flushed.
Init == /\ que = [i \in Cells |-> Empty]
        /\ head = 0
        /\ num = 0
        /\ ret = 1
        /\ got = Empty

flush_queue_sem ==
    /\ que' = [i \in Cells |-> Empty]
    /\ head' = 0
    /\ num' = 0
    /\ UNCHANGED <<ret, got>>

\* Mutant: the full test lets one entry too many in.
enqueue_off_by_one(v) ==
    IF num <= Size
    THEN /\ que' = [que EXCEPT ![(head + num) % Size] = v]
         /\ num' = num + 1
         /\ ret' = 1
         /\ UNCHANGED <<head, got>>
    ELSE ret' = 0 /\ UNCHANGED <<que, head, num, got>>

enqueue_sem(v) ==
    IF num < Size
    THEN /\ que' = [que EXCEPT ![(head + num) % Size] = v]
         /\ num' = num + 1
         /\ ret' = 1
         /\ UNCHANGED <<head, got>>
    ELSE ret' = 0 /\ UNCHANGED <<que, head, num, got>>

\* Mutant: the head is advanced before the entry is read.
dequeue_after_advance ==
    IF num > 0
    THEN /\ head' = (head + 1) % Size
         /\ got' = que[head']
         /\ num' = num - 1
         /\ ret' = 1
         /\ UNCHANGED que
    ELSE ret' = 0 /\ UNCHANGED <<que, head, num, got>>

dequeue_sem ==
    IF num > 0
    THEN /\ got' = que[head]
         /\ head' = (head + 1) % Size
         /\ num' = num - 1
         /\ ret' = 1
         /\ UNCHANGED que
    ELSE ret' = 0 /\ UNCHANGED <<que, head, num, got>>

Next == (\E v \in Values : enqueue_sem(v)) \/ dequeue_sem \/ flush_queue_sem

Spec == Init /\ [][Next]_ringVars

-----------------------------------------------------------------------------
\* The i-th oldest entry lies i - 1 cells after the head, around the ring.
Contents == [i \in 1..num |-> que[(head + i - 1) % Size]]

\* The queue never holds more than its capacity, its head is a cell, and the
\* cells in use hold values some caller put there, never the filler
\* (enqueue_sem, dequeue_sem and flush_queue_sem of semaphore.c).
RingInv ==
    /\ que \in [Cells -> Values \cup {Empty}]
    /\ head \in Cells
    /\ num \in 0..Size
    /\ ret \in {0, 1}
    /\ got \in Values \cup {Empty}
    /\ \A i \in 1..num : que[(head + i - 1) % Size] \in Values

\* A caller cannot tell the ring from a bounded first-in first-out buffer:
\* values leave in the order they entered, none twice and none lost, through
\* every wrap of the head (enqueue_sem and dequeue_sem).
Fifo == INSTANCE BoundedFifo WITH buf <- Contents
ImplementsFifo == Fifo!Spec
=============================================================================

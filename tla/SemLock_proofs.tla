--------------------------- MODULE SemLock_proofs ---------------------------
(***************************************************************************)
(* For any number of threads, semaphores and places in a waiting queue:    *)
(* whoever is in a waiting queue is asleep there and nowhere else, and is  *)
(* woken by one signal only, wherever the timer parts wait and signal      *)
(* (Semaphore); and a semaphore created with count 1 is a lock that is     *)
(* handed on in order (SemLock).                                           *)
(***************************************************************************)
EXTENDS SemLock, IndexLemmas, SequenceTheorems, TLAPS

-----------------------------------------------------------------------------
(* The ring buffer *)

\* Read from its head, a queue is a sequence of num entries.
LEMMA ContentsSeq ==
    ASSUME NEW q \in queue_sem
    PROVE  /\ Contents(q) \in Seq(Threads \cup {None})
           /\ Len(Contents(q)) = q.num /\ DOMAIN Contents(q) = 1..q.num
           /\ Contents(q) = <<>> <=> q.num = 0
           /\ \A i \in 1..q.num : Contents(q)[i] = q.que[(q.head + i - 1) % NSEMQUEUE]
  <1>1. /\ q.num \in Nat /\ q.num <= NSEMQUEUE /\ q.head \in 0..(NSEMQUEUE - 1)
        /\ q.que \in [0..(NSEMQUEUE - 1) -> Threads \cup {None}]
    BY SemAssumption DEF queue_sem, Cells
  <1>2. ASSUME NEW i \in 1..q.num
        PROVE  q.que[(q.head + i - 1) % NSEMQUEUE] \in Threads \cup {None}
    <2>1. i - 1 \in 0..(NSEMQUEUE - 1) /\ q.head + i - 1 = q.head + (i - 1)
      BY <1>1, SemAssumption
    <2>2. (q.head + (i - 1)) % NSEMQUEUE \in 0..(NSEMQUEUE - 1)
      BY <1>1, <2>1, CellInRange, SemAssumption
    <2> QED BY <1>1, <2>1, <2>2
  <1>3. Contents(q) \in [1..q.num -> Threads \cup {None}]
    BY <1>2 DEF Contents
  <1>4. Contents(q) \in Seq(Threads \cup {None}) /\ Len(Contents(q)) = q.num
    BY <1>1, <1>3
  <1>5. Contents(q) = <<>> <=> q.num = 0
    BY <1>4, EmptySeq
  <1>6. DOMAIN Contents(q) = 1..q.num
    BY DEF Contents
  <1>7. \A i \in 1..q.num : Contents(q)[i] = q.que[(q.head + i - 1) % NSEMQUEUE]
    BY DEF Contents
  <1> QED BY <1>4, <1>5, <1>6, <1>7

\* enqueue_sem appends, on a queue with room.
LEMMA EnqueueAppends ==
    ASSUME NEW q \in queue_sem, NEW t \in Threads, q.num < NSEMQUEUE
    PROVE  /\ enqueue_sem(q, t) \in queue_sem
           /\ Contents(enqueue_sem(q, t)) = Append(Contents(q), t)
  <1> DEFINE e == enqueue_sem(q, t)
             c == (q.head + q.num) % NSEMQUEUE
  <1>1. /\ q.num \in Nat /\ q.num \in 0..(NSEMQUEUE - 1) /\ q.head \in 0..(NSEMQUEUE - 1)
        /\ q.que \in [0..(NSEMQUEUE - 1) -> Threads \cup {None}]
        /\ NSEMQUEUE \in Nat \ {0}
    BY SemAssumption DEF queue_sem, Cells
  <1>2. c \in 0..(NSEMQUEUE - 1)
    BY <1>1, CellInRange
  <1>3. e \in queue_sem /\ e.num = q.num + 1 /\ e.head = q.head /\ e.que = [q.que EXCEPT ![c] = t]
    BY <1>1, <1>2 DEF enqueue_sem, queue_sem, Cells
  <1> HIDE DEF e
  <1>4. /\ Contents(q) \in Seq(Threads \cup {None}) /\ Len(Contents(q)) = q.num
        /\ \A i \in 1..q.num : Contents(q)[i] = q.que[(q.head + i - 1) % NSEMQUEUE]
    BY ContentsSeq
  <1>5. /\ Contents(e) \in Seq(Threads \cup {None}) /\ Len(Contents(e)) = q.num + 1
        /\ \A i \in 1..(q.num + 1) : Contents(e)[i] = e.que[(q.head + i - 1) % NSEMQUEUE]
    BY <1>3, ContentsSeq
  <1>6. ASSUME NEW i \in 1..(q.num + 1)
        PROVE  Contents(e)[i] = Append(Contents(q), t)[i]
    <2>1. i - 1 \in 0..(NSEMQUEUE - 1) /\ q.head + i - 1 = q.head + (i - 1)
      BY <1>1
    <2>2. CASE i = q.num + 1
      <3>1. (q.head + i - 1) % NSEMQUEUE = c
        BY <1>1, <2>1, <2>2
      <3>2. Contents(e)[i] = t
        BY <1>1, <1>2, <1>3, <1>5, <3>1
      <3> QED BY <1>4, <2>2, <3>2
    <2>3. CASE i # q.num + 1
      <3> DEFINE k == i - 1
      <3>1. /\ k \in 0..(NSEMQUEUE - 1) /\ k # q.num /\ q.head + i - 1 = q.head + k
            /\ i \in 1..q.num
        BY <1>1, <2>1, <2>3
      <3> HIDE DEF k
      <3>2. (q.head + k) % NSEMQUEUE \in 0..(NSEMQUEUE - 1) /\ (q.head + k) % NSEMQUEUE # c
        BY <1>1, <3>1, CellInRange, CellsDiffer
      <3>3. e.que[(q.head + k) % NSEMQUEUE] = q.que[(q.head + k) % NSEMQUEUE]
        BY <1>1, <1>3, <3>2
      <3>4. Contents(e)[i] = Contents(q)[i]
        BY <1>4, <1>5, <3>1, <3>3
      <3> QED BY <1>4, <3>1, <3>4
    <2> QED BY <2>2, <2>3
  <1>7. /\ Append(Contents(q), t) \in Seq(Threads \cup {None})
        /\ Len(Append(Contents(q), t)) = q.num + 1
    BY <1>4
  <1>8. Contents(e) = Append(Contents(q), t)
    BY <1>1, <1>5, <1>6, <1>7, SeqEqual
  <1> QED BY <1>3, <1>8 DEF e

\* dequeue_sem takes the oldest entry away and delivers it, on a queue that is
\* not empty.
LEMMA DequeueTakesHead ==
    ASSUME NEW q \in queue_sem, q.num > 0
    PROVE  /\ dequeue_sem(q) \in queue_sem
           /\ Contents(q) # <<>> /\ Oldest(q) = Head(Contents(q))
           /\ Contents(dequeue_sem(q)) = Tail(Contents(q))
  <1> DEFINE d == dequeue_sem(q)
  <1>1. /\ q.num \in Nat \ {0} /\ q.num <= NSEMQUEUE /\ q.head \in 0..(NSEMQUEUE - 1)
        /\ q.que \in [0..(NSEMQUEUE - 1) -> Threads \cup {None}]
        /\ NSEMQUEUE \in Nat \ {0}
    BY SemAssumption DEF queue_sem, Cells
  <1>2. (q.head + 1) % NSEMQUEUE \in 0..(NSEMQUEUE - 1)
    BY SMTT(30), <1>1, ModOnce
  <1>3. /\ d \in queue_sem /\ d.num = q.num - 1 /\ d.que = q.que
        /\ d.head = (q.head + 1) % NSEMQUEUE
    BY <1>1, <1>2 DEF dequeue_sem, queue_sem, Cells
  <1> HIDE DEF d
  <1>4. /\ Contents(q) \in Seq(Threads \cup {None}) /\ Len(Contents(q)) = q.num
        /\ Contents(q) # <<>>
        /\ \A i \in 1..q.num : Contents(q)[i] = q.que[(q.head + i - 1) % NSEMQUEUE]
    BY <1>1, ContentsSeq
  <1>5. /\ Contents(d) \in Seq(Threads \cup {None}) /\ Len(Contents(d)) = q.num - 1
        /\ \A i \in 1..(q.num - 1) : Contents(d)[i] = q.que[(d.head + i - 1) % NSEMQUEUE]
    BY <1>3, ContentsSeq
  <1>6. Oldest(q) = Head(Contents(q))
    <2>1. Head(Contents(q)) = q.que[(q.head + 1 - 1) % NSEMQUEUE]
      <3>1. Head(Contents(q)) = Contents(q)[1] /\ 1 \in 1..q.num
        BY <1>1, <1>4, HeadTailProperties
      <3> QED BY <1>4, <3>1
    <2>2. q.head + 1 - 1 = q.head /\ q.head % NSEMQUEUE = q.head
      BY <1>1, ModOnce
    <2> QED BY <2>1, <2>2 DEF Oldest
  <1>7. /\ Tail(Contents(q)) \in Seq(Threads \cup {None})
        /\ Len(Tail(Contents(q))) = q.num - 1
        /\ \A i \in 1..(q.num - 1) : Tail(Contents(q))[i] = Contents(q)[i + 1]
    BY <1>1, <1>4
  <1>8. ASSUME NEW i \in 1..(q.num - 1)
        PROVE  Contents(d)[i] = Contents(q)[i + 1]
    <2>1. i - 1 \in 0..(NSEMQUEUE - 1)
      BY <1>1
    <2>2. (((q.head + 1) % NSEMQUEUE) + (i - 1)) % NSEMQUEUE = (q.head + ((i - 1) + 1)) % NSEMQUEUE
      BY <1>1, <2>1, AdvanceHead
    <2>3. d.head \in Int /\ d.head = (q.head + 1) % NSEMQUEUE
      BY <1>2, <1>3
    <2>4. /\ d.head + i - 1 = d.head + (i - 1)
          /\ q.head + ((i - 1) + 1) = q.head + (i + 1) - 1
          /\ i + 1 \in 1..q.num
      BY <1>1, <2>3
    <2>5. Contents(d)[i] = q.que[(d.head + (i - 1)) % NSEMQUEUE]
      BY <1>5, <2>4
    <2>6. (d.head + (i - 1)) % NSEMQUEUE = (q.head + (i + 1) - 1) % NSEMQUEUE
      BY <2>2, <2>3, <2>4
    <2>7. Contents(q)[i + 1] = q.que[(q.head + (i + 1) - 1) % NSEMQUEUE]
      BY <1>4, <2>4
    <2> QED BY <2>5, <2>6, <2>7
  <1>9. Contents(d) = Tail(Contents(q))
    BY <1>1, <1>5, <1>7, <1>8
  <1> QED BY <1>3, <1>4, <1>6, <1>9 DEF d

-----------------------------------------------------------------------------
(* Semaphores *)

\* thread_scheduler gives the processor to a RUNNABLE thread, or all is lost.
LEMMA SchedulerResult ==
    ASSUME TypeOK, thread_scheduler
    PROVE  /\ cur' \in Threads
           /\ lost' \in BOOLEAN
           /\ ~lost' => state[cur'] = "RUNNABLE"
  BY DEF thread_scheduler, Runnable, TypeOK

Distinct(q) == \A i, j \in DOMAIN q : q[i] = q[j] => i = j

\* enqueue_sem adds one entry.
LEMMA AppendNew ==
    ASSUME NEW T, NEW q \in Seq(T), NEW t \in T,
           Distinct(q), \A i \in DOMAIN q : q[i] # t
    PROVE  /\ Distinct(Append(q, t))
           /\ \A i \in DOMAIN Append(q, t) :
                 Append(q, t)[i] = t \/ (i \in DOMAIN q /\ Append(q, t)[i] = q[i])
  <1> DEFINE a == Append(q, t)
  <1>1. /\ Len(q) \in Nat /\ DOMAIN q = 1..Len(q)
        /\ DOMAIN a = 1..(Len(q) + 1)
        /\ \A i \in 1..Len(q) : a[i] = q[i]
        /\ a[Len(q) + 1] = t
    BY AppendProperties, LenProperties
  <1> HIDE DEF a
  <1>2. \A i \in DOMAIN a : i = Len(q) + 1 \/ i \in 1..Len(q)
    BY <1>1
  <1>3. Distinct(a)
    BY <1>1, <1>2 DEF Distinct
  <1>4. ASSUME NEW i \in DOMAIN a
        PROVE  a[i] = t \/ (i \in DOMAIN q /\ a[i] = q[i])
    <2>1. CASE i = Len(q) + 1
      <3>1. a[i] = a[Len(q) + 1]
        BY <2>1
      <3>2. a[Len(q) + 1] = t
        BY <1>1
      <3> QED BY <3>1, <3>2
    <2>2. CASE i \in 1..Len(q)
      BY <1>1, <2>2
    <2> QED BY <1>2, <2>1, <2>2
  <1> QED BY <1>3, <1>4 DEF a

\* dequeue_sem takes one entry away.
LEMMA TailOld ==
    ASSUME NEW T, NEW q \in Seq(T), q # <<>>, Distinct(q)
    PROVE  /\ Distinct(Tail(q))
           /\ 1 \in DOMAIN q /\ Head(q) = q[1]
           /\ \A i \in DOMAIN Tail(q) : /\ i + 1 \in DOMAIN q
                                         /\ Tail(q)[i] = q[i + 1]
                                         /\ Tail(q)[i] # Head(q)
  <1> DEFINE a == Tail(q)
  <1>1. /\ Len(q) \in Nat \ {0} /\ DOMAIN q = 1..Len(q)
        /\ DOMAIN a = 1..(Len(q) - 1)
        /\ \A i \in 1..(Len(q) - 1) : a[i] = q[i + 1]
        /\ Head(q) = q[1]
    BY HeadTailProperties, LenProperties, EmptySeq
  <1> HIDE DEF a
  <1>2. \A i \in DOMAIN a : i \in Nat /\ i + 1 \in DOMAIN q /\ i + 1 # 1 /\ 1 \in DOMAIN q
    BY <1>1
  <1>3. Distinct(a)
    <2> SUFFICES ASSUME NEW i \in DOMAIN a, NEW j \in DOMAIN a, a[i] = a[j]
                 PROVE  i = j
      BY DEF Distinct
    <2>1. i + 1 = j + 1
      BY <1>1, <1>2 DEF Distinct
    <2> QED BY <2>1, <1>2
  <1>4. \A i \in DOMAIN a : a[i] = q[i + 1] /\ a[i] # Head(q)
    BY <1>1, <1>2 DEF Distinct
  <1> QED BY <1>1, <1>2, <1>3, <1>4 DEF a

\* A store into one cell.
LEMMA CellStored ==
    ASSUME semqueue \in [Sids -> queue_sem], NEW s \in Sids, NEW c \in Cells,
           semqueue' = [semqueue EXCEPT ![s].que[c] = None]
    PROVE  /\ semqueue' \in [Sids -> queue_sem]
           /\ \A r \in Sids : semqueue'[r].num = semqueue[r].num
  <1>1. semqueue' = [semqueue EXCEPT ![s] = [semqueue[s] EXCEPT !.que[c] = None]]
    OBVIOUS
  <1>2. semqueue[s] \in queue_sem
    OBVIOUS
  <1>3. /\ [semqueue[s] EXCEPT !.que[c] = None] \in queue_sem
        /\ [semqueue[s] EXCEPT !.que[c] = None].num = semqueue[s].num
    BY <1>2 DEF queue_sem
  <1> QED BY <1>1, <1>3

\* Stores of 0 into head and num.
LEMMA HeadStored ==
    ASSUME semqueue \in [Sids -> queue_sem], NEW s \in Sids,
           \/ semqueue' = [semqueue EXCEPT ![s].head = 0]
           \/ semqueue' = [semqueue EXCEPT ![s].num = 0]
    PROVE  /\ semqueue' \in [Sids -> queue_sem]
           /\ \A r \in Sids : semqueue'[r].num \in {semqueue[r].num, 0}
  <1>1. /\ semqueue[s] \in queue_sem
        /\ 0 \in Cells /\ 0 \in 0..NSEMQUEUE
    BY SemAssumption DEF Cells
  <1>2. CASE semqueue' = [semqueue EXCEPT ![s].head = 0]
    <2>1. semqueue' = [semqueue EXCEPT ![s] = [semqueue[s] EXCEPT !.head = 0]]
      BY <1>2
    <2>2. /\ [semqueue[s] EXCEPT !.head = 0] \in queue_sem
          /\ [semqueue[s] EXCEPT !.head = 0].num = semqueue[s].num
      BY <1>1 DEF queue_sem
    <2> QED BY <2>1, <2>2
  <1>3. CASE semqueue' = [semqueue EXCEPT ![s].num = 0]
    <2>1. semqueue' = [semqueue EXCEPT ![s] = [semqueue[s] EXCEPT !.num = 0]]
      BY <1>3
    <2>2. /\ [semqueue[s] EXCEPT !.num = 0] \in queue_sem
          /\ [semqueue[s] EXCEPT !.num = 0].num = 0
      BY <1>1 DEF queue_sem
    <2> QED BY <2>1, <2>2
  <1> QED BY <1>2, <1>3

LEMMA InitTypes == Init => TypeOK
  <1> SUFFICES ASSUME Init PROVE TypeOK
    OBVIOUS
  <1> USE DEF Init
  <1>1. cur \in Threads
    BY NAssumption DEF Threads
  <1>2. semqueue \in [Sids -> queue_sem]
    <2>1. ZeroedQueue \in queue_sem
      BY NAssumption, SemAssumption DEF ZeroedQueue, queue_sem, Cells, Threads
    <2> QED BY <2>1
  <1>3. semcount \in [Sids -> Int] /\ count \in [Threads -> Int] /\ cell \in [Threads -> 0..NSEMQUEUE]
    BY SemAssumption
  <1>4. pc \in [Threads -> Labels] /\ \A t \in Threads : pc[t] = "idle" /\ cell[t] = 0
    BY DEF Labels
  <1>5. /\ lost \in BOOLEAN /\ early \in BOOLEAN
        /\ state \in [Threads -> {"RUNNABLE", "WAIT"}]
        /\ semstate \in [Sids -> {"S_FREE", "S_USED"}]
        /\ sid_ptr \in [Threads -> Sids \cup {None}]
        /\ sem \in [Threads -> Sids \cup {None}]
        /\ tid \in [Threads -> Threads \cup {None}]
    OBVIOUS
  <1> HIDE DEF Init
  <1> QED BY <1>1, <1>2, <1>3, <1>4, <1>5, IdleAssumption DEF TypeOK

LEMMA InitSemaphore == Init => SemaphoreInv
  <1> SUFFICES ASSUME Init PROVE SemaphoreInv
    OBVIOUS
  <1>1. TypeOK
    BY InitTypes
  <1>2. ASSUME NEW s \in Sids
        PROVE  DOMAIN waiting[s] = {}
    <2>1. semqueue[s] \in queue_sem /\ semqueue[s].num = 0
      BY <1>1 DEF Init, ZeroedQueue, TypeOK
    <2> QED BY <2>1, ContentsSeq DEF waiting
  <1>3. QueuedThreadsSleep
    BY <1>2 DEF QueuedThreadsSleep
  <1>4. WokenOnce
    BY DEF Init, WokenOnce
  <1>5. SleepsFirst /\ CreatedEmpty
    BY <1>1 DEF Init, SleepsFirst, CreatedEmpty, BeingCreated, Creating, ZeroedQueue, TypeOK
  <1> QED BY <1>1, <1>3, <1>4, <1>5 DEF SemaphoreInv

\* Every step keeps the types.
LEMMA NextTypes ==
    ASSUME TypeOK, [Next]_vars
    PROVE  TypeOK'
  <1> USE DEF TypeOK, Labels, table, locals, At, Ready, Goto, Return, Uses, Creating
  <1>1. CASE Preempt
    <2>1. cur' \in Threads /\ lost' \in BOOLEAN
      BY <1>1, SchedulerResult DEF Preempt
    <2> QED BY <1>1, <2>1 DEF Preempt
  <1>2. ASSUME NEW t \in Threads, NEW c \in Counts, create_sem(t, c)
        PROVE  TypeOK'
    BY <1>2, CountsAssumption DEF create_sem, FreeSids
  <1>3. ASSUME NEW t \in Threads, newsem(t) PROVE TypeOK'
    BY <1>3 DEF newsem
  <1>4. ASSUME NEW t \in Threads, create_count(t) PROVE TypeOK'
    BY <1>4, SemAssumption DEF create_count
  <1>5. ASSUME NEW t \in Threads, create_cell(t) PROVE TypeOK'
    <2>1. /\ t \notin Idle /\ pc[t] = "create_cell" /\ sem[t] \in Sids
          /\ cell[t] \in Cells /\ cell[t] + 1 \in 0..NSEMQUEUE
      BY <1>5, SemAssumption DEF create_cell, Cells
    <2>2. semqueue' \in [Sids -> queue_sem]
      BY <1>5, <2>1, CellStored DEF create_cell
    <2>3. /\ pc' = [pc EXCEPT ![t] = IF cell[t] + 1 < NSEMQUEUE THEN "create_cell"
                                     ELSE "create_head"]
          /\ cell' = [cell EXCEPT ![t] = cell[t] + 1]
          /\ UNCHANGED <<state, cur, lost, semstate, semcount, early, sid_ptr, sem, tid, count>>
      BY <1>5 DEF create_cell
    <2> HIDE DEF Cells
    <2> QED BY <2>1, <2>2, <2>3
  <1>a. ASSUME NEW t \in Threads, create_head(t) \/ create_num(t) PROVE TypeOK'
    <2>1. sem[t] \in Sids /\ pc[t] \in {"create_head", "create_num"}
      BY <1>a DEF create_head, create_num
    <2>2. semqueue' \in [Sids -> queue_sem]
      BY <1>a, <2>1, HeadStored DEF create_head, create_num
    <2>3. CASE create_head(t)
      BY <2>1, <2>2, <2>3 DEF create_head
    <2>4. CASE create_num(t)
      BY <2>1, <2>2, <2>4, SemAssumption DEF create_num
    <2> QED BY <1>a, <2>3, <2>4
  <1>6. ASSUME NEW t \in Threads, NEW s \in Sids, wait_passes(t, s) PROVE TypeOK'
    BY <1>6 DEF wait_passes, BeingCreated
  <1>7. ASSUME NEW t \in Threads, NEW s \in Sids, wait_blocks(t, s) PROVE TypeOK'
    BY <1>7 DEF wait_blocks, BeingCreated
  <1>8. ASSUME NEW t \in Threads, wait_state(t) PROVE TypeOK'
    BY <1>8 DEF wait_state
  <1>9. ASSUME NEW t \in Threads, wait_sid_ptr(t) PROVE TypeOK'
    BY <1>9 DEF wait_sid_ptr
  <1>10. ASSUME NEW t \in Threads, wait_enqueue(t) PROVE TypeOK'
    <2>1. semqueue' \in [Sids -> queue_sem]
      BY <1>10, EnqueueAppends DEF wait_enqueue
    <2> QED BY <1>10, <2>1 DEF wait_enqueue
  <1>11. ASSUME NEW t \in Threads, wait_queue_full(t) PROVE TypeOK'
    BY <1>11, SemAssumption DEF wait_queue_full
  <1>12. ASSUME NEW t \in Threads, wait_yield(t) PROVE TypeOK'
    <2>1. cur' \in Threads /\ lost' \in BOOLEAN
      BY <1>12, SchedulerResult DEF wait_yield
    <2> QED BY <1>12, <2>1 DEF wait_yield
  <1>13. ASSUME NEW t \in Threads, wait_return(t) PROVE TypeOK'
    BY <1>13, SemAssumption DEF wait_return
  <1>14. ASSUME NEW t \in Threads, NEW s \in Sids, signal_dequeues(t, s) PROVE TypeOK'
    <2>1. semqueue' \in [Sids -> queue_sem] /\ Oldest(semqueue[s]) \in Threads \cup {None}
      BY <1>14, DequeueTakesHead DEF signal_dequeues, Oldest, queue_sem
    <2> QED BY <1>14, <2>1 DEF signal_dequeues, BeingCreated
  <1>15. ASSUME NEW t \in Threads, NEW s \in Sids, signal_finds_nobody(t, s)
         PROVE  TypeOK'
    BY <1>15 DEF signal_finds_nobody, BeingCreated
  <1>16. ASSUME NEW t \in Threads, signal_state(t) PROVE TypeOK'
    BY <1>16 DEF signal_state
  <1>b. ASSUME NEW t \in Threads, signal_state_astray(t) PROVE TypeOK'
    BY <1>b DEF signal_state_astray
  <1>17. ASSUME NEW t \in Threads, signal_yield(t) PROVE TypeOK'
    <2>1. cur' \in Threads /\ lost' \in BOOLEAN
      BY <1>17, SchedulerResult DEF signal_yield
    <2> QED BY <1>17, <2>1, SemAssumption DEF signal_yield
  <1>18. CASE UNCHANGED vars
    BY <1>18 DEF vars
  <1> QED
    BY <1>1, <1>2, <1>3, <1>4, <1>5, <1>6, <1>7, <1>8, <1>9, <1>10, <1>11, <1>12,
       <1>13, <1>14, <1>15, <1>16, <1>17, <1>18, <1>a, <1>b
       DEF Next, Call, Continue, signal_does_nothing, delete_sem

\* For every number of threads and semaphores, the variables keep their types
\* (semaphore.c).
THEOREM SemaphoreTypes == Spec => []TypeOK
  <1>1. Init => TypeOK
    BY InitTypes
  <1>2. TypeOK /\ [Next]_vars => TypeOK'
    BY NextTypes
  <1> QED BY <1>1, <1>2, PTL DEF Spec

\* History is not forgotten: a semaphore once used too early stays so.
LEMMA UseIsSeen ==
    ASSUME TypeOK, [Next]_vars, ~early'
    PROVE  ~early
  <1>1. ASSUME NEW t \in Threads,
               newsem(t) \/ create_count(t) \/ create_cell(t) \/ create_head(t) \/ create_num(t)
        PROVE  early' = early
    BY <1>1 DEF newsem, create_count, create_cell, create_head, create_num
  <1>2. ASSUME NEW t \in Threads,
               \/ wait_state(t) \/ wait_sid_ptr(t) \/ wait_enqueue(t) \/ wait_queue_full(t)
               \/ wait_yield(t) \/ wait_return(t)
        PROVE  early' = early
    BY <1>2 DEF wait_state, wait_sid_ptr, wait_enqueue, wait_queue_full, wait_yield, wait_return
  <1>3. ASSUME NEW t \in Threads, signal_state(t) \/ signal_state_astray(t) \/ signal_yield(t)
        PROVE  early' = early
    BY <1>3 DEF signal_state, signal_state_astray, signal_yield
  <1>4. ASSUME NEW t \in Threads, NEW c \in Counts, create_sem(t, c)
        PROVE  early' = early
    BY <1>4 DEF create_sem
  <1>5. ASSUME NEW t \in Threads, NEW s \in Sids,
               \/ wait_passes(t, s) \/ wait_blocks(t, s) \/ signal_dequeues(t, s)
               \/ signal_finds_nobody(t, s)
        PROVE  early' = (early \/ BeingCreated(s))
    BY <1>5 DEF Uses, wait_passes, wait_blocks, signal_dequeues, signal_finds_nobody
  <1>6. ASSUME NEW t \in Threads, NEW s \in Sids, signal_does_nothing(t, s) \/ delete_sem(t, s)
        PROVE  early' = early
    BY <1>6 DEF signal_does_nothing, delete_sem, vars
  <1>7. CASE Preempt \/ UNCHANGED vars
    BY <1>7 DEF Preempt, vars
  <1> QED BY <1>1, <1>2, <1>3, <1>4, <1>5, <1>6, <1>7 DEF TypeOK, Next, Call, Continue

\* Every step keeps the queues of semaphores under creation empty, unless it is a
\* use of one of them.
LEMMA NextCreated ==
    ASSUME TypeOK, TypeOK', CreatedEmpty, [Next]_vars, ~early'
    PROVE  ~early /\ CreatedEmpty'
  <1> DEFINE W == {"wait_state", "wait_sid_ptr", "wait_enqueue"}
             Stays(u) == /\ pc'[u] \in Creating => pc[u] \in Creating /\ sem'[u] = sem[u]
                         /\ pc'[u] \in W => pc[u] \in W /\ sem'[u] = sem[u]
             Same(s) == semstate'[s] = semstate[s] /\ semqueue'[s] = semqueue[s]
  <1> USE DEF TypeOK, table, locals, At, Ready, Goto, Return, Uses, Usable, Creating
  <1>1. ~early
    BY UseIsSeen
  <1>2. ASSUME \A s \in Sids : Same(s) \/ (semqueue'[s].num = 0 /\ semstate'[s] = semstate[s]),
               \A u \in Threads : Stays(u)
        PROVE  CreatedEmpty'
    <2>1. ASSUME NEW s \in Sids, BeingCreated(s)' PROVE BeingCreated(s)
      BY <1>2, <2>1 DEF BeingCreated
    <2>2. ASSUME NEW s \in Sids, semstate'[s] = "S_FREE" \/ BeingCreated(s)'
          PROVE  semqueue'[s].num = 0
      BY <1>2, <2>1, <2>2 DEF CreatedEmpty
    <2>3. ASSUME NEW u \in Threads, pc'[u] \in W
          PROVE  semstate'[sem'[u]] = "S_USED" /\ ~BeingCreated(sem[u])'
      <3>1. pc[u] \in W /\ sem'[u] = sem[u] /\ sem[u] \in Sids
        BY <1>2, <2>3
      <3>2. semstate[sem[u]] = "S_USED" /\ ~BeingCreated(sem[u])
        BY <3>1 DEF CreatedEmpty
      <3>3. BeingCreated(sem[u])' <=> \E v \in Threads : pc'[v] \in Creating /\ sem'[v] = sem'[u]
        BY DEF BeingCreated
      <3> QED BY <1>2, <3>1, <3>2, <3>3 DEF BeingCreated
    <2> QED BY <2>2, <2>3 DEF CreatedEmpty
  <1>3. ASSUME NEW t \in Threads, NEW c \in Counts, create_sem(t, c)
        PROVE  CreatedEmpty'
    <2>1. PICK s \in Sids : /\ semstate[s] = "S_FREE" /\ sem' = [sem EXCEPT ![t] = s]
                            /\ pc' = [pc EXCEPT ![t] = "newsem"]
                            /\ UNCHANGED <<semstate, semqueue>>
      BY <1>3 DEF create_sem, FreeSids
    <2>2. ASSUME NEW r \in Sids, \E u \in Threads : pc'[u] \in Creating /\ sem'[u] = r
          PROVE  BeingCreated(r) \/ r = s
      BY <2>1, <2>2 DEF BeingCreated
    <2>3. ASSUME NEW u \in Threads, pc'[u] \in W
          PROVE  u # t /\ pc[u] \in W /\ sem'[u] = sem[u] /\ sem[u] \in Sids /\ sem[u] # s
      BY <2>1, <2>3 DEF CreatedEmpty
    <2> HIDE DEF W
    <2>4. \A r \in Sids : semstate[r] = "S_FREE" \/ BeingCreated(r)' => semqueue[r].num = 0
      BY <2>1, <2>2 DEF CreatedEmpty, BeingCreated
    <2>5. ASSUME NEW u \in Threads, pc'[u] \in W
          PROVE  semstate'[sem'[u]] = "S_USED" /\ ~BeingCreated(sem[u])'
      <3>1. semstate[sem[u]] = "S_USED" /\ ~BeingCreated(sem[u])
        BY <2>3, <2>5 DEF CreatedEmpty, W
      <3>2. BeingCreated(sem[u])' <=> \E v \in Threads : pc'[v] \in Creating /\ sem'[v] = sem'[u]
        BY DEF BeingCreated
      <3> QED BY <2>1, <2>2, <2>3, <2>5, <3>1, <3>2
    <2> QED BY <2>1, <2>4, <2>5 DEF CreatedEmpty, W
  <1>4. ASSUME NEW t \in Threads, newsem(t) PROVE CreatedEmpty'
    <2>1. /\ semstate' = [semstate EXCEPT ![sem[t]] = "S_USED"] /\ sem[t] \in Sids
          /\ pc' = [pc EXCEPT ![t] = "create_count"] /\ pc[t] = "newsem"
          /\ UNCHANGED <<sem, semqueue>>
      BY <1>4 DEF newsem
    <2>2. \A s : BeingCreated(s)' <=> BeingCreated(s)
      BY <2>1 DEF BeingCreated
    <2>3. \A s \in Sids : semstate'[s] \in {semstate[s], "S_USED"}
      BY <2>1
    <2>4. \A u \in Threads : pc'[u] \in W => pc[u] \in W
      BY <2>1
    <2>5. BeingCreated(sem[t])
      BY <2>1 DEF BeingCreated
    <2>6. \A u \in Threads : BeingCreated(sem[u])' <=> BeingCreated(sem[u])
      BY <2>1 DEF BeingCreated
    <2> QED BY <2>1, <2>2, <2>3, <2>4, <2>6 DEF CreatedEmpty
  <1>5. ASSUME NEW t \in Threads, create_cell(t) \/ create_head(t) \/ create_num(t)
        PROVE  CreatedEmpty'
    <2>0. /\ sem[t] \in Sids /\ pc[t] \in Creating
          /\ \A u \in Threads : u # t => pc'[u] = pc[u] /\ sem'[u] = sem[u]
          /\ pc'[t] \in {"create_cell", "create_head", "create_num", "idle"}
          /\ pc'[t] # "idle" => sem'[t] = sem[t]
          /\ semstate' = semstate
      BY <1>5 DEF create_cell, create_head, create_num
    <2>1. BeingCreated(sem[t]) /\ semqueue[sem[t]].num = 0
      BY <2>0 DEF BeingCreated, CreatedEmpty
    <2>2. semqueue'[sem[t]].num = 0 /\ \A s \in Sids : s # sem[t] => semqueue'[s] = semqueue[s]
      <3>1. CASE create_cell(t)
        <4>1. cell[t] \in Cells
          BY <3>1, SemAssumption DEF create_cell, Cells
        <4> QED BY <2>0, <2>1, <3>1, <4>1, CellStored DEF create_cell
      <3>2. CASE create_head(t) \/ create_num(t)
        BY <2>0, <2>1, <3>2, HeadStored DEF create_head, create_num
      <3> QED BY <1>5, <3>1, <3>2
    <2>3. \A u \in Threads : Stays(u)
      BY <2>0
    <2>4. \A s \in Sids : Same(s) \/ (semqueue'[s].num = 0 /\ semstate'[s] = semstate[s])
      BY <2>0, <2>2
    <2> HIDE DEF Same, Stays
    <2> QED BY <1>2, <2>3, <2>4
  <1>6. ASSUME NEW t \in Threads, NEW s \in Sids, wait_blocks(t, s) PROVE CreatedEmpty'
    <2>1. /\ semstate[s] = "S_USED" /\ ~BeingCreated(s) /\ pc[t] = "idle"
          /\ sem' = [sem EXCEPT ![t] = s] /\ pc' = [pc EXCEPT ![t] = "wait_state"]
          /\ UNCHANGED <<semstate, semqueue>>
      BY <1>6 DEF wait_blocks
    <2>2. \A r : BeingCreated(r)' <=> BeingCreated(r)
      BY <2>1 DEF BeingCreated
    <2>3. ASSUME NEW u \in Threads, pc'[u] \in W
          PROVE  semstate'[sem'[u]] = "S_USED" /\ ~BeingCreated(sem[u])'
      <3>1. BeingCreated(sem[u])' <=> \E v \in Threads : pc'[v] \in Creating /\ sem'[v] = sem'[u]
        BY DEF BeingCreated
      <3>2. ~BeingCreated(sem'[u]) /\ semstate[sem'[u]] = "S_USED"
        BY <2>1, <2>3 DEF CreatedEmpty
      <3> QED BY <2>1, <3>1, <3>2 DEF BeingCreated
    <2> QED BY <2>1, <2>2, <2>3 DEF CreatedEmpty
  <1>7. ASSUME NEW t \in Threads, wait_enqueue(t) PROVE CreatedEmpty'
    <2>1. /\ semstate[sem[t]] = "S_USED" /\ ~BeingCreated(sem[t]) /\ sem[t] \in Sids
          /\ \A s \in Sids : s # sem[t] => semqueue'[s] = semqueue[s]
          /\ pc' = [pc EXCEPT ![t] = "wait_yield"] /\ pc[t] = "wait_enqueue"
          /\ UNCHANGED <<semstate, sem>>
      BY <1>7 DEF wait_enqueue, CreatedEmpty
    <2>2. \A s : BeingCreated(s)' <=> BeingCreated(s)
      BY <2>1 DEF BeingCreated
    <2>3. \A u \in Threads : BeingCreated(sem[u])' <=> BeingCreated(sem[u])
      BY <2>1 DEF BeingCreated
    <2> QED BY <2>1, <2>2, <2>3 DEF CreatedEmpty
  <1>8. ASSUME NEW t \in Threads, NEW s \in Sids, signal_dequeues(t, s) PROVE CreatedEmpty'
    <2>1. /\ semqueue[s].num > 0 /\ pc[t] = "idle"
          /\ \A r \in Sids : r # s => semqueue'[r] = semqueue[r]
          /\ pc' = [pc EXCEPT ![t] = "signal_state"] /\ sem' = [sem EXCEPT ![t] = s]
          /\ UNCHANGED semstate
      BY <1>8 DEF signal_dequeues
    <2>2. \A r : BeingCreated(r)' <=> BeingCreated(r)
      BY <2>1 DEF BeingCreated
    <2>3. ASSUME NEW u \in Threads, pc'[u] \in W
          PROVE  semstate'[sem'[u]] = "S_USED" /\ ~BeingCreated(sem[u])'
      <3>1. BeingCreated(sem[u])' <=> \E v \in Threads : pc'[v] \in Creating /\ sem'[v] = sem'[u]
        BY DEF BeingCreated
      <3>2. ~BeingCreated(sem'[u]) /\ semstate[sem'[u]] = "S_USED"
        BY <2>1, <2>3 DEF CreatedEmpty
      <3> QED BY <2>1, <3>1, <3>2 DEF BeingCreated
    <2>4. semstate[s] # "S_FREE" /\ ~BeingCreated(s)
      BY <2>1 DEF CreatedEmpty
    <2> QED BY <2>1, <2>2, <2>3, <2>4 DEF CreatedEmpty
  <1>9. ASSUME UNCHANGED <<semstate, semqueue>>, \A u \in Threads : Stays(u)
        PROVE  CreatedEmpty'
    BY <1>2, <1>9
  <1>10. CASE Preempt \/ UNCHANGED vars
    <2>1. UNCHANGED <<semstate, semqueue, pc, sem>>
      BY <1>10 DEF Preempt, vars
    <2>2. (\A u \in Threads : Stays(u)) /\ UNCHANGED <<semstate, semqueue>>
      BY <2>1
    <2> HIDE DEF Stays
    <2> QED BY <1>1, <1>9, <2>2
  <1>11. ASSUME NEW t \in Threads,
                \/ create_count(t) \/ wait_state(t) \/ wait_sid_ptr(t) \/ wait_queue_full(t)
                \/ wait_yield(t) \/ wait_return(t)
                \/ signal_state(t) \/ signal_state_astray(t) \/ signal_yield(t)
         PROVE  CreatedEmpty'
    <2>1. UNCHANGED <<semstate, semqueue>>
      BY <1>11 DEF create_count, wait_state, wait_sid_ptr, wait_queue_full, wait_yield,
         wait_return, signal_state, signal_state_astray, signal_yield
    <2>2. ASSUME NEW u \in Threads PROVE Stays(u)
      BY <1>11, <2>2 DEF create_count, wait_state, wait_sid_ptr, wait_queue_full, wait_yield,
         wait_return, signal_state, signal_state_astray, signal_yield
    <2> HIDE DEF Stays
    <2> QED BY <1>9, <2>1, <2>2
  <1>12. ASSUME NEW t \in Threads, NEW s \in Sids,
                \/ wait_passes(t, s) \/ signal_finds_nobody(t, s)
                \/ signal_does_nothing(t, s) \/ delete_sem(t, s)
         PROVE  CreatedEmpty'
    <2>1. UNCHANGED <<semstate, semqueue, pc, sem>>
      BY <1>12 DEF wait_passes, signal_finds_nobody, signal_does_nothing, delete_sem, vars
    <2>2. (\A u \in Threads : Stays(u)) /\ UNCHANGED <<semstate, semqueue>>
      BY <2>1
    <2> HIDE DEF Stays
    <2> QED BY <1>9, <2>2
  <1> QED
    BY <1>1, <1>3, <1>4, <1>5, <1>6, <1>7, <1>8, <1>10, <1>11, <1>12 DEF Next, Call, Continue


-----------------------------------------------------------------------------
(* The waiting queues *)

\* Stores into the queue of a semaphore for which nobody waits change nobody's
\* place.
LEMMA QueuesKept ==
    ASSUME semqueue \in [Sids -> queue_sem], semqueue' \in [Sids -> queue_sem],
           \A s \in Sids : \/ semqueue'[s] = semqueue[s]
                           \/ semqueue[s].num = 0 /\ semqueue'[s].num = 0
    PROVE  waiting' = waiting
  <1>1. ASSUME NEW s \in Sids
        PROVE  Contents(semqueue'[s]) = Contents(semqueue[s])
    <2>1. CASE semqueue[s].num = 0 /\ semqueue'[s].num = 0
      BY <2>1, ContentsSeq
    <2> QED BY <2>1
  <1> QED BY <1>1 DEF waiting

LEMMA WaitingSeq ==
    ASSUME TypeOK, QueuedThreadsSleep, ~early
    PROVE  waiting \in [Sids -> Seq(Threads)]
  <1>1. ASSUME NEW s \in Sids
        PROVE  waiting[s] \in Seq(Threads)
    <2>1. waiting[s] = Contents(semqueue[s]) /\ semqueue[s] \in queue_sem
      BY DEF waiting, TypeOK
    <2>2. /\ waiting[s] \in Seq(Threads \cup {None}) /\ DOMAIN waiting[s] = 1..Len(waiting[s])
          /\ Len(waiting[s]) \in Nat
      BY <2>1, ContentsSeq
    <2>3. \A i \in 1..Len(waiting[s]) : waiting[s][i] \in Threads
      BY <2>2 DEF QueuedThreadsSleep
    <2>4. waiting[s] = [i \in 1..Len(waiting[s]) |-> waiting[s][i]]
      BY <2>2
    <2>5. waiting[s] \in [1..Len(waiting[s]) -> Threads]
      BY <2>3, <2>4
    <2> QED BY <2>2, <2>5
  <1>2. waiting = [s \in Sids |-> waiting[s]]
    BY DEF waiting
  <1> QED BY <1>1, <1>2

LEMMA EnqueueWaits ==
    ASSUME TypeOK, NEW t \in Threads, wait_enqueue(t)
    PROVE  waiting' = [waiting EXCEPT ![sem[t]] = Append(waiting[sem[t]], t)]
  <1>1. /\ sem[t] \in Sids /\ semqueue[sem[t]] \in queue_sem
        /\ semqueue[sem[t]].num < NSEMQUEUE
        /\ semqueue' = [semqueue EXCEPT ![sem[t]] = enqueue_sem(semqueue[sem[t]], t)]
    BY DEF wait_enqueue, At, TypeOK
  <1>2. Contents(semqueue'[sem[t]]) = Append(Contents(semqueue[sem[t]]), t)
    BY <1>1, EnqueueAppends DEF TypeOK
  <1>3. \A s \in Sids : s # sem[t] => semqueue'[s] = semqueue[s]
    BY <1>1 DEF TypeOK
  <1> DEFINE a == Append(waiting[sem[t]], t)
  <1>4. /\ waiting = [s \in Sids |-> waiting[s]] /\ waiting' = [s \in Sids |-> waiting'[s]]
        /\ waiting'[sem[t]] = a
        /\ \A s \in Sids : s # sem[t] => waiting'[s] = waiting[s]
    BY <1>1, <1>2, <1>3 DEF waiting
  <1> HIDE DEF a
  <1>5. waiting' = [waiting EXCEPT ![sem[t]] = a]
    BY <1>1, <1>4
  <1> QED BY <1>5 DEF a

LEMMA DequeueWakes ==
    ASSUME TypeOK, NEW t \in Threads, NEW s \in Sids, signal_dequeues(t, s)
    PROVE  /\ waiting[s] # <<>>
           /\ waiting' = [waiting EXCEPT ![s] = Tail(waiting[s])]
           /\ tid' = [tid EXCEPT ![t] = Head(waiting[s])]
  <1>1. /\ semqueue[s] \in queue_sem /\ semqueue[s].num > 0
        /\ semqueue' = [semqueue EXCEPT ![s] = dequeue_sem(semqueue[s])]
        /\ tid' = [tid EXCEPT ![t] = Oldest(semqueue[s])]
    BY DEF signal_dequeues, TypeOK
  <1>2. /\ Contents(semqueue[s]) # <<>> /\ Oldest(semqueue[s]) = Head(Contents(semqueue[s]))
        /\ Contents(semqueue'[s]) = Tail(Contents(semqueue[s]))
    BY <1>1, DequeueTakesHead DEF TypeOK
  <1>3. \A r \in Sids : r # s => semqueue'[r] = semqueue[r]
    BY <1>1 DEF TypeOK
  <1> DEFINE b == Tail(waiting[s])
  <1>4. /\ waiting = [r \in Sids |-> waiting[r]] /\ waiting' = [r \in Sids |-> waiting'[r]]
        /\ waiting'[s] = b /\ waiting[s] = Contents(semqueue[s])
        /\ \A r \in Sids : r # s => waiting'[r] = waiting[r]
    BY <1>1, <1>2, <1>3 DEF waiting
  <1> HIDE DEF b
  <1>5. waiting' = [waiting EXCEPT ![s] = b]
    BY <1>4
  <1> QED BY <1>1, <1>2, <1>4, <1>5 DEF b

\* create_sem works on a semaphore for which nobody waits.
LEMMA CreationWakesNobody ==
    ASSUME TypeOK, TypeOK', CreatedEmpty, NEW t \in Threads,
           create_cell(t) \/ create_head(t) \/ create_num(t)
    PROVE  waiting' = waiting
  <1>1. /\ sem[t] \in Sids /\ pc[t] \in Creating
        /\ semqueue \in [Sids -> queue_sem] /\ semqueue' \in [Sids -> queue_sem]
    BY DEF TypeOK, create_cell, create_head, create_num, At, Creating
  <1>2. semqueue[sem[t]].num = 0
    BY <1>1 DEF CreatedEmpty, BeingCreated
  <1>3. CASE create_cell(t)
    <2>1. cell[t] \in Cells
      BY <1>3, SemAssumption DEF create_cell, Cells, At, TypeOK
    <2>2. semqueue' = [semqueue EXCEPT ![sem[t]].que[cell[t]] = None]
      BY <1>3 DEF create_cell
    <2>3. \A r \in Sids : semqueue'[r].num = semqueue[r].num
      BY <1>1, <2>1, <2>2, CellStored
    <2>4. \A r \in Sids : r # sem[t] => semqueue'[r] = semqueue[r]
      BY <1>1, <2>2
    <2> QED BY <1>1, <1>2, <2>3, <2>4, QueuesKept
  <1>4. CASE create_head(t) \/ create_num(t)
    <2>1. \/ semqueue' = [semqueue EXCEPT ![sem[t]].head = 0]
          \/ semqueue' = [semqueue EXCEPT ![sem[t]].num = 0]
      BY <1>4 DEF create_head, create_num
    <2>2. semqueue'[sem[t]].num = 0
      BY <1>1, <1>2, <2>1, HeadStored
    <2>3. \A r \in Sids : r # sem[t] => semqueue'[r] = semqueue[r]
      BY <1>1, <2>1
    <2> QED BY <1>1, <1>2, <2>2, <2>3, QueuesKept
  <1> QED BY <1>3, <1>4

\* Every step that does not use a semaphore under creation keeps sleepers where
\* they are.
LEMMA NextSound ==
    ASSUME SemaphoreInv, [Next]_vars, ~early'
    PROVE  QueuedThreadsSleep' /\ WokenOnce' /\ SleepsFirst'
  <1> DEFINE Sound == QueuedThreadsSleep' /\ WokenOnce' /\ SleepsFirst'
  <1>0. /\ TypeOK /\ TypeOK' /\ ~early /\ CreatedEmpty /\ SleepsFirst
        /\ QueuedThreadsSleep /\ WokenOnce /\ waiting \in [Sids -> Seq(Threads)]
    <2>1. /\ TypeOK /\ QueuedThreadsSleep /\ WokenOnce
          /\ ~early => SleepsFirst /\ CreatedEmpty
      BY DEF SemaphoreInv
    <2>2. TypeOK'
      BY <2>1, NextTypes
    <2>3. ~early
      BY <2>1, <2>2, UseIsSeen
    <2> QED BY <2>1, <2>2, <2>3, WaitingSeq
  <1>t. /\ state \in [Threads -> {"RUNNABLE", "WAIT"}] /\ pc \in [Threads -> Labels]
        /\ sem \in [Threads -> Sids \cup {None}] /\ tid \in [Threads -> Threads \cup {None}]
        /\ sid_ptr \in [Threads -> Sids \cup {None}]
    BY <1>0 DEF TypeOK
  <1>d. \A s \in Sids : Distinct(waiting[s])
    BY <1>0 DEF QueuedThreadsSleep, Distinct
  <1>w. semqueue' = semqueue => waiting' = waiting
    BY DEF waiting
  <1> USE <1>0 DEF QueuedThreadsSleep, WokenOnce, SleepsFirst, Asleep, table, locals,
                   At, Ready, Goto, Return
  <1>1. CASE Preempt
    <2>1. ~lost' => state[cur'] = "RUNNABLE"
      BY <1>1, SchedulerResult DEF Preempt, TypeOK
    <2> QED BY <1>1, <1>w, <2>1 DEF Preempt, TypeOK
  <1>2. ASSUME NEW t \in Threads, NEW c \in Counts, create_sem(t, c)
        PROVE  Sound
    BY <1>2, <1>w DEF create_sem, TypeOK
  <1>3. ASSUME NEW t \in Threads, newsem(t)
        PROVE  Sound
    BY <1>3, <1>w DEF newsem, TypeOK
  <1>4. ASSUME NEW t \in Threads, create_count(t)
        PROVE  Sound
    BY <1>4, <1>w DEF create_count, TypeOK
  <1>5. ASSUME NEW t \in Threads, create_cell(t) \/ create_head(t) \/ create_num(t)
        PROVE  Sound
    <2>1. waiting' = waiting
      BY <1>5, CreationWakesNobody
    <2>2. CASE create_cell(t) \/ create_head(t)
      <3>1. /\ UNCHANGED <<state, cur, lost, sid_ptr, sem, tid>>
            /\ cur = t
            /\ \/ pc' = [pc EXCEPT ![t] = "create_cell"]
               \/ pc' = [pc EXCEPT ![t] = "create_head"]
               \/ pc' = [pc EXCEPT ![t] = "create_num"]
        BY <2>2 DEF create_cell, create_head
      <3>2. pc[t] \notin {"wait_yield", "wait_return"}
        BY <2>2 DEF create_cell, create_head
      <3>3. /\ \A u \in Threads : u # t => pc'[u] = pc[u]
            /\ pc'[t] \in {"create_cell", "create_head", "create_num"}
        BY <1>t, <3>1
      <3>4. QueuedThreadsSleep' /\ WokenOnce'
        BY <2>1, <3>1, <3>2, <3>3
      <3>5. SleepsFirst'
        BY <3>1, <3>3
      <3> QED BY <3>4, <3>5
    <2>3. CASE create_num(t)
      BY <2>1, <2>3 DEF create_num, TypeOK
    <2> QED BY <1>5, <2>2, <2>3
  <1>6. ASSUME NEW t \in Threads, NEW s \in Sids, wait_passes(t, s)
        PROVE  Sound
    BY <1>6, <1>w DEF wait_passes, TypeOK
  <1>7. ASSUME NEW t \in Threads, NEW s \in Sids, wait_blocks(t, s)
        PROVE  Sound
    BY SMTT(30), <1>7, <1>w DEF wait_blocks, TypeOK
  <1>8. ASSUME NEW t \in Threads, wait_state(t)
        PROVE  Sound
    BY <1>8, <1>w DEF wait_state, TypeOK
  <1>9. ASSUME NEW t \in Threads, wait_sid_ptr(t)
        PROVE  Sound
    BY SMTT(30), <1>9, <1>w DEF wait_sid_ptr, TypeOK
  <1>10. ASSUME NEW t \in Threads, wait_enqueue(t)
        PROVE  Sound
    <2>1. /\ state[t] = "WAIT" /\ sid_ptr[t] = sem[t]
          /\ sem[t] \in Sids /\ cur = t /\ pc[t] = "wait_enqueue"
      BY <1>10 DEF wait_enqueue, TypeOK
    <2>0. waiting' = [waiting EXCEPT ![sem[t]] = Append(waiting[sem[t]], t)]
      BY <1>10, EnqueueWaits
    <2>2. \A s \in Sids : \A i \in DOMAIN waiting[s] : waiting[s][i] # t
      BY <2>1
    <2>a. ASSUME NEW s \in Sids
          PROVE  /\ Distinct(waiting'[s])
                 /\ \A i \in DOMAIN waiting'[s] :
                       \/ waiting'[s][i] = t /\ s = sem[t]
                       \/ i \in DOMAIN waiting[s] /\ waiting'[s][i] = waiting[s][i]
      <3>1. Distinct(waiting[s]) /\ waiting[s] \in Seq(Threads)
        BY <1>d
      <3>2. CASE s # sem[t]
        <4>1. waiting'[s] = waiting[s]
          BY <2>0, <3>2
        <4> QED BY <3>1, <4>1
      <3>3. CASE s = sem[t]
        <4>1. waiting'[s] = Append(waiting[s], t)
          BY <2>0, <2>1, <3>3
        <4> QED BY <2>2, <3>1, <3>3, <4>1, AppendNew
      <3> QED BY <3>2, <3>3
    <2>3. QueuedThreadsSleep'
      <3>0. /\ pc' = [pc EXCEPT ![t] = "wait_yield"]
            /\ sid_ptr' = sid_ptr /\ sem' = sem /\ state' = state
        BY <1>10 DEF wait_enqueue
      <3>1. ASSUME NEW s \in Sids, NEW i \in DOMAIN waiting'[s]
            PROVE  /\ waiting'[s][i] \in Threads /\ state'[waiting'[s][i]] = "WAIT"
                   /\ pc'[waiting'[s][i]] \in {"wait_yield", "wait_return"}
                   /\ sem'[waiting'[s][i]] = s /\ sid_ptr'[waiting'[s][i]] = s
        <4>1. CASE waiting'[s][i] = t /\ s = sem[t]
          BY <1>t, <2>1, <3>0, <4>1
        <4>2. CASE i \in DOMAIN waiting[s] /\ waiting'[s][i] = waiting[s][i]
          BY <1>t, <2>1, <3>0, <4>2
        <4> QED BY <2>a, <4>1, <4>2
      <3>2. \A s \in Sids : \A i, j \in DOMAIN waiting'[s] :
               waiting'[s][i] = waiting'[s][j] => i = j
        BY <2>a DEF Distinct
      <3> QED BY <3>1, <3>2
    <2>4. WokenOnce'
      <3> SUFFICES ASSUME NEW u \in Threads, pc'[u] = "signal_state"
                   PROVE  /\ tid'[u] \in Threads /\ Asleep(tid[u], sem[tid[u]])'
                          /\ \A s \in Sids : \A i \in DOMAIN waiting'[s] :
                                waiting'[s][i] # tid'[u]
                          /\ \A v \in Threads \ {u} :
                                pc'[v] = "signal_state" => tid'[v] # tid'[u]
        OBVIOUS
      <3>0. /\ pc' = [pc EXCEPT ![t] = "wait_yield"] /\ pc \in [Threads -> Labels]
            /\ tid' = tid /\ sem' = sem /\ state' = state
        BY <1>10 DEF wait_enqueue, TypeOK
      <3>1. pc[u] = "signal_state" /\ tid[u] \in Threads /\ tid[u] # t
        <4>1. pc[u] = "signal_state"
          BY <3>0
        <4> QED BY <2>1, <4>1
      <3>2. \A s \in Sids : \A i \in DOMAIN waiting'[s] : waiting'[s][i] # tid'[u]
        BY <2>a, <3>0, <3>1
      <3> QED BY <3>0, <3>1, <3>2
    <2>5. /\ pc' = [pc EXCEPT ![t] = "wait_yield"] /\ pc \in [Threads -> Labels]
          /\ UNCHANGED <<state, cur, lost, sid_ptr, sem>>
      BY <1>10 DEF wait_enqueue, TypeOK
    <2>6. ASSUME NEW u \in Threads
          PROVE  /\ pc'[u] \in {"wait_sid_ptr", "wait_enqueue"} => state'[u] = "WAIT"
                 /\ pc'[u] = "wait_enqueue" => sid_ptr'[u] = sem'[u]
      BY <2>5
    <2>7. ~lost' /\ pc'[cur'] = "wait_return" => state'[cur'] = "RUNNABLE"
      BY <2>1, <2>5
    <2> HIDE DEF QueuedThreadsSleep, WokenOnce
    <2> QED BY <2>3, <2>4, <2>6, <2>7
  <1>11. ASSUME NEW t \in Threads, wait_queue_full(t)
        PROVE  Sound
    BY <1>11, <1>w DEF wait_queue_full, TypeOK
  <1>12. ASSUME NEW t \in Threads, wait_yield(t)
        PROVE  Sound
    <2>1. ~lost' => state[cur'] = "RUNNABLE"
      BY <1>12, SchedulerResult DEF wait_yield
    <2> QED BY SMTT(30), <1>12, <1>w, <2>1 DEF wait_yield, TypeOK
  <1>13. ASSUME NEW t \in Threads, wait_return(t)
        PROVE  Sound
    BY <1>13, <1>w DEF wait_return, TypeOK
  <1>14. ASSUME NEW t \in Threads, NEW s \in Sids, signal_dequeues(t, s)
        PROVE  Sound
    <2> DEFINE h == Head(waiting[s])
    <2>1. /\ waiting[s] \in Seq(Threads) /\ waiting[s] # <<>> /\ Distinct(waiting[s])
          /\ waiting' = [waiting EXCEPT ![s] = Tail(waiting[s])]
          /\ cur = t /\ pc[t] = "idle" /\ tid' = [tid EXCEPT ![t] = h]
      <3>1. /\ waiting[s] # <<>> /\ tid' = [tid EXCEPT ![t] = h]
            /\ waiting' = [waiting EXCEPT ![s] = Tail(waiting[s])]
        BY <1>14, DequeueWakes
      <3>2. cur = t /\ pc[t] = "idle"
        BY <1>14 DEF signal_dequeues
      <3> QED BY <1>d, <3>1, <3>2
    <2>2. 1 \in DOMAIN waiting[s] /\ h = waiting[s][1]
      BY <2>1, TailOld
    <2>3. /\ h \in Threads /\ Asleep(h, s) /\ h # t
      BY <2>1, <2>2
    <2>4. ASSUME NEW r \in Sids
          PROVE  /\ Distinct(waiting'[r])
                 /\ \A i \in DOMAIN waiting'[r] :
                       /\ waiting'[r][i] # h
                       /\ \E j \in DOMAIN waiting[r] : waiting'[r][i] = waiting[r][j]
      <3>1. CASE r # s
        <4>1. waiting'[r] = waiting[r]
          BY <2>1, <3>1 DEF TypeOK
        <4>2. \A i \in DOMAIN waiting[r] : waiting[r][i] # h
          BY <2>3, <3>1
        <4> QED BY <4>1, <4>2 DEF Distinct
      <3>2. CASE r = s
        <4>1. waiting'[r] = Tail(waiting[s])
          BY <2>1, <3>2 DEF TypeOK
        <4>2. /\ Distinct(Tail(waiting[s]))
              /\ \A i \in DOMAIN Tail(waiting[s]) :
                    /\ i + 1 \in DOMAIN waiting[s]
                    /\ Tail(waiting[s])[i] = waiting[s][i + 1]
                    /\ Tail(waiting[s])[i] # h
          BY <2>1, TailOld
        <4> QED BY <3>2, <4>1, <4>2
      <3> QED BY <3>1, <3>2
    <2>5. QueuedThreadsSleep'
      <3>1. ASSUME NEW x \in Threads, NEW r \in Sids, Asleep(x, r)
            PROVE  Asleep(x, r)'
        BY <1>14, <2>1, <3>1 DEF signal_dequeues, TypeOK
      <3>2. sid_ptr' = sid_ptr
        BY <1>14 DEF signal_dequeues
      <3> SUFFICES ASSUME NEW r \in Sids, NEW i \in DOMAIN waiting'[r]
                   PROVE  /\ waiting'[r][i] \in Threads /\ Asleep(waiting[r][i], r)'
                          /\ sid_ptr'[waiting'[r][i]] = r
                          /\ \A j \in DOMAIN waiting'[r] :
                                waiting'[r][i] = waiting'[r][j] => i = j
        OBVIOUS
      <3>3. PICK j \in DOMAIN waiting[r] : waiting'[r][i] = waiting[r][j]
        BY <2>4
      <3>4. waiting[r][j] \in Threads /\ Asleep(waiting[r][j], r)
        <4>1. waiting[r] \in Seq(Threads)
          BY DEF TypeOK
        <4>2. waiting[r][j] \in Threads
          BY <3>3, <4>1, ElementOfSeq
        <4>3. QueuedThreadsSleep
          OBVIOUS
        <4> QED BY <4>2, <4>3
      <3>5. Asleep(waiting[r][i], r)'
        <4> DEFINE x == waiting[r][j]
        <4>1. Asleep(x, r) /\ x \in Threads
          BY <3>4
        <4>2. x # t
          BY <2>1, <4>1
        <4>3. /\ pc' = [pc EXCEPT ![t] = "signal_state"]
              /\ sem' = [sem EXCEPT ![t] = s] /\ state' = state
          BY <1>14 DEF signal_dequeues
        <4>4. state'[x] = state[x] /\ pc'[x] = pc[x] /\ sem'[x] = sem[x]
          BY <1>t, <4>1, <4>2, <4>3
        <4> QED BY <3>3, <4>1, <4>4
      <3>6. sid_ptr'[waiting'[r][i]] = r
        BY <3>2, <3>3
      <3> QED BY <2>4, <3>5, <3>6 DEF Distinct
    <2>6. WokenOnce'
      <3>1. /\ tid' = [tid EXCEPT ![t] = h] /\ pc' = [pc EXCEPT ![t] = "signal_state"]
            /\ sem' = [sem EXCEPT ![t] = s] /\ state' = state
        BY <1>14, <2>1 DEF signal_dequeues
      <3>2. \A u \in Threads \ {t} : pc[u] = "signal_state" => tid[u] # h
        BY <2>2
      <3> SUFFICES ASSUME NEW u \in Threads, pc'[u] = "signal_state"
                   PROVE  /\ tid'[u] \in Threads /\ Asleep(tid[u], sem[tid[u]])'
                          /\ \A r \in Sids : \A i \in DOMAIN waiting'[r] :
                                waiting'[r][i] # tid'[u]
                          /\ \A v \in Threads \ {u} :
                                pc'[v] = "signal_state" => tid'[v] # tid'[u]
        OBVIOUS
      <3>3. CASE u = t
        <4>1. tid'[u] = h
          BY <1>t, <3>1, <3>3
        <4>2. Asleep(tid[u], sem[tid[u]])'
          BY <1>t, <2>3, <3>1, <4>1
        <4>3. \A v \in Threads \ {u} : pc'[v] = "signal_state" => tid'[v] # h
          BY <1>t, <3>1, <3>2, <3>3
        <4> QED BY <2>3, <2>4, <4>1, <4>2, <4>3
      <3>4. CASE u # t
        <4>0. pc[u] = "signal_state" /\ tid'[u] = tid[u]
          BY <1>t, <3>1, <3>4
        <4>1. /\ pc[u] = "signal_state" /\ tid'[u] = tid[u]
              /\ tid[u] \in Threads /\ tid[u] # t /\ tid[u] # h
          BY <2>1, <3>2, <3>4, <4>0
        <4>2. Asleep(tid[u], sem[tid[u]])'
          BY <1>t, <3>1, <4>1
        <4>3. \A r \in Sids : \A i \in DOMAIN waiting'[r] : waiting'[r][i] # tid'[u]
          BY <2>4, <4>1
        <4>4. \A v \in Threads \ {u} : pc'[v] = "signal_state" => tid'[v] # tid'[u]
          BY SMTT(30), <1>t, <3>1, <4>1
        <4> QED BY <4>1, <4>2, <4>3, <4>4
      <3> QED BY <3>3, <3>4
    <2>7. /\ \A u \in Threads : u # t => pc'[u] = pc[u] /\ sem'[u] = sem[u]
          /\ pc'[t] = "signal_state" /\ cur' = cur
          /\ state' = state /\ sid_ptr' = sid_ptr
      BY <1>14 DEF signal_dequeues, TypeOK
    <2> HIDE DEF QueuedThreadsSleep, WokenOnce
    <2> QED BY <2>1, <2>5, <2>6, <2>7
  <1>15. ASSUME NEW t \in Threads, NEW s \in Sids, signal_finds_nobody(t, s)
        PROVE  Sound
    BY <1>15, <1>w DEF signal_finds_nobody, TypeOK
  <1>16. ASSUME NEW t \in Threads, signal_state(t)
        PROVE  Sound
    <2> DEFINE h == tid[t]
    <2>1. /\ pc[t] = "signal_state" /\ cur = t /\ cur' = cur /\ h \in Threads
          /\ pc' = [pc EXCEPT ![t] = "signal_yield"] /\ pc \in [Threads -> Labels]
          /\ state' = [state EXCEPT ![h] = "RUNNABLE"]
          /\ UNCHANGED <<waiting, sid_ptr, sem, tid>>
      BY <1>16, <1>w DEF signal_state, TypeOK
    <2>2. /\ Asleep(h, sem[h])
          /\ \A r \in Sids : \A i \in DOMAIN waiting[r] : waiting[r][i] # h
          /\ \A u \in Threads \ {t} : pc[u] = "signal_state" => tid[u] # h
      BY <2>1
    <2>3. ASSUME NEW x \in Threads, x # h
          PROVE  state'[x] = state[x]
      BY <2>1, <2>3 DEF TypeOK
    <2>4. ASSUME NEW x \in Threads, x # t
          PROVE  pc'[x] = pc[x]
      BY <2>1, <2>4
    <2>5. ASSUME NEW x \in Threads, NEW r, Asleep(x, r), x # h
          PROVE  Asleep(x, r)'
      <3>1. x # t
        BY <2>1, <2>5
      <3> QED BY <2>1, <2>3, <2>4, <2>5, <3>1
    <2>6. QueuedThreadsSleep'
      <3> SUFFICES ASSUME NEW r \in Sids, NEW i \in DOMAIN waiting[r]
                   PROVE  Asleep(waiting[r][i], r)'
        BY <2>1
      <3>1. waiting[r][i] \in Threads /\ Asleep(waiting[r][i], r)
        BY DEF TypeOK
      <3>2. waiting' = waiting
        BY <2>1
      <3> HIDE DEF Asleep
      <3> QED BY <2>2, <2>5, <3>1, <3>2 DEF Asleep
    <2>7. WokenOnce'
      <3> SUFFICES ASSUME NEW u \in Threads, pc'[u] = "signal_state"
                   PROVE  /\ tid'[u] \in Threads /\ Asleep(tid[u], sem[tid[u]])'
                          /\ \A r \in Sids : \A i \in DOMAIN waiting'[r] :
                                waiting'[r][i] # tid'[u]
                          /\ \A v \in Threads \ {u} :
                                pc'[v] = "signal_state" => tid'[v] # tid'[u]
        OBVIOUS
      <3>1. u # t /\ pc[u] = "signal_state"
        BY <2>1
      <3>2. Asleep(tid[u], sem[tid[u]]) /\ tid[u] \in Threads /\ tid[u] # h
        BY <2>2, <3>1 DEF TypeOK
      <3>3. Asleep(tid[u], sem[tid[u]])'
        BY <2>1, <2>5, <3>2
      <3>4. \A v \in Threads \ {u} : pc'[v] = "signal_state" => tid'[v] # tid'[u]
        BY <2>1, <2>4, <3>1
      <3> QED BY <2>1, <3>1, <3>3, <3>4
    <2> HIDE DEF QueuedThreadsSleep, WokenOnce
    <2>8. /\ pc'[t] = "signal_yield"
          /\ \A u \in Threads : pc'[u] \in {"wait_sid_ptr", "wait_enqueue"} =>
                 pc[u] = pc'[u] /\ state'[u] = "WAIT"
      BY <2>1, <2>2, <2>3, <2>4
    <2> QED BY <2>1, <2>6, <2>7, <2>8
  <1>b. ASSUME NEW t \in Threads, signal_state_astray(t)
        PROVE  FALSE
    BY <1>b DEF signal_state_astray, None, Threads
  <1>17. ASSUME NEW t \in Threads, signal_yield(t)
        PROVE  Sound
    <2>1. ~lost' => state[cur'] = "RUNNABLE"
      BY <1>17, SchedulerResult DEF signal_yield
    <2> QED BY <1>17, <1>w, <2>1 DEF signal_yield, TypeOK
  <1>18. CASE UNCHANGED vars
    BY <1>18, <1>w DEF vars
  <1> QED
    BY <1>1, <1>2, <1>3, <1>4, <1>5, <1>6, <1>7, <1>8, <1>9, <1>10, <1>11, <1>12, <1>13, <1>14, <1>15, <1>16, <1>17, <1>18, <1>b
       DEF Next, Call, Continue, signal_does_nothing, delete_sem

\* Every step keeps the inductive invariant.
LEMMA NextSemaphore ==
    ASSUME SemaphoreInv, [Next]_vars
    PROVE  SemaphoreInv'
  <1>1. TypeOK /\ TypeOK'
    BY NextTypes DEF SemaphoreInv
  <1>2. CASE early'
    BY <1>1, <1>2 DEF SemaphoreInv, QueuedThreadsSleep, WokenOnce
  <1>3. CASE ~early'
    <2>1. ~early
      BY <1>1, <1>3, UseIsSeen
    <2>2. CreatedEmpty'
      BY <1>1, <1>3, <2>1, NextCreated DEF SemaphoreInv
    <2> QED BY <1>1, <1>3, <2>2, NextSound DEF SemaphoreInv
  <1> QED BY <1>2, <1>3

\* For every number of threads, semaphores and places in a queue, and as long as
\* no semaphore is used before its creation is over, whoever is in a waiting queue
\* sleeps there and in no other (wait, signal, enqueue_sem, dequeue_sem).
THEOREM QueuesHoldSleepers == Spec => []QueuedThreadsSleep
  <1>1. SemaphoreInv /\ [Next]_vars => SemaphoreInv'
    BY NextSemaphore
  <1>2. SemaphoreInv => QueuedThreadsSleep
    BY DEF SemaphoreInv
  <1> QED BY InitSemaphore, <1>1, <1>2, PTL DEF Spec

\* For every number of threads, semaphores and places in a queue, and however many
\* threads create semaphores at once as long as none is used before its creation is
\* over: no two signals wake the same sleep, none wakes a thread that is not asleep,
\* and none dequeues one of the -1 that create_sem stores (signal, create_sem).
THEOREM SleepersAreWokenOnce == Spec => []WokenOnce
  <1>1. SemaphoreInv /\ [Next]_vars => SemaphoreInv'
    BY NextSemaphore
  <1>2. SemaphoreInv => WokenOnce
    BY DEF SemaphoreInv
  <1> QED BY InitSemaphore, <1>1, <1>2, PTL DEF Spec

-----------------------------------------------------------------------------
(* The lock *)

\* Who leaves the queues alone changes nobody's place.
LEMMA QuietQueue == semqueue' = semqueue => waiting' = waiting
  BY DEF waiting

LEMMA NoneIsNoSid == None \notin Sids
  BY SemAssumption DEF None, Sids

\* Threads that share a lock call nothing but what Semaphore.tla models.
LEMMA LockStepIsStep == [LockNext]_lockingVars => [Next]_vars
  <1> SUFFICES ASSUME [LockNext]_lockingVars PROVE [Next]_vars
    OBVIOUS
  <1>1. CASE UNCHANGED lockingVars
    BY <1>1 DEF lockingVars
  <1>2. CASE Timer
    BY <1>2 DEF Timer, Next
  <1>3. ASSUME NEW t \in Threads, Create(t) PROVE Next
    BY <1>3, LockCountAssumption DEF Create, Next, Call
  <1>4. ASSUME NEW t \in Threads, Created(t) \/ Entered(t) \/ Proceed(t) PROVE Next
    BY <1>4 DEF Created, Entered, Proceed, Next, Continue
  <1>5. ASSUME NEW t \in Threads, Enter(t) \/ Queue(t) \/ Leave(t) PROVE Next
    <2>1. lock \in Sids
      BY <1>5 DEF Enter, Queue, Leave, wait_passes, wait_blocks, signal_dequeues,
                  signal_finds_nobody, signal_does_nothing, Usable
    <2> QED BY <1>5, <2>1 DEF Enter, Queue, Leave, Next, Call
  <1>6. ASSUME NEW t \in Threads, Delete(t) PROVE Next
    BY <1>6 DEF Delete, Next, Call
  <1> QED BY <1>1, <1>2, <1>3, <1>4, <1>5, <1>6 DEF LockNext

-----------------------------------------------------------------------------
\* A step that leaves the queue of the lock alone, and of whom it concerns
\* changes neither whether he is inside wait nor on what, changes nobody's
\* being granted the lock.
LEMMA SameGranted ==
    ASSUME lock' = lock, waiting'[lock] = waiting[lock],
           \A u \in Threads :
              \/ pc'[u] = pc[u] /\ sem'[u] = sem[u]
              \/ /\ pc[u] \notin {"wait_yield", "wait_return"}
                 /\ pc'[u] \notin {"wait_yield", "wait_return"}
              \/ /\ pc[u] \in {"wait_yield", "wait_return"}
                 /\ pc'[u] \in {"wait_yield", "wait_return"}
                 /\ sem'[u] = sem[u]
    PROVE  Granted' = Granted
  BY DEF Granted, InQueue

\* Nobody uses a semaphore while it is created: Creator alone creates the lock, and
\* nobody calls wait or signal before.
LEMMA NobodyIsEarly ==
    ASSUME LockInv, [LockNext]_lockingVars
    PROVE  ~early'
  <1>1. TypeOK /\ ~early
    BY DEF LockInv, SemaphoreInv
  <1>2. ASSUME NEW t \in Threads, Enter(t) \/ Queue(t) \/ Leave(t)
        PROVE  early' = early
    <2>1. lock \in Sids
      BY <1>2 DEF Enter, Queue, Leave, wait_passes, wait_blocks, signal_dequeues,
                  signal_finds_nobody, signal_does_nothing, Usable
    <2>2. ~BeingCreated(lock)
      BY <2>1, NoneIsNoSid DEF LockInv, Born, BeingCreated, Creating
    <2>3. \/ early' = early
          \/ early' = (early \/ BeingCreated(lock))
      BY <1>2 DEF Enter, Queue, Leave, wait_passes, wait_blocks, signal_dequeues,
                  signal_finds_nobody, signal_does_nothing, Uses, vars
    <2> QED BY <1>1, <2>2, <2>3 DEF TypeOK
  <1>3. ASSUME NEW t \in Threads, Create(t) \/ Created(t) \/ Entered(t) \/ Delete(t)
        PROVE  early' = early
    BY <1>3 DEF Create, Created, Entered, Delete, create_sem, create_num, wait_return,
                delete_sem, vars
  <1>4. ASSUME NEW t \in Threads, Proceed(t)
        PROVE  early' = early
    <2>1. CASE newsem(t) \/ create_count(t) \/ create_cell(t) \/ create_head(t)
      BY <2>1 DEF newsem, create_count, create_cell, create_head
    <2>2. CASE wait_state(t) \/ wait_sid_ptr(t) \/ wait_enqueue(t) \/ wait_queue_full(t)
      BY <2>2 DEF wait_state, wait_sid_ptr, wait_enqueue, wait_queue_full
    <2>3. CASE wait_yield(t) \/ signal_state(t) \/ signal_yield(t)
      BY <2>3 DEF wait_yield, signal_state, signal_yield
    <2> QED BY <1>4, <2>1, <2>2, <2>3 DEF Proceed
  <1>5. CASE Timer \/ UNCHANGED lockingVars
    BY <1>1, <1>5 DEF Timer, Preempt, lockingVars, vars
  <1> QED BY <1>1, <1>2, <1>3, <1>4, <1>5 DEF LockNext

LEMMA InitLock == LockInit => LockInv /\ Fifo!Init
  <1> SUFFICES ASSUME LockInit PROVE LockInv /\ Fifo!Init
    OBVIOUS
  <1>1. SemaphoreInv
    BY InitSemaphore DEF LockInit
  <1>2. Unborn
    BY CreatorAssumption DEF LockInit, Init, Unborn
  <1>3. Granted = {}
    BY DEF LockInit, Init, Granted
  <1> QED BY <1>1, <1>2, <1>3 DEF LockInit, Init, LockInv, Fifo!Init, Line

\* Before the lock is there, the steps of its creation change nothing that
\* matters to a lock, and the last of them opens it.
LEMMA UnbornStep ==
    ASSUME SemaphoreInv, ~early, lock = None, Unborn, LockNext
    PROVE  /\ (lock' = None /\ Unborn') \/ Born'
           /\ Fifo!Next \/ UNCHANGED Fifo!lockVars
  <1> DEFINE W == {"wait_yield", "wait_return"}
             Still == lock' = None /\ holder' = {} /\ \A t \in Threads : pc'[t] \notin W
  <1>0. /\ TypeOK /\ Creator \in Threads /\ None \notin Sids
        /\ pc \in [Threads -> Labels] /\ sem \in [Threads -> Sids \cup {None}]
        /\ Granted = {} /\ Line = <<>> /\ holder = {}
    BY NoneIsNoSid, CreatorAssumption DEF SemaphoreInv, TypeOK, Unborn, Creating, Granted, Line
  <1>1. Still => UNCHANGED Fifo!lockVars
    BY <1>0 DEF Fifo!lockVars, Granted, Line
  <1>2. CASE Timer
    <2>1. Unborn' /\ Still
      BY <1>0, <1>2 DEF Timer, Preempt, Unborn, Creating, table, locals
    <2> QED BY <1>1, <2>1
  <1>3. ASSUME NEW t \in Threads, Create(t)
        PROVE  Unborn' /\ Still
    BY <1>0, <1>3 DEF Create, create_sem, Ready, At, Goto, Unborn, Creating, TypeOK
  <1>4. ASSUME NEW t \in Threads,
               newsem(t) \/ create_count(t) \/ create_cell(t) \/ create_head(t),
               UNCHANGED <<lock, holder>>
        PROVE  Unborn' /\ Still
    <2>1. CASE newsem(t)
      <3>1. /\ t = Creator /\ count[t] = 1
            /\ pc' = [pc EXCEPT ![t] = "create_count"] /\ UNCHANGED <<sem, count>>
        BY <1>0, <2>1 DEF newsem, At, Goto, Unborn, locals
      <3> QED BY <1>0, <1>4, <3>1 DEF Unborn, Creating
    <2>2. CASE create_count(t)
      <3>1. /\ t = Creator /\ count[t] = 1 /\ sem[t] \in Sids
            /\ pc' = [pc EXCEPT ![t] = "create_cell"] /\ UNCHANGED <<sem, count>>
            /\ semcount' = [semcount EXCEPT ![sem[t]] = count[t]]
        BY <1>0, <2>2 DEF create_count, At, Goto, Unborn, locals, TypeOK
      <3>2. semcount'[sem'[t]] = 1
        BY <1>0, <3>1 DEF TypeOK
      <3> QED BY <1>0, <1>4, <3>1, <3>2 DEF Unborn, Creating
    <2>3. CASE create_cell(t) \/ create_head(t)
      <3>1. /\ t = Creator /\ semcount[sem[t]] = 1 /\ UNCHANGED <<sem, count, semcount>>
            /\ \/ pc' = [pc EXCEPT ![t] = "create_cell"]
               \/ pc' = [pc EXCEPT ![t] = "create_head"]
               \/ pc' = [pc EXCEPT ![t] = "create_num"]
        BY <1>0, <2>3 DEF create_cell, create_head, At, Goto, Unborn, locals
      <3> QED BY <1>0, <1>4, <3>1 DEF Unborn, Creating
    <2> QED BY <1>4, <2>1, <2>2, <2>3
  <1>5. ASSUME NEW t \in Threads, Created(t)
        PROVE  Born' /\ Fifo!Open
    <2>1. /\ t = Creator /\ pc[t] = "create_num" /\ sem[t] \in Sids
          /\ lock' = sem[t] /\ holder' = {}
          /\ pc' = [pc EXCEPT ![t] = "idle"] /\ sem' = [sem EXCEPT ![t] = None]
          /\ semcount' = semcount /\ semcount[sem[t]] = 1
      BY <1>0, <1>5 DEF Created, create_num, At, Return, Goto, Unborn, TypeOK
    <2>2. waiting'[lock'] = <<>>
      <3>1. create_num(t) /\ CreatedEmpty /\ TypeOK'
        BY <1>0, <1>5, NextTypes DEF Created, SemaphoreInv, Next, Continue
      <3>2. waiting' = waiting
        BY <1>0, <3>1, CreationWakesNobody
      <3>3. semqueue[sem[t]].num = 0 /\ semqueue[sem[t]] \in queue_sem
        BY <1>0, <2>1, <3>1 DEF CreatedEmpty, BeingCreated, Creating, TypeOK
      <3>4. waiting[sem[t]] = <<>>
        BY <2>1, <3>3, ContentsSeq DEF waiting
      <3> QED BY <2>1, <3>2, <3>4
    <2>3. \A u \in Threads : pc'[u] = "idle"
      BY <1>0, <2>1 DEF Unborn
    <2>4. Granted' = {}
      BY <2>3 DEF Granted
    <2>5. Born'
      BY <1>0, <2>1, <2>2, <2>3, <2>4 DEF Born
    <2>6. Line' = <<>>
      BY <1>0, <2>1, <2>2 DEF Line
    <2> QED BY <1>0, <2>1, <2>4, <2>5, <2>6 DEF Fifo!Open
  <1>6. ASSUME NEW t \in Threads, Enter(t) \/ Queue(t) \/ Leave(t)
        PROVE  FALSE
    BY <1>0, <1>6 DEF Enter, Queue, Leave, wait_passes, wait_blocks, Usable
  <1>7. ASSUME NEW t \in Threads, pc[t] \notin Creating \cup {"idle"}
        PROVE  FALSE
    BY <1>7 DEF Unborn
  <1>8. ASSUME NEW t \in Threads, Delete(t)
        PROVE  Unborn' /\ Still
    BY <1>0, <1>8 DEF Delete, delete_sem, vars, table, locals, Unborn, Creating
  <1>9. ASSUME NEW t \in Threads, Entered(t)
        PROVE  FALSE
    BY <1>7, <1>9 DEF Entered, wait_return, At, Creating
  <1>10. ASSUME NEW t \in Threads, Proceed(t)
         PROVE  Unborn' /\ Still
    <2>1. CASE newsem(t) \/ create_count(t) \/ create_cell(t) \/ create_head(t)
      BY <1>4, <1>10, <2>1 DEF Proceed
    <2> QED BY <1>7, <1>10, <2>1 DEF Proceed, Creating, At, wait_state, wait_sid_ptr,
               wait_enqueue, wait_queue_full, wait_yield, signal_state, signal_yield
  <1> QED
    BY <1>1, <1>2, <1>3, <1>5, <1>6, <1>8, <1>9, <1>10 DEF LockNext, Fifo!Next
-----------------------------------------------------------------------------
\* What Born says of one thread.
LEMMA BornFacts ==
    ASSUME SemaphoreInv, ~early, Born
    PROVE  /\ lock \in Sids /\ lock # None /\ Line = waiting[lock]
           /\ semcount[lock] \in Int /\ semcount[lock] <= 1
           /\ waiting[lock] \in Seq(Threads) /\ Distinct(waiting[lock])
           /\ pc \in [Threads -> Labels] /\ sem \in [Threads -> Sids \cup {None}]
           /\ Granted \subseteq Threads /\ holder \subseteq Threads
           /\ \A t \in holder : pc[t] = "idle"
           /\ \A t \in Granted : pc[t] \in {"wait_yield", "wait_return"}
           /\ \A t, u \in holder \cup Granted : t = u
  <1>1. /\ TypeOK /\ QueuedThreadsSleep /\ waiting \in [Sids -> Seq(Threads)]
        /\ None \notin Sids /\ lock \in Sids
    BY WaitingSeq, NoneIsNoSid DEF SemaphoreInv, Born
  <1>2. Distinct(waiting[lock]) /\ Line = waiting[lock]
    BY <1>1 DEF QueuedThreadsSleep, Distinct, Line
  <1>3. waiting[lock] \in Seq(Threads)
    BY <1>1
  <1> HIDE DEF Distinct
  <1> QED BY <1>1, <1>2, <1>3 DEF TypeOK, Born, Granted

\* A call under way goes on, but does not enter the queue or return from wait.
LEMMA BornQuietStep ==
    ASSUME SemaphoreInv, ~early, Born, NEW t \in Threads,
           pc[t] # "idle", UNCHANGED <<lock, holder, semcount, waiting>>,
           \/ /\ sem' = sem
              /\ \/ /\ pc[t] \in {"wait_state", "wait_sid_ptr"}
                    /\ pc' \in {[pc EXCEPT ![t] = "wait_sid_ptr"],
                               [pc EXCEPT ![t] = "wait_enqueue"]}
                 \/ /\ pc[t] = "wait_yield"
                    /\ pc' = [pc EXCEPT ![t] = "wait_return"]
                 \/ /\ pc[t] = "signal_state"
                    /\ pc' = [pc EXCEPT ![t] = "signal_yield"]
           \/ /\ pc[t] \in {"wait_enqueue", "signal_yield"}
              /\ pc' = [pc EXCEPT ![t] = "idle"]
              /\ sem' = [sem EXCEPT ![t] = None]
    PROVE  Born' /\ UNCHANGED Fifo!lockVars
  <1> DEFINE W == {"wait_yield", "wait_return"}
  <1>1. \A u \in Threads : u # t => pc'[u] = pc[u] /\ sem'[u] = sem[u]
    BY BornFacts
  <1>2. \/ pc[t] \notin W /\ pc'[t] \notin W
        \/ pc[t] \in W /\ pc'[t] \in W /\ sem'[t] = sem[t]
    BY BornFacts
  <1>3. Granted' = Granted
    BY <1>1, <1>2, SameGranted
  <1>4. pc'[t] # "idle" => pc'[t] \notin Creating /\ sem'[t] = sem[t]
    BY BornFacts DEF Creating
  <1>5. /\ t \notin holder
        /\ ~(semcount[lock] > 0)
    BY BornFacts DEF Born
  <1>6. Born'
    BY <1>1, <1>3, <1>4, <1>5 DEF Born
  <1> QED BY <1>3, <1>6 DEF Fifo!lockVars, Line

\* wait(lock) by a thread that does not have it.
LEMMA BornCallStep ==
    ASSUME SemaphoreInv, ~early, Born, NEW t \in Threads, Enter(t) \/ Queue(t)
    PROVE  Born' /\ (Fifo!Take(t) \/ UNCHANGED Fifo!lockVars)
  <1>1. CASE Enter(t)
    <2>1. /\ semcount[lock] = 1
          /\ semcount' = [semcount EXCEPT ![lock] = semcount[lock] - 1]
          /\ UNCHANGED <<lock, waiting, pc, sem>> /\ holder' = holder \cup {t}
      BY <1>1, BornFacts, QuietQueue DEF Enter, wait_passes, locals
    <2>2. semcount'[lock] = 0
      BY <2>1, BornFacts DEF SemaphoreInv, TypeOK
    <2>3. holder = {} /\ \A u \in Threads : pc[u] = "idle"
      BY <2>1 DEF Born
    <2>4. Granted = {} /\ Granted' = {}
      BY <2>1, <2>3 DEF Granted
    <2>5. Born'
      BY <2>1, <2>2, <2>3, <2>4 DEF Born
    <2> QED BY <2>1, <2>2, <2>3, <2>4, <2>5, BornFacts DEF Fifo!Take, Line
  <1>2. CASE Queue(t)
    <2>1. /\ semcount[lock] <= 0 /\ pc[t] = "idle" /\ t \notin holder
          /\ semcount' = [semcount EXCEPT ![lock] = semcount[lock] - 1]
          /\ UNCHANGED <<lock, holder, waiting>>
          /\ pc' = [pc EXCEPT ![t] = "wait_state"] /\ sem' = [sem EXCEPT ![t] = lock]
      BY <1>2, BornFacts, QuietQueue DEF Queue, wait_blocks, Ready, At, Goto
    <2>2. semcount'[lock] < 0
      BY <2>1, BornFacts DEF SemaphoreInv, TypeOK
    <2>3. \A u \in Threads : u # t => pc'[u] = pc[u] /\ sem'[u] = sem[u]
      BY <2>1, BornFacts
    <2>4. pc'[t] = "wait_state" /\ sem'[t] = lock
      BY <2>1, BornFacts
    <2>5. Granted' = Granted
      BY <2>1, <2>3, <2>4, SameGranted
    <2>6. Born'
      BY <2>1, <2>2, <2>3, <2>4, <2>5, BornFacts DEF Born, Creating
    <2> QED BY <2>1, <2>2, <2>5, <2>6, BornFacts DEF Fifo!lockVars, Line
  <1> QED BY <1>1, <1>2

\* A thread takes its place in the queue.
LEMMA BornEnqueueStep ==
    ASSUME SemaphoreInv, ~early, Born, NEW t \in Threads,
           wait_enqueue(t), UNCHANGED <<lock, holder>>
    PROVE  Born' /\ Fifo!Join(t)
  <1> DEFINE q == waiting[lock]
  <1>1. /\ pc[t] = "wait_enqueue" /\ sem[t] = lock
        /\ pc' = [pc EXCEPT ![t] = "wait_yield"] /\ UNCHANGED <<semcount, sem>>
    BY BornFacts DEF wait_enqueue, At, Goto, locals, Born
  <1>2. waiting'[lock] = Append(q, t) /\ q \in Seq(Threads)
    <2>1. waiting' = [waiting EXCEPT ![lock] = Append(q, t)]
      BY <1>1, EnqueueWaits DEF SemaphoreInv
    <2>2. waiting \in [Sids -> Seq(Threads)]
      BY WaitingSeq DEF SemaphoreInv
    <2> HIDE DEF q
    <2> QED BY <2>1, <2>2, BornFacts DEF q
  <1>3. /\ DOMAIN q = 1..Len(q) /\ Len(q) \in Nat
        /\ DOMAIN Append(q, t) = 1..(Len(q) + 1)
        /\ \A i \in 1..Len(q) : Append(q, t)[i] = q[i]
        /\ Append(q, t)[Len(q) + 1] = t
    BY <1>2, AppendProperties, LenProperties
  <1>4. InQueue(t, lock)'
    BY <1>1, <1>2, <1>3 DEF InQueue
  <1>5. ASSUME NEW u \in Threads, u # t
        PROVE  InQueue(u, lock)' <=> InQueue(u, lock)
    <2>1. ASSUME NEW i \in DOMAIN Append(q, t), Append(q, t)[i] = u
          PROVE  i \in DOMAIN q /\ q[i] = u
      BY <1>3, <1>5, <2>1
    <2>2. ASSUME NEW i \in DOMAIN q, q[i] = u
          PROVE  i \in DOMAIN Append(q, t) /\ Append(q, t)[i] = u
      BY <1>3, <2>2
    <2> QED BY <1>2, <2>1, <2>2 DEF InQueue
  <1>6. \A u \in Threads : u # t => pc'[u] = pc[u] /\ sem'[u] = sem[u]
    BY <1>1, BornFacts
  <1>7. pc'[t] = "wait_yield" /\ sem'[t] = lock
    BY <1>1, BornFacts
  <1>8. Granted' = Granted
    <2>1. t \notin Granted /\ t \notin Granted'
      BY <1>1, <1>4 DEF Granted
    <2>2. \A u \in Threads : u # t => (u \in Granted <=> u \in Granted')
      BY <1>5, <1>6 DEF Granted
    <2> QED BY <2>1, <2>2 DEF Granted
  <1>9. t \notin holder /\ t \notin Granted /\ ~(semcount[lock] > 0)
    BY <1>1, BornFacts DEF Born
  <1>10. Born'
    BY <1>1, <1>6, <1>7, <1>8, <1>9 DEF Born, Creating
  <1> QED BY <1>1, <1>2, <1>8, <1>9, <1>10, BornFacts DEF Fifo!Join, Line

\* A thread that has been woken returns from wait.
LEMMA BornEnteredStep ==
    ASSUME SemaphoreInv, ~early, Born, NEW t \in Threads, Entered(t)
    PROVE  Born' /\ Fifo!Occupy(t)
  <1>1. /\ pc[t] = "wait_return" /\ sem[t] = lock /\ cur = t /\ ~lost
        /\ holder' = holder \cup {t}
        /\ pc' = [pc EXCEPT ![t] = "idle"] /\ sem' = [sem EXCEPT ![t] = None]
        /\ UNCHANGED <<lock, semcount, waiting>>
    BY BornFacts, QuietQueue DEF Entered, wait_return, At, Return, Goto, table, Born
  <1>2. ~InQueue(t, lock)
    BY <1>1, BornFacts DEF SemaphoreInv, SleepsFirst, QueuedThreadsSleep, Asleep, InQueue
  <1>3. t \in Granted
    BY <1>1, <1>2 DEF Granted
  <1>4. Granted = {t} /\ holder = {}
    BY <1>1, <1>3, BornFacts
  <1>5. \A u \in Threads : u # t => pc'[u] = pc[u] /\ sem'[u] = sem[u]
    BY <1>1, BornFacts
  <1>6. pc'[t] = "idle"
    BY <1>1, BornFacts
  <1>7. Granted' = {}
    BY <1>1, <1>4, <1>5, <1>6 DEF Granted, InQueue
  <1>8. ~(semcount[lock] > 0)
    BY <1>1 DEF Born
  <1>9. Born'
    BY <1>1, <1>4, <1>5, <1>6, <1>7, <1>8 DEF Born
  <1> QED BY <1>1, <1>4, <1>7, <1>9, BornFacts DEF Fifo!Occupy, Line

\* The thread that has the lock signals: the first in line is given it, if the
\* queue is not empty.
LEMMA BornLeaveStep ==
    ASSUME SemaphoreInv, ~early, Born, NEW t \in Threads, Leave(t)
    PROVE  Born' /\ Fifo!Release(t)
  <1>1. t \in holder /\ holder' = {} /\ lock' = lock /\ holder = {t} /\ Granted = {}
        /\ semcount[lock] <= 0 /\ pc[t] = "idle"
    BY BornFacts DEF Leave, Born
  <1>2. CASE signal_dequeues(t, lock)
    <2> DEFINE q == waiting[lock]
    <2>1. /\ q # <<>> /\ q \in Seq(Threads) /\ Distinct(q)
          /\ waiting' = [waiting EXCEPT ![lock] = Tail(q)]
          /\ semcount[lock] < 0
          /\ semcount' = [semcount EXCEPT ![lock] = semcount[lock] + 1]
          /\ pc' = [pc EXCEPT ![t] = "signal_state"] /\ sem' = [sem EXCEPT ![t] = lock]
      <3>1. q # <<>> /\ waiting' = [waiting EXCEPT ![lock] = Tail(q)]
        BY <1>2, BornFacts, DequeueWakes DEF SemaphoreInv
      <3>2. /\ semcount[lock] < 0
            /\ semcount' = [semcount EXCEPT ![lock] = semcount[lock] + 1]
            /\ pc' = [pc EXCEPT ![t] = "signal_state"] /\ sem' = [sem EXCEPT ![t] = lock]
        BY <1>2 DEF signal_dequeues, Goto
      <3> QED BY <3>1, <3>2, BornFacts
    <2>2. semcount'[lock] \in Int /\ semcount'[lock] <= 0 /\ waiting'[lock] = Tail(q)
      <3>1. waiting \in [Sids -> Seq(Threads)] /\ semcount \in [Sids -> Int]
        BY WaitingSeq DEF SemaphoreInv, TypeOK
      <3> HIDE DEF q
      <3> QED BY <2>1, <3>1, BornFacts DEF q
    <2>0. PICK h \in Threads : h = Head(q)
      BY <2>1, HeadTailProperties
    <2>3. /\ 1 \in DOMAIN q /\ h = q[1]
          /\ \A i \in DOMAIN Tail(q) : /\ i + 1 \in DOMAIN q
                                        /\ Tail(q)[i] = q[i + 1]
                                        /\ Tail(q)[i] # h
      BY <2>1, <2>0, TailOld
    <2>4. ASSUME NEW i \in DOMAIN q, i # 1
          PROVE  i - 1 \in DOMAIN Tail(q) /\ Tail(q)[i - 1] = q[i]
      <3>1. /\ DOMAIN q = 1..Len(q) /\ Len(q) \in Nat
            /\ Len(Tail(q)) = Len(q) - 1 /\ DOMAIN Tail(q) = 1..Len(Tail(q))
            /\ \A j \in 1..Len(Tail(q)) : Tail(q)[j] = q[j + 1]
        BY <2>1, HeadTailProperties, LenProperties
      <3> HIDE DEF q
      <3>2. i - 1 \in 1..Len(Tail(q)) /\ (i - 1) + 1 = i
        BY <2>4, <3>1
      <3> QED BY <3>1, <3>2
    <2>5. /\ h \in Threads /\ h # t /\ sem[h] = lock
          /\ pc[h] \in {"wait_yield", "wait_return"}
      BY SMTT(30), <1>1, <2>1, <2>3, BornFacts DEF SemaphoreInv, QueuedThreadsSleep, Asleep, TypeOK
    <2>6. \A u \in Threads : u # t => pc'[u] = pc[u] /\ sem'[u] = sem[u]
      BY <2>1, BornFacts
    <2>7. pc'[t] = "signal_state" /\ sem'[t] = lock
      BY <2>1, BornFacts
    <2>8. Granted' = {h}
      <3>0. \A x : InQueue(x, lock)' <=> \E i \in DOMAIN Tail(q) : Tail(q)[i] = x
        BY <1>1, <2>2 DEF InQueue
      <3>1. ~InQueue(h, lock)'
        BY <2>3, <3>0
      <3>2. h \in Granted'
        BY <1>1, <2>5, <2>6, <3>1 DEF Granted
      <3>3. ASSUME NEW u \in Granted' PROVE u = h
        <4>1. /\ u \in Threads /\ u # t /\ sem[u] = lock
              /\ pc[u] \in {"wait_yield", "wait_return"} /\ ~InQueue(u, lock)'
          BY <1>1, <2>6, <2>7 DEF Granted
        <4>2. InQueue(u, lock)
          BY <1>1, <4>1 DEF Granted
        <4>3. PICK i \in DOMAIN q : q[i] = u
          BY <4>2 DEF InQueue
        <4>4. i = 1
          BY <1>1, <2>2, <2>4, <4>1, <4>3 DEF InQueue
        <4> QED BY <2>3, <4>3, <4>4
      <3> QED BY <3>2, <3>3
    <2>9. Born'
      BY <1>1, <2>2, <2>6, <2>7, <2>8, BornFacts DEF Born, Creating
    <2>10. Line' = Tail(Line) /\ Line # <<>>
      BY <1>1, <2>1, <2>2, BornFacts DEF Line
    <2>11. UNCHANGED (lock # None /\ semcount[lock] > 0)
      BY <1>1, <2>2, BornFacts
    <2> QED BY <1>1, <2>8, <2>9, <2>10, <2>11, <2>0, BornFacts DEF Fifo!Release
  <1>3. CASE signal_finds_nobody(t, lock) \/ signal_does_nothing(t, lock)
    <2>1. /\ UNCHANGED <<waiting, pc, sem>>
          /\ semcount'[lock] \in Int /\ semcount'[lock] <= 0
      BY <1>1, <1>3, BornFacts, QuietQueue DEF signal_finds_nobody, signal_does_nothing, vars, table,
         locals, SemaphoreInv, TypeOK
    <2>2. Granted' = {}
      BY <1>1, <2>1 DEF Granted, InQueue
    <2>3. Born'
      BY <1>1, <2>1, <2>2 DEF Born
    <2> QED BY <1>1, <2>1, <2>2, <2>3, BornFacts DEF Fifo!Release, Line
  <1> QED BY <1>2, <1>3 DEF Leave
LEMMA BornStep ==
    ASSUME SemaphoreInv, ~early, Born, LockNext
    PROVE  Born' /\ (Fifo!Next \/ UNCHANGED Fifo!lockVars)
  <1>0. lock # None
    BY BornFacts
  <1>1. CASE Timer \/ \E t \in Threads : Delete(t)
    <2>1. UNCHANGED <<lock, holder, semcount, waiting, pc, sem>>
      BY <1>1, QuietQueue DEF Timer, Preempt, Delete, delete_sem, vars, table, locals
    <2>2. Granted' = Granted
      BY <2>1, SameGranted
    <2>3. Born'
      BY <2>1, <2>2 DEF Born
    <2> QED BY <2>1, <2>2, <2>3 DEF Fifo!lockVars, Line
  <1>2. ASSUME NEW t \in Threads, Create(t) \/ Created(t)
        PROVE  FALSE
    BY <1>0, <1>2 DEF Create, Created, create_num, At, Born, Creating
  <1>3. ASSUME NEW t \in Threads, Enter(t) \/ Queue(t)
        PROVE  Born' /\ (Fifo!Take(t) \/ UNCHANGED Fifo!lockVars)
    BY <1>3, BornCallStep
  <1>4. ASSUME NEW t \in Threads, Entered(t)
        PROVE  Born' /\ Fifo!Occupy(t)
    BY <1>4, BornEnteredStep
  <1>5. ASSUME NEW t \in Threads, Leave(t)
        PROVE  Born' /\ Fifo!Release(t)
    BY <1>5, BornLeaveStep
  <1>6. ASSUME NEW t \in Threads, Proceed(t)
        PROVE  Born' /\ (Fifo!Join(t) \/ UNCHANGED Fifo!lockVars)
    <2>1. CASE newsem(t) \/ create_count(t) \/ create_cell(t) \/ create_head(t)
      BY <2>1 DEF newsem, create_count, create_cell, create_head, At, Born, Creating
    <2>2. CASE wait_enqueue(t)
      BY <1>6, <2>2, BornEnqueueStep DEF Proceed
    <2>3. CASE wait_state(t) \/ wait_sid_ptr(t) \/ wait_yield(t) \/ signal_state(t)
      <3>1. /\ UNCHANGED <<lock, holder, semcount, waiting, sem>>
            /\ \/ /\ pc[t] \in {"wait_state", "wait_sid_ptr"}
                  /\ pc' \in {[pc EXCEPT ![t] = "wait_sid_ptr"],
                             [pc EXCEPT ![t] = "wait_enqueue"]}
               \/ pc[t] = "wait_yield" /\ pc' = [pc EXCEPT ![t] = "wait_return"]
               \/ pc[t] = "signal_state" /\ pc' = [pc EXCEPT ![t] = "signal_yield"]
        BY <1>6, <2>3, QuietQueue DEF Proceed, wait_state, wait_sid_ptr, wait_yield, signal_state,
           At, Goto, table, locals
      <3>2. pc[t] # "idle"
        BY <3>1
      <3> QED BY <3>1, <3>2, BornQuietStep
    <2>4. CASE wait_queue_full(t) \/ signal_yield(t)
      <3>1. /\ UNCHANGED <<lock, holder, semcount, waiting>>
            /\ pc[t] \in {"wait_enqueue", "signal_yield"}
            /\ pc' = [pc EXCEPT ![t] = "idle"] /\ sem' = [sem EXCEPT ![t] = None]
        BY <1>6, <2>4, QuietQueue DEF Proceed, wait_queue_full, signal_yield, At, Return, Goto, table
      <3>2. pc[t] # "idle"
        BY <3>1
      <3> QED BY <3>1, <3>2, BornQuietStep
    <2> QED BY <1>6, <2>1, <2>2, <2>3, <2>4 DEF Proceed
  <1> QED BY <1>1, <1>2, <1>3, <1>4, <1>5, <1>6 DEF LockNext, Fifo!Next

LEMMA LockStep ==
    ASSUME LockInv, [LockNext]_lockingVars
    PROVE  LockInv' /\ [Fifo!Next]_(Fifo!lockVars)
  <1>1. SemaphoreInv' /\ ~early'
    BY LockStepIsStep, NextSemaphore, NobodyIsEarly DEF LockInv
  <1>2. CASE UNCHANGED lockingVars
    <2>1. UNCHANGED <<lock, holder, semcount, waiting, pc, sem, count>>
      BY <1>2, QuietQueue DEF lockingVars, vars, table, locals
    <2>2. Granted' = Granted
      BY <2>1 DEF Granted, InQueue
    <2>3. (lock = None /\ Unborn)' <=> (lock = None /\ Unborn)
      BY <2>1 DEF Unborn
    <2>4. Born' <=> Born
      BY <2>1, <2>2 DEF Born
    <2> QED BY <1>1, <2>1, <2>2, <2>3, <2>4 DEF LockInv, Fifo!lockVars, Line
  <1>3. CASE LockNext
    BY <1>1, <1>3, UnbornStep, BornStep DEF LockInv
  <1> QED BY <1>2, <1>3

-----------------------------------------------------------------------------
\* For every number of threads and places in the waiting queue: two threads
\* never have the lock at the same time, whatever the timer does inside wait and
\* signal (wait, signal).
THEOREM LockExcludes == LockSpec => []MutualExclusion
  <1>1. LockInit => LockInv
    BY InitLock
  <1>2. LockInv /\ [LockNext]_lockingVars => LockInv'
    BY LockStep
  <1>3. LockInv => MutualExclusion
    BY DEF LockInv, Unborn, Born, MutualExclusion
  <1> QED BY <1>1, <1>2, <1>3, PTL DEF LockSpec

\* For every number of threads and places in the waiting queue: wait and signal
\* on a semaphore created with count 1 hand the lock on in the order of the
\* waiting queue, to one thread at a time (wait, signal, enqueue_sem,
\* dequeue_sem, create_sem).
THEOREM LockIsHandedOnInOrder == LockSpec => HandedOnInOrder
  <1>1. LockInit => LockInv /\ Fifo!Init
    BY InitLock
  <1>2. LockInv /\ [LockNext]_lockingVars => LockInv' /\ [Fifo!Next]_(Fifo!lockVars)
    BY LockStep
  <1> QED BY <1>1, <1>2, PTL DEF LockSpec, HandedOnInOrder, Fifo!Spec
=============================================================================

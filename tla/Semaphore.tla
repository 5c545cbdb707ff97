----------------------------- MODULE Semaphore -----------------------------
(***************************************************************************)
(* The counting semaphores of semaphore.c, on the round-robin scheduler.   *)
(*                                                                         *)
(* There is one processor, so a step is what runs between two points with  *)
(* the interrupts open, at which the timer may take the processor away.    *)
(* wait and signal close the interrupts first, but get_cur_thread_tid (in  *)
(* wait) and putsn_serial (in both) end in sti and open them again: from   *)
(* there on every statement is a step of its own.  Between two such steps  *)
(* the thread stands at the label in pc.  create_sem never closes the      *)
(* interrupts: every store of it is a step.                                *)
(*                                                                         *)
(* thread_scheduler is one step here; Scheduler.tla models its inside and  *)
(* says when that is right.  The waiting queue is the ring buffer of       *)
(* RingQueue.tla, in each entry of semtable.                               *)
(***************************************************************************)
EXTENDS Integers, Sequences

CONSTANTS
    N,          \* threads: thread i is in slot i of threads[] and has tid i
    Idle,       \* threads in their halt() loop, which make no calls
    NSEM,       \* entries of semtable
    NSEMQUEUE,  \* capacity of a waiting queue
    Counts,     \* initial counts create_sem is called with
    MaxDebt     \* bound: wait is not called on a count of -MaxDebt or less

Threads == 0..(N - 1)
Sids == 0..(NSEM - 1)
None == -1

ASSUME NAssumption == N \in Nat \ {0}
ASSUME IdleAssumption == Idle \subseteq Threads
ASSUME SemAssumption == NSEM \in Nat /\ NSEMQUEUE \in Nat \ {0}
ASSUME CountsAssumption == Counts \subseteq Int

VARIABLES
    state,      \* threads[t]->state, RUNNABLE or WAIT
    cur,        \* the thread on the processor
    lost,       \* nothing is known of the processor any more: the search of
                \* thread_scheduler loops, a thread was resumed from an old
                \* stack pointer, or change_state was called for thread -1
    semstate,   \* semtable[s].semstate
    semcount,   \* semtable[s].semcount
    semqueue,   \* semtable[s].semqueue: head, num, que[NSEMQUEUE]
    early,      \* history: wait or signal changed a semaphore on which some
                \* create_sem was still at work
    sid_ptr,    \* *threads[t]->sid_ptr
    pc,         \* where thread t stands in a semaphore call
    sem,        \* the semaphore that call is about
    tid,        \* signal's local variable: the thread it dequeued
    count,      \* create_sem's parameter
    cell        \* create_sem's loop variable

table == <<semstate, semcount, semqueue>>
locals == <<sem, tid, count, cell>>
vars == <<state, cur, lost, table, early, sid_ptr, pc, locals>>

Cells == 0..(NSEMQUEUE - 1)

\* A queue as create_sem leaves it, and as the loader does.
FlushedQueue == [head |-> 0, num |-> 0, que |-> [c \in Cells |-> None]]
ZeroedQueue == [head |-> 0, num |-> 0, que |-> [c \in Cells |-> 0]]

Init ==
    /\ state = [t \in Threads |-> "RUNNABLE"]
    /\ cur = 0
    /\ lost = FALSE
    /\ semstate = [s \in Sids |-> "S_FREE"]
    /\ semcount = [s \in Sids |-> 0]
    /\ semqueue = [s \in Sids |-> ZeroedQueue]
    /\ early = FALSE
    /\ sid_ptr = [t \in Threads |-> None]
    /\ pc = [t \in Threads |-> "idle"]
    /\ sem = [t \in Threads |-> None]
    /\ tid = [t \in Threads |-> None]
    /\ count = [t \in Threads |-> 0]
    /\ cell = [t \in Threads |-> 0]

-----------------------------------------------------------------------------
(* Scheduling *)

Runnable == {t \in Threads : state[t] = "RUNNABLE"}

\* The i-th thread that thread_scheduler looks at.
SlotAt(i) == (cur + i) % N

\* thread_scheduler: the next RUNNABLE thread after the current one gets the
\* processor; with none the search loops for ever, interrupts closed.  When the
\* only one is the current thread, switch_context resumes it where it was when it
\* was last switched away from, on a stack that has changed since: harmless in a
\* thread that halts over and over, and the end of what is known in another.
thread_scheduler ==
    IF Runnable = {}
    THEN lost' = TRUE /\ UNCHANGED cur
    ELSE /\ \E i \in 1..N : /\ SlotAt(i) \in Runnable
                            /\ \A k \in 1..(i - 1) : SlotAt(k) \notin Runnable
                            /\ cur' = SlotAt(i)
         /\ lost' = (cur' = cur /\ cur \notin Idle)

\* timer_handler, when a period has passed.
Preempt ==
    /\ ~lost
    /\ thread_scheduler
    /\ UNCHANGED <<state, table, early, sid_ptr, pc, locals>>

\* Thread t executes from label l.
At(t, l) == ~lost /\ cur = t /\ pc[t] = l

\* Thread t is about to make a call.
Ready(t) == At(t, "idle") /\ t \notin Idle

Goto(t, l) == pc' = [pc EXCEPT ![t] = l]

\* The call of t is over, and its local variables with it.
Return(t) == /\ Goto(t, "idle")
             /\ sem' = [sem EXCEPT ![t] = None]
             /\ tid' = [tid EXCEPT ![t] = None]
             /\ count' = [count EXCEPT ![t] = 0]
             /\ cell' = [cell EXCEPT ![t] = 0]

-----------------------------------------------------------------------------
(* create_sem: never with the interrupts closed *)

\* Mutant: the search of newsem looks at one entry past the end of semtable.
FreeSidsPastEnd == {s \in 0..NSEM : s \in Sids => semstate[s] = "S_FREE"}

FreeSids == {s \in Sids : semstate[s] = "S_FREE"}

\* The search of newsem.  Entries are never freed, so that it finds the lowest
\* entry that is free when the search reaches it.  With a negative count or a
\* full table create_sem returns -1 and changes nothing.
create_sem(t, c) ==
    /\ Ready(t)
    /\ c >= 0
    /\ \E s \in FreeSids : /\ \A r \in FreeSids : s <= r
                           /\ sem' = [sem EXCEPT ![t] = s]
    /\ count' = [count EXCEPT ![t] = c]
    /\ Goto(t, "newsem")
    /\ UNCHANGED <<state, cur, lost, table, early, sid_ptr, tid, cell>>

newsem(t) ==
    /\ At(t, "newsem")
    /\ semstate' = [semstate EXCEPT ![sem[t]] = "S_USED"]
    /\ Goto(t, "create_count")
    /\ UNCHANGED <<state, cur, lost, semcount, semqueue, early, sid_ptr, locals>>

create_count(t) ==
    /\ At(t, "create_count")
    /\ semcount' = [semcount EXCEPT ![sem[t]] = count[t]]
    /\ Goto(t, "create_cell")
    /\ UNCHANGED <<state, cur, lost, semstate, semqueue, early, sid_ptr, locals>>

\* One turn of the loop that fills the queue with -1.
create_cell(t) ==
    /\ At(t, "create_cell")
    /\ semqueue' = [semqueue EXCEPT ![sem[t]].que[cell[t]] = None]
    /\ cell' = [cell EXCEPT ![t] = @ + 1]
    /\ Goto(t, IF cell[t] + 1 < NSEMQUEUE THEN "create_cell" ELSE "create_head")
    /\ UNCHANGED <<state, cur, lost, semstate, semcount, early, sid_ptr, sem, tid, count>>

create_head(t) ==
    /\ At(t, "create_head")
    /\ semqueue' = [semqueue EXCEPT ![sem[t]].head = 0]
    /\ Goto(t, "create_num")
    /\ UNCHANGED <<state, cur, lost, semstate, semcount, early, sid_ptr, locals>>

create_num(t) ==
    /\ At(t, "create_num")
    /\ semqueue' = [semqueue EXCEPT ![sem[t]].num = 0]
    /\ Return(t)
    /\ UNCHANGED <<state, cur, lost, semstate, semcount, early, sid_ptr>>

Creating == {"newsem", "create_count", "create_cell", "create_head", "create_num"}

\* Some create_sem has found s free and is not over.
BeingCreated(s) == \E t \in Threads : pc[t] \in Creating /\ sem[t] = s

\* History, in every call of wait and signal that changes semaphore s.
Uses(s) == early' = (early \/ BeingCreated(s))

-----------------------------------------------------------------------------
(* wait.  Called with a bad sid, or with one not in use, it returns 0 and    *)
(* changes nothing: STI_RET0_IF_ERR.                                         *)

Usable(s) == s \in Sids /\ semstate[s] = "S_USED"

\* enqueue_sem and dequeue_sem, on a queue with room and on one that is not
\* empty, and the entry that dequeue_sem delivers.
enqueue_sem(q, t) ==
    [head |-> q.head, num |-> q.num + 1,
     que |-> [q.que EXCEPT ![(q.head + q.num) % NSEMQUEUE] = t]]
dequeue_sem(q) ==
    [head |-> (q.head + 1) % NSEMQUEUE, num |-> q.num - 1, que |-> q.que]
Oldest(q) == q.que[q.head]

\* Mutant: a count that becomes -1 still lets the thread pass.
wait_passes_at_zero(t, s) ==
    /\ Ready(t)
    /\ Usable(s)
    /\ semcount[s] >= 0
    /\ semcount' = [semcount EXCEPT ![s] = @ - 1]
    /\ Uses(s)
    /\ UNCHANGED <<state, cur, lost, semstate, semqueue, sid_ptr, pc, locals>>

\* The count stays above -1: wait returns 1 without letting go.
wait_passes(t, s) ==
    /\ Ready(t)
    /\ Usable(s)
    /\ semcount[s] - 1 >= 0
    /\ semcount' = [semcount EXCEPT ![s] = @ - 1]
    /\ Uses(s)
    /\ UNCHANGED <<state, cur, lost, semstate, semqueue, sid_ptr, pc, locals>>

\* The count becomes negative: up to the sti of get_cur_thread_tid.
wait_blocks(t, s) ==
    /\ Ready(t)
    /\ Usable(s)
    /\ semcount[s] - 1 < 0
    /\ semcount[s] > -MaxDebt
    /\ semcount' = [semcount EXCEPT ![s] = @ - 1]
    /\ sem' = [sem EXCEPT ![t] = s]
    /\ Uses(s)
    /\ Goto(t, "wait_state")
    /\ UNCHANGED <<state, cur, lost, semstate, semqueue, sid_ptr, tid, count, cell>>

\* Mutant: change_state(tid, WAIT) is left out.
wait_awake(t) ==
    /\ At(t, "wait_state")
    /\ Goto(t, "wait_sid_ptr")
    /\ UNCHANGED <<state, cur, lost, table, early, sid_ptr, locals>>

\* change_state(tid, WAIT).  A thread preempted from here on is not scheduled
\* again until another one makes it RUNNABLE.
wait_state(t) ==
    /\ At(t, "wait_state")
    /\ state' = [state EXCEPT ![t] = "WAIT"]
    /\ Goto(t, "wait_sid_ptr")
    /\ UNCHANGED <<cur, lost, table, early, sid_ptr, locals>>

wait_sid_ptr(t) ==
    /\ At(t, "wait_sid_ptr")
    /\ sid_ptr' = [sid_ptr EXCEPT ![t] = sem[t]]
    /\ Goto(t, "wait_enqueue")
    /\ UNCHANGED <<state, cur, lost, table, early, locals>>

\* enqueue_sem(tid, sem).  Preempted inside it, before num is stored, the
\* thread is in no queue and never resumes, and the next enqueue_sem stores into
\* the same cell: the same as before the call.
wait_enqueue(t) ==
    /\ At(t, "wait_enqueue")
    /\ semqueue[sem[t]].num < NSEMQUEUE
    /\ semqueue' = [semqueue EXCEPT ![sem[t]] = enqueue_sem(@, t)]
    /\ Goto(t, "wait_yield")
    /\ UNCHANGED <<state, cur, lost, semstate, semcount, early, sid_ptr, locals>>

\* The queue is full: wait returns 0, and the thread goes on, in state WAIT,
\* until it is switched away from.
wait_queue_full(t) ==
    /\ At(t, "wait_enqueue")
    /\ semqueue[sem[t]].num >= NSEMQUEUE
    /\ Return(t)
    /\ UNCHANGED <<state, cur, lost, table, early, sid_ptr>>

wait_yield(t) ==
    /\ At(t, "wait_yield")
    /\ thread_scheduler
    /\ Goto(t, "wait_return")
    /\ UNCHANGED <<state, table, early, sid_ptr, locals>>

wait_return(t) ==
    /\ At(t, "wait_return")
    /\ Return(t)
    /\ UNCHANGED <<state, cur, lost, table, early, sid_ptr>>

-----------------------------------------------------------------------------
(* signal.  With a bad sid, or one not in use, it returns 0 and changes      *)
(* nothing.                                                                  *)

\* Mutant: the oldest waiter is read but stays in the queue.
signal_peeks(t, s) ==
    /\ Ready(t)
    /\ Usable(s)
    /\ semcount[s] < 0
    /\ semqueue[s].num > 0
    /\ semcount' = [semcount EXCEPT ![s] = @ + 1]
    /\ tid' = [tid EXCEPT ![t] = Oldest(semqueue[s])]
    /\ sem' = [sem EXCEPT ![t] = s]
    /\ Uses(s)
    /\ Goto(t, "signal_state")
    /\ UNCHANGED <<state, cur, lost, semstate, semqueue, sid_ptr, count, cell>>

\* Mutant: the thread that came last is woken first.
signal_dequeues_last(t, s) ==
    /\ Ready(t)
    /\ Usable(s)
    /\ semcount[s] < 0
    /\ semqueue[s].num > 0
    /\ semcount' = [semcount EXCEPT ![s] = @ + 1]
    /\ tid' = [tid EXCEPT ![t] =
                  semqueue[s].que[(semqueue[s].head + semqueue[s].num - 1) % NSEMQUEUE]]
    /\ semqueue' = [semqueue EXCEPT ![s].num = @ - 1]
    /\ sem' = [sem EXCEPT ![t] = s]
    /\ Uses(s)
    /\ Goto(t, "signal_state")
    /\ UNCHANGED <<state, cur, lost, semstate, sid_ptr, count, cell>>

\* Up to the sti of putsn_serial.
signal_dequeues(t, s) ==
    /\ Ready(t)
    /\ Usable(s)
    /\ semcount[s] < 0
    /\ semqueue[s].num > 0
    /\ semcount' = [semcount EXCEPT ![s] = @ + 1]
    /\ tid' = [tid EXCEPT ![t] = Oldest(semqueue[s])]
    /\ semqueue' = [semqueue EXCEPT ![s] = dequeue_sem(@)]
    /\ sem' = [sem EXCEPT ![t] = s]
    /\ Uses(s)
    /\ Goto(t, "signal_state")
    /\ UNCHANGED <<state, cur, lost, semstate, sid_ptr, count, cell>>

\* The waiter has not reached the queue yet: signal returns 0, but the count
\* stays incremented.
signal_finds_nobody(t, s) ==
    /\ Ready(t)
    /\ Usable(s)
    /\ semcount[s] < 0
    /\ semqueue[s].num = 0
    /\ semcount' = [semcount EXCEPT ![s] = @ + 1]
    /\ Uses(s)
    /\ UNCHANGED <<state, cur, lost, semstate, semqueue, sid_ptr, pc, locals>>

signal_does_nothing(t, s) ==
    /\ Ready(t)
    /\ Usable(s)
    /\ semcount[s] >= 0
    /\ UNCHANGED vars

\* Mutant: change_state is called with the signalling thread's own tid.
signal_state_self(t) ==
    /\ At(t, "signal_state")
    /\ state' = [state EXCEPT ![t] = "RUNNABLE"]
    /\ Goto(t, "signal_yield")
    /\ UNCHANGED <<cur, lost, table, early, sid_ptr, locals>>

\* change_state(tid, RUNNABLE).
signal_state(t) ==
    /\ At(t, "signal_state")
    /\ tid[t] # None
    /\ state' = [state EXCEPT ![tid[t]] = "RUNNABLE"]
    /\ Goto(t, "signal_yield")
    /\ UNCHANGED <<cur, lost, table, early, sid_ptr, locals>>

\* Dequeued was a -1 of create_sem: change_state stores through threads[-1].
signal_state_astray(t) ==
    /\ At(t, "signal_state")
    /\ tid[t] = None
    /\ lost' = TRUE
    /\ UNCHANGED <<state, cur, table, early, sid_ptr, pc, locals>>

\* When the thread is resumed, only sti and the return are left.
signal_yield(t) ==
    /\ At(t, "signal_yield")
    /\ thread_scheduler
    /\ Return(t)
    /\ UNCHANGED <<state, table, early, sid_ptr>>

\* delete_sem: its first test, STI_RET0_IF_ERR(isbadsem(sem)), is the wrong way
\* round, so that every valid semaphore is refused and none is ever freed.  An
\* invalid one passes, and stores beside semtable: nobody calls it so, and it is
\* not modelled.
delete_sem(t, s) ==
    /\ Ready(t)
    /\ s \in Sids
    /\ UNCHANGED vars

-----------------------------------------------------------------------------
\* What thread t does to get on with a call it has begun.
Continue(t) ==
    \/ newsem(t) \/ create_count(t)
    \/ create_cell(t) \/ create_head(t) \/ create_num(t)
    \/ wait_state(t) \/ wait_sid_ptr(t) \/ wait_enqueue(t) \/ wait_queue_full(t)
    \/ wait_yield(t) \/ wait_return(t)
    \/ signal_state(t) \/ signal_state_astray(t) \/ signal_yield(t)

Call(t) ==
    \/ \E c \in Counts : create_sem(t, c)
    \/ \E s \in Sids : \/ wait_passes(t, s) \/ wait_blocks(t, s)
                       \/ signal_dequeues(t, s) \/ signal_finds_nobody(t, s)
                       \/ signal_does_nothing(t, s) \/ delete_sem(t, s)

Next == Preempt \/ \E t \in Threads : Call(t) \/ Continue(t)

Spec == Init /\ [][Next]_vars

-----------------------------------------------------------------------------
Labels == {"idle", "newsem", "create_count", "create_cell", "create_head", "create_num",
           "wait_state", "wait_sid_ptr", "wait_enqueue", "wait_yield", "wait_return",
           "signal_state", "signal_yield"}

queue_sem == [head : Cells, num : 0..NSEMQUEUE, que : [Cells -> Threads \cup {None}]]

\* Types and ranges, and that a call under way knows what it works on.
TypeOK ==
    /\ state \in [Threads -> {"RUNNABLE", "WAIT"}]
    /\ cur \in Threads
    /\ lost \in BOOLEAN
    /\ semstate \in [Sids -> {"S_FREE", "S_USED"}]
    /\ semcount \in [Sids -> Int]
    /\ semqueue \in [Sids -> queue_sem]
    /\ early \in BOOLEAN
    /\ sid_ptr \in [Threads -> Sids \cup {None}]
    /\ pc \in [Threads -> Labels]
    /\ sem \in [Threads -> Sids \cup {None}]
    /\ tid \in [Threads -> Threads \cup {None}]
    /\ count \in [Threads -> Int]
    /\ cell \in [Threads -> 0..NSEMQUEUE]
    /\ \A t \in Threads : pc[t] # "idle" => sem[t] \in Sids
    /\ \A t \in Threads : pc[t] \in {"newsem", "create_count"} => cell[t] = 0
    /\ \A t \in Threads : pc[t] = "create_cell" => cell[t] < NSEMQUEUE
    /\ \A t \in Threads : pc[t] \notin Creating => cell[t] = 0
    /\ \A t \in Idle : pc[t] = "idle"

\* What is in the waiting queues, oldest first.
Contents(q) == [i \in 1..q.num |-> q.que[(q.head + i - 1) % NSEMQUEUE]]
waiting == [s \in Sids |-> Contents(semqueue[s])]

\* The two labels at which a thread is fully asleep in wait.
Asleep(t, s) == /\ state[t] = "WAIT"
                /\ pc[t] \in {"wait_yield", "wait_return"}
                /\ sem[t] = s

\* Whoever is in a waiting queue sleeps in wait on that semaphore, is there
\* only once, and is in no other queue: so that waking it resumes it where it
\* expects to be resumed (wait, signal, enqueue_sem, dequeue_sem).  The exception
\* is a semaphore that was used too early: two threads can be creating one
\* semaphore (newsem), and what the first does with it the second wipes out.
QueuedThreadsSleep ==
    ~early => \A s \in Sids : \A i \in DOMAIN waiting[s] :
        /\ waiting[s][i] \in Threads
        /\ Asleep(waiting[s][i], s)
        /\ sid_ptr[waiting[s][i]] = s
        /\ \A j \in DOMAIN waiting[s] : waiting[s][i] = waiting[s][j] => i = j

\* Between dequeue_sem and change_state(tid, RUNNABLE), which the timer can
\* part, what was dequeued is a thread, not the -1 of create_sem; it is asleep in
\* wait, in no queue any more, and no other signal is about to wake it too
\* (signal, create_sem).  With the same exception.
WokenOnce ==
    ~early => \A t \in Threads : pc[t] = "signal_state" =>
        /\ tid[t] \in Threads
        /\ Asleep(tid[t], sem[tid[t]])
        /\ \A s \in Sids : \A i \in DOMAIN waiting[s] : waiting[s][i] # tid[t]
        /\ \A u \in Threads \ {t} : pc[u] = "signal_state" => tid[u] # tid[t]

\* A thread that sleeps while another runs is in the queue from which signal
\* wakes threads, or has just been taken from it (wait):
\* docs/doc_draft/semaphore.md has the whole of wait run with the interrupts
\* closed.  It does not, and the timer can part a thread from the queue for ever.
SleepersAreQueued ==
    \A t \in Threads : state[t] = "WAIT" /\ cur # t =>
        \/ \E s \in Sids : \E i \in DOMAIN waiting[s] : waiting[s][i] = t
        \/ \E u \in Threads : pc[u] = "signal_state" /\ tid[u] = t
-----------------------------------------------------------------------------
\* The inductive invariant behind QueuedThreadsSleep and WokenOnce.

\* A thread is asleep, and says on what, before it enters a queue; and once
\* thread_scheduler has come back to it, it has been woken.
SleepsFirst ==
    /\ \A t \in Threads : pc[t] \in {"wait_sid_ptr", "wait_enqueue"} => state[t] = "WAIT"
    /\ \A t \in Threads : pc[t] = "wait_enqueue" => sid_ptr[t] = sem[t]
    /\ ~lost /\ pc[cur] = "wait_return" => state[cur] = "RUNNABLE"

\* Nobody is in the queue of a semaphore that is free or being created, and no
\* call of wait is on its way there.
CreatedEmpty ==
    /\ \A s \in Sids : semstate[s] = "S_FREE" \/ BeingCreated(s) => semqueue[s].num = 0
    /\ \A t \in Threads : pc[t] \in {"wait_state", "wait_sid_ptr", "wait_enqueue"} =>
           semstate[sem[t]] = "S_USED" /\ ~BeingCreated(sem[t])

SemaphoreInv ==
    /\ TypeOK /\ QueuedThreadsSleep /\ WokenOnce
    /\ ~early => SleepsFirst /\ CreatedEmpty
=============================================================================

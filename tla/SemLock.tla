------------------------------ MODULE SemLock ------------------------------
(***************************************************************************)
(* Threads that share something through one semaphore of Semaphore.tla     *)
(* created with count 1, the use docs/doc_draft/semaphore.md introduces    *)
(* semaphores for: a thread passes wait before it uses the thing and calls *)
(* signal afterwards.  Threads may also call delete_sem on it, as          *)
(* thread_end does.                                                        *)
(***************************************************************************)
EXTENDS Semaphore

CONSTANT Creator    \* the one thread that calls create_sem

ASSUME CreatorAssumption == Creator \in Threads
ASSUME LockCountAssumption == 1 \in Counts

VARIABLES
    lock,       \* what create_sem(1) returned to Creator
    holder      \* the threads that have passed wait(lock) and not yet signalled

lockingVars == <<vars, lock, holder>>

LockInit == Init /\ lock = None /\ holder = {}

Create(t) ==
    /\ t = Creator
    /\ lock = None
    /\ create_sem(t, 1)
    /\ UNCHANGED <<lock, holder>>

Created(t) ==
    /\ create_num(t)
    /\ lock' = sem[t]
    /\ UNCHANGED holder

\* wait(lock) returns 1 at once,
Enter(t) ==
    /\ t \notin holder
    /\ wait_passes(t, lock)
    /\ holder' = holder \cup {t}
    /\ UNCHANGED lock

\* or puts the thread to sleep
Queue(t) ==
    /\ t \notin holder
    /\ wait_blocks(t, lock)
    /\ UNCHANGED <<lock, holder>>

\* and returns 1 when it has been woken.
Entered(t) ==
    /\ wait_return(t)
    /\ holder' = IF sem[t] = lock THEN holder \cup {t} ELSE holder
    /\ UNCHANGED lock

\* signal(lock), whether it wakes somebody, finds the count negative and the
\* queue empty, or changes nothing.
Leave(t) ==
    /\ t \in holder
    /\ \/ signal_dequeues(t, lock)
       \/ signal_finds_nobody(t, lock)
       \/ signal_does_nothing(t, lock)
    /\ holder' = holder \ {t}
    /\ UNCHANGED lock

Delete(t) == (\E s \in Sids : delete_sem(t, s)) /\ UNCHANGED <<lock, holder>>

Proceed(t) ==
    /\ \/ newsem(t) \/ create_count(t) \/ create_cell(t) \/ create_head(t)
       \/ wait_state(t) \/ wait_sid_ptr(t) \/ wait_enqueue(t) \/ wait_queue_full(t)
       \/ wait_yield(t)
       \/ signal_state(t) \/ signal_yield(t)
    /\ UNCHANGED <<lock, holder>>

Timer == Preempt /\ UNCHANGED <<lock, holder>>

LockNext ==
    \/ Timer
    \/ \E t \in Threads : \/ Create(t) \/ Created(t) \/ Enter(t) \/ Queue(t)
                          \/ Entered(t) \/ Leave(t) \/ Delete(t) \/ Proceed(t)

\* A thread that is scheduled again and again gets something done: a period
\* is much longer than a step.  The timer goes on.  Nobody has to call anything.
Progress ==
    /\ WF_lockingVars(Timer)
    /\ \A t \in Threads : SF_lockingVars(Created(t) \/ Entered(t) \/ Proceed(t))

LockSpec == LockInit /\ [][LockNext]_lockingVars /\ Progress

-----------------------------------------------------------------------------
\* Two threads never have the lock at the same time, whatever the timer does
\* inside wait and signal (wait, signal).
MutualExclusion == \A t, u \in holder : t = u

InQueue(t, s) == \E i \in DOMAIN waiting[s] : waiting[s][i] = t

Line == IF lock = None THEN <<>> ELSE waiting[lock]

\* Dequeued from the lock's queue, and not yet returned from wait.
Granted == {t \in Threads : /\ pc[t] \in {"wait_yield", "wait_return"}
                            /\ sem[t] = lock
                            /\ ~InQueue(t, lock)}

\* The lock is handed over in the order of the waiting queue, to one thread at
\* a time (wait, signal, enqueue_sem, dequeue_sem).
Fifo == INSTANCE FifoLock WITH
            free <- lock # None /\ semcount[lock] > 0,
            line <- Line,
            granted <- Granted
HandedOnInOrder == Fifo!Spec

\* Who has been taken from the waiting queue returns from wait: signal does not
\* stop between dequeue_sem and change_state, and thread_scheduler comes back.
GrantedReturns == \A t \in Threads : (t \in Granted) ~> (t \in holder)
-----------------------------------------------------------------------------
\* Before the lock is there: one thread is at work on it, or nobody.
Unborn ==
    /\ holder = {}
    /\ \A t \in Threads : pc[t] \in Creating \cup {"idle"}
    /\ \A t \in Threads : pc[t] # "idle" => t = Creator
    /\ pc[Creator] \in {"newsem", "create_count"} => count[Creator] = 1
    /\ pc[Creator] \in {"create_cell", "create_head", "create_num"} =>
           semcount[sem[Creator]] = 1

\* From then on: every call is about it, at most one thread has it or has been
\* given it, and its count is positive only as long as nobody has had it.
Born ==
    /\ lock \in Sids
    /\ semcount[lock] <= 1
    /\ holder \subseteq {t \in Threads : pc[t] = "idle"}
    /\ \A t \in Threads : pc[t] # "idle" => pc[t] \notin Creating /\ sem[t] = lock
    /\ \A t, u \in holder \cup Granted : t = u
    /\ semcount[lock] > 0 =>
           holder = {} /\ waiting[lock] = <<>> /\ \A t \in Threads : pc[t] = "idle"

\* The inductive invariant behind MutualExclusion and HandedOnInOrder.  Nobody
\* uses the lock before its creation is over: Creator alone creates it.
LockInv ==
    /\ SemaphoreInv
    /\ ~early
    /\ \/ lock = None /\ Unborn
       \/ Born
=============================================================================

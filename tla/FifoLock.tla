------------------------------ MODULE FifoLock ------------------------------
(***************************************************************************)
(* What a semaphore created with count 1 promises to threads that use it   *)
(* as a lock: one thread has it at a time, it is passed on in the order in *)
(* which the threads fell asleep, and a thread that is given it is the one *)
(* that was first in line.  It does not promise that a release without     *)
(* anybody in line makes the lock available again: signal does nothing     *)
(* unless the count is negative.                                           *)
(***************************************************************************)
EXTENDS Sequences

CONSTANT Threads

VARIABLES free,     \* nobody has had the lock yet
          line,     \* the sleeping threads, longest sleeper first
          granted,  \* the thread the lock has been passed to, still asleep
          holder    \* the thread that has the lock

lockVars == <<free, line, granted, holder>>

Init == free = FALSE /\ line = <<>> /\ granted = {} /\ holder = {}

\* The lock comes into being.
Open == /\ ~free /\ line = <<>> /\ granted = {} /\ holder = {}
        /\ free' = TRUE
        /\ UNCHANGED <<line, granted, holder>>

Take(t) == /\ free
           /\ free' = FALSE
           /\ holder' = {t}
           /\ UNCHANGED <<line, granted>>

Join(t) == /\ t \notin holder \cup granted
           /\ line' = Append(line, t)
           /\ UNCHANGED <<free, granted, holder>>

Occupy(t) == /\ granted = {t}
             /\ holder = {}
             /\ granted' = {}
             /\ holder' = {t}
             /\ UNCHANGED <<free, line>>

\* A holder gives the lock to the first in line, or to nobody.
Release(t) ==
    /\ holder = {t}
    /\ holder' = {}
    /\ \/ /\ line # <<>>
          /\ granted' = {Head(line)}
          /\ line' = Tail(line)
       \/ UNCHANGED <<line, granted>>
    /\ UNCHANGED free

Next == Open \/ \E t \in Threads : Take(t) \/ Join(t) \/ Occupy(t) \/ Release(t)

Spec == Init /\ [][Next]_lockVars
=============================================================================

----------------------------- MODULE InitThread -----------------------------
(***************************************************************************)
(* The first thread of the kernel, init of kernel.c, from the moment       *)
(* fork_thread has switched to its copy: both return from switch_fork, ask *)
(* who they are, and do do_parent or do_child with the pipe of Pipe.tla.   *)
(*                                                                         *)
(* fork_thread copies the stack but not where rbp points.  The kernel is   *)
(* compiled with -O0, so that local variables are reached through rbp, and *)
(* the frames that were open at the fork, those of fork_thread and of      *)
(* init, are one pair of frames for both threads.  They are frame here.    *)
(* The interrupts are open from get_cur_thread_tid on: an assignment is    *)
(* two steps, one that computes the value in a register of the thread and  *)
(* one that stores it.                                                     *)
(***************************************************************************)
EXTENDS Pipe

CONSTANTS
    Parent,         \* the thread that calls fork_thread
    Child,          \* the thread it makes
    ForkDisturbed   \* may the timer switch to the parent before the child
                    \* knows that it is the child?

ASSUME ForkAssumption ==
    Parent \in Threads /\ Child \in Threads /\ Parent # Child
ASSUME DisturbedAssumption == ForkDisturbed \in BOOLEAN

VARIABLES
    frame,      \* tid, t, ctid and the return value of fork_thread, and init's tid
    reg         \* per thread, the value computed for the next store, if any

initVars == <<vars, pipe, frame, reg>>

\* The child has the processor; the parent was switched away from in
\* switch_fork.  The variables hold whatever was on the stack.
InitThreadInit ==
    /\ PipeInit(Child)
    /\ at = [t \in Threads |-> "forked"]
    /\ frame = [v \in {"tid", "t", "ctid", "ret", "init_tid"} |-> Parent]
    /\ reg = [t \in Threads |-> <<>>]

-----------------------------------------------------------------------------
(* The end of fork_thread, and the branch in init *)

\* find_ctid: set_ctid has entered the child with its parent.
find_ctid(t) == IF t = Parent THEN Child ELSE -1

Unforked == UNCHANGED <<vars, pstate, buffer, buf>>

\* Thread t, at here, assigns value to variable v of the frame.
Assign(t, here, there, v, value) ==
    /\ At(t, "idle")
    /\ at[t] = here
    /\ \/ /\ reg[t] = <<>>
          /\ reg' = [reg EXCEPT ![t] = <<value>>]
          /\ UNCHANGED <<at, frame>>
       \/ /\ reg[t] # <<>>
          /\ frame' = [frame EXCEPT ![v] = reg[t][1]]
          /\ reg' = [reg EXCEPT ![t] = <<>>]
          /\ at' = [at EXCEPT ![t] = there]
    /\ Unforked

Branch(t, here, there) ==
    At(t, "idle") /\ From(t, here, there) /\ Unforked /\ UNCHANGED <<frame, reg>>

fork_gets_tid(t) == Assign(t, "forked", "tid_known", "tid", t)
fork_gets_thread(t) == Assign(t, "tid_known", "thread_known", "t", frame["tid"])
fork_asks(t) ==
    Branch(t, "thread_known", IF find_ctid(frame["t"]) = -1 THEN "child" ELSE "parent")
fork_in_child(t) == Assign(t, "child", "returns", "ret", -1)
fork_in_parent(t) == Assign(t, "parent", "ctid_known", "ctid", find_ctid(frame["t"]))
fork_returns_ctid(t) == Assign(t, "ctid_known", "returns", "ret", frame["ctid"])
init_gets_tid(t) == Assign(t, "returns", "returned", "init_tid", frame["ret"])
init_branches(t) ==
    Branch(t, "returned", IF frame["init_tid"] = -1 THEN "pwrite" ELSE "waitp")

InFork == {"forked", "tid_known", "thread_known", "child", "parent", "ctid_known",
           "returns", "returned"}

Forks(t) ==
    \/ fork_gets_tid(t) \/ fork_gets_thread(t) \/ fork_asks(t) \/ fork_in_child(t)
    \/ fork_in_parent(t) \/ fork_returns_ctid(t) \/ init_gets_tid(t) \/ init_branches(t)

-----------------------------------------------------------------------------
Timer ==
    /\ ForkDisturbed \/ at[Child] \notin InFork
    /\ Preempt
    /\ UNCHANGED <<pipe, frame, reg>>

Runs(t) == Forks(t) \/ (UsesPipe(t) /\ UNCHANGED <<frame, reg>>)

InitThreadNext == Timer \/ \E t \in {Parent, Child} : Runs(t)

\* The timer goes on, and a thread that is scheduled again and again gets on.
InitThreadSpec ==
    /\ InitThreadInit /\ [][InitThreadNext]_initVars
    /\ WF_initVars(Timer) /\ \A t \in {Parent, Child} : SF_initVars(Runs(t))

-----------------------------------------------------------------------------
\* fork_thread tells the two threads apart: the parent does not take itself
\* for the child, nor the child itself for the parent (fork_thread, init).
ToldApart == at[Parent] # "pwrite" /\ at[Child] # "waitp"

\* Who prints "receive_OK" has the whole message, although it never looks at
\* what pread returned: however it comes through waitp, the child has finished
\* pwrite (do_parent, waitp, pread, pwrite, signalp).  Nothing is said once the
\* search has picked the thread it came from: it is thrown back to where it was
\* last switched away from, and the processor counts as lost.
ReceiveOK == \A t \in {Parent, Child} : at[t] = "receive_OK" => buf[t] = Message

\* A parent that is in the waiting queue before the child calls signal gets the
\* message (waitp, signalp, wait, signal).  Two exceptions.  One that is not there
\* in time may wait for ever: between the test in waitp and the queue nothing keeps
\* the child from signalling, and signal remembers nothing.  And while the parent
\* sleeps the child is the only RUNNABLE thread: if a period expires before it has
\* signalled, thread_scheduler picks the child itself and throws it back to where
\* it was last switched away from, and the processor is lost.  Once the child is
\* through, that is no excuse: it could be alone only if it had woken nobody.
ChildIsThrough == at[Child] = "halt" /\ pc[Child] = "idle"
InLineIsServed ==
    waiting[Pipe] # <<>> /\ at[Child] # "halt" ~>
        at[Parent] = "receive_OK" \/ (lost /\ ~ChildIsThrough)
=============================================================================

-------------------------------- MODULE Pipe --------------------------------
(***************************************************************************)
(* The pipe of stdcall/pipe.c between a thread and its child, with the two *)
(* functions of kernel.c that use it: do_child writes once and signals,    *)
(* do_parent waits and reads once, and both threads halt.                  *)
(*                                                                         *)
(* The two share one pipe_struct and one semaphore, created with count 0   *)
(* (gen_pipe).  pread, pwrite, waitp and signalp never close the           *)
(* interrupts, so a step is one access to the state of the pipe, or to     *)
(* half of the buffer: when the timer interrupts memcpy, a part is copied. *)
(* wait and signal are those of Semaphore.tla.                             *)
(***************************************************************************)
EXTENDS Semaphore

CONSTANT Pipe       \* the semaphore that *sid_ptr of every thread names

ASSUME PipeAssumption == Pipe \in Sids

Halves == {"front", "back"}
Message == [h \in Halves |-> TRUE]

VARIABLES
    pstate,     \* pstruct->pstate
    buffer,     \* *pipe_ptr: whether each half holds the message
    buf,        \* the buf of each thread's do_parent, likewise
    at          \* where each thread stands in do_parent or do_child

pipe == <<pstate, buffer, buf, at>>

\* Threads that are forked after gen_pipe; c has the processor.
PipeInit(c) ==
    /\ state = [t \in Threads |-> "RUNNABLE"]
    /\ lost = FALSE
    /\ early = FALSE
    /\ cur = c
    /\ semstate = [s \in Sids |-> IF s = Pipe THEN "S_USED" ELSE "S_FREE"]
    /\ semcount = [s \in Sids |-> 0]
    /\ semqueue = [s \in Sids |-> IF s = Pipe THEN FlushedQueue ELSE ZeroedQueue]
    /\ sid_ptr = [t \in Threads |-> Pipe]
    /\ pc = [t \in Threads |-> "idle"]
    /\ sem = [t \in Threads |-> None]
    /\ tid = [t \in Threads |-> None]
    /\ count = [t \in Threads |-> 0]
    /\ cell = [t \in Threads |-> 0]
    /\ pstate = "EMPTY"
    /\ buffer = [h \in Halves |-> FALSE]
    /\ buf = [t \in Threads |-> [h \in Halves |-> FALSE]]
-----------------------------------------------------------------------------
\* Thread t goes from one place in do_parent or do_child to another.
From(t, here, there) == at[t] = here /\ at' = [at EXCEPT ![t] = there]

\* The same, without anything happening to semaphores.
Step(t, here, there) == At(t, "idle") /\ From(t, here, there) /\ UNCHANGED vars

Copied(dst, src, h) == [dst EXCEPT ![h] = src[h]]

(* do_child: pwrite and signalp *)

pwrite(t) ==
    /\ Step(t, "pwrite", IF pstate = "EMPTY" THEN "send" ELSE "signalp")
    /\ UNCHANGED <<pstate, buffer, buf>>

pwrite_sending(t) ==
    /\ Step(t, "send", "write_front")
    /\ pstate' = "SENDING"
    /\ UNCHANGED <<buffer, buf>>

pwrite_copies(t) ==
    /\ \/ /\ Step(t, "write_front", "write_back")
          /\ buffer' = Copied(buffer, Message, "front")
       \/ /\ Step(t, "write_back", "written")
          /\ buffer' = Copied(buffer, Message, "back")
    /\ UNCHANGED <<pstate, buf>>

\* Mutant: the state of the pipe stays SENDING.
pwrite_still_sending(t) ==
    /\ Step(t, "written", "signalp")
    /\ UNCHANGED <<pstate, buffer, buf>>

pwrite_exist(t) ==
    /\ Step(t, "written", "signalp")
    /\ pstate' = "EXIST"
    /\ UNCHANGED <<buffer, buf>>

signalp(t) ==
    /\ Step(t, "signalp", IF pstate = "EXIST" THEN "signal" ELSE "halt")
    /\ UNCHANGED <<pstate, buffer, buf>>

signalp_signals(t) ==
    /\ From(t, "signal", "halt")
    /\ \/ signal_dequeues(t, Pipe)
       \/ signal_finds_nobody(t, Pipe)
       \/ signal_does_nothing(t, Pipe)
    /\ UNCHANGED <<pstate, buffer, buf>>

(* do_parent: waitp and pread *)

\* Mutant: only an empty pipe is waited for, not one that is being written.
waitp_empty(t) ==
    /\ Step(t, "waitp", IF pstate = "EMPTY" THEN "wait" ELSE "pread")
    /\ UNCHANGED <<pstate, buffer, buf>>

waitp(t) ==
    /\ Step(t, "waitp", IF pstate \in {"EMPTY", "SENDING"} THEN "wait" ELSE "pread")
    /\ UNCHANGED <<pstate, buffer, buf>>

\* The count was created 0 and signal never makes it positive: wait blocks.
waitp_waits(t) ==
    /\ From(t, "wait", "waiting")
    /\ wait_blocks(t, Pipe)
    /\ UNCHANGED <<pstate, buffer, buf>>

waitp_returns(t) ==
    /\ From(t, "waiting", "pread")
    /\ wait_return(t)
    /\ UNCHANGED <<pstate, buffer, buf>>

\* do_parent goes on to print "receive_OK" whatever pread returns.
pread(t) ==
    /\ Step(t, "pread", IF pstate = "EXIST" THEN "receive" ELSE "receive_OK")
    /\ UNCHANGED <<pstate, buffer, buf>>

pread_receiving(t) ==
    /\ Step(t, "receive", "read_front")
    /\ pstate' = "RECEIVING"
    /\ UNCHANGED <<buffer, buf>>

pread_copies(t) ==
    /\ \/ /\ Step(t, "read_front", "read_back")
          /\ buf' = [buf EXCEPT ![t] = Copied(@, buffer, "front")]
       \/ /\ Step(t, "read_back", "read")
          /\ buf' = [buf EXCEPT ![t] = Copied(@, buffer, "back")]
    /\ UNCHANGED <<pstate, buffer>>

pread_empty(t) ==
    /\ Step(t, "read", "receive_OK")
    /\ pstate' = "EMPTY"
    /\ UNCHANGED <<buffer, buf>>

-----------------------------------------------------------------------------
\* What thread t does in do_child or do_parent.  Two threads share the
\* semaphore, so its queue has room.
UsesPipe(t) ==
    \/ pwrite(t) \/ pwrite_sending(t) \/ pwrite_copies(t) \/ pwrite_exist(t)
    \/ signalp(t) \/ signalp_signals(t)
    \/ waitp(t) \/ waitp_waits(t) \/ waitp_returns(t)
    \/ pread(t) \/ pread_receiving(t) \/ pread_copies(t) \/ pread_empty(t)
    \/ /\ \/ wait_state(t) \/ wait_sid_ptr(t) \/ wait_enqueue(t) \/ wait_yield(t)
          \/ signal_state(t) \/ signal_yield(t)
       /\ UNCHANGED pipe
=============================================================================

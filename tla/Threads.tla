------------------------------ MODULE Threads ------------------------------
(***************************************************************************)
(* The thread table of task.c: create_thread and fork_thread enter threads *)
(* in threads[], thread_end takes them out, and tids are looked up through *)
(* tid_index_dict.                                                         *)
(*                                                                         *)
(* The interrupts are open while a slot is looked for, closed while it is  *)
(* taken, and open again from get_cur_thread_tid on: a step is what runs   *)
(* between two points with the interrupts open.  A structure that kmalloc  *)
(* returns is a new member of Structs.                                     *)
(*                                                                         *)
(* thread_scheduler moves cur_thread_index at once and switches after its  *)
(* trace, with the interrupts open in between (switching).  That no period *)
(* expires there is assumed, as Timely does in Scheduler.tla.  A thread    *)
(* that is switched to itself goes on from where it was last switched away *)
(* from, with whatever is on its stack now: nothing is followed from there *)
(* on.                                                                     *)
(*                                                                         *)
(* One thread, the first, creates all others and never ends, as init does. *)
(* A thread that is forked never ends either: it shares the frame of       *)
(* thread_exec with its parent, whose structure thread_end would be given. *)
(* A created thread can run before thread_run has given it its tid; that   *)
(* it does not get as far as to ask for it, or to end, is assumed.         *)
(*                                                                         *)
(* At the end of fork_thread parent and child use one stack frame, because *)
(* the child has the rbp of its parent (-O0).  InitThread.tla parts its    *)
(* assignments further.  The calls init makes after that reuse the memory  *)
(* of the frame: what a child that is still in fork_thread does to them,   *)
(* and they to it between two of its steps, is not followed.               *)
(***************************************************************************)
EXTENDS Integers, Sequences

CONSTANTS
    THREAD_NUM,     \* slots
    NTHREAD_CHILD,  \* places in a ctid list
    MaxThreads      \* bound: structures that are ever allocated

ASSUME SlotsAssumption == THREAD_NUM \in Nat \ {0}
ASSUME ChildrenAssumption == NTHREAD_CHILD \in Nat \ {0}
ASSUME MaxThreadsAssumption == MaxThreads \in Nat \ {0}

Slots == 0..(THREAD_NUM - 1)
Places == 0..(NTHREAD_CHILD - 1)
Structs == 0..(MaxThreads - 1)
init == 0               \* the structure of the first thread
empty_thread == -1      \* &empty_thread, whose state is DEAD
None == -1

VARIABLES
    threads,        \* threads[]
    tid_index_dict, \* tid_index_dict[]: the tid of the thread in each slot
    tid_global,     \* the next tid
    cur,            \* cur_thread_index
    run,            \* the structure of the thread on the processor
    switching,      \* "trace": thread_scheduler has moved cur_thread_index
                    \* and not yet switched; "lost": it resumed a stale stack
    allocated,      \* structures allocated so far
    state, tid, ptid, index, ctid,  \* the fields of each structure
    pc,             \* where each thread stands
    call,           \* what init is in: create_thread or fork_thread
    new,            \* the structure it has allocated for that
    i,              \* the local variable of thread_run and thread_register
    frame,          \* tid, t and the return value of fork_thread
    disturbed       \* history: threads switched away from while they ask, at
                    \* the end of fork_thread, who they are

table == <<threads, tid_index_dict, tid_global>>
fields == <<state, tid, ptid, index, ctid>>
processor == <<cur, run, switching>>
forking == <<frame, disturbed>>
locals == <<call, new, i>>
vars == <<table, processor, allocated, fields, pc, locals, forking>>

NoChildren == [p \in Places |-> None]

\* After create_thread(init) and switch_context_first.  tid_index_dict is
\* initialised with {-1}, which is -1 in the first cell and 0 in the others.  The
\* frame holds whatever was on the stack.
Init ==
    /\ threads = [s \in Slots |-> IF s = 0 THEN init ELSE empty_thread]
    /\ tid_index_dict = [s \in Slots |-> 0]
    /\ tid_global = 1
    /\ cur = 0 /\ run = init /\ switching = "no"
    /\ allocated = 1
    /\ state = [t \in Structs |-> "RUNNABLE"]
    /\ tid = [t \in Structs |-> IF t = init THEN 0 ELSE None]
    /\ ptid = [t \in Structs |-> None]
    /\ index = [t \in Structs |-> IF t = init THEN 0 ELSE None]
    /\ ctid = [t \in Structs |-> NoChildren]
    /\ pc = [t \in Structs |-> "idle"]
    /\ call = "create_thread" /\ new = None /\ i = 0
    /\ frame = [tid |-> 0, t |-> init, ret |-> None]
    /\ disturbed = {}

-----------------------------------------------------------------------------
Holds(s, st) == threads[s] # empty_thread /\ state[threads[s]] = st

\* thread_scheduler up to its trace: the next RUNNABLE thread after slot cur.
thread_scheduler ==
    /\ switching = "no"
    /\ \E k \in 1..THREAD_NUM :
           LET slot(j) == (cur + j) % THREAD_NUM
           IN  /\ Holds(slot(k), "RUNNABLE")
               /\ \A j \in 1..(k - 1) : ~Holds(slot(j), "RUNNABLE")
               /\ cur' = slot(k)
    /\ switching' = "trace"
    /\ UNCHANGED run

\* Its end.  The stack pointer it resumes from was saved when the thread was last
\* switched away from: stale, if that is the one that runs.
switch_context ==
    /\ switching = "trace"
    /\ run' = threads[cur]
    /\ switching' = IF threads[cur] = run THEN "lost" ELSE "no"
    /\ UNCHANGED <<table, cur, allocated, fields, pc, locals, forking>>

stays_lost == switching = "lost" /\ UNCHANGED vars

\* The labels at the end of fork_thread, from where the tid has been asked for.
Asking == {"tid_known", "thread_known", "parent", "returns"}
InFork == {"forked"} \cup Asking

Preempt ==
    /\ thread_scheduler
    /\ disturbed' = IF pc[run] \in Asking THEN disturbed \cup {run} ELSE disturbed
    /\ UNCHANGED <<table, allocated, fields, pc, locals, frame>>

At(t, l) == switching = "no" /\ run = t /\ pc[t] = l
Goto(t, l) == pc' = [pc EXCEPT ![t] = l]

\* search_index_from_tid: the first slot with that tid.
FoundAt(x, s) == tid_index_dict[s] = x /\ \A r \in 0..(s - 1) : tid_index_dict[r] # x

get_cur_thread_tid == tid_index_dict[cur]

-----------------------------------------------------------------------------
(* thread_run, in create_thread, and thread_register, in fork_thread *)

begins(c) ==
    /\ At(init, "idle")
    /\ allocated < MaxThreads
    /\ call' = c
    /\ new' = allocated
    /\ allocated' = allocated + 1
    /\ i' = 0
    /\ Goto(init, "look")
    /\ UNCHANGED <<table, processor, fields, forking>>

create_thread == begins("create_thread")

\* With a full table fork_thread would set cur_thread_index to -1, and with a
\* full list of children it would answer with another child.
fork_thread ==
    /\ \E s \in Slots : threads[s] = empty_thread
    /\ \E p \in Places : ctid[init][p] = None
    /\ begins("fork_thread")

\* Mutant: a slot is free when its thread is not RUNNABLE.
FreeUnlessRunnable(s) == ~Holds(s, "RUNNABLE")

\* threads[i]->state == DEAD
Free(s) == threads[s] = empty_thread

looks_on ==
    /\ At(init, "look")
    /\ i \in Slots
    /\ ~Free(i)
    /\ i' = i + 1
    /\ UNCHANGED <<table, processor, allocated, fields, pc, call, new, forking>>

\* The table is full: the new thread is never entered.
finds_none ==
    /\ At(init, "look")
    /\ i \notin Slots
    /\ Goto(init, "idle")
    /\ UNCHANGED <<table, processor, allocated, fields, locals, forking>>

finds_free ==
    /\ At(init, "look")
    /\ i \in Slots
    /\ Free(i)
    /\ Goto(init, "take")
    /\ UNCHANGED <<table, processor, allocated, fields, locals, forking>>

\* With the interrupts closed, up to the sti of get_cur_thread_tid.
takes_slot ==
    /\ At(init, "take")
    /\ threads' = [threads EXCEPT ![i] = new]
    /\ state' = [state EXCEPT ![new] = IF call = "create_thread" THEN "RUNNABLE" ELSE "SLEEP"]
    /\ index' = [index EXCEPT ![new] = i]
    /\ Goto(init, "ptid")
    /\ UNCHANGED <<tid_index_dict, tid_global, processor, allocated, tid, ptid, ctid, locals, forking>>

\* init reads its own tid, just before the sti that makes this a new step.
sets_ptid ==
    /\ At(init, "ptid")
    /\ ptid' = [ptid EXCEPT ![threads[i]] = get_cur_thread_tid]
    /\ Goto(init, "tid")
    /\ UNCHANGED <<table, processor, allocated, state, tid, index, ctid, locals, forking>>

sets_tid ==
    /\ At(init, "tid")
    /\ tid' = [tid EXCEPT ![threads[i]] = tid_global]
    /\ Goto(init, "dict")
    /\ UNCHANGED <<table, processor, allocated, state, ptid, index, ctid, locals, forking>>

sets_dict ==
    /\ At(init, "dict")
    /\ tid_index_dict' = [tid_index_dict EXCEPT ![i] = tid[threads[i]]]
    /\ Goto(init, "count")
    /\ UNCHANGED <<threads, tid_global, processor, allocated, fields, locals, forking>>

\* Mutant: tid_global stays as it is.
counts_not ==
    /\ At(init, "count")
    /\ Goto(init, IF call = "create_thread" THEN "idle" ELSE "set_ctid")
    /\ UNCHANGED <<table, processor, allocated, fields, locals, forking>>

counts ==
    /\ At(init, "count")
    /\ tid_global' = tid_global + 1
    /\ Goto(init, IF call = "create_thread" THEN "idle" ELSE "set_ctid")
    /\ UNCHANGED <<threads, tid_index_dict, processor, allocated, fields, locals, forking>>

(* The rest of fork_thread *)

\* The first free place, if there is one.
set_ctid ==
    /\ At(init, "set_ctid")
    /\ \E p \in Places :
           /\ ctid[init][p] = None
           /\ \A q \in 0..(p - 1) : ctid[init][q] # None
           /\ ctid' = [ctid EXCEPT ![init][p] = tid[new]]
    /\ Goto(init, "switch")
    /\ UNCHANGED <<table, processor, allocated, state, tid, ptid, index, locals, forking>>

\* Mutant: cur_thread_index stays with the parent.
switch_fork_alone ==
    /\ At(init, "switch")
    /\ state' = [state EXCEPT ![new] = "RUNNABLE"]
    /\ run' = new
    /\ pc' = [pc EXCEPT ![init] = "forked", ![new] = "forked"]
    /\ UNCHANGED <<table, cur, switching, allocated, tid, ptid, index, ctid, locals, forking>>

\* With the interrupts closed: the child becomes RUNNABLE and has the processor.
switch_fork ==
    /\ At(init, "switch")
    /\ state' = [state EXCEPT ![new] = "RUNNABLE"]
    /\ cur' = i
    /\ run' = new
    /\ pc' = [pc EXCEPT ![init] = "forked", ![new] = "forked"]
    /\ UNCHANGED <<table, switching, allocated, tid, ptid, index, ctid, locals, forking>>

\* The list of children of a thread; that of the static empty_thread is zeroed.
ctids(t) == IF t = empty_thread THEN [p \in Places |-> 0] ELSE ctid[t]

\* Mutant: the list of children is searched from its beginning.
find_first_ctid(t) ==
    IF ctids(t) = NoChildren THEN None
    ELSE LET first == CHOOSE p \in Places : /\ ctids(t)[p] # None
                                            /\ \A q \in 0..(p - 1) : ctids(t)[q] = None
         IN  ctids(t)[first]

\* find_ctid: the child in the last place that is taken.
find_ctid(t) ==
    IF ctids(t) = NoChildren THEN None
    ELSE LET last == CHOOSE p \in Places : /\ ctids(t)[p] # None
                                           /\ \A q \in Places : q > p => ctids(t)[q] = None
         IN  ctids(t)[last]

ForkStep(t, here, there) ==
    /\ At(t, here)
    /\ Goto(t, there)
    /\ UNCHANGED <<table, processor, allocated, fields, locals>>

fork_gets_tid(t) ==
    /\ ForkStep(t, "forked", "tid_known")
    /\ frame' = [frame EXCEPT !.tid = get_cur_thread_tid]
    /\ UNCHANGED disturbed

fork_gets_thread(t) ==
    /\ ForkStep(t, "tid_known", "thread_known")
    /\ \E s \in Slots : FoundAt(frame.tid, s) /\ frame' = [frame EXCEPT !.t = threads[s]]
    /\ UNCHANGED disturbed

\* A thread without children is the child.
fork_in_child(t) ==
    /\ find_ctid(frame.t) = None
    /\ ForkStep(t, "thread_known", "returns")
    /\ frame' = [frame EXCEPT !.ret = None]
    /\ UNCHANGED disturbed

fork_in_parent(t) ==
    /\ find_ctid(frame.t) # None
    /\ ForkStep(t, "thread_known", "parent")
    /\ UNCHANGED forking

\* It looks for its child once more.
fork_finds_child(t) ==
    /\ ForkStep(t, "parent", "returns")
    /\ frame' = [frame EXCEPT !.ret = find_ctid(frame.t)]
    /\ UNCHANGED disturbed

\* fork_thread returns frame.ret.
fork_returns(t) ==
    /\ ForkStep(t, "returns", "idle")
    /\ disturbed' = disturbed \ {t}
    /\ UNCHANGED frame

forks(t) ==
    \/ fork_gets_tid(t) \/ fork_gets_thread(t) \/ fork_in_child(t)
    \/ fork_in_parent(t) \/ fork_finds_child(t) \/ fork_returns(t)

-----------------------------------------------------------------------------
(* change_state, in wait and signal *)

\* A created thread whose creator has come through thread_run.
Announced(t) == t < allocated /\ ~(t = new /\ pc[init] \notin {"idle"} \cup InFork)

Forked(t) == \E p \in Places : ctid[init][p] = tid[t]

change_state(x, st) ==
    \E s \in Slots : /\ FoundAt(x, s)
                     /\ threads[s] # empty_thread
                     /\ state' = [state EXCEPT ![threads[s]] = st]

sleeps(t) ==
    /\ At(t, "idle") /\ t # init /\ Announced(t)
    /\ change_state(get_cur_thread_tid, "WAIT")
    /\ Goto(t, "yield")
    /\ UNCHANGED <<table, processor, allocated, tid, ptid, index, ctid, locals, forking>>

yields(t) ==
    /\ At(t, "yield")
    /\ thread_scheduler
    /\ Goto(t, "idle")
    /\ UNCHANGED <<table, allocated, fields, locals, forking>>

wakes(t) ==
    /\ At(t, "idle")
    /\ \E u \in Structs : state[u] = "WAIT" /\ change_state(tid[u], "RUNNABLE")
    /\ UNCHANGED <<table, processor, allocated, tid, ptid, index, ctid, pc, locals, forking>>

-----------------------------------------------------------------------------
(* thread_exec and thread_end.  Switched away from after its first step, the *)
(* thread never comes back, and the others are not taken.                    *)

empties_slot(t) ==
    /\ At(t, "idle") /\ t # init /\ Announced(t) /\ ~Forked(t)
    /\ threads' = [threads EXCEPT ![index[t]] = empty_thread]
    /\ Goto(t, "clear_ctid")
    /\ UNCHANGED <<tid_index_dict, tid_global, processor, allocated, fields, locals, forking>>

\* In the list of the thread that ptid leads to, if it has this one.
clear_ctid(t) ==
    /\ At(t, "clear_ctid")
    /\ \E s \in Slots :
           /\ FoundAt(ptid[t], s)
           /\ LET parent_t == threads[s]
              IN  ctid' = [ctid EXCEPT ![parent_t] =
                              [p \in Places |-> IF @[p] = tid[t] THEN None ELSE @[p]]]
    /\ Goto(t, "clear_dict")
    /\ UNCHANGED <<table, processor, allocated, state, tid, ptid, index, locals, forking>>

clears_dict(t) ==
    /\ At(t, "clear_dict")
    /\ tid_index_dict' = [tid_index_dict EXCEPT ![index[t]] = -1]
    /\ Goto(t, "leave")
    /\ UNCHANGED <<threads, tid_global, processor, allocated, fields, locals, forking>>

leaves(t) ==
    /\ At(t, "leave")
    /\ thread_scheduler
    /\ UNCHANGED <<table, allocated, fields, pc, locals, forking>>

-----------------------------------------------------------------------------
Next ==
    \/ Preempt \/ switch_context \/ stays_lost
    \/ create_thread \/ fork_thread
    \/ looks_on \/ finds_none \/ finds_free \/ takes_slot
    \/ sets_ptid \/ sets_tid \/ sets_dict \/ counts
    \/ set_ctid \/ switch_fork
    \/ \E t \in Structs : \/ forks(t)
                          \/ sleeps(t) \/ yields(t) \/ wakes(t)
                          \/ empties_slot(t) \/ clear_ctid(t) \/ clears_dict(t) \/ leaves(t)

Spec == Init /\ [][Next]_vars

-----------------------------------------------------------------------------
Labels == {"idle", "look", "take", "ptid", "tid", "dict", "count", "set_ctid",
           "switch", "yield", "clear_ctid", "clear_dict", "leave"} \cup InFork

Tids == 0..tid_global

\* Types and ranges of the thread table; tids in use are below tid_global once
\* the thread that takes one has counted (thread_run, thread_register).
TypeOK ==
    /\ threads \in [Slots -> Structs \cup {empty_thread}]
    /\ tid_index_dict \in [Slots -> Tids \cup {None}]
    /\ tid_global \in 1..MaxThreads
    /\ cur \in Slots /\ run \in Structs
    /\ switching \in {"no", "trace", "lost"}
    /\ allocated \in 1..MaxThreads
    /\ state \in [Structs -> {"RUNNABLE", "WAIT", "SLEEP"}]
    /\ tid \in [Structs -> Tids \cup {None}]
    /\ ptid \in [Structs -> Tids \cup {None}]
    /\ index \in [Structs -> Slots \cup {None}]
    /\ ctid \in [Structs -> [Places -> Tids \cup {None}]]
    /\ pc \in [Structs -> Labels]
    /\ call \in {"create_thread", "fork_thread"}
    /\ new \in Structs \cup {None}
    /\ i \in 0..THREAD_NUM
    /\ frame \in [tid : Tids \cup {None}, t : Structs \cup {empty_thread},
                  ret : Tids \cup {None}]
    /\ disturbed \in SUBSET Structs
    /\ pc[init] \notin {"dict", "count"} => \A t \in Structs : tid[t] < tid_global

Ending == {"clear_ctid", "clear_dict", "leave"}

\* Entered in the table, and not yet taken out.
Registered(t) == Announced(t) /\ index[t] # None /\ pc[t] \notin Ending

\* A thread keeps the slot it was given, whatever is created and ends around it
\* and wherever the timer parts those steps; it has a tid, which leads to that
\* slot and to no earlier one (thread_run, thread_register, thread_end,
\* search_index_from_tid).
KeepsItsSlot ==
    \A t \in Structs : Registered(t) =>
        /\ threads[index[t]] = t
        /\ tid[t] # None
        /\ FoundAt(tid[t], index[t])

\* Outside the trace of thread_scheduler, the thread on the processor is the one
\* that cur_thread_index names, as long as it has not given up its slot and no
\* period has expired in a trace: then the switch was for another thread, and
\* nothing is said from there on (thread_scheduler, fork_thread).
RunsInItsSlot == switching = "no" /\ pc[run] \notin Ending => threads[cur] = run

\* A thread that asks at the end of fork_thread who it is, and is not switched away
\* from before it has its answer, gets the right one, whenever it asks: the tid of
\* the thread it made, or -1 (fork_thread, find_ctid).  One that is switched away
\* from may find what the other has left in the frame (init_forked).
ForkAnswers ==
    \A t \in Structs : pc[t] = "returns" /\ t \notin disturbed =>
        frame.ret = IF t = init THEN tid[new] ELSE None
-----------------------------------------------------------------------------
\* The inductive invariant behind KeepsItsSlot, RunsInItsSlot and ForkAnswers.

\* The first thread, and structures not yet allocated.
Origin ==
    /\ init < allocated
    /\ threads[0] = init /\ index[init] = 0 /\ tid[init] = 0 /\ tid_index_dict[0] = 0
    /\ state[init] = "RUNNABLE"
    /\ pc[init] \notin Ending \cup {"yield"}
    /\ \A t \in Structs : t >= allocated => index[t] = None /\ tid[t] = None /\ pc[t] = "idle"

\* A slot holds a thread that knows it and has not begun to end.  An index is
\* given once, so that a tid is nowhere but in the slot of its thread.
OneSlotEach ==
    /\ \A s \in Slots : threads[s] # empty_thread =>
           index[threads[s]] = s /\ pc[threads[s]] \notin Ending
    /\ \A t, u \in Structs : tid[t] # None /\ tid[t] = tid[u] => t = u
    /\ \A t \in Structs \ {init} : tid[t] # None =>
           /\ tid[t] > 0
           /\ \A s \in Slots : tid_index_dict[s] = tid[t] => index[t] = s

\* A thread that ends does so in one go, before anybody takes its slot.
EndsAlone == pc[run] \in Ending => threads[index[run]] = empty_thread

\* Only a thread in the table waits, and it is not on the processor any more
\* when it leaves wait; thread_scheduler has picked one that does not.
WaitsInItsSlot ==
    /\ \A t \in Structs : state[t] = "WAIT" => t # init /\ Registered(t)
    /\ switching = "no" /\ pc[run] # "yield" => state[run] = "RUNNABLE"
    /\ switching = "trace" => Holds(cur, "RUNNABLE")

Entering == {"ptid", "tid", "dict", "count", "set_ctid", "switch"}
Calling == {"look", "take"} \cup Entering

\* What init has done so far of the call it is in, and for whom.
CallUnderWay ==
    /\ tid_global <= allocated
    /\ pc[init] \in {"look", "take", "ptid", "tid", "dict", "count"} => tid_global < allocated
    /\ pc[init] \in Calling =>
           new \in Structs \ {init} /\ new < allocated /\ pc[new] = "idle"
    /\ pc[init] \in {"look", "take"} => index[new] = None /\ tid[new] = None
    /\ pc[init] = "take" => i \in Slots /\ Free(i)
    /\ pc[init] \in Entering =>
           /\ i \in Slots /\ threads[i] = new
           /\ state[new] = IF call = "create_thread" THEN "RUNNABLE" ELSE "SLEEP"
    /\ pc[init] \in {"ptid", "tid"} => tid[new] = None
    /\ pc[init] \in {"dict", "count"} => tid[new] = tid_global
    /\ pc[init] \in {"count", "set_ctid", "switch"} =>
           tid[new] # None /\ tid_index_dict[i] = tid[new]
    /\ pc[init] \in {"set_ctid", "switch"} => call = "fork_thread"
    /\ \A s \in Slots : tid_index_dict[s] = tid_global => pc[init] = "count"

\* Who is the last in init's list, and that nobody in it ends.
Children ==
    /\ \A t \in Structs \ {init} : ctid[t] = NoChildren
    /\ \A p, q \in Places : p < q /\ ctid[init][q] # None => ctid[init][p] # None
    /\ \/ ctid[init] = NoChildren
       \/ \E p \in Places : /\ ctid[init][p] # None
                            /\ \A q \in Places : q > p => ctid[init][q] = None
    /\ \A t \in Structs : pc[t] \in Ending => tid[t] # None /\ ~Forked(t)
    /\ pc[init] \in {"switch"} \cup InFork =>
           \E p \in Places : /\ ctid[init][p] = tid[new] /\ tid[new] # None
                             /\ \A q \in Places : q > p => ctid[init][q] = None

\* A thread that has not been disturbed has the shared frame for itself.
OwnFrame ==
    \A t \in Structs : pc[t] \in Asking /\ t \notin disturbed =>
        /\ switching = "no" /\ run = t
        /\ frame.tid = tid[t]
        /\ pc[t] # "tid_known" => frame.t = t
        /\ pc[t] = "parent" => t = init

ThreadsInv ==
    /\ TypeOK /\ KeepsItsSlot /\ RunsInItsSlot
    /\ Origin /\ OneSlotEach /\ EndsAlone /\ WaitsInItsSlot /\ CallUnderWay
    /\ Children /\ OwnFrame /\ ForkAnswers
=============================================================================

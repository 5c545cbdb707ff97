----------------------------- MODULE Scheduler -----------------------------
(***************************************************************************)
(* Round-robin scheduling on one processor: timer_handler (int_handler.c), *)
(* thread_scheduler (task.c) and switch_context (task_asm.S).              *)
(*                                                                         *)
(* A thread's execution context is its stack; what a switch saves and      *)
(* restores of it is the position of the stack pointer, so a context is    *)
(* abstracted to a stack and a depth.  thread_scheduler closes the         *)
(* interrupts, moves cur_thread_index to the next thread, and then prints  *)
(* four trace lines, each of which opens the interrupts again              *)
(* (puts_serial ends in sti) before switch_context exchanges the stacks.   *)
(* A timer period that expires inside that window starts a second          *)
(* thread_scheduler on the stack of a thread cur_thread_index no longer    *)
(* names.  Such invocations are kept, per stack, in frames.                *)
(***************************************************************************)
EXTENDS Integers, Sequences

CONSTANTS
    N,              \* THREAD_NUM, all slots holding a thread
    TimerPeriod,    \* timer_period, in ticks
    BootTicks,      \* the 90 ticks before which the timer never schedules
    TraceTicks,     \* at most this many ticks fall into one trace window
    Depths,         \* positions a stack pointer can be in
    HaltedSets,     \* the sets of threads that may have reached their halt() loop
    LateYield       \* may a thread call thread_scheduler (from wait or
                    \* signal) so late in its period that the period can
                    \* expire during the trace?

Slots == 0..(N - 1)

ASSUME NAssumption == N \in Nat \ {0}
ASSUME TickAssumption ==
    TimerPeriod \in Nat /\ BootTicks \in Nat /\ TraceTicks \in Nat
ASSUME DepthAssumption == 0 \in Depths
ASSUME HaltedAssumption == HaltedSets \subseteq SUBSET Slots
ASSUME LateYieldAssumption == LateYield \in BOOLEAN

VARIABLES
    state,      \* threads[i]->state, RUNNABLE or WAIT
    cur,        \* cur_thread_index
    rsp,        \* threads[i]->rsp: the context saved for slot i
    run,        \* the slot whose stack the processor is on
    depth,      \* where the stack pointer of each stack is
    frames,     \* per stack, the thread_scheduler calls in their trace window
    tick,       \* ticks since power-on, up to BootTicks + 1
    elapsed,    \* tick - previous_interrupt, up to TimerPeriod + 1
    hung,       \* thread_scheduler loops with the interrupts closed
    halted      \* the threads that are in their halt() loop for good

vars == <<state, cur, rsp, run, depth, frames, tick, elapsed, hung, halted>>

AtMost(n, bound) == IF n < bound THEN n ELSE bound

\* Thread 0 has the processor; the threads that halt were last switched out of
\* their halt() loop, and the others have not started to run.
Init ==
    /\ state = [i \in Slots |-> "RUNNABLE"]
    /\ cur = 0
    /\ run = 0
    /\ depth = [i \in Slots |-> 0]
    /\ rsp = [i \in Slots |-> [stack |-> i, depth |-> 0]]
    /\ frames = [i \in Slots |-> <<>>]
    /\ tick \in 0..(BootTicks + 1)
    /\ elapsed \in 0..(TimerPeriod + 1)
    /\ tick > BootTicks => elapsed <= TimerPeriod
    /\ hung = FALSE
    /\ halted \in HaltedSets

-----------------------------------------------------------------------------
\* Mutant: the search gives up when it comes back to the current slot.
RunnableOthers == {i \in Slots \ {cur} : state[i] = "RUNNABLE"}

\* The slots at which the search of thread_scheduler can stop.
Runnable == {i \in Slots : state[i] = "RUNNABLE"}

\* Mutant: every search starts from slot 0 instead of from the current one.
SlotFromZero(i) == i % N

\* Mutant: the index is advanced once before the search that advances it again.
SlotPastNext(i) == (cur + i + 1) % N

\* The slot thread_scheduler looks at with loop variable i = 1, 2, ...; the
\* current slot itself comes last.
SlotAt(i) == (cur + i) % N

\* thread_scheduler up to its trace: the interrupts are closed, the search
\* moves cur_thread_index to the first RUNNABLE slot, and never ends if there
\* is none.
PickNext ==
    IF Runnable = {}
    THEN hung' = TRUE /\ UNCHANGED <<cur, frames>>
    ELSE /\ \E i \in 1..N :
                /\ SlotAt(i) \in Runnable
                /\ \A k \in 1..(i - 1) : SlotAt(k) \notin Runnable
                /\ cur' = SlotAt(i)
         /\ frames' = [frames EXCEPT
                         ![run] = <<[old |-> cur, left |-> TraceTicks]>> \o @]
         /\ UNCHANGED hung

\* Mutant: the stack pointer is saved into the slot that is being resumed.
SwitchIntoNext(old) ==
    LET next == rsp[cur]
    IN  /\ rsp' = [rsp EXCEPT ![cur] = [stack |-> run, depth |-> depth[run]]]
        /\ run' = next.stack
        /\ depth' = [depth EXCEPT ![next.stack] = next.depth]

\* Mutant: the stack pointer of the thread that leaves is not saved.
SwitchUnsaved(old) ==
    LET next == rsp[cur]
    IN  /\ rsp' = rsp
        /\ run' = next.stack
        /\ depth' = [depth EXCEPT ![next.stack] = next.depth]

\* switch_context(&threads[old]->rsp, threads[cur]->rsp).  The second argument
\* is read before the first is written, which matters when both are one slot.
switch_context(old) ==
    LET next == rsp[cur]
    IN  /\ rsp' = [rsp EXCEPT ![old] = [stack |-> run, depth |-> depth[run]]]
        /\ run' = next.stack
        /\ depth' = [depth EXCEPT ![next.stack] = next.depth]

\* The end of a trace window: the innermost thread_scheduler on this stack
\* switches, and will return to its caller when the stack is resumed.
EndTrace ==
    /\ ~hung
    /\ frames[run] # <<>>
    /\ switch_context(Head(frames[run]).old)
    /\ frames' = [frames EXCEPT ![run] = Tail(@)]
    /\ UNCHANGED <<state, cur, tick, elapsed, hung, halted>>

OneTickLess(frame) == [old |-> frame.old, left |-> frame.left - 1]

\* The timer interrupt.  In a trace window it uses up one of the window's ticks.
Tick ==
    /\ ~hung
    /\ frames[run] # <<>> => Head(frames[run]).left > 0
    /\ tick' = AtMost(tick + 1, BootTicks + 1)
    /\ IF elapsed + 1 > TimerPeriod /\ tick + 1 > BootTicks
       THEN /\ elapsed' = 0
            /\ PickNext
       ELSE /\ elapsed' = AtMost(elapsed + 1, TimerPeriod + 1)
            /\ frames' = IF frames[run] = <<>> THEN frames
                         ELSE [frames EXCEPT ![run] =
                                 <<OneTickLess(Head(@))>> \o Tail(@)]
            /\ UNCHANGED <<cur, hung>>
    /\ UNCHANGED <<state, rsp, run, depth, halted>>

\* A thread that has not halted, executing its own code.
Executing ==
    /\ ~hung
    /\ frames[run] = <<>>
    /\ run \notin halted

\* It calls and returns from functions,
Compute ==
    /\ Executing
    /\ \E d \in Depths : depth' = [depth EXCEPT ![run] = d]
    /\ UNCHANGED <<state, cur, rsp, run, frames, tick, elapsed, hung, halted>>

\* Mutant: the state of a thread that is only registered, never scheduled.
SleepAsRegistered ==
    /\ Executing
    /\ state' = [state EXCEPT ![cur] = "SLEEP"]
    /\ UNCHANGED <<cur, rsp, run, depth, frames, tick, elapsed, hung, halted>>

\* puts itself to sleep: change_state(get_cur_thread_tid(), WAIT) in wait,
Sleep ==
    /\ Executing
    /\ state' = [state EXCEPT ![cur] = "WAIT"]
    /\ UNCHANGED <<cur, rsp, run, depth, frames, tick, elapsed, hung, halted>>

\* wakes another: change_state(tid, RUNNABLE) in signal,
Wake ==
    /\ Executing
    /\ \E i \in Slots \ Runnable : state' = [state EXCEPT ![i] = "RUNNABLE"]
    /\ UNCHANGED <<cur, rsp, run, depth, frames, tick, elapsed, hung, halted>>

\* and gives the processor away at the end of wait and of signal.  The call
\* does not restart the timer period.
Yield ==
    /\ Executing
    /\ LateYield \/ elapsed + TraceTicks <= TimerPeriod
    /\ PickNext
    /\ UNCHANGED <<state, rsp, run, depth, tick, elapsed, halted>>

Next == Tick \/ EndTrace \/ Compute \/ Sleep \/ Wake \/ Yield

\* The timer keeps ticking and a trace ends.  Nothing is assumed of threads.
Fairness == WF_vars(Tick) /\ WF_vars(EndTrace)

Spec == Init /\ [][Next]_vars /\ Fairness

-----------------------------------------------------------------------------
Frame == [old : Slots, left : 0..TraceTicks]

\* Types and ranges of the scheduler's variables (thread_scheduler).
TypeOK ==
    /\ state \in [Slots -> {"RUNNABLE", "WAIT"}]
    /\ cur \in Slots
    /\ rsp \in [Slots -> [stack : Slots, depth : Depths]]
    /\ run \in Slots
    /\ depth \in [Slots -> Depths]
    /\ frames \in [Slots -> Seq(Frame)]
    /\ tick \in 0..(BootTicks + 1)
    /\ elapsed \in 0..(TimerPeriod + 1)
    /\ hung \in BOOLEAN
    /\ halted \subseteq Slots

\* What is saved for a thread that is off the processor is its own stack, at
\* the place where it stopped (switch_context in thread_scheduler).
SavedContext ==
    \A i \in Slots \ {run} : rsp[i] = [stack |-> i, depth |-> depth[i]]

\* Outside a trace window the processor is, moreover, on the stack of the
\* thread that cur_thread_index names, so that get_cur_thread_tid answers with
\* the thread that asks (thread_scheduler, get_cur_thread_tid).
OwnContext == SavedContext /\ (frames[run] = <<>> => run = cur)

\* A thread goes on where it stopped: only a thread that executes its own code
\* moves a stack pointer, and only its own.  No switch does, but the one of a thread
\* that is alone RUNNABLE to itself: it goes back to where it was last switched away
\* from, which is where it stands only in halt() (switch_context).
ResumesWhereItStopped ==
    [][ depth' # depth =>
            /\ run' = run
            /\ \A i \in Slots \ {run} : depth'[i] = depth[i]
            /\ \/ frames[run] = <<>>
               \/ run \notin halted /\ Runnable = {run} ]_vars

\* As long as one thread is RUNNABLE, be it the current one, thread_scheduler's
\* search comes to it within one turn of the slots, and the processor does not
\* hang.  With the interrupts closed nothing else could end the search: only when
\* every thread sleeps it loops for ever (thread_scheduler, change_state).
SearchEnds ==
    \A j \in Slots : state[j] = "RUNNABLE" => ~hung /\ \E i \in 1..N : SlotAt(i) = j

\* How far from cur_thread_index c the search finds slot i.
Distance(c, i) == IF i > c THEN i - c ELSE i - c + N

\* Each time the processor goes to another thread, every RUNNABLE one that it
\* does not go to, the last one to run included, is nearer to its turn: at most
\* N - 1 others come before it (thread_scheduler).
TurnComesNearer ==
    [][ \A i \in Slots :
            state[i] = "RUNNABLE" /\ cur' \notin {cur, i} =>
                Distance(cur', i) < Distance(cur, i) ]_vars

\* No RUNNABLE thread is passed over for ever (round robin of
\* thread_scheduler): it gets the processor.
RunnableRuns == \A i \in Slots : (state[i] = "RUNNABLE") ~> (run = i)

-----------------------------------------------------------------------------
\* When switching is safe: a trace fits into a period, and no thread gives the
\* processor away too late for that.
Timely ==
    /\ ~LateYield
    /\ TraceTicks <= TimerPeriod

\* The inductive invariant behind OwnContext: what is saved for a slot is always its
\* own stack, if not the right place on it; at most one trace window is open, on the
\* stack that runs, opened by its own thread and too short for the period to expire
\* in it; a thread is only switched to itself when no other is RUNNABLE; and one in
\* halt() has saved the place where it is.
SchedulerInv ==
    /\ TypeOK
    /\ OwnContext
    /\ \A i \in Slots : rsp[i].stack = i
    /\ \A i \in Slots \ {run} : frames[i] = <<>>
    /\ \/ frames[run] = <<>>
       \/ \E f \in Frame : /\ frames[run] = <<f>>
                           /\ f.old = run
                           /\ elapsed + f.left <= TimerPeriod
                           /\ cur = run => Runnable = {run}
    /\ \A h \in halted : rsp[h].depth = depth[h]
=============================================================================

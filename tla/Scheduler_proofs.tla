-------------------------- MODULE Scheduler_proofs --------------------------
(***************************************************************************)
(* For every number of threads, period and trace length: when switching is *)
(* timely, no thread ever runs on another's stack or loses its place; and, *)
(* timely or not, every switch brings the turn of the others nearer, and   *)
(* the search for the next thread ends unless all of them sleep.           *)
(***************************************************************************)
EXTENDS Scheduler, IndexLemmas, SequenceTheorems

\* The search of thread_scheduler leads from one slot to another slot, or to
\* the same one when no other is RUNNABLE.
LEMMA SearchResult ==
    ASSUME TypeOK, PickNext, Runnable # {}
    PROVE  /\ cur' \in Slots
           /\ hung' = hung
           /\ frames' = [frames EXCEPT
                          ![run] = <<[old |-> cur, left |-> TraceTicks]>> \o @]
           /\ cur' = cur => Runnable = {cur}
  <1>1. PICK i \in 1..N : /\ SlotAt(i) \in Runnable
                          /\ \A k \in 1..(i - 1) : SlotAt(k) \notin Runnable
                          /\ cur' = SlotAt(i)
    BY DEF PickNext
  <1>2. cur \in 0..(N - 1)
    BY DEF TypeOK, Slots
  <1>3. SlotAt(i) \in Slots /\ (SlotAt(i) = cur <=> i = N)
    BY <1>2, WholeTurn, NAssumption DEF SlotAt, Slots
  <1>4. ASSUME cur' = cur, NEW j \in Slots \ {cur}, state[j] = "RUNNABLE"
        PROVE  FALSE
    <2>1. PICK k \in 1..(N - 1) : (cur + k) % N = j
      BY <1>2, EveryCellMet, NAssumption DEF Slots
    <2>2. SlotAt(k) \in Runnable
      BY <2>1, <1>4 DEF SlotAt, Runnable
    <2>3. i = N
      BY <1>1, <1>3, <1>4
    <2> QED BY <1>1, <2>1, <2>2, <2>3
  <1>5. cur' = cur => Runnable = {cur}
    BY <1>2, <1>4 DEF Runnable, Slots
  <1> QED BY <1>1, <1>3, <1>5 DEF PickNext

\* Opening a trace window on a stack that has none, early enough; or the search that
\* never ends.
LEMMA OpensOneWindow ==
    ASSUME Timely, SchedulerInv, PickNext, frames[run] = <<>>,
           elapsed' \in 0..(TimerPeriod + 1),
           elapsed' + TraceTicks <= TimerPeriod,
           tick' \in 0..(BootTicks + 1),
           UNCHANGED <<state, rsp, run, depth, halted>>
    PROVE  SchedulerInv'
  <1> USE TickAssumption DEF SchedulerInv
  <1>1. CASE Runnable = {}
    <2>1. hung' = TRUE /\ UNCHANGED <<cur, frames>>
      BY <1>1 DEF PickNext
    <2>2. TypeOK'
      BY <2>1 DEF TypeOK
    <2>3. OwnContext'
      BY <2>1 DEF OwnContext, SavedContext
    <2> QED BY <2>1, <2>2, <2>3
  <1>2. CASE Runnable # {}
    <2>1. /\ cur' \in Slots
          /\ hung' = hung
          /\ frames' = [frames EXCEPT
                         ![run] = <<[old |-> cur, left |-> TraceTicks]>> \o @]
          /\ cur' = cur => Runnable = {cur}
      BY <1>2, SearchResult
    <2> DEFINE f == [old |-> cur, left |-> TraceTicks]
    <2>2. /\ f \in Frame /\ f.old = cur /\ f.left = TraceTicks
          /\ frames \in [Slots -> Seq(Frame)] /\ run \in Slots /\ cur = run
      BY DEF Frame, TypeOK, OwnContext
    <2>3. frames' = [frames EXCEPT ![run] = <<f>>]
      <3>1. <<f>> \o <<>> = <<f>>
        BY <2>2, ConcatEmptySeq, <<f>> \in Seq(Frame)
      <3> QED BY <3>1, <2>1
    <2>4. frames'[run] = <<f>> /\ frames' \in [Slots -> Seq(Frame)]
      BY <2>2, <2>3
    <2>5. cur' = run => Runnable' = {run}
      BY <2>1, <2>2 DEF Runnable
    <2>6. TypeOK'
      BY <2>1, <2>4 DEF TypeOK
    <2>7. OwnContext'
      BY <2>1, <2>4 DEF OwnContext, SavedContext
    <2>8. \A i \in Slots \ {run'} : frames'[i] = <<>>
      BY <2>2, <2>3
    <2>9. \E g \in Frame : /\ frames'[run'] = <<g>>
                           /\ g.old = run'
                           /\ elapsed' + g.left <= TimerPeriod
                           /\ cur' = run' => Runnable' = {run'}
      <3> HIDE DEF f
      <3> QED BY <2>2, <2>4, <2>5
    <2> QED BY <2>6, <2>7, <2>8, <2>9
  <1> QED BY <1>1, <1>2

LEMMA TickPreserves ==
    ASSUME Timely, SchedulerInv, Tick
    PROVE  SchedulerInv'
  <1> USE TickAssumption DEF SchedulerInv
  <1>0. /\ elapsed \in 0..(TimerPeriod + 1) /\ tick \in 0..(BootTicks + 1)
        /\ frames \in [Slots -> Seq(Frame)] /\ run \in Slots
    BY DEF TypeOK
  <1>1. tick' \in 0..(BootTicks + 1)
    BY <1>0 DEF Tick, AtMost
  <1>2. CASE elapsed + 1 > TimerPeriod /\ tick + 1 > BootTicks
    <2>1. frames[run] = <<>>
      <3> SUFFICES ASSUME NEW f \in Frame, frames[run] = <<f>>,
                          elapsed + f.left <= TimerPeriod
                   PROVE  FALSE
        OBVIOUS
      <3>1. f.left > 0 /\ f.left \in Nat
        BY DEF Tick, Frame
      <3> QED BY <1>0, <1>2, <3>1
    <2>2. /\ PickNext /\ elapsed' = 0
          /\ UNCHANGED <<state, rsp, run, depth, halted>>
      BY <1>2 DEF Tick
    <2> QED BY <1>1, <2>1, <2>2, OpensOneWindow DEF Timely
  <1>3. CASE ~(elapsed + 1 > TimerPeriod /\ tick + 1 > BootTicks)
    <2>1. /\ elapsed' = AtMost(elapsed + 1, TimerPeriod + 1)
          /\ UNCHANGED <<state, cur, rsp, run, depth, hung, halted>>
      BY <1>3 DEF Tick
    <2>2. elapsed' \in 0..(TimerPeriod + 1)
      BY <1>0, <2>1 DEF AtMost
    <2>3. CASE frames[run] = <<>>
      <3>1. frames' = frames
        BY <1>3, <2>3 DEF Tick
      <3> QED BY <1>1, <2>1, <2>2, <2>3, <3>1
           DEF TypeOK, OwnContext, SavedContext, Runnable
    <2>4. CASE frames[run] # <<>>
      <3>1. PICK f \in Frame : /\ frames[run] = <<f>>
                               /\ f.old = run
                               /\ elapsed + f.left <= TimerPeriod
                               /\ cur = run => Runnable = {run}
        BY <2>4
      <3>2. f.left \in 1..TraceTicks
        BY <3>1, <2>4 DEF Tick, Frame
      <3> DEFINE g == OneTickLess(f)
      <3>3. g \in Frame /\ g.old = f.old /\ g.left = f.left - 1
        BY <3>2 DEF Frame, OneTickLess
      <3>4. frames' = [frames EXCEPT ![run] = <<g>>]
        <4>1. frames' = [frames EXCEPT ![run] =
                           <<OneTickLess(Head(frames[run]))>> \o Tail(frames[run])]
          BY <1>3, <2>4 DEF Tick
        <4>2. Head(frames[run]) = f /\ Tail(frames[run]) = <<>>
          BY <3>1
        <4>3. <<g>> \o <<>> = <<g>>
          BY <3>3, ConcatEmptySeq, <<g>> \in Seq(Frame)
        <4> QED BY <4>1, <4>2, <4>3
      <3> HIDE DEF g
      <3>5. /\ frames'[run] = <<g>> /\ frames' \in [Slots -> Seq(Frame)]
            /\ \A i \in Slots \ {run} : frames'[i] = <<>>
        BY <1>0, <3>3, <3>4
      <3>6. elapsed' + g.left <= TimerPeriod
        BY <1>0, <2>1, <3>1, <3>2, <3>3 DEF AtMost
      <3>7. TypeOK'
        BY <1>1, <2>1, <2>2, <3>5 DEF TypeOK
      <3>8. OwnContext'
        BY <2>1, <3>5 DEF OwnContext, SavedContext
      <3>9. \E x \in Frame : /\ frames'[run'] = <<x>>
                             /\ x.old = run'
                             /\ elapsed' + x.left <= TimerPeriod
                             /\ cur' = run' => Runnable' = {run'}
        BY <2>1, <3>1, <3>3, <3>5, <3>6 DEF Runnable
      <3> QED BY <2>1, <3>5, <3>7, <3>8, <3>9
    <2> QED BY <2>3, <2>4
  <1> QED BY <1>2, <1>3

\* The switch at the end of the trace window hands the processor to the
\* thread that cur_thread_index names, where that thread stopped; or, to the only
\* one that is RUNNABLE, where it was last switched away from.
LEMMA EndTracePreserves ==
    ASSUME SchedulerInv, EndTrace
    PROVE  /\ SchedulerInv'
           /\ depth' # depth => run' = run /\ run \notin halted /\ Runnable = {run}
           /\ \A i \in Slots \ {cur} : depth'[i] = depth[i]
           /\ run' = cur
  <1> USE DEF SchedulerInv
  <1>1. PICK f \in Frame : /\ frames[run] = <<f>>
                           /\ f.old = run
                           /\ cur = run => Runnable = {run}
    BY DEF EndTrace
  <1>2. /\ run \in Slots /\ cur \in Slots /\ depth \in [Slots -> Depths]
        /\ rsp \in [Slots -> [stack : Slots, depth : Depths]]
        /\ frames \in [Slots -> Seq(Frame)]
        /\ halted \subseteq Slots
    BY DEF TypeOK
  <1>3. rsp[cur].stack = cur /\ rsp[cur].depth \in Depths
    BY <1>2
  <1>4. cur # run \/ cur \in halted => rsp[cur].depth = depth[cur]
    BY <1>2 DEF OwnContext, SavedContext
  <1>5. /\ rsp' = [rsp EXCEPT ![run] = [stack |-> run, depth |-> depth[run]]]
        /\ run' = cur
        /\ depth' = [depth EXCEPT ![cur] = rsp[cur].depth]
        /\ UNCHANGED <<state, cur, tick, elapsed, hung, halted>>
    <2> HIDE DEF SchedulerInv
    <2>1. Head(frames[run]).old = run
      BY <1>1
    <2>2. switch_context(run) /\ UNCHANGED <<state, cur, tick, elapsed, hung, halted>>
      BY <2>1 DEF EndTrace
    <2> QED BY <2>2, <1>3 DEF switch_context
  <1>6. cur # run \/ cur \in halted => depth' = depth
    BY <1>2, <1>4, <1>5
  <1>7. frames' = [frames EXCEPT ![run] = <<>>]
    <2>1. Tail(<<f>>) = <<>>
      OBVIOUS
    <2> QED BY <1>1, <2>1 DEF EndTrace
  <1>8. /\ frames' \in [Slots -> Seq(Frame)]
        /\ \A i \in Slots : frames'[i] = <<>>
    <2>1. <<>> \in Seq(Frame)
      OBVIOUS
    <2> QED BY <1>2, <1>7, <2>1
  <1>9. TypeOK'
    <2>1. depth' \in [Slots -> Depths]
      BY <1>2, <1>3, <1>5
    <2>2. rsp' \in [Slots -> [stack : Slots, depth : Depths]]
      BY <1>2, <1>5
    <2> QED BY <1>2, <1>5, <1>8, <2>1, <2>2 DEF TypeOK
  <1>10. OwnContext'
    <2> SUFFICES ASSUME NEW i \in Slots \ {cur}
                 PROVE  rsp'[i] = [stack |-> i, depth |-> depth'[i]]
      BY <1>5 DEF OwnContext, SavedContext
    <2>1. depth'[i] = depth[i]
      BY <1>2, <1>5
    <2>2. CASE i = run
      BY <1>2, <1>5, <2>1, <2>2
    <2>3. CASE i # run
      BY <1>2, <1>5, <2>1, <2>3 DEF OwnContext, SavedContext
    <2> QED BY <2>2, <2>3
  <1>11. \A i \in Slots : rsp'[i].stack = i
    BY <1>2, <1>5
  <1>12. ASSUME NEW h \in halted' PROVE rsp'[h].depth = depth'[h]
    <2>1. h \in halted /\ h \in Slots
      BY <1>2, <1>5, <1>12
    <2>2. depth'[h] = depth[h]
      BY <1>2, <1>4, <1>5, <2>1
    <2>3. rsp'[h].depth = depth[h]
      BY <1>2, <1>5, <2>1
    <2> QED BY <2>2, <2>3
  <1>13. SchedulerInv'
    BY <1>2, <1>5, <1>8, <1>9, <1>10, <1>11, <1>12
  <1>14. depth' # depth => run' = run /\ run \notin halted /\ Runnable = {run}
    BY <1>1, <1>5, <1>6
  <1>15. \A i \in Slots \ {cur} : depth'[i] = depth[i]
    BY <1>2, <1>5
  <1> HIDE DEF SchedulerInv
  <1> QED BY <1>5, <1>13, <1>14, <1>15

\* What a thread does on its own stack disturbs nothing.
LEMMA ThreadPreserves ==
    ASSUME Timely, SchedulerInv, Compute \/ Sleep \/ Wake \/ Yield
    PROVE  SchedulerInv'
  <1> USE DEF SchedulerInv
  <1>0. /\ state \in [Slots -> {"RUNNABLE", "WAIT"}]
        /\ depth \in [Slots -> Depths] /\ run \in Slots /\ cur \in Slots
    BY DEF TypeOK
  <1>1. CASE Compute
    <2>1. PICK d \in Depths : depth' = [depth EXCEPT ![run] = d]
      BY <1>1 DEF Compute
    <2>2. /\ run \notin halted /\ frames[run] = <<>>
          /\ UNCHANGED <<state, cur, rsp, run, frames, tick, elapsed, hung, halted>>
      BY <1>1 DEF Compute, Executing
    <2> QED BY <1>0, <2>1, <2>2 DEF TypeOK, OwnContext, SavedContext
  <1>2. CASE Sleep \/ Wake
    <2>1. state' \in [Slots -> {"RUNNABLE", "WAIT"}]
      BY <1>0, <1>2 DEF Sleep, Wake
    <2>2. /\ frames[run] = <<>>
          /\ UNCHANGED <<cur, rsp, run, depth, frames, tick, elapsed, hung, halted>>
      BY <1>2 DEF Sleep, Wake, Executing
    <2> QED BY <2>1, <2>2 DEF TypeOK, OwnContext, SavedContext
  <1>3. CASE Yield
    <2>1. /\ frames[run] = <<>> /\ PickNext
          /\ elapsed + TraceTicks <= TimerPeriod
          /\ UNCHANGED <<state, rsp, run, depth, tick, elapsed, halted>>
      BY <1>3 DEF Yield, Executing, Timely
    <2>2. elapsed' \in 0..(TimerPeriod + 1) /\ tick' \in 0..(BootTicks + 1)
      BY <2>1 DEF TypeOK
    <2> QED BY <2>1, <2>2, OpensOneWindow
  <1> QED BY <1>1, <1>2, <1>3

LEMMA SchedulerInvariant ==
    ASSUME Timely
    PROVE  Spec => []SchedulerInv
  <1>1. Init => SchedulerInv
    <2> SUFFICES ASSUME Init PROVE SchedulerInv
      OBVIOUS
    <2>1. 0 \in Slots /\ <<>> \in Seq(Frame)
      BY NAssumption DEF Slots
    <2>2. TypeOK
      BY <2>1, TickAssumption, DepthAssumption, HaltedAssumption DEF Init, TypeOK
    <2>3. OwnContext
      BY <2>1 DEF Init, OwnContext, SavedContext
    <2>4. /\ \A i \in Slots : frames[i] = <<>>
          /\ \A i \in Slots : rsp[i].stack = i
          /\ \A h \in halted : rsp[h].depth = depth[h]
      BY HaltedAssumption DEF Init
    <2> QED BY <2>1, <2>2, <2>3, <2>4 DEF SchedulerInv, Init
  <1>2. SchedulerInv /\ [Next]_vars => SchedulerInv'
    <2> SUFFICES ASSUME SchedulerInv, [Next]_vars PROVE SchedulerInv'
      OBVIOUS
    <2>1. CASE Tick
      BY <2>1, TickPreserves
    <2>2. CASE EndTrace
      BY <2>2, EndTracePreserves
    <2>3. CASE Compute \/ Sleep \/ Wake \/ Yield
      BY <2>3, ThreadPreserves
    <2>4. CASE UNCHANGED vars
      BY <2>4 DEF vars, SchedulerInv, TypeOK, OwnContext, SavedContext, Runnable
    <2> QED BY <2>1, <2>2, <2>3, <2>4 DEF Next
  <1> QED BY <1>1, <1>2, PTL DEF Spec

\* Types and ranges, for any number of threads (thread_scheduler).
THEOREM SchedulerTypes ==
    ASSUME Timely
    PROVE  Spec => []TypeOK
  BY SchedulerInvariant, PTL DEF SchedulerInv

\* With timely switching every thread keeps its own stack, and
\* cur_thread_index names the thread that runs (thread_scheduler,
\* switch_context, get_cur_thread_tid).
THEOREM ThreadsKeepTheirContext ==
    ASSUME Timely
    PROVE  Spec => []OwnContext
  BY SchedulerInvariant, PTL DEF SchedulerInv

\* A switch resumes every thread exactly where it stopped; but for the one of a thread
\* that is alone RUNNABLE, and not in halt(), to itself (switch_context).
THEOREM SwitchResumes ==
    ASSUME Timely
    PROVE  Spec => ResumesWhereItStopped
  <1> DEFINE A == [depth' # depth =>
                      /\ run' = run
                      /\ \A i \in Slots \ {run} : depth'[i] = depth[i]
                      /\ \/ frames[run] = <<>>
                         \/ run \notin halted /\ Runnable = {run}]_vars
  <1>1. SchedulerInv /\ [Next]_vars => A
    <2> SUFFICES ASSUME SchedulerInv, Next, depth' # depth
                 PROVE  /\ run' = run
                        /\ \A i \in Slots \ {run} : depth'[i] = depth[i]
                        /\ \/ frames[run] = <<>>
                           \/ run \notin halted /\ Runnable = {run}
      BY DEF vars
    <2>1. CASE Compute
      BY <2>1 DEF Compute, Executing, SchedulerInv, TypeOK
    <2>2. CASE EndTrace
      BY <2>2, EndTracePreserves
    <2>3. CASE Tick \/ Sleep \/ Wake \/ Yield
      BY <2>3 DEF Tick, Sleep, Wake, Yield
    <2> QED BY <2>1, <2>2, <2>3 DEF Next
  <1> QED BY <1>1, SchedulerInvariant, PTL DEF Spec, ResumesWhereItStopped

\* The search reaches a slot after as many steps as its distance.
LEMMA FoundAtDistance ==
    ASSUME NEW c \in Slots, NEW j \in Slots
    PROVE  /\ Distance(c, j) \in 1..N
           /\ (c + Distance(c, j)) % N = j
  <1>1. /\ c \in Nat /\ c < N
        /\ j \in Nat /\ j < N
        /\ N \in Nat \ {0}
    BY NAssumption DEF Slots
  <1>2. Distance(c, j) \in 1..N
    BY <1>1 DEF Distance
  <1>3. PICK x \in Nat : x = c + Distance(c, j)
    BY <1>1, <1>2
  <1>4. x = IF j > c THEN j ELSE j + N
    BY <1>1, <1>3 DEF Distance
  <1>5. x < 2 * N
    BY <1>1, <1>4
  <1>6. x % N = IF x < N THEN x ELSE x - N
    BY <1>1, <1>5, ModOnce
  <1>7. x % N = j
    BY <1>1, <1>4, <1>6
  <1> QED BY <1>2, <1>3, <1>7

\* i steps of the search bring every slot that lies further off nearer by i.
LEMMA NearerBySteps ==
    ASSUME NEW c \in Slots, NEW j \in Slots, NEW i \in 1..N,
           i < Distance(c, j)
    PROVE  Distance((c + i) % N, j) = Distance(c, j) - i
  <1> USE NAssumption DEF Slots
  <1>1. (c + i) % N = IF c + i < N THEN c + i ELSE c + i - N
    <2>1. PICK x \in Nat : x = c + i /\ x < 2 * N
      OBVIOUS
    <2>2. x % N = IF x < N THEN x ELSE x - N
      BY <2>1, ModOnce
    <2> QED BY <2>1, <2>2
  <1>2. CASE j > c
    <2>1. c + i < j
      BY <1>2 DEF Distance
    <2> QED BY <1>1, <1>2, <2>1 DEF Distance
  <1>3. CASE ~(j > c)
    <2>1. c + i < j + N
      BY <1>3 DEF Distance
    <2>2. CASE c + i < N
      BY <1>1, <1>3, <2>2 DEF Distance
    <2>3. CASE ~(c + i < N)
      BY <1>1, <1>3, <2>1, <2>3 DEF Distance
    <2> QED BY <2>2, <2>3
  <1> QED BY <1>2, <1>3

\* The search stops at the RUNNABLE slot that is fewest steps away.
LEMMA PicksTheNearest ==
    ASSUME cur \in Slots, PickNext, NEW j \in Slots, state[j] = "RUNNABLE",
           cur' # cur, cur' # j
    PROVE  Distance(cur', j) < Distance(cur, j)
  <1>1. PICK i \in 1..N : /\ \A k \in 1..(i - 1) : SlotAt(k) \notin Runnable
                          /\ cur' = SlotAt(i)
    BY DEF PickNext
  <1>2. PICK d \in 1..N : d = Distance(cur, j) /\ SlotAt(d) = j
    BY FoundAtDistance DEF SlotAt
  <1>3. d \notin 1..(i - 1)
    BY <1>1, <1>2 DEF Runnable
  <1>4. d # i
    BY <1>1, <1>2
  <1>5. i < d
    BY <1>3, <1>4, NAssumption
  <1>6. Distance(cur', j) = d - i
    BY <1>1, <1>2, <1>5, NearerBySteps DEF SlotAt
  <1> QED BY <1>2, <1>6, NAssumption

LEMMA CurIsASlot == Spec => [](cur \in Slots)
  <1>1. Init => cur \in Slots
    BY NAssumption DEF Init, Slots
  <1>2. cur \in Slots /\ [Next]_vars => (cur \in Slots)'
    <2> SUFFICES ASSUME cur \in Slots, Next \/ UNCHANGED vars
                 PROVE  cur' \in Slots
      OBVIOUS
    <2>1. ASSUME PickNext PROVE cur' \in Slots
      <3>1. cur' = cur \/ \E i \in 1..N : cur' = SlotAt(i)
        BY <2>1 DEF PickNext
      <3>2. \A i \in 1..N : SlotAt(i) \in Slots
        BY WholeTurn, NAssumption DEF SlotAt, Slots
      <3> QED BY <3>1, <3>2
    <2>2. PickNext \/ cur' = cur
      BY DEF Next, Tick, EndTrace, switch_context, Compute, Sleep, Wake, Yield, vars
    <2> QED BY <2>1, <2>2
  <1> QED BY <1>1, <1>2, PTL DEF Spec

\* Whatever the threads do, and with no thread that never sleeps to fall back on:
\* the search comes to every RUNNABLE thread within one turn of the slots, and the
\* processor hangs only when all of them sleep (thread_scheduler, change_state).
THEOREM SearchEndsUnlessAllSleep == Spec => []SearchEnds
  <1> DEFINE Asleep == hung => \A j \in Slots : state[j] # "RUNNABLE"
  <1>1. Init => Asleep
    BY DEF Init
  <1>2. Asleep /\ [Next]_vars => Asleep'
    <2> SUFFICES ASSUME Asleep, Next \/ UNCHANGED vars PROVE Asleep'
      OBVIOUS
    <2>1. CASE PickNext /\ UNCHANGED state
      BY <2>1 DEF PickNext, Runnable
    <2>2. CASE hung' = hung /\ (hung => UNCHANGED state)
      BY <2>2
    <2>3. \/ PickNext /\ UNCHANGED state
          \/ hung' = hung /\ (hung => UNCHANGED state)
      BY DEF Next, Tick, EndTrace, Compute, Sleep, Wake, Yield, Executing, vars
    <2> QED BY <2>1, <2>2, <2>3
  <1>3. cur \in Slots /\ Asleep => SearchEnds
    BY FoundAtDistance DEF SearchEnds, SlotAt
  <1> HIDE DEF Asleep
  <1> QED BY <1>1, <1>2, <1>3, CurIsASlot, PTL DEF Spec

\* Whenever the processor goes to another thread, every RUNNABLE thread it does
\* not go to is nearer to its turn, so that at most N - 1 others come before
\* it, whatever the threads do and however late they give the processor away
\* (thread_scheduler).
THEOREM TurnsComeNearer == Spec => TurnComesNearer
  <1> DEFINE A == [\A i \in Slots :
                     state[i] = "RUNNABLE" /\ cur' \notin {cur, i} =>
                         Distance(cur', i) < Distance(cur, i)]_vars
  <1>1. cur \in Slots /\ [Next]_vars => A
    <2> SUFFICES ASSUME cur \in Slots, Next, NEW i \in Slots,
                        state[i] = "RUNNABLE", cur' # cur, cur' # i
                 PROVE  Distance(cur', i) < Distance(cur, i)
      BY DEF vars
    <2>1. PickNext
      BY DEF Next, Tick, EndTrace, Compute, Sleep, Wake, Yield
    <2> QED BY <2>1, PicksTheNearest
  <1> QED BY <1>1, CurIsASlot, PTL DEF Spec, TurnComesNearer
=============================================================================

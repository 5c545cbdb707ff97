--------------------------- MODULE Threads_proofs ---------------------------
(***************************************************************************)
(* For any number of slots, of threads and of places in a list of          *)
(* children: a thread keeps its slot and is found by its tid, wherever the *)
(* timer parts the creation and the end of threads, and fork_thread tells  *)
(* parent and child apart.                                                 *)
(***************************************************************************)
EXTENDS Threads, TLAPS

USE SlotsAssumption, ChildrenAssumption, MaxThreadsAssumption
USE DEF table, fields, processor, locals, forking, vars,
        init, empty_thread, None, Slots, Places, Structs, At, Goto, InFork, Asking

\* thread_scheduler picks a RUNNABLE thread in the table.
LEMMA SchedulerResult ==
    ASSUME ThreadsInv, thread_scheduler
    PROVE  /\ cur' \in Slots /\ threads[cur'] # empty_thread
           /\ threads[cur'] \in Structs /\ state[threads[cur']] = "RUNNABLE"
           /\ switching = "no" /\ switching' = "trace" /\ run' = run
  BY DEF thread_scheduler, Holds, ThreadsInv, TypeOK

\* Whoever runs is in the slot that cur_thread_index names, and
\* get_cur_thread_tid answers with its tid, which leads to that slot only.
LEMMA RunsAt ==
    ASSUME ThreadsInv, switching = "no", pc[run] \notin Ending, Announced(run)
    PROVE  /\ threads[cur] = run /\ index[run] = cur /\ Registered(run)
           /\ \A s \in Slots : FoundAt(get_cur_thread_tid, s) => s = cur
  <1>1. threads[cur] = run /\ cur \in Slots /\ run \in Structs
    BY DEF ThreadsInv, TypeOK, RunsInItsSlot
  <1>2. index[run] = cur
    BY <1>1 DEF ThreadsInv, OneSlotEach
  <1>3. Registered(run)
    BY <1>1, <1>2 DEF Registered
  <1>4. FoundAt(tid[run], cur)
    BY <1>1, <1>2, <1>3 DEF ThreadsInv, KeepsItsSlot
  <1>. QED BY <1>1, <1>2, <1>3, <1>4 DEF FoundAt, get_cur_thread_tid

\* find_ctid returns the last child in the list.
LEMMA FindsLast ==
    ASSUME ThreadsInv, NEW t \in Structs, NEW p \in Places,
           ctid[t][p] # None, \A q \in Places : q > p => ctid[t][q] = None
    PROVE  find_ctid(t) = ctid[t][p]
  <1>1. ctid[t] # NoChildren
    BY DEF NoChildren
  <1>2. \A r \in Places : (ctid[t][r] # None /\ \A q \in Places : q > r => ctid[t][q] = None) => r = p
    OBVIOUS
  <1>3. ctids(t) = ctid[t]
    BY DEF ctids
  <1>. QED BY <1>1, <1>2, <1>3 DEF find_ctid

\* find_ctid returns a tid that is in a list, or -1.
LEMMA FindsType ==
    ASSUME ThreadsInv, NEW t \in Structs \cup {empty_thread}
    PROVE  find_ctid(t) \in Tids \cup {None}
  <1>1. CASE t = empty_thread
    <2>1. /\ ctids(t)[NTHREAD_CHILD - 1] # None /\ NTHREAD_CHILD - 1 \in Places
          /\ \A q \in Places : ~(q > NTHREAD_CHILD - 1)
      BY <1>1 DEF ctids
    <2>2. \A p \in Places : (\A q \in Places : q > p => ctids(t)[q] = None) => p = NTHREAD_CHILD - 1
      BY <1>1, <2>1 DEF ctids
    <2>3. ctids(t) # NoChildren /\ ctids(t)[NTHREAD_CHILD - 1] = 0
      BY <1>1, <2>1 DEF ctids, NoChildren
    <2>4. find_ctid(t) = 0
      BY <2>1, <2>2, <2>3 DEF find_ctid
    <2>. QED BY <2>4 DEF ThreadsInv, TypeOK, Tids
  <1>2. CASE t \in Structs /\ ctid[t] = NoChildren
    BY <1>2 DEF find_ctid, ctids
  <1>3. CASE t = init /\ ctid[t] # NoChildren
    <2>1. PICK p \in Places : ctid[init][p] # None /\ \A q \in Places : q > p => ctid[init][q] = None
      BY <1>3 DEF ThreadsInv, Children
    <2>2. find_ctid(init) = ctid[init][p] /\ init \in Structs
      BY <2>1, FindsLast
    <2>. QED BY <1>3, <2>1, <2>2 DEF ThreadsInv, TypeOK
  <1>. QED BY <1>1, <1>2, <1>3 DEF ThreadsInv, Children

\* What find_ctid says of the parent and of the child.
LEMMA ForkTells ==
    ASSUME ThreadsInv, NEW t \in Structs, t = init => pc[init] \in InFork
    PROVE  find_ctid(t) = IF t = init THEN tid[new] ELSE None
  <1>1. CASE t # init
    BY <1>1 DEF find_ctid, ctids, ThreadsInv, Children
  <1>2. CASE t = init
    BY <1>2, FindsLast DEF ThreadsInv, Children
  <1>. QED BY <1>1, <1>2

\* Whoever asks at the end of fork_thread has come through thread_run.
LEMMA AskersAnnounced ==
    ASSUME ThreadsInv, NEW t \in Structs, pc[t] \in InFork
    PROVE  Announced(t)
  BY DEF Announced, ThreadsInv, TypeOK, Origin, CallUnderWay, Calling, Entering, Labels, Ending

\* What leaves the frame, and those who use it, alone keeps their answers.
LEMMA FrameKept ==
    ASSUME ThreadsInv, UNCHANGED <<run, switching, frame, disturbed>>,
           \A t \in Structs : pc'[t] \in Asking => pc'[t] = pc[t] /\ tid'[t] = tid[t],
           pc[init] \in Asking => new' = new /\ tid'[new] = tid[new]
    PROVE  OwnFrame' /\ ForkAnswers'
  BY DEF ThreadsInv, OwnFrame, ForkAnswers

\* A thread that is switched away from while it asks is disturbed.
LEMMA FrameLost ==
    ASSUME ThreadsInv, \A t \in Structs \ {run} : t \in disturbed => t \in disturbed',
           \A t \in Structs : pc'[t] \in Asking => pc[t] = pc'[t],
           pc[run] \in Asking => run \in disturbed'
    PROVE  OwnFrame' /\ ForkAnswers'
  BY DEF ThreadsInv, OwnFrame, ForkAnswers

\* No child in the list of a parent ends.
LEMMA NoneCleared ==
    ASSUME ThreadsInv, NEW t \in Structs, clear_ctid(t)
    PROVE  ctid' = ctid
  <1>1. PICK s \in Slots : ctid' = [ctid EXCEPT ![threads[s]] =
                              [p \in Places |-> IF @[p] = tid[t] THEN None ELSE @[p]]]
    BY DEF clear_ctid
  <1>2. CASE threads[s] \in Structs
    <2>1. tid[t] # None /\ ~Forked(t)
      BY DEF ThreadsInv, Children, clear_ctid, Ending
    <2>2. threads[s] # init => ctid[threads[s]] = NoChildren
      BY <1>2 DEF ThreadsInv, Children
    <2>3. \A p \in Places : ctid[threads[s]][p] # tid[t]
      BY <1>2, <2>1, <2>2 DEF Forked, NoChildren
    <2>4. [p \in Places |-> IF ctid[threads[s]][p] = tid[t] THEN None ELSE ctid[threads[s]][p]] = ctid[threads[s]]
      BY <1>2, <2>3 DEF ThreadsInv, TypeOK
    <2>. QED BY <1>1, <2>4 DEF ThreadsInv, TypeOK
  <1>3. CASE threads[s] \notin Structs
    BY <1>1, <1>3 DEF ThreadsInv, TypeOK
  <1>. QED BY <1>2, <1>3

-----------------------------------------------------------------------------

\* A call of thread_scheduler that does not move the thread that makes it.
LEMMA PicksInv ==
    ASSUME ThreadsInv, thread_scheduler, UNCHANGED <<table, allocated, fields, pc, locals>>,
           frame' = frame, disturbed' \in SUBSET Structs
    PROVE  /\ TypeOK' /\ KeepsItsSlot' /\ RunsInItsSlot' /\ Origin' /\ OneSlotEach'
           /\ EndsAlone' /\ WaitsInItsSlot' /\ CallUnderWay' /\ Children'
  <1>1. TypeOK'
    BY SchedulerResult DEF ThreadsInv, TypeOK, Labels, Tids
  <1>2. \A u \in Structs : Registered(u)' <=> Registered(u)
    BY DEF Registered, Announced
  <1>3. KeepsItsSlot' /\ Origin' /\ OneSlotEach'
    BY <1>2 DEF ThreadsInv, KeepsItsSlot, FoundAt, Origin, OneSlotEach
  <1>4. RunsInItsSlot' /\ EndsAlone'
    BY SchedulerResult DEF ThreadsInv, RunsInItsSlot, EndsAlone
  <1>5. WaitsInItsSlot'
    BY <1>2, SchedulerResult DEF ThreadsInv, WaitsInItsSlot, Holds
  <1>6. CallUnderWay' /\ Children'
    BY DEF ThreadsInv, CallUnderWay, Free, Children, Forked, NoChildren
  <1>. QED BY <1>1, <1>3, <1>4, <1>5, <1>6

\* timer_handler calls thread_scheduler, which picks a thread
LEMMA PreemptInv ==
    ASSUME ThreadsInv, Preempt
    PROVE  ThreadsInv'
  <1>1. disturbed' \in SUBSET Structs
    BY DEF Preempt, ThreadsInv, TypeOK
  <1>2. OwnFrame' /\ ForkAnswers'
    BY FrameLost DEF ThreadsInv, TypeOK, Preempt, thread_scheduler
  <1> QED BY <1>1, <1>2, PicksInv DEF Preempt, ThreadsInv

\* and gives it the processor.
LEMMA SwitchContextInv ==
    ASSUME ThreadsInv, switch_context
    PROVE  ThreadsInv'
  <1>1. /\ threads[cur] \in Structs /\ state[threads[cur]] = "RUNNABLE" /\ switching = "trace"
        /\ switching' \in {"no", "lost"} /\ run' = threads[cur] /\ pc[run'] \notin Ending
    BY DEF switch_context, ThreadsInv, TypeOK, WaitsInItsSlot, Holds, OneSlotEach
  <1>2. TypeOK'
    BY <1>1 DEF switch_context, ThreadsInv, TypeOK, Labels, Tids
  <1>3. /\ KeepsItsSlot' /\ RunsInItsSlot' /\ Origin' /\ OneSlotEach' /\ EndsAlone'
        /\ CallUnderWay' /\ Children'
    BY <1>1 DEF ThreadsInv, switch_context, TypeOK, KeepsItsSlot,
       Registered, Announced, FoundAt, RunsInItsSlot, Origin, EndsAlone,
       OneSlotEach, CallUnderWay, Calling, Entering, Free,
       Children, Forked, NoChildren
  <1>4. WaitsInItsSlot'
    BY <1>1 DEF ThreadsInv, switch_context, WaitsInItsSlot, Registered, Announced
  <1>5. OwnFrame' /\ ForkAnswers'
    BY <1>1 DEF ThreadsInv, switch_context, OwnFrame, ForkAnswers
  <1> QED BY <1>2, <1>3, <1>4, <1>5 DEF ThreadsInv

\* create_thread allocates a structure,
LEMMA CreateThreadInv ==
    ASSUME ThreadsInv, create_thread
    PROVE  ThreadsInv'
  <1>1. TypeOK'
    BY SMTT(30) DEF ThreadsInv, create_thread, begins, TypeOK, Labels, Tids
  <1>2. CallUnderWay'
    BY DEF ThreadsInv, create_thread, begins, TypeOK, Origin, Ending,
       CallUnderWay, Calling, Entering, Free
  <1>3. /\ KeepsItsSlot' /\ RunsInItsSlot' /\ Origin' /\ OneSlotEach'
         /\ EndsAlone' /\ WaitsInItsSlot' /\ Children'
    BY SMTT(30) DEF ThreadsInv, create_thread, begins, TypeOK, KeepsItsSlot,
       Registered, Announced, FoundAt, Ending, RunsInItsSlot, Origin,
       OneSlotEach, EndsAlone, WaitsInItsSlot, Children, Forked, NoChildren
  <1>4. OwnFrame' /\ ForkAnswers'
    BY FrameKept DEF ThreadsInv, TypeOK, create_thread, begins, CallUnderWay, Calling, Entering, Ending
  <1> QED BY <1>1, <1>2, <1>3, <1>4 DEF ThreadsInv

\* or fork_thread does.
LEMMA ForkThreadInv ==
    ASSUME ThreadsInv, fork_thread
    PROVE  ThreadsInv'
  <1>1. TypeOK'
    BY SMTT(30) DEF ThreadsInv, fork_thread, begins, TypeOK, Labels, Tids
  <1>2. CallUnderWay'
    BY DEF ThreadsInv, fork_thread, begins, TypeOK, Origin, Ending,
       CallUnderWay, Calling, Entering, Free
  <1>3. /\ KeepsItsSlot' /\ RunsInItsSlot' /\ Origin' /\ OneSlotEach'
         /\ EndsAlone' /\ WaitsInItsSlot' /\ Children'
    BY SMTT(30) DEF ThreadsInv, fork_thread, begins, TypeOK, KeepsItsSlot, Registered,
       Announced, FoundAt, Ending, RunsInItsSlot, Origin, OneSlotEach, EndsAlone,
       WaitsInItsSlot, Children, Forked, NoChildren
  <1>4. OwnFrame' /\ ForkAnswers'
    BY FrameKept DEF ThreadsInv, TypeOK, fork_thread, begins, CallUnderWay, Calling, Entering, Ending
  <1> QED BY <1>1, <1>2, <1>3, <1>4 DEF ThreadsInv

\* thread_run and thread_register look for a free slot:
LEMMA LooksOnInv ==
    ASSUME ThreadsInv, looks_on
    PROVE  ThreadsInv'
  <1>1. TypeOK'
    BY SMTT(30) DEF ThreadsInv, looks_on, Free, TypeOK, Labels, Tids
  <1>2. /\ KeepsItsSlot' /\ RunsInItsSlot' /\ Origin' /\ OneSlotEach' /\ EndsAlone'
         /\ WaitsInItsSlot' /\ CallUnderWay' /\ Children'
    BY SMTT(30) DEF ThreadsInv, looks_on, Free, TypeOK, KeepsItsSlot, Registered,
       Announced, FoundAt, Ending, RunsInItsSlot, Origin, OneSlotEach, EndsAlone,
       WaitsInItsSlot, CallUnderWay, Calling, Entering, Free, Children, Forked,
       NoChildren
  <1>3. OwnFrame' /\ ForkAnswers'
    BY FrameKept DEF ThreadsInv, TypeOK, looks_on, CallUnderWay, Calling, Entering, Ending
  <1> QED BY <1>1, <1>2, <1>3 DEF ThreadsInv

\* there is none,
LEMMA FindsNoneInv ==
    ASSUME ThreadsInv, finds_none
    PROVE  ThreadsInv'
  <1>1. TypeOK'
    BY DEF ThreadsInv, finds_none, Free, TypeOK, Labels, Tids
  <1>2. KeepsItsSlot'
    BY DEF ThreadsInv, finds_none, Free, TypeOK, CallUnderWay, Calling,
       Entering, Free, KeepsItsSlot, Registered, Announced, FoundAt, Ending
  <1>3. /\ RunsInItsSlot' /\ Origin' /\ OneSlotEach' /\ EndsAlone'
         /\ WaitsInItsSlot' /\ CallUnderWay' /\ Children'
    BY DEF ThreadsInv, finds_none, Free, TypeOK, RunsInItsSlot, Ending,
       Origin, OneSlotEach, EndsAlone, WaitsInItsSlot, Registered, Announced,
       CallUnderWay, Calling, Entering, Free, Children, Forked, NoChildren
  <1>4. OwnFrame' /\ ForkAnswers'
    BY FrameKept DEF ThreadsInv, TypeOK, finds_none, CallUnderWay, Calling, Entering, Ending
  <1> QED BY <1>1, <1>2, <1>3, <1>4 DEF ThreadsInv

\* or there is one,
LEMMA FindsFreeInv ==
    ASSUME ThreadsInv, finds_free
    PROVE  ThreadsInv'
  <1>1. TypeOK'
    BY DEF ThreadsInv, finds_free, Free, TypeOK, Labels, Tids
  <1>2. /\ KeepsItsSlot' /\ RunsInItsSlot' /\ Origin' /\ OneSlotEach' /\ EndsAlone'
         /\ WaitsInItsSlot' /\ CallUnderWay' /\ Children'
    BY DEF ThreadsInv, finds_free, Free, TypeOK, KeepsItsSlot, Registered,
       Announced, FoundAt, Ending, RunsInItsSlot, Origin, OneSlotEach, EndsAlone,
       WaitsInItsSlot, CallUnderWay, Calling, Entering, Free, Children, Forked,
       NoChildren
  <1>3. OwnFrame' /\ ForkAnswers'
    BY FrameKept DEF ThreadsInv, TypeOK, finds_free, CallUnderWay, Calling, Entering, Ending
  <1> QED BY <1>1, <1>2, <1>3 DEF ThreadsInv

\* which the new thread gets
LEMMA TakesSlotInv ==
    ASSUME ThreadsInv, takes_slot
    PROVE  ThreadsInv'
  <1>1. TypeOK'
    BY DEF ThreadsInv, takes_slot, TypeOK, Labels, Tids, CallUnderWay,
       Calling, Entering, Free
  <1>2. KeepsItsSlot'
    BY DEF ThreadsInv, takes_slot, TypeOK, CallUnderWay, Calling, Entering,
       Free, KeepsItsSlot, Registered, Announced, FoundAt, Ending
  <1>3. RunsInItsSlot'
    BY DEF ThreadsInv, takes_slot, TypeOK, CallUnderWay, Calling, Entering,
       Free, RunsInItsSlot, Ending
  <1>4. Origin'
    BY DEF ThreadsInv, takes_slot, TypeOK, CallUnderWay, Calling, Entering,
       Free, Origin, Ending
  <1>5. OneSlotEach'
    BY DEF ThreadsInv, takes_slot, TypeOK, CallUnderWay, Calling, Entering,
       Free, OneSlotEach, Ending
  <1>6. WaitsInItsSlot'
    BY DEF ThreadsInv, takes_slot, TypeOK, CallUnderWay, Calling, Entering,
       Free, OneSlotEach, Ending, WaitsInItsSlot, Registered, Announced
  <1>7. EndsAlone' /\ CallUnderWay' /\ Children'
    BY DEF ThreadsInv, takes_slot, TypeOK, EndsAlone, Ending, CallUnderWay,
       Calling, Entering, Free, Children, Forked, NoChildren
  <1>8. OwnFrame' /\ ForkAnswers'
    BY FrameKept DEF ThreadsInv, TypeOK, takes_slot, CallUnderWay, Calling, Entering, Ending
  <1> QED BY <1>1, <1>2, <1>3, <1>4, <1>5, <1>6, <1>7, <1>8 DEF ThreadsInv

\* with the tid of its creator
LEMMA SetsPtidInv ==
    ASSUME ThreadsInv, sets_ptid
    PROVE  ThreadsInv'
  <1>1. TypeOK'
    BY DEF ThreadsInv, sets_ptid, get_cur_thread_tid, TypeOK, Labels, Tids,
       CallUnderWay, Calling, Entering, Free
  <1>2. /\ KeepsItsSlot' /\ RunsInItsSlot' /\ Origin' /\ OneSlotEach' /\ EndsAlone'
         /\ WaitsInItsSlot' /\ CallUnderWay' /\ Children'
    BY DEF ThreadsInv, sets_ptid, get_cur_thread_tid, TypeOK, KeepsItsSlot,
       Registered, Announced, FoundAt, Ending, RunsInItsSlot, Origin,
       OneSlotEach, EndsAlone, WaitsInItsSlot, CallUnderWay, Calling, Entering,
       Free, Children, Forked, NoChildren
  <1>3. OwnFrame' /\ ForkAnswers'
    BY FrameKept DEF ThreadsInv, TypeOK, sets_ptid, CallUnderWay, Calling, Entering, Ending
  <1> QED BY <1>1, <1>2, <1>3 DEF ThreadsInv

\* and a tid of its own,
LEMMA SetsTidInv ==
    ASSUME ThreadsInv, sets_tid
    PROVE  ThreadsInv'
  <1>1. TypeOK'
    BY DEF ThreadsInv, sets_tid, TypeOK, Labels, Tids, CallUnderWay, Calling,
       Entering, Free
  <1>2. KeepsItsSlot'
    BY DEF ThreadsInv, sets_tid, TypeOK, CallUnderWay, Calling, Entering,
       Free, KeepsItsSlot, Registered, Announced, FoundAt, Ending
  <1>3. Origin'
    BY DEF ThreadsInv, sets_tid, TypeOK, CallUnderWay, Calling, Entering,
       Free, Origin, Ending
  <1>4. OneSlotEach'
    BY DEF ThreadsInv, sets_tid, TypeOK, CallUnderWay, Calling, Entering,
       Free, Origin, Ending, OneSlotEach
  <1>5. Children'
    BY DEF ThreadsInv, sets_tid, TypeOK, CallUnderWay, Calling, Entering,
       Free, Children, Forked, NoChildren, Ending
  <1>6. RunsInItsSlot' /\ EndsAlone' /\ WaitsInItsSlot' /\ CallUnderWay'
    BY DEF ThreadsInv, sets_tid, TypeOK, RunsInItsSlot, Ending, EndsAlone,
       WaitsInItsSlot, Registered, Announced, CallUnderWay, Calling, Entering,
       Free
  <1>7. OwnFrame' /\ ForkAnswers'
    BY FrameKept DEF ThreadsInv, TypeOK, sets_tid, CallUnderWay, Calling, Entering, Ending
  <1> QED BY <1>1, <1>2, <1>3, <1>4, <1>5, <1>6, <1>7 DEF ThreadsInv

\* which is entered in tid_index_dict
LEMMA SetsDictInv ==
    ASSUME ThreadsInv, sets_dict
    PROVE  ThreadsInv'
  <1>1. TypeOK'
    BY SMTT(30) DEF ThreadsInv, sets_dict, TypeOK, Labels, Tids, CallUnderWay, Calling,
       Entering, Free
  <1>2. KeepsItsSlot'
    BY DEF ThreadsInv, sets_dict, TypeOK, CallUnderWay, Calling, Entering,
       Free, OneSlotEach, Ending, KeepsItsSlot, Registered, Announced, FoundAt
  <1>3. OneSlotEach'
    <2>1. /\ i \in Slots /\ threads[i] = new /\ new \in Structs \ {init}
          /\ tid[new] # None /\ index[new] = i /\ pc[new] = "idle"
      <3>1. pc[init] = "dict"
        BY DEF sets_dict
      <3>2. /\ i \in Slots /\ threads[i] = new /\ new \in Structs \ {init}
            /\ tid[new] = tid_global /\ pc[new] = "idle"
        BY <3>1 DEF ThreadsInv, CallUnderWay, Calling, Entering
      <3>3. tid_global # None
        BY DEF ThreadsInv, TypeOK
      <3>4. index[new] = i
        BY <3>2 DEF ThreadsInv, OneSlotEach
      <3>. QED BY <3>2, <3>3, <3>4
    <2>2. tid_index_dict' = [tid_index_dict EXCEPT ![i] = tid[new]]
      BY <2>1 DEF sets_dict
    <2>3. \A u \in Structs : pc'[u] \in Ending => pc[u] \in Ending
      BY DEF sets_dict, ThreadsInv, TypeOK, Ending
    <2>4. \A u \in Structs \ {init}, s \in Slots :
             tid[u] # None /\ tid_index_dict'[s] = tid[u] => index[u] = s
      BY <2>1, <2>2 DEF ThreadsInv, TypeOK, OneSlotEach
    <2>5. UNCHANGED <<threads, tid, index>>
      BY DEF sets_dict
    <2>. QED BY <2>3, <2>4, <2>5 DEF ThreadsInv, TypeOK, OneSlotEach
  <1>4. /\ RunsInItsSlot' /\ Origin' /\ EndsAlone' /\ WaitsInItsSlot'
         /\ CallUnderWay' /\ Children'
    BY SMTT(30) DEF ThreadsInv, sets_dict, TypeOK, RunsInItsSlot, Ending, Origin,
       EndsAlone, WaitsInItsSlot, Registered, Announced, CallUnderWay, Calling,
       Entering, Free, Children, Forked, NoChildren
  <1>5. OwnFrame' /\ ForkAnswers'
    BY FrameKept DEF ThreadsInv, TypeOK, sets_dict, CallUnderWay, Calling, Entering, Ending
  <1> QED BY <1>1, <1>2, <1>3, <1>4, <1>5 DEF ThreadsInv

\* and counted.
LEMMA CountsInv ==
    ASSUME ThreadsInv, counts
    PROVE  ThreadsInv'
  <1>1. TypeOK'
    <2>1. tid_global \in Nat /\ tid_global' = tid_global + 1 /\ tid_global' \in 1..MaxThreads
      BY DEF counts, ThreadsInv, TypeOK, CallUnderWay
    <2>2. \A x \in Tids \cup {None} : x \in Tids' \cup {None} /\ x < tid_global'
      BY <2>1 DEF Tids
    <2>3. /\ tid_index_dict' \in [Slots -> Tids' \cup {None}]
          /\ tid' \in [Structs -> Tids' \cup {None}] /\ ptid' \in [Structs -> Tids' \cup {None}]
          /\ frame' \in [tid : Tids' \cup {None}, t : Structs \cup {empty_thread}, ret : Tids' \cup {None}]
      BY <2>2 DEF counts, ThreadsInv, TypeOK
    <2>4. ctid' \in [Structs -> [Places -> Tids' \cup {None}]]
      BY <2>2 DEF counts, ThreadsInv, TypeOK
    <2>5. \A t \in Structs : tid'[t] < tid_global'
      BY <2>2 DEF counts, ThreadsInv, TypeOK
    <2>6. pc' \in [Structs -> Labels]
      BY DEF counts, ThreadsInv, TypeOK, Labels
    <2>. QED BY <2>1, <2>3, <2>4, <2>5, <2>6 DEF counts, ThreadsInv, TypeOK
  <1>2. KeepsItsSlot'
    BY DEF ThreadsInv, counts, TypeOK, OneSlotEach, Ending, CallUnderWay,
       Calling, Entering, Free, KeepsItsSlot, Registered, Announced, FoundAt
  <1>3. CallUnderWay'
    <2>1. pc'[init] \in {"idle", "set_ctid"} /\ (pc'[init] = "set_ctid" => call = "fork_thread")
      BY DEF counts, ThreadsInv, TypeOK
    <2>2. \A s \in Slots : tid_index_dict[s] <= tid_global
      BY DEF ThreadsInv, TypeOK, Tids
    <2>3. tid_global \in Nat /\ tid_global' = tid_global + 1 /\ tid_global' <= allocated
      BY DEF counts, ThreadsInv, TypeOK, CallUnderWay
    <2>. QED BY <2>1, <2>2, <2>3 DEF counts, ThreadsInv, TypeOK, CallUnderWay, Entering, Calling, Tids
  <1>4. /\ RunsInItsSlot' /\ Origin' /\ OneSlotEach' /\ EndsAlone'
         /\ WaitsInItsSlot' /\ Children'
    BY DEF ThreadsInv, counts, TypeOK, RunsInItsSlot, Ending, Origin,
       OneSlotEach, EndsAlone, WaitsInItsSlot, Registered, Announced, Children,
       Forked, NoChildren
  <1>5. OwnFrame' /\ ForkAnswers'
    BY FrameKept DEF ThreadsInv, TypeOK, counts, CallUnderWay, Calling, Entering, Ending
  <1> QED BY <1>1, <1>2, <1>3, <1>4, <1>5 DEF ThreadsInv

\* fork_thread enters the child in the list of its parent
LEMMA SetCtidInv ==
    ASSUME ThreadsInv, set_ctid
    PROVE  ThreadsInv'
  <1>1. TypeOK'
    BY SMTT(30) DEF ThreadsInv, set_ctid, TypeOK, Labels, Tids, CallUnderWay, Calling,
       Entering, Free
  <1>2. Children'
    <2>1. PICK p \in Places : /\ ctid[init][p] = None
                              /\ \A q \in 0..(p - 1) : ctid[init][q] # None
                              /\ ctid' = [ctid EXCEPT ![init][p] = tid[new]]
      BY DEF set_ctid
    <2>2. /\ ctid'[init][p] = tid[new]
          /\ \A q \in Places \ {p} : ctid'[init][q] = ctid[init][q]
          /\ \A t \in Structs \ {init} : ctid'[t] = ctid[t]
      BY <2>1 DEF ThreadsInv, TypeOK, Origin
    <2>3. \A q \in Places : q > p => ctid[init][q] = None
      BY <2>1 DEF ThreadsInv, Children
    <2>4. pc[init] = "set_ctid" /\ pc'[init] = "switch" /\ new \in Structs /\ pc[new] = "idle" /\ tid[new] # None
          /\ \A t \in Structs : pc'[t] \in Ending => pc[t] \in Ending /\ t # new
      <3>1. pc[init] = "set_ctid" /\ pc'[init] = "switch" /\ new \in Structs /\ pc[new] = "idle"
        BY DEF set_ctid, ThreadsInv, TypeOK, CallUnderWay, Calling, Entering
      <3>2. \A t \in Structs : pc'[t] \in Ending => pc[t] \in Ending /\ t # new
        BY <3>1 DEF set_ctid, ThreadsInv, TypeOK, Ending
      <3>3. tid[new] # None
        BY <3>1 DEF ThreadsInv, CallUnderWay
      <3>. QED BY <3>1, <3>2, <3>3
    <2>5. \A t \in Structs : pc'[t] \in Ending => tid[t] # None /\ tid[t] # tid[new] /\ ~Forked(t)
      BY <2>4 DEF ThreadsInv, Children, OneSlotEach
    <2>6. \A t \in Structs : pc'[t] \in Ending => ~Forked(t)'
      BY <2>2, <2>5 DEF Forked, set_ctid
    <2>. QED BY <2>2, <2>3, <2>4, <2>5, <2>6, <2>1 DEF Children, set_ctid, ThreadsInv
  <1>3. /\ KeepsItsSlot' /\ RunsInItsSlot' /\ Origin' /\ OneSlotEach'
         /\ EndsAlone' /\ WaitsInItsSlot' /\ CallUnderWay'
    BY SMTT(30) DEF ThreadsInv, set_ctid, TypeOK, KeepsItsSlot, Registered, Announced,
       FoundAt, Ending, RunsInItsSlot, Origin, OneSlotEach, EndsAlone,
       WaitsInItsSlot, CallUnderWay, Calling, Entering, Free
  <1>4. OwnFrame' /\ ForkAnswers'
    BY FrameKept DEF ThreadsInv, TypeOK, set_ctid, CallUnderWay, Calling, Entering, Ending
  <1> QED BY <1>1, <1>2, <1>3, <1>4 DEF ThreadsInv

\* and switches to it.
LEMMA SwitchForkInv ==
    ASSUME ThreadsInv, switch_fork
    PROVE  ThreadsInv'
  <1>1. /\ new \in Structs \ {init} /\ i \in Slots /\ new < allocated
        /\ pc[init] = "switch" /\ pc'[init] = "forked" /\ pc'[new] = "forked"
        /\ \A t \in Structs \ {init, new} : pc'[t] = pc[t]
        /\ pc' \in [Structs -> Labels]
    BY DEF switch_fork, ThreadsInv, TypeOK, CallUnderWay, Calling, Entering, Labels
  <1>2. state' \in [Structs -> {"RUNNABLE", "WAIT", "SLEEP"}]
    BY DEF switch_fork, ThreadsInv, TypeOK
  <1>3. TypeOK'
    BY <1>1, <1>2 DEF switch_fork, ThreadsInv, TypeOK, Tids
  <1>4. ASSUME NEW t \in Structs, Registered(t)'
        PROVE  threads[index[t]] = t /\ tid[t] # None /\ FoundAt(tid[t], index[t])
    <2>1. CASE t = new
      <3>1. threads[i] = new /\ index[new] = i /\ tid_index_dict[i] = tid[new]
        BY <1>1 DEF ThreadsInv, CallUnderWay, Entering, OneSlotEach
      <3>2. tid[new] # None
        BY <1>1 DEF ThreadsInv, Children
      <3>3. FoundAt(tid[new], i)
        BY <1>1, <3>1, <3>2 DEF FoundAt, ThreadsInv, OneSlotEach
      <3>. QED BY <2>1, <3>1, <3>2, <3>3
    <2>2. CASE t # new
      <3>1. Registered(t)
        BY <1>1, <1>4, <2>2 DEF Registered, Announced, Ending, switch_fork
      <3>. QED BY <3>1 DEF ThreadsInv, KeepsItsSlot
    <2>. QED BY <2>1, <2>2
  <1>5. KeepsItsSlot'
    BY <1>4 DEF KeepsItsSlot, FoundAt, switch_fork
  <1>6. RunsInItsSlot' /\ EndsAlone'
    BY <1>1 DEF ThreadsInv, switch_fork, TypeOK, RunsInItsSlot, EndsAlone, CallUnderWay, Entering, Ending
  <1>7. Origin' /\ WaitsInItsSlot'
    BY <1>1 DEF ThreadsInv, switch_fork, TypeOK, Origin, WaitsInItsSlot, CallUnderWay, Calling,
       Entering, Registered, Announced, Ending
  <1>8. OneSlotEach' /\ CallUnderWay'
    BY <1>1 DEF ThreadsInv, switch_fork, TypeOK, OneSlotEach, CallUnderWay, Calling, Entering, Ending
  <1>9. Children'
    BY <1>1 DEF ThreadsInv, switch_fork, TypeOK, Children, Forked, NoChildren, Ending
  <1>10. OwnFrame' /\ ForkAnswers'
    BY FrameLost DEF ThreadsInv, TypeOK, switch_fork, CallUnderWay, Calling, Entering
  <1>. QED BY <1>3, <1>5, <1>6, <1>7, <1>8, <1>9, <1>10 DEF ThreadsInv

\* What all steps at the end of fork_thread leave as it is.
LEMMA ForkStepInv ==
    ASSUME ThreadsInv, NEW t \in Structs, NEW here \in InFork, NEW there \in Asking \cup {"idle"},
           ForkStep(t, here, there), there = "idle" <=> here = "returns",
           frame' \in [tid : Tids \cup {None}, t : Structs \cup {empty_thread},
                       ret : Tids \cup {None}],
           disturbed' \in SUBSET Structs
    PROVE  /\ TypeOK' /\ KeepsItsSlot' /\ RunsInItsSlot' /\ Origin' /\ OneSlotEach'
           /\ EndsAlone' /\ WaitsInItsSlot' /\ CallUnderWay' /\ Children'
  <1>1. /\ run = t /\ pc[t] = here /\ pc' = [pc EXCEPT ![t] = there] /\ Announced(t)
        /\ UNCHANGED <<table, processor, allocated, fields, locals>>
    BY AskersAnnounced DEF ForkStep
  <1>2. pc'[init] \in Calling => pc'[init] = pc[init]
    BY <1>1 DEF ThreadsInv, TypeOK, Calling, Entering
  <1>3. pc'[init] \in InFork => pc[init] \in InFork
    BY <1>1 DEF ThreadsInv, TypeOK
  <1>4. TypeOK'
    <2>1. pc' \in [Structs -> Labels]
      BY <1>1 DEF ThreadsInv, TypeOK, Labels
    <2>. QED BY SMTT(30), <1>1, <1>2, <2>1 DEF ThreadsInv, TypeOK, Tids, Calling, Entering
  <1>5. \A u \in Structs : pc'[u] \in Ending <=> pc[u] \in Ending
    BY <1>1 DEF ThreadsInv, TypeOK, Ending
  <1>6. \A u \in Structs : Registered(u)' <=> Registered(u)
    BY <1>1, <1>5 DEF Registered, Announced, ThreadsInv, TypeOK, Labels, Origin, CallUnderWay, Calling, Entering, Ending
  <1>7. KeepsItsSlot' /\ RunsInItsSlot' /\ OneSlotEach' /\ EndsAlone' /\ WaitsInItsSlot'
    BY <1>1, <1>5, <1>6 DEF ThreadsInv, TypeOK, KeepsItsSlot, FoundAt, RunsInItsSlot, OneSlotEach,
       EndsAlone, WaitsInItsSlot, Ending, Holds
  <1>8. Origin'
    BY <1>1, <1>5 DEF ThreadsInv, TypeOK, Origin, Announced, Ending
  <1>9. CallUnderWay' /\ Children'
    BY SMTT(30), <1>1, <1>2, <1>3, <1>5 DEF ThreadsInv, TypeOK, CallUnderWay, Calling, Entering, Free, Children, Forked, NoChildren
  <1>. QED BY <1>4, <1>7, <1>8, <1>9

\* Both find out which they are.
LEMMA ForksInv ==
    ASSUME NEW t \in Structs, ThreadsInv, forks(t)
    PROVE  ThreadsInv'
  <1>1. /\ frame.t \in Structs \cup {empty_thread} /\ find_ctid(frame.t) \in Tids \cup {None}
        /\ frame.tid \in Tids \cup {None} /\ frame.ret \in Tids \cup {None}
    <2>1. /\ frame.t \in Structs \cup {empty_thread}
          /\ frame.tid \in Tids \cup {None} /\ frame.ret \in Tids \cup {None}
      BY DEF ThreadsInv, TypeOK
    <2>. QED BY <2>1, FindsType
  <1>2. /\ run = t /\ pc[t] \in InFork /\ switching = "no" /\ UNCHANGED <<run, switching, tid, new>>
        /\ \A u \in Structs \ {t} : pc'[u] = pc[u]
        /\ \A u \in Structs \ {t} : u \in disturbed => u \in disturbed'
    BY DEF forks, fork_gets_tid, fork_gets_thread, fork_in_child, fork_in_parent, fork_finds_child,
           fork_returns, ForkStep, ThreadsInv, TypeOK
  <1>3. \A u \in Structs \ {t} : pc'[u] \in Asking => u \in disturbed'
    BY <1>2 DEF ThreadsInv, OwnFrame
  <1>4. \A s \in Slots : FoundAt(get_cur_thread_tid, s) => s = cur
    BY <1>2, AskersAnnounced, RunsAt DEF Ending
  <1>5. threads[cur] = t /\ index[t] = cur /\ get_cur_thread_tid = tid[t]
    BY <1>2, AskersAnnounced, RunsAt DEF get_cur_thread_tid, ThreadsInv, KeepsItsSlot, FoundAt, Ending
  <1>6. find_ctid(t) = IF t = init THEN tid[new] ELSE None
    BY <1>2, ForkTells
  <1>7. t = init => tid[new] # None
    BY <1>2 DEF ThreadsInv, Children
  <1>8. CASE fork_gets_tid(t)
    <2>1. frame' = [frame EXCEPT !.tid = tid[t]] /\ ForkStep(t, "forked", "tid_known") /\ disturbed' = disturbed
      BY <1>5, <1>8 DEF fork_gets_tid
    <2>2. frame' \in [tid : Tids \cup {None}, t : Structs \cup {empty_thread}, ret : Tids \cup {None}]
      BY <2>1 DEF ThreadsInv, TypeOK
    <2>3. pc'[t] = "tid_known" /\ frame'.tid = tid[t]
      BY <2>1 DEF ForkStep, ThreadsInv, TypeOK
    <2>4. OwnFrame' /\ ForkAnswers'
      BY <1>2, <1>3, <2>3 DEF OwnFrame, ForkAnswers
    <2>. QED BY <2>1, <2>2, <2>4, ForkStepInv DEF ThreadsInv, TypeOK
  <1>9. CASE fork_gets_thread(t)
    <2>1. PICK s \in Slots : FoundAt(frame.tid, s) /\ frame' = [frame EXCEPT !.t = threads[s]]
      BY <1>9 DEF fork_gets_thread
    <2>2. ForkStep(t, "tid_known", "thread_known") /\ disturbed' = disturbed
      BY <1>9 DEF fork_gets_thread
    <2>3. frame' \in [tid : Tids \cup {None}, t : Structs \cup {empty_thread}, ret : Tids \cup {None}]
      BY <2>1 DEF ThreadsInv, TypeOK
    <2>4. pc[t] = "tid_known" /\ pc'[t] = "thread_known"
      BY <2>2 DEF ForkStep, ThreadsInv, TypeOK
    <2>5. t \notin disturbed' => frame'.tid = tid[t] /\ frame'.t = t
      <3>1. t \notin disturbed' => frame.tid = tid[t]
        BY <2>2, <2>4 DEF ThreadsInv, OwnFrame
      <3>2. t \notin disturbed' => s = cur
        BY <3>1, <2>1, <1>4, <1>5
      <3>. QED BY <3>1, <3>2, <2>1, <1>5 DEF ThreadsInv, TypeOK
    <2>6. OwnFrame' /\ ForkAnswers'
      BY <1>2, <1>3, <2>4, <2>5 DEF OwnFrame, ForkAnswers
    <2>. QED BY <2>2, <2>3, <2>6, ForkStepInv DEF ThreadsInv, TypeOK
  <1>10. CASE fork_in_child(t)
    <2>1. /\ find_ctid(frame.t) = None /\ ForkStep(t, "thread_known", "returns")
          /\ disturbed' = disturbed /\ frame' = [frame EXCEPT !.ret = None]
      BY <1>10 DEF fork_in_child
    <2>2. frame' \in [tid : Tids \cup {None}, t : Structs \cup {empty_thread}, ret : Tids \cup {None}]
      BY <2>1 DEF ThreadsInv, TypeOK
    <2>3. pc[t] = "thread_known" /\ pc'[t] = "returns"
      BY <2>1 DEF ForkStep, ThreadsInv, TypeOK
    <2>4. t \notin disturbed' => frame.tid = tid[t] /\ frame.t = t
      BY <2>1, <2>3 DEF ThreadsInv, OwnFrame
    <2>5. t \notin disturbed' => t # init /\ frame'.ret = None /\ frame'.tid = tid[t] /\ frame'.t = t
      BY <2>1, <2>4, <1>6, <1>7 DEF ThreadsInv, TypeOK
    <2>6. OwnFrame' /\ ForkAnswers'
      BY <1>2, <1>3, <2>3, <2>5 DEF OwnFrame, ForkAnswers
    <2>. QED BY <2>1, <2>2, <2>6, ForkStepInv DEF ThreadsInv, TypeOK
  <1>11. CASE fork_in_parent(t)
    <2>1. /\ find_ctid(frame.t) # None /\ ForkStep(t, "thread_known", "parent")
          /\ disturbed' = disturbed /\ frame' = frame
      BY <1>11 DEF fork_in_parent
    <2>2. pc[t] = "thread_known" /\ pc'[t] = "parent"
      BY <2>1 DEF ForkStep, ThreadsInv, TypeOK
    <2>3. t \notin disturbed' => t = init /\ frame.tid = tid[t] /\ frame.t = t
      BY <2>1, <2>2, <1>6 DEF ThreadsInv, OwnFrame
    <2>4. OwnFrame' /\ ForkAnswers'
      BY <1>2, <1>3, <2>1, <2>2, <2>3 DEF OwnFrame, ForkAnswers
    <2>. QED BY <2>1, <2>4, ForkStepInv DEF ThreadsInv, TypeOK
  <1>12. CASE fork_finds_child(t)
    <2>1. /\ ForkStep(t, "parent", "returns") /\ disturbed' = disturbed
          /\ frame' = [frame EXCEPT !.ret = find_ctid(frame.t)]
      BY <1>12 DEF fork_finds_child
    <2>2. frame' \in [tid : Tids \cup {None}, t : Structs \cup {empty_thread}, ret : Tids \cup {None}]
      BY <1>1, <2>1 DEF ThreadsInv, TypeOK
    <2>3. pc[t] = "parent" /\ pc'[t] = "returns"
      BY <2>1 DEF ForkStep, ThreadsInv, TypeOK
    <2>4. t \notin disturbed' => t = init /\ frame.tid = tid[t] /\ frame.t = t
      BY <2>1, <2>3 DEF ThreadsInv, OwnFrame
    <2>5. t \notin disturbed' => frame'.ret = tid[new] /\ frame'.tid = tid[t] /\ frame'.t = t
      BY <2>1, <2>4, <1>6 DEF ThreadsInv, TypeOK
    <2>6. OwnFrame' /\ ForkAnswers'
      BY <1>2, <1>3, <2>3, <2>4, <2>5 DEF OwnFrame, ForkAnswers
    <2>. QED BY <2>1, <2>2, <2>6, ForkStepInv DEF ThreadsInv, TypeOK
  <1>13. CASE fork_returns(t)
    <2>1. ForkStep(t, "returns", "idle") /\ disturbed' = disturbed \ {t} /\ frame' = frame
      BY <1>13 DEF fork_returns
    <2>2. pc'[t] = "idle"
      BY <2>1 DEF ForkStep, ThreadsInv, TypeOK
    <2>3. OwnFrame' /\ ForkAnswers'
      BY <1>3, <2>2 DEF OwnFrame, ForkAnswers
    <2>4. frame' \in [tid : Tids \cup {None}, t : Structs \cup {empty_thread}, ret : Tids \cup {None}]
          /\ disturbed' \in SUBSET Structs
      BY <2>1 DEF ThreadsInv, TypeOK
    <2>. QED BY <2>1, <2>3, <2>4, ForkStepInv DEF ThreadsInv
  <1>. QED BY <1>8, <1>9, <1>10, <1>11, <1>12, <1>13 DEF forks

\* wait puts the thread that calls it to sleep
LEMMA SleepsInv ==
    ASSUME NEW t \in Structs, ThreadsInv, sleeps(t)
    PROVE  ThreadsInv'
  <1>1. /\ switching = "no" /\ run = t /\ t # init /\ pc[t] = "idle" /\ Announced(t)
        /\ pc' = [pc EXCEPT ![t] = "yield"]
        /\ UNCHANGED <<table, processor, allocated, tid, ptid, index, ctid, locals, forking>>
    BY DEF sleeps
  <1>2. state' = [state EXCEPT ![t] = "WAIT"] /\ Registered(t)
    BY <1>1, RunsAt DEF sleeps, change_state, Ending
  <1>3. /\ pc'[init] = pc[init] /\ pc' \in [Structs -> Labels]
        /\ \A u \in Structs : pc'[u] \in Ending <=> pc[u] \in Ending
    BY <1>1 DEF ThreadsInv, TypeOK, Labels, Ending
  <1>4. state'[init] = state[init] /\ state' \in [Structs -> {"RUNNABLE", "WAIT", "SLEEP"}]
    BY <1>1, <1>2 DEF ThreadsInv, TypeOK
  <1>5. TypeOK'
    BY <1>1, <1>3, <1>4 DEF ThreadsInv, TypeOK, Tids
  <1>6. Origin'
    <2>1. pc'[init] \notin Ending \cup {"yield"}
      BY <1>1, <1>3 DEF ThreadsInv, Origin
    <2>2. \A u \in Structs : u >= allocated => pc'[u] = pc[u]
      BY <1>1 DEF Announced, ThreadsInv, TypeOK
    <2>. QED BY <1>1, <1>4, <2>1, <2>2 DEF ThreadsInv, Origin
  <1>7. \A u \in Structs : Announced(u)' <=> Announced(u)
    BY <1>1, <1>3 DEF Announced
  <1>8. KeepsItsSlot' /\ WaitsInItsSlot'
    <2>1. \A u \in Structs : Registered(u)' <=> Registered(u)
      BY <1>1, <1>3, <1>7 DEF Registered
    <2>2. KeepsItsSlot'
      BY <1>1, <2>1 DEF ThreadsInv, KeepsItsSlot, FoundAt
    <2>3. pc'[run] = "yield" /\ \A u \in Structs \ {t} : state'[u] = state[u]
      BY <1>1, <1>2 DEF ThreadsInv, TypeOK
    <2>. QED BY <1>1, <1>2, <2>1, <2>2, <2>3 DEF ThreadsInv, WaitsInItsSlot
  <1>9. CallUnderWay'
    <2>1. pc[init] \in Calling => new # t
      BY <1>1 DEF Announced, Calling, Entering
    <2>2. pc[init] \in Calling => pc'[new] = pc[new] /\ state'[new] = state[new]
      BY <1>1, <1>2, <2>1 DEF ThreadsInv, TypeOK
    <2>. QED BY <1>1, <1>3, <2>2 DEF ThreadsInv, CallUnderWay, Calling, Entering, Free
  <1>10. RunsInItsSlot' /\ OneSlotEach' /\ EndsAlone'
    BY <1>1, <1>3 DEF ThreadsInv, TypeOK, RunsInItsSlot, OneSlotEach, EndsAlone
  <1>11. Children'
    BY <1>1, <1>3 DEF ThreadsInv, Children, Forked, NoChildren
  <1>12. OwnFrame' /\ ForkAnswers'
    BY FrameKept DEF ThreadsInv, TypeOK, sleeps, CallUnderWay, Calling, Entering, Ending
  <1>. QED BY <1>5, <1>6, <1>8, <1>9, <1>10, <1>11, <1>12 DEF ThreadsInv

\* and gives the processor away.
LEMMA YieldsInv ==
    ASSUME NEW t \in Structs, ThreadsInv, yields(t)
    PROVE  ThreadsInv'
  <1>1. TypeOK'
    <2>1. /\ pc' \in [Structs -> Labels] /\ cur' \in Slots /\ run' \in Structs
          /\ pc[init] \notin {"dict", "count"} => \A u \in Structs : tid[u] < tid_global
          /\ pc'[init] \in {"dict", "count"} <=> pc[init] \in {"dict", "count"}
      BY SchedulerResult DEF ThreadsInv, yields, TypeOK, Labels
    <2>. QED BY <2>1, SchedulerResult DEF ThreadsInv, yields, TypeOK, Tids
  <1>2. KeepsItsSlot'
    BY SchedulerResult DEF ThreadsInv, yields, TypeOK, Origin, Ending,
       KeepsItsSlot, Registered, Announced, FoundAt
  <1>3. EndsAlone'
    BY SchedulerResult DEF ThreadsInv, yields, TypeOK, OneSlotEach, Ending,
       EndsAlone
  <1>4. /\ RunsInItsSlot' /\ Origin' /\ OneSlotEach' /\ WaitsInItsSlot'
         /\ CallUnderWay' /\ Children'
    BY SMTT(30), SchedulerResult DEF ThreadsInv, yields, TypeOK, RunsInItsSlot, Ending,
       Origin, OneSlotEach, WaitsInItsSlot, Holds, Registered, Announced, CallUnderWay,
       Calling, Entering, Free, Children, Forked, NoChildren
  <1>5. OwnFrame' /\ ForkAnswers'
    BY FrameLost DEF ThreadsInv, TypeOK, yields, thread_scheduler, CallUnderWay, Calling, Entering
  <1> QED BY <1>1, <1>2, <1>3, <1>4, <1>5 DEF ThreadsInv

\* signal wakes a thread.
LEMMA WakesInv ==
    ASSUME NEW t \in Structs, ThreadsInv, wakes(t)
    PROVE  ThreadsInv'
  <1>1. TypeOK'
    BY DEF ThreadsInv, wakes, change_state, TypeOK, Labels, Tids
  <1>2. Origin'
    BY DEF ThreadsInv, wakes, change_state, TypeOK, WaitsInItsSlot,
       Registered, Announced, Ending, Origin
  <1>3. WaitsInItsSlot'
    BY DEF ThreadsInv, wakes, change_state, TypeOK, KeepsItsSlot, Registered,
       Announced, FoundAt, Ending, WaitsInItsSlot
  <1>4. CallUnderWay'
    BY DEF ThreadsInv, wakes, change_state, TypeOK, KeepsItsSlot, Registered,
       Announced, FoundAt, Ending, WaitsInItsSlot, CallUnderWay, Calling,
       Entering, Free
  <1>5. /\ KeepsItsSlot' /\ RunsInItsSlot' /\ OneSlotEach'
         /\ EndsAlone' /\ Children'
    BY DEF ThreadsInv, wakes, change_state, TypeOK, KeepsItsSlot, Registered,
       Announced, FoundAt, Ending, RunsInItsSlot, OneSlotEach, EndsAlone,
       Children, Forked, NoChildren
  <1>6. OwnFrame' /\ ForkAnswers'
    BY FrameKept DEF ThreadsInv, TypeOK, wakes, CallUnderWay, Calling, Entering, Ending
  <1> QED BY <1>1, <1>2, <1>3, <1>4, <1>5, <1>6 DEF ThreadsInv

\* thread_end gives up the slot,
LEMMA EmptiesSlotInv ==
    ASSUME NEW t \in Structs, ThreadsInv, empties_slot(t)
    PROVE  ThreadsInv'
  <1>1. switching = "no" /\ run = t /\ pc[t] = "idle" /\ t # init /\ Announced(t)
    BY DEF empties_slot
  <1>2. threads[cur] = t /\ index[t] = cur /\ cur \in Slots /\ Registered(t)
    BY <1>1, RunsAt DEF Ending, ThreadsInv, TypeOK
  <1>3. threads' = [threads EXCEPT ![cur] = empty_thread] /\ pc' = [pc EXCEPT ![t] = "clear_ctid"]
    BY <1>2 DEF empties_slot
  <1>4. pc'[init] = pc[init] /\ pc'[run] = "clear_ctid"
    BY <1>1, <1>3 DEF ThreadsInv, TypeOK
  <1>5. EndsAlone'
    BY <1>1, <1>2, <1>3 DEF EndsAlone, ThreadsInv, TypeOK, empties_slot
  <1>6. CallUnderWay'
    <2>1. pc[init] \in Calling => new # t
      BY <1>1, <1>4 DEF Announced, Calling, Entering
    <2>2. \A s \in Slots : threads[s] = new /\ pc[init] \in Calling => threads'[s] = new
      BY <1>2, <1>3, <2>1 DEF ThreadsInv, TypeOK
    <2>3. pc[init] \in Calling => pc'[new] = pc[new]
      BY <1>3, <2>1 DEF ThreadsInv, TypeOK
    <2>4. \A s \in Slots : Free(s) => Free(s)'
      BY <1>3 DEF Free, ThreadsInv, TypeOK
    <2>. QED BY <1>4, <2>2, <2>3, <2>4 DEF empties_slot, ThreadsInv, CallUnderWay, Calling, Entering
  <1>7. KeepsItsSlot'
    <2> SUFFICES ASSUME NEW u \in Structs, Registered(u)' PROVE (threads[index[u]] = u /\ tid[u] # None /\ FoundAt(tid[u], index[u]))'
      BY DEF KeepsItsSlot
    <2>1. u # t /\ Registered(u)
      BY <1>3, <1>4 DEF Registered, Announced, Ending, ThreadsInv, TypeOK, empties_slot
    <2>2. threads[index[u]] = u /\ tid[u] # None /\ FoundAt(tid[u], index[u]) /\ index[u] # cur
      BY <2>1, <1>2 DEF ThreadsInv, KeepsItsSlot
    <2>. QED BY <1>3, <2>2 DEF FoundAt, empties_slot, ThreadsInv, TypeOK
  <1>8. TypeOK'
    <2>1. pc' \in [Structs -> Labels]
      BY <1>3 DEF ThreadsInv, TypeOK, Labels
    <2>2. threads' \in [Slots -> Structs \cup {empty_thread}]
      BY <1>3 DEF ThreadsInv, TypeOK
    <2>. QED BY <1>4, <2>1, <2>2 DEF empties_slot, ThreadsInv, TypeOK, Tids
  <1>9. RunsInItsSlot' /\ OneSlotEach'
    BY <1>2, <1>3, <1>4 DEF ThreadsInv, empties_slot, TypeOK, RunsInItsSlot, OneSlotEach, Ending
  <1>10. Origin' /\ WaitsInItsSlot'
    BY <1>1, <1>2, <1>3, <1>4 DEF ThreadsInv, empties_slot, TypeOK, Origin, OneSlotEach,
       WaitsInItsSlot, Registered, Announced, Ending
  <1>11. Children'
    <2>1. tid[t] # None /\ ~Forked(t)
      BY <1>2 DEF empties_slot, ThreadsInv, KeepsItsSlot
    <2>. QED BY <1>3, <1>4, <2>1 DEF empties_slot, ThreadsInv, TypeOK, Children, Forked, NoChildren, Ending
  <1>12. OwnFrame' /\ ForkAnswers'
    BY FrameKept DEF ThreadsInv, TypeOK, empties_slot, CallUnderWay, Calling, Entering, Ending
  <1>. QED BY <1>5, <1>6, <1>7, <1>8, <1>9, <1>10, <1>11, <1>12 DEF ThreadsInv

\* finds nothing in the list of the parent,
LEMMA ClearCtidInv ==
    ASSUME NEW t \in Structs, ThreadsInv, clear_ctid(t)
    PROVE  ThreadsInv'
  <1>1. /\ ctid' = ctid /\ t # init
        /\ pc[t] = "clear_ctid" /\ pc' = [pc EXCEPT ![t] = "clear_dict"]
    BY NoneCleared DEF clear_ctid, ThreadsInv, Origin, Ending
  <1>2. TypeOK'
    <2>1. pc' \in [Structs -> Labels] /\ pc'[init] = pc[init]
      BY <1>1 DEF ThreadsInv, TypeOK, Labels
    <2>. QED BY <1>1, <2>1 DEF clear_ctid, ThreadsInv, TypeOK, Tids
  <1>3. /\ KeepsItsSlot' /\ RunsInItsSlot' /\ Origin' /\ OneSlotEach'
        /\ EndsAlone' /\ WaitsInItsSlot' /\ CallUnderWay'
    BY <1>1 DEF clear_ctid, ThreadsInv, TypeOK, KeepsItsSlot, Registered, Announced, FoundAt,
       Ending, RunsInItsSlot, Origin, OneSlotEach, EndsAlone, WaitsInItsSlot, CallUnderWay,
       Calling, Entering, Free
  <1>4. Children'
    <2>1. pc'[init] = pc[init] /\ \A u \in Structs : pc'[u] \in Ending => pc[u] \in Ending
      BY <1>1 DEF ThreadsInv, TypeOK, Ending
    <2>2. tid' = tid /\ new' = new /\ \A u \in Structs : Forked(u)' <=> Forked(u)
      BY <1>1 DEF clear_ctid, Forked
    <2>. QED BY <1>1, <2>1, <2>2 DEF ThreadsInv, Children, NoChildren
  <1>5. OwnFrame' /\ ForkAnswers'
    BY FrameKept DEF ThreadsInv, TypeOK, clear_ctid, CallUnderWay, Calling, Entering, Ending
  <1>. QED BY <1>2, <1>3, <1>4, <1>5 DEF ThreadsInv

\* gives up the tid
LEMMA ClearsDictInv ==
    ASSUME NEW t \in Structs, ThreadsInv, clears_dict(t)
    PROVE  ThreadsInv'
  <1>1. TypeOK'
    <2>1. tid_index_dict' \in [Slots -> Tids' \cup {None}] /\ pc' \in [Structs -> Labels] /\ t # init
      BY DEF clears_dict, ThreadsInv, TypeOK, Labels, Tids, Origin, Ending
    <2>2. pc'[init] = pc[init]
      BY <2>1 DEF clears_dict, ThreadsInv, TypeOK
    <2>. QED BY <2>1, <2>2 DEF clears_dict, ThreadsInv, TypeOK, Tids
  <1>2. KeepsItsSlot'
    BY DEF ThreadsInv, clears_dict, TypeOK, EndsAlone, Ending, OneSlotEach,
       Origin, KeepsItsSlot, Registered, Announced, FoundAt
  <1>3. Origin'
    BY DEF ThreadsInv, clears_dict, TypeOK, EndsAlone, Ending, Origin
  <1>4. CallUnderWay'
    BY DEF ThreadsInv, clears_dict, TypeOK, EndsAlone, Ending, Origin,
       CallUnderWay, Calling, Entering, Free
  <1>5. /\ RunsInItsSlot' /\ OneSlotEach' /\ EndsAlone'
         /\ WaitsInItsSlot' /\ Children'
    BY DEF ThreadsInv, clears_dict, TypeOK, RunsInItsSlot, Ending,
       OneSlotEach, EndsAlone, WaitsInItsSlot, Registered, Announced, Children,
       Forked, NoChildren
  <1>6. OwnFrame' /\ ForkAnswers'
    BY FrameKept DEF ThreadsInv, TypeOK, clears_dict, CallUnderWay, Calling, Entering, Ending
  <1> QED BY <1>1, <1>2, <1>3, <1>4, <1>5, <1>6 DEF ThreadsInv

\* and does not come back.
LEMMA LeavesInv ==
    ASSUME NEW t \in Structs, ThreadsInv, leaves(t)
    PROVE  ThreadsInv'
  <1>1. disturbed' \in SUBSET Structs
    BY DEF leaves, ThreadsInv, TypeOK
  <1>2. OwnFrame' /\ ForkAnswers'
    BY FrameLost DEF ThreadsInv, TypeOK, leaves, thread_scheduler
  <1> QED BY <1>1, <1>2, PicksInv DEF leaves, ThreadsInv

-----------------------------------------------------------------------------
LEMMA InitInv == Init => ThreadsInv
  <1> SUFFICES ASSUME Init PROVE ThreadsInv
    OBVIOUS
  <1>1. TypeOK
    BY DEF Init, TypeOK, Tids, Labels, NoChildren
  <1>2. KeepsItsSlot
    BY DEF Init, KeepsItsSlot, Registered, Announced, FoundAt
  <1>3. RunsInItsSlot /\ Origin /\ OneSlotEach /\ EndsAlone /\ WaitsInItsSlot /\ CallUnderWay
    BY DEF Init, RunsInItsSlot, Origin, OneSlotEach, EndsAlone, WaitsInItsSlot, CallUnderWay,
       Ending, Entering, Calling
  <1>4. Children /\ OwnFrame /\ ForkAnswers
    BY DEF Init, Children, OwnFrame, ForkAnswers, Ending, NoChildren
  <1> QED BY <1>1, <1>2, <1>3, <1>4 DEF ThreadsInv

LEMMA NextInv == ThreadsInv /\ [Next]_vars => ThreadsInv'
  <1> SUFFICES ASSUME ThreadsInv, [Next]_vars PROVE ThreadsInv'
    OBVIOUS
  <1>1. CASE UNCHANGED vars
    BY <1>1 DEF ThreadsInv, TypeOK, KeepsItsSlot, RunsInItsSlot, Origin, OneSlotEach, EndsAlone,
       WaitsInItsSlot, CallUnderWay, Children, OwnFrame, ForkAnswers, Registered, Announced,
       Forked, FoundAt, Free, Holds, Tids, NoChildren
  <1>2. CASE Preempt
    BY <1>2, PreemptInv
  <1>3. CASE create_thread
    BY <1>3, CreateThreadInv
  <1>4. CASE fork_thread
    BY <1>4, ForkThreadInv
  <1>5. CASE looks_on
    BY <1>5, LooksOnInv
  <1>6. CASE finds_none
    BY <1>6, FindsNoneInv
  <1>7. CASE finds_free
    BY <1>7, FindsFreeInv
  <1>8. CASE takes_slot
    BY <1>8, TakesSlotInv
  <1>9. CASE sets_ptid
    BY <1>9, SetsPtidInv
  <1>10. CASE sets_tid
    BY <1>10, SetsTidInv
  <1>11. CASE sets_dict
    BY <1>11, SetsDictInv
  <1>12. CASE counts
    BY <1>12, CountsInv
  <1>13. CASE set_ctid
    BY <1>13, SetCtidInv
  <1>14. CASE switch_fork
    BY <1>14, SwitchForkInv
  <1>15. ASSUME NEW t \in Structs, forks(t) PROVE ThreadsInv'
    BY <1>15, ForksInv
  <1>16. ASSUME NEW t \in Structs, sleeps(t) PROVE ThreadsInv'
    BY <1>16, SleepsInv
  <1>17. ASSUME NEW t \in Structs, yields(t) PROVE ThreadsInv'
    BY <1>17, YieldsInv
  <1>18. ASSUME NEW t \in Structs, wakes(t) PROVE ThreadsInv'
    BY <1>18, WakesInv
  <1>19. ASSUME NEW t \in Structs, empties_slot(t) PROVE ThreadsInv'
    BY <1>19, EmptiesSlotInv
  <1>20. ASSUME NEW t \in Structs, clear_ctid(t) PROVE ThreadsInv'
    BY <1>20, ClearCtidInv
  <1>21. ASSUME NEW t \in Structs, clears_dict(t) PROVE ThreadsInv'
    BY <1>21, ClearsDictInv
  <1>22. ASSUME NEW t \in Structs, leaves(t) PROVE ThreadsInv'
    BY <1>22, LeavesInv
  <1>23. CASE switch_context
    BY <1>23, SwitchContextInv
  <1>24. CASE stays_lost
    BY <1>1, <1>24 DEF stays_lost
  <1> QED BY <1>1, <1>2, <1>3, <1>4, <1>5, <1>6, <1>7, <1>8, <1>9, <1>10,
       <1>11, <1>12, <1>13, <1>14, <1>15, <1>16, <1>17, <1>18, <1>19, <1>20,
       <1>21, <1>22, <1>23, <1>24 DEF Next

-----------------------------------------------------------------------------
LEMMA Invariant == Spec => []ThreadsInv
  BY InitInv, NextInv, PTL DEF Spec

\* Types and ranges of the thread table (thread_run, thread_end).
THEOREM ThreadTypes == Spec => []TypeOK
  <1>1. ThreadsInv => TypeOK
    BY DEF ThreadsInv
  <1> QED BY <1>1, Invariant, PTL

\* A thread keeps the slot it was given, and its tid leads to that slot,
\* whatever is created and ends around it (thread_run, thread_register,
\* thread_end, search_index_from_tid).
THEOREM ThreadsKeepTheirSlots == Spec => []KeepsItsSlot
  <1>1. ThreadsInv => KeepsItsSlot
    BY DEF ThreadsInv
  <1> QED BY <1>1, Invariant, PTL

\* Outside the trace of thread_scheduler cur_thread_index names the thread on the
\* processor, as long as that has not given up its slot, if no period expires in a
\* trace (thread_scheduler, fork_thread).
THEOREM CurrentThreadRuns == Spec => []RunsInItsSlot
  <1>1. ThreadsInv => RunsInItsSlot
    BY DEF ThreadsInv
  <1> QED BY <1>1, Invariant, PTL

\* fork_thread answers the parent with the tid of the child and the child with -1,
\* whenever they come to ask, if they are not switched away from while they do
\* (fork_thread, find_ctid).
THEOREM ForkAnswersUndisturbed == Spec => []ForkAnswers
  <1>1. ThreadsInv => ForkAnswers
    BY DEF ThreadsInv
  <1> QED BY <1>1, Invariant, PTL
=============================================================================

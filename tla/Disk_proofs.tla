----------------------------- MODULE Disk_proofs -----------------------------
(***************************************************************************)
(* For every number of slots, size of an entry, machine, set of ports,     *)
(* file system and request: the controller that is found is one, it is     *)
(* prepared when ahci_init is done with it, what it may fetch is the whole *)
(* command of the call under way, a call that returns has moved what it    *)
(* was asked for, and so the table of inodes is that of the disk.          *)
(***************************************************************************)
EXTENDS Disk, TLAPS

-----------------------------------------------------------------------------
(* What a call builds *)

N == prdtl(params.count)
Entry(k) ==
    [dba |-> (k - 1) * SECTORS,
     len |-> IF k < N THEN SECTORS ELSE params.count - (N - 1) * SECTORS]

TableBuilt == table = [lba |-> params.lba, w |-> params.w, prdt |-> [k \in 1..N |-> Entry(k)]]
HeaderBuilt == cmd_list[slot] = [prdtl |-> N, w |-> params.w, ctba |-> TRUE]

\* The sectors before an entry, and the moves that make up so many sectors.
Before(e) == IF e <= N THEN (e - 1) * SECTORS ELSE params.count
Upto(d) == {<<params.w, n, params.lba + n>> : n \in 0..(d - 1)}

Outside == {"idle", "start_cmd"}
Building == {"find", "table", "header", "notify"}
Waiting == {"wait_interrupt", "read_is", "write_is", "clear_pxis", "write_ips", "clear_ghc_is",
            "wait_pxci_clear"}

\* How far the controller is with the command of the call.
NotBegun == ci = {slot} /\ work = NoWork /\ owed = {} /\ moved = {}
UnderWay ==
    /\ ci = {slot} /\ owed = {}
    /\ work.slot = slot /\ work.entry \in 1..(N + 1) /\ work.done = Before(work.entry)
    /\ moved = Upto(work.done)
Ending ==
    /\ work.slot = slot /\ moved = Asked
    /\ \/ owed = {"ci", "report"} /\ ci = {slot}
       \/ owed = {"ci"} /\ ci = {slot}
       \/ owed = {"report"} /\ ci = {}
Over == ci = {} /\ work = NoWork /\ owed = {} /\ moved = Asked
Broken == ci = {slot} /\ work.slot = slot /\ owed = {"restart"}

\* Where the driver is decides what the controller can be at.  Only the report
\* of an end may be left behind by a call that has returned.
CallInv ==
    /\ ~cr => work = NoWork /\ owed = {}
    /\ pc # "idle" => params.count > 0
    /\ pc = "idle" => moved = Asked
    /\ pc \in Outside => ci = {} /\ ((work = NoWork /\ owed = {}) \/ owed = {"report"})
    /\ pc = "start_cmd" => ~st /\ moved = {}
    /\ pc \in Building => st /\ ci = {} /\ work = NoWork /\ owed = {} /\ moved = {}
    /\ pc \in {"header", "notify"} => TableBuilt
    /\ pc = "notify" => HeaderBuilt
    /\ pc \in Waiting =>
          /\ st /\ TableBuilt /\ HeaderBuilt
          /\ NotBegun \/ UnderWay \/ Ending \/ Over \/ Broken

AhciInv == TypeOK /\ CallInv

\* There are as many entries as it takes, and the last is not empty.
LEMMA EntriesSuffice ==
    ASSUME NEW count \in Nat, count > 0
    PROVE  /\ prdtl(count) \in Nat /\ prdtl(count) > 0
           /\ (prdtl(count) - 1) * SECTORS < count
           /\ count <= (prdtl(count) - 1) * SECTORS + SECTORS
  <1> DEFINE q == (count - 1) \div SECTORS
  <1>1. q \in Int /\ q >= 0 /\ q * SECTORS <= count - 1 /\ count - 1 < q * SECTORS + SECTORS
    BY SectorsAssumption, SMT
  <1>2. prdtl(count) = q + 1
    BY DEF prdtl
  <1>3. prdtl(count) - 1 = q
    BY <1>1, <1>2
  <1>4. (prdtl(count) - 1) * SECTORS = q * SECTORS
    BY <1>3
  <1> HIDE DEF q
  <1>5. prdtl(count) \in Nat /\ prdtl(count) > 0
    BY <1>1, <1>2
  <1>6. q * SECTORS \in Int /\ SECTORS \in Int
    BY <1>1, SectorsAssumption
  <1> QED BY <1>1, <1>4, <1>5, <1>6

\* The entries are numbers of sectors, none empty or too long.
LEMMA EntryBounds ==
    ASSUME TypeOK, params.count > 0, NEW k \in 1..N
    PROVE  /\ N \in Nat /\ N > 0
           /\ Entry(k).dba = (k - 1) * SECTORS /\ Entry(k).dba \in Nat
           /\ Entry(k).len \in 1..SECTORS
           /\ Entry(k).dba = Before(k) /\ Entry(k).dba + Entry(k).len = Before(k + 1)
  <1>1. /\ N \in Nat /\ N > 0
        /\ (N - 1) * SECTORS < params.count /\ params.count <= (N - 1) * SECTORS + SECTORS
    BY EntriesSuffice DEF N, TypeOK, Requests
  <1>2. SECTORS \in Nat /\ SECTORS > 0 /\ params.count \in Nat
    BY SectorsAssumption DEF TypeOK, Requests
  <1>3. (k - 1) * SECTORS \in Nat /\ (N - 1) * SECTORS \in Nat
    BY <1>1, <1>2
  <1>4. (k + 1 - 1) * SECTORS = (k - 1) * SECTORS + SECTORS
    BY <1>2
  <1>5. CASE k < N
    BY <1>1, <1>2, <1>3, <1>4, <1>5 DEF Entry, Before
  <1>6. CASE k = N
    BY <1>1, <1>2, <1>3, <1>6 DEF Entry, Before
  <1> QED BY <1>1, <1>5, <1>6

-----------------------------------------------------------------------------
(* The steps of the driver *)

\* What does not touch a variable of the driver or of the controller.
LEMMA AhciStutters ==
    ASSUME AhciInv, UNCHANGED vars PROVE AhciInv'
  <1>1. TypeOK'
    BY DEF AhciInv, TypeOK, vars, port, memory, driver, controller
  <1>2. CallInv'
    BY DEF AhciInv, CallInv, vars, port, memory, driver, controller, TableBuilt, HeaderBuilt,
           NotBegun, UnderWay, Ending, Over, Broken, N, Entry, Before, Upto, Asked
  <1> QED BY <1>1, <1>2 DEF AhciInv

\* A call begins with the port stopped, whatever the last one has left behind.
LEMMA StepCalls ==
    ASSUME AhciInv, NEW lba \in Nat, NEW count \in Nat \ {0}, NEW w \in BOOLEAN, ahci_rw(lba, count, w)
    PROVE  AhciInv'
  <1>1. TypeOK'
    BY DEF AhciInv, TypeOK, ahci_rw, memory, Labels, Requests
  <1>2. CallInv'
    BY DEF AhciInv, CallInv, ahci_rw, memory, Outside, Building, Waiting
  <1> QED BY <1>1, <1>2 DEF AhciInv

\* The port is started when the controller has seen it stopped, and so has
\* forgotten what it was at.
LEMMA StepStart ==
    ASSUME AhciInv, start_cmd PROVE AhciInv'
  <1>1. TypeOK'
    BY DEF AhciInv, TypeOK, start_cmd, memory, controller, Labels
  <1>2. CallInv'
    BY DEF AhciInv, CallInv, start_cmd, memory, controller, Outside, Building, Waiting
  <1> QED BY <1>1, <1>2 DEF AhciInv

\* There always is a slot: no command is under way.
LEMMA StepFind ==
    ASSUME AhciInv, find_free_cmdslot PROVE AhciInv'
  <1>1. ci = {} /\ 0 \in Slots /\ Slots # {}
    BY SlotsAssumption DEF AhciInv, CallInv, find_free_cmdslot, Building, Slots
  <1>2. \E s \in Slots \ ci : \A r \in 0..(s - 1) : r \in ci
    <2>1. \A r \in 0..(0 - 1) : r \in ci
      OBVIOUS
    <2> QED BY <1>1, <2>1
  <1>3. FirstFreeSlot \in Slots
    BY <1>1, <1>2 DEF FirstFreeSlot
  <1>4. TypeOK'
    BY <1>3 DEF AhciInv, TypeOK, find_free_cmdslot, port, memory, controller, Labels
  <1>5. CallInv'
    BY DEF AhciInv, CallInv, find_free_cmdslot, port, memory, controller, Outside, Building, Waiting
  <1> QED BY <1>4, <1>5 DEF AhciInv

\* The table holds the entries of this request and no more.
LEMMA StepTable ==
    ASSUME AhciInv, build_cmd_table PROVE AhciInv'
  <1>1. params.count > 0 /\ TypeOK
    BY DEF AhciInv, CallInv, build_cmd_table
  <1>2. table' = [lba |-> params.lba, w |-> params.w, prdt |-> [k \in 1..N |-> Entry(k)]]
    BY DEF build_cmd_table, N, Entry
  <1>3. [k \in 1..N |-> Entry(k)] \in Seq([dba : Nat, len : Int])
    <2>1. N \in Nat
      BY <1>1, EntriesSuffice DEF N, TypeOK, Requests
    <2>2. \A k \in 1..N : Entry(k) \in [dba : Nat, len : Int]
      <3> TAKE k \in 1..N
      <3>1. Entry(k).dba \in Nat /\ Entry(k).len \in 1..SECTORS
        BY <1>1, EntryBounds
      <3>2. Entry(k) = [dba |-> Entry(k).dba, len |-> Entry(k).len]
        BY DEF Entry
      <3> QED BY <3>1, <3>2, SectorsAssumption
    <2> QED BY <2>1, <2>2
  <1>4. TypeOK'
    <2> DEFINE prdt == [k \in 1..N |-> Entry(k)]
    <2>1. prdt \in Seq([dba : Nat, len : Int]) /\ params.lba \in Nat /\ params.w \in BOOLEAN
      BY <1>1, <1>3 DEF TypeOK, Requests
    <2> HIDE DEF prdt
    <2>2. [lba |-> params.lba, w |-> params.w, prdt |-> prdt]
             \in [lba : Nat \cup {None}, w : BOOLEAN, prdt : Seq([dba : Nat, len : Int])]
      BY <2>1
    <2>3. table' \in [lba : Nat \cup {None}, w : BOOLEAN, prdt : Seq([dba : Nat, len : Int])]
      BY <1>2, <2>2 DEF prdt
    <2> QED BY <1>1, <2>3 DEF TypeOK, build_cmd_table, port, controller, Labels
  <1>5. CallInv'
    BY <1>2 DEF AhciInv, CallInv, build_cmd_table, port, controller, Outside, Building, Waiting,
                TableBuilt, N, Entry
  <1> QED BY <1>4, <1>5 DEF AhciInv

\* The header goes to the slot; clearing those behind it hurts nobody.
LEMMA StepHeader ==
    ASSUME AhciInv, build_cmdheader PROVE AhciInv'
  <1>1. N \in Nat
    BY EntriesSuffice DEF AhciInv, CallInv, TypeOK, Requests, N, build_cmdheader
  <1>2. cmd_list' \in [Slots -> [prdtl : Nat, w : BOOLEAN, ctba : BOOLEAN]]
    BY <1>1 DEF build_cmdheader, AhciInv, TypeOK, Requests, N, Zeroed
  <1>3. cmd_list'[slot] = [prdtl |-> N, w |-> params.w, ctba |-> TRUE]
    BY DEF build_cmdheader, AhciInv, TypeOK, N, Slots
  <1>4. TypeOK'
    BY <1>2 DEF AhciInv, TypeOK, build_cmdheader, port, controller, Labels
  <1>5. CallInv'
    BY <1>3 DEF AhciInv, CallInv, build_cmdheader, port, controller, Outside, Building, Waiting,
                TableBuilt, HeaderBuilt, N, Entry
  <1> QED BY <1>4, <1>5 DEF AhciInv

\* From here the controller may fetch the command.
LEMMA StepNotify ==
    ASSUME AhciInv, notify_cmd_is_active PROVE AhciInv'
  <1>1. TypeOK'
    BY DEF AhciInv, TypeOK, notify_cmd_is_active, memory, controller, Labels
  <1>2. CallInv'
    BY DEF AhciInv, CallInv, notify_cmd_is_active, memory, controller, Outside, Building, Waiting,
           TableBuilt, HeaderBuilt, NotBegun, N, Entry
  <1> QED BY <1>1, <1>2 DEF AhciInv

\* Waiting, and clearing what has been reported, changes nothing else.
LEMMA StepWaits ==
    ASSUME AhciInv, NEW others \in BOOLEAN,
           \/ wait_interrupt \/ reads_is \/ writes_is \/ clear_pxis \/ writes_ips
           \/ clear_ghc_is(others)
    PROVE  AhciInv'
  <1>1. /\ pc \in Waiting /\ pc' \in Waiting /\ is' \subseteq Reasons /\ seen' \subseteq Reasons
        /\ ips' \in BOOLEAN
        /\ UNCHANGED <<st, cr, ci, memory, params, slot, controller>>
    BY DEF wait_interrupt, reads_is, writes_is, clear_pxis, writes_ips, clear_ghc_is, Waiting, port,
           AhciInv, TypeOK
  <1>2. TypeOK'
    BY <1>1 DEF AhciInv, TypeOK, memory, controller, Labels, Waiting
  <1>3. CallInv'
    BY <1>1 DEF AhciInv, CallInv, memory, controller, TableBuilt, HeaderBuilt, Outside, Building,
                Waiting, NotBegun, UnderWay, Ending, Over, Broken, N, Entry, Before, Upto, Asked
  <1> QED BY <1>2, <1>3 DEF AhciInv

\* PxCI is clear only when the controller has moved everything.
LEMMA StepReturns ==
    ASSUME AhciInv, wait_pxci_clear PROVE AhciInv'
  <1>1. TypeOK'
    BY DEF AhciInv, TypeOK, wait_pxci_clear, port, memory, controller, Labels
  <1>2. ci = {} /\ (Ending \/ Over) /\ pc' = "idle"
        /\ UNCHANGED <<port, memory, params, slot, seen, controller>>
    BY DEF AhciInv, CallInv, wait_pxci_clear, Waiting, NotBegun, UnderWay, Broken
  <1>3. moved = Asked /\ ((work = NoWork /\ owed = {}) \/ owed = {"report"})
    BY <1>2 DEF Ending, Over
  <1>4. CallInv'
    BY <1>2, <1>3 DEF AhciInv, CallInv, port, memory, controller, Outside, Building, Waiting, Asked
  <1> QED BY <1>1, <1>4 DEF AhciInv

-----------------------------------------------------------------------------
(* The steps of the controller *)

\* A port that is stopped forgets its commands; one that is started has none.
LEMMA StepFollows ==
    ASSUME AhciInv, FollowsST PROVE AhciInv'
  <1>1. TypeOK'
    BY DEF AhciInv, TypeOK, FollowsST, memory, driver, NoWork, None
  <1>2. CASE st
    <2>1. ~cr /\ work = NoWork /\ owed = {}
      BY <1>2 DEF AhciInv, CallInv, TypeOK, FollowsST
    <2>2. cr' /\ UNCHANGED <<st, ci, work, owed, moved, memory, driver>>
      BY <1>2, <2>1 DEF FollowsST
    <2>3. CallInv'
      BY <2>1, <2>2 DEF AhciInv, CallInv, memory, driver, TableBuilt, HeaderBuilt,
           NotBegun, UnderWay, Ending, Over, Broken, N, Entry, Before, Upto, Asked
    <2> QED BY <1>1, <2>3 DEF AhciInv
  <1>3. CASE ~st
    <2>1. pc \in Outside
      BY <1>3 DEF AhciInv, CallInv, TypeOK, Labels, Outside, Building, Waiting
    <2>2. CallInv'
      BY <1>3, <2>1 DEF AhciInv, CallInv, FollowsST, memory, driver, Outside, Building, Waiting, Asked
    <2> QED BY <1>1, <2>2 DEF AhciInv
  <1> QED BY <1>2, <1>3

\* Only the command of the call can be fetched.
LEMMA StepFetches ==
    ASSUME AhciInv, Fetches PROVE AhciInv'
  <1>1. PICK s \in ci : work' = [slot |-> s, entry |-> 1, done |-> 0]
    BY DEF Fetches
  <1>2. pc \in Waiting
    BY <1>1 DEF AhciInv, CallInv, TypeOK, Labels, Outside, Building, Waiting
  <1>3. work = NoWork /\ slot # None
    BY DEF Fetches, AhciInv, TypeOK, Slots, None
  <1>4. NotBegun /\ s = slot
    BY <1>1, <1>2, <1>3 DEF AhciInv, CallInv, NotBegun, UnderWay, Ending, Over, Broken, NoWork
  <1>5. N \in Nat /\ N > 0 /\ Before(1) = 0
    <2>1. N \in Nat /\ N > 0
      BY <1>2, EntriesSuffice DEF AhciInv, CallInv, TypeOK, Requests, N, Waiting
    <2>2. (1 - 1) * SECTORS = 0
      BY SectorsAssumption
    <2> QED BY <2>1, <2>2 DEF Before
  <1>6. TypeOK'
    BY <1>1 DEF AhciInv, TypeOK, Fetches, port, memory, driver
  <1>7. work'.slot = slot /\ work'.entry = 1 /\ work'.done = 0
    BY <1>1, <1>4
  <1>8. UnderWay'
    <2>1. Upto(0) = {}
      BY DEF Upto
    <2>2. Before(1)' = Before(1) /\ N' = N /\ Upto(0)' = Upto(0)
      BY DEF Fetches, driver, port, Before, N, Upto
    <2> QED BY <1>4, <1>5, <1>7, <2>1, <2>2 DEF UnderWay, NotBegun, Fetches, port, driver
  <1>9. CallInv'
    BY <1>2, <1>8 DEF AhciInv, CallInv, Fetches, port, memory, driver, TableBuilt, HeaderBuilt,
                      Outside, Building, Waiting, N, Entry
  <1> QED BY <1>6, <1>9 DEF AhciInv

\* While something is being moved the driver waits, with the command in place.
LEMMA IsMoving ==
    ASSUME AhciInv, Moving
    PROVE  /\ pc \in Waiting /\ UnderWay /\ Entries = N /\ N \in Nat /\ N > 0
           /\ params.count \in Nat /\ params.count > 0 /\ cr /\ st
           /\ work.slot = slot /\ work.entry \in 1..(N + 1)
  <1>1. pc \in Waiting
    BY DEF AhciInv, CallInv, TypeOK, Labels, Outside, Building, Waiting, Moving
  <1>2. UnderWay
    BY <1>1 DEF AhciInv, CallInv, NotBegun, UnderWay, Ending, Over, Broken, Moving
  <1>3. params.count \in Nat /\ params.count > 0
    BY <1>1 DEF AhciInv, CallInv, TypeOK, Requests, Waiting
  <1>4. HeaderBuilt /\ st
    BY <1>1 DEF AhciInv, CallInv
  <1>5. N \in Nat /\ N > 0
    BY <1>3, EntriesSuffice DEF N
  <1> QED BY <1>1, <1>2, <1>3, <1>4, <1>5 DEF UnderWay, HeaderBuilt, Entries, Moving

\* The next entry carries on where the last one has ended, in the buffer and on
\* the disk.
LEMMA StepMoves ==
    ASSUME AhciInv, Moves PROVE AhciInv'
  <1> PICK k, d, len : k = work.entry /\ d = work.done /\ len = Entry(work.entry).len
    OBVIOUS
  <1>1. /\ pc \in Waiting /\ UnderWay /\ Entries = N /\ N \in Nat /\ N > 0
        /\ params.count \in Nat /\ params.count > 0 /\ work.slot = slot
    BY IsMoving DEF Moves
  <1>2. k \in 1..N
    BY <1>1 DEF Moves, UnderWay
  <1>3. /\ table.prdt[k] = Entry(k) /\ table.lba = params.lba /\ cmd_list[work.slot].w = params.w
    BY <1>1, <1>2 DEF AhciInv, CallInv, TableBuilt, HeaderBuilt
  <1>4. d \in Nat /\ Entry(k).dba = d /\ len \in 1..SECTORS /\ d + len = Before(k + 1)
    BY <1>1, <1>2, EntryBounds DEF AhciInv, UnderWay
  <1>5. params.lba \in Nat /\ params.w \in BOOLEAN
    BY DEF AhciInv, TypeOK, Requests
  <1>6. len \in Nat
    BY <1>4, SectorsAssumption
  <1>7. /\ moved' = moved \cup {<<params.w, d + j, params.lba + d + j>> : j \in 0..(len - 1)}
        /\ work' = [work EXCEPT !.entry = k + 1, !.done = d + len]
        /\ is' = is \cup {"entry"} /\ ips' = TRUE
        /\ UNCHANGED <<st, cr, ci, memory, driver, owed>>
    BY <1>3, <1>4 DEF Moves, Report
  <1>8. moved' = Upto(d + len)
    <2>1. moved = Upto(d)
      BY <1>1 DEF UnderWay
    <2>2. ASSUME NEW n \in 0..(d + len - 1), n \notin 0..(d - 1)
          PROVE  \E j \in 0..(len - 1) : n = d + j
      <3>1. n - d \in 0..(len - 1) /\ n = d + (n - d)
        BY <1>4, <1>6, <2>2
      <3> QED BY <3>1
    <2>3. \A j \in 0..(len - 1) : d + j \in 0..(d + len - 1) /\ params.lba + d + j = params.lba + (d + j)
      BY <1>4, <1>5, <1>6
    <2>4. 0..(d - 1) \subseteq 0..(d + len - 1)
      BY <1>4, <1>6
    <2>5. \A n \in 0..(d + len - 1) : n \in Nat
      OBVIOUS
    <2>6. moved' \subseteq Upto(d + len)
      <3>1. Upto(d) \subseteq Upto(d + len)
        BY <1>4, <1>5, <1>6, <2>4 DEF Upto
      <3>2. \A j \in 0..(len - 1) : <<params.w, d + j, params.lba + d + j>> \in Upto(d + len)
        BY <1>4, <1>5, <1>6, <2>3 DEF Upto
      <3>3. {<<params.w, d + j, params.lba + d + j>> : j \in 0..(len - 1)} \subseteq Upto(d + len)
        BY <3>2
      <3> QED BY <1>7, <2>1, <3>1, <3>3
    <2>7. Upto(d + len) \subseteq moved'
      <3> SUFFICES ASSUME NEW n \in 0..(d + len - 1)
                   PROVE  <<params.w, n, params.lba + n>> \in moved'
        BY <1>4, <1>5, <1>6 DEF Upto
      <3>1. CASE n \in 0..(d - 1)
        BY <1>7, <2>1, <3>1 DEF Upto
      <3>2. CASE n \notin 0..(d - 1)
        <4>1. PICK j \in 0..(len - 1) : n = d + j
          BY <2>2, <3>2
        <4>2. params.lba + n = params.lba + d + j
          BY <2>3, <4>1
        <4> QED BY <1>7, <4>1, <4>2
      <3> QED BY <3>1, <3>2
    <2> QED BY <2>6, <2>7
  <1>9. /\ work' = [slot |-> slot, entry |-> k + 1, done |-> d + len]
        /\ work'.slot = slot /\ work'.entry = k + 1 /\ work'.done = d + len
        /\ work' \in [slot : Slots \cup {None}, entry : Nat, done : Nat]
    <2>1. work \in [slot : Slots \cup {None}, entry : Nat, done : Nat] /\ slot \in Slots
      BY DEF AhciInv, TypeOK
    <2>2. work' = [slot |-> slot, entry |-> k + 1, done |-> d + len]
      BY <1>1, <1>7, <2>1
    <2>3. k + 1 \in Nat /\ d + len \in Nat
      BY <1>1, <1>2, <1>4, <1>6
    <2> QED BY <2>1, <2>2, <2>3
  <1>10. Upto(d + len) \subseteq BOOLEAN \X Nat \X Nat
    BY <1>4, <1>5, <1>6 DEF Upto
  <1>11. TypeOK'
    BY <1>7, <1>8, <1>9, <1>10 DEF AhciInv, TypeOK, Reasons, memory, driver
  <1>12. UnderWay'
    <2>1. N' = N /\ slot' = slot /\ ci' = ci /\ owed' = owed /\ params' = params
      BY <1>7 DEF N, driver
    <2>2. work'.done = IF k + 1 <= N THEN (k + 1 - 1) * SECTORS ELSE params.count
      BY <1>1, <1>2, <1>4, <1>6, <1>9 DEF Before
    <2>3. (work.done = Before(work.entry))'
      BY <1>1, <1>2, <1>4, <1>6, <1>9, <2>1, <2>2 DEF Before
    <2>4. (moved = Upto(work.done))'
      BY <1>4, <1>5, <1>6, <1>8, <1>9, <2>1 DEF Upto
    <2>5. k + 1 \in 1..(N + 1)
      BY <1>1, <1>2
    <2> QED BY <1>1, <1>9, <2>1, <2>3, <2>4, <2>5 DEF UnderWay
  <1>13. CallInv'
    BY <1>1, <1>7, <1>12, IsMoving DEF AhciInv, CallInv, Moves, memory, driver, TableBuilt, HeaderBuilt,
                      Outside, Building, Waiting, N, Entry
  <1> QED BY <1>11, <1>13 DEF AhciInv

\* Behind the last entry everything has been moved.
LEMMA StepEnds ==
    ASSUME AhciInv, Ends PROVE AhciInv'
  <1>1. /\ pc \in Waiting /\ UnderWay /\ Entries = N /\ N \in Nat /\ N > 0 /\ cr
        /\ work.slot = slot /\ work.entry \in 1..(N + 1)
    BY IsMoving DEF Ends
  <1>2. work.entry = N + 1 /\ Before(N + 1) = params.count
    BY <1>1 DEF Ends, Before
  <1>3. moved = Asked
    BY <1>1, <1>2 DEF UnderWay, Upto, Asked
  <1>4. TypeOK'
    BY DEF AhciInv, TypeOK, Ends, port, memory, driver
  <1>5. Ending'
    BY <1>1, <1>3 DEF Ends, Ending, UnderWay, port, memory, driver, Asked
  <1>6. CallInv'
    BY <1>1, <1>5 DEF AhciInv, CallInv, Ends, port, memory, driver, TableBuilt, HeaderBuilt,
                      Outside, Building, Waiting, N, Entry
  <1> QED BY <1>4, <1>6 DEF AhciInv

\* An error leaves the bit in PxCI: the call never returns.
LEMMA StepFails ==
    ASSUME AhciInv, Fails PROVE AhciInv'
  <1>1. /\ pc \in Waiting /\ UnderWay /\ cr /\ work.slot = slot
    BY IsMoving DEF Fails
  <1>2. TypeOK'
    BY DEF AhciInv, TypeOK, Fails, Report, Reasons, memory, driver
  <1>3. Broken'
    BY <1>1 DEF Fails, Broken, UnderWay, driver
  <1>4. CallInv'
    BY <1>1, <1>3 DEF AhciInv, CallInv, Fails, Report, memory, driver, TableBuilt, HeaderBuilt,
                      Outside, Building, Waiting, N, Entry
  <1> QED BY <1>2, <1>4 DEF AhciInv

\* The bit in PxCI falls when everything has been moved, before or behind the report.
LEMMA StepAcknowledges ==
    ASSUME AhciInv, Acknowledges PROVE AhciInv'
  <1>1. pc \in Waiting /\ Ending
    <2>1. pc \in Waiting
      BY DEF AhciInv, CallInv, TypeOK, Labels, Outside, Building, Waiting, Acknowledges
    <2> QED BY <2>1 DEF AhciInv, CallInv, NotBegun, UnderWay, Ending, Over, Broken, Acknowledges
  <1>2. ci' = {} /\ slot \in Slots
    BY <1>1 DEF Ending, Acknowledges, AhciInv, TypeOK
  <1>3. TypeOK'
    BY DEF AhciInv, TypeOK, Acknowledges, memory, driver, NoWork, None
  <1>4. Ending' \/ Over'
    BY <1>1, <1>2 DEF Acknowledges, Ending, Over, driver, Asked
  <1>5. CallInv'
    BY <1>1, <1>4 DEF AhciInv, CallInv, Acknowledges, memory, driver, TableBuilt, HeaderBuilt,
                      Outside, Building, Waiting, N, Entry
  <1> QED BY <1>3, <1>5 DEF AhciInv

\* The report of the end may come when the call has returned already.
LEMMA StepReports ==
    ASSUME AhciInv, ReportsEnd PROVE AhciInv'
  <1>1. TypeOK'
    BY DEF AhciInv, TypeOK, ReportsEnd, Report, Reasons, memory, driver, NoWork, None
  <1>2. CASE pc \in Outside
    <2>1. owed = {"report"} /\ owed' = {} /\ work' = NoWork
      BY <1>2 DEF AhciInv, CallInv, ReportsEnd
    <2>2. CallInv'
      BY <1>2, <2>1 DEF AhciInv, CallInv, ReportsEnd, Report, memory, driver, Outside, Building, Waiting,
                        Asked
    <2> QED BY <1>1, <2>2 DEF AhciInv
  <1>3. CASE pc \notin Outside
    <2>1. pc \in Waiting
      BY <1>3 DEF AhciInv, CallInv, TypeOK, Labels, Outside, Building, Waiting, ReportsEnd
    <2>2. Ending
      BY <2>1 DEF AhciInv, CallInv, NotBegun, UnderWay, Ending, Over, Broken, ReportsEnd
    <2>3. Ending' \/ Over'
      BY <2>2 DEF ReportsEnd, Ending, Over, driver, Asked
    <2>4. CallInv'
      BY <2>1, <2>3 DEF AhciInv, CallInv, ReportsEnd, Report, memory, driver, TableBuilt, HeaderBuilt,
                        Outside, Building, Waiting, N, Entry
    <2> QED BY <1>1, <2>4 DEF AhciInv
  <1> QED BY <1>2, <1>3

-----------------------------------------------------------------------------
(* Who calls: check_ahci, anybody, and check_ext2 *)

\* What check_ext2 has read is enough to ask for a block that has sectors.
ExtInv ==
    /\ fs \in Filesystems
    /\ at_ext2 \in {"sblock", "descriptor", "inodes", "root"}
    /\ i \in Nat /\ block_size \in Nat /\ bg_inode_table \in Nat
    /\ at_ext2 \in {"descriptor", "inodes"} => block_size > 0

\* Every step of check_ext2 keeps it.
LEMMA ExtStep ==
    ASSUME ExtInv, [DiskNext]_diskVars PROVE ExtInv'
  <1>1. CASE UNCHANGED ext2Vars
    BY <1>1 DEF ExtInv, ext2Vars, statics
  <1>2. ASSUME NEW pool, ext2_check_sblock(pool) PROVE ExtInv'
    <2>1. PICK size : size = 2^fs.s_log_block_size
      OBVIOUS
    <2>2. size \in Nat \ {0}
      BY <2>1, PowersAssumption, Zenon DEF ExtInv
    <2>3. block_size' = size \/ block_size' = 1
      BY <1>2, <2>1, Zenon DEF ext2_check_sblock
    <2>4. at_ext2' = "descriptor" /\ UNCHANGED <<fs, i, bg_inode_table>>
      BY <1>2, Zenon DEF ext2_check_sblock
    <2> QED BY <2>2, <2>3, <2>4 DEF ExtInv
  <1>3. ASSUME NEW pool, ext2_check_bg_dsc2(pool) PROVE ExtInv'
    BY <1>3, FilesystemsAssumption DEF ExtInv, ext2_check_bg_dsc2
  <1>4. ASSUME NEW pool, create_inode_table2(pool) PROVE ExtInv'
    BY <1>4 DEF ExtInv, create_inode_table2, statics
  <1>5. UNCHANGED ext2Vars \/ \E pool : Uses(pool)
    BY DEF DiskNext, diskVars, Looks, PreparesPort, ControllerResets, DrivesComeUp, check_ahci,
           AnybodyCalls, check_ext2_calls, check_ext2_returns, DriverRuns, ControllerRuns, DeviceFails
  <1> QED BY <1>1, <1>2, <1>3, <1>4, <1>5 DEF Uses

\* A call of check_ext2 asks for something.
LEMMA RequestAsks ==
    ASSUME ExtInv, at_ext2 # "root"
    PROVE  Request[1] \in Nat /\ Request[2] \in Nat \ {0}
  <1>1. CASE at_ext2 = "inodes"
    <2>1. block_size \in Nat /\ block_size > 0 /\ bg_inode_table + i \in Nat
      BY <1>1 DEF ExtInv
    <2>2. BLOCK \in Nat /\ BLOCK > 0
      BY <2>1 DEF BLOCK
    <2>3. (bg_inode_table + i) * BLOCK \in Nat
      BY <2>1, <2>2
    <2> QED BY <1>1, <2>2, <2>3 DEF Request
  <1>2. CASE at_ext2 = "sblock"
    BY <1>2 DEF Request
  <1>3. CASE at_ext2 = "descriptor"
    BY <1>3 DEF Request
  <1> QED BY <1>1, <1>2, <1>3 DEF ExtInv

\* Every step of the kernel and of the controller keeps the invariant of the calls.
LEMMA AhciStep ==
    ASSUME AhciInv, ExtInv, [DiskNext]_diskVars PROVE AhciInv'
  <1>1. CASE UNCHANGED vars
    BY <1>1, AhciStutters
  <1>2. CASE PreparesPort \/ DrivesComeUp
    <2>1. /\ is' \subseteq Reasons /\ ips' \in BOOLEAN
          /\ UNCHANGED <<st, cr, ci, memory, driver, controller>>
      BY <1>2 DEF PreparesPort, DrivesComeUp, Reported, AhciInv, TypeOK, Reasons
    <2>2. TypeOK'
      BY <2>1 DEF AhciInv, TypeOK, memory, driver, controller
    <2>3. CallInv'
      BY <2>1 DEF AhciInv, CallInv, memory, driver, controller, TableBuilt, HeaderBuilt,
           NotBegun, UnderWay, Ending, Over, Broken, N, Entry, Before, Upto, Asked
    <2> QED BY <2>2, <2>3 DEF AhciInv
  <1>3. CASE check_ahci
    <2>1. ahci_rw(2, 1, FALSE)
      BY <1>3 DEF check_ahci
    <2>2. 2 \in Nat /\ 1 \in Nat \ {0} /\ FALSE \in BOOLEAN
      OBVIOUS
    <2> QED BY <2>1, <2>2, StepCalls, Zenon
  <1>4. CASE AnybodyCalls
    BY <1>4, StepCalls, OthersAssumption DEF AnybodyCalls
  <1>5. CASE check_ext2_calls
    BY <1>5, StepCalls, RequestAsks DEF check_ext2_calls
  <1>6. CASE Driver(OthersPending)
    <2>1. OthersPending \in BOOLEAN
      BY DEF OthersPending
    <2> QED BY <1>6, <2>1, StepStart, StepFind, StepTable, StepHeader, StepNotify, StepWaits, StepReturns
            DEF Driver
  <1>7. CASE Controller \/ Fails
    BY <1>7, StepFollows, StepFetches, StepMoves, StepEnds, StepAcknowledges, StepReports, StepFails
       DEF Controller
  <1>8. \/ UNCHANGED vars \/ PreparesPort \/ DrivesComeUp \/ check_ahci \/ AnybodyCalls
        \/ check_ext2_calls \/ Driver(OthersPending) \/ Controller \/ Fails
    BY DEF DiskNext, diskVars, Looks, ControllerResets, check_ext2_returns,
           DriverRuns, ControllerRuns, DeviceFails
  <1> QED BY <1>1, <1>2, <1>3, <1>4, <1>5, <1>6, <1>7, <1>8

\* Before the first call nothing is moving.
LEMMA AhciBegins ==
    ASSUME Init PROVE AhciInv
  <1>1. TypeOK
    <2>1. 0 \in Slots /\ NoWork \in [slot : Slots \cup {None}, entry : Nat, done : Nat]
      BY SlotsAssumption DEF Slots, NoWork
    <2>2. NoTable \in [lba : Nat \cup {None}, w : BOOLEAN, prdt : Seq([dba : Nat, len : Int])]
      BY DEF NoTable
    <2> QED BY <2>1, <2>2 DEF Init, TypeOK, Zeroed, Labels, Requests
  <1>2. CallInv
    BY DEF Init, CallInv, Asked, Outside, Building, Waiting
  <1> QED BY <1>1, <1>2 DEF AhciInv

\* The invariant of the calls, under whatever calls are made.
THEOREM CallsInvariant == DiskSpec => [](AhciInv /\ ExtInv)
  <1>1. DiskInit => AhciInv /\ ExtInv
    <2>1. Ext2Init => ExtInv
      BY DEF Ext2Init, ExtInv
    <2> QED BY <2>1, AhciBegins DEF DiskInit
  <1>2. AhciInv /\ ExtInv /\ [DiskNext]_diskVars => AhciInv' /\ ExtInv'
    BY AhciStep, ExtStep
  <1> QED BY <1>1, <1>2, PTL DEF DiskSpec

\* Types; a command always has a slot (find_free_cmdslot).
THEOREM DiskTypes == DiskSpec => []TypeOK
  <1>1. AhciInv => TypeOK
    BY DEF AhciInv
  <1> QED BY <1>1, CallsInvariant, PTL

\* The controller never finds half a command, nor that of another call
\* (build_command, start_cmd, notify_cmd_is_active, wait_pxci_clear).
THEOREM FetchesWholeCommand == DiskSpec => []IssuedIsBuilt
  <1>1. ASSUME AhciInv PROVE IssuedIsBuilt
    <2> SUFFICES ASSUME NEW s \in ci
                 PROVE  /\ s = slot /\ pc # "idle"
                        /\ cmd_list[s].ctba /\ cmd_list[s].w = params.w
                        /\ table.lba = params.lba /\ table.w = params.w
                        /\ CoversBuffer(table.prdt, cmd_list[s].prdtl, params.count)
      BY DEF IssuedIsBuilt
    <2>1. pc \in Waiting
      BY <1>1 DEF AhciInv, CallInv, TypeOK, Labels, Outside, Building, Waiting
    <2>2. s = slot
      BY <1>1, <2>1 DEF AhciInv, CallInv, NotBegun, UnderWay, Ending, Over, Broken
    <2>3. TableBuilt /\ HeaderBuilt /\ TypeOK /\ params.count > 0
      BY <1>1, <2>1 DEF AhciInv, CallInv, Waiting
    <2>4. N \in Nat /\ N > 0
      BY <2>3, EntriesSuffice DEF N, TypeOK, Requests
    <2>5. table.prdt = [k \in 1..N |-> Entry(k)] /\ cmd_list[s].prdtl = N
      BY <2>2, <2>3 DEF TableBuilt, HeaderBuilt
    <2>6. Len(table.prdt) = N /\ \A k \in 1..N : table.prdt[k] = Entry(k)
      BY <2>4, <2>5
    <2>7. table.prdt[1].dba = 0
      <3>1. Entry(1).dba = (1 - 1) * SECTORS
        BY <2>3, <2>4, EntryBounds
      <3> QED BY <2>4, <2>6, <3>1, SectorsAssumption
    <2>8. table.prdt[N].dba + table.prdt[N].len = params.count
      <3>1. Entry(N).dba + Entry(N).len = Before(N + 1)
        BY <2>3, <2>4, EntryBounds
      <3> QED BY <2>4, <2>6, <3>1 DEF Before
    <2>9. \A k \in 1..N : table.prdt[k].len \in 1..SECTORS
      BY <2>3, <2>6, EntryBounds
    <2>10. ASSUME NEW k \in 1..(N - 1)
           PROVE  table.prdt[k + 1].dba = table.prdt[k].dba + table.prdt[k].len
      <3>1. k \in 1..N /\ k + 1 \in 1..N
        BY <2>4
      <3>2. Entry(k).dba + Entry(k).len = Before(k + 1) /\ Entry(k + 1).dba = Before(k + 1)
        BY <2>3, <3>1, EntryBounds
      <3> QED BY <2>6, <3>1, <3>2
    <2>11. CoversBuffer(table.prdt, N, params.count)
      BY <2>4, <2>6, <2>7, <2>8, <2>9, <2>10 DEF CoversBuffer
    <2> QED BY <2>1, <2>2, <2>3, <2>5, <2>11 DEF TableBuilt, HeaderBuilt, Waiting
  <1>2. AhciInv => IssuedIsBuilt
    BY <1>1
  <1> QED BY <1>2, CallsInvariant, PTL

\* A call that has returned has moved exactly the sectors asked for, for every
\* request and size of an entry (ahci_read, ahci_write, wait_pxci_clear).
THEOREM TransfersAreWhole == DiskSpec => []WholeTransfer
  <1>1. AhciInv => WholeTransfer
    BY DEF AhciInv, CallInv, WholeTransfer
  <1> QED BY <1>1, CallsInvariant, PTL

-----------------------------------------------------------------------------
(* The walk over the buses *)

\* The functions that the three loops have come past.
Passed(f) ==
    \/ f[1] < walk[1]
    \/ f[1] = walk[1] /\ f[2] < walk[2]
    \/ f[1] = walk[1] /\ f[2] = walk[2] /\ f[3] < walk[3]

\* The last controller come past is the one that is kept.
PciInv ==
    /\ space \in Machines
    /\ walk = <<BUSES, 0, 0>> \/ walk \in Functions
    /\ IF \E f \in Controllers : Passed(f)
       THEN \E f \in Controllers : abar = space[f][36]
       ELSE abar = NULL

\* The loops come past every function, and past none twice.
LEMMA NextFunction ==
    ASSUME walk \in Functions, walk' = After(walk)
    PROVE  /\ walk' = <<BUSES, 0, 0>> \/ walk' \in Functions
           /\ \A f \in Functions : Passed(f)' <=> Passed(f) \/ f = walk
  <1> USE SizesAssumption
  <1>1. PICK a \in 0..(BUSES - 1), b \in 0..(DEVICES - 1), c \in 0..(FUNCS - 1) : walk = <<a, b, c>>
    BY DEF Functions
  <1>2. \A f \in Functions : /\ f[1] \in 0..(BUSES - 1) /\ f[2] \in 0..(DEVICES - 1)
                             /\ f[3] \in 0..(FUNCS - 1) /\ f = <<f[1], f[2], f[3]>>
    BY DEF Functions
  <1>4. \A f \in Functions : Passed(f) <=> \/ f[1] < a
                                           \/ f[1] = a /\ f[2] < b
                                           \/ f[1] = a /\ f[2] = b /\ f[3] < c
    BY <1>1 DEF Passed
  <1>5. CASE c + 1 < FUNCS
    <2>1. walk' = <<a, b, c + 1>> /\ walk' \in Functions
      BY <1>1, <1>5 DEF After, Functions
    <2>3. \A f \in Functions : Passed(f)' <=> \/ f[1] < a
                                              \/ f[1] = a /\ f[2] < b
                                              \/ f[1] = a /\ f[2] = b /\ f[3] < c + 1
      BY <2>1 DEF Passed
    <2> QED BY <1>1, <1>2, <1>4, <2>1, <2>3
  <1>6. CASE ~(c + 1 < FUNCS) /\ b + 1 < DEVICES
    <2>1. walk' = <<a, b + 1, 0>> /\ walk' \in Functions
      BY <1>1, <1>6 DEF After, Functions
    <2>3. \A f \in Functions : Passed(f)' <=> \/ f[1] < a
                                              \/ f[1] = a /\ f[2] < b + 1
                                              \/ f[1] = a /\ f[2] = b + 1 /\ f[3] < 0
      BY <2>1 DEF Passed
    <2> QED BY <1>1, <1>2, <1>4, <1>6, <2>1, <2>3
  <1>7. CASE ~(c + 1 < FUNCS) /\ ~(b + 1 < DEVICES) /\ a + 1 < BUSES
    <2>1. walk' = <<a + 1, 0, 0>> /\ walk' \in Functions
      BY <1>1, <1>7 DEF After, Functions
    <2>3. \A f \in Functions : Passed(f)' <=> \/ f[1] < a + 1
                                              \/ f[1] = a + 1 /\ f[2] < 0
                                              \/ f[1] = a + 1 /\ f[2] = 0 /\ f[3] < 0
      BY <2>1 DEF Passed
    <2> QED BY <1>1, <1>2, <1>4, <1>7, <2>1, <2>3
  <1>8. CASE ~(c + 1 < FUNCS) /\ ~(b + 1 < DEVICES) /\ ~(a + 1 < BUSES)
    <2>1. walk' = <<BUSES, 0, 0>>
      BY <1>1, <1>8 DEF After
    <2>2. \A f \in Functions : Passed(f)'
      BY <1>2, <2>1 DEF Passed
    <2> QED BY <1>1, <1>2, <1>4, <1>8, <2>1, <2>2
  <1> QED BY <1>5, <1>6, <1>7, <1>8

\* What is kept of one function: its base address if it is a controller, whatever
\* the stack holds where nothing answers.
LEMMA KeepsControllers ==
    ASSUME space \in Machines, walk \in Functions, check_all_buses
    PROVE  abar' = IF walk \in Controllers THEN space[walk][36] ELSE abar
  <1>1. /\ space[walk] \in [Registers -> Dword]
        /\ space[walk][0][1] = 255 /\ space[walk][0][2] = 255 => space[walk][0] = Ones
    BY MachinesAssumption
  <1>2. /\ pci_config_read_word(walk, 0) = <<space[walk][0][1], space[walk][0][2]>>
        /\ pci_config_read_byte(walk, 10) = space[walk][8][3]
        /\ pci_config_read_byte(walk, 11) = space[walk][8][4]
        /\ get_ahci_base_address(walk) = space[walk][36]
    BY DEF pci_config_read_word, pci_config_read_byte, pci_config_read_dword, get_ahci_base_address
  <1>3. PICK config \in pci_check_parameters(walk) :
            abar' = IF config.vendor # NoVendor /\ config.class_code = 1 /\ config.subclass = 6
                    THEN get_ahci_base_address(walk) ELSE abar
    BY DEF check_all_buses
  <1>4. walk \in Controllers <=> /\ space[walk][0] # Ones
                                 /\ space[walk][8][4] = 1 /\ space[walk][8][3] = 6
    BY DEF Controllers
  <1>5. CASE pci_config_read_word(walk, 0) = NoVendor
    <2>1. space[walk][0] = Ones
      BY <1>1, <1>2, <1>5 DEF NoVendor
    <2>2. config.vendor = NoVendor
      BY <1>3, <1>5 DEF pci_check_parameters
    <2> QED BY <1>3, <1>4, <2>1, <2>2
  <1>6. CASE pci_config_read_word(walk, 0) # NoVendor
    <2>1. space[walk][0] # Ones
      BY <1>2, <1>6 DEF NoVendor, Ones
    <2>2. config.vendor # NoVendor /\ config.subclass = space[walk][8][3]
          /\ config.class_code = space[walk][8][4]
      BY <1>2, <1>3, <1>6 DEF pci_check_parameters
    <2> QED BY <1>2, <1>3, <1>4, <2>1, <2>2
  <1> QED BY <1>5, <1>6

\* Every turn of the loops keeps it; nothing else touches abar.
LEMMA PciStep ==
    ASSUME PciInv, [DiskNext]_diskVars PROVE PciInv'
  <1>1. CASE UNCHANGED pciVars
    BY <1>1 DEF PciInv, pciVars, Passed, Controllers
  <1>2. CASE check_all_buses
    <2>1. walk \in Functions /\ walk' = After(walk) /\ space' = space
      BY <1>2 DEF PciInv, check_all_buses, Walked
    <2>2. /\ walk' = <<BUSES, 0, 0>> \/ walk' \in Functions
          /\ \A f \in Functions : Passed(f)' <=> Passed(f) \/ f = walk
      BY <2>1, NextFunction
    <2>3. abar' = IF walk \in Controllers THEN space[walk][36] ELSE abar
      BY <1>2, <2>1, KeepsControllers DEF PciInv
    <2>4. Controllers' = Controllers /\ Controllers \subseteq Functions
      BY <2>1 DEF Controllers
    <2>5. CASE walk \in Controllers
      BY <2>1, <2>2, <2>3, <2>4, <2>5 DEF PciInv
    <2>6. CASE walk \notin Controllers
      <3>1. \A f \in Controllers : Passed(f)' <=> Passed(f)
        BY <2>2, <2>4, <2>6
      <3> QED BY <2>1, <2>2, <2>3, <2>4, <2>6, <3>1 DEF PciInv
    <2> QED BY <2>5, <2>6
  <1>3. UNCHANGED pciVars \/ check_all_buses
    BY DEF DiskNext, diskVars, Looks, PreparesPort, ControllerResets, DrivesComeUp, check_ahci, Prepared,
           AnybodyCalls, check_ext2_calls, check_ext2_returns, DriverRuns, ControllerRuns, DeviceFails
  <1> QED BY <1>1, <1>2, <1>3

\* The walk finds a controller if there is one, in every machine, with buses of
\* every size (check_all_buses, pci_check_parameters).
THEOREM ControllerIsFound == DiskSpec => []FoundIsController
  <1>1. DiskInit => PciInv
    <2> SUFFICES ASSUME PciInit PROVE PciInv
      BY DEF DiskInit
    <2>1. walk = <<0, 0, 0>> /\ walk \in Functions
      BY SizesAssumption DEF PciInit, Functions
    <2>2. \A f \in Controllers : ~Passed(f)
      BY <2>1 DEF Passed, Controllers, Functions
    <2> QED BY <2>1, <2>2 DEF PciInit, PciInv
  <1>2. PciInv /\ [DiskNext]_diskVars => PciInv'
    BY PciStep
  <1>3. PciInv => FoundIsController
    <2> SUFFICES ASSUME PciInv, walk[1] = BUSES
                 PROVE  IF Controllers = {} THEN abar = NULL
                        ELSE \E f \in Controllers : abar = space[f][36]
      BY DEF FoundIsController, Walked
    <2>1. \A f \in Controllers : Passed(f)
      BY SizesAssumption DEF Passed, Controllers, Functions
    <2> QED BY <2>1 DEF PciInv
  <1> QED BY <1>1, <1>2, <1>3, PTL DEF DiskSpec

-----------------------------------------------------------------------------
(* The preparation of the ports *)

\* The reset is over when the ports are looked at, and stops them; what they are
\* given afterwards nobody takes from them.
PortsInv ==
    /\ pi \in PortSets
    /\ clb \in [PortNumbers -> Int]
    /\ at_init \in {"reset", "resetting", "probe", "never", "alloc", "serr", "is", "ie", "done"}
    /\ hr => at_init = "resetting"
    /\ at_init # "reset" /\ ~hr => started = {}
    /\ at_init \in {"serr", "is", "ie", "done"} => \A p \in pi : p \in fre /\ clb[p] = p

\* Every step of ahci_init, the reset and the drives keep it.
LEMMA PortsStep ==
    ASSUME PortsInv, [DiskNext]_diskVars PROVE PortsInv'
  <1>1. pi \subseteq PortNumbers /\ pi \subseteq Taken /\ PortNumbers \subseteq Int
    <2>1. pi \subseteq PortNumbers /\ PortNumbers \subseteq Int
      BY PortSetsAssumption DEF PortsInv, PortNumbers
    <2>2. ASSUME NEW p \in pi PROVE p \in Taken
      <3>1. p \in PortNumbers /\ p <= p
        BY <2>1
      <3> QED BY <3>1 DEF Taken
    <2> QED BY <2>1, <2>2
  <1>2. CASE UNCHANGED ahciInitVars
    BY <1>2 DEF PortsInv, ahciInitVars, hba
  <1>3. CASE hba_reset \/ hba_reset_polls \/ probe_idle_port \/ clears_serr_ends \/ clears_is_ends
    BY <1>3 DEF PortsInv, hba_reset, hba_reset_polls, probe_idle_port, clears_serr_ends,
                clears_is_ends, Passes, hba
  <1>4. CASE alloc_mem_for_ports
    BY <1>1, <1>4 DEF PortsInv, alloc_mem_for_ports, Passes
  <1>5. ASSUME NEW p \in PortNumbers, clear_ports_serr(p) \/ clears_is(p) PROVE PortsInv'
    BY <1>5 DEF PortsInv, clear_ports_serr, clears_is
  <1>6. CASE enable_ahci_interrupt
    BY <1>6 DEF PortsInv, enable_ahci_interrupt, Passes
  <1>7. CASE Resets
    BY <1>7 DEF PortsInv, Resets, NoList
  <1>8. ASSUME NEW p \in PortNumbers, LinkUp(p) \/ SendsSignature(p) PROVE PortsInv'
    BY <1>8 DEF PortsInv, LinkUp, SendsSignature
  <1>9. UNCHANGED ahciInitVars \/ Prepares \/ Resets \/ Drives
    BY DEF DiskNext, diskVars, Looks, PreparesPort, ControllerResets, DrivesComeUp, check_ahci, Prepared,
           AnybodyCalls, check_ext2_calls, check_ext2_returns, DriverRuns, ControllerRuns, DeviceFails
  <1> QED BY <1>2, <1>3, <1>4, <1>5, <1>6, <1>7, <1>8, <1>9 DEF Prepares, Drives

\* When ahci_init is done every implemented port is stopped and has what it was
\* given, on every controller (hba_reset, alloc_mem_for_ports).
THEOREM PortsArePrepared == DiskSpec => []StartsClean
  <1>1. DiskInit => PortsInv
    BY DEF DiskInit, AhciInitInit, PortsInv, NoList
  <1>2. PortsInv /\ [DiskNext]_diskVars => PortsInv'
    BY PortsStep
  <1>3. PortsInv => StartsClean
    BY DEF PortsInv, StartsClean
  <1> QED BY <1>1, <1>2, <1>3, PTL DEF DiskSpec

-----------------------------------------------------------------------------
(* The table of inodes *)

\* The pool is that of the request, what has been read is right as far as it is
\* used, and the blocks before the i-th are in the table, each at its place.  The
\* descriptor is found only with blocks of no more than 2 KB.
Small == fs.s_log_block_size <= 1
TableInv ==
    /\ reading => /\ checked /\ at_ext2 # "root"
                  /\ ~params.w /\ params.lba = Request[1] /\ params.count = Request[2]
    /\ at_ext2 # "sblock" =>
          block_size = 2^fs.s_log_block_size /\ s_inodes_per_group = fs.s_inodes_per_group
    /\ at_ext2 \in {"sblock", "descriptor"} => i = 0
    /\ at_ext2 = "inodes" => i < nblock_inode_table
    /\ at_ext2 = "root" => i = nblock_inode_table
    /\ at_ext2 \in {"inodes", "root"} /\ Small =>
          /\ bg_inode_table = fs.bg_inode_table
          /\ \A n \in 0..(table_len - 1) : n < i * inodes_per_block => inode_table[n] = n

\* When a call of check_ext2 has returned, its pool holds the sectors from the
\* one it asked for.
LEMMA PoolIsRead ==
    ASSUME AhciInv, TableInv, reading, pc = "idle", NEW n \in 0..(params.count - 1)
    PROVE  PoolOf(params.count)[n] = Request[1] + n
  <1> DEFINE put == {m[3] : m \in {m \in moved : m[2] = n /\ ~m[1]}}
  <1>1. moved = {<<params.w, k, params.lba + k>> : k \in 0..(params.count - 1)} /\ ~params.w
    BY DEF AhciInv, CallInv, Asked, TableInv
  <1>2. put = {params.lba + n}
    <2>1. ASSUME NEW s \in put PROVE s = params.lba + n
      <3>1. PICK m \in moved : m[2] = n /\ s = m[3]
        BY <2>1
      <3>2. PICK k \in 0..(params.count - 1) : m = <<params.w, k, params.lba + k>>
        BY <1>1, <3>1
      <3> QED BY <3>1, <3>2
    <2>2. params.lba + n \in put
      <3> DEFINE last == <<params.w, n, params.lba + n>>
      <3>1. last \in moved /\ last[2] = n /\ ~last[1] /\ last[3] = params.lba + n
        BY <1>1
      <3> HIDE DEF last
      <3> QED BY <3>1
    <2> QED BY <2>1, <2>2
  <1>3. PoolOf(params.count)[n] = CHOOSE s \in put : TRUE
    BY <1>2 DEF PoolOf
  <1> QED BY <1>2, <1>3 DEF TableInv

\* The number of blocks is rounded up.
LEMMA BlocksSuffice ==
    ASSUME NEW n \in Nat \ {0}, NEW k \in Nat \ {0}, NEW b,
           b = (n \div k) + (IF n % k # 0 THEN 1 ELSE 0)
    PROVE  b \in Nat \ {0} /\ n <= k * b
  <1> DEFINE q == n \div k
             r == n % k
  <1>1. q \in Nat /\ r \in Nat /\ r < k /\ n = k * q + r
    OBVIOUS
  <1> HIDE DEF q, r
  <1>2. CASE r = 0
    <2>1. b = q /\ n = k * q
      BY <1>1, <1>2 DEF q, r
    <2> QED BY <1>1, <2>1
  <1>3. CASE r # 0
    <2>1. b = q + 1
      BY <1>3 DEF q, r
    <2>2. k * (q + 1) = k * q + k
      BY <1>1
    <2> QED BY <1>1, <2>1, <2>2
  <1> QED BY <1>2, <1>3

\* The first two sectors are where the super block is.
LEMMA StepSblock ==
    ASSUME AhciInv, ExtInv, TableInv, check_ext2_returns, at_ext2 = "sblock" PROVE TableInv'
  <1>1. ext2_check_sblock(PoolOf(params.count)) /\ reading /\ pc = "idle" /\ ~reading'
    BY DEF check_ext2_returns, Uses, ext2_check_bg_dsc2, create_inode_table2
  <1>2. PoolOf(params.count)[0] = 2
    <2>1. params.count = 2 /\ Request[1] = 2
      BY <1>1 DEF TableInv, Request
    <2> QED BY <1>1, <2>1, PoolIsRead
  <1>3. /\ block_size' = 2^fs.s_log_block_size /\ s_inodes_per_group' = fs.s_inodes_per_group
        /\ at_ext2' = "descriptor" /\ UNCHANGED <<fs, i>>
    BY <1>1, <1>2, Zenon DEF ext2_check_sblock
  <1> QED BY <1>1, <1>3 DEF TableInv

\* With small blocks the descriptor is in the fifth sector.
LEMMA StepDescriptor ==
    ASSUME AhciInv, ExtInv, TableInv, check_ext2_returns, at_ext2 = "descriptor" PROVE TableInv'
  <1>1. ext2_check_bg_dsc2(PoolOf(params.count)) /\ reading /\ pc = "idle" /\ ~reading'
    BY DEF check_ext2_returns, Uses, ext2_check_sblock, create_inode_table2
  <1>2. PoolOf(params.count)[0] = 4
    <2>1. params.count = 2 /\ Request[1] = 4
      BY <1>1 DEF TableInv, Request
    <2> QED BY <1>1, <2>1, PoolIsRead
  <1>3. Small => DescriptorSector = 4
    <2>1. fs.s_log_block_size \in Nat
      BY FilesystemsAssumption DEF ExtInv
    <2>2. CASE fs.s_log_block_size = 0
      BY <2>2 DEF DescriptorSector, FirstData, SectorsOf
    <2>3. CASE fs.s_log_block_size = 1
      BY <2>3 DEF DescriptorSector, FirstData, SectorsOf
    <2> QED BY <2>1, <2>2, <2>3 DEF Small
  <1>4. /\ Small => bg_inode_table' = fs.bg_inode_table
        /\ at_ext2' = "inodes" /\ UNCHANGED <<fs, i, block_size, s_inodes_per_group>>
    BY <1>1, <1>2, <1>3 DEF ext2_check_bg_dsc2
  <1>5. i = 0 /\ inodes_per_block \in Nat \ {0} /\ nblock_inode_table \in Nat \ {0}
    <2>1. block_size \in Nat \ {0} /\ s_inodes_per_group \in Nat \ {0}
      BY FilesystemsAssumption DEF ExtInv, TableInv
    <2>2. BLOCK \in Nat \ {0}
      BY <2>1 DEF BLOCK
    <2>3. inodes_per_block \in Nat \ {0}
      BY <2>2, SectorInodesAssumption DEF inodes_per_block
    <2> QED BY <2>1, <2>3, BlocksSuffice DEF TableInv, nblock_inode_table
  <1>6. UNCHANGED <<inodes_per_block, nblock_inode_table, Small>>
    BY <1>4 DEF inodes_per_block, nblock_inode_table, BLOCK, Small
  <1> QED BY <1>1, <1>4, <1>5, <1>6 DEF TableInv

\* Where a turn of create_inode_table2 finds the inode for place n, if n is one of
\* the places it fills, and that it is inode n.
LEMMA PlaceOfInode ==
    ASSUME NEW SI \in Nat \ {0}, NEW B \in Nat \ {0}, NEW bg \in Nat, NEW k \in Nat, NEW n \in Nat,
           n - (k + (B * SI - 1) * k) \in 0..(B * SI - 1)
    PROVE  LET j == n - (k + (B * SI - 1) * k)
           IN  /\ j \div SI \in 0..(B - 1)
               /\ (bg + k) * B + (j \div SI) >= bg * B
               /\ ((bg + k) * B + (j \div SI) - bg * B) * SI + (j % SI) = n
  <1> DEFINE j == n - (k + (B * SI - 1) * k)
             q == j \div SI
             r == j % SI
             P == B * SI
             kB == k * B
  <1>1. P \in Nat /\ (P - 1) * k = P * k - k
    OBVIOUS
  <1>2. j = n - P * k /\ j \in Nat /\ j < P
    BY <1>1
  <1>3. q \in Nat /\ r \in Nat /\ j = SI * q + r /\ r < SI
    BY <1>2
  <1>4. q < B
    <2>1. SUFFICES ASSUME q >= B PROVE FALSE
      BY <1>3
    <2>2. SI * q >= SI * B
      BY <1>3, <2>1
    <2> QED BY <1>2, <1>3, <2>2
  <1>5. (bg + k) * B = bg * B + kB /\ kB \in Nat /\ bg * B \in Nat
    OBVIOUS
  <1>6. kB * SI = P * k
    OBVIOUS
  <1> HIDE DEF q, r, P, kB, j
  <1>7. (kB + q) * SI = P * k + SI * q
    <2>1. (kB + q) * SI = kB * SI + q * SI
      BY <1>3, <1>5
    <2>2. q * SI = SI * q
      BY <1>3
    <2> QED BY <1>6, <2>1, <2>2
  <1>8. (bg + k) * B + q - bg * B = kB + q
    BY <1>3, <1>5
  <1>9. ((bg + k) * B + q - bg * B) * SI + r = n
    <2>1. P * k \in Int /\ SI * q \in Int
      BY <1>1, <1>3
    <2> QED BY <1>2, <1>3, <1>7, <1>8, <2>1
  <1>10. (bg + k) * B + q >= bg * B /\ q \in 0..(B - 1)
    BY <1>3, <1>4, <1>5
  <1> QED BY <1>9, <1>10 DEF q, r, j

\* A turn of create_inode_table2 adds a block, and leaves the others where they
\* are.
LEMMA StepInodes ==
    ASSUME AhciInv, ExtInv, TableInv, check_ext2_returns, at_ext2 = "inodes" PROVE TableInv'
  <1> DEFINE pool == PoolOf(params.count)
  <1>1. create_inode_table2(pool) /\ reading /\ pc = "idle" /\ ~reading'
    BY DEF check_ext2_returns, Uses, ext2_check_sblock, ext2_check_bg_dsc2
  <1>2. \A k \in 0..(BLOCK - 1) : pool[k] = (bg_inode_table + i) * BLOCK + k
    <2>1. params.count = BLOCK /\ Request[1] = (bg_inode_table + i) * BLOCK
      BY <1>1 DEF TableInv, Request
    <2> QED BY <1>1, <2>1, PoolIsRead
  <1> HIDE DEF pool
  <1>3. /\ i' = i + 1 /\ UNCHANGED <<fs, statics>>
        /\ at_ext2' = IF i + 1 < nblock_inode_table THEN "inodes" ELSE "root"
    BY <1>1 DEF create_inode_table2
  <1>4. UNCHANGED <<inodes_per_block, nblock_inode_table, table_len, Small>>
    BY <1>3 DEF inodes_per_block, nblock_inode_table, table_len, BLOCK, Small, statics
  <1>5. /\ i \in Nat /\ bg_inode_table \in Nat /\ BLOCK \in Nat \ {0}
        /\ inodes_per_block = BLOCK * SectorInodes /\ inodes_per_block \in Nat \ {0}
    <2>1. i \in Nat /\ bg_inode_table \in Nat /\ block_size \in Nat \ {0}
      BY DEF ExtInv
    <2>2. BLOCK \in Nat \ {0}
      BY <2>1 DEF BLOCK
    <2> QED BY <2>1, <2>2, SectorInodesAssumption DEF inodes_per_block
  <1>6. nblock_inode_table \in Nat /\ i < nblock_inode_table
    <2>1. s_inodes_per_group \in Nat \ {0}
      BY FilesystemsAssumption DEF ExtInv, TableInv
    <2> QED BY <1>5, <2>1, BlocksSuffice DEF TableInv, nblock_inode_table
  <1>7. ASSUME Small, NEW n \in 0..(table_len - 1), n < (i + 1) * inodes_per_block
        PROVE  inode_table'[n] = n
    <2> DEFINE j == n - (i + (inodes_per_block - 1) * i)
    <2>1. j = n - i * inodes_per_block /\ (i + 1) * inodes_per_block = i * inodes_per_block + inodes_per_block
      BY <1>5
    <2>2. inode_table'[n] = IF j \in 0..(inodes_per_block - 1)
                            THEN InodeAt(pool[j \div SectorInodes], j % SectorInodes)
                            ELSE inode_table[n]
      BY <1>1 DEF create_inode_table2
    <2>3. CASE j \in 0..(inodes_per_block - 1)
      <3> DEFINE at == (bg_inode_table + i) * BLOCK + (j \div SectorInodes)
      <3>1. /\ j \div SectorInodes \in 0..(BLOCK - 1) /\ at >= bg_inode_table * BLOCK
            /\ (at - bg_inode_table * BLOCK) * SectorInodes + (j % SectorInodes) = n
        BY <1>5, <2>3, SectorInodesAssumption, PlaceOfInode
      <3>2. pool[j \div SectorInodes] = at
        BY <1>2, <3>1
      <3>3. TableSector = bg_inode_table * BLOCK
        BY <1>7 DEF TableInv, TableSector, SectorsOf, BLOCK
      <3> QED BY <2>2, <2>3, <3>1, <3>2, <3>3 DEF InodeAt
    <2>4. CASE j \notin 0..(inodes_per_block - 1)
      <3>1. n < i * inodes_per_block
        <4>1. i * inodes_per_block \in Int
          BY <1>5
        <4> QED BY <1>5, <1>7, <2>1, <2>4, <4>1
      <3> QED BY <1>7, <2>2, <2>4, <3>1 DEF TableInv
    <2> QED BY <2>3, <2>4
  <1>8. at_ext2' = "root" => i + 1 = nblock_inode_table
    BY <1>3, <1>5, <1>6
  <1> QED BY <1>1, <1>3, <1>4, <1>7, <1>8 DEF TableInv, statics

\* Every other step leaves the table alone, and a call of check_ext2 as it was
\* asked for.
LEMMA TableStep ==
    ASSUME AhciInv, ExtInv, TableInv, [DiskNext]_diskVars PROVE TableInv'
  <1>1. CASE check_ext2_returns
    <2>1. at_ext2 \in {"sblock", "descriptor", "inodes"}
      BY <1>1 DEF ExtInv, TableInv, check_ext2_returns
    <2> QED BY <1>1, <2>1, StepSblock, StepDescriptor, StepInodes
  <1>2. CASE check_ext2_calls
    <2>1. /\ params' = [lba |-> Request[1], count |-> Request[2], w |-> FALSE]
          /\ reading' /\ checked /\ at_ext2 # "root" /\ UNCHANGED <<ext2Vars, checked>>
      BY <1>2 DEF check_ext2_calls, ahci_rw
    <2> QED BY <2>1 DEF TableInv, ext2Vars, statics, Request, BLOCK, nblock_inode_table,
                        inodes_per_block, table_len, Small
  <1>3. CASE check_ahci \/ AnybodyCalls
    <2>1. ~reading' /\ UNCHANGED ext2Vars
      <3>1. ASSUME check_ahci PROVE ~reading' /\ UNCHANGED ext2Vars
        BY <3>1, Zenon DEF check_ahci, TableInv
      <3>2. ASSUME AnybodyCalls PROVE ~reading' /\ UNCHANGED ext2Vars
        BY <3>2, Zenon DEF AnybodyCalls, clients
      <3> QED BY <1>3, <3>1, <3>2
    <2> QED BY <2>1 DEF TableInv, ext2Vars, statics, BLOCK, nblock_inode_table,
                        inodes_per_block, table_len, Small
  <1>4. CASE UNCHANGED <<params, ext2Vars, clients>>
    BY <1>4 DEF TableInv, ext2Vars, statics, clients, Request, BLOCK, nblock_inode_table,
                inodes_per_block, table_len, Small
  <1>5. \/ check_ext2_returns \/ check_ext2_calls \/ check_ahci \/ AnybodyCalls
        \/ UNCHANGED <<params, ext2Vars, clients>>
    BY DEF DiskNext, diskVars, vars, driver, Looks, PreparesPort, ControllerResets, DrivesComeUp,
           DriverRuns, ControllerRuns, DeviceFails, Driver, start_cmd, find_free_cmdslot,
           build_cmd_table, build_cmdheader, notify_cmd_is_active, wait_interrupt, reads_is,
           writes_is, clear_pxis, writes_ips, clear_ghc_is, wait_pxci_clear, Controller, FollowsST,
           Fetches, Moves, Ends, Acknowledges, ReportsEnd, Fails, clients
  <1> QED BY <1>1, <1>2, <1>3, <1>4, <1>5

\* With blocks of up to 2 KB the table in memory is that of the group on the disk,
\* for every number of inodes and place of the table, also when the last block is
\* full only in part (check_ext2, create_inode_table2, ahci_read_byte).
THEOREM TableIsRead == DiskSpec => []TableIsDisk
  <1>1. DiskInit => TableInv
    BY DEF DiskInit, Ext2Init, TableInv
  <1>2. AhciInv /\ ExtInv /\ TableInv /\ [DiskNext]_diskVars => TableInv'
    BY TableStep
  <1>3. ExtInv /\ TableInv => TableIsDisk
    <2> SUFFICES ASSUME ExtInv, TableInv, at_ext2 = "root", Small,
                        NEW n \in 0..(fs.s_inodes_per_group - 1)
                 PROVE  inode_table[n] = n
      BY DEF TableIsDisk, Small
    <2>1. block_size = 2^fs.s_log_block_size /\ s_inodes_per_group = fs.s_inodes_per_group
      BY DEF TableInv
    <2>2. block_size \in Nat \ {0} /\ s_inodes_per_group \in Nat \ {0}
      BY <2>1, PowersAssumption, FilesystemsAssumption DEF ExtInv
    <2>3. inodes_per_block \in Nat \ {0}
      BY <2>2, SectorInodesAssumption DEF inodes_per_block, BLOCK
    <2>4. /\ nblock_inode_table \in Nat
          /\ s_inodes_per_group <= inodes_per_block * nblock_inode_table
      BY <2>2, <2>3, BlocksSuffice DEF nblock_inode_table
    <2>5. n < i * inodes_per_block /\ n \in 0..(table_len - 1)
      <3> DEFINE places == inodes_per_block * nblock_inode_table
      <3>1. places \in Int /\ n < s_inodes_per_group
        BY <2>1, <2>2, <2>3, <2>4
      <3>2. n < places
        BY <2>2, <2>4, <3>1
      <3>3. i = nblock_inode_table
        BY DEF TableInv
      <3>4. i * inodes_per_block = places
        BY <2>3, <2>4, <3>3
      <3> HIDE DEF places
      <3>5. table_len = places
        BY DEF table_len, places
      <3> QED BY <3>1, <3>2, <3>4, <3>5
    <2> QED BY <2>5 DEF TableInv
  <1> QED BY <1>1, <1>2, <1>3, CallsInvariant, PTL DEF DiskSpec
=============================================================================

-------------------------------- MODULE Ahci --------------------------------
(***************************************************************************)
(* ahci_read and ahci_write of device/ahci.c on one port, after ahci_init, *)
(* for one client at a time, which is what the kernel has: check_ahci runs *)
(* before the first thread.  The controller is environment: it fetches     *)
(* what PxCLB and the command table say when CI is set, moves the data of  *)
(* one PRDT entry after the other, and reports, in PxIS, every entry whose *)
(* I bit is set, the end of the command, or an error.                      *)
(*                                                                         *)
(* Buffers are counted in sectors of 512 bytes: dbc is a number of bytes   *)
(* less one, 8 KB are SECTORS of them.                                     *)
(***************************************************************************)
EXTENDS Integers, Sequences

CONSTANTS
    SLOTS,      \* entries of the command list: 32
    SECTORS     \* sectors in a PRDT entry: 16

ASSUME SlotsAssumption == SLOTS \in Nat \ {0}
ASSUME SectorsAssumption == SECTORS \in Nat \ {0}

Slots == 0..(SLOTS - 1)
None == -1

VARIABLES
    st, cr,     \* PxCMD.ST and PxCMD.CR
    ci,         \* PxCI
    is,         \* PxIS: the reasons for an interrupt
    ips,        \* IS.IPS of the port
    cmd_list,   \* the command headers
    table,      \* the command table at cmd_tbl_base, which all headers share
    pc,         \* where the driver is; "idle": in no call
    params,     \* CMD_PARAMS
    slot,       \* the slot of the command
    seen,       \* what clear_pxis has read of PxIS
    work,       \* the command the controller is at, or NoWork
    owed,       \* what the controller has still to do at its end
    moved       \* what it has moved in this call: <<write, place in buffer, sector>>

port == <<st, cr, ci, is, ips>>
memory == <<cmd_list, table>>
driver == <<pc, params, slot, seen>>
controller == <<work, owed, moved>>
vars == <<port, memory, driver, controller>>

Zeroed == [prdtl |-> 0, w |-> FALSE, ctba |-> FALSE]
NoWork == [slot |-> None, entry |-> 0, done |-> 0]
NoTable == [lba |-> None, w |-> FALSE, prdt |-> <<>>]

\* After ahci_init.
Init ==
    /\ st = FALSE /\ cr = FALSE /\ ci = {} /\ is = {} /\ ips = FALSE
    /\ cmd_list = [s \in Slots |-> Zeroed]
    /\ table = NoTable
    /\ pc = "idle" /\ slot = 0 /\ seen = {}
    /\ params = [lba |-> 0, count |-> 0, w |-> FALSE]
    /\ work = NoWork /\ owed = {} /\ moved = {}

-----------------------------------------------------------------------------
(* The driver *)

\* ahci_read (w = FALSE) or ahci_write, up to the loop of start_cmd.
ahci_rw(lba, count, w) ==
    /\ pc = "idle"
    /\ params' = [lba |-> lba, count |-> count, w |-> w]
    /\ st' = FALSE
    /\ moved' = {}
    /\ pc' = "start_cmd"
    /\ UNCHANGED <<cr, ci, is, ips, memory, slot, seen, work, owed>>

start_cmd ==
    /\ pc = "start_cmd"
    /\ ~cr
    /\ st' = TRUE
    /\ pc' = "find"
    /\ UNCHANGED <<cr, ci, is, ips, memory, params, slot, seen, controller>>

\* Mutant: the test of the bit is the wrong way round.
FirstTakenSlot ==
    IF ci = {} THEN None ELSE CHOOSE s \in ci : \A r \in 0..(s - 1) : r \notin ci

\* PxSACT stays 0: nobody queues commands.
FirstFreeSlot ==
    IF ci = Slots THEN None
    ELSE CHOOSE s \in Slots \ ci : \A r \in 0..(s - 1) : r \in ci

find_free_cmdslot ==
    /\ pc = "find"
    /\ slot' = FirstFreeSlot
    /\ pc' = "table"
    /\ UNCHANGED <<port, memory, params, seen, controller>>

\* Mutant: one entry for every full 8 KB, and one more.
prdtl_full(count) == (count \div SECTORS) + 1

\* The number of PRDT entries.
prdtl(count) == ((count - 1) \div SECTORS) + 1

build_cmd_table ==
    /\ pc = "table"
    /\ LET n == prdtl(params.count)
           entry(k) == [dba |-> (k - 1) * SECTORS,
                        len |-> IF k < n THEN SECTORS
                                         ELSE params.count - (n - 1) * SECTORS]
       IN  table' = [lba |-> params.lba, w |-> params.w, prdt |-> [k \in 1..n |-> entry(k)]]
    /\ pc' = "header"
    /\ UNCHANGED <<port, cmd_list, params, slot, seen, controller>>

\* The memset of 0x400 bytes clears 32 headers, from this one on.
build_cmdheader ==
    /\ pc = "header"
    /\ cmd_list' = [s \in Slots |->
           IF s < slot THEN cmd_list[s]
           ELSE IF s = slot
                THEN [prdtl |-> prdtl(params.count), w |-> params.w, ctba |-> TRUE]
                ELSE Zeroed]
    /\ pc' = "notify"
    /\ UNCHANGED <<port, table, params, slot, seen, controller>>

notify_cmd_is_active ==
    /\ pc = "notify"
    /\ ci' = ci \cup {slot}
    /\ pc' = "wait_interrupt"
    /\ UNCHANGED <<st, cr, is, ips, memory, params, slot, seen, controller>>

wait_interrupt ==
    /\ pc = "wait_interrupt"
    /\ is # {}
    /\ pc' = "read_is"
    /\ UNCHANGED <<port, memory, params, slot, seen, controller>>

\* clear_pxis reads PxIS, writes it back, where a 1 clears, and waits.
reads_is ==
    /\ pc = "read_is"
    /\ seen' = is
    /\ pc' = "write_is"
    /\ UNCHANGED <<port, memory, params, slot, controller>>

writes_is ==
    /\ pc = "write_is"
    /\ is' = is \ seen
    /\ seen' = {}
    /\ pc' = "clear_pxis"
    /\ UNCHANGED <<st, cr, ci, ips, memory, params, slot, controller>>

clear_pxis ==
    /\ pc = "clear_pxis"
    /\ is = {}
    /\ pc' = "write_ips"
    /\ UNCHANGED <<port, memory, params, slot, seen, controller>>

\* Mutant: the bit of another port.
writes_other_ips ==
    /\ pc = "write_ips"
    /\ pc' = "clear_ghc_is"
    /\ UNCHANGED <<port, memory, params, slot, seen, controller>>

\* clear_ghc_is writes the whole of IS back.  The bit of a port stays set as long
\* as its PxIS has one, and only the port in use has had its PxIS cleared.
writes_ips ==
    /\ pc = "write_ips"
    /\ ips' = (is # {})
    /\ pc' = "clear_ghc_is"
    /\ UNCHANGED <<st, cr, ci, is, memory, params, slot, seen, controller>>

\* It waits until IS is 0: others says that another port has its bit set.
clear_ghc_is(others) ==
    /\ pc = "clear_ghc_is"
    /\ ~ips /\ ~others
    /\ pc' = "wait_pxci_clear"
    /\ UNCHANGED <<port, memory, params, slot, seen, controller>>

\* Mutant: the call returns with the first interrupt.
returns_at_interrupt ==
    /\ pc = "wait_pxci_clear"
    /\ pc' = "idle"
    /\ UNCHANGED <<port, memory, params, slot, seen, controller>>

\* and the return, with 1
wait_pxci_clear ==
    /\ pc = "wait_pxci_clear"
    /\ ci = {}
    /\ pc' = "idle"
    /\ UNCHANGED <<port, memory, params, slot, seen, controller>>

-----------------------------------------------------------------------------
(* The controller *)

Moving == cr /\ work # NoWork /\ owed = {}
Entries == cmd_list[work.slot].prdtl
Report(reason) == is' = is \cup {reason} /\ ips' = TRUE

\* CR follows ST.  A port that is stopped forgets its commands.
FollowsST ==
    /\ cr # st
    /\ cr' = st
    /\ ci' = IF st THEN ci ELSE {}
    /\ work' = NoWork /\ owed' = {}
    /\ UNCHANGED <<st, is, ips, memory, driver, moved>>

Fetches ==
    /\ st /\ cr /\ work = NoWork
    /\ \E s \in ci : work' = [slot |-> s, entry |-> 1, done |-> 0]
    /\ UNCHANGED <<port, memory, driver, owed, moved>>

\* The data of the next entry: header and table are read in memory.
Moves ==
    /\ Moving /\ work.entry <= Entries
    /\ LET e == table.prdt[work.entry]
       IN  /\ moved' = moved \cup
                  {<<cmd_list[work.slot].w, e.dba + j, table.lba + work.done + j>> : j \in 0..(e.len - 1)}
           /\ work' = [work EXCEPT !.entry = @ + 1, !.done = @ + e.len]
    /\ Report("entry")
    /\ UNCHANGED <<st, cr, ci, memory, driver, owed>>

Ends ==
    /\ Moving /\ work.entry > Entries
    /\ owed' = {"ci", "report"}
    /\ UNCHANGED <<port, memory, driver, work, moved>>

\* The bit in PxCI and the report of the end, in either order.
Acknowledges ==
    /\ cr /\ "ci" \in owed
    /\ ci' = ci \ {work.slot}
    /\ owed' = owed \ {"ci"}
    /\ work' = IF owed = {"ci"} THEN NoWork ELSE work
    /\ UNCHANGED <<st, cr, is, ips, memory, driver, moved>>

ReportsEnd ==
    /\ cr /\ "report" \in owed
    /\ Report("end")
    /\ owed' = owed \ {"report"}
    /\ work' = IF owed = {"report"} THEN NoWork ELSE work
    /\ UNCHANGED <<st, cr, ci, memory, driver, moved>>

\* An error of the device: PxCI keeps the bit until ST is cleared.
Fails ==
    /\ Moving /\ work.entry <= Entries
    /\ Report("error")
    /\ owed' = {"restart"}
    /\ UNCHANGED <<st, cr, ci, memory, driver, work, moved>>

-----------------------------------------------------------------------------
Driver(others) ==
    \/ start_cmd \/ find_free_cmdslot
    \/ build_cmd_table \/ build_cmdheader \/ notify_cmd_is_active
    \/ wait_interrupt \/ reads_is \/ writes_is \/ clear_pxis
    \/ writes_ips \/ clear_ghc_is(others) \/ wait_pxci_clear

Controller ==
    FollowsST \/ Fetches \/ Moves \/ Ends \/ Acknowledges \/ ReportsEnd

-----------------------------------------------------------------------------
Labels == {"idle", "start_cmd", "find", "table", "header", "notify", "wait_interrupt",
           "read_is", "write_is", "clear_pxis", "write_ips", "clear_ghc_is", "wait_pxci_clear"}

Requests == [lba : Nat, count : Nat, w : BOOLEAN]
Reasons == {"entry", "end", "error"}

\* Types and ranges; a command always has a slot (find_free_cmdslot).
TypeOK ==
    /\ st \in BOOLEAN /\ cr \in BOOLEAN /\ ips \in BOOLEAN
    /\ ci \subseteq Slots /\ is \subseteq Reasons /\ seen \subseteq Reasons
    /\ cmd_list \in [Slots -> [prdtl : Nat, w : BOOLEAN, ctba : BOOLEAN]]
    /\ table \in [lba : Nat \cup {None}, w : BOOLEAN, prdt : Seq([dba : Nat, len : Int])]
    /\ pc \in Labels
    /\ params \in Requests
    /\ slot \in Slots
    /\ work \in [slot : Slots \cup {None}, entry : Nat, done : Nat]
    /\ owed \subseteq {"ci", "report", "restart"}
    /\ moved \subseteq BOOLEAN \X Nat \X Nat

\* One entry after the other, none empty or too long, from the first sector of
\* the buffer to the last.
CoversBuffer(prdt, n, count) ==
    /\ n > 0 /\ Len(prdt) >= n
    /\ prdt[1].dba = 0 /\ prdt[n].dba + prdt[n].len = count
    /\ \A k \in 1..n : prdt[k].len \in 1..SECTORS
    /\ \A k \in 1..(n - 1) : prdt[k + 1].dba = prdt[k].dba + prdt[k].len

\* Whatever the controller may fetch is the command of the call under way, whole:
\* header and table are built before PxCI is set, and left alone until it is clear
\* again (build_command, start_cmd, wait_pxci_clear).
IssuedIsBuilt ==
    \A s \in ci :
        /\ s = slot /\ pc # "idle"
        /\ cmd_list[s].ctba /\ cmd_list[s].w = params.w
        /\ table.lba = params.lba /\ table.w = params.w
        /\ CoversBuffer(table.prdt, cmd_list[s].prdtl, params.count)

Asked == {<<params.w, n, params.lba + n>> : n \in 0..(params.count - 1)}

\* When ahci_read or ahci_write has returned, exactly the sectors asked for have
\* been moved, though the interrupt it waited for may be that of one entry, or
\* the one the last command left behind (wait_interrupt, wait_pxci_clear).
WholeTransfer == pc = "idle" => moved = Asked

\* What a call never comes back from: an error, after which PxCI stays set, and a
\* report that comes in while PxIS and IS.IPS are being cleared.
Failed == "restart" \in owed
ReportedWhileClearing ==
    pc \in {"write_is", "clear_pxis", "write_ips", "clear_ghc_is"} /\ is \ seen # {}
=============================================================================

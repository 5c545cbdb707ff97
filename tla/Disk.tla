-------------------------------- MODULE Disk --------------------------------
(***************************************************************************)
(* The disk as the kernel comes to it: check_all_buses finds the           *)
(* controller (Pci.tla), ahci_init prepares it (AhciInit.tla), check_ahci  *)
(* reads a sector and from then on there are calls of ahci_read and        *)
(* ahci_write on the first port (Ahci.tla), among them those of check_ext2 *)
(* (Ext2.tla).                                                             *)
(***************************************************************************)
EXTENDS Ahci, Pci, AhciInit, Ext2

CONSTANT Others     \* bound: <<start, sectors>> of calls that anybody makes

ASSUME OthersAssumption == Others \subseteq Nat \X (Nat \ {0})

VARIABLES
    checked,    \* check_ahci has begun to read
    reading     \* check_ext2 is in ahci_read_byte

clients == <<checked, reading>>
diskVars == <<vars, pciVars, ahciInitVars, ext2Vars, clients>>

DiskInit ==
    /\ Init /\ PciInit /\ AhciInitInit /\ Ext2Init
    /\ checked = FALSE /\ reading = FALSE

-----------------------------------------------------------------------------
Looks ==
    /\ check_all_buses
    /\ UNCHANGED <<vars, ahciInitVars, ext2Vars, clients>>

\* What the first port has to report once its interrupts are enabled is there for
\* the first command, that of check_ahci, to find.
Reported ==
    IF ~checked /\ at_init' = "done" /\ probe_impl_port \in signature'
    THEN is' = {"end"} /\ ips' = TRUE
    ELSE UNCHANGED <<is, ips>>

PreparesPort ==
    /\ Walked
    /\ Prepares
    /\ Reported
    /\ UNCHANGED <<st, cr, ci, memory, driver, controller, pciVars, ext2Vars, clients>>

ControllerResets ==
    /\ abar # NULL
    /\ Resets
    /\ UNCHANGED <<vars, pciVars, ext2Vars, clients>>

\* The drive of the first port before the first call, the others at any time.
DrivesComeUp ==
    /\ Drives
    /\ Reported
    /\ UNCHANGED <<st, cr, ci, memory, driver, controller, pciVars, ext2Vars, clients>>

\* The drive of the first port has come up.  It has done so before PxSERR was
\* cleared: with PxIS.PCS set, clear_pxis of the first call would never end.
Usable ==
    /\ at_init = "done" /\ probe_impl_port \notin diag_x
    /\ \A c \in coming : c[2] # probe_impl_port

\* IS has the bit of a port that is not in use, whose PxIS nobody clears: a drive
\* has come up there after the loops of ahci_init that clear PxSERR and PxIS.
OthersPending == \E p \in ie \ {probe_impl_port} : PxIS(p) # {}

Prepared == <<pciVars, ahciInitVars>>

check_ahci ==
    /\ Usable /\ ~checked
    /\ ahci_rw(2, 1, FALSE)
    /\ checked' = TRUE
    /\ UNCHANGED <<Prepared, ext2Vars, reading>>

AnybodyCalls ==
    /\ checked /\ ~reading /\ at_ext2 = "sblock"
    /\ \E r \in Others, w \in BOOLEAN : ahci_rw(r[1], r[2], w)
    /\ UNCHANGED <<Prepared, ext2Vars, clients>>

check_ext2_calls ==
    /\ checked /\ ~reading /\ at_ext2 # "root"
    /\ ahci_rw(Request[1], Request[2], FALSE)
    /\ reading' = TRUE
    /\ UNCHANGED <<Prepared, ext2Vars, checked>>

\* What the controller has put at place n of the buffer; ahci_read_byte has twice
\* the room it needs.
PoolOf(count) ==
    [n \in 0..(count - 1) |->
        LET put == {m[3] : m \in {m \in moved : m[2] = n /\ ~m[1]}}
        IN  IF put = {} THEN None ELSE CHOOSE s \in put : TRUE]

check_ext2_returns ==
    /\ reading /\ pc = "idle"
    /\ Uses(PoolOf(params.count))
    /\ reading' = FALSE
    /\ UNCHANGED <<vars, Prepared, checked>>

DriverRuns == Driver(OthersPending) /\ UNCHANGED <<Prepared, ext2Vars, clients>>
ControllerRuns == Controller /\ UNCHANGED <<Prepared, ext2Vars, clients>>
DeviceFails == Fails /\ UNCHANGED <<Prepared, ext2Vars, clients>>

DiskNext ==
    \/ Looks \/ PreparesPort \/ ControllerResets \/ DrivesComeUp
    \/ check_ahci \/ AnybodyCalls \/ check_ext2_calls \/ check_ext2_returns
    \/ DriverRuns \/ ControllerRuns \/ DeviceFails

\* The kernel runs on, alone on the processor; the controller comes out of its
\* reset and goes on with what it has begun.
DiskSpec ==
    /\ DiskInit /\ [][DiskNext]_diskVars
    /\ WF_diskVars(Looks) /\ WF_diskVars(PreparesPort) /\ WF_diskVars(ControllerResets)
    /\ WF_diskVars(DriverRuns) /\ WF_diskVars(ControllerRuns)

-----------------------------------------------------------------------------
\* Every call returns, unless the device fails, a report comes in while PxIS and
\* IS.IPS are being cleared, or another port keeps IS from being 0.  What the last
\* command, or the drive's signature, has left in PxIS is no obstacle (ahci_read,
\* ahci_write, clear_ghc_is).
CallReturns ==
    [](pc # "idle" => <>(pc = "idle" \/ Failed \/ ReportedWhileClearing \/ OthersPending))

NoController == Walked /\ abar = NULL

\* ahci_init comes to its end, in whatever state the firmware has left the ports
\* and whenever the drives come up; unless there is no controller, a port is left
\* out, or a drive reports behind the loop that has just cleared its register
\* (ahci_init; PxSERR has to be cleared before PxIS, which repeats it).
InitEnds == <>(at_init = "done" \/ NoController \/ Holes \/ late)
=============================================================================

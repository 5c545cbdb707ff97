------------------------------ MODULE AhciInit ------------------------------
(***************************************************************************)
(* ahci_init of device/ahci.c and probe_impl_port: the reset of the        *)
(* controller and the preparation of its ports, with the controller and    *)
(* the drives as environment: the reset takes time, and after it the link  *)
(* to a drive comes up, once, and the drive sends its signature.  Either   *)
(* may come as late as after ahci_init.                                    *)
(*                                                                         *)
(* PxSERR.DIAG.X says that the link has changed; PxIS.PCS repeats it and   *)
(* cannot be cleared but in PxSERR.  The memory the ports are given is in  *)
(* Boot.tla.                                                               *)
(***************************************************************************)
EXTENDS Integers

CONSTANTS
    PORTS,      \* 32
    PortSets    \* the sets of ports a controller may implement: PI

PortNumbers == 0..(PORTS - 1)

ASSUME PortsAssumption == PORTS \in Nat \ {0}
ASSUME PortSetsAssumption == \A s \in PortSets : s # {} /\ s \subseteq PortNumbers

VARIABLES
    pi,         \* the ports that are implemented
    hr,         \* GHC.HR
    started,    \* the ports whose PxCMD has ST set
    fre,        \* those whose PxCMD has FRE set
    diag_x,     \* those whose PxSERR is not 0
    signature,  \* those with PxIS.DHRS set
    ie,         \* those whose interrupts are enabled
    clb,        \* for each port the part of cmd_list it has got, or None
    coming,     \* what is still to come of the drives: <<"link" or "signature", port>>
    late,       \* something has come after the register it goes to was cleared
    at_init,    \* where ahci_init is
    cleared     \* which of its loops have written which ports

hba == <<pi, hr, started, fre, diag_x, signature, ie, clb, coming, late>>
ahciInitVars == <<hba, at_init, cleared>>

NoList == -1

\* As the firmware leaves it: ports may be started.
AhciInitInit ==
    /\ pi \in PortSets
    /\ hr = FALSE
    /\ started \in {{}, pi} /\ fre = started
    /\ diag_x = {} /\ signature = {} /\ ie = {}
    /\ clb = [i \in PortNumbers |-> NoList]
    /\ coming = {} /\ late = FALSE
    /\ at_init = "reset" /\ cleared = {}

\* The ports that a loop takes for implemented: pi >> i is not 0.
Taken == {i \in PortNumbers : \E j \in pi : i <= j}
PxIS(i) == (IF i \in diag_x THEN {"PCS"} ELSE {}) \cup (IF i \in signature THEN {"DHRS"} ELSE {})
IPS == {i \in ie : PxIS(i) # {}}

Passes(here, there) == at_init = here /\ at_init' = there

-----------------------------------------------------------------------------
(* ahci_init, once the allocation of the command table is done *)

\* With no controller found this writes to memory near address 0, where the bit
\* stays set.
hba_reset ==
    /\ Passes("reset", "resetting")
    /\ hr' = TRUE
    /\ UNCHANGED <<pi, started, fre, diag_x, signature, ie, clb, coming, late, cleared>>

\* Mutant: HR is not waited for.
hba_reset_unpolled == Passes("resetting", "probe") /\ UNCHANGED <<hba, cleared>>

hba_reset_polls ==
    /\ Passes("resetting", "probe")
    /\ ~hr
    /\ UNCHANGED <<hba, cleared>>

\* probe_idle_port, which asks the ports once, for ST, FRE and bit 11 (0x811): not,
\* as its comment says, for CR.  Bit 11 belongs to the number of the slot that is
\* at work, which is 0 when ST is.  Ports that are not implemented read 0.  When
\* the answer is not pi, the loop around it never ends.
probe_idle_port ==
    /\ LET pidle == {i \in Taken : i \notin started \cup fre}
       IN  Passes("probe", IF pidle = pi THEN "alloc" ELSE "never")
    /\ UNCHANGED <<hba, cleared>>

\* Mutant: the ports' PxIS is cleared without PxSERR.
alloc_mem_for_ports_no_serr ==
    /\ Passes("alloc", "is")
    /\ clb' = [i \in PortNumbers |-> IF i \in pi \cap Taken THEN i ELSE clb[i]]
    /\ fre' = fre \cup (pi \cap Taken)
    /\ UNCHANGED <<pi, hr, started, diag_x, signature, ie, coming, late, cleared>>

alloc_mem_for_ports ==
    /\ Passes("alloc", "serr")
    /\ clb' = [i \in PortNumbers |-> IF i \in pi \cap Taken THEN i ELSE clb[i]]
    /\ fre' = fre \cup (pi \cap Taken)
    /\ UNCHANGED <<pi, hr, started, diag_x, signature, ie, coming, late, cleared>>

\* The ports that a loop has still to write, and its first one.
Left(loop) == {i \in Taken : <<loop, i>> \notin cleared}
NextPort(loop, i) == i \in Left(loop) /\ \A j \in Left(loop) : i <= j
\* The port it has written last is what it waits for.
Clean(loop, i) == CASE loop = "serr" -> i \notin diag_x [] loop = "is" -> PxIS(i) = {}
WaitIsOver(loop) ==
    \A i \in Taken : (<<loop, i>> \in cleared /\ <<loop, i + 1>> \notin cleared) => Clean(loop, i)

clear_ports_serr(i) ==
    /\ at_init = "serr" /\ NextPort("serr", i) /\ WaitIsOver("serr")
    /\ diag_x' = diag_x \ {i}
    /\ cleared' = cleared \cup {<<"serr", i>>}
    /\ UNCHANGED <<pi, hr, started, fre, signature, ie, clb, coming, late, at_init>>

clears_serr_ends ==
    /\ Left("serr") = {} /\ WaitIsOver("serr")
    /\ Passes("serr", "is")
    /\ UNCHANGED <<hba, cleared>>

\* enable_ahci_interrupt.
clears_is(i) ==
    /\ at_init = "is" /\ NextPort("is", i) /\ WaitIsOver("is")
    /\ signature' = signature \ {i}
    /\ cleared' = cleared \cup {<<"is", i>>}
    /\ UNCHANGED <<pi, hr, started, fre, diag_x, ie, clb, coming, late, at_init>>

\* IS is written 0, which clears nothing, and has to be 0: PxIE still is.
clears_is_ends ==
    /\ Left("is") = {} /\ WaitIsOver("is")
    /\ IPS = {}
    /\ Passes("is", "ie")
    /\ UNCHANGED <<hba, cleared>>

\* What has come since PxIS was cleared now shows in IS.  From here on PxIS of the
\* port in use is in Ahci.tla.
enable_ahci_interrupt ==
    /\ Passes("ie", "done")
    /\ ie' = pi \cap Taken
    /\ late' = FALSE /\ cleared' = {}
    /\ UNCHANGED <<pi, hr, started, fre, diag_x, signature, coming, clb>>

\* The lowest bit of PI.
probe_impl_port == CHOOSE i \in pi : \A j \in pi : i <= j

-----------------------------------------------------------------------------
(* The controller and the drives *)

Resets ==
    /\ hr
    /\ hr' = FALSE
    /\ started' = {} /\ fre' = {} /\ diag_x' = {} /\ signature' = {} /\ ie' = {}
    /\ clb' = [i \in PortNumbers |-> NoList]
    /\ coming' = {"link", "signature"} \X pi
    /\ UNCHANGED <<pi, late, at_init, cleared>>

LinkUp(i) ==
    /\ <<"link", i>> \in coming
    /\ diag_x' = diag_x \cup {i}
    /\ coming' = coming \ {<<"link", i>>}
    /\ late' = (late \/ <<"serr", i>> \in cleared)
    /\ UNCHANGED <<pi, hr, started, fre, signature, ie, clb, at_init, cleared>>

\* It is received when FRE is set.
SendsSignature(i) ==
    /\ <<"link", i>> \notin coming /\ <<"signature", i>> \in coming
    /\ i \in fre
    /\ signature' = signature \cup {i}
    /\ coming' = coming \ {<<"signature", i>>}
    /\ late' = (late \/ <<"is", i>> \in cleared)
    /\ UNCHANGED <<pi, hr, started, fre, diag_x, ie, clb, at_init, cleared>>

Prepares ==
    \/ hba_reset \/ hba_reset_polls \/ probe_idle_port \/ alloc_mem_for_ports
    \/ \E i \in PortNumbers : clear_ports_serr(i) \/ clears_is(i)
    \/ clears_serr_ends \/ clears_is_ends \/ enable_ahci_interrupt

Drives == \E i \in PortNumbers : LinkUp(i) \/ SendsSignature(i)

-----------------------------------------------------------------------------
\* A controller that ahci_init is done with has come out of its reset, and each
\* of its ports is stopped, receives FISes and has a command list of its own:
\* nothing of what was set is lost again (hba_reset, alloc_mem_for_ports).
StartsClean ==
    at_init = "done" =>
        /\ ~hr
        /\ \A i \in pi : i \notin started /\ i \in fre /\ clb[i] = i

\* What ahci_init may not come back from, besides late: a port that is left out
\* below one that is implemented, because the loops take pi >> i for the bit of
\* port i.
Holes == pi # Taken
=============================================================================

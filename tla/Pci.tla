-------------------------------- MODULE Pci --------------------------------
(***************************************************************************)
(* The walk over the buses in device/pci.c, which looks for the AHCI       *)
(* controller.  A register of the configuration space is a double word of  *)
(* four bytes, the lowest first; only those the kernel decides on are      *)
(* here: vendor and device, class, and the sixth base address.             *)
(***************************************************************************)
EXTENDS Integers

CONSTANTS
    BUSES, DEVICES, FUNCS,  \* 256, 32 and 8
    Machines                \* what may be plugged in: functions from Functions

Functions == (0..(BUSES - 1)) \X (0..(DEVICES - 1)) \X (0..(FUNCS - 1))
Registers == {0, 8, 36}     \* 0x00, 0x08, 0x24
Dword == [1..4 -> 0..255]
Ones == [n \in 1..4 |-> 255]

ASSUME SizesAssumption == BUSES \in Nat \ {0} /\ DEVICES \in Nat \ {0} /\ FUNCS \in Nat \ {0}
\* No function that answers has the vendor 0xffff.
ASSUME MachinesAssumption ==
    \A m \in Machines :
        /\ DOMAIN m = Functions
        /\ \A f \in Functions : /\ m[f] \in [Registers -> Dword]
                                /\ m[f][0][1] = 255 /\ m[f][0][2] = 255 => m[f][0] = Ones

VARIABLES
    space,      \* the configuration space, all ones where no function answers
    walk,       \* the loops' <<bus, device, func>>
    abar        \* the base address found, NULL before

NULL == [n \in 1..4 |-> 0]
pciVars == <<space, walk, abar>>

PciInit ==
    /\ space \in Machines
    /\ walk = <<0, 0, 0>>
    /\ abar = NULL

\* The double word at offset & 0xfc, and the part of it that is asked for.
pci_config_read_dword(f, offset) == space[f][offset - (offset % 4)]
pci_config_read_word(f, offset) ==
    LET dword == pci_config_read_dword(f, offset)
        shift == IF offset % 4 < 2 THEN 0 ELSE 2
    IN  <<dword[shift + 1], dword[shift + 2]>>
pci_config_read_byte(f, offset) == pci_config_read_dword(f, offset)[(offset % 4) + 1]

NoVendor == <<255, 255>>

\* What is read of one function.  Where none answers config keeps what was on
\* the stack: the class can be any, that of a controller too.
pci_check_parameters(f) ==
    LET vendor == pci_config_read_word(f, 0)
    IN  IF vendor = NoVendor
        THEN [vendor : {vendor}, subclass : {0, 6}, class_code : {0, 1}]
        ELSE {[vendor |-> vendor, subclass |-> pci_config_read_byte(f, 10),
               class_code |-> pci_config_read_byte(f, 11)]}

get_ahci_base_address(f) == pci_config_read_dword(f, 36)

\* The innermost loop that is not at its end goes on.
After(f) ==
    IF f[3] + 1 < FUNCS THEN <<f[1], f[2], f[3] + 1>>
    ELSE IF f[2] + 1 < DEVICES THEN <<f[1], f[2] + 1, 0>>
    ELSE <<f[1] + 1, 0, 0>>
Walked == walk[1] = BUSES

\* Mutant: whether a function answers is not asked.
check_all_buses_unasked ==
    /\ ~Walked
    /\ \E config \in pci_check_parameters(walk) :
           abar' = IF config.class_code = 1 /\ config.subclass = 6
                   THEN get_ahci_base_address(walk) ELSE abar
    /\ walk' = After(walk)
    /\ UNCHANGED space

\* One turn of the innermost loop.
check_all_buses ==
    /\ ~Walked
    /\ \E config \in pci_check_parameters(walk) :
           abar' = IF config.vendor # NoVendor /\ config.class_code = 1 /\ config.subclass = 6
                   THEN get_ahci_base_address(walk) ELSE abar
    /\ walk' = After(walk)
    /\ UNCHANGED space

-----------------------------------------------------------------------------
Controllers ==
    {f \in Functions : /\ space[f][0] # Ones
                       /\ space[f][8][4] = 1 /\ space[f][8][3] = 6}

\* When the walk is over, abar is the base address of a controller that is there,
\* if there is one, whatever the stack held for the functions that do not answer,
\* and NULL if there is none (check_all_buses, pci_check_parameters).
FoundIsController ==
    Walked =>
        IF Controllers = {} THEN abar = NULL
        ELSE \E f \in Controllers : abar = space[f][36]
=============================================================================

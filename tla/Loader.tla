------------------------------- MODULE Loader -------------------------------
(***************************************************************************)
(* UefiMain of MinLoader.c: finds the kernel, reads it, fetches the memory *)
(* map and leaves the firmware.  A call that fails in one of its loops is  *)
(* made again and changes nothing, so that only the last try is a step.    *)
(* Sizes are counted in units of a few descriptors.                        *)
(***************************************************************************)
EXTENDS Integers

CONSTANTS
    Spare,      \* what is added to the size of the map: 0x1000 bytes
    MaxMap      \* bound: the size the map grows to

ASSUME SpareAssumption == Spare \in Nat \ {0}
ASSUME MapAssumption == MaxMap \in Nat \ {0}

VARIABLES
    at_loader,  \* the call of UefiMain that comes next
    needed,     \* the firmware: the size of its memory map
    fresh,      \* mapkey is the key of the map as it is now
    mmapsize,   \* the local variable
    pool,       \* the size of the block mmap points to, 0 for NULL
    held        \* how much of a map has been written there

loaderVars == <<at_loader, needed, fresh, mmapsize, pool, held>>
theMap == <<needed, fresh, mmapsize, pool, held>>

LoaderInit ==
    /\ at_loader = "LocateProtocol_gop"
    /\ needed = 1 /\ fresh = FALSE
    /\ mmapsize = 0 /\ pool = 0 /\ held = 0

\* The kernel gets none of it.
Forgotten == needed' = 1 /\ fresh' = FALSE /\ mmapsize' = 0 /\ pool' = 0 /\ held' = 0

Gets(here, there) == at_loader = here /\ at_loader' = there /\ UNCHANGED theMap

LocateGop == Gets("LocateProtocol_gop", "LocateProtocol_sfsp")
LocateSfsp == Gets("LocateProtocol_sfsp", "OpenVolume")

\* Its status is not kept: the loop tests that of the call before, and ends.
OpenVolume == Gets("OpenVolume", "Open") \/ Gets("OpenVolume", "no_volume")

OpenFile == Gets("Open", "GetInfo")
GetInfo == Gets("GetInfo", "Read")
ReadKernel == Gets("Read", "CopyMem")
CopyKernel == Gets("CopyMem", "GetMemoryMap")

\* Both calls: behind either comes the test for EFI_BUFFER_TOO_SMALL.
GetMemoryMap ==
    /\ at_loader = "GetMemoryMap"
    /\ \/ /\ mmapsize < needed
          /\ mmapsize' = needed
          /\ at_loader' = "AllocatePool"
          /\ UNCHANGED <<fresh, held>>
       \/ /\ mmapsize >= needed
          /\ at_loader' = "ExitBootServices"
          /\ IF pool = 0 THEN UNCHANGED <<fresh, mmapsize, held>>
             ELSE fresh' = TRUE /\ mmapsize' = needed /\ held' = needed
    /\ UNCHANGED <<needed, pool>>

\* Mutant: the room to spare is added behind the call.
AllocatePool_before_spare ==
    /\ at_loader = "AllocatePool"
    /\ mmapsize' = mmapsize + Spare
    /\ pool' = mmapsize
    /\ needed' \in {n \in {needed, needed + 1} : n <= MaxMap}
    /\ held' = 0 /\ fresh' = FALSE
    /\ at_loader' = "GetMemoryMap"

\* FreePool and AllocatePool change the map, which can get longer.  A failure
\* leaves NULL in mmap, and its status is overwritten.
AllocatePool ==
    /\ at_loader = "AllocatePool"
    /\ mmapsize' = mmapsize + Spare
    /\ pool' \in {0, mmapsize'}
    /\ needed' \in {n \in {needed, needed + 1} : n <= MaxMap}
    /\ held' = 0 /\ fresh' = FALSE
    /\ at_loader' = "GetMemoryMap"

\* Mutant: only the call that has failed is made again.
ExitBootServices_alone ==
    /\ at_loader = "ExitBootServices"
    /\ IF fresh THEN at_loader' = "jump_to_kernel" /\ Forgotten
       ELSE UNCHANGED <<at_loader, theMap>>

\* Behind the loop the frame buffer is painted: that is UefiMain_paints of Boot.
ExitBootServices ==
    /\ at_loader = "ExitBootServices"
    /\ IF fresh THEN at_loader' = "jump_to_kernel" /\ Forgotten
       ELSE at_loader' = "GetMemoryMap" /\ UNCHANGED theMap

\* A driver of the firmware allocates memory.
FirmwareAllocates ==
    /\ at_loader \in {"GetMemoryMap", "AllocatePool", "ExitBootServices"}
    /\ needed < MaxMap
    /\ needed' = needed + 1
    /\ fresh' = FALSE
    /\ UNCHANGED <<at_loader, mmapsize, pool, held>>

Loads ==
    \/ LocateGop \/ LocateSfsp \/ OpenVolume \/ OpenFile \/ GetInfo \/ ReadKernel \/ CopyKernel
    \/ GetMemoryMap \/ AllocatePool \/ ExitBootServices

-----------------------------------------------------------------------------
\* The map fits into the block it is written to: the size passed is that of the
\* block or less, however often the loops are gone through, the map changes or
\* memory runs out (GetMemoryMap, AllocatePool).
MapFitsPool == held <= pool

\* What UefiMain does not come back from: a volume that cannot be opened, and
\* no memory for the map, whose loop then asks for ever with a NULL pointer.
NoVolume == at_loader = "no_volume"
NoPool ==
    /\ at_loader \in {"GetMemoryMap", "ExitBootServices"}
    /\ pool = 0 /\ mmapsize >= needed
=============================================================================

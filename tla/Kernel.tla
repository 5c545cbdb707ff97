------------------------------- MODULE Kernel -------------------------------
(***************************************************************************)
(* The whole way from the firmware to the two threads that init forks, on  *)
(* one processor: Loader.tla, Boot.tla, InitThread.tla, one after the      *)
(* other, with what they print (Screen.tla), and the interrupts and        *)
(* exceptions that come in between.                                        *)
(***************************************************************************)
EXTENDS InitThread, Boot, Loader, Screen

CONSTANT Faulting   \* the vectors of the exceptions that come, maybe, during the
                    \* start: the NMI, and the general protection exception that
                    \* takes the place of an interrupt without a gate

\* The stack of entry_point counts as that of the parent: no handler is left on
\* it when switch_context_first leaves it.
ASSUME StacksAssumption == Stacks = Threads
ASSUME FaultingAssumption == Faulting \subseteq Exceptions

kernelVars == <<loaderVars, bootVars, initVars, screenVars>>

KernelInit == LoaderInit /\ BootInit /\ InitThreadInit /\ ScreenInit

-----------------------------------------------------------------------------
Entered == at_loader = "jump_to_kernel"
Up == boot = "up"
Stopped == NoVolume \/ boot \in {"astray", "exception"}

Here == IF Up THEN cur ELSE Parent
NothingShown == cells' = {} /\ UNCHANGED <<screen, cursor, keyboard>>

Loading ==
    /\ Loads
    /\ IF Entered' THEN UefiMain_paints ELSE UNCHANGED bootVars
    /\ UNCHANGED <<initVars, screenVars>>
FirmwareRuns == FirmwareAllocates /\ UNCHANGED <<bootVars, initVars, screenVars>>

\* entry_point goes on when no handler interrupts it.
Starting ==
    /\ Entered /\ handlers[Here] = 0
    /\ Starts
    /\ CASE boot = "init_graphics" -> init_graphics
         [] boot = "printstr" -> print_title
         [] OTHER -> NothingShown
    /\ UNCHANGED <<loaderVars, initVars>>

TickWhileStarting ==
    /\ Entered
    /\ timer_handler
    /\ UNCHANGED <<initVars, loaderVars>> /\ NothingShown

TickWhenUp == Up /\ Timer /\ UNCHANGED <<loaderVars, bootVars>> /\ NothingShown

\* A byte comes in while interrupts are open.
KeyComes ==
    /\ Entered /\ ~Stopped /\ ~lost
    /\ ifl /\ pic.open \cap {3, 4} # {}
    /\ com_handler(Here)
    /\ UNCHANGED <<loaderVars, bootVars, initVars>>

KeyShown(s) ==
    /\ ~Stopped /\ ~lost /\ s = Here
    /\ com_handler_shows(s)
    /\ UNCHANGED <<loaderVars, bootVars, initVars>>

\* An exception during the start.  Its gate closes the interrupts; the message
\* is printed and nothing happens any more.
Excepts ==
    /\ Entered /\ idtr = "kernel" /\ ~Up /\ ~Stopped /\ typed = 0
    /\ boot' = "exception" /\ ifl' = FALSE
    /\ \E v \in Faulting : exception_handler(v)
    /\ Writes({}) /\ NoMemory
    /\ UNCHANGED <<gdtr, idtr, pic, tick, loaderVars, initVars>>

InitRuns(t) ==
    /\ Up /\ handlers[t] = 0
    /\ Runs(t)
    /\ UNCHANGED <<loaderVars, bootVars>> /\ NothingShown

\* A processor that has halted, or runs through memory, does not come back.  Of one
\* that is lost nothing is said any more: with two threads and no idle one that is
\* so as soon as a period expires while the other thread sleeps.
Stands == (Stopped \/ lost) /\ UNCHANGED kernelVars

KernelNext ==
    \/ Loading \/ FirmwareRuns \/ Starting \/ TickWhileStarting \/ TickWhenUp
    \/ KeyComes \/ Excepts \/ Stands
    \/ \E t \in Threads : KeyShown(t)
    \/ \E t \in {Parent, Child} : InitRuns(t)

\* The loader and entry_point run on; the firmware lets a call succeed that can,
\* in the end; then as in InitThread.
KernelSpec ==
    /\ KernelInit /\ [][KernelNext]_kernelVars
    /\ WF_kernelVars(Loading) /\ WF_kernelVars(Starting) /\ WF_kernelVars(TickWhenUp)
    /\ \A t \in {Parent, Child} : SF_kernelVars(KeyShown(t) \/ InitRuns(t))

-----------------------------------------------------------------------------
\* The machine comes up, from the first call of the loader to two threads,
\* through every retry around the memory map, every key and every tick: unless
\* the volume cannot be opened, memory for the map cannot be had, an exception
\* comes, or the timer gets to its 91st tick before init has forked (UefiMain,
\* entry_point, timer_handler, com_handler).
ComesUp == <>(Up \/ Stopped \/ NoPool)
=============================================================================

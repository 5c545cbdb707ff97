-------------------------------- MODULE Boot --------------------------------
(***************************************************************************)
(* From entry_point of kernel.c to the fork in init: what each step stores *)
(* in memory, what the processor and the controllers use of it while they  *)
(* run, and which interrupts may come.  Memory is bytes, all of it mapped  *)
(* to itself.  The kernel never asks what the firmware uses; its own       *)
(* tables lie where the heap is going to be.                               *)
(*                                                                         *)
(* The kernel's own variables and the stack it runs on are not listed      *)
(* among the stores.  Nothing is freed so early: the heap is one free      *)
(* block, from which kmalloc cuts at the end (Heap.tla).                   *)
(***************************************************************************)
EXTENDS Integers

CONSTANTS
    BssStart, BssEnd,   \* __bss_start and __bss_end
    FrameBuffer,        \* vinfo.fb
    FbSize,             \* vinfo.fb_size
    Firmware,           \* what the processor uses when the kernel is entered
    Ports,              \* the ports of the AHCI controller that are implemented
    ClbUnit,            \* PxCLB keeps multiples of this: 1024, or all of them, 1
    TICKS               \* timer_handler does not schedule up to this tick: 90

Span(start, n) == [from |-> start, to |-> start + n]
Apart(s, u) == s.to <= u.from \/ u.to <= s.from

\* Addresses and sizes the sources fix.
KernelStart == 1052672          \* 0x101000, kernel.lds
Gdt == Span(128, 24)            \* 0x80
Idt == Span(65536, 4096)        \* 0x10000
PML4 == 3145728                 \* 0x300000
PDPT == PML4 + 4096
PD == PDPT + 4 * 4096
PT == PD + 512 * 4096
PT_SIZE == 4 * 512 * 512 * 8
HEAP_SIZE == 4194304            \* 0x400000
STACK_LENGTH == 4096

Kheap == 16 * ((BssEnd + 15) \div 16)       \* __kheap_start
Cleared == 8 * (BssEnd - BssStart)          \* init_bss counts in uint64_t
Painted == 4 * FbSize                       \* paint_background, in pixels
PaintedBefore == 8 * FbSize                 \* UefiMain, in uint64_t

Parts == {"image", "gdt", "idt", "paging", "stack"}

ASSUME BssAssumption ==
    BssStart \in Int /\ BssEnd \in Int /\ KernelStart < BssStart /\ BssStart <= BssEnd
\* The image ends below 2 MB, and the frame buffer, with what is painted behind
\* it, lies above the page tables.
ASSUME ImageAssumption == BssEnd < 2097152
ASSUME FrameBufferAssumption ==
    FrameBuffer \in Int /\ FbSize \in Nat /\ PT + PT_SIZE <= FrameBuffer
\* The firmware has put nothing that is still in use where the kernel writes.
ASSUME FirmwareAssumption ==
    \A u \in Firmware : /\ u.from \in Int /\ u.to \in Int
                        /\ PT + PT_SIZE <= u.from
                        /\ Apart(Span(FrameBuffer, PaintedBefore), u)
ASSUME PortsAssumption == Ports \subseteq 0..31 /\ Ports # {}
ASSUME ClbAssumption == ClbUnit \in {1, 1024}
ASSUME TicksAssumption == TICKS \in Nat

VARIABLES
    boot,       \* the call of entry_point, or of init, that comes next
    ifl,        \* RFLAGS.IF
    gdtr, idtr, \* whose tables the registers point to
    pic,        \* the vector of IRQ 0, and the IRQs that are not masked
    tick,       \* timer interrupts so far
    inUse,      \* for each part, the memory the processor uses
    stores,     \* what the last step has written
    top,        \* the end of the free block of the heap
    clb,        \* PxCLB of port 0, and cmd_tbl_base
    stack       \* threads[0]->stack

machine == <<ifl, gdtr, idtr, pic>>
heapEnd == <<top, clb, stack>>
bootVars == <<boot, machine, tick, inUse, stores, heapEnd>>

BootInit ==
    /\ boot = "init_bss"
    /\ ifl = FALSE /\ gdtr = "firmware" /\ idtr = "firmware"
    /\ pic = [base |-> 8, open |-> {}]      \* the firmware's drivers have stopped
    /\ tick = 0
    /\ inUse = [p \in Parts |-> IF p = "image" THEN {Span(KernelStart, BssStart - KernelStart)}
                                ELSE Firmware]
    /\ stores = {}
    /\ top = 0 /\ clb = [list |-> 0, table |-> 0] /\ stack = 0

-----------------------------------------------------------------------------
Then(here, there) == boot = here /\ boot' = there
Writes(spans) == stores' = spans
NoMemory == UNCHANGED <<inUse, heapEnd>>

\* The last the loader does: it paints eight times the frame buffer.
UefiMain_paints ==
    /\ boot = "init_bss"
    /\ Writes({Span(FrameBuffer, PaintedBefore)})
    /\ NoMemory /\ UNCHANGED <<boot, machine, tick>>

init_bss ==
    /\ Then("init_bss", "init_graphics")
    /\ Writes({Span(BssStart, Cleared)})
    /\ NoMemory /\ UNCHANGED <<machine, tick>>

\* What changes nothing here: init_graphics is in Screen.tla, the bus walk and
\* the reset of the controller in Pci.tla and AhciInit.tla.
init_elsewhere ==
    /\ \/ Then("init_graphics", "init_serial")
       \/ Then("check_all_buses", "ahci_init")
       \/ Then("threads_init", "create_thread")
    /\ Writes({}) /\ NoMemory /\ UNCHANGED <<machine, tick>>

init_serial ==
    /\ Then("init_serial", "init_gdt")
    /\ ifl' = TRUE
    /\ Writes({}) /\ NoMemory /\ UNCHANGED <<gdtr, idtr, pic, tick>>

\* With load_gdt; intersegment_jump closes the interrupts and opens them.
init_gdt ==
    /\ Then("init_gdt", "init_kpaging")
    /\ ifl' = TRUE /\ gdtr' = "kernel"
    /\ Writes({Gdt})
    /\ inUse' = [inUse EXCEPT !["gdt"] = {Gdt}]
    /\ UNCHANGED <<idtr, pic, tick, heapEnd>>

\* The tables as far as the processor walks them.
KernelTables == {Span(PML4, 8), Span(PDPT, 4 * 8), Span(PD, 4 * 512 * 8), Span(PT, PT_SIZE)}

\* create_kpgtable clears 1029 tables, fills in what it uses, and runs on
\* behind them with the page tables of all 4 GB.
init_kpaging ==
    /\ Then("init_kpaging", "init_idt")
    /\ Writes({Span(PML4, 4096 * 1029), Span(PT, PT_SIZE)})
    /\ inUse' = [inUse EXCEPT !["paging"] = KernelTables]
    /\ UNCHANGED <<machine, tick, heapEnd>>

Exceptions == (0..8) \cup (10..14) \cup (16..19)
gate == [v \in Exceptions \cup (32..38) |->
            IF v = 32 THEN "timer_handler" ELSE IF v > 32 THEN "com_handler" ELSE "exception"]

init_idt ==
    /\ Then("init_idt", "init_pic")
    /\ idtr' = "kernel"
    /\ Writes({Idt})
    /\ inUse' = [inUse EXCEPT !["idt"] = {Idt}]
    /\ UNCHANGED <<ifl, gdtr, pic, tick, heapEnd>>

\* Mutant: IRQ 0 keeps the vector the firmware has given it.
init_pic_unmoved ==
    /\ Then("init_pic", "paint_background")
    /\ pic' = [base |-> 8, open |-> {0, 3, 4}]
    /\ ifl' = TRUE
    /\ Writes({}) /\ NoMemory /\ UNCHANGED <<gdtr, idtr, tick>>

\* Timer and COM ports; IMR = 0xe6.
init_pic ==
    /\ Then("init_pic", "paint_background")
    /\ pic' = [base |-> 32, open |-> {0, 3, 4}]
    /\ ifl' = TRUE
    /\ Writes({}) /\ NoMemory /\ UNCHANGED <<gdtr, idtr, tick>>

paint_background ==
    /\ Then("paint_background", "init_kheap")
    /\ Writes({Span(FrameBuffer, Painted)})
    /\ NoMemory /\ UNCHANGED <<machine, tick>>

-----------------------------------------------------------------------------
(* The heap, and what is put into it *)

\* The block that kmalloc(n) cuts from a free block that ends at t: header and
\* units.  It writes both headers.
CutAt(t, n) == t - 16 * ((n + 15) \div 16 + 1)
align_as(a, align) == a + (align - (a % align))

FreeHeader == Span(Kheap, 16)
Header(block) == Span(block, 16)
Block(block, n) == Span(block + 16, n)

init_kheap ==
    /\ Then("init_kheap", "printstr")
    /\ top' = Kheap + HEAP_SIZE
    /\ Writes({FreeHeader})
    /\ UNCHANGED <<machine, tick, inUse, clb, stack>>

\* The title.
printstr_title ==
    /\ Then("printstr", "check_all_buses")
    /\ Writes({Span(FrameBuffer, FbSize)})
    /\ NoMemory /\ UNCHANGED <<machine, tick>>

CMD_TBL_SIZE == 128 + 16 * 65536
CMD_LIST_SIZE == 32768

\* The FIS a drive sends with its signature and at the end of a command.  PxFB
\* counts from 0: kmalloc_alignas(RCVD_FIS_SIZE, 0x1000) looks only at the last
\* aligned address in the free block, finds less than 4 KB behind it, and
\* returns 0.
rcvd_fis == 0
ReceivedFis == {Span(rcvd_fis + 256 * i + 64, 20) : i \in Ports}

\* Mutant: room for the PRDT of one request, not for 65536 entries.
ahci_init_small_table ==
    /\ Then("ahci_init", "check_ahci")
    /\ LET tbl == CutAt(top, 128 + 16 * 16 + 128)
           list == CutAt(tbl, CMD_LIST_SIZE + 128)
           aligned == align_as(list + 16, 128)
       IN  /\ top' = list
           /\ clb' = [list |-> aligned - (aligned % ClbUnit), table |-> align_as(tbl + 16, 128)]
           /\ Writes({FreeHeader, Header(tbl), Header(list)} \cup ReceivedFis)
    /\ UNCHANGED <<machine, tick, inUse, stack>>

\* The allocations of ahci_init and alloc_mem_for_ports, and where PxCLB really
\* points.
ahci_init ==
    /\ Then("ahci_init", "check_ahci")
    /\ LET tbl == CutAt(top, CMD_TBL_SIZE + 128)
           list == CutAt(tbl, CMD_LIST_SIZE + 128)
           aligned == align_as(list + 16, 128)
       IN  /\ top' = list
           /\ clb' = [list |-> aligned - (aligned % ClbUnit), table |-> align_as(tbl + 16, 128)]
           /\ Writes({FreeHeader, Header(tbl), Header(list)} \cup ReceivedFis)
    /\ UNCHANGED <<machine, tick, inUse, stack>>

\* The rest of check_ahci: one sector is read; build_cmd_table clears the table
\* as far as it is used, build_cmdheader the 32 headers of the port.
check_ahci ==
    /\ Then("check_ahci", "threads_init")
    /\ LET buf == CutAt(top, 8 * 64 + 2)
       IN  /\ top' = buf
           /\ \E i \in Ports :
                  Writes({FreeHeader, Header(buf), Block(buf, 8 * 64 + 2),
                          Span(clb.table, 128 + 16), Span(clb.list + 1024 * i, 1024)} \cup ReceivedFis)
    /\ UNCHANGED <<machine, tick, inUse, clb, stack>>

THREAD == 128       \* sizeof(thread)
NPIPEQUEUE == 4096

\* create_thread(init, 0, 0): structure, stack, sid_ptr, pstruct.
create_thread ==
    /\ Then("create_thread", "switch_context_first")
    /\ LET t == CutAt(top, THREAD)
           block == CutAt(t, STACK_LENGTH)
           sid == CutAt(block, 4)
       IN  /\ top' = CutAt(sid, 16)
           /\ stack' = block + 16
           /\ Writes({FreeHeader, [from |-> top', to |-> top]})
    /\ ifl' = TRUE
    /\ UNCHANGED <<gdtr, idtr, pic, tick, inUse, clb>>

\* switch_context(0, ...) keeps the stack pointer of entry_point at address 0.
switch_context_first ==
    /\ Then("switch_context_first", "gen_pipe")
    /\ Writes({Span(0, 8)})
    /\ inUse' = [inUse EXCEPT !["stack"] = {Span(stack, STACK_LENGTH)}]
    /\ ifl' = TRUE
    /\ UNCHANGED <<gdtr, idtr, pic, tick, heapEnd>>

\* init, as far as the fork.  The pipe is in InitThread.tla.
gen_pipe ==
    /\ Then("gen_pipe", "fork_thread")
    /\ top' = CutAt(top, NPIPEQUEUE)
    /\ Writes({FreeHeader, Header(top')})
    /\ UNCHANGED <<machine, tick, inUse, clb, stack>>

\* The child goes on on its copy of the stack.
fork_thread ==
    /\ Then("fork_thread", "up")
    /\ LET newstack == CutAt(top, STACK_LENGTH)
       IN  /\ top' = CutAt(newstack, THREAD)
           /\ Writes({FreeHeader, [from |-> top', to |-> top]})
           /\ inUse' = [inUse EXCEPT !["stack"] = @ \cup {Span(newstack + 16, STACK_LENGTH)}]
    /\ ifl' = TRUE
    /\ UNCHANGED <<gdtr, idtr, pic, tick, clb, stack>>

-----------------------------------------------------------------------------
\* timer_handler before the fork.  timer_period is 0 or 50 so far and
\* previous_interrupt 0: the tick after 90 calls thread_scheduler, which finds
\* no thread that it could switch to and come back from: threads[] is empty, or
\* nobody in it RUNNABLE, or it holds only init, whose rsp is where init began.
timer_handler ==
    /\ ifl /\ 0 \in pic.open /\ boot \notin {"up", "astray"}
    /\ tick' = tick + 1
    /\ boot' = IF tick' > TICKS THEN "astray" ELSE boot
    /\ Writes({}) /\ NoMemory /\ UNCHANGED machine

Starts ==
    \/ init_bss \/ init_elsewhere \/ init_serial \/ init_gdt \/ init_kpaging \/ init_idt
    \/ init_pic \/ paint_background \/ init_kheap \/ printstr_title \/ ahci_init \/ check_ahci
    \/ create_thread \/ switch_context_first \/ gen_pipe \/ fork_thread

BootNext == UefiMain_paints \/ Starts \/ timer_handler

BootSpec == BootInit /\ [][BootNext]_bootVars

-----------------------------------------------------------------------------
\* Nothing that is stored during the start lies in what the processor uses: the
\* page tables and the heap overlap, and the blocks that are written to fall
\* between the tables only because of what lies unused in the large block taken
\* first, the command table (init_kpaging, init_kheap, kmalloc, ahci_init).
TablesKept == [][\A s \in stores' : \A p \in Parts : \A u \in inUse[p] : Apart(s, u)]_bootVars

\* Whenever an interrupt can come, the kernel's table is loaded and its gate is
\* that of the device, and so is the segment the gate names (init_serial and
\* init_gdt open the interrupts long before init_idt and init_pic).  Until init_pic
\* it rests on BootInit: the firmware has left every IRQ masked, as its drivers
\* are stopped; the code sets no mask before.
Deliverable ==
    ifl => \A irq \in pic.open :
               /\ gdtr = "kernel" /\ idtr = "kernel"
               /\ pic.base + irq \in DOMAIN gate
               /\ gate[pic.base + irq] = IF irq = 0 THEN "timer_handler" ELSE "com_handler"
=============================================================================

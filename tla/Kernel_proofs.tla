--------------------------- MODULE Kernel_proofs ---------------------------
(***************************************************************************)
(* For every layout of the image, the frame buffer and the firmware, every *)
(* controller, screen, memory map and number of keys: what the kernel      *)
(* stores while it starts keeps clear of what the processor uses, no       *)
(* interrupt comes without its gate, the memory map fits, every dot is     *)
(* drawn on the screen, and what is read from the pipe is a whole message. *)
(***************************************************************************)
EXTENDS Kernel, TLAPS

-----------------------------------------------------------------------------
(* The start *)

BeforeGdt == {"init_bss", "init_graphics", "init_serial", "init_gdt"}
BeforePaging == BeforeGdt \cup {"init_kpaging"}
BeforeIdt == BeforePaging \cup {"init_idt"}
BeforePic == BeforeIdt \cup {"init_pic"}
Ended == {"up", "astray", "exception"}

\* Whose memory the processor can be using.
UseInv ==
    /\ DOMAIN inUse = Parts
    /\ inUse["image"] = {Span(KernelStart, BssStart - KernelStart)}
    /\ \A u \in inUse["gdt"] : u \in Firmware \/ (u = Gdt /\ boot \notin BeforeGdt)
    /\ \A u \in inUse["paging"] : u \in Firmware \/ (u \in KernelTables /\ boot \notin BeforePaging)
    /\ \A u \in inUse["idt"] : u \in Firmware \/ (u = Idt /\ boot \notin BeforeIdt)
    /\ \A u \in inUse["stack"] :
          \/ u \in Firmware
          \/ boot \in {"gen_pipe", "fork_thread"} /\ u = Span(stack, STACK_LENGTH)
          \/ boot \in Ended

\* How much of the heap has been given away, from its end.
Given ==
    CASE boot = "check_ahci" -> 1081760
      [] boot \in {"threads_init", "create_thread"} -> 1082304
      [] boot \in {"switch_context_first", "gen_pipe"} -> 1086624
      [] boot = "fork_thread" -> 1090736
      [] OTHER -> 0

HeapLabels ==
    {"printstr", "check_all_buses", "ahci_init", "check_ahci", "threads_init",
     "create_thread", "switch_context_first", "gen_pipe", "fork_thread"}

HeapInv ==
    /\ boot \in HeapLabels => top = Kheap + HEAP_SIZE - Given
    /\ boot = "check_ahci" =>
          /\ clb.table \in Int /\ clb.list \in Int
          /\ top + 32912 <= clb.table /\ clb.table <= top + 33200
          /\ top - 1024 <= clb.list /\ clb.list <= top + 144
    /\ boot \in {"switch_context_first", "gen_pipe", "fork_thread"} =>
          stack = Kheap + HEAP_SIZE - 1086544

\* Which tables are loaded, and since when interrupts come.
TablesInv ==
    /\ pic.open # {} => /\ gdtr = "kernel" /\ idtr = "kernel"
                        /\ pic.base = 32 /\ pic.open = {0, 3, 4}
    /\ boot \in {"init_kpaging", "init_idt", "init_pic"} => gdtr = "kernel"
    /\ boot = "init_pic" => idtr = "kernel"

BootInv == UseInv /\ HeapInv /\ TablesInv

\* Whatever the heap begins behind, it does within 2 MB.
LEMMA KheapBounds ==
    /\ Kheap \in Int /\ BssEnd <= Kheap /\ Kheap <= 2097152 /\ 1052672 < Kheap
    /\ BssStart \in Int /\ BssEnd \in Int /\ BssStart <= BssEnd /\ 1052672 < BssStart
  BY BssAssumption, ImageAssumption DEF Kheap, KernelStart

\* A store is clear of everything when it is clear of the firmware's memory and
\* of what the kernel's tables can take at this moment.
LEMMA ApartFromAll ==
    ASSUME UseInv, boot \notin Ended, NEW s,
           \A u \in Firmware : Apart(s, u),
           Apart(s, Span(KernelStart, BssStart - KernelStart)),
           boot \notin BeforeGdt => Apart(s, Gdt),
           boot \notin BeforePaging => \A u \in KernelTables : Apart(s, u),
           boot \notin BeforeIdt => Apart(s, Idt),
           boot \in {"gen_pipe", "fork_thread"} => Apart(s, Span(stack, STACK_LENGTH))
    PROVE  \A p \in Parts : \A u \in inUse[p] : Apart(s, u)
  <1> SUFFICES ASSUME NEW p \in Parts, NEW u \in inUse[p] PROVE Apart(s, u)
    OBVIOUS
  <1>1. CASE p = "image"
    BY <1>1 DEF UseInv
  <1>2. CASE p = "gdt"
    BY <1>2 DEF UseInv
  <1>3. CASE p = "paging"
    BY <1>3 DEF UseInv
  <1>4. CASE p = "idt"
    BY <1>4 DEF UseInv
  <1>5. CASE p = "stack"
    BY <1>5 DEF UseInv
  <1> QED BY <1>1, <1>2, <1>3, <1>4, <1>5 DEF Parts

\* Between the page directories and the page tables lie the blocks of the heap.
LEMMA BetweenTables ==
    ASSUME NEW s, s.from \in Int, s.to \in Int, s.from <= s.to,
           3182592 <= s.from, s.to <= 5263360
    PROVE  /\ \A u \in Firmware : Apart(s, u)
           /\ Apart(s, Span(KernelStart, BssStart - KernelStart))
           /\ Apart(s, Gdt) /\ Apart(s, Idt)
           /\ \A u \in KernelTables : Apart(s, u)
  <1>1. \A u \in Firmware : Apart(s, u)
    BY FirmwareAssumption DEF Apart, PT, PD, PDPT, PML4, PT_SIZE
  <1>2. Apart(s, Span(KernelStart, BssStart - KernelStart))
    BY KheapBounds, ImageAssumption DEF Apart, Span, KernelStart
  <1>3. Apart(s, Gdt) /\ Apart(s, Idt)
    BY DEF Apart, Span, Gdt, Idt
  <1>4. \A u \in KernelTables : Apart(s, u)
    BY DEF KernelTables, Apart, Span, PT, PD, PDPT, PML4, PT_SIZE
  <1> QED BY <1>1, <1>2, <1>3, <1>4

\* Below the image, from 0 to the descriptor table and from there to the next,
\* and between the image and the page tables.
LEMMA BelowTables ==
    ASSUME NEW s, s.from \in Int, s.to \in Int, s.from <= s.to,
           \/ s.from >= 0 /\ s.to <= 128
           \/ s.from >= 152 /\ s.to <= 65536
           \/ s.from >= Kheap /\ s.to <= 3145728
    PROVE  /\ \A u \in Firmware : Apart(s, u)
           /\ Apart(s, Span(KernelStart, BssStart - KernelStart))
           /\ Apart(s, Gdt) /\ Apart(s, Idt)
           /\ \A u \in KernelTables : Apart(s, u)
  <1>1. \A u \in Firmware : Apart(s, u)
    BY FirmwareAssumption, KheapBounds DEF Apart, PT, PD, PDPT, PML4, PT_SIZE
  <1>2. Apart(s, Span(KernelStart, BssStart - KernelStart))
    BY KheapBounds, ImageAssumption DEF Apart, Span, KernelStart
  <1>3. Apart(s, Gdt) /\ Apart(s, Idt)
    BY KheapBounds DEF Apart, Span, Gdt, Idt
  <1>4. \A u \in KernelTables : Apart(s, u)
    BY DEF KernelTables, Apart, Span, PT, PD, PDPT, PML4, PT_SIZE
  <1> QED BY <1>1, <1>2, <1>3, <1>4

-----------------------------------------------------------------------------
(* One lemma for each step of the start: what it stores is clear of what is *)
(* in use (Kept), and the invariant holds again.                           *)

Kept == \A s \in stores' : \A p \in Parts : \A u \in inUse[p] : Apart(s, u)

\* init_bss clears eight times its section: nothing in use lies behind it yet.
LEMMA StepBss ==
    ASSUME BootInv, init_bss PROVE BootInv' /\ Kept
  <1> USE DEF BootInv
  <1>1. BootInv'
    BY DEF init_bss, Then, NoMemory, heapEnd, machine, UseInv, HeapInv, TablesInv, Given,
           HeapLabels, BeforeGdt, BeforePaging, BeforeIdt, Ended
  <1>2. Kept
    <2> SUFFICES ASSUME NEW s \in stores' PROVE \A p \in Parts : \A u \in inUse[p] : Apart(s, u)
      BY DEF Kept
    <2>1. s = Span(BssStart, 8 * (BssEnd - BssStart)) /\ boot = "init_bss"
      BY DEF init_bss, Writes, Then, Cleared
    <2>2. \A u \in Firmware : Apart(s, u)
      BY <2>1, KheapBounds, ImageAssumption, FirmwareAssumption
         DEF Apart, Span, PT, PD, PDPT, PML4, PT_SIZE
    <2>3. Apart(s, Span(KernelStart, BssStart - KernelStart))
      BY <2>1, KheapBounds DEF Apart, Span, KernelStart
    <2> QED BY <2>1, <2>2, <2>3, ApartFromAll DEF BeforeGdt, BeforePaging, BeforeIdt, Ended
  <1> QED BY <1>1, <1>2

\* Steps that store nothing.
LEMMA StepElsewhere ==
    ASSUME BootInv, init_elsewhere PROVE BootInv' /\ Kept
  <1> USE DEF BootInv
  <1>1. BootInv'
    BY DEF init_elsewhere, Then, NoMemory, heapEnd, machine, UseInv, HeapInv, TablesInv, Given,
           HeapLabels, BeforeGdt, BeforePaging, BeforeIdt, Ended
  <1>2. Kept
    BY DEF init_elsewhere, Kept, Writes
  <1> QED BY <1>1, <1>2

\* init_serial stores nothing, and no interrupt of the PIC is open yet.
LEMMA StepSerial ==
    ASSUME BootInv, init_serial PROVE BootInv' /\ Kept
  <1> USE DEF BootInv
  <1>1. BootInv'
    BY DEF init_serial, Then, NoMemory, heapEnd, machine, UseInv, HeapInv, TablesInv, Given,
           HeapLabels, BeforeGdt, BeforePaging, BeforeIdt, Ended
  <1>2. Kept
    BY DEF init_serial, Kept, Writes
  <1> QED BY <1>1, <1>2

\* init_pic opens the interrupts when both tables are the kernel's.
LEMMA StepPic ==
    ASSUME BootInv, init_pic PROVE BootInv' /\ Kept
  <1> USE DEF BootInv
  <1>1. BootInv'
    BY DEF init_pic, Then, NoMemory, heapEnd, machine, UseInv, HeapInv, TablesInv, Given,
           HeapLabels, BeforeGdt, BeforePaging, BeforeIdt, Ended
  <1>2. Kept
    BY DEF init_pic, Kept, Writes
  <1> QED BY <1>1, <1>2

\* init_gdt writes its table, and from then on the processor uses that.
LEMMA StepGdt ==
    ASSUME BootInv, init_gdt PROVE BootInv' /\ Kept
  <1> USE DEF BootInv
  <1>1. UseInv'
    BY DEF init_gdt, Then, heapEnd, machine, UseInv, BeforeGdt, BeforePaging, BeforeIdt, Ended,
           Parts
  <1>2. HeapInv' /\ TablesInv'
    BY DEF init_gdt, Then, heapEnd, HeapInv, TablesInv, Given, HeapLabels
  <1>3. Kept
    <2> SUFFICES ASSUME NEW s \in stores' PROVE \A p \in Parts : \A u \in inUse[p] : Apart(s, u)
      BY DEF Kept
    <2>1. s = Span(128, 24) /\ boot = "init_gdt"
      BY DEF init_gdt, Writes, Then, Gdt
    <2>2. \A u \in Firmware : Apart(s, u)
      BY <2>1, FirmwareAssumption DEF Apart, Span, PT, PD, PDPT, PML4, PT_SIZE
    <2>3. Apart(s, Span(KernelStart, BssStart - KernelStart))
      BY <2>1, KheapBounds DEF Apart, Span, KernelStart
    <2> QED BY <2>1, <2>2, <2>3, ApartFromAll DEF BeforeGdt, BeforePaging, BeforeIdt, Ended
  <1> QED BY <1>1, <1>2, <1>3

\* init_kpaging writes more than the tables the processor walks, from 3 MB on:
\* the image lies below, the firmware's memory above.
LEMMA StepPaging ==
    ASSUME BootInv, init_kpaging PROVE BootInv' /\ Kept
  <1> USE DEF BootInv
  <1>1. UseInv'
    BY DEF init_kpaging, Then, heapEnd, machine, UseInv, BeforeGdt, BeforePaging, BeforeIdt,
           Ended, Parts
  <1>2. HeapInv' /\ TablesInv'
    BY DEF init_kpaging, Then, heapEnd, machine, HeapInv, TablesInv, Given, HeapLabels
  <1>3. Kept
    <2> SUFFICES ASSUME NEW s \in stores' PROVE \A p \in Parts : \A u \in inUse[p] : Apart(s, u)
      BY DEF Kept
    <2>1. boot = "init_kpaging"
      BY DEF init_kpaging, Then
    <2>2. s.from \in Int /\ s.to \in Int /\ 3145728 <= s.from /\ s.to <= PT + PT_SIZE
      BY DEF init_kpaging, Writes, Span, PT, PD, PDPT, PML4, PT_SIZE
    <2>3. \A u \in Firmware : Apart(s, u)
      BY <2>2, FirmwareAssumption DEF Apart, PT, PD, PDPT, PML4, PT_SIZE
    <2>4. Apart(s, Span(KernelStart, BssStart - KernelStart)) /\ Apart(s, Gdt)
      BY <2>2, KheapBounds, ImageAssumption DEF Apart, Span, KernelStart, Gdt
    <2> QED BY <2>1, <2>3, <2>4, ApartFromAll DEF BeforeGdt, BeforePaging, BeforeIdt, Ended
  <1> QED BY <1>1, <1>2, <1>3

\* init_idt writes its table, and from then on the processor uses that.
LEMMA StepIdt ==
    ASSUME BootInv, init_idt PROVE BootInv' /\ Kept
  <1> USE DEF BootInv
  <1>1. UseInv'
    BY DEF init_idt, Then, heapEnd, machine, UseInv, BeforeGdt, BeforePaging, BeforeIdt, Ended,
           Parts
  <1>2. HeapInv' /\ TablesInv'
    BY DEF init_idt, Then, heapEnd, machine, HeapInv, TablesInv, Given, HeapLabels
  <1>3. Kept
    <2> SUFFICES ASSUME NEW s \in stores' PROVE \A p \in Parts : \A u \in inUse[p] : Apart(s, u)
      BY DEF Kept
    <2>1. s = Span(65536, 4096) /\ boot = "init_idt"
      BY DEF init_idt, Writes, Then, Idt
    <2>2. \A u \in Firmware : Apart(s, u)
      BY <2>1, FirmwareAssumption DEF Apart, Span, PT, PD, PDPT, PML4, PT_SIZE
    <2>3. Apart(s, Span(KernelStart, BssStart - KernelStart)) /\ Apart(s, Gdt)
      BY <2>1, KheapBounds DEF Apart, Span, KernelStart, Gdt
    <2>4. \A u \in KernelTables : Apart(s, u)
      BY <2>1 DEF KernelTables, Apart, Span, PT, PD, PDPT, PML4, PT_SIZE
    <2> QED BY <2>1, <2>2, <2>3, <2>4, ApartFromAll DEF BeforeGdt, BeforePaging, BeforeIdt, Ended
  <1> QED BY <1>1, <1>2, <1>3

\* What is painted lies behind everything the kernel's tables can take.
LEMMA OnTheScreen ==
    ASSUME NEW s, NEW n \in Nat, n <= PaintedBefore, s = Span(FrameBuffer, n)
    PROVE  /\ \A u \in Firmware : Apart(s, u)
           /\ Apart(s, Span(KernelStart, BssStart - KernelStart))
           /\ Apart(s, Gdt) /\ Apart(s, Idt)
           /\ \A u \in KernelTables : Apart(s, u)
  <1> USE FrameBufferAssumption
  <1>1. \A u \in Firmware : Apart(s, u)
    <2> SUFFICES ASSUME NEW u \in Firmware PROVE Apart(s, u)
      OBVIOUS
    <2>1. u.from \in Int /\ u.to \in Int /\ Apart(Span(FrameBuffer, PaintedBefore), u)
      BY FirmwareAssumption
    <2> QED BY <2>1 DEF Apart, Span, PaintedBefore
  <1>2. Apart(s, Span(KernelStart, BssStart - KernelStart))
    BY KheapBounds, ImageAssumption DEF Apart, Span, KernelStart, PT, PD, PDPT, PML4, PT_SIZE
  <1>3. Apart(s, Gdt) /\ Apart(s, Idt)
    BY DEF Apart, Span, Gdt, Idt, PT, PD, PDPT, PML4, PT_SIZE
  <1>4. \A u \in KernelTables : Apart(s, u)
    BY DEF KernelTables, Apart, Span, PT, PD, PDPT, PML4, PT_SIZE
  <1> QED BY <1>1, <1>2, <1>3, <1>4

\* The loader's white, the background and the title go into the frame buffer, or
\* behind it.
LEMMA StepPaint ==
    ASSUME BootInv, UefiMain_paints \/ paint_background \/ printstr_title PROVE BootInv' /\ Kept
  <1> USE DEF BootInv
  <1>1. BootInv'
    BY DEF UefiMain_paints, paint_background, printstr_title, Then, NoMemory, heapEnd, machine, UseInv, HeapInv,
           TablesInv, Given, HeapLabels, BeforeGdt, BeforePaging, BeforeIdt, Ended
  <1>2. Kept
    <2> SUFFICES ASSUME NEW s \in stores' PROVE \A p \in Parts : \A u \in inUse[p] : Apart(s, u)
      BY DEF Kept
    <2>1. boot \in {"init_bss", "paint_background", "printstr"}
      BY DEF UefiMain_paints, paint_background, printstr_title, Then
    <2>2. PICK n \in Nat : n <= PaintedBefore /\ s = Span(FrameBuffer, n)
      BY FrameBufferAssumption DEF UefiMain_paints, paint_background, printstr_title, Writes, Painted,
                                   PaintedBefore
    <2> QED BY <2>1, <2>2, OnTheScreen, ApartFromAll DEF Ended
  <1> QED BY <1>1, <1>2

\* The header of the free block, and any block cut from its end.
LEMMA TheFreeHeader ==
    ASSUME NEW s, s = FreeHeader
    PROVE  /\ \A u \in Firmware : Apart(s, u)
           /\ Apart(s, Span(KernelStart, BssStart - KernelStart))
           /\ Apart(s, Gdt) /\ Apart(s, Idt)
           /\ \A u \in KernelTables : Apart(s, u)
  BY KheapBounds, BelowTables DEF FreeHeader, Span

\* init_kheap writes a header at the beginning of the heap, below the page tables.
LEMMA StepHeap ==
    ASSUME BootInv, init_kheap PROVE BootInv' /\ Kept
  <1> USE DEF BootInv
  <1>1. UseInv' /\ TablesInv'
    BY DEF init_kheap, Then, machine, UseInv, TablesInv, BeforeGdt, BeforePaging, BeforeIdt, Ended
  <1>2. HeapInv'
    BY KheapBounds DEF init_kheap, Then, HeapInv, Given, HeapLabels, HEAP_SIZE
  <1>3. Kept
    <2>1. boot = "init_kheap" /\ \A s \in stores' : s = FreeHeader
      BY DEF init_kheap, Then, Writes
    <2> QED BY <2>1, TheFreeHeader, ApartFromAll DEF Kept, Ended
  <1> QED BY <1>1, <1>2, <1>3

\* The command table, which is taken first, reaches from the end of the heap down
\* into the gap between the page directories and the page tables.  Only its
\* beginning is ever written, and what is taken later lies in the gap too.
LEMMA StepAhci ==
    ASSUME BootInv, ahci_init PROVE BootInv' /\ Kept
  <1> USE DEF BootInv
  <1> DEFINE tbl == CutAt(top, CMD_TBL_SIZE + 128)
             list == CutAt(tbl, CMD_LIST_SIZE + 128)
             aligned == align_as(list + 16, 128)
  <1>1. top = Kheap + 4194304 /\ boot = "ahci_init"
    BY KheapBounds DEF ahci_init, Then, HeapInv, HeapLabels, Given, HEAP_SIZE
  <1>2. tbl = top - 1048848 /\ list = top - 1081760
    BY <1>1, KheapBounds DEF CutAt, CMD_TBL_SIZE, CMD_LIST_SIZE
  <1>3. list \in Int /\ tbl \in Int
    BY <1>1, <1>2, KheapBounds
  <1> HIDE DEF tbl, list
  <1>4. /\ aligned \in Int /\ list + 16 <= aligned /\ aligned <= list + 144
        /\ align_as(tbl + 16, 128) \in Int
        /\ tbl + 16 <= align_as(tbl + 16, 128) /\ align_as(tbl + 16, 128) <= tbl + 144
    BY <1>3 DEF align_as
  <1>5. /\ top' = list
        /\ clb' = [list |-> aligned - (aligned % ClbUnit), table |-> align_as(tbl + 16, 128)]
        /\ stores' = {FreeHeader, Header(tbl), Header(list)} \cup ReceivedFis
        /\ boot' = "check_ahci" /\ inUse' = inUse /\ stack' = stack /\ UNCHANGED machine
    BY DEF ahci_init, tbl, list, Then, Writes
  <1> HIDE DEF aligned
  <1>6. aligned % ClbUnit \in 0..1023
    BY <1>4, ClbAssumption
  <1>7. UseInv' /\ TablesInv'
    BY <1>1, <1>5 DEF machine, UseInv, TablesInv, BeforeGdt, BeforePaging, BeforeIdt, Ended
  <1>8. HeapInv'
    BY SMTT(30), <1>1, <1>2, <1>3, <1>4, <1>5, <1>6, KheapBounds DEF HeapInv, Given, HeapLabels, HEAP_SIZE
  <1>9. Kept
    <2> SUFFICES ASSUME NEW s \in stores' PROVE \A p \in Parts : \A u \in inUse[p] : Apart(s, u)
      BY DEF Kept
    <2>1. CASE s = FreeHeader
      BY <1>1, <2>1, TheFreeHeader, ApartFromAll DEF Ended
    <2>2. CASE s \in {Header(tbl), Header(list)}
      <3>1. s.from \in Int /\ s.to \in Int /\ s.from <= s.to /\ 3182592 <= s.from /\ s.to <= 5263360
        BY <1>1, <1>2, <1>3, <2>2, KheapBounds DEF Header, Span
      <3> QED BY <1>1, <3>1, BetweenTables, ApartFromAll DEF Ended
    <2>3. CASE s \in ReceivedFis
      <3>1. /\ s.from \in Int /\ s.to \in Int /\ s.from <= s.to
            /\ (s.from >= 0 /\ s.to <= 128) \/ (s.from >= 152 /\ s.to <= 65536)
        BY <2>3, PortsAssumption DEF ReceivedFis, Span, rcvd_fis
      <3> QED BY <1>1, <3>1, BelowTables, ApartFromAll DEF Ended
    <2> QED BY <1>5, <2>1, <2>2, <2>3
  <1> QED BY <1>7, <1>8, <1>9

\* The buffer of the first sector, what is used of the command table, and the
\* headers of one port.
LEMMA StepCheckAhci ==
    ASSUME BootInv, check_ahci PROVE BootInv' /\ Kept
  <1> USE DEF BootInv
  <1>1. /\ top = Kheap + 3112544 /\ boot = "check_ahci"
        /\ clb.table \in Int /\ clb.list \in Int
        /\ top + 32912 <= clb.table /\ clb.table <= top + 33200
        /\ top - 1024 <= clb.list /\ clb.list <= top + 144
    BY KheapBounds DEF check_ahci, Then, HeapInv, HeapLabels, Given, HEAP_SIZE
  <1>2. CutAt(top, 8 * 64 + 2) = top - 544
    BY <1>1, KheapBounds DEF CutAt
  <1>3. UseInv' /\ TablesInv'
    BY <1>1 DEF check_ahci, Then, machine, UseInv, TablesInv, BeforeGdt, BeforePaging, BeforeIdt,
           Ended
  <1>4. HeapInv'
    BY <1>1, <1>2, KheapBounds DEF check_ahci, Then, HeapInv, Given, HeapLabels, HEAP_SIZE
  <1>5. Kept
    <2> SUFFICES ASSUME NEW s \in stores' PROVE \A p \in Parts : \A u \in inUse[p] : Apart(s, u)
      BY DEF Kept
    <2>1. PICK i \in Ports :
              s \in {FreeHeader, Header(top - 544), Block(top - 544, 8 * 64 + 2),
                     Span(clb.table, 128 + 16), Span(clb.list + 1024 * i, 1024)} \cup ReceivedFis
      BY <1>2 DEF check_ahci, Writes
    <2>2. CASE s = FreeHeader
      BY <1>1, <2>2, TheFreeHeader, ApartFromAll DEF Ended
    <2>3. CASE s \in {Header(top - 544), Block(top - 544, 8 * 64 + 2), Span(clb.table, 128 + 16),
                      Span(clb.list + 1024 * i, 1024)}
      <3>1. i \in 0..31
        BY PortsAssumption
      <3>2. s.from \in Int /\ s.to \in Int /\ s.from <= s.to /\ 3182592 <= s.from /\ s.to <= 5263360
        BY <1>1, <2>3, <3>1, KheapBounds DEF Header, Block, Span
      <3> QED BY <1>1, <3>2, BetweenTables, ApartFromAll DEF Ended
    <2>4. CASE s \in ReceivedFis
      <3>1. /\ s.from \in Int /\ s.to \in Int /\ s.from <= s.to
            /\ (s.from >= 0 /\ s.to <= 128) \/ (s.from >= 152 /\ s.to <= 65536)
        BY <2>4, PortsAssumption DEF ReceivedFis, Span, rcvd_fis
      <3> QED BY <1>1, <3>1, BelowTables, ApartFromAll DEF Ended
    <2> QED BY <2>1, <2>2, <2>3, <2>4
  <1> QED BY <1>3, <1>4, <1>5

\* What create_thread takes for init lies in the gap.
LEMMA StepCreate ==
    ASSUME BootInv, create_thread PROVE BootInv' /\ Kept
  <1> USE DEF BootInv
  <1>1. top = Kheap + 3112000 /\ boot = "create_thread"
    BY KheapBounds DEF create_thread, Then, HeapInv, HeapLabels, Given, HEAP_SIZE
  <1>2. CutAt(top, THREAD) = top - 144
    BY <1>1, KheapBounds DEF CutAt, THREAD
  <1>3. CutAt(top - 144, STACK_LENGTH) = top - 4256
    BY <1>1, KheapBounds DEF CutAt, STACK_LENGTH
  <1>4. CutAt(top - 4256, 4) = top - 4288 /\ CutAt(top - 4288, 16) = top - 4320
    BY <1>1, KheapBounds DEF CutAt
  <1>5. /\ top' = top - 4320 /\ stack' = top - 4256 + 16
        /\ stores' = {FreeHeader, [from |-> top', to |-> top]}
        /\ boot' = "switch_context_first" /\ inUse' = inUse /\ UNCHANGED <<gdtr, idtr, pic>>
    BY <1>2, <1>3, <1>4 DEF create_thread, Then, Writes
  <1>6. UseInv' /\ TablesInv'
    BY <1>1, <1>5 DEF UseInv, TablesInv, BeforeGdt, BeforePaging, BeforeIdt, Ended
  <1>7. HeapInv'
    BY <1>1, <1>5, KheapBounds DEF HeapInv, Given, HeapLabels, HEAP_SIZE
  <1>8. Kept
    <2> SUFFICES ASSUME NEW s \in stores' PROVE \A p \in Parts : \A u \in inUse[p] : Apart(s, u)
      BY DEF Kept
    <2>1. CASE s = FreeHeader
      BY <1>1, <2>1, TheFreeHeader, ApartFromAll DEF Ended
    <2>2. CASE s = [from |-> top', to |-> top]
      <3>1. s.from \in Int /\ s.to \in Int /\ s.from <= s.to /\ 3182592 <= s.from /\ s.to <= 5263360
        BY <1>1, <1>5, <2>2, KheapBounds
      <3> QED BY <1>1, <3>1, BetweenTables, ApartFromAll DEF Ended
    <2> QED BY <1>5, <2>1, <2>2
  <1> QED BY <1>6, <1>7, <1>8

\* The old stack pointer goes to address 0, and the stack is the thread's.
LEMMA StepFirst ==
    ASSUME BootInv, switch_context_first PROVE BootInv' /\ Kept
  <1> USE DEF BootInv
  <1>1. UseInv'
    BY DEF switch_context_first, Then, heapEnd, UseInv, BeforeGdt, BeforePaging, BeforeIdt,
           Ended, Parts
  <1>2. HeapInv' /\ TablesInv'
    BY DEF switch_context_first, Then, heapEnd, HeapInv, TablesInv, Given, HeapLabels
  <1>3. Kept
    <2> SUFFICES ASSUME NEW s \in stores' PROVE \A p \in Parts : \A u \in inUse[p] : Apart(s, u)
      BY DEF Kept
    <2>1. s = Span(0, 8) /\ boot = "switch_context_first"
      BY DEF switch_context_first, Writes, Then
    <2>2. s.from = 0 /\ s.to = 8
      BY <2>1 DEF Span
    <2> QED BY <2>1, <2>2, BelowTables, ApartFromAll DEF Ended
  <1> QED BY <1>1, <1>2, <1>3

\* So does the buffer of the pipe, of which only the header is written,
LEMMA StepPipe ==
    ASSUME BootInv, gen_pipe PROVE BootInv' /\ Kept
  <1> USE DEF BootInv
  <1>1. top = Kheap + 3107680 /\ stack = Kheap + 3107760 /\ boot = "gen_pipe"
    BY KheapBounds DEF gen_pipe, Then, HeapInv, HeapLabels, Given, HEAP_SIZE
  <1>2. CutAt(top, NPIPEQUEUE) = top - 4112
    BY <1>1, KheapBounds DEF CutAt, NPIPEQUEUE
  <1>3. /\ top' = top - 4112 /\ stack' = stack /\ stores' = {FreeHeader, Header(top - 4112)}
        /\ boot' = "fork_thread" /\ inUse' = inUse /\ UNCHANGED machine
    BY <1>2 DEF gen_pipe, Then, Writes
  <1>4. UseInv' /\ TablesInv'
    BY <1>1, <1>3 DEF machine, UseInv, TablesInv, BeforeGdt, BeforePaging, BeforeIdt, Ended
  <1>5. HeapInv'
    BY <1>1, <1>3, KheapBounds DEF HeapInv, Given, HeapLabels, HEAP_SIZE
  <1>6. Kept
    <2> SUFFICES ASSUME NEW s \in stores' PROVE \A p \in Parts : \A u \in inUse[p] : Apart(s, u)
      BY DEF Kept
    <2>1. Apart(s, Span(stack, STACK_LENGTH))
      BY <1>1, <1>3, KheapBounds DEF Apart, FreeHeader, Header, Span, STACK_LENGTH
    <2>2. CASE s = FreeHeader
      BY <1>1, <2>1, <2>2, TheFreeHeader, ApartFromAll DEF Ended
    <2>3. CASE s = Header(top - 4112)
      <3>1. s.from \in Int /\ s.to \in Int /\ s.from <= s.to /\ 3182592 <= s.from /\ s.to <= 5263360
        BY <1>1, <2>3, KheapBounds DEF Header, Span
      <3> QED BY <1>1, <2>1, <3>1, BetweenTables, ApartFromAll DEF Ended
    <2> QED BY <1>3, <2>2, <2>3
  <1> QED BY <1>4, <1>5, <1>6

\* and the stack of the child, and its structure.
LEMMA StepFork ==
    ASSUME BootInv, fork_thread PROVE BootInv' /\ Kept
  <1> USE DEF BootInv
  <1>1. top = Kheap + 3103568 /\ stack = Kheap + 3107760 /\ boot = "fork_thread"
    BY KheapBounds DEF fork_thread, Then, HeapInv, HeapLabels, Given, HEAP_SIZE
  <1>2. CutAt(top, STACK_LENGTH) = top - 4112
    BY <1>1, KheapBounds DEF CutAt, STACK_LENGTH
  <1>3. CutAt(top - 4112, THREAD) = top - 4256
    BY <1>1, KheapBounds DEF CutAt, THREAD
  <1>4. /\ top' = top - 4256 /\ stores' = {FreeHeader, [from |-> top', to |-> top]}
        /\ boot' = "up" /\ UNCHANGED <<gdtr, idtr, pic>>
        /\ inUse' = [inUse EXCEPT !["stack"] = @ \cup {Span(top - 4112 + 16, STACK_LENGTH)}]
    BY <1>2, <1>3 DEF fork_thread, Then, Writes
  <1>5. UseInv'
    BY <1>1, <1>4 DEF UseInv, BeforeGdt, BeforePaging, BeforeIdt, Ended, Parts
  <1>6. TablesInv' /\ HeapInv'
    BY <1>1, <1>4 DEF TablesInv, HeapInv, HeapLabels
  <1>7. Kept
    <2> SUFFICES ASSUME NEW s \in stores' PROVE \A p \in Parts : \A u \in inUse[p] : Apart(s, u)
      BY DEF Kept
    <2>1. Apart(s, Span(stack, STACK_LENGTH))
      BY <1>1, <1>4, KheapBounds DEF Apart, FreeHeader, Span, STACK_LENGTH
    <2>2. CASE s = FreeHeader
      BY <1>1, <2>1, <2>2, TheFreeHeader, ApartFromAll DEF Ended
    <2>3. CASE s = [from |-> top', to |-> top]
      <3>1. s.from \in Int /\ s.to \in Int /\ s.from <= s.to /\ 3182592 <= s.from /\ s.to <= 5263360
        BY <1>1, <1>4, <2>3, KheapBounds
      <3> QED BY <1>1, <2>1, <3>1, BetweenTables, ApartFromAll DEF Ended
    <2> QED BY <1>4, <2>2, <2>3
  <1> QED BY <1>5, <1>6, <1>7

\* A tick stores nothing, and at most leads astray.
LEMMA StepTick ==
    ASSUME BootInv, timer_handler PROVE BootInv' /\ Kept
  <1> USE DEF BootInv
  <1>1. CASE boot' = boot
    BY <1>1 DEF timer_handler, Writes, NoMemory, heapEnd, machine, UseInv, HeapInv, TablesInv,
           Given, Kept
  <1>2. CASE boot' = "astray"
    BY <1>2 DEF timer_handler, Writes, NoMemory, heapEnd, machine, UseInv, HeapInv, TablesInv,
           Given, HeapLabels, BeforeGdt, BeforePaging, BeforeIdt, Ended, Kept
  <1> QED BY <1>1, <1>2 DEF timer_handler

\* An exception stores nothing.
LEMMA StepExcepts ==
    ASSUME BootInv, Excepts PROVE BootInv' /\ Kept
  BY DEF BootInv, Excepts, Writes, NoMemory, heapEnd, UseInv, HeapInv, TablesInv, Given,
         HeapLabels, BeforeGdt, BeforePaging, BeforeIdt, Ended, Kept

-----------------------------------------------------------------------------
(* The start, as a whole *)

\* entry_point begins with nothing but the image in memory, and interrupts masked.
LEMMA BootBegins ==
    ASSUME BootInit PROVE BootInv
  BY DEF BootInit, BootInv, UseInv, HeapInv, TablesInv, HeapLabels, Parts

\* Every step of the machine keeps the invariant of the start, and stores only
\* where nothing is in use.
LEMMA BootStep ==
    ASSUME BootInv, [KernelNext]_kernelVars
    PROVE  BootInv' /\ (UNCHANGED bootVars \/ Kept)
  <1>1. CASE UNCHANGED bootVars
    BY <1>1 DEF BootInv, UseInv, HeapInv, TablesInv, Given, bootVars, machine, heapEnd
  <1>2. CASE Starts
    BY <1>2, StepBss, StepElsewhere, StepSerial, StepGdt, StepPaging, StepIdt, StepPic, StepPaint,
       StepHeap, StepAhci, StepCheckAhci, StepCreate, StepFirst, StepPipe, StepFork DEF Starts
  <1>3. CASE timer_handler
    BY <1>3, StepTick
  <1>4. CASE Excepts
    BY <1>4, StepExcepts
  <1>5. CASE UefiMain_paints
    BY <1>5, StepPaint
  <1>6. UNCHANGED bootVars \/ UefiMain_paints \/ Starts \/ timer_handler \/ Excepts
    BY DEF KernelNext, kernelVars, Loading, FirmwareRuns, Starting, TickWhileStarting, TickWhenUp,
           KeyComes, Stands, KeyShown, InitRuns
  <1> QED BY <1>1, <1>2, <1>3, <1>4, <1>5, <1>6

\* What is in use while entry_point runs, and what of the heap is given away.
THEOREM BootInvariant == KernelSpec => []BootInv
  <1>1. KernelInit => BootInv
    BY BootBegins DEF KernelInit
  <1>2. BootInv /\ [KernelNext]_kernelVars => BootInv'
    BY BootStep
  <1> QED BY <1>1, <1>2, PTL DEF KernelSpec

\* No store of the start lies in the image, a table or a stack in use, although
\* the page tables lie where the heap is (init_kpaging, init_kheap, ahci_init,
\* check_ahci, create_thread, fork_thread), wherever the image ends below 2 MB.
THEOREM StoresKeepTables == KernelSpec => TablesKept
  <1>1. BootInv /\ [KernelNext]_kernelVars
           => [\A s \in stores' : \A p \in Parts : \A u \in inUse[p] : Apart(s, u)]_bootVars
    BY BootStep DEF Kept
  <1> QED BY <1>1, BootInvariant, PTL DEF KernelSpec, TablesKept

\* Interrupts that come find their gate, although init_serial and init_gdt open
\* them before there is one (init_serial, init_gdt, init_idt, init_pic).
THEOREM InterruptsDeliverable == KernelSpec => []Deliverable
  <1>1. BootInv => Deliverable
    BY DEF BootInv, TablesInv, Deliverable, gate, Exceptions
  <1> QED BY <1>1, BootInvariant, PTL

-----------------------------------------------------------------------------
(* The loader *)

\* The size handed to GetMemoryMap is that of the block, or less, whenever
\* there is a block; it is more only on the way to AllocatePool.
LoaderInv ==
    /\ needed \in Nat /\ mmapsize \in Nat /\ pool \in Nat /\ held \in Nat
    /\ held <= pool
    /\ at_loader # "AllocatePool" /\ pool # 0 => mmapsize <= pool

\* Every call of UefiMain, and the firmware in between, keeps it.
LEMMA LoaderStep ==
    ASSUME LoaderInv, [KernelNext]_kernelVars PROVE LoaderInv'
  <1> USE SpareAssumption, MapAssumption DEF LoaderInv
  <1>1. CASE UNCHANGED loaderVars
    BY <1>1 DEF loaderVars
  <1>2. CASE FirmwareAllocates
    BY <1>2 DEF FirmwareAllocates
  <1>3. CASE GetMemoryMap
    BY <1>3 DEF GetMemoryMap
  <1>4. CASE AllocatePool
    BY <1>4 DEF AllocatePool
  <1>5. CASE ExitBootServices
    BY <1>5 DEF ExitBootServices, Forgotten, theMap
  <1>6. CASE \/ LocateGop \/ LocateSfsp \/ OpenVolume \/ OpenFile \/ GetInfo \/ ReadKernel
             \/ CopyKernel
    BY <1>6 DEF LocateGop, LocateSfsp, OpenVolume, OpenFile, GetInfo, ReadKernel, CopyKernel,
                Gets, theMap
  <1>7. UNCHANGED loaderVars \/ FirmwareAllocates \/ Loads
    BY DEF KernelNext, kernelVars, Loading, FirmwareRuns, Starting, TickWhileStarting, TickWhenUp,
           KeyComes, Stands, KeyShown, InitRuns, Excepts
  <1> QED BY <1>1, <1>2, <1>3, <1>4, <1>5, <1>6, <1>7 DEF Loads

\* The firmware never writes more of the map than there is room for, however
\* often it grows between the calls of the two loops (UefiMain).
THEOREM MapAlwaysFits == KernelSpec => []MapFitsPool
  <1>1. KernelInit => LoaderInv
    <2>1. KernelInit => needed = 1 /\ mmapsize = 0 /\ pool = 0 /\ held = 0
      BY Zenon DEF KernelInit, LoaderInit
    <2> QED BY <2>1 DEF LoaderInv
  <1>2. LoaderInv /\ [KernelNext]_kernelVars => LoaderInv'
    BY LoaderStep
  <1>3. LoaderInv => MapFitsPool
    BY DEF LoaderInv, MapFitsPool
  <1> QED BY <1>1, <1>2, <1>3, PTL DEF KernelSpec

-----------------------------------------------------------------------------
(* The screen *)

\* The kernel turns the mode or takes it as it is; before init_graphics no dot
\* lies inside.
ScreenInv ==
    /\ mode \in Modes
    /\ x_ichi \in Int /\ y_ichi \in Int
    /\ \A dot \in cells : dot[1] \in Int /\ dot[2] \in Int
    /\ \/ vinfo_g.x_axis = 0
       \/ gpd = 0 /\ vinfo_g = [x_axis |-> mode.hor, y_axis |-> mode.ver, ppsl |-> mode.ppsl]
       \/ gpd = 1 /\ vinfo_g = [x_axis |-> mode.ver, y_axis |-> mode.hor, ppsl |-> mode.ppsl]

\* An index made from a column and a line gives back both: there are no more
\* columns than dots in a line, and no more dots than the word counts.
LEMMA IndexOfDot ==
    ASSUME NEW hor \in Nat, NEW ver \in Nat, NEW p \in Nat, hor <= p, p * ver < Word,
           NEW c \in Int, 0 <= c, c < hor, NEW r \in Int, 0 <= r, r < ver
    PROVE  LET i == (c + r * p) % Word IN i % p < hor /\ i \div p < ver
  <1> DEFINE n == c + r * p
  <1>1. p * (r + 1) <= p * ver
    BY SMT
  <1>2. r * p \in Nat /\ r * p + p = p * (r + 1)
    BY SMT
  <1>3. n \in Nat /\ n < Word
    BY <1>1, <1>2, WordAssumption
  <1>4. n % Word = n
    BY <1>3, WordAssumption
  <1>5. n % p = c /\ n \div p = r
    BY SMT
  <1> QED BY <1>4, <1>5

\* A string has a number of cells with integer corners.
LEMMA StringCells ==
    ASSUME NEW x \in Int, NEW y \in Int, NEW n \in Nat, NEW dot \in printstr(x, y, n)
    PROVE  dot[1] \in Int /\ dot[2] \in Int
  BY WordAssumption DEF printstr

\* Whatever prints, the machine keeps how the mode was turned.
LEMMA ScreenStep ==
    ASSUME ScreenInv, [KernelNext]_kernelVars PROVE ScreenInv'
  <1>1. CASE UNCHANGED screenVars
    BY <1>1 DEF ScreenInv, screenVars, screen, cursor, keyboard
  <1>2. CASE NothingShown
    BY <1>2 DEF ScreenInv, NothingShown, screen, cursor
  <1>3. CASE init_graphics
    BY <1>3 DEF ScreenInv, init_graphics, cursor
  <1>4. CASE print_title
    BY <1>4, StringCells DEF ScreenInv, print_title, screen, cursor
  <1>5. CASE com_handler(Here)
    BY <1>5 DEF ScreenInv, com_handler, screen, cursor
  <1>6. CASE \E s \in Threads : com_handler_shows(s)
    <2> PICK s \in Threads : com_handler_shows(s)
      BY <1>6
    <2>1. x_ichi' \in Int /\ y_ichi' \in Int
      BY WordAssumption DEF com_handler_shows, ScreenInv
    <2>2. \/ cells' = {}
          \/ cells' = printstr(50 + x_ichi, 50 + y_ichi, 1)
          \/ cells' = printstr(50 + x_ichi', 50 + y_ichi, 1)
      BY DEF com_handler_shows
    <2>3. \A dot \in cells' : dot[1] \in Int /\ dot[2] \in Int
      BY <2>1, <2>2, StringCells DEF ScreenInv
    <2>4. UNCHANGED screen
      BY DEF com_handler_shows
    <2> QED BY <2>1, <2>3, <2>4 DEF ScreenInv, screen
  <1>7. CASE \E v \in Faulting : exception_handler(v)
    <2>1. \A dot \in Lines : dot[1] \in Int /\ dot[2] \in Int
      <3> SUFFICES ASSUME NEW dot \in Lines PROVE dot[1] \in Int /\ dot[2] \in Int
        OBVIOUS
      <3>1. PICK i \in 0..5 : dot \in printstrnum(100, 100 + 16 * i, 12)
        BY DEF Lines
      <3>2. \/ dot \in printstr(100, 100 + 16 * i, 12)
          \/ dot \in printstr(100 + 8 * 12, 100 + 16 * i, 18)
        BY <3>1 DEF printstrnum
      <3> QED BY <3>2, StringCells
    <2>2. PICK n \in {3, 4} : cells' = Lines \cup printstr(100, 84, n)
      BY <1>7 DEF exception_handler, faults_to_7, faults_to_14, faults_to_19
    <2>3. \A dot \in cells' : dot[1] \in Int /\ dot[2] \in Int
      BY <2>1, <2>2, StringCells
    <2>4. UNCHANGED <<screen, cursor>>
      BY <1>7 DEF exception_handler
    <2> QED BY <2>3, <2>4 DEF ScreenInv, screen, cursor
  <1>8. \/ UNCHANGED screenVars \/ NothingShown \/ init_graphics \/ print_title
        \/ com_handler(Here) \/ (\E s \in Threads : com_handler_shows(s))
        \/ (\E v \in Faulting : exception_handler(v))
    BY DEF KernelNext, kernelVars, Loading, FirmwareRuns, Starting, TickWhileStarting, TickWhenUp,
           KeyComes, Stands, KeyShown, InitRuns, Excepts
  <1> QED BY <1>1, <1>2, <1>3, <1>4, <1>5, <1>6, <1>7, <1>8

\* The test in draw_dot is enough: a dot inside the turned screen has its place
\* in the frame buffer of the mode.
LEMMA DotOnScreen ==
    ASSUME ScreenInv, NEW x \in 0..(Word - 1), NEW y \in 0..(Word - 1), NEW i \in draw_dot(x, y)
    PROVE  i % mode.ppsl < mode.hor /\ i \div mode.ppsl < mode.ver
  <1>1. /\ mode.hor \in Nat /\ mode.ver \in Nat /\ mode.ppsl \in Nat
        /\ mode.hor <= mode.ppsl /\ mode.ppsl * mode.ver < Word
    BY ModesAssumption DEF ScreenInv
  <1>2. x < vinfo_g.x_axis /\ y < vinfo_g.y_axis
    BY DEF draw_dot
  <1>3. x \in Int /\ y \in Int /\ 0 <= x /\ 0 <= y
    BY WordAssumption
  <1>4. vinfo_g.x_axis # 0
    BY <1>2, <1>3
  <1>5. CASE gpd = 0 /\ vinfo_g = [x_axis |-> mode.hor, y_axis |-> mode.ver, ppsl |-> mode.ppsl]
    <2>1. i = (x + y * mode.ppsl) % Word /\ x < mode.hor /\ y < mode.ver
      BY <1>2, <1>5 DEF draw_dot
    <2> QED BY <1>1, <1>3, <2>1, IndexOfDot
  <1>6. CASE gpd = 1 /\ vinfo_g = [x_axis |-> mode.ver, y_axis |-> mode.hor, ppsl |-> mode.ppsl]
    <2>1. i = (mode.hor - y - 1 + x * mode.ppsl) % Word /\ x < mode.ver /\ y < mode.hor
      BY <1>2, <1>6 DEF draw_dot
    <2>2. mode.hor - y - 1 \in Int /\ 0 <= mode.hor - y - 1 /\ mode.hor - y - 1 < mode.hor
      BY <1>1, <1>3, <2>1
    <2> QED BY <1>1, <1>3, <2>1, <2>2, IndexOfDot
  <1> QED BY <1>4, <1>5, <1>6 DEF ScreenInv

\* Every dot that is drawn, of the title, of what is typed and of an exception's
\* message, is a dot of the screen, in every mode and wherever the cursor is
\* (init_graphics, draw_dot, printchar, com_handler).
THEOREM EveryDotInFrame == KernelSpec => []DotsInFrame
  <1>1. KernelInit => ScreenInv
    BY DEF KernelInit, ScreenInit, ScreenInv
  <1>2. ScreenInv /\ [KernelNext]_kernelVars => ScreenInv'
    BY ScreenStep
  <1>3. ScreenInv => DotsInFrame
    <2> SUFFICES ASSUME ScreenInv, NEW dot \in cells, NEW i \in printchar(dot)
                 PROVE  i % mode.ppsl < mode.hor /\ i \div mode.ppsl < mode.ver
      BY DEF DotsInFrame
    <2>1. PICK a \in 0..15, b \in 0..7 :
              i \in draw_dot((dot[1] + b) % Word, (dot[2] + a) % Word)
      BY DEF printchar
    <2>2. (dot[1] + b) % Word \in 0..(Word - 1) /\ (dot[2] + a) % Word \in 0..(Word - 1)
      BY WordAssumption DEF ScreenInv
    <2> QED BY <2>1, <2>2, DotOnScreen
  <1> QED BY <1>1, <1>2, <1>3, PTL DEF KernelSpec

-----------------------------------------------------------------------------
(* The pipe between the two threads of init *)

Writing == {"pwrite", "send", "write_front", "write_back", "written"}
Past == {"signalp", "signal", "halt"}
Receiving == {"read_front", "read_back", "read"}
Reading == {"pread", "receive", "receive_OK"} \cup Receiving
Places == InFork \cup Writing \cup Past \cup {"waitp", "wait", "waiting"} \cup Reading
InWait == {"wait_state", "wait_sid_ptr", "wait_enqueue", "wait_yield", "wait_return"}
InSignal == {"signal_state", "signal_yield"}

Whole(b) == b["front"] = TRUE /\ b["back"] = TRUE

PipeTypes ==
    /\ cur \in Threads /\ state \in [Threads -> {"RUNNABLE", "WAIT"}]
    /\ at \in [Threads -> Places] /\ pc \in [Threads -> {"idle"} \cup InWait \cup InSignal]
    /\ pstate \in {"EMPTY", "SENDING", "EXIST", "RECEIVING"}
    /\ buffer \in [Halves -> BOOLEAN] /\ buf \in [Threads -> [Halves -> BOOLEAN]]

\* Who is in wait or signal is so on behalf of waitp or signalp.
CallsOfPipe(t) == /\ at[t] = "waiting" <=> pc[t] \in InWait
                  /\ pc[t] \in InSignal => at[t] = "halt"

\* Neither buffer is ever made emptier, so that what was written or read is there.
BufferFills(t) == /\ at[t] = "write_back" => buffer["front"] = TRUE
                  /\ at[t] = "written" => Whole(buffer)
                  /\ at[t] = "read_back" => buf[t]["front"] = TRUE
                  /\ at[t] \in {"read", "receive_OK"} => Whole(buf[t])

\* Thread t reads, or has been woken to read, only when the other, u, is past
\* its writing; and whatever t does after that leaves what u needs to wake it.
ReadsAfter(t, u) ==
    /\ at[t] \in Reading => at[u] \in Past
    /\ at[t] \in {"pread", "receive"} => pstate = "EXIST"
    /\ at[t] \in Receiving => pstate = "RECEIVING"
    /\ at[t] = "waiting" /\ pc[t] # "wait_state" /\ state[t] = "RUNNABLE" =>
          pstate = "EXIST" /\ at[u] \in Past
    /\ at[t] = "signal" \/ pc[t] = "signal_state" =>
          pstate = "EXIST" \/ at[u] \in Reading \cup Writing \cup Past

\* What pstate tells of the two threads and of the buffer.
StateOfPipe(t, u) ==
    /\ pstate = "EXIST" => at[t] \in Past \/ at[u] \in Past
    /\ pstate = "RECEIVING" => at[t] \in Receiving \/ at[u] \in Receiving
    /\ pstate \in {"EXIST", "RECEIVING"} => Whole(buffer)

\* The invariant, of two threads whichever of them is the parent: so that it
\* does not matter which part each has taken itself for.
PipeInv(t, u) ==
    /\ PipeTypes
    /\ ~lost /\ pc[cur] = "wait_return" => state[cur] = "RUNNABLE"
    /\ \A x \in {t, u} : CallsOfPipe(x) /\ BufferFills(x)
    /\ ReadsAfter(t, u) /\ ReadsAfter(u, t) /\ StateOfPipe(t, u)

\* What a thread does in fork_thread and init, before it takes its part, leaves
\* the pipe alone.
LEMMA PipeForks ==
    ASSUME NEW t \in Threads, NEW u \in Threads, t # u, PipeInv(t, u), Forks(t)
    PROVE  PipeInv(t, u)'
  <1>1. /\ at[t] \in InFork /\ at' = [at EXCEPT ![t] = at'[t]]
        /\ at'[t] \in InFork \cup {"pwrite", "waitp"}
        /\ UNCHANGED <<state, cur, lost, pc, pstate, buffer, buf>>
    BY DEF Forks, fork_gets_tid, fork_gets_thread, fork_asks, fork_in_child, fork_in_parent,
           fork_returns_ctid, init_gets_tid, init_branches, Assign, Branch, From, Unforked, vars,
           InFork, PipeInv, PipeTypes
  <1>2. PipeTypes'
    BY <1>1 DEF PipeInv, PipeTypes, Places, Writing
  <1>3. \A x \in {t, u} : (CallsOfPipe(x) /\ BufferFills(x))'
    BY <1>1 DEF PipeInv, PipeTypes, CallsOfPipe, BufferFills, InFork
  <1>4. (ReadsAfter(t, u) /\ ReadsAfter(u, t))'
    BY <1>1 DEF PipeInv, PipeTypes, ReadsAfter, CallsOfPipe, InFork, InSignal, Past, Reading,
           Receiving, Writing
  <1>5. StateOfPipe(t, u)'
    BY <1>1 DEF PipeInv, PipeTypes, StateOfPipe, InFork, Past, Receiving
  <1> QED BY <1>1, <1>2, <1>3, <1>4, <1>5 DEF PipeInv

\* The timer changes only who has the processor, and gives it to a RUNNABLE
\* thread.
LEMMA PipePreempt ==
    ASSUME NEW t \in Threads, NEW u \in Threads, PipeInv(t, u), Timer
    PROVE  PipeInv(t, u)'
  <1>1. cur' \in Threads /\ (~lost' => state[cur'] = "RUNNABLE")
    BY DEF Timer, Preempt, thread_scheduler, Runnable, PipeInv, PipeTypes
  <1> QED BY <1>1 DEF Timer, Preempt, pipe, PipeInv, PipeTypes, CallsOfPipe, BufferFills,
                  ReadsAfter, StateOfPipe

\* Every step of pwrite, and signalp, which comes after it, keeps the invariant:
\* a thread writes only while the pipe is empty.
LEMMA PipeWrites ==
    ASSUME NEW t \in Threads, NEW u \in Threads, t # u, PipeInv(t, u),
           pwrite(t) \/ pwrite_sending(t) \/ pwrite_copies(t) \/ pwrite_exist(t) \/ signalp(t)
    PROVE  PipeInv(t, u)'
  <1>1. CASE pwrite(t)
    BY <1>1 DEF PipeInv, PipeTypes, CallsOfPipe, BufferFills, ReadsAfter, StateOfPipe,
           pwrite, Step, From, At, vars, Places, InFork, InWait, InSignal, Writing, Past, Reading,
           Receiving, Whole, Copied, Message, Halves
  <1>2. CASE pwrite_sending(t)
    BY <1>2 DEF PipeInv, PipeTypes, CallsOfPipe, BufferFills, ReadsAfter, StateOfPipe,
           pwrite_sending, Step, From, At, vars, Places, InFork, InWait, InSignal, Writing, Past,
           Reading, Receiving, Whole, Copied, Message, Halves
  <1>3. CASE pwrite_copies(t)
    <2>1. /\ buffer' \in [Halves -> BOOLEAN]
          /\ \A h \in Halves : buffer[h] = TRUE => buffer'[h] = TRUE
          /\ \/ at[t] = "write_front" /\ at' = [at EXCEPT ![t] = "write_back"] /\ buffer'["front"] = TRUE
             \/ at[t] = "write_back" /\ at' = [at EXCEPT ![t] = "written"] /\ buffer'["back"] = TRUE
          /\ UNCHANGED <<vars, pstate, buf>> /\ At(t, "idle")
      <3>1. at \in [Threads -> Places] /\ buffer \in [Halves -> BOOLEAN]
        BY DEF PipeInv, PipeTypes
      <3>2. UNCHANGED <<vars, pstate, buf>> /\ At(t, "idle")
        BY <1>3 DEF pwrite_copies, Step
      <3>3. CASE at[t] = "write_front"
        <4>1. buffer' = [buffer EXCEPT !["front"] = TRUE] /\ at' = [at EXCEPT ![t] = "write_back"]
          BY <1>3, <3>3 DEF pwrite_copies, Step, From, Copied, Message, Halves
        <4> QED BY <3>1, <3>2, <3>3, <4>1 DEF Halves
      <3>4. CASE at[t] = "write_back"
        <4>1. buffer' = [buffer EXCEPT !["back"] = TRUE] /\ at' = [at EXCEPT ![t] = "written"]
          BY <1>3, <3>4 DEF pwrite_copies, Step, From, Copied, Message, Halves
        <4> QED BY <3>1, <3>2, <3>4, <4>1 DEF Halves
      <3> QED BY <1>3, <3>3, <3>4 DEF pwrite_copies, Step, From
    <2>2. PipeTypes'
      BY <2>1 DEF PipeInv, PipeTypes, vars, Places, Writing
    <2> QED
      BY <2>1, <2>2 DEF PipeInv, PipeTypes, CallsOfPipe, BufferFills, ReadsAfter, StateOfPipe,
             At, vars, Places, InFork, InWait, InSignal, Writing, Past, Reading, Receiving,
             Whole, Halves
  <1>4. CASE pwrite_exist(t)
    BY <1>4 DEF PipeInv, PipeTypes, CallsOfPipe, BufferFills, ReadsAfter, StateOfPipe,
           pwrite_exist, Step, From, At, vars, Places, InFork, InWait, InSignal, Writing, Past,
           Reading, Receiving, Whole, Copied, Message, Halves
  <1>5. CASE signalp(t)
    BY <1>5 DEF PipeInv, PipeTypes, CallsOfPipe, BufferFills, ReadsAfter, StateOfPipe,
           signalp, Step, From, At, vars, Places, InFork, InWait, InSignal, Writing, Past,
           Reading, Receiving, Whole, Copied, Message, Halves
  <1> QED BY <1>1, <1>2, <1>3, <1>4, <1>5

\* waitp and every step of pread keep the invariant: what is copied is whole,
\* because the other thread is past its writing.
LEMMA PipeReads ==
    ASSUME NEW t \in Threads, NEW u \in Threads, t # u, PipeInv(t, u),
           waitp(t) \/ pread(t) \/ pread_receiving(t) \/ pread_copies(t) \/ pread_empty(t)
    PROVE  PipeInv(t, u)'
  <1>1. CASE waitp(t)
    BY <1>1 DEF PipeInv, PipeTypes, CallsOfPipe, BufferFills, ReadsAfter, StateOfPipe,
           waitp, Step, From, At, vars, Places, InFork, InWait, InSignal, Writing, Past, Reading,
           Receiving, Whole, Copied, Halves
  <1>2. CASE pread(t)
    BY <1>2 DEF PipeInv, PipeTypes, CallsOfPipe, BufferFills, ReadsAfter, StateOfPipe,
           pread, Step, From, At, vars, Places, InFork, InWait, InSignal, Writing, Past, Reading,
           Receiving, Whole, Copied, Halves
  <1>3. CASE pread_receiving(t)
    BY <1>3 DEF PipeInv, PipeTypes, CallsOfPipe, BufferFills, ReadsAfter, StateOfPipe,
           pread_receiving, Step, From, At, vars, Places, InFork, InWait, InSignal, Writing,
           Past, Reading,
           Receiving, Whole, Copied, Halves
  <1>4. CASE pread_copies(t)
    <2>0. /\ at \in [Threads -> Places] /\ buf \in [Threads -> [Halves -> BOOLEAN]]
          /\ at[t] \in {"read_front", "read_back"} /\ UNCHANGED <<vars, pstate, buffer>>
      BY <1>4 DEF PipeInv, PipeTypes, pread_copies, Step, From
    <2>a. Whole(buffer)
      BY <2>0 DEF PipeInv, ReadsAfter, StateOfPipe, Receiving
    <2>1. CASE at[t] = "read_front"
      <3>1. /\ buf' = [buf EXCEPT ![t] = [buf[t] EXCEPT !["front"] = TRUE]]
            /\ at' = [at EXCEPT ![t] = "read_back"]
        BY <1>4, <2>1, <2>a DEF pread_copies, Step, From, Copied, Whole
      <3>2. /\ buf' \in [Threads -> [Halves -> BOOLEAN]] /\ buf'[t]["front"] = TRUE
            /\ buf'[u] = buf[u]
        BY <2>0, <3>1 DEF Halves
      <3> QED
        BY SMTT(30), <2>0, <2>1, <3>1, <3>2 DEF PipeInv, PipeTypes, CallsOfPipe, BufferFills,
           ReadsAfter, StateOfPipe, vars, Places, InFork, InWait, InSignal, Writing, Past, Reading,
           Receiving, Whole
    <2>2. CASE at[t] = "read_back"
      <3>1. /\ buf' = [buf EXCEPT ![t] = [buf[t] EXCEPT !["back"] = TRUE]]
            /\ at' = [at EXCEPT ![t] = "read"]
        BY <1>4, <2>2, <2>a DEF pread_copies, Step, From, Copied, Whole
      <3>2. buf' \in [Threads -> [Halves -> BOOLEAN]] /\ Whole(buf'[t]) /\ buf'[u] = buf[u]
        BY <2>0, <2>2, <3>1 DEF Halves, Whole, PipeInv, BufferFills
      <3> QED
        BY SMTT(30), <2>0, <2>2, <3>1, <3>2 DEF PipeInv, PipeTypes, CallsOfPipe, BufferFills,
           ReadsAfter, StateOfPipe, vars, Places, InFork, InWait, InSignal, Writing, Past, Reading,
           Receiving, Whole
    <2> QED BY <2>0, <2>1, <2>2
  <1>5. CASE pread_empty(t)
    BY <1>5 DEF PipeInv, PipeTypes, CallsOfPipe, BufferFills, ReadsAfter, StateOfPipe,
           pread_empty, Step, From, At, vars, Places, InFork, InWait, InSignal, Writing, Past,
           Reading, Receiving, Whole, Copied, Halves
  <1> QED BY <1>1, <1>2, <1>3, <1>4, <1>5

\* Every step of the wait that waitp calls keeps the invariant, until the thread
\* is resumed.
LEMMA PipeWaits ==
    ASSUME NEW t \in Threads, NEW u \in Threads, t # u, PipeInv(t, u),
           \/ waitp_waits(t) \/ waitp_returns(t)
           \/ /\ wait_state(t) \/ wait_sid_ptr(t) \/ wait_enqueue(t) \/ wait_yield(t)
              /\ UNCHANGED pipe
    PROVE  PipeInv(t, u)'
  <1>1. CASE waitp_waits(t)
    BY <1>1 DEF PipeInv, PipeTypes, CallsOfPipe, BufferFills, ReadsAfter, StateOfPipe,
           waitp_waits, wait_blocks, From, At, Goto, Return, Places, InFork, InWait, InSignal,
           Writing, Past, Reading,
           Receiving, Whole, pipe, Ready, locals, table
  <1>2. CASE wait_state(t) /\ UNCHANGED pipe
    BY <1>2 DEF PipeInv, PipeTypes, CallsOfPipe, BufferFills, ReadsAfter, StateOfPipe,
           wait_state, From, At, Goto, Return, Places, InFork, InWait, InSignal, Writing, Past,
           Reading, Receiving, Whole, pipe, Ready, locals, table
  <1>3. CASE wait_sid_ptr(t) /\ UNCHANGED pipe
    BY <1>3 DEF PipeInv, PipeTypes, CallsOfPipe, BufferFills, ReadsAfter, StateOfPipe,
           wait_sid_ptr, From, At, Goto, Return, Places, InFork, InWait, InSignal, Writing, Past,
           Reading, Receiving, Whole, pipe, Ready, locals, table
  <1>4. CASE wait_enqueue(t) /\ UNCHANGED pipe
    BY <1>4 DEF PipeInv, PipeTypes, CallsOfPipe, BufferFills, ReadsAfter, StateOfPipe,
           wait_enqueue, From, At, Goto, Return, Places, InFork, InWait, InSignal, Writing, Past,
           Reading, Receiving, Whole, pipe, Ready, locals, table
  <1>5. CASE wait_yield(t) /\ UNCHANGED pipe
    BY <1>5 DEF PipeInv, PipeTypes, CallsOfPipe, BufferFills, ReadsAfter, StateOfPipe,
           wait_yield, thread_scheduler, Runnable, From, At, Goto, Return, Places, InFork,
           InWait, InSignal, Writing, Past, Reading,
           Receiving, Whole, pipe, Ready, locals, table
  <1>6. CASE waitp_returns(t)
    BY <1>6 DEF PipeInv, PipeTypes, CallsOfPipe, BufferFills, ReadsAfter, StateOfPipe,
           waitp_returns, wait_return, From, At, Goto, Return, Places, InFork, InWait, InSignal,
           Writing, Past, Reading,
           Receiving, Whole, pipe, Ready, locals, table
  <1> QED BY <1>1, <1>2, <1>3, <1>4, <1>5, <1>6

\* Every step of the signal that signalp calls keeps the invariant: no more than
\* the one other thread is woken.
LEMMA PipeSignals ==
    ASSUME NEW t \in Threads, NEW u \in Threads, t # u, PipeInv(t, u),
           \/ signalp_signals(t)
           \/ (signal_state(t) \/ signal_yield(t)) /\ UNCHANGED pipe
    PROVE  PipeInv(t, u)'
  <1>1. CASE signalp_signals(t)
    <2>1. /\ at[t] = "signal" /\ at' = [at EXCEPT ![t] = "halt"] /\ cur = t /\ pc[t] = "idle"
          /\ UNCHANGED <<state, cur, lost, pstate, buffer, buf>>
          /\ pc' = pc \/ pc' = [pc EXCEPT ![t] = "signal_state"]
      BY <1>1 DEF signalp_signals, signal_dequeues, signal_finds_nobody, signal_does_nothing,
             vars, From, At, Ready, Goto
    <2>2. PipeTypes'
      BY <2>1 DEF PipeInv, PipeTypes, Places, Past, InSignal
    <2> QED
      BY <2>1, <2>2 DEF PipeInv, PipeTypes, CallsOfPipe, BufferFills, ReadsAfter, StateOfPipe,
             Places, InFork, InWait, InSignal, Writing, Past, Reading, Receiving, Whole
  <1>2. CASE signal_state(t) /\ UNCHANGED pipe
    <2>1. /\ state' \in [Threads -> {"RUNNABLE", "WAIT"}]
          /\ pc[t] = "signal_state" /\ pc' = [pc EXCEPT ![t] = "signal_yield"] /\ cur = t
          /\ UNCHANGED <<cur, lost, pipe>>
      BY <1>2 DEF signal_state, At, Goto, PipeInv, PipeTypes
    <2>2. at[t] = "halt"
      BY <2>1 DEF PipeInv, CallsOfPipe, InSignal
    <2>3. PipeTypes'
      BY <2>1 DEF PipeInv, PipeTypes, pipe, InSignal
    <2> QED
      BY <2>1, <2>2, <2>3 DEF PipeInv, PipeTypes, CallsOfPipe, BufferFills, ReadsAfter,
             StateOfPipe, pipe, Places, InFork, InWait, InSignal, Writing, Past, Reading, Receiving, Whole
  <1>3. CASE signal_yield(t) /\ UNCHANGED pipe
    BY <1>3 DEF PipeInv, PipeTypes, CallsOfPipe, BufferFills, ReadsAfter, StateOfPipe,
           signal_yield, thread_scheduler, Runnable, From, At, Goto, Return, Places, InFork,
           InWait, InSignal, Writing, Past, Reading,
           Receiving, Whole, pipe, Ready, locals, table
  <1> QED BY <1>1, <1>2, <1>3

\* Whatever one of the two does in init keeps the invariant.
LEMMA PipeRuns ==
    ASSUME NEW t \in Threads, NEW u \in Threads, t # u, PipeInv(t, u), InitRuns(t)
    PROVE  PipeInv(t, u)'
  <1>1. Forks(t) \/ UsesPipe(t)
    BY DEF InitRuns, Runs
  <1> QED BY <1>1, PipeForks, PipeWrites, PipeReads, PipeWaits, PipeSignals DEF UsesPipe

\* Everything else in the kernel leaves the pipe and the two threads alone.
LEMMA PipeStep ==
    ASSUME PipeInv(Parent, Child), [KernelNext]_kernelVars PROVE PipeInv(Parent, Child)'
  <1>1. Parent \in Threads /\ Child \in Threads /\ Parent # Child
    BY ForkAssumption
  <1>2. PipeInv(Parent, Child) <=> PipeInv(Child, Parent)
    BY DEF PipeInv, StateOfPipe
  <1>3. PipeInv(Parent, Child)' <=> PipeInv(Child, Parent)'
    BY DEF PipeInv, StateOfPipe
  <1>4. CASE UNCHANGED initVars
    BY <1>4 DEF initVars, vars, pipe, PipeInv, PipeTypes, CallsOfPipe, BufferFills, ReadsAfter,
           StateOfPipe
  <1>5. CASE Timer
    BY <1>1, <1>5, PipePreempt
  <1>6. CASE InitRuns(Parent)
    BY <1>1, <1>6, PipeRuns
  <1>7. CASE InitRuns(Child)
    BY <1>1, <1>2, <1>3, <1>7, PipeRuns
  <1>8. UNCHANGED initVars \/ Timer \/ InitRuns(Parent) \/ InitRuns(Child)
    BY DEF KernelNext, kernelVars, Loading, FirmwareRuns, Starting, TickWhileStarting, TickWhenUp,
           KeyComes, KeyShown, Excepts, Stands
  <1> QED BY <1>4, <1>5, <1>6, <1>7, <1>8

\* Who prints "receive_OK" has the whole message, although neither pread,
\* pwrite, waitp nor signalp closes the interrupts, do_parent never looks at
\* what pread returned, and the fork may have mixed up who is who (do_parent,
\* do_child, pipe.c).
THEOREM ReadsWholeMessage == KernelSpec => []ReceiveOK
  <1>1. KernelInit => PipeInv(Parent, Child)
    BY ForkAssumption
       DEF KernelInit, InitThreadInit, PipeInit, PipeInv, PipeTypes, CallsOfPipe, BufferFills,
           ReadsAfter, StateOfPipe, Places, InFork, InWait, InSignal, Writing, Past, Reading,
           Receiving
  <1>2. PipeInv(Parent, Child) /\ [KernelNext]_kernelVars => PipeInv(Parent, Child)'
    BY PipeStep
  <1>3. PipeInv(Parent, Child) => ReceiveOK
    BY ForkAssumption DEF PipeInv, PipeTypes, BufferFills, ReceiveOK, Whole, Message, Halves
  <1> QED BY <1>1, <1>2, <1>3, PTL DEF KernelSpec
=============================================================================

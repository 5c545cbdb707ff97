# A verification development for minOSv2

minOSv2 is a small x86-64 operating system: a UEFI boot loader that loads a
kernel with preemptive round-robin threads, counting semaphores, a pipe between
a thread and its fork, a first-fit heap, an AHCI disk driver and an ext2 reader.
There is one processor and one address space. Its difficulty is in the timer
interrupt, which may take the processor from a thread between any two
instructions unless the interrupts are closed, and in how long they stay closed:
`get_cur_thread_tid` and every serial print end in `sti`, whatever their caller
had closed before.

This directory holds TLA+ modules that model that code, TLC configurations that
check them on small instances, and proofs for every instance, checked by TLAPS.
Paths below are relative to `src/`; unless a directory is given, to
`src/kernel/`.

## 1. Inventory

| Component | State | Operations | Interacts with | Hard part |
|---|---|---|---|---|
| Scheduler (`task.c`, `task_asm.S`, `int_handler.c`) | `threads[]`, `cur_thread_index`, saved `rsp`s, `tick`, `previous_interrupt` | `timer_handler`, `thread_scheduler`, `switch_context` | called by the timer, `wait`, `signal`, `thread_exec` | a second switch inside the trace window of a first; an endless search with the interrupts closed |
| Thread table (`task.c`) | `threads[]`, `tid_index_dict[]`, `tid_global`, the `ctid` lists | `create_thread`, `fork_thread`, `thread_end`, tid look-up | scheduler, heap, semaphores | look-then-take of slots and tids; a thread that runs before it has a tid; the shared frame after a fork |
| Semaphores (`semaphore.c`) | `semtable[]`: state, count, waiting queue | `create_sem`, `wait`, `signal`, `delete_sem` | scheduler; used by pipes and threads | every statement after the first `sti` can be parted from the next |
| Ring buffers (`semaphore.c`, `util.c`) | array, `head`, `num` | enqueue, dequeue, flush; `enqueue_str`, `dequeue_str` | semaphores, console | wrap-around, full and empty; a string that does not fit; zeros that are skipped |
| Pipe (`stdcall/pipe.c`, `kernel.c`) | `pstate`, the buffer, one semaphore | `gen_pipe`, `pwrite`, `pread`, `waitp`, `signalp` | semaphores, fork | look-then-wait; reading what is half written |
| Heap (`mm.c`) | free list in the memory it manages, `freep` | `init_kheap`, `kmalloc`, `kmalloc_alignas`, `kfree` | everything | order and merging; sizes; no protection between threads |
| AHCI driver (`device/ahci.c`) | controller registers, one command table, command lists | `ahci_init`, `ahci_read`, `ahci_write`, `ahci_read_byte` | the controller, the drives, heap | polling for a device; a reset that undoes what is written; slots that share a table |
| PCI (`device/pci.c`) | the base address found | bus walk | AHCI | what is read of a function that does not answer |
| ext2 (`fs/ext2.c`) | super block, group descriptor, table of inodes | `check_ext2` and what it calls | AHCI, heap | index arithmetic over blocks of any size |
| Boot loader (`boot/src/MinLoader.c`) | memory map, its size and key | load, exit boot services | firmware, kernel | the map changes while it is fetched |
| Tables: paging, segments, interrupts (`mm.c`, `interrupt.c`, `mm_asm.S`) | page tables, GDT, IDT at fixed addresses | written once, in `entry_point` | processor, heap | they lie in memory that is given away as well |
| Interrupt controller, exceptions (`int_handler.c`) | vectors and masks of the PIC, `tick`, `key` | `init_pic`, `timer_handler`, `com_handler`, exception handlers | everything | the interrupts are open before anything is ready for them |
| Screen (`graphics.c`, `fonts.h`) | the mode, whether it is turned, the cursor | dots, characters, strings, numbers | boot, handlers | the cursor moves in a handler that is interrupted; a turned screen |
| Serial port (`device/serial.c`) | device ports | polled output, received byte | everything that prints | each print ends in `sti` |
| Console, user programs (`app/`) | — | not linked, or never started | — | — |

What makes each correct:

- *Scheduler*: a thread off the processor has its own context saved; it goes on
  where it stopped; the search ends; nobody RUNNABLE is passed over for ever.
- *Semaphores*: whoever is in a waiting queue sleeps there, once; each sleep is
  ended by one signal; a semaphore created with 1 is a lock, handed on in order.
- *Rings*: a bounded first-in first-out queue; a string that has gone in whole comes
  out whole and in its turn.
- *Pipe*: a reader gets a whole message or waits; it is served once it waits.
- *Fork*: parent and child are told apart.
- *Heap*: every unit in exactly one block; free list ordered and merged; refusal
  only when no room.
- *Thread table*: a registered thread keeps its slot, and its tid finds it there;
  the processor is where `cur_thread_index` says; `fork_thread` answers with the
  child it made.
- *AHCI*: what the controller can fetch is one whole command; a call returns when
  exactly what was asked for has been moved, and it returns; `ahci_init` comes to its
  end and leaves every port ready.
- *PCI*: the base address found is that of a controller that is there.
- *ext2*: the table of inodes in memory is the one on the disk, entry by entry.
- *Boot loader*: the memory map never outgrows the block it is written to; the
  loops end.
- *Tables*: nothing that is stored while the kernel starts lies in what the processor
  uses.
- *Interrupts*: none can come before its gate is there; the start is over before the
  timer looks for a thread to switch to.
- *Screen*: nothing is drawn outside it.

`PROJECT.json` lists every hazard at its line, with the properties that guard
against it, or why there is none yet.

## 2. Modules

```
BoundedFifo  <-implements-  RingQueue
                              StringQueue      <- RingQueue_proofs (IndexLemmas)
                            Scheduler          <- Scheduler_proofs (IndexLemmas)
                            Threads            <- Threads_proofs
                            Semaphore
FifoLock     <-implements-    SemLock          <- SemLock_proofs (of Semaphore too)
                              Pipe
                                InitThread
                                  Kernel       <- Kernel_proofs
                            Loader, Boot, Screen   (also in Kernel)
Allocator    <-implements-  Heap               <- Heap_proofs (IndexLemmas)
                              HeapAligned
                            Pci, AhciInit, Ahci, Ext2
                              Disk             <- Disk_proofs
```
(Indented: EXTENDS the module above. Kernel extends InitThread, Loader, Boot and
Screen; Disk extends Pci, AhciInit, Ahci and Ext2. MCStringQueue, MCKernel and MCDisk
give StringQueue, Kernel and Disk the instances that TLC checks.)

**RingQueue** models `queue_sem` and `queue_char`, which are the same code over
thread ids and characters: the array, `head`, `num`, and the results. One action
per operation. **BoundedFifo** is what a caller may rely on; the refinement
mapping reads the `num` cells from `head` on, around the ring. **StringQueue** adds
`enqueue_str` and `dequeue_str`, each a loop of single characters with one step for
each, among other calls for single characters. Terminator and filler are the same
byte in the code; they have two names here, so that a cell in use is told from a free
one, and every comparison of the code is with both. `due` and `cut` are history:
the strings that have gone in whole, less the characters taken singly from their
front, and whether anything else is inside: a character put in alone, or the part of a
string that did not fit. `cut` is taken back when the queue is flushed or empty.

**Scheduler** models `thread_scheduler` from the inside. `cur` is
`cur_thread_index`; `run` is the stack the processor is really on; they differ
between the search, which moves `cur`, and `switch_context`, which moves `run`.
Between the two lie four trace lines (task.c:289-292), each of which opens the
interrupts: the trace window. Open windows are kept per stack in `frames`. A
context is where a stack pointer stands (`depth`). `switch_context` reads its
second argument before it writes through its first, as the C call does. `tick`
and `elapsed` model `tick` and `tick - previous_interrupt`, capped where they
stop mattering. The table is full: a DEAD slot is one that is never RUNNABLE.
`halted` are the threads that have reached their `halt()`, one of `HaltedSets`. There may
be none: then all can sleep and the search never ends (`hung`), and one that is alone
RUNNABLE is switched to itself.

**Threads** models the thread table: `threads[]`, `tid_index_dict[]`, the fields of
each structure and their ends, for `create_thread`, `fork_thread` and
`thread_exec`/`thread_end`. The search for a slot is one step per slot, because it
runs with the interrupts open; taking it is one up to `get_cur_thread_tid`, which
opens them again; after it every store is a step. `cur` and `run` are as in
Scheduler, and `thread_scheduler` is two steps: it moves `cur` and enters its trace
(`switching` is `"trace"`), and `switch_context` moves `run`. A thread that is switched
to itself goes on at the stack pointer of its last switch; from then on (`"lost"`)
nothing is said.
`frame` holds `tid`, `t` and the result of `fork_thread`, which parent and child share
(see InitThread): each assignment at its end is a step, and `disturbed` remembers who
has been switched away from among them. `wait` and `signal` appear with the changes
of state they make. A structure is a new number each time, so that one that has ended is
never confused with its successor. The model makes four assumptions, each where it
stands in the code:

- no period expires in a trace, which is `Timely` in Scheduler: otherwise the handler
  schedules on the stack of a thread `cur` does not name, as `scheduler_late` shows, and
  neither `RunsInItsSlot` nor anything that asks for its tid holds from there on;
- one thread creates all others and never ends (`init` is the only thread of this
  kernel that creates any, and halts);
- a forked thread never ends (`do_child` is followed by `halt()`): it would come
  back into the frame of `thread_exec` that it shares with its parent, and end that;
- a created thread does not get as far as to ask for its tid, or to end, before
  its creator has given it one (`Announced`); from task.c:150 to 154 it can be
  scheduled already.

`fork_thread` is called only with a free slot and a free place in the list of
children. Without the one its index becomes -1, without the other it answers with
the wrong child; both are listed as hazards.

**Semaphore** models `semaphore.c` with one step for whatever runs between two
points at which the interrupts are open. `wait` closes them, but
`get_cur_thread_tid` (semaphore.c:93) opens them again, so that the rest of it,
the change of state, `sid_ptr`, the queue and the yield, are a step each; so it
is with `signal` from its trace line on, and with the whole of `create_sem`. `pc`
says where each thread stands, the other locals what it works on.
`thread_scheduler` is one step here, on the strength of Scheduler. When it picks the
thread that runs, the switch resumes it at an old stack pointer: harmless in an idle
thread, which halts wherever it goes on, and `lost` in another, after which nothing
happens any more. A queue is the structure of the code: `head`, `num` and `que`.
`create_sem` fills it cell by cell and never closes the interrupts, and `newsem` can give
two threads the same entry: then a `signal` between two of those stores dequeues a -1
and `change_state` stores through `threads[-1]` (`signal_state_astray`, `lost`). `early`
is history: a `wait` or `signal` has changed a semaphore on which some `create_sem` was
at work. `delete_sem` refuses every valid semaphore, its tests being the wrong way
round, and is modelled as that; with an invalid one it would store outside `semtable`,
and is not modelled.

**SemLock** composes Semaphore with threads that use one semaphore, created with
1, as a lock. **FifoLock** is the lock it implements. FifoLock does *not* promise
that a lock released with nobody in line is available again: `signal` does
nothing when the count is 0, so in the code such a lock is lost, and the abstract
lock promises no more than the code keeps.

**Pipe** models `pwrite`, `pread`, `waitp`, `signalp`, none of which closes the
interrupts, and `do_child` and `do_parent` around them. A message has two halves,
so that a copy can be interrupted in between. `waitp`, `signalp` call the `wait`
and `signal` of Semaphore.

**InitThread** puts before them the end of `fork_thread` and the branch in
`init`. `switch_fork` hands the parent's `rbp` to the child, and the kernel is
compiled by clang with `-O0` (kernel/Makefile:3): local variables are reached through
`rbp`, so both threads use the same frames of `fork_thread` and `init`. `frame`
holds the variables in them. An assignment is two steps, value and store. There is no
idle thread: a period that expires while the other thread sleeps switches a thread to
itself and loses it.

**Heap** models `kmalloc` and `kfree`: memory is the two header fields in every
unit, whether a header lies there or not, so that stale headers keep their
contents. `After[k]` is the k-th header from `freep`, and stands for the
loops; calls are one step. **Allocator** is what callers rely on: disjoint
blocks, and refusal only when no run of free units is long enough.
**HeapAligned** adds `kmalloc_alignas` with the sizes the code computes.

**Loader** models `UefiMain`, one step per call of the firmware, in the order of the
loops around `GetMemoryMap` and `ExitBootServices`. The size of the map is a number of
units; the firmware is the environment, which lets the map grow and make its key stale
at any moment, and may refuse memory. `mmapsize`, `pool` and `held` are the size
passed, the size of the block, and how much has been written there. Before it enters the
kernel it paints the screen, counting bytes but storing 8 at a time, and so eight times
as far: a store like those of the kernel, and with them in Boot (`UefiMain_paints`).

**Boot** models `entry_point` and `init` up to the fork, one step per call. Each step says
which memory it writes (`stores`), and which memory the processor and the controllers
use from then on (`inUse`): the code and data of the image, the tables the registers
point to, the stack. Addresses are those of the sources; those the linker and the
firmware choose are constants. `top` is the end of the free block of the heap, from
which `kmalloc` cuts. The interrupts have their flag, the vectors and masks of the
controller, and `tick`.

**Screen** models what the kernel draws: a text is the set of its character cells, a
cell its 8 x 16 dots, and `draw_dot` the index in the frame buffer that each is
written to, in 32-bit arithmetic. `com_handler` is two steps, because its print to the
serial port opens the interrupts in its middle: `handlers` counts, for each stack,
the handlers that are still on it, and `key` may be overwritten under them.

**Kernel** composes these with InitThread: the firmware loads, the kernel starts, the
threads run, and at any of these moments a tick, a key or an exception comes if it can.
A thread goes on only when there is no handler on its stack.

**Pci** models the walk over buses, devices and functions, one turn of the innermost
loop per step. `config` is not initialised in the code, and what is not read of a
function that does not answer keeps what was on the stack: any class, also that of a
controller.

**AhciInit** models `ahci_init` with each write of a register, poll and loop over the
ports, and beside it the controller, whose reset takes time and undoes what was
written, and the drives, which come up afterwards, once each and as late as they like,
also when calls are under way, and send their signature
(the controller is external, modelled from what the driver and
survey/memo/block_devices.md rely on). The loops take `pi >> i` for the bit of port
`i`: `Taken` is the set of ports they really go through.

**Ahci** models `ahci_read` and `ahci_write` with one step per access to a register
the controller also writes, for one client at a time: `check_ahci` is called before
the first thread is made. The controller is external again: it runs while `ST` is set,
fetches a command whose bit in `PxCI` is set, moves the data of one PRDT entry after
the other, sets a bit in `PxIS` for every entry with the `I` bit (the driver sets it in
all) and one for the end of the command, and clears the bit in `PxCI`, before the
report or after it. After an error it keeps the bit. `IS.IPS` stays set while
`PxIS` has a bit; `clear_ghc_is` waits for the whole register, hence for the other
ports, too. `ahci_rw` is `ahci_read` and `ahci_write`, which differ in one
bit. A call returns 1 whatever has happened, so its result is not modelled;
`moved` records what the controller has done for it. The module has no next-state
relation of its own: who calls is in Disk.

**Ext2** models `check_ext2` up to its table of inodes: the super block, the
descriptor of the first group, and `create_inode_table2`, which reads block after
block. What is in a sector is its number, and the place and number of an inode follow
from it; each step computes from what `ahci_read_byte` has brought, not from the disk.

**Disk** composes the four: the walk finds the controller, `ahci_init` prepares it,
`check_ahci` reads a sector, then anybody calls, and `check_ext2` does, one call at a
time. What the first port has to report before the first call is there for the first
command to find (`Reported`). That its drive is there is asked before `check_ahci`
(`Usable`); the drives of the other ports may come up at any time, and as `ahci_init`
has enabled their interrupts and nobody clears their `PxIS`, they keep `IS` from being 0
(`OthersPending`).

**IndexLemmas** holds what the proofs share: facts about sequences, functions and `%`;
that a set of numbers has a least element, and below a bound a greatest; and induction
over the numbers, for a set instead of a predicate (`SetInduction`).

## 3. Runs

| Run | Instance | Shows |
|---|---|---|
| `ring` | 3 cells, 2 values and the terminator; an empty string, a short one, one that fills the ring | `RingInv`; the ring implements BoundedFifo; strings come out whole, in order, less what was taken singly, and `dequeue_str` returns, except where nothing but zeros is left |
| `scheduler` | 3 threads, one halted or none; period 2, 1 tick in a window | own context; resumption, but for a switch to itself; the search ends, unless all sleep; every switch brings the turn of the others nearer; round robin |
| `scheduler_late` | the same, yields late in a period allowed | *violated*: `SavedContext` |
| `threads` | 3 slots, 2 places for children, 4 structures | a thread keeps its slot, its tid finds it, `cur` names who runs outside a trace, fork answers right who is not disturbed |
| `semaphore` | 3 threads that call anything and an idle one; 1 semaphore, 2 places | queue members sleep there, once; each is woken once; no -1 is woken; unless a semaphore is used before it is created |
| `semaphore_orphan` | one semaphore | *violated*: `SleepersAreQueued` |
| `lock` | 3 threads and an idle one; 2 places | mutual exclusion; implements FifoLock; who is given the lock gets it |
| `boot_to_init` | a map that grows twice, 2 keys, 2 exceptions, 2 screens; parent and child, the child not disturbed in the fork | the map fits; stores keep off the tables in use; interrupts find their gates; dots stay on the screen; the machine comes up; whole messages; a queued reader is served |
| `init_forked` | parent and child, the child disturbed in the fork | *violated*: `ToldApart` |
| `heap` | 7 units, requests of 2 and 3 | tiling, order and merging, implements Allocator |
| `heap_aligned` | 8 units, aligned to 4 | *violated*: `BlocksApart` |
| `disk` | 2 machines, 3 sets of ports, 3 file systems; 2 slots, entries of 2 sectors; 1, 2 or 5 sectors at 2 places | the controller found is one and is prepared; commands are issued whole; whole transfers; the table of inodes; calls and `ahci_init` return, with exceptions |

The four violations are findings about the code:

1. *A switch in a switch.* A thread that yields in `wait` or `signal` near the end
   of its period (the yield does not restart it) can have the period expire in the
   trace window. The handler calls `thread_scheduler` on the stack of a thread
   `cur_thread_index` no longer names, and saves its stack pointer in another
   thread's slot.
2. *A sleeper nobody will wake.* A thread switched away from between
   `change_state(WAIT)` and `enqueue_sem` is asleep and in no queue.
   docs/doc_draft/semaphore.md has the interrupts closed all through `wait`.
3. *A block behind the heap.* When `kmalloc_alignas` leaves room behind the
   aligned block, it enters it 2 * nunits too large (mm.c:190); the next
   `kmalloc` cuts from its end, behind the heap.
4. *A parent that takes itself for the child.* See InitThread above. If both take
   themselves for the parent, both wait on the pipe, and nothing is RUNNABLE.

Several properties say what the code does not promise, by naming the exceptions. All of
them happen in the runs: take one out of its property and TLC finds it.

- `CallReturns`: after a device error, and when a report comes in between the one read
  of `PxIS` and the end of the loop on `IS.IPS`, the driver polls for ever, and so it does
  once the drive of another port has come up behind the loops of `ahci_init`. A report
  left over from the last command, on the other hand, does no harm by itself: the call
  goes past `wait_interrupt` at once, but not past `wait_pxci_clear`.
- `QueuedThreadsSleep`, `WokenOnce`: nothing is said once a semaphore has been used while
  some `create_sem` was at work on it (`early`). It takes two creators who find the same
  entry free.
- `ResumesWhereItStopped`: a thread that is alone RUNNABLE, and has not halted, is switched
  to itself and goes on where its last switch left off (task.c:294).
- `SearchEnds`: when all sleep, it does not.
- `RunsInItsSlot`, `ForkAnswers`: nothing is said in a trace, after a thread has been
  switched to itself, or of a thread that was switched away from while it asks who it is.
- `InLineIsServed`: until the child, while the parent sleeps and before it has signalled, is
  switched to itself (`lost`).
- `InitEnds`: without a controller the driver writes to address 0 and on, and waits for
  a bit there that nobody clears; with a port
  left out below one that is implemented (`Holes`) the loop for idle ports never ends,
  because it tests a value it never reads again; and a drive that comes up behind the
  loop that has just cleared its register (`late`) leaves a bit set that another loop
  then waits for.
- `ComesUp`: a volume that cannot be opened, no memory for the map, an exception; and
  the timer, whose 91st tick calls `thread_scheduler` even when there is no thread yet
  that it could switch to (`astray`).
- `TableIsDisk`: with blocks of more than 2 KB the group descriptor is looked for in the
  wrong sector, and the table is not that of the disk.
- `ReadReturns`: `dequeue_str` on an empty queue with a zero at its head never returns.

`TablesKept` holds by a narrow margin. The page tables, 0x300000 to 0xd04fff,
begin in the middle of the heap, which ends near 0x510000, and all that keeps `kmalloc` out of them is that it cuts
from the end, that the command table, the first block, is over 1 MB and never written
beyond its first entries, and that all later blocks of the start fall into the gap
between the page directories in use (the first 4 of 512) and the page tables.

**Bounds of the boot and the disk.** A map that grows twice (`MaxMap` 3, `Spare` 1)
outgrows the room to spare once. Two keys (`MaxKeys`) let one handler interrupt another,
before either has moved the cursor. `TICKS` = 1 stands for 90: the second tick is the
one too many. `Word` is 2^20 instead of 2^32, more than the dots of either screen, so
that TLC's integers suffice and a wrap-around still wraps. One screen is upright with
lines longer than what is shown, the other so narrow that the second key does not fit
on it. One bus, two devices, two functions: a controller can be the last, two can be
there, and a function that does not answer can follow one that is a disk controller.
Two ports: both, one, or only the second. One inode to a sector instead of four; the
file systems have blocks of 1, 2 and 4 KB, more than one block of inodes, and the last
of them part full.

**Bounds of the rest.** Three threads are the least number at which round robin can
pass over someone and at which a waker and a sleeper can meet a third party; two
places in a queue the least at which order matters, one the least at which it
overflows. Three callers: two can be creating one semaphore while the third uses it; with
two places the loop of `create_sem` can stand half-way. TLC's instances have one
semaphore; that a thread is never in the queue of another one is left to the proofs, which
hold for every `NSEM`. `MaxDebt` keeps `wait`
from being called on a count below `-MaxDebt`: with a full queue `wait` returns with
the count decremented and can be called again, so that counts would otherwise fall
without end while queues stay the same. Three slots and four structures let the table
fill up, one thread fail to enter it, and a slot be given a second time; two places
for children let the child last forked not be the first in the list. Three cells let
head, tail and a gap be apart. Seven heap units hold three blocks of two with one left
over: a block can be freed between two others, next to one free block, or between two.
Memory behind the heap is modelled to twice its size, so that a block that reaches
beyond the end is seen and not a fault of the model. One, two and five sectors in
entries of two are a part of an entry, an entry, and several with a remainder.
`TraceTicks` bounds the ticks in a window, `Depths` the positions of a stack pointer.

**Fairness.** The timer is a hardware clock and goes on: weak fairness of `Tick`
(Scheduler) or of the preemption (`Timer`). A trace is a finite print: weak
fairness of `EndTrace`. A period is much longer than a step, so a thread that is
scheduled again and again gets something done: strong fairness of the
*continuation* of a thread's call in `lock`, of each thread's steps, or of the handler on
its stack, in `boot_to_init` (where threads only run to their halt). No thread is
assumed ever to call anything in `scheduler`, `semaphore` or `lock`. In `boot_to_init`
the loader and `entry_point` run on, each alone on the processor; keys, ticks during
the start and exceptions are not assumed, and that the firmware lets the map settle is
the bound `MaxMap`. In `disk` driver and controller each go on (the driver runs with
nobody to take the processor from it, the controller works through its command and
comes out of its reset); neither calls, nor errors, nor that a drive ever comes up are
assumed. In `ring` a string call that has begun goes on.

Deadlock is checked where the system goes on for ever. It is not in `disk`, where the
polling without a limit really ends in one, nor in the runs in which the processor can be
lost or hang (`scheduler`, `semaphore`, `init_forked`). In `boot_to_init` and `threads` a processor that has halted for
good, or is lost, stutters (`Stands`, `stays_lost`).

## 4. Proofs

For every value of the constants, TLAPS checks:

| Theorem | Says |
|---|---|
| `RingInvariant`, `RingImplementsFifo` | the ring invariant; every step of the ring is a step of BoundedFifo |
| `StringsAreCharacters` | StringQueue implements RingQueue, so both hold of it: a string call does to the ring only what calls for single characters do |
| `StringsComeOutWhole` | `dequeue_str` answers with the strings that went in, whole and in order, less the characters taken singly |
| `SchedulerTypes`, `ThreadsKeepTheirContext`, `SwitchResumes` | under `Timely`, the first half of what `scheduler` checks |
| `TurnsComeNearer`, `SearchEndsUnlessAllSleep` | without `Timely`: what round robin rests on; the search hangs only when all are asleep |
| `HeapIsTiled`, `NoUnitIsLost`, `FreeListIsOrdered`, `HeapIsAnAllocator` | what `heap` checks: tiling, order and merging, Heap implements Allocator |
| `ThreadTypes`, `ThreadsKeepTheirSlots`, `CurrentThreadRuns`, `ForkAnswersUndisturbed` | what `threads` checks |
| `SemaphoreTypes`, `QueuesHoldSleepers`, `SleepersAreWokenOnce` | what `semaphore` checks |
| `LockExcludes`, `LockIsHandedOnInOrder` | mutual exclusion; SemLock implements FifoLock |
| `StoresKeepTables`, `InterruptsDeliverable`, `MapAlwaysFits`, `EveryDotInFrame`, `ReadsWholeMessage` | what `boot_to_init` checks but `ComesUp` and `InLineIsServed` |
| `DiskTypes`, `FetchesWholeCommand`, `TransfersAreWhole`, `ControllerIsFound`, `PortsArePrepared`, `TableIsRead` | what `disk` checks but `CallReturns` and `InitEnds` |

*Ring.* `RingInv` is inductive once the cell an enqueue writes is known to be
none of those in use: the lemma of IndexLemmas that sums below the capacity
have different remainders.

*Strings.* `TakesNextString` compares what `dequeue_str` has read with the history
`due`, and nothing in the ring says where one string ends and the next begins but the
terminators, which are also what `dequeue_str` skips. `StringInv` says, as long as
nothing else has gone in, that there are *positions*, counted from the head, at which
the strings due lie: one behind the other, each with its terminator, and nothing but
terminators between them (`Laid`). The first position is 1 or further on, except
while the first string is being read, when it is as far before the head as `buf` is long
(`Reading`); behind the last string lies what `enqueue_str` has put in of the next
(`Putting`, `Held`). A character that goes in leaves every position alone
(`LaidKept`), one that comes out moves each by one (`LaidShift`), the terminator that
ends a read drops the first (`LaidFirstOut`), the one that ends a put adds one
(`LaidLastIn`). A character that is taken alone is the first of the first string, which
is one shorter then (`LaidShortened`), or a terminator in front of it (`LaidZeroOut`).
TLC checked `StringInv` on the instance of `ring` before it was proved.
The proof uses the ring only through `Contents`, the sequence it stands for, which is
what `RingImplementsFifo` is about.

*Scheduler.* `Timely` collects the assumptions: no yield so late that the period
can expire in its trace; a trace that fits into a period. `OwnContext` is not inductive:
what holds between the search and the switch must be said. `SchedulerInv` adds that what
is saved for a slot is always a place on its own stack; that at most one trace window is
open, on the stack that runs, opened by its own thread, with too few ticks left for the
period to expire; that a thread is switched to itself only when no other is RUNNABLE;
and that one in `halt()` has saved the place where it is, so that such a switch changes
nothing for it.
The run `scheduler_late` shows that the first assumption is needed.

`TurnComesNearer` and `SearchEnds` need none of this, only that `cur` is a slot. The search reaches slot
`j` in `Distance(cur, j)` steps (`FoundAtDistance`) and stops at the RUNNABLE slot with
the fewest (`PicksTheNearest`); all that lie further off are nearer by as many
(`NearerBySteps`). So a thread that stays RUNNABLE sees at most N - 1 others picked
before it. That the timer does pick again and again, and that the processor then goes
where `cur` says, is the part of `RunnableRuns` that rests on fairness, and TLC's.

*Threads.* `KeepsItsSlot` says nothing of the threads that are on their way in or
out, and those are the ones that could disturb it. `ThreadsInv` adds: a slot holds
only a thread that knows it and has not begun to end, and a tid is in no slot but
that of its thread (`OneSlotEach`); a thread that has emptied its slot has the
processor until it leaves for good, because nothing can bring it back, so that
nobody has taken the slot when it clears `tid_index_dict` (`EndsAlone`); how far the
creator has come with the new structure, that the slot found free stays free until
it is taken, and that the dictionary holds the next tid only between `sets_dict`
and `counts` (`CallUnderWay`); that the list of children is filled from the front
and its last entry is the child just forked (`Children`); that what `thread_scheduler`
has picked stays RUNNABLE through its trace (`WaitsInItsSlot`); and that the frame at
the end of `fork_thread` holds the answers of a thread that has not been switched away
from since it asked (`OwnFrame`). The proof has a lemma for each action.

*Semaphore.* `QueuedThreadsSleep` needs to know that a thread is asleep, and has
written its `sid_ptr`, *before* it enters a queue, and that `wait` can only be past
its yield if it has been dequeued or never left the processor: these are the
conjuncts of `SemaphoreInv`. That no -1 is dequeued rests on a queue being empty as long
as its semaphore is being created (`CreatedEmpty`); a use at that time is what `early`
excludes. There is no assumption but on the ranges of the constants.

*Lock.* `LockInv` says who can be where: before the lock exists only the creator
is at work; then at most one thread holds it or has been given it, and
the count is positive only as long as nobody has had it. From it, every step of
SemLock is a step of FifoLock or none.

*Heap.* The model goes through the free list as the code does: `After[k]`
is `k` steps from `freep`. What the code relies on is that this walk meets every free
block, and in which order. `HeapInv` does not speak of the walk: it says that there is
*a set* `F` of free blocks that, with the blocks handed out, tiles the heap (`Tiled`),
no two of which touch (`Merged`), and that `next` leads from each header in `F` and from
base to the next higher one, and from the highest to base (`Linked`). The walk is
recovered from it in five lemmas: `After` satisfies its recursive equation (`AfterDef`,
by `SetInduction`, since a recursive function is a CHOOSE and somebody has to show that
there is one); it stays in the circle (`WalkInCircle`); a part of the circle that `next`
does not lead out of is all of it (`ClosedIsAll`, by `Greatest` and `Least`); there are
fewer headers than steps, so that two of the steps meet in one header and all is seen
in between (`WalkTurns`); and coming back to `freep` means having been everywhere
(`WalkReturns`). Then each outcome of a call gives the next `F`: an exact fit is taken out
of it (`ExactStep`), a split keeps it and shortens a block (`SplitStep`),
a refusal changes nothing and has seen that every block in `F` is too small
(`FailsStep`), and `kfree` adds its block, behind the place the loop has found for it,
merged with its neighbours or not (`FreePlace`, `FreeStep`). For
the refinement, the units that are in no block handed out are those of `F`
(`FreeUnits`); a run of free units lies in one block of `F`, *because* they are merged,
so that a refusal for want of a block is one for want of a run (`Refused`). There is no
assumption but on the sizes.

*Boot.* `TablesKept` says something of a step, and needs to know where everything is
before it. `UseInv` says whose memory can be in use at each call: the firmware's until
the kernel's own table is loaded, and the addresses of that table afterwards.
`HeapInv` says how much has been cut from the end of the heap at each call, hence
in which gap the next block falls; `TablesInv` the rest of the machine, from which
`Deliverable` follows. The assumptions are what the kernel relies on and never asks: the
firmware has nothing in use below the end of the kernel's page tables or in the
eight lengths of the frame buffer that the loader paints, the image ends below 2 MB, the
frame buffer lies above the page tables, every IRQ is masked until `init_pic`, and the
controller implements a port.

*Loader.* `LoaderInv`: whenever there is a block, `mmapsize` is at most its size, except
between the call that answers with the size needed and the allocation.

*Screen.* `ScreenInv` relates the turned mode to the one the firmware has set; that a
dot is on the screen is then arithmetic on the index (`draw_dot` tests every dot, so
that the cursor may be anywhere), with the assumption that a line in memory is no
shorter than one on the screen.

*Pipe.* `ReceiveOK` needs to know that a reader takes the two halves only when the
writer is past its writing. `PipeInv(t, u)` says it of a reader `t` and the other
thread `u`: `t` reads, or has been woken to read, only when the message is there and
`u` is past its writing, and nothing that either does later takes that back. It is
symmetric in the threads, so it holds whichever takes itself for the child, also when
`ToldApart` does not.

*Disk.* `CallInv` follows the call under way: what is in the table and the header by
the time the bit in `PxCI` is set, how far the controller is with it (`NotBegun`,
`UnderWay`, `Ending`), and that a call gets past `wait_pxci_clear` only when
everything asked for has been moved. `ExtInv` says that each request of `check_ext2`
is for some sectors, `TableInv` that each block copied into the table is the one of
the disk, so that the step that copies the next needs no more than `WholeTransfer` and
the arithmetic of `i + j + (n - 1) * i`. `PciInv` speaks of the functions already
walked, `PortsInv` of what `ahci_init` has got to by each of its loops. Assumptions: a
function with the vendor 0xffff answers all ones; powers of two are positive numbers
(`PowersAssumption`, which TLC evaluates: the provers know nothing of powers).

Only model-checked: the liveness properties `RunnableRuns`, `GrantedReturns`,
`InLineIsServed`, `CallReturns`, `ComesUp`, `InitEnds` and `ReadReturns` (liveness under
fairness is beyond the prover), and the four violations. Every safety property of a
passing run is a theorem. Induction over numbers, which the library states for a
predicate that the provers cannot instantiate, is done with sets (`SetInduction`, from
the well-foundedness of `<`).

## 5. Not modelled

- Of the thread table: two threads that create at the same time, a created thread
  that runs before it has a tid, forked threads that end, the memory `thread_end`
  frees. None of it happens in this kernel: `init` alone creates, and its child halts.
- Of the semaphores: `delete_sem` with an invalid one, which passes its inverted test and
  stores outside `semtable` (semaphore.c:128-131).
- Of the heap: interleaved calls; nothing in `mm.c` closes the interrupts. Of the disk
  driver: two clients, which nothing keeps apart.
- Of ext2: the walk of the directories. `create_inode_table2` assigns the table to its own
  parameter (fs/ext2.c:323), so that the walk goes through a null pointer, into
  whatever lies at address 0. The functions nothing calls. A `kmalloc` that
  answers 0, which is not looked at (fs/ext2.c:305, 311): the heap has room. An inode is 128 bytes, as the
  code has it, whatever the super block says.
- Of the loader: what the ELF header says and the copy to 1 MB, the size of the buffer
  for `GetInfo`, protocols that are not found (those loops are left only by success).
- Of AHCI: where the received FISes go is in Boot, as a store: the block for them is
  never got, and address 0 is used.
- Of exceptions: the layout of their frames beyond the lines that are printed, and a
  spurious IRQ 7, which has a gate and is masked.
- Of the screen: colours, the dots of the glyphs (`fonts.h` is a table of them),
  `draw_square`, which nothing that runs calls.
- Serial output: polled; it matters for the `sti` it ends in, which is in the modules.
- `strcmp`, `strncmp`, `strcpy`; `app/console.c`, which is not linked; `app/app.c`, for
  which no thread is created.

Four hazards have no property:

- mm.c:137, two heap calls that interleave: the model of the heap has one step per call.
- task.c:149, two creators: there is one in this kernel, and in Threads.
- task.c:217, the end of a forked thread: the child halts before it.
- task.c:345, a fork with a full table: guarded in Threads, because what follows is a
  read outside of `threads[]`, of which nothing can be said.

## 6. Plan

Done: every component the kernel runs, and the way from the firmware to its threads.
What is left, in this order:

1. **Threads without its assumptions**: two creators, a thread that runs before it
   has a tid, a forked thread that ends. The same module, with the set of creators
   and the assumptions as constants; which properties survive, and which do not.
2. **Heap for two threads**: one step per statement.
3. **Disk for two clients**: the same command table, one slot each.
4. Proofs: what 1 to 3 leave of the properties, and the safety parts of the other
   liveness properties, as `TurnComesNearer` is that of `RunnableRuns`: a measure for
   each loop of `ahci_init`, and for the place of a thread in a waiting queue.

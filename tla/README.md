# FelineOS: a TLA+ verification project

FelineOS is a small kernel for i386 and ARM. This directory models the parts of
it that keep state across calls: the spinlock and the interrupt flag, the task
scheduler with the timer interrupt, the kernel heap, the physical memory manager
and how both architectures start it from the boot loader's memory map or the
device tree, the i386 page tables, the allocator `get_mem`/`free_mem` built on the
two, and the output path: number formatting, `printf`, the logger and the VGA
terminal.
TLC checks the models on small instances; TLAPS proves the safety properties of the
scheduler, the heap, the physical memory manager, `get_mem`/`free_mem` with the
page tables, the logger, the terminal and `printf` for every value of the constants,
and that the physical memory manager implements the allocator its callers expect.

Paths below are relative to `system/` of the repository.

## 1. The system and its parts

| component | state it keeps | operations | interacts with | what makes it correct |
|---|---|---|---|---|
| spinlock (`libFeline/src/locking/spinlock.cpp`) | a flag, the saved interrupt state | acquire, try_acquire, release | every component below; the CPU's interrupt flag | critical sections are never entered twice; interrupts come back |
| scheduler (`kernel/kernel/scheduler.cpp`) | `current_task`, the vector `all_tasks` | `sched`, `add_new_task`, `end_cur_task`, `cleanup_finished_tasks`, `scheduler_handle_tick` | timer interrupt, tasks, `get_mem` for stacks | no stack in use is freed, none is leaked, finished tasks are reclaimed, new ones run |
| tasks (`kernel/kernel/task.cpp`, `arch/*/task/task.S`) | saved registers, stack, return address | create, swap registers | scheduler | a context is resumed exactly once, where it was saved |
| timer (`drivers/PIT`, `drivers/systimer`, `isr.S`) | time since boot | tick | scheduler, settings | ticks nest correctly on the interrupted stack |
| heap (`libc/stdlib/malloc_free.cpp`) | a linked list of headers inside the memory it manages | `malloc`, `free` | `get_mem`/`free_mem` | blocks never overlap, no byte is lost, a held block can be freed |
| physical memory (`kernel/kernel/phys_mem.cpp`) | a linked list of headers in chunks of slots | `get_mem_area` (two), `free_mem_area`, `ensure_not_allocatable` | page tables (to map new chunks), framebuffer | each page has one holder; headers tile the RAM |
| i386 page tables (`arch/i386/virt_mem/paging.cpp`) | the CPU's tables and a flat table used for searching | `map_range`, `unmap_range`, `find_free_virtmem` | physical memory | both tables agree; mapped pages are never reused |
| `get_mem`, `free_mem` (`kernel/kernel/mem.cpp`) | none | both | the two managers | what is acquired can be given back |
| boot memory maps (`arch/*/mem/phys_mem.cpp`) | the regions found at boot, in an array put into free memory | search space, sort, merge, copy, start the manager | physical memory, device tree | no memory that is taken is handed out |
| device tree (`arch/arm/devicetree/devicetree.cpp`) | the position of a walk | walk with a callback | boot memory maps, start-up | a callback sees the properties of the nodes asked for, and no others |
| logging (`libFeline/src/logging`, `kernel/kernel/log.cpp`) | `output_lock`, the parts of a message | begin, add a part, write | everything, from tasks and from interrupt handlers; settings | a message stays in one piece |
| settings | values, whether they are initialised | initialize, get, set | logging, start-up | |
| number formatting, `printf` | a buffer, a length, a position in the format | convert | logging, terminal, serial port | results read back; arguments are read in step; the loops end |
| containers, C string functions | a buffer, a length | grow, erase, copy | all of the kernel | results equal the reference definition |
| VGA terminal (`drivers/vga`) | the screen, the cursor | putchar, scroll, reset | logging, `printf` | the screen shows what was written |
| framebuffer, serial ports | geometry; device registers | draw; send | logging | never draw outside the screen |
| system calls, C library I/O | none | open, close, read, write | user pointers | partial transfers are reported |
| start-up, descriptor tables, backtrace, host utilities | constant tables | executed once | | |

What is hard here: the timer interrupts any code that runs with interrupts on,
and what protects the shared lists is only the interrupt flag, because
`Spinlock::acquire_lock` never waits and the result of `try_acquire_lock` is
inverted (`test_and_set` returns the old value, true when the lock was taken).
Locks are taken by one task and released by another. Lists are edited while they
are walked, and the managers store their own bookkeeping in the memory they
manage. At boot, lengths and ends of regions wrap at 4 GiB and each cut works on
what the cut before left. Some writers use the terminal without any lock.
`PROJECT.json` lists these hazards line by line.

## 2. Modules

| module | models |
|---|---|
| `Spinlock` | `Spinlock` on one i386 CPU |
| `Scheduler` | scheduler, tasks and timer interrupt; extends `Spinlock` |
| `SchedulerProofs` | theorems about `Scheduler` |
| `MallocFree` | `malloc` and `free` |
| `MallocFreeProofs` | theorems about `MallocFree` |
| `AreaAllocator` | abstract: what callers expect of the physical memory manager |
| `PhysMem` | the physical memory manager; implements `AreaAllocator` |
| `PhysMemProofs` | theorems about `PhysMem`, the refinement among them |
| `Paging` | the i386 page tables as operators; extends `Spinlock` |
| `Memory` | `get_mem`/`free_mem` and device mappings: `Paging` composed with `AreaAllocator` |
| `MemoryProofs` | theorems about `Memory` |
| `StartPhysMem` | `start_phys_mem_manager` |
| `Multiboot` | the i386 memory map; extends `StartPhysMem` |
| `DeviceTree` | the device tree walk and the ARM memory map; extends `StartPhysMem` |
| `BootMemory` | a boot on either architecture: `Multiboot` and `DeviceTree` composed with `StartPhysMem` |
| `Numbers` | `ntostr`, its wrappers, signed conversions |
| `Printf` | `vprintf`; extends `Numbers` |
| `Text` | a call of either |
| `TextProofs` | proofs about `vprintf` |
| `Terminal` | `vga_text_term`, and the roll of paper it should show the end of |
| `TerminalProofs` | lemmas: what `putchar` does to the screen is what it does to the paper |
| `Console` | logger, `printf` output, serial port: composed with `Terminal` and `Spinlock` |
| `ConsoleProofs` | theorems about `Console` |
| `Arithmetic` | lemmas the proofs share: least numbers, division, rounding up |
| `MC...` | instances for TLC |

Operators whose comment starts with "Bug:" or "As ... below, except" are not
part of a specification. They are the mutations `PROJECT.json` lists, one per
property, under which TLC must find the property violated.

### Spinlock and Scheduler

One CPU executes; `pc` says where and `esp` on which stack. `Tick` may happen
wherever `irq_on` holds: it pushes the interrupted `pc` on `frames[esp]`, as the
interrupt gate does, and the handler runs `cleanup_finished_tasks`, adds the
once-a-second task and calls `sched`. Code between taking and releasing
`editing_task_list` is cut into several steps, so only the interrupt flag keeps
ticks out. A switch stores the old context (`esp`, return address, interrupt
flag) in the vector slot the next task leaves, exactly where
`swap_task_registers` stores it. `halt` is the idle loop of `end_cur_task`;
`abort` is absorbing. A task's own code is arbitrary: at `pc = "task"` it may
call `sched`, `add_new_task` or `end_cur_task`.

`acquire_lock` is a single step although the source has a loop: the loop ends
after at most one more iteration, whatever the flag was.

### MallocFree

A step is one iteration of a search loop; `hdr` is the local variable. Addresses
are bytes of a scaled-down machine (a page of 10, a header of 2). `live` records
what callers hold and is read by the properties only. `free` is called with every
address a block can start at, those freed before and those never returned included.
The aborts of `split_header` for arguments that do not fit (`malloc_free.cpp:32,41`)
and that of `return_mem` (`:107`) have no step: the calls never reach them.

### PhysMem and AreaAllocator

`modifying_pmm` is held through each public function, so a call is one step.
`headers` maps slot numbers to `PhysMemHeader`s; `first_header`, the slot counts
and the unwritten `next` of a chunk added at run time (`wild_next`) are kept.
Splitting a header may need a slot, which may need a chunk, which is itself a
page of managed memory: `NoSplit`, `SplitWithSlot`, `SplitWithChunk` and
`SplitFaults` are the four outcomes. The refinement maps `areas` to `areas`;
every other variable disappears.

### Paging and Memory

`setup_paging` makes all page directory entries present, so one table indexed by
page number stands for both levels. `LastPageNeeded` keeps the 32-bit wrap of
the sum and the saturation of the page increment. `Locked` is a balanced
acquire and release; `map_range_no_virtmem` is the path that returns without
the release.

### BootMemory

`boot_pc` says how far the boot is. On i386, `FindMap` is the search for space for
the array of regions. Where the code means the bounds of the kernel it takes the
addresses of two variables; `objects` are these addresses, virtual ones in the
kernel's data, in whichever order the linker put the variables. `CopyUnavailable` and `CopyAvailable` are one turn each of the
two loops over the map. `slots` is the array, of which only what was written is
known: a slot that was passed and not filled reads as `garbage`. On ARM the three
walks are made token by token; `calls` is the stack of active
`for_each_prop_in_node` calls, `node` the position they share. Map entries and
reserved entries have 64-bit numbers, everything else wraps at `WordSize`.
`start_phys_mem_manager` then finds a place for its headers (`FindPlace`), adds
one region per step (`TryAdd`, which is the recursive lambda as the operator `Add`)
and reserves its own place (`ReserveOwn`): `own_claimed` is the memory that
`get_mem_area` really claims, the first pages of the header it finds. `overflow` is an endless recursion,
recognised by a call for a region that is already being added. The links between
the headers are not kept: headers are added in order, and `PhysMem` starts from a
linked list of them.

### Numbers, Printf and Text

`ntostr` is modelled loop by loop with the wrap of `unsigned long long`; characters
are their codes, so that the step from digits to letters is the arithmetic of the
code. `Printf` abstracts what a conversion writes to who wrote it: a cell of
`intStrBuf` holds the position of the conversion that filled it. That is enough to
see leftovers, and what the code does with lengths, widths and arguments is kept:
`min_width` is never reset, `%c` adds no null, a single `h` or `l` leaves the
length alone, `isdigit` knows neither 0 nor 9, padding is not counted in the result.
`words` counts the 32-bit words `va_arg` took, `named` those C's printf takes for the
conversions met, and `odd` remembers what was met that the code gives no meaning to: a
single `h` or `l`, `L`, a specifier it does not know. An unsupported conversion
rewinds to the nearest percent, which in `%5%` is the specifier itself. A string that
does not fit `intStrBuf` may destroy anything: `overrun` ends the call.

### Terminal and Console

`putchar` is two steps, since writers other than `kout` can be interrupted between
the move of the cursor and the test whether it left the row. `paper` is the
reference: text on an endless roll that never scrolls. `Console` has writers
that begin messages of five kinds; `running` is who has the CPU, and
another writer goes on only while interrupts are on, so a writer with `output_lock`
is never interrupted. `port` and `calls` record who wrote each byte. `torn`
remembers that somebody entered the terminal while another was inside `putchar`.

## 3. Runs

All runs use deadlock checking. States that the code leaves for good (`abort`)
have a stuttering action of their own.

| run | result | shows |
|---|---|---|
| `scheduler` | holds | mutual exclusion, lock pairing, no freed stack in use, no leaked or shared stack, no unreachable code reached, never halted with interrupts off; interrupts come back, finished tasks are reclaimed |
| `scheduler_new_task_starves` | violated | the task that a tick queues on an idle machine may never run |
| `heap` | holds | blocks safe, pages tiled by chunks, list consistent, free chunks coalesced, blocks that are held can be freed, every call ends |
| `heap_large_request` | violated | a request of more than a page minus a header is never satisfied |
| `physmem` | holds | list consistent, memory conserved, areas exclusive, coalesced; implements `AreaAllocator` |
| `physmem_misplaced` | holds | the headers still tile the memory after misplaced reservations, refused frees and failed assertions |
| `physmem_reserve` | violated | reserving an address inside free memory claims other memory |
| `memory` | holds | both tables agree, blocks have their own pages, no leak and no lost lock before exhaustion, nothing left mapped |
| `boot_memory` | holds | no header covers memory that is taken, if regions are well apart and the map was in order; the manager's own space is free and what it claims for itself is where its headers are; the three walks of the tree agree |
| `boot_kernel` | violated | on i386 the kernel is part of the memory that is handed out |
| `console` | holds | locked messages stay whole and in the same order on port and terminal; the screen shows the end of the paper unless two writers were inside `putchar` |
| `text` | holds | arguments are read in step, conversions show their own text, every turn of the loop moves on; below the largest power of the base, conversions of numbers end and read back as the number |

### Bounds and why they are enough

* Scheduler: three stacks (plus the boot stack), so three tasks of which two can
  be suspended, one new, one finished; counters wrap at 3, so a wrapped count
  meets unwrapped ones; two interrupt frames per stack, so a tick can arrive in
  the last instruction of a handler. The proofs drop all of these bounds
  but the depth stays a parameter.
* Heap: two pages of five headers' length and requests of 0, 3 and 7 bytes: up to
  four chunks on a page, exact fits, splits with a remainder of a header and
  with none, merges on both sides, whole pages given back.
* Physical memory: two regions of four and three pages, not adjacent, and four
  slots per chunk, so that slots run out and a chunk is taken from the memory.
  Reservations start at a header, as the boot code's do. In `physmem_misplaced`
  they do not, and a longer region with three slots per chunk lets the slots run
  out a second time (`SplitFaults`); at most two chunks in all.
* Memory: thirteen pages, of which one in the middle is the kernel's and three at
  the top are the recursive mapping. With fewer recursive pages the search never
  reaches the end of the address space, where the sum wraps. Devices of whole and
  partial pages.
* Boot: 32 pages of 64 bytes; every sequence of up to three of fifteen map
  entries (low and high memory, touching memory, memory and reservations next to,
  inside, across and behind it, up to, across and above 4 GiB) and the usual two of a
  PC with two more, two kernels, linked 896 bytes above where they are loaded, with
  their two variables in either order, and two contents of unwritten slots. High
  memory ends behind the variables' addresses, as on a machine with more than 3 GiB,
  or below them. GRUB's map is mapped into the first page that `find_free_virtmem`
  tries, page 1. Then trees of up to three tokens of seven kinds inside
  the root node, trees with one or two memory nodes at several places, four lists of
  reserved entries, four places of the tree. Sizes are scaled so that headers take
  one page or two.
* Console: a screen of two rows of four columns. Boot code alone writes
  every text of one to three of six characters at the end of a row; or boot code,
  two tasks and a handler write two messages, in two variants, in every
  interleaving, with the terminal and without.
* Text: every format of up to three of ten characters and every sequence of up to
  three of 24 directives; a buffer of six, a largest `int` of nine, so that results
  overflow; strings up to the size of the buffer.
* Numbers: 12 bits; the numbers up to 20 and those around the powers of the bases, in
  bases 2, 8, 10 and 16, with two widths, and every `int` of four bits. The word is wide
  enough for both ways the counting loop goes wrong at 64 bits: powers of two wrap to 0,
  and 10^4 mod 2^12 is 1808, below the larger numbers of four digits, as 10^20 mod 2^64
  is below 10^19.

Properties that promise something under a condition, and why the condition is needed:

* `HeadersAvoidTaken`: without `WellApart` the cutting puts headers over memory that is
  taken, and without `AllAppended` the i386 merging does (section 5). On i386 the
  kernel is not among what is taken (`boot_kernel`).
* `PlacesFree`: that the claimed pages are those of the headers needs headers that fit
  one page (so do those of 140 regions), `WellApart`, and available regions in order:
  a region listed behind one that follows on it lowers the start of the header, and
  `get_mem_area` claims from that start.
* `ScreenShowsPaper` needs `~torn`; `InterruptsComeBack` and `FinishedReclaimed` end
  with an abort; `NoPhysicalLeak` and `InterruptsRestored` hold until virtual memory
  has run out once. Each says that there is no other way to fail than the one named.
* `ArgumentsInStep` needs `odd = {}`, `ShowsItsOwn` that no `h`, `l` or `L` stood by
  itself, and it is not about `%c`. The arguments of unsupported conversions are never
  taken.
* `NumberWritten` and `NtostrReturns` need `PowersFit`: they mark the boundary from
  which on powers wrap (section 5).
* `NothingLeftMapped` is about devices that start at a page boundary.

### Fairness

`Scheduler!Fairness` assumes that the CPU executes kernel code (weak fairness of
every step outside a task's own code), that the timer ticks, and that a task's
function eventually calls `end_cur_task` (strong fairness, because ticks disable
it again and again): every task the kernel creates ends that way, and so does
`kernel_main` (`kernel.cpp:83,105,109`, `scheduler.cpp:136`). No fairness is
assumed of which task `sched` chooses. `MallocFree` and `Text` assume weak fairness
of the steps inside a call: nothing but an interrupt stops it, and interrupts return.
`BootMemory` and `Console` have safety properties only and no fairness.

## 4. What is proved

`SchedulerProofs` proves, for any set of stacks, counter width, tick rate and
interrupt depth, `Spec => []IInv` and from it type correctness,
`MutualExclusion`, `LockHeldWhenCritical`, `NoFreedStackInUse`,
`StacksOwnedOnce`, `NeverHaltedDeaf` and `NeverUnreachable`. The assumptions are the
four named ones of `Scheduler`.

The properties are not inductive by themselves. That no tick interrupts the
critical section needs `InterruptState`: where interrupts are on, the CPU is in a
task, the idle loop or the last instruction of a handler. That this survives a
switch needs `SavedContexts`: every context was saved with interrupts off.
That a freed stack carries no interrupt frame needs `FramesLive` and
`OwnStack`: frames lie on the running stack or on that of a runnable task, and
a task runs on its own stack (or the boot stack). `FrameShape` says which code
runs under a frame and what a frame returns to. The subtle part is
`DeafTaskHasInterruptedPeer`. A task resumed inside a tick runs with
interrupts off, and if the last such task went to `halt` the machine would stop
for good; it does not because there is always a runnable task whose stack holds
the interrupt frame that turned them off. There is one lemma per kind of step (ticks, `iret`,
switches, additions, erasures, steps that only work the lock), each by
the conjuncts it can disturb.

`MallocFreeProofs` proves, for every page size, header size, set of requests and
number of pages, all six safety properties of `MallocFree`: `TypeOK`,
`BlocksSafe`, `Coalesced`, `ChunksTilePages`, `ListConsistent` and the action
property `RightfulFreeTaken`. The inductive invariant `HeapInv` holds between any two
iterations of a search loop and has these parts:

* `Typed` and `Layout`: every chunk lies in one page that the heap got, is made of
  whole headers, and overlaps no other;
* `Links` and `Adjacent`: `next` and `prev` are inverse, and inside a page the list
  goes from each chunk to the one behind it;
* `Connected`: a set that has `first_header` and is closed under `next` has every
  header. This is reachability without counting steps, which `split_header`,
  `MergeNext`, `MergePrev` and `Unlink` can be shown to keep;
* `Live`: what callers hold are exactly the chunks in use, each long enough;
* `Control`: a search stands at a header of the heap;
* `Whole`: no two free chunks of a page touch and every page has a block in use,
  except for the chunk a search in progress is about to take.

`RightfulFreeTaken` needs one more invariant, `Ahead`: while `free` searches, the header
that belongs to its argument, if there is one, is in every set that has the header the
search stands at and is closed under `next`; so the search cannot run past it.

`ChunksTilePages` has the hypothesis `RequestsFit`, that every request fits a page
together with its header. Without it the property is false, for the reason the run
`heap_large_request` shows.

`PhysMemProofs` proves all that the run `physmem` checks: `TypeOK`,
`ListConsistent`, `MemoryConserved`, `Coalesced`, `AreasExclusive` and the refinement
`ImplementsAllocator`, for every page size, number of slots, set of regions and mix of
calls. The inductive invariant `ListInv` speaks of the order of memory and not of
walks:

* `Layout`: every header in use is a positive number of whole pages, and no two
  overlap;
* `IsNext`, `IsPrev`: the `next` of a header is the one with the least memory above
  its own, its `prev` the one with the greatest memory below; `Lowest`:
  `first_header` has the least of all. So links are right if each is right by itself,
  which is what `Link`, `MergeNext`, `MergePrev` and `ensure_not_allocatable` can be
  shown to keep, one lemma each;
* fewer headers in use than slots, so that a walk of as many steps as slots meets
  all of them (`WalkMeetsAll`), and a search returns one of them or nothing. For
  `ensure_not_allocatable`, which takes out any number of headers in one walk, `Skip`
  is shown to find the neighbour that is left, by the order of memory again
  (`SkipFinds`);
* `Covered`: the headers in use cover the RAM less what was withdrawn;
* `Merged`: no two free headers touch.

`OwnInv` adds who holds what: every area begins a claimed header that has all of the
area's pages, every chunk begins one, and no header is begun by two of them. Every call
that hands out an area is then an `Acquire` of `AreaAllocator`, `free_mem_area` a
`Release`, and the other steps leave `areas` alone.

The hypotheses are two; the instance `MCPhysMemProper` of the run `physmem` assumes
both, so TLC evaluates them.
`ProperInputs`: regions are whole pages, in order, do not touch and end a page before
the end of the address space; nobody asks for 0 bytes or for more than can be rounded
up; framebuffers are whole pages that begin behind the first page of RAM.
`ProperReserves`, which only `OwnInv` needs: reservations name the start of a region.
Both are needed, for what the code does otherwise is in section 5: `round_up_to_page`
wraps (`phys_mem.cpp:33`), a framebuffer with an end inside a page is rounded the
wrong way (`:622`), one that covers the first header leaves `first_header` behind
(`:619`), and a reservation inside a region claims the region's start (`:506`). A
request for 0 bytes would leave a header without memory.

`MemoryProofs` proves all six safety properties of `Memory` for every address space,
kernel layout and mix of requests: `TypeOK`, `SearchableInSync`,
`InterruptsRestored`, `BlocksMapped`, `NoPhysicalLeak` and `NothingLeftMapped`. The
inductive invariant `MemInv` says that the two tables agree (`Tables`), that every
block and every device has mapped pages that are not the kernel's (`BlockOK`,
`DeviceOK`), blocks physical areas that can be found through the tables, and that no
page and no area has two owners (`Disjoint`). What the proof turns on is that
`find_free_virtmem` returns pages that are free; the search is a recursion over
pages, and the lemma about it is proved by least counterexample. The assumptions are
those of `Paging` and `InputAssumption` (nobody asks for 0 bytes).
`NothingLeftMapped` has the hypothesis `AlignedDevices`; without it it is false
(section 5).

`ConsoleProofs` proves both properties of `Console`, for every screen size, every
tab stop that divides its width, every set of writers and everything they may say.
`WritersInv` ties `output_lock` to the interrupt flag: a writer is `Deaf` when it
has the lock or is an interrupt handler, interrupts are off exactly while the CPU is
with such a writer, and the state a `kout` will restore is "on". So while one is
`Deaf` no other steps, although `acquire_lock` never waits. During boot only
handlers interrupt the boot code; this is what keeps everybody out of `putchar`
when `boot_setup` clears the screen.

* `WholeMessages` from `MessagesInv`: the bytes of a locked message that is being
  written are the last bytes of the port (and then of the terminal), those of one
  that is over are a block of the message's length, nothing is written of a message
  before it begins, and what a `kout` keeps is the beginning of its message. That
  blocks on the terminal are in the order of those on the port is inductive, because
  a message reaches the terminal only while it is the last one on the port.
* `ScreenShowsPaper` from `ScreenInv`: between two characters the screen shows the
  window of the paper; inside `putchar`, after the character `c`, it is `Settled(c)`:
  the second half of `putchar` will make it so. `TerminalProofs` has one lemma for
  each kind of character. `TabAssumption`, a `static_assert` of the code, is needed
  for the tab at the end of a row.

Of the writers it is assumed that only the boot code calls `boot_setup`
(`ProgramsAssumption`), of the characters that `Chars` has the control
characters and the blank.

`TextProofs` proves what `Text` says of `vprintf`, for every format, buffer size and
largest result: the invariants `ArgumentsInStep` and `ShowsItsOwn`, and the action
property `Advances`. Most of the argument is about the scan of one conversion:
where flags, width and modifier end, and that as long as `odd` is empty the length it
finds is the one written there and never that of the conversion before.
The inductive invariant `TextInv` says that `pos` stays within the format or on its
null, that the buffer always ends with one, and of every cell shown that it is its
conversion's own or was shown by a `%c`. It needs `FormatsAssumption` (no null inside a
format) and that the digits of a number fit the buffer (`PrintfAssumption`). Of strings
nothing is assumed: one that does not fit ends the call in `overrun`, and the theorems
speak of what was shown until then.

Induction over numbers is done by least counterexample (`LeastNumber` in
`Arithmetic`), since the prover cannot instantiate induction principles.

Only model-checked: the liveness properties (the prover has no rules for
fairness), `NumberWritten` (that digits read back as the number is an induction over
data), `MemoryConserved` where a framebuffer covers the first header and the next call
aborts (`physmem_misplaced`; the theorem does cover the misplaced reservations of that
run), and the boot models:
`StartPhysMem` and `DeviceTree` follow the recursion of the code with RECURSIVE
operators, which the prover does not handle.

## 5. Where code and comments disagree

Runs marked "violated" above:

* `scheduler_new_task_starves`: `sched` gives up when it finds the lock free
  (`spinlock.cpp:60` returns the previous value). After `add_new_task` released
  the lock, the `sched` of the same tick gives up; on an idle machine this repeats
  every second, the task that should print the time never runs and stacks run out.
  The property is about a tick that finds the machine in the idle loop with nobody
  waiting, so no task code uses up the stacks; with a `try_acquire_lock` that succeeds
  exactly when the flag was clear it holds on the same instance.
* `heap_large_request`: `allocate_more_mem` records one page whatever it got
  (`malloc_free.cpp:95`).
* `physmem_reserve`: the part before a reserved address is never split off
  (`phys_mem.cpp:506`).
* `boot_kernel`: `&phys_kernel_start` and `&phys_kernel_end` are the addresses of two
  `PhysAddr<void>` variables (`vtopmem.h:102,105`). The region listed for the kernel
  (`arch/i386/mem/phys_mem.cpp:138`) is therefore a few bytes at a virtual address, or,
  if the linker puts the second variable first, almost 4 GiB. With their values listed
  instead the property holds.

Seen while modelling and not kept as runs:

* the same inverted result makes `cleanup_finished_tasks` skip most ticks; it
  runs only in the tick after a new second, because only then does `sched` leave the
  flag set (`scheduler.cpp:100`; the mutant of `FinishedReclaimed` shows it);
* `round_up_to_page` wraps to 0 for lengths within a page of the largest integer
  and `get_mem_area` then succeeds (`phys_mem.cpp:33`);
* `ensure_not_allocatable` rounds the end of the framebuffer down, so its last,
  partial page stays allocatable (`phys_mem.cpp:622`), and leaves `first_header` on a
  slot it has given up (`:619`), which the next walk's assertion catches;
* `unmap_range` does not count the offset in the first page (`paging.cpp:464`), although
  `map_range` does (`:369`) and `paging.h:21` promises "Unmap all the pages from virt_addr
  to virt_addr+len": a device that starts inside a page and crosses a boundary leaves a
  page mapped. With such a device TLC finds `NothingLeftMapped` violated;
* a second `free` of an address that `malloc` has given to somebody else in between
  frees the new owner's block: the code knows addresses and not callers;
* a chunk added at run time has an unwritten `next`, followed when slots run
  out again (`phys_mem.cpp:332`);
* when a request of at least two whole pages meets a full address space, the wrapped
  sum makes `free_from_here` accept the recursive mapping; `map_page`
  refuses it and `get_mem` aborts with "The VMM has a bug!" instead of returning
  `mem_no_virtmem` (`paging.cpp:212`; `GetMemAbort`);
* after `map_no_virtmem` the lock stays taken, interrupts stay off
  (`paging.cpp:372`) and the physical area is lost (`mem.cpp:79`); `Memory` has
  both, and its properties say nothing else causes them.

At boot, all of it in the models and outside the conditions of the properties:

* when an unavailable region hangs over the end of an available one, or begins right
  behind it, the code subtracts from the end of the unavailable region and not from its
  start (`phys_mem.cpp:253`), so the header covers it up to its last page. A PC's low
  memory is followed by reserved memory and the hole;
* the length of the piece in front of an unavailable region wraps when that begins less
  than a page behind the start (`phys_mem.cpp:234`). In memory that starts at 0, with the
  device tree in its first page, the piece then holds the region again and the recursion
  has no end (`overflow`); elsewhere the header gets almost 4 GiB;
* i386: an entry of the map lower than all others that touches none is forgotten
  (`arch/i386/mem/phys_mem.cpp:190`);
* cuts leave a page unused on each side and headers start at a page boundary, rounded
  down, so close neighbours end up inside a header;
* whether the headers fit where they are put is never asked when nothing is in the
  way, page 0 cannot be told from "not found", and a place of more than a page may not
  be reservable, which is only logged (`phys_mem.cpp:164,308`);
* a region that ends at 4 GiB has the end 0 and protects nothing;
* i386: merging lowers the start of a region before it reads its end, so the
  merged region loses its tail (`arch/i386/mem/phys_mem.cpp:171`); `new_memory`
  moves on when nothing was appended, so later entries land behind the counted ones,
  and comparisons read slots that were never written (`:227`). The search takes a region
  exactly if it does not avoid kernel and map, although it is to find one "that isn't
  being used already" (`:73,106`), and compares physical with virtual addresses;
  a machine works because the map happens to be mapped at a low virtual address, so
  that low memory does not "avoid" it;
* ARM: the overlap is tested for the location before it is aligned
  (`arch/arm/mem/phys_mem.cpp:44,64`), the size of the tree is rounded down to
  multiples of its header, and the cell sizes of the tree are ignored;
* ARM start-up initialises the command line from every property of `chosen` that is
  not called `cmdline`, because the result of `strcmp` is taken for equality; the
  second one is fatal, `initialize` may be called only once
  (`arch/arm/arch.cpp:65`, `settings.h:14`). Not in a model.

In the output path:

* a single `h` or `l` keeps the length of the conversion before (`printf.cpp:115,123`):
  in `%jd%hd` the second conversion takes 64 bits of an argument of 32, and everything
  behind it is out of step;
* `%c` adds no null ("just display it", `printf.cpp:149`), so what is left in the buffer
  behind its character is shown with it (`:151`);
* from the largest power of the base on, the power that counts digits wraps
  (`itostr.cpp:23`). In bases 2, 8 and 16 it becomes 0 and the loop does not end: with
  base 16 for numbers from 2^60 on. In base 10 the loop ends late:
  `ntostr(10000000000000000000, 10)` has 26 characters, the first ones wrong. The
  smallest `int` is converted to such a number (`logger.h:65`);
* the width is never reset (`printf.cpp:96`), digits 0 and 9 are no digits
  (`isdigit.cpp:7`), `%L...` reads no argument, an unsupported conversion leaves its
  argument to the next one (`:631`), and `%s` copies into 256 bytes (`:156`);
* the logs that do not allocate and `printf` take no lock; the terminal is then
  entered by several writers, and the cursor may be off the row or the screen
  (`vga.cpp:118`).

## 6. Not modelled, and the plan

Left out for good: device registers (set-up of the serial ports, the PL011, PIC
and PIT programming), constant tables (GDT, IDT), backtraces, host utilities, the
straight-line start-up code, whose outcome is the `Init` of the modules, and library
functions without a caller (`strtoul`, `strstr`, `strcat`, `get_mem_from`).

Planned, in this order:

1. The ARM variants: two-level tables with sections, and the context switch.
2. `KVector` storage under append, erase and copy; `__cxa_atexit`; system call
   dispatch and partial writes; clipping of the framebuffer.
3. `PhysMem` started from what `BootMemory` leaves, instead of `Regions`.

------------------------------ MODULE Multiboot -----------------------------
(***************************************************************************)
(* bootstrap_phys_mem_manager of the i386 port                             *)
(* (kernel/arch/i386/mem/phys_mem.cpp): GRUB's memory map is sorted into   *)
(* unavailable and available regions, in an array put into free memory.    *)
(*                                                                         *)
(* mmap is the memory map, a sequence of [avail, addr, len] with 64-bit    *)
(* numbers.  The array is `slots`; what was never written reads as         *)
(* `garbage`, whatever the memory held.  new_memory is the number of slots *)
(* passed so far, num the number of regions counted.                       *)
(*                                                                         *)
(* The code takes the addresses of phys_kernel_start and phys_kernel_end   *)
(* for the bounds of the kernel.  These are variables (vtopmem.h), so what *)
(* it gets are the virtual addresses of two objects in the kernel's data,  *)
(* `objects`, in the order the linker put them.                            *)
(***************************************************************************)
EXTENDS StartPhysMem, TLC

CONSTANTS
    MmapSize,    \* sizeof(multiboot_memory_map_t)
    Hole,        \* 0xA0'000 - 0xFF'FFF
    MbmpAt       \* the virtual address the memory map is mapped to

VARIABLES mmap, objects, current, slots, new_memory, num, garbage

multiboot_vars == <<mmap, objects, current, slots, new_memory, num, garbage>>

Entry(i) == IF i \in DOMAIN slots THEN slots[i] ELSE garbage
SetSlot(i, r) == (i :> r) @@ slots

sorted_length == (Len(mmap) + 3) * RegionSize

\* phys_uint_kernel_start and phys_uint_kernel_end, as a region.
KernelSlot ==
    [addr |-> objects.start, len |-> Wrap(objects.end - objects.start)]

\* The tests of the search.  The map's place is compared as the virtual
\* address it is mapped to, and each flag tells that the data is avoided.
avoiding_kernel(m) ==
    m.addr > objects.end \/ m.addr + m.len < objects.end
avoiding_grub_memmap(m) ==
    \/ Wrap(m.addr) > MbmpAt + Len(mmap) * MmapSize
    \/ Wrap(m.addr + m.len) < MbmpAt
Usable(m) ==
    /\ m.avail
    /\ m.len >= sorted_length
    /\ m.addr + sorted_length < WordSize - 1
    /\ ~(avoiding_kernel(m) /\ avoiding_grub_memmap(m))

\* The search, and the three regions every machine has.  The address of
\* phys_kernel_start stands for "not found".
FindMap ==
    LET usable == {i \in DOMAIN mmap : Usable(mmap[i])}
        at == IF usable = {} THEN objects.start ELSE Wrap(mmap[Min(usable)].addr)
    IN  /\ boot_pc = "i386"
        /\ \/ /\ at = objects.start
              /\ boot_pc' = "abort"
              /\ UNCHANGED <<slots, num, new_memory, map_at>>
           \/ /\ at # objects.start
              /\ map_at' = at
              /\ slots' = <<[addr |-> at, len |-> sorted_length], KernelSlot, Hole>>
              /\ num' = 3
              /\ new_memory' = 3
              /\ boot_pc' = "unavailable"
        /\ UNCHANGED <<mmap, objects, current, unavailable, available, kernel, garbage>>

\* Merging m into the i-th region.  The region's end is taken after its start
\* has been lowered.
Merged(i, m) ==
    LET start == Min({Wrap(m.addr), Entry(i).addr})
        end == Max({Wrap(m.addr + m.len), Wrap(start + Entry(i).len)})
    IN  [addr |-> start, len |-> Wrap(end - start)]

\* A region that starts before the end of the last slot: merged with the first
\* region it touches, or put in front of the first region with a lower start,
\* or, where it is the lowest of all, forgotten.
OutOfOrder(m) ==
    LET touching == {i \in 1 .. num : /\ m.addr <= EndOf(Entry(i))
                                      /\ m.addr + m.len >= Entry(i).addr}
        lower == {i \in 1 .. num : Entry(i).addr < m.addr}
        at == Min(lower)
    IN  \/ /\ touching # {}
           /\ slots' = SetSlot(Min(touching), Merged(Min(touching), m))
           /\ UNCHANGED num
        \/ /\ touching = {} /\ lower # {}
           /\ slots' = [i \in DOMAIN slots \cup (at .. (num + 1)) |->
                          IF i = at THEN [addr |-> m.addr, len |-> Wrap(m.len)]
                          ELSE IF i \in (at + 1) .. (num + 1) THEN Entry(i - 1)
                          ELSE Entry(i)]
           /\ num' = num + 1
        \/ touching = {} /\ lower = {} /\ UNCHANGED <<slots, num>>

\* A region behind the last slot is put into the next slot, unless it starts
\* at 4 GiB or above.
InOrder(m) ==
    \/ /\ m.addr < WordSize
       /\ slots' = SetSlot(new_memory + 1,
                           [addr |-> m.addr, len |-> Min({m.len, WordSize - m.addr})])
       /\ num' = num + 1
    \/ m.addr >= WordSize /\ UNCHANGED <<slots, num>>

\* One turn of the first loop.  A slot is passed whether or not it was filled.
CopyUnavailable ==
    LET m == mmap[current]
    IN  /\ boot_pc = "unavailable"
        /\ current <= Len(mmap)
        /\ current' = current + 1
        /\ \/ m.avail /\ UNCHANGED <<slots, num, new_memory>>
           \/ /\ ~m.avail
              /\ IF m.addr < EndOf(Entry(new_memory)) THEN OutOfOrder(m) ELSE InOrder(m)
              /\ new_memory' = new_memory + 1
        /\ UNCHANGED <<boot_pc, mmap, objects, unavailable, available, kernel, map_at, garbage>>

ListUnavailable ==
    /\ boot_pc = "unavailable"
    /\ current > Len(mmap)
    /\ unavailable' = [i \in 1 .. num |-> Entry(i)]
    /\ current' = 1
    /\ boot_pc' = "available"
    /\ UNCHANGED <<mmap, objects, slots, new_memory, num, available, kernel, map_at, garbage>>

\* One turn of the second loop.  A region strictly inside an unavailable one
\* is dropped; one that is out of order is only reported.
CopyAvailable ==
    LET m == mmap[current]
        dropped == \E i \in DOMAIN unavailable :
                      /\ m.addr > unavailable[i].addr
                      /\ m.addr + m.len < EndOf(unavailable[i])
    IN  /\ boot_pc = "available"
        /\ current <= Len(mmap)
        /\ current' = current + 1
        /\ available' = IF m.avail /\ ~dropped
                        THEN Append(available, [addr |-> Wrap(m.addr), len |-> Wrap(m.len)])
                        ELSE available
        /\ UNCHANGED <<boot_pc, mmap, objects, slots, new_memory, num, unavailable,
                       kernel, map_at, garbage>>

StartI386 ==
    /\ boot_pc = "available"
    /\ current > Len(mmap)
    /\ boot_pc' = "place"
    /\ UNCHANGED <<multiboot_vars, unavailable, available, kernel, map_at>>

bootstrap_i386 ==
    FindMap \/ CopyUnavailable \/ ListUnavailable \/ CopyAvailable \/ StartI386

=============================================================================

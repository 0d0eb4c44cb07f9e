----------------------------- MODULE BootMemory -----------------------------
(***************************************************************************)
(* The start of the physical memory manager, from what the boot loader or  *)
(* the firmware says about the machine's memory to the list of headers     *)
(* that PhysMem begins with, on either architecture.                       *)
(***************************************************************************)
EXTENDS Multiboot, DeviceTree

CONSTANTS
    Kernels,   \* where the kernel may be loaded
    Objects,   \* where the linker may put the variables phys_kernel_start and
               \* phys_kernel_end: [start, end], virtual addresses
    Maps,      \* GRUB memory maps
    Garbages,  \* what the memory below the array of regions may hold
    Trees,     \* device trees
    RsvMaps,   \* reserved entries of a tree
    TreesAt    \* where a tree may be loaded

boot_vars == <<boot_pc, unavailable, available, kernel, map_at>>
vars == <<boot_vars, start_vars, multiboot_vars, tree_vars, walk_vars>>

InitI386 ==
    /\ boot_pc = "i386"
    /\ mmap \in Maps /\ garbage \in Garbages /\ objects \in Objects
    /\ tree = << >> /\ rsvmap = << >> /\ tree_at = [addr |-> 0, len |-> 0]

InitArm ==
    /\ boot_pc = "arm"
    /\ tree \in Trees /\ rsvmap \in RsvMaps /\ tree_at \in TreesAt
    /\ mmap = << >> /\ garbage = [addr |-> 0, len |-> 0]
    /\ objects = [start |-> 0, end |-> 0]

Init ==
    /\ InitI386 \/ InitArm
    /\ kernel \in Kernels
    /\ map_at = kernel.addr
    /\ unavailable = << >> /\ available = << >>
    /\ current = 1 /\ slots = << >> /\ new_memory = 0 /\ num = 0
    /\ pass = "count" /\ node = 1 /\ calls = << >> /\ counted = 0
    /\ InitStart

Next ==
    \/ bootstrap_i386 /\ UNCHANGED <<start_vars, tree_vars, walk_vars>>
    \/ bootstrap_arm /\ UNCHANGED <<start_vars, multiboot_vars, tree_vars, kernel>>
    \/ start_phys_mem_manager
         /\ UNCHANGED <<kernel, map_at, multiboot_vars, tree_vars, walk_vars>>
    \/ boot_pc \in {"done", "abort", "overflow"} /\ UNCHANGED vars

Spec == Init /\ [][Next]_vars

-----------------------------------------------------------------------------
Disjoint(addr, len, u) == addr + len <= u.addr \/ u.addr + u.len <= addr

\* The memory nobody may be given: what the firmware reserves below 4 GiB, the
\* array of regions, the memory hole of a PC; on ARM the device tree and the
\* kernel.  (The i386 port does not keep its kernel: see KernelKept.)
Taken ==
    LET i386 == mmap # << >>
        Low(e) == [addr |-> e.addr, len |-> Min({e.len, WordSize - e.addr})]
        listed == IF i386 THEN {m \in Range(mmap) : ~m.avail} ELSE Range(rsvmap)
    IN  {Low(e) : e \in {x \in listed : x.addr < WordSize}} \cup
        (IF i386 THEN {Hole, [addr |-> map_at, len |-> sorted_length]}
                 ELSE {kernel, tree_at})

InTheWay(r) == {i \in DOMAIN unavailable : overlap(r, unavailable[i])}
NoneWraps == \A u \in Range(unavailable) : u.addr + u.len < WordSize

\* In each available region, an unavailable one that begins inside leaves a page
\* in front and ends a page before the end, and lies two pages away from every
\* other that is in the way; and none reaches the end of the address space.
WellApart ==
    /\ NoneWraps
    /\ \A r \in Range(available) : \A i \in InTheWay(r) :
         LET u == unavailable[i]
         IN  \/ Covers(u, r)
             \/ /\ u.addr + u.len + PageSize <= r.addr + r.len
                /\ u.addr > r.addr =>
                     /\ r.addr + PageSize <= u.addr
                     /\ \A j \in InTheWay(r) \ {i} :
                          LET v == unavailable[j]
                          IN  \/ u.addr + u.len + 2 * PageSize <= v.addr
                              \/ v.addr + v.len + 2 * PageSize <= u.addr

\* No region of the memory map was merged, forgotten or put out of order.
AllAppended == new_memory = num

\* Once the manager is started, no header covers memory that is taken, however
\* the regions lie and in whatever order they are listed, as long as they are
\* well apart and the map was in order (the splitting of
\* try_add_available_memory_region and the copying that precedes it).
HeadersAvoidTaken ==
    (boot_pc = "done" /\ WellApart /\ AllAppended) =>
        \A h \in Range(headers), u \in Taken :
            h.memory + h.size <= WordSize /\ Disjoint(h.memory, h.size, u)

\* The place of the headers is clear of every unavailable region that ends
\* below 4 GiB, and the array the ARM port fills is clear of the kernel, the
\* tree and what the tree reserves.
PlacesClear ==
    /\ boot_pc \in {"add", "done"} =>
         \A u \in Range(unavailable) : u.addr + u.len < WordSize =>
             Disjoint(phys_hdr_ptr, headers_needed_size, u)
    /\ (Walked /\ pass = "fill") =>
         \A u \in Taken : Disjoint(map_at, sorted_length_arm, u)

\* The place of the headers is claimed, or no header reaches it.
PlaceKept ==
    LET place == [addr |-> phys_hdr_ptr, len |-> headers_needed_size]
    IN  \/ \E c \in own_claimed :
              c.addr <= place.addr /\ place.addr + place.len <= c.addr + c.len
        \/ \A h \in Range(headers) : Disjoint(h.memory, h.size, place)

\* Neither port sorts the available regions: one listed behind a region that
\* follows on it would lower the start of the header the place is in, and
\* get_mem_area would claim the pages at that start.
AvailableInOrder ==
    \A i, j \in DOMAIN available : i < j => available[i].addr <= available[j].addr

\* Headers that fit a page are never part of the memory they hand out: the
\* piece that is claimed for them is the one they lie in.
OwnPlaceKept ==
    (/\ boot_pc = "done" /\ headers_needed_size = PageSize
     /\ WellApart /\ AvailableInOrder) => PlaceKept

\* The space the manager takes for itself is free when it takes it and taken
\* from then on (find_space_in_area of both files, get_mem_area).
PlacesFree == PlacesClear /\ OwnPlaceKept

\* The i386 port keeps its kernel: no header covers it once the manager is
\* started (violated: the region listed for the kernel is the few bytes between
\* two of its variables, at their virtual addresses).
KernelKept ==
    (/\ boot_pc = "done" /\ mmap # << >> /\ objects.start < objects.end
     /\ WellApart /\ AllAppended) =>
        \A h \in Range(headers) : Disjoint(h.memory, h.size, kernel)

\* The innermost node token i lies in.
Enclosing(i) ==
    LET Depth(k) == Cardinality({j \in 1 .. k : tree[j].type = "begin"})
                  - Cardinality({j \in 1 .. k : tree[j].type = "end_node"})
    IN  Max({0} \cup {b \in 1 .. (i - 1) :
                        /\ tree[b].type = "begin"
                        /\ \A k \in b .. (i - 1) : Depth(k) >= Depth(b)})

\* The tokens a walk reaches: up to the end of the outermost node.
Regs ==
    LET Open(k) == \A j \in 1 .. (k - 1) :
                       Cardinality({b \in 1 .. j : tree[b].type = "begin"})
                         >= Cardinality({e \in 1 .. j : tree[e].type = "end_node"})
        Is(k) == /\ tree[k].type = "prop" /\ tree[k].reg
                 /\ Enclosing(k) # 0 /\ tree[Enclosing(k)].memory
                 /\ Open(k)
    IN  SelectSeq([k \in DOMAIN tree |-> k], Is)

\* The three walks agree: the regions filled in are the reg properties of just
\* the nodes named memory, in order and none from the nodes around or inside
\* them, and as many as were counted when the array was sized.
WalksAgree ==
    (Walked /\ pass = "fill") =>
        /\ available = [n \in DOMAIN Regs |->
                          [addr |-> tree[Regs[n]].addr, len |-> tree[Regs[n]].len]]
        /\ Len(available) = counted
        /\ (Len(unavailable) + Len(available)) * RegionSize <= sorted_length_arm

=============================================================================

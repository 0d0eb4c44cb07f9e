------------------------------- MODULE Memory -------------------------------
(***************************************************************************)
(* get_mem and free_mem (kernel/kernel/mem.cpp) on top of the physical and *)
(* the virtual memory manager, together with drivers that map the memory   *)
(* of a device.                                                            *)
(*                                                                         *)
(* The physical memory manager is the abstract one, AreaAllocator; PhysMem *)
(* is shown to implement it.                                               *)
(***************************************************************************)
EXTENDS Paging

CONSTANTS
    Ram,      \* addresses of the memory that can be handed out
    Lengths,  \* byte counts asked of get_mem
    Devices   \* [addr, len] of the memory a driver maps

\* Every caller of get_mem asks for at least one byte.
ASSUME InputAssumption ==
    /\ Ram \subseteq Nat
    /\ Lengths \subseteq Nat \ {0}
    /\ Devices \subseteq [addr : Nat, len : Nat]

VARIABLES
    areas,      \* the physical areas get_mem_area handed out
    held,       \* what callers of get_mem hold: [virt, len]
    devices,    \* what drivers hold: [virt, dev]
    exhausted,  \* map_range has failed for want of virtual memory
    status      \* "ok" or "abort"

vars == <<spinlock_vars, paging_vars, areas, held, devices, exhausted, status>>

PMM == INSTANCE AreaAllocator

Init ==
    /\ SpinlockInit
    /\ irq_on = TRUE
    /\ PagingInit
    /\ PMM!Init
    /\ held = {}
    /\ devices = {}
    /\ exhausted = FALSE
    /\ status = "ok"

-----------------------------------------------------------------------------

\* get_mem(&virt, len).  mem_no_physmem changes nothing.
GetMem(len) ==
    /\ status = "ok"
    /\ \E phys \in Ram :
          /\ PMM!Acquire([addr |-> phys, len |-> len])
          /\ map_range(phys, len)
          /\ held' = held \cup {[virt |-> map_range_virt(phys, len), len |-> len]}
    /\ UNCHANGED <<devices, exhausted, status>>

\* mem_no_virtmem: the physical area is not given back.
GetMemNoVirtMem(len) ==
    /\ status = "ok"
    /\ \E phys \in Ram :
          /\ PMM!Acquire([addr |-> phys, len |-> len])
          /\ map_range_no_virtmem(phys, len)
    /\ exhausted' = TRUE
    /\ UNCHANGED <<held, devices, status>>

\* map_already_mapped: "The VMM has a bug!".
GetMemAbort(len) ==
    /\ status = "ok"
    /\ \E phys \in Ram :
          /\ PMM!Acquire([addr |-> phys, len |-> len])
          /\ map_range_already_mapped(phys, len)
    /\ status' = "abort"
    /\ UNCHANGED <<held, devices, exhausted>>

\* As FreeMem below, except that PHYS_ADDR_AUTO is not passed on.
FreeMemUnmapOnly(block) ==
    /\ status = "ok"
    /\ block \in held
    /\ unmap_range(block.virt, block.len)
    /\ held' = held \ {block}
    /\ UNCHANGED <<areas, devices, exhausted, status>>

\* free_mem by the holder: unmap_range with PHYS_ADDR_AUTO frees the physical
\* area the first page is mapped to, then unmaps.
FreeMem(block) ==
    /\ status = "ok"
    /\ block \in held
    /\ PMM!Release([addr |-> virt_to_phys(block.virt), len |-> block.len])
    /\ unmap_range(block.virt, block.len)
    /\ held' = held \ {block}
    /\ UNCHANGED <<devices, exhausted, status>>

\* A driver maps its device, as framebuffer::init does; Ram leaves out what
\* ensure_not_allocatable has withdrawn for it ...
MapDevice(dev) ==
    /\ status = "ok"
    /\ map_range(dev.addr, dev.len)
    /\ devices' = devices \cup
          {[virt |-> map_range_virt(dev.addr, dev.len), dev |-> dev]}
    /\ UNCHANGED <<areas, held, exhausted, status>>

MapDeviceFails(dev) ==
    /\ status = "ok"
    /\ \/ map_range_no_virtmem(dev.addr, dev.len) /\ exhausted' = TRUE
       \/ map_range_already_mapped(dev.addr, dev.len) /\ UNCHANGED exhausted
    /\ UNCHANGED <<areas, held, devices, status>>

\* ... and unmaps it, as framebuffer::wrapUp does.
UnmapDevice(mapping) ==
    /\ status = "ok"
    /\ mapping \in devices
    /\ unmap_range(mapping.virt, mapping.dev.len)
    /\ devices' = devices \ {mapping}
    /\ UNCHANGED <<areas, held, exhausted, status>>

\* abort() never returns.
Stopped == status = "abort" /\ UNCHANGED vars

Next ==
    \/ \E len \in Lengths : GetMem(len) \/ GetMemNoVirtMem(len) \/ GetMemAbort(len)
    \/ \E block \in held : FreeMem(block)
    \/ \E dev \in Devices : MapDevice(dev) \/ MapDeviceFails(dev)
    \/ \E mapping \in devices : UnmapDevice(mapping)
    \/ Stopped

Spec == Init /\ [][Next]_vars

-----------------------------------------------------------------------------
(* Properties.                                                             *)

\* Every variable keeps its type.
TypeOK ==
    /\ SpinlockTypeOK
    /\ page_tables \in [PageNumbers -> [present : BOOLEAN, frame : Nat]]
    /\ page_tables_searchable \in [PageNumbers -> BOOLEAN]
    /\ \A block \in held : block.virt \in 1 .. MaxVirtMem /\ block.len \in Lengths
    /\ \A m \in devices : m.virt \in 1 .. MaxVirtMem /\ m.dev \in Devices
    /\ exhausted \in BOOLEAN
    /\ status \in {"ok", "abort"}

\* "Keep in sync with the CPU's page tables!": outside the recursive mapping the
\* table that is searched and the one the CPU uses agree after every call.
SearchableInSync ==
    \A p \in PageNumbers \ RecursivePages :
       page_tables_searchable[p] = page_tables[p].present

BlockPages(block) == PagesFrom(pte_offset(block.virt), block.len)
DevicePages(m) == PagesFrom(pte_offset(m.virt),
                            m.dev.len + page_offset(m.dev.addr))

\* Each block is mapped, page by page, to an area of physical memory that is its
\* own: no page of it is the kernel's or another holder's, physical or virtual,
\* and the area can be found again from the address to free it.
BlocksMapped ==
    /\ \A b \in held :
          /\ \A p \in BlockPages(b) :
                /\ p \notin KernelPages \cup RecursivePages
                /\ page_tables[p].present
                /\ page_tables[p].frame
                      = pte_offset(virt_to_phys(b.virt)) + (p - pte_offset(b.virt))
          /\ [addr |-> virt_to_phys(b.virt), len |-> b.len] \in areas
    /\ \A b, c \in held : b # c =>
          /\ BlockPages(b) \cap BlockPages(c) = {}
          /\ virt_to_phys(b.virt) # virt_to_phys(c.virt)
    /\ \A b \in held, m \in devices : BlockPages(b) \cap DevicePages(m) = {}

\* Nothing stays allocated that nobody can free, until virtual memory has run
\* out once (get_mem then keeps the physical area) or get_mem gave up.
NoPhysicalLeak ==
    exhausted \/ status = "abort" \/ Cardinality(areas) = Cardinality(held)

\* Interrupts are off between calls only if map_range has run out of virtual
\* memory: no other path leaves modifying_page_tables taken.
InterruptsRestored == exhausted \/ (irq_on /\ ~flag)

\* "Unmap all the pages from virt_addr to virt_addr+len": what is mapped is the
\* kernel's, some holder's or some driver's.
\* The code does not achieve it for devices that start inside a page.
NothingLeftMapped ==
    \A p \in PageNumbers \ (KernelPages \cup RecursivePages) :
       isMapped(p) => \/ \E b \in held : p \in BlockPages(b)
                      \/ \E m \in devices : p \in DevicePages(m)

=============================================================================

------------------------------- MODULE Paging -------------------------------
(***************************************************************************)
(* The i386 virtual memory manager                                         *)
(* (kernel/arch/i386/virt_mem/paging.cpp).                                 *)
(*                                                                         *)
(* setup_paging makes every page directory entry present, so the two       *)
(* levels act as one table of page table entries, indexed by page number;  *)
(* of an entry only the present bit and the address matter, and the address *)
(* of an entry that is not present, which is never read, is 0.  A virtual  *)
(* address is a number below MaxVirtMem, where 32-bit arithmetic wraps.    *)
(*                                                                         *)
(* Each public function holds modifying_page_tables, hence runs with       *)
(* interrupts off: it is a single step of its caller.                      *)
(***************************************************************************)
EXTENDS Spinlock, Naturals, FiniteSets

CONSTANTS
    PageSize,        \* PHYS_MEM_CHUNK_SIZE
    NumPages,        \* pages of the address space: MAX_VIRT_MEM / PageSize
    KernelPages,     \* pages from kernel_start to kernel_end
    RecursivePages   \* pages at the top through which page tables are edited

ASSUME PagesAssumption ==
    /\ PageSize \in Nat \ {0} /\ NumPages \in Nat \ {0}
    /\ KernelPages \subseteq 1 .. (NumPages - 1)
    /\ RecursivePages \subseteq 1 .. (NumPages - 1)

VARIABLES
    page_tables,            \* page number |-> [present, frame]
    page_tables_searchable  \* page number |-> BOOLEAN, "keep in sync"

paging_vars == <<page_tables, page_tables_searchable>>

PageNumbers == 0 .. (NumPages - 1)
MaxVirtMem == NumPages * PageSize
NULL == 0

page_offset(addr) == addr % PageSize
pte_offset(addr) == addr \div PageSize
bytes_to_pages(len) == (len + PageSize - 1) \div PageSize

-----------------------------------------------------------------------------
(* setup_paging: the kernel's own pages, whose frames are not told apart,  *)
(* and the recursive mapping.                                              *)

PagingInit ==
    /\ page_tables = [p \in PageNumbers |->
                        [present |-> p \in KernelPages, frame |-> 0]]
    /\ page_tables_searchable =
          [p \in PageNumbers |-> p \in KernelPages \cup RecursivePages]

isMapped(p) == page_tables_searchable[p]

-----------------------------------------------------------------------------
(* Looking for free virtual memory.                                        *)

\* The last page free_from_here looks at.  The sum wraps at the end of the
\* address space; the increment does not.
LastPageNeeded(base, needed) ==
    LET last == pte_offset((base * PageSize + needed) % MaxVirtMem)
    IN  IF page_offset(needed) # 0 /\ last < NumPages - 1 THEN last + 1 ELSE last

\* The mapped pages in the way of `needed' bytes from page base on.
Blocked(base, needed) ==
    {p \in base .. LastPageNeeded(base, needed) : isMapped(p)}

WouldOverflow(base, needed) == base * PageSize + needed > MaxVirtMem

free_from_here(base, needed) ==
    ~WouldOverflow(base, needed) /\ Blocked(base, needed) = {}

\* The first page from which len bytes are found free, NULL if there is none.
\* A failed attempt goes on behind the first page that was in the way.
find_free_virtmem(len) ==
    LET search[base \in 1 .. NumPages] ==
            IF base >= NumPages - 1 \/ WouldOverflow(base, len) THEN NULL
            ELSE LET blocked == Blocked(base, len)
                 IN  IF blocked = {} THEN base
                     ELSE search[1 + CHOOSE p \in blocked :
                                        \A q \in blocked : p <= q]
    IN  search[1]

-----------------------------------------------------------------------------
(* Mapping and unmapping.                                                  *)

PagesFrom(base, len) == base .. (base + bytes_to_pages(len) - 1)

\* The loop of internal_map_range meets a page map_page refuses: whatever was
\* mapped before it is unmapped again.
MapFails(base, len) ==
    \/ ~free_from_here(base, len)
    \/ \E p \in PagesFrom(base, len) : isMapped(p)

\* As internal_map_range below, except that the physical page stays the first.
internal_map_range_same_frame(frame, len, base) ==
    /\ page_tables' = [p \in PageNumbers |->
          IF p \in PagesFrom(base, len)
          THEN [present |-> TRUE, frame |-> frame]
          ELSE page_tables[p]]
    /\ page_tables_searchable' = [p \in PageNumbers |->
          p \in PagesFrom(base, len) \/ page_tables_searchable[p]]

\* As internal_map_range below, except that only the CPU's table is changed.
internal_map_range_not_searchable(frame, len, base) ==
    /\ page_tables' = [p \in PageNumbers |->
          IF p \in PagesFrom(base, len)
          THEN [present |-> TRUE, frame |-> frame + (p - base)]
          ELSE page_tables[p]]
    /\ UNCHANGED page_tables_searchable

\* internal_map_range maps len bytes from frame on at page base.
internal_map_range(frame, len, base) ==
    /\ page_tables' = [p \in PageNumbers |->
          IF p \in PagesFrom(base, len)
          THEN [present |-> TRUE, frame |-> frame + (p - base)]
          ELSE page_tables[p]]
    /\ page_tables_searchable' = [p \in PageNumbers |->
          p \in PagesFrom(base, len) \/ page_tables_searchable[p]]

\* Taking and giving back the lock around a call leaves interrupts as they were.
Locked ==
    /\ flag' = FALSE
    /\ stored_flags' = irq_on
    /\ UNCHANGED irq_on

\* As map_range_virt below, except that all of the physical address is added.
map_range_virt_unmasked(phys, len) ==
    find_free_virtmem(len + page_offset(phys)) * PageSize + phys

\* The address map_range stores in *virt_addr.
map_range_virt(phys, len) ==
    find_free_virtmem(len + page_offset(phys)) * PageSize + page_offset(phys)

\* map_range(phys_addr, len, &virt_addr, 0) with its three results.
map_range(phys, len) ==
    LET needed == len + page_offset(phys)
        base == find_free_virtmem(needed)
    IN  /\ base # NULL
        /\ ~MapFails(base, needed)
        /\ internal_map_range(pte_offset(phys), needed, base)
        /\ Locked

\* map_no_virtmem returns without releasing the lock.
map_range_no_virtmem(phys, len) ==
    /\ find_free_virtmem(len + page_offset(phys)) = NULL
    /\ acquire_lock
    /\ UNCHANGED paging_vars

\* As map_range_already_mapped below, except that the lock is kept here too.
map_range_already_mapped_locked(phys, len) ==
    LET needed == len + page_offset(phys)
        base == find_free_virtmem(needed)
    IN  /\ base # NULL
        /\ MapFails(base, needed)
        /\ acquire_lock
        /\ UNCHANGED paging_vars

map_range_already_mapped(phys, len) ==
    LET needed == len + page_offset(phys)
        base == find_free_virtmem(needed)
    IN  /\ base # NULL
        /\ MapFails(base, needed)
        /\ Locked
        /\ UNCHANGED paging_vars

virt_to_phys(virt) == page_tables[pte_offset(virt)].frame * PageSize

\* As unmap_range below, except that the last page is left out.
unmap_range_one_less(virt, len) ==
    LET pages == PagesFrom(pte_offset(virt), IF len > PageSize THEN len - PageSize ELSE len)
    IN  /\ \A p \in pages : isMapped(p)
        /\ page_tables' = [p \in PageNumbers |->
              IF p \in pages THEN [present |-> FALSE, frame |-> 0]
              ELSE page_tables[p]]
        /\ page_tables_searchable' = [p \in PageNumbers |->
              p \notin pages /\ page_tables_searchable[p]]
        /\ Locked

\* unmap_range(virt, len): the number of pages does not count the offset of
\* virt in its page.  map_notmapped changes nothing.
unmap_range(virt, len) ==
    LET pages == PagesFrom(pte_offset(virt), len)
    IN  /\ \A p \in pages : isMapped(p)
        /\ page_tables' = [p \in PageNumbers |->
              IF p \in pages THEN [present |-> FALSE, frame |-> 0]
              ELSE page_tables[p]]
        /\ page_tables_searchable' = [p \in PageNumbers |->
              p \notin pages /\ page_tables_searchable[p]]
        /\ Locked

=============================================================================

---------------------------- MODULE AreaAllocator ---------------------------
(***************************************************************************)
(* What the rest of the kernel expects of the physical memory manager      *)
(* ("Aquire len unused bytes", "Return len bytes starting at addr" in      *)
(* kernel/mem.h): areas of whole pages that have one holder at a time.     *)
(***************************************************************************)
EXTENDS Naturals

CONSTANTS
    PageSize,  \* PHYS_MEM_CHUNK_SIZE
    Lengths,   \* byte counts callers ask for
    Ram        \* the addresses of the memory being managed

VARIABLE areas  \* the [addr, len] handed out and not yet freed

\* Every address of the pages an area touches.
Span(area) ==
    ((area.addr \div PageSize) * PageSize) ..
       ((((area.addr + area.len + PageSize - 1) \div PageSize) * PageSize) - 1)

Unheld == Ram \ UNION {Span(a) : a \in areas}

Init == areas = {}

\* get_mem_area succeeds.  pmm_nomem, which may also be due to fragmentation,
\* changes nothing.
Acquire(area) ==
    /\ area.addr % PageSize = 0
    /\ Span(area) \subseteq Unheld
    /\ areas' = areas \cup {area}

\* free_mem_area succeeds, for the holder of an area.
Release(area) ==
    /\ area \in areas
    /\ areas' = areas \ {area}

Next ==
    \/ \E addr \in Ram, len \in Lengths : Acquire([addr |-> addr, len |-> len])
    \/ \E area \in areas : Release(area)

Spec == Init /\ [][Next]_areas

=============================================================================

------------------------------- MODULE PhysMem ------------------------------
(***************************************************************************)
(* The physical memory manager once it is started                          *)
(* (kernel/kernel/phys_mem.cpp).                                           *)
(*                                                                         *)
(* A doubly linked list of PhysMemHeaders covers the RAM.  The headers     *)
(* themselves live in chunks of HeadersPerChunk slots; when the slots run  *)
(* out a chunk is taken from the very memory being managed.  A slot's      *)
(* number plays the part of its address, 0 that of nullptr.                *)
(*                                                                         *)
(* modifying_pmm keeps interrupts off during each public function, so a    *)
(* call is one step.  What callers hold (areas, framebuffers) is not kept  *)
(* by the code.                                                            *)
(***************************************************************************)
EXTENDS Naturals, Sequences, FiniteSets

CONSTANTS
    PageSize,         \* PHYS_MEM_CHUNK_SIZE
    WordSize,         \* uintptr_t arithmetic wraps here
    HeadersPerChunk,  \* slots of a PhysMemHeaderList
    MaxChunks,        \* bound: chunks the run can add up
    Regions,          \* the headers start_phys_mem_manager built, in list order
    Lengths,          \* byte counts callers ask for
    ReserveAddrs,     \* addresses they reserve
    Framebuffers      \* [addr, len] a framebuffer driver withdraws

ASSUME PageAssumption == PageSize \in Nat \ {0} /\ WordSize \in Nat
ASSUME ChunkAssumption ==
    /\ HeadersPerChunk \in Nat \ {0} /\ MaxChunks \in Nat \ {0}
    /\ Len(Regions) \in 1 .. (HeadersPerChunk - 1)
ASSUME InputAssumption == Lengths \subseteq Nat /\ ReserveAddrs \subseteq Nat

VARIABLES
    headers,            \* slot |-> PhysMemHeader, for every allocated slot
    first_header,
    headers_in_use,
    headers_allocated,
    wild_next,          \* the last chunk's next pointer was never written
    status,             \* "ok", "abort" or "fault" (a wild pointer followed)
    chunks,             \* physical addresses of the chunks behind first_chunk
    areas,              \* [addr, len] handed out and not yet freed
    framebuffers        \* the Framebuffers withdrawn so far

vars == <<headers, first_header, headers_in_use, headers_allocated, wild_next,
          status, chunks, areas, framebuffers>>

NULL == 0

-----------------------------------------------------------------------------
(* Pages and lists.                                                        *)

\* A page rounds an address down, round_up_to_page rounds up and may wrap.
page(a) == (a \div PageSize) * PageSize
round_up_to_page(len) == page((len + PageSize - 1) % WordSize)

EndOf(h) == h.memory + h.size

\* The n-th header of the list, NULL behind its end.
Nth(hs, first) ==
    LET nth[n \in DOMAIN hs] ==
            IF n = 1 THEN first
            ELSE LET before == nth[n - 1]
                 IN  IF before = NULL THEN NULL ELSE hs[before].next
    IN  nth

Listed(hs, first) ==
    LET nth == Nth(hs, first) IN {nth[n] : n \in DOMAIN hs} \ {NULL}

\* A walk along the list that stops at the first header satisfying Found.
FirstInList(hs, Found(_)) ==
    LET nth == Nth(hs, first_header)
        hits == {n \in DOMAIN hs : nth[n] # NULL /\ Found(hs[nth[n]])}
    IN  IF hits = {} THEN NULL
        ELSE nth[CHOOSE n \in hits : \A m \in hits : n <= m]

\* Bug: a header that is large enough will do, allocated or not.
find_free_pages_used(hs, len) ==
    LET Large(h) == h.size >= len
    IN  FirstInList(hs, Large)

\* Bug: any free header will do, however small.
find_free_pages_any(hs, len) ==
    LET Free(h) == ~h.in_use
    IN  FirstInList(hs, Free)

find_free_pages(hs, len) ==
    LET Fits(h) == ~h.in_use /\ h.size >= len
    IN  FirstInList(hs, Fits)

\* The end of a header counts as part of it here: >= in the code.
HeaderHolding(hs, addr) ==
    LET Holds(h) == h.memory <= addr /\ EndOf(h) >= addr
    IN  FirstInList(hs, Holds)

find_header_for_page(hs, addr, len) ==
    LET found == HeaderHolding(hs, addr)
    IN  IF found = NULL \/ hs[found].in_use \/ hs[found].size < len
        THEN NULL ELSE found

SetNext(hs, p, value) == IF p = NULL THEN hs ELSE [hs EXCEPT ![p].next = value]
SetPrev(hs, p, value) == IF p = NULL THEN hs ELSE [hs EXCEPT ![p].prev = value]

-----------------------------------------------------------------------------

\* A slot that describes no memory; nothing but header_in_use is read from one.
UnusedSlot == [next |-> NULL, prev |-> NULL, memory |-> 0, size |-> 0,
               in_use |-> FALSE, header_in_use |-> FALSE]

\* start_phys_mem_manager's result: one slot per region, linked in order.
Init ==
    /\ headers = [s \in 1 .. HeadersPerChunk |->
                    IF s > Len(Regions) THEN UnusedSlot
                    ELSE [next |-> IF s = Len(Regions) THEN NULL ELSE s + 1,
                          prev |-> s - 1,
                          memory |-> Regions[s].memory, size |-> Regions[s].size,
                          in_use |-> FALSE, header_in_use |-> TRUE]]
    /\ first_header = 1
    /\ headers_in_use = Len(Regions)
    /\ headers_allocated = HeadersPerChunk
    /\ wild_next = FALSE
    /\ status = "ok"
    /\ chunks = {}
    /\ areas = {}
    /\ framebuffers = {}

-----------------------------------------------------------------------------
(* Getting a header.                                                       *)

NeedsChunk == headers_in_use + 1 >= headers_allocated

\* The first unused slot, chunk by chunk.
FreeSlot(hs, s) == /\ ~hs[s].header_in_use
                   /\ \A t \in DOMAIN hs : t < s => hs[t].header_in_use

internal_claim_mem_area(hs, h) == [hs EXCEPT ![h].in_use = TRUE]

\* get_header_chunk: find_free_pages(1) asks for page(1), which is 0 bytes, so
\* the first free header will do; all of it is claimed for the chunk.
ChunkMemory(hs) == find_free_pages(hs, page(1))

\* Bug: the memory of the chunk is not claimed.
AddChunkUnclaimed(hs) ==
    [s \in 1 .. (headers_allocated + HeadersPerChunk) |->
        IF s \in DOMAIN hs THEN hs[s] ELSE UnusedSlot]

AddChunk(hs) ==
    LET claimed == internal_claim_mem_area(hs, ChunkMemory(hs))
    IN  [s \in 1 .. (headers_allocated + HeadersPerChunk) |->
            IF s \in DOMAIN hs THEN claimed[s] ELSE UnusedSlot]

\* Bug: h keeps its size when the rest is split off.
LinkUnshrunk(hs, h, t, len) ==
    LET rest == [next |-> hs[h].next, prev |-> h,
                 memory |-> hs[h].memory + len, size |-> hs[h].size - len,
                 in_use |-> FALSE, header_in_use |-> TRUE]
    IN  [SetPrev([hs EXCEPT ![h].next = t], hs[h].next, t) EXCEPT ![t] = rest]

\* Put slot t behind h, with all of h but its first len bytes.
Link(hs, h, t, len) ==
    LET rest == [next |-> hs[h].next, prev |-> h,
                 memory |-> hs[h].memory + len, size |-> hs[h].size - len,
                 in_use |-> FALSE, header_in_use |-> TRUE]
    IN  [SetPrev([hs EXCEPT ![h].next = t, ![h].size = len], hs[h].next, t)
            EXCEPT ![t] = rest]

\* Nothing to split off, or no header to describe the rest: "Returning extra
\* memory".  get_header_chunk fails without free memory or if map_range does.
NoSplit(hs, h, len) ==
    /\ \/ hs[h].size = len
       \/ /\ hs[h].size # len /\ NeedsChunk /\ ~wild_next
    /\ headers' = hs
    /\ UNCHANGED <<headers_in_use, headers_allocated, wild_next, status, chunks>>

SplitWithSlot(hs, h, len) ==
    /\ hs[h].size # len /\ ~NeedsChunk
    /\ \E t \in DOMAIN hs :
          FreeSlot(hs, t) /\ headers' = Link(hs, h, t, len)
    /\ headers_in_use' = headers_in_use + 1
    /\ UNCHANGED <<headers_allocated, wild_next, status, chunks>>

\* A new chunk.  Its next pointer is not initialised: it holds whatever was in
\* that memory, null or not.
SplitWithChunk(hs, h, len) ==
    /\ hs[h].size # len /\ NeedsChunk /\ ~wild_next
    /\ ChunkMemory(hs) # NULL
    /\ headers_allocated < MaxChunks * HeadersPerChunk
    /\ headers' = Link(AddChunk(hs), h, headers_allocated + 1, len)
    /\ headers_in_use' = headers_in_use + 1
    /\ headers_allocated' = headers_allocated + HeadersPerChunk
    /\ wild_next' \in BOOLEAN
    /\ chunks' = chunks \cup {hs[ChunkMemory(hs)].memory}
    /\ UNCHANGED status

\* Looking for the last chunk runs along the uninitialised next pointer.
SplitFaults(hs, h, len) ==
    /\ hs[h].size # len /\ NeedsChunk /\ wild_next
    /\ headers' = hs
    /\ status' = "fault"
    /\ UNCHANGED <<headers_in_use, headers_allocated, wild_next, chunks>>

\* split_header_at_len, with get_new_header and get_header_chunk inside.
split_header_at_len(hs, h, len) ==
    \/ NoSplit(hs, h, len)
    \/ SplitWithSlot(hs, h, len)
    \/ SplitWithChunk(hs, h, len)
    \/ SplitFaults(hs, h, len)

-----------------------------------------------------------------------------
(* The public functions.                                                   *)

\* What every walk asserts of each header it meets.  Only first_header can
\* point to a header that is no longer in use.
FirstInUse == headers[first_header].header_in_use

\* get_mem_area(&addr, len): first fit.  Without one, pmm_nomem and no change.
AcquireArea(len) ==
    /\ status = "ok" /\ FirstInUse
    /\ LET h == find_free_pages(headers, round_up_to_page(len))
       IN  /\ h # NULL
           /\ split_header_at_len(internal_claim_mem_area(headers, h), h,
                                  round_up_to_page(len))
           /\ areas' = areas \cup {[addr |-> headers[h].memory, len |-> len]}
    /\ UNCHANGED <<first_header, framebuffers>>

\* get_mem_area(addr, len).  "Remove stuff from before it" is guarded by
\* header->memory > addr, which find_header_for_page has just excluded.
ReserveArea(addr, len) ==
    /\ status = "ok" /\ FirstInUse
    /\ LET h == find_header_for_page(headers, addr, len)
       IN  /\ h # NULL
           /\ split_header_at_len(internal_claim_mem_area(headers, h), h,
                                  round_up_to_page(len))
           /\ areas' = areas \cup {[addr |-> addr, len |-> len]}
    /\ UNCHANGED <<first_header, framebuffers>>

\* merge_adjacent_headers, first half: swallow the free header behind h.
JoinsNext(hs, h) ==
    /\ hs[h].next # NULL
    /\ ~hs[hs[h].next].in_use
    /\ EndOf(hs[h]) = hs[hs[h].next].memory

MergeNext(hs, h) ==
    LET n == hs[h].next
    IN  IF JoinsNext(hs, h)
        THEN SetPrev([hs EXCEPT ![n] = UnusedSlot,
                                ![h].size = @ + hs[n].size,
                                ![h].next = hs[n].next], hs[n].next, h)
        ELSE hs

\* Bug: the header's size is compared where its end should be.
JoinsPrevBySize(hs, h) ==
    /\ hs[h].prev # NULL
    /\ ~hs[hs[h].prev].in_use
    /\ hs[hs[h].prev].size = hs[h].memory

\* Second half: be swallowed by the free header before.
JoinsPrev(hs, h) ==
    /\ hs[h].prev # NULL
    /\ ~hs[hs[h].prev].in_use
    /\ EndOf(hs[hs[h].prev]) = hs[h].memory

\* Bug: the header behind still points back to the slot given up.
MergePrevNoBacklink(hs, h) ==
    LET p == hs[h].prev
    IN  IF JoinsPrev(hs, h)
        THEN [hs EXCEPT ![h] = UnusedSlot, ![p].size = @ + hs[h].size,
                        ![p].next = hs[h].next]
        ELSE hs

MergePrev(hs, h) ==
    LET p == hs[h].prev
    IN  IF JoinsPrev(hs, h)
        THEN SetPrev([hs EXCEPT ![h] = UnusedSlot,
                                ![p].size = @ + hs[h].size,
                                ![p].next = hs[h].next], hs[h].next, p)
        ELSE hs

One(b) == IF b THEN 1 ELSE 0

\* The header an address lies in, for free_mem_area; here its end is outside.
HeaderOf(addr) ==
    LET Holds(h) == h.memory <= addr /\ EndOf(h) > addr
    IN  FirstInList(headers, Holds)

\* free_mem_area(addr, len) by the holder of an area.
FreeArea(area) ==
    /\ status = "ok" /\ FirstInUse
    /\ area \in areas
    /\ LET h == HeaderOf(area.addr)
           freed == [headers EXCEPT ![h].in_use = FALSE]
           merged == MergeNext(freed, h)
       IN  /\ h # NULL
           /\ EndOf(headers[h]) >= area.addr + area.len
           /\ headers[h].in_use
           /\ headers' = MergePrev(merged, h)
           /\ headers_in_use' = headers_in_use - One(JoinsNext(freed, h))
                                               - One(JoinsPrev(merged, h))
    /\ areas' = areas \ {area}
    /\ UNCHANGED <<first_header, headers_allocated, wild_next, status, chunks,
                   framebuffers>>

\* pmm_invalid: no header, or a free one, at that address.
FreeInvalid(area) ==
    /\ status = "ok" /\ FirstInUse
    /\ area \in areas
    /\ LET h == HeaderOf(area.addr)
       IN  h # NULL => /\ EndOf(headers[h]) >= area.addr + area.len
                       /\ ~headers[h].in_use
    /\ areas' = areas \ {area}
    /\ UNCHANGED <<headers, first_header, headers_in_use, headers_allocated,
                   wild_next, status, chunks, framebuffers>>

\* "Attempt to free area, but header only covers ...": abort.
FreeAbort(area) ==
    /\ status = "ok" /\ FirstInUse
    /\ area \in areas
    /\ LET h == HeaderOf(area.addr)
       IN  h # NULL /\ EndOf(headers[h]) < area.addr + area.len
    /\ status' = "abort"
    /\ UNCHANGED <<headers, first_header, headers_in_use, headers_allocated,
                   wild_next, chunks, areas, framebuffers>>

\* assert(cur_header->header_in_use) fails in the next call, whichever it is.
AssertFails ==
    /\ status = "ok" /\ ~FirstInUse
    /\ status' = "abort"
    /\ UNCHANGED <<headers, first_header, headers_in_use, headers_allocated,
                   wild_next, chunks, areas, framebuffers>>

\* One header of ensure_not_allocatable's walk.  Ranges that only touch count
\* as overlapping; a page drops the low bits of what is stored in it.
Covers(fb, h) == fb.addr <= h.memory /\ fb.addr + fb.len >= EndOf(h)
Touches(fb, h) == fb.addr + fb.len >= h.memory /\ fb.addr <= EndOf(h)

Withdraw(fb, h) ==
    IF ~Touches(fb, h) THEN h
    ELSE IF Covers(fb, h) THEN [h EXCEPT !.in_use = FALSE, !.header_in_use = FALSE]
    ELSE IF fb.addr <= h.memory
         THEN [h EXCEPT !.memory = page(fb.addr + fb.len),
                        !.size = page(EndOf(h) - (fb.addr + fb.len))]
    ELSE [h EXCEPT !.size = page(fb.addr - h.memory)]

\* Neither end covered: the code gives up and aborts.
Inside(fb, h) == fb.addr > h.memory /\ fb.addr + fb.len < EndOf(h)

\* The neighbour of s, in the direction of the links given, that is left when
\* every covered header is taken out of the list; first_header and
\* headers_in_use are not updated.
Skip(links, gone, s) ==
    LET skip[n \in 0 .. Cardinality(DOMAIN links)] ==
            IF n = 0 THEN links[s]
            ELSE LET s0 == skip[n - 1]
                 IN  IF s0 \in gone THEN links[s0] ELSE s0
    IN  skip[Cardinality(DOMAIN links)]

ensure_not_allocatable(fb) ==
    LET listed == Listed(headers, first_header)
        gone == {s \in listed : Touches(fb, headers[s]) /\ Covers(fb, headers[s])}
        nexts == [s \in DOMAIN headers |-> headers[s].next]
        prevs == [s \in DOMAIN headers |-> headers[s].prev]
    IN  [s \in DOMAIN headers |->
            IF s \notin listed THEN headers[s]
            ELSE [Withdraw(fb, headers[s]) EXCEPT
                    !.next = IF s \in gone THEN @ ELSE Skip(nexts, gone, s),
                    !.prev = Skip(prevs, gone, s)]]

\* The pages two address ranges touch are different ones.
Apart(a, b) == \/ round_up_to_page(a.addr + a.len) <= page(b.addr)
               \/ round_up_to_page(b.addr + b.len) <= page(a.addr)

Unused(fb) == /\ \A area \in areas : Apart(fb, area)
              /\ \A c \in chunks : Apart(fb, [addr |-> c, len |-> PageSize])

\* framebuffer::init, during boot, with memory that is not in use.
WithdrawFramebuffer(fb) ==
    /\ status = "ok"
    /\ fb \notin framebuffers
    /\ Unused(fb)
    /\ \A s \in Listed(headers, first_header) : ~Inside(fb, headers[s])
    /\ headers' = ensure_not_allocatable(fb)
    /\ framebuffers' = framebuffers \cup {fb}
    /\ UNCHANGED <<first_header, headers_in_use, headers_allocated, wild_next,
                   status, chunks, areas>>

\* "Need to split range!": the only header it overlaps would fall in two.
WithdrawAbort(fb) ==
    /\ status = "ok"
    /\ fb \notin framebuffers
    /\ Unused(fb)
    /\ \E s \in Listed(headers, first_header) : Inside(fb, headers[s])
    /\ status' = "abort"
    /\ UNCHANGED <<headers, first_header, headers_in_use, headers_allocated,
                   wild_next, chunks, areas, framebuffers>>

-----------------------------------------------------------------------------

\* abort() and a page fault in the kernel both end in an endless loop.
Stopped == status # "ok" /\ UNCHANGED vars

Next ==
    \/ \E len \in Lengths : AcquireArea(len)
    \/ \E addr \in ReserveAddrs, len \in Lengths : ReserveArea(addr, len)
    \/ \E area \in areas : \/ FreeArea(area)
                           \/ FreeInvalid(area)
                           \/ FreeAbort(area)
    \/ \E fb \in Framebuffers : \/ WithdrawFramebuffer(fb)
                               \/ WithdrawAbort(fb)
    \/ AssertFails
    \/ Stopped

Spec == Init /\ [][Next]_vars

-----------------------------------------------------------------------------
(* What is expected of the inputs for the theorems in PhysMemProofs.       *)

Page(x) == x \in Nat /\ x % PageSize = 0
RegionEnd(i) == Regions[i].memory + Regions[i].size

\* The regions start_phys_mem_manager leaves are whole pages, in order, and do
\* not touch; nobody asks for nothing, or for more than can be rounded up;
\* framebuffers are whole pages behind the first page of RAM.
ProperInputs ==
    /\ DOMAIN Regions = 1 .. Len(Regions)
    /\ \A i \in 1 .. Len(Regions) :
          /\ Page(Regions[i].memory) /\ Page(Regions[i].size) /\ Regions[i].size > 0
          /\ RegionEnd(i) + PageSize <= WordSize
    /\ \A i, j \in 1 .. Len(Regions) : i < j => RegionEnd(i) < Regions[j].memory
    /\ \A len \in Lengths : len > 0 /\ len + PageSize <= WordSize
    /\ \A fb \in Framebuffers :
          /\ Page(fb.addr) /\ Page(fb.len) /\ fb.len > 0
          /\ fb.addr + fb.len + PageSize <= WordSize
          /\ fb.addr > Regions[1].memory

\* Reservations name the start of a region.
ProperReserves ==
    \A addr \in ReserveAddrs : \E i \in 1 .. Len(Regions) : addr = Regions[i].memory

-----------------------------------------------------------------------------
(* Properties.                                                             *)

Used == {s \in DOMAIN headers : headers[s].header_in_use}

\* Every variable keeps its type.
TypeOK ==
    /\ DOMAIN headers = 1 .. headers_allocated
    /\ \A s \in DOMAIN headers :
          /\ headers[s].next \in 0 .. headers_allocated
          /\ headers[s].prev \in 0 .. headers_allocated
          /\ headers[s].memory \in Nat /\ headers[s].size \in Nat
          /\ headers[s].in_use \in BOOLEAN /\ headers[s].header_in_use \in BOOLEAN
    /\ first_header \in DOMAIN headers
    /\ headers_in_use \in Nat
    /\ headers_allocated \in Nat
    /\ wild_next \in BOOLEAN
    /\ status \in {"ok", "abort", "fault"}
    /\ framebuffers \subseteq Framebuffers

\* next and prev describe one list of exactly the slots in use, in the order of
\* the memory they cover, whatever was split, merged or withdrawn; and the
\* count that decides when to get another chunk never misses the last slot.
ListConsistent ==
    /\ Listed(headers, first_header) = Used
    /\ headers[first_header].prev = NULL
    /\ \A s \in Used :
          headers[s].next # NULL =>
             /\ headers[headers[s].next].prev = s
             /\ EndOf(headers[s]) <= headers[headers[s].next].memory
    /\ Cardinality(Used) <= headers_in_use
    /\ headers_in_use < headers_allocated

Bytes(ranges) == UNION {r.addr .. (r.addr + r.len - 1) : r \in ranges}
RangeOf(h) == [addr |-> h.memory, len |-> h.size]

\* Splits and merges neither lose nor duplicate memory: the headers in use
\* cover the RAM the system started with, without overlap, and nothing else,
\* except what drivers have withdrawn.
MemoryConserved ==
    /\ \A s, t \in Used : s # t =>
          Bytes({RangeOf(headers[s])}) \cap Bytes({RangeOf(headers[t])}) = {}
    /\ Bytes({RangeOf(headers[s]) : s \in Used})
          = Bytes({RangeOf(Regions[i]) : i \in DOMAIN Regions}) \ Bytes(framebuffers)

\* "Aquire len unused bytes" / "Reserve len unused bytes from addr": an area
\* someone holds, or a chunk of headers, is memory no other caller is given.
AreasExclusive ==
    /\ \A a \in areas : \E s \in Used :
          /\ headers[s].in_use
          /\ headers[s].memory <= a.addr /\ a.addr + a.len <= EndOf(headers[s])
    /\ \A c \in chunks : \E s \in Used :
          headers[s].in_use /\ headers[s].memory = c
    /\ \A a, b \in areas : a # b => Bytes({a}) \cap Bytes({b}) = {}
    /\ \A a \in areas : chunks \cap Bytes({a}) = {}

\* Free memory is whole: no two free headers touch.
Coalesced ==
    \A s \in Used :
       ~headers[s].in_use => \A t \in Used :
          headers[t].memory = EndOf(headers[s]) => headers[t].in_use

\* The abstract allocator this one implements: an area it hands out consists of
\* whole pages of RAM that nobody holds, and stays its holder's until freed.
Allocator == INSTANCE AreaAllocator WITH
    Ram <- Bytes({RangeOf(Regions[i]) : i \in DOMAIN Regions}),
    areas <- areas

\* Claiming, splitting, merging and withdrawing headers implement AreaAllocator
\* (as long as reservations name the start of a region).
ImplementsAllocator == Allocator!Spec

=============================================================================

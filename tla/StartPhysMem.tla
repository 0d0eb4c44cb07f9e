---------------------------- MODULE StartPhysMem ----------------------------
(***************************************************************************)
(* start_phys_mem_manager (kernel/kernel/phys_mem.cpp): what it makes of   *)
(* the regions the architecture's code hands it.  It finds a place for the *)
(* PhysMemHeaders, cuts the unavailable regions out of the available ones, *)
(* writes a header for each piece and reserves the place of the headers.   *)
(*                                                                         *)
(* A region is [addr, len]; its end, addr + len, wraps with uintptr_t.     *)
(* The lock is held throughout and nothing else runs yet.                  *)
(***************************************************************************)
EXTENDS Integers, Sequences, FiniteSetsExt

CONSTANTS
    PageSize,    \* PHYS_MEM_CHUNK_SIZE
    WordSize,    \* uintptr_t and size_t wrap here: 4 GiB
    HeaderSize,  \* sizeof(PhysMemHeader)
    RegionSize   \* sizeof(bootloader_mem_region)

VARIABLES
    kernel,        \* phys_kernel_start .. phys_kernel_end, a region
    map_at,        \* where the architecture's code put the array of regions
    boot_pc,       \* where the start of the memory manager is
    unavailable,   \* unavailable_memory_regions
    available,     \* available_memory_regions
    phys_hdr_ptr,  \* the place of the headers
    headers,       \* first_header[0 .. cur_header_offset - 1]
    offset,        \* avail_region_offset
    own_claimed    \* the memory get_mem_area(phys_hdr_ptr) claims: a set with at
                   \* most one region

start_vars == <<phys_hdr_ptr, headers, offset, own_claimed>>

nullptr == 0

Wrap(n) == n % WordSize
EndOf(r) == Wrap(r.addr + r.len)
page(n) == (n \div PageSize) * PageSize
round_up_to_alignment(n, align) == Wrap(((n + align - 1) \div align) * align)

\* ranges.h: the ends belong to a range, and the first may lie behind its end.
overlap(a, b) ==
    /\ Max({a.addr, EndOf(a)}) >= b.addr
    /\ Min({a.addr, EndOf(a)}) <= EndOf(b)

-----------------------------------------------------------------------------
(* A place for the headers.                                                *)

headers_needed_size ==
    round_up_to_alignment((Len(available) + 3) * HeaderSize, PageSize)

\* Bug: a region that begins inside the place is not seen.
Clear_start_only(location, size, u) ==
    location > EndOf(u) \/ location < u.addr

\* is_overlap's success: the place lies behind u or in front of it.
Clear(location, size, u) ==
    location > EndOf(u) \/ Wrap(location + size) < u.addr

\* The first page from location on that is clear of every unavailable region;
\* a region in the way is stepped over if there is room behind it.  Nobody
\* asks whether a place that nothing is in the way of ends before end.
RECURSIVE find_space_in_area(_, _, _)
find_space_in_area(location, end, size) ==
    LET at == round_up_to_alignment(location, PageSize)
        conflicts == {i \in DOMAIN unavailable : ~Clear(at, size, unavailable[i])}
        u == unavailable[Min(conflicts)]
    IN  IF conflicts = {} THEN at
        ELSE IF Wrap(EndOf(u) + size) < end
        THEN find_space_in_area(Wrap(EndOf(u) + 1), end, size)
        ELSE nullptr

Places ==
    [i \in DOMAIN available |->
        find_space_in_area(available[i].addr, EndOf(available[i]),
                           headers_needed_size)]

\* Page 0 cannot be told from nullptr, so a place there is passed over.
FindPlace ==
    /\ boot_pc = "place"
    /\ \E places \in {Places} :
         LET good == {i \in DOMAIN places : places[i] # nullptr}
         IN  \/ /\ good = {}
                /\ boot_pc' = "abort"
                /\ UNCHANGED phys_hdr_ptr
             \/ /\ good # {}
                /\ phys_hdr_ptr' = places[Min(good)]
                /\ boot_pc' = "add"
    /\ UNCHANGED <<unavailable, available, headers, offset, own_claimed>>

-----------------------------------------------------------------------------
(* A header for each available piece.                                      *)

\* How adding a region may fail: page subtraction aborts below zero, and a
\* call made for the same region again has no end.  The length of a piece in
\* front of an unavailable region may wrap so far that the piece holds it.
Aborted == <<[memory |-> -1, size |-> 0]>>
Stuck == <<[memory |-> -2, size |-> 0]>>

\* A piece that touches a header widens the first such header; any other
\* gets a header of its own.  Headers count whole pages, rounded down.
AddHeader(hs, r) ==
    LET At(h) == [addr |-> h.memory, len |-> h.size]
        touched == {i \in DOMAIN hs : overlap(r, At(hs[i]))}
        i == Min(touched)
        start == page(Min({r.addr, hs[i].memory}))
        end == page(Max({EndOf(r), EndOf(At(hs[i]))}))
    IN  IF touched = {}
        THEN Append(hs, [memory |-> page(r.addr), size |-> page(r.len)])
        ELSE IF end < start THEN Aborted
        ELSE [hs EXCEPT ![i] = [memory |-> start, size |-> end - start]]

\* Bug: what is left behind a region begins at the region's end.
Behind_no_page(r, u) ==
    [addr |-> EndOf(u), len |-> Wrap(EndOf(r) - EndOf(u))]

\* The piece in front of u, the piece behind u, and the piece kept when u
\* cuts off the end of r, for which the code subtracts from the end of u.
InFront(r, u) == [addr |-> r.addr, len |-> Wrap(u.addr - r.addr - PageSize)]
Behind(r, u) ==
    [addr |-> Wrap(EndOf(u) + PageSize), len |-> Wrap(EndOf(r) - EndOf(u) - PageSize)]
WithoutEnd(r, u) == [r EXCEPT !.len = Wrap(EndOf(u) - r.addr - PageSize)]

Covers(u, r) == u.addr <= r.addr /\ EndOf(u) >= EndOf(r)
Inside(u, r) == u.addr > r.addr /\ EndOf(u) < EndOf(r)

\* The headers once r is added, with the unavailable regions from the i-th on
\* still to be cut out of it; active are the regions of the calls not yet left.
\* The last case of the code, an abort, is left out: ranges that overlap and
\* are none of the others have their end cut off.
RECURSIVE Add(_, _, _, _)
Add(hs, r, i, active) ==
    IF i > Len(unavailable) THEN AddHeader(hs, r)
    ELSE LET u == unavailable[i]
             piece == InFront(r, u)
             front == IF piece \in active THEN Stuck
                      ELSE Add(hs, piece, 1, active \cup {piece})
         IN  IF ~overlap(r, u) THEN Add(hs, r, i + 1, active)
             ELSE IF Covers(u, r) THEN hs
             ELSE IF Inside(u, r)
             THEN IF front \in {Aborted, Stuck} THEN front
                  ELSE Add(front, Behind(r, u), i + 1, active)
             ELSE IF u.addr <= r.addr THEN Add(hs, Behind(r, u), i + 1, active)
             ELSE Add(hs, WithoutEnd(r, u), i + 1, active)

\* One turn of the loop over the available regions.
TryAdd ==
    /\ boot_pc = "add"
    /\ offset < Len(available)
    /\ \E hs \in {Add(headers, available[offset + 1], 1, {available[offset + 1]})} :
         \/ /\ hs \in {Aborted, Stuck}
            /\ boot_pc' = IF hs = Stuck THEN "overflow" ELSE "abort"
            /\ UNCHANGED <<headers, offset>>
         \/ /\ hs \notin {Aborted, Stuck}
            /\ headers' = hs
            /\ offset' = offset + 1
            /\ UNCHANGED boot_pc
    /\ UNCHANGED <<unavailable, available, phys_hdr_ptr, own_claimed>>

\* get_mem_area looks for the first header that holds the address of the place,
\* the end included, and claims the first pages of that header if it is large
\* enough; its test for memory in front of the place never succeeds.  A failure
\* is only logged.
ReserveOwn ==
    LET holds == {i \in DOMAIN headers :
                    /\ headers[i].memory <= phys_hdr_ptr
                    /\ Wrap(headers[i].memory + headers[i].size) >= phys_hdr_ptr}
        h == headers[Min(holds)]
    IN  /\ boot_pc = "add"
        /\ offset = Len(available)
        /\ own_claimed' = IF holds # {} /\ h.size >= headers_needed_size
                          THEN {[addr |-> h.memory, len |-> headers_needed_size]}
                          ELSE {}
        /\ boot_pc' = "done"
        /\ UNCHANGED <<unavailable, available, phys_hdr_ptr, headers, offset>>

InitStart ==
    /\ phys_hdr_ptr = nullptr
    /\ headers = << >>
    /\ offset = 0
    /\ own_claimed = {}

start_phys_mem_manager == FindPlace \/ TryAdd \/ ReserveOwn

=============================================================================

----------------------------- MODULE MallocFree -----------------------------
(***************************************************************************)
(* The kernel heap: malloc and free of libc/stdlib/malloc_free.cpp.        *)
(*                                                                         *)
(* A chunk is a Header followed by len bytes; all chunks form one doubly   *)
(* linked list.  allocation_lock keeps interrupts off from the first line  *)
(* of malloc or free to the last, so one call runs at a time and its loops *)
(* are the only interleaving: each iteration is a step here.               *)
(*                                                                         *)
(* Addresses count bytes of a scaled-down machine: a page is PageSize and  *)
(* a Header HeaderSize of them (4096 and 16 in the code).  Only headers    *)
(* that are linked have contents; following a pointer to any other address *)
(* has no value, which TLC reports.                                        *)
(***************************************************************************)
EXTENDS Naturals, FiniteSets

CONSTANTS
    Pages,       \* page numbers get_mem can hand out; 0 is never one
    PageSize,    \* DEFAULT_MEMRESERVE_SIZE
    HeaderSize,  \* sizeof(Header)
    Sizes        \* the byte counts callers ask malloc for

ASSUME PagesAssumption == Pages \subseteq Nat \ {0}
ASSUME SizesAssumption == Sizes \subseteq Nat
ASSUME LayoutAssumption ==
    /\ HeaderSize \in Nat \ {0}
    /\ PageSize \in Nat /\ PageSize >= 2 * HeaderSize
    /\ PageSize % HeaderSize = 0

NULL == 0

VARIABLES
    headers,       \* the linked headers: address |-> Header
    first_header,  \* the head of the list, or NULL
    pages,         \* pages get_mem gave us that free_mem has not taken back
    pc,            \* "idle", inside malloc or free, or "abort"
    hdr,           \* the local variable hdr of malloc and free
    arg,           \* the argument of the call in progress
    live           \* what callers hold: pointer |-> size they asked for

vars == <<headers, first_header, pages, pc, hdr, arg, live>>

-----------------------------------------------------------------------------

Addresses == UNION {p * PageSize .. (p + 1) * PageSize : p \in Pages}

Header == [next : Addresses \cup {NULL}, prev : Addresses \cup {NULL},
           len : 0 .. PageSize, in_use : BOOLEAN, start_of_allocation : BOOLEAN]

round_to_multiple_of(n, multiple) ==
    ((n + multiple - 1) \div multiple) * multiple

\* The first byte after the chunk of header h.
ChunkEnd(hs, h) == h + HeaderSize + hs[h].len

\* Store through a pointer that may be null: `if (p) p->field = value'.
SetNext(hs, p, value) == IF p = NULL THEN hs ELSE [hs EXCEPT ![p].next = value]
SetPrev(hs, p, value) == IF p = NULL THEN hs ELSE [hs EXCEPT ![p].prev = value]

\* The list without header h, its memory no longer a header.
Drop(hs, h) == [a \in DOMAIN hs \ {h} |-> hs[a]]

Init ==
    /\ headers = << >>
    /\ first_header = NULL
    /\ pages = {}
    /\ pc = "idle"
    /\ hdr = NULL
    /\ arg = 0
    /\ live = << >>

-----------------------------------------------------------------------------
(* Splitting and growing.                                                  *)

\* Bug: the header behind the new one still points back to h.
split_header_no_backlink(hs, h, split) ==
    LET s == round_to_multiple_of(split, HeaderSize)
        new == h + s + HeaderSize
        linked == [hs EXCEPT ![h].next = new, ![h].len = s]
    IN  [a \in DOMAIN hs \cup {new} |->
            IF a = new
            THEN [next |-> hs[h].next, prev |-> h,
                  len |-> hs[h].len - s - HeaderSize,
                  in_use |-> FALSE, start_of_allocation |-> FALSE]
            ELSE linked[a]]

\* split_header: h keeps `split' bytes (rounded up), a new free header gets the
\* rest and is linked behind it.  Its two abort guards (header in use, no room
\* for the new header) are left out: both callers split a free header that is
\* long enough.
split_header(hs, h, split) ==
    LET s == round_to_multiple_of(split, HeaderSize)
        new == h + s + HeaderSize
        linked == SetPrev([hs EXCEPT ![h].next = new, ![h].len = s],
                          hs[h].next, new)
    IN  [a \in DOMAIN hs \cup {new} |->
            IF a = new
            THEN [next |-> hs[h].next, prev |-> h,
                  len |-> hs[h].len - s - HeaderSize,
                  in_use |-> FALSE, start_of_allocation |-> FALSE]
            ELSE linked[a]]

\* allocate_more_mem once get_mem returned address h: a chunk of one page, and
\* a second one behind the `needed' bytes if there is room for it.
allocate_more_mem(hs, h, needed) ==
    LET len == PageSize - HeaderSize
        fresh == [a \in DOMAIN hs \cup {h} |->
                     IF a = h
                     THEN [next |-> NULL, prev |-> NULL, len |-> len,
                           in_use |-> FALSE, start_of_allocation |-> TRUE]
                     ELSE hs[a]]
    IN  IF needed < len - HeaderSize
        THEN split_header(fresh, h, needed)
        ELSE fresh

\* get_mem hands out the pages that hold needed + sizeof(Header) bytes in one
\* piece, at address h.
get_mem(needed, h, got) ==
    \E p \in Pages :
       LET n == round_to_multiple_of(needed + HeaderSize, PageSize) \div PageSize
       IN  /\ got = p .. (p + n - 1)
           /\ got \subseteq Pages \ pages
           /\ h = p * PageSize

\* get_mem finds no such pages: allocate_more_mem aborts.
OutOfMemory(needed) ==
    LET n == round_to_multiple_of(needed + HeaderSize, PageSize) \div PageSize
    IN  \A p \in Pages : ~(p .. (p + n - 1) \subseteq Pages \ pages)

-----------------------------------------------------------------------------
(* malloc                                                                  *)

\* A call: take the lock, look at the first header.
Malloc(size) ==
    /\ pc = "idle"
    /\ pc' = IF first_header = NULL THEN "malloc_first" ELSE "malloc"
    /\ hdr' = first_header
    /\ arg' = size
    /\ UNCHANGED <<headers, first_header, pages, live>>

\* There was no header at all.
MallocFirst ==
    /\ pc = "malloc_first"
    /\ \E p \in Pages : \E got \in SUBSET Pages :
          /\ get_mem(arg, p * PageSize, got)
          /\ headers' = allocate_more_mem(headers, p * PageSize, arg)
          /\ first_header' = p * PageSize
          /\ hdr' = p * PageSize
          /\ pages' = pages \cup got
    /\ pc' = "malloc"
    /\ UNCHANGED <<arg, live>>

\* Bug: the header's own size counts as room for data.
TooSmallWithHeader(h) == headers[h].in_use \/ headers[h].len + HeaderSize < arg

TooSmall(h) == headers[h].in_use \/ headers[h].len < arg

\* The loop goes to the next header ...
MallocNext ==
    /\ pc = "malloc"
    /\ TooSmall(hdr)
    /\ headers[hdr].next # NULL
    /\ hdr' = headers[hdr].next
    /\ UNCHANGED <<headers, first_header, pages, pc, arg, live>>

\* ... which it first allocates when the list ends here.
MallocGrow ==
    /\ pc = "malloc"
    /\ TooSmall(hdr)
    /\ headers[hdr].next = NULL
    /\ \E p \in Pages : \E got \in SUBSET Pages :
          LET h == p * PageSize
              grown == allocate_more_mem(headers, h, arg)
          IN  /\ get_mem(arg, h, got)
              /\ headers' = [grown EXCEPT ![hdr].next = h, ![h].prev = hdr]
              /\ hdr' = h
              /\ pages' = pages \cup got
    /\ UNCHANGED <<first_header, pc, arg, live>>

MallocAbort ==
    /\ \/ pc = "malloc_first"
       \/ pc = "malloc" /\ TooSmall(hdr) /\ headers[hdr].next = NULL
    /\ OutOfMemory(arg)
    /\ pc' = "abort"
    /\ UNCHANGED <<headers, first_header, pages, hdr, arg, live>>

\* Bug: no room is kept for the header of the part that is split off.
MallocTakeNoRoom ==
    /\ pc = "malloc"
    /\ ~TooSmall(hdr)
    /\ LET hs == IF headers[hdr].len > arg
                 THEN split_header(headers, hdr, arg)
                 ELSE headers
       IN  headers' = [hs EXCEPT ![hdr].in_use = TRUE]
    /\ live' = [p \in DOMAIN live \cup {hdr + HeaderSize} |->
                   IF p = hdr + HeaderSize THEN arg ELSE live[p]]
    /\ pc' = "idle"
    /\ hdr' = NULL
    /\ arg' = 0
    /\ UNCHANGED <<first_header, pages>>

\* A chunk that fits: split off what is too much, mark it, return hdr + 1.
MallocTake ==
    /\ pc = "malloc"
    /\ ~TooSmall(hdr)
    /\ LET hs == IF headers[hdr].len > arg + HeaderSize
                 THEN split_header(headers, hdr, arg)
                 ELSE headers
       IN  headers' = [hs EXCEPT ![hdr].in_use = TRUE]
    /\ live' = [p \in DOMAIN live \cup {hdr + HeaderSize} |->
                   IF p = hdr + HeaderSize THEN arg ELSE live[p]]
    /\ pc' = "idle"
    /\ hdr' = NULL
    /\ arg' = 0
    /\ UNCHANGED <<first_header, pages>>

-----------------------------------------------------------------------------
(* free                                                                    *)

\* A call with a pointer that is not null; nothing allocated at all aborts.
Free(ptr) ==
    /\ pc = "idle"
    /\ pc' = IF first_header = NULL THEN "abort" ELSE "free"
    /\ hdr' = first_header
    /\ arg' = ptr
    /\ UNCHANGED <<headers, first_header, pages, live>>

\* Bug: the search starts over instead of going on.
FreeNextRestarts ==
    /\ pc = "free"
    /\ hdr + HeaderSize # arg
    /\ headers[hdr].next # NULL
    /\ hdr' = first_header
    /\ UNCHANGED <<headers, first_header, pages, pc, arg, live>>

FreeNext ==
    /\ pc = "free"
    /\ hdr + HeaderSize # arg
    /\ headers[hdr].next # NULL
    /\ hdr' = headers[hdr].next
    /\ UNCHANGED <<headers, first_header, pages, pc, arg, live>>

\* Bug: the end of the list alone counts as "not found".
FreeAbortAtEnd ==
    /\ pc = "free"
    /\ \/ headers[hdr].next = NULL
       \/ hdr + HeaderSize = arg /\ ~headers[hdr].in_use
    /\ pc' = "abort"
    /\ UNCHANGED <<headers, first_header, pages, hdr, arg, live>>

\* "Pointer was not malloc()ed!" or "has already been free()d!".
FreeAbort ==
    /\ pc = "free"
    /\ \/ hdr + HeaderSize # arg /\ headers[hdr].next = NULL
       \/ hdr + HeaderSize = arg /\ ~headers[hdr].in_use
    /\ pc' = "abort"
    /\ UNCHANGED <<headers, first_header, pages, hdr, arg, live>>

\* Bug: the swallowed header's own bytes are lost.
MergeNextLosesHeader(hs, h) ==
    LET n == hs[h].next
    IN  IF /\ n # NULL
           /\ ~hs[n].in_use
           /\ ~hs[n].start_of_allocation
           /\ n = ChunkEnd(hs, h)
        THEN Drop(SetPrev([hs EXCEPT ![h].len = @ + hs[n].len,
                                     ![h].next = hs[n].next],
                          hs[n].next, h), n)
        ELSE hs

\* Swallow the free chunk behind h, if it is of the same allocation.
MergeNext(hs, h) ==
    LET n == hs[h].next
    IN  IF /\ n # NULL
           /\ ~hs[n].in_use
           /\ ~hs[n].start_of_allocation
           /\ n = ChunkEnd(hs, h)
        THEN Drop(SetPrev([hs EXCEPT ![h].len = @ + hs[n].len + HeaderSize,
                                     ![h].next = hs[n].next],
                          hs[n].next, h), n)
        ELSE hs

\* Bug: the first chunk of a page swallows nobody.
JoinsPrevNotFirst(hs, h) ==
    /\ ~hs[h].start_of_allocation
    /\ hs[h].prev # NULL
    /\ ~hs[hs[h].prev].in_use
    /\ ~hs[hs[h].prev].start_of_allocation
    /\ h = ChunkEnd(hs, hs[h].prev)

\* Whether h is then swallowed by the free chunk before it.
JoinsPrev(hs, h) ==
    /\ ~hs[h].start_of_allocation
    /\ hs[h].prev # NULL
    /\ ~hs[hs[h].prev].in_use
    /\ h = ChunkEnd(hs, hs[h].prev)

MergePrev(hs, h) ==
    LET p == hs[h].prev
    IN  IF JoinsPrev(hs, h)
        THEN Drop(SetPrev([hs EXCEPT ![p].next = hs[h].next,
                                     ![p].len = @ + hs[h].len + HeaderSize],
                          hs[h].next, p), h)
        ELSE hs

\* A chunk that is a whole page again leaves the list and is returned.  That
\* free_mem refuses it (return_mem would abort) is left out: the page was got
\* from get_mem in one piece.
WholePage(hs, h) ==
    hs[h].start_of_allocation /\ hs[h].len >= PageSize - HeaderSize

Unlink(hs, h) ==
    Drop(SetPrev(SetNext(hs, hs[h].prev, hs[h].next), hs[h].next, hs[h].prev), h)

\* The chunk is found and in use: free it, merge both ways, return a whole page.
FreeChunk ==
    /\ pc = "free"
    /\ hdr + HeaderSize = arg
    /\ headers[hdr].in_use
    /\ LET freed == [headers EXCEPT ![hdr].in_use = FALSE]
           merged == MergeNext(freed, hdr)
           h == IF JoinsPrev(merged, hdr) THEN merged[hdr].prev ELSE hdr
           hs == MergePrev(merged, hdr)
       IN  IF WholePage(hs, h)
           THEN /\ headers' = Unlink(hs, h)
                /\ first_header' = IF h = first_header THEN hs[h].next
                                                        ELSE first_header
                /\ pages' = pages \ {h \div PageSize}
           ELSE /\ headers' = hs
                /\ UNCHANGED <<first_header, pages>>
    /\ live' = [p \in DOMAIN live \ {arg} |-> live[p]]
    /\ pc' = "idle"
    /\ hdr' = NULL
    /\ arg' = 0

\* abort() spins for ever with the lock taken.
Abort ==
    /\ pc = "abort"
    /\ UNCHANGED vars

-----------------------------------------------------------------------------

\* Any address malloc could ever have returned: callers may free it twice.
Pointers == {p * PageSize + k * HeaderSize :
                p \in Pages, k \in 1 .. (PageSize \div HeaderSize)}

Next ==
    \/ \E size \in Sizes : Malloc(size)
    \/ MallocFirst \/ MallocNext \/ MallocGrow \/ MallocAbort \/ MallocTake
    \/ \E ptr \in Pointers : Free(ptr)
    \/ FreeNext \/ FreeAbort \/ FreeChunk
    \/ Abort

Spec == Init /\ [][Next]_vars

\* A call of malloc or free that started is executed.
FairSpec == Spec /\ WF_vars(pc # "idle" /\ Next)

-----------------------------------------------------------------------------
(* Properties.                                                             *)

\* Every variable keeps its type.
TypeOK ==
    /\ DOMAIN headers \subseteq Addresses
    /\ \A h \in DOMAIN headers : headers[h] \in Header
    /\ first_header \in DOMAIN headers \cup {NULL}
    /\ pages \subseteq Pages
    /\ pc \in {"idle", "malloc_first", "malloc", "free", "abort"}
    /\ hdr \in DOMAIN headers \cup {NULL}
    /\ arg \in Nat
    /\ DOMAIN live \subseteq Addresses

\* What callers hold is exactly what is marked in use, each block is as long as
\* was asked for, and no block reaches into another chunk's header or data.
BlocksSafe ==
    /\ DOMAIN live = {h + HeaderSize : h \in {x \in DOMAIN headers : headers[x].in_use}}
    /\ \A p \in DOMAIN live : live[p] <= headers[p - HeaderSize].len
    /\ \A h, g \in DOMAIN headers : h < g => ChunkEnd(headers, h) <= g

\* The chunks tile the pages we hold: each page starts with the header that is
\* marked start_of_allocation, and behind a chunk comes the next one or the end
\* of the page.  No byte is lost to a split or a merge.
ChunksTilePages ==
    /\ \A p \in pages : p * PageSize \in DOMAIN headers
    /\ \A h \in DOMAIN headers :
          /\ h \div PageSize \in pages
          /\ headers[h].start_of_allocation <=> h % PageSize = 0
          /\ ChunkEnd(headers, h) % PageSize # 0 =>
                ChunkEnd(headers, h) \in DOMAIN headers
          /\ ChunkEnd(headers, h) <= (h \div PageSize + 1) * PageSize

\* next and prev describe one list from first_header through every header.
ListConsistent ==
    /\ first_header = NULL <=> DOMAIN headers = {}
    /\ \A h \in DOMAIN headers :
          LET next == headers[h].next
              prev == headers[h].prev
          IN  /\ next # NULL => next \in DOMAIN headers /\ headers[next].prev = h
              /\ prev # NULL => prev \in DOMAIN headers /\ headers[prev].next = h
              /\ prev = NULL <=> h = first_header
    /\ LET Reach[n \in 0 .. Cardinality(DOMAIN headers)] ==
              IF n = 0 THEN {first_header} \ {NULL}
              ELSE Reach[n - 1]
                      \cup ({headers[h].next : h \in Reach[n - 1]} \ {NULL})
       IN  DOMAIN headers \subseteq Reach[Cardinality(DOMAIN headers)]

\* Between calls free space is whole: no two free chunks touch inside a page and
\* a page with nothing in use has been given back.
Coalesced ==
    pc = "idle" =>
       /\ \A h \in DOMAIN headers :
             ~headers[h].in_use =>
                LET e == ChunkEnd(headers, h)
                IN  e \in DOMAIN headers /\ e % PageSize # 0 => headers[e].in_use
       /\ \A p \in pages : \E h \in DOMAIN headers :
             h \div PageSize = p /\ headers[h].in_use

\* A caller who frees a block it holds is never told that the pointer "was not
\* malloc()ed" or "has already been free()d": whatever was split off, merged and
\* unlinked since, the search from first_header still meets the block's header.
RightfulFreeTaken ==
    [][(pc \in {"idle", "free"} /\ pc' = "abort") => arg' \notin DOMAIN live]_vars

\* Every call of malloc and free comes to an end.
CallsEnd == pc # "idle" ~> pc \in {"idle", "abort"}

\* "Allocate a new header pointing to needed bytes of memory": right after the
\* list grew, the new header is large enough for the request.
\* The code does not achieve it: see the run heap_large_request.
GrowthIsEnough ==
    [][MallocFirst \/ MallocGrow => headers'[hdr'].len >= arg]_vars

=============================================================================

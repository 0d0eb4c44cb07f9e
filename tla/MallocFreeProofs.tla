-------------------------- MODULE MallocFreeProofs --------------------------
(***************************************************************************)
(* Proofs about the kernel heap, for every set of pages, every page and    *)
(* header size and every mix of requests.                                  *)
(*                                                                         *)
(* The invariant is stated for a heap given as a value, so that what       *)
(* split_header, MergeNext, MergePrev and Unlink do to it are lemmas.      *)
(***************************************************************************)
EXTENDS MallocFree, Arithmetic

PageBase(a) == (a \div PageSize) * PageSize

HeaderType == [next : Nat, prev : Nat, len : Nat, in_use : BOOLEAN,
               start_of_allocation : BOOLEAN]

\* A header is its five fields.
LEMMA SameHeader ==
  ASSUME NEW x \in HeaderType, NEW y \in HeaderType,
         x.next = y.next, x.prev = y.prev, x.len = y.len, x.in_use = y.in_use,
         x.start_of_allocation = y.start_of_allocation
  PROVE  x = y
  BY DEF HeaderType

Typed(hs) ==
    /\ DOMAIN hs \subseteq Nat \ {0}
    /\ IsFiniteSet(DOMAIN hs)
    /\ hs \in [DOMAIN hs -> HeaderType]

\* A chunk lies in one of our pages, is made of whole headers, and chunks do
\* not overlap.
Layout(hs, pgs) ==
    /\ pgs \subseteq Pages
    /\ \A h \in DOMAIN hs :
          /\ h \div PageSize \in pgs
          /\ hs[h].len % HeaderSize = 0
          /\ ChunkEnd(hs, h) <= PageBase(h) + PageSize
          /\ hs[h].start_of_allocation <=> h = PageBase(h)
    /\ \A h, g \in DOMAIN hs : h < g => ChunkEnd(hs, h) <= g

\* next and prev are inverse to each other.
Links(hs, first) ==
    /\ first = NULL <=> DOMAIN hs = {}
    /\ first # NULL => first \in DOMAIN hs
    /\ \A h \in DOMAIN hs :
          /\ hs[h].next # NULL => hs[h].next \in DOMAIN hs /\ hs[hs[h].next].prev = h
          /\ hs[h].prev # NULL => hs[h].prev \in DOMAIN hs /\ hs[hs[h].prev].next = h
          /\ hs[h].prev = NULL <=> h = first

\* Inside a page the list goes from each chunk to the one behind it.
Adjacent(hs) ==
    \A h \in DOMAIN hs :
       /\ ChunkEnd(hs, h) # PageBase(h) + PageSize => hs[h].next = ChunkEnd(hs, h)
       /\ ~hs[h].start_of_allocation =>
             hs[h].prev # NULL /\ ChunkEnd(hs, hs[h].prev) = h

\* A set that contains first and is closed under next.
Closed(hs, first, S) ==
    first \in S /\ \A h \in S : hs[h].next # NULL => hs[h].next \in S

\* Every header can be reached: stated without counting steps, so that it can be
\* carried from one heap to the next.
Connected(hs, first) ==
    \A S \in SUBSET DOMAIN hs : Closed(hs, first, S) => S = DOMAIN hs

Heap(hs, first, pgs) ==
    /\ Typed(hs)
    /\ Layout(hs, pgs)
    /\ Links(hs, first)
    /\ Adjacent(hs)
    /\ Connected(hs, first)

-----------------------------------------------------------------------------
(* Pages.                                                                  *)

LEMMA PageBaseFacts ==
  ASSUME NEW a \in Nat
  PROVE  /\ a \div PageSize \in Nat /\ PageBase(a) \in Nat
         /\ PageBase(a) <= a /\ a < PageBase(a) + PageSize
         /\ a % PageSize = 0 <=> a = PageBase(a)
<1>1. PageSize \in Nat \ {0}
  BY LayoutAssumption
<1>2. /\ a \div PageSize \in Nat /\ a % PageSize \in 0 .. (PageSize - 1)
      /\ a = (a \div PageSize) * PageSize + (a % PageSize)
  BY <1>1, DivMod
<1>3. (a \div PageSize) * PageSize \in Nat
  BY <1>1, <1>2
<1> QED
  BY <1>1, <1>2, <1>3 DEF PageBase

LEMMA SamePage ==
  ASSUME NEW a \in Nat, NEW b \in Nat,
         PageBase(a) <= b, b < PageBase(a) + PageSize
  PROVE  b \div PageSize = a \div PageSize /\ PageBase(b) = PageBase(a)
<1> DEFINE q == a \div PageSize
<1>1. PageSize \in Nat \ {0}
  BY LayoutAssumption
<1>2. q \in Nat /\ PageBase(a) = q * PageSize /\ PageBase(a) \in Nat
  BY PageBaseFacts DEF PageBase
<1>3. b - PageBase(a) \in 0 .. (PageSize - 1) /\ b = q * PageSize + (b - PageBase(a))
  BY <1>1, <1>2
<1>4. b \div PageSize = q
  <2> DEFINE r == b - PageBase(a)
  <2> HIDE DEF q, r
  <2>1. (q * PageSize + r) \div PageSize = q
    BY <1>1, <1>2, <1>3, DivUnique DEF r
  <2> QED
    BY <1>3, <2>1 DEF r
<1> QED
  BY <1>4 DEF PageBase

LEMMA PagesApart ==
  ASSUME NEW a \in Nat, NEW b \in Nat, a \div PageSize # b \div PageSize
  PROVE  PageBase(a) + PageSize <= PageBase(b) \/ PageBase(b) + PageSize <= PageBase(a)
<1>1. PageSize \in Nat \ {0}
  BY LayoutAssumption
<1>2. a \div PageSize \in Nat /\ b \div PageSize \in Nat
  BY PageBaseFacts
<1>3. a \div PageSize < b \div PageSize \/ b \div PageSize < a \div PageSize
  BY <1>2
<1> QED
  BY <1>1, <1>2, <1>3, Stretch DEF PageBase

LEMMA PageStart ==
  ASSUME NEW p \in Nat
  PROVE  /\ p * PageSize \in Nat /\ (p * PageSize) \div PageSize = p
         /\ PageBase(p * PageSize) = p * PageSize
         /\ p # 0 => p * PageSize >= PageSize
<1>1. PageSize \in Nat \ {0}
  BY LayoutAssumption
<1>2. p * PageSize + 0 = p * PageSize /\ p * PageSize \in Nat
  BY <1>1
<1>3. (p * PageSize) \div PageSize = p
  BY <1>1, <1>2, DivUnique
<1>4. p # 0 => p * PageSize >= PageSize
  BY <1>1
<1> QED
  BY <1>2, <1>3, <1>4 DEF PageBase

\* A page ends where a page begins.
LEMMA PageEnd ==
  ASSUME NEW a \in Nat
  PROVE  PageBase(PageBase(a) + PageSize) = PageBase(a) + PageSize
<1>1. PageSize \in Nat \ {0}
  BY LayoutAssumption
<1>2. a \div PageSize \in Nat
  BY PageBaseFacts
<1>3. (a \div PageSize + 1) * PageSize = PageBase(a) + PageSize
  BY <1>1, <1>2 DEF PageBase
<1>4. PageBase((a \div PageSize + 1) * PageSize) = (a \div PageSize + 1) * PageSize
  BY <1>2, PageStart
<1> QED
  BY <1>3, <1>4

-----------------------------------------------------------------------------
(* Splitting.                                                              *)

\* A part that leaves room for a header can be rounded up.
LEMMA SplitRoom ==
  ASSUME NEW len \in Nat, NEW split \in Nat, len % HeaderSize = 0,
         split + HeaderSize <= len
  PROVE  LET s == round_to_multiple_of(split, HeaderSize)
         IN  /\ s \in Nat /\ s % HeaderSize = 0
             /\ split <= s /\ s < split + HeaderSize /\ s + HeaderSize <= len
<1> DEFINE s == round_to_multiple_of(split, HeaderSize)
<1>1. HeaderSize \in Nat \ {0}
  BY LayoutAssumption
<1>2. s \in Nat /\ s % HeaderSize = 0 /\ split <= s /\ s < split + HeaderSize
  BY <1>1, RoundUp DEF round_to_multiple_of
<1>3. HeaderSize % HeaderSize = 0
  <2>1. HeaderSize = 1 * HeaderSize /\ 1 \in Nat
    BY <1>1
  <2> QED
    BY <1>1, <2>1, MultipleOf
<1>4. len - HeaderSize \in Nat /\ (len - HeaderSize) % HeaderSize = 0
  <2>1. len >= HeaderSize /\ HeaderSize \in Nat /\ len - HeaderSize \in Nat
    BY <1>1
  <2>2. (len - HeaderSize) % HeaderSize = 0
    BY <1>1, <1>3, <2>1, MultiplesSubtract
  <2> QED
    BY <2>1, <2>2
<1>5. s <= len - HeaderSize
  <2>1. split <= len - HeaderSize
    BY <1>1
  <2> QED
    BY <1>1, <1>4, <2>1, RoundUpLeast DEF round_to_multiple_of
<1> QED
  BY <1>1, <1>2, <1>5

\* r is hs with a header `new' behind h that has all but the first s bytes of it.
IsSplit(hs, h, s, new, r) ==
    /\ DOMAIN r = DOMAIN hs \cup {new}
    /\ r[new].next = hs[h].next /\ r[new].prev = h
    /\ r[new].len = hs[h].len - s - HeaderSize
    /\ r[new].in_use = FALSE /\ r[new].start_of_allocation = FALSE
    /\ \A a \in DOMAIN hs :
          /\ r[a].next = IF a = h THEN new ELSE hs[a].next
          /\ r[a].prev = IF a = hs[h].next THEN new ELSE hs[a].prev
          /\ r[a].len = IF a = h THEN s ELSE hs[a].len
          /\ r[a].in_use = hs[a].in_use
          /\ r[a].start_of_allocation = hs[a].start_of_allocation

\* The fields after split_header.
LEMMA SplitFields ==
  ASSUME NEW hs, Typed(hs), NEW h \in DOMAIN hs, NEW split \in Nat,
         hs[h].next # NULL => hs[h].next \in DOMAIN hs,
         NEW s, s = round_to_multiple_of(split, HeaderSize),
         s \in Nat, s + HeaderSize <= hs[h].len,
         NEW new, new = h + s + HeaderSize, new \notin DOMAIN hs,
         NEW r, r = split_header(hs, h, split)
  PROVE  Typed(r) /\ IsSplit(hs, h, s, new, r)
<1> DEFINE l == [hs EXCEPT ![h].next = new, ![h].len = s]
           k == SetPrev(l, hs[h].next, new)
           last == [next |-> hs[h].next, prev |-> h,
                    len |-> hs[h].len - s - HeaderSize,
                    in_use |-> FALSE, start_of_allocation |-> FALSE]
<1>0. HeaderSize \in Nat \ {0} /\ new \in Nat \ {0}
  BY LayoutAssumption DEF Typed
<1>1. r = [a \in DOMAIN hs \cup {new} |-> IF a = new THEN last ELSE k[a]]
  BY DEF split_header
<1>2. hs \in [DOMAIN hs -> HeaderType]
  BY DEF Typed
<1>3. /\ DOMAIN l = DOMAIN hs
      /\ \A a \in DOMAIN hs :
           /\ l[a] \in HeaderType
           /\ l[a].next = IF a = h THEN new ELSE hs[a].next
           /\ l[a].prev = hs[a].prev
           /\ l[a].len = IF a = h THEN s ELSE hs[a].len
           /\ l[a].in_use = hs[a].in_use
           /\ l[a].start_of_allocation = hs[a].start_of_allocation
  BY <1>0, <1>2 DEF HeaderType
<1>4. /\ DOMAIN k = DOMAIN hs
      /\ \A a \in DOMAIN hs :
           /\ k[a] \in HeaderType
           /\ k[a].next = IF a = h THEN new ELSE hs[a].next
           /\ k[a].prev = IF a = hs[h].next THEN new ELSE hs[a].prev
           /\ k[a].len = IF a = h THEN s ELSE hs[a].len
           /\ k[a].in_use = hs[a].in_use
           /\ k[a].start_of_allocation = hs[a].start_of_allocation
  <2> HIDE DEF l
  <2>1. CASE hs[h].next = NULL
    BY <1>3, <2>1 DEF SetPrev, NULL, Typed
  <2>2. CASE hs[h].next # NULL
    BY <1>0, <1>3, <2>2 DEF SetPrev, HeaderType
  <2> QED
    BY <2>1, <2>2
<1>5. last \in HeaderType
  BY <1>0, <1>2 DEF HeaderType, Typed
<1>6. /\ DOMAIN r = DOMAIN hs \cup {new}
      /\ r[new] = last
      /\ \A a \in DOMAIN hs : r[a] = k[a]
  <2> HIDE DEF k, last
  <2> QED
    BY <1>1
<1>7. Typed(r)
  <2> HIDE DEF k, last
  <2>1. IsFiniteSet(DOMAIN r)
    BY <1>6, FS_AddElement DEF Typed
  <2>2. r \in [DOMAIN r -> HeaderType]
    BY <1>1, <1>4, <1>5
  <2> QED
    BY <1>0, <1>6, <2>1, <2>2 DEF Typed
<1> HIDE DEF k
<1> QED
  BY <1>4, <1>6, <1>7 DEF IsSplit

\* split_header keeps the heap in order.
LEMMA SplitKeepsHeap ==
  ASSUME NEW hs, NEW first, NEW pgs, Heap(hs, first, pgs),
         NEW h \in DOMAIN hs, NEW split \in Nat, split + HeaderSize <= hs[h].len,
         NEW s, s = round_to_multiple_of(split, HeaderSize),
         NEW new, new = h + s + HeaderSize,
         NEW r, r = split_header(hs, h, split)
  PROVE  /\ Heap(r, first, pgs)
         /\ s \in Nat /\ split <= s /\ s < split + HeaderSize
         /\ s + HeaderSize <= hs[h].len /\ new \notin DOMAIN hs
         /\ IsSplit(hs, h, s, new, r)
<1>0. HeaderSize \in Nat \ {0} /\ PageSize \in Nat \ {0}
  BY LayoutAssumption
<1>1. /\ Typed(hs) /\ h \in Nat \ {0}
      /\ \A a \in DOMAIN hs : a \in Nat \ {0} /\ hs[a].len \in Nat
                               /\ hs[a].next \in Nat /\ hs[a].prev \in Nat
  BY DEF Heap, Typed, HeaderType
<1>2. /\ s \in Nat /\ s % HeaderSize = 0
      /\ split <= s /\ s < split + HeaderSize /\ s + HeaderSize <= hs[h].len
  BY <1>1, SplitRoom DEF Heap, Layout
<1>3. new \in Nat \ {0} /\ h < new /\ new < ChunkEnd(hs, h)
  BY <1>0, <1>1, <1>2 DEF ChunkEnd
<1>4. new \notin DOMAIN hs
  BY <1>0, <1>1, <1>2, <1>3 DEF Heap, Layout, ChunkEnd
<1>5. hs[h].next # NULL => hs[h].next \in DOMAIN hs
  BY DEF Heap, Links
<1>13. Typed(r) /\ IsSplit(hs, h, s, new, r)
  BY <1>1, <1>2, <1>4, <1>5, SplitFields
<1>6. /\ DOMAIN r = DOMAIN hs \cup {new}
      /\ r[new].next = hs[h].next /\ r[new].prev = h
      /\ r[new].len = hs[h].len - s - HeaderSize
      /\ r[new].in_use = FALSE /\ r[new].start_of_allocation = FALSE
      /\ \A a \in DOMAIN hs :
            /\ r[a].next = IF a = h THEN new ELSE hs[a].next
            /\ r[a].prev = IF a = hs[h].next THEN new ELSE hs[a].prev
            /\ r[a].len = IF a = h THEN s ELSE hs[a].len
            /\ r[a].in_use = hs[a].in_use
            /\ r[a].start_of_allocation = hs[a].start_of_allocation
  BY <1>13 DEF IsSplit
<1>7. /\ ChunkEnd(r, new) = ChunkEnd(hs, h) /\ ChunkEnd(r, h) = new
      /\ \A a \in DOMAIN hs \ {h} : ChunkEnd(r, a) = ChunkEnd(hs, a)
      /\ \A a \in DOMAIN hs : ChunkEnd(hs, a) \in Nat /\ a < ChunkEnd(hs, a)
  BY <1>0, <1>1, <1>2, <1>6 DEF ChunkEnd
<1>8. new \div PageSize = h \div PageSize /\ PageBase(new) = PageBase(h)
      /\ PageBase(h) \in Nat /\ PageBase(h) <= h
  <2>1. PageBase(h) <= h /\ PageBase(h) \in Nat
    BY <1>1, PageBaseFacts
  <2>2. ChunkEnd(hs, h) <= PageBase(h) + PageSize
    BY DEF Heap, Layout
  <2>3. PageBase(h) <= new /\ new < PageBase(h) + PageSize
    BY <1>0, <1>1, <1>3, <1>7, <2>1, <2>2
  <2> QED
    BY <1>1, <1>3, <2>1, <2>3, SamePage
<1>9. Layout(r, pgs)
  <2>1. pgs \subseteq Pages
    BY DEF Heap, Layout
  <2>2. r[new].len % HeaderSize = 0
    <3>1. hs[h].len % HeaderSize = 0 /\ hs[h].len >= s /\ hs[h].len - s \in Nat
      BY <1>0, <1>1, <1>2 DEF Heap, Layout
    <3>2. (hs[h].len - s) % HeaderSize = 0
      BY <1>0, <1>1, <1>2, <3>1, MultiplesSubtract
    <3>3. HeaderSize % HeaderSize = 0
      BY <1>0, SplitRoom
    <3>4. hs[h].len - s >= HeaderSize
      BY <1>0, <1>1, <1>2
    <3> QED
      BY <1>0, <1>6, <3>1, <3>2, <3>3, <3>4, MultiplesSubtract
  <2>3. ASSUME NEW a \in DOMAIN r
        PROVE  /\ a \div PageSize \in pgs
               /\ r[a].len % HeaderSize = 0
               /\ ChunkEnd(r, a) <= PageBase(a) + PageSize
               /\ r[a].start_of_allocation <=> a = PageBase(a)
    <3>1. CASE a = new
      BY <1>0, <1>1, <1>3, <1>6, <1>7, <1>8, <2>2, <3>1 DEF Heap, Layout
    <3>2. CASE a = h
      BY <1>0, <1>1, <1>2, <1>3, <1>6, <1>7, <1>8, <3>2 DEF Heap, Layout
    <3>3. CASE a \in DOMAIN hs \ {h}
      BY <1>6, <1>7, <3>3 DEF Heap, Layout
    <3> QED
      BY <1>6, <3>1, <3>2, <3>3
  <2>4. ASSUME NEW a \in DOMAIN r, NEW b \in DOMAIN r, a < b
        PROVE  ChunkEnd(r, a) <= b
    <3>1. \A x, y \in DOMAIN hs : x < y => ChunkEnd(hs, x) <= y
      BY DEF Heap, Layout
    <3> QED
      BY <1>1, <1>3, <1>6, <1>7, <2>4, <3>1
  <2> QED
    BY <2>1, <2>3, <2>4 DEF Layout
<1>10. Links(r, first)
  BY <1>1, <1>3, <1>4, <1>6 DEF Heap, Links, NULL
<1>11. Adjacent(r)
  <2> SUFFICES ASSUME NEW a \in DOMAIN r
               PROVE  /\ ChunkEnd(r, a) # PageBase(a) + PageSize =>
                            r[a].next = ChunkEnd(r, a)
                      /\ ~r[a].start_of_allocation =>
                            r[a].prev # NULL /\ ChunkEnd(r, r[a].prev) = a
    BY DEF Adjacent
  <2>1. CASE a = new
    BY <1>1, <1>6, <1>7, <1>8, <2>1 DEF Heap, Adjacent, NULL
  <2>2. CASE a = hs[h].next /\ a # new
    <3>1. a \in DOMAIN hs /\ hs[a].prev = h /\ r[a].prev = new
      BY <1>1, <1>6, <2>2 DEF Heap, Links, NULL
    <3>2. ChunkEnd(r, a) # PageBase(a) + PageSize => r[a].next = ChunkEnd(r, a)
      BY <1>6, <1>7, <3>1 DEF Heap, Adjacent
    <3>3. ~hs[a].start_of_allocation => ChunkEnd(hs, h) = a
      BY <3>1 DEF Heap, Adjacent
    <3> QED
      BY <1>3, <1>6, <1>7, <3>1, <3>2, <3>3 DEF NULL
  <2>3. CASE a # hs[h].next /\ a # new
    BY <1>1, <1>3, <1>4, <1>6, <1>7, <2>3 DEF Heap, Links, Adjacent, NULL
  <2> QED
    BY <2>1, <2>2, <2>3
<1>12. Connected(r, first)
  <2> SUFFICES ASSUME NEW S \in SUBSET DOMAIN r, Closed(r, first, S)
               PROVE  S = DOMAIN r
    BY DEF Connected
  <2> DEFINE T == S \ {new}
  <2>1. T \in SUBSET DOMAIN hs
    BY <1>6
  <2>2. Closed(hs, first, T)
    BY <1>1, <1>3, <1>4, <1>6, <2>1 DEF Closed, Heap, Links, NULL
  <2>3. T = DOMAIN hs
    BY <2>1, <2>2 DEF Heap, Connected
  <2> QED
    BY <1>3, <1>6, <2>3 DEF Closed, NULL
<1> QED
  BY <1>2, <1>4, <1>13, <1>9, <1>10, <1>11, <1>12 DEF Heap

-----------------------------------------------------------------------------
(* Growing.                                                                *)

\* r is hs with the header of a new page h behind tail, or alone.
IsAppended(hs, tail, h, r) ==
    /\ DOMAIN r = DOMAIN hs \cup {h}
    /\ r[h].next = NULL /\ r[h].prev = tail /\ r[h].len = PageSize - HeaderSize
    /\ r[h].in_use = FALSE /\ r[h].start_of_allocation = TRUE
    /\ \A a \in DOMAIN hs :
          /\ r[a].next = IF a = tail THEN h ELSE hs[a].next
          /\ r[a].prev = hs[a].prev
          /\ r[a].len = hs[a].len
          /\ r[a].in_use = hs[a].in_use
          /\ r[a].start_of_allocation = hs[a].start_of_allocation

LEMMA PageIsNew ==
  ASSUME NEW hs, NEW pgs, Typed(hs), Layout(hs, pgs), NEW p \in Pages, p \notin pgs
  PROVE  /\ p * PageSize \in Nat \ {0}
         /\ \A a \in DOMAIN hs : /\ a \div PageSize # p
                                 /\ a < p * PageSize => ChunkEnd(hs, a) <= p * PageSize
                                 /\ a >= p * PageSize => a >= p * PageSize + PageSize
<1>0. PageSize \in Nat \ {0} /\ HeaderSize \in Nat \ {0} /\ p \in Nat \ {0}
  BY LayoutAssumption, PagesAssumption
<1>1. /\ p * PageSize \in Nat /\ (p * PageSize) \div PageSize = p
      /\ PageBase(p * PageSize) = p * PageSize /\ p * PageSize >= PageSize
  BY <1>0, PageStart
<1>2. ASSUME NEW a \in DOMAIN hs
      PROVE  /\ a \div PageSize # p
             /\ a < p * PageSize => ChunkEnd(hs, a) <= p * PageSize
             /\ a >= p * PageSize => a >= p * PageSize + PageSize
  <2>1. a \in Nat /\ a \div PageSize # p /\ ChunkEnd(hs, a) <= PageBase(a) + PageSize
    BY DEF Typed, Layout
  <2>2. PageBase(a) \in Nat /\ PageBase(a) <= a /\ a < PageBase(a) + PageSize
    BY <2>1, PageBaseFacts
  <2>3. \/ PageBase(a) + PageSize <= p * PageSize
        \/ p * PageSize + PageSize <= PageBase(a)
    BY <1>1, <2>1, PagesApart
  <2>4. ChunkEnd(hs, a) \in Nat
    BY <1>0, <2>1 DEF ChunkEnd, Typed, HeaderType
  <2> QED
    BY <1>0, <1>1, <2>1, <2>2, <2>3, <2>4
<1> QED
  BY <1>0, <1>1, <1>2

LEMMA AppendKeepsHeap ==
  ASSUME NEW hs, NEW first, NEW pgs, Heap(hs, first, pgs),
         NEW p \in Pages, p \notin pgs, NEW h, h = p * PageSize,
         NEW tail, NEW r, Typed(r), IsAppended(hs, tail, h, r),
         NEW head,
         \/ tail = NULL /\ DOMAIN hs = {} /\ head = h
         \/ tail \in DOMAIN hs /\ hs[tail].next = NULL /\ head = first,
         NEW qs \in SUBSET Pages, pgs \cup {p} \subseteq qs
  PROVE  Heap(r, head, qs)
<1>0. PageSize \in Nat \ {0} /\ HeaderSize \in Nat \ {0} /\ PageSize >= 2 * HeaderSize
      /\ PageSize % HeaderSize = 0
  BY LayoutAssumption
<1>1. \A a \in DOMAIN hs : a \in Nat \ {0} /\ hs[a].len \in Nat
                             /\ hs[a].next \in Nat /\ hs[a].prev \in Nat
  BY DEF Heap, Typed, HeaderType
<1>2. /\ h \in Nat \ {0} /\ h \notin DOMAIN hs
      /\ \A a \in DOMAIN hs : /\ a < h => ChunkEnd(hs, a) <= h
                              /\ a >= h => a >= h + PageSize
  BY <1>0, <1>1, PageIsNew DEF Heap
<1>3. /\ DOMAIN r = DOMAIN hs \cup {h}
      /\ r[h].next = NULL /\ r[h].prev = tail /\ r[h].len = PageSize - HeaderSize
      /\ r[h].in_use = FALSE /\ r[h].start_of_allocation = TRUE
      /\ \A a \in DOMAIN hs :
            /\ r[a].next = IF a = tail THEN h ELSE hs[a].next
            /\ r[a].prev = hs[a].prev
            /\ r[a].len = hs[a].len
            /\ r[a].in_use = hs[a].in_use
            /\ r[a].start_of_allocation = hs[a].start_of_allocation
  BY DEF IsAppended
<1>4. ChunkEnd(r, h) = h + PageSize /\ \A a \in DOMAIN hs : ChunkEnd(r, a) = ChunkEnd(hs, a)
  BY <1>0, <1>2, <1>3 DEF ChunkEnd
<1>5. h \div PageSize = p /\ PageBase(h) = h
  BY PageStart, PagesAssumption
<1>6. Layout(r, qs)
  <2>1. (PageSize - HeaderSize) % HeaderSize = 0
    <3>1. HeaderSize % HeaderSize = 0
      BY <1>0, SplitRoom
    <3>2. PageSize >= HeaderSize
      BY <1>0
    <3> QED
      BY <1>0, <3>1, <3>2, MultiplesSubtract
  <2>2. ASSUME NEW a \in DOMAIN r
        PROVE  /\ a \div PageSize \in qs
               /\ r[a].len % HeaderSize = 0
               /\ ChunkEnd(r, a) <= PageBase(a) + PageSize
               /\ r[a].start_of_allocation <=> a = PageBase(a)
    <3>1. CASE a = h
      BY <1>0, <1>2, <1>3, <1>4, <1>5, <2>1, <3>1
    <3>2. CASE a \in DOMAIN hs
      BY <1>3, <1>4, <3>2 DEF Heap, Layout
    <3> QED
      BY <1>3, <3>1, <3>2
  <2>3. ASSUME NEW a \in DOMAIN r, NEW b \in DOMAIN r, a < b
        PROVE  ChunkEnd(r, a) <= b
    <3>1. \A x, y \in DOMAIN hs : x < y => ChunkEnd(hs, x) <= y
      BY DEF Heap, Layout
    <3> QED
      BY <1>0, <1>1, <1>2, <1>3, <1>4, <2>3, <3>1
  <2> QED
    BY <2>2, <2>3 DEF Layout
<1>7. Links(r, head)
  BY <1>1, <1>2, <1>3 DEF Heap, Links, NULL
<1>8. Adjacent(r)
  <2> SUFFICES ASSUME NEW a \in DOMAIN r
               PROVE  /\ ChunkEnd(r, a) # PageBase(a) + PageSize =>
                            r[a].next = ChunkEnd(r, a)
                      /\ ~r[a].start_of_allocation =>
                            r[a].prev # NULL /\ ChunkEnd(r, r[a].prev) = a
    BY DEF Adjacent
  <2>1. CASE a = h
    BY <1>3, <1>4, <1>5, <2>1
  <2>2. CASE a \in DOMAIN hs
    <3>1. ChunkEnd(hs, a) # NULL
      BY <1>0, <1>1, <2>2 DEF ChunkEnd, NULL
    <3>2. hs[a].prev # NULL => hs[a].prev \in DOMAIN hs
      BY <2>2 DEF Heap, Links
    <3> QED
      BY <1>3, <1>4, <2>2, <3>1, <3>2 DEF Heap, Adjacent
  <2> QED
    BY <1>3, <2>1, <2>2
<1>9. Connected(r, head)
  <2> SUFFICES ASSUME NEW S \in SUBSET DOMAIN r, Closed(r, head, S)
               PROVE  S = DOMAIN r
    BY DEF Connected
  <2>1. CASE DOMAIN hs = {}
    BY <1>2, <1>3, <2>1 DEF Closed
  <2>2. CASE DOMAIN hs # {}
    <3> DEFINE T == S \ {h}
    <3>1. T \in SUBSET DOMAIN hs
      BY <1>3
    <3>2. Closed(hs, first, T)
      BY <1>1, <1>2, <1>3, <2>2, <3>1 DEF Closed, Heap, Links, NULL
    <3>3. T = DOMAIN hs
      BY <3>1, <3>2 DEF Heap, Connected
    <3> QED
      BY <1>2, <1>3, <2>2, <3>3 DEF Closed, NULL
  <2> QED
    BY <2>1, <2>2
<1> QED
  BY <1>6, <1>7, <1>8, <1>9 DEF Heap

-----------------------------------------------------------------------------
(* Merging.                                                                *)

\* r is hs with header n swallowed by the header h before it.
IsMerged(hs, h, n, r) ==
    /\ DOMAIN r = DOMAIN hs \ {n}
    /\ \A a \in DOMAIN r :
          /\ r[a].next = IF a = h THEN hs[n].next ELSE hs[a].next
          /\ r[a].prev = IF a = hs[n].next THEN h ELSE hs[a].prev
          /\ r[a].len = IF a = h THEN hs[h].len + hs[n].len + HeaderSize
                                 ELSE hs[a].len
          /\ r[a].in_use = hs[a].in_use
          /\ r[a].start_of_allocation = hs[a].start_of_allocation

\* Swallowing keeps the heap in order.
LEMMA MergeKeepsHeap ==
  ASSUME NEW hs, NEW first, NEW pgs, Heap(hs, first, pgs),
         NEW h \in DOMAIN hs, NEW n, hs[h].next = n, n # NULL,
         n = ChunkEnd(hs, h), ~hs[n].start_of_allocation,
         NEW r, Typed(r), IsMerged(hs, h, n, r)
  PROVE  Heap(r, first, pgs)
<1>0. HeaderSize \in Nat \ {0} /\ PageSize \in Nat \ {0}
  BY LayoutAssumption
<1>1. /\ h \in Nat \ {0}
      /\ \A a \in DOMAIN hs : a \in Nat \ {0} /\ hs[a].len \in Nat
                               /\ hs[a].next \in Nat /\ hs[a].prev \in Nat
  BY DEF Heap, Typed, HeaderType
<1>2. /\ DOMAIN r = DOMAIN hs \ {n}
      /\ \A a \in DOMAIN r :
            /\ r[a].next = IF a = h THEN hs[n].next ELSE hs[a].next
            /\ r[a].prev = IF a = hs[n].next THEN h ELSE hs[a].prev
            /\ r[a].len = IF a = h THEN hs[h].len + hs[n].len + HeaderSize
                                   ELSE hs[a].len
            /\ r[a].in_use = hs[a].in_use
            /\ r[a].start_of_allocation = hs[a].start_of_allocation
  BY DEF IsMerged
<1>3. n \in DOMAIN hs /\ hs[n].prev = h /\ h < n
  BY <1>0, <1>1 DEF Heap, Links, ChunkEnd
<1>4. /\ ChunkEnd(r, h) = ChunkEnd(hs, n)
      /\ \A a \in DOMAIN r \ {h} : ChunkEnd(r, a) = ChunkEnd(hs, a)
      /\ \A a \in DOMAIN hs : ChunkEnd(hs, a) \in Nat /\ a < ChunkEnd(hs, a)
  BY <1>0, <1>1, <1>2, <1>3 DEF ChunkEnd
<1>5. n \div PageSize = h \div PageSize /\ PageBase(n) = PageBase(h)
  <2>1. /\ PageBase(h) \in Nat /\ PageBase(h) <= h
        /\ PageBase(n) \in Nat /\ PageBase(n) <= n /\ n # PageBase(n)
    BY <1>1, <1>3, PageBaseFacts DEF Heap, Layout
  <2>2. n <= PageBase(h) + PageSize
    BY DEF Heap, Layout
  <2>3. n # PageBase(h) + PageSize
    <3> SUFFICES ASSUME n = PageBase(h) + PageSize PROVE FALSE
      OBVIOUS
    <3>1. h \div PageSize + 1 \in Nat /\ n = (h \div PageSize + 1) * PageSize
      BY <1>0, <1>1, PageBaseFacts DEF PageBase
    <3>2. PageBase(n) = n
      BY <3>1, PageStart
    <3> QED
      BY <2>1, <3>2
  <2>4. PageBase(h) <= n /\ n < PageBase(h) + PageSize
    BY <1>0, <1>1, <1>3, <2>1, <2>2, <2>3
  <2> QED
    BY <1>1, <1>3, <2>1, <2>4, SamePage
<1>6. Layout(r, pgs)
  <2>1. (hs[h].len + hs[n].len + HeaderSize) % HeaderSize = 0
    <3>1. HeaderSize % HeaderSize = 0
      BY <1>0, SplitRoom
    <3>2. hs[h].len % HeaderSize = 0 /\ hs[n].len % HeaderSize = 0
      BY <1>3 DEF Heap, Layout
    <3>3. (hs[h].len + hs[n].len) % HeaderSize = 0 /\ hs[h].len + hs[n].len \in Nat
      BY <1>0, <1>1, <1>3, <3>2, MultiplesAdd
    <3> QED
      BY <1>0, <3>1, <3>3, MultiplesAdd
  <2>2. ASSUME NEW a \in DOMAIN r
        PROVE  /\ a \div PageSize \in pgs
               /\ r[a].len % HeaderSize = 0
               /\ ChunkEnd(r, a) <= PageBase(a) + PageSize
               /\ r[a].start_of_allocation <=> a = PageBase(a)
    <3>1. CASE a = h
      BY <1>2, <1>3, <1>4, <1>5, <2>1, <3>1 DEF Heap, Layout
    <3>2. CASE a # h
      BY <1>2, <1>4, <3>2 DEF Heap, Layout
    <3> QED
      BY <3>1, <3>2
  <2>3. ASSUME NEW a \in DOMAIN r, NEW b \in DOMAIN r, a < b
        PROVE  ChunkEnd(r, a) <= b
    <3>1. \A x, y \in DOMAIN hs : x < y => ChunkEnd(hs, x) <= y
      BY DEF Heap, Layout
    <3>2. CASE a = h
      <4>1. ChunkEnd(hs, h) <= b /\ b # n
        BY <1>2, <2>3, <3>1, <3>2
      <4>2. n < b
        BY <1>1, <1>2, <1>3, <4>1
      <4> QED
        BY <1>2, <1>3, <1>4, <3>1, <3>2, <4>2
    <3>3. CASE a # h
      BY <1>2, <1>4, <2>3, <3>1, <3>3
    <3> QED
      BY <3>2, <3>3
  <2> QED
    BY <2>2, <2>3 DEF Heap, Layout
<1>7. Links(r, first)
  BY <1>1, <1>2, <1>3 DEF Heap, Links, NULL
<1>8. Adjacent(r)
  <2> SUFFICES ASSUME NEW a \in DOMAIN r
               PROVE  /\ ChunkEnd(r, a) # PageBase(a) + PageSize =>
                            r[a].next = ChunkEnd(r, a)
                      /\ ~r[a].start_of_allocation =>
                            r[a].prev # NULL /\ ChunkEnd(r, r[a].prev) = a
    BY DEF Adjacent
  <2>1. ChunkEnd(r, a) # PageBase(a) + PageSize => r[a].next = ChunkEnd(r, a)
    BY <1>2, <1>3, <1>4, <1>5 DEF Heap, Adjacent
  <2>2. ~r[a].start_of_allocation => r[a].prev # NULL /\ ChunkEnd(r, r[a].prev) = a
    <3>1. CASE a = hs[n].next
      <4>1. hs[a].prev = n
        BY <1>1, <1>2, <1>3, <3>1 DEF Heap, Links, NULL
      <4>2. ~hs[a].start_of_allocation => ChunkEnd(hs, n) = a
        BY <1>2, <4>1 DEF Heap, Adjacent
      <4> QED
        BY <1>1, <1>2, <1>3, <1>4, <3>1, <4>2 DEF NULL
    <3>2. CASE a # hs[n].next
      <4>1. hs[a].prev # n /\ hs[a].prev # h
        BY <1>1, <1>2, <1>3, <3>2 DEF Heap, Links, NULL
      <4>2. hs[a].prev # NULL => hs[a].prev \in DOMAIN r
        BY <1>2, <4>1 DEF Heap, Links
      <4> QED
        BY <1>2, <1>4, <3>2, <4>1, <4>2 DEF Heap, Adjacent
    <3> QED
      BY <3>1, <3>2
  <2> QED
    BY <2>1, <2>2
<1>9. Connected(r, first)
  <2> SUFFICES ASSUME NEW S \in SUBSET DOMAIN r, Closed(r, first, S)
               PROVE  S = DOMAIN r
    BY DEF Connected
  <2> DEFINE T == IF h \in S THEN S \cup {n} ELSE S
  <2>1. T \in SUBSET DOMAIN hs
    BY <1>2, <1>3
  <2>2. Closed(hs, first, T)
    <3>1. ASSUME NEW x \in T, hs[x].next # NULL PROVE hs[x].next \in T
      <4>1. CASE x = h
        BY <1>2, <3>1, <4>1
      <4>2. CASE x = n
        BY <1>1, <1>2, <1>3, <3>1, <4>2 DEF Closed
      <4>3. CASE x # h /\ x # n
        BY <1>2, <3>1, <4>3 DEF Closed
      <4> QED
        BY <4>1, <4>2, <4>3
    <3> QED
      BY <3>1 DEF Closed
  <2>3. T = DOMAIN hs
    BY <2>1, <2>2 DEF Heap, Connected
  <2> QED
    BY <1>2, <1>3, <2>3
<1> QED
  BY <1>6, <1>7, <1>8, <1>9 DEF Heap

\* What MergeNext and MergePrev do once they decided to.
Swallow(hs, h, n) ==
    Drop(SetPrev([hs EXCEPT ![h].len = @ + hs[n].len + HeaderSize,
                            ![h].next = hs[n].next], hs[n].next, h), n)

\* The fields after one header swallowed the next.
LEMMA MergeFields ==
  ASSUME NEW hs, Typed(hs), NEW h \in DOMAIN hs, NEW n \in DOMAIN hs, h # n,
         hs[n].next # NULL => hs[n].next \in DOMAIN hs,
         NEW r, r = Swallow(hs, h, n)
  PROVE  Typed(r) /\ IsMerged(hs, h, n, r)
<1> DEFINE l == [hs EXCEPT ![h].len = @ + hs[n].len + HeaderSize,
                           ![h].next = hs[n].next]
           k == SetPrev(l, hs[n].next, h)
<1>0. HeaderSize \in Nat \ {0} /\ h \in Nat
  BY LayoutAssumption DEF Typed
<1>1. hs \in [DOMAIN hs -> HeaderType]
  BY DEF Typed
<1>2. /\ DOMAIN l = DOMAIN hs
      /\ \A a \in DOMAIN hs :
           /\ l[a] \in HeaderType
           /\ l[a].next = IF a = h THEN hs[n].next ELSE hs[a].next
           /\ l[a].prev = hs[a].prev
           /\ l[a].len = IF a = h THEN hs[h].len + hs[n].len + HeaderSize
                                  ELSE hs[a].len
           /\ l[a].in_use = hs[a].in_use
           /\ l[a].start_of_allocation = hs[a].start_of_allocation
  <2>1. hs[h].len + hs[n].len + HeaderSize \in Nat /\ hs[n].next \in Nat
    BY <1>0, <1>1 DEF HeaderType
  <2> QED
    BY <1>1, <2>1 DEF HeaderType
<1>3. /\ DOMAIN k = DOMAIN hs
      /\ \A a \in DOMAIN hs :
           /\ k[a] \in HeaderType
           /\ k[a].next = IF a = h THEN hs[n].next ELSE hs[a].next
           /\ k[a].prev = IF a = hs[n].next THEN h ELSE hs[a].prev
           /\ k[a].len = IF a = h THEN hs[h].len + hs[n].len + HeaderSize
                                  ELSE hs[a].len
           /\ k[a].in_use = hs[a].in_use
           /\ k[a].start_of_allocation = hs[a].start_of_allocation
  <2> HIDE DEF l
  <2>1. CASE hs[n].next = NULL
    BY <1>2, <2>1 DEF SetPrev, NULL, Typed
  <2>2. CASE hs[n].next # NULL
    BY <1>0, <1>2, <2>2 DEF SetPrev, HeaderType
  <2> QED
    BY <2>1, <2>2
<1>4. r = Drop(k, n)
  BY DEF Swallow
<1> HIDE DEF k
<1>5. DOMAIN r = DOMAIN hs \ {n} /\ \A a \in DOMAIN r : r[a] = k[a]
  BY <1>3, <1>4 DEF Drop
<1>6. r = [a \in DOMAIN r |-> r[a]]
  BY <1>4 DEF Drop
<1>7. Typed(r)
  <2>1. IsFiniteSet(DOMAIN r)
    BY <1>5, FS_RemoveElement DEF Typed
  <2>2. r \in [DOMAIN r -> HeaderType]
    BY <1>3, <1>5, <1>6
  <2> QED
    BY <1>5, <2>1, <2>2 DEF Typed
<1> QED
  BY <1>3, <1>5, <1>7 DEF IsMerged

LEMMA MergeNextKeepsHeap ==
  ASSUME NEW hs, NEW first, NEW pgs, Heap(hs, first, pgs), NEW h \in DOMAIN hs,
         NEW n, n = hs[h].next, n # NULL, ~hs[n].in_use, ~hs[n].start_of_allocation,
         n = ChunkEnd(hs, h)
  PROVE  /\ n \in DOMAIN hs /\ n # h
         /\ Heap(MergeNext(hs, h), first, pgs)
         /\ IsMerged(hs, h, n, MergeNext(hs, h))
<1>1. n \in DOMAIN hs /\ (hs[n].next # NULL => hs[n].next \in DOMAIN hs)
  BY DEF Heap, Links
<1>2. n # h
  BY LayoutAssumption DEF Heap, Typed, HeaderType, ChunkEnd
<1> DEFINE r == Swallow(hs, h, n)
<1>3. MergeNext(hs, h) = r
  BY DEF MergeNext, Swallow
<1>4. Typed(hs)
  BY DEF Heap
<1>5. Typed(r) /\ IsMerged(hs, h, n, r)
  BY <1>1, <1>2, <1>4, MergeFields
<1> HIDE DEF r
<1>6. Heap(r, first, pgs)
  BY <1>5, MergeKeepsHeap
<1> QED
  BY <1>1, <1>2, <1>3, <1>5, <1>6

\* Being swallowed is swallowing, seen from the other side.
LEMMA MergePrevKeepsHeap ==
  ASSUME NEW hs, NEW first, NEW pgs, Heap(hs, first, pgs), NEW h \in DOMAIN hs,
         JoinsPrev(hs, h), NEW p, p = hs[h].prev
  PROVE  /\ p \in DOMAIN hs /\ p # h
         /\ hs[p].next = h /\ ChunkEnd(hs, p) = h /\ ~hs[p].in_use
         /\ Heap(MergePrev(hs, h), first, pgs)
         /\ IsMerged(hs, p, h, MergePrev(hs, h))
<1>1. /\ p \in DOMAIN hs /\ hs[p].next = h /\ ChunkEnd(hs, p) = h /\ ~hs[p].in_use
      /\ ~hs[h].start_of_allocation /\ h # NULL
      /\ hs[h].next # NULL => hs[h].next \in DOMAIN hs
  BY DEF Heap, Links, JoinsPrev, Typed, NULL
<1>2. p # h
  BY <1>1, LayoutAssumption DEF Heap, Typed, HeaderType, ChunkEnd
<1> DEFINE l == [hs EXCEPT ![p].len = @ + hs[h].len + HeaderSize,
                           ![p].next = hs[h].next]
           m == [hs EXCEPT ![p].next = hs[h].next,
                           ![p].len = @ + hs[h].len + HeaderSize]
           r == Swallow(hs, p, h)
<1>3. l = m
  BY <1>1 DEF Heap, Typed, HeaderType
<1>4. MergePrev(hs, h) = Drop(SetPrev(m, hs[h].next, p), h)
  BY DEF MergePrev
<1>5. Typed(hs)
  BY DEF Heap
<1>6. Typed(r) /\ IsMerged(hs, p, h, r)
  BY <1>1, <1>2, <1>5, MergeFields
<1>7. MergePrev(hs, h) = r
  <2>1. r = Drop(SetPrev(l, hs[h].next, p), h)
    BY DEF Swallow
  <2> HIDE DEF l, m
  <2> QED
    BY <1>3, <1>4, <2>1
<1> HIDE DEF r
<1>8. Heap(r, first, pgs)
  BY <1>1, <1>6, MergeKeepsHeap
<1> QED
  BY <1>1, <1>2, <1>6, <1>7, <1>8

-----------------------------------------------------------------------------
(* Giving a page back.                                                     *)

\* r is hs without header h.
IsUnlinked(hs, h, r) ==
    /\ DOMAIN r = DOMAIN hs \ {h}
    /\ \A a \in DOMAIN r :
          /\ r[a].next = IF a = hs[h].prev THEN hs[h].next ELSE hs[a].next
          /\ r[a].prev = IF a = hs[h].next THEN hs[h].prev ELSE hs[a].prev
          /\ r[a].len = hs[a].len
          /\ r[a].in_use = hs[a].in_use
          /\ r[a].start_of_allocation = hs[a].start_of_allocation

LEMMA UnlinkFields ==
  ASSUME NEW hs, NEW first, Typed(hs), Links(hs, first), NEW h \in DOMAIN hs,
         NEW r, r = Unlink(hs, h)
  PROVE  Typed(r) /\ IsUnlinked(hs, h, r)
<1> DEFINE l == SetNext(hs, hs[h].prev, hs[h].next)
           k == SetPrev(l, hs[h].next, hs[h].prev)
<1>1. /\ hs \in [DOMAIN hs -> HeaderType] /\ NULL \notin DOMAIN hs
      /\ hs[h].next # NULL => hs[h].next \in DOMAIN hs
      /\ hs[h].prev # NULL => hs[h].prev \in DOMAIN hs
  BY DEF Typed, Links, NULL
<1>2. /\ DOMAIN l = DOMAIN hs
      /\ \A a \in DOMAIN hs :
           /\ l[a] \in HeaderType
           /\ l[a].next = IF a = hs[h].prev THEN hs[h].next ELSE hs[a].next
           /\ l[a].prev = hs[a].prev
           /\ l[a].len = hs[a].len
           /\ l[a].in_use = hs[a].in_use
           /\ l[a].start_of_allocation = hs[a].start_of_allocation
  <2>1. CASE hs[h].prev = NULL
    BY <1>1, <2>1 DEF SetNext
  <2>2. CASE hs[h].prev # NULL
    BY <1>1, <2>2 DEF SetNext, HeaderType
  <2> QED
    BY <2>1, <2>2
<1> HIDE DEF l
<1>3. /\ DOMAIN k = DOMAIN hs
      /\ \A a \in DOMAIN hs :
           /\ k[a] \in HeaderType
           /\ k[a].next = IF a = hs[h].prev THEN hs[h].next ELSE hs[a].next
           /\ k[a].prev = IF a = hs[h].next THEN hs[h].prev ELSE hs[a].prev
           /\ k[a].len = hs[a].len
           /\ k[a].in_use = hs[a].in_use
           /\ k[a].start_of_allocation = hs[a].start_of_allocation
  <2>1. CASE hs[h].next = NULL
    BY <1>1, <1>2, <2>1 DEF SetPrev
  <2>2. CASE hs[h].next # NULL
    BY <1>1, <1>2, <2>2 DEF SetPrev, HeaderType
  <2> QED
    BY <2>1, <2>2
<1>4. r = Drop(k, h)
  BY DEF Unlink, l
<1> HIDE DEF k
<1>5. DOMAIN r = DOMAIN hs \ {h} /\ r = [a \in DOMAIN hs \ {h} |-> k[a]]
  BY <1>3, <1>4 DEF Drop
<1>6. Typed(r)
  <2>1. IsFiniteSet(DOMAIN r)
    BY <1>5, FS_RemoveElement DEF Typed
  <2> QED
    BY <1>3, <1>5, <2>1 DEF Typed
<1> QED
  BY <1>3, <1>5, <1>6 DEF IsUnlinked

\* The head of the list once h is out of it.
NewFirst(hs, h, first) == IF h = first THEN hs[h].next ELSE first

\* A chunk that is a whole page can be taken out together with its page.
LEMMA UnlinkKeepsHeap ==
  ASSUME NEW hs, NEW first, NEW pgs, Heap(hs, first, pgs), NEW h \in DOMAIN hs,
         WholePage(hs, h), NEW r, Typed(r), IsUnlinked(hs, h, r)
  PROVE  /\ Heap(r, NewFirst(hs, h, first), pgs \ {h \div PageSize})
         /\ \A a \in DOMAIN r : a \div PageSize # h \div PageSize
<1> DEFINE head == IF h = first THEN hs[h].next ELSE first
           qs == pgs \ {h \div PageSize}
<1>0. HeaderSize \in Nat \ {0} /\ PageSize \in Nat \ {0}
  BY LayoutAssumption
<1>1. \A a \in DOMAIN hs : a \in Nat \ {0} /\ hs[a].len \in Nat
                             /\ hs[a].next \in Nat /\ hs[a].prev \in Nat
  BY DEF Heap, Typed, HeaderType
<1>2. /\ DOMAIN r = DOMAIN hs \ {h}
      /\ \A a \in DOMAIN r :
            /\ r[a].next = IF a = hs[h].prev THEN hs[h].next ELSE hs[a].next
            /\ r[a].prev = IF a = hs[h].next THEN hs[h].prev ELSE hs[a].prev
            /\ r[a].len = hs[a].len
            /\ r[a].in_use = hs[a].in_use
            /\ r[a].start_of_allocation = hs[a].start_of_allocation
  BY DEF IsUnlinked
<1>3. h = PageBase(h) /\ ChunkEnd(hs, h) = h + PageSize
  BY <1>0, <1>1 DEF Heap, Layout, WholePage, ChunkEnd
<1>4. /\ \A a \in DOMAIN r : ChunkEnd(r, a) = ChunkEnd(hs, a)
      /\ \A a \in DOMAIN hs : ChunkEnd(hs, a) \in Nat /\ a < ChunkEnd(hs, a)
  BY <1>0, <1>1, <1>2 DEF ChunkEnd
<1>5. ASSUME NEW a \in DOMAIN r PROVE a \div PageSize # h \div PageSize
  <2> SUFFICES ASSUME a \div PageSize = h \div PageSize PROVE FALSE
    OBVIOUS
  <2>1. PageBase(a) = h /\ h <= a /\ a < h + PageSize
    BY <1>1, <1>2, <1>3, PageBaseFacts DEF PageBase
  <2>2. h < a
    BY <1>1, <1>2, <2>1
  <2>3. ChunkEnd(hs, h) <= a
    BY <1>2, <2>2 DEF Heap, Layout
  <2> QED
    BY <1>0, <1>1, <1>2, <1>3, <2>1, <2>3
<1>6. Layout(r, qs)
  BY <1>2, <1>4, <1>5 DEF Heap, Layout
<1>7. h = first /\ hs[h].next = NULL => DOMAIN hs = {h}
  <2> SUFFICES ASSUME h = first, hs[h].next = NULL PROVE DOMAIN hs = {h}
    OBVIOUS
  <2>1. Closed(hs, first, {h})
    BY DEF Closed
  <2> QED
    BY <2>1 DEF Heap, Connected
<1>8. Links(r, head)
  BY <1>1, <1>2, <1>7 DEF Heap, Links, NULL
<1>9. Adjacent(r)
  <2> SUFFICES ASSUME NEW a \in DOMAIN r
               PROVE  /\ ChunkEnd(r, a) # PageBase(a) + PageSize =>
                            r[a].next = ChunkEnd(r, a)
                      /\ ~r[a].start_of_allocation =>
                            r[a].prev # NULL /\ ChunkEnd(r, r[a].prev) = a
    BY DEF Adjacent
  <2>0. a \in DOMAIN hs /\ a \in Nat
    BY <1>1, <1>2
  <2>1. ASSUME ChunkEnd(hs, a) # PageBase(a) + PageSize PROVE ChunkEnd(hs, a) # h
    <3> SUFFICES ASSUME ChunkEnd(hs, a) = h PROVE FALSE
      OBVIOUS
    <3>1. PageBase(a) \in Nat /\ PageBase(a) <= a
      BY <2>0, PageBaseFacts
    <3>2. h <= PageBase(a) + PageSize /\ a < h
      BY <1>4, <2>0 DEF Heap, Layout
    <3>3. PageBase(a) <= h /\ h < PageBase(a) + PageSize
      BY <1>0, <1>1, <2>0, <2>1, <3>1, <3>2
    <3>4. PageBase(h) = PageBase(a)
      BY <1>1, <2>0, <3>3, SamePage
    <3> QED
      BY <1>1, <1>3, <2>0, <3>1, <3>2, <3>4
  <2>2. ChunkEnd(hs, a) # PageBase(a) + PageSize => hs[a].next = ChunkEnd(hs, a)
    BY <2>0 DEF Heap, Adjacent
  <2>3. hs[h].prev # NULL => hs[hs[h].prev].next = h
    BY DEF Heap, Links
  <2>4. a = hs[h].prev => hs[a].next = h
    BY <1>1, <2>0, <2>3 DEF NULL
  <2>5. ChunkEnd(r, a) # PageBase(a) + PageSize => r[a].next = ChunkEnd(r, a)
    BY <1>2, <1>4, <2>1, <2>2, <2>4
  <2>6. ~hs[a].start_of_allocation => a # hs[h].next
    <3> SUFFICES ASSUME ~hs[a].start_of_allocation, a = hs[h].next PROVE FALSE
      OBVIOUS
    <3>1. hs[a].prev = h
      BY <1>1, <2>0 DEF Heap, Links, NULL
    <3>2. a = h + PageSize
      BY <1>3, <2>0, <3>1 DEF Heap, Adjacent
    <3>3. h \div PageSize + 1 \in Nat /\ a = (h \div PageSize + 1) * PageSize
      BY <1>0, <1>1, <1>3, <3>2, PageBaseFacts DEF PageBase
    <3>4. PageBase(a) = a
      BY <3>3, PageStart
    <3> QED
      BY <2>0, <3>4 DEF Heap, Layout
  <2>7. ~hs[a].start_of_allocation => hs[a].prev \in DOMAIN r
    <3> SUFFICES ASSUME ~hs[a].start_of_allocation PROVE hs[a].prev \in DOMAIN r
      OBVIOUS
    <3>1. hs[a].prev \in DOMAIN hs /\ hs[hs[a].prev].next = a
      BY <2>0 DEF Heap, Adjacent, Links
    <3> QED
      BY <1>2, <2>6, <3>1
  <2> QED
    BY <1>2, <1>4, <2>0, <2>5, <2>6, <2>7 DEF Heap, Adjacent
<1>10. Connected(r, head)
  <2> SUFFICES ASSUME NEW S \in SUBSET DOMAIN r, Closed(r, head, S)
               PROVE  S = DOMAIN r
    BY DEF Connected
  <2> DEFINE T == IF h = first \/ hs[h].prev \in S THEN S \cup {h} ELSE S
  <2>1. T \in SUBSET DOMAIN hs
    BY <1>2
  <2>2. first \in T
    BY DEF Closed
  <2>3. ASSUME NEW x \in T, hs[x].next # NULL PROVE hs[x].next \in T
    <3>1. CASE x = h
      <4>1. CASE h = first
        BY <2>3, <3>1, <4>1 DEF Closed
      <4>2. CASE h # first
        <5>1. hs[h].prev \in S
          BY <1>2, <3>1, <4>2
        <5>2. r[hs[h].prev].next = hs[h].next
          BY <1>2, <5>1
        <5> QED
          BY <2>3, <3>1, <5>1, <5>2 DEF Closed
      <4> QED
        BY <4>1, <4>2
    <3>2. CASE x # h /\ hs[x].next = h
      <4>1. x = hs[h].prev /\ x \in S
        BY <2>1, <2>3, <3>2 DEF Heap, Links
      <4> QED
        BY <3>2, <4>1
    <3>3. CASE x # h /\ hs[x].next # h
      <4>1. x \in S /\ x # hs[h].prev
        BY <1>1, <2>1, <3>3 DEF Heap, Links, NULL
      <4> QED
        BY <1>2, <2>3, <4>1 DEF Closed
    <3> QED
      BY <3>1, <3>2, <3>3
  <2>4. T = DOMAIN hs
    BY <2>1, <2>2, <2>3 DEF Heap, Connected, Closed
  <2> QED
    BY <1>2, <2>4
<1> QED
  BY <1>5, <1>6, <1>8, <1>9, <1>10 DEF Heap, NewFirst

-----------------------------------------------------------------------------
(* allocate_more_mem.                                                      *)

\* The heap with the header of a fresh page that is not linked yet.
NewPage(hs, h) ==
    [a \in DOMAIN hs \cup {h} |->
        IF a = h
        THEN [next |-> NULL, prev |-> NULL, len |-> PageSize - HeaderSize,
              in_use |-> FALSE, start_of_allocation |-> TRUE]
        ELSE hs[a]]

\* The same, linked behind tail.
Linked(hs, tail, h) ==
    IF tail = NULL THEN NewPage(hs, h)
    ELSE [NewPage(hs, h) EXCEPT ![tail].next = h, ![h].prev = tail]

LEMMA AppendFields ==
  ASSUME NEW hs, Typed(hs), NEW h \in Nat \ {0}, h \notin DOMAIN hs,
         NEW tail \in DOMAIN hs \cup {NULL}, NEW r, r = Linked(hs, tail, h)
  PROVE  Typed(r) /\ IsAppended(hs, tail, h, r)
<1> DEFINE n == NewPage(hs, h)
<1>0. PageSize - HeaderSize \in Nat /\ NULL \in Nat /\ NULL \notin DOMAIN hs
  BY LayoutAssumption DEF NULL, Typed
<1>1. /\ DOMAIN n = DOMAIN hs \cup {h}
      /\ n \in [DOMAIN hs \cup {h} -> HeaderType]
      /\ n[h] = [next |-> NULL, prev |-> NULL, len |-> PageSize - HeaderSize,
                 in_use |-> FALSE, start_of_allocation |-> TRUE]
      /\ \A a \in DOMAIN hs : n[a] = hs[a]
  BY <1>0 DEF NewPage, Typed, HeaderType
<1> HIDE DEF n
<1>2. /\ DOMAIN r = DOMAIN hs \cup {h}
      /\ r \in [DOMAIN hs \cup {h} -> HeaderType]
      /\ IsAppended(hs, tail, h, r)
  <2>1. CASE tail = NULL
    <3>1. r = n
      BY <2>1 DEF Linked, n
    <3> QED
      BY <1>0, <1>1, <2>1, <3>1 DEF IsAppended
  <2>2. CASE tail # NULL
    <3>1. r = [n EXCEPT ![tail].next = h, ![h].prev = tail] /\ tail \in DOMAIN hs
      BY <2>2 DEF Linked, n
    <3>2. tail \in Nat /\ tail # h
      BY <3>1 DEF Typed
    <3>3. /\ DOMAIN r = DOMAIN hs \cup {h}
          /\ r \in [DOMAIN hs \cup {h} -> HeaderType]
      BY <1>1, <3>1, <3>2 DEF HeaderType
    <3>4. /\ r[h].next = NULL /\ r[h].prev = tail
          /\ r[h].len = PageSize - HeaderSize
          /\ r[h].in_use = FALSE /\ r[h].start_of_allocation = TRUE
      BY <1>1, <3>1, <3>2 DEF HeaderType
    <3>5. \A a \in DOMAIN hs :
             /\ r[a].next = IF a = tail THEN h ELSE hs[a].next
             /\ r[a].prev = hs[a].prev
             /\ r[a].len = hs[a].len
             /\ r[a].in_use = hs[a].in_use
             /\ r[a].start_of_allocation = hs[a].start_of_allocation
      BY <1>1, <3>1, <3>2 DEF HeaderType
    <3> QED
      BY <3>3, <3>4, <3>5 DEF IsAppended
  <2> QED
    BY <2>1, <2>2
<1>3. IsFiniteSet(DOMAIN r)
  BY <1>2, FS_AddElement DEF Typed
<1> QED
  BY <1>2, <1>3 DEF Typed

\* The code splits the fresh page before it links it; the result is the same.
LEMMA SplitThenLink ==
  ASSUME NEW hs, Typed(hs), NEW h \in Nat \ {0}, h \notin DOMAIN hs,
         NEW tail \in DOMAIN hs, NEW needed \in Nat,
         h + round_to_multiple_of(needed, HeaderSize) + HeaderSize
            \notin DOMAIN hs \cup {h}
  PROVE  [split_header(NewPage(hs, h), h, needed) EXCEPT ![tail].next = h,
                                                         ![h].prev = tail]
           = split_header(Linked(hs, tail, h), h, needed)
<1> DEFINE n == NewPage(hs, h)
           m == [n EXCEPT ![tail].next = h, ![h].prev = tail]
           s == round_to_multiple_of(needed, HeaderSize)
           new == h + s + HeaderSize
           last == [next |-> NULL, prev |-> h,
                    len |-> PageSize - HeaderSize - s - HeaderSize,
                    in_use |-> FALSE, start_of_allocation |-> FALSE]
           sn == [n EXCEPT ![h].next = new, ![h].len = s]
           sm == [m EXCEPT ![h].next = new, ![h].len = s]
<1>0. tail # NULL /\ tail # h
  BY DEF Typed, NULL
<1>1. /\ DOMAIN n = DOMAIN hs \cup {h} /\ tail \in DOMAIN n /\ h \in DOMAIN n
      /\ n[h] = [next |-> NULL, prev |-> NULL, len |-> PageSize - HeaderSize,
                 in_use |-> FALSE, start_of_allocation |-> TRUE]
      /\ n[tail] \in HeaderType
      /\ n = [a \in DOMAIN hs \cup {h} |-> n[a]]
  BY DEF NewPage, Typed
<1>2. Linked(hs, tail, h) = m
  BY <1>0 DEF Linked
<1> HIDE DEF n, s
<1>3. /\ DOMAIN m = DOMAIN n /\ m[h].next = NULL
      /\ m[h].len = PageSize - HeaderSize
  BY <1>0, <1>1
<1>4. split_header(n, h, needed)
        = [a \in DOMAIN n \cup {new} |-> IF a = new THEN last ELSE sn[a]]
  BY <1>1 DEF split_header, SetPrev, s
<1>5. split_header(m, h, needed)
        = [a \in DOMAIN n \cup {new} |-> IF a = new THEN last ELSE sm[a]]
  <2> HIDE DEF m
  <2> QED
    BY <1>3 DEF split_header, SetPrev, s
<1> DEFINE x == [a \in DOMAIN n \cup {new} |-> IF a = new THEN last ELSE sn[a]]
           y == [a \in DOMAIN n \cup {new} |-> IF a = new THEN last ELSE sm[a]]
           z == [x EXCEPT ![tail].next = h, ![h].prev = tail]
<1>6. new # h /\ new # tail
  BY <1>1 DEF s
<1>7. DOMAIN z = DOMAIN n \cup {new} /\ z = [a \in DOMAIN n \cup {new} |-> z[a]]
  <2> HIDE DEF sn, last
  <2> QED
    OBVIOUS
<1>8. ASSUME NEW a \in DOMAIN n \cup {new} PROVE z[a] = y[a]
  <2>1. CASE a = new
    <3> HIDE DEF sn, sm, last
    <3> QED
      BY <1>1, <1>6, <2>1
  <2>2. CASE a = tail
    <3>1. sn[tail] = n[tail] /\ sm[tail] = [n[tail] EXCEPT !.next = h]
      BY <1>0, <1>1
    <3> HIDE DEF sn, sm, last
    <3> QED
      BY <1>0, <1>1, <1>6, <2>2, <3>1
  <2>3. CASE a = h
    <3>1. n[h] \in HeaderType /\ new \in Nat /\ s \in Nat /\ tail \in Nat
      <4>1. HeaderSize \in Nat \ {0} /\ PageSize - HeaderSize \in Nat
        BY LayoutAssumption
      <4>2. s \in Nat
        BY <4>1, RoundUp DEF s, round_to_multiple_of
      <4>3. n[h] \in HeaderType
        BY <1>1, <4>1 DEF HeaderType, NULL
      <4> QED
        BY <4>1, <4>2, <4>3 DEF Typed
    <3>2. /\ sn[h] \in HeaderType /\ sn[h].next = new /\ sn[h].prev = NULL
          /\ sn[h].len = s /\ sn[h].in_use = FALSE
          /\ sn[h].start_of_allocation = TRUE
      <4>1. /\ n[h].prev = NULL /\ n[h].in_use = FALSE
            /\ n[h].start_of_allocation = TRUE
        BY <1>1
      <4>2. sn[h] = [[n[h] EXCEPT !.next = new] EXCEPT !.len = s]
        BY <1>1
      <4> HIDE DEF sn
      <4> QED
        BY <3>1, <4>1, <4>2 DEF HeaderType
    <3>3. /\ sm[h] \in HeaderType /\ sm[h].next = new /\ sm[h].prev = tail
          /\ sm[h].len = s /\ sm[h].in_use = FALSE
          /\ sm[h].start_of_allocation = TRUE
      <4>1. n[h].in_use = FALSE /\ n[h].start_of_allocation = TRUE
        BY <1>1
      <4>2. m[h] = [n[h] EXCEPT !.prev = tail]
        BY <1>0, <1>1
      <4>3. /\ m[h] \in HeaderType /\ m[h].prev = tail /\ m[h].in_use = FALSE
            /\ m[h].start_of_allocation = TRUE
        <5> HIDE DEF m
        <5> QED
          BY <3>1, <4>1, <4>2 DEF HeaderType
      <4>4. sm[h] = [[m[h] EXCEPT !.next = new] EXCEPT !.len = s]
        <5> HIDE DEF m
        <5> QED
          BY <1>1, <1>3
      <4> HIDE DEF sm, m
      <4> QED
        BY <3>1, <4>3, <4>4 DEF HeaderType
    <3> HIDE DEF sn, sm, last
    <3>4. y[h] = sm[h] /\ x[h] = sn[h] /\ z[h] = [x[h] EXCEPT !.prev = tail]
      BY <1>0, <1>1, <1>6
    <3>5. /\ z[h] \in HeaderType /\ z[h].next = new /\ z[h].prev = tail
          /\ z[h].len = s /\ z[h].in_use = FALSE
          /\ z[h].start_of_allocation = TRUE
      <4> HIDE DEF x, z
      <4> QED
        BY <3>1, <3>2, <3>4 DEF HeaderType
    <3> HIDE DEF x, y, z
    <3>6. z[h] = y[h]
      BY <3>3, <3>4, <3>5, SameHeader
    <3> QED
      BY <2>3, <3>6
  <2>4. CASE a # new /\ a # tail /\ a # h
    <3>1. sn[a] = n[a] /\ sm[a] = n[a]
      BY <1>1, <2>4
    <3> HIDE DEF sn, sm, last
    <3> QED
      BY <1>1, <2>4, <3>1
  <2> QED
    BY <2>1, <2>2, <2>3, <2>4
<1>9. z = y
  <2> HIDE DEF z, sn, sm, last
  <2> QED
    BY <1>7, <1>8
<1> QED
  BY <1>2, <1>4, <1>5, <1>9 DEF n

\* What the heap looks like after it grew by the page at h for `needed' bytes.
IsGrown(hs, h, needed, r) ==
    /\ h \notin DOMAIN hs /\ h \in DOMAIN r /\ DOMAIN hs \subseteq DOMAIN r
    /\ \A a \in DOMAIN hs : r[a].len = hs[a].len /\ r[a].in_use = hs[a].in_use
    /\ \A a \in DOMAIN r \ DOMAIN hs :
          /\ r[a].in_use = FALSE
          /\ a # h => ChunkEnd(r, a) = PageBase(a) + PageSize
    /\ needed + HeaderSize <= PageSize =>
          needed <= r[h].len /\ r[h].len <= needed + HeaderSize

\* The heap that MallocFirst (tail is NULL) and MallocGrow leave.
Grown(hs, tail, h, needed) ==
    IF tail = NULL THEN allocate_more_mem(hs, h, needed)
    ELSE [allocate_more_mem(hs, h, needed) EXCEPT ![tail].next = h,
                                                  ![h].prev = tail]

LEMMA GrowKeepsHeap ==
  ASSUME NEW hs, NEW first, NEW pgs, Heap(hs, first, pgs),
         NEW p \in Pages, p \notin pgs, NEW h, h = p * PageSize,
         NEW needed \in Nat, NEW tail, NEW head,
         \/ tail = NULL /\ DOMAIN hs = {} /\ head = h
         \/ tail \in DOMAIN hs /\ hs[tail].next = NULL /\ head = first,
         NEW qs \in SUBSET Pages, pgs \cup {p} \subseteq qs,
         NEW r, r = Grown(hs, tail, h, needed)
  PROVE  Heap(r, head, qs) /\ IsGrown(hs, h, needed, r)
<1> DEFINE l == Linked(hs, tail, h)
           len == PageSize - HeaderSize
<1>0. HeaderSize \in Nat \ {0} /\ PageSize \in Nat \ {0} /\ PageSize >= 2 * HeaderSize
      /\ len \in Nat /\ PageSize % HeaderSize = 0
  BY LayoutAssumption
<1>1. Typed(hs) /\ NULL \notin DOMAIN hs /\ tail \in DOMAIN hs \cup {NULL}
  BY DEF Heap, Typed, NULL
<1>2. /\ h \in Nat \ {0} /\ h \notin DOMAIN hs
      /\ \A a \in DOMAIN hs : a \in Nat /\ (a >= h => a >= h + PageSize)
  BY <1>0, <1>1, PageIsNew DEF Heap, Typed
<1>3. Typed(l) /\ IsAppended(hs, tail, h, l)
  BY <1>1, <1>2, AppendFields
<1> HIDE DEF l
<1>4. Heap(l, head, qs)
  BY <1>3, AppendKeepsHeap
<1>5. /\ DOMAIN l = DOMAIN hs \cup {h} /\ l[h].len = len /\ l[h].in_use = FALSE
      /\ \A a \in DOMAIN hs : l[a].len = hs[a].len /\ l[a].in_use = hs[a].in_use
  BY <1>3 DEF IsAppended
<1>6. allocate_more_mem(hs, h, needed)
        = IF needed < len - HeaderSize THEN split_header(NewPage(hs, h), h, needed)
          ELSE NewPage(hs, h)
  BY DEF allocate_more_mem, NewPage
<1>7. CASE ~(needed < len - HeaderSize)
  <2>1. r = l
    BY <1>6, <1>7 DEF l, Linked, Grown
  <2> QED
    BY <1>0, <1>2, <1>4, <1>5, <1>7, <2>1 DEF IsGrown
<1>8. CASE needed < len - HeaderSize
  <2> DEFINE s == round_to_multiple_of(needed, HeaderSize)
             new == h + s + HeaderSize
             k == split_header(l, h, needed)
  <2>1. h \in DOMAIN l /\ needed + HeaderSize <= l[h].len
    BY <1>0, <1>5, <1>8
  <2>2. /\ Heap(k, head, qs)
        /\ s \in Nat /\ needed <= s /\ s < needed + HeaderSize
        /\ s + HeaderSize <= l[h].len /\ new \notin DOMAIN l
        /\ IsSplit(l, h, s, new, k)
    BY <1>4, <2>1, SplitKeepsHeap
  <2>3. k = r
    <3>1. CASE tail = NULL
      BY <1>6, <1>8, <3>1 DEF l, Linked, Grown
    <3>2. CASE tail # NULL
      <4>1. [split_header(NewPage(hs, h), h, needed) EXCEPT ![tail].next = h,
                                                            ![h].prev = tail]
              = split_header(Linked(hs, tail, h), h, needed)
        BY <1>1, <1>2, <1>5, <2>2, <3>2, SplitThenLink
      <4> QED
        BY <1>6, <1>8, <3>2, <4>1 DEF l, Grown
    <3> QED
      BY <3>1, <3>2
  <2>4. /\ DOMAIN r = DOMAIN hs \cup {h, new}
        /\ r[new].len = l[h].len - s - HeaderSize
        /\ r[new].in_use = FALSE /\ r[h].in_use = FALSE /\ r[h].len = s
        /\ \A a \in DOMAIN hs : r[a].len = hs[a].len /\ r[a].in_use = hs[a].in_use
    <3>1. IsSplit(l, h, s, new, r)
      BY <2>2, <2>3
    <3> HIDE DEF new, s, k
    <3>2. DOMAIN r = DOMAIN l \cup {new} /\ r[new].in_use = FALSE
          /\ r[new].len = l[h].len - s - HeaderSize
      BY <3>1 DEF IsSplit
    <3>3. r[h].in_use = l[h].in_use /\ r[h].len = s
      BY <2>1, <3>1 DEF IsSplit
    <3>4. \A a \in DOMAIN l : a # h => r[a].len = l[a].len /\ r[a].in_use = l[a].in_use
      BY <3>1 DEF IsSplit
    <3> QED
      BY <1>2, <1>5, <3>2, <3>3, <3>4
  <2>5. ChunkEnd(r, new) = PageBase(new) + PageSize
    <3>1. ChunkEnd(r, new) = h + PageSize
      BY <1>0, <1>2, <1>5, <2>2, <2>4 DEF ChunkEnd
    <3>2. PageBase(h) = h
      BY PageStart, PagesAssumption
    <3>3. new \in Nat /\ h <= new /\ new < h + PageSize
      BY <1>0, <1>2, <1>5, <2>2
    <3>4. PageBase(new) = h
      BY <1>2, <3>2, <3>3, SamePage
    <3> QED
      BY <3>1, <3>4
  <2> HIDE DEF new, s, k
  <2> QED
    BY <1>0, <1>2, <1>5, <2>2, <2>3, <2>4, <2>5 DEF IsGrown
<1> QED
  BY <1>7, <1>8

\* get_mem hands out at least the page it names, and no page we hold; exactly
\* that page for a request that fits.
LEMMA GetMem ==
  ASSUME NEW needed \in Nat, NEW p \in Pages, NEW got \in SUBSET Pages,
         get_mem(needed, p * PageSize, got)
  PROVE  /\ p \in got /\ got \subseteq Pages \ pages
         /\ needed + HeaderSize <= PageSize => got = {p}
<1>0. HeaderSize \in Nat \ {0} /\ PageSize \in Nat \ {0} /\ p \in Nat
  BY LayoutAssumption, PagesAssumption
<1> DEFINE m == round_to_multiple_of(needed + HeaderSize, PageSize)
           n == m \div PageSize
<1>1. PICK q \in Pages : /\ got = q .. (q + n - 1)
                         /\ got \subseteq Pages \ pages
                         /\ p * PageSize = q * PageSize
  BY DEF get_mem
<1>2. q \in Nat /\ (q * PageSize) \div PageSize = q /\ (p * PageSize) \div PageSize = p
  BY <1>0, PagesAssumption, PageStart
<1>3. q = p
  BY <1>1, <1>2
<1>4. needed + HeaderSize \in Nat
  BY <1>0
<1>5. m \in Nat /\ m % PageSize = 0 /\ needed + HeaderSize <= m
  BY <1>0, <1>4, RoundUp DEF round_to_multiple_of
<1>6. n \in Nat /\ m = n * PageSize + (m % PageSize)
  BY <1>0, <1>5, DivMod
<1>7. m = n * PageSize
  BY <1>0, <1>5, <1>6
<1>8. n >= 1
  BY <1>0, <1>5, <1>6, <1>7
<1>9. needed + HeaderSize <= PageSize => n = 1
  <2> SUFFICES ASSUME needed + HeaderSize <= PageSize PROVE n = 1
    OBVIOUS
  <2>1. PageSize = 1 * PageSize + 0 /\ 1 \in Nat /\ 0 \in 0 .. (PageSize - 1)
    BY <1>0
  <2>2. PageSize % PageSize = 0
    BY <1>0, <2>1, DivUnique
  <2>3. m <= PageSize
    BY <1>0, <1>4, <2>2, RoundUpLeast DEF round_to_multiple_of
  <2> HIDE DEF n, m
  <2>4. n <= 1
    <3> SUFFICES ASSUME n >= 2 PROVE FALSE
      BY <1>6
    <3>1. 2 * PageSize <= n * PageSize
      BY <1>0, <1>6
    <3> QED
      BY <1>0, <1>5, <1>7, <2>3, <3>1
  <2> QED
    BY <1>6, <1>8, <2>4
<1> HIDE DEF n, m
<1> QED
  BY <1>0, <1>1, <1>3, <1>6, <1>8, <1>9

-----------------------------------------------------------------------------
(* Taking and freeing a chunk.                                             *)

InUse(hs) == {h \in DOMAIN hs : hs[h].in_use}

\* No two free chunks touch, save that nothing is said of the chunk `fresh' nor
\* of the chunks that end where the chunk x begins (NULL: no exception).
Merged(hs, fresh, x) ==
    \A h \in DOMAIN hs \ {fresh} :
       ~hs[h].in_use /\ ChunkEnd(hs, h) # PageBase(h) + PageSize
           => hs[ChunkEnd(hs, h)].in_use \/ ChunkEnd(hs, h) = x

\* Every page has a chunk that is in use or is about to be.
Occupied(hs, pgs, fresh) ==
    \A p \in pgs : \E h \in DOMAIN hs :
       h \div PageSize = p /\ (hs[h].in_use \/ h = fresh)

\* Only the in_use of h differs.
IsMarked(hs, h, b, r) ==
    /\ DOMAIN r = DOMAIN hs
    /\ \A a \in DOMAIN hs :
          /\ r[a].next = hs[a].next /\ r[a].prev = hs[a].prev
          /\ r[a].len = hs[a].len
          /\ r[a].start_of_allocation = hs[a].start_of_allocation
          /\ r[a].in_use = IF a = h THEN b ELSE hs[a].in_use

Marked(hs, h, b) == [hs EXCEPT ![h].in_use = b]

LEMMA MarkFields ==
  ASSUME NEW hs, Typed(hs), NEW h \in DOMAIN hs, NEW b \in BOOLEAN
  PROVE  Typed(Marked(hs, h, b)) /\ IsMarked(hs, h, b, Marked(hs, h, b))
<1> DEFINE r == Marked(hs, h, b)
<1>1. hs \in [DOMAIN hs -> HeaderType] /\ DOMAIN r = DOMAIN hs
  BY DEF Typed, Marked
<1>2. \A a \in DOMAIN hs : a # h => r[a] = hs[a]
  BY <1>1 DEF Marked
<1>3. /\ r[h].next = hs[h].next /\ r[h].prev = hs[h].prev
      /\ r[h].len = hs[h].len /\ r[h] \in HeaderType
      /\ r[h].start_of_allocation = hs[h].start_of_allocation
      /\ r[h].in_use = b
  <2>1. hs[h] \in HeaderType /\ r[h] = [hs[h] EXCEPT !.in_use = b]
    BY <1>1 DEF Marked
  <2> HIDE DEF r
  <2> QED
    BY <2>1 DEF HeaderType
<1>4. r = [a \in DOMAIN r |-> r[a]]
  BY DEF Marked
<1> HIDE DEF r
<1>5. \A a \in DOMAIN hs : r[a] \in HeaderType
  BY <1>1, <1>2, <1>3
<1>6. Typed(r)
  BY <1>1, <1>4, <1>5 DEF Typed
<1>7. IsMarked(hs, h, b, r)
  BY <1>1, <1>2, <1>3 DEF IsMarked
<1> QED
  BY <1>6, <1>7 DEF r

\* The heap's order does not depend on in_use.
LEMMA MarkKeepsHeap ==
  ASSUME NEW hs, NEW first, NEW pgs, Heap(hs, first, pgs), NEW h \in DOMAIN hs,
         NEW b \in BOOLEAN
  PROVE  /\ Heap(Marked(hs, h, b), first, pgs)
         /\ IsMarked(hs, h, b, Marked(hs, h, b))
<1> DEFINE r == Marked(hs, h, b)
<1>1. Typed(r) /\ IsMarked(hs, h, b, r)
  BY MarkFields DEF Heap
<1> HIDE DEF r
<1>2. /\ DOMAIN r = DOMAIN hs
      /\ \A a \in DOMAIN hs :
          /\ r[a].next = hs[a].next /\ r[a].prev = hs[a].prev
          /\ r[a].len = hs[a].len
          /\ r[a].start_of_allocation = hs[a].start_of_allocation
  BY <1>1 DEF IsMarked
<1>3. \A a \in DOMAIN hs : ChunkEnd(r, a) = ChunkEnd(hs, a)
  BY <1>2 DEF ChunkEnd
<1>4. Layout(r, pgs)
  BY <1>2, <1>3 DEF Heap, Layout
<1>5. Links(r, first)
  BY <1>2 DEF Heap, Links
<1>6. Adjacent(r)
  <2>1. \A a \in DOMAIN hs : hs[a].prev # NULL => hs[a].prev \in DOMAIN hs
    BY DEF Heap, Links
  <2> QED
    BY <1>2, <1>3, <2>1 DEF Heap, Adjacent
<1>7. Connected(r, first)
  <2> SUFFICES ASSUME NEW S \in SUBSET DOMAIN r, Closed(r, first, S)
               PROVE  S = DOMAIN r
    BY DEF Connected
  <2>1. Closed(hs, first, S)
    BY <1>2 DEF Closed
  <2> QED
    BY <1>2, <2>1 DEF Heap, Connected
<1>8. Heap(r, first, pgs)
  BY <1>1, <1>4, <1>5, <1>6, <1>7 DEF Heap
<1> QED
  BY <1>1, <1>8 DEF r

\* Where chunks end: at the end of their page or where the next one begins; two
\* chunks never end at the same place.
LEMMA Ends ==
  ASSUME NEW hs, NEW first, NEW pgs, Heap(hs, first, pgs), NEW h \in DOMAIN hs
  PROVE  LET e == ChunkEnd(hs, h)
         IN  /\ h \in Nat /\ e \in Nat /\ h < e
             /\ \A a \in DOMAIN hs : ChunkEnd(hs, a) = e => a = h
             /\ e # PageBase(h) + PageSize =>
                   /\ e = hs[h].next /\ e # NULL /\ e \in DOMAIN hs
                   /\ e \div PageSize = h \div PageSize
                   /\ PageBase(e) = PageBase(h) /\ ~hs[e].start_of_allocation
<1> DEFINE e == ChunkEnd(hs, h)
<1>0. HeaderSize \in Nat \ {0} /\ PageSize \in Nat \ {0}
  BY LayoutAssumption
<1>1. \A a \in DOMAIN hs : a \in Nat \ {0} /\ hs[a].len \in Nat
  BY DEF Heap, Typed, HeaderType
<1>2. \A a \in DOMAIN hs : ChunkEnd(hs, a) \in Nat /\ a < ChunkEnd(hs, a)
  BY <1>0, <1>1 DEF ChunkEnd
<1>3. \A a, g \in DOMAIN hs : a < g => ChunkEnd(hs, a) <= g
  BY DEF Heap, Layout
<1>4. ASSUME NEW a \in DOMAIN hs, ChunkEnd(hs, a) = e PROVE a = h
  <2>1. ~(a < h) /\ ~(h < a)
    BY <1>1, <1>2, <1>3, <1>4
  <2> QED
    BY <1>1, <2>1
<1>5. ASSUME e # PageBase(h) + PageSize
      PROVE  /\ e = hs[h].next /\ e # NULL /\ e \in DOMAIN hs
             /\ e \div PageSize = h \div PageSize
             /\ PageBase(e) = PageBase(h) /\ ~hs[e].start_of_allocation
  <2>1. e = hs[h].next /\ e # NULL
    BY <1>1, <1>2, <1>5 DEF Heap, Adjacent, NULL
  <2>2. e \in DOMAIN hs
    BY <2>1 DEF Heap, Links
  <2>3. PageBase(h) <= h /\ PageBase(h) \in Nat
    BY <1>1, PageBaseFacts
  <2>4. e <= PageBase(h) + PageSize
    BY DEF Heap, Layout
  <2> HIDE DEF e
  <2>5. PageBase(h) <= e /\ e < PageBase(h) + PageSize /\ e \in Nat /\ h < e
    BY <1>0, <1>1, <1>2, <1>5, <2>3, <2>4 DEF e
  <2>6. e \div PageSize = h \div PageSize /\ PageBase(e) = PageBase(h)
    BY <1>1, <2>5, SamePage
  <2>7. ~hs[e].start_of_allocation
    <3>1. e # PageBase(e)
      BY <1>1, <2>3, <2>5, <2>6
    <3> QED
      BY <2>2, <3>1 DEF Heap, Layout
  <2> QED
    BY <2>1, <2>2, <2>6, <2>7
<1> QED
  BY <1>1, <1>2, <1>4, <1>5

\* The chunks in use after h was freed are the others, and as long as before.
IsFreed(hs, h, r) ==
    /\ DOMAIN r \subseteq DOMAIN hs
    /\ InUse(r) = InUse(hs) \ {h}
    /\ \A a \in InUse(r) : r[a].len = hs[a].len

\* The first half of free: after h was marked and has swallowed the chunk behind
\* it, only the chunk before h can still touch it.
LEMMA FreeForward ==
  ASSUME NEW hs, NEW first, NEW pgs, Heap(hs, first, pgs),
         Merged(hs, NULL, NULL), NEW h \in DOMAIN hs, hs[h].in_use,
         NEW u, u = Marked(hs, h, FALSE), NEW m, m = MergeNext(u, h)
  PROVE  /\ Heap(m, first, pgs) /\ h \in DOMAIN m /\ ~m[h].in_use
         /\ IsFreed(hs, h, m) /\ Merged(m, NULL, h)
<1>0. NULL \notin DOMAIN hs /\ HeaderSize \in Nat \ {0} /\ PageSize \in Nat \ {0}
  BY LayoutAssumption DEF Heap, Typed, NULL
<1>1. Heap(u, first, pgs) /\ IsMarked(hs, h, FALSE, u)
  BY MarkKeepsHeap
<1>2. /\ DOMAIN u = DOMAIN hs /\ ~u[h].in_use
      /\ \A a \in DOMAIN hs : a # h => u[a].in_use = hs[a].in_use
      /\ \A a \in DOMAIN hs : u[a].len = hs[a].len /\ u[a].next = hs[a].next
      /\ \A a \in DOMAIN hs : u[a].start_of_allocation = hs[a].start_of_allocation
  BY <1>1 DEF IsMarked
<1>3. \A a \in DOMAIN hs : ChunkEnd(u, a) = ChunkEnd(hs, a)
  BY <1>2 DEF ChunkEnd
<1>4. \A a \in DOMAIN hs :
        LET e == ChunkEnd(hs, a)
        IN  ~hs[a].in_use /\ e # PageBase(a) + PageSize => e \in DOMAIN hs /\ hs[e].in_use
  <2> SUFFICES ASSUME NEW a \in DOMAIN hs, ~hs[a].in_use,
                      ChunkEnd(hs, a) # PageBase(a) + PageSize
               PROVE  ChunkEnd(hs, a) \in DOMAIN hs /\ hs[ChunkEnd(hs, a)].in_use
    OBVIOUS
  <2>1. ChunkEnd(hs, a) \in DOMAIN hs /\ ChunkEnd(hs, a) # NULL
    BY Ends
  <2> QED
    BY <1>0, <2>1 DEF Merged
<1> DEFINE n == u[h].next
           joins == /\ n # NULL /\ ~u[n].in_use /\ ~u[n].start_of_allocation
                    /\ n = ChunkEnd(u, h)
<1>5. CASE ~joins
  <2>1. m = u
    BY <1>5 DEF MergeNext
  <2>2. IsFreed(hs, h, m)
    BY <1>2, <2>1 DEF IsFreed, InUse
  <2>3. Merged(m, NULL, h)
    <3> SUFFICES ASSUME NEW a \in DOMAIN u, ~u[a].in_use,
                        ChunkEnd(u, a) # PageBase(a) + PageSize
                 PROVE  u[ChunkEnd(u, a)].in_use \/ ChunkEnd(u, a) = h
      BY <2>1 DEF Merged
    <3>1. CASE a = h
      <4>1. LET e == ChunkEnd(u, h)
            IN  e = n /\ n # NULL /\ ~u[e].start_of_allocation
        BY <1>1, <3>1, Ends
      <4> QED
        BY <1>5, <3>1, <4>1
    <3>2. CASE a # h
      BY <1>2, <1>3, <1>4, <3>2
    <3> QED
      BY <3>1, <3>2
  <2> QED
    BY <1>1, <1>2, <2>1, <2>2, <2>3
<1>6. CASE joins
  <2>1. n \in DOMAIN u /\ n # h /\ Heap(m, first, pgs) /\ IsMerged(u, h, n, m)
    <3>1. /\ h \in DOMAIN u /\ n = u[h].next /\ n # NULL /\ ~u[n].in_use
          /\ ~u[n].start_of_allocation /\ n = ChunkEnd(u, h)
      BY <1>2, <1>6
    <3> HIDE DEF n
    <3> QED
      BY <1>1, <3>1, MergeNextKeepsHeap
  <2> HIDE DEF n
  <2>2. /\ DOMAIN m = DOMAIN hs \ {n} /\ h \in DOMAIN m /\ ~m[h].in_use
        /\ \A a \in DOMAIN m : a # h => m[a].len = hs[a].len /\ m[a].in_use = hs[a].in_use
        /\ m[h].len = u[h].len + u[n].len + HeaderSize
    <3>1. DOMAIN m = DOMAIN u \ {n} /\ h \in DOMAIN m
      BY <1>2, <2>1 DEF IsMerged
    <3>2. /\ \A a \in DOMAIN m : m[a].in_use = u[a].in_use
          /\ \A a \in DOMAIN m : a # h => m[a].len = u[a].len
          /\ m[h].len = u[h].len + u[n].len + HeaderSize
      BY <2>1, <3>1 DEF IsMerged
    <3> QED
      BY <1>2, <3>1, <3>2
  <2>3. n \in DOMAIN hs /\ ~hs[n].in_use /\ n = ChunkEnd(hs, h)
    BY <1>2, <1>3, <1>6, <2>1
  <2>4. IsFreed(hs, h, m)
    BY <2>2, <2>3 DEF IsFreed, InUse
  <2>5. Merged(m, NULL, h)
    <3> SUFFICES ASSUME NEW a \in DOMAIN m, ~m[a].in_use,
                        ChunkEnd(m, a) # PageBase(a) + PageSize
                 PROVE  m[ChunkEnd(m, a)].in_use \/ ChunkEnd(m, a) = h
      BY DEF Merged
    <3>1. CASE a = h
      <4>1. ChunkEnd(m, h) = ChunkEnd(hs, n)
        <5>1. h \in Nat /\ u[h].len \in Nat /\ u[n].len \in Nat
          BY <1>1, <1>2, <2>3 DEF Heap, Typed, HeaderType
        <5>2. ChunkEnd(m, h) = h + HeaderSize + (u[h].len + u[n].len + HeaderSize)
          BY <2>2 DEF ChunkEnd
        <5>3. n = h + HeaderSize + u[h].len
          BY <1>2, <2>3 DEF ChunkEnd
        <5>4. ChunkEnd(hs, n) = n + HeaderSize + u[n].len
          BY <1>2, <2>3 DEF ChunkEnd
        <5> DEFINE x == u[h].len
                   y == u[n].len
                   z == HeaderSize
        <5>5. x \in Nat /\ y \in Nat /\ z \in Nat
          BY <1>0, <5>1
        <5> HIDE DEF x, y
        <5>6. h + z + (x + y + z) = (h + z + x) + z + y
          BY <5>1, <5>5
        <5> QED
          BY <5>2, <5>3, <5>4, <5>6 DEF x, y
      <4>2. PageBase(n) = PageBase(h)
        <5>1. n # PageBase(h) + PageSize
          <6>1. n # PageBase(n)
            BY <1>2, <1>6, <2>3 DEF Heap, Layout
          <6>2. h \in Nat
            BY DEF Heap, Typed
          <6> QED
            BY <6>1, <6>2, PageEnd
        <5> QED
          BY <2>3, <5>1, Ends
      <4>3. LET e == ChunkEnd(hs, n) IN e \in DOMAIN hs /\ hs[e].in_use
        BY <1>4, <2>3, <3>1, <4>1, <4>2
      <4>4. ChunkEnd(hs, n) # n
        BY <2>3, Ends
      <4>5. ChunkEnd(m, h) \in DOMAIN m
        BY <2>2, <4>1, <4>3, <4>4
      <4> QED
        BY <2>2, <3>1, <4>1, <4>3, <4>5
    <3>2. CASE a # h
      <4>1. ChunkEnd(m, a) = ChunkEnd(hs, a) /\ a \in DOMAIN hs /\ ~hs[a].in_use
        BY <2>2, <3>2 DEF ChunkEnd
      <4>2. LET e == ChunkEnd(hs, a) IN e \in DOMAIN hs /\ hs[e].in_use
        BY <1>4, <4>1
      <4>3. ChunkEnd(hs, a) # n
        BY <2>3, <4>2
      <4> QED
        BY <2>2, <4>1, <4>2, <4>3
    <3> QED
      BY <3>1, <3>2
  <2> QED
    BY <2>1, <2>2, <2>4, <2>5
<1> QED
  BY <1>5, <1>6

\* The chunk that h is part of then.
Absorber(m, h) == IF JoinsPrev(m, h) THEN m[h].prev ELSE h

\* The second half: h may be swallowed by the chunk before it.
LEMMA FreeBackward ==
  ASSUME NEW m, NEW first, NEW pgs, Heap(m, first, pgs), NEW h \in DOMAIN m,
         ~m[h].in_use, Merged(m, NULL, h),
         NEW k, k = MergePrev(m, h),
         NEW x, x = Absorber(m, h)
  PROVE  /\ Heap(k, first, pgs) /\ x \in DOMAIN k /\ ~k[x].in_use
         /\ DOMAIN k \subseteq DOMAIN m /\ InUse(k) = InUse(m)
         /\ \A a \in InUse(k) : k[a].len = m[a].len
         /\ Merged(k, NULL, NULL)
<1>0. NULL \notin DOMAIN m /\ HeaderSize \in Nat \ {0} /\ PageSize \in Nat \ {0}
  BY LayoutAssumption DEF Heap, Typed, NULL
<1>1. \A a \in DOMAIN m :
        LET e == ChunkEnd(m, a)
        IN  ~m[a].in_use /\ e # PageBase(a) + PageSize
               => e \in DOMAIN m /\ (m[e].in_use \/ e = h)
  <2> SUFFICES ASSUME NEW a \in DOMAIN m, ~m[a].in_use,
                      ChunkEnd(m, a) # PageBase(a) + PageSize
               PROVE  /\ ChunkEnd(m, a) \in DOMAIN m
                      /\ m[ChunkEnd(m, a)].in_use \/ ChunkEnd(m, a) = h
    OBVIOUS
  <2>1. ChunkEnd(m, a) \in DOMAIN m
    BY Ends
  <2> QED
    BY <1>0, <2>1 DEF Merged
<1>2. ChunkEnd(m, h) # h
  BY Ends
<1>3. CASE ~JoinsPrev(m, h)
  <2>1. k = m /\ x = h
    BY <1>3 DEF MergePrev, Absorber
  <2>2. Merged(m, NULL, NULL)
    <3> SUFFICES ASSUME NEW a \in DOMAIN m, ~m[a].in_use,
                        ChunkEnd(m, a) # PageBase(a) + PageSize
                 PROVE  m[ChunkEnd(m, a)].in_use
      BY DEF Merged
    <3> SUFFICES ASSUME ChunkEnd(m, a) = h PROVE FALSE
      BY <1>1
    <3>1. ~m[h].start_of_allocation
      BY Ends
    <3>2. m[h].prev # NULL /\ ChunkEnd(m, m[h].prev) = h
      BY <3>1 DEF Heap, Adjacent
    <3>3. m[h].prev \in DOMAIN m
      BY <3>2 DEF Heap, Links
    <3>4. m[h].prev = a
      BY <3>2, <3>3, Ends
    <3> QED
      BY <1>3, <3>1, <3>2, <3>4 DEF JoinsPrev
  <2> QED
    BY <2>1, <2>2 DEF InUse
<1>4. CASE JoinsPrev(m, h)
  <2>1. /\ x \in DOMAIN m /\ x # h /\ ChunkEnd(m, x) = h /\ ~m[x].in_use
        /\ Heap(k, first, pgs) /\ IsMerged(m, x, h, k)
    BY <1>4, MergePrevKeepsHeap DEF Absorber
  <2>2. /\ DOMAIN k = DOMAIN m \ {h} /\ k[x].len = m[x].len + m[h].len + HeaderSize
        /\ \A a \in DOMAIN k : a # x => k[a].len = m[a].len
        /\ \A a \in DOMAIN k : k[a].in_use = m[a].in_use
    BY <2>1 DEF IsMerged
  <2>3. InUse(k) = InUse(m)
    BY <2>2 DEF InUse
  <2>4. Merged(k, NULL, NULL)
    <3> SUFFICES ASSUME NEW a \in DOMAIN k, ~k[a].in_use,
                        ChunkEnd(k, a) # PageBase(a) + PageSize
                 PROVE  k[ChunkEnd(k, a)].in_use
      BY DEF Merged
    <3>1. CASE a = x
      <4>1. ChunkEnd(k, x) = ChunkEnd(m, h)
        <5>1. x \in Nat /\ m[h].len \in Nat /\ m[x].len \in Nat
          BY <2>1 DEF Heap, Typed, HeaderType
        <5> QED
          BY <1>0, <2>1, <2>2, <5>1 DEF ChunkEnd
      <4>2. PageBase(h) = PageBase(x)
        <5>1. h # PageBase(x) + PageSize
          <6>1. h # PageBase(h)
            BY <1>4 DEF JoinsPrev, Heap, Layout
          <6>2. x \in Nat
            BY <2>1 DEF Heap, Typed
          <6> QED
            BY <6>1, <6>2, PageEnd
        <5> QED
          BY <2>1, <5>1, Ends
      <4>3. LET e == ChunkEnd(m, h) IN e \in DOMAIN m /\ m[e].in_use
        BY <1>1, <1>2, <3>1, <4>1, <4>2
      <4> QED
        BY <1>2, <2>2, <3>1, <4>1, <4>3
    <3>2. CASE a # x
      <4>1. ChunkEnd(k, a) = ChunkEnd(m, a) /\ a \in DOMAIN m /\ ~m[a].in_use
        BY <2>2, <3>2 DEF ChunkEnd
      <4>2. ChunkEnd(m, a) # h
        BY <2>1, <3>2, <4>1, Ends
      <4>3. LET e == ChunkEnd(m, a) IN e \in DOMAIN m /\ m[e].in_use
        BY <1>1, <4>1, <4>2
      <4> QED
        BY <2>2, <4>1, <4>2, <4>3
    <3> QED
      BY <3>1, <3>2
  <2> QED
    BY <2>1, <2>2, <2>3, <2>4 DEF InUse
<1> QED
  BY <1>3, <1>4

\* A free chunk that is not a whole page shares its page with one in use.
LEMMA NotAlone ==
  ASSUME NEW hs, NEW first, NEW pgs, Heap(hs, first, pgs), Merged(hs, NULL, NULL),
         NEW x \in DOMAIN hs, ~hs[x].in_use, ~WholePage(hs, x)
  PROVE  \E g \in DOMAIN hs : g \div PageSize = x \div PageSize /\ hs[g].in_use
<1>0. NULL \notin DOMAIN hs /\ HeaderSize \in Nat \ {0} /\ PageSize \in Nat \ {0}
  BY LayoutAssumption DEF Heap, Typed, NULL
<1>1. \A a \in DOMAIN hs :
        LET e == ChunkEnd(hs, a)
        IN  ~hs[a].in_use /\ e # PageBase(a) + PageSize
               => e \in DOMAIN hs /\ hs[e].in_use /\ e \div PageSize = a \div PageSize
  <2> SUFFICES ASSUME NEW a \in DOMAIN hs, ~hs[a].in_use,
                      ChunkEnd(hs, a) # PageBase(a) + PageSize
               PROVE  LET e == ChunkEnd(hs, a)
                      IN  /\ e \in DOMAIN hs /\ hs[e].in_use
                          /\ e \div PageSize = a \div PageSize
    OBVIOUS
  <2>1. LET e == ChunkEnd(hs, a)
        IN  e \in DOMAIN hs /\ e # NULL /\ e \div PageSize = a \div PageSize
    BY Ends
  <2> QED
    BY <1>0, <2>1 DEF Merged
<1>2. CASE hs[x].start_of_allocation
  <2>1. x = PageBase(x) /\ x \in Nat /\ hs[x].len \in Nat
    BY <1>2 DEF Heap, Layout, Typed, HeaderType
  <2>2. hs[x].len < PageSize - HeaderSize
    BY <1>0, <1>2, <2>1 DEF WholePage
  <2>3. ChunkEnd(hs, x) # PageBase(x) + PageSize
    BY <1>0, <2>1, <2>2 DEF ChunkEnd
  <2> QED
    BY <1>1, <2>3
<1>3. CASE ~hs[x].start_of_allocation
  <2> DEFINE p == hs[x].prev
  <2>1. p # NULL /\ ChunkEnd(hs, p) = x
    BY <1>3 DEF Heap, Adjacent
  <2>2. p \in DOMAIN hs
    BY <2>1 DEF Heap, Links
  <2> HIDE DEF p
  <2>3. x # PageBase(p) + PageSize
    <3>1. x # PageBase(x)
      BY <1>3 DEF Heap, Layout
    <3>2. p \in Nat
      BY <2>2 DEF Heap, Typed
    <3> QED
      BY <3>1, <3>2, PageEnd
  <2>4. x \div PageSize = p \div PageSize
    BY <2>1, <2>2, <2>3, Ends
  <2>5. hs[p].in_use
    BY <1>1, <2>1, <2>2, <2>3
  <2> QED
    BY <2>2, <2>4, <2>5
<1> QED
  BY <1>2, <1>3

\* The chunks in use after h was taken for n bytes: h as well, which is long
\* enough, and the others as long as before.
IsTaken(hs, h, n, r) ==
    /\ DOMAIN hs \subseteq DOMAIN r
    /\ InUse(r) = InUse(hs) \cup {h}
    /\ n <= r[h].len
    /\ \A a \in InUse(hs) : r[a].len = hs[a].len

\* A chunk that has less than a header to spare is not split.
LEMMA TakeWhole ==
  ASSUME NEW hs, NEW first, NEW pgs, Heap(hs, first, pgs), NEW h \in DOMAIN hs,
         ~hs[h].in_use, NEW n \in Nat, n <= hs[h].len,
         Merged(hs, h, NULL), Occupied(hs, pgs, h),
         NEW r, r = Marked(hs, h, TRUE)
  PROVE  /\ Heap(r, first, pgs) /\ IsTaken(hs, h, n, r)
         /\ Merged(r, NULL, NULL) /\ Occupied(r, pgs, NULL)
<1>0. NULL \notin DOMAIN hs
  BY DEF Heap, Typed, NULL
<1>1. Heap(r, first, pgs) /\ IsMarked(hs, h, TRUE, r)
  BY MarkKeepsHeap
<1>2. /\ DOMAIN r = DOMAIN hs
      /\ \A a \in DOMAIN hs : r[a].len = hs[a].len
      /\ \A a \in DOMAIN hs : r[a].in_use = IF a = h THEN TRUE ELSE hs[a].in_use
  BY <1>1 DEF IsMarked
<1>3. \A a \in DOMAIN hs : ChunkEnd(r, a) = ChunkEnd(hs, a)
  BY <1>2 DEF ChunkEnd
<1>4. IsTaken(hs, h, n, r)
  BY <1>2 DEF IsTaken, InUse
<1>5. Merged(r, NULL, NULL)
  <2> SUFFICES ASSUME NEW a \in DOMAIN r, ~r[a].in_use,
                      ChunkEnd(r, a) # PageBase(a) + PageSize
               PROVE  r[ChunkEnd(r, a)].in_use
    BY DEF Merged
  <2>1. a \in DOMAIN hs /\ a # h /\ ~hs[a].in_use /\ ChunkEnd(hs, a) # PageBase(a) + PageSize
    BY <1>2, <1>3
  <2>2. ChunkEnd(hs, a) \in DOMAIN hs /\ ChunkEnd(hs, a) # NULL
    BY <2>1, Ends
  <2>3. hs[ChunkEnd(hs, a)].in_use
    BY <2>1, <2>2 DEF Merged
  <2> QED
    BY <1>2, <1>3, <2>1, <2>2, <2>3
<1>6. Occupied(r, pgs, NULL)
  BY <1>0, <1>2 DEF Occupied
<1> QED
  BY <1>1, <1>4, <1>5, <1>6

\* A chunk with more than that to spare is split: the rest becomes a free chunk,
\* which touches no other free chunk because h was free itself.
LEMMA TakeSplit ==
  ASSUME NEW hs, NEW first, NEW pgs, Heap(hs, first, pgs), NEW h \in DOMAIN hs,
         ~hs[h].in_use, NEW n \in Nat, n + HeaderSize < hs[h].len,
         Merged(hs, NULL, NULL), Occupied(hs, pgs, NULL),
         NEW k, k = split_header(hs, h, n), NEW r, r = Marked(k, h, TRUE)
  PROVE  /\ Heap(r, first, pgs) /\ IsTaken(hs, h, n, r)
         /\ Merged(r, NULL, NULL) /\ Occupied(r, pgs, NULL)
<1> DEFINE s == round_to_multiple_of(n, HeaderSize)
           new == h + s + HeaderSize
<1>0. /\ NULL \notin DOMAIN hs /\ HeaderSize \in Nat \ {0} /\ h \in Nat
      /\ hs[h].len \in Nat
  BY LayoutAssumption DEF Heap, Typed, HeaderType, NULL
<1>1. /\ Heap(k, first, pgs) /\ s \in Nat /\ n <= s /\ s + HeaderSize <= hs[h].len
      /\ new \notin DOMAIN hs /\ IsSplit(hs, h, s, new, k)
  BY <1>0, SplitKeepsHeap
<1>2. new \in Nat /\ h < new /\ new # h
  BY <1>0, <1>1
<1> HIDE DEF s
<1>3. new + HeaderSize + (hs[h].len - s - HeaderSize) = h + HeaderSize + hs[h].len
  BY <1>0, <1>1
<1> HIDE DEF new
<1>4. /\ DOMAIN k = DOMAIN hs \cup {new} /\ ~k[new].in_use
      /\ k[new].len = hs[h].len - s - HeaderSize /\ k[h].len = s
      /\ \A a \in DOMAIN hs : a # h => k[a].len = hs[a].len
      /\ \A a \in DOMAIN hs : k[a].in_use = hs[a].in_use
  <2>1. DOMAIN k = DOMAIN hs \cup {new} /\ ~k[new].in_use
        /\ k[new].len = hs[h].len - s - HeaderSize
    BY <1>1 DEF IsSplit
  <2>2. k[h].len = s /\ \A a \in DOMAIN hs : a # h => k[a].len = hs[a].len
    BY <1>1 DEF IsSplit
  <2>3. \A a \in DOMAIN hs : k[a].in_use = hs[a].in_use
    BY <1>1 DEF IsSplit
  <2> QED
    BY <2>1, <2>2, <2>3
<1>5. h \in DOMAIN k
  BY <1>4
<1>6. Heap(r, first, pgs) /\ IsMarked(k, h, TRUE, r)
  BY <1>1, <1>5, MarkKeepsHeap
<1>7. /\ DOMAIN r = DOMAIN hs \cup {new} /\ ~r[new].in_use
      /\ r[new].len = hs[h].len - s - HeaderSize /\ r[h].len = s
      /\ \A a \in DOMAIN hs : a # h => r[a].len = hs[a].len
      /\ \A a \in DOMAIN hs : r[a].in_use = IF a = h THEN TRUE ELSE hs[a].in_use
  <2>1. /\ DOMAIN r = DOMAIN k /\ \A a \in DOMAIN k : r[a].len = k[a].len
        /\ \A a \in DOMAIN k : r[a].in_use = IF a = h THEN TRUE ELSE k[a].in_use
    BY <1>6 DEF IsMarked
  <2> QED
    BY <1>2, <1>4, <1>5, <2>1
<1>8. IsTaken(hs, h, n, r)
  BY <1>1, <1>7 DEF IsTaken, InUse
<1>9. Merged(r, NULL, NULL)
  <2> SUFFICES ASSUME NEW a \in DOMAIN r, ~r[a].in_use,
                      ChunkEnd(r, a) # PageBase(a) + PageSize
               PROVE  r[ChunkEnd(r, a)].in_use
    BY DEF Merged
  <2>1. \A b \in DOMAIN hs : ~hs[b].in_use /\ ChunkEnd(hs, b) # PageBase(b) + PageSize
           => r[ChunkEnd(hs, b)].in_use
    <3> SUFFICES ASSUME NEW b \in DOMAIN hs, ~hs[b].in_use,
                        ChunkEnd(hs, b) # PageBase(b) + PageSize
                 PROVE  r[ChunkEnd(hs, b)].in_use
      OBVIOUS
    <3>1. ChunkEnd(hs, b) \in DOMAIN hs /\ ChunkEnd(hs, b) # NULL
      BY Ends
    <3>2. hs[ChunkEnd(hs, b)].in_use
      BY <1>0, <3>1 DEF Merged
    <3> QED
      BY <1>7, <3>1, <3>2
  <2>2. CASE a = new
    <3>1. ChunkEnd(r, new) = ChunkEnd(hs, h)
      BY <1>3, <1>7 DEF ChunkEnd
    <3>2. PageBase(new) = PageBase(h)
      <4>1. PageBase(h) <= h /\ PageBase(h) \in Nat
        BY <1>0, PageBaseFacts
      <4>2. new < ChunkEnd(hs, h) /\ ChunkEnd(hs, h) <= PageBase(h) + PageSize
        <5>1. new < ChunkEnd(hs, h)
          <6>1. ChunkEnd(hs, h) = h + HeaderSize + hs[h].len
            BY DEF ChunkEnd
          <6> QED
            BY <1>0, <1>1, <6>1 DEF new
        <5> QED
          BY <5>1 DEF Heap, Layout
      <4>3. ChunkEnd(hs, h) \in Nat /\ PageSize \in Nat
        BY Ends, LayoutAssumption
      <4>4. PageBase(h) <= new /\ new < PageBase(h) + PageSize
        BY <1>0, <1>2, <4>1, <4>2, <4>3
      <4> QED
        BY <1>0, <1>2, <4>4, SamePage
    <3> QED
      BY <2>1, <2>2, <3>1, <3>2
  <2>3. CASE a # new
    <3>1. a \in DOMAIN hs /\ a # h /\ ~hs[a].in_use /\ ChunkEnd(r, a) = ChunkEnd(hs, a)
      BY <1>7, <2>3 DEF ChunkEnd
    <3> QED
      BY <2>1, <3>1
  <2> QED
    BY <2>2, <2>3
<1>10. Occupied(r, pgs, NULL)
  BY <1>0, <1>7 DEF Occupied
<1> QED
  BY <1>6, <1>8, <1>9, <1>10

\* free from there to its end: what is left when the chunk stays in the list, and
\* when it was a whole page that is given back.
LEMMA FreeRest ==
  ASSUME NEW hs, NEW first, NEW pgs, Heap(hs, first, pgs), Merged(hs, NULL, NULL),
         Occupied(hs, pgs, NULL), NEW h \in DOMAIN hs, hs[h].in_use,
         NEW m, Heap(m, first, pgs), h \in DOMAIN m, ~m[h].in_use,
         IsFreed(hs, h, m), Merged(m, NULL, h),
         NEW k, k = MergePrev(m, h),
         NEW x, x = Absorber(m, h)
  PROVE  /\ ~WholePage(k, x) => /\ Heap(k, first, pgs) /\ IsFreed(hs, h, k)
                                /\ Merged(k, NULL, NULL) /\ Occupied(k, pgs, NULL)
         /\ WholePage(k, x) =>
               LET r == Unlink(k, x)
                   qs == pgs \ {x \div PageSize}
               IN  /\ Heap(r, NewFirst(k, x, first), qs)
                   /\ IsFreed(hs, h, r)
                   /\ Merged(r, NULL, NULL) /\ Occupied(r, qs, NULL)
<1>0. NULL \notin DOMAIN hs
  BY DEF Heap, Typed, NULL
<1>2. /\ Heap(k, first, pgs) /\ x \in DOMAIN k /\ ~k[x].in_use
      /\ DOMAIN k \subseteq DOMAIN m /\ InUse(k) = InUse(m)
      /\ \A a \in InUse(k) : k[a].len = m[a].len
      /\ Merged(k, NULL, NULL)
  BY FreeBackward
<1>3. IsFreed(hs, h, k)
  BY <1>2 DEF IsFreed
\* The page of h is the page of x: the chunks merge only inside a page.
<1>4. x \div PageSize = h \div PageSize
  <2>1. CASE ~JoinsPrev(m, h)
    BY <2>1 DEF Absorber
  <2>2. CASE JoinsPrev(m, h)
    <3>1. x \in DOMAIN m /\ ChunkEnd(m, x) = h /\ h # PageBase(h)
      <4>1. x \in DOMAIN m /\ ChunkEnd(m, x) = h
        BY <2>2, MergePrevKeepsHeap DEF Absorber
      <4>2. h # PageBase(h)
        BY <2>2 DEF JoinsPrev, Heap, Layout
      <4> QED
        BY <4>1, <4>2
    <3>2. x \in Nat
      BY <3>1 DEF Heap, Typed
    <3>3. h # PageBase(x) + PageSize
      BY <3>1, <3>2, PageEnd
    <3> QED
      BY <3>1, <3>3, Ends
  <2> QED
    BY <2>1, <2>2
\* Another page keeps the chunk it had in use.
<1>5. \A p \in pgs : p # x \div PageSize =>
         \E g \in InUse(k) : g \div PageSize = p /\ g # x
  <2> SUFFICES ASSUME NEW p \in pgs, p # x \div PageSize
               PROVE  \E g \in InUse(k) : g \div PageSize = p /\ g # x
    OBVIOUS
  <2>1. PICK g \in DOMAIN hs : g \div PageSize = p /\ hs[g].in_use
    BY <1>0 DEF Occupied
  <2>2. g # h /\ g # x /\ g \in InUse(k)
    BY <1>3, <1>4, <2>1 DEF IsFreed, InUse
  <2> QED
    BY <2>1, <2>2
<1>6. ASSUME ~WholePage(k, x) PROVE Occupied(k, pgs, NULL)
  <2>1. \E g \in DOMAIN k : g \div PageSize = x \div PageSize /\ k[g].in_use
    BY <1>2, <1>6, NotAlone
  <2> QED
    BY <1>5, <2>1 DEF Occupied, InUse
<1>7. ASSUME WholePage(k, x)
      PROVE  LET r == Unlink(k, x)
                 qs == pgs \ {x \div PageSize}
             IN  /\ Heap(r, NewFirst(k, x, first), qs)
                 /\ IsFreed(hs, h, r)
                 /\ Merged(r, NULL, NULL) /\ Occupied(r, qs, NULL)
  <2> DEFINE r == Unlink(k, x)
             qs == pgs \ {x \div PageSize}
             head == NewFirst(k, x, first)
  <2>1. Typed(r) /\ IsUnlinked(k, x, r)
    BY <1>2, UnlinkFields DEF Heap
  <2> HIDE DEF r
  <2>2. Heap(r, head, qs)
    BY <1>2, <1>7, <2>1, UnlinkKeepsHeap
  <2>3. /\ DOMAIN r = DOMAIN k \ {x}
        /\ \A a \in DOMAIN r : r[a].len = k[a].len /\ r[a].in_use = k[a].in_use
    BY <2>1 DEF IsUnlinked
  <2>4. InUse(r) = InUse(k)
    BY <1>2, <2>3 DEF InUse
  <2>5. IsFreed(hs, h, r)
    BY <1>3, <2>3, <2>4 DEF IsFreed, InUse
  <2>6. Merged(r, NULL, NULL)
    <3> SUFFICES ASSUME NEW a \in DOMAIN r, ~r[a].in_use,
                        ChunkEnd(r, a) # PageBase(a) + PageSize
                 PROVE  r[ChunkEnd(r, a)].in_use
      BY DEF Merged
    <3>1. a \in DOMAIN k /\ ~k[a].in_use /\ ChunkEnd(r, a) = ChunkEnd(k, a)
      BY <2>3 DEF ChunkEnd
    <3>2. ChunkEnd(k, a) \in DOMAIN k /\ ChunkEnd(k, a) # NULL
      BY <1>2, <3>1, Ends
    <3>3. a # NULL /\ k[ChunkEnd(k, a)].in_use
      BY <1>2, <3>1, <3>2 DEF Merged, Heap, Typed, NULL
    <3> QED
      BY <1>2, <2>3, <3>1, <3>2, <3>3
  <2>7. Occupied(r, qs, NULL)
    BY <1>5, <2>4 DEF Occupied, InUse
  <2> QED
    BY <2>2, <2>5, <2>6, <2>7 DEF r
<1> QED
  BY <1>2, <1>3, <1>6, <1>7

-----------------------------------------------------------------------------
(* The invariant.                                                          *)

\* What callers hold.
Live(hs, lv) ==
    /\ DOMAIN lv = {h + HeaderSize : h \in InUse(hs)}
    /\ \A h \in InUse(hs) : lv[h + HeaderSize] <= hs[h].len

\* Where the call in progress stands.
Control ==
    /\ pc \in {"idle", "malloc_first", "malloc", "free", "abort"}
    /\ arg \in Nat
    /\ hdr \in DOMAIN headers \cup {NULL}
    /\ pc \in {"malloc", "free"} => hdr \in DOMAIN headers
    /\ pc = "malloc_first" => DOMAIN headers = {}

\* The chunk malloc is about to return without splitting it.
Fresh ==
    IF pc = "malloc" /\ ~TooSmall(hdr) /\ headers[hdr].len <= arg + HeaderSize
    THEN hdr ELSE NULL

\* A request that no page can hold: malloc grows the heap for it without end,
\* so that what Coalesced says is never asked of the heap again.
Large == pc \in {"malloc_first", "malloc"} /\ arg + HeaderSize > PageSize

Whole ==
    \/ Large
    \/ pc = "abort"
    \/ Merged(headers, Fresh, NULL) /\ Occupied(headers, pages, Fresh)

HeapInv ==
    /\ Heap(headers, first_header, pages)
    /\ Live(headers, live)
    /\ Control
    /\ Whole

LEMMA LiveTaken ==
  ASSUME NEW hs, DOMAIN hs \subseteq Nat, NEW lv, Live(hs, lv), NEW h \in DOMAIN hs,
         h \notin InUse(hs), NEW n, NEW r, IsTaken(hs, h, n, r),
         NEW lw, lw = [p \in DOMAIN lv \cup {h + HeaderSize} |->
                          IF p = h + HeaderSize THEN n ELSE lv[p]]
  PROVE  Live(r, lw)
<1>1. HeaderSize \in Nat
  BY LayoutAssumption
<1>2. \A a \in DOMAIN hs : a + HeaderSize = h + HeaderSize => a = h
  BY <1>1
<1>3. DOMAIN lw = {a + HeaderSize : a \in InUse(r)}
  BY DEF Live, IsTaken
<1>4. InUse(r) \subseteq DOMAIN hs
  BY DEF IsTaken, InUse
<1>5. ASSUME NEW a \in InUse(r) PROVE lw[a + HeaderSize] <= r[a].len
  <2>1. CASE a = h
    BY <1>3, <2>1 DEF IsTaken
  <2>2. CASE a # h
    <3>1. a \in InUse(hs) /\ lv[a + HeaderSize] <= r[a].len
      BY <2>2 DEF IsTaken, Live
    <3>2. a + HeaderSize \in DOMAIN lv /\ a + HeaderSize # h + HeaderSize
      BY <1>2, <1>4, <2>2, <3>1 DEF Live
    <3> QED
      BY <3>1, <3>2
  <2> QED
    BY <2>1, <2>2
<1> QED
  BY <1>3, <1>5 DEF Live

LEMMA LiveFreed ==
  ASSUME NEW hs, DOMAIN hs \subseteq Nat, NEW lv, Live(hs, lv), NEW h \in DOMAIN hs,
         NEW r, IsFreed(hs, h, r),
         NEW lw, lw = [p \in DOMAIN lv \ {h + HeaderSize} |-> lv[p]]
  PROVE  Live(r, lw)
<1>1. HeaderSize \in Nat
  BY LayoutAssumption
<1>2. \A a \in DOMAIN hs : a + HeaderSize = h + HeaderSize => a = h
  BY <1>1
<1>3. InUse(hs) \subseteq DOMAIN hs /\ InUse(r) = InUse(hs) \ {h}
  BY DEF IsFreed, InUse
<1>4. DOMAIN lw = {a + HeaderSize : a \in InUse(r)}
  BY <1>2, <1>3 DEF Live
<1>5. ASSUME NEW a \in InUse(r) PROVE lw[a + HeaderSize] <= r[a].len
  BY <1>3, <1>4 DEF Live, IsFreed
<1> QED
  BY <1>4, <1>5 DEF Live

-----------------------------------------------------------------------------
(* The steps.                                                              *)

\* While nothing is exempt, exempting a chunk asks for less.
LEMMA Weaken ==
  ASSUME NEW hs, NEW pgs, NEW fresh, Merged(hs, NULL, NULL), Occupied(hs, pgs, NULL),
         NULL \notin DOMAIN hs
  PROVE  Merged(hs, fresh, NULL) /\ Occupied(hs, pgs, fresh)
  BY DEF Merged, Occupied

\* The heap after it grew by the page at h, for a request of n bytes.
LEMMA GrowWhole ==
  ASSUME NEW hs, NEW first, NEW pgs, Heap(hs, first, pgs),
         Merged(hs, NULL, NULL), Occupied(hs, pgs, NULL),
         NEW p \in Pages, NEW h, h = p * PageSize, NEW n \in Nat, NEW r,
         IsGrown(hs, h, n, r)
  PROVE  Merged(r, h, NULL) /\ Occupied(r, pgs \cup {p}, h)
<1>0. NULL \notin DOMAIN hs
  BY DEF Heap, Typed, NULL
<1>1. /\ h \notin DOMAIN hs /\ h \in DOMAIN r /\ DOMAIN hs \subseteq DOMAIN r
      /\ \A a \in DOMAIN hs : r[a].len = hs[a].len /\ r[a].in_use = hs[a].in_use
      /\ \A a \in DOMAIN r \ DOMAIN hs : a # h => ChunkEnd(r, a) = PageBase(a) + PageSize
  BY DEF IsGrown
<1>2. Merged(r, h, NULL)
  <2> SUFFICES ASSUME NEW a \in DOMAIN r \ {h}, ~r[a].in_use,
                      ChunkEnd(r, a) # PageBase(a) + PageSize
               PROVE  r[ChunkEnd(r, a)].in_use
    BY DEF Merged
  <2>1. a \in DOMAIN hs
    BY <1>1
  <2>2. ChunkEnd(r, a) = ChunkEnd(hs, a) /\ ~hs[a].in_use
    BY <1>1, <2>1 DEF ChunkEnd
  <2>3. ChunkEnd(hs, a) \in DOMAIN hs /\ ChunkEnd(hs, a) # NULL
    BY <2>1, <2>2, Ends
  <2>4. hs[ChunkEnd(hs, a)].in_use
    BY <1>0, <2>1, <2>2, <2>3 DEF Merged
  <2> QED
    BY <1>1, <2>2, <2>3, <2>4
<1>3. Occupied(r, pgs \cup {p}, h)
  <2>1. h \div PageSize = p
    BY PageStart, PagesAssumption
  <2> QED
    BY <1>0, <1>1, <2>1 DEF Occupied
<1> QED
  BY <1>2, <1>3

\* MallocFirst and MallocGrow: tail is the header the new page goes behind.
LEMMA GrowStep ==
  ASSUME HeapInv, NEW tail,
         \/ pc = "malloc_first" /\ tail = NULL
         \/ pc = "malloc" /\ tail = hdr /\ TooSmall(hdr) /\ headers[hdr].next = NULL,
         NEW p \in Pages, NEW got \in SUBSET Pages, get_mem(arg, p * PageSize, got),
         headers' = Grown(headers, tail, p * PageSize, arg),
         hdr' = p * PageSize, pages' = pages \cup got,
         first_header' = IF tail = NULL THEN p * PageSize ELSE first_header,
         pc' = "malloc", UNCHANGED <<arg, live>>
  PROVE  HeapInv'
<1> DEFINE h == p * PageSize
<1>0. /\ Heap(headers, first_header, pages) /\ Live(headers, live) /\ arg \in Nat
      /\ NULL \notin DOMAIN headers
  BY DEF HeapInv, Control, Heap, Typed, NULL
<1>1. /\ p \in got /\ got \subseteq Pages \ pages
      /\ arg + HeaderSize <= PageSize => got = {p}
  BY <1>0, GetMem
<1>2. \/ tail = NULL /\ DOMAIN headers = {} /\ first_header' = h
      \/ tail \in DOMAIN headers /\ headers[tail].next = NULL
         /\ first_header' = first_header
  BY <1>0 DEF HeapInv, Control
<1>3. pages \cup {p} \subseteq pages' /\ pages' \in SUBSET Pages /\ p \notin pages
  BY <1>0, <1>1 DEF Heap, Layout
<1>4. Heap(headers', first_header', pages') /\ IsGrown(headers, h, arg, headers')
  <2> HIDE DEF h
  <2>1. h = p * PageSize
    BY DEF h
  <2>2. headers' = Grown(headers, tail, h, arg)
    BY <2>1
  <2> QED
    BY <1>0, <1>2, <1>3, <2>1, <2>2, GrowKeepsHeap
<1>5. /\ h \notin DOMAIN headers /\ h \in DOMAIN headers'
      /\ DOMAIN headers \subseteq DOMAIN headers'
      /\ \A a \in DOMAIN headers : headers'[a].len = headers[a].len
                                   /\ headers'[a].in_use = headers[a].in_use
      /\ \A a \in DOMAIN headers' \ DOMAIN headers : headers'[a].in_use = FALSE
      /\ arg + HeaderSize <= PageSize =>
            arg <= headers'[h].len /\ headers'[h].len <= arg + HeaderSize
  BY <1>4 DEF IsGrown
<1>6. Live(headers', live')
  <2>1. InUse(headers') = InUse(headers)
    BY <1>5 DEF InUse
  <2> QED
    BY <1>0, <1>5, <2>1 DEF Live, InUse
<1>7. Control'
  BY <1>0, <1>5 DEF Control
<1>8. Whole'
  <2>1. CASE arg + HeaderSize > PageSize
    BY <2>1 DEF Whole, Large
  <2>2. CASE ~(arg + HeaderSize > PageSize)
    <3>1. arg + HeaderSize <= PageSize
      BY <1>0, <2>2, LayoutAssumption
    <3>2. Fresh = NULL /\ pc # "abort" /\ ~Large
      BY <2>2 DEF Fresh, Large
    <3>3. Merged(headers, NULL, NULL) /\ Occupied(headers, pages, NULL)
      BY <3>2 DEF HeapInv, Whole
    <3>4. ~TooSmall(hdr)'
      <4>1. headers'[h].in_use = FALSE /\ arg <= headers'[h].len
        BY <1>5, <3>1
      <4>2. headers'[h].len \in Nat
        BY <1>4, <1>5 DEF Heap, Typed, HeaderType
      <4> QED
        BY <1>0, <4>1, <4>2 DEF TooSmall
    <3>5. Fresh' = h
      BY <1>5, <3>1, <3>4 DEF Fresh
    <3>6. pages' = pages \cup {p}
      BY <1>1, <3>1
    <3>7. Merged(headers', h, NULL) /\ Occupied(headers', pages \cup {p}, h)
      BY <1>0, <1>4, <3>3, GrowWhole
    <3> QED
      BY <3>5, <3>6, <3>7 DEF Whole
  <2> QED
    BY <2>1, <2>2
<1> QED
  BY <1>4, <1>6, <1>7, <1>8 DEF HeapInv

\* A request that fits no page is never satisfied.
LEMMA NeverTaken ==
  ASSUME HeapInv, pc = "malloc", ~TooSmall(hdr)
  PROVE  /\ ~Large /\ headers[hdr].len \in Nat /\ hdr \in DOMAIN headers
         /\ ~headers[hdr].in_use /\ arg <= headers[hdr].len
         /\ Merged(headers, Fresh, NULL) /\ Occupied(headers, pages, Fresh)
<1>0. HeaderSize \in Nat \ {0} /\ PageSize \in Nat \ {0} /\ arg \in Nat
  BY LayoutAssumption DEF HeapInv, Control
<1>1. /\ hdr \in DOMAIN headers /\ hdr \in Nat /\ headers[hdr].len \in Nat
      /\ ChunkEnd(headers, hdr) <= PageBase(hdr) + PageSize
  BY DEF HeapInv, Control, Heap, Typed, Layout, HeaderType
<1>2. ~headers[hdr].in_use /\ arg <= headers[hdr].len
  BY <1>0, <1>1 DEF TooSmall
<1>3. PageBase(hdr) \in Nat /\ PageBase(hdr) <= hdr
  BY <1>1, PageBaseFacts
<1>4. ~Large
  BY <1>0, <1>1, <1>2, <1>3 DEF Large, ChunkEnd
<1> QED
  BY <1>1, <1>2, <1>4 DEF HeapInv, Whole

LEMMA TakeStep ==
  ASSUME HeapInv, MallocTake
  PROVE  HeapInv'
<1> DEFINE k == IF headers[hdr].len > arg + HeaderSize
                THEN split_header(headers, hdr, arg) ELSE headers
<1>0. /\ Heap(headers, first_header, pages) /\ Live(headers, live) /\ arg \in Nat
      /\ DOMAIN headers \subseteq Nat /\ HeaderSize \in Nat
  BY LayoutAssumption DEF HeapInv, Control, Heap, Typed
<1>1. /\ headers[hdr].len \in Nat /\ hdr \in DOMAIN headers
      /\ ~headers[hdr].in_use /\ arg <= headers[hdr].len
      /\ Merged(headers, Fresh, NULL) /\ Occupied(headers, pages, Fresh)
  BY NeverTaken DEF MallocTake
<1>2. headers' = Marked(k, hdr, TRUE)
  BY DEF MallocTake, Marked
<1>3. /\ Heap(headers', first_header, pages) /\ IsTaken(headers, hdr, arg, headers')
      /\ Merged(headers', NULL, NULL) /\ Occupied(headers', pages, NULL)
  <2>1. CASE headers[hdr].len > arg + HeaderSize
    <3>1. Fresh = NULL /\ k = split_header(headers, hdr, arg)
      BY <1>0, <1>1, <2>1 DEF Fresh
    <3>2. arg + HeaderSize < headers[hdr].len
      BY <2>1
    <3> HIDE DEF k
    <3> QED
      BY <1>0, <1>1, <1>2, <3>1, <3>2, TakeSplit
  <2>2. CASE ~(headers[hdr].len > arg + HeaderSize)
    <3>1. Fresh = hdr /\ k = headers
      BY <1>0, <1>1, <2>2 DEF Fresh, MallocTake
    <3>2. headers' = Marked(headers, hdr, TRUE)
      BY <1>2, <3>1
    <3> HIDE DEF k
    <3> QED
      BY <1>0, <1>1, <3>1, <3>2, TakeWhole
  <2> QED
    BY <2>1, <2>2
<1>4. Live(headers', live')
  <2>1. hdr \notin InUse(headers)
    BY <1>1 DEF InUse
  <2>2. live' = [q \in DOMAIN live \cup {hdr + HeaderSize} |->
                   IF q = hdr + HeaderSize THEN arg ELSE live[q]]
    BY DEF MallocTake
  <2> QED
    BY <1>0, <1>1, <1>3, <2>1, <2>2, LiveTaken
<1>5. /\ pc' = "idle" /\ hdr' = NULL /\ arg' = 0
      /\ first_header' = first_header /\ pages' = pages
  BY DEF MallocTake
<1>6. Control'
  BY <1>5 DEF Control
<1>7. Whole'
  <2>1. Fresh' = NULL
    BY <1>5 DEF Fresh
  <2> QED
    BY <1>3, <1>5, <2>1 DEF Whole
<1> QED
  BY <1>3, <1>4, <1>5, <1>6, <1>7 DEF HeapInv

LEMMA FreeStep ==
  ASSUME HeapInv, FreeChunk
  PROVE  HeapInv'
<1> DEFINE u == Marked(headers, hdr, FALSE)
           m == MergeNext(u, hdr)
           k == MergePrev(m, hdr)
           x == Absorber(m, hdr)
<1>0. /\ Heap(headers, first_header, pages) /\ Live(headers, live)
      /\ DOMAIN headers \subseteq Nat /\ hdr \in DOMAIN headers /\ headers[hdr].in_use
  BY DEF HeapInv, Control, Heap, Typed, FreeChunk
<1>1. Merged(headers, NULL, NULL) /\ Occupied(headers, pages, NULL)
  BY DEF HeapInv, Whole, FreeChunk, Fresh, Large
<1>2. /\ ~WholePage(k, x) => /\ headers' = k /\ first_header' = first_header
                             /\ pages' = pages
      /\ WholePage(k, x) => /\ headers' = Unlink(k, x)
                            /\ first_header' = NewFirst(k, x, first_header)
                            /\ pages' = pages \ {x \div PageSize}
  BY DEF FreeChunk, Marked, Absorber, NewFirst
<1> HIDE DEF u
<1>3. /\ Heap(m, first_header, pages) /\ hdr \in DOMAIN m /\ ~m[hdr].in_use
      /\ IsFreed(headers, hdr, m) /\ Merged(m, NULL, hdr)
  BY <1>0, <1>1, FreeForward DEF u
<1> HIDE DEF m
<1>4. /\ ~WholePage(k, x) =>
            /\ Heap(k, first_header, pages) /\ IsFreed(headers, hdr, k)
            /\ Merged(k, NULL, NULL) /\ Occupied(k, pages, NULL)
      /\ WholePage(k, x) =>
            LET r == Unlink(k, x)
                qs == pages \ {x \div PageSize}
            IN  /\ Heap(r, NewFirst(k, x, first_header), qs)
                /\ IsFreed(headers, hdr, r)
                /\ Merged(r, NULL, NULL) /\ Occupied(r, qs, NULL)
  BY <1>0, <1>1, <1>3, FreeRest
<1> HIDE DEF k, x
<1>5. /\ Heap(headers', first_header', pages') /\ IsFreed(headers, hdr, headers')
      /\ Merged(headers', NULL, NULL) /\ Occupied(headers', pages', NULL)
  BY <1>2, <1>4
<1>6. Live(headers', live')
  <2>1. live' = [q \in DOMAIN live \ {hdr + HeaderSize} |-> live[q]]
    BY DEF FreeChunk
  <2> QED
    BY <1>0, <1>5, <2>1, LiveFreed
<1>7. pc' = "idle" /\ hdr' = NULL /\ arg' = 0
  BY DEF FreeChunk
<1>8. Control'
  BY <1>7 DEF Control
<1>9. Whole'
  <2>1. Fresh' = NULL
    BY <1>7 DEF Fresh
  <2> QED
    BY <1>5, <2>1 DEF Whole
<1> QED
  BY <1>5, <1>6, <1>8, <1>9 DEF HeapInv

LEMMA HeapInvInit ==
  ASSUME Init
  PROVE  HeapInv
<1>1. DOMAIN headers = {} /\ DOMAIN live = {} /\ headers \in [{} -> HeaderType]
  BY DEF Init
<1>2. InUse(headers) = {}
  BY <1>1 DEF InUse
<1>3. IsFiniteSet(DOMAIN headers)
  BY <1>1, FS_EmptySet
<1>4. Heap(headers, first_header, pages)
  <2>1. Typed(headers)
    BY <1>1, <1>3 DEF Typed
  <2>2. Layout(headers, pages)
    BY <1>1 DEF Init, Layout
  <2>3. Links(headers, first_header)
    BY <1>1 DEF Init, Links
  <2>4. Adjacent(headers) /\ Connected(headers, first_header)
    BY <1>1 DEF Adjacent, Connected
  <2> QED
    BY <2>1, <2>2, <2>3, <2>4 DEF Heap
<1>5. Live(headers, live)
  BY <1>1, <1>2 DEF Live
<1>6. Control
  BY DEF Init, Control
<1>7. Whole
  BY <1>1 DEF Init, Whole, Merged, Occupied
<1> QED
  BY <1>4, <1>5, <1>6, <1>7 DEF HeapInv

\* Steps that leave the heap as it is.
LEMMA LookStep ==
  ASSUME HeapInv, UNCHANGED <<headers, first_header, pages, live>>, Control',
         Whole'
  PROVE  HeapInv'
  BY DEF HeapInv

\* What Whole says while no chunk is about to be taken.
LEMMA WholeNow ==
  ASSUME HeapInv, ~Large, pc # "abort", pc = "malloc" => TooSmall(hdr)
  PROVE  Merged(headers, NULL, NULL) /\ Occupied(headers, pages, NULL)
  BY DEF HeapInv, Whole, Fresh

LEMMA HeapInvNext ==
  ASSUME HeapInv, [Next]_vars
  PROVE  HeapInv'
<1>0. /\ Heap(headers, first_header, pages) /\ Control
      /\ NULL \notin DOMAIN headers
  BY DEF HeapInv, Heap, Typed, NULL
<1>1. /\ first_header = NULL => DOMAIN headers = {}
      /\ first_header # NULL => first_header \in DOMAIN headers
      /\ \A a \in DOMAIN headers : headers[a].next # NULL => headers[a].next \in DOMAIN headers
  BY <1>0 DEF Heap, Links
<1>2. ASSUME NEW size \in Sizes, Malloc(size) PROVE HeapInv'
  <2>1. /\ UNCHANGED <<headers, first_header, pages, live>> /\ arg' = size
        /\ pc' = IF first_header = NULL THEN "malloc_first" ELSE "malloc"
        /\ hdr' = first_header /\ pc = "idle"
    BY <1>2 DEF Malloc
  <2>2. Control'
    BY <1>1, <2>1, SizesAssumption DEF Control
  <2>3. Merged(headers, NULL, NULL) /\ Occupied(headers, pages, NULL)
    BY <2>1, WholeNow DEF Large
  <2>4. Merged(headers, Fresh', NULL) /\ Occupied(headers, pages, Fresh')
    BY <1>0, <2>3, Weaken
  <2>5. Whole'
    BY <2>1, <2>4 DEF Whole
  <2> QED
    BY <2>1, <2>2, <2>5, LookStep
<1>3. CASE MallocFirst
  <2>1. PICK p \in Pages, got \in SUBSET Pages :
          /\ get_mem(arg, p * PageSize, got)
          /\ headers' = allocate_more_mem(headers, p * PageSize, arg)
          /\ first_header' = p * PageSize
          /\ hdr' = p * PageSize
          /\ pages' = pages \cup got
    BY <1>3 DEF MallocFirst
  <2>2. headers' = Grown(headers, NULL, p * PageSize, arg)
    BY <2>1 DEF Grown
  <2>3. pc = "malloc_first" /\ pc' = "malloc" /\ UNCHANGED <<arg, live>>
    BY <1>3 DEF MallocFirst
  <2> QED
    BY <2>1, <2>2, <2>3, GrowStep
<1>4. CASE MallocNext
  <2>1. /\ UNCHANGED <<headers, first_header, pages, pc, arg, live>> /\ pc = "malloc"
        /\ TooSmall(hdr) /\ hdr' = headers[hdr].next /\ headers[hdr].next # NULL
    BY <1>4 DEF MallocNext
  <2>2. Control'
    BY <1>0, <1>1, <2>1 DEF Control
  <2>3. Whole'
    <3>1. CASE Large
      BY <2>1, <3>1 DEF Whole, Large
    <3>2. CASE ~Large
      <4>1. Merged(headers, NULL, NULL) /\ Occupied(headers, pages, NULL)
        BY <2>1, <3>2, WholeNow
      <4>2. Merged(headers, Fresh', NULL) /\ Occupied(headers, pages, Fresh')
        BY <1>0, <4>1, Weaken
      <4> QED
        BY <2>1, <4>2 DEF Whole
    <3> QED
      BY <3>1, <3>2
  <2> QED
    BY <2>1, <2>2, <2>3, LookStep
<1>5. CASE MallocGrow
  <2>1. PICK p \in Pages, got \in SUBSET Pages :
          /\ get_mem(arg, p * PageSize, got)
          /\ headers' = [allocate_more_mem(headers, p * PageSize, arg) EXCEPT
                            ![hdr].next = p * PageSize, ![p * PageSize].prev = hdr]
          /\ hdr' = p * PageSize
          /\ pages' = pages \cup got
    BY <1>5 DEF MallocGrow
  <2>2. /\ pc = "malloc" /\ TooSmall(hdr) /\ headers[hdr].next = NULL
        /\ pc' = "malloc" /\ UNCHANGED <<first_header, arg, live>>
    BY <1>5 DEF MallocGrow
  <2>3. hdr # NULL
    BY <1>0, <2>2 DEF Control
  <2>4. headers' = Grown(headers, hdr, p * PageSize, arg)
    BY <2>1, <2>3 DEF Grown
  <2> QED
    BY <2>1, <2>2, <2>3, <2>4, GrowStep
<1>6. CASE MallocAbort
  <2>1. /\ UNCHANGED <<headers, first_header, pages, live>> /\ UNCHANGED <<hdr, arg>>
        /\ pc' = "abort"
    BY <1>6 DEF MallocAbort
  <2> QED
    BY <1>0, <2>1, LookStep DEF Control, Whole
<1>7. CASE MallocTake
  BY <1>7, TakeStep
<1>8. ASSUME NEW ptr \in Pointers, Free(ptr) PROVE HeapInv'
  <2>1. /\ UNCHANGED <<headers, first_header, pages, live>> /\ arg' = ptr
        /\ pc' = IF first_header = NULL THEN "abort" ELSE "free"
        /\ hdr' = first_header /\ pc = "idle"
    BY <1>8 DEF Free
  <2>2. ptr \in Nat
    <3>1. PICK p \in Pages, k \in 1 .. (PageSize \div HeaderSize) :
            ptr = p * PageSize + k * HeaderSize
      BY DEF Pointers
    <3>2. p \in Nat /\ PageSize \in Nat /\ HeaderSize \in Nat \ {0}
      BY PagesAssumption, LayoutAssumption
    <3>3. p * PageSize \in Nat /\ k * HeaderSize \in Nat
      BY <3>2
    <3> QED
      BY <3>1, <3>3
  <2>3. Control'
    BY <1>1, <2>1, <2>2 DEF Control
  <2>4. Merged(headers, NULL, NULL) /\ Occupied(headers, pages, NULL)
    BY <2>1, WholeNow DEF Large
  <2>5. Fresh' = NULL
    BY <2>1 DEF Fresh
  <2>6. Whole'
    BY <2>1, <2>4, <2>5 DEF Whole
  <2> QED
    BY <2>1, <2>3, <2>6, LookStep
<1>9. CASE FreeNext
  <2>1. /\ UNCHANGED <<headers, first_header, pages, live>> /\ UNCHANGED <<pc, arg>>
        /\ pc = "free" /\ hdr' = headers[hdr].next /\ headers[hdr].next # NULL
    BY <1>9 DEF FreeNext
  <2>2. Control'
    BY <1>0, <1>1, <2>1 DEF Control
  <2>3. Merged(headers, NULL, NULL) /\ Occupied(headers, pages, NULL)
    BY <2>1, WholeNow DEF Large
  <2>4. Fresh' = NULL
    BY <2>1 DEF Fresh
  <2> QED
    BY <2>1, <2>2, <2>3, <2>4, LookStep DEF Whole
<1>10. CASE FreeAbort
  <2>1. /\ UNCHANGED <<headers, first_header, pages, live>> /\ UNCHANGED <<hdr, arg>>
        /\ pc' = "abort"
    BY <1>10 DEF FreeAbort
  <2> QED
    BY <1>0, <2>1, LookStep DEF Control, Whole
<1>11. CASE FreeChunk
  BY <1>11, FreeStep
<1>12. CASE UNCHANGED vars
  BY <1>12 DEF vars, HeapInv, Control, Whole, Large, Fresh, TooSmall
<1>13. CASE Abort
  BY <1>12, <1>13 DEF Abort
<1> QED
  BY <1>2, <1>3, <1>4, <1>5, <1>6, <1>7, <1>8, <1>9, <1>10, <1>11, <1>12, <1>13
     DEF Next

\* Whatever callers ask of malloc and free, the headers they leave in the pages
\* form one list that tiles the memory they describe, agree with what callers
\* hold, and leave no free neighbours: the inductive invariant of the heap.
THEOREM HeapInvariant == Spec => []HeapInv
<1>1. Init => HeapInv
  BY HeapInvInit
<1>2. HeapInv /\ [Next]_vars => HeapInv'
  BY HeapInvNext
<1> QED
  BY <1>1, <1>2, PTL DEF Spec

-----------------------------------------------------------------------------
(* What follows from the invariant.                                        *)

\* Addresses of our chunks.
LEMMA ChunkAddresses ==
  ASSUME NEW hs, NEW first, NEW pgs, Heap(hs, first, pgs), NEW h \in DOMAIN hs,
         NEW a \in Nat, h <= a, a <= ChunkEnd(hs, h)
  PROVE  a \in Addresses
<1> DEFINE p == h \div PageSize
<1>0. PageSize \in Nat \ {0} /\ h \in Nat
  BY LayoutAssumption DEF Heap, Typed
<1>1. p \in Pages /\ ChunkEnd(hs, h) <= PageBase(h) + PageSize /\ ChunkEnd(hs, h) \in Nat
  BY Ends DEF Heap, Layout
<1>2. p \in Nat /\ PageBase(h) = p * PageSize /\ PageBase(h) \in Nat /\ PageBase(h) <= h
  BY <1>0, PageBaseFacts DEF PageBase
<1>3. (p + 1) * PageSize = p * PageSize + PageSize
  BY <1>0, <1>2
<1> HIDE DEF p
<1>4. a \in p * PageSize .. (p + 1) * PageSize
  <2> DEFINE b == p * PageSize
             c == (p + 1) * PageSize
  <2>1. b \in Nat /\ c = b + PageSize /\ b <= a /\ a <= b + PageSize
    <3> DEFINE e == ChunkEnd(hs, h)
    <3>1. b = PageBase(h) /\ b \in Nat /\ e \in Nat /\ e <= b + PageSize /\ b <= h
      BY <1>1, <1>2
    <3>2. a <= e
      OBVIOUS
    <3> HIDE DEF b, e
    <3>3. b <= a /\ a <= b + PageSize
      BY <1>0, <3>1, <3>2
    <3> QED
      BY <1>3, <3>1, <3>3 DEF b
  <2> HIDE DEF b, c
  <2>2. a \in b .. c
    BY <1>0, <2>1
  <2> QED
    BY <2>2 DEF b, c
<1> QED
  BY <1>1, <1>4 DEF Addresses

LEMMA TypeOKFromInv ==
  ASSUME HeapInv
  PROVE  TypeOK
<1>0. /\ Heap(headers, first_header, pages) /\ Live(headers, live) /\ Control
      /\ HeaderSize \in Nat \ {0} /\ PageSize \in Nat \ {0}
  BY LayoutAssumption DEF HeapInv
<1>1. \A h \in DOMAIN headers :
         /\ h \in Nat /\ headers[h] \in HeaderType /\ headers[h].len \in Nat
         /\ headers[h].next \in Nat /\ headers[h].prev \in Nat
  BY <1>0 DEF Heap, Typed, HeaderType
<1>2. \A h \in DOMAIN headers : h \in Addresses /\ h + HeaderSize \in Addresses
  <2> SUFFICES ASSUME NEW h \in DOMAIN headers
               PROVE  h \in Addresses /\ h + HeaderSize \in Addresses
    OBVIOUS
  <2>1. /\ h \in Nat /\ h + HeaderSize \in Nat /\ h <= ChunkEnd(headers, h)
        /\ h <= h + HeaderSize /\ h + HeaderSize <= ChunkEnd(headers, h)
    BY <1>0, <1>1 DEF ChunkEnd
  <2> QED
    BY <1>0, <2>1, ChunkAddresses
<1>3. ASSUME NEW h \in DOMAIN headers PROVE headers[h] \in Header
  <2>1. headers[h].next \in Addresses \cup {NULL} /\ headers[h].prev \in Addresses \cup {NULL}
    BY <1>0, <1>2 DEF Heap, Links
  <2>2. headers[h].len \in 0 .. PageSize
    <3>1. ChunkEnd(headers, h) <= PageBase(h) + PageSize
      BY <1>0 DEF Heap, Layout
    <3>2. PageBase(h) <= h /\ PageBase(h) \in Nat
      BY <1>1, PageBaseFacts
    <3> QED
      BY <1>0, <1>1, <3>1, <3>2 DEF ChunkEnd
  <2> QED
    BY <1>1, <2>1, <2>2 DEF Header, HeaderType
<1>4. first_header \in DOMAIN headers \cup {NULL} /\ pages \subseteq Pages
  BY <1>0 DEF Heap, Links, Layout
<1>5. DOMAIN live \subseteq Addresses
  BY <1>0, <1>2 DEF Live, InUse
<1> QED
  BY <1>0, <1>2, <1>3, <1>4, <1>5 DEF TypeOK, Control

LEMMA BlocksSafeFromInv ==
  ASSUME HeapInv
  PROVE  BlocksSafe
<1>0. /\ Live(headers, live) /\ DOMAIN headers \subseteq Nat /\ HeaderSize \in Nat
      /\ \A h, g \in DOMAIN headers : h < g => ChunkEnd(headers, h) <= g
  BY LayoutAssumption DEF HeapInv, Heap, Typed, Layout
<1>1. DOMAIN live = {h + HeaderSize : h \in {x \in DOMAIN headers : headers[x].in_use}}
  BY <1>0 DEF Live, InUse
<1>2. ASSUME NEW p \in DOMAIN live PROVE live[p] <= headers[p - HeaderSize].len
  <2>1. PICK h \in InUse(headers) : p = h + HeaderSize
    BY <1>0 DEF Live
  <2>2. h \in Nat /\ p - HeaderSize = h
    BY <1>0, <2>1 DEF InUse
  <2> QED
    BY <1>0, <2>1, <2>2 DEF Live
<1> QED
  BY <1>0, <1>1, <1>2 DEF BlocksSafe

LEMMA CoalescedFromInv ==
  ASSUME HeapInv
  PROVE  Coalesced
<1> SUFFICES ASSUME pc = "idle"
             PROVE  /\ \A h \in DOMAIN headers :
                          ~headers[h].in_use =>
                             LET e == ChunkEnd(headers, h)
                             IN  e \in DOMAIN headers /\ e % PageSize # 0 => headers[e].in_use
                    /\ \A p \in pages : \E h \in DOMAIN headers :
                          h \div PageSize = p /\ headers[h].in_use
  BY DEF Coalesced
<1>0. Heap(headers, first_header, pages) /\ NULL \notin DOMAIN headers
      /\ DOMAIN headers \subseteq Nat
  BY DEF HeapInv, Heap, Typed, NULL
<1>1. Merged(headers, NULL, NULL) /\ Occupied(headers, pages, NULL)
  BY WholeNow DEF Large
<1>2. ASSUME NEW h \in DOMAIN headers, ~headers[h].in_use,
             ChunkEnd(headers, h) \in DOMAIN headers, ChunkEnd(headers, h) % PageSize # 0
      PROVE  headers[ChunkEnd(headers, h)].in_use
  <2>1. h \in Nat /\ ChunkEnd(headers, h) \in Nat /\ ChunkEnd(headers, h) # NULL
    BY <1>0, <1>2
  <2>2. ChunkEnd(headers, h) # PageBase(h) + PageSize
    BY <1>2, <2>1, PageEnd, PageBaseFacts
  <2> QED
    BY <1>0, <1>1, <1>2, <2>1, <2>2 DEF Merged
<1>3. \A p \in pages : \E h \in DOMAIN headers : h \div PageSize = p /\ headers[h].in_use
  BY <1>0, <1>1 DEF Occupied
<1> QED
  BY <1>2, <1>3

\* Every variable keeps its type, for every heap the constants allow.
THEOREM HeapTypeCorrect == Spec => []TypeOK
<1>1. HeapInv => TypeOK
  BY TypeOKFromInv
<1> QED
  BY <1>1, HeapInvariant, PTL

\* malloc and free never hand out overlapping blocks: what callers hold is what
\* is marked in use, is as long as they asked for, and no chunk reaches into
\* another, whatever mix of sizes is asked for and in whatever order it is freed.
THEOREM HeapBlocksSafe == Spec => []BlocksSafe
<1>1. HeapInv => BlocksSafe
  BY BlocksSafeFromInv
<1> QED
  BY <1>1, HeapInvariant, PTL

\* Between calls no two free chunks of a page touch and every page that is kept
\* has a block in use: free merges both ways and returns whole pages at once.
THEOREM HeapCoalesced == Spec => []Coalesced
<1>1. HeapInv => Coalesced
  BY CoalescedFromInv
<1> QED
  BY <1>1, HeapInvariant, PTL

\* The header free looks for is not behind the search: every set that contains
\* hdr and is closed under next contains it.
Ahead ==
    pc = "free" =>
       \A h \in DOMAIN headers : h + HeaderSize = arg =>
          \A S \in SUBSET DOMAIN headers : Closed(headers, hdr, S) => h \in S

LEMMA AheadNext ==
  ASSUME HeapInv, Ahead, [Next]_vars
  PROVE  Ahead'
<1> SUFFICES ASSUME pc' = "free" PROVE Ahead'
  BY DEF Ahead
<1>1. CASE \E ptr \in Pointers : Free(ptr)
  <2>1. headers' = headers /\ hdr' = first_header
    BY <1>1 DEF Free
  <2>2. Connected(headers, first_header)
    BY DEF HeapInv, Heap
  <2> QED
    BY <2>1, <2>2 DEF Ahead, Connected
<1>2. CASE FreeNext
  <2>1. /\ pc = "free" /\ hdr + HeaderSize # arg /\ headers[hdr].next # NULL
        /\ hdr' = headers[hdr].next /\ headers' = headers /\ arg' = arg
    BY <1>2 DEF FreeNext
  <2>2. hdr \in DOMAIN headers
    BY <2>1 DEF HeapInv, Control
  <2> SUFFICES ASSUME NEW h \in DOMAIN headers, h + HeaderSize = arg,
                      NEW S \in SUBSET DOMAIN headers, Closed(headers, hdr', S)
               PROVE  h \in S
    BY <2>1 DEF Ahead
  <2>3. S \cup {hdr} \in SUBSET DOMAIN headers
    BY <2>2
  <2>4. Closed(headers, hdr, S \cup {hdr})
    BY <2>1 DEF Closed
  <2>5. h \in S \cup {hdr}
    BY <2>1, <2>3, <2>4 DEF Ahead
  <2> QED
    BY <2>1, <2>5
<1>3. CASE UNCHANGED vars
  BY <1>3 DEF vars, Ahead
<1> QED
  BY <1>1, <1>2, <1>3 DEF Next, Malloc, MallocFirst, MallocNext, MallocGrow,
     MallocAbort, MallocTake, FreeAbort, FreeChunk, Abort

\* Whatever calls came before, free finds the header of every block that is held
\* and takes it: neither of its two complaints is ever made of such a block.
THEOREM HeapRightfulFreeTaken == Spec => RightfulFreeTaken
<1>1. Init => Ahead
  BY DEF Init, Ahead
<1>2. HeapInv /\ Ahead /\ [Next]_vars => Ahead'
  BY AheadNext
<1>3. HeapInv /\ Ahead /\ [Next]_vars =>
         [(pc \in {"idle", "free"} /\ pc' = "abort") => arg' \notin DOMAIN live]_vars
  <2> SUFFICES ASSUME HeapInv, Ahead, Next, pc \in {"idle", "free"}, pc' = "abort",
                      arg' \in DOMAIN live
               PROVE  FALSE
    BY DEF vars
  <2>1. PICK h \in DOMAIN headers : headers[h].in_use /\ arg' = h + HeaderSize
    BY DEF HeapInv, Live, InUse
  <2>2. CASE \E ptr \in Pointers : Free(ptr)
    <3>1. first_header = NULL
      BY <2>2 DEF Free
    <3>2. DOMAIN headers = {}
      BY <3>1 DEF HeapInv, Heap, Links
    <3> QED
      BY <2>1, <3>2
  <2>3. CASE FreeAbort
    <3>1. /\ pc = "free" /\ arg' = arg /\ hdr \in DOMAIN headers
          /\ \/ hdr + HeaderSize # arg /\ headers[hdr].next = NULL
             \/ hdr + HeaderSize = arg /\ ~headers[hdr].in_use
      BY <2>3 DEF FreeAbort, HeapInv, Control
    <3>2. CASE hdr + HeaderSize # arg /\ headers[hdr].next = NULL
      <4>1. {hdr} \in SUBSET DOMAIN headers /\ Closed(headers, hdr, {hdr})
        BY <3>1, <3>2 DEF Closed
      <4>2. h \in {hdr}
        BY <2>1, <3>1, <4>1 DEF Ahead
      <4> QED
        BY <2>1, <3>1, <3>2, <4>2
    <3>3. CASE hdr + HeaderSize = arg /\ ~headers[hdr].in_use
      <4>1. h \in Nat /\ hdr \in Nat /\ HeaderSize \in Nat
        BY <3>1, LayoutAssumption DEF HeapInv, Heap, Typed
      <4>2. h = hdr
        BY <2>1, <3>1, <3>3, <4>1
      <4> QED
        BY <2>1, <3>3, <4>2
    <3> QED
      BY <3>1, <3>2, <3>3
  <2> QED
    BY <2>2, <2>3 DEF Next, Malloc, MallocFirst, MallocNext, MallocGrow,
       MallocAbort, MallocTake, FreeNext, FreeChunk, Abort
<1> QED
  BY <1>1, <1>2, <1>3, HeapInvariant, PTL DEF Spec, RightfulFreeTaken

-----------------------------------------------------------------------------
(* The chunks tile the pages.                                              *)

\* A page that has a chunk has one at its beginning: the lowest chunk of a page
\* has none before it.
LEMMA PageBegins ==
  ASSUME NEW hs, NEW first, NEW pgs, Heap(hs, first, pgs), NEW g \in DOMAIN hs
  PROVE  PageBase(g) \in DOMAIN hs
<1> DEFINE T == {h \in DOMAIN hs : h \div PageSize = g \div PageSize}
<1>1. T \subseteq Nat /\ T # {}
  BY DEF Heap, Typed
<1>2. PICK h \in T : \A x \in T : h <= x
  BY <1>1, LeastNumber
<1>3. h \in DOMAIN hs /\ h \in Nat /\ PageBase(h) = PageBase(g)
  BY <1>1, <1>2 DEF PageBase
<1>4. hs[h].start_of_allocation
  <2> SUFFICES ASSUME ~hs[h].start_of_allocation PROVE FALSE
    OBVIOUS
  <2> DEFINE p == hs[h].prev
  <2>1. p # NULL /\ ChunkEnd(hs, p) = h /\ h # PageBase(h)
    BY <1>3 DEF Heap, Adjacent, Layout
  <2>2. p \in DOMAIN hs /\ p \in Nat
    BY <1>3, <2>1 DEF Heap, Links, Typed
  <2> HIDE DEF p
  <2>3. h # PageBase(p) + PageSize
    BY <2>1, <2>2, PageEnd
  <2>4. p < h /\ h \div PageSize = p \div PageSize
    BY <2>1, <2>2, <2>3, Ends
  <2>5. p \in T
    BY <1>2, <2>2, <2>4
  <2>6. h <= p
    BY <1>2, <2>5
  <2> QED
    BY <1>3, <2>2, <2>4, <2>6
<1>5. h = PageBase(h)
  BY <1>3, <1>4 DEF Heap, Layout
<1> QED
  BY <1>3, <1>5

\* Behind a chunk comes the next one or the end of its page.
LEMMA ChunksTile ==
  ASSUME HeapInv, NEW h \in DOMAIN headers
  PROVE  /\ h \div PageSize \in pages
         /\ headers[h].start_of_allocation <=> h % PageSize = 0
         /\ ChunkEnd(headers, h) % PageSize # 0 => ChunkEnd(headers, h) \in DOMAIN headers
         /\ ChunkEnd(headers, h) <= (h \div PageSize + 1) * PageSize
<1>0. Heap(headers, first_header, pages) /\ h \in Nat /\ PageSize \in Nat \ {0}
  BY LayoutAssumption DEF HeapInv, Heap, Typed
<1>1. /\ h \div PageSize \in pages /\ ChunkEnd(headers, h) <= PageBase(h) + PageSize
      /\ headers[h].start_of_allocation <=> h = PageBase(h)
  BY <1>0 DEF Heap, Layout
<1>2. /\ h % PageSize = 0 <=> h = PageBase(h)
      /\ h \div PageSize \in Nat /\ PageBase(h) \in Nat
  BY <1>0, PageBaseFacts
<1>3. (h \div PageSize + 1) * PageSize = PageBase(h) + PageSize
  BY <1>0, <1>2 DEF PageBase
<1>4. PageBase(h) + PageSize \in Nat
  BY <1>0, <1>2
<1>5. (PageBase(h) + PageSize) % PageSize = 0
  BY <1>0, <1>4, PageEnd, PageBaseFacts
<1>6. ChunkEnd(headers, h) # PageBase(h) + PageSize => ChunkEnd(headers, h) \in DOMAIN headers
  BY <1>0, Ends
<1> QED
  BY <1>1, <1>2, <1>3, <1>5, <1>6

\* No caller asks for more than a page can hold.
RequestsFit == \A s \in Sizes : s + HeaderSize <= PageSize

Small ==
    /\ pc \in {"malloc_first", "malloc"} => arg + HeaderSize <= PageSize
    /\ \A p \in pages : p * PageSize \in DOMAIN headers

LEMMA SmallNext ==
  ASSUME RequestsFit, HeapInv, HeapInv', Small, [Next]_vars
  PROVE  Small'
<1>0. HeaderSize \in Nat /\ PageSize \in Nat \ {0} /\ arg' \in Nat
  BY LayoutAssumption DEF HeapInv, Control
<1>1. (pc \in {"malloc_first", "malloc"} => arg + HeaderSize <= PageSize)'
  <2>1. CASE \E size \in Sizes : Malloc(size)
    BY <2>1 DEF Malloc, RequestsFit
  <2>2. CASE MallocFirst \/ MallocNext \/ MallocGrow
    BY <2>2 DEF MallocFirst, MallocNext, MallocGrow, Small
  <2>3. CASE MallocAbort \/ FreeAbort \/ Abort
    BY <2>3 DEF MallocAbort, FreeAbort, Abort, vars, Small
  <2>4. CASE MallocTake \/ FreeChunk
    BY <2>4 DEF MallocTake, FreeChunk
  <2>5. CASE (\E ptr \in Pointers : Free(ptr)) \/ FreeNext
    BY <2>5 DEF Free, FreeNext
  <2>6. CASE UNCHANGED vars
    BY <2>6 DEF vars, Small
  <2> QED
    BY <2>1, <2>2, <2>3, <2>4, <2>5, <2>6 DEF Next
<1>2. (\A p \in pages : p * PageSize \in DOMAIN headers)'
  <2>1. CASE pc' = "abort"
    <3>1. UNCHANGED <<headers, pages>>
      BY <2>1 DEF Next, vars, Malloc, MallocFirst, MallocNext, MallocGrow, MallocAbort,
                  MallocTake, Free, FreeNext, FreeAbort, FreeChunk, Abort
    <3> QED
      BY <3>1 DEF Small
  <2>2. CASE pc' # "abort"
    <3>1. ~Large'
      <4>1. ASSUME NEW n \in Nat, n + HeaderSize <= PageSize
            PROVE  ~(n + HeaderSize > PageSize)
        BY <4>1, LayoutAssumption
      <4> QED
        BY <1>0, <1>1, <4>1 DEF Large
    <3>2. Occupied(headers', pages', Fresh') /\ Heap(headers', first_header', pages')
      BY <2>2, <3>1 DEF HeapInv, Whole
    <3> SUFFICES ASSUME NEW p \in pages' PROVE p * PageSize \in DOMAIN headers'
      OBVIOUS
    <3>3. PICK g \in DOMAIN headers' : g \div PageSize = p
      BY <3>2 DEF Occupied
    <3>4. PageBase(g) \in DOMAIN headers'
      BY <3>2, PageBegins
    <3> QED
      BY <3>3, <3>4 DEF PageBase
  <2> QED
    BY <2>1, <2>2
<1> QED
  BY <1>1, <1>2 DEF Small

\* When every request fits a page, no byte of the pages we hold is lost to a
\* split or a merge: every page starts with a chunk and the chunks tile it.
THEOREM HeapPagesTiled ==
  ASSUME RequestsFit
  PROVE  Spec => []ChunksTilePages
<1>1. Init => Small
  BY DEF Init, Small
<1>2. HeapInv /\ HeapInv' /\ Small /\ [Next]_vars => Small'
  BY SmallNext
<1>3. HeapInv /\ Small => ChunksTilePages
  <2> SUFFICES ASSUME HeapInv, Small PROVE ChunksTilePages
    OBVIOUS
  <2> QED
    BY ChunksTile DEF ChunksTilePages, Small
<1> QED
  BY <1>1, <1>2, <1>3, HeapInvariant, PTL DEF Spec

-----------------------------------------------------------------------------
(* The list goes through every header.                                     *)

\* What can be reached in n steps, as ListConsistent computes it.
Start(first) == {first} \ {NULL}
Step(hs, S) == S \cup ({hs[h].next : h \in S} \ {NULL})

IsReach(hs, first, c, f) ==
    f = [n \in 0 .. c |-> IF n = 0 THEN Start(first) ELSE Step(hs, f[n - 1])]

\* The recursion defines a function.
LEMMA ReachExists ==
  ASSUME NEW hs, NEW first, NEW c \in Nat
  PROVE  \E f : IsReach(hs, first, c, f)
<1> DEFINE T == {n \in Nat : ~ \E f : IsReach(hs, first, n, f)}
<1> SUFFICES ASSUME T # {} PROVE FALSE
  OBVIOUS
<1>1. PICK m \in T : \A x \in T : m <= x
  BY LeastNumber
<1>2. m \in Nat /\ ~ \E f : IsReach(hs, first, m, f)
  BY <1>1
<1>3. CASE m = 0
  <2> DEFINE f == [n \in 0 .. 0 |-> Start(first)]
  <2>1. IsReach(hs, first, 0, f)
    BY DEF IsReach
  <2> QED
    BY <1>2, <1>3, <2>1
<1>4. CASE m # 0
  <2>1. m - 1 \in Nat /\ m - 1 \notin T
    BY <1>1, <1>2, <1>4
  <2>2. PICK g : IsReach(hs, first, m - 1, g)
    BY <2>1
  <2>3. /\ DOMAIN g = 0 .. (m - 1)
        /\ \A n \in 0 .. (m - 1) : g[n] = IF n = 0 THEN Start(first) ELSE Step(hs, g[n - 1])
    <3>1. g = [n \in 0 .. (m - 1) |-> IF n = 0 THEN Start(first) ELSE Step(hs, g[n - 1])]
      BY <2>2 DEF IsReach
    <3> DEFINE G == [n \in 0 .. (m - 1) |-> IF n = 0 THEN Start(first) ELSE Step(hs, g[n - 1])]
    <3>2. /\ DOMAIN G = 0 .. (m - 1)
          /\ \A n \in 0 .. (m - 1) : G[n] = IF n = 0 THEN Start(first) ELSE Step(hs, g[n - 1])
      OBVIOUS
    <3>3. g = G
      BY <3>1
    <3> HIDE DEF G
    <3> QED
      BY <3>2, <3>3
  <2> DEFINE f == [n \in 0 .. m |-> IF n = m THEN Step(hs, g[m - 1]) ELSE g[n]]
             F == [n \in 0 .. m |-> IF n = 0 THEN Start(first) ELSE Step(hs, f[n - 1])]
  <2>4. ASSUME NEW n \in 0 .. m PROVE f[n] = F[n]
    <3>1. CASE n = 0
      BY <1>2, <1>4, <2>3, <3>1
    <3>2. CASE n # 0
      <4>1. n - 1 \in 0 .. m /\ n - 1 # m /\ n - 1 \in 0 .. (m - 1)
        BY <1>2, <3>2
      <4>2. f[n - 1] = g[n - 1]
        BY <4>1
      <4>3. F[n] = Step(hs, g[n - 1])
        BY <3>2, <4>2
      <4>4. n # m => n \in 0 .. (m - 1) /\ f[n] = g[n]
        BY <1>2
      <4>5. n # m => g[n] = Step(hs, g[n - 1])
        BY <2>3, <3>2, <4>4
      <4>6. n = m => f[n] = Step(hs, g[n - 1])
        BY <1>2
      <4> QED
        BY <4>3, <4>4, <4>5, <4>6
    <3> QED
      BY <3>1, <3>2
  <2>5. f = F
    BY <2>4
  <2>6. IsReach(hs, first, m, f)
    BY <2>5 DEF IsReach
  <2> QED
    BY <1>2, <2>6
<1> QED
  BY <1>3, <1>4

\* As many steps as there are headers reach every header: each step adds one
\* until the set is closed, and a closed set is everything.
LEMMA ReachAll ==
  ASSUME NEW hs, NEW first, NEW pgs, Heap(hs, first, pgs),
         NEW c, c = Cardinality(DOMAIN hs), NEW f, IsReach(hs, first, c, f)
  PROVE  DOMAIN hs \subseteq f[c]
<1>1. IsFiniteSet(DOMAIN hs) /\ c \in Nat
  BY FS_CardinalityType DEF Heap, Typed
<1>2. \A n \in 0 .. c : f[n] = IF n = 0 THEN Start(first) ELSE Step(hs, f[n - 1])
  <2> DEFINE G == [n \in 0 .. c |-> IF n = 0 THEN Start(first) ELSE Step(hs, f[n - 1])]
  <2>1. \A n \in 0 .. c : G[n] = IF n = 0 THEN Start(first) ELSE Step(hs, f[n - 1])
    OBVIOUS
  <2>2. f = G
    BY DEF IsReach
  <2> HIDE DEF G
  <2> QED
    BY <2>1, <2>2
<1> SUFFICES ASSUME DOMAIN hs # {} PROVE DOMAIN hs \subseteq f[c]
  OBVIOUS
<1>3. first \in DOMAIN hs /\ first # NULL
  BY DEF Heap, Links
<1> DEFINE Good(n) == /\ f[n] \subseteq DOMAIN hs /\ first \in f[n]
                      /\ f[n] = DOMAIN hs \/ Cardinality(f[n]) > n
           T == {n \in 0 .. c : ~Good(n)}
<1>4. T = {}
  <2> SUFFICES ASSUME T # {} PROVE FALSE
    OBVIOUS
  <2>0. T \subseteq Nat
    BY <1>1
  <2>1. PICK m \in T : \A x \in T : m <= x
    BY <2>0, LeastNumber
  <2>2. m \in 0 .. c /\ m \in Nat /\ ~Good(m)
    BY <1>1, <2>1
  <2>3. CASE m = 0
    <3>1. f[0] = {first}
      BY <1>1, <1>2, <1>3 DEF Start
    <3>2. Cardinality({first}) = 1
      BY FS_Singleton
    <3>3. Good(0)
      BY <1>3, <3>1, <3>2
    <3> QED
      BY <2>2, <2>3, <3>3
  <2>4. CASE m # 0
    <3> DEFINE k == m - 1
    <3>1. k \in 0 .. c /\ k \in Nat /\ k \notin T /\ m = k + 1
      BY <1>1, <2>1, <2>2, <2>4
    <3>2. Good(k)
      BY <3>1
    <3>3. f[m] = Step(hs, f[k])
      BY <1>2, <2>2, <2>4
    <3> HIDE DEF k
    <3>4. f[k] \subseteq f[m] /\ f[m] \subseteq DOMAIN hs
      BY <3>2, <3>3 DEF Step, Heap, Links
    <3>5. CASE f[k] = DOMAIN hs
      BY <2>2, <3>2, <3>4, <3>5
    <3>6. CASE f[k] # DOMAIN hs
      <4>1. ~Closed(hs, first, f[k])
        BY <3>2, <3>6 DEF Heap, Connected
      <4>2. PICK h \in f[k] : hs[h].next # NULL /\ hs[h].next \notin f[k]
        BY <3>2, <4>1 DEF Closed
      <4>3. hs[h].next \in f[m]
        BY <3>3, <4>2 DEF Step
      <4>4. IsFiniteSet(f[m]) /\ f[k] # f[m]
        BY <1>1, <3>4, <4>2, <4>3, FS_Subset
      <4>5. Cardinality(f[k]) <= Cardinality(f[m]) /\ Cardinality(f[k]) # Cardinality(f[m])
        BY <3>4, <4>4, FS_Subset
      <4>6. Cardinality(f[m]) \in Nat /\ Cardinality(f[k]) \in Nat
        BY <3>4, <4>4, FS_Subset, FS_CardinalityType
      <4>7. Cardinality(f[k]) > k
        BY <3>2, <3>6
      <4>8. Cardinality(f[m]) > m
        BY <3>1, <4>5, <4>6, <4>7
      <4> QED
        BY <2>2, <3>2, <3>4, <4>8
    <3> QED
      BY <3>5, <3>6
  <2> QED
    BY <2>3, <2>4
<1>5. Good(c)
  BY <1>1, <1>4
<1>6. CASE f[c] = DOMAIN hs
  BY <1>6
<1>7. CASE Cardinality(f[c]) > c
  <2>1. Cardinality(f[c]) <= c /\ Cardinality(f[c]) \in Nat
    BY <1>1, <1>5, FS_Subset, FS_CardinalityType
  <2> QED
    BY <1>1, <1>7, <2>1
<1> QED
  BY <1>5, <1>6, <1>7

LEMMA ListConsistentFromInv ==
  ASSUME HeapInv
  PROVE  ListConsistent
<1> DEFINE c == Cardinality(DOMAIN headers)
<1>0. Heap(headers, first_header, pages)
  BY DEF HeapInv
<1>1. IsFiniteSet(DOMAIN headers) /\ c \in Nat
  BY <1>0, FS_CardinalityType DEF Heap, Typed
<1>2. /\ first_header = NULL <=> DOMAIN headers = {}
      /\ \A h \in DOMAIN headers :
            LET next == headers[h].next
                prev == headers[h].prev
            IN  /\ next # NULL => next \in DOMAIN headers /\ headers[next].prev = h
                /\ prev # NULL => prev \in DOMAIN headers /\ headers[prev].next = h
                /\ prev = NULL <=> h = first_header
  BY <1>0 DEF Heap, Links
<1>3. LET Reach[n \in 0 .. Cardinality(DOMAIN headers)] ==
            IF n = 0 THEN {first_header} \ {NULL}
            ELSE Reach[n - 1] \cup ({headers[h].next : h \in Reach[n - 1]} \ {NULL})
      IN  DOMAIN headers \subseteq Reach[Cardinality(DOMAIN headers)]
  <2> DEFINE R[n \in 0 .. Cardinality(DOMAIN headers)] ==
                IF n = 0 THEN {first_header} \ {NULL}
                ELSE R[n - 1] \cup ({headers[h].next : h \in R[n - 1]} \ {NULL})
  <2>1. R = CHOOSE f : IsReach(headers, first_header, c, f)
    BY DEF IsReach, Start, Step
  <2>2. IsReach(headers, first_header, c, R)
    <3>1. \E f : IsReach(headers, first_header, c, f)
      BY <1>1, ReachExists
    <3> HIDE DEF R
    <3> QED
      BY <2>1, <3>1
  <2>3. DOMAIN headers \subseteq R[c]
    <3> HIDE DEF R
    <3> QED
      BY <1>0, <2>2, ReachAll
  <2> QED
    BY <2>3
<1> QED
  BY <1>2, <1>3 DEF ListConsistent

\* next and prev describe one list, from first_header through every header.
THEOREM HeapListConsistent == Spec => []ListConsistent
<1>1. HeapInv => ListConsistent
  BY ListConsistentFromInv
<1> QED
  BY <1>1, HeapInvariant, PTL

=============================================================================

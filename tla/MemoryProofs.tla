---------------------------- MODULE MemoryProofs ----------------------------
(***************************************************************************)
(* Proofs about the composition of get_mem, free_mem and the page tables,  *)
(* for every address space, every layout and every mix of requests.        *)
(***************************************************************************)
EXTENDS Memory, Arithmetic

\* The two tables are tables of truth values and agree.
TablesInv ==
    /\ page_tables_searchable \in [PageNumbers -> BOOLEAN]
    /\ SearchableInSync

\* map_range enters its pages in both tables.
LEMMA MapKeepsTables ==
  ASSUME NEW frame, NEW len, NEW base, internal_map_range(frame, len, base),
         TablesInv
  PROVE  TablesInv'
<1>1. page_tables_searchable' \in [PageNumbers -> BOOLEAN]
  BY DEF internal_map_range
<1>2. ASSUME NEW p \in PageNumbers \ RecursivePages
      PROVE  page_tables_searchable'[p] = page_tables'[p].present
  <2>1. page_tables_searchable[p] \in BOOLEAN
    BY DEF TablesInv
  <2>2. page_tables_searchable[p] = page_tables[p].present
    BY DEF TablesInv, SearchableInSync
  <2>3. CASE p \in PagesFrom(base, len)
    <3>1. page_tables_searchable'[p] = TRUE
      BY <2>3 DEF internal_map_range
    <3>2. page_tables'[p].present = TRUE
      BY <2>3 DEF internal_map_range
    <3> QED
      BY <3>1, <3>2
  <2>4. CASE p \notin PagesFrom(base, len)
    <3>1. page_tables_searchable'[p] = page_tables_searchable[p]
      BY <2>1, <2>4 DEF internal_map_range
    <3>2. page_tables'[p] = page_tables[p]
      BY <2>4 DEF internal_map_range
    <3> QED
      BY <2>2, <3>1, <3>2
  <2> QED
    BY <2>3, <2>4
<1> QED
  BY <1>1, <1>2 DEF TablesInv, SearchableInSync

\* unmap_range clears its pages in both tables.
LEMMA UnmapKeepsTables ==
  ASSUME NEW virt, NEW len, unmap_range(virt, len), TablesInv
  PROVE  TablesInv'
<1> DEFINE pages == PagesFrom(pte_offset(virt), len)
<1>1. page_tables_searchable' \in [PageNumbers -> BOOLEAN]
  BY DEF unmap_range
<1>2. ASSUME NEW p \in PageNumbers \ RecursivePages
      PROVE  page_tables_searchable'[p] = page_tables'[p].present
  <2>1. page_tables_searchable[p] \in BOOLEAN
    BY DEF TablesInv
  <2>2. page_tables_searchable[p] = page_tables[p].present
    BY DEF TablesInv, SearchableInSync
  <2>3. CASE p \in pages
    <3>1. page_tables_searchable'[p] = FALSE
      BY <2>3 DEF unmap_range
    <3>2. page_tables'[p].present = FALSE
      BY <2>3 DEF unmap_range
    <3> QED
      BY <3>1, <3>2
  <2>4. CASE p \notin pages
    <3>1. page_tables_searchable'[p] = page_tables_searchable[p]
      BY <2>1, <2>4 DEF unmap_range
    <3>2. page_tables'[p] = page_tables[p]
      BY <2>4 DEF unmap_range
    <3> QED
      BY <2>2, <3>1, <3>2
  <2> QED
    BY <2>3, <2>4
<1> QED
  BY <1>1, <1>2 DEF TablesInv, SearchableInSync

\* A call that leaves the tables alone keeps them in step.
LEMMA QuietKeepsTables == TablesInv /\ UNCHANGED paging_vars => TablesInv'
  BY DEF TablesInv, SearchableInSync, paging_vars

LEMMA InitTables == Init => TablesInv
<1> SUFFICES ASSUME Init PROVE TablesInv
  OBVIOUS
<1>1. page_tables_searchable \in [PageNumbers -> BOOLEAN]
  BY DEF Init, PagingInit
<1>2. ASSUME NEW p \in PageNumbers \ RecursivePages
      PROVE  page_tables_searchable[p] = page_tables[p].present
  <2>1. page_tables_searchable[p] = (p \in KernelPages \cup RecursivePages)
    BY DEF Init, PagingInit
  <2>2. page_tables[p].present = (p \in KernelPages)
    BY DEF Init, PagingInit
  <2> QED
    BY <2>1, <2>2
<1> QED
  BY <1>1, <1>2 DEF TablesInv, SearchableInSync

\* Every call, whatever its result, keeps the tables in step.
LEMMA TablesStep == TablesInv /\ [Next]_vars => TablesInv'
<1> SUFFICES ASSUME TablesInv, [Next]_vars PROVE TablesInv'
  OBVIOUS
<1>1. ASSUME NEW phys, NEW len, map_range(phys, len) PROVE TablesInv'
  BY <1>1, MapKeepsTables DEF map_range
<1>2. ASSUME NEW phys, NEW len,
             map_range_no_virtmem(phys, len) \/ map_range_already_mapped(phys, len)
      PROVE  TablesInv'
  BY <1>2, QuietKeepsTables DEF map_range_no_virtmem, map_range_already_mapped
<1>3. CASE UNCHANGED vars
  BY <1>3, QuietKeepsTables DEF vars
<1>4. CASE \E len \in Lengths : GetMem(len)
  BY <1>4, <1>1 DEF GetMem
<1>5. CASE \E len \in Lengths : GetMemNoVirtMem(len) \/ GetMemAbort(len)
  BY <1>5, <1>2 DEF GetMemNoVirtMem, GetMemAbort
<1>6. CASE \E block \in held : FreeMem(block)
  BY <1>6, UnmapKeepsTables DEF FreeMem
<1>7. CASE \E dev \in Devices : MapDevice(dev) \/ MapDeviceFails(dev)
  BY <1>7, <1>1, <1>2 DEF MapDevice, MapDeviceFails
<1>8. CASE \E mapping \in devices : UnmapDevice(mapping)
  BY <1>8, UnmapKeepsTables DEF UnmapDevice
<1> QED
  BY <1>3, <1>4, <1>5, <1>6, <1>7, <1>8 DEF Next, Stopped

\* The table find_free_virtmem searches and the one the CPU uses agree after
\* every call, for every address space and every sequence of calls.
THEOREM MemorySearchableInSync == Spec => []SearchableInSync
<1>1. TablesInv => SearchableInSync
  BY DEF TablesInv
<1> QED
  BY <1>1, InitTables, TablesStep, PTL DEF Spec

-----------------------------------------------------------------------------

\* Only the exhaustion of virtual memory leaves modifying_page_tables taken.
THEOREM MemoryInterruptsRestored == Spec => []InterruptsRestored
<1>1. Init => InterruptsRestored
  BY DEF Init, SpinlockInit, InterruptsRestored
<1>2. InterruptsRestored /\ [Next]_vars => InterruptsRestored'
  <2> SUFFICES ASSUME InterruptsRestored, [Next]_vars PROVE InterruptsRestored'
    OBVIOUS
  <2>1. ASSUME Locked, UNCHANGED exhausted PROVE InterruptsRestored'
    BY <2>1 DEF Locked, InterruptsRestored
  <2>2. CASE UNCHANGED vars
    BY <2>2 DEF vars, spinlock_vars, InterruptsRestored
  <2>3. CASE \E len \in Lengths : GetMem(len) \/ GetMemAbort(len)
    BY <2>3, <2>1 DEF GetMem, GetMemAbort, map_range, map_range_already_mapped
  <2>4. CASE \E len \in Lengths : GetMemNoVirtMem(len)
    BY <2>4 DEF GetMemNoVirtMem, InterruptsRestored
  <2>5. CASE \E block \in held : FreeMem(block)
    BY <2>5, <2>1 DEF FreeMem, unmap_range
  <2>6. CASE \E dev \in Devices : MapDevice(dev)
    BY <2>6, <2>1 DEF MapDevice, map_range
  <2>7. CASE \E dev \in Devices : MapDeviceFails(dev)
    BY <2>7, <2>1 DEF MapDeviceFails, map_range_already_mapped, InterruptsRestored
  <2>8. CASE \E mapping \in devices : UnmapDevice(mapping)
    BY <2>8, <2>1 DEF UnmapDevice, unmap_range
  <2> QED
    BY <2>2, <2>3, <2>4, <2>5, <2>6, <2>7, <2>8 DEF Next, Stopped
<1> QED
  BY <1>1, <1>2, PTL DEF Spec

-----------------------------------------------------------------------------
(* find_free_virtmem: what its search returns.                             *)

LEMMA AddressSpace ==
  /\ PageSize \in Nat \ {0} /\ NumPages \in Nat \ {0}
  /\ MaxVirtMem \in Nat \ {0}
<1>1. PageSize \in Nat \ {0} /\ NumPages \in Nat \ {0}
  BY PagesAssumption
<1>2. NumPages * PageSize \in Nat \ {0}
  BY <1>1
<1> QED
  BY <1>1, <1>2 DEF MaxVirtMem

\* A number of pages is less than k if the bytes are.
LEMMA FewerPages ==
  ASSUME NEW a \in Nat, NEW k \in Nat, a < k * PageSize
  PROVE  a \div PageSize \in Nat /\ a \div PageSize < k
<1>1. PageSize \in Nat \ {0}
  BY AddressSpace
<1>2. /\ a \div PageSize \in Nat /\ a % PageSize \in 0 .. (PageSize - 1)
      /\ a = (a \div PageSize) * PageSize + (a % PageSize)
  BY <1>1, DivMod
<1>3. ASSUME k <= a \div PageSize PROVE FALSE
  <2> DEFINE q == a \div PageSize
  <2>1. q \in Nat /\ q * PageSize <= a
    BY <1>1, <1>2
  <2> HIDE DEF q
  <2>2. k * PageSize <= q * PageSize
    <3>1. CASE k = q
      BY <1>1, <3>1
    <3>2. CASE k # q
      <4>1. k < q
        BY <1>3, <2>1, <3>2 DEF q
      <4>2. k * PageSize + PageSize <= q * PageSize
        BY <1>1, <2>1, <4>1, Stretch
      <4>3. k * PageSize \in Nat /\ q * PageSize \in Nat
        BY <1>1, <2>1
      <4> QED
        BY <1>1, <4>2, <4>3
    <3> QED
      BY <3>1, <3>2
  <2>3. k * PageSize \in Nat /\ q * PageSize \in Nat
    BY <1>1, <2>1
  <2> QED
    BY <2>1, <2>2, <2>3
<1> QED
  BY <1>2, <1>3

LEMMA LastPage ==
  ASSUME NEW base \in Nat, NEW len \in Nat
  PROVE  LastPageNeeded(base, len) \in PageNumbers
<1> DEFINE a == (base * PageSize + len) % MaxVirtMem
<1>1. PageSize \in Nat \ {0} /\ NumPages \in Nat \ {0} /\ MaxVirtMem \in Nat \ {0}
  BY AddressSpace
<1>2. base * PageSize + len \in Nat
  BY <1>1
<1>3. a \in Nat /\ a < MaxVirtMem
  BY <1>1, <1>2, DivMod
<1> HIDE DEF a
<1>4. a \div PageSize \in Nat /\ a \div PageSize < NumPages
  BY <1>1, <1>3, FewerPages DEF MaxVirtMem
<1>5. LastPageNeeded(base, len)
        = IF page_offset(len) # 0 /\ pte_offset(a) < NumPages - 1
          THEN pte_offset(a) + 1 ELSE pte_offset(a)
  BY DEF LastPageNeeded, a
<1> QED
  BY <1>1, <1>4, <1>5 DEF pte_offset, PageNumbers

\* The page after the first one in the way.
Beyond(base, len) ==
    1 + CHOOSE p \in Blocked(base, len) : \A q \in Blocked(base, len) : p <= q

LEMMA BeyondFurther ==
  ASSUME NEW base \in 1 .. NumPages, NEW len \in Nat, Blocked(base, len) # {}
  PROVE  Beyond(base, len) \in (base + 1) .. NumPages
<1> DEFINE B == Blocked(base, len)
<1>1. NumPages \in Nat \ {0} /\ base \in Nat
  BY AddressSpace
<1>2. LastPageNeeded(base, len) \in 0 .. (NumPages - 1)
  BY <1>1, LastPage DEF PageNumbers
<1>3. B \subseteq base .. (NumPages - 1) /\ B \subseteq Nat
  BY <1>1, <1>2 DEF Blocked
<1> HIDE DEF B
<1>4. \E p \in B : \A q \in B : p <= q
  BY <1>3, LeastNumber DEF B
<1> DEFINE c == CHOOSE p \in B : \A q \in B : p <= q
<1>5. c \in B
  BY <1>4
<1>6. Beyond(base, len) = 1 + c
  BY DEF Beyond, B
<1> HIDE DEF c
<1> QED
  BY <1>1, <1>3, <1>5, <1>6

\* One call of the search, given the results f of the later ones.
Attempt(f, base, len) ==
    IF base >= NumPages - 1 \/ WouldOverflow(base, len) THEN NULL
    ELSE IF Blocked(base, len) = {} THEN base
    ELSE f[Beyond(base, len)]

IsSearch(lo, len, f) == f = [base \in lo .. NumPages |-> Attempt(f, base, len)]

LEMMA SearchValues ==
  ASSUME NEW lo, NEW len, NEW f, IsSearch(lo, len, f)
  PROVE  /\ DOMAIN f = lo .. NumPages
         /\ \A base \in lo .. NumPages : f[base] = Attempt(f, base, len)
<1> DEFINE G == [base \in lo .. NumPages |-> Attempt(f, base, len)]
<1>1. /\ DOMAIN G = lo .. NumPages
      /\ \A base \in lo .. NumPages : G[base] = Attempt(f, base, len)
  OBVIOUS
<1>2. f = G
  BY DEF IsSearch
<1> HIDE DEF G
<1> QED
  BY <1>1, <1>2

\* The search goes upwards only, so its recursion defines a function.
LEMMA SearchExists ==
  ASSUME NEW len \in Nat
  PROVE  \E f : IsSearch(1, len, f)
<1> DEFINE T == {k \in 0 .. (NumPages - 1) : ~ \E f : IsSearch(NumPages - k, len, f)}
<1>0. NumPages \in Nat \ {0}
  BY AddressSpace
<1>1. T = {}
  <2> SUFFICES ASSUME T # {} PROVE FALSE
    OBVIOUS
  <2>1. T \subseteq Nat
    BY <1>0
  <2>2. PICK k \in T : \A x \in T : k <= x
    BY <2>1, LeastNumber
  <2> DEFINE lo == NumPages - k
  <2>3. k \in 0 .. (NumPages - 1) /\ lo \in 1 .. NumPages /\ ~ \E f : IsSearch(lo, len, f)
    BY <1>0, <2>2
  <2>4. CASE k = 0
    <3> DEFINE f == [base \in lo .. NumPages |-> NULL]
               F == [base \in lo .. NumPages |-> Attempt(f, base, len)]
    <3>1. \A base \in lo .. NumPages : base >= NumPages - 1
      BY <1>0, <2>4
    <3>2. \A base \in lo .. NumPages : F[base] = NULL
      BY <3>1 DEF Attempt
    <3>3. f = F
      BY <3>2
    <3>4. IsSearch(lo, len, f)
      BY <3>3 DEF IsSearch
    <3> QED
      BY <2>3, <3>4
  <2>5. CASE k # 0
    <3>1. k - 1 \in 0 .. (NumPages - 1) /\ k - 1 \notin T /\ NumPages - (k - 1) = lo + 1
      BY <1>0, <2>2, <2>3, <2>5
    <3>2. \E g : IsSearch(NumPages - (k - 1), len, g)
      BY <3>1
    <3> HIDE DEF lo
    <3>3. PICK g : IsSearch(lo + 1, len, g)
      BY <3>1, <3>2
    <3>4. \A base \in (lo + 1) .. NumPages : g[base] = Attempt(g, base, len)
      BY <3>3, SearchValues
    <3> DEFINE f == [base \in lo .. NumPages |->
                        IF base = lo THEN Attempt(g, lo, len) ELSE g[base]]
               F == [base \in lo .. NumPages |-> Attempt(f, base, len)]
    <3>5. ASSUME NEW base \in lo .. NumPages PROVE Attempt(f, base, len) = Attempt(g, base, len)
      <4>1. CASE Blocked(base, len) = {}
        BY <4>1 DEF Attempt
      <4>2. CASE Blocked(base, len) # {}
        <5>1. base \in 1 .. NumPages
          BY <1>0, <2>3
        <5>2. Beyond(base, len) \in (base + 1) .. NumPages
          BY <4>2, <5>1, BeyondFurther
        <5> DEFINE y == Beyond(base, len)
        <5>3. y \in lo .. NumPages /\ y # lo
          BY <1>0, <2>3, <5>1, <5>2
        <5> HIDE DEF y
        <5>4. f[y] = g[y]
          BY <5>3
        <5> HIDE DEF f
        <5> QED
          BY <5>4 DEF Attempt, y
      <4> QED
        BY <4>1, <4>2
    <3>6. ASSUME NEW base \in lo .. NumPages PROVE f[base] = F[base]
      <4>1. F[base] = Attempt(g, base, len)
        BY <3>5
      <4>2. CASE base = lo
        BY <4>1, <4>2
      <4>3. CASE base # lo
        <5>1. base \in (lo + 1) .. NumPages
          BY <1>0, <2>3, <4>3
        <5> QED
          BY <3>4, <4>1, <4>3, <5>1
      <4> QED
        BY <4>2, <4>3
    <3>7. f = F
      BY <3>6
    <3>8. IsSearch(lo, len, f)
      BY <3>7 DEF IsSearch
    <3> QED
      BY <2>3, <3>8
  <2> QED
    BY <2>4, <2>5
<1>2. NumPages - 1 \in 0 .. (NumPages - 1) /\ NumPages - (NumPages - 1) = 1
  BY <1>0
<1>3. \E f : IsSearch(NumPages - (NumPages - 1), len, f)
  BY <1>1, <1>2
<1> QED
  BY <1>2, <1>3

\* A page from which free_from_here finds room.
Roomy(b, len) ==
    /\ b \in 1 .. (NumPages - 2)
    /\ ~WouldOverflow(b, len) /\ Blocked(b, len) = {}

LEMMA SearchFinds ==
  ASSUME NEW len \in Nat, NEW f, IsSearch(1, len, f), NEW b \in 1 .. NumPages
  PROVE  f[b] = NULL \/ Roomy(f[b], len)
<1> DEFINE Good(x) == f[x] = NULL \/ Roomy(f[x], len)
           T == {k \in 0 .. (NumPages - 1) : ~Good(NumPages - k)}
<1>0. NumPages \in Nat \ {0}
  BY AddressSpace
<1>1. \A x \in 1 .. NumPages : f[x] = Attempt(f, x, len)
  BY SearchValues
<1>2. T = {}
  <2> SUFFICES ASSUME T # {} PROVE FALSE
    OBVIOUS
  <2>1. T \subseteq Nat
    BY <1>0
  <2>2. PICK k \in T : \A y \in T : k <= y
    BY <2>1, LeastNumber
  <2> DEFINE x == NumPages - k
  <2>3. k \in 0 .. (NumPages - 1) /\ x \in 1 .. NumPages /\ ~Good(x)
    BY <1>0, <2>2
  <2>4. f[x] = Attempt(f, x, len)
    BY <1>1, <2>3
  <2>5. ~(x >= NumPages - 1 \/ WouldOverflow(x, len))
    BY <2>3, <2>4 DEF Attempt
  <2>6. x \in 1 .. (NumPages - 2)
    BY <1>0, <2>3, <2>5
  <2>7. Blocked(x, len) # {}
    BY <2>3, <2>4, <2>5, <2>6 DEF Attempt, Roomy
  <2> DEFINE y == Beyond(x, len)
  <2>8. f[x] = f[y]
    BY <2>4, <2>5, <2>7 DEF Attempt
  <2>9. y \in (x + 1) .. NumPages
    BY <2>3, <2>7, BeyondFurther
  <2> HIDE DEF y
  <2>10. NumPages - y \in 0 .. (NumPages - 1) /\ NumPages - (NumPages - y) = y
         /\ ~(k <= NumPages - y)
    BY <1>0, <2>3, <2>9
  <2>11. ~Good(y)
    BY <2>3, <2>8
  <2>12. NumPages - y \in T
    BY <2>10, <2>11
  <2> QED
    BY <2>2, <2>10, <2>12
<1>3. NumPages - b \in 0 .. (NumPages - 1) /\ NumPages - (NumPages - b) = b
  BY <1>0
<1> QED
  BY <1>2, <1>3

\* find_free_virtmem returns NULL or a page that free_from_here accepts.
LEMMA FindFree ==
  ASSUME NEW len \in Nat
  PROVE  find_free_virtmem(len) = NULL \/ Roomy(find_free_virtmem(len), len)
<1> DEFINE search[base \in 1 .. NumPages] ==
              IF base >= NumPages - 1 \/ WouldOverflow(base, len) THEN NULL
              ELSE LET blocked == Blocked(base, len)
                   IN  IF blocked = {} THEN base
                       ELSE search[1 + CHOOSE p \in blocked :
                                          \A q \in blocked : p <= q]
<1>1. search = CHOOSE f : IsSearch(1, len, f)
  BY DEF IsSearch, Attempt, Beyond
<1>2. find_free_virtmem(len) = search[1]
  BY DEF find_free_virtmem
<1> HIDE DEF search
<1>3. IsSearch(1, len, search)
  BY <1>1, SearchExists
<1>4. 1 \in 1 .. NumPages
  BY AddressSpace
<1> QED
  BY <1>2, <1>3, <1>4, SearchFinds

-----------------------------------------------------------------------------
(* What is mapped, and for whom.                                           *)

Reserved == KernelPages \cup RecursivePages

Tables ==
    /\ page_tables \in [PageNumbers -> [present : BOOLEAN, frame : Nat]]
    /\ page_tables_searchable \in [PageNumbers -> BOOLEAN]
    /\ SearchableInSync
    /\ \A p \in Reserved : page_tables_searchable[p]

\* Somebody's pages: mapped, and not the kernel's.
Mine(pages) ==
    /\ pages \subseteq PageNumbers \ Reserved
    /\ \A p \in pages : page_tables_searchable[p]

AreaOf(b) == [addr |-> virt_to_phys(b.virt), len |-> b.len]

\* A block is whole pages from the start of its first one.
BlockOK(b) ==
    /\ b \in [virt : 1 .. MaxVirtMem, len : Lengths]
    /\ pte_offset(b.virt) \in BlockPages(b)
    /\ Mine(BlockPages(b))
    /\ \A p \in BlockPages(b) :
          page_tables[p].frame
             = page_tables[pte_offset(b.virt)].frame + (p - pte_offset(b.virt))
    /\ AreaOf(b) \in areas

DeviceOK(m) ==
    /\ m \in [virt : 1 .. MaxVirtMem, dev : Devices]
    /\ Mine(DevicePages(m))

\* No page has two owners.
Disjoint ==
    /\ \A b, c \in held : b # c =>
          /\ BlockPages(b) \cap BlockPages(c) = {}
          /\ virt_to_phys(b.virt) # virt_to_phys(c.virt)
    /\ \A b \in held, m \in devices : BlockPages(b) \cap DevicePages(m) = {}
    /\ \A m, k \in devices : m # k => DevicePages(m) \cap DevicePages(k) = {}

MemInv ==
    /\ SpinlockTypeOK /\ exhausted \in BOOLEAN /\ status \in {"ok", "abort"}
    /\ Tables
    /\ \A b \in held : BlockOK(b)
    /\ \A m \in devices : DeviceOK(m)
    /\ Disjoint

\* Every area belongs to a block; counted, as the blocks have different ones.
NoLeak ==
    exhausted \/ status = "abort"
    \/ /\ IsFiniteSet(areas) /\ IsFiniteSet(held)
       /\ Cardinality(areas) = Cardinality(held)

LEMMA BytesToPages ==
  ASSUME NEW n \in Nat
  PROVE  /\ bytes_to_pages(n) \in Nat
         /\ n > 0 => bytes_to_pages(n) >= 1
         /\ \A k \in Nat : n <= k * PageSize => bytes_to_pages(n) <= k
<1> DEFINE q == (n + PageSize - 1) \div PageSize
<1>1. PageSize \in Nat \ {0}
  BY AddressSpace
<1>2. n + PageSize - 1 \in Nat
  BY <1>1
<1>3. q \in Nat
  BY <1>1, <1>2, DivMod
<1>4. n <= q * PageSize
  BY <1>1, RoundUp
<1>5. ASSUME n > 0 PROVE q >= 1
  <2>1. q # 0
    BY <1>1, <1>4, <1>5
  <2> HIDE DEF q
  <2> QED
    BY <1>3, <2>1
<1>6. ASSUME NEW k \in Nat, n <= k * PageSize PROVE q <= k
  <2>1. (k + 1) * PageSize = k * PageSize + PageSize /\ k * PageSize \in Nat
    BY <1>1
  <2>2. n + PageSize - 1 < (k + 1) * PageSize
    <3> DEFINE m == k * PageSize
    <3>1. m \in Nat /\ n <= m
      BY <1>6, <2>1
    <3> HIDE DEF m
    <3>2. n + PageSize - 1 < m + PageSize
      BY <1>1, <3>1
    <3> QED
      BY <2>1, <3>2 DEF m
  <2>3. q < k + 1
    BY <1>2, <2>2, FewerPages
  <2> HIDE DEF q
  <2> QED
    BY <1>3, <2>3
<1> QED
  BY <1>3, <1>5, <1>6 DEF bytes_to_pages

LEMMA Offsets ==
  ASSUME NEW a \in Nat
  PROVE  /\ page_offset(a) \in 0 .. (PageSize - 1) /\ pte_offset(a) \in Nat
         /\ a = pte_offset(a) * PageSize + page_offset(a)
  BY AddressSpace, DivMod DEF page_offset, pte_offset

\* The effect of map_range on the tables.
IsMapping(base, pages, frame) ==
    /\ base \in 1 .. (NumPages - 1)
    /\ pages \subseteq PageNumbers \ Reserved
    /\ \A p \in pages : p >= base
    /\ \A p \in pages : ~page_tables_searchable[p]
    /\ \A p \in PageNumbers : page_tables_searchable'[p] = (p \in pages \/ page_tables_searchable[p])
    /\ \A p \in PageNumbers \ pages : page_tables'[p] = page_tables[p]
    /\ \A p \in pages : page_tables'[p] = [present |-> TRUE, frame |-> frame + (p - base)]

LEMMA MapEffect ==
  ASSUME Tables, NEW phys \in Nat, NEW len \in Nat, map_range(phys, len),
         NEW n, n = len + page_offset(phys),
         NEW base, base = find_free_virtmem(n),
         NEW virt, virt = map_range_virt(phys, len)
  PROVE  /\ IsMapping(base, PagesFrom(base, n), pte_offset(phys))
         /\ virt \in 1 .. MaxVirtMem /\ pte_offset(virt) = base
         /\ n > 0 => base \in PagesFrom(base, n)
<1> DEFINE pages == PagesFrom(base, n)
           frame == pte_offset(phys)
<1>0. PageSize \in Nat \ {0} /\ NumPages \in Nat \ {0} /\ MaxVirtMem \in Nat \ {0}
  BY AddressSpace
<1>1. page_offset(phys) \in 0 .. (PageSize - 1) /\ frame \in Nat /\ n \in Nat
  BY <1>0, Offsets
<1>2. /\ base # NULL /\ free_from_here(base, n) /\ \A p \in pages : ~isMapped(p)
      /\ internal_map_range(frame, n, base)
  BY DEF map_range, MapFails
<1>3. Roomy(base, n)
  BY <1>1, <1>2, FindFree
<1>4. base \in 1 .. (NumPages - 2) /\ ~(base * PageSize + n > MaxVirtMem)
  BY <1>3 DEF Roomy, WouldOverflow
<1>5. base \in Nat /\ base \in 1 .. (NumPages - 1) /\ base * PageSize \in Nat
  BY <1>0, <1>4
<1>6. n <= (NumPages - base) * PageSize /\ NumPages - base \in Nat
  <2>1. (NumPages - base) * PageSize = MaxVirtMem - base * PageSize
    BY <1>0, <1>5 DEF MaxVirtMem
  <2> DEFINE m == base * PageSize
  <2>2. n <= MaxVirtMem - m
    <3>1. m \in Nat /\ ~(m + n > MaxVirtMem)
      BY <1>4, <1>5
    <3> HIDE DEF m
    <3> QED
      BY <1>0, <1>1, <3>1
  <2> QED
    BY <1>0, <1>4, <2>1, <2>2
<1>7. /\ bytes_to_pages(n) \in Nat /\ bytes_to_pages(n) <= NumPages - base
      /\ n > 0 => bytes_to_pages(n) >= 1
  BY <1>1, <1>6, BytesToPages
<1>8. pages \subseteq PageNumbers /\ (\A p \in pages : p >= base) /\ (n > 0 => base \in pages)
  BY <1>0, <1>5, <1>7 DEF PagesFrom, PageNumbers
<1> HIDE DEF pages
<1>9. \A p \in pages : ~page_tables_searchable[p]
  BY <1>2 DEF isMapped
<1>10. pages \cap Reserved = {}
  BY <1>9 DEF Tables
<1>11. /\ page_tables' = [p \in PageNumbers |->
              IF p \in pages THEN [present |-> TRUE, frame |-> frame + (p - base)]
              ELSE page_tables[p]]
       /\ page_tables_searchable' = [p \in PageNumbers |->
              p \in pages \/ page_tables_searchable[p]]
  BY <1>2 DEF internal_map_range, pages
<1>12. /\ \A p \in PageNumbers : page_tables_searchable'[p]
                                    = (p \in pages \/ page_tables_searchable[p])
       /\ \A p \in PageNumbers \ pages : page_tables'[p] = page_tables[p]
       /\ \A p \in pages : page_tables'[p] = [present |-> TRUE, frame |-> frame + (p - base)]
  BY <1>8, <1>11
<1>13. IsMapping(base, pages, frame)
  BY <1>5, <1>8, <1>9, <1>10, <1>12 DEF IsMapping
<1>14. virt \in 1 .. MaxVirtMem /\ pte_offset(virt) = base
  <2> DEFINE off == page_offset(phys)
  <2>1. virt = base * PageSize + off
    BY DEF map_range_virt
  <2>2. pte_offset(virt) = base
    BY <1>0, <1>1, <1>5, <2>1, DivUnique DEF pte_offset
  <2>3. base * PageSize >= PageSize
    BY <1>0, <1>4
  <2>4. base * PageSize + PageSize <= MaxVirtMem
    BY <1>0, <1>4, <1>5, Stretch DEF MaxVirtMem
  <2>5. virt \in 1 .. MaxVirtMem
    <3> DEFINE m == base * PageSize
    <3>1. m \in Nat /\ m >= PageSize /\ m + PageSize <= MaxVirtMem /\ virt = m + off
          /\ off \in 0 .. (PageSize - 1)
      BY <1>1, <1>5, <2>1, <2>3, <2>4
    <3> HIDE DEF m, off
    <3> QED
      BY <1>0, <3>1
  <2> QED
    BY <2>2, <2>5
<1> QED
  BY <1>8, <1>13, <1>14 DEF pages

LEMMA MapTables ==
  ASSUME Tables, NEW phys \in Nat, NEW len \in Nat, map_range(phys, len)
  PROVE  Tables'
<1> DEFINE n == len + page_offset(phys)
           base == find_free_virtmem(n)
           frame == pte_offset(phys)
           pages == PagesFrom(base, n)
<1>1. IsMapping(base, pages, frame)
  BY MapEffect
<1>2. internal_map_range(frame, n, base)
  BY DEF map_range
<1>3. frame \in Nat
  BY Offsets
<1>4. TablesInv'
  BY <1>2, MapKeepsTables DEF Tables, TablesInv
<1> HIDE DEF pages, base, frame, n
<1>5. page_tables' \in [PageNumbers -> [present : BOOLEAN, frame : Nat]]
  <2>1. page_tables' = [p \in PageNumbers |-> page_tables'[p]]
    BY <1>2 DEF internal_map_range
  <2>2. ASSUME NEW p \in PageNumbers PROVE page_tables'[p] \in [present : BOOLEAN, frame : Nat]
    <3>1. CASE p \in pages
      <4>1. p \in Nat /\ base \in Nat /\ p >= base
        BY <1>1, <3>1, AddressSpace DEF IsMapping, PageNumbers
      <4>2. frame + (p - base) \in Nat
        BY <1>3, <4>1
      <4>3. page_tables'[p] = [present |-> TRUE, frame |-> frame + (p - base)]
        BY <1>1, <3>1 DEF IsMapping
      <4> QED
        BY <4>2, <4>3
    <3>2. CASE p \notin pages
      BY <1>1, <3>2 DEF IsMapping, Tables
    <3> QED
      BY <3>1, <3>2
  <2> QED
    BY <2>1, <2>2
<1>6. ASSUME NEW p \in Reserved PROVE page_tables_searchable'[p]
  <2>1. p \in PageNumbers
    BY PagesAssumption DEF Reserved, PageNumbers
  <2>2. page_tables_searchable[p]
    BY DEF Tables
  <2>3. page_tables_searchable'[p] = (p \in pages \/ page_tables_searchable[p])
    BY <1>1, <2>1 DEF IsMapping
  <2> QED
    BY <2>2, <2>3
<1> QED
  BY <1>4, <1>5, <1>6 DEF Tables, TablesInv

\* The effect of unmap_range on pages that are somebody's.
LEMMA UnmapEffect ==
  ASSUME Tables, NEW virt, NEW len, unmap_range(virt, len),
         NEW pages, pages = PagesFrom(pte_offset(virt), len),
         pages \subseteq PageNumbers \ Reserved
  PROVE  /\ Tables'
         /\ \A p \in PageNumbers \ pages :
               /\ page_tables'[p] = page_tables[p]
               /\ page_tables_searchable'[p] = page_tables_searchable[p]
         /\ \A p \in pages : ~page_tables_searchable'[p]
<1>1. TablesInv'
  BY UnmapKeepsTables DEF Tables, TablesInv
<1>2. /\ page_tables' = [p \in PageNumbers |->
             IF p \in pages THEN [present |-> FALSE, frame |-> 0] ELSE page_tables[p]]
      /\ page_tables_searchable' = [p \in PageNumbers |->
             p \notin pages /\ page_tables_searchable[p]]
  BY DEF unmap_range
<1>3. page_tables' \in [PageNumbers -> [present : BOOLEAN, frame : Nat]]
  BY <1>2 DEF Tables
<1>4. \A p \in PageNumbers \ pages : page_tables'[p] = page_tables[p]
  BY <1>2
<1>5. ASSUME NEW p \in PageNumbers \ pages
      PROVE  page_tables_searchable'[p] = page_tables_searchable[p]
  <2>1. page_tables_searchable'[p] = (p \notin pages /\ page_tables_searchable[p])
    BY <1>2
  <2>2. page_tables_searchable[p] \in BOOLEAN
    BY DEF Tables
  <2> QED
    BY <2>1, <2>2
<1>6. \A p \in pages : ~page_tables_searchable'[p]
  BY <1>2
<1>7. \A p \in Reserved : page_tables_searchable'[p]
  <2>1. Reserved \subseteq PageNumbers \ pages
    BY PagesAssumption DEF Reserved, PageNumbers
  <2> QED
    BY <1>5, <2>1 DEF Tables
<1> QED
  BY <1>1, <1>3, <1>4, <1>5, <1>6, <1>7 DEF Tables, TablesInv

-----------------------------------------------------------------------------
(* The steps.                                                              *)

\* Both tables keep their entries for these pages.
Kept(S) ==
    \A p \in S : /\ page_tables'[p] = page_tables[p]
                 /\ page_tables_searchable'[p] = page_tables_searchable[p]

LEMMA MapKeeps ==
  ASSUME Tables, NEW base, NEW pages, NEW frame, IsMapping(base, pages, frame),
         NEW S, Mine(S)
  PROVE  Kept(S) /\ S \cap pages = {}
<1>1. S \cap pages = {}
  BY DEF Mine, IsMapping
<1>2. ASSUME NEW p \in S
      PROVE  page_tables_searchable'[p] = page_tables_searchable[p]
  <2>1. p \in PageNumbers /\ p \notin pages
    BY <1>1 DEF Mine
  <2>2. page_tables_searchable[p] \in BOOLEAN
    BY <2>1 DEF Tables
  <2>3. page_tables_searchable'[p] = (p \in pages \/ page_tables_searchable[p])
    BY <2>1 DEF IsMapping
  <2> QED
    BY <2>1, <2>2, <2>3
<1> QED
  BY <1>1, <1>2 DEF Kept, Mine, IsMapping

LEMMA BlockKept ==
  ASSUME NEW b, BlockOK(b), Kept(BlockPages(b)), AreaOf(b) \in areas'
  PROVE  /\ BlockOK(b)' /\ virt_to_phys(b.virt)' = virt_to_phys(b.virt)
<1>1. pte_offset(b.virt) \in BlockPages(b)
  BY DEF BlockOK
<1>2. page_tables'[pte_offset(b.virt)] = page_tables[pte_offset(b.virt)]
  BY <1>1 DEF Kept
<1>3. virt_to_phys(b.virt)' = virt_to_phys(b.virt)
  BY <1>2 DEF virt_to_phys
<1>4. BlockPages(b)' = BlockPages(b) /\ pte_offset(b.virt)' = pte_offset(b.virt)
  BY DEF BlockPages, pte_offset, PagesFrom, bytes_to_pages
<1>5. Mine(BlockPages(b))'
  BY <1>4 DEF BlockOK, Mine, Kept
<1>6. (\A p \in BlockPages(b) :
          page_tables[p].frame
             = page_tables[pte_offset(b.virt)].frame + (p - pte_offset(b.virt)))'
  BY <1>2, <1>4 DEF BlockOK, Kept
<1>7. AreaOf(b)' = AreaOf(b)
  BY <1>3 DEF AreaOf
<1> QED
  BY <1>1, <1>3, <1>4, <1>5, <1>6, <1>7 DEF BlockOK

LEMMA DeviceKept ==
  ASSUME NEW m, DeviceOK(m), Kept(DevicePages(m))
  PROVE  DeviceOK(m)'
<1>1. DevicePages(m)' = DevicePages(m)
  BY DEF DevicePages, pte_offset, PagesFrom, bytes_to_pages, page_offset
<1> QED
  BY <1>1 DEF DeviceOK, Mine, Kept

\* What the allocator promises: a new area starts where no other one does.
LEMMA AcquiredIsNew ==
  ASSUME NEW phys \in Nat, NEW len \in Nat \ {0}, PMM!Acquire([addr |-> phys, len |-> len])
  PROVE  /\ phys % PageSize = 0
         /\ areas' = areas \cup {[addr |-> phys, len |-> len]}
         /\ \A k \in Nat \ {0} : [addr |-> phys, len |-> k] \notin areas
<1>0. PageSize \in Nat \ {0}
  BY AddressSpace
<1>1. /\ phys % PageSize = 0
      /\ PMM!Span([addr |-> phys, len |-> len]) \subseteq PMM!Unheld
      /\ areas' = areas \cup {[addr |-> phys, len |-> len]}
  BY DEF PMM!Acquire
<1>2. (phys \div PageSize) * PageSize = phys
  BY <1>0, <1>1, DivMod
<1>3. ASSUME NEW k \in Nat \ {0} PROVE phys \in PMM!Span([addr |-> phys, len |-> k])
  <2> DEFINE r == ((phys + k + PageSize - 1) \div PageSize) * PageSize
  <2>1. r \in Nat /\ phys + k <= r
    <3>1. phys + k \in Nat
      OBVIOUS
    <3> QED
      BY <1>0, <3>1, RoundUp
  <2>2. PMM!Span([addr |-> phys, len |-> k]) = phys .. (r - 1)
    BY <1>2 DEF PMM!Span
  <2> HIDE DEF r
  <2> QED
    BY <2>1, <2>2
<1>4. ASSUME NEW k \in Nat \ {0}, [addr |-> phys, len |-> k] \in areas PROVE FALSE
  <2>1. phys \in PMM!Unheld
    BY <1>1, <1>3
  <2> QED
    BY <1>3, <1>4, <2>1 DEF PMM!Unheld
<1> QED
  BY <1>1, <1>4

\* A block's area starts at a page and is not empty.
LEMMA BlockArea ==
  ASSUME Tables, NEW b, BlockOK(b)
  PROVE  /\ virt_to_phys(b.virt) \in Nat /\ b.len \in Nat \ {0}
         /\ AreaOf(b) = [addr |-> virt_to_phys(b.virt), len |-> b.len]
<1>1. pte_offset(b.virt) \in PageNumbers
  BY DEF BlockOK, Mine
<1>2. page_tables[pte_offset(b.virt)].frame \in Nat
  BY <1>1 DEF Tables
<1>3. virt_to_phys(b.virt) \in Nat
  BY <1>2, AddressSpace DEF virt_to_phys
<1>4. b.len \in Nat \ {0}
  BY InputAssumption DEF BlockOK
<1> QED
  BY <1>3, <1>4 DEF AreaOf

LEMMA SpinlockKept ==
  ASSUME SpinlockTypeOK, Locked \/ acquire_lock \/ UNCHANGED spinlock_vars
  PROVE  SpinlockTypeOK'
  BY DEF SpinlockTypeOK, Locked, acquire_lock, disable_interrupts, spinlock_vars

LEMMA GetMemStep ==
  ASSUME MemInv, NEW len \in Lengths, GetMem(len)
  PROVE  MemInv'
<1>1. PICK phys \in Ram :
        /\ PMM!Acquire([addr |-> phys, len |-> len])
        /\ map_range(phys, len)
        /\ held' = held \cup {[virt |-> map_range_virt(phys, len), len |-> len]}
  BY DEF GetMem
<1>2. phys \in Nat /\ len \in Nat \ {0} /\ PageSize \in Nat \ {0} /\ Tables
  BY InputAssumption, AddressSpace DEF MemInv
<1>3. /\ phys % PageSize = 0
      /\ areas' = areas \cup {[addr |-> phys, len |-> len]}
      /\ \A k \in Nat \ {0} : [addr |-> phys, len |-> k] \notin areas
  BY <1>1, <1>2, AcquiredIsNew
<1> DEFINE n == len + page_offset(phys)
           frame == pte_offset(phys)
<1>18. PICK base, virt : base = find_free_virtmem(n) /\ virt = map_range_virt(phys, len)
  OBVIOUS
<1> DEFINE pages == PagesFrom(base, n)
           new == [virt |-> virt, len |-> len]
<1>4. n = len /\ n > 0
  BY <1>2, <1>3 DEF page_offset
<1>5. /\ IsMapping(base, pages, frame) /\ virt \in 1 .. MaxVirtMem
      /\ pte_offset(virt) = base /\ base \in pages
  BY <1>1, <1>2, <1>4, <1>18, MapEffect
<1>6. Tables'
  BY <1>1, <1>2, MapTables
<1>7. BlockPages(new) = pages /\ held' = held \cup {new} /\ UNCHANGED devices
  BY <1>1, <1>4, <1>5, <1>18 DEF BlockPages, GetMem
<1>8. frame \in Nat /\ frame * PageSize = phys
  <2>1. /\ frame \in Nat /\ phys = frame * PageSize + page_offset(phys)
    BY <1>2, Offsets
  <2>2. page_offset(phys) = 0
    BY <1>3 DEF page_offset
  <2> HIDE DEF frame
  <2>3. frame * PageSize \in Nat
    BY <1>2, <2>1
  <2> QED
    BY <2>1, <2>2, <2>3
<1> HIDE DEF n, pages, frame
<1>9. /\ base \in Nat /\ \A p \in pages : p \in Nat
      /\ page_tables'[base].frame = frame
      /\ \A p \in pages : page_tables'[p].frame = frame + (p - base)
  <2>1. base \in Nat /\ \A p \in pages : p \in Nat
    BY <1>5, AddressSpace DEF IsMapping, PageNumbers
  <2>2. \A p \in pages : page_tables'[p] = [present |-> TRUE, frame |-> frame + (p - base)]
    BY <1>5 DEF IsMapping
  <2>3. ASSUME NEW p \in pages PROVE page_tables'[p].frame = frame + (p - base)
    <3>1. page_tables'[p] = [present |-> TRUE, frame |-> frame + (p - base)]
      BY <2>2
    <3> DEFINE e == [present |-> TRUE, frame |-> frame + (p - base)]
    <3>2. e.frame = frame + (p - base)
      OBVIOUS
    <3> QED
      BY <3>1, <3>2
  <2>4. frame + (base - base) = frame
    BY <1>8, <2>1
  <2> QED
    BY <1>5, <2>1, <2>3, <2>4
<1>10. virt_to_phys(new.virt)' = phys
  BY <1>5, <1>8, <1>9 DEF virt_to_phys
<1>11. BlockOK(new)'
  <2>1. new \in [virt : 1 .. MaxVirtMem, len : Lengths] /\ new.virt = virt
    BY <1>5
  <2>2. Mine(pages)'
    BY <1>5 DEF Mine, IsMapping
  <2>3. AreaOf(new)' = [addr |-> phys, len |-> len]
    BY <1>10 DEF AreaOf
  <2>4. BlockPages(new)' = pages /\ pte_offset(new.virt)' = base
    BY <1>5, <1>7, <2>1 DEF BlockPages, pte_offset, PagesFrom, bytes_to_pages
  <2> HIDE DEF new
  <2>5. AreaOf(new)' \in areas'
    BY <1>3, <2>3
  <2>6. (\A p \in BlockPages(new) :
           page_tables[p].frame
              = page_tables[pte_offset(new.virt)].frame + (p - pte_offset(new.virt)))'
    BY <1>9, <2>4
  <2>7. (pte_offset(new.virt) \in BlockPages(new))' /\ Mine(BlockPages(new))'
    BY <1>5, <2>2, <2>4
  <2>8. (new \in [virt : 1 .. MaxVirtMem, len : Lengths])'
    BY <2>1
  <2> QED
    BY <2>5, <2>6, <2>7, <2>8 DEF BlockOK
<1> HIDE DEF new
<1>12. ASSUME NEW b \in held
       PROVE  /\ BlockOK(b)' /\ virt_to_phys(b.virt)' = virt_to_phys(b.virt)
              /\ BlockPages(b) \cap pages = {} /\ virt_to_phys(b.virt) # phys
  <2>1. BlockOK(b) /\ Mine(BlockPages(b)) /\ AreaOf(b) \in areas
    BY DEF MemInv, BlockOK
  <2>2. Kept(BlockPages(b)) /\ BlockPages(b) \cap pages = {}
    BY <1>2, <1>5, <2>1, MapKeeps
  <2>3. AreaOf(b) \in areas'
    BY <1>3, <2>1
  <2>4. virt_to_phys(b.virt) # phys
    BY <1>2, <1>3, <2>1, BlockArea
  <2> QED
    BY <2>1, <2>2, <2>3, <2>4, BlockKept
<1>13. ASSUME NEW m \in devices PROVE DeviceOK(m)' /\ DevicePages(m) \cap pages = {}
  <2>1. DeviceOK(m) /\ Mine(DevicePages(m))
    BY DEF MemInv, DeviceOK
  <2>2. Kept(DevicePages(m)) /\ DevicePages(m) \cap pages = {}
    BY <1>2, <1>5, <2>1, MapKeeps
  <2> QED
    BY <2>1, <2>2, DeviceKept
<1>14. Disjoint'
  <2>1. \A b, c \in held' : b # c =>
          /\ BlockPages(b) \cap BlockPages(c) = {}
          /\ virt_to_phys(b.virt)' # virt_to_phys(c.virt)'
    BY <1>7, <1>10, <1>12 DEF MemInv, Disjoint
  <2>2. \A b \in held', m \in devices' : BlockPages(b) \cap DevicePages(m) = {}
    BY <1>7, <1>13 DEF MemInv, Disjoint
  <2>3. \A m, k \in devices' : m # k => DevicePages(m) \cap DevicePages(k) = {}
    BY <1>7 DEF MemInv, Disjoint
  <2> QED
    BY <2>1, <2>2, <2>3 DEF Disjoint, BlockPages, DevicePages, PagesFrom, pte_offset,
         bytes_to_pages, page_offset
<1>15. (\A b \in held : BlockOK(b))'
  BY <1>7, <1>11, <1>12
<1>16. (\A m \in devices : DeviceOK(m))'
  BY <1>7, <1>13
<1>17. SpinlockTypeOK' /\ (exhausted \in BOOLEAN /\ status \in {"ok", "abort"})'
  BY <1>1, SpinlockKept DEF MemInv, map_range, GetMem
<1> QED
  BY <1>6, <1>14, <1>15, <1>16, <1>17 DEF MemInv

\* A call that leaves the tables and the holders alone.
LEMMA QuietStep ==
  ASSUME MemInv, UNCHANGED <<paging_vars, held, devices>>, areas \subseteq areas',
         SpinlockTypeOK', exhausted' \in BOOLEAN, status' \in {"ok", "abort"}
  PROVE  MemInv'
<1>1. page_tables' = page_tables /\ page_tables_searchable' = page_tables_searchable
  BY DEF paging_vars
<1>2. Tables'
  BY <1>1 DEF MemInv, Tables, SearchableInSync
<1>3. \A S : Kept(S)
  BY <1>1 DEF Kept
<1>4. ASSUME NEW b \in held
      PROVE  BlockOK(b)' /\ virt_to_phys(b.virt)' = virt_to_phys(b.virt)
  <2>1. BlockOK(b) /\ AreaOf(b) \in areas'
    BY DEF MemInv, BlockOK
  <2> QED
    BY <1>3, <2>1, BlockKept
<1>5. ASSUME NEW m \in devices PROVE DeviceOK(m)'
  <2>1. DeviceOK(m)
    BY DEF MemInv
  <2> QED
    BY <1>3, <2>1, DeviceKept
<1>6. Disjoint'
  <2>1. \A b, c \in held : b # c =>
          /\ BlockPages(b) \cap BlockPages(c) = {}
          /\ virt_to_phys(b.virt)' # virt_to_phys(c.virt)'
    BY <1>4 DEF MemInv, Disjoint
  <2>2. /\ \A b \in held, m \in devices : BlockPages(b) \cap DevicePages(m) = {}
        /\ \A m, k \in devices : m # k => DevicePages(m) \cap DevicePages(k) = {}
    BY DEF MemInv, Disjoint
  <2> QED
    BY <2>1, <2>2 DEF Disjoint, BlockPages, DevicePages, PagesFrom, pte_offset,
         bytes_to_pages, page_offset
<1> QED
  BY <1>2, <1>4, <1>5, <1>6 DEF MemInv

\* free_mem takes the pages of one block away and gives its area back.
LEMMA FreeMemStep ==
  ASSUME MemInv, NEW block \in held, FreeMem(block)
  PROVE  MemInv'
<1> DEFINE pages == BlockPages(block)
<1>1. /\ Tables /\ BlockOK(block) /\ pages \subseteq PageNumbers \ Reserved
  BY DEF MemInv, BlockOK, Mine
<1>2. unmap_range(block.virt, block.len) /\ areas' = areas \ {AreaOf(block)}
      /\ held' = held \ {block} /\ UNCHANGED <<devices, exhausted, status>>
  BY DEF FreeMem, PMM!Release, AreaOf
<1>3. pages = PagesFrom(pte_offset(block.virt), block.len)
  BY DEF BlockPages
<1> HIDE DEF pages
<1>4. /\ Tables'
      /\ \A p \in PageNumbers \ pages :
            /\ page_tables'[p] = page_tables[p]
            /\ page_tables_searchable'[p] = page_tables_searchable[p]
  BY <1>1, <1>2, <1>3, UnmapEffect
<1>5. ASSUME NEW S, Mine(S), S \cap pages = {} PROVE Kept(S)
  BY <1>4, <1>5 DEF Kept, Mine
<1>6. ASSUME NEW b \in held'
      PROVE  BlockOK(b)' /\ virt_to_phys(b.virt)' = virt_to_phys(b.virt)
  <2>1. b \in held /\ b # block
    BY <1>2
  <2>2. /\ BlockOK(b) /\ Mine(BlockPages(b)) /\ AreaOf(b) \in areas
        /\ BlockPages(b) \cap pages = {} /\ virt_to_phys(b.virt) # virt_to_phys(block.virt)
    BY <2>1 DEF MemInv, BlockOK, Disjoint, pages
  <2>3. Kept(BlockPages(b))
    BY <1>5, <2>2
  <2>4. AreaOf(b) # AreaOf(block)
    <3>1. AreaOf(b).addr = virt_to_phys(b.virt) /\ AreaOf(block).addr = virt_to_phys(block.virt)
      BY DEF AreaOf
    <3> QED
      BY <2>2, <3>1
  <2>5. AreaOf(b) \in areas'
    BY <1>2, <2>2, <2>4
  <2> QED
    BY <2>2, <2>3, <2>5, BlockKept
<1>7. ASSUME NEW m \in devices PROVE DeviceOK(m)'
  <2>1. DeviceOK(m) /\ Mine(DevicePages(m)) /\ DevicePages(m) \cap pages = {}
    BY DEF MemInv, DeviceOK, Disjoint, pages
  <2> QED
    BY <1>5, <2>1, DeviceKept
<1>8. Disjoint'
  <2>1. \A b, c \in held' : b # c =>
          /\ BlockPages(b) \cap BlockPages(c) = {}
          /\ virt_to_phys(b.virt)' # virt_to_phys(c.virt)'
    BY <1>2, <1>6 DEF MemInv, Disjoint
  <2>2. /\ \A b \in held', m \in devices' : BlockPages(b) \cap DevicePages(m) = {}
        /\ \A m, k \in devices' : m # k => DevicePages(m) \cap DevicePages(k) = {}
    BY <1>2 DEF MemInv, Disjoint
  <2> QED
    BY <2>1, <2>2 DEF Disjoint, BlockPages, DevicePages, PagesFrom, pte_offset,
         bytes_to_pages, page_offset
<1>9. (\A b \in held : BlockOK(b))' /\ (\A m \in devices : DeviceOK(m))'
  BY <1>2, <1>6, <1>7
<1>10. SpinlockTypeOK' /\ (exhausted \in BOOLEAN /\ status \in {"ok", "abort"})'
  BY <1>2, SpinlockKept DEF MemInv, unmap_range
<1> QED
  BY <1>4, <1>8, <1>9, <1>10 DEF MemInv

\* A driver's mapping takes pages nobody has.
LEMMA MapDeviceStep ==
  ASSUME MemInv, NEW dev \in Devices, MapDevice(dev)
  PROVE  MemInv'
<1>1. dev.addr \in Nat /\ dev.len \in Nat /\ Tables
  BY InputAssumption DEF MemInv
<1> DEFINE n == dev.len + page_offset(dev.addr)
           frame == pte_offset(dev.addr)
<1>2. PICK base, virt : base = find_free_virtmem(n) /\ virt = map_range_virt(dev.addr, dev.len)
  OBVIOUS
<1> DEFINE pages == PagesFrom(base, n)
           new == [virt |-> virt, dev |-> dev]
<1>3. /\ IsMapping(base, pages, frame) /\ virt \in 1 .. MaxVirtMem
      /\ pte_offset(virt) = base
  BY <1>1, <1>2, MapEffect DEF MapDevice
<1>4. Tables'
  BY <1>1, MapTables DEF MapDevice
<1>5. DevicePages(new) = pages /\ devices' = devices \cup {new} /\ UNCHANGED <<areas, held>>
  BY <1>2, <1>3 DEF DevicePages, MapDevice
<1> HIDE DEF n, pages, frame
<1>6. DeviceOK(new)'
  <2>1. new \in [virt : 1 .. MaxVirtMem, dev : Devices]
    BY <1>3
  <2>2. Mine(pages)'
    BY <1>3 DEF Mine, IsMapping
  <2> HIDE DEF new
  <2>3. DevicePages(new)' = DevicePages(new)
    BY DEF DevicePages, pte_offset, PagesFrom, bytes_to_pages, page_offset
  <2> QED
    BY <1>5, <2>1, <2>2, <2>3 DEF DeviceOK
<1> HIDE DEF new
<1>7. ASSUME NEW b \in held
      PROVE  /\ BlockOK(b)' /\ virt_to_phys(b.virt)' = virt_to_phys(b.virt)
             /\ BlockPages(b) \cap pages = {}
  <2>1. BlockOK(b) /\ Mine(BlockPages(b)) /\ AreaOf(b) \in areas'
    BY <1>5 DEF MemInv, BlockOK
  <2>2. Kept(BlockPages(b)) /\ BlockPages(b) \cap pages = {}
    BY <1>1, <1>3, <2>1, MapKeeps
  <2> QED
    BY <2>1, <2>2, BlockKept
<1>8. ASSUME NEW m \in devices PROVE DeviceOK(m)' /\ DevicePages(m) \cap pages = {}
  <2>1. DeviceOK(m) /\ Mine(DevicePages(m))
    BY DEF MemInv, DeviceOK
  <2>2. Kept(DevicePages(m)) /\ DevicePages(m) \cap pages = {}
    BY <1>1, <1>3, <2>1, MapKeeps
  <2> QED
    BY <2>1, <2>2, DeviceKept
<1>9. Disjoint'
  <2>1. \A b, c \in held' : b # c =>
          /\ BlockPages(b) \cap BlockPages(c) = {}
          /\ virt_to_phys(b.virt)' # virt_to_phys(c.virt)'
    BY <1>5, <1>7 DEF MemInv, Disjoint
  <2>2. \A b \in held', m \in devices' : BlockPages(b) \cap DevicePages(m) = {}
    BY <1>5, <1>7 DEF MemInv, Disjoint
  <2>3. \A m, k \in devices' : m # k => DevicePages(m) \cap DevicePages(k) = {}
    BY <1>5, <1>8 DEF MemInv, Disjoint
  <2> QED
    BY <2>1, <2>2, <2>3 DEF Disjoint, BlockPages, DevicePages, PagesFrom, pte_offset,
         bytes_to_pages, page_offset
<1>10. (\A b \in held : BlockOK(b))' /\ (\A m \in devices : DeviceOK(m))'
  BY <1>5, <1>6, <1>7, <1>8
<1>11. SpinlockTypeOK' /\ (exhausted \in BOOLEAN /\ status \in {"ok", "abort"})'
  BY SpinlockKept DEF MemInv, map_range, MapDevice
<1> QED
  BY <1>4, <1>9, <1>10, <1>11 DEF MemInv

\* What a driver unmaps is its own, though it may be less than it mapped.
LEMMA FewerDevicePages ==
  ASSUME NEW m, DeviceOK(m)
  PROVE  PagesFrom(pte_offset(m.virt), m.dev.len) \subseteq DevicePages(m)
<1>1. /\ m.dev \in Devices /\ m.dev.len \in Nat /\ m.dev.addr \in Nat
      /\ m.virt \in Nat
  BY InputAssumption, AddressSpace DEF DeviceOK
<1> DEFINE n == m.dev.len + page_offset(m.dev.addr)
           k == bytes_to_pages(n)
           j == bytes_to_pages(m.dev.len)
           base == pte_offset(m.virt)
<1>2. n \in Nat /\ m.dev.len <= n /\ base \in Nat
  <2>1. page_offset(m.dev.addr) \in 0 .. (PageSize - 1) /\ base \in Nat
    BY <1>1, Offsets
  <2> QED
    BY <1>1, <2>1, AddressSpace
<1>3. k \in Nat /\ j \in Nat
  BY <1>1, <1>2, BytesToPages
<1>4. n <= k * PageSize
  <2>1. n <= ((n + PageSize - 1) \div PageSize) * PageSize
    BY <1>2, AddressSpace, RoundUp
  <2> QED
    BY <2>1 DEF bytes_to_pages
<1>5. m.dev.len <= k * PageSize
  <2>1. k * PageSize \in Nat
    BY <1>3, AddressSpace
  <2> HIDE DEF k, n
  <2> QED
    BY <1>1, <1>2, <1>4, <2>1
<1>6. j <= k
  BY <1>1, <1>3, <1>5, BytesToPages
<1>7. /\ DevicePages(m) = base .. (base + k - 1)
      /\ PagesFrom(base, m.dev.len) = base .. (base + j - 1)
  BY DEF DevicePages, PagesFrom
<1> HIDE DEF base, j, k, n
<1> QED
  BY <1>2, <1>3, <1>6, <1>7 DEF base

LEMMA UnmapDeviceStep ==
  ASSUME MemInv, NEW mapping \in devices, UnmapDevice(mapping)
  PROVE  MemInv'
<1> DEFINE pages == PagesFrom(pte_offset(mapping.virt), mapping.dev.len)
<1>1. Tables /\ DeviceOK(mapping)
  BY DEF MemInv
<1>2. pages \subseteq DevicePages(mapping)
  BY <1>1, FewerDevicePages
<1>3. pages \subseteq PageNumbers \ Reserved
  BY <1>1, <1>2 DEF DeviceOK, Mine
<1> HIDE DEF pages
<1>4. /\ unmap_range(mapping.virt, mapping.dev.len) /\ devices' = devices \ {mapping}
      /\ UNCHANGED <<areas, held, exhausted, status>>
  BY DEF UnmapDevice
<1>5. /\ Tables'
      /\ \A p \in PageNumbers \ pages :
            /\ page_tables'[p] = page_tables[p]
            /\ page_tables_searchable'[p] = page_tables_searchable[p]
  BY <1>1, <1>3, <1>4, UnmapEffect DEF pages
<1>6. ASSUME NEW S, Mine(S), S \cap DevicePages(mapping) = {} PROVE Kept(S)
  BY <1>2, <1>5, <1>6 DEF Kept, Mine
<1>7. ASSUME NEW b \in held
      PROVE  BlockOK(b)' /\ virt_to_phys(b.virt)' = virt_to_phys(b.virt)
  <2>1. /\ BlockOK(b) /\ Mine(BlockPages(b)) /\ AreaOf(b) \in areas'
        /\ BlockPages(b) \cap DevicePages(mapping) = {}
    BY <1>4 DEF MemInv, BlockOK, Disjoint
  <2> QED
    BY <1>6, <2>1, BlockKept
<1>8. ASSUME NEW m \in devices' PROVE DeviceOK(m)'
  <2>1. m \in devices /\ m # mapping
    BY <1>4
  <2>2. /\ DeviceOK(m) /\ Mine(DevicePages(m))
        /\ DevicePages(m) \cap DevicePages(mapping) = {}
    BY <2>1 DEF MemInv, DeviceOK, Disjoint
  <2> QED
    BY <1>6, <2>2, DeviceKept
<1>9. Disjoint'
  <2>1. \A b, c \in held' : b # c =>
          /\ BlockPages(b) \cap BlockPages(c) = {}
          /\ virt_to_phys(b.virt)' # virt_to_phys(c.virt)'
    BY <1>4, <1>7 DEF MemInv, Disjoint
  <2>2. /\ \A b \in held', m \in devices' : BlockPages(b) \cap DevicePages(m) = {}
        /\ \A m, k \in devices' : m # k => DevicePages(m) \cap DevicePages(k) = {}
    BY <1>4 DEF MemInv, Disjoint
  <2> QED
    BY <2>1, <2>2 DEF Disjoint, BlockPages, DevicePages, PagesFrom, pte_offset,
         bytes_to_pages, page_offset
<1>10. (\A b \in held : BlockOK(b))' /\ (\A m \in devices : DeviceOK(m))'
  BY <1>4, <1>7, <1>8
<1>11. SpinlockTypeOK' /\ (exhausted \in BOOLEAN /\ status \in {"ok", "abort"})'
  BY <1>4, SpinlockKept DEF MemInv, unmap_range
<1> QED
  BY <1>5, <1>9, <1>10, <1>11 DEF MemInv

LEMMA MemInit == Init => MemInv /\ NoLeak
<1> SUFFICES ASSUME Init PROVE MemInv /\ NoLeak
  OBVIOUS
<1>1. /\ SpinlockTypeOK /\ exhausted \in BOOLEAN /\ status \in {"ok", "abort"}
      /\ held = {} /\ devices = {} /\ areas = {}
  BY DEF Init, SpinlockInit, SpinlockTypeOK, PMM!Init
<1>2. TablesInv
  BY InitTables
<1>3. page_tables \in [PageNumbers -> [present : BOOLEAN, frame : Nat]]
  BY DEF Init, PagingInit
<1>4. \A p \in Reserved : page_tables_searchable[p]
  <2>1. Reserved \subseteq PageNumbers
    BY PagesAssumption DEF Reserved, PageNumbers
  <2>2. page_tables_searchable = [p \in PageNumbers |-> p \in Reserved]
    BY DEF Init, PagingInit, Reserved
  <2> QED
    BY <2>1, <2>2
<1>5. Tables
  BY <1>2, <1>3, <1>4 DEF Tables, TablesInv
<1>6. Disjoint
  BY <1>1 DEF Disjoint
<1> QED
  BY <1>1, <1>5, <1>6, FS_EmptySet DEF MemInv, NoLeak

LEMMA AcquireGrows ==
  ASSUME NEW area, PMM!Acquire(area) PROVE areas \subseteq areas'
  BY DEF PMM!Acquire

LEMMA MemStep == MemInv /\ [Next]_vars => MemInv'
<1> SUFFICES ASSUME MemInv, [Next]_vars PROVE MemInv'
  OBVIOUS
<1>1. CASE UNCHANGED vars
  BY <1>1, QuietStep, SpinlockKept DEF vars, MemInv
<1>2. ASSUME NEW len \in Lengths, GetMem(len) PROVE MemInv'
  BY <1>2, GetMemStep
<1>3. ASSUME NEW len \in Lengths, GetMemNoVirtMem(len) PROVE MemInv'
  <2>1. /\ areas \subseteq areas' /\ UNCHANGED <<paging_vars, held, devices>>
        /\ acquire_lock /\ exhausted' = TRUE /\ status' = status
    BY <1>3, AcquireGrows DEF GetMemNoVirtMem, map_range_no_virtmem
  <2> QED
    BY <2>1, QuietStep, SpinlockKept DEF MemInv
<1>4. ASSUME NEW len \in Lengths, GetMemAbort(len) PROVE MemInv'
  <2>1. /\ areas \subseteq areas' /\ UNCHANGED <<paging_vars, held, devices>>
        /\ Locked /\ exhausted' = exhausted /\ status' = "abort"
    BY <1>4, AcquireGrows DEF GetMemAbort, map_range_already_mapped
  <2> QED
    BY <2>1, QuietStep, SpinlockKept DEF MemInv
<1>5. ASSUME NEW block \in held, FreeMem(block) PROVE MemInv'
  BY <1>5, FreeMemStep
<1>6. ASSUME NEW dev \in Devices, MapDevice(dev) PROVE MemInv'
  BY <1>6, MapDeviceStep
<1>7. ASSUME NEW dev \in Devices, MapDeviceFails(dev) PROVE MemInv'
  <2>1. /\ UNCHANGED <<paging_vars, areas, held, devices, status>>
        /\ acquire_lock \/ Locked
        /\ exhausted' \in {TRUE, exhausted}
    BY <1>7 DEF MapDeviceFails, map_range_no_virtmem, map_range_already_mapped
  <2> QED
    BY <2>1, QuietStep, SpinlockKept DEF MemInv
<1>8. ASSUME NEW mapping \in devices, UnmapDevice(mapping) PROVE MemInv'
  BY <1>8, UnmapDeviceStep
<1> QED
  BY <1>1, <1>2, <1>3, <1>4, <1>5, <1>6, <1>7, <1>8 DEF Next, Stopped

\* Every block that is held is mapped to an area of its own and every mapping of
\* a driver to pages of its own, whatever calls succeeded or failed before: the
\* inductive invariant of get_mem, free_mem, map_range and unmap_range.
THEOREM MemoryInvariant == Spec => []MemInv
<1>1. Init => MemInv
  BY MemInit
<1> QED
  BY <1>1, MemStep, PTL DEF Spec

\* The page tables, the locks and what callers hold keep their types: find_free_virtmem
\* never yields an address outside the address space.
THEOREM MemoryTypeOK == Spec => []TypeOK
<1>1. MemInv => TypeOK
  BY DEF MemInv, TypeOK, Tables, BlockOK, DeviceOK
<1> QED
  BY <1>1, MemoryInvariant, PTL

\* Each block get_mem returned is mapped page by page to an area of physical
\* memory that is its own, until free_mem takes it back.
THEOREM MemoryBlocksMapped == Spec => []BlocksMapped
<1>1. MemInv => BlocksMapped
  <2> SUFFICES ASSUME MemInv PROVE BlocksMapped
    OBVIOUS
  <2>1. ASSUME NEW b \in held, NEW p \in BlockPages(b)
        PROVE  /\ p \notin KernelPages \cup RecursivePages
               /\ page_tables[p].present
               /\ page_tables[p].frame
                     = pte_offset(virt_to_phys(b.virt)) + (p - pte_offset(b.virt))
    <3>1. BlockOK(b) /\ Mine(BlockPages(b)) /\ Tables
      BY DEF MemInv, BlockOK
    <3>2. p \in PageNumbers \ Reserved /\ page_tables_searchable[p]
      BY <3>1 DEF Mine
    <3>3. page_tables[p].present
      BY <3>1, <3>2 DEF Tables, SearchableInSync, Reserved
    <3> DEFINE f == page_tables[pte_offset(b.virt)].frame
    <3>4. f \in Nat
      BY <3>1 DEF BlockOK, Mine, Tables
    <3>5. page_tables[p].frame = f + (p - pte_offset(b.virt))
      BY <3>1 DEF BlockOK
    <3> HIDE DEF f
    <3>6. (f * PageSize + 0) \div PageSize = f
      <4>1. PageSize \in Nat \ {0} /\ 0 \in 0 .. (PageSize - 1)
        BY AddressSpace
      <4> QED
        BY <3>4, <4>1, DivUnique
    <3>7. f * PageSize + 0 = f * PageSize
      <4>1. f * PageSize \in Nat
        BY <3>4, AddressSpace
      <4> QED
        BY <4>1
    <3>8. pte_offset(virt_to_phys(b.virt)) = f
      BY <3>6, <3>7 DEF pte_offset, virt_to_phys, f
    <3> QED
      BY <3>2, <3>3, <3>5, <3>8 DEF Reserved
  <2>2. ASSUME NEW b \in held PROVE [addr |-> virt_to_phys(b.virt), len |-> b.len] \in areas
    BY DEF MemInv, BlockOK, AreaOf
  <2> QED
    BY <2>1, <2>2 DEF BlocksMapped, MemInv, Disjoint
<1> QED
  BY <1>1, MemoryInvariant, PTL

-----------------------------------------------------------------------------
(* Nothing is lost: neither physical areas nor virtual pages.              *)

\* What get_mem adds: a block of pages that were free and an area that is new.
LEMMA GetMemEffect ==
  ASSUME MemInv, NEW len \in Lengths, GetMem(len)
  PROVE  \E new, area :
            /\ held' = held \cup {new} /\ areas' = areas \cup {area} /\ area \notin areas
            /\ BlockPages(new) # {}
            /\ \A p \in BlockPages(new) : ~page_tables_searchable[p]
            /\ \A p \in PageNumbers : page_tables_searchable'[p]
                                         = (p \in BlockPages(new) \/ page_tables_searchable[p])
<1>1. PICK phys \in Ram :
        /\ PMM!Acquire([addr |-> phys, len |-> len])
        /\ map_range(phys, len)
        /\ held' = held \cup {[virt |-> map_range_virt(phys, len), len |-> len]}
  BY DEF GetMem
<1>2. phys \in Nat /\ len \in Nat \ {0} /\ Tables
  BY InputAssumption DEF MemInv
<1> DEFINE area == [addr |-> phys, len |-> len]
<1>3. /\ phys % PageSize = 0 /\ areas' = areas \cup {area} /\ area \notin areas
  BY <1>1, <1>2, AcquiredIsNew
<1> DEFINE n == len + page_offset(phys)
<1>4. n = len /\ n > 0
  BY <1>2, <1>3 DEF page_offset
<1>5. PICK base, virt : base = find_free_virtmem(n) /\ virt = map_range_virt(phys, len)
  OBVIOUS
<1> DEFINE new == [virt |-> virt, len |-> len]
<1>6. /\ IsMapping(base, PagesFrom(base, n), pte_offset(phys))
      /\ pte_offset(virt) = base /\ base \in PagesFrom(base, n)
  BY <1>1, <1>2, <1>4, <1>5, MapEffect
<1>7. BlockPages(new) = PagesFrom(base, n) /\ held' = held \cup {new}
  BY <1>1, <1>4, <1>5, <1>6 DEF BlockPages
<1> HIDE DEF new, area, n
<1>8. /\ BlockPages(new) # {}
      /\ \A p \in BlockPages(new) : ~page_tables_searchable[p]
      /\ \A p \in PageNumbers : page_tables_searchable'[p]
                                   = (p \in BlockPages(new) \/ page_tables_searchable[p])
  BY <1>6, <1>7 DEF IsMapping
<1> QED
  BY <1>3, <1>7, <1>8

\* Counted: get_mem adds one block and one area, free_mem takes one of each.
LEMMA NoLeakStep == MemInv /\ NoLeak /\ [Next]_vars => NoLeak'
<1> SUFFICES ASSUME MemInv, NoLeak, [Next]_vars PROVE NoLeak'
  OBVIOUS
<1>1. ASSUME UNCHANGED <<areas, held>>, exhausted' \in {TRUE, exhausted}, UNCHANGED status
      PROVE  NoLeak'
  BY <1>1 DEF NoLeak
<1>2. CASE UNCHANGED vars
  BY <1>1, <1>2 DEF vars
<1>3. ASSUME NEW len \in Lengths, GetMem(len) PROVE NoLeak'
  <2>1. PICK new, area :
            /\ held' = held \cup {new} /\ areas' = areas \cup {area} /\ area \notin areas
            /\ BlockPages(new) # {}
            /\ \A p \in BlockPages(new) : ~page_tables_searchable[p]
    BY <1>3, GetMemEffect
  <2>2. new \notin held
    BY <2>1 DEF MemInv, BlockOK, Mine
  <2>3. CASE exhausted \/ status = "abort"
    BY <1>3, <2>3 DEF NoLeak, GetMem
  <2>4. CASE ~(exhausted \/ status = "abort")
    <3>1. IsFiniteSet(areas) /\ IsFiniteSet(held) /\ Cardinality(areas) = Cardinality(held)
      BY <2>4 DEF NoLeak
    <3>2. IsFiniteSet(areas') /\ Cardinality(areas') = Cardinality(areas) + 1
      BY <2>1, <3>1, FS_AddElement
    <3>3. IsFiniteSet(held') /\ Cardinality(held') = Cardinality(held) + 1
      BY <2>1, <2>2, <3>1, FS_AddElement
    <3> QED
      BY <3>1, <3>2, <3>3 DEF NoLeak
  <2> QED
    BY <2>3, <2>4
<1>4. ASSUME NEW len \in Lengths, GetMemNoVirtMem(len) \/ GetMemAbort(len) PROVE NoLeak'
  BY <1>4 DEF NoLeak, GetMemNoVirtMem, GetMemAbort
<1>5. ASSUME NEW block \in held, FreeMem(block) PROVE NoLeak'
  <2>1. /\ held' = held \ {block} /\ areas' = areas \ {AreaOf(block)}
        /\ AreaOf(block) \in areas /\ UNCHANGED <<exhausted, status>>
    BY <1>5 DEF FreeMem, PMM!Release, AreaOf
  <2>2. CASE exhausted \/ status = "abort"
    BY <2>1, <2>2 DEF NoLeak
  <2>3. CASE ~(exhausted \/ status = "abort")
    <3>1. IsFiniteSet(areas) /\ IsFiniteSet(held) /\ Cardinality(areas) = Cardinality(held)
      BY <2>3 DEF NoLeak
    <3>2. IsFiniteSet(areas') /\ Cardinality(areas') = Cardinality(areas) - 1
      BY <2>1, <3>1, FS_RemoveElement
    <3>3. IsFiniteSet(held') /\ Cardinality(held') = Cardinality(held) - 1
      BY <2>1, <3>1, FS_RemoveElement
    <3> QED
      BY <3>1, <3>2, <3>3 DEF NoLeak
  <2> QED
    BY <2>2, <2>3
<1>6. ASSUME NEW dev \in Devices, MapDevice(dev) \/ MapDeviceFails(dev) PROVE NoLeak'
  BY <1>1, <1>6 DEF MapDevice, MapDeviceFails
<1>7. ASSUME NEW mapping \in devices, UnmapDevice(mapping) PROVE NoLeak'
  BY <1>1, <1>7 DEF UnmapDevice
<1> QED
  BY <1>2, <1>3, <1>4, <1>5, <1>6, <1>7 DEF Next, Stopped

\* As long as virtual memory has never run out, there are exactly as many
\* physical areas as blocks to free them by.
THEOREM MemoryNoPhysicalLeak == Spec => []NoPhysicalLeak
<1>1. NoLeak => NoPhysicalLeak
  BY DEF NoLeak, NoPhysicalLeak
<1>2. MemInv /\ NoLeak /\ [Next]_vars => MemInv' /\ NoLeak'
  BY MemStep, NoLeakStep
<1> QED
  BY <1>1, <1>2, MemInit, PTL DEF Spec

\* Every driver maps its device from the start of a page.
AlignedDevices == \A dev \in Devices : page_offset(dev.addr) = 0

\* Then unmap_range takes away all that map_range had mapped.
LEMMA AlignedPages ==
  ASSUME AlignedDevices, NEW m, DeviceOK(m)
  PROVE  PagesFrom(pte_offset(m.virt), m.dev.len) = DevicePages(m)
<1>1. m.dev.len \in Nat /\ page_offset(m.dev.addr) = 0
  BY InputAssumption DEF DeviceOK, AlignedDevices
<1>2. m.dev.len + page_offset(m.dev.addr) = m.dev.len
  BY <1>1
<1> QED
  BY <1>2 DEF DevicePages

LEMMA LeftMappedStep ==
  ASSUME AlignedDevices, MemInv, NothingLeftMapped, [Next]_vars
  PROVE  NothingLeftMapped'
<1> DEFINE Owned(p) == \/ \E b \in held : p \in BlockPages(b)
                       \/ \E m \in devices : p \in DevicePages(m)
           OwnedNext(p) == \/ \E b \in held' : p \in BlockPages(b)
                           \/ \E m \in devices' : p \in DevicePages(m)
<1>1. \A p \in PageNumbers \ Reserved : page_tables_searchable[p] => Owned(p)
  BY DEF NothingLeftMapped, isMapped, Reserved
<1>2. SUFFICES ASSUME NEW p \in PageNumbers \ Reserved, page_tables_searchable'[p]
               PROVE  OwnedNext(p)
  BY DEF NothingLeftMapped, isMapped, Reserved, BlockPages, DevicePages, PagesFrom,
       pte_offset, bytes_to_pages, page_offset
<1>3. ASSUME UNCHANGED <<paging_vars, held, devices>> PROVE OwnedNext(p)
  BY <1>1, <1>2, <1>3 DEF paging_vars
<1>4. CASE UNCHANGED vars
  BY <1>3, <1>4 DEF vars
<1>5. ASSUME NEW len \in Lengths, GetMem(len) PROVE OwnedNext(p)
  <2>1. PICK new, area :
            /\ held' = held \cup {new} /\ areas' = areas \cup {area} /\ area \notin areas
            /\ BlockPages(new) # {}
            /\ \A q \in BlockPages(new) : ~page_tables_searchable[q]
            /\ \A q \in PageNumbers : page_tables_searchable'[q]
                                         = (q \in BlockPages(new) \/ page_tables_searchable[q])
    BY <1>5, GetMemEffect
  <2>2. p \in BlockPages(new) \/ page_tables_searchable[p]
    BY <1>2, <2>1
  <2>3. UNCHANGED devices
    BY <1>5 DEF GetMem
  <2> QED
    BY <1>1, <2>1, <2>2, <2>3
<1>6. ASSUME NEW len \in Lengths, GetMemNoVirtMem(len) \/ GetMemAbort(len) PROVE OwnedNext(p)
  BY <1>3, <1>6 DEF GetMemNoVirtMem, GetMemAbort, map_range_no_virtmem, map_range_already_mapped
<1>7. ASSUME NEW block \in held, FreeMem(block) PROVE OwnedNext(p)
  <2>1. BlockOK(block) /\ Tables
    BY DEF MemInv
  <2>2. /\ unmap_range(block.virt, block.len) /\ UNCHANGED devices
        /\ held' = held \ {block}
    BY <1>7 DEF FreeMem
  <2>3. /\ BlockPages(block) \subseteq PageNumbers \ Reserved
        /\ BlockPages(block) = PagesFrom(pte_offset(block.virt), block.len)
    BY <2>1 DEF BlockOK, Mine, BlockPages
  <2>4. /\ \A q \in PageNumbers \ BlockPages(block) :
              page_tables_searchable'[q] = page_tables_searchable[q]
        /\ \A q \in BlockPages(block) : ~page_tables_searchable'[q]
    BY <2>1, <2>2, <2>3, UnmapEffect
  <2>5. p \notin BlockPages(block) /\ page_tables_searchable[p]
    BY <1>2, <2>4
  <2> QED
    BY <1>1, <2>2, <2>5
<1>8. ASSUME NEW dev \in Devices, MapDevice(dev) PROVE OwnedNext(p)
  <2>1. dev.addr \in Nat /\ dev.len \in Nat /\ Tables
    BY InputAssumption DEF MemInv
  <2> DEFINE n == dev.len + page_offset(dev.addr)
  <2>2. PICK base, virt : base = find_free_virtmem(n) /\ virt = map_range_virt(dev.addr, dev.len)
    OBVIOUS
  <2> DEFINE new == [virt |-> virt, dev |-> dev]
  <2>3. IsMapping(base, PagesFrom(base, n), pte_offset(dev.addr)) /\ pte_offset(virt) = base
    BY <1>8, <2>1, <2>2, MapEffect DEF MapDevice
  <2>4. /\ DevicePages(new) = PagesFrom(base, n) /\ devices' = devices \cup {new}
        /\ UNCHANGED held
    BY <1>8, <2>2, <2>3 DEF DevicePages, MapDevice
  <2> HIDE DEF new, n
  <2>5. p \in DevicePages(new) \/ page_tables_searchable[p]
    BY <1>2, <2>3, <2>4 DEF IsMapping
  <2> QED
    BY <1>1, <2>4, <2>5
<1>9. ASSUME NEW dev \in Devices, MapDeviceFails(dev) PROVE OwnedNext(p)
  BY <1>3, <1>9 DEF MapDeviceFails, map_range_no_virtmem, map_range_already_mapped
<1>10. ASSUME NEW mapping \in devices, UnmapDevice(mapping) PROVE OwnedNext(p)
  <2>1. DeviceOK(mapping) /\ Tables
    BY DEF MemInv
  <2>2. /\ unmap_range(mapping.virt, mapping.dev.len) /\ UNCHANGED held
        /\ devices' = devices \ {mapping}
    BY <1>10 DEF UnmapDevice
  <2>3. /\ DevicePages(mapping) \subseteq PageNumbers \ Reserved
        /\ DevicePages(mapping) = PagesFrom(pte_offset(mapping.virt), mapping.dev.len)
    BY <2>1, AlignedPages DEF DeviceOK, Mine
  <2>4. /\ \A q \in PageNumbers \ DevicePages(mapping) :
              page_tables_searchable'[q] = page_tables_searchable[q]
        /\ \A q \in DevicePages(mapping) : ~page_tables_searchable'[q]
    BY <2>1, <2>2, <2>3, UnmapEffect
  <2>5. p \notin DevicePages(mapping) /\ page_tables_searchable[p]
    BY <1>2, <2>4
  <2> QED
    BY <1>1, <2>2, <2>5
<1> QED
  BY <1>4, <1>5, <1>6, <1>7, <1>8, <1>9, <1>10 DEF Next, Stopped

\* If devices start at a page, then no page stays mapped that nobody holds.  For
\* the others unmap_range forgets the offset in the page, and leaves their last page mapped.
THEOREM MemoryNothingLeftMapped ==
  ASSUME AlignedDevices
  PROVE  Spec => []NothingLeftMapped
<1>1. Init => MemInv /\ NothingLeftMapped
  <2>1. Init => NothingLeftMapped
    BY DEF Init, PagingInit, NothingLeftMapped, isMapped
  <2> QED
    BY <2>1, MemInit
<1>2. MemInv /\ NothingLeftMapped /\ [Next]_vars => MemInv' /\ NothingLeftMapped'
  BY MemStep, LeftMappedStep
<1> QED
  BY <1>1, <1>2, PTL DEF Spec

=============================================================================

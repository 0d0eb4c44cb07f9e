--------------------------- MODULE PhysMemProofs ----------------------------
(***************************************************************************)
(* Proofs about the physical memory manager, for every page size, every    *)
(* number of slots and chunks, and all regions, requests and framebuffers  *)
(* that satisfy ProperInputs.                                              *)
(*                                                                         *)
(* The list is kept in the order of memory.  The invariant says so without *)
(* following it: the next of a header is the header with the lowest memory *)
(* above it, its prev the one with the highest memory below it.  It is     *)
(* stated for a list given as a value, so that what Link, MergeNext,       *)
(* MergePrev and ensure_not_allocatable do to it are lemmas.               *)
(***************************************************************************)
EXTENDS PhysMem, Arithmetic

Slots(n) == [next : 0 .. n, prev : 0 .. n, memory : Nat, size : Nat,
             in_use : BOOLEAN, header_in_use : BOOLEAN]

InUse(hs) == {s \in DOMAIN hs : hs[s].header_in_use}

\* The header behind, and the one before, another one in the order of memory.
IsNext(hs, s, u) ==
    IF u = NULL THEN \A t \in InUse(hs) : hs[t].memory <= hs[s].memory
    ELSE /\ u \in InUse(hs) /\ hs[s].memory < hs[u].memory
         /\ \A t \in InUse(hs) : hs[t].memory <= hs[s].memory \/ hs[u].memory <= hs[t].memory

IsPrev(hs, s, u) ==
    IF u = NULL THEN \A t \in InUse(hs) : hs[s].memory <= hs[t].memory
    ELSE /\ u \in InUse(hs) /\ hs[u].memory < hs[s].memory
         /\ \A t \in InUse(hs) : hs[t].memory <= hs[u].memory \/ hs[s].memory <= hs[t].memory

\* Headers are whole pages and do not overlap.
Layout(hs) ==
    /\ \A s \in InUse(hs) : /\ hs[s].size > 0
                            /\ hs[s].memory % PageSize = 0 /\ hs[s].size % PageSize = 0
    /\ \A s, t \in InUse(hs) :
          s # t => EndOf(hs[s]) <= hs[t].memory \/ EndOf(hs[t]) <= hs[s].memory

Typed(hs, n) == n \in Nat /\ hs \in [1 .. n -> Slots(n)]

Chain(hs, n) ==
    /\ Typed(hs, n)
    /\ Layout(hs)
    /\ \A s \in InUse(hs) : IsNext(hs, s, hs[s].next)
    /\ \A s \in InUse(hs) : IsPrev(hs, s, hs[s].prev)

Lowest(hs, first) ==
    first \in InUse(hs) /\ \A s \in InUse(hs) : hs[first].memory <= hs[s].memory

Covered(hs) == {x \in Nat : \E s \in InUse(hs) : hs[s].memory <= x /\ x < EndOf(hs[s])}

\* Two free headers that touch, of which a list that is merged has none.
Touching(hs, s, t) ==
    ~hs[s].in_use /\ ~hs[t].in_use /\ hs[t].memory = EndOf(hs[s])
Merged(hs) == \A s, t \in InUse(hs) : ~Touching(hs, s, t)

-----------------------------------------------------------------------------
(* The invariants.                                                         *)

Ram == {x \in Nat : \E i \in 1 .. Len(Regions) : Regions[i].memory <= x /\ x < RegionEnd(i)}
Withdrawn(fbs) == {x \in Nat : \E fb \in fbs : fb.addr <= x /\ x < fb.addr + fb.len}

ListInv ==
    /\ headers_in_use \in Nat /\ wild_next \in BOOLEAN
    /\ status \in {"ok", "abort", "fault"}
    /\ framebuffers \subseteq Framebuffers
    /\ Chain(headers, headers_allocated)
    /\ Lowest(headers, first_header) /\ headers[first_header].memory = Regions[1].memory
    /\ Covered(headers) = Ram \ Withdrawn(framebuffers)
    /\ Merged(headers)
    /\ Cardinality(InUse(headers)) <= headers_in_use
    /\ headers_in_use < headers_allocated

\* Every area begins a header in use that is long enough for its pages, every
\* chunk begins one, and no header is begun twice.
Up(len) == ((len + PageSize - 1) \div PageSize) * PageSize

AreasOwned(hs, as) ==
    /\ \A a \in as :
          /\ a = [addr |-> a.addr, len |-> a.len] /\ a.len \in Lengths
          /\ \E s \in InUse(hs) : /\ hs[s].in_use /\ hs[s].memory = a.addr
                                  /\ a.addr + Up(a.len) <= EndOf(hs[s])
    /\ \A a, b \in as : a.addr = b.addr => a = b

ChunksOwned(hs, as, cs) ==
    /\ \A c \in cs : \E s \in InUse(hs) : hs[s].in_use /\ hs[s].memory = c
    /\ \A a \in as : a.addr \notin cs

OwnInv == AreasOwned(headers, areas) /\ ChunksOwned(headers, areas, chunks)

-----------------------------------------------------------------------------
(* A list in the order of memory.                                          *)

LEMMA SlotFacts ==
  ASSUME NEW n, NEW hs, Chain(hs, n)
  PROVE  /\ n \in Nat /\ DOMAIN hs = 1 .. n /\ InUse(hs) \subseteq 1 .. n
         /\ NULL \notin InUse(hs)
         /\ \A s \in 1 .. n : /\ hs[s].memory \in Nat /\ hs[s].size \in Nat
                              /\ hs[s].next \in 0 .. n /\ hs[s].prev \in 0 .. n
                              /\ hs[s].in_use \in BOOLEAN /\ hs[s].header_in_use \in BOOLEAN
                              /\ EndOf(hs[s]) \in Nat
                              /\ EndOf(hs[s]) = hs[s].memory + hs[s].size
         /\ \A s \in InUse(hs) : hs[s].header_in_use
<1>1. n \in Nat /\ hs \in [1 .. n -> Slots(n)]
  BY DEF Chain, Typed
<1>2. DOMAIN hs = 1 .. n
  BY <1>1
<1>3. InUse(hs) \subseteq 1 .. n /\ \A s \in InUse(hs) : hs[s].header_in_use
  BY <1>2 DEF InUse
<1>4. NULL \notin InUse(hs)
  BY <1>1, <1>3 DEF NULL
<1>5. ASSUME NEW s \in 1 .. n
      PROVE  /\ hs[s].memory \in Nat /\ hs[s].size \in Nat
             /\ hs[s].next \in 0 .. n /\ hs[s].prev \in 0 .. n
             /\ hs[s].in_use \in BOOLEAN /\ hs[s].header_in_use \in BOOLEAN
             /\ EndOf(hs[s]) \in Nat
             /\ EndOf(hs[s]) = hs[s].memory + hs[s].size
  <2>1. hs[s] \in Slots(n)
    BY <1>1
  <2>2. /\ hs[s].memory \in Nat /\ hs[s].size \in Nat
        /\ hs[s].next \in 0 .. n /\ hs[s].prev \in 0 .. n
        /\ hs[s].in_use \in BOOLEAN /\ hs[s].header_in_use \in BOOLEAN
    BY <2>1 DEF Slots
  <2> QED
    BY <2>2 DEF EndOf
<1> QED
  BY <1>1, <1>2, <1>3, <1>4, <1>5

LEMMA CountedInUse ==
  ASSUME NEW n, NEW hs, Chain(hs, n)
  PROVE  IsFiniteSet(InUse(hs)) /\ Cardinality(InUse(hs)) \in Nat
<1>1. n \in Nat /\ InUse(hs) \subseteq 1 .. n
  BY SlotFacts
<1>2. IsFiniteSet(1 .. n)
  BY <1>1, FS_Interval
<1> QED
  BY <1>1, <1>2, FS_Subset, FS_CardinalityType

\* Headers that do not overlap are apart as their memory is ordered, and begin
\* at different addresses.
LEMMA Ordered ==
  ASSUME NEW n, NEW hs, Chain(hs, n), NEW s \in InUse(hs), NEW t \in InUse(hs)
  PROVE  /\ hs[s].memory < hs[t].memory => EndOf(hs[s]) <= hs[t].memory
         /\ hs[s].memory = hs[t].memory => s = t
         /\ hs[s].memory < EndOf(hs[s])
<1>1. /\ hs[s].memory \in Nat /\ hs[t].memory \in Nat
      /\ EndOf(hs[s]) \in Nat /\ EndOf(hs[t]) \in Nat
      /\ hs[s].size \in Nat /\ hs[t].size \in Nat
      /\ EndOf(hs[s]) = hs[s].memory + hs[s].size
      /\ EndOf(hs[t]) = hs[t].memory + hs[t].size
  BY SlotFacts
<1>2. /\ hs[s].size > 0 /\ hs[t].size > 0
      /\ s # t => EndOf(hs[s]) <= hs[t].memory \/ EndOf(hs[t]) <= hs[s].memory
  BY DEF Chain, Layout
<1> QED
  BY <1>1, <1>2

\* next and prev are inverse.
LEMMA Inverse1 ==
  ASSUME NEW n, NEW hs, Chain(hs, n), NEW s \in InUse(hs), hs[s].next # NULL
  PROVE  /\ hs[s].next \in InUse(hs) /\ hs[hs[s].next].prev = s
         /\ hs[s].memory < hs[hs[s].next].memory
         /\ EndOf(hs[s]) <= hs[hs[s].next].memory
<1>1. PICK u : u = hs[s].next
  OBVIOUS
<1>2. /\ u \in InUse(hs) /\ hs[s].memory < hs[u].memory
      /\ \A t \in InUse(hs) : hs[t].memory <= hs[s].memory \/ hs[u].memory <= hs[t].memory
  BY <1>1 DEF Chain, IsNext
<1>3. PICK p : p = hs[u].prev
  OBVIOUS
<1>4. IsPrev(hs, u, p)
  BY <1>2, <1>3 DEF Chain
<1>5. hs[s].memory \in Nat /\ hs[u].memory \in Nat
  BY <1>2, SlotFacts
<1>6. p # NULL
  BY <1>2, <1>4, <1>5 DEF IsPrev
<1>7. /\ p \in InUse(hs) /\ hs[p].memory < hs[u].memory
      /\ hs[s].memory <= hs[p].memory \/ hs[u].memory <= hs[s].memory
  BY <1>4, <1>6 DEF IsPrev
<1>8. hs[p].memory \in Nat
  BY <1>7, SlotFacts
<1>9. hs[p].memory = hs[s].memory
  BY <1>2, <1>5, <1>7, <1>8
<1>10. p = s
  BY <1>7, <1>9, Ordered
<1> QED
  BY <1>1, <1>2, <1>3, <1>10, Ordered

LEMMA Inverse2 ==
  ASSUME NEW n, NEW hs, Chain(hs, n), NEW s \in InUse(hs), hs[s].prev # NULL
  PROVE  /\ hs[s].prev \in InUse(hs) /\ hs[hs[s].prev].next = s
         /\ hs[hs[s].prev].memory < hs[s].memory
         /\ EndOf(hs[hs[s].prev]) <= hs[s].memory
<1>1. PICK u : u = hs[s].prev
  OBVIOUS
<1>2. /\ u \in InUse(hs) /\ hs[u].memory < hs[s].memory
      /\ \A t \in InUse(hs) : hs[t].memory <= hs[u].memory \/ hs[s].memory <= hs[t].memory
  BY <1>1 DEF Chain, IsPrev
<1>3. PICK p : p = hs[u].next
  OBVIOUS
<1>4. IsNext(hs, u, p)
  BY <1>2, <1>3 DEF Chain
<1>5. hs[s].memory \in Nat /\ hs[u].memory \in Nat
  BY <1>2, SlotFacts
<1>6. p # NULL
  BY <1>2, <1>4, <1>5 DEF IsNext
<1>7. /\ p \in InUse(hs) /\ hs[u].memory < hs[p].memory
      /\ hs[s].memory <= hs[u].memory \/ hs[p].memory <= hs[s].memory
  BY <1>4, <1>6 DEF IsNext
<1>8. hs[p].memory \in Nat
  BY <1>7, SlotFacts
<1>9. hs[p].memory = hs[s].memory
  BY <1>2, <1>5, <1>7, <1>8
<1>10. p = s
  BY <1>7, <1>9, Ordered
<1> QED
  BY <1>1, <1>2, <1>3, <1>10, Ordered

-----------------------------------------------------------------------------
(* The walk from first_header meets every header in use.                   *)

IsNth(hs, first, d, f) ==
    f = [n \in d |-> IF n = 1 THEN first
                     ELSE IF f[n - 1] = NULL THEN NULL ELSE hs[f[n - 1]].next]

LEMMA NthValues ==
  ASSUME NEW hs, NEW first, NEW d, NEW f, IsNth(hs, first, d, f)
  PROVE  \A n \in d : f[n] = IF n = 1 THEN first
                             ELSE IF f[n - 1] = NULL THEN NULL ELSE hs[f[n - 1]].next
<1> DEFINE G == [n \in d |-> IF n = 1 THEN first
                             ELSE IF f[n - 1] = NULL THEN NULL ELSE hs[f[n - 1]].next]
<1>1. \A n \in d : G[n] = IF n = 1 THEN first
                          ELSE IF f[n - 1] = NULL THEN NULL ELSE hs[f[n - 1]].next
  OBVIOUS
<1>2. f = G
  BY DEF IsNth
<1> HIDE DEF G
<1> QED
  BY <1>1, <1>2

\* The recursion defines a function.
LEMMA NthExists ==
  ASSUME NEW hs, NEW first, NEW c \in Nat
  PROVE  \E f : IsNth(hs, first, 1 .. c, f)
<1> DEFINE T == {n \in Nat : ~ \E f : IsNth(hs, first, 1 .. n, f)}
<1> SUFFICES ASSUME T # {} PROVE FALSE
  OBVIOUS
<1>1. PICK m \in T : \A x \in T : m <= x
  BY LeastNumber
<1>2. m \in Nat /\ ~ \E f : IsNth(hs, first, 1 .. m, f)
  BY <1>1
<1>3. CASE m = 0
  <2> DEFINE f == [n \in 1 .. 0 |-> first]
             F == [n \in 1 .. 0 |-> IF n = 1 THEN first
                      ELSE IF f[n - 1] = NULL THEN NULL ELSE hs[f[n - 1]].next]
  <2>1. \A n \in 1 .. 0 : f[n] = F[n]
    OBVIOUS
  <2>2. f = F
    BY <2>1
  <2>3. IsNth(hs, first, 1 .. 0, f)
    BY <2>2 DEF IsNth
  <2> QED
    BY <1>2, <1>3, <2>3
<1>4. CASE m # 0
  <2>1. m - 1 \in Nat /\ m - 1 \notin T
    BY <1>1, <1>2, <1>4
  <2>2. PICK g : IsNth(hs, first, 1 .. (m - 1), g)
    BY <2>1
  <2>3. \A n \in 1 .. (m - 1) : g[n] = IF n = 1 THEN first
           ELSE IF g[n - 1] = NULL THEN NULL ELSE hs[g[n - 1]].next
    BY <2>2, NthValues
  <2> DEFINE step == IF m = 1 THEN first
                     ELSE IF g[m - 1] = NULL THEN NULL ELSE hs[g[m - 1]].next
             f == [n \in 1 .. m |-> IF n = m THEN step ELSE g[n]]
             F == [n \in 1 .. m |-> IF n = 1 THEN first
                      ELSE IF f[n - 1] = NULL THEN NULL ELSE hs[f[n - 1]].next]
  <2>4. ASSUME NEW n \in 1 .. m PROVE f[n] = F[n]
    <3>1. CASE n = 1
      <4>1. F[n] = first
        BY <3>1
      <4>2. CASE m = 1
        BY <3>1, <4>1, <4>2
      <4>3. CASE m # 1
        <5>1. n \in 1 .. (m - 1) /\ n # m
          BY <1>2, <1>4, <3>1, <4>3
        <5> QED
          BY <2>3, <3>1, <4>1, <5>1
      <4> QED
        BY <4>2, <4>3
    <3>2. CASE n # 1
      <4>1. n - 1 \in 1 .. m /\ n - 1 # m /\ n - 1 \in 1 .. (m - 1)
        BY <1>2, <3>2
      <4>2. f[n - 1] = g[n - 1]
        BY <4>1
      <4>3. F[n] = IF g[n - 1] = NULL THEN NULL ELSE hs[g[n - 1]].next
        BY <3>2, <4>2
      <4>4. n # m => n \in 1 .. (m - 1) /\ f[n] = g[n]
        BY <1>2
      <4>5. n # m => g[n] = IF g[n - 1] = NULL THEN NULL ELSE hs[g[n - 1]].next
        BY <2>3, <3>2, <4>4
      <4>6. n = m => f[n] = IF g[n - 1] = NULL THEN NULL ELSE hs[g[n - 1]].next
        BY <1>2, <3>2
      <4> QED
        BY <4>3, <4>4, <4>5, <4>6
    <3> QED
      BY <3>1, <3>2
  <2>5. f = F
    BY <2>4
  <2>6. IsNth(hs, first, 1 .. m, f)
    BY <2>5 DEF IsNth
  <2> QED
    BY <1>2, <2>6
<1> QED
  BY <1>3, <1>4


LEMMA NthIs ==
  ASSUME NEW hs, NEW first, NEW c \in Nat, DOMAIN hs = 1 .. c
  PROVE  IsNth(hs, first, 1 .. c, Nth(hs, first))
<1> DEFINE nth[n \in DOMAIN hs] ==
             IF n = 1 THEN first
             ELSE LET before == nth[n - 1]
                  IN  IF before = NULL THEN NULL ELSE hs[before].next
<1>1. nth = CHOOSE f : IsNth(hs, first, DOMAIN hs, f)
  BY DEF IsNth
<1>2. Nth(hs, first) = nth
  BY DEF Nth
<1> HIDE DEF nth
<1>3. \E f : IsNth(hs, first, DOMAIN hs, f)
  BY NthExists
<1> QED
  BY <1>1, <1>2, <1>3

\* Every header in use is met, and nothing else: the n-th header has n headers
\* up to it, and there are fewer headers than steps.
LEMMA WalkMeetsAll ==
  ASSUME NEW n, NEW hs, NEW first, Chain(hs, n), Lowest(hs, first),
         Cardinality(InUse(hs)) < n
  PROVE  /\ Listed(hs, first) = InUse(hs)
         /\ \A i \in 1 .. n : Nth(hs, first)[i] \in InUse(hs) \cup {NULL}
<1>1. /\ n \in Nat /\ DOMAIN hs = 1 .. n /\ InUse(hs) \subseteq 1 .. n
      /\ NULL \notin InUse(hs) /\ \A s \in InUse(hs) : hs[s].memory \in Nat
  BY SlotFacts
<1>2. PICK f : f = Nth(hs, first)
  OBVIOUS
<1>3. \A i \in 1 .. n : f[i] = IF i = 1 THEN first
                               ELSE IF f[i - 1] = NULL THEN NULL ELSE hs[f[i - 1]].next
  <2>1. PICK d : d = 1 .. n
    OBVIOUS
  <2>2. IsNth(hs, first, d, f)
    BY <1>1, <1>2, <2>1, NthIs
  <2>3. \A i \in d : f[i] = IF i = 1 THEN first
                            ELSE IF f[i - 1] = NULL THEN NULL ELSE hs[f[i - 1]].next
    BY <2>2, NthValues
  <2> QED
    BY <2>1, <2>3
<1>4. IsFiniteSet(InUse(hs)) /\ Cardinality(InUse(hs)) \in Nat
  BY CountedInUse
<1> DEFINE UpTo(s) == {t \in InUse(hs) : hs[t].memory <= hs[s].memory}
           Good(i) == /\ f[i] \in InUse(hs) \cup {NULL}
                      /\ f[i] # NULL => Cardinality(UpTo(f[i])) >= i
           T == {i \in 1 .. n : ~Good(i)}
<1>5. \A s : IsFiniteSet(UpTo(s)) /\ Cardinality(UpTo(s)) \in Nat
               /\ Cardinality(UpTo(s)) <= Cardinality(InUse(hs))
  <2> TAKE s
  <2>1. UpTo(s) \in SUBSET InUse(hs)
    OBVIOUS
  <2> HIDE DEF UpTo
  <2> QED
    BY <1>4, <2>1, FS_Subset, FS_CardinalityType
<1>6. T = {}
  <2> SUFFICES ASSUME T # {} PROVE FALSE
    OBVIOUS
  <2>0. T \subseteq Nat
    BY <1>1
  <2>1. PICK m \in T : \A x \in T : m <= x
    BY <2>0, LeastNumber
  <2>2. m \in 1 .. n /\ ~Good(m)
    BY <2>1
  <2>3. CASE m = 1
    <3>1. f[1] = first /\ first \in InUse(hs)
      BY <1>3, <2>2, <2>3 DEF Lowest
    <3>2. first \in UpTo(first)
      BY <1>1, <3>1
    <3>3. Cardinality(UpTo(first)) # 0
      <4> HIDE DEF UpTo
      <4> QED
        BY <1>5, <3>2, FS_EmptySet
    <3>4. Cardinality(UpTo(first)) >= 1
      <4> HIDE DEF UpTo
      <4> QED
        BY <1>5, <3>3
    <3> QED
      BY <2>2, <2>3, <3>1, <3>4
  <2>4. CASE m # 1
    <3>1. PICK k : k = m - 1
      OBVIOUS
    <3>2. k \in 1 .. n /\ k \in Nat /\ m = k + 1 /\ ~(m <= k)
      BY <1>1, <2>2, <2>4, <3>1
    <3>3. Good(k)
      BY <2>1, <3>2
    <3>4. f[m] = IF f[k] = NULL THEN NULL ELSE hs[f[k]].next
      BY <1>3, <2>2, <2>4, <3>1
    <3>5. CASE f[k] = NULL \/ f[m] = NULL
      BY <2>2, <3>4, <3>5
    <3>6. CASE f[k] # NULL /\ f[m] # NULL
      <4>1. PICK a, b : a = f[k] /\ b = f[m]
        OBVIOUS
      <4>2. a \in InUse(hs) /\ b = hs[a].next /\ b # NULL /\ Cardinality(UpTo(a)) >= k
        BY <3>3, <3>4, <3>6, <4>1
      <4>3. b \in InUse(hs) /\ hs[a].memory < hs[b].memory
        BY <4>2, Inverse1
      <4>4. UpTo(a) \cup {b} \subseteq UpTo(b) /\ b \notin UpTo(a)
        BY <1>1, <4>2, <4>3
      <4>5. Cardinality(UpTo(b)) >= Cardinality(UpTo(a)) + 1
        <5> HIDE DEF UpTo
        <5>1. Cardinality(UpTo(a) \cup {b}) = Cardinality(UpTo(a)) + 1
          BY <1>5, <4>4, FS_AddElement
        <5>2. Cardinality(UpTo(a) \cup {b}) <= Cardinality(UpTo(b))
          BY <1>5, <4>4, FS_Subset
        <5> QED
          BY <1>5, <5>1, <5>2
      <4>6. Cardinality(UpTo(b)) >= m
        <5> HIDE DEF UpTo
        <5> QED
          BY <1>5, <3>2, <4>2, <4>5
      <4> QED
        BY <2>2, <4>1, <4>3, <4>6
    <3> QED
      BY <3>5, <3>6
  <2> QED
    BY <2>3, <2>4
<1>7. \A i \in 1 .. n : f[i] \in InUse(hs) \cup {NULL}
  BY <1>6
<1>8. ASSUME NEW i \in 1 .. n, f[i] # NULL PROVE i < n
  <2>1. Cardinality(UpTo(f[i])) >= i
    BY <1>6, <1>8
  <2> HIDE DEF UpTo
  <2> QED
    BY <1>1, <1>4, <1>5, <2>1
<1>9. Listed(hs, first) = {f[i] : i \in 1 .. n} \ {NULL}
  BY <1>1, <1>2 DEF Listed
<1> DEFINE L == {f[i] : i \in 1 .. n} \ {NULL}
           M == {hs[s].memory : s \in InUse(hs) \ L}
<1>10. M = {}
  <2> SUFFICES ASSUME M # {} PROVE FALSE
    OBVIOUS
  <2>1. M \subseteq Nat
    BY <1>1
  <2>2. PICK x \in M : \A y \in M : x <= y
    <3> HIDE DEF M
    <3> QED
      BY <2>1, LeastNumber
  <2>3. PICK s \in InUse(hs) \ L : x = hs[s].memory
    BY <2>2
  <2>4. s # first
    <3>1. 1 \in 1 .. n /\ first \in InUse(hs)
      BY <1>1 DEF Lowest
    <3>2. f[1] = first
      BY <1>3, <3>1
    <3> QED
      BY <1>1, <2>3, <3>1, <3>2
  <2>5. hs[s].prev # NULL
    <3>1. first \in InUse(hs) /\ hs[first].memory <= hs[s].memory
      BY <2>3 DEF Lowest
    <3>2. hs[first].memory # hs[s].memory
      BY <2>3, <2>4, <3>1, Ordered
    <3>3. IsPrev(hs, s, hs[s].prev)
      BY <2>3 DEF Chain
    <3> QED
      BY <1>1, <2>3, <3>1, <3>2, <3>3 DEF IsPrev
  <2>6. PICK p : p = hs[s].prev
    OBVIOUS
  <2>7. p \in InUse(hs) /\ hs[p].next = s /\ hs[p].memory < hs[s].memory
    BY <2>3, <2>5, <2>6, Inverse2
  <2>8. p \in L
    <3>1. ~(x <= hs[p].memory)
      BY <1>1, <2>3, <2>7
    <3> QED
      BY <2>2, <2>7, <3>1
  <2>9. PICK i \in 1 .. n : f[i] = p
    BY <2>8
  <2>10. i < n /\ i + 1 \in 1 .. n /\ i + 1 # 1 /\ (i + 1) - 1 = i
    BY <1>1, <1>8, <2>7, <2>9
  <2>11. f[i + 1] = hs[p].next
    BY <1>1, <1>3, <2>7, <2>9, <2>10
  <2> QED
    BY <1>1, <2>3, <2>7, <2>10, <2>11
<1> QED
  BY <1>2, <1>7, <1>9, <1>10


-----------------------------------------------------------------------------
(* What the searches find.                                                 *)

\* A list as the searches meet it.
Walkable(hs, n, first) ==
    Chain(hs, n) /\ Lowest(hs, first) /\ Cardinality(InUse(hs)) < n

LEMMA FoundInList ==
  ASSUME NEW n, NEW hs, NEW first, Walkable(hs, n, first),
         NEW hits, hits \subseteq {i \in 1 .. n : Nth(hs, first)[i] # NULL}, hits # {}
  PROVE  LET i == CHOOSE i \in hits : \A m \in hits : i <= m
         IN  i \in hits /\ Nth(hs, first)[i] \in InUse(hs)
<1>1. \A i \in 1 .. n : Nth(hs, first)[i] \in InUse(hs) \cup {NULL}
  BY WalkMeetsAll DEF Walkable
<1>2. n \in Nat
  BY DEF Walkable, Chain, Typed
<1>3. hits \subseteq Nat
  BY <1>2
<1>4. \E i \in hits : \A m \in hits : i <= m
  BY <1>3, LeastNumber
<1> DEFINE i == CHOOSE i \in hits : \A m \in hits : i <= m
<1>5. i \in hits
  BY <1>4
<1> HIDE DEF i
<1> QED
  BY <1>1, <1>5 DEF i

LEMMA FindFree ==
  ASSUME NEW n, NEW hs, Walkable(hs, n, first_header), NEW len,
         find_free_pages(hs, len) # NULL
  PROVE  /\ find_free_pages(hs, len) \in InUse(hs)
         /\ ~hs[find_free_pages(hs, len)].in_use
         /\ hs[find_free_pages(hs, len)].size >= len
<1>1. DOMAIN hs = 1 .. n
  BY SlotFacts DEF Walkable
<1> DEFINE nth == Nth(hs, first_header)
           hits == {i \in 1 .. n : nth[i] # NULL /\ ~hs[nth[i]].in_use /\ hs[nth[i]].size >= len}
           i == CHOOSE i \in hits : \A m \in hits : i <= m
<1>2. find_free_pages(hs, len) = IF hits = {} THEN NULL ELSE nth[i]
  BY <1>1 DEF find_free_pages, FirstInList
<1>3. hits # {}
  BY <1>2
<1>4. i \in hits /\ nth[i] \in InUse(hs)
  <2>1. PICK first, H : first = first_header /\ H = hits
    OBVIOUS
  <2>2. H \subseteq {j \in 1 .. n : Nth(hs, first)[j] # NULL} /\ H # {}
    BY <1>3, <2>1
  <2>3. Walkable(hs, n, first)
    BY <2>1
  <2> HIDE DEF hits
  <2> QED
    BY <2>1, <2>2, <2>3, FoundInList
<1> HIDE DEF i
<1> QED
  BY <1>2, <1>3, <1>4

LEMMA FindHeader ==
  ASSUME NEW n, NEW hs, Walkable(hs, n, first_header), NEW addr, NEW len,
         find_header_for_page(hs, addr, len) # NULL
  PROVE  LET h == find_header_for_page(hs, addr, len)
         IN  /\ h \in InUse(hs) /\ ~hs[h].in_use /\ ~(hs[h].size < len)
             /\ hs[h].memory <= addr /\ EndOf(hs[h]) >= addr
<1>1. DOMAIN hs = 1 .. n
  BY SlotFacts DEF Walkable
<1> DEFINE nth == Nth(hs, first_header)
           hits == {i \in 1 .. n : nth[i] # NULL /\ hs[nth[i]].memory <= addr
                                   /\ EndOf(hs[nth[i]]) >= addr}
           i == CHOOSE i \in hits : \A m \in hits : i <= m
           found == IF hits = {} THEN NULL ELSE nth[i]
<1>2. find_header_for_page(hs, addr, len) =
         IF found = NULL \/ hs[found].in_use \/ hs[found].size < len THEN NULL ELSE found
  <2>1. HeaderHolding(hs, addr) = found
    BY <1>1 DEF HeaderHolding, FirstInList
  <2> HIDE DEF found
  <2> QED
    BY <2>1 DEF find_header_for_page
<1>3. hits # {}
  BY <1>2
<1>4. i \in hits /\ nth[i] \in InUse(hs)
  <2>1. PICK first, H : first = first_header /\ H = hits
    OBVIOUS
  <2>2. H \subseteq {j \in 1 .. n : Nth(hs, first)[j] # NULL} /\ H # {}
    BY <1>3, <2>1
  <2>3. Walkable(hs, n, first)
    BY <2>1
  <2> HIDE DEF hits
  <2> QED
    BY <2>1, <2>2, <2>3, FoundInList
<1>5. found = nth[i]
  BY <1>3
<1> HIDE DEF i, found
<1>6. PICK h : h = find_header_for_page(hs, addr, len)
  OBVIOUS
<1>7. h = found /\ ~hs[h].in_use /\ ~(hs[h].size < len)
  BY <1>2, <1>6
<1>8. hs[nth[i]].memory <= addr /\ EndOf(hs[nth[i]]) >= addr
  BY <1>4
<1> QED
  BY <1>4, <1>5, <1>6, <1>7, <1>8

LEMMA FindHolder ==
  ASSUME NEW n, Walkable(headers, n, first_header), NEW addr, HeaderOf(addr) # NULL
  PROVE  /\ HeaderOf(addr) \in InUse(headers)
         /\ headers[HeaderOf(addr)].memory <= addr /\ EndOf(headers[HeaderOf(addr)]) > addr
<1>0. PICK hs : hs = headers
  OBVIOUS
<1>1. DOMAIN hs = 1 .. n /\ Walkable(hs, n, first_header)
  BY <1>0, SlotFacts DEF Walkable
<1> DEFINE nth == Nth(hs, first_header)
           hits == {i \in 1 .. n : nth[i] # NULL /\ hs[nth[i]].memory <= addr
                                   /\ EndOf(hs[nth[i]]) > addr}
           i == CHOOSE i \in hits : \A m \in hits : i <= m
<1>2. HeaderOf(addr) = IF hits = {} THEN NULL ELSE nth[i]
  BY <1>0, <1>1 DEF HeaderOf, FirstInList
<1>3. hits # {}
  BY <1>2
<1>4. i \in hits /\ nth[i] \in InUse(hs)
  <2>1. PICK first, H : first = first_header /\ H = hits
    OBVIOUS
  <2>2. H \subseteq {j \in 1 .. n : Nth(hs, first)[j] # NULL} /\ H # {}
    BY <1>3, <2>1
  <2>3. Walkable(hs, n, first)
    BY <1>1, <2>1
  <2> HIDE DEF hits
  <2> QED
    BY <2>1, <2>2, <2>3, FoundInList
<1> HIDE DEF i
<1> QED
  BY <1>0, <1>2, <1>3, <1>4

-----------------------------------------------------------------------------
(* Marking headers and adding slots.                                       *)

\* Lists whose headers are the same except for in_use.
SameShape(g, hs) ==
    /\ InUse(g) = InUse(hs)
    /\ \A s \in InUse(hs) : /\ g[s].memory = hs[s].memory /\ g[s].size = hs[s].size
                            /\ g[s].next = hs[s].next /\ g[s].prev = hs[s].prev

LEMMA ShapeKept ==
  ASSUME NEW n, NEW m, NEW hs, NEW g, Chain(hs, n), Typed(g, m), SameShape(g, hs)
  PROVE  /\ Chain(g, m) /\ Covered(g) = Covered(hs)
<1>1. \A s \in InUse(hs) : EndOf(g[s]) = EndOf(hs[s])
  BY DEF SameShape, EndOf
<1>2. Layout(g)
  BY <1>1 DEF Chain, Layout, SameShape
<1>3. ASSUME NEW s \in InUse(g) PROVE IsNext(g, s, g[s].next) /\ IsPrev(g, s, g[s].prev)
  <2>1. s \in InUse(hs) /\ IsNext(hs, s, hs[s].next) /\ IsPrev(hs, s, hs[s].prev)
    BY <1>3 DEF Chain, SameShape
  <2>2. g[s].next = hs[s].next /\ g[s].prev = hs[s].prev /\ g[s].memory = hs[s].memory
    BY <2>1 DEF SameShape
  <2>3. \A t \in InUse(hs) : g[t].memory = hs[t].memory
    BY DEF SameShape
  <2>4. InUse(g) = InUse(hs)
    BY DEF SameShape
  <2>5. IsNext(g, s, hs[s].next)
    BY <2>1, <2>2, <2>3, <2>4 DEF IsNext
  <2>6. IsPrev(g, s, hs[s].prev)
    BY <2>1, <2>2, <2>3, <2>4 DEF IsPrev
  <2> QED
    BY <2>2, <2>5, <2>6
<1>4. Covered(g) = Covered(hs)
  BY <1>1 DEF Covered, SameShape
<1> QED
  BY <1>1, <1>2, <1>3, <1>4 DEF Chain

Mark(hs, h, b) == [hs EXCEPT ![h].in_use = b]

LEMMA MarkFields ==
  ASSUME NEW n, NEW hs, Chain(hs, n), NEW h \in InUse(hs), NEW b \in BOOLEAN,
         NEW g, g = Mark(hs, h, b)
  PROVE  /\ Chain(g, n) /\ InUse(g) = InUse(hs) /\ SameShape(g, hs)
         /\ Covered(g) = Covered(hs)
         /\ \A s \in InUse(hs) : EndOf(g[s]) = EndOf(hs[s])
         /\ g[h].in_use = b /\ \A s \in InUse(hs) : s # h => g[s].in_use = hs[s].in_use
         /\ \A first : Walkable(hs, n, first) => Walkable(g, n, first)
<1>1. n \in Nat /\ hs \in [1 .. n -> Slots(n)] /\ h \in 1 .. n
  BY SlotFacts DEF Chain, Typed
<1>2. /\ g \in [1 .. n -> Slots(n)]
      /\ \A s \in 1 .. n : /\ g[s].memory = hs[s].memory /\ g[s].size = hs[s].size
                           /\ g[s].next = hs[s].next /\ g[s].prev = hs[s].prev
                           /\ g[s].header_in_use = hs[s].header_in_use
                           /\ g[s].in_use = IF s = h THEN b ELSE hs[s].in_use
  BY <1>1 DEF Slots, Mark
<1>3. InUse(g) = InUse(hs)
  BY <1>1, <1>2 DEF InUse
<1>4. SameShape(g, hs) /\ InUse(hs) \subseteq 1 .. n
  BY <1>2, <1>3, SlotFacts DEF SameShape
<1>5. Chain(g, n) /\ Covered(g) = Covered(hs)
  <2>1. Typed(g, n) /\ SameShape(g, hs)
    BY <1>1, <1>2, <1>4 DEF Typed
  <2> QED
    BY <2>1, ShapeKept
<1>6. /\ \A s \in InUse(hs) : EndOf(g[s]) = EndOf(hs[s])
      /\ \A first : Lowest(hs, first) => Lowest(g, first)
  BY <1>4 DEF SameShape, EndOf, Lowest
<1> QED
  BY <1>2, <1>3, <1>4, <1>5, <1>6 DEF Walkable


-----------------------------------------------------------------------------
(* Splitting a header.                                                     *)

\* One field of a slot is written.
LEMMA PutNext ==
  ASSUME NEW n \in Nat, NEW x \in Slots(n), NEW v \in 0 .. n
  PROVE  LET y == [x EXCEPT !.next = v]
         IN  /\ y \in Slots(n) /\ y.next = v /\ y.prev = x.prev /\ y.memory = x.memory
             /\ y.size = x.size /\ y.in_use = x.in_use /\ y.header_in_use = x.header_in_use
  BY DEF Slots

LEMMA PutPrev ==
  ASSUME NEW n \in Nat, NEW x \in Slots(n), NEW v \in 0 .. n
  PROVE  LET y == [x EXCEPT !.prev = v]
         IN  /\ y \in Slots(n) /\ y.prev = v /\ y.next = x.next /\ y.memory = x.memory
             /\ y.size = x.size /\ y.in_use = x.in_use /\ y.header_in_use = x.header_in_use
  BY DEF Slots

LEMMA PutSize ==
  ASSUME NEW n \in Nat, NEW x \in Slots(n), NEW v \in Nat
  PROVE  LET y == [x EXCEPT !.size = v]
         IN  /\ y \in Slots(n) /\ y.size = v /\ y.next = x.next /\ y.prev = x.prev
             /\ y.memory = x.memory /\ y.in_use = x.in_use
             /\ y.header_in_use = x.header_in_use
  BY DEF Slots

LEMMA LinkFields ==
  ASSUME NEW n, NEW hs, Chain(hs, n), NEW h \in InUse(hs),
         NEW t \in 1 .. n, t \notin InUse(hs), NEW len \in Nat, len <= hs[h].size,
         NEW g, g = Link(hs, h, t, len)
  PROVE  /\ Typed(g, n) /\ InUse(g) = InUse(hs) \cup {t}
         /\ g[t].memory = hs[h].memory + len /\ g[t].size = hs[h].size - len
         /\ g[t].next = hs[h].next /\ g[t].prev = h /\ ~g[t].in_use
         /\ \A s \in InUse(hs) :
               /\ g[s].memory = hs[s].memory /\ g[s].in_use = hs[s].in_use
               /\ g[s].size = IF s = h THEN len ELSE hs[s].size
               /\ g[s].next = IF s = h THEN t ELSE hs[s].next
               /\ g[s].prev = IF s = hs[h].next THEN t ELSE hs[s].prev
<1>1. /\ n \in Nat /\ hs \in [1 .. n -> Slots(n)] /\ h \in 1 .. n /\ h # t
      /\ InUse(hs) \subseteq 1 .. n
  BY SlotFacts DEF Chain, Typed
<1>2. PICK u : u = hs[h].next
  OBVIOUS
<1>3. u \in 0 .. n /\ u # t /\ u # h /\ hs[h].size \in Nat /\ hs[h].memory \in Nat
  <2>1. u \in 0 .. n /\ hs[h].size \in Nat /\ hs[h].memory \in Nat
    BY <1>1, <1>2, SlotFacts
  <2>2. u # NULL => u \in InUse(hs) /\ hs[h].memory < hs[u].memory
    BY <1>2, Inverse1
  <2> QED
    BY <1>1, <2>1, <2>2 DEF NULL
<1>4. PICK a : a = [hs EXCEPT ![h].next = t, ![h].size = len]
  OBVIOUS
<1>5. /\ a \in [1 .. n -> Slots(n)]
      /\ \A s \in 1 .. n : /\ a[s].memory = hs[s].memory /\ a[s].in_use = hs[s].in_use
                           /\ a[s].header_in_use = hs[s].header_in_use
                           /\ a[s].size = IF s = h THEN len ELSE hs[s].size
                           /\ a[s].next = IF s = h THEN t ELSE hs[s].next
                           /\ a[s].prev = hs[s].prev
  <2>1. hs[h] \in Slots(n) /\ t \in 0 .. n
    BY <1>1
  <2>2. PICK x : x = [hs[h] EXCEPT !.next = t]
    OBVIOUS
  <2>3. PICK y : y = [x EXCEPT !.size = len]
    OBVIOUS
  <2>4. a = [hs EXCEPT ![h] = y]
    BY <1>1, <1>4, <2>2, <2>3
  <2>5. /\ x \in Slots(n) /\ x.next = t /\ x.prev = hs[h].prev /\ x.memory = hs[h].memory
        /\ x.in_use = hs[h].in_use /\ x.header_in_use = hs[h].header_in_use
    BY <1>1, <2>1, <2>2, PutNext
  <2>6. /\ y \in Slots(n) /\ y.next = t /\ y.prev = hs[h].prev /\ y.memory = hs[h].memory
        /\ y.in_use = hs[h].in_use /\ y.header_in_use = hs[h].header_in_use
        /\ y.size = len
    BY <1>1, <2>3, <2>5, PutSize
  <2>7. /\ a \in [1 .. n -> Slots(n)] /\ a[h] = y
        /\ \A s \in 1 .. n : s # h => a[s] = hs[s]
    BY <1>1, <2>4, <2>6
  <2> QED
    BY <2>6, <2>7
<1>6. PICK b : b = SetPrev(a, u, t)
  OBVIOUS
<1>7. /\ b \in [1 .. n -> Slots(n)]
      /\ \A s \in 1 .. n : /\ b[s].memory = a[s].memory /\ b[s].in_use = a[s].in_use
                           /\ b[s].header_in_use = a[s].header_in_use
                           /\ b[s].size = a[s].size /\ b[s].next = a[s].next
                           /\ b[s].prev = IF s = u THEN t ELSE a[s].prev
  <2>1. CASE u = NULL
    BY <1>1, <1>5, <1>6, <2>1 DEF SetPrev, NULL
  <2>2. CASE u # NULL
    <3>1. u \in 1 .. n /\ t \in 0 .. n /\ a[u] \in Slots(n)
      BY <1>1, <1>3, <1>5, <2>2 DEF NULL
    <3>2. PICK y : y = [a[u] EXCEPT !.prev = t]
      OBVIOUS
    <3>3. b = [a EXCEPT ![u] = y]
      BY <1>5, <1>6, <2>2, <3>1, <3>2 DEF SetPrev
    <3>4. /\ y \in Slots(n) /\ y.prev = t /\ y.next = a[u].next /\ y.memory = a[u].memory
          /\ y.size = a[u].size /\ y.in_use = a[u].in_use
          /\ y.header_in_use = a[u].header_in_use
      BY <1>1, <3>1, <3>2, PutPrev
    <3>5. /\ b \in [1 .. n -> Slots(n)] /\ b[u] = y
          /\ \A s \in 1 .. n : s # u => b[s] = a[s]
      BY <1>5, <3>1, <3>3, <3>4
    <3> QED
      BY <3>4, <3>5
  <2> QED
    BY <2>1, <2>2
<1>8. PICK r : r = [next |-> u, prev |-> h, memory |-> hs[h].memory + len,
                    size |-> hs[h].size - len, in_use |-> FALSE, header_in_use |-> TRUE]
  OBVIOUS
<1>9. /\ r \in Slots(n) /\ r.next = u /\ r.prev = h /\ r.memory = hs[h].memory + len
      /\ r.size = hs[h].size - len /\ ~r.in_use /\ r.header_in_use
  <2>1. PICK m, z : m = hs[h].memory + len /\ z = hs[h].size - len
    OBVIOUS
  <2>2. m \in Nat /\ z \in Nat /\ h \in 0 .. n
    BY <1>1, <1>3, <2>1
  <2>3. r = [next |-> u, prev |-> h, memory |-> m, size |-> z, in_use |-> FALSE,
             header_in_use |-> TRUE]
    BY <1>8, <2>1
  <2> QED
    BY <1>3, <2>1, <2>2, <2>3 DEF Slots
<1>10. g = [b EXCEPT ![t] = r]
  BY <1>2, <1>4, <1>6, <1>8 DEF Link
<1>11. g \in [1 .. n -> Slots(n)] /\ g[t] = r /\ \A s \in 1 .. n : s # t => g[s] = b[s]
  BY <1>7, <1>9, <1>10
<1>12. ASSUME NEW s \in InUse(hs)
       PROVE  /\ g[s].memory = hs[s].memory /\ g[s].in_use = hs[s].in_use
              /\ g[s].size = IF s = h THEN len ELSE hs[s].size
              /\ g[s].next = IF s = h THEN t ELSE hs[s].next
              /\ g[s].prev = IF s = hs[h].next THEN t ELSE hs[s].prev
              /\ g[s].header_in_use
  <2>1. s \in 1 .. n /\ s # t /\ hs[s].header_in_use
    BY <1>1 DEF InUse
  <2> QED
    BY <1>2, <1>5, <1>7, <1>11, <2>1
<1>13. InUse(g) = InUse(hs) \cup {t}
  <2>1. DOMAIN g = 1 .. n /\ DOMAIN hs = 1 .. n
    BY <1>1, <1>11
  <2>2. \A s \in 1 .. n : s # t => g[s].header_in_use = hs[s].header_in_use
    BY <1>5, <1>7, <1>11
  <2>3. g[t].header_in_use
    BY <1>9, <1>11
  <2> QED
    BY <1>1, <2>1, <2>2, <2>3 DEF InUse
<1> QED
  BY <1>1, <1>2, <1>9, <1>11, <1>12, <1>13 DEF Typed

\* The rest of a header lies between it and its next.
LEMMA LinkKeepsChain ==
  ASSUME NEW n, NEW hs, Chain(hs, n), NEW h \in InUse(hs),
         NEW t \in 1 .. n, t \notin InUse(hs),
         NEW len \in Nat, 0 < len, len < hs[h].size, len % PageSize = 0,
         NEW g, g = Link(hs, h, t, len)
  PROVE  /\ Chain(g, n) /\ Covered(g) = Covered(hs)
         /\ \A first : Lowest(hs, first) => Lowest(g, first)
<1> DEFINE U == InUse(hs)
           M(x) == hs[x].memory
<1>1. /\ n \in Nat /\ U \subseteq 1 .. n /\ NULL \notin U /\ t # NULL
      /\ \A s \in U : /\ hs[s].memory \in Nat /\ hs[s].size \in Nat
                      /\ EndOf(hs[s]) = hs[s].memory + hs[s].size
  BY SlotFacts DEF NULL
<1>2. /\ Typed(g, n) /\ InUse(g) = U \cup {t}
      /\ g[t].memory = hs[h].memory + len /\ g[t].size = hs[h].size - len
      /\ g[t].next = hs[h].next /\ g[t].prev = h /\ ~g[t].in_use
      /\ \A s \in U :
            /\ g[s].memory = hs[s].memory
            /\ g[s].size = IF s = h THEN len ELSE hs[s].size
            /\ g[s].next = IF s = h THEN t ELSE hs[s].next
            /\ g[s].prev = IF s = hs[h].next THEN t ELSE hs[s].prev
  <2>1. len <= hs[h].size
    BY <1>1
  <2> QED
    BY <2>1, LinkFields
<1>3. PICK mt, E : mt = g[t].memory /\ E = EndOf(hs[h])
  OBVIOUS
<1>4. /\ mt \in Nat /\ E \in Nat /\ M(h) < mt /\ mt < E /\ E = M(h) + hs[h].size
      /\ mt = M(h) + len
  BY <1>1, <1>2, <1>3
<1>5. \A x \in U : x = h \/ M(x) < M(h) \/ E <= M(x)
  <2> TAKE x \in U
  <2>1. /\ M(h) < M(x) => E <= M(x)
        /\ M(x) = M(h) => x = h
    BY <1>3, Ordered
  <2> QED
    BY <1>1, <2>1
<1>6. \A s \in U : EndOf(g[s]) = IF s = h THEN mt ELSE EndOf(hs[s])
  BY <1>2, <1>4 DEF EndOf
<1>7. EndOf(g[t]) = E
  BY <1>1, <1>2, <1>3, <1>4 DEF EndOf
<1>8. Layout(g)
  <2>1. ASSUME NEW s \in U \cup {t}
        PROVE  g[s].size > 0 /\ g[s].memory % PageSize = 0 /\ g[s].size % PageSize = 0
    <3>1. \A x \in U : hs[x].size > 0 /\ hs[x].memory % PageSize = 0 /\ hs[x].size % PageSize = 0
      BY DEF Chain, Layout
    <3>2. CASE s = t
      <4>1. hs[h].memory % PageSize = 0 /\ hs[h].size % PageSize = 0
        BY <3>1
      <4>2. (hs[h].memory + len) % PageSize = 0
        BY <1>1, <4>1, MultiplesAdd, PageAssumption
      <4>3. (hs[h].size - len) % PageSize = 0
        <5>1. hs[h].size >= len
          BY <1>1
        <5> QED
          BY <1>1, <4>1, <5>1, MultiplesSubtract, PageAssumption
      <4> QED
        BY <1>1, <1>2, <3>2, <4>2, <4>3
    <3>3. CASE s \in U
      BY <1>2, <3>1, <3>3
    <3> QED
      BY <3>2, <3>3
  <2>2. ASSUME NEW s \in U, NEW x \in U, s # x
        PROVE  EndOf(g[s]) <= g[x].memory \/ EndOf(g[x]) <= g[s].memory
    <3>1. EndOf(hs[s]) <= hs[x].memory \/ EndOf(hs[x]) <= hs[s].memory
      BY <2>2 DEF Chain, Layout
    <3>2. g[s].memory = hs[s].memory /\ g[x].memory = hs[x].memory
      BY <1>2
    <3>3. EndOf(g[s]) <= EndOf(hs[s]) /\ EndOf(g[x]) <= EndOf(hs[x])
      BY <1>1, <1>3, <1>4, <1>6
    <3>4. EndOf(g[s]) \in Nat /\ EndOf(hs[s]) \in Nat /\ EndOf(g[x]) \in Nat /\ EndOf(hs[x]) \in Nat
      BY <1>1, <1>4, <1>6
    <3> QED
      BY <1>1, <3>1, <3>2, <3>3, <3>4
  <2>3. ASSUME NEW x \in U
        PROVE  EndOf(g[t]) <= g[x].memory \/ EndOf(g[x]) <= g[t].memory
    <3>1. CASE x = h
      BY <1>3, <1>4, <1>6, <3>1
    <3>2. CASE x # h
      <4>1. M(x) < M(h) => EndOf(hs[x]) <= M(h)
        BY Ordered
      <4>2. g[x].memory = M(x) /\ EndOf(g[x]) = EndOf(hs[x]) /\ EndOf(hs[x]) \in Nat
        BY <1>1, <1>2, <1>6, <3>2
      <4> QED
        BY <1>1, <1>3, <1>4, <1>5, <1>7, <3>2, <4>1, <4>2
    <3> QED
      BY <3>1, <3>2
  <2> QED
    BY <1>2, <2>1, <2>2, <2>3 DEF Layout
<1>9. ASSUME NEW s \in U PROVE IsNext(hs, s, hs[s].next) /\ IsPrev(hs, s, hs[s].prev)
  BY DEF Chain
<1>10. /\ \A x \in U : g[x].memory = M(x) /\ M(x) \in Nat
       /\ g[t].memory = mt
  BY <1>1, <1>2, <1>3
<1> HIDE DEF M
<1>11. ASSUME NEW s \in U \cup {t} PROVE IsNext(g, s, g[s].next)
  <2>1. CASE s = h
    <3>1. \A x \in U : M(x) <= M(h) \/ mt <= M(x)
      BY <1>4, <1>5, <1>10
    <3> QED
      BY <1>1, <1>2, <1>4, <1>10, <2>1, <3>1 DEF IsNext
  <2>2. CASE s = t
    <3>1. PICK u : u = hs[h].next
      OBVIOUS
    <3>2. IsNext(hs, h, u) /\ g[t].next = u
      BY <1>2, <1>9, <3>1
    <3>3. CASE u = NULL
      <4>1. \A x \in U : M(x) <= M(h)
        BY <3>2, <3>3 DEF IsNext, M
      <4>2. \A x \in U : M(x) <= mt
        BY <1>4, <1>10, <4>1
      <4> QED
        BY <1>2, <1>4, <1>10, <2>2, <3>2, <3>3, <4>2 DEF IsNext
    <3>4. CASE u # NULL
      <4>1. u \in U /\ M(h) < M(u) /\ \A x \in U : M(x) <= M(h) \/ M(u) <= M(x)
        BY <3>2, <3>4 DEF IsNext, M
      <4>2. mt < M(u)
        BY <1>4, <1>5, <1>10, <4>1
      <4>3. \A x \in U : M(x) <= mt \/ M(u) <= M(x)
        BY <1>4, <1>10, <4>1
      <4> QED
        BY <1>2, <1>4, <1>10, <2>2, <3>2, <3>4, <4>1, <4>2, <4>3 DEF IsNext
    <3> QED
      BY <3>3, <3>4
  <2>3. CASE s \in U /\ s # h
    <3>1. PICK u : u = hs[s].next
      OBVIOUS
    <3>2. IsNext(hs, s, u) /\ g[s].next = u
      BY <1>2, <1>9, <2>3, <3>1
    <3>3. M(h) <= M(s) => mt <= M(s)
      BY <1>4, <1>5, <1>10, <2>3
    <3>4. CASE u = NULL
      <4>1. \A x \in U : M(x) <= M(s)
        BY <3>2, <3>4 DEF IsNext, M
      <4> QED
        BY <1>2, <1>10, <2>3, <3>2, <3>3, <3>4, <4>1 DEF IsNext
    <3>5. CASE u # NULL
      <4>1. u \in U /\ M(s) < M(u) /\ \A x \in U : M(x) <= M(s) \/ M(u) <= M(x)
        BY <3>2, <3>5 DEF IsNext, M
      <4>2. mt <= M(s) \/ M(u) <= mt
        BY <1>4, <1>10, <3>3, <4>1
      <4> QED
        BY <1>2, <1>10, <2>3, <3>2, <3>5, <4>1, <4>2 DEF IsNext
    <3> QED
      BY <3>4, <3>5
  <2> QED
    BY <2>1, <2>2, <2>3
<1>12. ASSUME NEW s \in U \cup {t} PROVE IsPrev(g, s, g[s].prev)
  <2>1. CASE s = t
    <3>1. \A x \in U : M(x) <= M(h) \/ mt <= M(x)
      BY <1>4, <1>5, <1>10
    <3> QED
      BY <1>1, <1>2, <1>4, <1>10, <2>1, <3>1 DEF IsPrev
  <2>2. CASE s \in U /\ s = hs[h].next
    <3>1. s # NULL /\ IsNext(hs, h, s)
      BY <1>1, <1>9, <2>2
    <3>2. M(h) < M(s) /\ \A x \in U : M(x) <= M(h) \/ M(s) <= M(x)
      BY <3>1 DEF IsNext, M
    <3>3. mt < M(s)
      BY <1>4, <1>5, <1>10, <2>2, <3>2
    <3>4. \A x \in U : M(x) <= mt \/ M(s) <= M(x)
      BY <1>4, <1>10, <3>2
    <3> QED
      BY <1>1, <1>2, <1>4, <1>10, <2>2, <3>3, <3>4 DEF IsPrev
  <2>3. CASE s \in U /\ s # hs[h].next
    <3>1. PICK u : u = hs[s].prev
      OBVIOUS
    <3>2. IsPrev(hs, s, u) /\ g[s].prev = u
      BY <1>2, <1>9, <2>3, <3>1
    <3>3. CASE u = NULL
      <4>1. \A x \in U : M(s) <= M(x)
        BY <3>2, <3>3 DEF IsPrev, M
      <4>2. M(s) <= mt
        BY <1>4, <1>10, <2>3, <4>1
      <4> QED
        BY <1>2, <1>10, <2>3, <3>2, <3>3, <4>1, <4>2 DEF IsPrev
    <3>4. CASE u # NULL
      <4>1. u \in U /\ M(u) < M(s) /\ \A x \in U : M(x) <= M(u) \/ M(s) <= M(x)
        BY <3>2, <3>4 DEF IsPrev, M
      <4>2. u # h
        BY <2>3, <3>1, <3>4, Inverse2
      <4>3. mt <= M(u) \/ M(s) <= mt
        BY <1>4, <1>5, <1>10, <2>3, <4>1, <4>2
      <4> QED
        BY <1>2, <1>10, <2>3, <3>2, <3>4, <4>1, <4>3 DEF IsPrev
    <3> QED
      BY <3>3, <3>4
  <2> QED
    BY <2>1, <2>2, <2>3
<1>13. Covered(g) = Covered(hs)
  <2> SUFFICES ASSUME NEW x \in Nat
               PROVE  (\E s \in U \cup {t} : g[s].memory <= x /\ x < EndOf(g[s]))
                         <=> (\E s \in U : hs[s].memory <= x /\ x < EndOf(hs[s]))
    BY <1>2 DEF Covered
  <2>1. ASSUME NEW s \in U \cup {t}, g[s].memory <= x, x < EndOf(g[s])
        PROVE  \E y \in U : hs[y].memory <= x /\ x < EndOf(hs[y])
    <3>1. CASE s = t
      <4>1. hs[h].memory \in Nat /\ hs[h].memory < mt
        BY <1>4, <1>10 DEF M
      <4>2. mt <= x /\ x < EndOf(hs[h])
        BY <1>3, <1>7, <1>10, <2>1, <3>1
      <4>3. hs[h].memory <= x /\ x < EndOf(hs[h])
        BY <1>4, <4>1, <4>2
      <4> QED
        BY <4>3
    <3>2. CASE s = h
      BY <1>1, <1>3, <1>4, <1>6, <1>10, <2>1, <3>2 DEF M
    <3>3. CASE s \in U /\ s # h
      BY <1>1, <1>6, <1>10, <2>1, <3>3 DEF M
    <3> QED
      BY <3>1, <3>2, <3>3
  <2>2. ASSUME NEW s \in U, hs[s].memory <= x, x < EndOf(hs[s])
        PROVE  \E y \in U \cup {t} : g[y].memory <= x /\ x < EndOf(g[y])
    <3>1. CASE s = h
      <4>1. CASE x < mt
        BY <1>4, <1>6, <1>10, <2>2, <3>1, <4>1 DEF M
      <4>2. CASE ~(x < mt)
        <5>0. x < E
          BY <1>3, <2>2, <3>1
        <5>1. g[t].memory <= x /\ x < EndOf(g[t])
          BY <1>4, <1>7, <1>10, <4>2, <5>0
        <5> QED
          BY <5>1
      <4> QED
        BY <4>1, <4>2
    <3>2. CASE s # h
      BY <1>6, <1>10, <2>2, <3>2 DEF M
    <3> QED
      BY <3>1, <3>2
  <2> QED
    BY <2>1, <2>2
<1>14. ASSUME NEW first, Lowest(hs, first) PROVE Lowest(g, first)
  <2>1. first \in U /\ \A x \in U : M(first) <= M(x)
    BY <1>14 DEF Lowest, M
  <2>2. M(first) <= mt
    BY <1>4, <1>10, <2>1
  <2> QED
    BY <1>2, <1>10, <2>1, <2>2 DEF Lowest
<1> QED
  BY <1>2, <1>8, <1>11, <1>12, <1>13, <1>14 DEF Chain


-----------------------------------------------------------------------------
(* Merging two headers, which is what both halves of                       *)
(* merge_adjacent_headers do.                                              *)

Join(hs, a, b) ==
    SetPrev([hs EXCEPT ![b] = UnusedSlot, ![a].size = @ + hs[b].size,
                       ![a].next = hs[b].next], hs[b].next, a)

LEMMA MergeNextIs ==
  ASSUME NEW hs, NEW h
  PROVE  MergeNext(hs, h) = IF JoinsNext(hs, h) THEN Join(hs, h, hs[h].next) ELSE hs
  BY DEF MergeNext, Join

LEMMA MergePrevIs ==
  ASSUME NEW hs, NEW h
  PROVE  MergePrev(hs, h) = IF JoinsPrev(hs, h) THEN Join(hs, hs[h].prev, h) ELSE hs
  BY DEF MergePrev, Join

LEMMA UnusedIs ==
  ASSUME NEW n \in Nat
  PROVE  UnusedSlot \in Slots(n) /\ ~UnusedSlot.header_in_use
  BY DEF UnusedSlot, Slots, NULL

LEMMA JoinFields ==
  ASSUME NEW n, NEW hs, Chain(hs, n), NEW a \in InUse(hs), NEW b \in InUse(hs),
         hs[a].next = b, NEW g, g = Join(hs, a, b)
  PROVE  /\ Typed(g, n) /\ InUse(g) = InUse(hs) \ {b} /\ a # b
         /\ \A s \in InUse(hs) \ {b} :
               /\ g[s].memory = hs[s].memory /\ g[s].in_use = hs[s].in_use
               /\ g[s].size = IF s = a THEN hs[a].size + hs[b].size ELSE hs[s].size
               /\ g[s].next = IF s = a THEN hs[b].next ELSE hs[s].next
               /\ g[s].prev = IF s = hs[b].next THEN a ELSE hs[s].prev
<1>1. /\ n \in Nat /\ hs \in [1 .. n -> Slots(n)] /\ a \in 1 .. n /\ b \in 1 .. n
      /\ InUse(hs) \subseteq 1 .. n
      /\ hs[a].memory \in Nat /\ hs[b].memory \in Nat
      /\ hs[a].size \in Nat /\ hs[b].size \in Nat
  BY SlotFacts DEF Chain, Typed
<1>2. a # b
  <2>1. hs[a].next # NULL
    BY <1>1 DEF NULL
  <2>2. hs[a].memory < hs[b].memory
    BY <2>1, Inverse1
  <2> QED
    BY <1>1, <2>2
<1>3. PICK u : u = hs[b].next
  OBVIOUS
<1>4. u \in 0 .. n /\ u # b
  <2>1. u \in 0 .. n
    BY <1>1, <1>3, SlotFacts
  <2>2. u # NULL => hs[b].memory < hs[u].memory
    BY <1>3, Inverse1
  <2> QED
    BY <1>1, <2>1, <2>2 DEF NULL
<1>5. PICK c : c = [hs EXCEPT ![b] = UnusedSlot]
  OBVIOUS
<1>6. /\ c \in [1 .. n -> Slots(n)] /\ ~c[b].header_in_use
      /\ \A s \in 1 .. n : s # b => c[s] = hs[s]
  BY <1>1, <1>5, UnusedIs
<1>7. PICK x : x = [hs[a] EXCEPT !.size = hs[a].size + hs[b].size]
  OBVIOUS
<1>8. PICK y : y = [x EXCEPT !.next = u]
  OBVIOUS
<1>9. PICK d : d = [hs EXCEPT ![b] = UnusedSlot, ![a].size = @ + hs[b].size, ![a].next = u]
  OBVIOUS
<1>10. d = [c EXCEPT ![a] = y]
  BY <1>1, <1>2, <1>5, <1>6, <1>7, <1>8, <1>9
<1>11. /\ x \in Slots(n) /\ x.size = hs[a].size + hs[b].size /\ x.prev = hs[a].prev
       /\ x.memory = hs[a].memory /\ x.in_use = hs[a].in_use
       /\ x.header_in_use = hs[a].header_in_use
  <2>1. hs[a] \in Slots(n) /\ hs[a].size + hs[b].size \in Nat
    BY <1>1
  <2> QED
    BY <1>1, <1>7, <2>1, PutSize
<1>12. /\ y \in Slots(n) /\ y.size = hs[a].size + hs[b].size /\ y.prev = hs[a].prev
       /\ y.memory = hs[a].memory /\ y.in_use = hs[a].in_use
       /\ y.header_in_use = hs[a].header_in_use /\ y.next = u
  BY <1>1, <1>4, <1>8, <1>11, PutNext
<1>13. /\ d \in [1 .. n -> Slots(n)] /\ d[a] = y
       /\ \A s \in 1 .. n : s # a => d[s] = c[s]
  BY <1>1, <1>6, <1>10, <1>12
<1>14. g = SetPrev(d, u, a)
  BY <1>3, <1>9 DEF Join
<1>15. /\ g \in [1 .. n -> Slots(n)]
       /\ \A s \in 1 .. n : /\ g[s].memory = d[s].memory /\ g[s].in_use = d[s].in_use
                            /\ g[s].header_in_use = d[s].header_in_use
                            /\ g[s].size = d[s].size /\ g[s].next = d[s].next
                            /\ g[s].prev = IF s = u THEN a ELSE d[s].prev
  <2>1. CASE u = NULL
    BY <1>1, <1>13, <1>14, <2>1 DEF SetPrev, NULL
  <2>2. CASE u # NULL
    <3>1. u \in 1 .. n /\ a \in 0 .. n /\ d[u] \in Slots(n)
      BY <1>1, <1>4, <1>13, <2>2 DEF NULL
    <3>2. PICK z : z = [d[u] EXCEPT !.prev = a]
      OBVIOUS
    <3>3. g = [d EXCEPT ![u] = z]
      BY <1>13, <1>14, <2>2, <3>1, <3>2 DEF SetPrev
    <3>4. /\ z \in Slots(n) /\ z.prev = a /\ z.next = d[u].next /\ z.memory = d[u].memory
          /\ z.size = d[u].size /\ z.in_use = d[u].in_use
          /\ z.header_in_use = d[u].header_in_use
      BY <1>1, <3>1, <3>2, PutPrev
    <3>5. /\ g \in [1 .. n -> Slots(n)] /\ g[u] = z
          /\ \A s \in 1 .. n : s # u => g[s] = d[s]
      BY <1>13, <3>1, <3>3, <3>4
    <3> QED
      BY <3>4, <3>5
  <2> QED
    BY <2>1, <2>2
<1>16. ASSUME NEW s \in 1 .. n, s # b
       PROVE  /\ g[s].memory = hs[s].memory /\ g[s].in_use = hs[s].in_use
              /\ g[s].size = IF s = a THEN hs[a].size + hs[b].size ELSE hs[s].size
              /\ g[s].next = IF s = a THEN hs[b].next ELSE hs[s].next
              /\ g[s].prev = IF s = hs[b].next THEN a ELSE hs[s].prev
              /\ g[s].header_in_use = hs[s].header_in_use
  BY <1>3, <1>6, <1>12, <1>13, <1>15, <1>16
<1>17. InUse(g) = InUse(hs) \ {b}
  <2>1. DOMAIN g = 1 .. n /\ DOMAIN hs = 1 .. n
    BY <1>1, <1>15
  <2>2. ~g[b].header_in_use
    BY <1>1, <1>2, <1>6, <1>13, <1>15
  <2> QED
    BY <1>16, <2>1, <2>2 DEF InUse
<1> QED
  BY <1>1, <1>2, <1>15, <1>16, <1>17 DEF Typed

LEMMA JoinKeepsChain ==
  ASSUME NEW n, NEW hs, Chain(hs, n), NEW a \in InUse(hs), NEW b \in InUse(hs),
         hs[a].next = b, EndOf(hs[a]) = hs[b].memory, NEW g, g = Join(hs, a, b)
  PROVE  /\ Chain(g, n) /\ Covered(g) = Covered(hs)
         /\ EndOf(g[a]) = EndOf(hs[b])
         /\ \A s \in InUse(g) : s # a => EndOf(g[s]) = EndOf(hs[s])
         /\ \A first : Lowest(hs, first) => Lowest(g, first)
<1> DEFINE U == InUse(hs)
           V == InUse(hs) \ {b}
           M(x) == hs[x].memory
<1>1. /\ n \in Nat /\ U \subseteq 1 .. n /\ NULL \notin U
      /\ \A s \in U : /\ hs[s].memory \in Nat /\ hs[s].size \in Nat
                      /\ EndOf(hs[s]) = hs[s].memory + hs[s].size
  BY SlotFacts
<1>2. /\ Typed(g, n) /\ InUse(g) = V /\ a # b
      /\ \A s \in V :
            /\ g[s].memory = hs[s].memory
            /\ g[s].size = IF s = a THEN hs[a].size + hs[b].size ELSE hs[s].size
            /\ g[s].next = IF s = a THEN hs[b].next ELSE hs[s].next
            /\ g[s].prev = IF s = hs[b].next THEN a ELSE hs[s].prev
  BY JoinFields
<1>3. EndOf(g[a]) = EndOf(hs[b]) /\ \A s \in V : s # a => EndOf(g[s]) = EndOf(hs[s])
  <2>1. \A s \in V : s # a => EndOf(g[s]) = EndOf(hs[s])
    BY <1>2 DEF EndOf
  <2>2. g[a].memory = hs[a].memory /\ g[a].size = hs[a].size + hs[b].size
    BY <1>2
  <2>3. hs[a].memory + hs[a].size = hs[b].memory
    BY DEF EndOf
  <2>4. EndOf(g[a]) = EndOf(hs[b])
    BY <1>1, <2>2, <2>3 DEF EndOf
  <2> QED
    BY <2>1, <2>4
<1>4. /\ M(a) < M(b) /\ hs[b].prev = a
      /\ \A x \in U : M(x) <= M(a) \/ M(b) <= M(x)
  <2>1. b # NULL /\ IsNext(hs, a, b)
    BY <1>1 DEF Chain
  <2> QED
    BY <2>1, Inverse1 DEF IsNext
<1>5. ASSUME NEW x \in V
      PROVE  x = a \/ EndOf(hs[x]) <= M(a) \/ EndOf(hs[b]) <= M(x)
  <2>1. /\ M(x) < M(a) => EndOf(hs[x]) <= M(a)
        /\ M(x) = M(a) => x = a
        /\ M(b) < M(x) => EndOf(hs[b]) <= M(x)
        /\ M(x) = M(b) => x = b
    BY Ordered
  <2> QED
    BY <1>1, <1>4, <2>1
<1>6. Layout(g)
  <2>1. ASSUME NEW s \in V
        PROVE  g[s].size > 0 /\ g[s].memory % PageSize = 0 /\ g[s].size % PageSize = 0
    <3>1. \A x \in U : hs[x].size > 0 /\ hs[x].memory % PageSize = 0 /\ hs[x].size % PageSize = 0
      BY DEF Chain, Layout
    <3>2. CASE s = a
      <4>1. (hs[a].size + hs[b].size) % PageSize = 0
        BY <1>1, <3>1, MultiplesAdd, PageAssumption
      <4> QED
        BY <1>1, <1>2, <3>1, <3>2, <4>1
    <3>3. CASE s # a
      BY <1>2, <3>1, <3>3
    <3> QED
      BY <3>2, <3>3
  <2>2. ASSUME NEW s \in V, NEW x \in V, s # x
        PROVE  EndOf(g[s]) <= g[x].memory \/ EndOf(g[x]) <= g[s].memory
    <3>0. g[s].memory = M(s) /\ g[x].memory = M(x)
      BY <1>2
    <3>1. CASE s = a
      BY <1>3, <1>5, <2>2, <3>0, <3>1
    <3>2. CASE x = a
      BY <1>3, <1>5, <2>2, <3>0, <3>2
    <3>3. CASE s # a /\ x # a
      <4>1. EndOf(hs[s]) <= hs[x].memory \/ EndOf(hs[x]) <= hs[s].memory
        BY <2>2 DEF Chain, Layout
      <4> QED
        BY <1>3, <3>0, <3>3, <4>1
    <3> QED
      BY <3>1, <3>2, <3>3
  <2> QED
    BY <1>2, <2>1, <2>2 DEF Layout
<1>7. ASSUME NEW s \in U PROVE IsNext(hs, s, hs[s].next) /\ IsPrev(hs, s, hs[s].prev)
  BY DEF Chain
<1>8. /\ \A x \in U : M(x) \in Nat
      /\ \A x \in V : g[x].memory = M(x) /\ M(x) # M(b)
  <2>1. \A x \in V : M(x) # M(b)
    BY Ordered
  <2> QED
    BY <1>1, <1>2, <2>1
<1>9. PICK u : u = hs[b].next
  OBVIOUS
<1>10. IsNext(hs, b, u)
  BY <1>7, <1>9
<1> HIDE DEF M
<1>11. u # NULL => /\ u \in V /\ M(b) < M(u) /\ M(a) < M(u)
                   /\ \A x \in V : M(x) <= M(a) \/ M(u) <= M(x)
  <2> SUFFICES ASSUME u # NULL
               PROVE  /\ u \in V /\ M(b) < M(u) /\ M(a) < M(u)
                      /\ \A x \in V : M(x) <= M(a) \/ M(u) <= M(x)
    OBVIOUS
  <2>1. u \in U /\ M(b) < M(u) /\ \A x \in U : M(x) <= M(b) \/ M(u) <= M(x)
    BY <1>10 DEF IsNext, M
  <2> QED
    BY <1>4, <1>8, <2>1
<1>12. u = NULL => \A x \in V : M(x) <= M(a)
  <2> SUFFICES ASSUME u = NULL PROVE \A x \in V : M(x) <= M(a)
    OBVIOUS
  <2>1. \A x \in U : M(x) <= M(b)
    BY <1>10 DEF IsNext, M
  <2> QED
    BY <1>4, <1>8, <2>1
<1>13. ASSUME NEW s \in V PROVE IsNext(g, s, g[s].next)
  <2>1. CASE s = a
    <3>1. g[s].next = u
      BY <1>2, <1>9, <2>1
    <3> QED
      BY <1>2, <1>8, <1>11, <1>12, <2>1, <3>1 DEF IsNext
  <2>2. CASE s # a
    <3>1. PICK v : v = hs[s].next
      OBVIOUS
    <3>2. g[s].next = v /\ IsNext(hs, s, v)
      BY <1>2, <1>7, <2>2, <3>1
    <3>3. v # b
      <4>1. v = b => hs[b].prev = s
        BY <1>1, <3>1, Inverse1
      <4> QED
        BY <1>4, <2>2, <4>1
    <3>4. CASE v = NULL
      <4>1. \A x \in U : M(x) <= M(s)
        BY <3>2, <3>4 DEF IsNext, M
      <4> QED
        BY <1>2, <1>8, <3>2, <3>4, <4>1 DEF IsNext
    <3>5. CASE v # NULL
      <4>1. v \in V /\ M(s) < M(v) /\ \A x \in U : M(x) <= M(s) \/ M(v) <= M(x)
        BY <3>2, <3>3, <3>5 DEF IsNext, M
      <4> QED
        BY <1>2, <1>8, <3>2, <3>5, <4>1 DEF IsNext
    <3> QED
      BY <3>4, <3>5
  <2> QED
    BY <2>1, <2>2
<1>14. ASSUME NEW s \in V PROVE IsPrev(g, s, g[s].prev)
  <2>1. CASE s = u
    <3>1. g[s].prev = a /\ u # NULL /\ a # NULL /\ a \in V
      BY <1>1, <1>2, <1>9, <2>1
    <3> QED
      BY <1>2, <1>8, <1>11, <2>1, <3>1 DEF IsPrev
  <2>2. CASE s # u
    <3>1. PICK v : v = hs[s].prev
      OBVIOUS
    <3>2. g[s].prev = v /\ IsPrev(hs, s, v)
      BY <1>2, <1>7, <1>9, <2>2, <3>1
    <3>3. v # b
      <4>1. v = b => hs[b].next = s
        BY <1>1, <3>1, Inverse2
      <4> QED
        BY <1>9, <2>2, <4>1
    <3>4. CASE v = NULL
      <4>1. \A x \in U : M(s) <= M(x)
        BY <3>2, <3>4 DEF IsPrev, M
      <4> QED
        BY <1>2, <1>8, <3>2, <3>4, <4>1 DEF IsPrev
    <3>5. CASE v # NULL
      <4>1. v \in V /\ M(v) < M(s) /\ \A x \in U : M(x) <= M(v) \/ M(s) <= M(x)
        BY <3>2, <3>3, <3>5 DEF IsPrev, M
      <4> QED
        BY <1>2, <1>8, <3>2, <3>5, <4>1 DEF IsPrev
    <3> QED
      BY <3>4, <3>5
  <2> QED
    BY <2>1, <2>2
<1>15. Covered(g) = Covered(hs)
  <2> SUFFICES ASSUME NEW x \in Nat
               PROVE  (\E s \in V : g[s].memory <= x /\ x < EndOf(g[s]))
                         <=> (\E s \in U : hs[s].memory <= x /\ x < EndOf(hs[s]))
    BY <1>2 DEF Covered
  <2>0. /\ hs[a].memory \in Nat /\ hs[b].memory \in Nat /\ EndOf(hs[b]) \in Nat
        /\ hs[a].memory < hs[b].memory /\ hs[b].memory < EndOf(hs[b])
        /\ g[a].memory = hs[a].memory
    <3>1. hs[b].memory < EndOf(hs[b])
      BY Ordered
    <3> QED
      BY <1>1, <1>2, <1>4, <3>1 DEF M
  <2>1. ASSUME NEW s \in V, g[s].memory <= x, x < EndOf(g[s])
        PROVE  \E y \in U : hs[y].memory <= x /\ x < EndOf(hs[y])
    <3>1. CASE s = a
      <4>1. hs[a].memory <= x /\ x < EndOf(hs[b])
        BY <1>3, <2>0, <2>1, <3>1
      <4>2. CASE x < hs[b].memory
        BY <4>1, <4>2
      <4>3. CASE hs[b].memory <= x
        BY <4>1, <4>3
      <4> QED
        BY <2>0, <4>2, <4>3
    <3>2. CASE s # a
      BY <1>2, <1>3, <2>1, <3>2
    <3> QED
      BY <3>1, <3>2
  <2>2. ASSUME NEW s \in U, hs[s].memory <= x, x < EndOf(hs[s])
        PROVE  \E y \in V : g[y].memory <= x /\ x < EndOf(g[y])
    <3>1. CASE s = a
      <4>1. g[a].memory <= x /\ x < EndOf(g[a])
        BY <1>3, <2>0, <2>2, <3>1
      <4> QED
        BY <1>2, <4>1
    <3>2. CASE s = b
      <4>1. g[a].memory <= x /\ x < EndOf(g[a])
        BY <1>3, <2>0, <2>2, <3>2
      <4> QED
        BY <1>2, <4>1
    <3>3. CASE s # a /\ s # b
      BY <1>2, <1>3, <2>2, <3>3
    <3> QED
      BY <3>1, <3>2, <3>3
  <2> QED
    BY <2>1, <2>2
<1>16. ASSUME NEW first, Lowest(hs, first) PROVE Lowest(g, first)
  <2>1. first \in U /\ \A x \in U : M(first) <= M(x)
    BY <1>16 DEF Lowest, M
  <2>2. first # b
    BY <1>4, <1>8, <2>1
  <2> QED
    BY <1>2, <1>8, <2>1, <2>2 DEF Lowest
<1> QED
  BY <1>2, <1>3, <1>6, <1>13, <1>14, <1>15, <1>16 DEF Chain


\* Headers that touch are neighbours in the list.
LEMMA TouchingIsNext ==
  ASSUME NEW n, NEW hs, Chain(hs, n), NEW s \in InUse(hs), NEW t \in InUse(hs),
         hs[t].memory = EndOf(hs[s])
  PROVE  hs[s].next = t /\ hs[t].prev = s
<1>1. /\ hs[s].memory \in Nat /\ hs[t].memory \in Nat /\ EndOf(hs[s]) \in Nat
      /\ hs[s].memory < EndOf(hs[s]) /\ NULL \notin InUse(hs)
  BY SlotFacts, Ordered
<1>2. PICK u : u = hs[s].next
  OBVIOUS
<1>3. IsNext(hs, s, u)
  BY <1>2 DEF Chain
<1>4. u # NULL
  BY <1>1, <1>3 DEF IsNext
<1>5. /\ u \in InUse(hs) /\ hs[u].prev = s /\ EndOf(hs[s]) <= hs[u].memory
  BY <1>2, <1>4, Inverse1
<1>6. hs[t].memory <= hs[s].memory \/ hs[u].memory <= hs[t].memory
  BY <1>3, <1>4 DEF IsNext
<1>7. hs[u].memory \in Nat
  BY <1>5, SlotFacts
<1>8. hs[u].memory = hs[t].memory
  BY <1>1, <1>5, <1>6, <1>7
<1>9. u = t
  BY <1>5, <1>8, Ordered
<1> QED
  BY <1>2, <1>5, <1>9

\* One merge: the headers that touch in the new list touched in the old one.
LEMMA JoinStep ==
  ASSUME NEW n, NEW hs, Chain(hs, n), NEW a \in InUse(hs), NEW b \in InUse(hs),
         hs[a].next = b, EndOf(hs[a]) = hs[b].memory, ~hs[a].in_use, ~hs[b].in_use,
         NEW g, g = Join(hs, a, b)
  PROVE  /\ Chain(g, n) /\ Covered(g) = Covered(hs) /\ InUse(g) = InUse(hs) \ {b} /\ a # b
         /\ \A first : Lowest(hs, first) => Lowest(g, first)
         /\ Cardinality(InUse(g)) = Cardinality(InUse(hs)) - 1
         /\ \A s \in InUse(g) : /\ g[s].memory = hs[s].memory /\ g[s].in_use = hs[s].in_use
                                /\ s # a => EndOf(g[s]) = EndOf(hs[s])
         /\ \A s, t \in InUse(g) : Touching(g, s, t) /\ s # a => Touching(hs, s, t)
         /\ \A t \in InUse(g) : Touching(g, a, t) => Touching(hs, b, t)
<1>1. /\ Chain(g, n) /\ Covered(g) = Covered(hs) /\ EndOf(g[a]) = EndOf(hs[b])
      /\ \A s \in InUse(g) : s # a => EndOf(g[s]) = EndOf(hs[s])
      /\ \A first : Lowest(hs, first) => Lowest(g, first)
  BY JoinKeepsChain
<1>2. /\ InUse(g) = InUse(hs) \ {b} /\ a # b
      /\ \A s \in InUse(g) : g[s].memory = hs[s].memory /\ g[s].in_use = hs[s].in_use
  BY JoinFields
<1>3. Cardinality(InUse(g)) = Cardinality(InUse(hs)) - 1
  <2>1. IsFiniteSet(InUse(hs))
    BY CountedInUse
  <2> QED
    BY <1>2, <2>1, FS_RemoveElement
<1>4. ASSUME NEW s \in InUse(g), NEW t \in InUse(g), Touching(g, s, t)
      PROVE  (s # a => Touching(hs, s, t)) /\ (s = a => Touching(hs, b, t))
  <2>1. ~g[s].in_use /\ ~g[t].in_use /\ g[t].memory = EndOf(g[s])
    BY <1>4 DEF Touching
  <2>2. ~hs[s].in_use /\ ~hs[t].in_use /\ hs[t].memory = EndOf(g[s])
    BY <1>2, <2>1
  <2>3. CASE s = a
    BY <1>1, <2>2, <2>3 DEF Touching
  <2>4. CASE s # a
    BY <1>1, <2>2, <2>4 DEF Touching
  <2> QED
    BY <2>3, <2>4
<1> QED
  BY <1>1, <1>2, <1>3, <1>4


\* The header freed is the only one that may touch another free one.  After the
\* first half nothing free behind it does, ...
LEMMA MergeNextKeepsList ==
  ASSUME NEW n, NEW hs, Chain(hs, n), NEW h \in InUse(hs), ~hs[h].in_use,
         \A s, t \in InUse(hs) : Touching(hs, s, t) => s = h \/ t = h
  PROVE  LET g == MergeNext(hs, h)
         IN  /\ Chain(g, n) /\ Covered(g) = Covered(hs) /\ h \in InUse(g) /\ ~g[h].in_use
             /\ \A first : Lowest(hs, first) =>
                   Lowest(g, first) /\ g[first].memory = hs[first].memory
             /\ Cardinality(InUse(g)) = Cardinality(InUse(hs)) - One(JoinsNext(hs, h))
             /\ \A s \in InUse(hs) : hs[s].in_use =>
                   /\ s \in InUse(g) /\ g[s].in_use /\ g[s].memory = hs[s].memory
                   /\ EndOf(g[s]) = EndOf(hs[s])
             /\ \A s, t \in InUse(g) : Touching(g, s, t) => t = h
<1>1. PICK g : g = MergeNext(hs, h)
  OBVIOUS
<1>2. PICK c : c = Cardinality(InUse(hs)) /\ c \in Nat
  BY CountedInUse
<1>3. NULL \notin InUse(hs)
  BY SlotFacts
<1>4. CASE JoinsNext(hs, h)
  <2>1. PICK b : b = hs[h].next
    OBVIOUS
  <2>2. b # NULL /\ ~hs[b].in_use /\ EndOf(hs[h]) = hs[b].memory
    BY <1>4, <2>1 DEF JoinsNext
  <2>3. b \in InUse(hs)
    BY <2>1, <2>2, Inverse1
  <2>4. g = Join(hs, h, b)
    BY <1>1, <1>4, <2>1, MergeNextIs
  <2>5. hs[h].next = b
    BY <2>1
  <2>6. /\ Chain(g, n) /\ Covered(g) = Covered(hs) /\ InUse(g) = InUse(hs) \ {b} /\ h # b
        /\ \A first : Lowest(hs, first) => Lowest(g, first)
        /\ Cardinality(InUse(g)) = Cardinality(InUse(hs)) - 1
        /\ \A s \in InUse(g) : /\ g[s].memory = hs[s].memory /\ g[s].in_use = hs[s].in_use
                               /\ s # h => EndOf(g[s]) = EndOf(hs[s])
        /\ \A s, t \in InUse(g) : Touching(g, s, t) /\ s # h => Touching(hs, s, t)
        /\ \A t \in InUse(g) : Touching(g, h, t) => Touching(hs, b, t)
    BY <2>2, <2>3, <2>4, <2>5, JoinStep
  <2>7. ASSUME NEW s \in InUse(g), NEW t \in InUse(g), Touching(g, s, t) PROVE t = h
    <3>1. PICK x : x = IF s = h THEN b ELSE s
      OBVIOUS
    <3>2. Touching(hs, x, t) /\ x \in InUse(hs) /\ t \in InUse(hs) /\ x # h
      BY <2>3, <2>6, <2>7, <3>1
    <3> QED
      BY <3>2
  <2>8. ASSUME NEW s \in InUse(hs), hs[s].in_use
        PROVE  /\ s \in InUse(g) /\ g[s].in_use /\ g[s].memory = hs[s].memory
               /\ EndOf(g[s]) = EndOf(hs[s])
    <3>1. s # b /\ s # h
      BY <2>2, <2>8
    <3> QED
      BY <2>6, <2>8, <3>1
  <2>9. ASSUME NEW first, Lowest(hs, first)
        PROVE  Lowest(g, first) /\ g[first].memory = hs[first].memory
    <3>1. Lowest(g, first)
      BY <2>6, <2>9
    <3>2. first \in InUse(g)
      BY <3>1 DEF Lowest
    <3> QED
      BY <2>6, <3>1, <3>2
  <2>10. Cardinality(InUse(g)) = c - One(JoinsNext(hs, h))
    BY <1>2, <1>4, <2>6 DEF One
  <2> QED
    BY <1>1, <1>2, <2>6, <2>7, <2>8, <2>9, <2>10
<1>5. CASE ~JoinsNext(hs, h)
  <2>1. g = hs
    BY <1>1, <1>5, MergeNextIs
  <2>2. ASSUME NEW s \in InUse(hs), NEW t \in InUse(hs), Touching(hs, s, t) PROVE t = h
    <3>1. CASE s = h
      <4>1. hs[t].memory = EndOf(hs[s]) /\ ~hs[t].in_use
        BY <2>2 DEF Touching
      <4>2. hs[h].next = t
        BY <3>1, <4>1, TouchingIsNext
      <4>3. JoinsNext(hs, h)
        BY <1>3, <3>1, <4>1, <4>2 DEF JoinsNext
      <4> QED
        BY <1>5, <4>3
    <3>2. CASE s # h
      BY <2>2, <3>2
    <3> QED
      BY <3>1, <3>2
  <2>3. c = c - One(JoinsNext(hs, h))
    BY <1>2, <1>5 DEF One
  <2> QED
    BY <1>1, <1>2, <2>1, <2>2, <2>3
<1> QED
  BY <1>4, <1>5

\* ... and after the second half nothing free before it.
LEMMA MergePrevKeepsList ==
  ASSUME NEW n, NEW hs, Chain(hs, n), NEW h \in InUse(hs), ~hs[h].in_use,
         \A s, t \in InUse(hs) : Touching(hs, s, t) => t = h
  PROVE  LET g == MergePrev(hs, h)
         IN  /\ Chain(g, n) /\ Covered(g) = Covered(hs) /\ Merged(g)
             /\ \A first : Lowest(hs, first) =>
                   Lowest(g, first) /\ g[first].memory = hs[first].memory
             /\ Cardinality(InUse(g)) = Cardinality(InUse(hs)) - One(JoinsPrev(hs, h))
             /\ \A s \in InUse(hs) : hs[s].in_use =>
                   /\ s \in InUse(g) /\ g[s].in_use /\ g[s].memory = hs[s].memory
                   /\ EndOf(g[s]) = EndOf(hs[s])
<1>1. PICK g : g = MergePrev(hs, h)
  OBVIOUS
<1>2. PICK c : c = Cardinality(InUse(hs)) /\ c \in Nat
  BY CountedInUse
<1>3. NULL \notin InUse(hs)
  BY SlotFacts
<1>4. CASE JoinsPrev(hs, h)
  <2>1. PICK p : p = hs[h].prev
    OBVIOUS
  <2>2. p # NULL /\ ~hs[p].in_use /\ EndOf(hs[p]) = hs[h].memory
    BY <1>4, <2>1 DEF JoinsPrev
  <2>3. p \in InUse(hs) /\ hs[p].next = h
    BY <2>1, <2>2, Inverse2
  <2>4. g = Join(hs, p, h)
    BY <1>1, <1>4, <2>1, MergePrevIs
  <2>6. /\ Chain(g, n) /\ Covered(g) = Covered(hs) /\ InUse(g) = InUse(hs) \ {h} /\ p # h
        /\ \A first : Lowest(hs, first) => Lowest(g, first)
        /\ Cardinality(InUse(g)) = Cardinality(InUse(hs)) - 1
        /\ \A s \in InUse(g) : /\ g[s].memory = hs[s].memory /\ g[s].in_use = hs[s].in_use
                               /\ s # p => EndOf(g[s]) = EndOf(hs[s])
        /\ \A s, t \in InUse(g) : Touching(g, s, t) /\ s # p => Touching(hs, s, t)
        /\ \A t \in InUse(g) : Touching(g, p, t) => Touching(hs, h, t)
    BY <2>2, <2>3, <2>4, JoinStep
  <2>7. Merged(g)
    <3> SUFFICES ASSUME NEW s \in InUse(g), NEW t \in InUse(g), Touching(g, s, t) PROVE FALSE
      BY DEF Merged
    <3>1. PICK x : x = IF s = p THEN h ELSE s
      OBVIOUS
    <3>2. Touching(hs, x, t) /\ x \in InUse(hs) /\ t \in InUse(hs) /\ t # h
      BY <2>6, <3>1
    <3> QED
      BY <3>2
  <2>8. ASSUME NEW s \in InUse(hs), hs[s].in_use
        PROVE  /\ s \in InUse(g) /\ g[s].in_use /\ g[s].memory = hs[s].memory
               /\ EndOf(g[s]) = EndOf(hs[s])
    <3>1. s # p /\ s # h
      BY <2>2, <2>8
    <3> QED
      BY <2>6, <2>8, <3>1
  <2>9. ASSUME NEW first, Lowest(hs, first)
        PROVE  Lowest(g, first) /\ g[first].memory = hs[first].memory
    <3>1. Lowest(g, first)
      BY <2>6, <2>9
    <3>2. first \in InUse(g)
      BY <3>1 DEF Lowest
    <3> QED
      BY <2>6, <3>1, <3>2
  <2>10. Cardinality(InUse(g)) = c - One(JoinsPrev(hs, h))
    BY <1>2, <1>4, <2>6 DEF One
  <2> QED
    BY <1>1, <1>2, <2>6, <2>7, <2>8, <2>9, <2>10
<1>5. CASE ~JoinsPrev(hs, h)
  <2>1. g = hs
    BY <1>1, <1>5, MergePrevIs
  <2>2. Merged(hs)
    <3> SUFFICES ASSUME NEW s \in InUse(hs), NEW t \in InUse(hs), Touching(hs, s, t)
                 PROVE  FALSE
      BY DEF Merged
    <3>1. t = h
      OBVIOUS
    <3>2. hs[t].memory = EndOf(hs[s]) /\ ~hs[s].in_use
      BY DEF Touching
    <3>3. hs[h].prev = s
      BY <3>1, <3>2, TouchingIsNext
    <3>4. JoinsPrev(hs, h)
      BY <1>3, <3>1, <3>2, <3>3 DEF JoinsPrev
    <3> QED
      BY <1>5, <3>4
  <2>3. c = c - One(JoinsPrev(hs, h))
    BY <1>2, <1>5 DEF One
  <2> QED
    BY <1>1, <1>2, <2>1, <2>2, <2>3
<1> QED
  BY <1>4, <1>5


\* What free_mem_area makes of the list, and how many headers it gives up.
Freed(hs, h) == MergePrev(MergeNext(Mark(hs, h, FALSE), h), h)
GivenUp(hs, h) == One(JoinsNext(Mark(hs, h, FALSE), h))
                     + One(JoinsPrev(MergeNext(Mark(hs, h, FALSE), h), h))

LEMMA FreeKeepsList ==
  ASSUME NEW n, NEW hs, Chain(hs, n), Merged(hs), NEW h \in InUse(hs), hs[h].in_use
  PROVE  LET g == Freed(hs, h)
         IN  /\ Chain(g, n) /\ Covered(g) = Covered(hs) /\ Merged(g)
             /\ \A first : Lowest(hs, first) =>
                   Lowest(g, first) /\ g[first].memory = hs[first].memory
             /\ Cardinality(InUse(g)) = Cardinality(InUse(hs)) - GivenUp(hs, h)
             /\ \A s \in InUse(hs) : hs[s].in_use /\ s # h =>
                   /\ s \in InUse(g) /\ g[s].in_use /\ g[s].memory = hs[s].memory
                   /\ EndOf(g[s]) = EndOf(hs[s])
<1>1. PICK freed : freed = Mark(hs, h, FALSE)
  OBVIOUS
<1>2. PICK b : b = FALSE /\ b \in BOOLEAN
  OBVIOUS
<1>3. freed = Mark(hs, h, b)
  BY <1>1, <1>2
<1>4. /\ Chain(freed, n) /\ InUse(freed) = InUse(hs) /\ SameShape(freed, hs)
      /\ Covered(freed) = Covered(hs)
      /\ \A s \in InUse(hs) : EndOf(freed[s]) = EndOf(hs[s])
      /\ freed[h].in_use = b
      /\ \A s \in InUse(hs) : s # h => freed[s].in_use = hs[s].in_use
  BY <1>2, <1>3, MarkFields
<1>5. /\ \A s \in InUse(hs) : freed[s].memory = hs[s].memory
      /\ ~freed[h].in_use /\ h \in InUse(freed)
      /\ \A first : Lowest(hs, first) =>
            Lowest(freed, first) /\ freed[first].memory = hs[first].memory
  BY <1>2, <1>4 DEF SameShape, Lowest
<1>6. ASSUME NEW s \in InUse(freed), NEW t \in InUse(freed), Touching(freed, s, t)
      PROVE  s = h \/ t = h
  <2>1. ~Touching(hs, s, t)
    BY <1>4 DEF Merged
  <2> QED
    BY <1>4, <1>5, <1>6, <2>1 DEF Touching
<1>7. PICK merged : merged = MergeNext(freed, h)
  OBVIOUS
<1>8. /\ Chain(merged, n) /\ Covered(merged) = Covered(freed)
      /\ h \in InUse(merged) /\ ~merged[h].in_use
      /\ \A first : Lowest(freed, first) =>
            Lowest(merged, first) /\ merged[first].memory = freed[first].memory
      /\ Cardinality(InUse(merged)) = Cardinality(InUse(freed)) - One(JoinsNext(freed, h))
      /\ \A s \in InUse(freed) : freed[s].in_use =>
            /\ s \in InUse(merged) /\ merged[s].in_use /\ merged[s].memory = freed[s].memory
            /\ EndOf(merged[s]) = EndOf(freed[s])
      /\ \A s, t \in InUse(merged) : Touching(merged, s, t) => t = h
  BY <1>4, <1>5, <1>6, <1>7, MergeNextKeepsList
<1>9. PICK g : g = MergePrev(merged, h)
  OBVIOUS
<1>10. /\ Chain(g, n) /\ Covered(g) = Covered(merged) /\ Merged(g)
       /\ \A first : Lowest(merged, first) =>
             Lowest(g, first) /\ g[first].memory = merged[first].memory
       /\ Cardinality(InUse(g)) = Cardinality(InUse(merged)) - One(JoinsPrev(merged, h))
       /\ \A s \in InUse(merged) : merged[s].in_use =>
             /\ s \in InUse(g) /\ g[s].in_use /\ g[s].memory = merged[s].memory
             /\ EndOf(g[s]) = EndOf(merged[s])
  BY <1>8, <1>9, MergePrevKeepsList
<1>11. ASSUME NEW first, Lowest(hs, first)
       PROVE  Lowest(g, first) /\ g[first].memory = hs[first].memory
  BY <1>5, <1>8, <1>10, <1>11
<1>12. ASSUME NEW s \in InUse(hs), hs[s].in_use, s # h
       PROVE  /\ s \in InUse(g) /\ g[s].in_use /\ g[s].memory = hs[s].memory
              /\ EndOf(g[s]) = EndOf(hs[s])
  <2>1. /\ s \in InUse(merged) /\ merged[s].in_use /\ merged[s].memory = hs[s].memory
        /\ EndOf(merged[s]) = EndOf(hs[s])
    BY <1>4, <1>5, <1>8, <1>12
  <2> QED
    BY <1>10, <2>1
<1>13. Cardinality(InUse(g)) = Cardinality(InUse(hs)) - GivenUp(hs, h)
  <2>1. PICK c, d, e, x, y : /\ c = Cardinality(InUse(hs)) /\ d = Cardinality(InUse(merged))
                              /\ e = Cardinality(InUse(g)) /\ x = One(JoinsNext(freed, h))
                              /\ y = One(JoinsPrev(merged, h))
    OBVIOUS
  <2>2. d = c - x
    BY <1>4, <1>8, <2>1
  <2>3. e = d - y
    BY <1>10, <2>1
  <2>4. c \in Nat /\ x \in Nat /\ y \in Nat
    BY <2>1, CountedInUse DEF One
  <2>5. e = c - (x + y)
    BY <2>2, <2>3, <2>4
  <2>6. GivenUp(hs, h) = x + y
    BY <1>1, <1>7, <2>1 DEF GivenUp
  <2> QED
    BY <2>1, <2>5, <2>6
<1>14. Chain(g, n) /\ Covered(g) = Covered(hs) /\ Merged(g)
  BY <1>4, <1>8, <1>10
<1>15. g = Freed(hs, h)
  BY <1>1, <1>7, <1>9 DEF Freed
<1> QED
  BY <1>11, <1>12, <1>13, <1>14, <1>15


-----------------------------------------------------------------------------
(* Claiming a header, getting a chunk and splitting.                       *)

LEMMA ClaimKeepsList ==
  ASSUME NEW n, NEW hs, Chain(hs, n), Merged(hs), NEW h \in InUse(hs)
  PROVE  LET g == internal_claim_mem_area(hs, h)
         IN  /\ Chain(g, n) /\ Merged(g) /\ InUse(g) = InUse(hs) /\ Covered(g) = Covered(hs)
             /\ \A s \in InUse(hs) : /\ EndOf(g[s]) = EndOf(hs[s])
                                     /\ g[s].memory = hs[s].memory /\ g[s].size = hs[s].size
                                     /\ hs[s].in_use => g[s].in_use
                                     /\ s # h => g[s].in_use = hs[s].in_use
             /\ g[h].in_use
             /\ \A first : Lowest(hs, first) => Lowest(g, first)
<1>1. PICK g, b : g = internal_claim_mem_area(hs, h) /\ b = TRUE /\ b \in BOOLEAN
  OBVIOUS
<1>2. g = Mark(hs, h, b) /\ b \in BOOLEAN
  BY <1>1 DEF internal_claim_mem_area, Mark
<1>3. /\ Chain(g, n) /\ InUse(g) = InUse(hs) /\ SameShape(g, hs) /\ Covered(g) = Covered(hs)
      /\ \A s \in InUse(hs) : EndOf(g[s]) = EndOf(hs[s])
      /\ g[h].in_use = b /\ \A s \in InUse(hs) : s # h => g[s].in_use = hs[s].in_use
  BY <1>2, MarkFields
<1>4. \A s \in InUse(hs) : g[s].memory = hs[s].memory /\ g[s].size = hs[s].size
  BY <1>3 DEF SameShape
<1>5. g[h].in_use /\ \A s \in InUse(hs) : hs[s].in_use => g[s].in_use
  BY <1>1, <1>3
<1>6. Merged(g)
  <2> SUFFICES ASSUME NEW s \in InUse(g), NEW t \in InUse(g), Touching(g, s, t) PROVE FALSE
    BY DEF Merged
  <2>1. ~g[s].in_use /\ ~g[t].in_use /\ g[t].memory = EndOf(g[s])
    BY DEF Touching
  <2>2. Touching(hs, s, t)
    BY <1>3, <1>4, <1>5, <2>1 DEF Touching
  <2> QED
    BY <1>3, <2>2 DEF Merged
<1>7. \A first : Lowest(hs, first) => Lowest(g, first)
  BY <1>3, <1>4 DEF Lowest
<1> QED
  BY <1>1, <1>3, <1>4, <1>5, <1>6, <1>7

\* Splitting a claimed header whose neighbour behind is not free.
LEMMA LinkKeepsList ==
  ASSUME NEW n, NEW hs, Chain(hs, n), Merged(hs), NEW h \in InUse(hs), hs[h].in_use,
         \A u \in InUse(hs) : hs[u].memory = EndOf(hs[h]) => hs[u].in_use,
         NEW t \in 1 .. n, t \notin InUse(hs),
         NEW len \in Nat, 0 < len, len < hs[h].size, len % PageSize = 0
  PROVE  LET g == Link(hs, h, t, len)
         IN  /\ Chain(g, n) /\ Merged(g) /\ Covered(g) = Covered(hs)
             /\ Cardinality(InUse(g)) = Cardinality(InUse(hs)) + 1
             /\ \A s \in InUse(hs) : /\ s \in InUse(g) /\ g[s].memory = hs[s].memory
                                     /\ g[s].in_use = hs[s].in_use
                                     /\ s # h => EndOf(g[s]) = EndOf(hs[s])
             /\ EndOf(g[h]) = hs[h].memory + len
             /\ \A first : Lowest(hs, first) => Lowest(g, first)
<1>1. PICK g : g = Link(hs, h, t, len)
  OBVIOUS
<1>2. /\ n \in Nat /\ hs[h].size \in Nat /\ hs[h].memory \in Nat
      /\ EndOf(hs[h]) = hs[h].memory + hs[h].size
      /\ \A s \in InUse(hs) : hs[s].memory \in Nat /\ EndOf(hs[s]) \in Nat
  BY SlotFacts
<1>3. len <= hs[h].size
  BY <1>2
<1>4. /\ InUse(g) = InUse(hs) \cup {t}
      /\ g[t].memory = hs[h].memory + len /\ g[t].size = hs[h].size - len /\ ~g[t].in_use
      /\ \A s \in InUse(hs) : /\ g[s].memory = hs[s].memory /\ g[s].in_use = hs[s].in_use
                              /\ g[s].size = IF s = h THEN len ELSE hs[s].size
  BY <1>1, <1>3, LinkFields
<1>5. /\ Chain(g, n) /\ Covered(g) = Covered(hs)
      /\ \A first : Lowest(hs, first) => Lowest(g, first)
  BY <1>1, LinkKeepsChain
<1>6. /\ EndOf(g[t]) = EndOf(hs[h]) /\ EndOf(g[h]) = hs[h].memory + len
      /\ \A s \in InUse(hs) : s # h => EndOf(g[s]) = EndOf(hs[s])
  BY <1>2, <1>4 DEF EndOf
<1>7. Cardinality(InUse(g)) = Cardinality(InUse(hs)) + 1
  <2>1. IsFiniteSet(InUse(hs))
    BY CountedInUse
  <2> QED
    BY <1>4, <2>1, FS_AddElement
<1>8. Merged(g)
  <2> SUFFICES ASSUME NEW s \in InUse(g), NEW v \in InUse(g), Touching(g, s, v) PROVE FALSE
    BY DEF Merged
  <2>1. ~g[s].in_use /\ ~g[v].in_use /\ g[v].memory = EndOf(g[s])
    BY DEF Touching
  <2>2. s # h /\ v # h
    BY <1>4, <2>1
  <2>3. CASE s = t
    <3>1. v # t
      BY <1>2, <1>4, <1>6, <2>1, <2>3
    <3>2. v \in InUse(hs) /\ hs[v].memory = EndOf(hs[h])
      BY <1>4, <1>6, <2>1, <2>3, <3>1
    <3> QED
      BY <1>4, <2>1, <3>2
  <2>4. CASE s # t
    <3>1. s \in InUse(hs) /\ EndOf(g[s]) = EndOf(hs[s])
      BY <1>4, <1>6, <2>2, <2>4
    <3>2. CASE v = t
      <4>1. /\ EndOf(hs[s]) = hs[h].memory + len
        BY <1>4, <2>1, <3>1, <3>2
      <4>2. /\ hs[s].memory < hs[h].memory => EndOf(hs[s]) <= hs[h].memory
            /\ hs[s].memory = hs[h].memory => s = h
            /\ hs[s].memory < EndOf(hs[s])
        BY <3>1, Ordered
      <4>3. hs[h].memory < hs[s].memory => EndOf(hs[h]) <= hs[s].memory
        BY <3>1, Ordered
      <4> QED
        BY <1>2, <2>2, <3>1, <4>1, <4>2, <4>3
    <3>3. CASE v # t
      <4>1. v \in InUse(hs) /\ ~hs[s].in_use /\ ~hs[v].in_use /\ hs[v].memory = EndOf(hs[s])
        BY <1>4, <2>1, <3>1, <3>3
      <4> QED
        BY <3>1, <4>1 DEF Merged, Touching
    <3> QED
      BY <3>2, <3>3
  <2> QED
    BY <2>3, <2>4
<1> QED
  BY <1>1, <1>4, <1>5, <1>6, <1>7, <1>8


\* A list with more slots behind it is the same list.
Extended(hs, n, m) == [s \in 1 .. m |-> IF s \in 1 .. n THEN hs[s] ELSE UnusedSlot]

LEMMA ExtendKeepsList ==
  ASSUME NEW n, NEW hs, Chain(hs, n), Merged(hs), NEW m \in Nat, n <= m
  PROVE  LET g == Extended(hs, n, m)
         IN  /\ Chain(g, m) /\ Merged(g) /\ InUse(g) = InUse(hs) /\ Covered(g) = Covered(hs)
             /\ \A s \in InUse(hs) : g[s] = hs[s]
             /\ \A first : Lowest(hs, first) => Lowest(g, first)
<1>0. PICK g : g = Extended(hs, n, m)
  OBVIOUS
<1>1. g = [s \in 1 .. m |-> IF s \in 1 .. n THEN hs[s] ELSE UnusedSlot]
  BY <1>0 DEF Extended
<1>2. n \in Nat /\ hs \in [1 .. n -> Slots(n)] /\ InUse(hs) \subseteq 1 .. n
  BY SlotFacts DEF Chain, Typed
<1>3. Slots(n) \subseteq Slots(m) /\ UnusedSlot \in Slots(m) /\ ~UnusedSlot.header_in_use
  <2>1. 0 .. n \subseteq 0 .. m
    BY <1>2
  <2>2. Slots(n) \subseteq Slots(m)
    BY <2>1 DEF Slots
  <2> QED
    BY <2>2, UnusedIs
<1>4. \A s \in 1 .. m : g[s] = IF s \in 1 .. n THEN hs[s] ELSE UnusedSlot
  BY <1>1
<1>5. DOMAIN g = 1 .. m /\ DOMAIN hs = 1 .. n /\ 1 .. n \subseteq 1 .. m
  BY <1>1, <1>2
<1>6. InUse(g) = InUse(hs)
  BY <1>3, <1>4, <1>5 DEF InUse
<1>7. \A s \in InUse(hs) : g[s] = hs[s]
  BY <1>2, <1>4, <1>5
<1>8. Typed(g, m)
  <2>1. \A s \in 1 .. m : (IF s \in 1 .. n THEN hs[s] ELSE UnusedSlot) \in Slots(m)
    BY <1>2, <1>3
  <2> QED
    BY <1>1, <2>1 DEF Typed
<1>9. SameShape(g, hs)
  BY <1>6, <1>7 DEF SameShape
<1>10. Chain(g, m) /\ Covered(g) = Covered(hs)
  BY <1>8, <1>9, ShapeKept
<1>11. Merged(g)
  BY <1>6, <1>7 DEF Merged, Touching
<1>12. \A first : Lowest(hs, first) => Lowest(g, first)
  BY <1>6, <1>7 DEF Lowest
<1> QED
  BY <1>0, <1>6, <1>7, <1>10, <1>11, <1>12

\* get_header_chunk: the memory of the chunk was free and is claimed.
LEMMA AddChunkKeepsList ==
  ASSUME NEW n, n = headers_allocated, NEW hs, Walkable(hs, n, first_header), Merged(hs),
         ChunkMemory(hs) # NULL
  PROVE  LET g == AddChunk(hs)
             c == ChunkMemory(hs)
         IN  /\ Chain(g, n + HeadersPerChunk) /\ Merged(g) /\ InUse(g) = InUse(hs)
             /\ Covered(g) = Covered(hs)
             /\ c \in InUse(hs) /\ ~hs[c].in_use /\ g[c].in_use
             /\ \A s \in InUse(hs) : /\ EndOf(g[s]) = EndOf(hs[s])
                                     /\ g[s].memory = hs[s].memory /\ g[s].size = hs[s].size
                                     /\ hs[s].in_use => g[s].in_use
             /\ \A first : Lowest(hs, first) => Lowest(g, first)
<1>1. PICK c, len : c = ChunkMemory(hs) /\ len = page(1)
  OBVIOUS
<1>2. c \in InUse(hs) /\ ~hs[c].in_use
  <2>1. find_free_pages(hs, len) = c /\ c # NULL
    BY <1>1 DEF ChunkMemory
  <2> QED
    BY <2>1, FindFree
<1>3. Chain(hs, n)
  BY DEF Walkable
<1>4. PICK d : d = internal_claim_mem_area(hs, c)
  OBVIOUS
<1>5. /\ Chain(d, n) /\ Merged(d) /\ InUse(d) = InUse(hs) /\ Covered(d) = Covered(hs)
      /\ \A s \in InUse(hs) : /\ EndOf(d[s]) = EndOf(hs[s])
                              /\ d[s].memory = hs[s].memory /\ d[s].size = hs[s].size
                              /\ hs[s].in_use => d[s].in_use
      /\ d[c].in_use
      /\ \A first : Lowest(hs, first) => Lowest(d, first)
  BY <1>2, <1>3, <1>4, ClaimKeepsList
<1>6. PICK m : m = n + HeadersPerChunk
  OBVIOUS
<1>7. n \in Nat /\ m \in Nat /\ n <= m /\ DOMAIN hs = 1 .. n
  BY <1>3, <1>6, SlotFacts, ChunkAssumption
<1>8. PICK g : g = AddChunk(hs)
  OBVIOUS
<1>9. g = Extended(d, n, m)
  BY <1>1, <1>4, <1>6, <1>7, <1>8 DEF AddChunk, Extended
<1>10. /\ Chain(g, m) /\ Merged(g) /\ InUse(g) = InUse(d) /\ Covered(g) = Covered(d)
       /\ \A s \in InUse(d) : g[s] = d[s]
       /\ \A first : Lowest(d, first) => Lowest(g, first)
  BY <1>5, <1>7, <1>9, ExtendKeepsList
<1>11. /\ InUse(g) = InUse(hs) /\ Covered(g) = Covered(hs)
       /\ \A s \in InUse(hs) : g[s] = d[s]
       /\ \A first : Lowest(hs, first) => Lowest(g, first)
  BY <1>5, <1>10
<1>12. /\ \A s \in InUse(hs) : /\ EndOf(g[s]) = EndOf(hs[s])
                               /\ g[s].memory = hs[s].memory /\ g[s].size = hs[s].size
                               /\ hs[s].in_use => g[s].in_use
       /\ g[c].in_use
  BY <1>2, <1>5, <1>11
<1> QED
  BY <1>1, <1>2, <1>6, <1>8, <1>10, <1>11, <1>12


\* Headers in use are where they were, and as long.
Keeps(hs, g) ==
    \A s \in InUse(hs) : hs[s].in_use =>
       /\ s \in InUse(g) /\ g[s].in_use /\ g[s].memory = hs[s].memory
       /\ EndOf(g[s]) = EndOf(hs[s])

\* h is claimed: it begins where it did and has at least len bytes.
Granted(hs, g, h, len) ==
    /\ h \in InUse(g) /\ g[h].in_use /\ g[h].memory = hs[h].memory
    /\ hs[h].memory + len <= EndOf(g[h])

\* A chunk got its memory from another free header.
FromFree(hs, g, h, c) ==
    \E s \in InUse(hs) : /\ s # h /\ ~hs[s].in_use /\ hs[s].memory = c
                         /\ s \in InUse(g) /\ g[s].in_use /\ g[s].memory = c

LEMMA SplitKeepsList ==
  ASSUME ListInv, NEW h \in InUse(headers), ~headers[h].in_use,
         NEW len \in Nat, 0 < len, len % PageSize = 0, len <= headers[h].size,
         split_header_at_len(internal_claim_mem_area(headers, h), h, len),
         UNCHANGED <<first_header, framebuffers>>
  PROVE  /\ ListInv'
         /\ Keeps(headers, headers')
         /\ Granted(headers, headers', h, len)
         /\ \A c \in chunks' : c \in chunks \/ FromFree(headers, headers', h, c)
<1>1. PICK old, n, hs, first : /\ old = headers /\ n = headers_allocated
                               /\ hs = internal_claim_mem_area(headers, h)
                               /\ first = first_header
  OBVIOUS
<1>2. /\ Chain(old, n) /\ Merged(old) /\ Lowest(old, first)
      /\ Cardinality(InUse(old)) <= headers_in_use /\ headers_in_use < n
      /\ headers_in_use \in Nat /\ n \in Nat
      /\ h \in InUse(old) /\ ~old[h].in_use /\ hs = internal_claim_mem_area(old, h)
      /\ len <= old[h].size
  BY <1>1, SlotFacts DEF ListInv
<1>3. /\ Chain(hs, n) /\ Merged(hs) /\ InUse(hs) = InUse(old) /\ Covered(hs) = Covered(old)
      /\ \A s \in InUse(old) : /\ EndOf(hs[s]) = EndOf(old[s])
                               /\ hs[s].memory = old[s].memory /\ hs[s].size = old[s].size
                               /\ old[s].in_use => hs[s].in_use
                               /\ s # h => hs[s].in_use = old[s].in_use
      /\ hs[h].in_use
      /\ \A f : Lowest(old, f) => Lowest(hs, f)
  BY <1>2, ClaimKeepsList
<1>4. Cardinality(InUse(old)) \in Nat
  BY <1>2, CountedInUse
<1>5. ASSUME NEW u \in InUse(hs), hs[u].memory = EndOf(hs[h]) PROVE hs[u].in_use
  <2>1. u \in InUse(old) /\ old[u].memory = EndOf(old[h])
    BY <1>2, <1>3, <1>5
  <2>2. old[u].in_use
    BY <1>2, <2>1 DEF Merged, Touching
  <2> QED
    BY <1>3, <2>1, <2>2
<1>6. /\ old[h].memory \in Nat /\ old[h].size \in Nat
      /\ EndOf(old[h]) = old[h].memory + old[h].size /\ EndOf(old[h]) \in Nat
  BY <1>2, SlotFacts
<1>7. ASSUME NEW g, headers' = g, NEW m, headers_allocated' = m, Chain(g, m), Merged(g),
             Covered(g) = Covered(old), Lowest(g, first), g[first].memory = old[first].memory,
             Cardinality(InUse(g)) <= headers_in_use', headers_in_use' < m,
             headers_in_use' \in Nat, wild_next' \in BOOLEAN,
             status' \in {"ok", "abort", "fault"}
      PROVE  ListInv'
  <2>1. /\ headers_allocated' = m /\ framebuffers' = framebuffers
        /\ first_header' = first
    BY <1>1, <1>7
  <2>2. /\ Covered(old) = Ram \ Withdrawn(framebuffers)
        /\ old[first].memory = Regions[1].memory /\ framebuffers \subseteq Framebuffers
    BY <1>1 DEF ListInv
  <2>3. Covered(g) = Ram \ Withdrawn(framebuffers')
    BY <1>7, <2>1, <2>2
  <2>4. g[first].memory = Regions[1].memory
    BY <1>7, <2>2
  <2> QED
    BY <1>7, <2>1, <2>2, <2>3, <2>4 DEF ListInv
<1>8. ASSUME headers' = hs, UNCHANGED <<headers_in_use, headers_allocated, wild_next, chunks>>,
             status' \in {"ok", "abort", "fault"}
      PROVE  /\ ListInv' /\ Keeps(headers, headers') /\ Granted(headers, headers', h, len)
             /\ \A c \in chunks' : c \in chunks \/ FromFree(headers, headers', h, c)
  <2>1. ListInv'
    <3>1. Lowest(hs, first) /\ hs[first].memory = old[first].memory
      BY <1>2, <1>3 DEF Lowest
    <3>2. /\ Cardinality(InUse(hs)) <= headers_in_use' /\ headers_in_use' < n
          /\ headers_in_use' \in Nat /\ headers_allocated' = n
      BY <1>1, <1>2, <1>3, <1>8
    <3>3. wild_next' \in BOOLEAN
      BY <1>8 DEF ListInv
    <3> QED
      BY <1>3, <1>7, <1>8, <3>1, <3>2, <3>3
  <2>2. Keeps(old, hs)
    BY <1>3 DEF Keeps
  <2>3. Granted(old, hs, h, len)
    BY <1>2, <1>3, <1>6 DEF Granted
  <2> QED
    BY <1>1, <1>8, <2>1, <2>2, <2>3
<1>9. CASE NoSplit(hs, h, len)
  <2>1. headers' = hs /\ UNCHANGED <<headers_in_use, headers_allocated, wild_next, chunks>>
        /\ status' = status
    BY <1>9 DEF NoSplit
  <2>2. status' \in {"ok", "abort", "fault"}
    BY <2>1 DEF ListInv
  <2> QED
    BY <1>8, <2>1, <2>2
<1>10. CASE SplitFaults(hs, h, len)
  <2>1. headers' = hs /\ UNCHANGED <<headers_in_use, headers_allocated, wild_next, chunks>>
        /\ status' \in {"ok", "abort", "fault"}
    BY <1>10 DEF SplitFaults
  <2> QED
    BY <1>8, <2>1
<1>11. CASE SplitWithSlot(hs, h, len)
  <2>1. /\ hs[h].size # len /\ ~NeedsChunk /\ headers_in_use' = headers_in_use + 1
        /\ UNCHANGED <<headers_allocated, wild_next, status, chunks>>
    BY <1>11 DEF SplitWithSlot
  <2>2. PICK t \in DOMAIN hs : FreeSlot(hs, t) /\ headers' = Link(hs, h, t, len)
    BY <1>11 DEF SplitWithSlot
  <2>3. t \in 1 .. n /\ t \notin InUse(hs)
    <3>1. DOMAIN hs = 1 .. n
      BY <1>3, SlotFacts
    <3> QED
      BY <2>2, <3>1 DEF FreeSlot, InUse
  <2>4. len < hs[h].size /\ h \in InUse(hs)
    BY <1>2, <1>3, <1>6, <2>1
  <2>5. PICK g : g = Link(hs, h, t, len)
    OBVIOUS
  <2>6. /\ Chain(g, n) /\ Merged(g) /\ Covered(g) = Covered(hs)
        /\ Cardinality(InUse(g)) = Cardinality(InUse(hs)) + 1
        /\ \A s \in InUse(hs) : /\ s \in InUse(g) /\ g[s].memory = hs[s].memory
                                /\ g[s].in_use = hs[s].in_use
                                /\ s # h => EndOf(g[s]) = EndOf(hs[s])
        /\ EndOf(g[h]) = hs[h].memory + len
        /\ \A f : Lowest(hs, f) => Lowest(g, f)
    BY <1>3, <1>5, <2>3, <2>4, <2>5, LinkKeepsList
  <2>7. ListInv'
    <3>1. Lowest(g, first) /\ g[first].memory = old[first].memory
      BY <1>2, <1>3, <2>6 DEF Lowest
    <3>2. headers_in_use + 1 < n
      BY <1>1, <1>2, <2>1 DEF NeedsChunk
    <3>3. /\ Cardinality(InUse(g)) <= headers_in_use' /\ headers_in_use' < n
          /\ headers_in_use' \in Nat
      BY <1>2, <1>3, <1>4, <2>1, <2>6, <3>2
    <3>4. wild_next' \in BOOLEAN /\ status' \in {"ok", "abort", "fault"}
      BY <2>1 DEF ListInv
    <3>5. headers' = g /\ headers_allocated' = n /\ Covered(g) = Covered(old)
      BY <1>1, <1>3, <2>1, <2>2, <2>5, <2>6
    <3> QED
      BY <1>7, <2>6, <3>1, <3>3, <3>4, <3>5
  <2>8. Keeps(old, g)
    <3> SUFFICES ASSUME NEW s \in InUse(old), old[s].in_use
                 PROVE  /\ s \in InUse(g) /\ g[s].in_use /\ g[s].memory = old[s].memory
                        /\ EndOf(g[s]) = EndOf(old[s])
      BY DEF Keeps
    <3>1. s # h
      BY <1>2
    <3> QED
      BY <1>3, <2>6, <3>1
  <2>9. Granted(old, g, h, len)
    <3>1. h \in InUse(g) /\ g[h].in_use /\ g[h].memory = old[h].memory
      BY <1>2, <1>3, <2>6
    <3>2. EndOf(g[h]) = old[h].memory + len /\ old[h].memory + len \in Nat
      BY <1>2, <1>3, <1>6, <2>6
    <3> QED
      BY <3>1, <3>2 DEF Granted
  <2> QED
    BY <1>1, <2>1, <2>2, <2>5, <2>7, <2>8, <2>9
<1>12. CASE SplitWithChunk(hs, h, len)
  <2>1. /\ hs[h].size # len /\ headers_in_use' = headers_in_use + 1
        /\ ChunkMemory(hs) # NULL /\ wild_next' \in BOOLEAN /\ status' = status
        /\ headers' = Link(AddChunk(hs), h, headers_allocated + 1, len)
        /\ headers_allocated' = headers_allocated + HeadersPerChunk
        /\ chunks' = chunks \cup {hs[ChunkMemory(hs)].memory}
    BY <1>12 DEF SplitWithChunk
  <2>2. PICK a, c, m, t : /\ a = AddChunk(hs) /\ c = ChunkMemory(hs)
                          /\ m = n + HeadersPerChunk /\ t = n + 1
    OBVIOUS
  <2>3. Walkable(hs, n, first_header)
    <3>1. Lowest(hs, first) /\ Cardinality(InUse(hs)) < n
      BY <1>2, <1>3, <1>4
    <3> QED
      BY <1>1, <1>3, <3>1 DEF Walkable
  <2>4. /\ Chain(a, m) /\ Merged(a) /\ InUse(a) = InUse(hs)
        /\ Covered(a) = Covered(hs)
        /\ c \in InUse(hs) /\ ~hs[c].in_use /\ a[c].in_use
        /\ \A s \in InUse(hs) : /\ EndOf(a[s]) = EndOf(hs[s])
                                /\ a[s].memory = hs[s].memory /\ a[s].size = hs[s].size
                                /\ hs[s].in_use => a[s].in_use
        /\ \A f : Lowest(hs, f) => Lowest(a, f)
    BY <1>1, <1>3, <2>1, <2>2, <2>3, AddChunkKeepsList
  <2>5. t \in 1 .. m /\ t \notin InUse(a) /\ m \in Nat /\ n < m
    <3>1. InUse(hs) \subseteq 1 .. n
      BY <1>3, SlotFacts
    <3> QED
      BY <1>2, <2>2, <2>4, <3>1, ChunkAssumption
  <2>6. /\ len < a[h].size /\ h \in InUse(a) /\ a[h].in_use
        /\ \A u \in InUse(a) : a[u].memory = EndOf(a[h]) => a[u].in_use
    <3>1. len < a[h].size /\ h \in InUse(a) /\ a[h].in_use
      BY <1>2, <1>3, <1>6, <2>1, <2>4
    <3>2. \A u \in InUse(a) : a[u].memory = EndOf(a[h]) => a[u].in_use
      BY <1>2, <1>3, <1>5, <2>4
    <3> QED
      BY <3>1, <3>2
  <2>7. PICK g : g = Link(a, h, t, len)
    OBVIOUS
  <2>8. /\ Chain(g, m) /\ Merged(g) /\ Covered(g) = Covered(a)
        /\ Cardinality(InUse(g)) = Cardinality(InUse(a)) + 1
        /\ \A s \in InUse(a) : /\ s \in InUse(g) /\ g[s].memory = a[s].memory
                               /\ g[s].in_use = a[s].in_use
                               /\ s # h => EndOf(g[s]) = EndOf(a[s])
        /\ EndOf(g[h]) = a[h].memory + len
        /\ \A f : Lowest(a, f) => Lowest(g, f)
    BY <2>4, <2>5, <2>6, <2>7, LinkKeepsList
  <2>9. headers' = g /\ headers_allocated' = m
    BY <1>1, <2>1, <2>2, <2>7
  <2>10. ListInv'
    <3>1. Lowest(g, first) /\ g[first].memory = old[first].memory
      BY <1>2, <1>3, <2>4, <2>8 DEF Lowest
    <3>2. /\ Cardinality(InUse(g)) <= headers_in_use' /\ headers_in_use' < m
          /\ headers_in_use' \in Nat
      BY <1>2, <1>3, <1>4, <2>1, <2>4, <2>5, <2>8
    <3>3. wild_next' \in BOOLEAN /\ status' \in {"ok", "abort", "fault"}
      BY <2>1 DEF ListInv
    <3>4. Covered(g) = Covered(old)
      BY <1>3, <2>4, <2>8
    <3> QED
      BY <1>7, <2>8, <2>9, <3>1, <3>2, <3>3, <3>4
  <2>11. Keeps(old, g)
    <3> SUFFICES ASSUME NEW s \in InUse(old), old[s].in_use
                 PROVE  /\ s \in InUse(g) /\ g[s].in_use /\ g[s].memory = old[s].memory
                        /\ EndOf(g[s]) = EndOf(old[s])
      BY DEF Keeps
    <3>1. s # h
      BY <1>2
    <3>2. s \in InUse(a) /\ a[s].in_use /\ a[s].memory = old[s].memory
          /\ EndOf(a[s]) = EndOf(old[s])
      BY <1>3, <2>4, <3>1
    <3> QED
      BY <2>8, <3>1, <3>2
  <2>12. Granted(old, g, h, len)
    <3>1. h \in InUse(g) /\ g[h].in_use /\ g[h].memory = old[h].memory
      BY <1>2, <1>3, <2>4, <2>6, <2>8
    <3>2. EndOf(g[h]) = old[h].memory + len /\ old[h].memory + len \in Nat
      BY <1>2, <1>3, <1>6, <2>4, <2>8
    <3> QED
      BY <3>1, <3>2 DEF Granted
  <2>13. ASSUME NEW d \in chunks' PROVE d \in chunks \/ FromFree(old, g, h, d)
    <3>1. d \in chunks \/ d = hs[c].memory
      BY <2>1, <2>2
    <3>2. /\ c \in InUse(old) /\ c # h /\ ~old[c].in_use /\ old[c].memory = hs[c].memory
      BY <1>2, <1>3, <2>4
    <3>3. c \in InUse(g) /\ g[c].in_use /\ g[c].memory = hs[c].memory
      BY <2>4, <2>8
    <3> QED
      BY <3>1, <3>2, <3>3 DEF FromFree
  <2> QED
    BY <1>1, <2>9, <2>10, <2>11, <2>12, <2>13
<1>13. split_header_at_len(hs, h, len)
  BY <1>1
<1> QED
  BY <1>9, <1>10, <1>11, <1>12, <1>13 DEF split_header_at_len


-----------------------------------------------------------------------------
(* get_mem_area and free_mem_area.                                         *)

\* Without a wrap, round_up_to_page is the least whole number of pages.
LEMMA Rounded ==
  ASSUME NEW x \in Nat, x + PageSize <= WordSize
  PROVE  /\ round_up_to_page(x) = Up(x) /\ Up(x) \in Nat /\ Up(x) % PageSize = 0
         /\ x <= Up(x)
         /\ \A m \in Nat : m % PageSize = 0 /\ x <= m => Up(x) <= m
<1>1. PageSize \in Nat \ {0} /\ WordSize \in Nat
  BY PageAssumption
<1>2. PICK y : y = x + PageSize - 1
  OBVIOUS
<1>3. y \in Nat /\ y < WordSize /\ WordSize \in Nat \ {0}
  BY <1>1, <1>2
<1>4. (y % WordSize) = y
  <2>1. y = 0 * WordSize + y /\ y \in 0 .. (WordSize - 1)
    BY <1>3
  <2>2. (0 * WordSize + y) % WordSize = y
    BY <1>3, <2>1, DivUnique
  <2> QED
    BY <2>1, <2>2
<1>5. round_up_to_page(x) = (y \div PageSize) * PageSize
  BY <1>2, <1>4 DEF round_up_to_page, page
<1>6. Up(x) = (y \div PageSize) * PageSize
  BY <1>2 DEF Up
<1>7. Up(x) \in Nat /\ Up(x) % PageSize = 0 /\ x <= Up(x)
  BY <1>1, RoundUp DEF Up
<1>8. \A m \in Nat : m % PageSize = 0 /\ x <= m => Up(x) <= m
  BY <1>1, RoundUpLeast DEF Up
<1> QED
  BY <1>5, <1>6, <1>7, <1>8

LEMMA Asked ==
  ASSUME ProperInputs, NEW len \in Lengths
  PROVE  len \in Nat /\ 0 < len /\ len + PageSize <= WordSize
  BY InputAssumption DEF ProperInputs

\* A walk over the headers of a reachable state.
LEMMA ListIsWalkable ==
  ASSUME ListInv
  PROVE  Walkable(headers, headers_allocated, first_header)
<1>1. PICK hs, n : hs = headers /\ n = headers_allocated
  OBVIOUS
<1>2. /\ Chain(hs, n) /\ Cardinality(InUse(hs)) <= headers_in_use /\ headers_in_use < n
      /\ headers_in_use \in Nat /\ Lowest(hs, first_header)
  BY <1>1 DEF ListInv
<1>3. n \in Nat /\ Cardinality(InUse(hs)) \in Nat
  BY <1>2, SlotFacts, CountedInUse
<1>4. Cardinality(InUse(hs)) < n
  BY <1>2, <1>3
<1> QED
  BY <1>1, <1>2, <1>4 DEF Walkable

\* get_mem_area hands out the first bytes of a free header h.
Hands(h, addr, len) ==
    /\ h \in InUse(headers) /\ ~headers[h].in_use
    /\ Keeps(headers, headers')
    /\ Granted(headers, headers', h, Up(len))
    /\ \A c \in chunks' : c \in chunks \/ FromFree(headers, headers', h, c)
    /\ areas' = areas \cup {[addr |-> addr, len |-> len]}

\* The size of a header is a multiple of the page size, so that a header that is
\* long enough is long enough for whole pages.
LEMMA ClaimStep ==
  ASSUME ProperInputs, ListInv, NEW len \in Lengths,
         NEW h \in InUse(headers), ~headers[h].in_use, len <= headers[h].size,
         split_header_at_len(internal_claim_mem_area(headers, h), h, round_up_to_page(len)),
         UNCHANGED <<first_header, framebuffers>>,
         NEW addr, areas' = areas \cup {[addr |-> addr, len |-> len]}
  PROVE  ListInv' /\ Hands(h, addr, len)
<1>1. len \in Nat /\ 0 < len /\ len + PageSize <= WordSize
  BY Asked
<1>2. PICK up : up = round_up_to_page(len)
  OBVIOUS
<1>3. /\ up = Up(len) /\ up \in Nat /\ up % PageSize = 0 /\ len <= up
      /\ \A m \in Nat : m % PageSize = 0 /\ len <= m => up <= m
  BY <1>1, <1>2, Rounded
<1>4. 0 < up
  BY <1>1, <1>3
<1>5. up <= headers[h].size
  <2>1. PICK hs, n : hs = headers /\ n = headers_allocated
    OBVIOUS
  <2>2. Chain(hs, n) /\ h \in InUse(hs)
    BY <2>1 DEF ListInv
  <2>3. hs[h].size % PageSize = 0
    BY <2>2 DEF Chain, Layout
  <2>4. hs[h].size \in Nat
    BY <2>2, SlotFacts
  <2> QED
    BY <1>3, <2>1, <2>3, <2>4
<1>6. split_header_at_len(internal_claim_mem_area(headers, h), h, up)
  BY <1>2
<1>7. /\ ListInv' /\ Keeps(headers, headers') /\ Granted(headers, headers', h, up)
      /\ \A c \in chunks' : c \in chunks \/ FromFree(headers, headers', h, c)
  BY <1>3, <1>4, <1>5, <1>6, SplitKeepsList
<1> QED
  BY <1>3, <1>7 DEF Hands

LEMMA AcquireStep ==
  ASSUME ProperInputs, ListInv, NEW len \in Lengths, AcquireArea(len)
  PROVE  ListInv' /\ \E h \in InUse(headers) : Hands(h, headers[h].memory, len)
<1>1. PICK n, hs, up : n = headers_allocated /\ hs = headers /\ up = round_up_to_page(len)
  OBVIOUS
<1>2. PICK h : h = find_free_pages(headers, up)
  OBVIOUS
<1>3. /\ h # NULL
      /\ split_header_at_len(internal_claim_mem_area(headers, h), h, round_up_to_page(len))
      /\ areas' = areas \cup {[addr |-> headers[h].memory, len |-> len]}
      /\ UNCHANGED <<first_header, framebuffers>>
  BY <1>1, <1>2 DEF AcquireArea
<1>4. Walkable(hs, n, first_header)
  BY <1>1, ListIsWalkable
<1>5. h \in InUse(hs) /\ ~hs[h].in_use /\ hs[h].size >= up
  BY <1>1, <1>2, <1>3, <1>4, FindFree
<1>6. len <= hs[h].size
  <2>1. len \in Nat /\ len + PageSize <= WordSize
    BY Asked
  <2>2. up \in Nat /\ len <= up
    BY <1>1, <2>1, Rounded
  <2>3. hs[h].size \in Nat
    BY <1>4, <1>5, SlotFacts DEF Walkable
  <2> QED
    BY <1>5, <2>1, <2>2, <2>3
<1>7. PICK addr : addr = headers[h].memory
  OBVIOUS
<1>8. ListInv' /\ Hands(h, addr, len)
  BY <1>1, <1>3, <1>5, <1>6, <1>7, ClaimStep
<1> QED
  BY <1>1, <1>5, <1>7, <1>8

LEMMA ReserveStep ==
  ASSUME ProperInputs, ListInv, NEW addr \in ReserveAddrs, NEW len \in Lengths,
         ReserveArea(addr, len)
  PROVE  /\ ListInv'
         /\ \E h \in InUse(headers) :
               /\ Hands(h, addr, len)
               /\ headers[h].memory <= addr /\ addr <= EndOf(headers[h])
<1>1. PICK n, hs : n = headers_allocated /\ hs = headers
  OBVIOUS
<1>2. PICK h : h = find_header_for_page(headers, addr, len)
  OBVIOUS
<1>3. /\ h # NULL
      /\ split_header_at_len(internal_claim_mem_area(headers, h), h, round_up_to_page(len))
      /\ areas' = areas \cup {[addr |-> addr, len |-> len]}
      /\ UNCHANGED <<first_header, framebuffers>>
  BY <1>2 DEF ReserveArea
<1>4. Walkable(hs, n, first_header)
  BY <1>1, ListIsWalkable
<1>5. /\ h \in InUse(hs) /\ ~hs[h].in_use /\ ~(hs[h].size < len)
      /\ hs[h].memory <= addr /\ EndOf(hs[h]) >= addr
  BY <1>1, <1>2, <1>3, <1>4, FindHeader
<1>6. hs[h].size \in Nat /\ hs[h].memory \in Nat /\ EndOf(hs[h]) \in Nat
  BY <1>4, <1>5, SlotFacts DEF Walkable
<1>7. len \in Nat /\ addr \in Nat
  BY Asked, InputAssumption
<1>8. len <= hs[h].size /\ addr <= EndOf(hs[h])
  BY <1>5, <1>6, <1>7
<1>9. ListInv' /\ Hands(h, addr, len)
  BY <1>1, <1>3, <1>5, <1>8, ClaimStep
<1> QED
  BY <1>1, <1>5, <1>8, <1>9

LEMMA FreeStep ==
  ASSUME ListInv, NEW area, FreeArea(area)
  PROVE  /\ ListInv' /\ areas' = areas \ {area} /\ chunks' = chunks
         /\ \E h \in InUse(headers) :
               /\ headers[h].memory <= area.addr /\ area.addr < EndOf(headers[h])
               /\ headers[h].in_use
               /\ \A s \in InUse(headers) : headers[s].in_use /\ s # h =>
                     /\ s \in InUse(headers') /\ headers'[s].in_use
                     /\ headers'[s].memory = headers[s].memory
                     /\ EndOf(headers'[s]) = EndOf(headers[s])
<1>1. PICK n, hs, first, addr : /\ n = headers_allocated /\ hs = headers
                                /\ first = first_header /\ addr = area.addr
  OBVIOUS
<1>2. PICK h : h = HeaderOf(addr)
  OBVIOUS
<1>3. PICK g, k : g = Freed(hs, h) /\ k = GivenUp(hs, h)
  OBVIOUS
<1>6. /\ h # NULL /\ hs[h].in_use /\ headers' = g
      /\ headers_in_use' = headers_in_use - One(JoinsNext(Mark(hs, h, FALSE), h))
                              - One(JoinsPrev(MergeNext(Mark(hs, h, FALSE), h), h))
      /\ areas' = areas \ {area} /\ chunks' = chunks
      /\ UNCHANGED <<first_header, headers_allocated, wild_next, status, framebuffers>>
  BY <1>1, <1>2, <1>3 DEF FreeArea, Freed, Mark
<1>7. Walkable(headers, n, first_header)
  BY <1>1, ListIsWalkable
<1>8. h \in InUse(hs) /\ hs[h].memory <= addr /\ EndOf(hs[h]) > addr
  BY <1>1, <1>2, <1>6, <1>7, FindHolder
<1>9. /\ Chain(hs, n) /\ Merged(hs) /\ Lowest(hs, first)
      /\ Cardinality(InUse(hs)) <= headers_in_use /\ headers_in_use < n
      /\ headers_in_use \in Nat
  BY <1>1 DEF ListInv
<1>10. /\ Chain(g, n) /\ Covered(g) = Covered(hs) /\ Merged(g)
       /\ \A f : Lowest(hs, f) => Lowest(g, f) /\ g[f].memory = hs[f].memory
       /\ Cardinality(InUse(g)) = Cardinality(InUse(hs)) - k
       /\ \A s \in InUse(hs) : hs[s].in_use /\ s # h =>
             /\ s \in InUse(g) /\ g[s].in_use /\ g[s].memory = hs[s].memory
             /\ EndOf(g[s]) = EndOf(hs[s])
  <2>1. hs[h].in_use
    BY <1>6
  <2> QED
    BY <1>3, <1>8, <1>9, <2>1, FreeKeepsList
<1>11. ListInv'
  <2>1. PICK c, d, x, y : /\ c = Cardinality(InUse(hs)) /\ d = Cardinality(InUse(g))
                          /\ x = One(JoinsNext(Mark(hs, h, FALSE), h))
                          /\ y = One(JoinsPrev(MergeNext(Mark(hs, h, FALSE), h), h))
    OBVIOUS
  <2>2. c \in Nat /\ d \in Nat /\ x \in Nat /\ y \in Nat /\ n \in Nat
    BY <1>9, <1>10, <2>1, CountedInUse, SlotFacts DEF One
  <2>3. /\ d = c - (x + y) /\ headers_in_use' = headers_in_use - x - y
        /\ c <= headers_in_use
    BY <1>3, <1>6, <1>9, <1>10, <2>1 DEF GivenUp
  <2>4. d <= headers_in_use' /\ headers_in_use' \in Nat /\ headers_in_use' < n
    BY <1>9, <2>2, <2>3
  <2>5. /\ Lowest(g, first) /\ g[first].memory = Regions[1].memory
        /\ Covered(g) = Ram \ Withdrawn(framebuffers)
    BY <1>1, <1>9, <1>10 DEF ListInv
  <2>6. wild_next \in BOOLEAN /\ status \in {"ok", "abort", "fault"}
        /\ framebuffers \subseteq Framebuffers
    BY DEF ListInv
  <2> QED
    BY <1>1, <1>6, <1>10, <2>1, <2>4, <2>5, <2>6 DEF ListInv
<1>12. addr < EndOf(hs[h])
  BY <1>8
<1> QED
  BY <1>1, <1>6, <1>8, <1>10, <1>11, <1>12


-----------------------------------------------------------------------------
(* Taking headers out of the list: where the links lead past them.         *)

IsSkip(links, gone, s, c, f) ==
    f = [k \in 0 .. c |-> IF k = 0 THEN links[s]
                          ELSE IF f[k - 1] \in gone THEN links[f[k - 1]] ELSE f[k - 1]]

LEMMA SkipValues ==
  ASSUME NEW links, NEW gone, NEW s, NEW c, NEW f, IsSkip(links, gone, s, c, f)
  PROVE  \A k \in 0 .. c :
            f[k] = IF k = 0 THEN links[s]
                   ELSE IF f[k - 1] \in gone THEN links[f[k - 1]] ELSE f[k - 1]
<1> DEFINE G == [k \in 0 .. c |-> IF k = 0 THEN links[s]
                         ELSE IF f[k - 1] \in gone THEN links[f[k - 1]] ELSE f[k - 1]]
<1>1. \A k \in 0 .. c : G[k] = IF k = 0 THEN links[s]
                         ELSE IF f[k - 1] \in gone THEN links[f[k - 1]] ELSE f[k - 1]
  OBVIOUS
<1>2. f = G
  BY DEF IsSkip
<1> HIDE DEF G
<1> QED
  BY <1>1, <1>2

LEMMA SkipExists ==
  ASSUME NEW links, NEW gone, NEW s, NEW c \in Nat
  PROVE  \E f : IsSkip(links, gone, s, c, f)
<1> DEFINE T == {n \in Nat : ~ \E f : IsSkip(links, gone, s, n, f)}
<1> SUFFICES ASSUME T # {} PROVE FALSE
  OBVIOUS
<1>1. PICK m \in T : \A x \in T : m <= x
  BY LeastNumber
<1>2. m \in Nat /\ ~ \E f : IsSkip(links, gone, s, m, f)
  BY <1>1
<1>3. CASE m = 0
  <2> DEFINE f == [k \in 0 .. 0 |-> links[s]]
             F == [k \in 0 .. 0 |-> IF k = 0 THEN links[s]
                        ELSE IF f[k - 1] \in gone THEN links[f[k - 1]] ELSE f[k - 1]]
  <2>1. \A k \in 0 .. 0 : f[k] = F[k]
    OBVIOUS
  <2>2. f = F
    BY <2>1
  <2>3. IsSkip(links, gone, s, 0, f)
    BY <2>2 DEF IsSkip
  <2> QED
    BY <1>2, <1>3, <2>3
<1>4. CASE m # 0
  <2>1. m - 1 \in Nat /\ m - 1 \notin T
    BY <1>1, <1>2, <1>4
  <2>2. PICK b : b = m - 1
    OBVIOUS
  <2>3. PICK g : IsSkip(links, gone, s, b, g)
    BY <2>1, <2>2
  <2>4. \A k \in 0 .. b : g[k] = IF k = 0 THEN links[s]
           ELSE IF g[k - 1] \in gone THEN links[g[k - 1]] ELSE g[k - 1]
    BY <2>3, SkipValues
  <2> DEFINE step == IF g[b] \in gone THEN links[g[b]] ELSE g[b]
             f == [k \in 0 .. m |-> IF k = m THEN step ELSE g[k]]
             F == [k \in 0 .. m |-> IF k = 0 THEN links[s]
                        ELSE IF f[k - 1] \in gone THEN links[f[k - 1]] ELSE f[k - 1]]
  <2>5. ASSUME NEW k \in 0 .. m PROVE f[k] = F[k]
    <3>1. CASE k = 0
      <4>1. k \in 0 .. b /\ k # m
        BY <1>2, <1>4, <2>2, <3>1
      <4> QED
        BY <2>4, <3>1, <4>1
    <3>2. CASE k # 0
      <4>1. k - 1 \in 0 .. m /\ k - 1 # m
        BY <1>2, <3>2
      <4>2. f[k - 1] = g[k - 1]
        BY <4>1
      <4>3. F[k] = IF g[k - 1] \in gone THEN links[g[k - 1]] ELSE g[k - 1]
        BY <3>2, <4>2
      <4>4. k # m => k \in 0 .. b /\ f[k] = g[k]
        BY <1>2, <2>2
      <4>5. k # m => g[k] = IF g[k - 1] \in gone THEN links[g[k - 1]] ELSE g[k - 1]
        BY <2>4, <3>2, <4>4
      <4>6. k = m => f[k] = IF g[k - 1] \in gone THEN links[g[k - 1]] ELSE g[k - 1]
        BY <1>2, <2>2, <3>2
      <4> QED
        BY <4>3, <4>4, <4>5, <4>6
    <3> QED
      BY <3>1, <3>2
  <2>6. f = F
    BY <2>5
  <2>7. IsSkip(links, gone, s, m, f)
    BY <2>6 DEF IsSkip
  <2> QED
    BY <1>2, <2>7
<1> QED
  BY <1>3, <1>4

LEMMA SkipIs ==
  ASSUME NEW links, NEW gone, NEW s, NEW c \in Nat, Cardinality(DOMAIN links) = c
  PROVE  \E f : IsSkip(links, gone, s, c, f) /\ Skip(links, gone, s) = f[c]
<1> DEFINE skip[n \in 0 .. Cardinality(DOMAIN links)] ==
             IF n = 0 THEN links[s]
             ELSE LET s0 == skip[n - 1]
                  IN  IF s0 \in gone THEN links[s0] ELSE s0
<1>1. skip = CHOOSE f : IsSkip(links, gone, s, Cardinality(DOMAIN links), f)
  BY DEF IsSkip
<1>2. Skip(links, gone, s) = skip[Cardinality(DOMAIN links)]
  BY DEF Skip
<1> HIDE DEF skip
<1>3. \E f : IsSkip(links, gone, s, Cardinality(DOMAIN links), f)
  BY SkipExists
<1>4. IsSkip(links, gone, s, c, skip) /\ Skip(links, gone, s) = skip[c]
  BY <1>1, <1>2, <1>3
<1> QED
  BY <1>4

\* Links that lead from each member of U to the next one in the order of key.
Follows(U, key, links) ==
    \A x \in U :
       IF links[x] = NULL THEN \A t \in U : key[t] <= key[x]
       ELSE /\ links[x] \in U /\ key[x] < key[links[x]]
            /\ \A t \in U : key[t] <= key[x] \/ key[links[x]] <= key[t]

\* Keys by which the members of U, which are slots, can be told apart.
Keyed(n, U, key) ==
    /\ U \subseteq 1 .. n
    /\ \A x \in U : key[x] \in Int
    /\ \A x, y \in U : key[x] = key[y] => x = y

\* v is the one behind s among V.
NextLeft(V, key, s, v) ==
    IF v = NULL THEN \A t \in V : key[t] <= key[s]
    ELSE v \in V /\ key[s] < key[v] /\ \A t \in V : key[t] <= key[s] \/ key[v] <= key[t]

\* Past the members of gone they lead to the next one that is left: each step
\* passes another one, and there are fewer of them than steps.
LEMMA SkipFinds ==
  ASSUME NEW n \in Nat, NEW U, NEW key, Keyed(n, U, key),
         NEW links, DOMAIN links = 1 .. n, Follows(U, key, links),
         NEW gone, gone \subseteq U, NEW s \in U
  PROVE  NextLeft(U \ gone, key, s, Skip(links, gone, s))
<1>0. /\ U \subseteq 1 .. n /\ \A x \in U : key[x] \in Int
      /\ \A x, y \in U : key[x] = key[y] => x = y
  BY DEF Keyed
<1>1. Cardinality(DOMAIN links) = n
  BY FS_Interval
<1>2. PICK f : IsSkip(links, gone, s, n, f) /\ Skip(links, gone, s) = f[n]
  BY <1>1, SkipIs
<1>3. \A k \in 0 .. n : f[k] = IF k = 0 THEN links[s]
            ELSE IF f[k - 1] \in gone THEN links[f[k - 1]] ELSE f[k - 1]
  BY <1>2, SkipValues
<1>4. NULL \notin U
  BY <1>0 DEF NULL
<1>5. IsFiniteSet(gone) /\ Cardinality(gone) \in Nat /\ Cardinality(gone) <= n
  <2>0. PICK d : d = 1 .. n
    OBVIOUS
  <2>1. IsFiniteSet(d) /\ Cardinality(d) = n
    BY <2>0, FS_Interval
  <2>2. gone \in SUBSET d
    BY <1>0, <2>0
  <2> QED
    BY <2>1, <2>2, FS_Subset, FS_CardinalityType
<1> DEFINE UpTo(x) == {t \in gone : key[t] <= key[x]}
           Past(v) == IF v = NULL THEN \A t \in U \ gone : key[t] <= key[s]
                      ELSE /\ v \in U /\ key[s] < key[v]
                           /\ \A t \in U \ gone : key[t] <= key[s] \/ key[v] <= key[t]
           Good(k) == Past(f[k]) /\ (f[k] \in gone => Cardinality(UpTo(f[k])) > k)
           T == {k \in 0 .. n : ~Good(k)}
<1>6. \A x : IsFiniteSet(UpTo(x)) /\ Cardinality(UpTo(x)) \in Nat
               /\ Cardinality(UpTo(x)) <= Cardinality(gone)
  <2> TAKE x
  <2>1. UpTo(x) \in SUBSET gone
    OBVIOUS
  <2> HIDE DEF UpTo
  <2> QED
    BY <1>5, <2>1, FS_Subset, FS_CardinalityType
<1>7. T = {}
  <2> SUFFICES ASSUME T # {} PROVE FALSE
    OBVIOUS
  <2>0. T \subseteq Nat
    OBVIOUS
  <2>1. PICK m \in T : \A x \in T : m <= x
    BY <2>0, LeastNumber
  <2>2. m \in 0 .. n /\ ~Good(m)
    BY <2>1
  <2>3. CASE m = 0
    <3>1. PICK v : v = f[0]
      OBVIOUS
    <3>2. v = links[s]
      BY <1>3, <3>1
    <3>3. Past(v)
      BY <1>4, <3>2 DEF Follows
    <3>4. v \in gone => Cardinality(UpTo(v)) > 0
      <4> SUFFICES ASSUME v \in gone PROVE Cardinality(UpTo(v)) > 0
        OBVIOUS
      <4>1. v \in UpTo(v)
        BY <1>0
      <4> HIDE DEF UpTo
      <4>2. Cardinality(UpTo(v)) # 0
        BY <1>6, <4>1, FS_EmptySet
      <4> QED
        BY <1>6, <4>2
    <3> HIDE DEF UpTo, Past
    <3> QED
      BY <2>2, <2>3, <3>1, <3>3, <3>4
  <2>4. CASE m # 0
    <3>1. PICK k : k = m - 1
      OBVIOUS
    <3>2. k \in 0 .. n /\ k \in Nat /\ m = k + 1 /\ ~(m <= k)
      BY <2>2, <2>4, <3>1
    <3>3. Good(k)
      BY <2>1, <3>2
    <3>4. PICK a, v : a = f[k] /\ v = f[m]
      OBVIOUS
    <3>5. v = IF a \in gone THEN links[a] ELSE a
      BY <1>3, <2>2, <2>4, <3>1, <3>4
    <3>6. Past(a) /\ (a \in gone => Cardinality(UpTo(a)) > k)
      <4> HIDE DEF UpTo, Past
      <4> QED
        BY <3>3, <3>4
    <3>7. CASE a \notin gone
      <4> HIDE DEF UpTo, Past
      <4> QED
        BY <2>2, <3>4, <3>5, <3>6, <3>7
    <3>8. CASE a \in gone
      <4>1. /\ a \in U /\ a # NULL /\ key[s] < key[a] /\ key[a] \in Int /\ key[s] \in Int
            /\ \A t \in U \ gone : key[t] <= key[s] \/ key[a] <= key[t]
        BY <1>0, <1>4, <3>6, <3>8
      <4>2. IF v = NULL THEN \A t \in U : key[t] <= key[a]
            ELSE /\ v \in U /\ key[a] < key[v] /\ \A t \in U : key[t] <= key[a] \/ key[v] <= key[t]
        BY <3>5, <3>8, <4>1 DEF Follows
      <4>3. \A t \in U \ gone : key[t] # key[a] /\ key[t] \in Int
        BY <1>0, <3>8, <4>1
      <4>4. Past(v)
        <5>1. CASE v = NULL
          BY <4>1, <4>2, <4>3, <5>1
        <5>2. CASE v # NULL
          <6>1. v \in U /\ key[a] < key[v] /\ key[v] \in Int
            BY <1>0, <4>2, <5>2
          <6>2. key[s] < key[v]
            BY <4>1, <6>1
          <6>3. \A t \in U \ gone : key[t] <= key[s] \/ key[v] <= key[t]
            <7> SUFFICES ASSUME NEW t \in U \ gone, ~(key[t] <= key[s])
                         PROVE  key[v] <= key[t]
              OBVIOUS
            <7>1. key[a] <= key[t] /\ key[t] # key[a] /\ key[t] \in Int
              BY <4>1, <4>3
            <7>2. key[t] <= key[a] \/ key[v] <= key[t]
              BY <4>2, <5>2
            <7> QED
              BY <4>1, <7>1, <7>2
          <6> QED
            BY <5>2, <6>1, <6>2, <6>3
        <5> QED
          BY <5>1, <5>2
      <4>5. v \in gone => Cardinality(UpTo(v)) > m
        <5> SUFFICES ASSUME v \in gone PROVE Cardinality(UpTo(v)) > m
          OBVIOUS
        <5>1. v \in U /\ v # NULL /\ key[a] < key[v] /\ key[v] \in Int
          BY <1>0, <1>4, <4>2
        <5>2. v \notin UpTo(a)
          BY <4>1, <5>1
        <5>3. UpTo(a) \cup {v} \subseteq UpTo(v)
          <6> SUFFICES ASSUME NEW t \in UpTo(a) \cup {v} PROVE t \in UpTo(v)
            OBVIOUS
          <6>1. CASE t = v
              BY <1>0, <5>1, <6>1
          <6>2. CASE t \in UpTo(a)
            <7>1. t \in gone /\ key[t] <= key[a] /\ key[t] \in Int
              BY <1>0, <6>2
            <7> QED
              BY <4>1, <5>1, <7>1
          <6> QED
            BY <6>1, <6>2
        <5> HIDE DEF UpTo
        <5>4. Cardinality(UpTo(a) \cup {v}) = Cardinality(UpTo(a)) + 1
              /\ IsFiniteSet(UpTo(a) \cup {v})
          BY <1>6, <5>2, FS_AddElement
        <5>5. Cardinality(UpTo(a) \cup {v}) <= Cardinality(UpTo(v))
          BY <1>6, <5>3, FS_Subset
        <5> QED
          BY <1>6, <3>2, <3>6, <3>8, <5>4, <5>5
      <4> HIDE DEF UpTo, Past
      <4> QED
        BY <2>2, <3>4, <4>4, <4>5
    <3> QED
      BY <3>7, <3>8
  <2> QED
    BY <2>3, <2>4
<1>8. PICK v : v = f[n]
  OBVIOUS
<1>9. Past(v) /\ (v \in gone => Cardinality(UpTo(v)) > n)
  <2>1. n \in 0 .. n
    OBVIOUS
  <2>2. Good(n)
    BY <1>7, <2>1
  <2> HIDE DEF UpTo, Past
  <2> QED
    BY <1>8, <2>2
<1>10. v \notin gone
  <2> HIDE DEF UpTo, Past
  <2> QED
    BY <1>5, <1>6, <1>9
<1>11. NextLeft(U \ gone, key, s, v)
  BY <1>9, <1>10 DEF NextLeft
<1> HIDE DEF Past
<1> QED
  BY <1>2, <1>8, <1>11


-----------------------------------------------------------------------------
(* ensure_not_allocatable.                                                 *)

LEMMA WholePages ==
  ASSUME NEW x \in Nat, (x % PageSize) = 0
  PROVE  page(x) = x
<1>1. PageSize \in Nat \ {0}
  BY PageAssumption
<1>2. /\ x \div PageSize \in Nat /\ x = (x \div PageSize) * PageSize + (x % PageSize)
  BY <1>1, DivMod
<1>3. (x \div PageSize) * PageSize \in Nat
  BY <1>1, <1>2
<1> QED
  BY <1>2, <1>3 DEF page

\* A framebuffer of whole pages.
Framed(fb) == Page(fb.addr) /\ Page(fb.len) /\ fb.len > 0

\* What is left of a header that is not covered: its bytes that are not the
\* framebuffer's.
LEMMA WithdrawOne ==
  ASSUME NEW n \in Nat, NEW h \in Slots(n), h.size > 0, h.memory % PageSize = 0,
         h.size % PageSize = 0, NEW fb, Framed(fb), ~Inside(fb, h), ~Covers(fb, h)
  PROVE  LET w == Withdraw(fb, h)
         IN  /\ w \in Slots(n) /\ w.size > 0
             /\ w.memory % PageSize = 0 /\ w.size % PageSize = 0
             /\ w.in_use = h.in_use /\ w.header_in_use = h.header_in_use
             /\ h.memory <= w.memory /\ EndOf(w) <= EndOf(h)
             /\ \A x \in Nat : (w.memory <= x /\ x < EndOf(w))
                   <=> (h.memory <= x /\ x < EndOf(h) /\ ~(fb.addr <= x /\ x < fb.addr + fb.len))
<1>1. PICK m, z, a, l, e, b : /\ m = h.memory /\ z = h.size /\ a = fb.addr /\ l = fb.len
                              /\ e = m + z /\ b = a + l
  OBVIOUS
<1>2. /\ m \in Nat /\ z \in Nat /\ z > 0 /\ m % PageSize = 0 /\ z % PageSize = 0
      /\ a \in Nat /\ l \in Nat /\ a % PageSize = 0 /\ l % PageSize = 0 /\ l > 0
  BY <1>1 DEF Slots, Framed, Page
<1>3. /\ EndOf(h) = e /\ e \in Nat /\ b \in Nat /\ m < e /\ a < b
      /\ e = m + z /\ b = a + l
  BY <1>1, <1>2 DEF EndOf
<1>4. e % PageSize = 0 /\ b % PageSize = 0
  BY <1>1, <1>2, MultiplesAdd, PageAssumption
<1>5. ~(a > m /\ b < e) /\ ~(a <= m /\ b >= e)
  BY <1>1, <1>3 DEF Inside, Covers
<1>6. Touches(fb, h) <=> b >= m /\ a <= e
  BY <1>1, <1>3 DEF Touches
<1>7. PICK w : w = Withdraw(fb, h)
  OBVIOUS
<1>8. ASSUME w \in Slots(n), w.in_use = h.in_use, w.header_in_use = h.header_in_use,
             NEW p \in Nat, NEW q \in Nat, w.memory = p, w.size = q,
             q > 0, p % PageSize = 0, q % PageSize = 0, m <= p, p + q <= e,
             \A x \in Nat : (p <= x /\ x < p + q) <=> (m <= x /\ x < e /\ ~(a <= x /\ x < b))
      PROVE  /\ w \in Slots(n) /\ w.size > 0
             /\ w.memory % PageSize = 0 /\ w.size % PageSize = 0
             /\ w.in_use = h.in_use /\ w.header_in_use = h.header_in_use
             /\ h.memory <= w.memory /\ EndOf(w) <= EndOf(h)
             /\ \A x \in Nat : (w.memory <= x /\ x < EndOf(w))
                   <=> (h.memory <= x /\ x < EndOf(h) /\ ~(fb.addr <= x /\ x < fb.addr + fb.len))
  <2>1. EndOf(w) = p + q
    BY <1>8 DEF EndOf
  <2> QED
    BY <1>1, <1>3, <1>8, <2>1
<1>9. CASE ~Touches(fb, h)
  <2>1. w = h
    BY <1>7, <1>9 DEF Withdraw
  <2>2. \A x \in Nat : (m <= x /\ x < m + z) <=> (m <= x /\ x < e /\ ~(a <= x /\ x < b))
    BY <1>2, <1>3, <1>6, <1>9
  <2> QED
    BY <1>1, <1>2, <1>3, <1>7, <1>8, <2>1, <2>2
<1>10. CASE Touches(fb, h) /\ a <= m
  <2>1. b < e /\ m <= b
    BY <1>2, <1>3, <1>5, <1>6, <1>10
  <2>2. PICK q : q = e - b
    OBVIOUS
  <2>3. q \in Nat /\ q > 0 /\ b + q = e /\ q % PageSize = 0
    <3>1. q \in Nat /\ q > 0 /\ b + q = e /\ e >= b
      BY <1>3, <2>1, <2>2
    <3>2. (e - b) % PageSize = 0
      BY <1>3, <1>4, <3>1, MultiplesSubtract, PageAssumption
    <3> QED
      BY <2>2, <3>1, <3>2
  <2>4. page(b) = b /\ page(q) = q
    BY <1>3, <1>4, <2>3, WholePages
  <2>5. w = [h EXCEPT !.memory = b, !.size = q]
    <3>1. a <= h.memory /\ ~Covers(fb, h) /\ Touches(fb, h)
      BY <1>1, <1>10
    <3>2. w = [h EXCEPT !.memory = page(fb.addr + fb.len),
                        !.size = page(EndOf(h) - (fb.addr + fb.len))]
      BY <1>1, <1>7, <3>1 DEF Withdraw
    <3>3. fb.addr + fb.len = b /\ EndOf(h) - (fb.addr + fb.len) = q
      BY <1>1, <1>3, <2>2
    <3> QED
      BY <2>4, <3>2, <3>3
  <2>6. /\ w \in Slots(n) /\ w.in_use = h.in_use /\ w.header_in_use = h.header_in_use
        /\ w.memory = b /\ w.size = q
    BY <1>3, <2>3, <2>5 DEF Slots
  <2>7. \A x \in Nat : (b <= x /\ x < b + q) <=> (m <= x /\ x < e /\ ~(a <= x /\ x < b))
    BY <1>2, <1>3, <1>10, <2>1, <2>3
  <2>8. b + q <= e
    BY <1>3, <2>3
  <2> QED
    BY <1>3, <1>4, <1>7, <1>8, <2>1, <2>3, <2>6, <2>7, <2>8
<1>11. CASE Touches(fb, h) /\ ~(a <= m)
  <2>1. m < a /\ a <= e /\ e <= b
    BY <1>2, <1>3, <1>5, <1>6, <1>11
  <2>2. PICK q : q = a - m
    OBVIOUS
  <2>3. q \in Nat /\ q > 0 /\ m + q = a /\ q % PageSize = 0
    <3>1. q \in Nat /\ q > 0 /\ m + q = a /\ a >= m
      BY <1>2, <2>1, <2>2
    <3>2. (a - m) % PageSize = 0
      BY <1>2, <3>1, MultiplesSubtract, PageAssumption
    <3> QED
      BY <2>2, <3>1, <3>2
  <2>4. page(q) = q
    BY <2>3, WholePages
  <2>5. w = [h EXCEPT !.size = q]
    <3>1. ~(fb.addr <= h.memory) /\ ~Covers(fb, h) /\ Touches(fb, h)
      BY <1>1, <1>11
    <3>2. w = [h EXCEPT !.size = page(fb.addr - h.memory)]
      BY <1>7, <3>1 DEF Withdraw
    <3>3. fb.addr - h.memory = q
      BY <1>1, <2>2
    <3> QED
      BY <2>4, <3>2, <3>3
  <2>6. /\ w \in Slots(n) /\ w.in_use = h.in_use /\ w.header_in_use = h.header_in_use
        /\ w.memory = m /\ w.size = q
    BY <1>1, <2>3, <2>5 DEF Slots
  <2>7. \A x \in Nat : (m <= x /\ x < m + q) <=> (m <= x /\ x < e /\ ~(a <= x /\ x < b))
    BY <1>2, <1>3, <2>1, <2>3
  <2>8. m + q <= e /\ m <= m
    BY <1>2, <1>3, <2>1, <2>3
  <2> QED
    BY <1>2, <1>7, <1>8, <2>3, <2>6, <2>7, <2>8
<1> QED
  BY <1>9, <1>10, <1>11


\* The list with nx and pv for links, and the headers in gone taken out.
Shrunk(hs, n, fb, gone, nx, pv) ==
    [s \in 1 .. n |->
        IF s \notin InUse(hs) THEN hs[s]
        ELSE [Withdraw(fb, hs[s]) EXCEPT !.next = IF s \in gone THEN @ ELSE nx[s],
                                         !.prev = pv[s]]]

Gone(hs, fb) == {s \in InUse(hs) : Touches(fb, hs[s]) /\ Covers(fb, hs[s])}

InFb(fb, x) == fb.addr <= x /\ x < fb.addr + fb.len

LEMMA CoveredTouches ==
  ASSUME NEW n, NEW hs, Chain(hs, n), NEW fb, Framed(fb), NEW s \in InUse(hs),
         Covers(fb, hs[s])
  PROVE  /\ Touches(fb, hs[s])
         /\ \A x \in Nat : hs[s].memory <= x /\ x < EndOf(hs[s]) => InFb(fb, x)
<1>1. /\ hs[s].memory \in Nat /\ EndOf(hs[s]) \in Nat /\ hs[s].memory < EndOf(hs[s])
  BY SlotFacts, Ordered
<1>2. fb.addr \in Nat /\ fb.len \in Nat /\ fb.addr + fb.len \in Nat
  BY DEF Framed, Page
<1>3. fb.addr <= hs[s].memory /\ EndOf(hs[s]) <= fb.addr + fb.len
  BY <1>1, <1>2 DEF Covers
<1> QED
  BY <1>1, <1>2, <1>3 DEF Touches, InFb

LEMMA ShrunkFields ==
  ASSUME NEW n, NEW hs, Chain(hs, n), NEW fb, Framed(fb),
         \A s \in InUse(hs) : ~Inside(fb, hs[s]),
         NEW nx, NEW pv, \A s \in InUse(hs) : nx[s] \in 0 .. n /\ pv[s] \in 0 .. n,
         NEW gone, gone = Gone(hs, fb)
  PROVE  LET g == Shrunk(hs, n, fb, gone, nx, pv)
         IN  /\ Typed(g, n) /\ InUse(g) = InUse(hs) \ gone
             /\ \A s \in InUse(g) :
                   /\ g[s].next = nx[s] /\ g[s].prev = pv[s] /\ g[s].in_use = hs[s].in_use
                   /\ g[s].size > 0 /\ g[s].memory % PageSize = 0 /\ g[s].size % PageSize = 0
                   /\ hs[s].memory <= g[s].memory /\ EndOf(g[s]) <= EndOf(hs[s])
                   /\ \A x \in Nat : (g[s].memory <= x /\ x < EndOf(g[s]))
                         <=> (hs[s].memory <= x /\ x < EndOf(hs[s]) /\ ~InFb(fb, x))
<1>1. PICK g : g = Shrunk(hs, n, fb, gone, nx, pv)
  OBVIOUS
<1>2. /\ n \in Nat /\ hs \in [1 .. n -> Slots(n)] /\ InUse(hs) \subseteq 1 .. n
      /\ DOMAIN hs = 1 .. n /\ \A s \in InUse(hs) : hs[s].header_in_use
  BY SlotFacts DEF Chain, Typed
<1>3. /\ DOMAIN g = 1 .. n
      /\ \A s \in 1 .. n : s \notin InUse(hs) => g[s] = hs[s]
      /\ \A s \in InUse(hs) :
            g[s] = [Withdraw(fb, hs[s]) EXCEPT !.next = IF s \in gone THEN @ ELSE nx[s],
                                               !.prev = pv[s]]
  BY <1>1, <1>2 DEF Shrunk
<1>4. ASSUME NEW s \in gone PROVE g[s] \in Slots(n) /\ ~g[s].header_in_use
  <2>1. s \in InUse(hs) /\ Touches(fb, hs[s]) /\ Covers(fb, hs[s])
    BY <1>4 DEF Gone
  <2>2. PICK w : w = [hs[s] EXCEPT !.in_use = FALSE, !.header_in_use = FALSE]
    OBVIOUS
  <2>3. Withdraw(fb, hs[s]) = w
    BY <2>1, <2>2 DEF Withdraw
  <2>4. hs[s] \in Slots(n)
    BY <1>2, <2>1
  <2>5. w \in Slots(n) /\ ~w.header_in_use
    BY <2>2, <2>4 DEF Slots
  <2>6. PICK x, v : x = [w EXCEPT !.next = v] /\ v = w.next
    OBVIOUS
  <2>7. v \in 0 .. n /\ pv[s] \in 0 .. n
    BY <2>1, <2>5, <2>6 DEF Slots
  <2>8. x \in Slots(n) /\ x.header_in_use = w.header_in_use
    BY <1>2, <2>5, <2>6, <2>7, PutNext
  <2>9. PICK p : p = pv[s]
    OBVIOUS
  <2>10. PICK y : y = [x EXCEPT !.prev = p]
    OBVIOUS
  <2>11. y \in Slots(n) /\ y.header_in_use = x.header_in_use
    BY <1>2, <2>7, <2>8, <2>9, <2>10, PutPrev
  <2>12. g[s] = y
    BY <1>3, <1>4, <2>1, <2>3, <2>6, <2>9, <2>10
  <2> QED
    BY <2>5, <2>8, <2>11, <2>12
<1>5. ASSUME NEW s \in InUse(hs), s \notin gone
      PROVE  /\ g[s] \in Slots(n) /\ g[s].header_in_use
             /\ g[s].next = nx[s] /\ g[s].prev = pv[s] /\ g[s].in_use = hs[s].in_use
             /\ g[s].size > 0 /\ g[s].memory % PageSize = 0 /\ g[s].size % PageSize = 0
             /\ hs[s].memory <= g[s].memory /\ EndOf(g[s]) <= EndOf(hs[s])
             /\ \A x \in Nat : (g[s].memory <= x /\ x < EndOf(g[s]))
                   <=> (hs[s].memory <= x /\ x < EndOf(hs[s]) /\ ~InFb(fb, x))
  <2>1. ~Covers(fb, hs[s]) /\ ~Inside(fb, hs[s])
    BY <1>5, CoveredTouches DEF Gone
  <2>2. PICK h, w : h = hs[s] /\ w = Withdraw(fb, h)
    OBVIOUS
  <2>3. /\ h \in Slots(n) /\ h.size > 0 /\ h.memory % PageSize = 0 /\ h.size % PageSize = 0
    BY <1>2, <1>5, <2>2 DEF Chain, Layout
  <2>4. /\ w \in Slots(n) /\ w.size > 0
        /\ w.memory % PageSize = 0 /\ w.size % PageSize = 0
        /\ w.in_use = h.in_use /\ w.header_in_use = h.header_in_use
        /\ h.memory <= w.memory /\ EndOf(w) <= EndOf(h)
        /\ \A x \in Nat : (w.memory <= x /\ x < EndOf(w))
              <=> (h.memory <= x /\ x < EndOf(h) /\ ~(fb.addr <= x /\ x < fb.addr + fb.len))
    BY <1>2, <2>1, <2>2, <2>3, WithdrawOne
  <2>5. PICK u, v : u = nx[s] /\ v = pv[s]
    OBVIOUS
  <2>6. u \in 0 .. n /\ v \in 0 .. n
    BY <2>5
  <2>7. PICK x : x = [w EXCEPT !.next = u]
    OBVIOUS
  <2>8. /\ x \in Slots(n) /\ x.next = u /\ x.memory = w.memory /\ x.size = w.size
        /\ x.in_use = w.in_use /\ x.header_in_use = w.header_in_use
    BY <1>2, <2>4, <2>6, <2>7, PutNext
  <2>9. PICK y : y = [x EXCEPT !.prev = v]
    OBVIOUS
  <2>10. /\ y \in Slots(n) /\ y.next = u /\ y.prev = v /\ y.memory = w.memory
         /\ y.size = w.size /\ y.in_use = w.in_use /\ y.header_in_use = w.header_in_use
    BY <1>2, <2>6, <2>8, <2>9, PutPrev
  <2>11. g[s] = y
    BY <1>3, <1>5, <2>2, <2>5, <2>7, <2>9
  <2>12. EndOf(y) = EndOf(w)
    BY <2>10 DEF EndOf
  <2>13. /\ y.size > 0 /\ y.memory % PageSize = 0 /\ y.size % PageSize = 0
         /\ hs[s].memory <= y.memory /\ EndOf(y) <= EndOf(hs[s])
         /\ y.in_use = hs[s].in_use /\ y.header_in_use
    BY <1>2, <2>2, <2>4, <2>10, <2>12
  <2>14. \A z \in Nat : (y.memory <= z /\ z < EndOf(y))
              <=> (hs[s].memory <= z /\ z < EndOf(hs[s]) /\ ~InFb(fb, z))
    BY <2>2, <2>4, <2>10, <2>12 DEF InFb
  <2> QED
    BY <2>5, <2>10, <2>11, <2>13, <2>14
<1>6. InUse(g) = InUse(hs) \ gone
  <2>1. \A s \in 1 .. n : s \notin InUse(hs) => ~g[s].header_in_use
    BY <1>2, <1>3 DEF InUse
  <2>2. gone \subseteq InUse(hs)
    BY DEF Gone
  <2> QED
    BY <1>2, <1>3, <1>4, <1>5, <2>1, <2>2 DEF InUse
<1>7. Typed(g, n)
  <2>1. \A s \in 1 .. n : g[s] \in Slots(n)
    BY <1>2, <1>3, <1>4, <1>5
  <2>2. g = [s \in 1 .. n |-> g[s]]
    BY <1>1 DEF Shrunk
  <2> QED
    BY <1>2, <2>1, <2>2 DEF Typed
<1> QED
  BY <1>1, <1>5, <1>6, <1>7


Nexts(hs, n, gone) == [s \in InUse(hs) |-> Skip([t \in 1 .. n |-> hs[t].next], gone, s)]
Prevs(hs, n, gone) == [s \in InUse(hs) |-> Skip([t \in 1 .. n |-> hs[t].prev], gone, s)]

LEMMA NextsFound ==
  ASSUME NEW n, NEW hs, Chain(hs, n), NEW gone, gone \subseteq InUse(hs), NEW s \in InUse(hs)
  PROVE  LET v == Nexts(hs, n, gone)[s]
             V == InUse(hs) \ gone
         IN  IF v = NULL THEN \A t \in V : hs[t].memory <= hs[s].memory
             ELSE /\ v \in V /\ hs[s].memory < hs[v].memory
                  /\ \A t \in V : hs[t].memory <= hs[s].memory \/ hs[v].memory <= hs[t].memory
<1>1. PICK U, links, key : /\ U = InUse(hs) /\ links = [t \in 1 .. n |-> hs[t].next]
                           /\ key = [t \in U |-> hs[t].memory]
  OBVIOUS
<1>2. /\ n \in Nat /\ U \subseteq 1 .. n /\ DOMAIN links = 1 .. n /\ gone \subseteq U /\ s \in U
      /\ \A t \in U : key[t] = hs[t].memory /\ key[t] \in Int /\ links[t] = hs[t].next
  BY <1>1, SlotFacts
<1>3. Keyed(n, U, key)
  <2>1. \A x, y \in U : key[x] = key[y] => x = y
    BY <1>1, <1>2, Ordered
  <2> QED
    BY <1>2, <2>1 DEF Keyed
<1>4. Follows(U, key, links)
  <2> SUFFICES ASSUME NEW x \in U
               PROVE  IF links[x] = NULL THEN \A t \in U : key[t] <= key[x]
                      ELSE /\ links[x] \in U /\ key[x] < key[links[x]]
                           /\ \A t \in U : key[t] <= key[x] \/ key[links[x]] <= key[t]
    BY DEF Follows
  <2>1. IsNext(hs, x, hs[x].next)
    BY <1>1 DEF Chain
  <2> QED
    BY <1>1, <1>2, <2>1 DEF IsNext
<1>5. PICK v : v = Skip(links, gone, s)
  OBVIOUS
<1>6. NextLeft(U \ gone, key, s, v)
  BY <1>2, <1>3, <1>4, <1>5, SkipFinds
<1>7. Nexts(hs, n, gone)[s] = v
  BY <1>1, <1>5 DEF Nexts
<1> QED
  BY <1>1, <1>2, <1>6, <1>7 DEF NextLeft

LEMMA PrevsFound ==
  ASSUME NEW n, NEW hs, Chain(hs, n), NEW gone, gone \subseteq InUse(hs), NEW s \in InUse(hs)
  PROVE  LET v == Prevs(hs, n, gone)[s]
             V == InUse(hs) \ gone
         IN  IF v = NULL THEN \A t \in V : hs[s].memory <= hs[t].memory
             ELSE /\ v \in V /\ hs[v].memory < hs[s].memory
                  /\ \A t \in V : hs[t].memory <= hs[v].memory \/ hs[s].memory <= hs[t].memory
<1>1. PICK U, links, key : /\ U = InUse(hs) /\ links = [t \in 1 .. n |-> hs[t].prev]
                           /\ key = [t \in U |-> 0 - hs[t].memory]
  OBVIOUS
<1>2. /\ n \in Nat /\ U \subseteq 1 .. n /\ DOMAIN links = 1 .. n /\ gone \subseteq U /\ s \in U
      /\ \A t \in U : /\ key[t] = 0 - hs[t].memory /\ key[t] \in Int /\ hs[t].memory \in Nat
                      /\ links[t] = hs[t].prev
  BY <1>1, SlotFacts
<1>3. Keyed(n, U, key)
  <2>1. \A x, y \in U : key[x] = key[y] => hs[x].memory = hs[y].memory
    BY <1>2
  <2>2. \A x, y \in U : key[x] = key[y] => x = y
    BY <1>1, <2>1, Ordered
  <2> QED
    BY <1>2, <2>2 DEF Keyed
<1>4. Follows(U, key, links)
  <2> SUFFICES ASSUME NEW x \in U
               PROVE  IF links[x] = NULL THEN \A t \in U : key[t] <= key[x]
                      ELSE /\ links[x] \in U /\ key[x] < key[links[x]]
                           /\ \A t \in U : key[t] <= key[x] \/ key[links[x]] <= key[t]
    BY DEF Follows
  <2>1. IsPrev(hs, x, hs[x].prev)
    BY <1>1 DEF Chain
  <2>2. CASE hs[x].prev = NULL
    <3>1. \A t \in U : hs[x].memory <= hs[t].memory
      BY <1>1, <2>1, <2>2 DEF IsPrev
    <3> QED
      BY <1>2, <2>2, <3>1
  <2>3. CASE hs[x].prev # NULL
    <3>1. PICK u : u = hs[x].prev
      OBVIOUS
    <3>2. /\ u \in U /\ hs[u].memory < hs[x].memory
          /\ \A t \in U : hs[t].memory <= hs[u].memory \/ hs[x].memory <= hs[t].memory
      BY <1>1, <2>1, <2>3, <3>1 DEF IsPrev
    <3>3. key[x] < key[u] /\ \A t \in U : key[t] <= key[x] \/ key[u] <= key[t]
      <4>1. key[x] < key[u]
        BY <1>2, <3>2
      <4>2. ASSUME NEW t \in U PROVE key[t] <= key[x] \/ key[u] <= key[t]
        <5>1. hs[t].memory <= hs[u].memory \/ hs[x].memory <= hs[t].memory
          BY <3>2
        <5> QED
          BY <1>2, <3>2, <5>1
      <4> QED
        BY <4>1, <4>2
    <3> QED
      BY <1>2, <2>3, <3>1, <3>2, <3>3
  <2> QED
    BY <2>2, <2>3
<1>5. PICK v : v = Skip(links, gone, s)
  OBVIOUS
<1>6. NextLeft(U \ gone, key, s, v)
  BY <1>2, <1>3, <1>4, <1>5, SkipFinds
<1>7. Prevs(hs, n, gone)[s] = v
  BY <1>1, <1>5 DEF Prevs
<1>8. IF v = NULL THEN \A t \in U \ gone : hs[s].memory <= hs[t].memory
      ELSE /\ v \in U \ gone /\ hs[v].memory < hs[s].memory
           /\ \A t \in U \ gone : hs[t].memory <= hs[v].memory \/ hs[s].memory <= hs[t].memory
  <2>1. CASE v = NULL
    <3>1. \A t \in U \ gone : key[t] <= key[s]
      BY <1>6, <2>1 DEF NextLeft
    <3> QED
      BY <1>2, <2>1, <3>1
  <2>2. CASE v # NULL
    <3>1. /\ v \in U \ gone /\ key[s] < key[v]
          /\ \A t \in U \ gone : key[t] <= key[s] \/ key[v] <= key[t]
      BY <1>6, <2>2 DEF NextLeft
    <3>2. hs[v].memory < hs[s].memory
      BY <1>2, <3>1
    <3>3. ASSUME NEW t \in U \ gone
          PROVE  hs[t].memory <= hs[v].memory \/ hs[s].memory <= hs[t].memory
      <4>1. key[t] <= key[s] \/ key[v] <= key[t]
        BY <3>1
      <4>2. t \in U /\ v \in U /\ s \in U
        BY <1>2, <3>1
      <4>3. PICK a, b, c : a = hs[t].memory /\ b = hs[s].memory /\ c = hs[v].memory
        OBVIOUS
      <4>4. /\ a \in Nat /\ b \in Nat /\ c \in Nat
            /\ key[t] = 0 - a /\ key[s] = 0 - b /\ key[v] = 0 - c
        BY <1>2, <4>2, <4>3
      <4>5. a <= c \/ b <= a
        BY <4>1, <4>4
      <4> QED
        BY <4>3, <4>5
    <3> QED
      BY <2>2, <3>1, <3>2, <3>3
  <2> QED
    BY <2>1, <2>2
<1> QED
  BY <1>1, <1>7, <1>8


LEMMA WithdrawKeepsList ==
  ASSUME NEW n, NEW hs, Chain(hs, n), Merged(hs), NEW fb, Framed(fb),
         \A s \in InUse(hs) : ~Inside(fb, hs[s]),
         NEW gone, gone = Gone(hs, fb), NEW g,
         g = Shrunk(hs, n, fb, gone, Nexts(hs, n, gone), Prevs(hs, n, gone))
  PROVE  /\ Chain(g, n) /\ Merged(g) /\ InUse(g) \subseteq InUse(hs)
         /\ Covered(g) = {x \in Covered(hs) : ~InFb(fb, x)}
         /\ \A s \in InUse(hs) : \A x \in Nat :
               hs[s].memory <= x /\ x < EndOf(hs[s]) /\ ~InFb(fb, x) =>
                  /\ s \in InUse(g) /\ g[s].in_use = hs[s].in_use
                  /\ hs[s].memory <= g[s].memory /\ g[s].memory <= x /\ x < EndOf(g[s])
         /\ \A first : Lowest(hs, first) /\ hs[first].memory < fb.addr =>
               Lowest(g, first) /\ g[first].memory = hs[first].memory
<1> DEFINE U == InUse(hs)
           V == InUse(hs) \ gone
           M(x) == hs[x].memory
           N(x) == g[x].memory
<1>1. PICK nx, pv : nx = Nexts(hs, n, gone) /\ pv = Prevs(hs, n, gone)
  OBVIOUS
<1>2. gone \subseteq U
  BY DEF Gone
<1>3. ASSUME NEW s \in U
      PROVE  /\ IF nx[s] = NULL THEN \A t \in V : M(t) <= M(s)
                ELSE /\ nx[s] \in V /\ M(s) < M(nx[s])
                     /\ \A t \in V : M(t) <= M(s) \/ M(nx[s]) <= M(t)
             /\ IF pv[s] = NULL THEN \A t \in V : M(s) <= M(t)
                ELSE /\ pv[s] \in V /\ M(pv[s]) < M(s)
                     /\ \A t \in V : M(t) <= M(pv[s]) \/ M(s) <= M(t)
  <2>1. IF nx[s] = NULL THEN \A t \in V : M(t) <= M(s)
        ELSE /\ nx[s] \in V /\ M(s) < M(nx[s])
             /\ \A t \in V : M(t) <= M(s) \/ M(nx[s]) <= M(t)
    BY <1>1, <1>2, NextsFound
  <2>2. IF pv[s] = NULL THEN \A t \in V : M(s) <= M(t)
        ELSE /\ pv[s] \in V /\ M(pv[s]) < M(s)
             /\ \A t \in V : M(t) <= M(pv[s]) \/ M(s) <= M(t)
    BY <1>1, <1>2, PrevsFound
  <2> QED
    BY <2>1, <2>2
<1>4. /\ n \in Nat /\ U \subseteq 1 .. n
      /\ \A s \in U : M(s) \in Nat /\ EndOf(hs[s]) \in Nat
  BY SlotFacts
<1>5. \A s \in U : nx[s] \in 0 .. n /\ pv[s] \in 0 .. n
  BY <1>3, <1>4 DEF NULL
<1>6. /\ Typed(g, n) /\ InUse(g) = V
      /\ \A s \in V :
            /\ g[s].next = nx[s] /\ g[s].prev = pv[s] /\ g[s].in_use = hs[s].in_use
            /\ g[s].size > 0 /\ g[s].memory % PageSize = 0 /\ g[s].size % PageSize = 0
            /\ hs[s].memory <= g[s].memory /\ EndOf(g[s]) <= EndOf(hs[s])
            /\ \A x \in Nat : (g[s].memory <= x /\ x < EndOf(g[s]))
                  <=> (hs[s].memory <= x /\ x < EndOf(hs[s]) /\ ~InFb(fb, x))
  <2>1. g = Shrunk(hs, n, fb, gone, nx, pv)
    BY <1>1
  <2> QED
    BY <1>5, <2>1, ShrunkFields
<1>7. \A s \in V : N(s) \in Nat /\ EndOf(g[s]) \in Nat /\ N(s) < EndOf(g[s])
  <2>1. ASSUME NEW s \in V PROVE g[s] \in Slots(n)
    BY <1>4, <1>6 DEF Typed
  <2> QED
    BY <1>6, <2>1 DEF Slots, EndOf
<1>8. ASSUME NEW s \in V, NEW t \in V, M(s) < M(t)
      PROVE  /\ EndOf(g[s]) <= N(t) /\ N(s) < N(t) /\ EndOf(g[s]) <= EndOf(hs[s])
             /\ EndOf(hs[s]) <= M(t) /\ M(t) <= N(t)
  <2>1. EndOf(hs[s]) <= M(t)
    BY <1>8, Ordered
  <2>2. EndOf(g[s]) <= EndOf(hs[s]) /\ M(t) <= N(t)
    BY <1>6
  <2> QED
    BY <1>4, <1>7, <2>1, <2>2
<1>9. ASSUME NEW s \in V, NEW t \in V, M(s) = M(t) PROVE s = t
  BY <1>9, Ordered
<1>10. Layout(g)
  <2>1. ASSUME NEW s \in V, NEW t \in V, s # t
        PROVE  EndOf(g[s]) <= g[t].memory \/ EndOf(g[t]) <= g[s].memory
    <3>1. M(s) < M(t) \/ M(t) < M(s)
      BY <1>4, <1>9, <2>1
    <3> QED
      BY <1>8, <3>1
  <2> QED
    BY <1>6, <2>1 DEF Layout
<1>11. \A s, t \in V : (M(s) <= M(t) => N(s) <= N(t)) /\ (M(s) < M(t) => N(s) < N(t))
  <2> SUFFICES ASSUME NEW s \in V, NEW t \in V
               PROVE  (M(s) <= M(t) => N(s) <= N(t)) /\ (M(s) < M(t) => N(s) < N(t))
    OBVIOUS
  <2>1. M(s) < M(t) => N(s) < N(t)
    BY <1>8
  <2>2. M(s) = M(t) => N(s) = N(t)
    BY <1>9
  <2> QED
    BY <1>4, <1>7, <2>1, <2>2
<1> HIDE DEF M, N
<1>12. ASSUME NEW s \in V PROVE IsNext(g, s, g[s].next)
  <2>1. PICK v : v = nx[s]
    OBVIOUS
  <2>2. /\ g[s].next = v
        /\ IF v = NULL THEN \A t \in V : M(t) <= M(s)
           ELSE v \in V /\ M(s) < M(v) /\ \A t \in V : M(t) <= M(s) \/ M(v) <= M(t)
    BY <1>3, <1>6, <2>1
  <2>3. IF v = NULL THEN \A t \in V : N(t) <= N(s)
        ELSE v \in V /\ N(s) < N(v) /\ \A t \in V : N(t) <= N(s) \/ N(v) <= N(t)
    BY <1>11, <2>2
  <2> QED
    BY <1>6, <2>2, <2>3 DEF IsNext, N
<1>13. ASSUME NEW s \in V PROVE IsPrev(g, s, g[s].prev)
  <2>1. PICK v : v = pv[s]
    OBVIOUS
  <2>2. /\ g[s].prev = v
        /\ IF v = NULL THEN \A t \in V : M(s) <= M(t)
           ELSE v \in V /\ M(v) < M(s) /\ \A t \in V : M(t) <= M(v) \/ M(s) <= M(t)
    BY <1>3, <1>6, <2>1
  <2>3. IF v = NULL THEN \A t \in V : N(s) <= N(t)
        ELSE v \in V /\ N(v) < N(s) /\ \A t \in V : N(t) <= N(v) \/ N(s) <= N(t)
    BY <1>11, <2>2
  <2> QED
    BY <1>6, <2>2, <2>3 DEF IsPrev, N
<1>14. Chain(g, n)
  BY <1>6, <1>10, <1>12, <1>13 DEF Chain
<1>15. Merged(g)
  <2> SUFFICES ASSUME NEW s \in V, NEW t \in V, Touching(g, s, t) PROVE FALSE
    BY <1>6 DEF Merged
  <2>1. ~g[s].in_use /\ ~g[t].in_use /\ N(t) = EndOf(g[s])
    BY DEF Touching, N
  <2>2. ~hs[s].in_use /\ ~hs[t].in_use
    BY <1>6, <2>1
  <2>3. N(s) < N(t)
    BY <1>7, <2>1
  <2>4. M(s) < M(t)
    BY <1>4, <1>7, <1>11, <2>3
  <2>5. EndOf(g[s]) <= EndOf(hs[s]) /\ EndOf(hs[s]) <= M(t) /\ M(t) <= N(t)
    BY <1>8, <2>4
  <2>6. M(t) = EndOf(hs[s])
    BY <1>4, <1>7, <2>1, <2>5
  <2>7. Touching(hs, s, t)
    BY <2>2, <2>6 DEF Touching, M
  <2> QED
    BY <2>7 DEF Merged
<1>16. ASSUME NEW s \in U, NEW x \in Nat, M(s) <= x, x < EndOf(hs[s]), ~InFb(fb, x)
       PROVE  /\ s \in V /\ g[s].in_use = hs[s].in_use
              /\ M(s) <= N(s) /\ N(s) <= x /\ x < EndOf(g[s])
  <2>1. s \notin gone
    <3> SUFFICES ASSUME s \in gone PROVE FALSE
      OBVIOUS
    <3>1. Covers(fb, hs[s])
      BY DEF Gone
    <3> QED
      BY <1>16, <3>1, CoveredTouches DEF M
  <2> QED
    BY <1>6, <1>16, <2>1 DEF M, N
<1>17. Covered(g) = {x \in Covered(hs) : ~InFb(fb, x)}
  <2>1. ASSUME NEW x \in Nat, NEW s \in V, N(s) <= x, x < EndOf(g[s])
        PROVE  M(s) <= x /\ x < EndOf(hs[s]) /\ ~InFb(fb, x)
    BY <1>6, <2>1 DEF M, N
  <2> QED
    BY <1>6, <1>16, <2>1 DEF Covered, M, N
<1>18. ASSUME NEW first, Lowest(hs, first), hs[first].memory < fb.addr
       PROVE  Lowest(g, first) /\ g[first].memory = hs[first].memory
  <2>1. first \in U /\ \A s \in U : M(first) <= M(s)
    BY <1>18 DEF Lowest, M
  <2>2. M(first) < EndOf(hs[first]) /\ M(first) \in Nat
    BY <1>4, <2>1, Ordered DEF M
  <2>3. ~InFb(fb, M(first))
    <3>1. fb.addr \in Nat
      BY DEF Framed, Page
    <3> QED
      BY <1>18, <2>2, <3>1 DEF InFb, M
  <2>4. first \in V /\ M(first) <= N(first) /\ N(first) <= M(first)
    BY <1>16, <2>1, <2>2, <2>3
  <2>5. N(first) = M(first)
    BY <1>7, <2>2, <2>4
  <2>6. \A s \in V : N(first) <= N(s)
    BY <1>11, <2>1, <2>4
  <2> QED
    BY <1>6, <2>4, <2>5, <2>6 DEF Lowest, M, N
<1>19. \A s \in InUse(hs) : \A x \in Nat :
          hs[s].memory <= x /\ x < EndOf(hs[s]) /\ ~InFb(fb, x) =>
             /\ s \in InUse(g) /\ g[s].in_use = hs[s].in_use
             /\ hs[s].memory <= g[s].memory /\ g[s].memory <= x /\ x < EndOf(g[s])
  BY <1>6, <1>16 DEF M, N
<1> QED
  BY <1>6, <1>14, <1>15, <1>17, <1>18, <1>19


LEMMA EnsureIs ==
  ASSUME NEW n, n = headers_allocated, Walkable(headers, n, first_header), NEW fb,
         NEW hs, hs = headers, NEW gone, gone = Gone(hs, fb)
  PROVE  ensure_not_allocatable(fb)
            = Shrunk(hs, n, fb, gone, Nexts(hs, n, gone), Prevs(hs, n, gone))
<1>1. PICK first : first = first_header
  OBVIOUS
<1>2. Listed(hs, first) = InUse(hs)
  BY <1>1, WalkMeetsAll DEF Walkable
<1>3. DOMAIN hs = 1 .. n
  BY SlotFacts DEF Walkable
<1>4. PICK nexts, prevs : /\ nexts = [s \in 1 .. n |-> hs[s].next]
                          /\ prevs = [s \in 1 .. n |-> hs[s].prev]
  OBVIOUS
<1>5. ensure_not_allocatable(fb) =
         [s \in 1 .. n |->
            IF s \notin InUse(hs) THEN hs[s]
            ELSE [Withdraw(fb, hs[s]) EXCEPT
                    !.next = IF s \in gone THEN @ ELSE Skip(nexts, gone, s),
                    !.prev = Skip(prevs, gone, s)]]
  BY <1>1, <1>2, <1>3, <1>4 DEF ensure_not_allocatable, Gone
<1>6. PICK nx, pv : nx = Nexts(hs, n, gone) /\ pv = Prevs(hs, n, gone)
  OBVIOUS
<1>7. \A s \in InUse(hs) : nx[s] = Skip(nexts, gone, s) /\ pv[s] = Skip(prevs, gone, s)
  BY <1>4, <1>6 DEF Nexts, Prevs
<1>8. ensure_not_allocatable(fb) = Shrunk(hs, n, fb, gone, nx, pv)
  BY <1>5, <1>7 DEF Shrunk
<1> QED
  BY <1>6, <1>8

LEMMA WithdrawStep ==
  ASSUME ProperInputs, ListInv, NEW fb \in Framebuffers, WithdrawFramebuffer(fb)
  PROVE  /\ ListInv' /\ areas' = areas /\ chunks' = chunks
         /\ \A s \in InUse(headers) : \A x \in Nat :
               headers[s].memory <= x /\ x < EndOf(headers[s]) /\ ~InFb(fb, x) =>
                  /\ s \in InUse(headers') /\ headers'[s].in_use = headers[s].in_use
                  /\ headers[s].memory <= headers'[s].memory
                  /\ headers'[s].memory <= x /\ x < EndOf(headers'[s])
<1>1. PICK n, hs, first, gone : /\ n = headers_allocated /\ hs = headers
                                /\ first = first_header /\ gone = Gone(headers, fb)
  OBVIOUS
<1>2. PICK g : g = Shrunk(hs, n, fb, gone, Nexts(hs, n, gone), Prevs(hs, n, gone))
  OBVIOUS
<1>3. Walkable(headers, n, first_header)
  BY <1>1, ListIsWalkable
<1>4. /\ headers' = g /\ framebuffers' = framebuffers \cup {fb} /\ areas' = areas
      /\ chunks' = chunks
      /\ UNCHANGED <<first_header, headers_in_use, headers_allocated, wild_next, status>>
  <2>1. ensure_not_allocatable(fb) = g
    BY <1>1, <1>2, <1>3, EnsureIs
  <2> QED
    BY <2>1 DEF WithdrawFramebuffer
<1>5. \A s \in InUse(hs) : ~Inside(fb, hs[s])
  <2>1. Listed(hs, first) = InUse(hs)
    BY <1>1, <1>3, WalkMeetsAll DEF Walkable
  <2> QED
    BY <1>1, <2>1 DEF WithdrawFramebuffer
<1>6. Framed(fb) /\ fb.addr > Regions[1].memory
  BY DEF ProperInputs, Framed
<1>7. /\ Chain(hs, n) /\ Merged(hs) /\ gone = Gone(hs, fb)
      /\ Lowest(hs, first) /\ hs[first].memory = Regions[1].memory
      /\ Cardinality(InUse(hs)) <= headers_in_use /\ headers_in_use \in Nat
      /\ headers_in_use < n /\ Covered(hs) = Ram \ Withdrawn(framebuffers)
  BY <1>1 DEF ListInv
<1>8. /\ Chain(g, n) /\ Merged(g) /\ InUse(g) \subseteq InUse(hs)
      /\ Covered(g) = {x \in Covered(hs) : ~InFb(fb, x)}
      /\ \A s \in InUse(hs) : \A x \in Nat :
            hs[s].memory <= x /\ x < EndOf(hs[s]) /\ ~InFb(fb, x) =>
               /\ s \in InUse(g) /\ g[s].in_use = hs[s].in_use
               /\ hs[s].memory <= g[s].memory /\ g[s].memory <= x /\ x < EndOf(g[s])
      /\ \A f : Lowest(hs, f) /\ hs[f].memory < fb.addr =>
            Lowest(g, f) /\ g[f].memory = hs[f].memory
  BY <1>2, <1>5, <1>6, <1>7, WithdrawKeepsList
<1>9. Lowest(g, first) /\ g[first].memory = Regions[1].memory
  <2>1. hs[first].memory \in Nat /\ fb.addr \in Nat
    BY <1>6, <1>7, SlotFacts DEF Lowest, Framed, Page
  <2>2. hs[first].memory < fb.addr
    BY <1>6, <1>7, <2>1
  <2> QED
    BY <1>7, <1>8, <2>2
<1>10. Cardinality(InUse(g)) <= headers_in_use
  <2>1. IsFiniteSet(InUse(hs)) /\ Cardinality(InUse(hs)) \in Nat
    BY <1>7, CountedInUse
  <2>2. Cardinality(InUse(g)) \in Nat
    BY <1>8, CountedInUse
  <2>3. Cardinality(InUse(g)) <= Cardinality(InUse(hs))
    BY <1>8, <2>1, FS_Subset
  <2> QED
    BY <1>7, <2>1, <2>2, <2>3
<1>11. Covered(g) = Ram \ Withdrawn(framebuffers')
  <2>1. Withdrawn(framebuffers') = Withdrawn(framebuffers) \cup {x \in Nat : InFb(fb, x)}
    BY <1>4 DEF Withdrawn, InFb
  <2>2. Ram \subseteq Nat
    BY DEF Ram
  <2> QED
    BY <1>7, <1>8, <2>1, <2>2
<1>12. ListInv'
  <2>1. /\ headers_in_use \in Nat /\ wild_next \in BOOLEAN /\ headers_in_use < headers_allocated
        /\ status \in {"ok", "abort", "fault"} /\ framebuffers \subseteq Framebuffers
    BY DEF ListInv
  <2>2. /\ headers_in_use' = headers_in_use /\ wild_next' = wild_next
        /\ headers_allocated' = n /\ status' = status /\ first_header' = first
    BY <1>1, <1>4
  <2>3. framebuffers' \subseteq Framebuffers
    BY <1>4, <2>1
  <2>4. Cardinality(InUse(headers')) <= headers_in_use' /\ headers_in_use' < n
    BY <1>4, <1>7, <1>10, <2>2
  <2> QED
    BY <1>4, <1>8, <1>9, <1>11, <2>1, <2>2, <2>3, <2>4 DEF ListInv
<1> QED
  BY <1>1, <1>4, <1>8, <1>12


-----------------------------------------------------------------------------
(* The invariant of the list.                                              *)

LEMMA RegionsApart ==
  ASSUME ProperInputs, NEW i \in 1 .. Len(Regions)
  PROVE  /\ Regions[i].memory \in Nat /\ Regions[i].size \in Nat /\ RegionEnd(i) \in Nat
         /\ Regions[i].memory % PageSize = 0 /\ Regions[i].size % PageSize = 0
         /\ Regions[i].size > 0 /\ Regions[i].memory < RegionEnd(i)
         /\ RegionEnd(i) = Regions[i].memory + Regions[i].size
         /\ RegionEnd(i) + PageSize <= WordSize
         /\ \A j \in 1 .. Len(Regions) : i < j => /\ RegionEnd(i) < Regions[j].memory
                                                  /\ Regions[i].memory < Regions[j].memory
<1>1. /\ Regions[i].memory \in Nat /\ Regions[i].size \in Nat
      /\ Regions[i].memory % PageSize = 0 /\ Regions[i].size % PageSize = 0
      /\ Regions[i].size > 0 /\ RegionEnd(i) + PageSize <= WordSize
  BY DEF ProperInputs, Page
<1>2. RegionEnd(i) \in Nat /\ Regions[i].memory < RegionEnd(i)
      /\ RegionEnd(i) = Regions[i].memory + Regions[i].size
  BY <1>1 DEF RegionEnd
<1>3. ASSUME NEW j \in 1 .. Len(Regions), i < j
      PROVE  RegionEnd(i) < Regions[j].memory /\ Regions[i].memory < Regions[j].memory
  <2>1. Regions[j].memory \in Nat /\ RegionEnd(i) < Regions[j].memory
    BY <1>3 DEF ProperInputs, Page
  <2> QED
    BY <1>1, <1>2, <2>1
<1> QED
  BY <1>1, <1>2, <1>3

LEMMA ListInit ==
  ASSUME ProperInputs, Init
  PROVE  ListInv
<1>1. PICK R, n, hs : R = Len(Regions) /\ n = HeadersPerChunk /\ hs = headers
  OBVIOUS
<1>2. R \in Nat /\ n \in Nat /\ 1 <= R /\ R < n
  BY <1>1, ChunkAssumption
<1>3. hs = [s \in 1 .. n |->
               IF s > R THEN UnusedSlot
               ELSE [next |-> IF s = R THEN NULL ELSE s + 1, prev |-> s - 1,
                     memory |-> Regions[s].memory, size |-> Regions[s].size,
                     in_use |-> FALSE, header_in_use |-> TRUE]]
  BY <1>1 DEF Init
<1>4. /\ first_header = 1 /\ headers_in_use = R /\ headers_allocated = n
      /\ wild_next = FALSE /\ status = "ok" /\ framebuffers = {}
  BY <1>1 DEF Init
<1>5. ASSUME NEW s \in 1 .. R
      PROVE  /\ hs[s] \in Slots(n) /\ hs[s].header_in_use /\ ~hs[s].in_use
             /\ hs[s].memory = Regions[s].memory /\ hs[s].size = Regions[s].size
             /\ hs[s].next = (IF s = R THEN NULL ELSE s + 1) /\ hs[s].prev = s - 1
  <2>1. PICK u, p, m, z : /\ u = IF s = R THEN NULL ELSE s + 1
                          /\ p = s - 1 /\ m = Regions[s].memory /\ z = Regions[s].size
    OBVIOUS
  <2>2. u \in 0 .. n /\ p \in 0 .. n /\ m \in Nat /\ z \in Nat
    BY <1>1, <1>2, <2>1, RegionsApart DEF NULL
  <2>3. hs[s] = [next |-> u, prev |-> p, memory |-> m, size |-> z, in_use |-> FALSE,
                 header_in_use |-> TRUE]
    BY <1>2, <1>3, <2>1
  <2> QED
    BY <2>1, <2>2, <2>3 DEF Slots
<1>6. \A s \in 1 .. n : s > R => hs[s] = UnusedSlot
  BY <1>3
<1>7. Typed(hs, n)
  <2>1. \A s \in 1 .. n : hs[s] \in Slots(n)
    <3> SUFFICES ASSUME NEW s \in 1 .. n PROVE hs[s] \in Slots(n)
      OBVIOUS
    <3>1. CASE s > R
      BY <1>2, <1>6, <3>1, UnusedIs
    <3>2. CASE ~(s > R)
      <4>1. s \in 1 .. R
        BY <1>2, <3>2
      <4> QED
        BY <1>5, <4>1
    <3> QED
      BY <3>1, <3>2
  <2>2. hs = [s \in 1 .. n |-> hs[s]]
    BY <1>3
  <2> QED
    BY <1>2, <2>1, <2>2 DEF Typed
<1>8. InUse(hs) = 1 .. R
  <2>1. DOMAIN hs = 1 .. n
    BY <1>3
  <2>2. \A s \in 1 .. n : s \in 1 .. R \/ s > R
    BY <1>2
  <2>3. ~UnusedSlot.header_in_use
    BY UnusedIs
  <2>4. 1 .. R \subseteq 1 .. n
    BY <1>2
  <2> QED
    BY <1>5, <1>6, <2>1, <2>2, <2>3, <2>4 DEF InUse
<1>9. ASSUME NEW s \in 1 .. R
      PROVE  /\ hs[s].memory \in Nat /\ hs[s].size \in Nat /\ EndOf(hs[s]) = RegionEnd(s)
             /\ hs[s].memory % PageSize = 0 /\ hs[s].size % PageSize = 0
             /\ hs[s].size > 0 /\ hs[s].memory < RegionEnd(s) /\ RegionEnd(s) \in Nat
             /\ \A t \in 1 .. R : s < t => /\ RegionEnd(s) < hs[t].memory
                                           /\ hs[s].memory < hs[t].memory
  <2>1. EndOf(hs[s]) = RegionEnd(s)
    BY <1>5 DEF EndOf, RegionEnd
  <2>2. s \in 1 .. Len(Regions)
    BY <1>1
  <2> QED
    BY <1>1, <1>5, <2>1, <2>2, RegionsApart
<1>10. Layout(hs)
  <2>1. ASSUME NEW s \in 1 .. R, NEW t \in 1 .. R, s # t
        PROVE  EndOf(hs[s]) <= hs[t].memory \/ EndOf(hs[t]) <= hs[s].memory
    <3>1. s < t \/ t < s
      BY <1>2, <2>1
    <3>2. s < t => EndOf(hs[s]) <= hs[t].memory
      BY <1>9
    <3>3. t < s => EndOf(hs[t]) <= hs[s].memory
      BY <1>9
    <3> QED
      BY <3>1, <3>2, <3>3
  <2> QED
    BY <1>8, <1>9, <2>1 DEF Layout
<1>11. \A s, t \in 1 .. R : s <= t => hs[s].memory <= hs[t].memory
  <2> SUFFICES ASSUME NEW s \in 1 .. R, NEW t \in 1 .. R, s <= t
               PROVE  hs[s].memory <= hs[t].memory
    OBVIOUS
  <2>1. CASE s = t
    BY <1>9, <2>1
  <2>2. CASE s # t
    <3>1. s < t /\ hs[s].memory \in Nat /\ hs[t].memory \in Nat
      BY <1>2, <1>9, <2>2
    <3>2. hs[s].memory < hs[t].memory
      BY <1>9, <3>1
    <3> QED
      BY <3>1, <3>2
  <2> QED
    BY <2>1, <2>2
<1>12. ASSUME NEW s \in 1 .. R PROVE IsNext(hs, s, hs[s].next)
  <2>1. CASE s = R
    <3>1. hs[s].next = NULL /\ \A t \in 1 .. R : t <= s
      BY <1>2, <1>5, <2>1
    <3> QED
      BY <1>8, <1>11, <3>1 DEF IsNext
  <2>2. CASE s # R
    <3>1. PICK u : u = s + 1
      OBVIOUS
    <3>2. u \in 1 .. R /\ s < u /\ u # NULL /\ hs[s].next = u
      BY <1>2, <1>5, <2>2, <3>1 DEF NULL
    <3>3. \A t \in 1 .. R : t <= s \/ u <= t
      BY <1>2, <3>1
    <3>4. hs[s].memory < hs[u].memory
      BY <1>9, <3>2
    <3>5. \A t \in 1 .. R : hs[t].memory <= hs[s].memory \/ hs[u].memory <= hs[t].memory
      BY <1>11, <3>2, <3>3
    <3> QED
      BY <1>8, <3>2, <3>4, <3>5 DEF IsNext
  <2> QED
    BY <2>1, <2>2
<1>13. ASSUME NEW s \in 1 .. R PROVE IsPrev(hs, s, hs[s].prev)
  <2>1. CASE s = 1
    <3>1. hs[s].prev = NULL /\ \A t \in 1 .. R : s <= t
      BY <1>2, <1>5, <2>1 DEF NULL
    <3> QED
      BY <1>8, <1>11, <3>1 DEF IsPrev
  <2>2. CASE s # 1
    <3>1. PICK u : u = s - 1
      OBVIOUS
    <3>2. u \in 1 .. R /\ u < s /\ u # NULL /\ hs[s].prev = u
      BY <1>2, <1>5, <2>2, <3>1 DEF NULL
    <3>3. \A t \in 1 .. R : t <= u \/ s <= t
      BY <1>2, <3>1
    <3>4. hs[u].memory < hs[s].memory
      BY <1>9, <3>2
    <3>5. \A t \in 1 .. R : hs[t].memory <= hs[u].memory \/ hs[s].memory <= hs[t].memory
      BY <1>11, <3>2, <3>3
    <3> QED
      BY <1>8, <3>2, <3>4, <3>5 DEF IsPrev
  <2> QED
    BY <2>1, <2>2
<1>14. Chain(hs, n)
  BY <1>7, <1>8, <1>10, <1>12, <1>13 DEF Chain
<1>15. Lowest(hs, 1) /\ hs[1].memory = Regions[1].memory
  <2>1. 1 \in 1 .. R /\ \A s \in 1 .. R : 1 <= s
    BY <1>2
  <2> QED
    BY <1>5, <1>8, <1>11, <2>1 DEF Lowest
<1>16. Merged(hs)
  <2> SUFFICES ASSUME NEW s \in 1 .. R, NEW t \in 1 .. R, Touching(hs, s, t) PROVE FALSE
    BY <1>8 DEF Merged
  <2>1. hs[t].memory = RegionEnd(s)
    BY <1>9 DEF Touching
  <2>2. /\ s < t => RegionEnd(s) < hs[t].memory
        /\ t <= s => hs[t].memory <= hs[s].memory
    BY <1>9, <1>11
  <2>3. hs[s].memory < RegionEnd(s) /\ hs[s].memory \in Nat /\ RegionEnd(s) \in Nat
        /\ hs[t].memory \in Nat
    BY <1>9
  <2>4. s < t \/ t <= s
    BY <1>2
  <2> QED
    BY <2>1, <2>2, <2>3, <2>4
<1>17. Cardinality(InUse(hs)) = R
  BY <1>2, <1>8, FS_Interval
<1>18. Covered(hs) = Ram \ Withdrawn(framebuffers)
  <2>1. Withdrawn(framebuffers) = {}
    BY <1>4 DEF Withdrawn
  <2>2. \A s \in 1 .. R : hs[s].memory = Regions[s].memory /\ EndOf(hs[s]) = RegionEnd(s)
    BY <1>5, <1>9
  <2>3. Covered(hs) = Ram
    BY <1>1, <1>8, <2>2 DEF Covered, Ram
  <2> QED
    BY <2>1, <2>3
<1>19. /\ headers_in_use \in Nat /\ wild_next \in BOOLEAN
       /\ status \in {"ok", "abort", "fault"} /\ framebuffers \subseteq Framebuffers
       /\ Cardinality(InUse(headers)) <= headers_in_use
       /\ headers_in_use < headers_allocated
  <2>1. Cardinality(InUse(headers)) <= headers_in_use /\ headers_in_use \in Nat
    BY <1>1, <1>2, <1>4, <1>17
  <2>2. headers_in_use < headers_allocated
    BY <1>2, <1>4
  <2>3. wild_next \in BOOLEAN /\ status \in {"ok", "abort", "fault"}
        /\ framebuffers \subseteq Framebuffers
    BY <1>4
  <2> QED
    BY <2>1, <2>2, <2>3
<1>20. /\ Chain(headers, headers_allocated) /\ Lowest(headers, first_header)
       /\ headers[first_header].memory = Regions[1].memory /\ Merged(headers)
  BY <1>1, <1>4, <1>14, <1>15, <1>16
<1>21. Covered(headers) = Ram \ Withdrawn(framebuffers)
  BY <1>1, <1>18
<1> QED
  BY <1>19, <1>20, <1>21 DEF ListInv

\* Steps that leave the list alone.
LEMMA ListStays ==
  ASSUME ListInv, status' \in {"ok", "abort", "fault"},
         UNCHANGED <<headers, first_header, headers_in_use, headers_allocated, wild_next,
                     framebuffers>>
  PROVE  ListInv'
  BY DEF ListInv

LEMMA ListNext ==
  ASSUME ProperInputs, ListInv, [Next]_vars
  PROVE  ListInv'
<1>1. ASSUME NEW len \in Lengths, AcquireArea(len) PROVE ListInv'
  BY <1>1, AcquireStep
<1>2. ASSUME NEW addr \in ReserveAddrs, NEW len \in Lengths, ReserveArea(addr, len)
      PROVE  ListInv'
  BY <1>2, ReserveStep
<1>3. ASSUME NEW area \in areas, FreeArea(area) PROVE ListInv'
  BY <1>3, FreeStep
<1>4. ASSUME NEW area \in areas, FreeInvalid(area) PROVE ListInv'
  <2>1. status' \in {"ok", "abort", "fault"}
    BY <1>4 DEF FreeInvalid, ListInv
  <2> QED
    BY <1>4, <2>1, ListStays DEF FreeInvalid
<1>5. ASSUME NEW area \in areas, FreeAbort(area) PROVE ListInv'
  BY <1>5, ListStays DEF FreeAbort
<1>6. ASSUME NEW fb \in Framebuffers, WithdrawFramebuffer(fb) PROVE ListInv'
  BY <1>6, WithdrawStep
<1>7. ASSUME NEW fb \in Framebuffers, WithdrawAbort(fb) PROVE ListInv'
  BY <1>7, ListStays DEF WithdrawAbort
<1>8. CASE AssertFails
  BY <1>8, ListStays DEF AssertFails
<1>9. CASE UNCHANGED vars
  <2>1. status' \in {"ok", "abort", "fault"}
    BY <1>9 DEF ListInv, vars
  <2> QED
    BY <1>9, <2>1, ListStays DEF vars
<1> QED
  BY <1>1, <1>2, <1>3, <1>4, <1>5, <1>6, <1>7, <1>8, <1>9 DEF Next, Stopped


\* The list, the accounts and the memory they cover keep the invariant ListInv,
\* whatever is acquired, reserved, freed and withdrawn, in whatever order.
THEOREM PhysMemInvariant ==
  ASSUME ProperInputs
  PROVE  Spec => []ListInv
<1>1. Init => ListInv
  BY ListInit
<1>2. ListInv /\ [Next]_vars => ListInv'
  BY ListNext
<1> QED
  BY <1>1, <1>2, PTL DEF Spec

LEMMA ListTyped ==
  ASSUME ListInv
  PROVE  TypeOK
<1>1. PICK hs, n : hs = headers /\ n = headers_allocated
  OBVIOUS
<1>2. Chain(hs, n) /\ Lowest(hs, first_header)
  BY <1>1 DEF ListInv
<1>3. /\ n \in Nat /\ DOMAIN hs = 1 .. n /\ InUse(hs) \subseteq 1 .. n
      /\ \A s \in 1 .. n : /\ hs[s].memory \in Nat /\ hs[s].size \in Nat
                           /\ hs[s].next \in 0 .. n /\ hs[s].prev \in 0 .. n
                           /\ hs[s].in_use \in BOOLEAN /\ hs[s].header_in_use \in BOOLEAN
  BY <1>2, SlotFacts
<1>4. first_header \in 1 .. n
  BY <1>2, <1>3 DEF Lowest
<1>5. /\ headers_in_use \in Nat /\ wild_next \in BOOLEAN
      /\ status \in {"ok", "abort", "fault"} /\ framebuffers \subseteq Framebuffers
  BY DEF ListInv
<1> QED
  BY <1>1, <1>3, <1>4, <1>5 DEF TypeOK

\* Every variable of the manager keeps its type: links stay among the slots
\* there are, and first_header is one of them.
THEOREM PhysMemTypeCorrect ==
  ASSUME ProperInputs
  PROVE  Spec => []TypeOK
<1>1. ListInv => TypeOK
  BY ListTyped
<1> QED
  BY <1>1, PhysMemInvariant, PTL

LEMMA ListInOrder ==
  ASSUME ListInv
  PROVE  ListConsistent
<1>1. PICK hs, n, first : hs = headers /\ n = headers_allocated /\ first = first_header
  OBVIOUS
<1>2. Chain(hs, n) /\ Lowest(hs, first)
  BY <1>1 DEF ListInv
<1>3. Cardinality(InUse(hs)) < n
  BY <1>1, ListIsWalkable DEF Walkable
<1>4. Listed(hs, first) = InUse(hs)
  BY <1>2, <1>3, WalkMeetsAll
<1>5. Used = InUse(hs)
  BY <1>1 DEF Used, InUse
<1>6. hs[first].prev = NULL
  <2>1. PICK p : p = hs[first].prev
    OBVIOUS
  <2>2. SUFFICES ASSUME p # NULL PROVE FALSE
    BY <2>1
  <2>3. first \in InUse(hs) /\ p \in InUse(hs) /\ hs[p].memory < hs[first].memory
    BY <1>2, <2>1, <2>2, Inverse2 DEF Lowest
  <2>4. hs[first].memory <= hs[p].memory
    BY <1>2, <2>3 DEF Lowest
  <2>5. hs[first].memory \in Nat /\ hs[p].memory \in Nat
    BY <1>2, <2>3, SlotFacts
  <2> QED
    BY <2>3, <2>4, <2>5
<1>7. \A s \in InUse(hs) : hs[s].next # NULL =>
         hs[hs[s].next].prev = s /\ EndOf(hs[s]) <= hs[hs[s].next].memory
  BY <1>2, Inverse1
<1>8. Cardinality(InUse(hs)) <= headers_in_use /\ headers_in_use < headers_allocated
  BY <1>1 DEF ListInv
<1> QED
  BY <1>1, <1>4, <1>5, <1>6, <1>7, <1>8 DEF ListConsistent

\* next and prev describe one list of exactly the slots in use, in the order of
\* memory, after any splits, merges and withdrawals; and headers_in_use, which
\* decides when to get another chunk, never counts too few.
THEOREM PhysMemListConsistent ==
  ASSUME ProperInputs
  PROVE  Spec => []ListConsistent
<1>1. ListInv => ListConsistent
  BY ListInOrder
<1> QED
  BY <1>1, PhysMemInvariant, PTL

-----------------------------------------------------------------------------
(* Memory.                                                                 *)

LEMMA BytesOf ==
  ASSUME NEW S, \A r \in S : r.addr \in Nat /\ r.len \in Nat
  PROVE  Bytes(S) = {x \in Nat : \E r \in S : r.addr <= x /\ x < r.addr + r.len}
<1>1. \A r \in S : \A x : x \in r.addr .. (r.addr + r.len - 1) <=>
                          x \in Nat /\ r.addr <= x /\ x < r.addr + r.len
  OBVIOUS
<1>2. \A x : x \in Bytes(S) <=> \E r \in S : x \in r.addr .. (r.addr + r.len - 1)
  BY DEF Bytes
<1> QED
  BY <1>1, <1>2

\* The bytes of the regions are the Ram.
LEMMA RamBytes ==
  ASSUME ProperInputs
  PROVE  Bytes({RangeOf(Regions[i]) : i \in DOMAIN Regions}) = Ram
<1>1. PICK S : S = {RangeOf(Regions[i]) : i \in DOMAIN Regions}
  OBVIOUS
<1>2. DOMAIN Regions = 1 .. Len(Regions)
  BY DEF ProperInputs
<1>3. \A i \in 1 .. Len(Regions) :
         /\ RangeOf(Regions[i]).addr = Regions[i].memory
         /\ RangeOf(Regions[i]).len = Regions[i].size
         /\ Regions[i].memory \in Nat /\ Regions[i].size \in Nat
         /\ RegionEnd(i) = Regions[i].memory + Regions[i].size
  BY RegionsApart DEF RangeOf
<1>4. Bytes(S) = {x \in Nat : \E r \in S : r.addr <= x /\ x < r.addr + r.len}
  <2>1. \A r \in S : r.addr \in Nat /\ r.len \in Nat
    BY <1>1, <1>2, <1>3
  <2> QED
    BY <2>1, BytesOf
<1>5. \A x : (\E r \in S : r.addr <= x /\ x < r.addr + r.len) <=>
             (\E i \in 1 .. Len(Regions) : Regions[i].memory <= x /\ x < RegionEnd(i))
  BY <1>1, <1>2, <1>3
<1> QED
  BY <1>1, <1>4, <1>5 DEF Ram

LEMMA HeaderBytes ==
  ASSUME NEW n, NEW hs, Chain(hs, n)
  PROVE  /\ Bytes({RangeOf(hs[s]) : s \in InUse(hs)}) = Covered(hs)
         /\ \A s \in InUse(hs) : \A x : x \in Bytes({RangeOf(hs[s])}) <=>
               x \in Nat /\ hs[s].memory <= x /\ x < EndOf(hs[s])
<1>1. \A s \in InUse(hs) : /\ RangeOf(hs[s]).addr = hs[s].memory
                           /\ RangeOf(hs[s]).len = hs[s].size
                           /\ hs[s].memory \in Nat /\ hs[s].size \in Nat
                           /\ EndOf(hs[s]) = hs[s].memory + hs[s].size
  BY SlotFacts DEF RangeOf
<1>2. PICK S : S = {RangeOf(hs[s]) : s \in InUse(hs)}
  OBVIOUS
<1>3. Bytes(S) = {x \in Nat : \E r \in S : r.addr <= x /\ x < r.addr + r.len}
  BY <1>1, <1>2, BytesOf
<1>4. \A x : (\E r \in S : r.addr <= x /\ x < r.addr + r.len) <=>
             (\E s \in InUse(hs) : hs[s].memory <= x /\ x < EndOf(hs[s]))
  BY <1>1, <1>2
<1>5. Bytes(S) = Covered(hs)
  BY <1>3, <1>4 DEF Covered
<1>6. ASSUME NEW s \in InUse(hs), NEW x
      PROVE  x \in Bytes({RangeOf(hs[s])}) <=>
                x \in Nat /\ hs[s].memory <= x /\ x < EndOf(hs[s])
  <2>1. PICK T : T = {RangeOf(hs[s])}
    OBVIOUS
  <2>2. Bytes(T) = {y \in Nat : \E r \in T : r.addr <= y /\ y < r.addr + r.len}
    BY <1>1, <2>1, BytesOf
  <2> QED
    BY <1>1, <2>1, <2>2
<1> QED
  BY <1>2, <1>5, <1>6

LEMMA MemoryKept ==
  ASSUME ProperInputs, ListInv
  PROVE  MemoryConserved
<1>1. PICK hs, n : hs = headers /\ n = headers_allocated
  OBVIOUS
<1>2. Chain(hs, n)
  BY <1>1 DEF ListInv
<1>3. Used = InUse(hs)
  BY <1>1 DEF Used, InUse
<1>4. Covered(hs) = Ram \ Withdrawn(framebuffers) /\ framebuffers \subseteq Framebuffers
  BY <1>1 DEF ListInv
<1>5. Bytes(framebuffers) = Withdrawn(framebuffers)
  <2>1. \A r \in framebuffers : r.addr \in Nat /\ r.len \in Nat
    BY <1>4 DEF ProperInputs, Page
  <2>2. Bytes(framebuffers)
           = {x \in Nat : \E r \in framebuffers : r.addr <= x /\ x < r.addr + r.len}
    BY <2>1, BytesOf
  <2> QED
    BY <2>2 DEF Withdrawn
<1>6. ASSUME NEW s \in InUse(hs), NEW t \in InUse(hs), s # t
      PROVE  Bytes({RangeOf(hs[s])}) \cap Bytes({RangeOf(hs[t])}) = {}
  <2>1. EndOf(hs[s]) <= hs[t].memory \/ EndOf(hs[t]) <= hs[s].memory
    BY <1>2, <1>6 DEF Chain, Layout
  <2>2. /\ hs[s].memory \in Nat /\ EndOf(hs[s]) \in Nat
        /\ hs[t].memory \in Nat /\ EndOf(hs[t]) \in Nat
    BY <1>2, SlotFacts
  <2>3. \A x \in Nat : ~(/\ hs[s].memory <= x /\ x < EndOf(hs[s])
                         /\ hs[t].memory <= x /\ x < EndOf(hs[t]))
    BY <2>1, <2>2
  <2> QED
    BY <1>2, <2>3, HeaderBytes
<1>7. Bytes({RangeOf(hs[s]) : s \in InUse(hs)})
         = Bytes({RangeOf(Regions[i]) : i \in DOMAIN Regions}) \ Bytes(framebuffers)
  BY <1>2, <1>4, <1>5, HeaderBytes, RamBytes
<1> QED
  BY <1>1, <1>3, <1>6, <1>7 DEF MemoryConserved

\* Splits and merges neither lose nor duplicate memory: the headers in use
\* cover the RAM start_phys_mem_manager found, without overlap, and nothing
\* else, except what ensure_not_allocatable took out.
THEOREM PhysMemMemoryConserved ==
  ASSUME ProperInputs
  PROVE  Spec => []MemoryConserved
<1>1. ListInv => MemoryConserved
  BY MemoryKept
<1> QED
  BY <1>1, PhysMemInvariant, PTL

\* free_mem_area leaves no two free headers that touch, so a request fails for
\* fragmentation only where somebody holds the memory between.
THEOREM PhysMemCoalesced ==
  ASSUME ProperInputs
  PROVE  Spec => []Coalesced
<1>1. ASSUME ListInv PROVE Coalesced
  BY <1>1 DEF ListInv, Merged, Touching, Coalesced, Used, InUse
<1> QED
  BY <1>1, PhysMemInvariant, PTL


-----------------------------------------------------------------------------
(* Who holds what.                                                         *)

\* No header goes beyond the regions, so rounding up its end does not wrap.
LEMMA EndBelow ==
  ASSUME ProperInputs, ListInv, NEW s \in InUse(headers)
  PROVE  /\ EndOf(headers[s]) + PageSize <= WordSize
         /\ \A x \in Nat : headers[s].memory <= x /\ x < EndOf(headers[s]) => x \in Ram
<1>1. PICK hs, n : hs = headers /\ n = headers_allocated
  OBVIOUS
<1>2. Chain(hs, n) /\ Covered(hs) = Ram \ Withdrawn(framebuffers) /\ s \in InUse(hs)
  BY <1>1 DEF ListInv
<1>3. /\ hs[s].memory \in Nat /\ EndOf(hs[s]) \in Nat /\ hs[s].memory < EndOf(hs[s])
  BY <1>2, SlotFacts, Ordered
<1>4. \A x \in Nat : hs[s].memory <= x /\ x < EndOf(hs[s]) => x \in Ram
  BY <1>2 DEF Covered
<1>5. PICK y : y = EndOf(hs[s]) - 1
  OBVIOUS
<1>6. y \in Nat /\ hs[s].memory <= y /\ y < EndOf(hs[s]) /\ EndOf(hs[s]) = y + 1
  BY <1>3, <1>5
<1>7. PICK i \in 1 .. Len(Regions) : y < RegionEnd(i)
  BY <1>4, <1>6 DEF Ram
<1>8. RegionEnd(i) \in Nat /\ RegionEnd(i) + PageSize <= WordSize
  BY RegionsApart
<1>9. PageSize \in Nat /\ WordSize \in Nat
  BY PageAssumption
<1>10. EndOf(hs[s]) + PageSize <= WordSize
  BY <1>3, <1>6, <1>7, <1>8, <1>9
<1> QED
  BY <1>1, <1>4, <1>10

\* What is reserved by the address of a region's start begins a header: the
\* byte before it is not RAM.
LEMMA ReservedAtStart ==
  ASSUME ProperInputs, ProperReserves, ListInv, NEW addr \in ReserveAddrs,
         NEW h \in InUse(headers),
         headers[h].memory <= addr, addr <= EndOf(headers[h])
  PROVE  headers[h].memory = addr
<1>1. PICK m, e : m = headers[h].memory /\ e = EndOf(headers[h])
  OBVIOUS
<1>2. m \in Nat /\ e \in Nat /\ m <= addr /\ addr <= e
  <2>1. Chain(headers, headers_allocated)
    BY DEF ListInv
  <2> QED
    BY <1>1, <2>1, SlotFacts
<1>3. PICK i \in 1 .. Len(Regions) : addr = Regions[i].memory
  BY DEF ProperReserves
<1>4. addr \in Nat
  BY <1>3, RegionsApart
<1>5. SUFFICES ASSUME m # addr PROVE FALSE
  BY <1>1
<1>6. PICK y : y = addr - 1
  OBVIOUS
<1>7. y \in Nat /\ m <= y /\ y < e /\ addr = y + 1
  BY <1>2, <1>4, <1>5, <1>6
<1>8. y \in Ram
  BY <1>1, <1>7, EndBelow
<1>9. PICK j \in 1 .. Len(Regions) : Regions[j].memory <= y /\ y < RegionEnd(j)
  BY <1>8 DEF Ram
<1>10. Regions[j].memory \in Nat /\ RegionEnd(j) \in Nat
  BY RegionsApart
<1>11. Regions[j].memory < addr /\ addr <= RegionEnd(j)
  BY <1>7, <1>9, <1>10
<1>12. CASE i < j
  <2>1. addr < Regions[j].memory
    BY <1>3, <1>12, RegionsApart
  <2> QED
    BY <1>4, <1>10, <1>11, <2>1
<1>13. CASE j < i
  <2>1. RegionEnd(j) < addr
    BY <1>3, <1>13, RegionsApart
  <2> QED
    BY <1>4, <1>10, <1>11, <2>1
<1>14. CASE i = j
  BY <1>3, <1>4, <1>11, <1>14
<1>15. i < j \/ j < i \/ i = j
  BY ChunkAssumption
<1> QED
  BY <1>12, <1>13, <1>14, <1>15

\* get_mem_area gives its caller a header nobody holds.
LEMMA OwnClaimed ==
  ASSUME ListInv, OwnInv, NEW len \in Lengths, NEW h \in InUse(headers),
         Hands(h, headers[h].memory, len)
  PROVE  /\ OwnInv' /\ [addr |-> headers[h].memory, len |-> len] \notin areas
         /\ h \in InUse(headers')
         /\ headers'[h].memory = headers[h].memory
         /\ headers[h].memory + Up(len) <= EndOf(headers'[h])
<1>1. PICK hs, g, n, as, cs, bs, ds :
         /\ hs = headers /\ g = headers' /\ n = headers_allocated
         /\ as = areas /\ cs = chunks /\ bs = areas' /\ ds = chunks'
  OBVIOUS
<1>2. PICK new : new = [addr |-> hs[h].memory, len |-> len]
  OBVIOUS
<1>3. new.addr = hs[h].memory /\ new.len = len /\ new = [addr |-> new.addr, len |-> new.len]
  BY <1>2
<1>4. Chain(hs, n) /\ AreasOwned(hs, as) /\ ChunksOwned(hs, as, cs) /\ h \in InUse(hs)
  BY <1>1 DEF ListInv, OwnInv
<1>5. /\ ~hs[h].in_use /\ Keeps(hs, g) /\ Granted(hs, g, h, Up(len))
      /\ \A c \in ds : c \in cs \/ FromFree(hs, g, h, c)
      /\ bs = as \cup {new}
  BY <1>1, <1>2 DEF Hands
<1>6. \A a \in as : a.addr # new.addr
  <2> SUFFICES ASSUME NEW a \in as, a.addr = new.addr PROVE FALSE
    OBVIOUS
  <2>1. PICK s \in InUse(hs) : hs[s].in_use /\ hs[s].memory = a.addr
    BY <1>4 DEF AreasOwned
  <2>2. s = h
    BY <1>3, <1>4, <2>1, Ordered
  <2> QED
    BY <1>5, <2>1, <2>2
<1>7. \A c \in cs : c # new.addr
  <2> SUFFICES ASSUME NEW c \in cs, c = new.addr PROVE FALSE
    OBVIOUS
  <2>1. PICK s \in InUse(hs) : hs[s].in_use /\ hs[s].memory = c
    BY <1>4 DEF ChunksOwned
  <2>2. s = h
    BY <1>3, <1>4, <2>1, Ordered
  <2> QED
    BY <1>5, <2>1, <2>2
<1>8. \A a \in bs : a \in as \/ a = new
  BY <1>5
<1>9. AreasOwned(g, bs)
  <2>1. ASSUME NEW a \in bs
        PROVE  /\ a = [addr |-> a.addr, len |-> a.len] /\ a.len \in Lengths
               /\ \E s \in InUse(g) : /\ g[s].in_use /\ g[s].memory = a.addr
                                      /\ a.addr + Up(a.len) <= EndOf(g[s])
    <3>1. CASE a \in as
      <4>1. PICK s \in InUse(hs) : /\ hs[s].in_use /\ hs[s].memory = a.addr
                                   /\ a.addr + Up(a.len) <= EndOf(hs[s])
        BY <1>4, <3>1 DEF AreasOwned
      <4>2. s \in InUse(g) /\ g[s].in_use /\ g[s].memory = a.addr
            /\ a.addr + Up(a.len) <= EndOf(g[s])
        BY <1>5, <4>1 DEF Keeps
      <4> QED
        BY <1>4, <3>1, <4>2 DEF AreasOwned
    <3>2. CASE a = new
      BY <1>3, <1>5, <3>2 DEF Granted
    <3> QED
      BY <1>8, <3>1, <3>2
  <2>2. \A a, b \in bs : a.addr = b.addr => a = b
    BY <1>4, <1>6, <1>8 DEF AreasOwned
  <2> QED
    BY <2>1, <2>2 DEF AreasOwned
<1>10. ChunksOwned(g, bs, ds)
  <2>1. ASSUME NEW c \in ds
        PROVE  /\ \E s \in InUse(g) : g[s].in_use /\ g[s].memory = c
               /\ \A a \in bs : a.addr # c
    <3>1. CASE c \in cs
      <4>1. PICK s \in InUse(hs) : hs[s].in_use /\ hs[s].memory = c
        BY <1>4, <3>1 DEF ChunksOwned
      <4>2. s \in InUse(g) /\ g[s].in_use /\ g[s].memory = c
        BY <1>5, <4>1 DEF Keeps
      <4>3. \A a \in bs : a.addr # c
        BY <1>4, <1>7, <1>8, <3>1 DEF ChunksOwned
      <4> QED
        BY <4>2, <4>3
    <3>2. CASE FromFree(hs, g, h, c)
      <4>1. PICK s \in InUse(hs) : /\ s # h /\ ~hs[s].in_use /\ hs[s].memory = c
                                   /\ s \in InUse(g) /\ g[s].in_use /\ g[s].memory = c
        BY <3>2 DEF FromFree
      <4>2. new.addr # c
        BY <1>3, <1>4, <4>1, Ordered
      <4>3. ASSUME NEW a \in as, a.addr = c PROVE FALSE
        <5>1. PICK t \in InUse(hs) : hs[t].in_use /\ hs[t].memory = a.addr
          BY <1>4 DEF AreasOwned
        <5>2. s = t
          BY <1>4, <4>1, <4>3, <5>1, Ordered
        <5> QED
          BY <4>1, <5>1, <5>2
      <4> QED
        BY <1>8, <4>1, <4>2, <4>3
    <3> QED
      BY <1>5, <3>1, <3>2
  <2> QED
    BY <2>1 DEF ChunksOwned
<1>11. OwnInv'
  BY <1>1, <1>9, <1>10 DEF OwnInv
<1>12. new \notin as
  BY <1>6
<1> QED
  BY <1>1, <1>2, <1>5, <1>11, <1>12 DEF Granted

\* free_mem_area frees the header of the area, and no other holder's.
LEMMA OwnFreed ==
  ASSUME ListInv, OwnInv, NEW area \in areas, FreeArea(area)
  PROVE  OwnInv'
<1>1. PICK hs, g, n, as, cs : /\ hs = headers /\ g = headers' /\ n = headers_allocated
                              /\ as = areas /\ cs = chunks
  OBVIOUS
<1>2. Chain(hs, n) /\ AreasOwned(hs, as) /\ ChunksOwned(hs, as, cs) /\ area \in as
  BY <1>1 DEF ListInv, OwnInv
<1>3. areas' = as \ {area} /\ chunks' = cs
  BY <1>1, FreeStep
<1>4. PICK h \in InUse(hs) :
         /\ hs[h].memory <= area.addr /\ area.addr < EndOf(hs[h])
         /\ \A s \in InUse(hs) : hs[s].in_use /\ s # h =>
               /\ s \in InUse(g) /\ g[s].in_use
               /\ g[s].memory = hs[s].memory /\ EndOf(g[s]) = EndOf(hs[s])
  BY <1>1, FreeStep
<1>5. hs[h].memory = area.addr
  <2>1. PICK s \in InUse(hs) : hs[s].memory = area.addr
    BY <1>2 DEF AreasOwned
  <2>2. hs[h].memory \in Nat /\ hs[s].memory \in Nat /\ EndOf(hs[h]) \in Nat
    BY <1>2, SlotFacts
  <2>3. hs[h].memory < hs[s].memory => EndOf(hs[h]) <= hs[s].memory
    BY <1>2, Ordered
  <2> QED
    BY <1>4, <2>1, <2>2, <2>3
<1>6. ASSUME NEW a \in as, a # area
      PROVE  \E s \in InUse(g) : /\ g[s].in_use /\ g[s].memory = a.addr
                                 /\ a.addr + Up(a.len) <= EndOf(g[s])
  <2>1. PICK s \in InUse(hs) : /\ hs[s].in_use /\ hs[s].memory = a.addr
                               /\ a.addr + Up(a.len) <= EndOf(hs[s])
    BY <1>2 DEF AreasOwned
  <2>2. a.addr # area.addr
    BY <1>2, <1>6 DEF AreasOwned
  <2>3. s # h
    BY <1>5, <2>1, <2>2
  <2> QED
    BY <1>4, <2>1, <2>3
<1>7. ASSUME NEW c \in cs
      PROVE  \E s \in InUse(g) : g[s].in_use /\ g[s].memory = c
  <2>1. PICK s \in InUse(hs) : hs[s].in_use /\ hs[s].memory = c
    BY <1>2 DEF ChunksOwned
  <2>2. s # h
    BY <1>2, <1>5, <2>1 DEF ChunksOwned
  <2> QED
    BY <1>4, <2>1, <2>2
<1>8. AreasOwned(g, as \ {area})
  BY <1>2, <1>6 DEF AreasOwned
<1>9. ChunksOwned(g, as \ {area}, cs)
  BY <1>2, <1>7 DEF ChunksOwned
<1> QED
  BY <1>1, <1>3, <1>8, <1>9 DEF OwnInv


\* A framebuffer apart from whole pages holds neither their first nor their last
\* byte.
LEMMA ApartFrom ==
  ASSUME ProperInputs, NEW fb \in Framebuffers, NEW addr \in Nat, NEW len \in Nat,
         0 < len, addr % PageSize = 0, addr + Up(len) + PageSize <= WordSize,
         Up(len) \in Nat, len <= Up(len),
         \A m \in Nat : m % PageSize = 0 /\ len <= m => Up(len) <= m,
         Apart(fb, [addr |-> addr, len |-> len])
  PROVE  ~InFb(fb, addr) /\ ~InFb(fb, addr + Up(len) - 1)
<1>1. PageSize \in Nat \ {0} /\ WordSize \in Nat
  BY PageAssumption
<1>2. PICK f, e, u : f = fb.addr /\ e = fb.addr + fb.len /\ u = Up(len)
  OBVIOUS
<1>3. /\ f \in Nat /\ e \in Nat /\ f % PageSize = 0 /\ fb.len % PageSize = 0
      /\ fb.len \in Nat /\ e + PageSize <= WordSize
  BY <1>2 DEF ProperInputs, Page
<1>4. u \in Nat /\ len <= u /\ 0 < u /\ addr + u + PageSize <= WordSize
  BY <1>2
<1>5. (e % PageSize) = 0
  BY <1>1, <1>2, <1>3, MultiplesAdd
<1>6. e <= round_up_to_page(e) /\ round_up_to_page(e) \in Nat
  BY <1>3, Rounded
<1>7. page(addr) = addr /\ page(f) = f
  BY <1>3, WholePages
<1>8. PICK x : x = addr + len
  OBVIOUS
<1>9. x \in Nat /\ x + PageSize <= WordSize
  BY <1>1, <1>4, <1>8
<1>10. PICK y : y = round_up_to_page(x)
  OBVIOUS
<1>11. y \in Nat /\ (y % PageSize) = 0 /\ x <= y
  BY <1>9, <1>10, Rounded
<1>12. addr + u <= y
  <2>1. PICK m : m = y - addr
    OBVIOUS
  <2>2. m \in Nat /\ len <= m /\ addr <= y
    BY <1>8, <1>11, <2>1
  <2>3. (m % PageSize) = 0
    BY <1>1, <1>11, <2>1, <2>2, MultiplesSubtract
  <2>4. u <= m
    BY <1>2, <2>2, <2>3
  <2> QED
    BY <1>4, <1>11, <2>1, <2>4
<1>13. e <= addr \/ addr + u <= f
  <2>1. round_up_to_page(e) <= page(addr) \/ y <= page(f)
    BY <1>2, <1>8, <1>10 DEF Apart
  <2> QED
    BY <1>3, <1>4, <1>6, <1>7, <1>11, <1>12, <2>1
<1>14. ~(f <= addr /\ addr < e) /\ ~(f <= addr + u - 1 /\ addr + u - 1 < e)
  BY <1>3, <1>4, <1>13
<1> QED
  BY <1>2, <1>14 DEF InFb

\* ensure_not_allocatable leaves the headers of memory that is in use where they
\* are, if the framebuffer is apart from it.
LEMMA OwnWithdrawn ==
  ASSUME ProperInputs, ListInv, OwnInv, NEW fb \in Framebuffers, WithdrawFramebuffer(fb)
  PROVE  OwnInv'
<1>1. PICK hs, g, n, as, cs : /\ hs = headers /\ g = headers' /\ n = headers_allocated
                              /\ as = areas /\ cs = chunks
  OBVIOUS
<1>2. Chain(hs, n) /\ AreasOwned(hs, as) /\ ChunksOwned(hs, as, cs)
  BY <1>1 DEF ListInv, OwnInv
<1>3. /\ areas' = as /\ chunks' = cs
      /\ \A s \in InUse(hs) : \A x \in Nat :
            hs[s].memory <= x /\ x < EndOf(hs[s]) /\ ~InFb(fb, x) =>
               /\ s \in InUse(g) /\ g[s].in_use = hs[s].in_use
               /\ hs[s].memory <= g[s].memory /\ g[s].memory <= x /\ x < EndOf(g[s])
  BY <1>1, WithdrawStep
<1>4. ListInv'
  BY WithdrawStep
<1>5. Chain(g, headers_allocated')
  BY <1>1, <1>4 DEF ListInv
<1>6. /\ \A a \in as : Apart(fb, a)
      /\ \A c \in cs : Apart(fb, [addr |-> c, len |-> PageSize])
  BY <1>1 DEF WithdrawFramebuffer, Unused
<1>7. \A s \in InUse(hs) : EndOf(hs[s]) + PageSize <= WordSize
  BY <1>1, EndBelow
<1>8. PageSize \in Nat \ {0} /\ WordSize \in Nat
  BY PageAssumption
<1>9. ASSUME NEW s \in InUse(hs), NEW len \in Nat, 0 < len, len + PageSize <= WordSize,
             hs[s].memory + Up(len) <= EndOf(hs[s]),
             Apart(fb, [addr |-> hs[s].memory, len |-> len])
      PROVE  /\ s \in InUse(g) /\ g[s].in_use = hs[s].in_use
             /\ g[s].memory = hs[s].memory /\ hs[s].memory + Up(len) <= EndOf(g[s])
  <2>1. PICK m, e, u : m = hs[s].memory /\ e = EndOf(hs[s]) /\ u = Up(len)
    OBVIOUS
  <2>2. /\ m \in Nat /\ e \in Nat /\ (m % PageSize) = 0 /\ e + PageSize <= WordSize
    BY <1>2, <1>7, <2>1, SlotFacts DEF Chain, Layout
  <2>3. /\ u \in Nat /\ len <= u
        /\ \A k \in Nat : k % PageSize = 0 /\ len <= k => u <= k
    BY <1>9, <2>1, Rounded
  <2>4. m + u <= e /\ 0 < u
    BY <1>9, <2>1, <2>3
  <2>5. m + u + PageSize <= WordSize
    BY <1>8, <2>2, <2>3, <2>4
  <2>6. ~InFb(fb, m) /\ ~InFb(fb, m + u - 1)
    BY <1>9, <2>1, <2>2, <2>3, <2>5, ApartFrom
  <2>7. PICK x : x = m + u - 1
    OBVIOUS
  <2>8. x \in Nat /\ m <= x /\ x < e /\ m < e /\ x + 1 = m + u /\ ~InFb(fb, x)
    BY <2>2, <2>3, <2>4, <2>6, <2>7
  <2>9. /\ s \in InUse(g) /\ g[s].in_use = hs[s].in_use
        /\ m <= g[s].memory /\ g[s].memory <= m
    BY <1>3, <2>1, <2>2, <2>6, <2>8
  <2>10. x < EndOf(g[s])
    BY <1>3, <2>1, <2>8
  <2>11. g[s].memory \in Nat /\ EndOf(g[s]) \in Nat
    BY <1>5, <2>9, SlotFacts
  <2>12. g[s].memory = m /\ m + u <= EndOf(g[s])
    BY <2>2, <2>3, <2>8, <2>9, <2>10, <2>11
  <2> QED
    BY <2>1, <2>9, <2>12
<1>10. ASSUME NEW a \in as
       PROVE  \E s \in InUse(g) : /\ g[s].in_use /\ g[s].memory = a.addr
                                  /\ a.addr + Up(a.len) <= EndOf(g[s])
  <2>1. PICK addr, len : addr = a.addr /\ len = a.len
    OBVIOUS
  <2>2. a = [addr |-> addr, len |-> len] /\ len \in Lengths
    BY <1>2, <2>1 DEF AreasOwned
  <2>3. len \in Nat /\ 0 < len /\ len + PageSize <= WordSize
    BY <2>2, Asked
  <2>4. PICK s \in InUse(hs) : hs[s].in_use /\ hs[s].memory = addr
                               /\ addr + Up(len) <= EndOf(hs[s])
    BY <1>2, <2>1 DEF AreasOwned
  <2>5. Apart(fb, [addr |-> hs[s].memory, len |-> len])
    BY <1>6, <2>2, <2>4
  <2>6. /\ s \in InUse(g) /\ g[s].in_use = hs[s].in_use
        /\ g[s].memory = hs[s].memory /\ hs[s].memory + Up(len) <= EndOf(g[s])
    BY <1>9, <2>3, <2>4, <2>5
  <2> QED
    BY <2>1, <2>4, <2>6
<1>11. ASSUME NEW c \in cs
       PROVE  \E s \in InUse(g) : g[s].in_use /\ g[s].memory = c
  <2>1. PICK s \in InUse(hs) : hs[s].in_use /\ hs[s].memory = c
    BY <1>2 DEF ChunksOwned
  <2>2. PICK m, z : m = hs[s].memory /\ z = hs[s].size
    OBVIOUS
  <2>3. /\ m \in Nat /\ z \in Nat /\ z > 0 /\ (z % PageSize) = 0
        /\ EndOf(hs[s]) = m + z
    BY <1>2, <2>2, SlotFacts DEF Chain, Layout
  <2>4. PageSize <= z
    <3>1. PICK k \in Nat : z = k * PageSize
      BY <1>8, <2>3, MultipleOf
    <3>2. 0 < k
      BY <1>8, <2>3, <3>1
    <3>3. 0 * PageSize + PageSize <= k * PageSize
      BY <1>8, <3>2, Stretch
    <3> QED
      BY <1>8, <3>1, <3>3
  <2>5. PageSize + PageSize <= WordSize
    BY <1>7, <1>8, <2>3, <2>4
  <2>6. (PageSize % PageSize) = 0
    BY <1>8
  <2>7. Up(PageSize) <= PageSize /\ Up(PageSize) \in Nat
    BY <1>8, <2>5, <2>6, Rounded
  <2>8. hs[s].memory + Up(PageSize) <= EndOf(hs[s])
    BY <1>8, <2>2, <2>3, <2>4, <2>7
  <2>9. Apart(fb, [addr |-> hs[s].memory, len |-> PageSize])
    BY <1>6, <2>1
  <2>10. s \in InUse(g) /\ g[s].in_use = hs[s].in_use /\ g[s].memory = hs[s].memory
    BY <1>8, <1>9, <2>5, <2>8, <2>9
  <2> QED
    BY <2>1, <2>10
<1>12. AreasOwned(g, as)
  BY <1>2, <1>10 DEF AreasOwned
<1>13. ChunksOwned(g, as, cs)
  BY <1>2, <1>11 DEF ChunksOwned
<1> QED
  BY <1>1, <1>3, <1>12, <1>13 DEF OwnInv

LEMMA OwnInit ==
  ASSUME Init
  PROVE  OwnInv
  BY DEF Init, OwnInv, AreasOwned, ChunksOwned

\* pmm_invalid and the ends of the system take nothing from a holder.
LEMMA OwnStays ==
  ASSUME OwnInv, areas' \subseteq areas, UNCHANGED <<headers, chunks>>
  PROVE  OwnInv'
  BY DEF OwnInv, AreasOwned, ChunksOwned

LEMMA OwnNext ==
  ASSUME ProperInputs, ProperReserves, ListInv, OwnInv, [Next]_vars
  PROVE  OwnInv'
<1>1. ASSUME NEW len \in Lengths, AcquireArea(len) PROVE OwnInv'
  BY <1>1, AcquireStep, OwnClaimed
<1>2. ASSUME NEW addr \in ReserveAddrs, NEW len \in Lengths, ReserveArea(addr, len)
      PROVE  OwnInv'
  <2>1. PICK h \in InUse(headers) :
           Hands(h, addr, len) /\ headers[h].memory <= addr /\ addr <= EndOf(headers[h])
    BY <1>2, ReserveStep
  <2>2. headers[h].memory = addr
    BY <2>1, ReservedAtStart
  <2> QED
    BY <2>1, <2>2, OwnClaimed
<1>3. ASSUME NEW area \in areas, FreeArea(area) PROVE OwnInv'
  BY <1>3, OwnFreed
<1>4. ASSUME NEW area \in areas, FreeInvalid(area) PROVE OwnInv'
  BY <1>4, OwnStays DEF FreeInvalid
<1>5. ASSUME NEW area \in areas, FreeAbort(area) PROVE OwnInv'
  BY <1>5, OwnStays DEF FreeAbort
<1>6. ASSUME NEW fb \in Framebuffers, WithdrawFramebuffer(fb) PROVE OwnInv'
  BY <1>6, OwnWithdrawn
<1>7. ASSUME NEW fb \in Framebuffers, WithdrawAbort(fb) PROVE OwnInv'
  BY <1>7, OwnStays DEF WithdrawAbort
<1>8. CASE AssertFails
  BY <1>8, OwnStays DEF AssertFails
<1>9. CASE UNCHANGED vars
  BY <1>9, OwnStays DEF vars
<1> QED
  BY <1>1, <1>2, <1>3, <1>4, <1>5, <1>6, <1>7, <1>8, <1>9 DEF Next, Stopped

\* Every area and every chunk is a claimed header's, and no two are the same
\* one's, as long as reservations name the start of a region.
THEOREM PhysMemOwned ==
  ASSUME ProperInputs, ProperReserves
  PROVE  Spec => []OwnInv
<1>1. Init => OwnInv
  BY OwnInit
<1>2. ListInv /\ OwnInv /\ [Next]_vars => OwnInv'
  BY OwnNext
<1> QED
  BY <1>1, <1>2, PhysMemInvariant, PTL DEF Spec


\* The headers of two areas are different ones, and lie apart.
LEMMA OwnersApart ==
  ASSUME NEW n, NEW hs, NEW as, Chain(hs, n), AreasOwned(hs, as),
         NEW a \in as, NEW b \in as, a # b
  PROVE  /\ a.addr \in Nat /\ b.addr \in Nat
         /\ a.addr + Up(a.len) <= b.addr \/ b.addr + Up(b.len) <= a.addr
<1>1. PICK s \in InUse(hs) : hs[s].memory = a.addr /\ a.addr + Up(a.len) <= EndOf(hs[s])
  BY DEF AreasOwned
<1>2. PICK t \in InUse(hs) : hs[t].memory = b.addr /\ b.addr + Up(b.len) <= EndOf(hs[t])
  BY DEF AreasOwned
<1>3. s # t
  BY <1>1, <1>2 DEF AreasOwned
<1>4. EndOf(hs[s]) <= hs[t].memory \/ EndOf(hs[t]) <= hs[s].memory
  BY <1>3 DEF Chain, Layout
<1>5. /\ hs[s].memory \in Nat /\ EndOf(hs[s]) \in Nat
      /\ hs[t].memory \in Nat /\ EndOf(hs[t]) \in Nat
  BY SlotFacts
<1>6. /\ a.len \in Nat /\ b.len \in Nat
  BY InputAssumption DEF AreasOwned
<1>7. Up(a.len) \in Nat /\ Up(b.len) \in Nat
  BY <1>6, PageAssumption, RoundUp DEF Up
<1> QED
  BY <1>1, <1>2, <1>4, <1>5, <1>7

LEMMA HeldApart ==
  ASSUME ListInv, OwnInv
  PROVE  AreasExclusive
<1>1. PICK hs, n, as, cs : /\ hs = headers /\ n = headers_allocated
                           /\ as = areas /\ cs = chunks
  OBVIOUS
<1>2. Chain(hs, n) /\ AreasOwned(hs, as) /\ ChunksOwned(hs, as, cs)
  BY <1>1 DEF ListInv, OwnInv
<1>3. Used = InUse(hs)
  BY <1>1 DEF Used, InUse
<1>4. ASSUME NEW a \in as
      PROVE  /\ a.addr \in Nat /\ a.len \in Nat /\ Up(a.len) \in Nat /\ a.len <= Up(a.len)
             /\ \E s \in InUse(hs) : /\ hs[s].in_use /\ hs[s].memory = a.addr
                                     /\ a.addr + a.len <= EndOf(hs[s])
  <2>1. PICK s \in InUse(hs) : /\ hs[s].in_use /\ hs[s].memory = a.addr
                               /\ a.addr + Up(a.len) <= EndOf(hs[s])
    BY <1>2 DEF AreasOwned
  <2>2. a.len \in Nat /\ a.addr \in Nat /\ EndOf(hs[s]) \in Nat
    BY <1>2, <2>1, SlotFacts, InputAssumption DEF AreasOwned
  <2>3. Up(a.len) \in Nat /\ a.len <= Up(a.len)
    BY <2>2, PageAssumption, RoundUp DEF Up
  <2>4. a.addr + a.len <= EndOf(hs[s])
    BY <2>1, <2>2, <2>3
  <2> QED
    BY <2>1, <2>2, <2>3, <2>4
<1>5. ASSUME NEW a \in as, NEW x
      PROVE  x \in Bytes({a}) <=> x \in Nat /\ a.addr <= x /\ x < a.addr + a.len
  <2>1. PICK S : S = {a}
    OBVIOUS
  <2>2. Bytes(S) = {y \in Nat : \E r \in S : r.addr <= y /\ y < r.addr + r.len}
    BY <1>4, <2>1, BytesOf
  <2> QED
    BY <2>1, <2>2
<1>6. \A a \in as : \E s \in InUse(hs) :
         hs[s].in_use /\ hs[s].memory <= a.addr /\ a.addr + a.len <= EndOf(hs[s])
  <2> SUFFICES ASSUME NEW a \in as
               PROVE  \E s \in InUse(hs) : /\ hs[s].in_use /\ hs[s].memory <= a.addr
                                           /\ a.addr + a.len <= EndOf(hs[s])
    OBVIOUS
  <2>1. PICK s \in InUse(hs) : /\ hs[s].in_use /\ hs[s].memory = a.addr
                               /\ a.addr + a.len <= EndOf(hs[s])
    BY <1>4
  <2>2. hs[s].memory <= a.addr
    <3>1. a.addr \in Nat
      BY <1>4
    <3> QED
      BY <2>1, <3>1
  <2> QED
    BY <2>1, <2>2
<1>7. \A c \in cs : \E s \in InUse(hs) : hs[s].in_use /\ hs[s].memory = c
  BY <1>2 DEF ChunksOwned
<1>8. ASSUME NEW a \in as, NEW b \in as, a # b
      PROVE  Bytes({a}) \cap Bytes({b}) = {}
  <2>1. a.addr + Up(a.len) <= b.addr \/ b.addr + Up(b.len) <= a.addr
    BY <1>2, <1>8, OwnersApart
  <2>2. \A x \in Nat : ~(/\ a.addr <= x /\ x < a.addr + a.len
                         /\ b.addr <= x /\ x < b.addr + b.len)
    <3>1. /\ a.addr \in Nat /\ a.len \in Nat /\ Up(a.len) \in Nat /\ a.len <= Up(a.len)
          /\ b.addr \in Nat /\ b.len \in Nat /\ Up(b.len) \in Nat /\ b.len <= Up(b.len)
      BY <1>4
    <3> QED
      BY <2>1, <3>1
  <2> QED
    BY <1>5, <2>2
<1>9. ASSUME NEW a \in as, NEW c \in cs, c \in Bytes({a}) PROVE FALSE
  <2>1. PICK s \in InUse(hs) : hs[s].memory = a.addr /\ a.addr + a.len <= EndOf(hs[s])
    BY <1>4
  <2>2. PICK t \in InUse(hs) : hs[t].memory = c
    BY <1>7
  <2>3. a.addr # c
    BY <1>2 DEF ChunksOwned
  <2>4. c \in Nat /\ a.addr <= c /\ c < a.addr + a.len
    BY <1>5, <1>9
  <2>5. hs[s].memory < hs[t].memory => EndOf(hs[s]) <= hs[t].memory
    BY <1>2, Ordered
  <2>6. a.addr \in Nat /\ a.len \in Nat /\ EndOf(hs[s]) \in Nat
    BY <1>2, <1>4, SlotFacts
  <2> QED
    BY <2>1, <2>2, <2>3, <2>4, <2>5, <2>6
<1> QED
  BY <1>1, <1>3, <1>6, <1>7, <1>8, <1>9 DEF AreasExclusive

\* "Aquire len unused bytes": what get_mem_area gave to a caller, or took for a
\* chunk of headers, is memory nobody else is given before free_mem_area.
THEOREM PhysMemAreasExclusive ==
  ASSUME ProperInputs, ProperReserves
  PROVE  Spec => []AreasExclusive
<1>1. ListInv /\ OwnInv => AreasExclusive
  BY HeldApart
<1> QED
  BY <1>1, PhysMemInvariant, PhysMemOwned, PTL

-----------------------------------------------------------------------------
(* The refinement.                                                         *)

\* The pages an area that begins on a page touches.
LEMMA SpanIs ==
  ASSUME NEW a, a.addr \in Nat, a.len \in Nat, (a.addr % PageSize) = 0
  PROVE  \A x \in Allocator!Span(a) :
            x \in Nat /\ a.addr <= x /\ x < a.addr + Up(a.len)
<1>1. PICK m, z, d, u : m = a.addr /\ z = a.len /\ d = PageSize /\ u = Up(a.len)
  OBVIOUS
<1>2. m \in Nat /\ z \in Nat /\ d \in Nat \ {0} /\ (m % d) = 0
  BY <1>1, PageAssumption
<1>3. u = ((z + d - 1) \div d) * d
  BY <1>1 DEF Up
<1>4. u \in Nat /\ (u % d) = 0 /\ z <= u
  BY <1>2, <1>3, RoundUp
<1>5. (m \div d) * d = m
  <2>1. m \div d \in Nat /\ m = (m \div d) * d + (m % d)
    BY <1>2, DivMod
  <2>2. (m \div d) * d \in Nat
    BY <1>2, <2>1
  <2> QED
    BY <1>2, <2>1, <2>2
<1>6. PICK t, k : t = m + u /\ k = m + z
  OBVIOUS
<1>7. t \in Nat /\ k \in Nat /\ k <= t /\ (t % d) = 0
  BY <1>2, <1>4, <1>6, MultiplesAdd
<1>8. PICK r : r = ((k + d - 1) \div d) * d
  OBVIOUS
<1>9. r \in Nat /\ r <= t
  BY <1>2, <1>7, <1>8, RoundUp, RoundUpLeast
<1>10. Allocator!Span(a) = m .. (r - 1)
  BY <1>1, <1>5, <1>6, <1>8 DEF Allocator!Span
<1> QED
  BY <1>1, <1>2, <1>4, <1>6, <1>9, <1>10

\* The pages of an area are RAM, and no other area's.
LEMMA SpansApart ==
  ASSUME NEW n, NEW hs, NEW as, Chain(hs, n), AreasOwned(hs, as), Covered(hs) \subseteq Ram,
         NEW a \in as
  PROVE  /\ a.addr \in Ram /\ (a.addr % PageSize) = 0 /\ Allocator!Span(a) \subseteq Ram
         /\ \A b \in as : a # b => Allocator!Span(a) \cap Allocator!Span(b) = {}
<1>1. ASSUME NEW b \in as
      PROVE  /\ b.addr \in Nat /\ b.len \in Nat /\ (b.addr % PageSize) = 0
             /\ Up(b.len) \in Nat
             /\ \A x \in Allocator!Span(b) :
                   x \in Nat /\ b.addr <= x /\ x < b.addr + Up(b.len)
  <2>1. PICK s \in InUse(hs) : hs[s].memory = b.addr
    BY DEF AreasOwned
  <2>2. b.addr \in Nat /\ b.len \in Nat /\ (b.addr % PageSize) = 0
    <3>1. b.len \in Nat
      BY InputAssumption DEF AreasOwned
    <3>2. hs[s].memory \in Nat
      BY SlotFacts
    <3>3. (hs[s].memory % PageSize) = 0
      BY DEF Chain, Layout
    <3> QED
      BY <2>1, <3>1, <3>2, <3>3
  <2>3. Up(b.len) \in Nat
    BY <2>2, PageAssumption, RoundUp DEF Up
  <2> QED
    BY <2>2, <2>3, SpanIs
<1>2. PICK s \in InUse(hs) : hs[s].memory = a.addr /\ a.addr + Up(a.len) <= EndOf(hs[s])
  BY DEF AreasOwned
<1>3. EndOf(hs[s]) \in Nat /\ hs[s].memory < EndOf(hs[s])
  BY SlotFacts, Ordered
<1>4. \A x \in Nat : hs[s].memory <= x /\ x < EndOf(hs[s]) => x \in Ram
  BY DEF Covered
<1>5. a.addr \in Ram
  <2>1. a.addr \in Nat /\ hs[s].memory <= a.addr /\ a.addr < EndOf(hs[s])
    <3>1. a.addr \in Nat
      BY <1>1
    <3> QED
      BY <1>2, <1>3, <3>1
  <2> QED
    BY <1>4, <2>1
<1>6. Allocator!Span(a) \subseteq Ram
  <2> SUFFICES ASSUME NEW x \in Allocator!Span(a) PROVE x \in Ram
    OBVIOUS
  <2>1. x \in Nat /\ a.addr <= x /\ x < a.addr + Up(a.len)
    BY <1>1
  <2>2. a.addr \in Nat /\ Up(a.len) \in Nat
    BY <1>1
  <2>3. x < EndOf(hs[s])
    BY <1>2, <1>3, <2>1, <2>2
  <2> QED
    BY <1>2, <1>4, <2>1, <2>3
<1>7. ASSUME NEW b \in as, a # b
      PROVE  Allocator!Span(a) \cap Allocator!Span(b) = {}
  <2>1. a.addr + Up(a.len) <= b.addr \/ b.addr + Up(b.len) <= a.addr
    BY <1>7, OwnersApart
  <2>2. /\ a.addr \in Nat /\ Up(a.len) \in Nat /\ b.addr \in Nat /\ Up(b.len) \in Nat
    BY <1>1
  <2>3. ASSUME NEW x \in Allocator!Span(a), x \in Allocator!Span(b) PROVE FALSE
    <3>1. /\ x \in Nat /\ a.addr <= x /\ x < a.addr + Up(a.len)
          /\ b.addr <= x /\ x < b.addr + Up(b.len)
      BY <1>1, <2>3
    <3> QED
      BY <2>1, <2>2, <3>1
  <2> QED
    BY <2>3
<1> QED
  BY <1>1, <1>5, <1>6, <1>7


\* A call that hands out an area is an Acquire.
LEMMA ClaimAcquires ==
  ASSUME ProperInputs, ListInv, ListInv', OwnInv, NEW len \in Lengths,
         NEW h \in InUse(headers), Hands(h, headers[h].memory, len)
  PROVE  Allocator!Next
<1>1. PICK hs, n, as, bs, m : /\ hs = headers' /\ n = headers_allocated'
                              /\ as = areas /\ bs = areas' /\ m = headers[h].memory
  OBVIOUS
<1>2. PICK new : new = [addr |-> m, len |-> len]
  OBVIOUS
<1>3. new.addr = m /\ new.len = len
  BY <1>2
<1>4. bs = as \cup {new}
  BY <1>1, <1>2 DEF Hands
<1>5. OwnInv' /\ new \notin as
  BY <1>1, <1>2, OwnClaimed
<1>6. Chain(hs, n) /\ Covered(hs) \subseteq Ram
  BY <1>1 DEF ListInv
<1>7. AreasOwned(hs, bs)
  BY <1>1, <1>5 DEF OwnInv
<1>8. new \in bs /\ \A a \in as : a \in bs /\ new # a
  BY <1>4, <1>5
<1>9. /\ m \in Ram /\ (m % PageSize) = 0 /\ Allocator!Span(new) \subseteq Ram
      /\ \A b \in bs : new # b => Allocator!Span(new) \cap Allocator!Span(b) = {}
  BY <1>3, <1>6, <1>7, <1>8, SpansApart
<1>10. PICK R : R = Bytes({RangeOf(Regions[i]) : i \in DOMAIN Regions})
  OBVIOUS
<1>11. R = Ram
  BY <1>10, RamBytes
<1>12. Allocator!Unheld = R \ UNION {Allocator!Span(a) : a \in as}
  BY <1>1, <1>10 DEF Allocator!Unheld
<1>13. Allocator!Span(new) \subseteq Allocator!Unheld
  BY <1>8, <1>9, <1>11, <1>12
<1>14. Allocator!Acquire(new)
  BY <1>1, <1>3, <1>4, <1>9, <1>13 DEF Allocator!Acquire
<1>15. \E addr \in R : Allocator!Acquire([addr |-> addr, len |-> len])
  BY <1>2, <1>9, <1>11, <1>14
<1> QED
  BY <1>10, <1>15 DEF Allocator!Next

LEMMA AllocatorNext ==
  ASSUME ProperInputs, ProperReserves, ListInv, ListInv', OwnInv, [Next]_vars
  PROVE  Allocator!Next \/ areas' = areas
<1>1. ASSUME NEW len \in Lengths, AcquireArea(len) PROVE Allocator!Next
  BY <1>1, AcquireStep, ClaimAcquires
<1>2. ASSUME NEW addr \in ReserveAddrs, NEW len \in Lengths, ReserveArea(addr, len)
      PROVE  Allocator!Next
  <2>1. PICK h \in InUse(headers) :
           Hands(h, addr, len) /\ headers[h].memory <= addr /\ addr <= EndOf(headers[h])
    BY <1>2, ReserveStep
  <2>2. headers[h].memory = addr
    BY <2>1, ReservedAtStart
  <2> QED
    BY <2>1, <2>2, ClaimAcquires
<1>3. ASSUME NEW area \in areas, FreeArea(area) \/ FreeInvalid(area)
      PROVE  Allocator!Next
  <2>1. areas' = areas \ {area}
    BY <1>3 DEF FreeArea, FreeInvalid
  <2>2. Allocator!Release(area)
    BY <2>1 DEF Allocator!Release
  <2> QED
    BY <2>2 DEF Allocator!Next
<1>4. ASSUME NEW area \in areas, FreeAbort(area) PROVE areas' = areas
  BY <1>4 DEF FreeAbort
<1>5. ASSUME NEW fb \in Framebuffers, WithdrawFramebuffer(fb) \/ WithdrawAbort(fb)
      PROVE  areas' = areas
  BY <1>5 DEF WithdrawFramebuffer, WithdrawAbort
<1>6. ASSUME AssertFails PROVE areas' = areas
  BY <1>6 DEF AssertFails
<1>7. ASSUME UNCHANGED vars PROVE areas' = areas
  BY <1>7 DEF vars
<1> QED
  BY <1>1, <1>2, <1>3, <1>4, <1>5, <1>6, <1>7 DEF Next, Stopped

\* The manager implements the allocator its callers count on: get_mem_area hands
\* out whole pages of RAM that nobody holds, free_mem_area gives back just those,
\* and neither a chunk of headers nor a framebuffer takes a holder's memory.
THEOREM PhysMemImplementsAllocator ==
  ASSUME ProperInputs, ProperReserves
  PROVE  Spec => ImplementsAllocator
<1>1. Init => Allocator!Init
  BY DEF Init, Allocator!Init
<1>2. ListInv /\ ListInv' /\ OwnInv /\ [Next]_vars => [Allocator!Next]_areas
  BY AllocatorNext
<1> QED
  BY <1>1, <1>2, PhysMemInvariant, PhysMemOwned, PTL
     DEF Spec, ImplementsAllocator, Allocator!Spec

=============================================================================

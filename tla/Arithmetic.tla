----------------------------- MODULE Arithmetic -----------------------------
(***************************************************************************)
(* Facts about numbers that the proofs about memory need: division,        *)
(* multiples, rounding up to one, and the least element of a set of        *)
(* numbers, from which every induction of this project is made.            *)
(***************************************************************************)
EXTENDS Integers, FiniteSetTheorems, TLAPS

\* A set of natural numbers that is not empty has a least element.  It is a
\* consequence of the finite subsets of Nat being well founded.
LEMMA LeastNumber ==
  ASSUME NEW T, T \subseteq Nat, T # {}
  PROVE  \E x \in T : \A y \in T : x <= y
<1> DEFINE B == {0 .. m : m \in T}
           R == StrictSubsetOrdering(Nat)
<1>1. B \subseteq FiniteSubsetsOf(Nat)
  <2>1. \A m \in T : IsFiniteSet(0 .. m)
    BY FS_Interval
  <2> QED
    BY <2>1 DEF FiniteSubsetsOf
<1>2. B # {}
  OBVIOUS
<1>3. IsWellFoundedOn(R, FiniteSubsetsOf(Nat))
  BY FS_StrictSubsetOrderingWellFounded
<1>4. PICK b \in B : \A c \in B : ~(<<c, b>> \in R)
  <2> HIDE DEF B, R
  <2> QED
    BY <1>1, <1>2, <1>3, WFMin
<1>5. PICK x \in T : b = 0 .. x
  OBVIOUS
<1>6. ASSUME NEW y \in T, y < x PROVE FALSE
  <2>1. /\ 0 .. y \in SUBSET Nat /\ 0 .. x \in SUBSET Nat
        /\ 0 .. y \subseteq 0 .. x /\ 0 .. y # 0 .. x
    BY <1>6
  <2>2. <<0 .. y, 0 .. x>> \in R
    BY <2>1 DEF StrictSubsetOrdering
  <2> QED
    BY <1>4, <1>5, <2>2
<1> QED
  BY <1>6

-----------------------------------------------------------------------------

\* Quotient and remainder.
LEMMA DivMod ==
  ASSUME NEW a \in Nat, NEW d \in Nat \ {0}
  PROVE  /\ a \div d \in Nat /\ a % d \in 0 .. (d - 1)
         /\ a = (a \div d) * d + (a % d)
  OBVIOUS

LEMMA DivUnique ==
  ASSUME NEW q \in Nat, NEW d \in Nat \ {0}, NEW r \in 0 .. (d - 1)
  PROVE  (q * d + r) \div d = q /\ (q * d + r) % d = r
  OBVIOUS

\* Multiples of d are at least d apart.
LEMMA Stretch ==
  ASSUME NEW p \in Nat, NEW q \in Nat, NEW d \in Nat \ {0}, p < q
  PROVE  p * d + d <= q * d
<1>1. (p + 1) * d <= q * d
  OBVIOUS
<1> QED
  BY <1>1

LEMMA MultipleOf ==
  ASSUME NEW a \in Nat, NEW d \in Nat \ {0}
  PROVE  a % d = 0 <=> \E k \in Nat : a = k * d
<1>1. ASSUME NEW k \in Nat, a = k * d PROVE a % d = 0
  <2>1. a = k * d + 0 /\ 0 \in 0 .. (d - 1)
    BY <1>1
  <2> QED
    BY <2>1, DivUnique
<1>2. ASSUME a % d = 0 PROVE \E k \in Nat : a = k * d
  <2>1. a \div d \in Nat /\ a = (a \div d) * d + 0
    BY <1>2, DivMod
  <2>2. a = (a \div d) * d
    BY <2>1
  <2> QED
    BY <2>1, <2>2
<1> QED
  BY <1>1, <1>2

LEMMA MultiplesAdd ==
  ASSUME NEW a \in Nat, NEW b \in Nat, NEW d \in Nat \ {0}, a % d = 0, b % d = 0
  PROVE  (a + b) % d = 0
<1>1. PICK j \in Nat : a = j * d
  BY MultipleOf
<1>2. PICK k \in Nat : b = k * d
  BY MultipleOf
<1>3. a + b = (j + k) * d /\ j + k \in Nat
  BY <1>1, <1>2
<1>4. a + b \in Nat
  OBVIOUS
<1> QED
  BY <1>3, <1>4, MultipleOf

LEMMA MultiplesSubtract ==
  ASSUME NEW a \in Nat, NEW b \in Nat, NEW d \in Nat \ {0}, a % d = 0, b % d = 0,
         a >= b
  PROVE  (a - b) % d = 0
<1>1. PICK j \in Nat : a = j * d
  BY MultipleOf
<1>2. PICK k \in Nat : b = k * d
  BY MultipleOf
<1>3. j >= k
  BY <1>1, <1>2
<1>4. a - b = (j - k) * d /\ j - k \in Nat
  BY <1>1, <1>2, <1>3
<1>5. a - b \in Nat
  OBVIOUS
<1> QED
  BY <1>4, <1>5, MultipleOf

\* Rounding up gives the least multiple that is not smaller.
LEMMA RoundUp ==
  ASSUME NEW n \in Nat, NEW d \in Nat \ {0}
  PROVE  LET r == ((n + d - 1) \div d) * d
         IN  r \in Nat /\ r % d = 0 /\ n <= r /\ r < n + d
<1> DEFINE q == (n + d - 1) \div d
           x == (n + d - 1) % d
<1>1. n + d - 1 \in Nat /\ q \in Nat /\ x \in 0 .. (d - 1) /\ n + d - 1 = q * d + x
  BY DivMod
<1>2. q * d \in Nat /\ n <= q * d /\ q * d < n + d
  BY <1>1
<1> QED
  BY <1>1, <1>2, MultipleOf

LEMMA RoundUpLeast ==
  ASSUME NEW n \in Nat, NEW d \in Nat \ {0}, NEW m \in Nat, m % d = 0, n <= m
  PROVE  ((n + d - 1) \div d) * d <= m
<1> DEFINE q == (n + d - 1) \div d
<1>1. q \in Nat /\ q * d < n + d
  <2>1. n + d - 1 \in Nat
    OBVIOUS
  <2>2. q \in Nat
    BY <2>1, DivMod
  <2> QED
    BY <2>2, RoundUp
<1>2. PICK k \in Nat : m = k * d
  BY MultipleOf
<1>3. q * d < (k + 1) * d
  BY <1>1, <1>2
<1>4. q <= k
  <2> HIDE DEF q
  <2> QED
    BY <1>1, <1>3
<1> QED
  BY <1>1, <1>2, <1>4

=============================================================================

----------------------------- MODULE TextProofs -----------------------------
(***************************************************************************)
(* Proofs about vprintf, for every format, buffer size, length of strings  *)
(* and largest result.                                                     *)
(***************************************************************************)
EXTENDS Text, Arithmetic, SequenceTheorems

FormatOK == format \in Seq(STRING) /\ \A i \in 1 .. Len(format) : format[i] # NUL

LEMMA MinFacts ==
  ASSUME NEW S, S \subseteq Nat, S # {}
  PROVE  Min(S) \in S /\ \A j \in S : Min(S) <= j
<1>1. \E i \in S : \A j \in S : i <= j
  BY LeastNumber
<1> QED
  BY <1>1 DEF Min

LEMMA AtFacts ==
  ASSUME FormatOK, NEW i \in Nat \ {0}
  PROVE  /\ Len(format) \in Nat
         /\ At(i) = NUL <=> i > Len(format)
         /\ i <= Len(format) => At(i) = format[i]
  BY DEF FormatOK, At

\* A scan stops at the first character that is not one of its own.
LEMMA BehindFacts ==
  ASSUME FormatOK, NEW i \in 1 .. (Len(format) + 1), NEW chars, NUL \notin chars
  PROVE  /\ Behind(i, chars) \in i .. (Len(format) + 1)
         /\ At(Behind(i, chars)) \notin chars
         /\ \A j \in i .. (Behind(i, chars) - 1) : At(j) \in chars
<1>1. Len(format) \in Nat
  BY DEF FormatOK
<1> DEFINE S == {j \in i .. (Len(format) + 1) : At(j) \notin chars}
<1>2. S \subseteq Nat
  BY <1>1
<1>3. Len(format) + 1 \in S
  <2>1. At(Len(format) + 1) = NUL
    BY <1>1 DEF At
  <2> QED
    BY <1>1, <2>1
<1>4. PICK b : b = Behind(i, chars)
  OBVIOUS
<1>5. b \in S /\ \A j \in S : b <= j
  BY <1>2, <1>3, <1>4, MinFacts DEF Behind
<1>6. ASSUME NEW j \in i .. (b - 1) PROVE At(j) \in chars
  <2>1. j \in i .. (Len(format) + 1) /\ ~(b <= j)
    BY <1>1, <1>5
  <2> QED
    BY <1>5, <2>1
<1> QED
  BY <1>4, <1>5, <1>6

LEMMA Digits ==
  /\ DOMAIN DigitValue = {"1", "2", "3", "4", "5", "6", "7", "8"}
  /\ \A c \in DOMAIN DigitValue : DigitValue[c] \in Nat
<1>1. DOMAIN DigitValue = {"1", "2", "3", "4", "5", "6", "7", "8"}
  BY DEF DigitValue
<1>2. /\ DigitValue["1"] = 1 /\ DigitValue["2"] = 2 /\ DigitValue["3"] = 3
      /\ DigitValue["4"] = 4 /\ DigitValue["5"] = 5 /\ DigitValue["6"] = 6
      /\ DigitValue["7"] = 7 /\ DigitValue["8"] = 8
  BY DEF DigitValue
<1> QED
  BY <1>1, <1>2

-----------------------------------------------------------------------------
(* The scan of a conversion.                                               *)

FlagsEnd == Behind(pos + 1, Flags)
WidthEnd == Behind(FlagsEnd, DOMAIN DigitValue)
Mod == Modifier(WidthEnd)

LEMMA DirectiveIs ==
  /\ Directive.min_width = WidthAt(FlagsEnd, WidthEnd - 1)
  /\ Directive.length = Mod.length /\ Directive.odd = Mod.odd
  /\ Directive.specifier = At(Mod.last + 1)
  /\ Directive.next = Mod.last + 2
  /\ Directive.words = NamedWords(SubSeq(format, WidthEnd, Mod.last), At(Mod.last + 1))
  BY DEF Directive, FlagsEnd, WidthEnd, Mod

\* A conversion that is looked at.
AtPercent == FormatOK /\ pos \in 1 .. (Len(format) + 1) /\ At(pos) = "%"

LEMMA Scan ==
  ASSUME AtPercent
  PROVE  /\ Len(format) \in Nat /\ pos \in 1 .. Len(format)
         /\ FlagsEnd \in (pos + 1) .. (Len(format) + 1)
         /\ WidthEnd \in FlagsEnd .. (Len(format) + 1)
         /\ \A j \in FlagsEnd .. (WidthEnd - 1) : At(j) \in DOMAIN DigitValue
         /\ \A j \in (pos + 1) .. (WidthEnd - 1) : At(j) \in Flags \cup DOMAIN DigitValue
<1>1. FormatOK /\ Len(format) \in Nat /\ pos \in 1 .. (Len(format) + 1) /\ At(pos) = "%"
  BY DEF AtPercent, FormatOK
<1>2. pos \in 1 .. Len(format)
  BY <1>1 DEF At, NUL
<1>3. pos + 1 \in 1 .. (Len(format) + 1)
  BY <1>1, <1>2
<1>4. NUL \notin Flags /\ NUL \notin DOMAIN DigitValue
  BY Digits DEF NUL, Flags
<1>5. PICK p : p = pos
  OBVIOUS
<1>6. /\ FlagsEnd \in (pos + 1) .. (Len(format) + 1)
      /\ \A j \in (pos + 1) .. (FlagsEnd - 1) : At(j) \in Flags
  <2>1. PICK i : i = pos + 1
    OBVIOUS
  <2> QED
    BY <1>1, <1>3, <1>4, <2>1, BehindFacts DEF FlagsEnd
<1>7. PICK f : f = FlagsEnd
  OBVIOUS
<1>8. f \in 1 .. (Len(format) + 1)
  BY <1>1, <1>2, <1>6, <1>7
<1>9. /\ WidthEnd \in f .. (Len(format) + 1)
      /\ \A j \in f .. (WidthEnd - 1) : At(j) \in DOMAIN DigitValue
  BY <1>1, <1>4, <1>7, <1>8, BehindFacts DEF WidthEnd
<1>10. ASSUME NEW j \in (pos + 1) .. (WidthEnd - 1)
       PROVE  At(j) \in Flags \cup DOMAIN DigitValue
  <2>1. j \in (pos + 1) .. (f - 1) \/ j \in f .. (WidthEnd - 1)
    BY <1>1, <1>2, <1>6, <1>7, <1>9
  <2> QED
    BY <1>6, <1>7, <1>9, <2>1
<1> QED
  BY <1>1, <1>2, <1>6, <1>7, <1>9, <1>10

\* Where the modifier ends, and what it is if the code gives it a meaning: no
\* length is left over from the conversion before, and the lengths of two words
\* are those the format names.
LEMMA ModifierEnd ==
  ASSUME AtPercent
  PROVE  Mod.last \in (WidthEnd - 1) .. Len(format)
<1>1. /\ FormatOK /\ Len(format) \in Nat /\ WidthEnd \in 1 .. (Len(format) + 1)
  BY Scan DEF AtPercent
<1>2. PICK i : i = WidthEnd
  OBVIOUS
<1>3. i \in Nat \ {0} /\ i + 1 \in Nat \ {0} /\ i <= Len(format) + 1
  BY <1>1, <1>2
<1>4. At(i) # NUL => i <= Len(format)
  BY <1>1, <1>3, AtFacts
<1>5. At(i + 1) # NUL => i + 1 <= Len(format)
  BY <1>1, <1>3, AtFacts
<1>6. Mod.last \in {i - 1, i, i + 1}
  BY <1>2 DEF Mod, Modifier
<1>7. Mod.last = i => At(i) # NUL
  BY <1>2, <1>3 DEF Mod, Modifier, NUL
<1>8. Mod.last = i + 1 => At(i + 1) # NUL
  BY <1>2, <1>3 DEF Mod, Modifier, NUL
<1> QED
  BY <1>1, <1>2, <1>3, <1>4, <1>5, <1>6, <1>7, <1>8

LEMMA Pairs ==
  ASSUME NEW S, NEW s \in Seq(S)
  PROVE  /\ s = <<"l", "l">> <=> Len(s) = 2 /\ s[1] = "l" /\ s[2] = "l"
         /\ s = <<"j">> <=> Len(s) = 1 /\ s[1] = "j"
<1>1. Len(<<"l", "l">>) = 2 /\ <<"l", "l">>[1] = "l" /\ <<"l", "l">>[2] = "l"
  OBVIOUS
<1>2. Len(<<"j">>) = 1 /\ <<"j">>[1] = "j"
  OBVIOUS
<1>3. ASSUME Len(s) = 2, s[1] = "l", s[2] = "l" PROVE s = <<"l", "l">>
  <2>1. s \in [1 .. 2 -> S]
    BY <1>3
  <2>2. "l" \in S
    BY <1>3, <2>1
  <2>3. <<"l", "l">> \in [1 .. 2 -> S]
    BY <2>2
  <2>4. \A k \in 1 .. 2 : s[k] = <<"l", "l">>[k]
    BY <1>1, <1>3
  <2> QED
    BY <2>1, <2>3, <2>4
<1>4. ASSUME Len(s) = 1, s[1] = "j" PROVE s = <<"j">>
  <2>0. s \in [1 .. Len(s) -> S]
    OBVIOUS
  <2>1. s \in [1 .. 1 -> S]
    BY <1>4, <2>0
  <2>2. "j" \in S
    BY <1>4, <2>1
  <2>3. <<"j">> \in [1 .. 1 -> S]
    BY <2>2
  <2>4. \A k \in 1 .. 1 : s[k] = <<"j">>[k]
    BY <1>2, <1>4
  <2> QED
    BY <2>1, <2>3, <2>4
<1> QED
  BY <1>1, <1>2, <1>3, <1>4

\* The characters of a part of the format.
LEMMA PartOf ==
  ASSUME FormatOK, NEW i \in Nat \ {0}, NEW k \in Nat, k <= Len(format)
  PROVE  /\ SubSeq(format, i, k) \in Seq(STRING)
         /\ Len(SubSeq(format, i, k)) = IF i <= k THEN k - i + 1 ELSE 0
         /\ \A j \in 1 .. (k - i + 1) : SubSeq(format, i, k)[j] = format[i + j - 1]
<1>1. \A j \in i .. k : format[j] \in STRING
  BY DEF FormatOK
<1>2. i \in Int /\ k \in Int
  OBVIOUS
<1> QED
  BY <1>1, <1>2, SubSeqProperties

LEMMA ModifierPlain ==
  ASSUME AtPercent, Mod.odd = {}
  PROVE  /\ \A j \in WidthEnd .. Mod.last : At(j) \in {"h", "l", "j", "z", "t"}
         /\ Mod.length # "L"
         /\ Mod.length \in {"q", "j"} <=>
               SubSeq(format, WidthEnd, Mod.last) \in {<<"l", "l">>, <<"j">>}
<1>1. /\ FormatOK /\ Len(format) \in Nat /\ pos \in 1 .. Len(format)
      /\ WidthEnd \in (pos + 1) .. (Len(format) + 1)
  BY Scan DEF AtPercent
<1>2. PICK i : i = WidthEnd
  OBVIOUS
<1>3. i \in Nat \ {0} /\ i + 1 \in Nat \ {0} /\ i - 1 \in Nat \ {0} /\ i <= Len(format) + 1
  BY <1>1, <1>2
<1>5. At(i) # "L"
  <2> SUFFICES ASSUME At(i) = "L" PROVE FALSE
    OBVIOUS
  <2>1. Mod.odd = {"L"} \cap {"L"}
    BY <1>2 DEF Mod, Modifier
  <2> QED
    BY <2>1
<1>7. At(i) \in {"h", "l"} => At(i + 1) = At(i) /\ i + 1 <= Len(format)
  <2> SUFFICES ASSUME At(i) \in {"h", "l"} PROVE At(i + 1) = At(i) /\ i + 1 <= Len(format)
    OBVIOUS
  <2>1. At(i + 1) = At(i)
    <3> SUFFICES ASSUME At(i + 1) # At(i) PROVE FALSE
      OBVIOUS
    <3>1. Mod.odd = {"single"}
      BY <1>2 DEF Mod, Modifier
    <3> QED
      BY <3>1
  <2> QED
    BY <1>1, <1>3, <2>1, AtFacts DEF NUL
<1>8. CASE At(i) = "h"
  <2>1. Mod.last = i + 1 /\ Mod.length = "H" /\ At(i + 1) = "h" /\ i + 1 <= Len(format)
    BY <1>2, <1>7, <1>8 DEF Mod, Modifier
  <2>2. /\ SubSeq(format, i, i + 1) \in Seq(STRING) /\ Len(SubSeq(format, i, i + 1)) = 2
        /\ SubSeq(format, i, i + 1)[1] = "h"
    BY <1>1, <1>3, <1>8, <2>1, AtFacts, PartOf
  <2>3. SubSeq(format, i, i + 1) \notin {<<"l", "l">>, <<"j">>}
    BY <2>2, Pairs
  <2> QED
    BY <1>2, <1>3, <1>8, <2>1, <2>3
<1>9. CASE At(i) = "l"
  <2>1. Mod.last = i + 1 /\ Mod.length = "q" /\ At(i + 1) = "l" /\ i + 1 <= Len(format)
    BY <1>2, <1>7, <1>9 DEF Mod, Modifier
  <2>2. format[i] = "l" /\ format[i + 1] = "l"
    BY <1>1, <1>3, <1>9, <2>1, AtFacts
  <2>3. SubSeq(format, i, i + 1) = <<"l", "l">>
    <3>1. /\ SubSeq(format, i, i + 1) \in Seq(STRING) /\ Len(SubSeq(format, i, i + 1)) = 2
          /\ SubSeq(format, i, i + 1)[1] = format[i]
          /\ SubSeq(format, i, i + 1)[2] = format[i + 1]
      BY <1>1, <1>3, <2>1, PartOf
    <3> QED
      BY <2>2, <3>1, Pairs
  <2> QED
    BY <1>2, <1>3, <1>9, <2>1, <2>3
<1>10. CASE At(i) \in {"j", "z", "t"}
  <2>1. Mod.last = i /\ Mod.length = At(i)
    BY <1>2, <1>10 DEF Mod, Modifier
  <2>2. i <= Len(format) /\ format[i] = At(i)
    BY <1>1, <1>3, <1>10, AtFacts DEF NUL
  <2>3. /\ SubSeq(format, i, i) \in Seq(STRING) /\ Len(SubSeq(format, i, i)) = 1
        /\ SubSeq(format, i, i)[1] = At(i)
    BY <1>1, <1>3, <2>2, PartOf
  <2>4. PICK s : s = SubSeq(format, i, i)
    OBVIOUS
  <2>5. s = <<"j">> <=> At(i) = "j"
    BY <2>3, <2>4, Pairs
  <2>6. s # <<"l", "l">>
    <3>1. s \in Seq(STRING) /\ Len(s) = 1
      BY <2>3, <2>4
    <3>2. s = <<"l", "l">> => Len(s) = 2
      BY <3>1, Pairs
    <3> QED
      BY <3>1, <3>2
  <2> QED
    <3>1. Mod.last = WidthEnd /\ s = SubSeq(format, WidthEnd, Mod.last)
      BY <1>2, <2>1, <2>4
    <3>2. \A j \in WidthEnd .. Mod.last : At(j) \in {"h", "l", "j", "z", "t"}
      <4>1. \A j \in i .. i : j = i
        BY <1>3
      <4> QED
        BY <1>2, <1>10, <2>1, <4>1
    <3>3. Mod.length # "L" /\ (Mod.length \in {"q", "j"} <=> At(i) = "j")
      BY <1>10, <2>1
    <3> QED
      BY <2>5, <2>6, <3>1, <3>2, <3>3
<1>11. CASE At(i) \notin {"h", "l", "j", "z", "t"}
  <2>1. Mod.last = i - 1 /\ Mod.length = NUL
    BY <1>2, <1>5, <1>11 DEF Mod, Modifier
  <2>2. SubSeq(format, i, i - 1) \in Seq(STRING) /\ Len(SubSeq(format, i, i - 1)) = 0
    BY <1>1, <1>3, PartOf
  <2>3. SubSeq(format, i, i - 1) \notin {<<"l", "l">>, <<"j">>}
    BY <2>2, Pairs
  <2> QED
    BY <1>2, <1>3, <2>1, <2>3 DEF NUL
<1> QED
  BY <1>8, <1>9, <1>10, <1>11

\* A conversion whose specifier is c is a %c.
LEMMA CharacterIs ==
  ASSUME AtPercent, Mod.odd = {}, At(Mod.last + 1) = "c"
  PROVE  IsCharacter(pos)
<1> DEFINE All == Flags \cup DOMAIN DigitValue \cup {"h", "l", "j", "z", "t"}
<1>1. /\ FormatOK /\ Len(format) \in Nat /\ pos \in 1 .. Len(format)
      /\ WidthEnd \in (pos + 1) .. (Len(format) + 1)
      /\ Mod.last \in (WidthEnd - 1) .. Len(format)
  BY Scan, ModifierEnd DEF AtPercent
<1>2. NUL \notin All /\ "c" \notin All
  BY Digits DEF NUL, Flags
<1>3. ASSUME NEW j \in (pos + 1) .. Mod.last PROVE At(j) \in All
  <2>1. j \in (pos + 1) .. (WidthEnd - 1) \/ j \in WidthEnd .. Mod.last
    BY <1>1
  <2> QED
    BY <2>1, Scan, ModifierPlain
<1> HIDE DEF All
<1>4. PICK i, b : i = pos + 1 /\ b = Behind(i, All)
  OBVIOUS
<1>5. i \in 1 .. (Len(format) + 1)
  BY <1>1, <1>4
<1>6. /\ b \in i .. (Len(format) + 1) /\ At(b) \notin All
      /\ \A j \in i .. (b - 1) : At(j) \in All
  BY <1>1, <1>2, <1>4, <1>5, BehindFacts
<1>7. b = Mod.last + 1
  <2>1. ~(b <= Mod.last)
    BY <1>1, <1>3, <1>4, <1>6
  <2>2. ~(b > Mod.last + 1)
    <3> SUFFICES ASSUME b > Mod.last + 1 PROVE FALSE
      OBVIOUS
    <3>1. Mod.last + 1 \in i .. (b - 1)
      BY <1>1, <1>4, <1>6
    <3> QED
      BY <1>2, <1>6, <3>1
  <2> QED
    BY <1>1, <1>4, <1>6, <2>1, <2>2
<1> QED
  BY <1>4, <1>7 DEF IsCharacter, All

-----------------------------------------------------------------------------
(* The width of a conversion is a number.                                  *)

IsWidth(a, k, f) ==
    f = [i \in (a - 1) .. k |->
           IF i < a THEN min_width ELSE 10 * f[i - 1] + DigitValue[At(i)]]

LEMMA WidthValues ==
  ASSUME NEW a, NEW k, NEW f, IsWidth(a, k, f)
  PROVE  \A i \in (a - 1) .. k :
            f[i] = IF i < a THEN min_width ELSE 10 * f[i - 1] + DigitValue[At(i)]
<1> DEFINE G == [i \in (a - 1) .. k |->
                   IF i < a THEN min_width ELSE 10 * f[i - 1] + DigitValue[At(i)]]
<1>1. \A i \in (a - 1) .. k :
         G[i] = IF i < a THEN min_width ELSE 10 * f[i - 1] + DigitValue[At(i)]
  OBVIOUS
<1>2. f = G
  BY DEF IsWidth
<1> HIDE DEF G
<1> QED
  BY <1>1, <1>2

LEMMA WidthExists ==
  ASSUME NEW a \in Nat \ {0}, NEW k \in Nat, k >= a - 1
  PROVE  \E f : IsWidth(a, k, f)
<1> DEFINE T == {m \in Nat : m >= a - 1 /\ ~ \E f : IsWidth(a, m, f)}
<1>1. T = {}
  <2> SUFFICES ASSUME T # {} PROVE FALSE
    OBVIOUS
  <2>1. PICK m \in T : \A j \in T : m <= j
    BY LeastNumber
  <2>2. m \in Nat /\ m >= a - 1 /\ ~ \E f : IsWidth(a, m, f)
    BY <2>1
  <2>3. CASE m = a - 1
    <3> DEFINE f == [i \in (a - 1) .. m |-> min_width]
               F == [i \in (a - 1) .. m |->
                       IF i < a THEN min_width ELSE 10 * f[i - 1] + DigitValue[At(i)]]
    <3>1. \A i \in (a - 1) .. m : f[i] = F[i]
      BY <2>2, <2>3
    <3>2. f = F
      BY <3>1
    <3>3. IsWidth(a, m, f)
      BY <3>2 DEF IsWidth
    <3> QED
      BY <2>2, <3>3
  <2>4. CASE m # a - 1
    <3>1. m - 1 \in Nat /\ m - 1 >= a - 1 /\ ~(m <= m - 1) /\ m >= a
      BY <2>2, <2>4
    <3>2. PICK g : IsWidth(a, m - 1, g)
      BY <2>1, <3>1
    <3>3. \A i \in (a - 1) .. (m - 1) :
             g[i] = IF i < a THEN min_width ELSE 10 * g[i - 1] + DigitValue[At(i)]
      BY <3>2, WidthValues
    <3> DEFINE f == [i \in (a - 1) .. m |->
                       IF i = m THEN 10 * g[m - 1] + DigitValue[At(m)] ELSE g[i]]
               F == [i \in (a - 1) .. m |->
                       IF i < a THEN min_width ELSE 10 * f[i - 1] + DigitValue[At(i)]]
    <3>4. ASSUME NEW i \in (a - 1) .. m PROVE f[i] = F[i]
      <4>1. CASE i < a
        <5>1. i # m /\ i \in (a - 1) .. (m - 1)
          BY <2>2, <3>1, <4>1
        <5> QED
          BY <3>3, <4>1, <5>1
      <4>2. CASE ~(i < a)
        <5>1. i - 1 \in (a - 1) .. m /\ i - 1 # m
          BY <2>2, <4>2
        <5>2. F[i] = 10 * g[i - 1] + DigitValue[At(i)]
          BY <4>2, <5>1
        <5>3. CASE i = m
          BY <5>2, <5>3
        <5>4. CASE i # m
          <6>1. i \in (a - 1) .. (m - 1)
            BY <2>2, <5>4
          <6>2. f[i] = g[i]
            BY <5>4
          <6> QED
            BY <3>3, <4>2, <5>2, <6>1, <6>2
        <5> QED
          BY <5>3, <5>4
      <4> QED
        BY <4>1, <4>2
    <3>5. f = F
      BY <3>4
    <3>6. IsWidth(a, m, f)
      BY <3>5 DEF IsWidth
    <3> QED
      BY <2>2, <3>6
  <2> QED
    BY <2>3, <2>4
<1> QED
  BY <1>1

LEMMA WidthNat ==
  ASSUME NEW a \in Nat \ {0}, NEW k \in Nat, k >= a - 1, min_width \in Nat,
         \A j \in a .. k : At(j) \in DOMAIN DigitValue
  PROVE  WidthAt(a, k) \in Nat
<1> DEFINE width_at[i \in (a - 1) .. k] ==
             IF i < a THEN min_width ELSE 10 * width_at[i - 1] + DigitValue[At(i)]
<1>1. width_at = CHOOSE f : IsWidth(a, k, f)
  BY DEF IsWidth
<1>2. WidthAt(a, k) = width_at[k]
  BY DEF WidthAt
<1> HIDE DEF width_at
<1>3. PICK f : f = width_at
  OBVIOUS
<1>4. IsWidth(a, k, f)
  BY <1>1, <1>3, WidthExists
<1>5. \A i \in (a - 1) .. k :
         f[i] = IF i < a THEN min_width ELSE 10 * f[i - 1] + DigitValue[At(i)]
  BY <1>4, WidthValues
<1> DEFINE T == {i \in (a - 1) .. k : f[i] \notin Nat}
<1>6. T = {}
  <2> SUFFICES ASSUME T # {} PROVE FALSE
    OBVIOUS
  <2>1. T \subseteq Nat
    OBVIOUS
  <2>2. PICK i \in T : \A j \in T : i <= j
    BY <2>1, LeastNumber
  <2>3. i \in (a - 1) .. k /\ f[i] \notin Nat
    BY <2>2
  <2>4. ~(i < a)
    BY <1>5, <2>3
  <2>5. i - 1 \in (a - 1) .. k /\ ~(i <= i - 1) /\ i \in a .. k
    BY <2>3, <2>4
  <2>6. f[i - 1] \in Nat
    BY <2>2, <2>5
  <2>7. DigitValue[At(i)] \in Nat
    BY <2>5, Digits
  <2>8. f[i] = 10 * f[i - 1] + DigitValue[At(i)]
    BY <1>5, <2>3, <2>4
  <2> QED
    BY <2>3, <2>6, <2>7, <2>8
<1>7. k \in (a - 1) .. k
  OBVIOUS
<1> QED
  BY <1>2, <1>3, <1>6, <1>7

-----------------------------------------------------------------------------
(* The buffer.                                                             *)

Buffers == {b \in [1 .. BufSize -> Nat] : b[BufSize] = 0}

LEMMA Sizes ==
  /\ BufSize \in Nat /\ BufDigits \in Nat \ {0} /\ BufDigits + 2 < BufSize
  /\ StrLens \subseteq Nat
  BY NumbersAssumption, PrintfAssumption

LEMMA StrlenFacts ==
  ASSUME NEW b \in Buffers, NEW i \in 1 .. BufSize
  PROVE  /\ strlen(b, i) \in Nat /\ i + strlen(b, i) <= BufSize
         /\ b[i + strlen(b, i)] = 0
         /\ \A j \in i .. BufSize : b[j] = 0 => i + strlen(b, i) <= j
<1> DEFINE S == {j \in i .. BufSize : b[j] = 0}
<1>1. BufSize \in Nat /\ b[BufSize] = 0
  BY Sizes DEF Buffers
<1>2. S \subseteq Nat /\ BufSize \in S
  BY <1>1
<1>3. Min(S) \in S /\ \A j \in S : Min(S) <= j
  BY <1>2, MinFacts
<1>4. strlen(b, i) = Min(S) - i
  BY DEF strlen
<1>5. PICK z : z = Min(S)
  OBVIOUS
<1>6. z \in i .. BufSize /\ b[z] = 0 /\ \A j \in i .. BufSize : b[j] = 0 => z <= j
  BY <1>3, <1>5
<1>7. PICK l : l = strlen(b, i)
  OBVIOUS
<1>8. l \in Nat /\ i + l = z
  BY <1>1, <1>4, <1>5, <1>6, <1>7
<1> QED
  BY <1>6, <1>7, <1>8

LEMMA FillFacts ==
  ASSUME buf \in Buffers, pos \in Nat \ {0}, NEW k \in Nat, k < BufSize, NEW t \in BOOLEAN
  PROVE  /\ Fill(k, t) \in Buffers
         /\ t => strlen(Fill(k, t), 1) = k /\ \A j \in 1 .. k : Fill(k, t)[j] = pos
<1>1. BufSize \in Nat /\ buf \in [1 .. BufSize -> Nat] /\ buf[BufSize] = 0
  BY Sizes DEF Buffers
<1>2. PICK b : b = Fill(k, t)
  OBVIOUS
<1>3. /\ b \in [1 .. BufSize -> Nat]
      /\ \A i \in 1 .. BufSize :
            b[i] = IF i <= k THEN pos ELSE IF i = k + 1 /\ t THEN 0 ELSE buf[i]
  BY <1>1, <1>2 DEF Fill
<1>4. b \in Buffers
  <2>1. BufSize \in 1 .. BufSize /\ ~(BufSize <= k)
    BY <1>1
  <2> QED
    BY <1>1, <1>3, <2>1 DEF Buffers
<1>5. ASSUME t PROVE strlen(b, 1) = k /\ \A j \in 1 .. k : b[j] = pos
  <2>1. 1 \in 1 .. BufSize /\ k + 1 \in 1 .. BufSize /\ b[k + 1] = 0
    BY <1>1, <1>3, <1>5
  <2>2. \A j \in 1 .. k : b[j] = pos /\ j \in 1 .. BufSize
    BY <1>1, <1>3
  <2>3. PICK z : z = strlen(b, 1)
    OBVIOUS
  <2>4. /\ z \in Nat /\ 1 + z <= BufSize /\ b[1 + z] = 0
        /\ \A j \in 1 .. BufSize : b[j] = 0 => 1 + z <= j
    BY <1>4, <2>1, <2>3, StrlenFacts
  <2>5. z <= k
    BY <2>1, <2>4
  <2>6. ~(1 + z <= k)
    BY <2>2, <2>4
  <2> QED
    BY <2>2, <2>3, <2>4, <2>5, <2>6
<1> QED
  BY <1>2, <1>4, <1>5


\* A number is up to two characters of sign or prefix and the digits behind
\* them, and takes two words for the lengths q and j, %p excepted.
LEMMA NumberFacts ==
  ASSUME NEW d, d.specifier \in IntegerSpecifiers, NEW negative \in BOOLEAN
  PROVE  \E p \in 0 .. 2 :
            ConvertNumber(d, negative)
               = Number(p, IF d.specifier = "p" THEN NUL ELSE d.length)
<1>1. \A b : One(b) \in 0 .. 2 /\ 2 * One(b) \in 0 .. 2
  BY DEF One
<1>2. CASE d.specifier \in {"d", "i"}
  BY <1>1, <1>2 DEF ConvertNumber, Signed
<1>3. CASE d.specifier = "o"
  BY <1>1, <1>3 DEF ConvertNumber, Octal
<1>4. CASE d.specifier = "u"
  BY <1>1, <1>4 DEF ConvertNumber, Unsigned
<1>5. CASE d.specifier \in {"x", "X"}
  BY <1>1, <1>5 DEF ConvertNumber, Hex
<1>6. CASE d.specifier = "b"
  BY <1>1, <1>6 DEF ConvertNumber, Binary
<1>7. CASE d.specifier = "p"
  BY <1>1, <1>7 DEF ConvertNumber, Pointer
<1> QED
  BY <1>2, <1>3, <1>4, <1>5, <1>6, <1>7 DEF IntegerSpecifiers

-----------------------------------------------------------------------------
(* The invariant.                                                          *)

\* What may be shown: %c alone shows a cell it has not written.
Good == {e \in [by : Nat, cell : Nat] : e.cell # e.by => IsCharacter(e.by)}

\* No conversion so far had a modifier without a meaning.
Plain == odd \subseteq {"specifier"}

TextInv ==
    /\ FormatOK
    /\ pos \in 1 .. (Len(format) + 1)
    /\ min_width \in Nat /\ width \in Nat
    /\ buf \in Buffers
    /\ words \in Nat /\ named \in Nat
    /\ Plain => words = named /\ out \in Seq(Good)

\* A turn of the loop keeps the format, and with it what may be shown.
LEMMA SameFormat ==
  ASSUME format' = format
  PROVE  FormatOK' = FormatOK /\ Good' = Good
<1>1. FormatOK' = FormatOK
  BY DEF FormatOK
<1>3. \A by : IsCharacter(by)' = IsCharacter(by)
  BY DEF IsCharacter, At, Behind
<1>4. Good' = Good
  BY <1>3 DEF Good
<1> QED
  BY <1>1, <1>4

LEMMA CellsGood ==
  ASSUME NEW p \in Nat, NEW c \in Seq(Nat),
         IsCharacter(p) \/ \A i \in 1 .. Len(c) : c[i] = p
  PROVE  Cells(p, c) \in Seq(Good)
<1>1. Len(c) \in Nat /\ DOMAIN c = 1 .. Len(c) /\ \A i \in 1 .. Len(c) : c[i] \in Nat
  OBVIOUS
<1>2. Cells(p, c) = [i \in 1 .. Len(c) |-> [by |-> p, cell |-> c[i]]]
  BY <1>1 DEF Cells
<1>3. ASSUME NEW i \in 1 .. Len(c) PROVE [by |-> p, cell |-> c[i]] \in Good
  <2>1. [by |-> p, cell |-> c[i]] \in [by : Nat, cell : Nat]
    BY <1>1
  <2> QED
    BY <2>1 DEF Good
<1> QED
  BY <1>1, <1>2, <1>3

LEMMA LiteralGood ==
  ASSUME NEW p \in Nat, NEW k \in Nat
  PROVE  [i \in 1 .. k |-> [by |-> p, cell |-> p]] \in Seq(Good)
<1>1. [by |-> p, cell |-> p] \in Good
  BY DEF Good
<1> QED
  BY <1>1


-----------------------------------------------------------------------------
(* One lemma per action: the invariant is kept, and the loop moves on.     *)

Moves == pos' > pos \/ ppc' # "loop"

LEMMA LiteralStep ==
  ASSUME TextInv, Literal
  PROVE  TextInv' /\ Moves
<1>1. /\ FormatOK /\ Len(format) \in Nat /\ pos \in 1 .. (Len(format) + 1)
      /\ format' = format
      /\ At(pos) # NUL /\ (At(pos) = "%" => At(pos + 1) = "%")
  BY DEF TextInv, FormatOK, Literal
<1>2. PICK start : start = IF At(pos) = "%" THEN pos + 1 ELSE pos
  OBVIOUS
<1>3. start \in Nat \ {0} /\ start >= pos /\ start <= Len(format)
  <2>1. pos \in Nat \ {0} /\ pos + 1 \in Nat \ {0}
    BY <1>1
  <2>2. pos <= Len(format)
    BY <1>1, <2>1, AtFacts
  <2>3. At(pos) = "%" => pos + 1 <= Len(format)
    BY <1>1, <2>1, AtFacts DEF NUL
  <2> QED
    BY <1>2, <2>1, <2>2, <2>3
<1> DEFINE S == {j \in (start + 1) .. (Len(format) + 1) : At(j) \in {NUL, "%"}}
<1>4. PICK stop : stop = Min(S)
  OBVIOUS
<1>5. stop \in (start + 1) .. (Len(format) + 1)
  <2>1. At(Len(format) + 1) = NUL
    BY <1>1 DEF At
  <2>2. S \subseteq Nat /\ Len(format) + 1 \in S
    BY <1>1, <1>3, <2>1
  <2>3. Min(S) \in S
    <3> HIDE DEF S
    <3> QED
      BY <2>2, MinFacts
  <2> QED
    BY <1>4, <2>3
<1>6. /\ \/ ppc' = "return" /\ UNCHANGED <<pos, out>>
         \/ /\ out' = out \o [i \in 1 .. (stop - start) |-> [by |-> pos, cell |-> pos]]
            /\ pos' = stop
      /\ UNCHANGED <<format, min_width, width, length, buf, words, named, odd>>
  BY <1>2, <1>4 DEF Literal, Overflow
<1>7. PICK p, k : p = pos /\ k = stop - start
  OBVIOUS
<1>8. PICK q : q = [i \in 1 .. k |-> [by |-> p, cell |-> p]]
  OBVIOUS
<1>9. ASSUME out \in Seq(Good) PROVE out' \in Seq(Good)
  <2>1. p \in Nat /\ k \in Nat
    BY <1>1, <1>3, <1>5, <1>7
  <2>2. q \in Seq(Good)
    BY <1>8, <2>1, LiteralGood
  <2>3. out' = out \/ out' = out \o q
    BY <1>6, <1>7, <1>8
  <2>4. PICK o, G : o = out /\ G = Good
    OBVIOUS
  <2>5. o \o q \in Seq(G)
    BY <1>9, <2>2, <2>4, ConcatProperties
  <2> QED
    BY <1>9, <2>3, <2>4, <2>5
<1>10. pos' \in 1 .. (Len(format) + 1) /\ Moves
  BY <1>1, <1>3, <1>5, <1>6 DEF Moves
<1>11. FormatOK' /\ (Plain => words = named /\ out \in Seq(Good))'
  <2>1. Plain => words = named /\ out \in Seq(Good)
    BY DEF TextInv
  <2>2. Plain' = Plain
    BY <1>6 DEF Plain
  <2> QED
    BY <1>1, <1>6, <1>9, <2>1, <2>2, SameFormat
<1> QED
  BY <1>6, <1>10, <1>11 DEF TextInv

\* A step that changes neither the format nor what was read and shown.
LEMMA KeptInv ==
  ASSUME TextInv, UNCHANGED <<format, pos, min_width, width, buf, words, named, odd, out>>
  PROVE  TextInv'
<1>1. FormatOK' = FormatOK /\ Good' = Good
  BY SameFormat
<1>2. Plain' = Plain
  BY DEF Plain
<1> QED
  BY <1>1, <1>2 DEF TextInv

LEMMA ReturnStep ==
  ASSUME TextInv, Return
  PROVE  TextInv' /\ Moves
<1>1. /\ UNCHANGED <<format, pos, min_width, width, buf, words, named, odd, out>>
      /\ ppc' = "return"
  BY DEF Return
<1> QED
  BY <1>1, KeptInv DEF Moves

\* What the directive at a percent is.
LEMMA DirectiveFacts ==
  ASSUME TextInv, At(pos) = "%", NEW d, d = Directive
  PROVE  /\ AtPercent /\ pos \in Nat \ {0} /\ pos <= Len(format) /\ Len(format) \in Nat
         /\ d.min_width \in Nat /\ d.words \in Nat
         /\ d.next \in Nat /\ d.next > pos + 1
         /\ d.specifier # NUL => d.next <= Len(format) + 1
         /\ d.odd \subseteq {"single", "L"}
         /\ d.odd = {} => d.length # "L"
         /\ d.odd = {} /\ d.specifier = "c" => IsCharacter(pos)
         /\ d.odd = {} =>
               d.words = IF d.specifier \notin {"c", "s", "p"} /\ d.length \in {"q", "j"}
                         THEN 2 ELSE 1
<1>1. AtPercent /\ FormatOK /\ min_width \in Nat
  BY DEF TextInv, AtPercent
<1>2. /\ Len(format) \in Nat /\ pos \in 1 .. Len(format)
      /\ FlagsEnd \in (pos + 1) .. (Len(format) + 1)
      /\ WidthEnd \in FlagsEnd .. (Len(format) + 1)
      /\ \A j \in FlagsEnd .. (WidthEnd - 1) : At(j) \in DOMAIN DigitValue
  BY <1>1, Scan
<1>3. Mod.last \in (WidthEnd - 1) .. Len(format)
  BY <1>1, ModifierEnd
<1>4. d.min_width \in Nat
  <2>1. PICK a, k : a = FlagsEnd /\ k = WidthEnd - 1
    OBVIOUS
  <2>2. /\ a \in Nat \ {0} /\ k \in Nat /\ k >= a - 1
        /\ \A j \in a .. k : At(j) \in DOMAIN DigitValue
    BY <1>2, <2>1
  <2>3. WidthAt(a, k) \in Nat
    BY <1>1, <2>2, WidthNat
  <2> QED
    BY <2>1, <2>3, DirectiveIs
<1>5. d.words \in Nat
  BY DirectiveIs DEF NamedWords
<1>6. /\ d.next = Mod.last + 2 /\ d.specifier = At(Mod.last + 1)
      /\ d.length = Mod.length /\ d.odd = Mod.odd
  BY DirectiveIs
<1>7. d.specifier # NUL => d.next <= Len(format) + 1
  <2>1. PICK i : i = Mod.last + 1
    OBVIOUS
  <2>2. i \in Nat \ {0}
    BY <1>2, <1>3, <2>1
  <2>3. At(i) # NUL => i <= Len(format)
    BY <1>1, <1>2, <2>2, AtFacts
  <2> QED
    BY <1>2, <1>3, <1>6, <2>1, <2>2, <2>3
<1>8. ASSUME d.odd = {}
      PROVE  /\ d.length # "L"
             /\ d.specifier = "c" => IsCharacter(pos)
             /\ d.words = IF d.specifier \notin {"c", "s", "p"} /\ d.length \in {"q", "j"}
                          THEN 2 ELSE 1
  <2>1. /\ Mod.length # "L"
        /\ Mod.length \in {"q", "j"} <=>
              SubSeq(format, WidthEnd, Mod.last) \in {<<"l", "l">>, <<"j">>}
    BY <1>1, <1>6, <1>8, ModifierPlain
  <2>2. d.specifier = "c" => IsCharacter(pos)
    BY <1>1, <1>6, <1>8, CharacterIs
  <2>3. PICK m : m = SubSeq(format, WidthEnd, Mod.last)
    OBVIOUS
  <2>4. d.words = NamedWords(m, d.specifier)
    BY <1>6, <2>3, DirectiveIs
  <2> QED
    BY <1>6, <2>1, <2>2, <2>3, <2>4 DEF NamedWords
<1>9. d.odd \subseteq {"single", "L"}
  BY <1>6 DEF Mod, Modifier
<1> QED
  BY <1>1, <1>2, <1>3, <1>4, <1>5, <1>6, <1>7, <1>8, <1>9


\* A conversion that is written: what it shows is its own unless it is a %c,
\* and it has read the words it names.
LEMMA WriteStep ==
  ASSUME TextInv, At(pos) = "%", NEW d, d = Directive, Write(d),
         d.specifier # NUL, buf' \in Buffers, width' \in Nat,
         NEW w \in Nat, words' = words + w,
         d.odd = {} => w = d.words,
         d.odd = {} =>
            d.specifier = "c" \/ \A j \in 1 .. strlen(buf', 1) : buf'[j] = pos
  PROVE  TextInv' /\ Moves
<1>1. /\ pos \in Nat \ {0} /\ pos <= Len(format) /\ Len(format) \in Nat
      /\ d.min_width \in Nat /\ d.words \in Nat
      /\ d.next \in Nat /\ d.next > pos + 1 /\ d.next <= Len(format) + 1
      /\ d.odd = {} /\ d.specifier = "c" => IsCharacter(pos)
      /\ d.odd \subseteq {"single", "L"}
  BY DirectiveFacts
<1>2. PICK p, b, k, x : /\ p = pos /\ b = buf' /\ k = strlen(buf', 1)
                        /\ x = Max({0, d.min_width - width'})
  OBVIOUS
<1>3. b \in [1 .. BufSize -> Nat] /\ BufSize \in Nat \ {0} /\ k \in Nat /\ k < BufSize
  <2>1. BufSize \in Nat /\ 1 \in 1 .. BufSize
    BY Sizes
  <2>2. strlen(b, 1) \in Nat /\ 1 + strlen(b, 1) <= BufSize
    BY <1>2, <2>1, StrlenFacts
  <2>3. b \in [1 .. BufSize -> Nat]
    BY <1>2 DEF Buffers
  <2> QED
    BY <1>2, <2>1, <2>2, <2>3
<1>4. x \in Nat
  <2>1. PICK a : a = d.min_width - width'
    OBVIOUS
  <2>2. a \in Int
    BY <1>1, <2>1
  <2>3. \E m \in {0, a} : \A y \in {0, a} : m >= y
    BY <2>2
  <2>4. x \in {0, a} /\ \A y \in {0, a} : x >= y
    BY <1>2, <2>1, <2>3 DEF Max
  <2> QED
    BY <2>2, <2>4
<1> DEFINE padding == [i \in 1 .. x |-> p]
           text == SubSeq(b, 1, k)
<1>5. padding \in Seq(Nat) /\ Len(padding) = x /\ \A i \in 1 .. x : padding[i] = p
  <2>1. p \in Nat
    BY <1>1, <1>2
  <2>2. padding \in [1 .. x -> Nat] /\ \A i \in 1 .. x : padding[i] = p
    BY <2>1
  <2> QED
    BY <1>4, <2>2
<1>6. text \in Seq(Nat) /\ Len(text) = k /\ \A i \in 1 .. k : text[i] = b[i]
  <2>1. b \in Seq(Nat) /\ Len(b) = BufSize
    BY <1>3
  <2>2. 1 \in Int /\ k \in Int /\ \A i \in 1 .. k : b[i] \in Nat
    BY <1>3
  <2>3. /\ text \in Seq(Nat) /\ Len(text) = IF 1 <= k THEN k - 1 + 1 ELSE 0
        /\ \A i \in 1 .. (k - 1 + 1) : text[i] = b[1 + i - 1]
    BY <2>1, <2>2, <1>3, SubSeqProperties
  <2> QED
    BY <1>3, <2>3
<1>7. PICK both : both = padding \o text
  OBVIOUS
<1>8. /\ both \in Seq(Nat)
      /\ d.odd = {} => IsCharacter(p) \/ \A i \in 1 .. Len(both) : both[i] = p
  <2> HIDE DEF padding, text
  <2>1. /\ both \in Seq(Nat) /\ Len(both) = x + k
        /\ \A i \in 1 .. x : both[i] = padding[i]
        /\ \A i \in (x + 1) .. (x + k) : both[i] = text[i - x]
    <3>0. /\ both \in Seq(Nat) /\ Len(both) = Len(padding) + Len(text)
          /\ \A i \in 1 .. Len(padding) + Len(text) :
                both[i] = IF i <= Len(padding) THEN padding[i] ELSE text[i - Len(padding)]
      <4>1. padding \in Seq(Nat) /\ text \in Seq(Nat)
        BY <1>5, <1>6
      <4> QED
        BY <1>7, <4>1, ConcatProperties, Zenon
    <3>1. /\ both \in Seq(Nat) /\ Len(both) = x + k
          /\ \A i \in 1 .. x + k : both[i] = IF i <= x THEN padding[i] ELSE text[i - x]
      <4>1. Len(padding) = x /\ Len(text) = k
        BY <1>5, <1>6
      <4> QED
        BY <3>0, <4>1, Zenon
    <3>2. ASSUME NEW i \in 1 .. x PROVE both[i] = padding[i]
      <4>1. i \in 1 .. x + k /\ i <= x
        BY <1>3, <1>4
      <4> QED
        BY <3>1, <4>1, Zenon
    <3>3. ASSUME NEW i \in (x + 1) .. (x + k) PROVE both[i] = text[i - x]
      <4>1. i \in 1 .. x + k /\ ~(i <= x)
        BY <1>3, <1>4
      <4> QED
        BY <3>1, <4>1, Zenon
    <3> QED
      BY <3>1, <3>2, <3>3
  <2>2. ASSUME d.odd = {}, d.specifier # "c", NEW i \in 1 .. Len(both)
        PROVE  both[i] = p
    <3>1. CASE i \in 1 .. x
      BY <1>5, <2>1, <3>1
    <3>2. CASE i \notin 1 .. x
      <4>1. i \in (x + 1) .. (x + k) /\ i - x \in 1 .. k
        BY <1>3, <1>4, <2>1, <3>2
      <4>2. \A j \in 1 .. k : b[j] = p
        BY <1>2, <2>2
      <4> QED
        BY <1>6, <2>1, <4>1, <4>2
    <3> QED
      BY <3>1, <3>2
  <2> QED
    BY <1>1, <1>2, <2>1, <2>2
<1>9. ASSUME d.odd = {}
      PROVE  Cells(p, padding) \in Seq(Good) /\ Cells(p, both) \in Seq(Good)
  <2>1. p \in Nat
    BY <1>1, <1>2
  <2>2. Cells(p, both) \in Seq(Good)
    BY <1>8, <1>9, <2>1, CellsGood
  <2>3. PICK c : c = padding
    OBVIOUS
  <2>4. Cells(p, c) \in Seq(Good)
    <3> HIDE DEF padding
    <3> QED
      BY <1>5, <2>1, <2>3, CellsGood
  <2> QED
    BY <2>2, <2>3, <2>4
<1>10. /\ min_width' = d.min_width /\ named' = named + d.words /\ format' = format
       /\ odd' = odd \cup d.odd
       /\ \/ ppc' = "return" /\ out' = out \o Cells(p, padding) /\ pos' = pos
          \/ out' = out \o Cells(p, both) /\ pos' = d.next
  BY <1>2, <1>7 DEF Write, Overflow
<1>11. ASSUME d.odd = {}, out \in Seq(Good) PROVE out' \in Seq(Good)
  <2> HIDE DEF padding
  <2>1. PICK c1, c2 : c1 = Cells(p, padding) /\ c2 = Cells(p, both)
    OBVIOUS
  <2>3. PICK o, G : o = out /\ G = Good
    OBVIOUS
  <2>4. o \o c1 \in Seq(G) /\ o \o c2 \in Seq(G)
    BY <1>9, <1>11, <2>1, <2>3, ConcatProperties
  <2> QED
    BY <1>10, <2>1, <2>3, <2>4
<1>12. pos' \in 1 .. (Len(format) + 1) /\ Moves
  BY <1>1, <1>10 DEF Moves
<1>13. FormatOK' /\ Good' = Good /\ format' = format
  BY <1>10, SameFormat DEF TextInv
<1>14. words' \in Nat /\ named' \in Nat
  BY <1>1, <1>10 DEF TextInv
<1>15. ASSUME Plain' PROVE words' = named' /\ out' \in Seq(Good)'
  <2>1. Plain /\ d.odd = {}
    BY <1>1, <1>10, <1>15 DEF Plain
  <2>2. words = named /\ out \in Seq(Good)
    BY <2>1 DEF TextInv
  <2>3. words' = named'
    BY <1>10, <2>1, <2>2
  <2> QED
    BY <1>11, <1>13, <2>1, <2>2, <2>3
<1> QED
  BY <1>1, <1>10, <1>12, <1>13, <1>14, <1>15 DEF TextInv


LEMMA CharacterStep ==
  ASSUME TextInv, At(pos) = "%", NEW d, d = Directive, Character(d)
  PROVE  TextInv' /\ Moves
<1>1. /\ d.specifier = "c" /\ buf' = Fill(1, FALSE) /\ words' = words + 1
      /\ width' = width /\ Write(d)
  BY DEF Character
<1>2. buf \in Buffers /\ width \in Nat
  BY DEF TextInv
<1>3. pos \in Nat \ {0} /\ (d.odd = {} => 1 = d.words)
  BY <1>1, DirectiveFacts
<1>4. buf' \in Buffers
  <2>1. 1 \in Nat /\ 1 < BufSize /\ FALSE \in BOOLEAN
    BY Sizes
  <2>2. Fill(1, FALSE) \in Buffers
    BY <1>2, <1>3, <2>1, FillFacts
  <2> QED
    BY <1>1, <2>2
<1>5. d.specifier # NUL /\ 1 \in Nat
  BY <1>1 DEF NUL
<1> QED
  BY <1>1, <1>2, <1>3, <1>4, <1>5, WriteStep

LEMMA StringStep ==
  ASSUME TextInv, At(pos) = "%", NEW d, d = Directive, String(d)
  PROVE  TextInv' /\ Moves
<1>1. PICK chars \in StrLens : chars < BufSize /\ buf' = Fill(chars, TRUE)
  BY DEF String
<1>2. /\ d.specifier = "s" /\ words' = words + 1 /\ width' = width /\ Write(d)
  BY DEF String
<1>3. buf \in Buffers /\ width \in Nat
  BY DEF TextInv
<1>4. pos \in Nat \ {0} /\ (d.odd = {} => 1 = d.words)
  BY <1>2, DirectiveFacts
<1>5. /\ Fill(chars, TRUE) \in Buffers /\ strlen(Fill(chars, TRUE), 1) = chars
      /\ \A j \in 1 .. chars : Fill(chars, TRUE)[j] = pos
  <2>1. chars \in Nat /\ chars < BufSize /\ TRUE \in BOOLEAN
    BY <1>1, Sizes
  <2> QED
    BY <1>3, <1>4, <2>1, FillFacts
<1>6. buf' \in Buffers /\ \A j \in 1 .. strlen(buf', 1) : buf'[j] = pos
  <2>1. PICK b : b = Fill(chars, TRUE)
    OBVIOUS
  <2>2. b \in Buffers /\ \A j \in 1 .. strlen(b, 1) : b[j] = pos
    BY <1>5, <2>1
  <2> QED
    BY <1>1, <2>1, <2>2
<1>7. d.specifier # NUL /\ 1 \in Nat
  BY <1>2 DEF NUL
<1> QED
  BY <1>2, <1>3, <1>4, <1>6, <1>7, WriteStep

LEMMA IntegerStep ==
  ASSUME TextInv, At(pos) = "%", NEW d, d = Directive, Integer(d)
  PROVE  TextInv' /\ Moves
<1>1. d.specifier \in IntegerSpecifiers /\ Write(d)
  BY DEF Integer
<1>2. PICK negative \in BOOLEAN :
         /\ buf' = Fill(ConvertNumber(d, negative).prefix + ConvertNumber(d, negative).digits,
                        ConvertNumber(d, negative).digits # 0)
         /\ width' = strlen(buf', ConvertNumber(d, negative).prefix + 1)
         /\ words' = words + ConvertNumber(d, negative).words
  BY DEF Integer
<1>3. PICK len : len = IF d.specifier = "p" THEN NUL ELSE d.length
  OBVIOUS
<1>4. PICK p \in 0 .. 2 : ConvertNumber(d, negative) = Number(p, len)
  BY <1>1, <1>3, NumberFacts
<1>5. PICK digits, w, t : /\ digits = IF len = "L" THEN 0 ELSE BufDigits
                          /\ w = IF len = "L" THEN 0 ELSE IF len \in {"q", "j"} THEN 2 ELSE 1
                          /\ t = (digits # 0)
  OBVIOUS
<1>6. /\ buf' = Fill(p + digits, t) /\ width' = strlen(buf', p + 1) /\ words' = words + w
  <2>1. Number(p, len) = [prefix |-> p, digits |-> digits, words |-> w]
    BY <1>5 DEF Number
  <2> QED
    BY <1>2, <1>4, <1>5, <2>1
<1>7. buf \in Buffers /\ pos \in Nat \ {0}
  BY DirectiveFacts DEF TextInv
<1>8. PICK k : k = p + digits
  OBVIOUS
<1>9. /\ k \in Nat /\ k < BufSize /\ t \in BOOLEAN /\ p + 1 \in 1 .. BufSize /\ w \in Nat
      /\ BufDigits # 0
  BY <1>5, <1>8, Sizes
<1>10. /\ Fill(k, t) \in Buffers
       /\ t => strlen(Fill(k, t), 1) = k /\ \A j \in 1 .. k : Fill(k, t)[j] = pos
  BY <1>7, <1>9, FillFacts
<1>11. PICK b : b = buf'
  OBVIOUS
<1>12. b \in Buffers /\ (t => \A j \in 1 .. strlen(b, 1) : b[j] = pos)
  BY <1>6, <1>8, <1>10, <1>11
<1>13. width' \in Nat
  BY <1>6, <1>9, <1>11, <1>12, StrlenFacts
<1>14. d.odd = {} => t /\ w = d.words
  <2>1. d.odd = {} =>
           /\ d.length # "L"
           /\ d.words = IF d.specifier \notin {"c", "s", "p"} /\ d.length \in {"q", "j"}
                        THEN 2 ELSE 1
    BY DirectiveFacts
  <2>2. d.specifier \notin {"c", "s"}
    BY <1>1 DEF IntegerSpecifiers
  <2> QED
    BY <1>3, <1>5, <1>9, <2>1, <2>2 DEF NUL
<1>15. d.specifier # NUL
  BY <1>1 DEF IntegerSpecifiers, NUL
<1> QED
  BY <1>1, <1>6, <1>9, <1>11, <1>12, <1>13, <1>14, <1>15, WriteStep

LEMMA StringOverrunStep ==
  ASSUME TextInv, NEW d, StringOverrun(d)
  PROVE  TextInv' /\ Moves
<1>1. /\ UNCHANGED <<format, pos, min_width, width, buf, words, named, odd, out>>
      /\ ppc' = "overrun"
  BY DEF StringOverrun
<1> QED
  BY <1>1, KeptInv DEF Moves

\* The scan goes on behind the nearest percent, which is never in front of the
\* one it started at.
LEMMA UnsupportedStep ==
  ASSUME TextInv, At(pos) = "%", NEW d, d = Directive, Unsupported(d)
  PROVE  TextInv' /\ Moves
<1>1. /\ out' = Append(out, [by |-> pos, cell |-> pos])
      /\ pos' = IF d.specifier = "%" THEN d.next ELSE pos + 1
      /\ min_width' = d.min_width
      /\ odd' = odd \cup d.odd \cup {"specifier"}
      /\ UNCHANGED <<format, width, buf, words, named>>
  BY DEF Unsupported
<1>2. /\ pos \in Nat \ {0} /\ pos <= Len(format) /\ Len(format) \in Nat /\ d.min_width \in Nat
      /\ d.next \in Nat /\ d.next > pos + 1
      /\ d.specifier # NUL => d.next <= Len(format) + 1
  BY DirectiveFacts
<1>3. [by |-> pos, cell |-> pos] \in Good
  BY <1>2 DEF Good
<1>4. ASSUME out \in Seq(Good) PROVE out' \in Seq(Good)
  BY <1>1, <1>3, <1>4
<1>5. pos' \in 1 .. (Len(format) + 1) /\ Moves
  <2>1. d.specifier = "%" => d.next <= Len(format) + 1
    BY <1>2 DEF NUL
  <2> QED
    BY <1>1, <1>2, <2>1 DEF Moves
<1>6. FormatOK' = FormatOK /\ Good' = Good
  BY <1>1, SameFormat
<1>7. Plain' => Plain
  BY <1>1 DEF Plain
<1> QED
  BY <1>1, <1>2, <1>4, <1>5, <1>6, <1>7 DEF TextInv

-----------------------------------------------------------------------------
(* Every step.                                                             *)

LEMMA InitInv == Init => TextInv
<1> SUFFICES ASSUME Init PROVE TextInv
  OBVIOUS
<1>1. PICK f : f \in Formats \cup {<< >>} /\ CallVprintf(f)
  BY DEF Init
<1>2. f \in Seq(STRING) /\ \A i \in 1 .. Len(f) : f[i] # NUL
  <2>1. CASE f \in Formats
    BY <2>1, FormatsAssumption
  <2>2. CASE f = << >>
    BY <2>2
  <2> QED
    BY <1>1, <2>1, <2>2
<1>3. FormatOK /\ pos \in 1 .. (Len(format) + 1)
  BY <1>1, <1>2 DEF CallVprintf, FormatOK
<1>4. buf \in Buffers
  BY <1>1, Sizes DEF CallVprintf, Buffers
<1>5. min_width = 0 /\ width = 0 /\ words = 0 /\ named = 0 /\ out = << >>
  BY <1>1 DEF CallVprintf
<1> QED
  BY <1>3, <1>4, <1>5 DEF TextInv

\* A step of vprintf keeps the invariant and moves on in the format or returns;
\* every other step leaves vprintf's state alone.
LEMMA StepInv ==
  ASSUME TextInv, [Next]_vars
  PROVE  TextInv' /\ [Moves]_printf_vars
<1>1. ASSUME UNCHANGED printf_vars PROVE TextInv' /\ [Moves]_printf_vars
  <2>1. UNCHANGED <<format, pos, min_width, width, buf, words, named, odd, out>>
    BY <1>1 DEF printf_vars
  <2> QED
    BY <1>1, <2>1, KeptInv
<1>2. CASE Literal
  BY <1>2, LiteralStep
<1>3. CASE Return
  BY <1>3, ReturnStep
<1>4. CASE Conversion
  <2>1. PICK d : /\ d = Directive
                 /\ \/ Character(d) \/ String(d) \/ StringOverrun(d) \/ Integer(d)
                    \/ Unsupported(d)
    BY <1>4 DEF Conversion
  <2>2. At(pos) = "%"
    BY <1>4 DEF Conversion
  <2> QED
    BY <2>1, <2>2, CharacterStep, StringStep, StringOverrunStep, IntegerStep, UnsupportedStep
<1>5. Literal \/ Return \/ Conversion \/ UNCHANGED printf_vars
  BY DEF Next, Vprintf, Finished, vars
<1> QED
  BY <1>1, <1>2, <1>3, <1>4, <1>5

LEMMA InvShows == TextInv => ArgumentsInStep /\ ShowsItsOwn
<1> SUFFICES ASSUME TextInv PROVE ArgumentsInStep /\ ShowsItsOwn
  OBVIOUS
<1>1. ArgumentsInStep
  BY DEF TextInv, Plain, ArgumentsInStep
<1>2. ASSUME Plain, NEW i \in DOMAIN out, out[i].cell # out[i].by
      PROVE  IsCharacter(out[i].by)
  <2>1. out[i] \in Good
    BY <1>2 DEF TextInv
  <2> QED
    BY <1>2, <2>1 DEF Good
<1> QED
  BY <1>1, <1>2 DEF ShowsItsOwn, Plain

LEMMA TextAlways == Spec => []TextInv
<1>1. TextInv /\ [Next]_vars => TextInv'
  BY StepInv
<1> QED
  BY InitInv, <1>1, PTL DEF Spec

\* Whatever the format, as long as vprintf has met only conversions and modifiers
\* it knows, it has called va_arg for as many words as C's printf takes for them:
\* no conversion reads a part of another's argument.  (Of a conversion it does not
\* know it reads nothing, so that the ones behind it are out of step.)
THEOREM TextArgumentsInStep == Spec => []ArgumentsInStep
  BY TextAlways, InvShows, PTL

\* As long as no modifier without a meaning was used and every string has fitted
\* intStrBuf, every conversion but %c shows only what it has written into the
\* buffer itself, whatever the conversions before it have left there.
THEOREM TextShowsItsOwn == Spec => []ShowsItsOwn
  BY TextAlways, InvShows, PTL

\* Every turn of vprintf's loop moves on in the format or leaves the loop, the
\* rewind to the nearest percent of an unsupported conversion included.
THEOREM TextAdvances == Spec => Advances
<1>1. TextInv /\ [Next]_vars => [pos' > pos \/ ppc' # "loop"]_printf_vars
  BY StepInv DEF Moves
<1> QED
  BY TextAlways, <1>1, PTL DEF Spec, Advances

=============================================================================

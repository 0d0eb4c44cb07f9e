---------------------------- MODULE ConsoleProofs ---------------------------
(***************************************************************************)
(* Proofs about everything that is written at once, for every set of       *)
(* writers and everything they may say.                                    *)
(***************************************************************************)
EXTENDS Console, TerminalProofs

-----------------------------------------------------------------------------
(* FlattenSeq: the recursion of the library's definition.                  *)

\* The parts up to the n-th, one after the other, for every n up to k.
IsFlat(s, k, f) == f = [i \in 1 .. k |-> IF i = 1 THEN s[i] ELSE f[i - 1] \o s[i]]

LEMMA FlatValues ==
  ASSUME NEW s, NEW k \in Nat, NEW f, IsFlat(s, k, f)
  PROVE  /\ DOMAIN f = 1 .. k
         /\ \A i \in 1 .. k : f[i] = IF i = 1 THEN s[i] ELSE f[i - 1] \o s[i]
<1> DEFINE G == [i \in 1 .. k |-> IF i = 1 THEN s[i] ELSE f[i - 1] \o s[i]]
<1>1. /\ DOMAIN G = 1 .. k
      /\ \A i \in 1 .. k : G[i] = IF i = 1 THEN s[i] ELSE f[i - 1] \o s[i]
  OBVIOUS
<1>2. f = G
  BY DEF IsFlat
<1> HIDE DEF G
<1> QED
  BY <1>1, <1>2

LEMMA FlatExists ==
  ASSUME NEW s, NEW n \in Nat
  PROVE  \E f : IsFlat(s, n, f)
<1> DEFINE T == {k \in Nat : ~ \E f : IsFlat(s, k, f)}
<1>1. T = {}
  <2> SUFFICES ASSUME T # {} PROVE FALSE
    OBVIOUS
  <2>1. PICK k \in T : \A j \in T : k <= j
    BY LeastNumber
  <2>2. k \in Nat /\ ~ \E f : IsFlat(s, k, f)
    BY <2>1
  <2>3. CASE k = 0
    <3> DEFINE f == [i \in 1 .. 0 |-> s]
               F == [i \in 1 .. 0 |-> IF i = 1 THEN s[i] ELSE f[i - 1] \o s[i]]
    <3>1. f = F
      OBVIOUS
    <3>2. IsFlat(s, 0, f)
      BY <3>1 DEF IsFlat
    <3> QED
      BY <2>2, <2>3, <3>2
  <2>4. CASE k # 0
    <3>1. k - 1 \in Nat /\ ~(k <= k - 1)
      BY <2>2, <2>4
    <3>2. PICK g : IsFlat(s, k - 1, g)
      BY <2>1, <3>1
    <3>3. \A i \in 1 .. (k - 1) : g[i] = IF i = 1 THEN s[i] ELSE g[i - 1] \o s[i]
      BY <3>1, <3>2, FlatValues
    <3> DEFINE f == [i \in 1 .. k |-> IF i = k THEN IF k = 1 THEN s[k] ELSE g[k - 1] \o s[k]
                                      ELSE g[i]]
               F == [i \in 1 .. k |-> IF i = 1 THEN s[i] ELSE f[i - 1] \o s[i]]
    <3>4. ASSUME NEW i \in 1 .. k PROVE f[i] = F[i]
      <4>1. CASE i = 1
        BY <2>2, <2>4, <3>1, <3>3, <4>1
      <4>2. CASE i # 1
        <5>1. i - 1 \in 1 .. k /\ i - 1 # k /\ f[i - 1] = g[i - 1]
          BY <2>2, <4>2
        <5>2. F[i] = g[i - 1] \o s[i]
          BY <4>2, <5>1
        <5>3. CASE i = k
          BY <4>2, <5>2, <5>3
        <5>4. CASE i # k
          <6>1. i \in 1 .. (k - 1)
            BY <2>2, <5>4
          <6> QED
            BY <3>3, <4>2, <5>2, <5>4, <6>1
        <5> QED
          BY <5>3, <5>4
      <4> QED
        BY <4>1, <4>2
    <3>5. f = F
      BY <3>4
    <3>6. IsFlat(s, k, f)
      BY <3>5 DEF IsFlat
    <3> QED
      BY <2>2, <3>6
  <2> QED
    BY <2>3, <2>4
<1> QED
  BY <1>1

\* The first k parts of s.
Prefix(s, k) == IF k = 0 THEN << >> ELSE (CHOOSE f : IsFlat(s, Len(s), f))[k]

LEMMA PrefixNext ==
  ASSUME NEW X, NEW s \in Seq(Seq(X)), NEW k \in 0 .. Len(s)
  PROVE  /\ Prefix(s, k) \in Seq(X)
         /\ k < Len(s) => Prefix(s, k + 1) = Prefix(s, k) \o s[k + 1]
<1>0. Len(s) \in Nat /\ \A i \in 1 .. Len(s) : s[i] \in Seq(X)
  OBVIOUS
<1>1. PICK f : f = CHOOSE g : IsFlat(s, Len(s), g)
  OBVIOUS
<1>2. IsFlat(s, Len(s), f)
  BY <1>0, <1>1, FlatExists
<1>3. \A i \in 1 .. Len(s) : f[i] = IF i = 1 THEN s[i] ELSE f[i - 1] \o s[i]
  BY <1>0, <1>2, FlatValues
<1> DEFINE T == {i \in 1 .. Len(s) : f[i] \notin Seq(X)}
<1>4. T = {}
  <2> SUFFICES ASSUME T # {} PROVE FALSE
    OBVIOUS
  <2>1. T \subseteq Nat
    BY <1>0
  <2>2. PICK i \in T : \A j \in T : i <= j
    BY <2>1, LeastNumber
  <2>3. i \in 1 .. Len(s) /\ f[i] \notin Seq(X)
    BY <2>2
  <2>4. i # 1
    BY <1>0, <1>3, <2>3
  <2>5. i - 1 \in 1 .. Len(s) /\ ~(i <= i - 1)
    BY <1>0, <2>3, <2>4
  <2>6. f[i - 1] \in Seq(X)
    BY <2>2, <2>5
  <2>7. f[i] = f[i - 1] \o s[i] /\ s[i] \in Seq(X)
    BY <1>0, <1>3, <2>3, <2>4
  <2>8. f[i - 1] \o s[i] \in Seq(X)
    BY <2>6, <2>7, ConcatProperties
  <2> QED
    BY <2>3, <2>7, <2>8
<1>5. \A i \in 1 .. Len(s) : f[i] \in Seq(X)
  BY <1>4
<1>6. Prefix(s, 0) = << >> /\ \A i \in 1 .. Len(s) : Prefix(s, i) = f[i]
  BY <1>0, <1>1 DEF Prefix
<1>7. Prefix(s, k) \in Seq(X)
  <2>1. CASE k = 0
    BY <1>6, <2>1, EmptySeq
  <2>2. CASE k # 0
    <3>1. k \in 1 .. Len(s)
      BY <1>0, <2>2
    <3> QED
      BY <1>5, <1>6, <3>1
  <2> QED
    BY <2>1, <2>2
<1>8. ASSUME k < Len(s) PROVE Prefix(s, k + 1) = Prefix(s, k) \o s[k + 1]
  <2>1. k + 1 \in 1 .. Len(s) /\ (k + 1) - 1 = k
    BY <1>0, <1>8
  <2>2. CASE k = 0
    <3>1. Prefix(s, k + 1) = s[k + 1] /\ Prefix(s, k) = << >>
      BY <1>3, <1>6, <2>1, <2>2
    <3>2. s[k + 1] \in Seq(X)
      BY <1>0, <2>1
    <3>3. << >> \o s[k + 1] = s[k + 1]
      BY <3>2, ConcatEmptySeq
    <3> QED
      BY <3>1, <3>3
  <2>3. CASE k # 0
    <3>1. k \in 1 .. Len(s)
      BY <1>0, <2>3
    <3>2. f[k + 1] = f[k] \o s[k + 1]
      <4>1. PICK j : j = k + 1
        OBVIOUS
      <4>2. j \in 1 .. Len(s) /\ j # 1 /\ j - 1 = k
        BY <1>0, <2>1, <2>3, <4>1
      <4>3. f[j] = f[j - 1] \o s[j]
        BY <1>3, <4>2
      <4> QED
        BY <4>1, <4>2, <4>3
    <3> QED
      BY <1>6, <2>1, <3>1, <3>2
  <2> QED
    BY <2>2, <2>3
<1> QED
  BY <1>7, <1>8

\* The library's FlattenSeq is the prefix of all parts.
LEMMA FlattenIsPrefix ==
  ASSUME NEW X, NEW s \in Seq(Seq(X))
  PROVE  FlattenSeq(s) = Prefix(s, Len(s)) /\ FlattenSeq(s) \in Seq(X)
<1>0. Len(s) \in Nat
  OBVIOUS
<1>1. CASE Len(s) = 0
  <2>1. s = << >>
    BY <1>1, EmptySeq
  <2>2. FlattenSeq(s) = << >>
    BY <1>1, <2>1 DEF FlattenSeq
  <2> QED
    BY <1>1, <2>2 DEF Prefix
<1>2. CASE Len(s) # 0
  <2> DEFINE flatten[i \in 1 .. Len(s)] ==
                IF i = 1 THEN s[i] ELSE flatten[i - 1] \o s[i]
  <2>1. flatten = CHOOSE f : IsFlat(s, Len(s), f)
    BY DEF IsFlat
  <2>2. FlattenSeq(s) = flatten[Len(s)]
    BY <1>2 DEF FlattenSeq
  <2> HIDE DEF flatten
  <2>3. FlattenSeq(s) = Prefix(s, Len(s))
    BY <1>2, <2>1, <2>2 DEF Prefix
  <2>4. Len(s) \in 0 .. Len(s)
    BY <1>0
  <2>5. Prefix(s, Len(s)) \in Seq(X)
    BY <2>4, PrefixNext
  <2> QED
    BY <2>3, <2>5
<1> QED
  BY <1>1, <1>2

-----------------------------------------------------------------------------
(* The writers.                                                            *)

Pcs == {"idle", "parts", "serial", "term", "wrap"}

Shape ==
    /\ program \in Programs /\ running \in Writers
    /\ said \in [Writers -> Nat] /\ pc \in [Writers -> Pcs]
    /\ func \in [Writers -> {"serial", "both"}] /\ parts \in [Writers -> Seq(Seq(Chars))]
    /\ strings \in [Writers -> Seq(Chars)] /\ chunk \in [Writers -> Seq(Chars)]
    /\ sent \in [Writers -> Nat]

Flags ==
    /\ logging \in {"serial", "both"} /\ torn \in BOOLEAN /\ vga_is_text \in BOOLEAN
    /\ irq_on \in BOOLEAN /\ stored_flags \in BOOLEAN

\* A writer is inside a message that is its program's, and not behind the end of
\* what it writes.
WriterOK(w) ==
    /\ said[w] <= Len(program[w]) /\ sent[w] <= Len(chunk[w])
    /\ pc[w] = "wrap" => sent[w] >= 1
    /\ pc[w] # "idle" => said[w] >= 1 /\ Message(w).kind # "setup"

\* A writer with output_lock or in an interrupt handler.
Deaf(w) ==
    /\ pc[w] # "idle"
    /\ \/ Message(w).kind = "isr"
       \/ Message(w).kind = "kout" /\ pc[w] # "parts"

\* Interrupts are off exactly while the CPU is with such a writer.
LockOK(w) ==
    /\ Deaf(w) => ~irq_on /\ running = w
    /\ Deaf(w) /\ Message(w).kind = "kout" => stored_flags

\* During boot only interrupt handlers interrupt the boot code.
BootOK(w) ==
    w # Boot /\ pc[w] # "idle" /\ said[Boot] < Len(program[Boot]) => Message(w).kind = "isr"

WritersInv ==
    /\ Shape /\ Flags
    /\ \A w \in Writers : WriterOK(w) /\ LockOK(w) /\ BootOK(w)
    /\ ~irq_on => Deaf(running)

LEMMA ProgramMessages ==
  ASSUME Shape, NEW w \in Writers
  PROVE  /\ program[w] \in Seq(Messages) /\ Len(program[w]) \in Nat
         /\ \A i \in 1 .. Len(program[w]) : program[w][i] \in Messages
         /\ w # Boot => \A i \in 1 .. Len(program[w]) : program[w][i].kind # "setup"
<1>1. program[w] \in Seq(Messages)
  BY ProgramsAssumption DEF Shape
<1>2. Len(program[w]) \in Nat /\ DOMAIN program[w] = 1 .. Len(program[w])
  BY <1>1
<1>3. \A i \in 1 .. Len(program[w]) : program[w][i] \in Messages
  BY <1>1
<1>4. w # Boot => \A i \in DOMAIN program[w] : program[w][i].kind # "setup"
  BY ProgramsAssumption DEF Shape
<1> QED
  BY <1>1, <1>2, <1>3, <1>4

\* printf's characters, with the carriage returns put in.
LEMMA PartsType ==
  ASSUME NEW m \in Messages
  PROVE  Parts(m) \in Seq(Seq(Chars))
<1>1. m.parts \in Seq(Seq(Chars))
  BY DEF Messages
<1>2. ASSUME NEW c \in Chars PROVE __internal_putchar(c) \in Seq(Seq(Chars))
  <2>1. "\r" \in Chars /\ "\n" \in Chars
    BY CharsAssumption DEF Controls
  <2> QED
    BY <1>2, <2>1 DEF __internal_putchar
<1>3. ASSUME NEW s \in Seq(Chars)
      PROVE  FlattenSeq([j \in DOMAIN s |-> __internal_putchar(s[j])]) \in Seq(Seq(Chars))
  <2> DEFINE f == [j \in DOMAIN s |-> __internal_putchar(s[j])]
  <2>1. f \in Seq(Seq(Seq(Chars)))
    <3>1. Len(s) \in Nat /\ DOMAIN s = 1 .. Len(s) /\ \A j \in 1 .. Len(s) : s[j] \in Chars
      OBVIOUS
    <3>2. f \in [1 .. Len(s) -> Seq(Seq(Chars))]
      BY <1>2, <3>1
    <3> QED
      BY <3>1, <3>2
  <2> HIDE DEF f
  <2>2. FlattenSeq(f) \in Seq(Seq(Chars))
    BY <2>1, FlattenIsPrefix
  <2> QED
    BY <2>2 DEF f
<1>4. CASE m.kind = "printf"
  <2> DEFINE g == [i \in DOMAIN m.parts |->
            FlattenSeq([j \in DOMAIN m.parts[i] |-> __internal_putchar(m.parts[i][j])])]
  <2>1. g \in Seq(Seq(Seq(Chars)))
    <3>1. /\ Len(m.parts) \in Nat /\ DOMAIN m.parts = 1 .. Len(m.parts)
          /\ \A i \in 1 .. Len(m.parts) : m.parts[i] \in Seq(Chars)
      BY <1>1
    <3>2. g \in [1 .. Len(m.parts) -> Seq(Seq(Chars))]
      BY <1>3, <3>1
    <3> QED
      BY <3>1, <3>2
  <2>2. Parts(m) = FlattenSeq(g)
    BY <1>4 DEF Parts
  <2> HIDE DEF g
  <2> QED
    BY <2>1, <2>2, FlattenIsPrefix
<1>5. CASE m.kind # "printf"
  BY <1>1, <1>5 DEF Parts
<1> QED
  BY <1>4, <1>5

-----------------------------------------------------------------------------
(* What a step changes.                                                    *)

\* At most the writer's own entry, and that to something of S.
Own(f, g, w, S) == \E a \in S : g = Set(f, w, a) \/ g = f

\* The other writers stay where they are.
Same(v) ==
    /\ said'[v] = said[v] /\ pc'[v] = pc[v] /\ func'[v] = func[v]
    /\ parts'[v] = parts[v] /\ strings'[v] = strings[v]
    /\ chunk'[v] = chunk[v] /\ sent'[v] = sent[v]

Moves(w) ==
    /\ Shape' /\ running' = w /\ program' = program /\ vga_is_text' = vga_is_text
    /\ \A v \in Writers \ {w} : Same(v)

LEMMA Moved ==
  ASSUME Shape, NEW w \in Writers, Step(w),
         Own(said, said', w, Nat), Own(pc, pc', w, Pcs), Own(func, func', w, {"serial", "both"}),
         Own(parts, parts', w, Seq(Seq(Chars))), Own(strings, strings', w, Seq(Chars)),
         Own(chunk, chunk', w, Seq(Chars)), Own(sent, sent', w, Nat)
  PROVE  Moves(w)
<1>1. said' \in [Writers -> Nat] /\ \A v \in Writers \ {w} : said'[v] = said[v]
  BY DEF Own, Set, Shape
<1>2. pc' \in [Writers -> Pcs] /\ \A v \in Writers \ {w} : pc'[v] = pc[v]
  BY DEF Own, Set, Shape
<1>3. /\ func' \in [Writers -> {"serial", "both"}]
      /\ \A v \in Writers \ {w} : func'[v] = func[v]
  BY DEF Own, Set, Shape
<1>4. /\ parts' \in [Writers -> Seq(Seq(Chars))]
      /\ \A v \in Writers \ {w} : parts'[v] = parts[v]
  BY DEF Own, Set, Shape
<1>5. /\ strings' \in [Writers -> Seq(Chars)]
      /\ \A v \in Writers \ {w} : strings'[v] = strings[v]
  BY DEF Own, Set, Shape
<1>6. /\ chunk' \in [Writers -> Seq(Chars)]
      /\ \A v \in Writers \ {w} : chunk'[v] = chunk[v]
  BY DEF Own, Set, Shape
<1>7. sent' \in [Writers -> Nat] /\ \A v \in Writers \ {w} : sent'[v] = sent[v]
  BY DEF Own, Set, Shape
<1>8. running' = w /\ program' = program /\ vga_is_text' = vga_is_text
  BY DEF Step
<1>9. Shape'
  BY <1>1, <1>2, <1>3, <1>4, <1>5, <1>6, <1>7, <1>8 DEF Shape
<1>10. \A v \in Writers \ {w} : Same(v)
  BY <1>1, <1>2, <1>3, <1>4, <1>5, <1>6, <1>7 DEF Same
<1> QED
  BY <1>8, <1>9, <1>10 DEF Moves

\* A writer's entries, as they are.
LEMMA Entries ==
  ASSUME Shape, NEW w \in Writers
  PROVE  /\ said[w] \in Nat /\ pc[w] \in Pcs /\ func[w] \in {"serial", "both"}
         /\ parts[w] \in Seq(Seq(Chars)) /\ strings[w] \in Seq(Chars)
         /\ chunk[w] \in Seq(Chars) /\ sent[w] \in Nat
         /\ Len(chunk[w]) \in Nat /\ Len(parts[w]) \in Nat
<1>1. /\ said[w] \in Nat /\ pc[w] \in Pcs /\ func[w] \in {"serial", "both"}
      /\ parts[w] \in Seq(Seq(Chars)) /\ strings[w] \in Seq(Chars)
      /\ chunk[w] \in Seq(Chars) /\ sent[w] \in Nat
  BY DEF Shape
<1> QED
  BY <1>1

\* What of a writer's variables stays is of its kind.
LEMMA Stays ==
  ASSUME Shape, NEW w \in Writers
  PROVE  /\ said' = said => Own(said, said', w, Nat)
         /\ pc' = pc => Own(pc, pc', w, Pcs)
         /\ func' = func => Own(func, func', w, {"serial", "both"})
         /\ parts' = parts => Own(parts, parts', w, Seq(Seq(Chars)))
         /\ strings' = strings => Own(strings, strings', w, Seq(Chars))
         /\ chunk' = chunk => Own(chunk, chunk', w, Seq(Chars))
         /\ sent' = sent => Own(sent, sent', w, Nat)
<1>1. pc[w] \in Pcs /\ << >> \in Seq(Chars) /\ << >> \in Seq(Seq(Chars)) /\ 0 \in Nat
  BY Entries
<1> QED
  BY <1>1 DEF Own

-----------------------------------------------------------------------------
(* What each action does to its writer.                                    *)

LEMMA BeginEffect ==
  ASSUME Shape, Flags, NEW w \in Writers, Step(w), Begin(w)
  PROVE  /\ Moves(w) /\ said'[w] = said[w] + 1 /\ pc'[w] = "parts"
         /\ parts'[w] = Parts(program[w][said[w] + 1]) /\ strings'[w] = << >>
         /\ chunk'[w] = chunk[w] /\ sent'[w] = sent[w]
<1> DEFINE m == program[w][said[w] + 1]
<1>1. /\ said[w] \in Nat /\ said[w] + 1 \in 1 .. Len(program[w])
  BY Entries, ProgramMessages DEF Begin
<1>2. m \in Messages
  BY <1>1, ProgramMessages
<1>3. Parts(m) \in Seq(Seq(Chars))
  BY <1>2, PartsType
<1>4. Own(said, said', w, Nat)
  <2>1. said' = Set(said, w, said[w] + 1) /\ said[w] + 1 \in Nat
    BY <1>1 DEF Begin, Set
  <2> QED
    BY <2>1 DEF Own
<1>5. Own(pc, pc', w, Pcs)
  BY DEF Begin, Own, Pcs
<1>6. Own(func, func', w, {"serial", "both"})
  BY DEF Begin, Own, Flags
<1>7. Own(parts, parts', w, Seq(Seq(Chars)))
  BY <1>3 DEF Begin, Own
<1>8. Own(strings, strings', w, Seq(Chars))
  BY EmptySeq DEF Begin, Own
<1>9. chunk' = chunk /\ sent' = sent
  BY DEF Begin
<1>10. Moves(w)
  BY <1>4, <1>5, <1>6, <1>7, <1>8, <1>9, Stays, Moved
<1> QED
  BY <1>10, <1>9 DEF Begin, Set, Shape

LEMMA AddPartEffect ==
  ASSUME Shape, NEW w \in Writers, Step(w), add_part(w)
  PROVE  /\ Moves(w) /\ said'[w] = said[w] /\ parts'[w] = Tail(parts[w])
         /\ Keeps(w) => /\ pc'[w] = pc[w] /\ strings'[w] = strings[w] \o Head(parts[w])
                        /\ chunk'[w] = chunk[w] /\ sent'[w] = sent[w]
         /\ ~Keeps(w) => /\ pc'[w] = "serial" /\ sent'[w] = 0 /\ chunk'[w] \in Seq(Chars)
                         /\ strings'[w] = strings[w]
<1>1. /\ parts[w] \in Seq(Seq(Chars)) /\ parts[w] # << >> /\ strings[w] \in Seq(Chars)
  BY Entries DEF add_part
<1>2. Tail(parts[w]) \in Seq(Seq(Chars)) /\ Head(parts[w]) \in Seq(Chars)
  BY <1>1
<1>3. strings[w] \o Head(parts[w]) \in Seq(Chars)
  BY <1>1, <1>2, ConcatProperties
<1>4. said' = said /\ func' = func
  BY DEF add_part
<1>5. Own(parts, parts', w, Seq(Seq(Chars)))
  BY <1>2 DEF add_part, Own
<1>6. CASE Keeps(w)
  <2>1. strings' = Set(strings, w, strings[w] \o Head(parts[w])) /\ UNCHANGED <<pc, chunk, sent>>
    BY <1>6 DEF add_part
  <2>2. Own(strings, strings', w, Seq(Chars))
    BY <1>3, <2>1 DEF Own
  <2>3. Moves(w)
    BY <1>4, <1>5, <2>1, <2>2, Stays, Moved
  <2> QED
    BY <1>4, <1>6, <2>1, <2>3 DEF add_part, Set, Shape
<1>7. CASE ~Keeps(w)
  <2>1. /\ chunk' = Set(chunk, w, Head(parts[w])) /\ sent' = Set(sent, w, 0)
        /\ pc' = Set(pc, w, "serial") /\ strings' = strings
    BY <1>7 DEF add_part
  <2>2. /\ Own(chunk, chunk', w, Seq(Chars)) /\ Own(sent, sent', w, Nat)
        /\ Own(pc, pc', w, Pcs)
    BY <1>2, <2>1 DEF Own, Pcs
  <2>3. Moves(w)
    BY <1>4, <1>5, <2>1, <2>2, Stays, Moved
  <2> QED
    BY <1>2, <1>4, <1>7, <2>1, <2>3 DEF add_part, Set, Shape
<1> QED
  BY <1>6, <1>7

LEMMA DoWriteEffect ==
  ASSUME Shape, NEW w \in Writers, Step(w), do_write(w)
  PROVE  /\ Moves(w) /\ said'[w] = said[w] /\ pc'[w] = "serial" /\ sent'[w] = 0
         /\ chunk'[w] = strings[w] /\ parts'[w] = parts[w] /\ strings'[w] = strings[w]
<1>1. strings[w] \in Seq(Chars)
  BY Entries
<1>2. UNCHANGED <<said, func, parts, strings>>
  BY DEF do_write
<1>3. /\ Own(chunk, chunk', w, Seq(Chars)) /\ Own(sent, sent', w, Nat)
      /\ Own(pc, pc', w, Pcs)
  BY <1>1 DEF do_write, Own, Pcs
<1>4. Moves(w)
  BY <1>2, <1>3, Stays, Moved
<1> QED
  BY <1>2, <1>4 DEF do_write, Set, Shape

LEMMA EndedEffect ==
  ASSUME Shape, NEW w \in Writers, Step(w), Ended(w)
  PROVE  /\ Moves(w) /\ said'[w] = said[w] /\ pc'[w] = "idle"
         /\ chunk'[w] = chunk[w] /\ sent'[w] = sent[w]
<1>1. UNCHANGED <<said, func, parts, strings, chunk, sent>>
  BY DEF Ended
<1>2. Own(pc, pc', w, Pcs)
  BY DEF Ended, Own, Pcs
<1>3. Moves(w)
  BY <1>1, <1>2, Stays, Moved
<1> QED
  BY <1>1, <1>3 DEF Ended, Set, Shape

LEMMA SerialEffect ==
  ASSUME Shape, NEW w \in Writers, Step(w), put_serial(w)
  PROVE  /\ Moves(w) /\ said'[w] = said[w] /\ pc'[w] = "serial" /\ chunk'[w] = chunk[w]
         /\ sent'[w] = sent[w] + 1 /\ parts'[w] = parts[w] /\ strings'[w] = strings[w]
<1>1. UNCHANGED <<said, pc, func, parts, strings, chunk>>
  BY DEF put_serial
<1>2. Own(sent, sent', w, Nat)
  <2>1. sent' = Set(sent, w, sent[w] + 1) /\ sent[w] + 1 \in Nat
    BY Entries DEF put_serial, Set
  <2> QED
    BY <2>1 DEF Own
<1>3. Moves(w)
  BY <1>1, <1>2, Stays, Moved
<1> QED
  BY <1>1, <1>3 DEF put_serial, Set, Shape

LEMMA TermEffect ==
  ASSUME Shape, NEW w \in Writers, Step(w), write_to_term(w)
  PROVE  /\ Moves(w) /\ said'[w] = said[w] /\ pc'[w] = "term" /\ chunk'[w] = chunk[w]
         /\ sent'[w] = 0 /\ parts'[w] = parts[w] /\ strings'[w] = strings[w]
<1>1. UNCHANGED <<said, func, parts, strings, chunk>>
  BY DEF write_to_term
<1>2. Own(sent, sent', w, Nat) /\ Own(pc, pc', w, Pcs)
  BY DEF write_to_term, Own, Pcs
<1>3. Moves(w)
  BY <1>1, <1>2, Stays, Moved
<1> QED
  BY <1>1, <1>3 DEF write_to_term, Set, Shape

LEMMA PutcharEffect ==
  ASSUME Shape, NEW w \in Writers, Step(w), putchar(w)
  PROVE  /\ Moves(w) /\ said'[w] = said[w] /\ chunk'[w] = chunk[w]
         /\ pc'[w] = IF Wraps(chunk[w][sent[w] + 1]) THEN "wrap" ELSE "term"
         /\ sent'[w] = sent[w] + 1 /\ parts'[w] = parts[w] /\ strings'[w] = strings[w]
<1>1. UNCHANGED <<said, func, parts, strings, chunk>>
  BY DEF putchar
<1>2. Own(sent, sent', w, Nat)
  <2>1. sent' = Set(sent, w, sent[w] + 1) /\ sent[w] + 1 \in Nat
    BY Entries DEF putchar, Set
  <2> QED
    BY <2>1 DEF Own
<1>3. Own(pc, pc', w, Pcs)
  BY DEF putchar, Own, Pcs
<1>4. Moves(w)
  BY <1>1, <1>2, <1>3, Stays, Moved
<1> QED
  BY <1>1, <1>4 DEF putchar, Set, Shape

LEMMA WrapEffect ==
  ASSUME Shape, NEW w \in Writers, Step(w), putchar_wrap(w)
  PROVE  /\ Moves(w) /\ said'[w] = said[w] /\ pc'[w] = "term" /\ chunk'[w] = chunk[w]
         /\ sent'[w] = sent[w] /\ parts'[w] = parts[w] /\ strings'[w] = strings[w]
<1>1. UNCHANGED <<said, func, parts, strings, chunk, sent>>
  BY DEF putchar_wrap
<1>2. Own(pc, pc', w, Pcs)
  BY DEF putchar_wrap, Own, Pcs
<1>3. Moves(w)
  BY <1>1, <1>2, Stays, Moved
<1> QED
  BY <1>1, <1>3 DEF putchar_wrap, Set, Shape

LEMMA ReturnEffect ==
  ASSUME Shape, NEW w \in Writers, Step(w), Return(w)
  PROVE  /\ Moves(w) /\ said'[w] = said[w] /\ chunk'[w] = chunk[w] /\ sent'[w] = sent[w]
         /\ pc'[w] = IF Keeps(w) THEN "idle" ELSE "parts"
<1>1. UNCHANGED <<said, func, parts, strings, chunk, sent>>
  BY DEF Return
<1>2. pc' = Set(pc, w, IF Keeps(w) THEN "idle" ELSE "parts")
  BY DEF Return, Keeps
<1>3. Own(pc, pc', w, Pcs)
  BY <1>2 DEF Own, Pcs
<1>4. Moves(w)
  BY <1>1, <1>3, Stays, Moved
<1> QED
  BY <1>1, <1>2, <1>4 DEF Set, Shape

LEMMA SetupEffect ==
  ASSUME Shape, NEW w \in Writers, Step(w), boot_setup(w)
  PROVE  /\ Moves(w) /\ said'[w] = said[w] + 1 /\ pc'[w] = "idle" /\ chunk'[w] = chunk[w]
         /\ sent'[w] = sent[w] /\ w = Boot
<1>1. UNCHANGED <<pc, func, parts, strings, chunk, sent>>
  BY DEF boot_setup
<1>2. Own(said, said', w, Nat)
  <2>1. said' = Set(said, w, said[w] + 1) /\ said[w] + 1 \in Nat
    BY Entries DEF boot_setup, Set
  <2> QED
    BY <2>1 DEF Own
<1>3. Moves(w)
  BY <1>1, <1>2, Stays, Moved
<1>4. w = Boot
  <2>1. said[w] + 1 \in 1 .. Len(program[w])
    BY Entries, ProgramMessages DEF boot_setup
  <2> QED
    BY <2>1, ProgramMessages DEF boot_setup
<1> QED
  BY <1>1, <1>3, <1>4 DEF boot_setup, Set, Shape

-----------------------------------------------------------------------------
(* The writers' invariant.                                                 *)

\* Whoever steps, no other writer is inside the lock or a handler, and
\* interrupts are off exactly if the one that steps is.
LEMMA OnlyOneDeaf ==
  ASSUME WritersInv, NEW w \in Writers, Step(w)
  PROVE  /\ \A v \in Writers \ {w} : ~Deaf(v)
         /\ irq_on = ~Deaf(w)
<1>1. irq_on \in BOOLEAN /\ (irq_on \/ w = running)
  BY DEF WritersInv, Flags, Step
<1>2. \A v \in Writers : Deaf(v) => ~irq_on /\ running = v
  BY DEF WritersInv, LockOK
<1>3. ~irq_on => Deaf(running)
  BY DEF WritersInv
<1> QED
  BY <1>1, <1>2, <1>3

LEMMA WritersKeep ==
  ASSUME WritersInv, NEW w \in Writers, Step(w), Moves(w), Flags',
         said'[w] = said[w] \/ said'[w] = said[w] + 1,
         WriterOK(w)', LockOK(w)', BootOK(w)', ~irq_on' => Deaf(w)'
  PROVE  WritersInv'
<1>1. Shape /\ said[Boot] \in Nat /\ said'[Boot] \in Nat /\ Len(program[Boot]) \in Nat
  BY WritersAssumption, Entries, ProgramMessages DEF WritersInv, Moves, Shape
<1>2. said[Boot] <= said'[Boot]
  BY <1>1, WritersAssumption DEF Moves, Same
<1>3. program' = program /\ running' = w /\ Shape'
  BY DEF Moves
<1>4. ASSUME NEW v \in Writers \ {w}
      PROVE  WriterOK(v)' /\ LockOK(v)' /\ BootOK(v)'
  <2>1. Same(v) /\ WriterOK(v) /\ BootOK(v) /\ ~Deaf(v)
    BY OnlyOneDeaf DEF Moves, WritersInv
  <2>2. Message(v)' = Message(v)
    BY <1>3, <2>1 DEF Message, Same
  <2>3. WriterOK(v)'
    BY <1>3, <2>1, <2>2 DEF WriterOK, Same
  <2>4. ~Deaf(v)'
    BY <2>1, <2>2 DEF Deaf, Same
  <2>5. LockOK(v)'
    BY <2>4 DEF LockOK
  <2>6. BootOK(v)'
    <3>1. said'[Boot] < Len(program[Boot]) => said[Boot] < Len(program[Boot])
      BY <1>1, <1>2
    <3> QED
      BY <1>3, <2>1, <2>2, <3>1 DEF BootOK, Same
  <2> QED
    BY <2>3, <2>5, <2>6
<1>5. \A v \in Writers : WriterOK(v)' /\ LockOK(v)' /\ BootOK(v)'
  BY <1>4
<1> QED
  BY <1>3, <1>5 DEF WritersInv

\* An action that neither begins nor ends a message nor touches the lock.
LEMMA WritersGoOn ==
  ASSUME WritersInv, NEW w \in Writers, Step(w), Moves(w), said'[w] = said[w],
         UNCHANGED <<logging, spinlock_vars>>, torn' \in BOOLEAN,
         pc[w] # "idle", pc'[w] # "idle", sent'[w] <= Len(chunk'[w]),
         pc'[w] = "wrap" => sent'[w] >= 1,
         Message(w).kind = "kout" => (pc[w] = "parts" <=> pc'[w] = "parts")
  PROVE  WritersInv'
<1>1. Flags' /\ irq_on' = irq_on /\ stored_flags' = stored_flags
  BY DEF WritersInv, Flags, Moves, spinlock_vars
<1>2. program' = program /\ Message(w)' = Message(w) /\ running' = w
  BY DEF Moves, Message
<1>3. WriterOK(w) /\ LockOK(w) /\ BootOK(w)
  BY DEF WritersInv
<1>4. Deaf(w)' = Deaf(w)
  BY <1>2 DEF Deaf
<1>5. WriterOK(w)'
  BY <1>2, <1>3 DEF WriterOK
<1>6. LockOK(w)'
  BY <1>1, <1>2, <1>3, <1>4 DEF LockOK
<1>7. BootOK(w)'
  <2>1. said'[Boot] = said[Boot] \/ w = Boot
    BY WritersAssumption DEF Moves, Same
  <2> QED
    BY <1>2, <1>3, <2>1 DEF BootOK
<1>8. ~irq_on' => Deaf(w)'
  BY <1>1, <1>4, OnlyOneDeaf
<1> QED
  BY <1>1, <1>5, <1>6, <1>7, <1>8, WritersKeep

LEMMA BeginWriters ==
  ASSUME WritersInv, NEW w \in Writers, Step(w), Begin(w)
  PROVE  WritersInv'
<1> DEFINE m == program[w][said[w] + 1]
<1>1. /\ Moves(w) /\ said'[w] = said[w] + 1 /\ pc'[w] = "parts"
      /\ chunk'[w] = chunk[w] /\ sent'[w] = sent[w]
  BY BeginEffect DEF WritersInv
<1>2. program' = program /\ Message(w)' = m
  BY <1>1 DEF Moves, Message
<1>3. WriterOK(w) /\ said[w] \in Nat /\ Len(program[w]) \in Nat
  BY Entries, ProgramMessages DEF WritersInv
<1>4. irq_on' = (m.kind # "isr") /\ stored_flags' = stored_flags
  <2>1. irq_on
    BY OnlyOneDeaf DEF Deaf, Begin
  <2> QED
    BY <2>1 DEF Begin
<1>5. Flags'
  BY <1>1, <1>4 DEF WritersInv, Flags, Begin, Moves
<1>6. WriterOK(w)'
  BY <1>1, <1>2, <1>3 DEF WriterOK, Begin
<1>7. Deaf(w)' = (m.kind = "isr")
  BY <1>1, <1>2 DEF Deaf
<1>8. LockOK(w)' /\ (~irq_on' => Deaf(w)')
  BY <1>1, <1>2, <1>4, <1>7 DEF LockOK, Moves
<1>9. BootOK(w)'
  <2>1. w # Boot => said'[Boot] = said[Boot]
    BY <1>1, WritersAssumption DEF Moves, Same
  <2>2. said[Boot] \in Nat /\ Len(program[Boot]) \in Nat
    BY WritersAssumption, Entries, ProgramMessages DEF WritersInv
  <2> QED
    BY <1>1, <1>2, <2>1, <2>2 DEF BootOK, Begin
<1> QED
  BY <1>1, <1>5, <1>6, <1>8, <1>9, WritersKeep

LEMMA AddPartWriters ==
  ASSUME WritersInv, NEW w \in Writers, Step(w), add_part(w)
  PROVE  WritersInv'
<1>1. Shape /\ pc[w] = "parts" /\ UNCHANGED <<logging, spinlock_vars>> /\ torn' = torn
  BY DEF add_part, WritersInv
<1>2. torn \in BOOLEAN /\ WriterOK(w)
  BY DEF WritersInv, Flags
<1>3. Moves(w) /\ said'[w] = said[w]
  BY <1>1, AddPartEffect
<1>4. CASE Keeps(w)
  <2>1. pc'[w] = pc[w] /\ chunk'[w] = chunk[w] /\ sent'[w] = sent[w]
    BY <1>1, <1>4, AddPartEffect
  <2> QED
    BY <1>1, <1>2, <1>3, <2>1, WritersGoOn DEF WriterOK
<1>5. CASE ~Keeps(w)
  <2>1. pc'[w] = "serial" /\ sent'[w] = 0 /\ chunk'[w] \in Seq(Chars)
    BY <1>1, <1>5, AddPartEffect
  <2>2. sent'[w] <= Len(chunk'[w])
    BY <2>1
  <2> QED
    BY <1>1, <1>2, <1>3, <1>5, <2>1, <2>2, WritersGoOn DEF Keeps
<1> QED
  BY <1>4, <1>5

LEMMA DoWriteWriters ==
  ASSUME WritersInv, NEW w \in Writers, Step(w), do_write(w)
  PROVE  WritersInv'
<1>1. Shape /\ pc[w] = "parts" /\ Keeps(w) /\ irq_on' = FALSE /\ stored_flags' = irq_on
  BY DEF do_write, WritersInv, acquire_lock, disable_interrupts
<1>2. /\ Moves(w) /\ said'[w] = said[w] /\ pc'[w] = "serial" /\ sent'[w] = 0
      /\ chunk'[w] = strings[w]
  BY <1>1, DoWriteEffect
<1>3. program' = program /\ running' = w /\ Message(w)' = Message(w)
  BY <1>2 DEF Moves, Message
<1>4. WriterOK(w) /\ BootOK(w) /\ strings[w] \in Seq(Chars)
  BY <1>1, Entries DEF WritersInv
<1>5. Flags'
  BY <1>1, <1>2 DEF WritersInv, Flags, do_write, Moves
<1>6. WriterOK(w)'
  <2>1. 0 <= Len(strings[w])
    BY <1>4
  <2> QED
    BY <1>1, <1>2, <1>3, <1>4, <2>1 DEF WriterOK
<1>7. Deaf(w)'
  BY <1>1, <1>2, <1>3 DEF Deaf, Keeps
<1>8. LockOK(w)'
  <2>1. Message(w).kind = "kout" => irq_on
    BY <1>1, OnlyOneDeaf DEF Deaf
  <2> QED
    BY <1>1, <1>3, <2>1 DEF LockOK
<1>9. BootOK(w)'
  <2>1. said'[Boot] = said[Boot] \/ w = Boot
    BY <1>2, WritersAssumption DEF Moves, Same
  <2> QED
    BY <1>1, <1>3, <1>4, <2>1 DEF BootOK
<1> QED
  BY <1>2, <1>5, <1>6, <1>7, <1>8, <1>9, WritersKeep

LEMMA EndedWriters ==
  ASSUME WritersInv, NEW w \in Writers, Step(w), Ended(w)
  PROVE  WritersInv'
<1>1. Shape /\ pc[w] = "parts" /\ ~Keeps(w) /\ irq_on' = irq_on
  BY DEF Ended, WritersInv, spinlock_vars
<1>2. /\ Moves(w) /\ said'[w] = said[w] /\ pc'[w] = "idle"
      /\ chunk'[w] = chunk[w] /\ sent'[w] = sent[w]
  BY <1>1, EndedEffect
<1>3. Flags' /\ program' = program
  BY <1>2 DEF WritersInv, Flags, Ended, Moves, spinlock_vars
<1>4. WriterOK(w)'
  BY <1>2, <1>3 DEF WriterOK, WritersInv
<1>5. ~Deaf(w)' /\ ~Deaf(w)
  BY <1>1, <1>2 DEF Deaf, Keeps
<1>6. LockOK(w)' /\ BootOK(w)'
  BY <1>2, <1>5 DEF LockOK, BootOK
<1>7. irq_on'
  BY <1>1, <1>5, OnlyOneDeaf
<1> QED
  BY <1>2, <1>3, <1>4, <1>6, <1>7, WritersKeep

LEMMA ReturnWriters ==
  ASSUME WritersInv, NEW w \in Writers, Step(w), Return(w)
  PROVE  WritersInv'
<1>1. Shape /\ pc[w] \in {"serial", "term"} /\ sent[w] = Len(chunk[w])
  BY DEF Return, WritersInv
<1>2. /\ Moves(w) /\ said'[w] = said[w] /\ chunk'[w] = chunk[w] /\ sent'[w] = sent[w]
      /\ pc'[w] = IF Keeps(w) THEN "idle" ELSE "parts"
  BY <1>1, ReturnEffect
<1>3. program' = program /\ running' = w /\ Message(w)' = Message(w)
  BY <1>2 DEF Moves, Message
<1>4. CASE ~Keeps(w)
  <2>1. UNCHANGED <<logging, spinlock_vars>> /\ torn' = torn /\ torn \in BOOLEAN
    BY <1>4 DEF Return, Keeps, WritersInv, Flags
  <2>2. sent'[w] <= Len(chunk'[w])
    BY <1>2 DEF WritersInv, WriterOK
  <2> QED
    BY <1>1, <1>2, <1>4, <2>1, <2>2, WritersGoOn DEF Keeps
<1>5. CASE Keeps(w)
  <2>1. irq_on' = TRUE /\ stored_flags' = stored_flags
    <3>1. CASE Message(w).kind = "isr"
      BY <3>1 DEF Return, Keeps
    <3>2. CASE Message(w).kind = "kout"
      <4>1. LockOK(w)
        BY DEF WritersInv
      <4>2. stored_flags = TRUE
        BY <1>1, <3>2, <4>1 DEF Deaf, LockOK, WritersInv, Flags
      <4> QED
        BY <3>2, <4>2 DEF Return, Keeps, release_lock, restore_interrupts
    <3> QED
      BY <1>5, <3>1, <3>2 DEF Keeps
  <2>2. Flags'
    BY <1>2, <2>1 DEF WritersInv, Flags, Return, Moves
  <2>3. WriterOK(w)'
    BY <1>2, <1>3, <1>5 DEF WriterOK, WritersInv
  <2>4. ~Deaf(w)'
    BY <1>2, <1>5 DEF Deaf
  <2>5. LockOK(w)' /\ BootOK(w)'
    BY <1>2, <1>5, <2>4 DEF LockOK, BootOK
  <2> QED
    BY <1>2, <2>1, <2>2, <2>3, <2>5, WritersKeep
<1> QED
  BY <1>4, <1>5

LEMMA SetupWriters ==
  ASSUME WritersInv, NEW w \in Writers, Step(w), boot_setup(w)
  PROVE  WritersInv'
<1>1. Shape /\ pc[w] = "idle"
  BY DEF boot_setup, WritersInv
<1>2. /\ Moves(w) /\ said'[w] = said[w] + 1 /\ pc'[w] = "idle" /\ chunk'[w] = chunk[w]
      /\ sent'[w] = sent[w]
  BY <1>1, SetupEffect
<1>3. program' = program /\ said[w] \in Nat /\ Len(program[w]) \in Nat
  BY <1>1, <1>2, Entries, ProgramMessages DEF Moves
<1>4. Flags' /\ irq_on' = irq_on
  BY <1>2 DEF WritersInv, Flags, boot_setup, Moves, spinlock_vars
<1>5. WriterOK(w)'
  BY <1>2, <1>3 DEF WriterOK, WritersInv, boot_setup
<1>6. ~Deaf(w)' /\ ~Deaf(w)
  BY <1>1, <1>2 DEF Deaf
<1>7. LockOK(w)' /\ BootOK(w)'
  BY <1>2, <1>6 DEF LockOK, BootOK
<1>8. irq_on'
  BY <1>4, <1>6, OnlyOneDeaf
<1> QED
  BY <1>2, <1>4, <1>5, <1>7, <1>8, WritersKeep

\* The actions that go on with a message.
LEMMA OutputWriters ==
  ASSUME WritersInv, NEW w \in Writers, Step(w),
         put_serial(w) \/ write_to_term(w) \/ putchar(w) \/ putchar_wrap(w)
  PROVE  WritersInv'
<1>1. Shape /\ torn \in BOOLEAN /\ WriterOK(w)
  BY DEF WritersInv, Flags
<1>2. sent[w] \in Nat /\ Len(chunk[w]) \in Nat
  BY <1>1, Entries
<1>3. CASE put_serial(w)
  <2>1. /\ Moves(w) /\ said'[w] = said[w] /\ pc'[w] = "serial" /\ chunk'[w] = chunk[w]
        /\ sent'[w] = sent[w] + 1
    BY <1>1, <1>3, SerialEffect
  <2>2. /\ pc[w] = "serial" /\ UNCHANGED <<logging, spinlock_vars>> /\ torn' = torn
        /\ sent[w] < Len(chunk[w])
    BY <1>3 DEF put_serial
  <2>3. sent'[w] <= Len(chunk'[w])
    BY <1>2, <2>1, <2>2
  <2> QED
    BY <1>1, <2>1, <2>2, <2>3, WritersGoOn
<1>4. CASE write_to_term(w)
  <2>1. /\ Moves(w) /\ said'[w] = said[w] /\ pc'[w] = "term" /\ chunk'[w] = chunk[w]
        /\ sent'[w] = 0
    BY <1>1, <1>4, TermEffect
  <2>2. pc[w] = "serial" /\ UNCHANGED <<logging, spinlock_vars>> /\ torn' = torn
    BY <1>4 DEF write_to_term
  <2>3. sent'[w] <= Len(chunk'[w])
    BY <1>2, <2>1
  <2> QED
    BY <1>1, <2>1, <2>2, <2>3, WritersGoOn
<1>5. CASE putchar(w)
  <2>1. /\ Moves(w) /\ said'[w] = said[w] /\ chunk'[w] = chunk[w]
        /\ sent'[w] = sent[w] + 1 /\ pc'[w] \in {"wrap", "term"}
    BY <1>1, <1>5, PutcharEffect
  <2>2. /\ pc[w] = "term" /\ UNCHANGED <<logging, spinlock_vars>>
        /\ torn' = (torn \/ \E v \in Writers \ {w} : pc[v] = "wrap")
        /\ sent[w] < Len(chunk[w])
    BY <1>5 DEF putchar
  <2>3. sent'[w] <= Len(chunk'[w]) /\ sent'[w] >= 1 /\ torn' \in BOOLEAN
    BY <1>2, <2>1, <2>2
  <2> QED
    BY <2>1, <2>2, <2>3, WritersGoOn
<1>6. CASE putchar_wrap(w)
  <2>1. /\ Moves(w) /\ said'[w] = said[w] /\ pc'[w] = "term" /\ chunk'[w] = chunk[w]
        /\ sent'[w] = sent[w]
    BY <1>1, <1>6, WrapEffect
  <2>2. pc[w] = "wrap" /\ UNCHANGED <<logging, spinlock_vars>> /\ torn' = torn
    BY <1>6 DEF putchar_wrap
  <2>3. sent'[w] <= Len(chunk'[w])
    BY <1>1, <2>1 DEF WriterOK
  <2> QED
    BY <1>1, <2>1, <2>2, <2>3, WritersGoOn
<1> QED
  BY <1>3, <1>4, <1>5, <1>6

LEMMA WritersStep ==
  ASSUME WritersInv, [Next]_vars
  PROVE  WritersInv'
<1>1. CASE \E w \in Writers :
         /\ Step(w)
         /\ \/ Begin(w) \/ add_part(w) \/ do_write(w) \/ Ended(w)
            \/ put_serial(w) \/ write_to_term(w) \/ putchar(w) \/ putchar_wrap(w)
            \/ Return(w) \/ boot_setup(w)
  BY <1>1, BeginWriters, AddPartWriters, DoWriteWriters, EndedWriters, OutputWriters,
     ReturnWriters, SetupWriters
<1>2. CASE UNCHANGED vars
  BY <1>2 DEF vars, writer_vars, spinlock_vars, WritersInv, Shape, Flags, WriterOK, LockOK,
              BootOK, Deaf, Message
<1> QED
  BY <1>1, <1>2 DEF Next, AllSaid

LEMMA WritersInit ==
  ASSUME Init
  PROVE  WritersInv
<1>1. Shape /\ Flags
  BY WritersAssumption, EmptySeq DEF Init, Shape, Flags, Pcs, SpinlockInit
<1>2. \A w \in Writers : WriterOK(w) /\ LockOK(w) /\ BootOK(w)
  <2> TAKE w \in Writers
  <2>1. Len(program[w]) \in Nat
    BY <1>1, ProgramMessages
  <2>2. said[w] = 0 /\ sent[w] = 0 /\ pc[w] = "idle" /\ chunk[w] = << >>
    BY DEF Init
  <2>3. Len(chunk[w]) = 0
    BY <2>2
  <2> QED
    BY <2>1, <2>2, <2>3 DEF WriterOK, LockOK, BootOK, Deaf
<1> QED
  BY <1>1, <1>2 DEF WritersInv, Init

-----------------------------------------------------------------------------
(* The screen.                                                             *)

\* A writer is inside putchar, and what is left of it will settle the screen.
Mid(v) == \E c \in Chars : c = chunk[v][sent[v]] /\ Between(c)

NoneInside == \A v \in Writers : pc[v] # "wrap"

ScreenInv ==
    ~torn =>
      /\ NoneInside => Steady
      /\ \A v \in Writers : pc[v] = "wrap" =>
            /\ Mid(v)
            /\ \A u \in Writers \ {v} : pc[u] # "wrap"

LEMMA TerminalStays ==
  ASSUME UNCHANGED terminal_vars
  PROVE  /\ Steady => Steady'
         /\ \A c \in Chars : Between(c) => Between(c)'
<1>1. cells' = cells /\ x' = x /\ y' = y /\ paper' = paper
  BY DEF terminal_vars
<1>2. Typed' = Typed
  BY <1>1 DEF Typed
<1>3. Shows' = Shows
  BY <1>1, ZenonT(30) DEF Shows
<1>4. ASSUME NEW c \in Chars PROVE Settled(c)' = Settled(c)
  <2>1. Row(c)' = Row(c)
    BY <1>1 DEF Row
  <2> QED
    BY <1>1, <2>1 DEF Settled
<1> QED
  BY <1>2, <1>3, <1>4 DEF Steady, Between

\* A step outside the terminal.
LEMMA ScreenStays ==
  ASSUME ScreenInv, NEW w \in Writers, Moves(w), UNCHANGED <<torn, terminal_vars>>,
         pc[w] # "wrap", pc'[w] # "wrap"
  PROVE  ScreenInv'
<1>1. \A v \in Writers : pc'[v] = "wrap" <=> pc[v] = "wrap"
  BY DEF Moves, Same
<1>2. NoneInside' = NoneInside
  BY <1>1 DEF NoneInside
<1>3. ASSUME NEW v \in Writers, pc[v] = "wrap", Mid(v) PROVE Mid(v)'
  <2>1. chunk'[v] = chunk[v] /\ sent'[v] = sent[v]
    BY <1>3 DEF Moves, Same
  <2> QED
    BY <1>3, <2>1, TerminalStays DEF Mid
<1> QED
  BY <1>1, <1>2, <1>3, TerminalStays DEF ScreenInv

LEMMA PutcharScreen ==
  ASSUME WritersInv, ScreenInv, NEW w \in Writers, Step(w), putchar(w)
  PROVE  ScreenInv'
<1>1. Shape
  BY DEF WritersInv
<1>2. PICK c : c = chunk[w][sent[w] + 1]
  OBVIOUS
<1>3. /\ pc[w] = "term" /\ sent[w] < Len(chunk[w]) /\ Put(c) /\ paper' = OnPaper(paper, c)
      /\ torn' = (torn \/ \E v \in Writers \ {w} : pc[v] = "wrap")
  BY <1>2 DEF putchar
<1>4. /\ Moves(w) /\ chunk'[w] = chunk[w] /\ sent'[w] = sent[w] + 1
      /\ pc'[w] = IF Wraps(c) THEN "wrap" ELSE "term"
  BY <1>1, <1>2, PutcharEffect
<1>5. c \in Chars /\ c = chunk'[w][sent'[w]]
  <2>1. sent[w] + 1 \in 1 .. Len(chunk[w]) /\ chunk[w] \in Seq(Chars)
    BY <1>1, <1>3, Entries
  <2> QED
    BY <1>2, <1>4, <2>1
<1> SUFFICES ASSUME ~torn'
             PROVE  /\ NoneInside' => Steady'
                    /\ \A v \in Writers : pc'[v] = "wrap" =>
                          /\ Mid(v)'
                          /\ \A u \in Writers \ {v} : pc'[u] # "wrap"
  BY DEF ScreenInv
<1>6. ~torn /\ \A v \in Writers \ {w} : pc[v] # "wrap" /\ pc'[v] # "wrap"
  BY <1>3, <1>4 DEF Moves, Same
<1>7. Steady
  BY <1>3, <1>6 DEF ScreenInv, NoneInside
<1>8. /\ Wraps(c) => Between(c)'
      /\ ~Wraps(c) => Steady'
  BY <1>3, <1>5, <1>7, PutShown
<1>9. CASE Wraps(c)
  <2>1. pc'[w] = "wrap" /\ Mid(w)'
    BY <1>4, <1>5, <1>8, <1>9 DEF Mid
  <2> QED
    BY <1>6, <2>1 DEF NoneInside
<1>10. CASE ~Wraps(c)
  BY <1>4, <1>6, <1>8, <1>10
<1> QED
  BY <1>9, <1>10

LEMMA WrapScreen ==
  ASSUME WritersInv, ScreenInv, NEW w \in Writers, Step(w), putchar_wrap(w)
  PROVE  ScreenInv'
<1>1. Moves(w) /\ pc'[w] = "term"
  BY WrapEffect DEF WritersInv
<1>2. /\ pc[w] = "wrap" /\ Wrap(chunk[w][sent[w]]) /\ UNCHANGED paper /\ torn' = torn
  BY DEF putchar_wrap
<1> SUFFICES ASSUME ~torn
             PROVE  Steady' /\ NoneInside'
  BY <1>2 DEF ScreenInv, NoneInside
<1>3. Mid(w) /\ \A u \in Writers \ {w} : pc[u] # "wrap"
  BY <1>2 DEF ScreenInv
<1>4. NoneInside'
  BY <1>1, <1>3 DEF NoneInside, Moves, Same
<1>5. PICK c \in Chars : c = chunk[w][sent[w]] /\ Between(c)
  BY <1>3 DEF Mid
<1>6. Wrap(c)
  BY <1>2, <1>5
<1> QED
  BY <1>2, <1>4, <1>5, <1>6, WrapShown

LEMMA SetupScreen ==
  ASSUME WritersInv, ScreenInv, NEW w \in Writers, Step(w), boot_setup(w)
  PROVE  ScreenInv'
<1>1. /\ Moves(w) /\ pc'[w] = "idle" /\ w = Boot
  BY SetupEffect DEF WritersInv
<1>2. pc[w] = "idle" /\ said[w] < Len(program[w]) /\ torn' = torn
  BY DEF boot_setup
<1>3. NoneInside
  <2> SUFFICES ASSUME NEW v \in Writers, pc[v] = "wrap" PROVE FALSE
    BY DEF NoneInside
  <2>1. v # w /\ BootOK(v)
    BY <1>2 DEF WritersInv
  <2>2. Message(v).kind = "isr"
    BY <1>1, <1>2, <2>1 DEF BootOK
  <2>3. Deaf(v)
    BY <2>2 DEF Deaf
  <2> QED
    BY <2>1, <2>3, OnlyOneDeaf
<1>4. NoneInside'
  BY <1>1, <1>3 DEF NoneInside, Moves, Same
<1> SUFFICES ASSUME ~torn PROVE Steady'
  BY <1>2, <1>4 DEF ScreenInv, NoneInside
<1>5. Steady
  BY <1>3 DEF ScreenInv
<1>6. CASE vga_is_text
  BY <1>5, <1>6, ResetShown DEF boot_setup
<1>7. CASE ~vga_is_text
  BY <1>5, <1>7, TerminalStays DEF boot_setup, terminal_vars
<1> QED
  BY <1>6, <1>7

LEMMA ScreenStep ==
  ASSUME WritersInv, ScreenInv, [Next]_vars
  PROVE  ScreenInv'
<1>1. ASSUME NEW w \in Writers, Step(w),
             \/ Begin(w) \/ add_part(w) \/ do_write(w) \/ Ended(w)
             \/ put_serial(w) \/ write_to_term(w) \/ Return(w)
      PROVE  ScreenInv'
  <2>1. Shape /\ Flags
    BY DEF WritersInv
  <2>2. UNCHANGED <<torn, terminal_vars>> /\ pc[w] # "wrap"
    BY <1>1 DEF Begin, add_part, do_write, Ended, put_serial, write_to_term, Return
  <2>3. Moves(w) /\ pc'[w] # "wrap"
    <3>1. CASE Begin(w)
      BY <1>1, <2>1, <3>1, BeginEffect
    <3>2. CASE add_part(w)
      BY <1>1, <2>1, <2>2, <3>2, AddPartEffect
    <3>3. CASE do_write(w)
      BY <1>1, <2>1, <3>3, DoWriteEffect
    <3>4. CASE Ended(w)
      BY <1>1, <2>1, <3>4, EndedEffect
    <3>5. CASE put_serial(w)
      BY <1>1, <2>1, <3>5, SerialEffect
    <3>6. CASE write_to_term(w)
      BY <1>1, <2>1, <3>6, TermEffect
    <3>7. CASE Return(w)
      BY <1>1, <2>1, <3>7, ReturnEffect
    <3> QED
      BY <1>1, <3>1, <3>2, <3>3, <3>4, <3>5, <3>6, <3>7
  <2> QED
    BY <2>2, <2>3, ScreenStays
<1>2. CASE \E w \in Writers :
         /\ Step(w)
         /\ \/ Begin(w) \/ add_part(w) \/ do_write(w) \/ Ended(w)
            \/ put_serial(w) \/ write_to_term(w) \/ putchar(w) \/ putchar_wrap(w)
            \/ Return(w) \/ boot_setup(w)
  BY <1>1, <1>2, PutcharScreen, WrapScreen, SetupScreen
<1>3. CASE UNCHANGED vars
  <2>1. UNCHANGED <<torn, pc, chunk, sent, terminal_vars>>
    BY <1>3 DEF vars, writer_vars
  <2>2. NoneInside' = NoneInside /\ \A v \in Writers : Mid(v) => Mid(v)'
    BY <2>1, TerminalStays DEF NoneInside, Mid
  <2> QED
    BY <2>1, <2>2, TerminalStays DEF ScreenInv
<1> QED
  BY <1>2, <1>3 DEF Next, AllSaid

LEMMA ScreenInit ==
  ASSUME Init
  PROVE  ScreenInv
<1>1. Steady /\ \A v \in Writers : pc[v] # "wrap"
  BY InitShown DEF Init
<1> QED
  BY <1>1 DEF ScreenInv

\* As long as nobody enters the terminal while another writer is interrupted
\* inside putchar, the screen shows the end of all that was written and the
\* cursor stands behind it: for every size of the screen, every tab stop that
\* divides its width, every set of writers and everything they may say
\* (vga_text_term::putchar and scroll, boot_setup).
THEOREM ConsoleScreenShowsPaper == Spec => []ScreenShowsPaper
<1>1. Init => WritersInv /\ ScreenInv
  BY WritersInit, ScreenInit
<1>2. (WritersInv /\ ScreenInv) /\ [Next]_vars => (WritersInv /\ ScreenInv)'
  BY WritersStep, ScreenStep
<1>3. ScreenInv => ScreenShowsPaper
  BY DEF ScreenInv, ScreenShowsPaper, NoneInside, Steady
<1> QED
  BY <1>1, <1>2, <1>3, PTL DEF Spec

-----------------------------------------------------------------------------
(* Where the bytes of a message are.                                       *)

\* In one piece somewhere, and in one piece at the end.
Block(s, t, n) == \E a \in Nat : a + n <= Len(s) /\ Places(s, t) = (a + 1) .. (a + n)
AtEnd(s, t, n) == n <= Len(s) /\ Places(s, t) = (Len(s) - n + 1) .. Len(s)

Tags == Writers \X Nat

LEMMA AppendedOther ==
  ASSUME NEW s \in Seq(Tags), NEW u \in Tags, NEW t, t # u
  PROVE  /\ Places(Append(s, u), t) = Places(s, t)
         /\ \A n \in Nat : Block(s, t, n) => Block(Append(s, u), t, n)
<1>1. PICK q : q = Append(s, u)
  OBVIOUS
<1>2. /\ Len(s) \in Nat /\ Len(q) = Len(s) + 1 /\ DOMAIN s = 1 .. Len(s)
      /\ DOMAIN q = 1 .. (Len(s) + 1)
      /\ \A i \in 1 .. Len(s) : q[i] = s[i]
      /\ q[Len(s) + 1] = u
  BY <1>1
<1>3. \A i : i \in DOMAIN q /\ q[i] = t <=> i \in DOMAIN s /\ s[i] = t
  BY <1>2
<1>4. Places(q, t) = Places(s, t)
  BY <1>3 DEF Places
<1>5. \A n \in Nat : Block(s, t, n) => Block(q, t, n)
  BY <1>2, <1>4 DEF Block
<1> QED
  BY <1>1, <1>4, <1>5

LEMMA AppendedSame ==
  ASSUME NEW s \in Seq(Tags), NEW t \in Tags, NEW n \in Nat, AtEnd(s, t, n)
  PROVE  AtEnd(Append(s, t), t, n + 1)
<1>1. PICK q : q = Append(s, t)
  OBVIOUS
<1>2. /\ Len(s) \in Nat /\ Len(q) = Len(s) + 1 /\ DOMAIN s = 1 .. Len(s)
      /\ DOMAIN q = 1 .. (Len(s) + 1)
      /\ \A i \in 1 .. Len(s) : q[i] = s[i]
      /\ q[Len(s) + 1] = t
  BY <1>1
<1>3. \A i : i \in DOMAIN s /\ s[i] = t <=> i \in (Len(s) - n + 1) .. Len(s)
  BY DEF AtEnd, Places
<1>4. n <= Len(s)
  BY DEF AtEnd
<1>5. ASSUME NEW i
      PROVE  i \in DOMAIN q /\ q[i] = t <=> i \in (Len(q) - (n + 1) + 1) .. Len(q)
  <2>1. CASE i \in 1 .. Len(s)
    <3>1. q[i] = s[i] /\ i \in DOMAIN q /\ i \in DOMAIN s
      BY <1>2, <2>1
    <3>2. i \in (Len(q) - (n + 1) + 1) .. Len(q) <=> i \in (Len(s) - n + 1) .. Len(s)
      BY <1>2, <1>4, <2>1
    <3> QED
      BY <1>3, <3>1, <3>2
  <2>2. CASE i = Len(s) + 1
    BY <1>2, <1>4, <2>2
  <2>3. CASE ~(i \in 1 .. Len(s)) /\ i # Len(s) + 1
    <3>1. i \notin DOMAIN q
      BY <1>2, <2>3
    <3>2. i \notin (Len(q) - (n + 1) + 1) .. Len(q)
      BY <1>2, <1>4, <2>3
    <3> QED
      BY <3>1, <3>2
  <2> QED
    BY <2>1, <2>2, <2>3
<1>6. Places(q, t) = (Len(q) - (n + 1) + 1) .. Len(q)
  BY <1>5 DEF Places
<1>7. n + 1 <= Len(q)
  BY <1>2, <1>4
<1> QED
  BY <1>1, <1>6, <1>7 DEF AtEnd

LEMMA AtEndIsBlock ==
  ASSUME NEW s \in Seq(Tags), NEW t, NEW n \in Nat, AtEnd(s, t, n)
  PROVE  Block(s, t, n)
<1>1. Len(s) - n \in Nat /\ (Len(s) - n) + n = Len(s) /\ Len(s) <= Len(s)
  BY DEF AtEnd
<1> QED
  BY <1>1 DEF AtEnd, Block

LEMMA NowhereIsAtEnd ==
  ASSUME NEW s \in Seq(Tags), NEW t, Places(s, t) = {}
  PROVE  AtEnd(s, t, 0)
  BY DEF AtEnd

LEMMA BlockCounts ==
  ASSUME NEW s \in Seq(Tags), NEW t, NEW n \in Nat, Block(s, t, n)
  PROVE  /\ Unbroken(s, t) /\ Cardinality(Places(s, t)) = n
         /\ Places(s, t) # {} <=> n > 0
<1>1. PICK a \in Nat : a + n <= Len(s) /\ Places(s, t) = (a + 1) .. (a + n)
  BY DEF Block
<1>2. Cardinality((a + 1) .. (a + n)) = n
  <2>1. a + 1 \in Int /\ a + n \in Int
    OBVIOUS
  <2>2. Cardinality((a + 1) .. (a + n)) =
           IF a + 1 > a + n THEN 0 ELSE (a + n) - (a + 1) + 1
    BY <2>1, FS_Interval
  <2> QED
    BY <2>2
<1>3. ASSUME NEW i \in Places(s, t), NEW k \in Places(s, t), NEW j \in i .. k
      PROVE  s[j] = t
  <2>1. j \in (a + 1) .. (a + n)
    BY <1>1
  <2>2. j \in Places(s, t)
    BY <1>1, <2>1
  <2> QED
    BY <2>2 DEF Places
<1>4. Unbroken(s, t)
  BY <1>3 DEF Unbroken
<1>5. (a + 1) .. (a + n) # {} <=> n > 0
  <2>1. n > 0 => a + 1 \in (a + 1) .. (a + n)
    OBVIOUS
  <2>2. ASSUME ~(n > 0), NEW z \in (a + 1) .. (a + n) PROVE FALSE
    BY <2>2
  <2> QED
    BY <2>1, <2>2
<1> QED
  BY <1>1, <1>2, <1>4, <1>5

-----------------------------------------------------------------------------
(* The messages under output_lock.                                         *)

KeptKind(v, i) == program[v][i].kind \in {"kout", "isr"}
Length(v, i) == Len(FlattenSeq(program[v][i].parts))

\* A message that is over is in one piece, and either all of it or nothing of
\* it is on the terminal.
PastOK(v, i) ==
    /\ Block(port, <<v, i>>, Length(v, i))
    /\ Places(calls, <<v, i>>) = {} \/ Block(calls, <<v, i>>, Length(v, i))

\* What a kout keeps is the beginning of its message, up to the parts still to
\* come.
Collected(w) ==
    \E k \in 0 .. Len(Message(w).parts) :
       /\ strings[w] = Prefix(Message(w).parts, k)
       /\ Len(parts[w]) = Len(Message(w).parts) - k
       /\ \A i \in 1 .. Len(parts[w]) : parts[w][i] = Message(w).parts[k + i]

\* Where a message is while its kout exists.
NowOK(w) ==
    \/ /\ pc[w] = "parts" /\ Collected(w)
       /\ Places(port, Tag(w)) = {} /\ Places(calls, Tag(w)) = {}
    \/ /\ pc[w] = "serial" /\ Len(chunk[w]) = Length(w, said[w])
       /\ AtEnd(port, Tag(w), sent[w]) /\ Places(calls, Tag(w)) = {}
    \/ /\ pc[w] \in {"term", "wrap"} /\ Len(chunk[w]) = Length(w, said[w])
       /\ AtEnd(port, Tag(w), Len(chunk[w])) /\ AtEnd(calls, Tag(w), sent[w])

\* Nothing is written of a message before it begins.
NotYet(v, i) == i > said[v] => Places(port, <<v, i>>) = {} /\ Places(calls, <<v, i>>) = {}

InOrder(t, u) ==
    (\E i \in Places(calls, t), j \in Places(calls, u) : i < j) =>
        (t = u \/ \E i \in Places(port, t), j \in Places(port, u) : i < j)

Ordered ==
    \A v, u \in Writers : \A i, j \in Nat \ {0} :
       KeptKind(v, i) /\ KeptKind(u, j) => InOrder(<<v, i>>, <<u, j>>)

MessagesInv ==
    /\ port \in Seq(Tags) /\ calls \in Seq(Tags)
    /\ \A v \in Writers : \A i \in Nat : NotYet(v, i)
    /\ \A v \in Writers : \A i \in 1 .. said[v] :
          KeptKind(v, i) /\ (i < said[v] \/ pc[v] = "idle") => PastOK(v, i)
    /\ \A v \in Writers : pc[v] # "idle" /\ Keeps(v) => NowOK(v)
    /\ Ordered

LEMMA LengthType ==
  ASSUME Shape, NEW v \in Writers, NEW i \in 1 .. Len(program[v])
  PROVE  /\ program[v][i].parts \in Seq(Seq(Chars)) /\ Length(v, i) \in Nat
         /\ FlattenSeq(program[v][i].parts) =
               Prefix(program[v][i].parts, Len(program[v][i].parts))
<1>1. program[v][i] \in Messages
  BY ProgramMessages
<1>2. program[v][i].parts \in Seq(Seq(Chars))
  BY <1>1 DEF Messages
<1>3. PICK P : P = program[v][i].parts
  OBVIOUS
<1>4. FlattenSeq(P) \in Seq(Chars) /\ FlattenSeq(P) = Prefix(P, Len(P))
  BY <1>2, <1>3, FlattenIsPrefix
<1>5. Len(FlattenSeq(P)) \in Nat
  BY <1>4
<1> QED
  BY <1>2, <1>3, <1>4, <1>5 DEF Length

\* A step of w adds at most a byte of w's present message.
Adds(w) ==
    /\ port' = port \/ port' = Append(port, Tag(w))
    /\ calls' = calls \/ calls' = Append(calls, Tag(w))

LEMMA TagType ==
  ASSUME Shape, NEW w \in Writers
  PROVE  Tag(w) = <<w, said[w]>> /\ Tag(w) \in Tags
  BY Entries DEF Tag, Tags

LEMMA Added ==
  ASSUME Shape, NEW w \in Writers, Adds(w), port \in Seq(Tags), calls \in Seq(Tags)
  PROVE  /\ port' \in Seq(Tags) /\ calls' \in Seq(Tags)
         /\ \A t \in Tags : t # Tag(w) =>
              /\ Places(port', t) = Places(port, t) /\ Places(calls', t) = Places(calls, t)
              /\ \A n \in Nat : Block(port, t, n) => Block(port', t, n)
              /\ \A n \in Nat : Block(calls, t, n) => Block(calls', t, n)
<1>1. PICK g : g = Tag(w)
  OBVIOUS
<1>2. g \in Tags
  BY <1>1, TagType
<1>3. PICK p, p2, c, c2 : p = port /\ p2 = port' /\ c = calls /\ c2 = calls'
  OBVIOUS
<1>4. /\ p2 = p \/ p2 = Append(p, g)
      /\ c2 = c \/ c2 = Append(c, g)
      /\ p \in Seq(Tags) /\ c \in Seq(Tags)
  BY <1>1, <1>3 DEF Adds
<1>5. p2 \in Seq(Tags) /\ c2 \in Seq(Tags)
  <2>1. Append(p, g) \in Seq(Tags) /\ Append(c, g) \in Seq(Tags)
    BY <1>2, <1>4, AppendProperties
  <2> QED
    BY <1>4, <2>1
<1>6. ASSUME NEW t \in Tags, t # g
      PROVE  /\ Places(p2, t) = Places(p, t) /\ Places(c2, t) = Places(c, t)
             /\ \A n \in Nat : Block(p, t, n) => Block(p2, t, n)
             /\ \A n \in Nat : Block(c, t, n) => Block(c2, t, n)
  <2>1. ASSUME NEW s \in Seq(Tags), NEW q, q = s \/ q = Append(s, g)
        PROVE  Places(q, t) = Places(s, t) /\ \A n \in Nat : Block(s, t, n) => Block(q, t, n)
    <3>1. CASE q = s
      BY <3>1
    <3>2. CASE q = Append(s, g)
      BY <1>2, <1>6, <3>2, AppendedOther
    <3> QED
      BY <2>1, <3>1, <3>2
  <2>2. Places(p2, t) = Places(p, t) /\ \A n \in Nat : Block(p, t, n) => Block(p2, t, n)
    BY <1>4, <2>1
  <2>3. Places(c2, t) = Places(c, t) /\ \A n \in Nat : Block(c, t, n) => Block(c2, t, n)
    BY <1>4, <2>1
  <2> QED
    BY <2>2, <2>3
<1> QED
  BY <1>1, <1>3, <1>5, <1>6

\* A message that is not the present one of w stays where it is.
LEMMA ElsewhereStays ==
  ASSUME Shape, NEW w \in Writers, Adds(w), program' = program,
         port \in Seq(Tags), calls \in Seq(Tags),
         NEW v \in Writers, NEW i \in Nat, <<v, i>> # Tag(w)
  PROVE  /\ Places(port', <<v, i>>) = Places(port, <<v, i>>)
         /\ Places(calls', <<v, i>>) = Places(calls, <<v, i>>)
         /\ Length(v, i) \in Nat /\ PastOK(v, i) => PastOK(v, i)'
<1>1. PICK t : t = <<v, i>>
  OBVIOUS
<1>2. t \in Tags /\ t # Tag(w)
  BY <1>1 DEF Tags
<1>3. /\ Places(port', t) = Places(port, t) /\ Places(calls', t) = Places(calls, t)
      /\ \A n \in Nat : Block(port, t, n) => Block(port', t, n)
      /\ \A n \in Nat : Block(calls, t, n) => Block(calls', t, n)
  BY <1>2, Added
<1>4. Length(v, i)' = Length(v, i)
  BY DEF Length
<1> QED
  BY <1>1, <1>3, <1>4 DEF PastOK

LEMMA MessagesKeep ==
  ASSUME WritersInv, MessagesInv, NEW w \in Writers, Step(w), Moves(w), Adds(w),
         \/ said'[w] = said[w]
         \/ said'[w] = said[w] + 1 /\ pc[w] = "idle" /\ port' = port /\ calls' = calls,
         (pc[w] # "idle" /\ Keeps(w) => NowOK(w))',
         (pc[w] = "idle" /\ said[w] >= 1 /\ KeptKind(w, said[w]) => PastOK(w, said[w]))',
         Ordered'
  PROVE  MessagesInv'
<1>1. Shape /\ Shape' /\ program' = program /\ port \in Seq(Tags) /\ calls \in Seq(Tags)
  BY DEF WritersInv, MessagesInv, Moves
<1>2. port' \in Seq(Tags) /\ calls' \in Seq(Tags)
  BY <1>1, Added
<1>3. \A v \in Writers : said[v] \in Nat /\ said'[v] \in Nat
  BY <1>1 DEF Shape
<1>4. Tag(w) = <<w, said[w]>>
  BY DEF Tag
<1>5. \A v \in Writers \ {w} : Same(v)
  BY DEF Moves
<1>6. ASSUME NEW v \in Writers, NEW i \in Nat PROVE NotYet(v, i)'
  <2> SUFFICES ASSUME i > said'[v]
               PROVE  Places(port', <<v, i>>) = {} /\ Places(calls', <<v, i>>) = {}
    BY DEF NotYet
  <2>1. i > said[v]
    BY <1>3, <1>5 DEF Same
  <2>2. <<v, i>> # Tag(w)
    BY <1>3, <1>4, <2>1
  <2>3. Places(port, <<v, i>>) = {} /\ Places(calls, <<v, i>>) = {}
    BY <2>1 DEF MessagesInv, NotYet
  <2> QED
    BY <1>1, <2>2, <2>3, ElsewhereStays
<1>7. ASSUME NEW v \in Writers, NEW i \in 1 .. said'[v],
             KeptKind(v, i), i < said'[v] \/ pc'[v] = "idle"
      PROVE  PastOK(v, i)'
  <2>1. i \in Nat /\ i >= 1 /\ i <= said'[v]
    BY <1>3, <1>7
  <2>2. CASE v = w /\ i = said'[w]
    <3>1. pc'[w] = "idle" /\ said'[w] >= 1
      BY <1>3, <1>7, <2>1, <2>2
    <3>2. KeptKind(w, said[w])'
      BY <1>1, <1>7, <2>2 DEF KeptKind
    <3>3. PastOK(w, said[w])'
      BY <3>1, <3>2
    <3> QED
      BY <2>2, <3>3 DEF PastOK, Length
  <2>3. CASE ~(v = w /\ i = said'[w])
    <3>1. i \in 1 .. said[v] /\ (i < said[v] \/ pc[v] = "idle")
      <4>1. CASE v # w
        BY <1>3, <1>5, <1>7, <2>1, <4>1 DEF Same
      <4>2. CASE v = w
        BY <1>3, <1>7, <2>1, <2>3, <4>2
      <4> QED
        BY <4>1, <4>2
    <3>2. PastOK(v, i)
      BY <1>7, <3>1 DEF MessagesInv
    <3>3. CASE <<v, i>> # Tag(w)
      <4>1. i \in 1 .. Len(program[v])
        <5>1. said[v] <= Len(program[v]) /\ Len(program[v]) \in Nat
          BY <1>1, ProgramMessages DEF WritersInv, WriterOK
        <5> QED
          BY <1>3, <3>1, <5>1
      <4>2. Length(v, i) \in Nat
        BY <1>1, <4>1, LengthType
      <4> QED
        BY <1>1, <2>1, <3>2, <3>3, <4>2, ElsewhereStays
    <3>4. CASE <<v, i>> = Tag(w)
      <4>1. v = w /\ i = said[w]
        BY <1>4, <3>4
      <4>2. port' = port /\ calls' = calls
        BY <1>3, <2>3, <4>1
      <4> QED
        BY <1>1, <3>2, <4>2 DEF PastOK, Length
    <3> QED
      BY <3>3, <3>4
  <2> QED
    BY <2>2, <2>3
<1>8. ASSUME NEW v \in Writers, (pc[v] # "idle" /\ Keeps(v))' PROVE NowOK(v)'
  <2>1. CASE v = w
    BY <1>8, <2>1
  <2>2. CASE v # w
    <3>1. Same(v) /\ ~Deaf(v)
      BY <1>5, <2>2, OnlyOneDeaf
    <3>2. Message(v)' = Message(v) /\ Tag(v)' = Tag(v)
      BY <1>1, <3>1 DEF Message, Tag, Same
    <3>3. pc[v] # "idle" /\ Keeps(v)
      BY <1>8, <3>1, <3>2 DEF Same, Keeps
    <3>4. NowOK(v) /\ pc[v] = "parts"
      BY <3>1, <3>3 DEF MessagesInv, Deaf, Keeps
    <3>5. Collected(v) /\ Places(port, Tag(v)) = {} /\ Places(calls, Tag(v)) = {}
      BY <3>4 DEF NowOK
    <3>6. Collected(v)'
      BY <3>1, <3>2, <3>5 DEF Collected, Same
    <3>7. Places(port', Tag(v)) = {} /\ Places(calls', Tag(v)) = {}
      <4>1. Tag(v) = <<v, said[v]>> /\ Tag(v) # Tag(w)
        BY <1>4, <2>2 DEF Tag
      <4>2. PICK k : k = said[v]
        OBVIOUS
      <4>3. k \in Nat /\ <<v, k>> # Tag(w) /\ Tag(v) = <<v, k>>
        BY <1>3, <4>1, <4>2
      <4> QED
        BY <1>1, <3>5, <4>3, ElsewhereStays
    <3> QED
      BY <3>1, <3>2, <3>4, <3>6, <3>7 DEF NowOK, Same
  <2> QED
    BY <2>1, <2>2
<1>9. \A v \in Writers : \A i \in 1 .. said'[v] :
          KeptKind(v, i)' /\ (i < said'[v] \/ pc'[v] = "idle") => PastOK(v, i)'
  BY <1>1, <1>7 DEF KeptKind
<1> QED
  BY <1>2, <1>6, <1>8, <1>9 DEF MessagesInv

\* A step that writes nothing to the terminal keeps the order.
LEMMA OrderStays ==
  ASSUME Shape, MessagesInv, NEW w \in Writers, Adds(w), program' = program, calls' = calls
  PROVE  Ordered'
<1>1. port \in Seq(Tags) /\ calls \in Seq(Tags)
  BY DEF MessagesInv
<1>2. ASSUME NEW t PROVE Places(port, t) \subseteq Places(port', t)
  <2>1. CASE port' = port
    BY <2>1 DEF Places
  <2>2. CASE port' = Append(port, Tag(w))
    <3>1. /\ Len(port) \in Nat /\ DOMAIN port = 1 .. Len(port) /\ Tag(w) \in Tags
      BY <1>1, TagType
    <3>2. port' \in Seq(Tags) /\ Len(port') = Len(port) + 1 /\ \A i \in 1 .. Len(port) : port'[i] = port[i]
      BY <1>1, <2>2, <3>1, AppendProperties
    <3>3. DOMAIN port' = 1 .. (Len(port) + 1)
      BY <3>2
    <3> QED
      BY <3>1, <3>2, <3>3 DEF Places
  <2> QED
    BY <2>1, <2>2 DEF Adds
<1>3. ASSUME NEW t, NEW u, InOrder(t, u) PROVE InOrder(t, u)'
  BY <1>2, <1>3 DEF InOrder
<1>4. \A v \in Writers : \A i \in Nat : KeptKind(v, i)' = KeptKind(v, i)
  BY DEF KeptKind
<1> QED
  BY <1>3, <1>4 DEF MessagesInv, Ordered

LEMMA BeginMessages ==
  ASSUME WritersInv, MessagesInv, NEW w \in Writers, Step(w), Begin(w)
  PROVE  MessagesInv'
<1> DEFINE m == program[w][said[w] + 1]
<1>1. Shape /\ Flags
  BY DEF WritersInv
<1>2. /\ Moves(w) /\ said'[w] = said[w] + 1 /\ pc'[w] = "parts"
      /\ parts'[w] = Parts(m) /\ strings'[w] = << >>
  BY <1>1, BeginEffect
<1>3. pc[w] = "idle" /\ port' = port /\ calls' = calls /\ program' = program
  BY <1>2 DEF Begin, Moves
<1>4. Adds(w)
  BY <1>3 DEF Adds
<1>5. Ordered'
  BY <1>1, <1>3, <1>4, OrderStays
<1>6. Message(w)' = m /\ Tag(w)' = <<w, said[w] + 1>>
  BY <1>2, <1>3 DEF Message, Tag
<1>7. ASSUME Keeps(w)' PROVE NowOK(w)'
  <2>1. parts'[w] = m.parts
    BY <1>2, <1>6, <1>7 DEF Keeps, Parts
  <2>2. m.parts \in Seq(Seq(Chars))
    <3>1. said[w] + 1 \in 1 .. Len(program[w])
      BY <1>1, Entries, ProgramMessages DEF Begin
    <3> QED
      BY <1>1, <3>1, LengthType
  <2>3. Collected(w)'
    <3>1. PICK P : P = m.parts
      OBVIOUS
    <3>2. Len(P) \in Nat /\ 0 \in 0 .. Len(P) /\ Prefix(P, 0) = << >>
      BY <2>2, <3>1 DEF Prefix
    <3>3. /\ strings'[w] = Prefix(P, 0) /\ Len(parts'[w]) = Len(P) - 0
          /\ \A i \in 1 .. Len(parts'[w]) : parts'[w][i] = P[0 + i]
      BY <1>2, <2>1, <3>1, <3>2
    <3> QED
      BY <1>6, <3>1, <3>2, <3>3 DEF Collected
  <2>4. Places(port, <<w, said[w] + 1>>) = {} /\ Places(calls, <<w, said[w] + 1>>) = {}
    <3>1. PICK k : k = said[w] + 1
      OBVIOUS
    <3>2. k \in Nat /\ k > said[w]
      BY <1>1, <3>1, Entries
    <3> QED
      BY <3>1, <3>2 DEF MessagesInv, NotYet
  <2> QED
    BY <1>2, <1>3, <1>6, <2>3, <2>4 DEF NowOK
<1> QED
  BY <1>2, <1>3, <1>4, <1>5, <1>7, MessagesKeep

\* Everything but the terminal, once the present message has been looked at.
LEMMA MessagesGoOn ==
  ASSUME WritersInv, MessagesInv, NEW w \in Writers, Step(w), Moves(w), said'[w] = said[w],
         port' = port \/ port' = Append(port, Tag(w)), calls' = calls,
         pc'[w] # "idle" /\ Keeps(w) => NowOK(w)',
         pc'[w] = "idle" => (KeptKind(w, said[w]) => PastOK(w, said[w]))'
  PROVE  MessagesInv'
<1>1. Shape /\ Adds(w) /\ program' = program
  BY DEF WritersInv, Adds, Moves
<1>2. Ordered'
  BY <1>1, OrderStays
<1>3. Keeps(w)' = Keeps(w)
  BY <1>1 DEF Keeps, Message
<1> QED
  BY <1>1, <1>2, <1>3, MessagesKeep

LEMMA AddPartMessages ==
  ASSUME WritersInv, MessagesInv, NEW w \in Writers, Step(w), add_part(w)
  PROVE  MessagesInv'
<1>1. Shape /\ pc[w] = "parts" /\ parts[w] # << >> /\ port' = port /\ calls' = calls
  BY DEF WritersInv, add_part
<1>2. Moves(w) /\ said'[w] = said[w] /\ parts'[w] = Tail(parts[w])
  BY <1>1, AddPartEffect
<1>3. program' = program /\ Message(w)' = Message(w) /\ Tag(w)' = Tag(w)
  BY <1>2 DEF Moves, Message, Tag
<1>4. CASE ~Keeps(w)
  <2>1. pc'[w] # "idle"
    BY <1>1, <1>4, AddPartEffect
  <2> QED
    BY <1>1, <1>2, <1>4, <2>1, MessagesGoOn
<1>5. CASE Keeps(w)
  <2>1. pc'[w] = "parts" /\ strings'[w] = strings[w] \o Head(parts[w])
    BY <1>1, <1>5, AddPartEffect
  <2>2. NowOK(w)
    BY <1>1, <1>5 DEF MessagesInv
  <2>3. Collected(w) /\ Places(port, Tag(w)) = {} /\ Places(calls, Tag(w)) = {}
    BY <1>1, <2>2 DEF NowOK
  <2>4. PICK P : P = Message(w).parts
    OBVIOUS
  <2>5. P \in Seq(Seq(Chars))
    <3>1. said[w] \in 1 .. Len(program[w])
      BY <1>1, Entries, ProgramMessages DEF WritersInv, WriterOK
    <3> QED
      BY <1>1, <2>4, <3>1, LengthType DEF Message
  <2>6. PICK k \in 0 .. Len(P) :
           /\ strings[w] = Prefix(P, k) /\ Len(parts[w]) = Len(P) - k
           /\ \A i \in 1 .. Len(parts[w]) : parts[w][i] = P[k + i]
    BY <2>3, <2>4 DEF Collected
  <2>7. PICK s, s2 : s = parts[w] /\ s2 = parts'[w]
    OBVIOUS
  <2>8. /\ s \in Seq(Seq(Chars)) /\ s # << >> /\ s2 = Tail(s) /\ Len(s) \in Nat /\ Len(s) > 0
    BY <1>1, <1>2, <2>7, Entries
  <2>9. /\ Len(s2) = Len(s) - 1 /\ Head(s) = s[1]
        /\ \A i \in 1 .. Len(s2) : s2[i] = s[i + 1]
    BY <2>8
  <2>10. Len(P) \in Nat /\ k + 1 \in 0 .. Len(P) /\ k < Len(P) /\ Len(s) = Len(P) - k
    BY <2>5, <2>6, <2>7, <2>8
  <2>11. s[1] = P[k + 1]
    BY <2>6, <2>7, <2>8
  <2>12. Prefix(P, k + 1) = Prefix(P, k) \o P[k + 1]
    BY <2>5, <2>10, PrefixNext
  <2>13. strings'[w] = Prefix(P, k + 1)
    BY <2>1, <2>6, <2>7, <2>9, <2>11, <2>12
  <2>14. Len(s2) = Len(P) - (k + 1)
    BY <2>9, <2>10
  <2>15. ASSUME NEW i \in 1 .. Len(s2) PROVE s2[i] = P[(k + 1) + i]
    <3>1. i + 1 \in 1 .. Len(s) /\ k + (i + 1) = (k + 1) + i
      BY <2>8, <2>9
    <3>2. s[i + 1] = P[k + (i + 1)]
      BY <2>6, <2>7, <3>1
    <3> QED
      BY <2>9, <3>1, <3>2
  <2>16. Collected(w)'
    BY <1>3, <2>4, <2>7, <2>10, <2>13, <2>14, <2>15 DEF Collected
  <2>17. NowOK(w)'
    BY <1>1, <1>3, <2>1, <2>3, <2>16 DEF NowOK
  <2> QED
    BY <1>1, <1>2, <2>1, <2>17, MessagesGoOn
<1> QED
  BY <1>4, <1>5

LEMMA DoWriteMessages ==
  ASSUME WritersInv, MessagesInv, NEW w \in Writers, Step(w), do_write(w)
  PROVE  MessagesInv'
<1>1. /\ Shape /\ pc[w] = "parts" /\ parts[w] = << >> /\ Keeps(w) /\ port' = port
      /\ calls' = calls
  BY DEF WritersInv, do_write
<1>2. /\ Moves(w) /\ said'[w] = said[w] /\ pc'[w] = "serial" /\ sent'[w] = 0
      /\ chunk'[w] = strings[w]
  BY <1>1, DoWriteEffect
<1>3. program' = program /\ Tag(w)' = Tag(w) /\ Length(w, said[w])' = Length(w, said[w])
  BY <1>2 DEF Moves, Tag, Length
<1>4. NowOK(w)
  BY <1>1 DEF MessagesInv
<1>5. Collected(w) /\ Places(port, Tag(w)) = {} /\ Places(calls, Tag(w)) = {}
  BY <1>1, <1>4 DEF NowOK
<1>6. PICK P : P = Message(w).parts
  OBVIOUS
<1>7. said[w] \in 1 .. Len(program[w])
  BY <1>1, Entries, ProgramMessages DEF WritersInv, WriterOK
<1>8. P \in Seq(Seq(Chars)) /\ Length(w, said[w]) = Len(Prefix(P, Len(P)))
  BY <1>1, <1>6, <1>7, LengthType DEF Message, Length
<1>9. PICK k \in 0 .. Len(P) : strings[w] = Prefix(P, k) /\ Len(parts[w]) = Len(P) - k
  BY <1>5, <1>6 DEF Collected
<1>10. k = Len(P)
  BY <1>1, <1>8, <1>9
<1>11. Len(chunk'[w]) = Length(w, said[w])
  BY <1>2, <1>8, <1>9, <1>10
<1>12. AtEnd(port, Tag(w), 0)
  BY <1>5, NowhereIsAtEnd DEF MessagesInv
<1>13. NowOK(w)'
  BY <1>1, <1>2, <1>3, <1>5, <1>11, <1>12 DEF NowOK
<1> QED
  BY <1>1, <1>2, <1>13, MessagesGoOn

LEMMA EndedMessages ==
  ASSUME WritersInv, MessagesInv, NEW w \in Writers, Step(w), Ended(w)
  PROVE  MessagesInv'
<1>1. Shape /\ ~Keeps(w) /\ port' = port /\ calls' = calls
  BY DEF WritersInv, Ended
<1>2. Moves(w) /\ said'[w] = said[w] /\ pc'[w] = "idle"
  BY <1>1, EndedEffect
<1>3. ~KeptKind(w, said[w])'
  BY <1>1, <1>2 DEF Moves, Keeps, KeptKind, Message
<1> QED
  BY <1>1, <1>2, <1>3, MessagesGoOn

LEMMA SerialMessages ==
  ASSUME WritersInv, MessagesInv, NEW w \in Writers, Step(w), put_serial(w)
  PROVE  MessagesInv'
<1>1. Shape /\ pc[w] = "serial" /\ port' = Append(port, Tag(w)) /\ calls' = calls
  BY DEF WritersInv, put_serial
<1>2. /\ Moves(w) /\ said'[w] = said[w] /\ pc'[w] = "serial" /\ chunk'[w] = chunk[w]
      /\ sent'[w] = sent[w] + 1
  BY <1>1, SerialEffect
<1>3. ASSUME Keeps(w) PROVE NowOK(w)'
  <2>1. NowOK(w)
    BY <1>1, <1>3 DEF MessagesInv
  <2>2. /\ Len(chunk[w]) = Length(w, said[w]) /\ AtEnd(port, Tag(w), sent[w])
        /\ Places(calls, Tag(w)) = {}
    BY <1>1, <2>1 DEF NowOK
  <2>3. Tag(w)' = Tag(w) /\ Length(w, said[w])' = Length(w, said[w])
    BY <1>2 DEF Moves, Tag, Length
  <2>4. AtEnd(port', Tag(w), sent[w] + 1)
    <3>1. PICK t, n, s : t = Tag(w) /\ n = sent[w] /\ s = port
      OBVIOUS
    <3>2. t \in Tags /\ n \in Nat /\ s \in Seq(Tags) /\ AtEnd(s, t, n)
      BY <1>1, <2>2, <3>1, Entries, TagType DEF MessagesInv
    <3>3. AtEnd(Append(s, t), t, n + 1)
      BY <3>2, AppendedSame
    <3> QED
      BY <1>1, <3>1, <3>3
  <2> QED
    BY <1>1, <1>2, <2>2, <2>3, <2>4 DEF NowOK
<1> QED
  BY <1>1, <1>2, <1>3, MessagesGoOn

LEMMA TermMessages ==
  ASSUME WritersInv, MessagesInv, NEW w \in Writers, Step(w), write_to_term(w)
  PROVE  MessagesInv'
<1>1. Shape /\ pc[w] = "serial" /\ sent[w] = Len(chunk[w]) /\ port' = port /\ calls' = calls
  BY DEF WritersInv, write_to_term
<1>2. /\ Moves(w) /\ said'[w] = said[w] /\ pc'[w] = "term" /\ chunk'[w] = chunk[w]
      /\ sent'[w] = 0
  BY <1>1, TermEffect
<1>3. ASSUME Keeps(w) PROVE NowOK(w)'
  <2>1. NowOK(w)
    BY <1>1, <1>3 DEF MessagesInv
  <2>2. /\ Len(chunk[w]) = Length(w, said[w]) /\ AtEnd(port, Tag(w), sent[w])
        /\ Places(calls, Tag(w)) = {}
    BY <1>1, <2>1 DEF NowOK
  <2>3. Tag(w)' = Tag(w) /\ Length(w, said[w])' = Length(w, said[w])
    BY <1>2 DEF Moves, Tag, Length
  <2>4. AtEnd(calls, Tag(w), 0)
    BY <2>2, NowhereIsAtEnd DEF MessagesInv
  <2> QED
    BY <1>1, <1>2, <2>2, <2>3, <2>4 DEF NowOK
<1> QED
  BY <1>1, <1>2, <1>3, MessagesGoOn

LEMMA WrapMessages ==
  ASSUME WritersInv, MessagesInv, NEW w \in Writers, Step(w), putchar_wrap(w)
  PROVE  MessagesInv'
<1>1. Shape /\ pc[w] = "wrap" /\ port' = port /\ calls' = calls
  BY DEF WritersInv, putchar_wrap
<1>2. /\ Moves(w) /\ said'[w] = said[w] /\ pc'[w] = "term" /\ chunk'[w] = chunk[w]
      /\ sent'[w] = sent[w]
  BY <1>1, WrapEffect
<1>3. ASSUME Keeps(w) PROVE NowOK(w)'
  <2>1. NowOK(w)
    BY <1>1, <1>3 DEF MessagesInv
  <2>2. /\ Len(chunk[w]) = Length(w, said[w]) /\ AtEnd(port, Tag(w), Len(chunk[w]))
        /\ AtEnd(calls, Tag(w), sent[w])
    BY <1>1, <2>1 DEF NowOK
  <2>3. Tag(w)' = Tag(w) /\ Length(w, said[w])' = Length(w, said[w])
    BY <1>2 DEF Moves, Tag, Length
  <2> QED
    BY <1>1, <1>2, <2>2, <2>3 DEF NowOK
<1> QED
  BY <1>1, <1>2, <1>3, MessagesGoOn

LEMMA ReturnMessages ==
  ASSUME WritersInv, MessagesInv, NEW w \in Writers, Step(w), Return(w)
  PROVE  MessagesInv'
<1>1. /\ Shape /\ pc[w] \in {"serial", "term"} /\ sent[w] = Len(chunk[w])
      /\ port' = port /\ calls' = calls
  BY DEF WritersInv, Return
<1>2. /\ Moves(w) /\ said'[w] = said[w] /\ pc'[w] = IF Keeps(w) THEN "idle" ELSE "parts"
  BY <1>1, ReturnEffect
<1>3. ASSUME Keeps(w) PROVE PastOK(w, said[w])'
  <2>1. NowOK(w)
    BY <1>1, <1>3 DEF MessagesInv
  <2>2. PICK t, n : t = Tag(w) /\ n = Length(w, said[w])
    OBVIOUS
  <2>3. /\ AtEnd(port, t, n) /\ n = Len(chunk[w])
        /\ Places(calls, t) = {} \/ AtEnd(calls, t, n)
    BY <1>1, <2>1, <2>2 DEF NowOK
  <2>4. n \in Nat
    BY <1>1, <2>3, Entries
  <2>5. Block(port, t, n) /\ (Places(calls, t) = {} \/ Block(calls, t, n))
    BY <2>3, <2>4, AtEndIsBlock DEF MessagesInv
  <2>6. t = <<w, said'[w]>> /\ Length(w, said[w])' = n
    BY <1>2, <2>2 DEF Tag, Moves, Length
  <2> QED
    BY <1>1, <2>5, <2>6 DEF PastOK
<1> QED
  BY <1>1, <1>2, <1>3, MessagesGoOn

LEMMA SetupMessages ==
  ASSUME WritersInv, MessagesInv, NEW w \in Writers, Step(w), boot_setup(w)
  PROVE  MessagesInv'
<1>1. Shape /\ pc[w] = "idle" /\ port' = port /\ calls' = calls
  BY DEF WritersInv, boot_setup
<1>2. Moves(w) /\ said'[w] = said[w] + 1 /\ pc'[w] = "idle"
  BY <1>1, SetupEffect
<1>3. Adds(w) /\ program' = program
  BY <1>1, <1>2 DEF Adds, Moves
<1>4. Ordered'
  BY <1>1, <1>3, OrderStays
<1>5. ~KeptKind(w, said[w])'
  BY <1>2, <1>3 DEF KeptKind, boot_setup
<1> QED
  BY <1>1, <1>2, <1>3, <1>4, <1>5, MessagesKeep

\* A message that is on the terminal and not the one being written is on the
\* port too.
LEMMA OnBoth ==
  ASSUME WritersInv, MessagesInv, NEW w \in Writers, Step(w), NEW v \in Writers,
         NEW i \in Nat \ {0}, KeptKind(v, i), <<v, i>> # Tag(w), Places(calls, <<v, i>>) # {}
  PROVE  Places(port, <<v, i>>) # {}
<1>1. Shape /\ port \in Seq(Tags) /\ calls \in Seq(Tags)
  BY DEF WritersInv, MessagesInv
<1>2. said[v] \in Nat /\ said[v] <= Len(program[v]) /\ Len(program[v]) \in Nat
  BY <1>1, Entries, ProgramMessages DEF WritersInv, WriterOK
<1>3. i \in 1 .. said[v]
  BY <1>2 DEF MessagesInv, NotYet
<1>4. i < said[v] \/ pc[v] = "idle"
  <2> SUFFICES ASSUME i = said[v], pc[v] # "idle" PROVE FALSE
    BY <1>2, <1>3
  <2>1. Tag(v) = <<v, i>> /\ v # w /\ Keeps(v)
    BY DEF Tag, KeptKind, Keeps, Message
  <2>2. ~Deaf(v) /\ NowOK(v)
    BY <2>1, OnlyOneDeaf DEF MessagesInv
  <2>3. pc[v] = "parts"
    BY <2>1, <2>2 DEF Deaf, Keeps
  <2> QED
    BY <2>1, <2>2, <2>3 DEF NowOK
<1>5. PastOK(v, i)
  BY <1>3, <1>4 DEF MessagesInv
<1>6. Length(v, i) \in Nat
  <2>1. i \in 1 .. Len(program[v])
    BY <1>2, <1>3
  <2> QED
    BY <1>1, <2>1, LengthType
<1>7. PICK t, n : t = <<v, i>> /\ n = Length(v, i)
  OBVIOUS
<1>8. Block(port, t, n) /\ Block(calls, t, n) /\ n \in Nat /\ Places(calls, t) # {}
  BY <1>5, <1>6, <1>7 DEF PastOK
<1>9. n > 0
  BY <1>1, <1>8, BlockCounts
<1> QED
  BY <1>1, <1>7, <1>8, <1>9, BlockCounts

LEMMA PutcharOrder ==
  ASSUME WritersInv, MessagesInv, NEW w \in Writers, Step(w), putchar(w)
  PROVE  Ordered'
<1>1. /\ Shape /\ pc[w] = "term" /\ sent[w] < Len(chunk[w]) /\ port' = port
      /\ calls' = Append(calls, Tag(w)) /\ program' = program
      /\ port \in Seq(Tags) /\ calls \in Seq(Tags)
  BY DEF WritersInv, MessagesInv, putchar, Step
<1>2. PICK g, c, c2 : g = Tag(w) /\ c = calls /\ c2 = calls'
  OBVIOUS
<1>3. g \in Tags /\ c \in Seq(Tags) /\ c2 = Append(c, g)
  BY <1>1, <1>2, TagType
<1>4. /\ Len(c) \in Nat /\ Len(c2) = Len(c) + 1 /\ DOMAIN c = 1 .. Len(c)
      /\ DOMAIN c2 = 1 .. (Len(c) + 1)
      /\ \A i \in 1 .. Len(c) : c2[i] = c[i]
      /\ c2[Len(c) + 1] = g
  BY <1>3
<1> SUFFICES ASSUME NEW v \in Writers, NEW u \in Writers,
                    NEW i \in Nat \ {0}, NEW j \in Nat \ {0}, KeptKind(v, i), KeptKind(u, j),
                    NEW a \in Places(c2, <<v, i>>), NEW b \in Places(c2, <<u, j>>), a < b,
                    <<v, i>> # <<u, j>>
             PROVE  \E p \in Places(port, <<v, i>>), q \in Places(port, <<u, j>>) : p < q
  BY <1>1, <1>2 DEF Ordered, InOrder, KeptKind
<1>5. /\ a \in 1 .. (Len(c) + 1) /\ c2[a] = <<v, i>>
      /\ b \in 1 .. (Len(c) + 1) /\ c2[b] = <<u, j>>
  BY <1>4 DEF Places
<1>6. a \in 1 .. Len(c)
  BY <1>4, <1>5
<1>7. a \in Places(c, <<v, i>>)
  BY <1>4, <1>5, <1>6 DEF Places
<1>8. CASE b # Len(c) + 1
  <2>1. b \in 1 .. Len(c)
    BY <1>4, <1>5, <1>8
  <2>2. b \in Places(c, <<u, j>>)
    BY <1>4, <1>5, <2>1 DEF Places
  <2>3. InOrder(<<v, i>>, <<u, j>>)
    BY DEF MessagesInv, Ordered
  <2> QED
    BY <1>2, <1>7, <2>2, <2>3 DEF InOrder
<1>9. CASE b = Len(c) + 1
  <2>1. <<u, j>> = g /\ <<v, i>> # g
    BY <1>4, <1>5, <1>9
  <2>2. PICK p : p \in Places(port, <<v, i>>)
    BY <1>2, <1>7, <2>1, OnBoth
  <2>3. Keeps(w)
    <3>1. u = w /\ j = said[w]
      BY <1>2, <2>1 DEF Tag
    <3> QED
      BY <3>1 DEF KeptKind, Keeps, Message
  <2>4. NowOK(w)
    BY <1>1, <2>3 DEF MessagesInv
  <2>5. AtEnd(port, g, Len(chunk[w]))
    BY <1>1, <1>2, <2>4 DEF NowOK
  <2>6. Len(chunk[w]) \in Nat /\ Len(chunk[w]) >= 1 /\ Len(port) \in Nat
    BY <1>1, Entries
  <2>7. Len(port) \in Places(port, g)
    BY <2>5, <2>6 DEF AtEnd
  <2>8. p \in 1 .. Len(port) /\ port[p] = <<v, i>> /\ port[Len(port)] = g
    <3>1. DOMAIN port = 1 .. Len(port)
      BY <1>1
    <3> QED
      BY <2>2, <2>7, <3>1 DEF Places
  <2>9. p < Len(port)
    BY <2>1, <2>6, <2>8
  <2> QED
    BY <2>1, <2>2, <2>7, <2>9
<1> QED
  BY <1>8, <1>9

LEMMA PutcharMessages ==
  ASSUME WritersInv, MessagesInv, NEW w \in Writers, Step(w), putchar(w)
  PROVE  MessagesInv'
<1>1. Shape /\ pc[w] = "term" /\ port' = port /\ calls' = Append(calls, Tag(w))
  BY DEF WritersInv, putchar
<1>2. /\ Moves(w) /\ said'[w] = said[w] /\ chunk'[w] = chunk[w]
      /\ sent'[w] = sent[w] + 1 /\ pc'[w] \in {"wrap", "term"}
  BY <1>1, PutcharEffect
<1>3. Tag(w)' = Tag(w) /\ Length(w, said[w])' = Length(w, said[w]) /\ Keeps(w)' = Keeps(w)
  BY <1>2 DEF Moves, Tag, Length, Keeps, Message
<1>4. ASSUME Keeps(w) PROVE NowOK(w)'
  <2>1. NowOK(w)
    BY <1>1, <1>4 DEF MessagesInv
  <2>2. /\ Len(chunk[w]) = Length(w, said[w]) /\ AtEnd(port, Tag(w), Len(chunk[w]))
        /\ AtEnd(calls, Tag(w), sent[w])
    BY <1>1, <2>1 DEF NowOK
  <2>3. AtEnd(calls', Tag(w), sent[w] + 1)
    <3>1. PICK t, n, s : t = Tag(w) /\ n = sent[w] /\ s = calls
      OBVIOUS
    <3>2. t \in Tags /\ n \in Nat /\ s \in Seq(Tags) /\ AtEnd(s, t, n)
      BY <1>1, <2>2, <3>1, Entries, TagType DEF MessagesInv
    <3>3. AtEnd(Append(s, t), t, n + 1)
      BY <3>2, AppendedSame
    <3> QED
      BY <1>1, <3>1, <3>3
  <2> QED
    BY <1>1, <1>2, <1>3, <2>2, <2>3 DEF NowOK
<1>5. Adds(w)
  BY <1>1 DEF Adds
<1>6. Ordered'
  BY PutcharOrder
<1> QED
  BY <1>2, <1>3, <1>4, <1>5, <1>6, MessagesKeep

LEMMA MessagesStep ==
  ASSUME WritersInv, MessagesInv, [Next]_vars
  PROVE  MessagesInv'
<1>1. CASE \E w \in Writers :
         /\ Step(w)
         /\ \/ Begin(w) \/ add_part(w) \/ do_write(w) \/ Ended(w)
            \/ put_serial(w) \/ write_to_term(w) \/ putchar(w) \/ putchar_wrap(w)
            \/ Return(w) \/ boot_setup(w)
  BY <1>1, BeginMessages, AddPartMessages, DoWriteMessages, EndedMessages, SerialMessages,
     TermMessages, PutcharMessages, WrapMessages, ReturnMessages, SetupMessages
<1>2. CASE UNCHANGED vars
  <2>1. UNCHANGED <<program, said, pc, parts, strings, chunk, sent, port, calls>>
    BY <1>2 DEF vars, writer_vars
  <2>2. \A v \in Writers : \A i \in Nat : NotYet(v, i)' = NotYet(v, i)
    BY <2>1 DEF NotYet
  <2>3. \A v \in Writers : \A i :
           /\ KeptKind(v, i)' = KeptKind(v, i)
           /\ PastOK(v, i)' = PastOK(v, i)
    BY <2>1 DEF KeptKind, PastOK, Length
  <2>4. \A v \in Writers : Keeps(v)' = Keeps(v)
    BY <2>1 DEF Keeps, Message
  <2>5. ASSUME NEW v \in Writers PROVE NowOK(v)' = NowOK(v)
    <3>1. Message(v)' = Message(v) /\ Tag(v)' = Tag(v) /\ Length(v, said[v])' = Length(v, said[v])
      BY <2>1 DEF Message, Tag, Length
    <3>2. Collected(v)' = Collected(v)
      BY <2>1, <3>1 DEF Collected
    <3> QED
      BY <2>1, <3>1, <3>2 DEF NowOK
  <2>6. Ordered' = Ordered
    <3>1. \A t, u : InOrder(t, u)' = InOrder(t, u)
      BY <2>1 DEF InOrder
    <3> QED
      BY <2>3, <3>1 DEF Ordered
  <2> QED
    BY <2>1, <2>2, <2>3, <2>4, <2>5, <2>6 DEF MessagesInv
<1> QED
  BY <1>1, <1>2 DEF Next, AllSaid

LEMMA MessagesInit ==
  ASSUME Init
  PROVE  MessagesInv
<1>1. /\ port = << >> /\ calls = << >>
      /\ \A v \in Writers : said[v] = 0 /\ pc[v] = "idle"
  BY DEF Init
<1>2. port \in Seq(Tags) /\ calls \in Seq(Tags)
  BY <1>1, EmptySeq
<1>3. \A t : Places(port, t) = {} /\ Places(calls, t) = {}
  BY <1>1 DEF Places
<1>4. \A v \in Writers : \A i \in 1 .. said[v] : FALSE
  BY <1>1
<1> QED
  BY <1>1, <1>2, <1>3, <1>4 DEF MessagesInv, NotYet, Ordered, InOrder

LEMMA BegunTag ==
  ASSUME Shape, NEW t \in Begun
  PROVE  \E v \in Writers, i \in Nat : i \in 1 .. said[v] /\ t = <<v, i>>
<1>1. PICK v \in Writers : t \in {v} \X (1 .. said[v])
  BY DEF Begun
<1>2. PICK i \in 1 .. said[v] : t = <<v, i>>
  BY <1>1
<1>3. i \in Nat
  BY Entries
<1> QED
  BY <1>2, <1>3

\* What a message under output_lock has come to is in one piece.
LEMMA KeptWhole ==
  ASSUME WritersInv, MessagesInv, NEW t \in Kept
  PROVE  /\ Unbroken(port, t) /\ Unbroken(calls, t)
         /\ Over(t) => Cardinality(Places(port, t)) =
                         Len(FlattenSeq(program[t[1]][t[2]].parts))
         /\ Places(calls, t) # {} /\ Over(t) =>
              Cardinality(Places(calls, t)) = Cardinality(Places(port, t))
<1>1. Shape /\ port \in Seq(Tags) /\ calls \in Seq(Tags)
  BY DEF WritersInv, MessagesInv
<1>2. PICK v \in Writers, i \in Nat : i \in 1 .. said[v] /\ t = <<v, i>>
  BY <1>1, BegunTag DEF Kept
<1>3. t[1] = v /\ t[2] = i /\ KeptKind(v, i)
  BY <1>2 DEF Kept, KeptKind
<1>4. said[v] \in Nat /\ said[v] <= Len(program[v]) /\ Len(program[v]) \in Nat
  BY <1>1, Entries, ProgramMessages DEF WritersInv, WriterOK
<1>5. Length(v, i) \in Nat
  <2>1. i \in 1 .. Len(program[v])
    BY <1>2, <1>4
  <2> QED
    BY <1>1, <2>1, LengthType
<1>6. ASSUME NEW s \in Seq(Tags), Places(s, t) = {} PROVE Unbroken(s, t)
  BY <1>6 DEF Unbroken
<1>7. CASE i < said[v] \/ pc[v] = "idle"
  <2>1. PastOK(v, i)
    BY <1>2, <1>3, <1>7 DEF MessagesInv
  <2>2. PICK n : n = Length(v, i)
    OBVIOUS
  <2>3. n \in Nat /\ Block(port, t, n) /\ (Places(calls, t) = {} \/ Block(calls, t, n))
    BY <1>2, <1>5, <2>1, <2>2 DEF PastOK
  <2>4. Unbroken(port, t) /\ Cardinality(Places(port, t)) = n
    BY <1>1, <2>3, BlockCounts
  <2>5. Unbroken(calls, t) /\ (Places(calls, t) # {} => Cardinality(Places(calls, t)) = n)
    BY <1>1, <1>6, <2>3, BlockCounts
  <2> QED
    BY <1>3, <2>2, <2>4, <2>5 DEF Length
<1>8. CASE ~(i < said[v] \/ pc[v] = "idle")
  <2>1. i = said[v] /\ pc[v] # "idle" /\ ~Over(t)
    BY <1>2, <1>3, <1>4, <1>8 DEF Over
  <2>2. Tag(v) = t /\ Keeps(v)
    BY <1>2, <1>3, <2>1 DEF Tag, KeptKind, Keeps, Message
  <2>3. NowOK(v)
    BY <2>1, <2>2 DEF MessagesInv
  <2>4. PICK k, n : k = sent[v] /\ n = Len(chunk[v])
    OBVIOUS
  <2>5. k \in Nat /\ n \in Nat
    BY <1>1, <2>4, Entries
  <2>6. /\ Places(port, t) = {} \/ AtEnd(port, t, k) \/ AtEnd(port, t, n)
        /\ Places(calls, t) = {} \/ AtEnd(calls, t, k)
    BY <2>2, <2>3, <2>4 DEF NowOK
  <2>7. ASSUME NEW s \in Seq(Tags), NEW z \in Nat, AtEnd(s, t, z) PROVE Unbroken(s, t)
    BY <2>7, AtEndIsBlock, BlockCounts
  <2>8. Unbroken(port, t) /\ Unbroken(calls, t)
    BY <1>1, <1>6, <2>5, <2>6, <2>7
  <2> QED
    BY <2>1, <2>8
<1> QED
  BY <1>7, <1>8

\* Each message of an allocating kout is on the serial port and on the
\* terminal in one piece and complete when its kout is gone, and both have
\* these messages in the same order: for every number of tasks, interrupt
\* handlers and unlocked writers, every message and every place at which one
\* interrupts another (kout::do_write under output_lock).
THEOREM ConsoleWholeMessages == Spec => []WholeMessages
<1>1. Init => WritersInv /\ MessagesInv
  BY WritersInit, MessagesInit
<1>2. (WritersInv /\ MessagesInv) /\ [Next]_vars => (WritersInv /\ MessagesInv)'
  BY WritersStep, MessagesStep
<1>3. ASSUME WritersInv, MessagesInv PROVE WholeMessages
  <2>1. ASSUME NEW t \in Kept, NEW u \in Kept PROVE InOrder(t, u)
    <3>1. PICK v \in Writers, i \in Nat : i \in 1 .. said[v] /\ t = <<v, i>>
      BY <1>3, BegunTag DEF Kept, WritersInv
    <3>2. PICK z \in Writers, j \in Nat : j \in 1 .. said[z] /\ u = <<z, j>>
      BY <1>3, BegunTag DEF Kept, WritersInv
    <3>3. KeptKind(v, i) /\ KeptKind(z, j)
      BY <3>1, <3>2 DEF Kept, KeptKind
    <3>4. i \in Nat \ {0} /\ j \in Nat \ {0}
      BY <1>3, <3>1, <3>2, Entries DEF WritersInv
    <3> QED
      BY <1>3, <3>1, <3>2, <3>3, <3>4 DEF MessagesInv, Ordered
  <2> QED
    BY <1>3, <2>1, KeptWhole DEF WholeMessages, InOrder
<1> QED
  BY <1>1, <1>2, <1>3, PTL DEF Spec

=============================================================================

--------------------------- MODULE TerminalProofs ---------------------------
(***************************************************************************)
(* What putchar does to the screen is what it does to the paper, for every *)
(* size of the screen and every character.                                 *)
(***************************************************************************)
EXTENDS Terminal, Arithmetic, SequenceTheorems

Rows == [0 .. (Width - 1) -> Chars]
Screens == [0 .. (Height - 1) -> Rows]
Papers == [lines : Seq(Rows), px : 0 .. (Width - 1), py : Nat]

\* The pen is on the part of the paper the screen shows.
PaperOK(p) == p \in Papers /\ p.py \in (Top(p) + 1) .. Len(p.lines)

\* Row i of the window.
Line(p, i) ==
    IF Top(p) + i + 1 \in DOMAIN p.lines THEN p.lines[Top(p) + i + 1] ELSE BlankRow

Shown(cs, p) == \A i \in 0 .. (Height - 1) : cs[i] = Line(p, i)

Scrolled(cs) == [i \in DOMAIN cs |-> IF i = Height - 1 THEN BlankRow ELSE cs[i + 1]]

\* What the second half of putchar will make of the screen.
Settled(c) ==
    /\ Shown(IF Row(c) >= Height THEN Scrolled(cells) ELSE cells, paper)
    /\ (IF c # "\n" /\ x >= Width THEN 0 ELSE x) = paper.px
    /\ (IF Row(c) >= Height THEN Row(c) - 1 ELSE Row(c)) + Top(paper) + 1 = paper.py

Typed == cells \in Screens /\ PaperOK(paper) /\ x \in Nat /\ y \in Nat

\* Between two characters.
Steady == Typed /\ Shows

\* Inside putchar, behind the character c.
Between(c) == Typed /\ Settled(c)

-----------------------------------------------------------------------------

LEMMA Sizes == Width \in Nat \ {0} /\ Height \in Nat \ {0} /\ TabStop \in Nat \ {0}
  BY SizeAssumption

LEMMA ShowsIsShown ==
  Shows <=> Shown(cells, paper) /\ x = paper.px /\ y + Top(paper) + 1 = paper.py
  BY DEF Shows, Shown, Line

\* The window is inside the paper, and the pen in the window.
LEMMA Window ==
  ASSUME NEW p, PaperOK(p)
  PROVE  /\ Len(p.lines) \in Nat \ {0} /\ Top(p) \in Nat
         /\ p.py \in 1 .. Len(p.lines) /\ p.py > Top(p) /\ p.py <= Top(p) + Height
         /\ Len(p.lines) <= Top(p) + Height
         /\ DOMAIN p.lines = 1 .. Len(p.lines)
         /\ p.lines \in Seq(Rows) /\ p.px \in 0 .. (Width - 1)
<1>1. p.lines \in Seq(Rows) /\ Len(p.lines) \in Nat /\ DOMAIN p.lines = 1 .. Len(p.lines)
      /\ p.px \in 0 .. (Width - 1) /\ p.py \in Nat
  BY DEF PaperOK, Papers
<1>2. Top(p) \in Nat /\ Len(p.lines) <= Top(p) + Height
  BY <1>1, Sizes DEF Top
<1> QED
  BY <1>1, <1>2, Sizes DEF PaperOK

LEMMA BlankIsRow == Blank \in Chars /\ BlankRow \in Rows
<1>1. Blank \in Chars
  BY CharsAssumption
<1> QED
  BY <1>1 DEF BlankRow, Rows

\* One character on the screen.
LEMMA WriteCell ==
  ASSUME cells \in Screens, NEW r \in 0 .. (Height - 1), NEW k \in 0 .. (Width - 1),
         NEW c \in Chars
  PROVE  /\ Write(r, k, c) \in Screens
         /\ \A i \in 0 .. (Height - 1) :
               Write(r, k, c)[i] = IF i = r THEN [cells[r] EXCEPT ![k] = c] ELSE cells[i]
<1>1. Width \in Nat \ {0} /\ Height \in Nat \ {0} /\ r \in Nat /\ k \in Nat
  BY Sizes
<1>2. (r * Width + k) \div Width = r /\ (r * Width + k) % Width = k
  BY <1>1, DivUnique
<1>3. r * Width + k < Width * Height
  <2>1. r * Width + Width <= Height * Width
    BY <1>1, Stretch
  <2>2. r * Width \in Nat /\ Height * Width \in Nat /\ Height * Width = Width * Height
    BY <1>1
  <2> DEFINE m == r * Width
             n == Height * Width
  <2>3. m + Width <= n /\ m \in Nat /\ n \in Nat /\ n = Width * Height
    BY <2>1, <2>2
  <2> HIDE DEF m, n
  <2>4. m + k < n
    BY <1>1, <2>3
  <2> QED
    BY <2>2, <2>4 DEF m, n
<1>4. ~(r * Width + k >= Width * Height)
  <2>1. r * Width + k \in Nat /\ Width * Height \in Nat
    BY <1>1
  <2> QED
    BY <1>3, <2>1
<1>5. Write(r, k, c) = [cells EXCEPT ![r][k] = c]
  BY <1>2, <1>4 DEF Write
<1>6. [cells[r] EXCEPT ![k] = c] \in Rows
  BY DEF Screens, Rows
<1> QED
  BY <1>5, <1>6 DEF Screens

\* One character on the paper.
LEMMA MarkLine ==
  ASSUME NEW p, PaperOK(p), NEW c \in Chars
  PROVE  /\ PaperOK(Mark(p, c)) /\ Top(Mark(p, c)) = Top(p)
         /\ Len(Mark(p, c).lines) = Len(p.lines)
         /\ Mark(p, c).px = p.px /\ Mark(p, c).py = p.py
         /\ \A i \in 1 .. Len(p.lines) :
               Mark(p, c).lines[i] = IF i = p.py THEN [p.lines[i] EXCEPT ![p.px] = c]
                                     ELSE p.lines[i]
<1>1. /\ Len(p.lines) \in Nat /\ p.py \in 1 .. Len(p.lines)
      /\ DOMAIN p.lines = 1 .. Len(p.lines)
      /\ p.lines \in Seq(Rows) /\ p.px \in 0 .. (Width - 1)
  BY Window
<1> DEFINE row == [p.lines[p.py] EXCEPT ![p.px] = c]
           ls == [p.lines EXCEPT ![p.py] = row]
<1>2. row \in Rows
  BY <1>1 DEF Rows
<1>3. Mark(p, c) = [p EXCEPT !.lines = ls]
  BY DEF Mark
<1>4. ls \in Seq(Rows) /\ Len(ls) = Len(p.lines)
  BY <1>1, <1>2
<1>5. \A i \in 1 .. Len(p.lines) : ls[i] = IF i = p.py THEN row ELSE p.lines[i]
  BY <1>1
<1> HIDE DEF ls, row
<1>6. /\ Mark(p, c) \in Papers /\ Mark(p, c).lines = ls
      /\ Mark(p, c).px = p.px /\ Mark(p, c).py = p.py
  BY <1>3, <1>4 DEF PaperOK, Papers
<1>7. Top(Mark(p, c)) = Top(p)
  BY <1>4, <1>6 DEF Top
<1>8. PaperOK(Mark(p, c))
  BY <1>4, <1>6, <1>7 DEF PaperOK
<1> QED
  BY <1>4, <1>5, <1>6, <1>7, <1>8 DEF row

\* A character written on both is shown.
LEMMA MarkShown ==
  ASSUME NEW p, PaperOK(p), NEW c \in Chars, cells \in Screens, Shown(cells, p),
         NEW r \in Nat, r + Top(p) + 1 = p.py
  PROVE  /\ r \in 0 .. (Height - 1)
         /\ Write(r, p.px, c) \in Screens
         /\ Shown(Write(r, p.px, c), Mark(p, c))
<1>1. /\ Len(p.lines) \in Nat /\ p.py \in 1 .. Len(p.lines) /\ p.py <= Top(p) + Height
      /\ DOMAIN p.lines = 1 .. Len(p.lines) /\ Top(p) \in Nat /\ p.px \in 0 .. (Width - 1)
  BY Window
<1>2. r \in 0 .. (Height - 1)
  BY <1>1, Sizes
<1> DEFINE q == Mark(p, c)
           cs == Write(r, p.px, c)
<1>3. /\ PaperOK(q) /\ Top(q) = Top(p) /\ Len(q.lines) = Len(p.lines)
      /\ \A i \in 1 .. Len(p.lines) :
            q.lines[i] = IF i = p.py THEN [p.lines[i] EXCEPT ![p.px] = c] ELSE p.lines[i]
  BY MarkLine
<1>4. /\ cs \in Screens
      /\ \A i \in 0 .. (Height - 1) :
            cs[i] = IF i = r THEN [cells[r] EXCEPT ![p.px] = c] ELSE cells[i]
  BY <1>1, <1>2, WriteCell
<1>5. DOMAIN q.lines = 1 .. Len(p.lines)
  BY <1>3, Window
<1> HIDE DEF q, cs
<1>6. ASSUME NEW i \in 0 .. (Height - 1) PROVE cs[i] = Line(q, i)
  <2>1. cells[i] = Line(p, i)
    BY DEF Shown
  <2>2. CASE i = r
    <3>1. Top(p) + i + 1 = p.py
      BY <1>1, <1>2, <2>2
    <3>2. Line(p, i) = p.lines[p.py]
      BY <1>1, <3>1 DEF Line
    <3>3. Line(q, i) = q.lines[p.py]
      BY <1>1, <1>3, <1>5, <3>1 DEF Line
    <3>4. q.lines[p.py] = [p.lines[p.py] EXCEPT ![p.px] = c]
      BY <1>1, <1>3
    <3>5. cs[i] = [cells[i] EXCEPT ![p.px] = c]
      BY <1>4, <2>2
    <3> QED
      BY <2>1, <3>2, <3>3, <3>4, <3>5
  <2>3. CASE i # r
    <3>1. Top(p) + i + 1 # p.py
      BY <1>1, <1>2, <2>3
    <3>2. Line(q, i) = Line(p, i)
      BY <1>1, <1>3, <1>5, <3>1 DEF Line
    <3> QED
      BY <1>4, <2>1, <2>3, <3>2
  <2> QED
    BY <2>2, <2>3
<1> QED
  BY <1>2, <1>4, <1>6 DEF Shown, q, cs

\* A new line: the window moves exactly when the screen scrolls.
LEMMA NextLineShown ==
  ASSUME NEW p, PaperOK(p), NEW cs \in Screens, Shown(cs, p),
         NEW r \in Nat, r + Top(p) + 1 = p.py, NEW q, q = NextLine(p)
  PROVE  /\ PaperOK(q) /\ q.px = 0 /\ Scrolled(cs) \in Screens
         /\ r + 1 >= Height => Shown(Scrolled(cs), q) /\ r + Top(q) + 1 = q.py
         /\ ~(r + 1 >= Height) => Shown(cs, q) /\ (r + 1) + Top(q) + 1 = q.py
<1> DEFINE n == Len(p.lines)
           ls == p.lines
<1>0. Width \in Nat \ {0} /\ Height \in Nat \ {0} /\ BlankRow \in Rows
  BY Sizes, BlankIsRow
<1>1. /\ n \in Nat \ {0} /\ p.py \in 1 .. n /\ p.py <= Top(p) + Height
      /\ DOMAIN ls = 1 .. n /\ Top(p) \in Nat /\ ls \in Seq(Rows)
  BY Window
<1>2. Top(p) = IF n > Height THEN n - Height ELSE 0
  BY DEF Top
<1>3. Scrolled(cs) \in Screens
  BY <1>0 DEF Scrolled, Screens
<1>6. ls = p.lines /\ n = Len(p.lines)
  OBVIOUS
<1> HIDE DEF n, ls
<1>4. CASE p.py # n
  <2>1. q = [lines |-> ls, px |-> 0, py |-> p.py + 1]
    BY <1>4, <1>6 DEF NextLine
  <2>2. q.lines = ls /\ q.px = 0 /\ q.py = p.py + 1 /\ q \in Papers
    BY <1>0, <1>1, <2>1 DEF Papers
  <2>3. Top(q) = Top(p)
    BY <1>6, <2>2 DEF Top
  <2>4. p.py + 1 \in 1 .. n
    BY <1>1, <1>4
  <2>5. PaperOK(q)
    BY <1>1, <1>6, <2>2, <2>3, <2>4 DEF PaperOK
  <2>6. ~(r + 1 >= Height)
    BY <1>0, <1>1, <1>2, <2>4
  <2>7. Shown(cs, q)
    BY <1>6, <2>2, <2>3 DEF Shown, Line
  <2>8. (r + 1) + Top(q) + 1 = q.py
    BY <1>1, <2>2, <2>3
  <2> QED
    BY <1>3, <2>2, <2>5, <2>6, <2>7, <2>8
<1>5. CASE p.py = n
  <2> DEFINE new == Append(ls, BlankRow)
  <2>1. q = [lines |-> new, px |-> 0, py |-> n + 1]
    BY <1>5, <1>6 DEF NextLine
  <2>2. new \in Seq(Rows) /\ Len(new) = n + 1 /\ DOMAIN new = 1 .. (n + 1)
    BY <1>0, <1>1
  <2>3. (\A i \in 1 .. n : new[i] = ls[i]) /\ new[n + 1] = BlankRow
    BY <1>0, <1>1
  <2> HIDE DEF new
  <2>4. q.lines = new /\ q.px = 0 /\ q.py = n + 1 /\ q \in Papers
    BY <1>0, <1>1, <2>1, <2>2 DEF Papers
  <2>5. Top(q) = IF n + 1 > Height THEN n + 1 - Height ELSE 0
    <3>1. Len(q.lines) = n + 1
      BY <2>2, <2>4
    <3>2. Top(q) = IF Len(q.lines) > Height THEN Len(q.lines) - Height ELSE 0
      BY DEF Top
    <3> QED
      BY <1>0, <1>1, <3>1, <3>2
  <2>6. PaperOK(q)
    <3>1. Top(q) \in Nat /\ Top(q) + 1 <= n + 1
      BY <1>0, <1>1, <2>5
    <3> QED
      BY <1>1, <2>2, <2>4, <3>1 DEF PaperOK
  <2>7. CASE r + 1 >= Height
    <3>1. n >= Height /\ Top(p) = n - Height /\ Top(q) = n + 1 - Height
      BY <1>0, <1>1, <1>2, <1>5, <2>5, <2>7
    <3>2. ASSUME NEW i \in 0 .. (Height - 1) PROVE Scrolled(cs)[i] = Line(q, i)
      <4>1. DOMAIN cs = 0 .. (Height - 1)
        BY DEF Screens
      <4>2. CASE i = Height - 1
        <5>1. Top(q) + i + 1 = n + 1 /\ n + 1 \in 1 .. (n + 1)
          BY <1>0, <1>1, <3>1, <4>2
        <5>2. Line(q, i) = BlankRow
          BY <2>2, <2>3, <2>4, <5>1 DEF Line
        <5> QED
          BY <4>1, <4>2, <5>2 DEF Scrolled
      <4>3. CASE i # Height - 1
        <5>1. i + 1 \in 0 .. (Height - 1) /\ Top(q) + i + 1 = Top(p) + (i + 1) + 1
              /\ Top(q) + i + 1 \in 1 .. n /\ Top(q) + i + 1 \in 1 .. (n + 1)
          BY <1>0, <1>1, <3>1, <4>3
        <5>2. Line(q, i) = ls[Top(q) + i + 1]
          BY <2>2, <2>3, <2>4, <5>1 DEF Line
        <5>3. Line(p, i + 1) = ls[Top(q) + i + 1]
          BY <1>1, <1>6, <5>1 DEF Line
        <5>4. Scrolled(cs)[i] = cs[i + 1] /\ cs[i + 1] = Line(p, i + 1)
          BY <4>1, <4>3, <5>1 DEF Scrolled, Shown
        <5> QED
          BY <5>2, <5>3, <5>4
      <4> QED
        BY <4>2, <4>3
    <3>3. r + Top(q) + 1 = q.py
      BY <1>0, <1>1, <1>5, <2>4, <3>1
    <3> QED
      BY <1>3, <2>4, <2>6, <2>7, <3>2, <3>3 DEF Shown
  <2>8. CASE ~(r + 1 >= Height)
    <3>1. n < Height /\ Top(p) = 0 /\ Top(q) = 0
      BY <1>0, <1>1, <1>2, <1>5, <2>5, <2>8
    <3>2. ASSUME NEW i \in 0 .. (Height - 1) PROVE cs[i] = Line(q, i)
      <4>1. cs[i] = Line(p, i)
        BY DEF Shown
      <4>2. Line(p, i) = IF i + 1 \in 1 .. n THEN ls[i + 1] ELSE BlankRow
        BY <1>1, <1>6, <3>1 DEF Line
      <4>3. Line(q, i) = IF i + 1 \in 1 .. (n + 1) THEN new[i + 1] ELSE BlankRow
        BY <2>2, <2>4, <3>1 DEF Line
      <4>4. CASE i + 1 \in 1 .. n
        BY <1>1, <2>3, <4>1, <4>2, <4>3, <4>4
      <4>5. CASE i + 1 \notin 1 .. n
        <5>1. i + 1 \in 1 .. (n + 1) => i + 1 = n + 1
          BY <1>1, <4>5
        <5> QED
          BY <2>3, <4>1, <4>2, <4>3, <4>5, <5>1
      <4> QED
        BY <4>4, <4>5
    <3>3. (r + 1) + Top(q) + 1 = q.py
      BY <1>0, <1>1, <1>5, <2>4, <3>1
    <3> QED
      BY <1>3, <2>4, <2>6, <2>8, <3>2, <3>3 DEF Shown
  <2> QED
    BY <2>7, <2>8
<1> QED
  BY <1>4, <1>5

-----------------------------------------------------------------------------
(* The characters.                                                         *)

\* The tab stop behind column a is the next multiple of TabStop.
LEMMA NextStop ==
  ASSUME NEW a \in Nat, NEW stop, stop = a + TabStop - (a % TabStop)
  PROVE  /\ stop \in Nat /\ stop > a /\ stop % TabStop = 0
         /\ \A s \in Nat : s > a /\ s % TabStop = 0 => s >= stop
<1> DEFINE q == a \div TabStop
           m == q * TabStop
<1>1. TabStop \in Nat \ {0}
  BY Sizes
<1>2. q \in Nat /\ a % TabStop \in 0 .. (TabStop - 1) /\ a = m + (a % TabStop)
  BY <1>1, DivMod
<1>3. m \in Nat /\ (q + 1) * TabStop = m + TabStop
  BY <1>1, <1>2
<1>4. stop = (q + 1) * TabStop /\ stop \in Nat /\ stop > a
  <2>1. stop = m + TabStop /\ stop \in Nat /\ stop > a
    <3> DEFINE r == a % TabStop
    <3>1. r \in 0 .. (TabStop - 1) /\ a = m + r /\ stop = a + TabStop - r
      BY <1>2
    <3> HIDE DEF m, r
    <3> QED
      BY <1>1, <1>3, <3>1
  <2> QED
    BY <1>3, <2>1
<1>5. stop % TabStop = 0
  <2>1. q + 1 \in Nat
    BY <1>2
  <2> HIDE DEF q
  <2> QED
    BY <1>1, <1>4, <2>1, MultipleOf
<1>6. ASSUME NEW s \in Nat, s > a, s % TabStop = 0 PROVE s >= stop
  <2>1. PICK k \in Nat : s = k * TabStop
    BY <1>1, <1>6, MultipleOf
  <2>2. ~(k <= q)
    <3>1. SUFFICES ASSUME k <= q PROVE FALSE
      OBVIOUS
    <3>2. k * TabStop <= m
      BY <1>1, <1>2, <2>1, <3>1
    <3> HIDE DEF m
    <3> QED
      BY <1>2, <1>3, <1>6, <2>1, <3>2, <1>1
  <2>3. q < k
    BY <1>2, <2>1, <2>2
  <2>4. m + TabStop <= k * TabStop
    BY <1>1, <1>2, <2>1, <2>3, Stretch
  <2> HIDE DEF m
  <2> QED
    BY <1>3, <1>4, <2>1, <2>4, <1>1
<1> QED
  BY <1>4, <1>5, <1>6

\* The facts a steady screen gives.
LEMMA SteadyFacts ==
  ASSUME Steady
  PROVE  /\ cells \in Screens /\ PaperOK(paper) /\ x \in 0 .. (Width - 1) /\ y \in 0 .. (Height - 1)
         /\ Shown(cells, paper) /\ x = paper.px /\ y + Top(paper) + 1 = paper.py
         /\ Top(paper) \in Nat
<1>1. /\ cells \in Screens /\ PaperOK(paper) /\ x \in Nat /\ y \in Nat
      /\ Shown(cells, paper) /\ x = paper.px /\ y + Top(paper) + 1 = paper.py
  BY ShowsIsShown DEF Steady, Typed
<1>2. paper.px \in 0 .. (Width - 1) /\ paper.py <= Top(paper) + Height /\ Top(paper) \in Nat
      /\ paper.py > Top(paper)
  BY <1>1, Window
<1> QED
  BY <1>1, <1>2, Sizes

\* Moving the pen within the window changes nothing that is shown.
LEMMA MovePen ==
  ASSUME NEW p, PaperOK(p), NEW px \in 0 .. (Width - 1), NEW q, q = [p EXCEPT !.px = px]
  PROVE  /\ PaperOK(q) /\ q.px = px /\ q.py = p.py /\ Top(q) = Top(p)
         /\ \A cs : Shown(cs, p) => Shown(cs, q)
<1>1. q \in Papers /\ q.lines = p.lines /\ q.px = px /\ q.py = p.py
  BY DEF PaperOK, Papers
<1>2. Top(q) = Top(p)
  BY <1>1 DEF Top
<1> QED
  BY <1>1, <1>2 DEF PaperOK, Shown, Line

Lifted(p, px) == [p EXCEPT !.py = @ - 1, !.px = px]

LEMMA PenUp ==
  ASSUME NEW p, PaperOK(p), p.py > Top(p) + 1, NEW px \in 0 .. (Width - 1),
         NEW q, q = Lifted(p, px)
  PROVE  /\ PaperOK(q) /\ q.px = px /\ q.py = p.py - 1 /\ Top(q) = Top(p)
         /\ \A cs : Shown(cs, p) => Shown(cs, q)
<1>1. /\ p.py \in 1 .. Len(p.lines) /\ Top(p) \in Nat /\ Len(p.lines) \in Nat
  BY Window
<1>2. p.py - 1 \in Nat /\ p.py - 1 >= Top(p) + 1 /\ p.py - 1 <= Len(p.lines)
  BY <1>1
<1>3. q \in Papers /\ q.lines = p.lines /\ q.px = px /\ q.py = p.py - 1
  BY <1>2 DEF PaperOK, Papers, Lifted
<1>4. Top(q) = Top(p)
  BY <1>3 DEF Top
<1>5. PaperOK(q)
  BY <1>1, <1>2, <1>3, <1>4 DEF PaperOK
<1> QED
  BY <1>3, <1>4, <1>5 DEF Shown, Line

\* What has to be shown of a step that leaves putchar.
LEMMA SteadyNext ==
  ASSUME cells' \in Screens, PaperOK(paper'), x' \in Nat, y' \in Nat,
         Shown(cells', paper'), x' = paper'.px, y' + Top(paper') + 1 = paper'.py
  PROVE  Steady'
  BY DEF Steady, Typed, Shows, Shown, Line

LEMMA PutNewline ==
  ASSUME Steady, Put("\n"), paper' = OnPaper(paper, "\n")
  PROVE  Between("\n")'
<1>1. x' = 0 /\ y' = y + 1 /\ cells' = cells
  BY DEF Put, Controls
<1>2. paper' = NextLine(paper)
  BY DEF OnPaper
<1>3. PICK q : q = NextLine(paper)
  OBVIOUS
<1>4. /\ cells \in Screens /\ PaperOK(paper) /\ y \in 0 .. (Height - 1) /\ y \in Nat
      /\ Shown(cells, paper) /\ y + Top(paper) + 1 = paper.py
  BY SteadyFacts, Sizes
<1>5. /\ PaperOK(q) /\ q.px = 0 /\ Scrolled(cells) \in Screens
      /\ y + 1 >= Height => Shown(Scrolled(cells), q) /\ y + Top(q) + 1 = q.py
      /\ ~(y + 1 >= Height) => Shown(cells, q) /\ (y + 1) + Top(q) + 1 = q.py
  BY <1>3, <1>4, NextLineShown
<1>6. Row("\n")' = y + 1
  BY <1>1 DEF Row
<1>7. paper' = q
  BY <1>2, <1>3
<1>8. Typed'
  BY <1>1, <1>4, <1>5, <1>7 DEF Typed
<1>9. Settled("\n")'
  <2>1. (y + 1) - 1 = y
    BY <1>4
  <2>2. CASE y + 1 >= Height
    BY <1>1, <1>5, <1>6, <1>7, <2>1, <2>2 DEF Settled
  <2>3. CASE ~(y + 1 >= Height)
    BY <1>1, <1>5, <1>6, <1>7, <2>3 DEF Settled
  <2> QED
    BY <2>2, <2>3
<1> QED
  BY <1>8, <1>9 DEF Between

LEMMA PutOrdinary ==
  ASSUME Steady, NEW c \in Chars \ Controls, Put(c), paper' = OnPaper(paper, c)
  PROVE  Between(c)'
<1>1. c # "\n" /\ c # "\r" /\ c # "\t" /\ c # "BS" /\ c # "DEL" /\ c # "ESC"
  BY DEF Controls
<1>2. cells' = Write(y, x, c) /\ x' = x + 1 /\ y' = y
  BY <1>1 DEF Put
<1>3. /\ cells \in Screens /\ PaperOK(paper) /\ y \in 0 .. (Height - 1) /\ y \in Nat
      /\ x \in 0 .. (Width - 1) /\ x = paper.px
      /\ Shown(cells, paper) /\ y + Top(paper) + 1 = paper.py
  BY SteadyFacts, Sizes
<1>4. PICK cs, p : cs = Write(y, x, c) /\ p = Mark(paper, c)
  OBVIOUS
<1>5. cs \in Screens /\ Shown(cs, p)
  BY <1>3, <1>4, MarkShown
<1>6. PaperOK(p) /\ p.px = x /\ p.py = paper.py /\ Top(p) = Top(paper)
  BY <1>3, <1>4, MarkLine
<1>7. y + Top(p) + 1 = p.py
  BY <1>3, <1>6
<1>8. paper' = IF p.px = Width - 1 THEN NextLine(p) ELSE [p EXCEPT !.px = @ + 1]
  <2>1. OnPaper(paper, c) = IF paper.px = Width - 1 THEN NextLine(Mark(paper, c))
                            ELSE [Mark(paper, c) EXCEPT !.px = @ + 1]
    BY <1>1 DEF OnPaper
  <2> QED
    BY <1>3, <1>4, <1>6, <2>1
<1>9. CASE x = Width - 1
  <2>1. x' = Width /\ Row(c)' = y + 1 /\ (IF c # "\n" /\ x' >= Width THEN 0 ELSE x') = 0
    BY <1>1, <1>2, <1>9, Sizes DEF Row
  <2>2. PICK q : q = NextLine(p)
    OBVIOUS
  <2>3. /\ PaperOK(q) /\ q.px = 0 /\ Scrolled(cs) \in Screens
        /\ y + 1 >= Height => Shown(Scrolled(cs), q) /\ y + Top(q) + 1 = q.py
        /\ ~(y + 1 >= Height) => Shown(cs, q) /\ (y + 1) + Top(q) + 1 = q.py
    BY <1>3, <1>5, <1>6, <1>7, <2>2, NextLineShown
  <2>4. paper' = q /\ cells' = cs
    BY <1>2, <1>4, <1>6, <1>8, <1>9, <2>2
  <2>5. Typed'
    BY <1>2, <1>3, <1>5, <2>1, <2>3, <2>4, Sizes DEF Typed
  <2>6. (y + 1) - 1 = y
    BY <1>3
  <2>7. CASE y + 1 >= Height
    <3>1. Settled(c)'
      BY <2>1, <2>3, <2>4, <2>6, <2>7 DEF Settled
    <3> QED
      BY <2>5, <3>1 DEF Between
  <2>8. CASE ~(y + 1 >= Height)
    <3>1. Settled(c)'
      BY <2>1, <2>3, <2>4, <2>8 DEF Settled
    <3> QED
      BY <2>5, <3>1 DEF Between
  <2> QED
    BY <2>7, <2>8
<1>10. CASE x # Width - 1
  <2>1. x + 1 \in 0 .. (Width - 1) /\ ~(x + 1 >= Width) /\ ~(y >= Height)
    BY <1>3, <1>10, Sizes
  <2>2. Row(c)' = y /\ (IF c # "\n" /\ x' >= Width THEN 0 ELSE x') = x + 1
    BY <1>2, <2>1 DEF Row
  <2>3. PICK q : q = [p EXCEPT !.px = x + 1]
    OBVIOUS
  <2>4. /\ PaperOK(q) /\ q.px = x + 1 /\ q.py = p.py /\ Top(q) = Top(p) /\ Shown(cs, q)
    BY <1>5, <1>6, <2>1, <2>3, MovePen
  <2>5. paper' = q /\ cells' = cs
    BY <1>2, <1>4, <1>6, <1>8, <1>10, <2>3
  <2>6. Typed'
    BY <1>2, <1>3, <1>5, <2>1, <2>4, <2>5 DEF Typed
  <2>7. y + Top(q) + 1 = q.py
    BY <1>7, <2>4
  <2>8. Settled(c)'
    BY <2>1, <2>2, <2>4, <2>5, <2>7 DEF Settled
  <2> QED
    BY <2>6, <2>8 DEF Between
<1> QED
  BY <1>9, <1>10

LEMMA PutReturn ==
  ASSUME Steady, Put("\r"), paper' = OnPaper(paper, "\r")
  PROVE  Steady'
<1>1. x' = 0 /\ y' = y /\ cells' = cells
  BY DEF Put, Controls
<1>2. PICK q : q = [paper EXCEPT !.px = 0]
  OBVIOUS
<1>3. paper' = q
  BY <1>2 DEF OnPaper
<1>4. /\ cells \in Screens /\ PaperOK(paper) /\ y \in Nat
      /\ Shown(cells, paper) /\ y + Top(paper) + 1 = paper.py
  BY SteadyFacts, Sizes
<1>5. 0 \in 0 .. (Width - 1)
  BY Sizes
<1>6. PaperOK(q) /\ q.px = 0 /\ q.py = paper.py /\ Top(q) = Top(paper) /\ Shown(cells, q)
  BY <1>2, <1>4, <1>5, MovePen
<1> QED
  BY <1>1, <1>3, <1>4, <1>6, SteadyNext

LEMMA PutTab ==
  ASSUME Steady, Put("\t"), paper' = OnPaper(paper, "\t")
  PROVE  Steady'
<1>1. /\ cells \in Screens /\ PaperOK(paper) /\ y \in Nat /\ x \in Nat
      /\ x \in 0 .. (Width - 1) /\ x = paper.px
      /\ Shown(cells, paper) /\ y + Top(paper) + 1 = paper.py
  BY SteadyFacts, Sizes
<1>2. PICK stop : stop = x + TabStop - (x % TabStop)
  OBVIOUS
<1>3. x' = (IF stop >= Width THEN Width - 1 ELSE stop) /\ y' = y /\ cells' = cells
  BY <1>2 DEF Put, Controls
<1>4. /\ stop \in Nat /\ stop > x /\ stop % TabStop = 0
      /\ \A s \in Nat : s > x /\ s % TabStop = 0 => s >= stop
  BY <1>1, <1>2, NextStop
<1>5. PICK stops : stops = {s \in (paper.px + 1) .. (Width - 1) : s % TabStop = 0}
  OBVIOUS
<1>6. paper' = [paper EXCEPT !.px = IF stops = {} THEN Width - 1
                                    ELSE CHOOSE s \in stops : \A t \in stops : s <= t]
  BY <1>5 DEF OnPaper
<1>7. PICK a : a = IF stops = {} THEN Width - 1
                   ELSE CHOOSE s \in stops : \A t \in stops : s <= t
  OBVIOUS
<1>8. \A s \in stops : s \in Nat /\ s > x /\ s < Width /\ s >= stop
  BY <1>1, <1>4, <1>5, Sizes
<1>9. x' = a
  <2>1. CASE stop >= Width
    <3>1. stops = {}
      BY <1>4, <1>8, <2>1, Sizes
    <3> QED
      BY <1>3, <1>7, <2>1, <3>1
  <2>2. CASE ~(stop >= Width)
    <3>1. stop \in stops
      BY <1>1, <1>4, <1>5, <2>2, Sizes
    <3>2. \A t \in stops : stop <= t
      BY <1>4, <1>8
    <3>3. a = CHOOSE s \in stops : \A t \in stops : s <= t
      BY <1>7, <3>1
    <3>4. a \in stops /\ \A t \in stops : a <= t
      BY <3>1, <3>2, <3>3
    <3>5. a = stop
      BY <1>4, <1>8, <3>1, <3>4
    <3> QED
      BY <1>3, <2>2, <3>5
  <2> QED
    BY <2>1, <2>2
<1>10. a \in 0 .. (Width - 1)
  BY <1>3, <1>4, <1>9, Sizes
<1>11. PICK q : q = [paper EXCEPT !.px = a]
  OBVIOUS
<1>12. PaperOK(q) /\ q.px = a /\ q.py = paper.py /\ Top(q) = Top(paper) /\ Shown(cells, q)
  BY <1>1, <1>10, <1>11, MovePen
<1>13. paper' = q
  BY <1>6, <1>7, <1>11
<1>14. a \in Nat
  BY <1>10, Sizes
<1> QED
  BY <1>1, <1>3, <1>9, <1>12, <1>13, <1>14, SteadyNext

\* A character is erased where the pen stands.
LEMMA EraseShown ==
  ASSUME NEW p, PaperOK(p), cells \in Screens, Shown(cells, p), NEW r \in Nat,
         r + Top(p) + 1 = p.py,
         cells' = Write(r, p.px, Blank), paper' = Mark(p, Blank), x' = p.px, y' = r
  PROVE  Steady'
<1>1. Blank \in Chars
  BY BlankIsRow
<1>2. PICK cs, q : cs = Write(r, p.px, Blank) /\ q = Mark(p, Blank)
  OBVIOUS
<1>3. cs \in Screens /\ Shown(cs, q)
  BY <1>1, <1>2, MarkShown
<1>4. PaperOK(q) /\ q.px = p.px /\ q.py = p.py /\ Top(q) = Top(p)
  BY <1>1, <1>2, MarkLine
<1>5. p.px \in Nat
  BY Window, Sizes
<1>6. cells' = cs /\ paper' = q
  BY <1>2
<1> QED
  BY <1>3, <1>4, <1>5, <1>6, SteadyNext

LEMMA PutErase ==
  ASSUME Steady, Put("BS"), paper' = OnPaper(paper, "BS")
  PROVE  Steady'
<1>1. /\ cells \in Screens /\ PaperOK(paper) /\ y \in Nat /\ x \in Nat
      /\ x \in 0 .. (Width - 1) /\ x = paper.px /\ Top(paper) \in Nat
      /\ Shown(cells, paper) /\ y + Top(paper) + 1 = paper.py
  BY SteadyFacts, Sizes
<1>2. \/ x > 0 /\ x' = x - 1 /\ cells' = Write(y, x - 1, Blank) /\ y' = y
      \/ x = 0 /\ y > 0 /\ y' = y - 1 /\ x' = Width - 1
         /\ cells' = Write(y - 1, Width - 1, Blank)
      \/ x = 0 /\ y = 0 /\ x' = x /\ y' = y /\ cells' = cells
  BY DEF Put, Controls
<1>3. paper' = IF paper.px > 0 THEN Mark([paper EXCEPT !.px = @ - 1], Blank)
               ELSE IF paper.py > Top(paper) + 1
               THEN Mark([paper EXCEPT !.py = @ - 1, !.px = Width - 1], Blank)
               ELSE paper
  BY DEF OnPaper
<1>4. CASE x > 0
  <2>1. PICK p : p = [paper EXCEPT !.px = x - 1]
    OBVIOUS
  <2>2. x - 1 \in 0 .. (Width - 1)
    BY <1>1, <1>4, Sizes
  <2>3. /\ PaperOK(p) /\ p.px = x - 1 /\ p.py = paper.py /\ Top(p) = Top(paper)
        /\ Shown(cells, p)
    BY <1>1, <2>1, <2>2, MovePen
  <2>4. paper' = Mark(p, Blank)
    BY <1>1, <1>3, <1>4, <2>1
  <2>5. cells' = Write(y, p.px, Blank) /\ x' = p.px /\ y' = y /\ y + Top(p) + 1 = p.py
    BY <1>1, <1>2, <1>4, <2>3
  <2> QED
    BY <1>1, <2>3, <2>4, <2>5, EraseShown
<1>5. CASE x = 0 /\ y > 0
  <2>1. PICK p : p = [paper EXCEPT !.py = @ - 1, !.px = Width - 1]
    OBVIOUS
  <2>2. Width - 1 \in 0 .. (Width - 1) /\ paper.py > Top(paper) + 1
    BY <1>1, <1>5, Sizes
  <2>3. /\ PaperOK(p) /\ p.px = Width - 1 /\ p.py = paper.py - 1 /\ Top(p) = Top(paper)
        /\ Shown(cells, p)
    <3>1. PICK a, old : a = Width - 1 /\ old = paper
      OBVIOUS
    <3>2. p = Lifted(old, a)
      BY <2>1, <3>1 DEF Lifted
    <3>3. PaperOK(old) /\ old.py > Top(old) + 1 /\ a \in 0 .. (Width - 1)
      BY <1>1, <2>2, <3>1
    <3>4. /\ PaperOK(p) /\ p.px = a /\ p.py = old.py - 1 /\ Top(p) = Top(old)
          /\ \A cs : Shown(cs, old) => Shown(cs, p)
      BY <3>2, <3>3, PenUp
    <3> QED
      BY <1>1, <3>1, <3>4
  <2>4. ~(paper.px > 0)
    BY <1>1, <1>5
  <2>5. paper' = Mark(p, Blank)
    BY <1>3, <2>1, <2>2, <2>4
  <2>6. cells' = Write(y - 1, p.px, Blank) /\ x' = p.px /\ y' = y - 1
    BY <1>1, <1>2, <1>5, <2>3
  <2>7. y - 1 \in Nat /\ (y - 1) + Top(p) + 1 = p.py
    BY <1>1, <1>5, <2>3
  <2>8. PICK r : r = y - 1
    OBVIOUS
  <2> QED
    BY <1>1, <2>3, <2>5, <2>6, <2>7, <2>8, EraseShown
<1>6. CASE x = 0 /\ y = 0
  <2>1. ~(paper.px > 0) /\ ~(paper.py > Top(paper) + 1)
    BY <1>1, <1>6
  <2>2. paper' = paper /\ x' = x /\ y' = y /\ cells' = cells
    BY <1>2, <1>3, <1>6, <2>1
  <2> QED
    BY <1>1, <2>2, SteadyNext
<1> QED
  BY <1>1, <1>4, <1>5, <1>6

LEMMA PutDelete ==
  ASSUME Steady, Put("DEL"), paper' = OnPaper(paper, "DEL")
  PROVE  Steady'
<1>1. /\ cells \in Screens /\ PaperOK(paper) /\ y \in Nat /\ x = paper.px
      /\ Shown(cells, paper) /\ y + Top(paper) + 1 = paper.py
  BY SteadyFacts, Sizes
<1>2. cells' = Write(y, paper.px, Blank) /\ x' = paper.px /\ y' = y
  BY <1>1 DEF Put, Controls
<1>3. paper' = Mark(paper, Blank)
  BY DEF OnPaper
<1>4. PICK p : p = paper
  OBVIOUS
<1> QED
  BY <1>1, <1>2, <1>3, <1>4, EraseShown

\* The first half of putchar, for every character.
LEMMA PutShown ==
  ASSUME Steady, NEW c \in Chars, Put(c), paper' = OnPaper(paper, c)
  PROVE  /\ Wraps(c) => Between(c)'
         /\ ~Wraps(c) => Steady'
<1>1. CASE c = "\n"
  <2>1. Wraps(c) /\ Between(c)'
    BY <1>1, PutNewline DEF Wraps
  <2> QED
    BY <2>1
<1>2. CASE c \notin Controls
  <2>1. Wraps(c) /\ Between(c)'
    BY <1>2, PutOrdinary DEF Wraps
  <2> QED
    BY <2>1
<1>3. CASE c \in Controls \ {"\n"}
  <2>1. ~Wraps(c)
    BY <1>3 DEF Wraps
  <2>2. CASE c = "ESC"
    <3>1. UNCHANGED <<x, y, cells, paper>>
      BY <2>2 DEF Put, OnPaper, Controls
    <3> QED
      BY <2>1, <3>1 DEF Steady, Typed, Shows
  <2>3. c \in {"\r", "\t", "BS", "DEL", "ESC"}
    BY <1>3 DEF Controls
  <2>4. Steady'
    BY <2>1, <2>2, <2>3, PutReturn, PutTab, PutErase, PutDelete
  <2> QED
    BY <2>1, <2>4
<1> QED
  BY <1>1, <1>2, <1>3

\* The second half does what Settled looks ahead to.
LEMMA WrapShown ==
  ASSUME NEW c, Between(c), Wrap(c), UNCHANGED paper
  PROVE  Steady'
<1>1. /\ cells \in Screens /\ PaperOK(paper) /\ x \in Nat /\ y \in Nat
  BY DEF Between, Typed
<1>2. Row(c) \in Nat
  BY <1>1 DEF Row
<1>3. PICK r, cs : r = Row(c) /\ cs = Scrolled(cells)
  OBVIOUS
<1>4. cs \in Screens
  BY <1>1, <1>3, BlankIsRow, Sizes DEF Scrolled, Screens
<1>5. x' \in Nat /\ x' = paper.px
  BY <1>1, Sizes DEF Wrap, Between, Settled
<1>6. CASE r >= Height
  <2>1. cells' = cs /\ y' = r - 1
    BY <1>1, <1>2, <1>3, <1>6, Sizes DEF Wrap, scroll, Scrolled
  <2>2. Shown(cs, paper) /\ (r - 1) + Top(paper) + 1 = paper.py
    BY <1>3, <1>6 DEF Between, Settled
  <2>3. r - 1 \in Nat
    BY <1>2, <1>3, <1>6, Sizes
  <2> QED
    BY <1>1, <1>4, <1>5, <2>1, <2>2, <2>3, SteadyNext
<1>7. CASE ~(r >= Height)
  <2>1. cells' = cells /\ y' = r
    BY <1>1, <1>2, <1>3, <1>7, Sizes DEF Wrap
  <2>2. Shown(cells, paper) /\ r + Top(paper) + 1 = paper.py
    BY <1>3, <1>7 DEF Between, Settled
  <2> QED
    BY <1>1, <1>2, <1>3, <1>5, <2>1, <2>2, SteadyNext
<1> QED
  BY <1>6, <1>7

\* boot_setup's reset.
LEMMA ResetShown ==
  ASSUME Steady, reset, paper' = Cleared(paper)
  PROVE  Steady'
<1>1. /\ cells \in Screens /\ PaperOK(paper) /\ y \in Nat /\ x \in Nat
      /\ x \in 0 .. (Width - 1) /\ x = paper.px /\ Top(paper) \in Nat
      /\ Shown(cells, paper) /\ y + Top(paper) + 1 = paper.py
  BY SteadyFacts, Sizes
<1>2. x' = x /\ y' = y /\ cells' = BlankScreen
  BY DEF reset, clear
<1>3. PICK n, ls : n = Len(paper.lines)
        /\ ls = [i \in DOMAIN paper.lines |->
                    IF i > Top(paper) THEN BlankRow ELSE paper.lines[i]]
  OBVIOUS
<1>4. /\ n \in Nat /\ DOMAIN paper.lines = 1 .. n /\ paper.lines \in Seq(Rows)
      /\ \A i \in 1 .. n : paper.lines[i] \in Rows
  BY <1>1, <1>3, Window
<1>5. ls \in Seq(Rows) /\ Len(ls) = n /\ DOMAIN ls = 1 .. n
  <2>1. ls \in [1 .. n -> Rows]
    BY <1>3, <1>4, BlankIsRow
  <2> QED
    BY <1>4, <2>1
<1>6. \A i \in 1 .. n : i > Top(paper) => ls[i] = BlankRow
  BY <1>3, <1>4
<1>7. PICK q : q = [paper EXCEPT !.lines = ls]
  OBVIOUS
<1>8. paper' = q
  BY <1>3, <1>7 DEF Cleared
<1>9. q \in Papers /\ q.lines = ls /\ q.px = paper.px /\ q.py = paper.py
  BY <1>1, <1>5, <1>7 DEF PaperOK, Papers
<1>10. Top(q) = Top(paper)
  BY <1>3, <1>5, <1>9 DEF Top
<1>11. PaperOK(q)
  BY <1>1, <1>3, <1>5, <1>9, <1>10 DEF PaperOK
<1>12. ASSUME NEW i \in 0 .. (Height - 1) PROVE BlankScreen[i] = Line(q, i)
  <2>1. Top(paper) + i + 1 > Top(paper)
    BY <1>1, Sizes
  <2>2. Line(q, i) = BlankRow
    BY <1>5, <1>6, <1>9, <1>10, <2>1 DEF Line
  <2> QED
    BY <2>2 DEF BlankScreen
<1>13. BlankScreen \in Screens
  BY BlankIsRow DEF BlankScreen, Screens
<1> QED
  BY <1>1, <1>2, <1>8, <1>9, <1>10, <1>11, <1>12, <1>13, SteadyNext DEF Shown

LEMMA InitShown == TerminalInit => Steady
<1> SUFFICES ASSUME TerminalInit PROVE Steady
  OBVIOUS
<1>1. /\ cells = BlankScreen /\ x = 0 /\ y = 0
      /\ paper = [lines |-> <<BlankRow>>, px |-> 0, py |-> 1]
  BY DEF TerminalInit
<1>2. paper.lines = <<BlankRow>> /\ paper.px = 0 /\ paper.py = 1
  BY <1>1
<1>3. /\ <<BlankRow>> \in Seq(Rows) /\ Len(<<BlankRow>>) = 1
      /\ DOMAIN <<BlankRow>> = 1 .. 1 /\ <<BlankRow>>[1] = BlankRow
  BY BlankIsRow
<1>4. Top(paper) = 0
  BY <1>2, <1>3, Sizes DEF Top
<1>5. paper \in Papers
  BY <1>1, <1>3, Sizes DEF Papers
<1>6. PaperOK(paper)
  BY <1>2, <1>3, <1>4, <1>5 DEF PaperOK
<1>7. BlankScreen \in Screens
  BY BlankIsRow DEF BlankScreen, Screens
<1>8. ASSUME NEW i \in 0 .. (Height - 1) PROVE BlankScreen[i] = Line(paper, i)
  <2>1. Line(paper, i) = BlankRow
    BY <1>2, <1>3, <1>4, Sizes DEF Line
  <2> QED
    BY <2>1 DEF BlankScreen
<1>9. Shows
  BY <1>1, <1>2, <1>4, <1>8, ShowsIsShown DEF Shown
<1> QED
  BY <1>1, <1>6, <1>7, <1>9 DEF Steady, Typed

=============================================================================

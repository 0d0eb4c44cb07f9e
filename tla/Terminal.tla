------------------------------ MODULE Terminal ------------------------------
(***************************************************************************)
(* The VGA text terminal (kernel/drivers/vga/vga.cpp), and the endless     *)
(* roll of paper it is meant to show the last rows of.                     *)
(*                                                                         *)
(* putchar is two steps, because its callers may be interrupted inside it: *)
(* the character with the move of the cursor, then the test whether the    *)
(* cursor left the row or the screen.  Colours are left out: a blank is    *)
(* what clear and scroll write and what erasing a character leaves.        *)
(***************************************************************************)
EXTENDS Naturals, Sequences

CONSTANTS
    Width, Height,  \* VGA_TEXT_WIDTH, VGA_TEXT_HEIGHT
    TabStop,        \* TABSTOP
    Chars           \* the characters there are

ASSUME SizeAssumption == {Width, Height, TabStop} \subseteq Nat \ {0}
ASSUME TabAssumption == Width % TabStop = 0  \* a static_assert

VARIABLES
    cells,  \* vga_hardware_mem: row |-> column |-> character, from 0
    x, y,   \* the cursor
    paper   \* [lines, px, py]: all that was ever written, never scrolled

terminal_vars == <<cells, x, y, paper>>

Blank == " "
BlankRow == [j \in 0 .. (Width - 1) |-> Blank]
BlankScreen == [i \in 0 .. (Height - 1) |-> BlankRow]

\* The characters putchar gives a meaning.  Every other control character is
\* written like an ordinary one.
Controls == {"\n", "\r", "\t", "BS", "DEL", "ESC"}
ASSUME CharsAssumption == Controls \cup {Blank} \subseteq Chars

\* vga_hardware_mem[row * Width + column] = c; a column behind the row is the
\* next row's, and behind the last row nothing that is shown.
Write(row, column, c) ==
    LET at == row * Width + column
    IN  IF at >= Width * Height THEN cells
        ELSE [cells EXCEPT ![at \div Width][at % Width] = c]

clear == cells' = BlankScreen

reset == clear /\ UNCHANGED <<x, y>>

\* As scroll below, except that the last row stays as it is.
scroll_keeps ==
    cells' = [i \in DOMAIN cells |->
                IF i = Height - 1 THEN cells[i] ELSE cells[i + 1]]

scroll ==
    cells' = [i \in DOMAIN cells |->
                IF i = Height - 1 THEN BlankRow ELSE cells[i + 1]]

\* The first half of putchar.
Put(c) ==
    \/ c = "\n" /\ x' = 0 /\ y' = y + 1 /\ UNCHANGED cells
    \/ c = "\r" /\ x' = 0 /\ UNCHANGED <<y, cells>>
    \/ /\ c = "\t"
       /\ LET stop == x + TabStop - (x % TabStop)
          IN  x' = IF stop >= Width THEN Width - 1 ELSE stop
       /\ UNCHANGED <<y, cells>>
    \/ /\ c = "BS" /\ x > 0
       /\ x' = x - 1
       /\ cells' = Write(y, x - 1, Blank)
       /\ UNCHANGED y
    \/ /\ c = "BS" /\ x = 0 /\ y > 0
       /\ y' = y - 1
       /\ x' = Width - 1
       /\ cells' = Write(y - 1, Width - 1, Blank)
    \/ c = "BS" /\ x = 0 /\ y = 0 /\ UNCHANGED <<x, y, cells>>
    \/ c = "DEL" /\ cells' = Write(y, x, Blank) /\ UNCHANGED <<x, y>>
    \/ c = "ESC" /\ UNCHANGED <<x, y, cells>>
    \/ c \notin Controls /\ cells' = Write(y, x, c) /\ x' = x + 1 /\ UNCHANGED y

\* The second half, for a newline and for an ordinary character; the others
\* are done.
Wraps(c) == c = "\n" \/ c \notin Controls
Row(c) == IF c # "\n" /\ x >= Width THEN y + 1 ELSE y
Wrap(c) ==
    /\ x' = IF c # "\n" /\ x >= Width THEN 0 ELSE x
    /\ \/ Row(c) >= Height /\ scroll /\ y' = Row(c) - 1
       \/ Row(c) < Height /\ UNCHANGED cells /\ y' = Row(c)

-----------------------------------------------------------------------------
(* The paper.  Its window is the last Height lines.                        *)

Top(p) == IF Len(p.lines) > Height THEN Len(p.lines) - Height ELSE 0

NextLine(p) ==
    [lines |-> IF p.py = Len(p.lines) THEN Append(p.lines, BlankRow) ELSE p.lines,
     px |-> 0, py |-> p.py + 1]

Mark(p, c) == [p EXCEPT !.lines[p.py][p.px] = c]

\* What a character does to the paper.
OnPaper(p, c) ==
    CASE c = "\n" -> NextLine(p)
      [] c = "\r" -> [p EXCEPT !.px = 0]
      [] c = "\t" ->
           LET stops == {s \in (p.px + 1) .. (Width - 1) : s % TabStop = 0}
           IN  [p EXCEPT !.px = IF stops = {} THEN Width - 1
                                ELSE CHOOSE s \in stops : \A t \in stops : s <= t]
      [] c = "BS" ->
           IF p.px > 0 THEN Mark([p EXCEPT !.px = @ - 1], Blank)
           ELSE IF p.py > Top(p) + 1
           THEN Mark([p EXCEPT !.py = @ - 1, !.px = Width - 1], Blank)
           ELSE p
      [] c = "DEL" -> Mark(p, Blank)
      [] c = "ESC" -> p
      [] OTHER ->
           IF p.px = Width - 1 THEN NextLine(Mark(p, c))
           ELSE [Mark(p, c) EXCEPT !.px = @ + 1]

\* A cleared screen is paper whose lines in the window are blank again.
Cleared(p) ==
    [p EXCEPT !.lines = [i \in DOMAIN p.lines |->
                           IF i > Top(p) THEN BlankRow ELSE p.lines[i]]]

\* The screen shows the window of the paper, and the cursor stands where the
\* pen does.
Shows ==
    LET line(i) == IF Top(paper) + i + 1 \in DOMAIN paper.lines
                   THEN paper.lines[Top(paper) + i + 1] ELSE BlankRow
    IN  /\ \A i \in 0 .. (Height - 1) : cells[i] = line(i)
        /\ x = paper.px
        /\ y + Top(paper) + 1 = paper.py

TerminalInit ==
    /\ cells = BlankScreen
    /\ x = 0 /\ y = 0
    /\ paper = [lines |-> <<BlankRow>>, px |-> 0, py |-> 1]

=============================================================================

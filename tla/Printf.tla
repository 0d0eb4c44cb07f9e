------------------------------- MODULE Printf -------------------------------
(***************************************************************************)
(* vprintf (libc/stdio/printf.cpp): one step per turn of its main loop.    *)
(*                                                                         *)
(* A format is a sequence of characters, NUL behind its end.  What a       *)
(* conversion writes is not told apart character by character: a cell of   *)
(* intStrBuf holds the place in the format of the conversion that wrote    *)
(* it, 0 for a null, and a conversion that reads an argument is known by   *)
(* the 32-bit words it takes.  min_width, width, length and intStrBuf live *)
(* across conversions; the flags are reset for each one.                   *)
(***************************************************************************)
EXTENDS Numbers, FiniteSetsExt

CONSTANTS
    BufSize,    \* sizeof(intStrBuf)
    IntMax,     \* INT_MAX
    StrLens     \* lengths of the strings %s is given

\* The longest number, its sign or prefix included, fits intStrBuf with its null.
ASSUME PrintfAssumption ==
    /\ IntMax \in Nat /\ BufSize \in Nat /\ StrLens \subseteq Nat
    /\ BufDigits + 2 < BufSize

VARIABLES
    format,     \* the format
    pos,        \* the character format points to
    written,    \* the value to return, -1 when it would overflow
    min_width,
    width,
    length,     \* "H", "q", "L", "j", "z", "t", or NUL for none
    buf,        \* intStrBuf
    words,      \* 32-bit words of the arguments read so far
    named,      \* words C's printf takes for the conversions made so far
    odd,        \* what the conversions so far had that the code does not know:
                \* "single" (h or l by itself), "L", or another "specifier"
    out,        \* what was put: [by, cell]
    ppc         \* "loop", "return", or "overrun" once a string has been copied
                \* beyond intStrBuf: nothing is known of what follows

printf_vars == <<format, pos, written, min_width, width, length, buf, words,
                 named, odd, out, ppc>>

NUL == "NUL"
At(i) == IF i <= Len(format) THEN format[i] ELSE NUL

\* Where a scan that starts at i leaves the characters of a set.
Behind(i, chars) == Min({j \in i .. (Len(format) + 1) : At(j) \notin chars})

CallVprintf(f) ==
    /\ format = f
    /\ pos = 1
    /\ written = 0
    /\ min_width = 0
    /\ width = 0
    /\ length = NUL
    /\ buf = [i \in 1 .. BufSize |-> 0]
    /\ words = 0
    /\ named = 0
    /\ odd = {}
    /\ out = << >>
    /\ ppc = "loop"

-----------------------------------------------------------------------------
(* Text.                                                                   *)

Overflow ==
    /\ written' = -1
    /\ ppc' = "return"

\* A run of ordinary characters; %% is a run that starts with its second %.
Literal ==
    LET start == IF At(pos) = "%" THEN pos + 1 ELSE pos
        stop == Min({j \in (start + 1) .. (Len(format) + 1) : At(j) \in {NUL, "%"}})
    IN  /\ ppc = "loop"
        /\ At(pos) # NUL
        /\ At(pos) = "%" => At(pos + 1) = "%"
        /\ \/ /\ IntMax - written < stop - start
              /\ Overflow
              /\ UNCHANGED <<pos, out>>
           \/ /\ IntMax - written >= stop - start
              /\ out' = out \o [i \in 1 .. (stop - start) |-> [by |-> pos, cell |-> pos]]
              /\ pos' = stop
              /\ written' = written + (stop - start)
              /\ UNCHANGED ppc
        /\ UNCHANGED <<format, min_width, width, length, buf, words, named, odd>>

Return ==
    /\ ppc = "loop"
    /\ At(pos) = NUL
    /\ ppc' = "return"
    /\ UNCHANGED <<format, pos, written, min_width, width, length, buf, words,
                   named, odd, out>>

-----------------------------------------------------------------------------
(* The parts of a conversion.                                              *)

Flags == {"#", "0", "-", "+"}

\* isdigit knows neither '0' nor '9'.
DigitValue == [c \in {"1", "2", "3", "4", "5", "6", "7", "8"} |->
                 CASE c = "1" -> 1 [] c = "2" -> 2 [] c = "3" -> 3 [] c = "4" -> 4
                   [] c = "5" -> 5 [] c = "6" -> 6 [] c = "7" -> 7 [] c = "8" -> 8]

\* The width read from the digits at first .. last, added to what the
\* conversions before have left in min_width.
WidthAt(first, last) ==
    LET width_at[i \in (first - 1) .. last] ==
            IF i < first THEN min_width
            ELSE 10 * width_at[i - 1] + DigitValue[At(i)]
    IN  width_at[last]

\* As Modifier below, except that no modifier leaves the length as it was.
Modifier_no_reset(i) ==
    LET c == At(i)
        twice == At(i + 1) = c
    IN  CASE c \in {"h", "l"} /\ ~twice ->
                [last |-> i, length |-> length, odd |-> {"single"}]
          [] c = "h" /\ twice -> [last |-> i + 1, length |-> "H", odd |-> {}]
          [] c = "l" /\ twice -> [last |-> i + 1, length |-> "q", odd |-> {}]
          [] c \in {"L", "j", "z", "t"} ->
                [last |-> i, length |-> c, odd |-> {"L"} \cap {c}]
          [] OTHER -> [last |-> i - 1, length |-> length, odd |-> {}]

\* The length modifier at i: its last character, and the length it sets.  A
\* single h or l sets none, so that the one of the conversion before stays.
Modifier(i) ==
    LET c == At(i)
        twice == At(i + 1) = c
    IN  CASE c \in {"h", "l"} /\ ~twice ->
                [last |-> i, length |-> length, odd |-> {"single"}]
          [] c = "h" /\ twice -> [last |-> i + 1, length |-> "H", odd |-> {}]
          [] c = "l" /\ twice -> [last |-> i + 1, length |-> "q", odd |-> {}]
          [] c \in {"L", "j", "z", "t"} ->
                [last |-> i, length |-> c, odd |-> {"L"} \cap {c}]
          [] OTHER -> [last |-> i - 1, length |-> NUL, odd |-> {}]

\* The 32-bit words C's printf takes for a conversion: not in the code.
NamedWords(modifier, specifier) ==
    IF specifier \notin {"c", "s", "p"} /\ modifier \in {<<"l", "l">>, <<"j">>}
    THEN 2 ELSE 1

\* What the scan of the conversion at pos finds.
Directive ==
    LET flags_end == Behind(pos + 1, Flags)
        width_end == Behind(flags_end, DOMAIN DigitValue)
        modifier == Modifier(width_end)
        specifier == At(modifier.last + 1)
        has(f) == \E i \in (pos + 1) .. (flags_end - 1) : At(i) = f
    IN  [alt |-> has("#"), plus |-> has("+"),
         min_width |-> WidthAt(flags_end, width_end - 1),
         length |-> modifier.length,
         odd |-> modifier.odd,
         specifier |-> specifier,
         next |-> modifier.last + 2,
         words |-> NamedWords(SubSeq(format, width_end, modifier.last), specifier)]

-----------------------------------------------------------------------------
(* Numbers: the length of sign or prefix, the number of digits (none if no *)
(* case of the switch is taken) and the words of the argument.             *)

Number(prefix, len) ==
    IF len = "L" THEN [prefix |-> prefix, digits |-> 0, words |-> 0]
    ELSE [prefix |-> prefix, digits |-> BufDigits,
          words |-> IF len \in {"q", "j"} THEN 2 ELSE 1]

One(b) == IF b THEN 1 ELSE 0

\* %d and %i: size_t has no sign to show.
Signed(d, negative) ==
    Number(One(d.length # "L" /\ (d.plus \/ (negative /\ d.length # "z"))), d.length)
Octal(d) == Number(One(d.alt), d.length)
Unsigned(d) == Number(One(d.length # "L" /\ d.plus), d.length)
\* %x and %X.
Hex(d) == Number(2 * One(d.alt), d.length)
Binary(d) == Number(2 * One(d.alt), d.length)
\* %p reads an unsigned long whatever the length.
Pointer(d) == Number(2 * One(~d.alt), NUL)

IntegerSpecifiers == {"d", "i", "o", "u", "x", "X", "b", "p"}

ConvertNumber(d, negative) ==
    CASE d.specifier \in {"d", "i"} -> Signed(d, negative)
      [] d.specifier = "o" -> Octal(d)
      [] d.specifier = "u" -> Unsigned(d)
      [] d.specifier \in {"x", "X"} -> Hex(d)
      [] d.specifier = "b" -> Binary(d)
      [] d.specifier = "p" -> Pointer(d)

-----------------------------------------------------------------------------
(* Writing what a conversion has put into the buffer.                      *)

strlen(b, i) == Min({j \in i .. BufSize : b[j] = 0}) - i

\* The buffer with its first cells written, and a null behind them or not.
Fill(cells, terminated) ==
    [i \in 1 .. BufSize |->
       IF i <= cells THEN pos ELSE IF i = cells + 1 /\ terminated THEN 0 ELSE buf[i]]

Cells(by, cells) == [i \in DOMAIN cells |-> [by |-> by, cell |-> cells[i]]]

\* Padding, which does not count, and then the buffer.
Write(d) ==
    LET padding == [i \in 1 .. Max({0, d.min_width - width'}) |-> pos]
        text == SubSeq(buf', 1, strlen(buf', 1))
    IN  /\ min_width' = d.min_width
        /\ length' = d.length
        /\ named' = named + d.words
        /\ odd' = odd \cup d.odd
        /\ \/ /\ IntMax - written < Len(text)
              /\ Overflow
              /\ out' = out \o Cells(pos, padding)
              /\ UNCHANGED pos
           \/ /\ IntMax - written >= Len(text)
              /\ out' = out \o Cells(pos, padding \o text)
              /\ written' = written + Len(text)
              /\ pos' = d.next
              /\ UNCHANGED ppc
        /\ UNCHANGED format

\* %c puts a character in front of what the buffer holds.
Character(d) ==
    /\ d.specifier = "c"
    /\ buf' = Fill(1, FALSE)
    /\ words' = words + 1
    /\ UNCHANGED width
    /\ Write(d)

\* As String below, except that the null is not copied.
String_no_null(d) ==
    /\ d.specifier = "s"
    /\ \E chars \in StrLens : chars < BufSize /\ buf' = Fill(chars, FALSE)
    /\ words' = words + 1
    /\ UNCHANGED width
    /\ Write(d)

String(d) ==
    /\ d.specifier = "s"
    /\ \E chars \in StrLens : chars < BufSize /\ buf' = Fill(chars, TRUE)
    /\ words' = words + 1
    /\ UNCHANGED width
    /\ Write(d)

\* strcpy does not look at the room: a string that does not fit with its null
\* is written on behind the buffer.
StringOverrun(d) ==
    /\ d.specifier = "s"
    /\ \E chars \in StrLens : chars >= BufSize
    /\ ppc' = "overrun"
    /\ UNCHANGED <<format, pos, written, min_width, width, length, buf, words,
                   named, odd, out>>

\* The width of a number is measured behind its sign or prefix.
Integer(d) ==
    /\ d.specifier \in IntegerSpecifiers
    /\ \E negative \in BOOLEAN :
          LET number == ConvertNumber(d, negative)
          IN  /\ buf' = Fill(number.prefix + number.digits, number.digits # 0)
              /\ width' = strlen(buf', number.prefix + 1)
              /\ words' = words + number.words
    /\ Write(d)

Supported == {"c", "s"} \cup IntegerSpecifiers

\* Bug: the percent that was found is looked at again.
Unsupported_stays(d) ==
    /\ d.specifier \notin Supported
    /\ out' = Append(out, [by |-> pos, cell |-> pos])
    /\ written' = written + 1
    /\ pos' = IF d.specifier = "%" THEN d.next - 1 ELSE pos
    /\ min_width' = d.min_width
    /\ length' = d.length
    /\ odd' = odd \cup d.odd \cup {"specifier"}
    /\ UNCHANGED <<format, width, buf, words, named, ppc>>

\* Anything else: back to the nearest %, which is shown as it is, and on behind
\* it.  That is the specifier itself if it is a %, or else the one we started at.
Unsupported(d) ==
    /\ d.specifier \notin Supported
    /\ out' = Append(out, [by |-> pos, cell |-> pos])
    /\ written' = written + 1
    /\ pos' = IF d.specifier = "%" THEN d.next ELSE pos + 1
    /\ min_width' = d.min_width
    /\ length' = d.length
    /\ odd' = odd \cup d.odd \cup {"specifier"}
    /\ UNCHANGED <<format, width, buf, words, named, ppc>>

Conversion ==
    /\ ppc = "loop"
    /\ At(pos) = "%"
    /\ At(pos + 1) # "%"
    /\ \E d \in {Directive} :
          \/ Character(d) \/ String(d) \/ StringOverrun(d) \/ Integer(d)
          \/ Unsupported(d)

Vprintf == Literal \/ Return \/ Conversion

=============================================================================

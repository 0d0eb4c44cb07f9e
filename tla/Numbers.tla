------------------------------- MODULE Numbers ------------------------------
(***************************************************************************)
(* Writing numbers: ntostr and its wrappers (libFeline/src/string/         *)
(* itostr.cpp, feline/str.h) and the signed conversions of feline/logger.h.*)
(*                                                                         *)
(* unsigned long long arithmetic wraps at WordSize, an int has IntSize     *)
(* values.  A character is its code.                                       *)
(***************************************************************************)
EXTENDS Integers, Sequences

CONSTANTS
    WordSize,  \* 2^64
    IntSize,   \* 2^32
    BufDigits, \* digits the char[17] version of ntostr writes: 16
    Bases,     \* the bases of xtostr, itostr, otostr and btostr
    Widths     \* minimal widths asked for

ASSUME NumbersAssumption ==
    /\ WordSize \in Nat \ {0} /\ IntSize \in 2 .. WordSize /\ BufDigits \in Nat \ {0}
    /\ Bases \subseteq 2 .. 16 /\ Widths \subseteq Nat \ {0}

VARIABLES
    args,     \* the call: [value, num, base, min_width]
    n,        \* the first loop's power of base
    str_len,
    todivby,
    offset,
    str,      \* the KString, as character codes
    npc       \* "count", "fill", "done", or "fault" after a division by zero

ntostr_vars == <<args, n, str_len, todivby, offset, str, npc>>

Digit(d) == 48 + d  \* d + '0'

-----------------------------------------------------------------------------
(* Signed numbers.                                                         *)

\* abs is j > 0 ? j : -j, which leaves the smallest int as it is, and
\* static_cast<uintmax_t> makes a large number of it.
abs(i) == IF i = -(IntSize \div 2) THEN i ELSE IF i > 0 THEN i ELSE -i

\* SIGNED_CONV writes the sign and converts this.
Magnitude(i) == IF abs(i) < 0 THEN WordSize + abs(i) ELSE abs(i)

-----------------------------------------------------------------------------
(* KString ntostr(num, base, min_width), loop by loop.                     *)

\* A call: nothing is written yet, except that zero is written as such.
CallNtostr(value, num, base, min_width) ==
    /\ args = [value |-> value, num |-> num, base |-> base, min_width |-> min_width]
    /\ n = 1
    /\ str_len = 0
    /\ todivby = 1
    /\ offset = 0
    /\ str = IF num = 0 THEN [i \in 1 .. min_width |-> Digit(0)] ELSE << >>
    /\ npc = IF num = 0 THEN "done" ELSE "count"

\* Bug: the power is kept in an int.
CountDigit_int ==
    /\ npc = "count"
    /\ n <= args.num
    /\ n' = (n * args.base) % IntSize
    /\ str_len' = IF n = 0 THEN str_len ELSE str_len + 1
    /\ UNCHANGED <<args, todivby, offset, str, npc>>

\* One more digit for each power of base up to num.  A power that has wrapped
\* to 0 stays there: the loop never ends, and only the count would go on.
CountDigit ==
    /\ npc = "count"
    /\ n <= args.num
    /\ n' = (n * args.base) % WordSize
    /\ str_len' = IF n = 0 THEN str_len ELSE str_len + 1
    /\ UNCHANGED <<args, todivby, offset, str, npc>>

CountDone ==
    /\ npc = "count"
    /\ n > args.num
    /\ str_len' = IF str_len < args.min_width THEN args.min_width ELSE str_len
    /\ str' = [i \in 1 .. str_len' |-> 0]
    /\ offset' = str_len'
    /\ npc' = "fill"
    /\ UNCHANGED <<args, n, todivby>>

\* Right to left, one digit at a time.
FillDigit ==
    /\ npc = "fill"
    /\ offset > 0
    /\ IF todivby = 0
       THEN npc' = "fault" /\ UNCHANGED <<str, todivby, offset>>
       ELSE /\ str' = [str EXCEPT ![offset] =
                         Digit((args.num \div todivby) % args.base)]
            /\ todivby' = (todivby * args.base) % WordSize
            /\ offset' = offset - 1
            /\ UNCHANGED npc
    /\ UNCHANGED <<args, n, str_len>>

FillDone ==
    /\ npc = "fill"
    /\ offset = 0
    /\ npc' = "done"
    /\ UNCHANGED <<args, n, str_len, todivby, offset, str>>

Ntostr == CountDigit \/ CountDone \/ FillDigit \/ FillDone

-----------------------------------------------------------------------------
(* Letters, and the version for a buffer.                                  *)

\* Bug: the distance to the letters is one too large.
ToLetter_off(c, upper) == IF c > 57 THEN c + (IF upper THEN 8 ELSE 40) ELSE c

\* Behind '9' the codes are moved on to 'A' or to 'a'.
ToLetter(c, upper) == IF c > 57 THEN c + (IF upper THEN 7 ELSE 39) ELSE c

xtostr(s, upper) == [i \in DOMAIN s |-> ToLetter(s[i], upper)]

\* int ntostr(num, char str[17], base): all the digits the buffer has room for.
Power(base, k) ==
    LET power[i \in 0 .. k] == IF i = 0 THEN 1 ELSE (power[i - 1] * base) % WordSize
    IN  power[k]

ntostr_buf(num, base) ==
    [i \in 1 .. BufDigits |->
       Digit((num \div Power(base, BufDigits - i)) % base)]

=============================================================================

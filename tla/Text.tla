-------------------------------- MODULE Text --------------------------------
(***************************************************************************)
(* One call of the formatting code: vprintf with some format, or ntostr    *)
(* with some number, as hex, dec, bin and the logger use it.               *)
(***************************************************************************)
EXTENDS Printf

CONSTANTS
    Formats,  \* the formats vprintf is called with
    Numbers,  \* numbers converted: 0 .. WordSize - 1, or a part of it
    MaxPower  \* bits of a number: 64

\* A null ends a format and is not in it.
ASSUME FormatsAssumption ==
    \A f \in Formats : f \in Seq(STRING) /\ \A i \in DOMAIN f : f[i] # NUL

ASSUME MaxPowerAssumption == MaxPower \in Nat /\ WordSize <= 2 ^ MaxPower

vars == <<ntostr_vars, printf_vars>>

Ints == (-(IntSize \div 2)) .. ((IntSize \div 2) - 1)

Init ==
    \/ /\ \E f \in Formats : CallVprintf(f)
       /\ CallNtostr(0, 0, 10, 1)
    \/ /\ \E num \in Numbers, base \in Bases, least \in Widths :
             CallNtostr(num, num, base, least)
       /\ CallVprintf(<< >>)
    \/ /\ \E i \in Ints, base \in Bases : CallNtostr(i, Magnitude(i), base, 1)
       /\ CallVprintf(<< >>)

\* A call that has returned, or one that was cut short: by a division by zero,
\* or by what a string copied beyond its buffer has destroyed.
Finished ==
    /\ ppc \in {"return", "overrun"}
    /\ npc \in {"done", "fault"}
    /\ UNCHANGED vars

Next ==
    \/ Vprintf /\ UNCHANGED ntostr_vars
    \/ Ntostr /\ UNCHANGED printf_vars
    \/ Finished

Spec == Init /\ [][Next]_vars

\* Nothing interrupts a loop for good: a call goes on until it returns.
FairSpec == Spec /\ WF_vars(Vprintf /\ UNCHANGED ntostr_vars)
                 /\ WF_vars(Ntostr /\ UNCHANGED printf_vars)

-----------------------------------------------------------------------------
(* vprintf.                                                                *)

\* Each turn of the loop moves on in the format or leaves the loop, the turns
\* that rewind to the nearest percent of an unsupported conversion included, so
\* vprintf ends.
Advances == [][pos' > pos \/ ppc' # "loop"]_printf_vars

\* As long as every conversion met is one the code knows, va_arg has been called
\* for the arguments C's printf takes for them, 64-bit ones included, whatever
\* lengths and widths earlier conversions have left behind: no conversion reads a
\* part of somebody else's argument.
ArgumentsInStep == odd = {} => words = named

IsCharacter(by) ==
    At(Behind(by + 1, Flags \cup DOMAIN DigitValue \cup {"h", "l", "j", "z", "t"})) = "c"

\* A conversion other than %c shows what it has written itself, although the
\* buffer still holds what earlier ones have left, unless a modifier without a
\* meaning (h, l, L) was used.
ShowsItsOwn ==
    odd \subseteq {"specifier"} =>
       \A i \in DOMAIN out : out[i].cell # out[i].by => IsCharacter(out[i].by)

-----------------------------------------------------------------------------
(* ntostr.                                                                 *)

DigitCodes == [d \in 0 .. 15 |-> IF d < 10 THEN 48 + d ELSE 65 + d - 10]
ValueOf(code) == CHOOSE d \in 0 .. 15 : DigitCodes[d] = code
IsDigit(code, base) == \E d \in 0 .. (base - 1) : DigitCodes[d] = code

ReadBack(s, base) ==
    LET read[i \in 0 .. Len(s)] ==
            IF i = 0 THEN 0 ELSE base * read[i - 1] + ValueOf(s[i])
    IN  read[Len(s)]

\* str holds the number's magnitude (the caller writes the sign), with no digit
\* too many or too few, and its letters are letters.
WellWritten ==
    LET s == xtostr(str, TRUE)
    IN  /\ \A i \in DOMAIN s : IsDigit(s[i], args.base)
        /\ ReadBack(s, args.base) = IF args.value < 0 THEN -args.value ELSE args.value
        /\ Len(s) >= args.min_width
        /\ Len(s) > args.min_width => s[1] # DigitCodes[0]

\* The largest power of a base below WordSize.
LargestPower(base) ==
    LET power[k \in 0 .. MaxPower] ==
            IF k = 0 THEN 1
            ELSE IF power[k - 1] * base < WordSize THEN power[k - 1] * base
                                                   ELSE power[k - 1]
    IN  power[MaxPower]

\* No power of the base that ntostr computes has wrapped before it is used.
PowersFit ==
    /\ args.num < LargestPower(args.base)
    /\ args.base ^ (args.min_width - 1) < WordSize

\* The call is one of ntostr.
Converting == format = << >>

\* A finished conversion of a number below the largest power of its base reads
\* back as that number.  The version for a buffer of 17 characters keeps the low
\* digits of every number, and never divides by a power that has wrapped to zero.
NumberWritten ==
    Converting =>
        /\ npc = "done" /\ PowersFit => WellWritten
        /\ Power(args.base, BufDigits - 1) # 0
        /\ ReadBack(xtostr(ntostr_buf(args.num, args.base), TRUE), args.base)
              = args.num % (args.base ^ BufDigits)

\* The loop that counts digits ends before its power wraps for every number
\* below the largest power of the base, and for every int but the smallest.
NtostrReturns == (Converting /\ PowersFit) ~> (npc = "done")

=============================================================================

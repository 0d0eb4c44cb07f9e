------------------------------- MODULE MCText -------------------------------
(***************************************************************************)
(* Every format of up to three characters of the alphabet below, and every *)
(* sequence of up to three of the directives below; 12-bit numbers.        *)
(***************************************************************************)
EXTENDS Text

Alphabet == {"%", "A", "#", "5", "h", "l", "L", "d", "c", "s"}

Directives ==
    {<<"A">>, <<"%">>, <<"%", "%">>, <<"%", "c">>, <<"%", "s">>, <<"%", "d">>,
     <<"%", "+", "i">>, <<"%", "+", "u">>, <<"%", "#", "o">>, <<"%", "#", "x">>,
     <<"%", "X">>, <<"%", "b">>, <<"%", "p">>, <<"%", "j", "d">>,
     <<"%", "l", "l", "x">>, <<"%", "h", "h", "d">>, <<"%", "h", "d">>,
     <<"%", "L", "d">>, <<"%", "z", "d">>, <<"%", "t", "u">>,
     <<"%", "0", "1", "d">>, <<"%", "5", "%">>, <<"%", "h", "f">>, <<"%", "1", "0", "d">>}

ShortFormats == UNION {[1 .. k -> Alphabet] : k \in 0 .. 3}
DirectiveFormats ==
    {a \o b \o c : a, b, c \in Directives \cup {<< >>}}
AllFormats == ShortFormats \cup DirectiveFormats

\* Small numbers, and those around the powers of the bases, where the count of
\* digits and the wrap of a power change.
SomeNumbers ==
    (0 .. 20) \cup {63, 64, 99, 100, 127, 128, 255, 256, 257, 511, 512, 513, 999,
                   1000, 1001, 1807, 1808, 2047, 2048, 2559, 2560, 4095}

=============================================================================

----------------------------- MODULE MCConsole ------------------------------
(***************************************************************************)
(* A terminal of two rows of four columns.  Either the boot code alone     *)
(* prints every short text, or it logs and prints before tasks and an      *)
(* interrupt handler do.                                                   *)
(***************************************************************************)
EXTENDS Console

CONSTANTS boot, a, b, isr

AllChars == Controls \cup {Blank, "c", "d", "e", "f"}

Msg(k, p) == [kind |-> k, parts |-> p]
Setup == Msg("setup", << >>)
Silent == [w \in Writers |-> << >>]

Alphabet == {"c", "\n", "\t", "\r", "BS", "DEL"}
Texts == UNION {[1 .. k -> Alphabet] : k \in 1 .. 3}
Alone ==
    {[Silent EXCEPT ![boot] =
        <<Msg("printf", <<p>>), Setup, Msg("kout", <<<<"c", "c", "c">>, t, <<"ESC", "c", "\n">>>>)>>] :
        p \in {<<"c">>, <<"c", "\n">>}, t \in Texts}

TaskPrograms(s, t, k) ==
    [w \in Writers |->
        CASE w = boot -> <<Msg("noalloc", <<<<"c", "c">>, <<"\n">>>>), Setup>>
          [] w = a -> <<Msg("kout", <<<<"e">>, s>>), Msg(k, <<s>>)>>
          [] w = b -> <<Msg("noalloc", <<<<"e", "f">>, <<"\n">>>>)>>
          [] w = isr -> <<Msg("isr", <<t>>)>>]
Together ==
    {TaskPrograms(<<"d", "\n">>, <<"BS", "d">>, "printf"),
     TaskPrograms(<<"BS", "d">>, <<"d", "\n">>, "kout")}

AllPrograms == Alone \cup Together

=============================================================================

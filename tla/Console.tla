------------------------------- MODULE Console ------------------------------
(***************************************************************************)
(* Everything that writes to the serial port and the terminal: the kout    *)
(* logger (libFeline/src/logging/logger.cpp), printf and the logs built on *)
(* it (kernel/kernel/log.cpp, libc/stdio), from boot code, tasks and       *)
(* interrupt handlers.                                                     *)
(*                                                                         *)
(* A message is [kind, parts].  Its kind is                                *)
(*   "kout"     parts are kept and written at once under output_lock       *)
(*   "isr"      the same, in an interrupt handler                          *)
(*   "noalloc"  kCriticalNoAlloc, kDbgNoAlloc: each part is written at once*)
(*   "printf"   each character goes to the port, then to the terminal      *)
(*   "setup"    no message: boot_setup changes where logs go               *)
(* A writer is a task, the boot code or an interrupt handler; any of them  *)
(* may be interrupted by any other while interrupts are on.                *)
(***************************************************************************)
EXTENDS Terminal, Spinlock, FiniteSets, SequencesExt

CONSTANTS
    Writers,
    Boot,     \* the writer that is the boot code
    Programs  \* what the writers may say: writer |-> sequence of messages

Messages == [kind : {"kout", "isr", "noalloc", "printf", "setup"}, parts : Seq(Seq(Chars))]

\* boot_setup is called by the boot code and by nobody else.
ASSUME WritersAssumption == Boot \in Writers
ASSUME ProgramsAssumption ==
    \A prog \in Programs :
       /\ prog \in [Writers -> Seq(Messages)]
       /\ \A w \in Writers \ {Boot} : \A i \in DOMAIN prog[w] : prog[w][i].kind # "setup"

VARIABLES
    program,      \* the one of Programs
    vga_is_text,  \* there is a VGA terminal: its memory is mapped
    logging,      \* Settings::Logging: "serial" or "both"
    running,      \* the writer the CPU is with
    said,         \* writer |-> messages begun
    pc,           \* writer |-> "idle", "parts", "serial", "term" or "wrap"
    func,         \* writer |-> what the message's kout took from the settings
    parts,        \* writer |-> parts still to come
    strings,      \* writer |-> what its kout keeps for later
    chunk, sent,  \* writer |-> what is being written, and how far it got
    port,         \* all the serial port got: <<writer, message>> of each byte
    calls,        \* the same for the terminal
    torn          \* the terminal was entered while someone was inside putchar

writer_vars == <<said, pc, func, parts, strings, chunk, sent>>
vars == <<program, vga_is_text, logging, running, writer_vars, port, calls, torn,
          terminal_vars, spinlock_vars>>

Message(w) == program[w][said[w]]
Keeps(w) == Message(w).kind \in {"kout", "isr"}
Tag(w) == <<w, said[w]>>
Set(f, w, value) == [f EXCEPT ![w] = value]

\* __internal_putchar sends a carriage return before a newline.
__internal_putchar(c) == IF c = "\n" THEN <<<<"\r">>, <<"\n">>>> ELSE <<<<c>>>>

Parts(m) ==
    IF m.kind = "printf"
    THEN FlattenSeq([i \in DOMAIN m.parts |->
            FlattenSeq([j \in DOMAIN m.parts[i] |-> __internal_putchar(m.parts[i][j])])])
    ELSE m.parts

-----------------------------------------------------------------------------

\* Who may run: with interrupts off nobody but the writer the CPU is with.
Step(w) ==
    /\ irq_on \/ w = running
    /\ running' = w
    /\ UNCHANGED <<program, vga_is_text>>

\* The constructor of kout, or a call of printf.  Tasks do not exist before
\* boot_setup.  An interrupt handler starts with interrupts off.
Begin(w) ==
    LET m == program[w][said[w] + 1]
    IN  /\ pc[w] = "idle"
        /\ said[w] < Len(program[w])
        /\ m.kind # "setup"
        /\ w = Boot \/ m.kind = "isr" \/ said[Boot] = Len(program[Boot])
        /\ m.kind = "isr" => irq_on
        /\ said' = [said EXCEPT ![w] = @ + 1]
        /\ pc' = Set(pc, w, "parts")
        /\ func' = Set(func, w, IF m.kind = "printf" THEN "both" ELSE logging)
        /\ parts' = Set(parts, w, Parts(m))
        /\ strings' = Set(strings, w, << >>)
        /\ irq_on' = IF m.kind = "isr" THEN FALSE ELSE irq_on
        /\ UNCHANGED <<logging, chunk, sent, port, calls, torn, terminal_vars,
                       flag, stored_flags>>

\* kout::add_part: kept, or written out immediately.
add_part(w) ==
    /\ pc[w] = "parts"
    /\ parts[w] # << >>
    /\ parts' = Set(parts, w, Tail(parts[w]))
    /\ \/ /\ Keeps(w)
          /\ strings' = Set(strings, w, strings[w] \o Head(parts[w]))
          /\ UNCHANGED <<pc, chunk, sent>>
       \/ /\ ~Keeps(w)
          /\ chunk' = Set(chunk, w, Head(parts[w]))
          /\ sent' = Set(sent, w, 0)
          /\ pc' = Set(pc, w, "serial")
          /\ UNCHANGED strings
    /\ UNCHANGED <<logging, said, func, port, calls, torn, terminal_vars, spinlock_vars>>

\* As do_write below, except that output_lock is not taken.
do_write_unlocked(w) ==
    /\ pc[w] = "parts"
    /\ parts[w] = << >>
    /\ Keeps(w)
    /\ chunk' = Set(chunk, w, strings[w])
    /\ sent' = Set(sent, w, 0)
    /\ pc' = Set(pc, w, "serial")
    /\ UNCHANGED <<logging, said, func, parts, strings, port, calls, torn,
                   terminal_vars, spinlock_vars>>

\* The destructor's do_write, up to the call of func.
do_write(w) ==
    /\ pc[w] = "parts"
    /\ parts[w] = << >>
    /\ Keeps(w)
    /\ acquire_lock
    /\ chunk' = Set(chunk, w, strings[w])
    /\ sent' = Set(sent, w, 0)
    /\ pc' = Set(pc, w, "serial")
    /\ UNCHANGED <<logging, said, func, parts, strings, port, calls, torn, terminal_vars>>

\* A message that was written part by part is over with its last part.
Ended(w) ==
    /\ pc[w] = "parts"
    /\ parts[w] = << >>
    /\ ~Keeps(w)
    /\ pc' = Set(pc, w, "idle")
    /\ UNCHANGED <<logging, said, func, parts, strings, chunk, sent, port, calls, torn,
                   terminal_vars, spinlock_vars>>

\* write_serial: put_serial waits for the transmitter, which is never long.
put_serial(w) ==
    /\ pc[w] = "serial"
    /\ sent[w] < Len(chunk[w])
    /\ port' = Append(port, Tag(w))
    /\ sent' = [sent EXCEPT ![w] = @ + 1]
    /\ UNCHANGED <<logging, said, pc, func, parts, strings, chunk, calls, torn,
                   terminal_vars, spinlock_vars>>

\* func goes on with the terminal, where there is one and it is asked to.
ToTerminal(w) == func[w] = "both" /\ vga_is_text

write_to_term(w) ==
    /\ pc[w] = "serial"
    /\ sent[w] = Len(chunk[w])
    /\ ToTerminal(w)
    /\ sent' = Set(sent, w, 0)
    /\ pc' = Set(pc, w, "term")
    /\ UNCHANGED <<logging, said, func, parts, strings, chunk, port, calls, torn,
                   terminal_vars, spinlock_vars>>

putchar(w) ==
    LET c == chunk[w][sent[w] + 1]
    IN  /\ pc[w] = "term"
        /\ sent[w] < Len(chunk[w])
        /\ Put(c)
        /\ paper' = OnPaper(paper, c)
        /\ calls' = Append(calls, Tag(w))
        /\ sent' = [sent EXCEPT ![w] = @ + 1]
        /\ pc' = Set(pc, w, IF Wraps(c) THEN "wrap" ELSE "term")
        /\ torn' = (torn \/ \E v \in Writers \ {w} : pc[v] = "wrap")
        /\ UNCHANGED <<logging, said, func, parts, strings, chunk, port, spinlock_vars>>

putchar_wrap(w) ==
    /\ pc[w] = "wrap"
    /\ Wrap(chunk[w][sent[w]])
    /\ pc' = Set(pc, w, "term")
    /\ UNCHANGED <<logging, said, func, parts, strings, chunk, sent, port, calls, torn,
                   paper, spinlock_vars>>

\* func returns.  A kout gives up output_lock and is gone, and an interrupt
\* handler returns with interrupts on; other messages go on.
Return(w) ==
    /\ sent[w] = Len(chunk[w])
    /\ pc[w] = IF ToTerminal(w) THEN "term" ELSE "serial"
    /\ \/ ~Keeps(w) /\ pc' = Set(pc, w, "parts") /\ UNCHANGED spinlock_vars
       \/ Message(w).kind = "kout" /\ pc' = Set(pc, w, "idle") /\ release_lock
       \/ /\ Message(w).kind = "isr" /\ pc' = Set(pc, w, "idle")
          /\ flag' = FALSE /\ irq_on' = TRUE /\ UNCHANGED stored_flags
    /\ UNCHANGED <<logging, said, func, parts, strings, chunk, sent, port, calls, torn,
                   terminal_vars>>

\* boot_setup: the screen is cleared, and logs go to it from now on.
boot_setup(w) ==
    /\ pc[w] = "idle"
    /\ said[w] < Len(program[w])
    /\ program[w][said[w] + 1].kind = "setup"
    /\ said' = [said EXCEPT ![w] = @ + 1]
    /\ \/ /\ vga_is_text
          /\ reset
          /\ paper' = Cleared(paper)
          /\ logging' = "both"
       \/ ~vga_is_text /\ UNCHANGED <<cells, x, y, paper, logging>>
    /\ UNCHANGED <<pc, func, parts, strings, chunk, sent, port, calls, torn, spinlock_vars>>

Init ==
    /\ program \in Programs
    /\ vga_is_text \in BOOLEAN
    /\ logging = "serial"
    /\ running = Boot
    /\ said = [w \in Writers |-> 0]
    /\ pc = [w \in Writers |-> "idle"]
    /\ func = [w \in Writers |-> "serial"]
    /\ parts = [w \in Writers |-> << >>]
    /\ strings = [w \in Writers |-> << >>]
    /\ chunk = [w \in Writers |-> << >>]
    /\ sent = [w \in Writers |-> 0]
    /\ port = << >> /\ calls = << >>
    /\ torn = FALSE
    /\ TerminalInit
    /\ SpinlockInit
    /\ irq_on = TRUE

AllSaid ==
    /\ \A w \in Writers : pc[w] = "idle" /\ said[w] = Len(program[w])
    /\ UNCHANGED vars

Next ==
    \/ \E w \in Writers :
         /\ Step(w)
         /\ \/ Begin(w) \/ add_part(w) \/ do_write(w) \/ Ended(w)
            \/ put_serial(w) \/ write_to_term(w) \/ putchar(w) \/ putchar_wrap(w)
            \/ Return(w) \/ boot_setup(w)
    \/ AllSaid

Spec == Init /\ [][Next]_vars

-----------------------------------------------------------------------------

\* The messages begun that are written under output_lock, and those over.
Begun == UNION {{w} \X (1 .. said[w]) : w \in Writers}
Kept == {t \in Begun : program[t[1]][t[2]].kind \in {"kout", "isr"}}
Over(t) == t[2] < said[t[1]] \/ pc[t[1]] = "idle"

Places(s, t) == {i \in DOMAIN s : s[i] = t}
Unbroken(s, t) ==
    \A i, k \in Places(s, t) : \A j \in i .. k : s[j] = t

\* Each message of an allocating kout is on the serial port and on the
\* terminal in one piece, whatever tasks, handlers and unlocked writers do at
\* the same time; it is complete when its kout is gone; what the terminal has
\* the port has too, and both have these messages in the same order
\* (kout::do_write under output_lock).
WholeMessages ==
    /\ \A t \in Kept :
         /\ Unbroken(port, t) /\ Unbroken(calls, t)
         /\ Over(t) => Cardinality(Places(port, t)) =
                         Len(FlattenSeq(program[t[1]][t[2]].parts))
         /\ Places(calls, t) # {} /\ Over(t) =>
              Cardinality(Places(calls, t)) = Cardinality(Places(port, t))
    /\ \A t, u \in Kept :
         (\E i \in Places(calls, t), j \in Places(calls, u) : i < j) =>
             (t = u \/ \E i \in Places(port, t), j \in Places(port, u) : i < j)

\* As long as nobody entered the terminal while another writer was interrupted
\* inside putchar, the screen shows the last rows of all that was written and
\* its cursor is where the next character belongs: no character is lost, left
\* over or written outside the screen by wrapping, scrolling, tabs and erasing
\* (vga_text_term::putchar and scroll).
ScreenShowsPaper ==
    (~torn /\ \A w \in Writers : pc[w] # "wrap") => Shows

=============================================================================

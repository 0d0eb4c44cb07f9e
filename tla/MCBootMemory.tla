---------------------------- MODULE MCBootMemory ----------------------------
(***************************************************************************)
(* A machine of 32 pages of 64 bytes.  The memory maps are those of up to  *)
(* three of the entries below, in every order, and those of a PC's low and *)
(* high memory with two more; 512 is the first byte above the memory hole, *)
(* and GRUB's map is mapped to the first page of virtual memory, at 64.    *)
(***************************************************************************)
EXTENDS BootMemory

R(a, l) == [addr |-> a, len |-> l]
A(a, l) == [avail |-> TRUE, addr |-> a, len |-> l]
N(a, l) == [avail |-> FALSE, addr |-> a, len |-> l]

TheHole == R(320, 192)
SomeKernels == {R(640, 250), R(704, 200)}
\* Kernels are linked 896 bytes above the place they are loaded to; the two
\* variables may come in either order.
SomeObjects == {[start |-> 1604, end |-> 1608], [start |-> 1608, end |-> 1604]}
SomeGarbage == {R(0, 0), R(1500, 100)}

\* Low memory, high memory up to behind the kernel's virtual addresses and up
\* to below them, memory that touches it, a small piece, memory above 4 GiB;
\* reserved: next to the hole, in it, below it, inside high memory, across its
\* end, behind it, up to 4 GiB, across 4 GiB and above.
MapEntries ==
    {A(0, 304), A(512, 1280), A(512, 900), A(1792, 128), A(512, 64), A(2048, 256),
     N(304, 16), N(480, 32), N(64, 64), N(1200, 100), N(1700, 200), N(1792, 64),
     N(1984, 64), N(1984, 128), N(2100, 64)}
SomeMaps ==
    UNION {[1 .. k -> MapEntries] : k \in 1 .. 3}
    \cup {<<A(0, 304), high>> \o more :
            high \in {A(512, 1280), A(512, 900)}, more \in [1 .. 2 -> MapEntries]}

Begin(m) == [type |-> "begin", memory |-> m]
Prop0 == [type |-> "prop", reg |-> FALSE, addr |-> 7, len |-> 7]
Reg(a, l) == [type |-> "prop", reg |-> TRUE, addr |-> a, len |-> l]
T(t) == [type |-> t]

Tokens == {Begin(TRUE), Begin(FALSE), Prop0, Reg(0, 1200), Reg(1024, 768),
           T("nop"), T("end_node")}
SomeTrees ==
    {<< >>, <<Begin(FALSE), T("bad")>>}
    \cup {<<Begin(FALSE)>> \o t \o <<T("end_node"), T("end")>> :
            t \in UNION {[1 .. k -> Tokens] : k \in 0 .. 3}}
    \cup {<<Begin(FALSE), Begin(TRUE), Reg(a, l), T("end_node"), T("end_node"), T("end")>> :
            a \in {0, 64, 900}, l \in {64, 700, 1100}}
    \cup {<<Begin(FALSE), Begin(TRUE), Reg(a, l), T("end_node"),
            Begin(TRUE), Reg(b, l), T("end_node"), T("end_node"), T("end")>> :
            a, b \in {0, 512, 1024}, l \in {512, 640}}

SomeRsvMaps == {<< >>, <<R(0, 64)>>, <<R(1200, 64)>>, <<R(300, 100), R(1100, 3000)>>}
SomeTreesAt == {R(32, 84), R(256, 84), R(1100, 84), R(1900, 84)}

=============================================================================

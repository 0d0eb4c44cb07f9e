------------------------------ MODULE MCMemory ------------------------------
(***************************************************************************)
(* An address space of thirteen pages of two bytes: the null page, a       *)
(* kernel page in the middle and three recursive pages at the top.  With   *)
(* fewer of those find_free_virtmem would not reach the end of the address *)
(* space, where its sum wraps.                                             *)
(***************************************************************************)
EXTENDS Memory

RamBytes == 2 .. 7

AlignedDevices == {[addr |-> 40, len |-> 3], [addr |-> 50, len |-> 4]}

=============================================================================

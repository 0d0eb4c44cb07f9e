--------------------------- MODULE MCMallocFree -----------------------------
(* MallocFree on pages of a few headers, for TLC.                          *)
EXTENDS MallocFree

=============================================================================

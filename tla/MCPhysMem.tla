----------------------------- MODULE MCPhysMem ------------------------------
(***************************************************************************)
(* Two separate regions of RAM, in pages of two bytes.                     *)
(***************************************************************************)
EXTENDS PhysMem

TwoRegions == <<[memory |-> 2, size |-> 8], [memory |-> 14, size |-> 6]>>

\* The first one is long enough to be split until the slots of a chunk that was
\* added at run time are used up as well.
LongFirstRegion == <<[memory |-> 2, size |-> 10], [memory |-> 16, size |-> 4]>>

\* The whole second region, its last page, and a page inside the first one.
AlignedFramebuffers ==
    {[addr |-> 14, len |-> 6], [addr |-> 18, len |-> 4], [addr |-> 4, len |-> 2]}

\* A driver that also covers the whole first region.
FirstRegionFramebuffer == {[addr |-> 0, len |-> 12]}

NoFramebuffer == {}

=============================================================================

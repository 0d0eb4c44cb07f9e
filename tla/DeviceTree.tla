----------------------------- MODULE DeviceTree -----------------------------
(***************************************************************************)
(* The device tree walk (kernel/arch/arm/devicetree/devicetree.cpp) and    *)
(* bootstrap_phys_mem_manager of the ARM port                              *)
(* (kernel/arch/arm/mem/phys_mem.cpp), which walks the tree three times:   *)
(* to count the memory regions, to place its array and to fill it.         *)
(*                                                                         *)
(* The tree is a sequence of tokens: [type |-> "begin", memory] (the       *)
(* node's name has the prefix "memory" or not), [type |-> "prop", reg,     *)
(* addr, len], "nop", "end_node", "end" or "bad" (no token at all); a tree *)
(* without its magic number is the empty sequence.                         *)
(* Moving to the next token is adding 1.  The cell sizes a walk keeps      *)
(* track of are left out: every callback ignores them and takes the first  *)
(* two cells of a reg property for an address and a length.                *)
(***************************************************************************)
EXTENDS StartPhysMem

CONSTANTS
    RegionAlign,  \* alignof(bootloader_mem_region)
    FdtSize       \* sizeof(fdt_header)

VARIABLES
    tree, rsvmap,  \* tokens, and the reserved entries (64 bit) of the tree
    tree_at,       \* where the tree is, [addr, len]
    pass,          \* the walk's callback: "count", "place" or "fill"
    node,          \* *current_struct
    calls,         \* usecallback of each active call, innermost first
    counted        \* num_available_entries

tree_vars == <<tree, rsvmap, tree_at>>
walk_vars == <<pass, node, calls, counted>>

sorted_length_arm == (2 * Len(rsvmap) + counted + 3) * RegionSize

\* A reserved entry as an address and an end, truncated; and as the region the
\* array gets, its length capped at SIZE_MAX.
Reserved(e) == [addr |-> Wrap(e.addr), len |-> Wrap(e.len)]
Listed(e) == [addr |-> Wrap(e.addr), len |-> Min({e.len, WordSize - 1})]

\* What find_space_in_area steps around.  The tree counts in whole fdt_headers.
Obstacles ==
    [i \in DOMAIN rsvmap |-> Reserved(rsvmap[i])] \o
    <<kernel, [tree_at EXCEPT !.len = (tree_at.len \div FdtSize) * FdtSize]>>

\* The test looks at the location as it was before it is aligned.
RECURSIVE space(_, _, _)
space(location, end, size) ==
    LET hits == {i \in DOMAIN Obstacles :
                   overlap([addr |-> location, len |-> size], Obstacles[i])}
        o == Obstacles[Min(hits)]
        \* an address behind the tree is a typed pointer: + 1 is an fdt_header
        step == IF Min(hits) = Len(Obstacles) THEN FdtSize ELSE 1
    IN  IF hits = {} THEN round_up_to_alignment(location, RegionAlign)
        ELSE IF Wrap(EndOf(o) + size) > end THEN kernel.addr
        ELSE space(Wrap(EndOf(o) + step), end, size)

-----------------------------------------------------------------------------
(* The callbacks, for property p of a node whose name matches.             *)

Count(p) ==
    /\ pass = "count"
    /\ counted' = counted + (IF p.reg THEN 1 ELSE 0)
    /\ UNCHANGED <<map_at, available>>

\* The kernel's start stands for "not placed yet".
Place(p) ==
    /\ pass = "place"
    /\ map_at' = IF p.reg /\ map_at = kernel.addr
                 THEN space(p.addr, Wrap(p.addr + p.len), sorted_length_arm)
                 ELSE map_at
    /\ UNCHANGED <<counted, available>>

Fill(p) ==
    /\ pass = "fill"
    /\ available' = IF p.reg THEN Append(available, [addr |-> p.addr, len |-> p.len])
                    ELSE available
    /\ UNCHANGED <<counted, map_at>>

-----------------------------------------------------------------------------
(* The walk, token by token.                                               *)

At(type) == boot_pc = "walk" /\ calls # << >> /\ tree[node].type = type

\* As BeginNode below, except that the callback is kept for every node inside
\* a node that matches.
BeginNode_inherits ==
    /\ At("begin")
    /\ node' = node + 1
    /\ calls' = <<tree[node].memory \/ Head(calls)>> \o calls
    /\ UNCHANGED <<boot_pc, pass, counted, map_at, available, unavailable>>

BeginNode ==
    /\ At("begin")
    /\ node' = node + 1
    /\ calls' = <<tree[node].memory>> \o calls
    /\ UNCHANGED <<boot_pc, pass, counted, map_at, available, unavailable>>

Prop ==
    /\ At("prop")
    /\ \/ Head(calls) /\ (Count(tree[node]) \/ Place(tree[node]) \/ Fill(tree[node]))
       \/ ~Head(calls) /\ UNCHANGED <<counted, map_at, available>>
    /\ node' = node + 1
    /\ UNCHANGED <<boot_pc, pass, calls, unavailable>>

Nop ==
    /\ At("nop")
    /\ node' = node + 1
    /\ UNCHANGED <<boot_pc, pass, calls, counted, map_at, available, unavailable>>

\* The end of a node is passed; the end of the tree is left for the callers.
EndNode ==
    /\ \/ At("end_node") /\ node' = node + 1
       \/ At("end") /\ UNCHANGED node
    /\ calls' = Tail(calls)
    /\ UNCHANGED <<boot_pc, pass, counted, map_at, available, unavailable>>

BadToken ==
    /\ At("bad")
    /\ boot_pc' = "abort"
    /\ UNCHANGED <<walk_vars, map_at, available, unavailable>>

-----------------------------------------------------------------------------
(* bootstrap_phys_mem_manager between its walks.                           *)

StartWalk(callback) ==
    /\ pass' = callback
    /\ node' = 1
    /\ calls' = <<FALSE>>

\* init_devicetree gives up on a tree without its magic number.
InitTree ==
    /\ boot_pc = "arm"
    /\ \/ tree = << >> /\ boot_pc' = "abort" /\ UNCHANGED <<pass, node, calls>>
       \/ tree # << >> /\ boot_pc' = "walk" /\ StartWalk("count")
    /\ UNCHANGED <<counted, map_at, available, unavailable>>

Walked == boot_pc = "walk" /\ calls = << >>

PlaceMap ==
    /\ Walked /\ pass = "count"
    /\ map_at' = kernel.addr
    /\ StartWalk("place")
    /\ UNCHANGED <<boot_pc, counted, available, unavailable>>

\* The unavailable regions: the reserved ones, kernel, tree and the array.
FillMap ==
    /\ Walked /\ pass = "place"
    /\ \/ /\ map_at = kernel.addr
          /\ boot_pc' = "abort"
          /\ UNCHANGED <<pass, node, calls, unavailable>>
       \/ /\ map_at # kernel.addr
          /\ unavailable' = [i \in DOMAIN rsvmap |-> Listed(rsvmap[i])] \o
                <<kernel, tree_at, [addr |-> map_at, len |-> sorted_length_arm]>>
          /\ StartWalk("fill")
          /\ UNCHANGED boot_pc
    /\ UNCHANGED <<counted, map_at, available>>

StartArm ==
    /\ Walked /\ pass = "fill"
    /\ boot_pc' = "place"
    /\ UNCHANGED <<walk_vars, map_at, available, unavailable>>

for_each_prop_in_node == BeginNode \/ Prop \/ Nop \/ EndNode \/ BadToken

bootstrap_arm == InitTree \/ for_each_prop_in_node \/ PlaceMap \/ FillMap \/ StartArm

=============================================================================

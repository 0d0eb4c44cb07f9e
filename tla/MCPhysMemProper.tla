-------------------------- MODULE MCPhysMemProper ---------------------------
(***************************************************************************)
(* An instance with inputs the theorems in PhysMemProofs speak of.         *)
(***************************************************************************)
EXTENDS MCPhysMem

ASSUME ProperAssumption == ProperInputs /\ ProperReserves

=============================================================================

------------------------- MODULE MCPhysicalDevice -------------------------
(* PhysicalDevice for TLC: what callers write are model values, which      *)
(* nothing in the model tells apart, so that states that differ by a       *)
(* renaming of them are one.                                               *)
EXTENDS PhysicalDevice, TLC

ValueSymmetry == Permutations(Values)
============================================================================

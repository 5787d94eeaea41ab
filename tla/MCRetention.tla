----------------------------- MODULE MCRetention -----------------------------
(***************************************************************************)
(* RetentionLedger on small instances.  Ids, keys and details are compared *)
(* only for equality, so permuting them is sound.                          *)
(***************************************************************************)
EXTENDS RetentionLedger, TLC

Symmetry ==
    Permutations(Targets) \cup Permutations(Copies) \cup Permutations(Keys)
      \cup Permutations(Details) \cup Permutations(Stewards)
=============================================================================

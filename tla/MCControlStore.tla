--------------------------- MODULE MCControlStore ---------------------------
(***************************************************************************)
(* ControlStore on small instances.  Job ids, subjects and digests are     *)
(* compared only for equality, so permuting them is sound.                 *)
(***************************************************************************)
EXTENDS ControlStore, TLC

Symmetry == Permutations(Jobs) \cup Permutations(Workers) \cup Permutations(Digests)
=============================================================================

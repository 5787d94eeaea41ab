-------------------------- MODULE MCWorkloadAccess --------------------------
(***************************************************************************)
(* WorkloadAccess on a small instance.  Subjects, scopes, proofs, sessions *)
(* and requests are compared only for equality, so permuting them is sound.*)
(***************************************************************************)
EXTENDS WorkloadAccess, TLC

Symmetry ==
    Permutations(Subjects) \cup Permutations(Scopes) \cup Permutations(Sessions)
      \cup Permutations(Proofs) \cup Permutations(Requests)
=============================================================================

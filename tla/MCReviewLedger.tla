--------------------------- MODULE MCReviewLedger ---------------------------
(***************************************************************************)
(* ReviewLedger on small instances.  Clients, reviewers, contents and      *)
(* notes are compared only for equality, so permuting them is sound.  The  *)
(* first key is every skill's approval key.                                *)
(***************************************************************************)
EXTENDS ReviewLedger, TLC

CONSTANT k1

OneLegacyKey == [skill \in Skills |-> k1]

Symmetry ==
    Permutations(Clients) \cup Permutations(Reviewers) \cup
    Permutations(Contents) \cup Permutations(Notes)
=============================================================================

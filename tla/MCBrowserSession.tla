-------------------------- MODULE MCBrowserSession --------------------------
(***************************************************************************)
(* BrowserSession on a small instance.  Digests, principals, origins and   *)
(* callers are compared only for equality, so permuting them is sound.     *)
(***************************************************************************)
EXTENDS BrowserSession, TLC

Symmetry ==
    Permutations(Identifiers) \cup Permutations(Tokens)
      \cup Permutations(Principals) \cup Permutations(Origins)
      \cup Permutations(Callers)
=============================================================================

------------------------- MODULE MCSessionPipeline -------------------------
(***************************************************************************)
(* SessionPipeline on small instances.                                     *)
(***************************************************************************)
EXTENDS SessionPipeline, TLC

CONSTANTS w1, w2, r1, r2

\* Two worker builds that compute different timelines of the same package.
TwoBuilds == w1 :> r1 @@ w2 :> r2

\* One worker.
OneBuild == w1 :> r1
=============================================================================

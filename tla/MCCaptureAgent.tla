--------------------------- MODULE MCCaptureAgent ---------------------------
(***************************************************************************)
(* CaptureAgent on a small instance.                                       *)
(***************************************************************************)
EXTENDS CaptureAgent
=============================================================================

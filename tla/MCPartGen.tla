----------------------------- MODULE MCPartGen -----------------------------
(* The instance of PartGen for TLC: its constants are model values of the   *)
(* configuration.                                                           *)
EXTENDS PartGen
=============================================================================

----------------------------- MODULE MCReorient -----------------------------
(* An instance of Reorient for TLC: one page in front of the partset, two jobs. *)
EXTENDS Reorient, TLC

CONSTANTS r1, j1, j2
=============================================================================

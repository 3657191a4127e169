--------------------------- MODULE MCScoreArchive ---------------------------
(* A good PDF, a corrupt one, and a damaged one that Ghostscript can repair. *)
EXTENDS ScoreArchive, TLC

CONSTANTS p1, p2, s1, s2, s3, good, corrupt, damaged, repaired

MCNormal == (good :> good) @@ (corrupt :> None) @@ (damaged :> repaired) @@ (repaired :> repaired)
=============================================================================

----------------------------- MODULE MCJobQueue -----------------------------
(* Instances of JobQueue for TLC. *)
EXTENDS JobQueue, TLC

\* Workers are interchangeable in the safety runs.
Symmetry == Permutations(Workers)
=============================================================================

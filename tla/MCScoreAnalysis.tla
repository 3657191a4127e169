--------------------------- MODULE MCScoreAnalysis ---------------------------
(* An instance of ScoreAnalysis for TLC. *)
EXTENDS ScoreAnalysis, TLC
=============================================================================

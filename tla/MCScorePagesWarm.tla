-------------------------- MODULE MCScorePagesWarm --------------------------
(* Instances of ScorePagesWarm for TLC. *)
EXTENDS ScorePagesWarm, TLC

=============================================================================

------------------------------ MODULE MCScoring ------------------------------
(* Values for the constants of Scoring, for TLC. *)
EXTENDS Scoring

CONSTANTS s1, s2

(* A score that three cases divide evenly and one that they do not. *)
TwoFulls == {4, 6}

(* Stands for -2^31, which amd64 gives for int32(NaN). *)
NegativeNaN == -100
=============================================================================

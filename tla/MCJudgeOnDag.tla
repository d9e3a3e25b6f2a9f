---------------------------- MODULE MCJudgeOnDag ----------------------------
(* Values for the constants of JudgeOnDag, for TLC. *)
EXTENDS JudgeOnDag

CONSTANTS s1, s2

TwoOneCases == [s \in Subtasks |-> IF s = s1 THEN 2 ELSE 1]
=============================================================================

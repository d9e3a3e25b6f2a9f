---------------------------- MODULE MCJudgeManager ----------------------------
(* Two submissions of two test cases each, and too few ids for all their files. *)
EXTENDS JudgeManager, TLC

IdSymmetry == Permutations(Ids) \cup Permutations(Submissions)
=============================================================================

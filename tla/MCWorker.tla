------------------------------ MODULE MCWorker ------------------------------
(* Values for the constants of Worker, for TLC. *)
EXTENDS Worker

CONSTANTS w1, w2, t1, t2, p1

OneProblem == [t \in Tasks |-> p1]
=============================================================================

------------------------------- MODULE MCRecord -------------------------------
(* What is recorded of a submission, for TLC: its scores (Scoring), its       *)
(* outputs (OutputFile) and the verdicts of the comparators (Compare).  The   *)
(* three share no state, so a behaviour takes the steps of one of them, and   *)
(* the others rest in their smallest initial states.                          *)
EXTENDS MCScoring, MCCompare, OutputFile

VARIABLE subject    \* the one that a behaviour is about

ScoringRests ==
    /\ policy = [s \in Subtasks |-> "SUM"]
    /\ full = [s \in Subtasks |-> Min(Fulls)]
    /\ count = [s \in Subtasks |-> 0]
    /\ ScoringInit

OutputRests ==
    /\ run = [kind |-> "case", limit |-> Min(Limits),
              accepted |-> FALSE, exitZero |-> FALSE, faulty |-> FALSE]
    /\ size = [f \in Streams |-> 0]
    /\ OutputInit

CompareRests ==
    /\ diffPolicy = "ALL" /\ ignoreNewline = FALSE
    /\ text = [s \in Sides |-> <<>>]
    /\ CompareInit

Init ==
    \/ subject = "score" /\ ScoringInit /\ OutputRests /\ CompareRests
    \/ subject = "output" /\ ScoringRests /\ OutputInit /\ CompareRests
    \/ subject = "verdict" /\ ScoringRests /\ OutputRests /\ CompareInit

Next ==
    /\ UNCHANGED subject
    /\ \/ subject = "score" /\ ScoringNext /\ UNCHANGED <<outputVars, compareVars>>
       \/ subject = "output" /\ OutputNext /\ UNCHANGED <<scoringVars, compareVars>>
       \/ subject = "verdict" /\ CompareNext /\ UNCHANGED <<scoringVars, outputVars>>

Spec == Init /\ [][Next]_<<subject, scoringVars, outputVars, compareVars>>
=============================================================================

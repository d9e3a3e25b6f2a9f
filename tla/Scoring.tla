------------------------------- MODULE Scoring -------------------------------
(***************************************************************************)
(* What a submission is worth: the scores and conclusions that the         *)
(* callback of judgeOnDAG gives to test cases and subtasks, and the total  *)
(* that work makes of them (src/worker/worker.go).  The order of the       *)
(* subtasks and which of them are run is left open here; JudgeOnDag and    *)
(* Traverse decide it.                                                     *)
(***************************************************************************)
EXTENDS Integers, Sequences, FiniteSets, Functions

CONSTANTS
    Subtasks,   \* ids of the subtasks
    Fulls,      \* values of Subtask.Score
    MaxCases,   \* bound on the number of test cases of one subtask
    Failures,   \* conclusions of Judge other than Accepted
    NaNScore,   \* what int32(NaN) gives on the platform
    NoSubtask   \* no callback is running

ASSUME ScoringAssumption ==
    /\ IsFiniteSet(Subtasks) /\ NoSubtask \notin Subtasks
    /\ Fulls \subseteq Nat \ {0}
    /\ MaxCases \in Nat
    /\ "accepted" \notin Failures /\ "invalid" \notin Failures
    /\ NaNScore \in Int

VARIABLES
    policy, full, count,    \* ScorePolicy, Score and len(TestCases)
    cur,        \* the subtask whose callback is running
    passCases,  \* its local counter
    verdicts,   \* verdicts[s]: the conclusions of the judged cases
    conclusion, \* subResult.Conclusion; "invalid" until the subtask is run
    score,      \* subResult.Score
    finished,   \* subtasks whose callback returned true
    err,        \* the named result of judgeOnDAG
    result      \* the reported conclusion and score

problem == <<policy, full, count>>
scoringVars == <<problem, cur, passCases, verdicts, conclusion, score, finished, err, result>>

Policies == {"SUM", "MIN", "PCT"}
Pending == [conclusion |-> "none", score |-> 0]

ScoringInit ==
    /\ policy \in [Subtasks -> Policies]
    /\ full \in [Subtasks -> Fulls]
    /\ count \in [Subtasks -> 0..MaxCases]
    /\ cur = NoSubtask
    /\ passCases = 0
    /\ verdicts = [s \in Subtasks |-> <<>>]
    /\ conclusion = [s \in Subtasks |-> "invalid"]
    /\ score = [s \in Subtasks |-> 0]
    /\ finished = {}
    /\ err = FALSE
    /\ result = Pending

-----------------------------------------------------------------------------

(* caseResult.Score of an accepted case. *)
CaseScore(s) == full[s] \div count[s]

(* Mutant: the score of a subtask grows by its full score. *)
ScoredWhole(s) == IF policy[s] = "SUM" THEN score[s] + full[s] ELSE score[s]

(* The running score of the policies SUM and MIN after an accepted case.   *)
Scored(s) ==
    IF policy[s] = "SUM" THEN score[s] + CaseScore(s)
    ELSE IF policy[s] = "MIN" /\ score[s] > CaseScore(s) THEN CaseScore(s)
    ELSE score[s]

(* float64(Score) * (float64(passCases) / float64(n)), truncated.  If the  *)
(* exact product is an integer, the rounded quotient may leave the product *)
(* just below it, except when the quotient is 0 or 1.                      *)
Pct(s) ==
    LET n == count[s]
        exact == (full[s] * passCases) \div n
    IN  IF n = 0 THEN {0, NaNScore}
        ELSE IF (full[s] * passCases) % n = 0 /\ passCases \notin {0, n}
        THEN {exact - 1, exact}
        ELSE {exact}

Start(s) ==
    /\ result = Pending /\ cur = NoSubtask
    /\ conclusion[s] = "invalid"
    /\ cur' = s
    /\ passCases' = 0
    /\ conclusion' = [conclusion EXCEPT ![s] = "accepted"]
    /\ UNCHANGED <<problem, verdicts, score, finished, err, result>>

HasCase == cur # NoSubtask /\ Len(verdicts[cur]) < count[cur]
Judged(v) == verdicts' = [verdicts EXCEPT ![cur] = Append(@, v)]

CaseAccepted ==
    /\ HasCase
    /\ Judged("accepted")
    /\ passCases' = passCases + 1
    /\ score' = [score EXCEPT ![cur] = Scored(cur)]
    /\ err' = FALSE
    /\ UNCHANGED <<problem, cur, conclusion, finished, result>>

CaseFails(v) ==
    /\ HasCase
    /\ Judged(v)
    /\ conclusion' = [conclusion EXCEPT ![cur] = v]
    /\ err' = FALSE
    /\ UNCHANGED <<problem, cur, passCases, score, finished, result>>

(* Judge fails: the callback is left with the conclusion it has so far.    *)
JudgeFails ==
    /\ HasCase
    /\ err' = TRUE
    /\ cur' = NoSubtask
    /\ UNCHANGED <<problem, passCases, verdicts, conclusion, score, finished, result>>

EndSubtask ==
    /\ cur # NoSubtask /\ ~HasCase
    /\ IF policy[cur] = "PCT"
       THEN \E r \in Pct(cur) : score' = [score EXCEPT ![cur] = r]
       ELSE UNCHANGED score
    /\ finished' = finished \cup {cur}
    /\ cur' = NoSubtask
    /\ UNCHANGED <<problem, passCases, verdicts, conclusion, err, result>>

(* The end of work.  lo.Values(score) comes in the order of a map, and the *)
(* last failed subtask in it decides.                                      *)
FailedSubtasks == {s \in Subtasks : conclusion[s] \notin {"invalid", "accepted"}}

(* Mutant: the last subtask decides, whether it failed or not. *)
TotalOfLast ==
    /\ result = Pending /\ cur = NoSubtask
    /\ \/ err
          /\ result' = [conclusion |-> "internal error", score |-> 0]
       \/ ~err
          /\ \E c \in {conclusion[s] : s \in Subtasks} :
                result' = [conclusion |-> c, score |-> SumFunction(score)]
    /\ UNCHANGED <<problem, cur, passCases, verdicts, conclusion, score, finished, err>>

Total ==
    /\ result = Pending /\ cur = NoSubtask
    /\ \/ err
          /\ result' = [conclusion |-> "internal error", score |-> 0]
       \/ ~err
          /\ \E c \in IF FailedSubtasks = {} THEN {"accepted"}
                      ELSE {conclusion[s] : s \in FailedSubtasks} :
                result' = [conclusion |-> c, score |-> SumFunction(score)]
    /\ UNCHANGED <<problem, cur, passCases, verdicts, conclusion, score, finished, err>>

ScoringNext ==
    \/ \E s \in Subtasks : Start(s)
    \/ CaseAccepted
    \/ \E v \in Failures : CaseFails(v)
    \/ JudgeFails
    \/ EndSubtask
    \/ Total

ScoringSpec == ScoringInit /\ [][ScoringNext]_scoringVars

-----------------------------------------------------------------------------
(* Properties *)

Conclusions == {"invalid", "accepted"} \cup Failures
Accepted(s) == Cardinality({i \in DOMAIN verdicts[s] : verdicts[s][i] = "accepted"})
AllAccepted(s) == Accepted(s) = count[s]

ScoringTypeOK ==
    /\ policy \in [Subtasks -> Policies]
    /\ full \in [Subtasks -> Fulls]
    /\ count \in [Subtasks -> 0..MaxCases]
    /\ cur \in Subtasks \cup {NoSubtask}
    /\ verdicts \in [Subtasks -> Seq(Failures \cup {"accepted"})]
    /\ \A s \in Subtasks : Len(verdicts[s]) <= count[s]
    /\ cur # NoSubtask => passCases = Accepted(cur)
    /\ conclusion \in [Subtasks -> Conclusions]
    /\ score \in [Subtasks -> Int]
    /\ finished \subseteq Subtasks
    /\ err \in BOOLEAN
    /\ result.score \in Int

(* SUM gives exactly what the cases that passed are worth, however         *)
(* verdicts, failures of Judge and the subtasks interleave; PCT is at most *)
(* one point below the exact average.  MIN is the subject of MinIsLowest.  *)
ScoreFollowsPolicy ==
    /\ ScoringTypeOK
    /\ \A s \in finished : count[s] > 0 =>
        LET exact == full[s] * Accepted(s) IN
        /\ policy[s] = "SUM" => score[s] = CaseScore(s) * Accepted(s)
        /\ policy[s] = "PCT" => /\ score[s] * count[s] <= exact
                                /\ exact <= (score[s] + 1) * count[s]

(* "Scored by the minimum score amongst all testcases." (model.proto:80):  *)
(* a subtask of accepted cases is worth the score of one, any other 0.     *)
(* The code does not keep this: it compares with a score that starts at 0, *)
(* so that every MIN subtask gets 0.                                       *)
MinIsLowest ==
    \A s \in finished : (policy[s] = "MIN" /\ count[s] > 0) =>
        score[s] = IF AllAccepted(s) THEN CaseScore(s) ELSE 0

(* What is reported follows from the verdicts: accepted only if no judged  *)
(* case failed, else the verdict of some failed case; and the score is the *)
(* total of the subtasks.                                                  *)
ResultWarranted ==
    LET failed == {v \in Failures : \E s \in Subtasks :
                      \E i \in DOMAIN verdicts[s] : verdicts[s][i] = v}
    IN  /\ result.conclusion = "accepted" => failed = {}
        /\ result.conclusion \in {"none", "accepted", "internal error"} \cup failed
        /\ result.conclusion \notin {"none", "internal error"} => result.score = SumFunction(score)

-----------------------------------------------------------------------------
(* The inductive invariant behind the theorems of RecordProofs.            *)

(* A subtask that was not run has nothing, and one callback runs at a time *)
(* until the total is taken.                                               *)
RunOrder ==
    /\ \A s \in Subtasks : conclusion[s] = "invalid" =>
        /\ verdicts[s] = <<>> /\ score[s] = 0
        /\ s # cur /\ s \notin finished
    /\ cur \notin finished
    /\ result # Pending => cur = NoSubtask

(* The score of a subtask while its cases are judged.                      *)
RunningScore ==
    \A s \in Subtasks :
        count[s] > 0 /\ policy[s] = "SUM" => score[s] = CaseScore(s) * Accepted(s)

(* A subtask that failed carries the verdict of one of its cases, and one  *)
(* that did not has accepted cases only.                                   *)
ConclusionWarranted ==
    \A s \in Subtasks :
        /\ conclusion[s] \in Failures =>
            \E i \in DOMAIN verdicts[s] : verdicts[s][i] = conclusion[s]
        /\ conclusion[s] \notin Failures =>
            \A i \in DOMAIN verdicts[s] : verdicts[s][i] = "accepted"

ScoringInv ==
    /\ ScoreFollowsPolicy /\ ResultWarranted
    /\ RunOrder /\ RunningScore /\ ConclusionWarranted
=============================================================================

----------------------------- MODULE JudgeOnDag -----------------------------
(***************************************************************************)
(* Worker.judgeOnDAG with its uploader goroutine (src/worker/worker.go).   *)
(* The judging goroutine runs Graph.Traverse, whose steps are those of     *)
(* module Traverse; its callback judges the test cases of one subtask and  *)
(* queues every output that is too long for the record.  The uploader      *)
(* sends these outputs to the backend and writes their keys into the case  *)
(* results.  The context of the submission may be cancelled at any time.   *)
(* What one test case is worth is the subject of module Scoring.           *)
(***************************************************************************)
EXTENDS Naturals, Sequences, FiniteSets

CONSTANTS
    Subtasks,   \* ids of the subtasks of the problem
    NoNode,     \* no subtask is being run yet
    Cases,      \* Cases[s]: the number of test cases of subtask s
    ChanCap,    \* capacity of caseOutputCh
    MaxRetries, \* retries of one upload after its first attempt
    NoOutput    \* the uploader has no output in hand

ASSUME JudgeAssumption ==
    /\ IsFiniteSet(Subtasks)
    /\ Cases \in [Subtasks -> Nat]
    /\ ChanCap \in Nat \ {0}
    /\ MaxRetries \in Nat \ {0}
    /\ NoNode \notin Subtasks
    /\ NoOutput \notin Subtasks \X Nat

VARIABLES
    next, in, queue, vis, accepted, pc, cur, rest,  \* see Traverse
    case,       \* test cases of cur already judged
    step,       \* where the callback and the end of judgeOnDAG are
    conclusion, \* subResult.Conclusion, "invalid" until the subtask is run
    err,        \* the named result err, which every call of Judge assigns
    big,        \* outputs <<subtask, case>> that exceeded the limit
    caseOutputCh, outputsClosed,
    uploader,   \* where the uploader is
    output,     \* the output it works on
    tries,      \* failed attempts of its backoff.Retry
    attempts,   \* history: how often the upload of each output was attempted
    outputKey,  \* case results whose OutputKey is set
    dropped,    \* outputs whose upload was given up
    ctxDone     \* the context is cancelled or past its deadline

travVars == <<next, in, queue, vis, accepted, pc, cur, rest>>
resultVars == <<case, step, conclusion, err, big>>
chanVars == <<caseOutputCh, outputsClosed>>
uploadVars == <<uploader, output, tries, attempts, outputKey, dropped>>
vars == <<travVars, resultVars, chanVars, uploadVars, ctxDone>>

Trav == INSTANCE Traverse WITH Ids <- Subtasks, Listed <- Subtasks

Conclusions == {"invalid", "accepted", "wrong"}
Outputs == UNION {{s} \X (1..Cases[s]) : s \in Subtasks}

(* The problem passed verifyProblem, so that its graph has no cycle; a     *)
(* dependency on an id that is no subtask would make the callback          *)
(* dereference nil and is left out.                                        *)
Init ==
    /\ Trav!Init
    /\ Trav!Acyclic(next)
    /\ case = 0
    /\ step = "judge"
    /\ conclusion = [s \in Subtasks |-> "invalid"]
    /\ err = FALSE
    /\ big = {}
    /\ caseOutputCh = <<>>
    /\ outputsClosed = FALSE
    /\ uploader = "select"
    /\ output = NoOutput
    /\ tries = 0
    /\ attempts = [o \in Outputs |-> 0]
    /\ outputKey = {}
    /\ dropped = {}
    /\ ctxDone = FALSE

-----------------------------------------------------------------------------
(* The traversal between two callbacks *)

Walk ==
    /\ \/ \E n \in Subtasks : Trav!Scan(n) \/ Trav!RemoveEdge(n)
       \/ Trav!EndLoop
       \/ Trav!Finish
    /\ UNCHANGED <<resultVars, chanVars, uploadVars, ctxDone>>

(* The callback starts: subResult.IsRun, and an accepted conclusion.       *)
StartSubtask ==
    /\ Trav!Pop
    /\ case' = 0
    /\ conclusion' = [conclusion EXCEPT ![cur'] = "accepted"]
    /\ UNCHANGED <<step, err, big, chanVars, uploadVars, ctxDone>>

(* Judge returns a result; its output, if it is too long, is to be sent.   *)
JudgeCase(accepts, long) ==
    /\ pc = "call" /\ step = "judge"
    /\ case < Cases[cur]
    /\ case' = case + 1
    /\ err' = FALSE
    /\ conclusion' = IF accepts THEN conclusion ELSE [conclusion EXCEPT ![cur] = "wrong"]
    /\ IF long
       THEN step' = "send" /\ big' = big \cup {<<cur, case'>>}
       ELSE UNCHANGED <<step, big>>
    /\ UNCHANGED <<travVars, chanVars, uploadVars, ctxDone>>

(* caseOutputCh <- ... blocks while the channel is full. *)
SendOutput ==
    /\ step = "send"
    /\ Len(caseOutputCh) < ChanCap
    /\ caseOutputCh' = Append(caseOutputCh, <<cur, case>>)
    /\ step' = "judge"
    /\ UNCHANGED <<travVars, case, conclusion, err, big, outputsClosed, uploadVars, ctxDone>>

(* Mutant: the error is assigned to a variable of the callback. *)
JudgeFailsShadowed ==
    /\ pc = "call" /\ step = "judge"
    /\ case < Cases[cur]
    /\ Trav!CallbackFalse
    /\ UNCHANGED <<resultVars, chanVars, uploadVars, ctxDone>>

(* Judge fails: the callback returns false. *)
JudgeFails ==
    /\ pc = "call" /\ step = "judge"
    /\ case < Cases[cur]
    /\ Trav!CallbackFalse
    /\ err' = TRUE
    /\ UNCHANGED <<case, step, conclusion, big, chanVars, uploadVars, ctxDone>>

(* All cases are judged: the callback returns true whatever they gave.     *)
EndSubtask ==
    /\ pc = "call" /\ step = "judge"
    /\ case = Cases[cur]
    /\ Trav!CallbackTrue
    /\ UNCHANGED <<resultVars, chanVars, uploadVars, ctxDone>>

(* Mutant: caseOutputCh is not closed. *)
LeaveOutputsOpen ==
    /\ pc = "done" /\ step = "judge"
    /\ step' = "wait"
    /\ UNCHANGED <<travVars, case, conclusion, err, big, chanVars, uploadVars, ctxDone>>

CloseOutputs ==
    /\ pc = "done" /\ step = "judge"
    /\ outputsClosed' = TRUE
    /\ step' = "wait"
    /\ UNCHANGED <<travVars, case, conclusion, err, big, caseOutputCh, uploadVars, ctxDone>>

(* Mutant: judgeOnDAG does not wait for the uploader. *)
ReturnEarly ==
    /\ step = "wait"
    /\ step' = "returned"
    /\ UNCHANGED <<travVars, case, conclusion, err, big, chanVars, uploadVars, ctxDone>>

(* uploadFinishCh is unbuffered: the uploader ends as judgeOnDAG returns.  *)
Return ==
    /\ step = "wait" /\ uploader = "finish"
    /\ step' = "returned"
    /\ uploader' = "done"
    /\ UNCHANGED <<travVars, case, conclusion, err, big, chanVars, output, tries, attempts,
                   outputKey, dropped, ctxDone>>

-----------------------------------------------------------------------------
(* The uploader.  Its select takes either branch when both are ready.      *)

UploadVarsBut(v) == UNCHANGED <<travVars, resultVars, outputsClosed, ctxDone, v>>

Attempt == attempts' = [attempts EXCEPT ![output] = @ + 1]

(* Mutant: one backoff counts the failures of all outputs. *)
TakeOutputKeepsTries ==
    /\ uploader = "select"
    /\ caseOutputCh # <<>>
    /\ output' = Head(caseOutputCh)
    /\ caseOutputCh' = Tail(caseOutputCh)
    /\ uploader' = "upload"
    /\ UploadVarsBut(<<tries, attempts, outputKey, dropped>>)

TakeOutput ==
    /\ uploader = "select"
    /\ caseOutputCh # <<>>
    /\ output' = Head(caseOutputCh)
    /\ caseOutputCh' = Tail(caseOutputCh)
    /\ tries' = 0
    /\ uploader' = "upload"
    /\ UploadVarsBut(<<attempts, outputKey, dropped>>)

(* Mutant: the uploader leaves as soon as the channel is closed. *)
StopUploaderEarly ==
    /\ uploader = "select"
    /\ ctxDone \/ outputsClosed
    /\ uploader' = "finish"
    /\ UploadVarsBut(<<caseOutputCh, output, tries, attempts, outputKey, dropped>>)

StopUploader ==
    /\ uploader = "select"
    /\ ctxDone \/ (outputsClosed /\ caseOutputCh = <<>>)
    /\ uploader' = "finish"
    /\ UploadVarsBut(<<caseOutputCh, output, tries, attempts, outputKey, dropped>>)

UploadOk ==
    /\ uploader = "upload"
    /\ Attempt
    /\ outputKey' = outputKey \cup {output}
    /\ output' = NoOutput
    /\ uploader' = "select"
    /\ UploadVarsBut(<<caseOutputCh, tries, dropped>>)

DropOutput ==
    /\ dropped' = dropped \cup {output}
    /\ output' = NoOutput
    /\ uploader' = "select"
    /\ UNCHANGED tries

PauseAndRetry ==
    /\ tries' = tries + 1
    /\ uploader' = "backoff"
    /\ UNCHANGED <<output, dropped>>

(* Seek or PutResourceStream fails. *)
UploadFails ==
    /\ uploader = "upload"
    /\ Attempt
    /\ \/ tries < MaxRetries /\ ~ctxDone /\ PauseAndRetry
       \/ (tries = MaxRetries \/ ctxDone) /\ DropOutput
    /\ UploadVarsBut(<<caseOutputCh, outputKey>>)

RetryUpload ==
    /\ uploader = "backoff"
    /\ \/ uploader' = "upload" /\ UNCHANGED <<output, tries, dropped>>
       \/ ctxDone /\ DropOutput
    /\ UploadVarsBut(<<caseOutputCh, attempts, outputKey>>)

CancelContext ==
    /\ step # "returned"
    /\ ~ctxDone
    /\ ctxDone' = TRUE
    /\ UNCHANGED <<travVars, resultVars, chanVars, uploadVars>>

-----------------------------------------------------------------------------

Judging ==
    \/ Walk \/ StartSubtask
    \/ \E accepts, long \in BOOLEAN : JudgeCase(accepts, long)
    \/ SendOutput \/ JudgeFails \/ EndSubtask \/ CloseOutputs \/ Return

Uploading == TakeOutput \/ StopUploader \/ UploadOk \/ UploadFails \/ RetryUpload

Next == Judging \/ Uploading \/ CancelContext

Spec == Init /\ [][Next]_vars

(* Both goroutines are scheduled fairly; Judge and PutResourceStream end.  *)
Fairness == WF_vars(Judging) /\ WF_vars(Uploading)
FairSpec == Spec /\ Fairness

-----------------------------------------------------------------------------
(* Properties *)

InChan == {caseOutputCh[i] : i \in DOMAIN caseOutputCh}

TypeOK ==
    /\ Trav!TypeOK
    /\ case \in Nat /\ (pc = "call" => case <= Cases[cur])
    /\ step \in {"judge", "send", "wait", "returned"}
    /\ conclusion \in [Subtasks -> Conclusions]
    /\ big \subseteq Outputs /\ outputKey \subseteq Outputs /\ dropped \subseteq Outputs
    /\ caseOutputCh \in Seq(Outputs) /\ Len(caseOutputCh) <= ChanCap
    /\ uploader \in {"select", "upload", "backoff", "finish", "done"}
    /\ output \in Outputs \cup {NoOutput}
    /\ tries \in 0..MaxRetries /\ attempts \in [Outputs -> Nat]
    /\ {err, outputsClosed, ctxDone} \subseteq BOOLEAN

GivenUpOK == \A o \in dropped : attempts[o] = MaxRetries + 1 \/ ctxDone

(* No output is lost or uploaded twice: it is in the channel, in the hands *)
(* of the uploader, uploaded or given up, or about to be sent.  An output  *)
(* is given up only when its own upload was attempted as often as the      *)
(* backoff allows, or for a context that has ended.                        *)
OutputsAccounted ==
    /\ TypeOK
    /\ big = InChan \cup outputKey \cup dropped
             \cup (IF step = "send" THEN {<<cur, case>>} ELSE {})
             \cup (IF output # NoOutput THEN {output} ELSE {})
    /\ \A i, j \in DOMAIN caseOutputCh : caseOutputCh[i] = caseOutputCh[j] => i = j
    /\ (InChan \cup {output}) \cap (outputKey \cup dropped) = {}
    /\ output \notin InChan
    /\ outputKey \cap dropped = {}
    /\ GivenUpOK

(* Without a cancellation all outputs were tried when judgeOnDAG returns.  *)
AllUploadsTried ==
    step = "returned" /\ ~ctxDone => big = outputKey \cup dropped

(* The results that judgeOnDAG has returned are not written to any more.   *)
ResultStable == [][step = "returned" => UNCHANGED <<outputKey, conclusion>>]_vars

(* judgeOnDAG returns if its context stays alive, or if all outputs it has  *)
(* to upload fit into the channel; otherwise the callback may block on the *)
(* channel for ever, since the uploader leaves with the context.           *)
ReturnsUnlessStuck == [](~ctxDone \/ Cardinality(big) <= ChanCap) => <>(step = "returned")

(* The named result err, which all callbacks share, tells of a failure of  *)
(* Judge in the last subtask that was run, whatever the uploader does      *)
(* meanwhile, and never of a failure that did not happen.  A failure in an *)
(* earlier subtask is overwritten by the next success.                     *)
LastFailureReported ==
    step = "returned" =>
        /\ err => accepted # vis
        /\ cur \in vis \ accepted => err

-----------------------------------------------------------------------------
(* The inductive invariant behind the theorems of JudgeOnDagProofs.        *)

(* An output that is about to be sent is nowhere else; the channel is      *)
(* closed when the traversal is over, and nothing is sent after that.      *)
SenderOK ==
    /\ step = "send" =>
        /\ pc = "call"
        /\ <<cur, case>> \notin InChan \cup outputKey \cup dropped \cup {output}
    /\ outputsClosed <=> step \in {"wait", "returned"}
    /\ outputsClosed => pc = "done"

(* The uploader leaves an empty channel behind, or a context that ended.   *)
UploaderOK ==
    /\ output # NoOutput <=> uploader \in {"upload", "backoff"}
    /\ uploader = "done" <=> step = "returned"
    /\ uploader \in {"finish", "done"} => ctxDone \/ (outputsClosed /\ caseOutputCh = <<>>)

(* tries counts the attempts for the output in hand, and for no other.     *)
AttemptsOK ==
    /\ output # NoOutput => attempts[output] = tries
    /\ \A o \in Outputs \ (outputKey \cup dropped \cup {output}) : attempts[o] = 0

(* Outputs come from cases that have been judged.                          *)
OutputsJudged == \A o \in big : o[1] \in vis /\ (pc = "call" /\ o[1] = cur => o[2] <= case)

(* err tells of a callback that has returned false.                        *)
ErrOK ==
    /\ err => \E n \in vis \ accepted : ~(pc = "call" /\ n = cur)
    /\ pc # "call" /\ cur \in vis \ accepted => err

JudgeInv ==
    /\ Trav!TravInv /\ OutputsAccounted
    /\ SenderOK /\ UploaderOK /\ AttemptsOK /\ OutputsJudged /\ ErrOK
=============================================================================

---------------------------- MODULE SubtaskGraph ----------------------------
(***************************************************************************)
(* The life of a subtask graph: verifyProblem (src/resource/check.go)      *)
(* searches it for cycles before the problem is cached, and only then      *)
(* judgeOnDAG traverses it.  Both steps build it with NewSubtaskGraph from *)
(* the same problem.                                                       *)
(***************************************************************************)
EXTENDS Traverse

VARIABLES
    todo, checked, stk, frames, verdict     \* see CycleCheck

checkVars == <<todo, checked, stk, frames, verdict>>

Check == INSTANCE CycleCheck WITH vis <- checked

VerifiedInit == Init /\ Check!Init

Verify == Check!Next /\ UNCHANGED vars

Walk == verdict = "dag" /\ Next /\ UNCHANGED checkVars

VerifiedNext == Verify \/ Walk

VerifiedSpec == VerifiedInit /\ [][VerifiedNext]_<<vars, checkVars>>

-----------------------------------------------------------------------------
(* The properties of CycleCheck, and the types of Traverse: the stack of   *)
(* calls is a path of the graph, and the verdict is right.                 *)

StackOK == Check!StackOK /\ TypeOK
VerdictCorrect == Check!VerdictCorrect
=============================================================================

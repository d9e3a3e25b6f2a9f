----------------------------- MODULE CycleCheck -----------------------------
(***************************************************************************)
(* Graph.IsDAG (src/model/dag.go): the depth-first search with which       *)
(* verifyProblem rejects a problem whose subtasks depend on each other in  *)
(* a cycle.  The recursion of isCyclic is an explicit stack of frames.     *)
(* The subtasks and their dependencies come in any order, so the loops     *)
(* over IDs and Next[node] take the elements in any order.                 *)
(***************************************************************************)
EXTENDS Naturals, Sequences, FiniteSets

CONSTANTS
    Ids,        \* subtask ids that occur in the problem
    Listed      \* the ids that are subtasks; the others are only named as
                \* dependencies

VARIABLES
    next,       \* Graph.Next, as sets of nodes
    todo,       \* g.IDs the outer loop has not reached
    vis,        \* vis[node]
    stk,        \* stk[node]
    frames,     \* the calls of isCyclic that are running
    verdict     \* what IsDAG returned

vars == <<next, todo, vis, stk, frames, verdict>>

(* NewSubtaskGraph: the edges lead from a subtask to its dependencies. *)
Edges == {e \in [Ids -> SUBSET Ids] : \A n \in Ids \ Listed : e[n] = {}}

Frames == [node : Ids, rest : SUBSET Ids]

Init ==
    /\ next \in Edges
    /\ todo = Listed
    /\ vis = {}
    /\ stk = {}
    /\ frames = <<>>
    /\ verdict = "none"

-----------------------------------------------------------------------------

Top == frames[Len(frames)]
Callers == SubSeq(frames, 1, Len(frames) - 1)

Searching == verdict = "none" /\ frames # <<>>

(* A call of isCyclic(n). *)
Mark(n) ==
    /\ vis' = vis \cup {n}
    /\ stk' = stk \cup {n}

TryRoot(n) ==
    /\ verdict = "none" /\ frames = <<>>
    /\ n \in todo \ vis
    /\ todo' = todo \ {n}
    /\ Mark(n)
    /\ frames' = <<[node |-> n, rest |-> next[n]]>>
    /\ UNCHANGED <<next, verdict>>

SkipRoot(n) ==
    /\ verdict = "none" /\ frames = <<>>
    /\ n \in todo \cap vis
    /\ todo' = todo \ {n}
    /\ UNCHANGED <<next, vis, stk, frames, verdict>>

(* The frame of the running call after it has looked at n. *)
Advanced(n) == Append(Callers, [Top EXCEPT !.rest = @ \ {n}])

Descend(n) ==
    /\ Searching
    /\ n \in Top.rest \ (stk \cup vis)
    /\ Mark(n)
    /\ frames' = Append(Advanced(n), [node |-> n, rest |-> next[n]])
    /\ UNCHANGED <<next, todo, verdict>>

SkipVisited(n) ==
    /\ Searching
    /\ n \in (Top.rest \cap vis) \ stk
    /\ frames' = Advanced(n)
    /\ UNCHANGED <<next, todo, vis, stk, verdict>>

(* An edge to a node of the running calls: every call returns true. *)
BackEdge(n) ==
    /\ Searching
    /\ n \in Top.rest \cap stk
    /\ verdict' = "cyclic"
    /\ UNCHANGED <<next, todo, vis, stk, frames>>

(* Mutant: stk[node] is not reset. *)
LeaveMarked ==
    /\ Searching
    /\ Top.rest = {}
    /\ frames' = Callers
    /\ UNCHANGED <<next, todo, vis, stk, verdict>>

Leave ==
    /\ Searching
    /\ Top.rest = {}
    /\ stk' = stk \ {Top.node}
    /\ frames' = Callers
    /\ UNCHANGED <<next, todo, vis, verdict>>

Finish ==
    /\ verdict = "none" /\ frames = <<>>
    /\ todo = {}
    /\ verdict' = "dag"
    /\ UNCHANGED <<next, todo, vis, stk, frames>>

Next ==
    \/ \E n \in Ids : TryRoot(n) \/ SkipRoot(n) \/ Descend(n) \/ SkipVisited(n) \/ BackEdge(n)
    \/ Leave
    \/ Finish

Spec == Init /\ [][Next]_vars

-----------------------------------------------------------------------------
(* Properties *)

Nodes == {frames[i].node : i \in DOMAIN frames}

(* The stack is a path of the graph without repetitions, and stk marks     *)
(* exactly its nodes.                                                      *)
StackOK ==
    /\ next \in Edges
    /\ todo \subseteq Listed /\ stk \subseteq vis /\ vis \subseteq Ids
    /\ verdict \in {"none", "dag", "cyclic"}
    /\ frames \in Seq(Frames)
    /\ stk = Nodes
    /\ \A i, j \in DOMAIN frames : frames[i].node = frames[j].node => i = j
    /\ \A i \in DOMAIN frames : frames[i].rest \subseteq next[frames[i].node]
    /\ \A i \in 1..(Len(frames) - 1) : frames[i + 1].node \in next[frames[i].node]

(* A graph of finitely many nodes has a cycle if and only if some nonempty *)
(* set of nodes can be walked through for ever.                            *)
Closed(S, e) == S # {} /\ \A n \in S : e[n] \cap S # {}
Acyclic(e) == \A S \in SUBSET Ids : ~Closed(S, e)

(* IsDAG answers true exactly for the graphs without a cycle or self loop. *)
VerdictCorrect ==
    /\ verdict = "dag" => Acyclic(next)
    /\ verdict = "cyclic" => ~Acyclic(next)

-----------------------------------------------------------------------------
(* The inductive invariant behind the theorems of SubtaskGraphProofs.      *)

Finished == vis \ stk

(* The search has gone through everything behind a finished node, and      *)
(* behind the edges that a running call has looked at.                     *)
FinishedClosed == \A n \in Finished : next[n] \subseteq Finished

LookedAt(i) == next[frames[i].node] \ frames[i].rest
CallsBehind ==
    \A i \in DOMAIN frames :
        LookedAt(i) \subseteq
            Finished \cup (IF i < Len(frames) THEN {frames[i + 1].node} ELSE {})

NoCycleFinished == \A S \in SUBSET Finished : ~Closed(S, next)

VerdictWarranted ==
    /\ verdict = "dag" => frames = <<>> /\ todo = {}
    /\ verdict = "cyclic" => ~Acyclic(next)

CycleInv ==
    /\ StackOK /\ FinishedClosed /\ CallsBehind /\ NoCycleFinished /\ VerdictWarranted
    /\ Listed \subseteq todo \cup vis
=============================================================================

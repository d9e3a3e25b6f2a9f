------------------------------ MODULE Traverse ------------------------------
(***************************************************************************)
(* NewSubtaskGraph and Graph.Traverse (src/model/dag.go): the loop that    *)
(* hands the subtasks to a callback in topological order, as judgeOnDAG    *)
(* uses it.  The callback may return false, which cuts off the nodes       *)
(* behind the current one.  IDs and Next[id] come in any order; ids that   *)
(* occur twice in one list are not modelled.                               *)
(***************************************************************************)
EXTENDS Naturals, Sequences, FiniteSets

CONSTANTS
    Ids,        \* subtask ids that occur in the problem
    Listed,     \* the ids that are subtasks; the others are only named as
                \* dependencies
    NoNode      \* the value of cur before the first node

ASSUME GraphAssumption ==
    /\ IsFiniteSet(Ids)
    /\ Listed \subseteq Ids
    /\ NoNode \notin Ids

VARIABLES
    next,       \* Graph.Next, as sets of nodes
    in,         \* Graph.In
    queue,      \* nodes whose predecessors are done
    vis,        \* nodes taken from the queue
    accepted,   \* nodes for which the callback returned true
    pc,         \* scan the ids, pop the queue, call f, expand the edges, done
    cur,        \* the node whose callback runs or whose edges are removed
    rest        \* what the running loop (over IDs or Next[id]) has left

vars == <<next, in, queue, vis, accepted, pc, cur, rest>>

Edges == {e \in [Ids -> SUBSET Ids] : \A n \in Ids \ Listed : e[n] = {}}
Preds(n) == {m \in Ids : n \in next[m]}

(* NewSubtaskGraph *)
Init ==
    /\ next \in Edges
    /\ in = [n \in Ids |-> Cardinality(Preds(n))]
    /\ queue = <<>>
    /\ vis = {}
    /\ accepted = {}
    /\ pc = "scan"
    /\ cur = NoNode
    /\ rest = Listed

-----------------------------------------------------------------------------

Scan(n) ==
    /\ pc = "scan"
    /\ n \in rest
    /\ rest' = rest \ {n}
    /\ queue' = IF in[n] = 0 THEN Append(queue, n) ELSE queue
    /\ UNCHANGED <<next, in, vis, accepted, pc, cur>>

EndLoop ==
    /\ pc \in {"scan", "expand"}
    /\ rest = {}
    /\ pc' = "pop"
    /\ UNCHANGED <<next, in, queue, vis, accepted, cur, rest>>

Pop ==
    /\ pc = "pop"
    /\ queue # <<>>
    /\ cur' = Head(queue)
    /\ queue' = Tail(queue)
    /\ vis' = vis \cup {cur'}
    /\ pc' = "call"
    /\ UNCHANGED <<next, in, accepted, rest>>

CallbackTrue ==
    /\ pc = "call"
    /\ accepted' = accepted \cup {cur}
    /\ rest' = next[cur]
    /\ pc' = "expand"
    /\ UNCHANGED <<next, in, queue, vis, cur>>

CallbackFalse ==
    /\ pc = "call"
    /\ pc' = "pop"
    /\ UNCHANGED <<next, in, queue, vis, accepted, cur, rest>>

(* Mutant: a successor is pushed without waiting for its other edges. *)
RemoveEdgeEager(n) ==
    /\ pc = "expand"
    /\ n \in rest
    /\ rest' = rest \ {n}
    /\ in' = [in EXCEPT ![n] = @ - 1]
    /\ queue' = Append(queue, n)
    /\ UNCHANGED <<next, vis, accepted, pc, cur>>

(* Mutant: the count is compared before it is decremented. *)
RemoveEdgeLate(n) ==
    /\ pc = "expand"
    /\ n \in rest
    /\ rest' = rest \ {n}
    /\ in' = [in EXCEPT ![n] = @ - 1]
    /\ queue' = IF in[n] = 0 THEN Append(queue, n) ELSE queue
    /\ UNCHANGED <<next, vis, accepted, pc, cur>>

RemoveEdge(n) ==
    /\ pc = "expand"
    /\ n \in rest
    /\ rest' = rest \ {n}
    /\ in' = [in EXCEPT ![n] = @ - 1]
    /\ queue' = IF in'[n] = 0 THEN Append(queue, n) ELSE queue
    /\ UNCHANGED <<next, vis, accepted, pc, cur>>

Finish ==
    /\ pc = "pop"
    /\ queue = <<>>
    /\ pc' = "done"
    /\ UNCHANGED <<next, in, queue, vis, accepted, cur, rest>>

Next ==
    \/ \E n \in Ids : Scan(n) \/ RemoveEdge(n)
    \/ EndLoop \/ Pop \/ CallbackTrue \/ CallbackFalse \/ Finish

Spec == Init /\ [][Next]_vars

-----------------------------------------------------------------------------
(* Properties *)

Queued == {queue[i] : i \in DOMAIN queue}

TypeOK ==
    /\ next \in Edges
    /\ in \in [Ids -> Nat]
    /\ queue \in Seq(Ids)
    /\ vis \subseteq Ids /\ accepted \subseteq vis
    /\ pc \in {"scan", "pop", "call", "expand", "done"}
    /\ cur \in Ids \cup {NoNode} /\ rest \subseteq Ids
    /\ pc \in {"call", "expand"} => cur \in vis

(* No node is handed to the callback twice: it enters the queue once.      *)
CalledOnce ==
    /\ \A i, j \in DOMAIN queue : queue[i] = queue[j] => i = j
    /\ Queued \cap vis = {}

(* A node reaches the queue only after the callback of each predecessor    *)
(* has returned true.                                                      *)
Topological == \A n \in Queued \cup vis : Preds(n) \subseteq accepted

(* When Traverse returns, it has visited every node it could: those whose  *)
(* predecessors were all accepted; hence all subtasks of an acyclic graph  *)
(* if no callback returned false.                                          *)
Closed(S, e) == S # {} /\ \A n \in S : e[n] \cap S # {}
Acyclic(e) == \A S \in SUBSET Ids : ~Closed(S, e)
VisitsAllPossible ==
    pc = "done" =>
        /\ \A n \in Ids :
            (Preds(n) \subseteq accepted /\ (n \in Listed \/ Preds(n) # {})) => n \in vis
        /\ (Acyclic(next) /\ accepted = vis) => Listed \subseteq vis

(* A subtask is run only when the subtasks it depends on have been run.    *)
DependenciesFirst == pc = "call" => next[cur] \subseteq vis

-----------------------------------------------------------------------------
(* The inductive invariant behind the theorems of TraverseProofs.          *)

(* The predecessors of n whose edges have not been removed yet.            *)
Pending(n) ==
    {m \in Preds(n) : m \notin accepted \/ (pc = "expand" /\ m = cur /\ n \in rest)}

InDegree == \A n \in Ids : in[n] = Cardinality(Pending(n))

Released == \A n \in Queued \cup vis : Pending(n) = {}

(* A node without pending edges was queued, unless it has yet to be scanned. *)
Reached ==
    \A n \in Ids :
        Pending(n) = {} /\ (n \in Listed \/ Preds(n) # {}) =>
            n \in Queued \cup vis \/ (pc = "scan" /\ n \in rest)

PhaseOK ==
    /\ pc = "scan" => vis = {} /\ rest \subseteq Listed /\ Queued \subseteq Listed \ rest
    /\ pc = "call" => cur \in vis \ accepted
    /\ pc = "expand" => cur \in accepted /\ rest \subseteq next[cur]
    /\ pc = "done" => queue = <<>>

TravInv == TypeOK /\ InDegree /\ Released /\ Reached /\ PhaseOK /\ CalledOnce
=============================================================================

------------------------- MODULE SubtaskGraphProofs -------------------------
(***************************************************************************)
(* Proofs about SubtaskGraph, for every finite graph and every answer of   *)
(* the callback.  First the traversal: TravInv is inductive, from which    *)
(* the order of the calls and their completeness follow.  Then the search  *)
(* for cycles: it keeps CycleInv, so its verdict is right.                 *)
(***************************************************************************)
EXTENDS SubtaskGraph, TLAPS, FiniteSetTheorems, WellFoundedInduction, SequenceTheorems

-----------------------------------------------------------------------------
(* Queues *)

(* What is queued after a push, and after a pop. *)
LEMMA PushFacts ==
    ASSUME NEW S, NEW q \in Seq(S), NEW x \in S
    PROVE  LET p == Append(q, x) IN
           /\ p \in Seq(S)
           /\ {p[i] : i \in DOMAIN p} = {q[i] : i \in DOMAIN q} \cup {x}
           /\ (/\ x \notin {q[i] : i \in DOMAIN q}
               /\ \A i, j \in DOMAIN q : q[i] = q[j] => i = j)
              => \A i, j \in DOMAIN p : p[i] = p[j] => i = j
<1> DEFINE p == Append(q, x)
<1>1. p \in Seq(S) /\ DOMAIN q = 1..Len(q) /\ DOMAIN p = 1..Len(q) + 1 /\ Len(q) \in Nat
    OBVIOUS
<1>2. \A i \in 1..Len(q) + 1 : p[i] = IF i = Len(q) + 1 THEN x ELSE q[i]
    OBVIOUS
<1> HIDE DEF p
<1>3. {p[i] : i \in DOMAIN p} = {q[i] : i \in DOMAIN q} \cup {x}
    BY <1>1, <1>2
<1>4. (/\ x \notin {q[i] : i \in DOMAIN q}
       /\ \A i, j \in DOMAIN q : q[i] = q[j] => i = j)
      => \A i, j \in DOMAIN p : p[i] = p[j] => i = j
    BY <1>1, <1>2
<1> QED
    BY <1>1, <1>3, <1>4 DEF p

LEMMA PopFacts ==
    ASSUME NEW S, NEW q \in Seq(S), q # <<>>,
           \A i, j \in DOMAIN q : q[i] = q[j] => i = j
    PROVE  LET p == Tail(q) IN
           /\ p \in Seq(S) /\ Head(q) \in S
           /\ {q[i] : i \in DOMAIN q} = {p[i] : i \in DOMAIN p} \cup {Head(q)}
           /\ Head(q) \notin {p[i] : i \in DOMAIN p}
           /\ \A i, j \in DOMAIN p : p[i] = p[j] => i = j
<1> DEFINE p == Tail(q)
<1>1. /\ p \in Seq(S) /\ Head(q) \in S /\ Head(q) = q[1]
      /\ Len(q) \in Nat /\ Len(q) >= 1
      /\ DOMAIN q = 1..Len(q) /\ DOMAIN p = 1..Len(q) - 1
    OBVIOUS
<1>2. \A i \in 1..Len(q) - 1 : p[i] = q[i + 1]
    OBVIOUS
<1> HIDE DEF p
<1>3. {q[i] : i \in DOMAIN q} = {p[i] : i \in DOMAIN p} \cup {Head(q)}
    <2>1. ASSUME NEW i \in DOMAIN q  PROVE q[i] \in {p[j] : j \in DOMAIN p} \cup {Head(q)}
        <3>1. CASE i = 1
            BY <3>1, <1>1
        <3>2. CASE i # 1
            <4>1. i - 1 \in DOMAIN p /\ p[i - 1] = q[i]
                BY <3>2, <1>1, <1>2
            <4> QED
                BY <4>1
        <3> QED
            BY <3>1, <3>2
    <2>2. ASSUME NEW i \in DOMAIN p  PROVE p[i] \in {q[j] : j \in DOMAIN q}
        <3>1. i + 1 \in DOMAIN q /\ p[i] = q[i + 1]
            BY <1>1, <1>2
        <3> QED
            BY <3>1
    <2>3. Head(q) \in {q[j] : j \in DOMAIN q}
        BY <1>1
    <2> QED
        BY <2>1, <2>2, <2>3
<1>4. /\ Head(q) \notin {p[i] : i \in DOMAIN p}
      /\ \A i, j \in DOMAIN p : p[i] = p[j] => i = j
    <2>1. ASSUME NEW i \in DOMAIN p, NEW j \in DOMAIN q, p[i] = q[j]  PROVE j = i + 1
        <3>1. i + 1 \in DOMAIN q /\ q[i + 1] = q[j]
            BY <2>1, <1>1, <1>2
        <3> QED
            BY <3>1
    <2>2. Head(q) \notin {p[i] : i \in DOMAIN p}
        BY <2>1, <1>1
    <2>3. ASSUME NEW i \in DOMAIN p, NEW j \in DOMAIN p, p[i] = p[j]  PROVE i = j
        <3>1. j + 1 \in DOMAIN q /\ p[i] = q[j + 1]
            BY <2>3, <1>1, <1>2
        <3> QED
            BY <2>1, <3>1, <1>1
    <2> QED
        BY <2>2, <2>3
<1> QED
    BY <1>1, <1>3, <1>4 DEF p

-----------------------------------------------------------------------------
(* The invariant *)

LEMMA PredsFinite ==
    ASSUME NEW n \in Ids
    PROVE  /\ IsFiniteSet(Preds(n)) /\ IsFiniteSet(Pending(n))
           /\ Cardinality(Preds(n)) \in Nat /\ Cardinality(Pending(n)) \in Nat
<1>1. Preds(n) \in SUBSET Ids /\ Pending(n) \in SUBSET Ids
    BY DEF Preds, Pending
<1> QED
    BY <1>1, FS_Subset, FS_CardinalityType, GraphAssumption DEF GraphAssumption

LEMMA QueuedType == TypeOK => Queued \cup vis \subseteq Ids
BY DEF TypeOK, Queued

LEMMA TravInvInit == Init => TravInv
<1> SUFFICES ASSUME Init  PROVE TravInv
    OBVIOUS
<1> USE DEF Init
<1>1. Queued = {}
    BY DEF Queued
<1>2. \A n \in Ids : Pending(n) = Preds(n)
    BY DEF Pending
<1>3. TypeOK
    BY PredsFinite, GraphAssumption DEF GraphAssumption, TypeOK
<1>4. InDegree
    BY <1>2 DEF InDegree
<1>5. Released /\ Reached /\ PhaseOK /\ CalledOnce
    BY <1>1, <1>2 DEF Released, Reached, PhaseOK, CalledOnce, Queued
<1> QED
    BY <1>3, <1>4, <1>5 DEF TravInv

(* Only the end of an edge changes the pending predecessors of a node.     *)
LEMMA PendingKept ==
    ASSUME TravInv, NEW n \in Ids,
           \/ EndLoop \/ Pop \/ CallbackTrue \/ CallbackFalse \/ Finish
           \/ \E m \in Ids : Scan(m)
    PROVE  Pending(n)' = Pending(n)
<1> USE DEF TravInv, Pending, Preds
<1>1. CASE EndLoop
    BY <1>1 DEF EndLoop
<1>2. CASE Pop
    BY <1>2 DEF Pop
<1>3. CASE CallbackTrue
    BY <1>3 DEF CallbackTrue, PhaseOK
<1>4. CASE CallbackFalse \/ Finish
    BY <1>4 DEF CallbackFalse, Finish
<1>5. CASE \E m \in Ids : Scan(m)
    BY <1>5 DEF Scan
<1> QED
    BY <1>1, <1>2, <1>3, <1>4, <1>5

LEMMA ScanKeeps ==
    ASSUME TravInv, NEW n \in Ids, Scan(n)
    PROVE  TravInv'
<1> USE DEF Scan
<1>1. \A m \in Ids : Pending(m)' = Pending(m)
    BY PendingKept
<1>2. \A m \in Ids : Preds(m)' = Preds(m)
    BY DEF Preds
<1>3. /\ queue' \in Seq(Ids)
      /\ Queued' = IF in[n] = 0 THEN Queued \cup {n} ELSE Queued
      /\ \A i, j \in DOMAIN queue' : queue'[i] = queue'[j] => i = j
    <2>1. queue \in Seq(Ids) /\ n \notin {queue[i] : i \in DOMAIN queue}
        BY DEF TravInv, TypeOK, PhaseOK, Queued
    <2>2. \A i, j \in DOMAIN queue : queue[i] = queue[j] => i = j
        BY DEF TravInv, CalledOnce
    <2> QED
        BY <2>1, <2>2, PushFacts DEF Queued
<1>4. in[n] = 0 <=> Pending(n) = {}
    BY FS_EmptySet, PredsFinite DEF TravInv, InDegree
<1>5. TypeOK'
    BY <1>3 DEF TravInv, TypeOK
<1>6. InDegree'
    BY <1>1 DEF TravInv, InDegree
<1>7. Released'
    BY <1>1, <1>3, <1>4, QueuedType DEF TravInv, Released
<1>8. Reached'
    BY <1>1, <1>2, <1>3, <1>4 DEF TravInv, Reached
<1>9. PhaseOK' /\ CalledOnce'
    BY <1>3 DEF TravInv, PhaseOK, CalledOnce
<1> QED
    BY <1>5, <1>6, <1>7, <1>8, <1>9 DEF TravInv

LEMMA PopKeeps ==
    ASSUME TravInv, Pop
    PROVE  TravInv'
<1> USE DEF Pop
<1>1. \A m \in Ids : Pending(m)' = Pending(m) /\ Preds(m)' = Preds(m)
    BY PendingKept DEF Preds
<1>2. /\ queue' \in Seq(Ids) /\ cur' \in Ids
      /\ Queued = Queued' \cup {cur'} /\ cur' \notin Queued'
      /\ \A i, j \in DOMAIN queue' : queue'[i] = queue'[j] => i = j
    <2>1. queue \in Seq(Ids) /\ queue # <<>>
        BY DEF TravInv, TypeOK
    <2>2. \A i, j \in DOMAIN queue : queue[i] = queue[j] => i = j
        BY DEF TravInv, CalledOnce
    <2> QED
        BY <2>1, <2>2, PopFacts DEF Queued
<1>3. cur' \notin vis /\ cur' \notin accepted
    BY <1>2 DEF TravInv, CalledOnce, TypeOK
<1>4. TypeOK'
    BY <1>2 DEF TravInv, TypeOK
<1>5. InDegree' /\ Released' /\ Reached'
    BY <1>1, <1>2, QueuedType DEF TravInv, InDegree, Released, Reached
<1>6. PhaseOK' /\ CalledOnce'
    BY <1>2, <1>3 DEF TravInv, PhaseOK, CalledOnce
<1> QED
    BY <1>4, <1>5, <1>6 DEF TravInv

(* The steps that leave queue and visited nodes alone.                     *)
LEMMA PhaseKeeps ==
    ASSUME TravInv, EndLoop \/ CallbackTrue \/ CallbackFalse \/ Finish
    PROVE  TravInv'
<1> USE DEF EndLoop, CallbackTrue, CallbackFalse, Finish
<1>1. \A m \in Ids : Pending(m)' = Pending(m) /\ Preds(m)' = Preds(m)
    BY PendingKept DEF Preds
<1>2. Queued' = Queued /\ queue' = queue /\ vis' = vis /\ in' = in
    BY DEF Queued
<1>3. TypeOK'
    <2>1. CASE CallbackTrue
        <3>1. cur \in Ids
            BY <2>1 DEF TravInv, TypeOK
        <3> QED
            BY <2>1, <3>1 DEF TravInv, TypeOK, Edges
    <2>2. CASE ~CallbackTrue
        BY <2>2 DEF TravInv, TypeOK
    <2> QED
        BY <2>1, <2>2
<1>4. InDegree' /\ Released' /\ Reached'
    BY <1>1, <1>2, QueuedType DEF TravInv, InDegree, Released, Reached
<1>5. PhaseOK' /\ CalledOnce'
    BY <1>2 DEF TravInv, PhaseOK, CalledOnce, TypeOK
<1> QED
    BY <1>3, <1>4, <1>5 DEF TravInv

LEMMA RemoveEdgeKeeps ==
    ASSUME TravInv, NEW n \in Ids, RemoveEdge(n)
    PROVE  TravInv'
<1> USE DEF RemoveEdge
<1>1. /\ Pending(n)' = Pending(n) \ {cur} /\ cur \in Pending(n)
      /\ \A m \in Ids \ {n} : Pending(m)' = Pending(m)
    BY DEF TravInv, PhaseOK, TypeOK, Pending, Preds
<1>2. \A m \in Ids : Preds(m)' = Preds(m)
    BY DEF Preds
<1>3. n \notin Queued \cup vis
    BY <1>1 DEF TravInv, Released
<1>4. in[n] = Cardinality(Pending(n)) /\ Cardinality(Pending(n)') = in[n] - 1
    <2>1. IsFiniteSet(Pending(n)) /\ Pending(n)' = Pending(n) \ {cur} /\ cur \in Pending(n)
        BY <1>1, PredsFinite
    <2>2. Cardinality(Pending(n) \ {cur}) = Cardinality(Pending(n)) - 1
        BY <2>1, FS_RemoveElement
    <2>3. in[n] = Cardinality(Pending(n))
        BY DEF TravInv, InDegree
    <2> QED
        BY <2>1, <2>2, <2>3
<1>5. /\ in' = [in EXCEPT ![n] = in[n] - 1]
      /\ in[n] - 1 \in Nat
      /\ in[n] - 1 = 0 <=> Pending(n)' = {}
    <2>1. IsFiniteSet(Pending(n)') /\ Cardinality(Pending(n)') \in Nat
        BY <1>1, FS_RemoveElement, FS_CardinalityType, PredsFinite
    <2> QED
        BY <1>4, <2>1, FS_EmptySet
<1>6. in' \in [Ids -> Nat] /\ in'[n] = in[n] - 1 /\ \A m \in Ids \ {n} : in'[m] = in[m]
    BY <1>5 DEF TravInv, TypeOK
<1>7. /\ queue' \in Seq(Ids)
      /\ Queued' = IF in'[n] = 0 THEN Queued \cup {n} ELSE Queued
      /\ \A i, j \in DOMAIN queue' : queue'[i] = queue'[j] => i = j
    <2>1. queue \in Seq(Ids) /\ n \notin {queue[i] : i \in DOMAIN queue}
        BY <1>3 DEF TravInv, TypeOK, Queued
    <2>2. \A i, j \in DOMAIN queue : queue[i] = queue[j] => i = j
        BY DEF TravInv, CalledOnce
    <2> QED
        BY <2>1, <2>2, PushFacts DEF Queued
<1>8. TypeOK'
    BY <1>6, <1>7 DEF TravInv, TypeOK
<1>9. InDegree'
    BY <1>1, <1>4, <1>6 DEF TravInv, InDegree
<1>10. Released'
    BY <1>1, <1>5, <1>6, <1>7, QueuedType DEF TravInv, Released
<1>11. Reached'
    BY <1>1, <1>2, <1>5, <1>6, <1>7 DEF TravInv, Reached
<1>12. PhaseOK' /\ CalledOnce'
    BY <1>3, <1>7 DEF TravInv, PhaseOK, CalledOnce
<1> QED
    BY <1>8, <1>9, <1>10, <1>11, <1>12 DEF TravInv

LEMMA TravInvNext == TravInv /\ [Next]_vars => TravInv'
<1> SUFFICES ASSUME TravInv, [Next]_vars  PROVE TravInv'
    OBVIOUS
<1>1. CASE UNCHANGED vars
    BY <1>1 DEF vars, TravInv, TypeOK, InDegree, Released, Reached, PhaseOK, CalledOnce,
        Pending, Preds, Queued
<1>2. CASE Next
    BY <1>2, ScanKeeps, RemoveEdgeKeeps, PopKeeps, PhaseKeeps DEF Next
<1> QED
    BY <1>1, <1>2

(* The invariant holds in every behaviour. *)
THEOREM TravCorrect == Spec => []TravInv
<1>1. Init => TravInv
    BY TravInvInit
<1>2. TravInv /\ [Next]_vars => TravInv'
    BY TravInvNext
<1> QED
    BY <1>1, <1>2, PTL DEF Spec

(* No node is handed to the callback twice (Graph.Traverse in dag.go).     *)
THEOREM CalledOnceCorrect == Spec => []CalledOnce
<1>1. TravInv => CalledOnce
    BY DEF TravInv
<1> QED
    BY <1>1, TravCorrect, PTL

(* A node is handed to the callback only after all its predecessors were,  *)
(* and were accepted: the count of edges that Traverse keeps is exact.     *)
THEOREM TopologicalCorrect == Spec => []Topological
<1>1. ASSUME TravInv, NEW n \in Queued \cup vis  PROVE Preds(n) \subseteq accepted
    BY <1>1 DEF TravInv, Released, Pending
<1>2. TravInv => Topological
    BY <1>1 DEF Topological
<1> QED
    BY <1>2, TravCorrect, PTL

-----------------------------------------------------------------------------
(* Completeness *)

(* A finite set in which every node has a predecessor has a nonempty       *)
(* subset in which every node has a successor: a smallest subset of the    *)
(* first kind is of the second, because a node without a successor could   *)
(* be taken from it.                                                       *)
LEMMA EndlessBothWays ==
    ASSUME NEW S, IsFiniteSet(S), S # {}, NEW e,
           \A n \in S : \E m \in S : n \in e[m]
    PROVE  \E T \in SUBSET S : Closed(T, e)
<1> DEFINE Endless == {T \in SUBSET S : T # {} /\ \A n \in T : \E m \in T : n \in e[m]}
<1>1. IsWellFoundedOn(StrictSubsetOrdering(S), FiniteSubsetsOf(S))
    BY FS_StrictSubsetOrderingWellFounded
<1>2. Endless \subseteq FiniteSubsetsOf(S)
    BY FS_FiniteSubsetsOfFinite
<1>3. S \in Endless
    OBVIOUS
<1>4. PICK T \in Endless : \A U \in Endless : <<U, T>> \notin StrictSubsetOrdering(S)
    <2>1. Endless # {}
        BY <1>3
    <2> HIDE DEF Endless
    <2> QED
        BY <1>1, <1>2, <2>1, WFMin
<1>5. ASSUME NEW n \in T, e[n] \cap T = {}  PROVE FALSE
    <2>1. \A k \in T : \E m \in T \ {n} : k \in e[m]
        BY <1>5
    <2>2. T \ {n} # {}
        BY <2>1
    <2>3. T \ {n} \in Endless
        BY <2>1, <2>2
    <2>4. <<T \ {n}, T>> \in StrictSubsetOrdering(S)
        BY DEF StrictSubsetOrdering
    <2> QED
        BY <1>4, <2>3, <2>4
<1> QED
    BY <1>5 DEF Closed

LEMMA VisitsAll == TravInv => VisitsAllPossible
<1> SUFFICES ASSUME TravInv, pc = "done"  PROVE VisitsAllPossible
    BY DEF VisitsAllPossible
<1>1. Queued = {}
    BY DEF TravInv, PhaseOK, Queued
<1>2. ASSUME NEW n \in Ids, Preds(n) \subseteq accepted, n \in Listed \/ Preds(n) # {}
      PROVE  n \in vis
    <2>1. Pending(n) = {}
        BY <1>2 DEF Pending
    <2> QED
        BY <1>1, <1>2, <2>1 DEF TravInv, Reached
<1>3. ASSUME Acyclic(next), accepted = vis, ~(Listed \subseteq vis)  PROVE FALSE
    <2> DEFINE S == Listed \ vis
    <2>1. S # {} /\ S \subseteq Ids /\ IsFiniteSet(S)
        BY <1>3, GraphAssumption, FS_Subset DEF GraphAssumption
    <2>2. ASSUME NEW n \in S  PROVE \E m \in S : n \in next[m]
        <3>1. PICK m \in Preds(n) : m \notin vis
            BY <1>2, <1>3, <2>1
        <3>2. m \in Listed
            BY <3>1 DEF TravInv, TypeOK, Edges, Preds
        <3> QED
            BY <3>1, <3>2 DEF Preds
    <2>3. PICK T \in SUBSET S : Closed(T, next)
        <3> HIDE DEF S
        <3> QED
            BY <2>1, <2>2, EndlessBothWays
    <2> QED
        BY <1>3, <2>1, <2>3 DEF Acyclic
<1> QED
    BY <1>2, <1>3 DEF VisitsAllPossible

(* When Traverse returns, it has visited every node whose predecessors     *)
(* were all accepted; on an acyclic graph whose callbacks all returned     *)
(* true that is every subtask.                                             *)
THEOREM VisitsAllCorrect == Spec => []VisitsAllPossible
BY VisitsAll, TravCorrect, PTL

-----------------------------------------------------------------------------
(* The search for cycles *)

(* The calls that are running. *)
LEMMA FramesFacts ==
    ASSUME frames \in Seq(Check!Frames), NEW L, L = Len(frames)
    PROVE  /\ L \in Nat /\ (frames # <<>> => L >= 1)
           /\ DOMAIN frames = 1..L
           /\ \A i \in 1..L :
                /\ frames[i] \in Check!Frames
                /\ frames[i].node \in Ids /\ frames[i].rest \in SUBSET Ids
           /\ 1..L + 1 = (1..L) \cup {L + 1}
           /\ (L >= 1 => 1..L = (1..L - 1) \cup {L})
<1>1. L \in Nat /\ DOMAIN frames = 1..L /\ (frames # <<>> => L >= 1)
    OBVIOUS
<1>2. \A i \in 1..L : frames[i] \in Check!Frames
    BY <1>1
<1>3. \A f \in Check!Frames : f.node \in Ids /\ f.rest \in SUBSET Ids
    BY DEF Check!Frames
<1>4. /\ 1..L + 1 = (1..L) \cup {L + 1}
      /\ (L >= 1 => 1..L = (1..L - 1) \cup {L})
    BY <1>1
<1> QED
    BY <1>1, <1>2, <1>3, <1>4

LEMMA CallersFacts ==
    ASSUME frames \in Seq(Check!Frames), frames # <<>>
    PROVE  /\ Check!Callers \in Seq(Check!Frames) /\ Len(Check!Callers) = Len(frames) - 1
           /\ \A i \in 1..Len(frames) - 1 : Check!Callers[i] = frames[i]
<1> DEFINE m == Len(frames) - 1
<1>1. m \in Nat /\ m <= Len(frames) /\ \A i \in 1..m : frames[i] \in Check!Frames
    OBVIOUS
<1> HIDE DEF m
<1>2. Check!Callers = [i \in 1..m |-> frames[i]]
    <2>1. Check!Callers = SubSeq(frames, 1, m)
        BY DEF Check!Callers, m
    <2>2. 1 - 1 + 1 = 1 /\ m - 1 + 1 = m
        BY <1>1
    <2> QED
        BY <1>1, <2>1
<1> QED
    BY <1>1, <1>2 DEF m

(* The stack of calls after a step of the running one, and after its end.  *)
LEMMA AdvancedFacts ==
    ASSUME NEW n, frames \in Seq(Check!Frames), frames # <<>>
    PROVE  /\ Check!Advanced(n) \in Seq(Check!Frames) /\ Len(Check!Advanced(n)) = Len(frames)
           /\ \A i \in 1..Len(frames) : Check!Advanced(n)[i].node = frames[i].node
           /\ \A i \in 1..Len(frames) - 1 : Check!Advanced(n)[i].rest = frames[i].rest
           /\ Check!Advanced(n)[Len(frames)].rest = frames[Len(frames)].rest \ {n}
<1> DEFINE L == Len(frames)
<1>1. L \in Nat /\ L >= 1 /\ Check!Top \in Check!Frames
    BY DEF Check!Top
<1>2. /\ Check!Callers \in Seq(Check!Frames) /\ Len(Check!Callers) = L - 1
      /\ \A i \in 1..L - 1 : Check!Callers[i] = frames[i]
    BY CallersFacts
<1> DEFINE f == [Check!Top EXCEPT !.rest = @ \ {n}]
<1>3. f \in Check!Frames /\ f.node = frames[L].node /\ f.rest = frames[L].rest \ {n}
    BY <1>1 DEF Check!Frames, Check!Top
<1>4. Check!Advanced(n) = Append(Check!Callers, f)
    BY DEF Check!Advanced
<1> HIDE DEF L, f
<1>5. Check!Advanced(n) \in Seq(Check!Frames) /\ Len(Check!Advanced(n)) = L
    BY <1>1, <1>2, <1>3, <1>4
<1>6. Check!Advanced(n)[L] = f /\ \A i \in 1..L - 1 : Check!Advanced(n)[i] = frames[i]
    BY <1>1, <1>2, <1>3, <1>4
<1>7. 1..L = (1..L - 1) \cup {L}
    BY <1>1
<1> QED
    BY <1>3, <1>5, <1>6, <1>7 DEF L

LEMMA CycleInvInit == Check!Init => Check!CycleInv
BY DEF Check!Init, Check!CycleInv, Check!StackOK, Check!Nodes, Check!FinishedClosed,
    Check!CallsBehind, Check!NoCycleFinished, Check!Closed,
    Check!Finished, Check!VerdictWarranted, Check!LookedAt

LEMMA TryRootKeeps ==
    ASSUME Check!CycleInv, NEW n \in Ids, Check!TryRoot(n)
    PROVE  Check!CycleInv'
<1> USE DEF Check!TryRoot, Check!Mark
<1>1. Check!Finished' = Check!Finished /\ n \notin checked /\ stk = {}
    BY DEF Check!CycleInv, Check!StackOK, Check!Finished, Check!Nodes
<1>2. /\ frames' \in Seq(Check!Frames) /\ Len(frames') = 1 /\ DOMAIN frames' = {1}
      /\ frames'[1].node = n /\ frames'[1].rest = next[n]
    BY DEF Check!CycleInv, Check!StackOK, Check!Frames, Check!Edges
<1>3. Check!StackOK'
    BY <1>1, <1>2 DEF Check!CycleInv, Check!StackOK, Check!Nodes
<1>4. Check!FinishedClosed' /\ Check!NoCycleFinished' /\ Check!VerdictWarranted'
    BY <1>1 DEF Check!CycleInv, Check!FinishedClosed, Check!NoCycleFinished,
        Check!VerdictWarranted
<1>5. Check!CallsBehind'
    BY <1>2 DEF Check!CallsBehind, Check!LookedAt
<1> QED
    BY <1>3, <1>4, <1>5 DEF Check!CycleInv

LEMMA DescendKeeps ==
    ASSUME Check!CycleInv, NEW n \in Ids, Check!Descend(n)
    PROVE  Check!CycleInv'
<1> USE DEF Check!Descend, Check!Mark, Check!Searching
<1> PICK L : L = Len(frames)
    OBVIOUS
<1>1. /\ Check!Finished' = Check!Finished /\ frames \in Seq(Check!Frames)
      /\ n \notin checked /\ n \notin stk
    BY DEF Check!CycleInv, Check!StackOK, Check!Finished
<1>2. /\ L \in Nat /\ L >= 1 /\ DOMAIN frames = 1..L
      /\ \A i \in 1..L : frames[i].node \in Ids
      /\ 1..L + 1 = (1..L) \cup {L + 1} /\ 1..L = (1..L - 1) \cup {L}
    BY <1>1, FramesFacts
<1>3. [node |-> n, rest |-> next[n]] \in Check!Frames
    BY DEF Check!CycleInv, Check!StackOK, Check!Frames, Check!Edges
<1>4. /\ frames' \in Seq(Check!Frames) /\ Len(frames') = L + 1 /\ DOMAIN frames' = 1..L + 1
      /\ \A i \in 1..L : frames'[i].node = frames[i].node
      /\ \A i \in 1..L - 1 : frames'[i].rest = frames[i].rest
      /\ frames'[L].rest = frames[L].rest \ {n}
      /\ frames'[L + 1].node = n /\ frames'[L + 1].rest = next[n]
    BY <1>1, <1>2, <1>3, AdvancedFacts
<1>5. n \in frames[L].rest /\ n \in next[frames[L].node]
    BY <1>2 DEF Check!Top, Check!CycleInv, Check!StackOK
<1>6. Check!StackOK'
    <2>1. stk' = Check!Nodes'
        <3>1. Check!Nodes' = {frames'[i].node : i \in 1..L} \cup {frames'[L + 1].node}
            <4>1. Check!Nodes' = {frames'[i].node : i \in (1..L) \cup {L + 1}}
                BY <1>2, <1>4 DEF Check!Nodes
            <4> QED
                BY <4>1
        <3>2. {frames'[i].node : i \in 1..L} = {frames[i].node : i \in 1..L}
            BY <1>4
        <3>3. stk = {frames[i].node : i \in 1..L}
            BY <1>2 DEF Check!CycleInv, Check!StackOK, Check!Nodes
        <3> QED
            BY <1>4, <3>1, <3>2, <3>3
    <2>2. \A i \in 1..L : frames[i].node # n
        BY <1>1, <1>2 DEF Check!CycleInv, Check!StackOK, Check!Nodes
    <2>3. \A i, j \in DOMAIN frames' : frames'[i].node = frames'[j].node => i = j
        BY <1>2, <1>4, <2>2 DEF Check!CycleInv, Check!StackOK
    <2>4. \A i \in DOMAIN frames' : frames'[i].rest \subseteq next[frames'[i].node]
        BY <1>2, <1>4 DEF Check!CycleInv, Check!StackOK
    <2>5. ASSUME NEW i \in 1..L  PROVE frames'[i + 1].node \in next[frames'[i].node]
        <3>1. CASE i = L
            BY <3>1, <1>2, <1>4, <1>5
        <3>2. CASE i # L
            <4>1. i \in 1..L - 1 /\ i + 1 \in 1..L
                BY <3>2, <1>2
            <4> QED
                BY <4>1, <1>2, <1>4 DEF Check!CycleInv, Check!StackOK
        <3> QED
            BY <3>1, <3>2
    <2>6. \A i \in 1..(Len(frames') - 1) : frames'[i + 1].node \in next'[frames'[i].node]
        BY <1>2, <1>4, <2>5
    <2> QED
        BY <1>1, <1>4, <2>1, <2>3, <2>4, <2>6 DEF Check!CycleInv, Check!StackOK
<1>7. Check!FinishedClosed' /\ Check!NoCycleFinished' /\ Check!VerdictWarranted'
    BY <1>1 DEF Check!CycleInv, Check!FinishedClosed, Check!NoCycleFinished,
        Check!VerdictWarranted, Check!Closed
<1>8. Check!CallsBehind'
    <2>1. ASSUME NEW i \in 1..L - 1
          PROVE  Check!LookedAt(i)' \subseteq Check!Finished \cup {frames'[i + 1].node}
        <3>1. i \in 1..L /\ i + 1 \in 1..L /\ i < L
            BY <1>2
        <3>2. Check!LookedAt(i)' = Check!LookedAt(i)
            BY <1>4, <3>1 DEF Check!LookedAt
        <3> QED
            BY <1>2, <1>4, <3>1, <3>2 DEF Check!CycleInv, Check!CallsBehind
    <2>2. Check!LookedAt(L)' \subseteq Check!Finished \cup {n}
        <3>1. Check!LookedAt(L)' \subseteq Check!LookedAt(L) \cup {n} /\ L \in DOMAIN frames
            BY <1>2, <1>4 DEF Check!LookedAt
        <3> QED
            BY <3>1, <1>2 DEF Check!CycleInv, Check!CallsBehind
    <2>3. Check!LookedAt(L + 1)' = {}
        BY <1>4 DEF Check!LookedAt
    <2>4. \A i \in 1..L : i < L + 1
        BY <1>2
    <2>5. ASSUME NEW i \in 1..L + 1
          PROVE  Check!LookedAt(i)' \subseteq
                    Check!Finished' \cup (IF i < Len(frames') THEN {frames'[i + 1].node} ELSE {})
        BY <1>1, <1>2, <1>4, <2>1, <2>2, <2>3, <2>4
    <2> QED
        BY <1>4, <2>5 DEF Check!CallsBehind
<1> QED
    BY <1>6, <1>7, <1>8 DEF Check!CycleInv

LEMMA SkipVisitedKeeps ==
    ASSUME Check!CycleInv, NEW n \in Ids, Check!SkipVisited(n)
    PROVE  Check!CycleInv'
<1> USE DEF Check!SkipVisited, Check!Searching
<1> PICK L : L = Len(frames)
    OBVIOUS
<1>1. Check!Finished' = Check!Finished /\ n \in Check!Finished /\ frames \in Seq(Check!Frames)
    BY DEF Check!CycleInv, Check!StackOK, Check!Finished
<1>2. /\ L \in Nat /\ L >= 1 /\ DOMAIN frames = 1..L
      /\ 1..L = (1..L - 1) \cup {L}
    BY <1>1, FramesFacts
<1>3. /\ frames' \in Seq(Check!Frames) /\ Len(frames') = L /\ DOMAIN frames' = 1..L
      /\ \A i \in 1..L : frames'[i].node = frames[i].node
      /\ \A i \in 1..L - 1 : frames'[i].rest = frames[i].rest
      /\ frames'[L].rest = frames[L].rest \ {n}
    BY <1>1, <1>2, AdvancedFacts
<1>4. Check!StackOK'
    <2>1. stk' = Check!Nodes'
        BY <1>2, <1>3 DEF Check!CycleInv, Check!StackOK, Check!Nodes
    <2>2. \A i \in DOMAIN frames' : frames'[i].rest \subseteq next[frames'[i].node]
        BY <1>2, <1>3 DEF Check!CycleInv, Check!StackOK
    <2>3. \A i \in 1..(Len(frames') - 1) : frames'[i + 1].node \in next'[frames'[i].node]
        <3>1. \A i \in 1..L - 1 : i \in 1..L /\ i + 1 \in 1..L
            BY <1>2
        <3> QED
            BY <1>2, <1>3, <3>1 DEF Check!CycleInv, Check!StackOK
    <2> QED
        BY <1>1, <1>2, <1>3, <2>1, <2>2, <2>3 DEF Check!CycleInv, Check!StackOK
<1>5. Check!FinishedClosed' /\ Check!NoCycleFinished' /\ Check!VerdictWarranted'
    BY <1>1 DEF Check!CycleInv, Check!FinishedClosed, Check!NoCycleFinished,
        Check!VerdictWarranted, Check!Closed
<1>6. ASSUME NEW i \in 1..L  PROVE Check!LookedAt(i)' \subseteq Check!LookedAt(i) \cup {n}
    BY <1>2, <1>3 DEF Check!LookedAt
<1>7. Check!CallsBehind'
    <2>1. \A i \in 1..L - 1 : i + 1 \in 1..L
        BY <1>2
    <2> QED
        BY <1>1, <1>2, <1>3, <1>6, <2>1 DEF Check!CycleInv, Check!CallsBehind
<1> QED
    BY <1>4, <1>5, <1>7 DEF Check!CycleInv

(* A node is finished when all of its edges lead to finished nodes: no     *)
(* cycle goes through it.                                                  *)
LEMMA LeaveKeeps ==
    ASSUME Check!CycleInv, Check!Leave
    PROVE  Check!CycleInv'
<1> USE DEF Check!Leave, Check!Searching
<1> PICK L : L = Len(frames)
    OBVIOUS
<1> PICK t : t = frames[L].node
    OBVIOUS
<1>1. /\ frames \in Seq(Check!Frames) /\ L \in Nat /\ L >= 1 /\ DOMAIN frames = 1..L
      /\ 1..L = (1..L - 1) \cup {L}
    BY FramesFacts DEF Check!CycleInv, Check!StackOK
<1>2. /\ t \in stk /\ t \in checked /\ t \in Ids /\ next[t] \subseteq Check!Finished
      /\ stk' = stk \ {t}
    <2>1. L \in DOMAIN frames /\ Check!LookedAt(L) = next[t] /\ t = Check!Top.node
        BY <1>1 DEF Check!LookedAt, Check!Top
    <2>2. next[t] \subseteq Check!Finished
        BY <2>1, <1>1 DEF Check!CycleInv, Check!CallsBehind
    <2>3. t \in stk
        BY <2>1 DEF Check!CycleInv, Check!StackOK, Check!Nodes
    <2> QED
        BY <2>1, <2>2, <2>3 DEF Check!CycleInv, Check!StackOK
<1>3. Check!Finished' = Check!Finished \cup {t} /\ t \notin Check!Finished
    BY <1>2 DEF Check!Finished
<1>4. /\ frames' \in Seq(Check!Frames) /\ Len(frames') = L - 1 /\ DOMAIN frames' = 1..L - 1
      /\ \A i \in 1..L - 1 : frames'[i] = frames[i]
    BY <1>1, CallersFacts
<1>5. \A i \in 1..L - 1 : i \in 1..L /\ i # L /\ i + 1 \in 1..L /\ i < L
    BY <1>1
<1>6. Check!StackOK'
    <2>1. \A i \in 1..L - 1 : frames[i].node # t
        BY <1>1, <1>5 DEF Check!CycleInv, Check!StackOK
    <2>2. {frames[i].node : i \in 1..L} = {frames[i].node : i \in 1..L - 1} \cup {t}
        BY <1>1
    <2>3. stk' = Check!Nodes'
        BY <1>1, <1>2, <1>4, <2>1, <2>2 DEF Check!CycleInv, Check!StackOK, Check!Nodes
    <2>4. \A i, j \in DOMAIN frames' : frames'[i].node = frames'[j].node => i = j
        <3>1. \A i, j \in 1..L : frames[i].node = frames[j].node => i = j
            BY <1>1 DEF Check!CycleInv, Check!StackOK
        <3>2. ASSUME NEW i \in 1..L - 1, NEW j \in 1..L - 1, frames'[i].node = frames'[j].node
              PROVE  i = j
            <4>1. frames[i].node = frames[j].node
                BY <3>2, <1>4
            <4> QED
                BY <4>1, <1>5, <3>1
        <3> QED
            BY <1>4, <3>2
    <2>5. \A i \in DOMAIN frames' : frames'[i].rest \subseteq next'[frames'[i].node]
        BY <1>1, <1>4, <1>5 DEF Check!CycleInv, Check!StackOK
    <2>6. \A i \in 1..(Len(frames') - 1) : frames'[i + 1].node \in next'[frames'[i].node]
        <3>1. \A i \in 1..L - 2 : i \in 1..L - 1 /\ i + 1 \in 1..L - 1
            BY <1>1
        <3>2. Len(frames') - 1 = L - 2 /\ Len(frames) - 1 = L - 1
            BY <1>1, <1>4
        <3> QED
            BY <1>4, <3>1, <3>2 DEF Check!CycleInv, Check!StackOK
    <2> QED
        BY <1>2, <1>4, <2>3, <2>4, <2>5, <2>6 DEF Check!CycleInv, Check!StackOK
<1>7. Check!FinishedClosed'
    BY <1>2, <1>3 DEF Check!CycleInv, Check!FinishedClosed
<1>8. Check!NoCycleFinished'
    <2> SUFFICES ASSUME NEW S \in SUBSET (Check!Finished \cup {t}), Check!Closed(S, next)
                 PROVE  FALSE
        BY <1>3 DEF Check!NoCycleFinished, Check!Closed
    <2>1. \A n \in S : next[n] \cap S \subseteq Check!Finished
        BY <1>2, <1>3 DEF Check!CycleInv, Check!FinishedClosed
    <2>2. S \cap Check!Finished # {}
        BY <2>1 DEF Check!Closed
    <2>3. Check!Closed(S \cap Check!Finished, next)
        BY <2>1, <2>2 DEF Check!Closed
    <2> QED
        BY <2>3 DEF Check!CycleInv, Check!NoCycleFinished
<1>9. Check!CallsBehind'
    <2>1. ASSUME NEW i \in 1..L - 1  PROVE Check!LookedAt(i)' = Check!LookedAt(i)
        BY <1>4 DEF Check!LookedAt
    <2>2. ASSUME NEW i \in 1..L - 1
          PROVE  Check!LookedAt(i) \subseteq Check!Finished \cup {frames[i + 1].node}
        BY <1>1, <1>5 DEF Check!CycleInv, Check!CallsBehind
    <2>3. ASSUME NEW i \in 1..L - 1, i < L - 1
          PROVE  Check!LookedAt(i)' \subseteq Check!Finished' \cup {frames'[i + 1].node}
        <3>1. i + 1 \in 1..L - 1
            BY <1>1, <2>3
        <3> QED
            BY <1>3, <1>4, <2>1, <2>2, <3>1
    <2>4. ASSUME NEW i \in 1..L - 1, i = L - 1  PROVE Check!LookedAt(i)' \subseteq Check!Finished'
        <3>1. i + 1 = L
            BY <1>1, <2>4
        <3> QED
            BY <1>3, <2>1, <2>2, <3>1
    <2>5. \A i \in 1..L - 1 : i < L - 1 \/ i = L - 1
        BY <1>1
    <2> QED
        BY <1>4, <2>3, <2>4, <2>5 DEF Check!CallsBehind
<1>10. Check!VerdictWarranted' /\ Listed \subseteq todo' \cup checked'
    BY DEF Check!CycleInv, Check!VerdictWarranted
<1> QED
    BY <1>6, <1>7, <1>8, <1>9, <1>10 DEF Check!CycleInv

(* The calls from the node of the edge up to the running one are a cycle.  *)
LEMMA BackEdgeClosesCycle ==
    ASSUME Check!CycleInv, NEW n \in Ids, Check!BackEdge(n)
    PROVE  ~Check!Acyclic(next)
<1> USE DEF Check!BackEdge, Check!Searching
<1> PICK L : L = Len(frames)
    OBVIOUS
<1>1. /\ L \in Nat /\ L >= 1 /\ DOMAIN frames = 1..L
      /\ \A j \in 1..L : frames[j].node \in Ids
      /\ n \in frames[L].rest /\ n \in next[frames[L].node]
    BY FramesFacts DEF Check!CycleInv, Check!StackOK, Check!Top
<1>2. PICK i \in 1..L : frames[i].node = n
    BY <1>1 DEF Check!CycleInv, Check!StackOK, Check!Nodes
<1> DEFINE S == {frames[j].node : j \in i..L}
<1>3. S \in SUBSET Ids /\ n \in S
    <2>1. i..L \subseteq 1..L /\ i \in i..L
        BY <1>1
    <2> QED
        BY <1>1, <1>2, <2>1
<1>4. ASSUME NEW j \in i..L  PROVE next[frames[j].node] \cap S # {}
    <2>1. CASE j = L
        BY <2>1, <1>1, <1>3
    <2>2. CASE j # L
        <3>1. j + 1 \in i..L /\ j \in 1..L - 1
            BY <2>2, <1>1
        <3>2. frames[j + 1].node \in next[frames[j].node]
            BY <3>1 DEF Check!CycleInv, Check!StackOK
        <3> QED
            BY <3>1, <3>2
    <2> QED
        BY <2>1, <2>2
<1>5. Check!Closed(S, next)
    BY <1>3, <1>4 DEF Check!Closed
<1> QED
    BY <1>3, <1>5 DEF Check!Acyclic

LEMMA CycleInvNext == Check!CycleInv /\ [Check!Next]_(Check!vars) => Check!CycleInv'
<1> SUFFICES ASSUME Check!CycleInv, [Check!Next]_(Check!vars)  PROVE Check!CycleInv'
    OBVIOUS
<1>1. ASSUME UNCHANGED <<next, checked, stk, frames>>
      PROVE  /\ Check!FinishedClosed' /\ Check!CallsBehind' /\ Check!NoCycleFinished'
             /\ Check!Nodes' = Check!Nodes
    BY <1>1 DEF Check!CycleInv, Check!FinishedClosed, Check!CallsBehind,
        Check!NoCycleFinished, Check!Finished, Check!LookedAt,
        Check!Closed, Check!Nodes
<1>2. CASE UNCHANGED Check!vars
    BY <1>1, <1>2 DEF Check!vars, Check!CycleInv, Check!StackOK,
        Check!VerdictWarranted, Check!Acyclic, Check!Closed
<1>3. ASSUME NEW n \in Ids, Check!SkipRoot(n)  PROVE Check!CycleInv'
    BY <1>1, <1>3 DEF Check!SkipRoot, Check!CycleInv, Check!StackOK,
        Check!VerdictWarranted
<1>4. ASSUME NEW n \in Ids, Check!BackEdge(n)  PROVE Check!CycleInv'
    <2>1. ~Check!Acyclic(next)' 
        BY <1>4, BackEdgeClosesCycle DEF Check!BackEdge, Check!Acyclic, Check!Closed
    <2>2. Check!StackOK' /\ Check!VerdictWarranted'
        BY <1>1, <1>4, <2>1 DEF Check!BackEdge, Check!CycleInv, Check!StackOK,
            Check!VerdictWarranted
    <2> QED
        BY <1>1, <1>4, <2>2 DEF Check!BackEdge, Check!CycleInv
<1>5. CASE Check!Finish
    BY <1>1, <1>5 DEF Check!Finish, Check!CycleInv, Check!StackOK,
        Check!VerdictWarranted
<1> QED
    BY <1>2, <1>3, <1>4, <1>5, TryRootKeeps, DescendKeeps, SkipVisitedKeeps,
        LeaveKeeps DEF Check!Next

(* IsDAG answers true only when everything is finished. *)
LEMMA VerdictRight == Check!CycleInv => Check!VerdictCorrect
<1> SUFFICES ASSUME Check!CycleInv, verdict = "dag", NEW S \in SUBSET Ids, Check!Closed(S, next)
             PROVE  FALSE
    BY DEF Check!CycleInv, Check!VerdictWarranted, Check!VerdictCorrect, Check!Acyclic
<1>1. stk = {} /\ Listed \subseteq Check!Finished
    BY DEF Check!CycleInv, Check!VerdictWarranted, Check!StackOK, Check!Nodes,
        Check!Finished
<1>2. S \subseteq Listed
    BY DEF Check!CycleInv, Check!StackOK, Check!Edges, Check!Closed
<1> QED
    BY <1>1, <1>2 DEF Check!CycleInv, Check!NoCycleFinished

-----------------------------------------------------------------------------
(* The problem's check and the traversal, one after the other *)

VerifiedInv == Check!CycleInv /\ TravInv

LEMMA VerifiedInvariant == VerifiedSpec => []VerifiedInv
<1>1. VerifiedInit => VerifiedInv
    BY CycleInvInit, TravInvInit DEF VerifiedInit, VerifiedInv
<1>2. VerifiedInv /\ [VerifiedNext]_<<vars, checkVars>> => VerifiedInv'
    <2> SUFFICES ASSUME VerifiedInv, [VerifiedNext]_<<vars, checkVars>>  PROVE VerifiedInv'
        OBVIOUS
    <2>1. [Check!Next]_(Check!vars)
        <3>1. Next => UNCHANGED next
            BY DEF Next, Scan, RemoveEdge, EndLoop, Pop, CallbackTrue, CallbackFalse,
                Finish
        <3> QED
            BY <3>1 DEF VerifiedNext, Verify, Walk, checkVars, vars, Check!vars
    <2>2. [Next]_vars
        BY DEF VerifiedNext, Verify, Walk
    <2> QED
        BY <2>1, <2>2, CycleInvNext, TravInvNext DEF VerifiedInv
<1> QED
    BY <1>1, <1>2, PTL DEF VerifiedSpec

(* verifyProblem follows a path of the graph and marks its nodes, and it   *)
(* walks through the graph that is then traversed.                         *)
THEOREM SearchCorrect == VerifiedSpec => []StackOK
<1>1. VerifiedInv => StackOK
    BY DEF VerifiedInv, Check!CycleInv, TravInv, StackOK
<1> QED
    BY <1>1, VerifiedInvariant, PTL

(* verifyProblem answers that the graph has no cycle exactly when it has   *)
(* none: no problem that judgeOnDAG could not finish is cached.            *)
THEOREM VerdictIsCorrect == VerifiedSpec => []VerdictCorrect
<1>1. VerifiedInv => VerdictCorrect
    BY VerdictRight DEF VerifiedInv, VerdictCorrect
<1> QED
    BY <1>1, VerifiedInvariant, PTL
=============================================================================

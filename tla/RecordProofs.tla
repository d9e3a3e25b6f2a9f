---------------------------- MODULE RecordProofs ----------------------------
(***************************************************************************)
(* Proofs about what is recorded of a submission: its scores (Scoring),    *)
(* its outputs (OutputFile) and the verdict of the comparator (Compare).   *)
(* The three share nothing but the lemmas on induction and recursion at    *)
(* the beginning, which are stated with sets and functions in place of     *)
(* operators, so that the provers can instantiate them.                    *)
(***************************************************************************)
EXTENDS Scoring, OutputFile, Compare, TLAPS, FiniteSetTheorems, WellFoundedInduction, SequenceTheorems

-----------------------------------------------------------------------------
(* Induction and recursion *)

(* f takes each element of S outside B to what law makes of the value of   *)
(* its predecessor.                                                        *)
Follows(f, A, B, base, pred, law) ==
    \A x \in A : f[x] = IF x \in B THEN base ELSE law[x][f[pred[x]]]

(* A partial solution on a set that has the predecessor of each of its     *)
(* elements.                                                               *)
Partial(f, A, B, base, pred, law, V) ==
    /\ f \in [A -> V]
    /\ \A x \in A \ B : pred[x] \in A
    /\ Follows(f, A, B, base, pred, law)

(* The predecessors go down a well-founded relation, and values are in V.  *)
Descends(S, R, B, base, pred, law, V) ==
    /\ IsWellFoundedOn(R, S)
    /\ base \in V
    /\ \A x \in S \ B : pred[x] \in S /\ <<pred[x], x>> \in R
    /\ \A x \in S \ B : \A v \in V : law[x][v] \in V

(* Such a recursion has a solution. *)
LEMMA Recursion ==
    ASSUME NEW S, NEW R, NEW B, NEW base, NEW pred, NEW law, NEW V,
           Descends(S, R, B, base, pred, law, V)
    PROVE  \E f \in [S -> V] : Follows(f, S, B, base, pred, law)
<1> USE DEF Descends
<1> DEFINE Good(f, A) == Partial(f, A, B, base, pred, law, V)
<1>1. ASSUME NEW A \in SUBSET S, NEW C \in SUBSET S, NEW f, NEW g, Good(f, A), Good(g, C),
             NEW y \in A \cap C
      PROVE  f[y] = g[y]
    <2> DEFINE Bad == {x \in A \cap C : f[x] # g[x]}
    <2> SUFFICES ASSUME Bad # {}  PROVE FALSE
        OBVIOUS
    <2>1. PICK x \in Bad : \A z \in Bad : <<z, x>> \notin R
        <3>1. Bad \subseteq S
            OBVIOUS
        <3> HIDE DEF Bad
        <3> QED
            BY <3>1, WFMin
    <2>2. CASE x \in B
        BY <1>1, <2>2 DEF Partial, Follows
    <2>3. CASE x \notin B
        <3>1. pred[x] \in A \cap C /\ <<pred[x], x>> \in R
            BY <1>1, <2>3 DEF Partial
        <3>2. f[pred[x]] = g[pred[x]]
            BY <2>1, <3>1
        <3>3. f[x] = law[x][f[pred[x]]] /\ g[x] = law[x][g[pred[x]]]
            BY <1>1, <2>3 DEF Partial, Follows
        <3> QED
            BY <3>2, <3>3
    <2> QED
        BY <2>2, <2>3
<1> DEFINE Reached == {x \in S : \E A \in SUBSET S : \E f : Good(f, A) /\ x \in A}
<1>2. Reached = S
    <2> SUFFICES ASSUME S \ Reached # {}  PROVE FALSE
        OBVIOUS
    <2>1. PICK x \in S \ Reached : \A z \in S \ Reached : <<z, x>> \notin R
        <3>1. S \ Reached \subseteq S
            OBVIOUS
        <3> HIDE DEF Reached
        <3> QED
            BY <3>1, WFMin
    <2>2. CASE x \in B
        <3>1. Good([z \in {x} |-> base], {x})
            BY <2>2 DEF Partial, Follows
        <3>2. {x} \in SUBSET S
            OBVIOUS
        <3> HIDE DEF Good
        <3> QED
            BY <3>1, <3>2
    <2>3. CASE x \notin B
        <3>1. pred[x] \in Reached
            BY <2>1, <2>3
        <3>2. PICK A, f : A \in SUBSET S /\ Good(f, A) /\ pred[x] \in A
            BY <3>1
        <3>3. x \notin A
            BY <3>2
        <3> DEFINE g == [z \in A \cup {x} |-> IF z = x THEN law[x][f[pred[x]]] ELSE f[z]]
        <3>4. f[pred[x]] \in V /\ law[x][f[pred[x]]] \in V
            BY <2>3, <3>2 DEF Partial
        <3>5. g \in [A \cup {x} -> V]
            BY <3>2, <3>4 DEF Partial
        <3>6. \A z \in (A \cup {x}) \ B : pred[z] \in A
            BY <3>2 DEF Partial
        <3>7. Follows(g, A \cup {x}, B, base, pred, law)
            BY <2>3, <3>2, <3>3, <3>6 DEF Partial, Follows
        <3>8. A \cup {x} \in SUBSET S /\ x \in A \cup {x}
            BY <3>2
        <3>9. Good(g, A \cup {x})
            BY <3>5, <3>6, <3>7 DEF Partial
        <3> HIDE DEF Good, g
        <3> QED
            BY <3>8, <3>9
    <2> QED
        BY <2>2, <2>3
<1> DEFINE Valued(x) == CHOOSE v \in V : \E A \in SUBSET S : \E f : Good(f, A) /\ x \in A /\ f[x] = v
           h == [x \in S |-> Valued(x)]
<1>3. ASSUME NEW A \in SUBSET S, NEW f, Good(f, A), NEW x \in A  PROVE h[x] = f[x] /\ h[x] \in V
    <2>1. f[x] \in V
        BY <1>3 DEF Partial
    <2>2. \E v \in V : \E C \in SUBSET S : \E g : Good(g, C) /\ x \in C /\ g[x] = v
        BY <1>3, <2>1
    <2>3. PICK C, g : C \in SUBSET S /\ Good(g, C) /\ x \in C /\ g[x] = Valued(x) /\ Valued(x) \in V
        <3> HIDE DEF Good
        <3> QED
            BY <2>2
    <2> HIDE DEF Valued
    <2>4. g[x] = f[x]
        <3>1. /\ A \in SUBSET S /\ C \in SUBSET S /\ x \in A \cap C
              /\ Good(f, A) /\ Good(g, C)
            BY <1>3, <2>3
        <3> HIDE DEF Good
        <3> QED
            BY <1>1, <3>1
    <2> QED
        BY <2>3, <2>4
<1>4. ASSUME NEW x \in S
      PROVE  h[x] \in V /\ h[x] = IF x \in B THEN base ELSE law[x][h[pred[x]]]
    <2>1. PICK A, f : A \in SUBSET S /\ Good(f, A) /\ x \in A
        BY <1>2
    <2>2. h[x] = f[x] /\ h[x] \in V
        <3> HIDE DEF h, Good
        <3> QED
            BY <1>3, <2>1
    <2>3. CASE x \in B
        <3> HIDE DEF h
        <3> QED
            BY <2>1, <2>2, <2>3 DEF Partial, Follows
    <2>4. CASE x \notin B
        <3>1. pred[x] \in A /\ f[x] = law[x][f[pred[x]]]
            BY <2>1, <2>4 DEF Partial, Follows
        <3>2. h[pred[x]] = f[pred[x]]
            <4> HIDE DEF h, Good
            <4> QED
                BY <1>3, <2>1, <3>1
        <3> HIDE DEF h
        <3> QED
            BY <2>2, <2>4, <3>1, <3>2
    <2> QED
        BY <2>3, <2>4
<1>5. h \in [S -> V]
    <2> HIDE DEF Valued
    <2>1. \A x \in S : Valued(x) \in V
        BY <1>4
    <2> QED
        BY <2>1
<1>6. Follows(h, S, B, base, pred, law)
    <2> HIDE DEF h
    <2> QED
        BY <1>4 DEF Follows
<1> QED
    BY <1>5, <1>6

Less == {ss \in Nat \X Nat : ss[1] < ss[2]}

LEMMA LessIsWellFounded == IsWellFoundedOn(Less, Nat)
BY NatLessThanWellFounded DEF OpToRel, Less

(* Induction over the natural numbers, for a set of them. *)
LEMMA Induction ==
    ASSUME NEW T, 0 \in T, \A n \in Nat : n \in T => n + 1 \in T
    PROVE  Nat \subseteq T
<1> SUFFICES ASSUME Nat \ T # {}  PROVE FALSE
    OBVIOUS
<1>1. PICK n \in Nat \ T : \A m \in Nat \ T : <<m, n>> \notin Less
    BY LessIsWellFounded, WFMin
<1>2. n - 1 \in Nat \ T /\ n - 1 < n
    OBVIOUS
<1>3. <<n - 1, n>> \in Less
    BY <1>2 DEF Less
<1> QED
    BY <1>1, <1>2, <1>3

(* Recursion and induction up to a bound. *)
Counts(f, N, base, law) == f[0] = base /\ \A n \in 1..N : f[n] = law[n][f[n - 1]]

LEMMA CountedRecursion ==
    ASSUME NEW N \in Nat, NEW V, NEW base \in V, NEW law,
           \A n \in 1..N : \A v \in V : law[n][v] \in V
    PROVE  \E f \in [0..N -> V] : Counts(f, N, base, law)
<1> DEFINE S == 0..N
           pred == [n \in S |-> n - 1]
           B == {0}
<1>1. IsWellFoundedOn(Less, S)
    <2>1. S \subseteq Nat
        OBVIOUS
    <2> QED
        BY <2>1, LessIsWellFounded, IsWellFoundedOnSubset
<1>2. \A n \in S \ B : n \in 1..N /\ pred[n] = n - 1 /\ pred[n] \in S /\ <<pred[n], n>> \in Less
    BY DEF Less
<1>3. Descends(S, Less, B, base, pred, law, V)
    <2> HIDE DEF S, pred, B
    <2> QED
        BY <1>1, <1>2 DEF Descends
<1>4. PICK f \in [S -> V] : Follows(f, S, B, base, pred, law)
    <2> HIDE DEF S, pred, B
    <2> QED
        BY <1>3, Recursion
<1>5. f[0] = base
    BY <1>4 DEF Follows
<1>6. ASSUME NEW n \in 1..N  PROVE f[n] = law[n][f[n - 1]]
    <2>1. n \in S /\ n \notin B /\ pred[n] = n - 1
        OBVIOUS
    <2> HIDE DEF S, pred, B
    <2> QED
        BY <1>4, <2>1 DEF Follows
<1>7. Counts(f, N, base, law)
    BY <1>5, <1>6 DEF Counts
<1> QED
    BY <1>4, <1>7

LEMMA BoundedInduction ==
    ASSUME NEW N \in Nat, NEW p \in 0..N, NEW T, p \in T,
           \A n \in p..N - 1 : n \in T => n + 1 \in T
    PROVE  p..N \subseteq T
<1> DEFINE U == {n \in Nat : n \in p..N => n \in T}
<1>1. 0 \in U
    OBVIOUS
<1>2. ASSUME NEW n \in Nat, n \in U  PROVE n + 1 \in U
    <2>1. CASE n + 1 \in p..N /\ n + 1 # p
        BY <1>2, <2>1
    <2> QED
        BY <2>1
<1>3. Nat \subseteq U
    <2> HIDE DEF U
    <2> QED
        BY <1>1, <1>2, Induction
<1> QED
    BY <1>3

-----------------------------------------------------------------------------
(* Scoring *)

(* A finite sum of integers is an integer. *)
LEMMA SumIsInteger ==
    ASSUME NEW f, IsFiniteSet(DOMAIN f), \A x \in DOMAIN f : f[x] \in Int
    PROVE  SumFunction(f) \in Int
<1> DEFINE D == DOMAIN f
           S == SUBSET D
           one(s) == CHOOSE x \in s : TRUE
           Sum(g) == [s \in S |-> IF s = {} THEN 0 ELSE f[one(s)] + g[s \ {one(s)}]]
           iter == CHOOSE g : g = Sum(g)
<1>1. SumFunction(f) = iter[D]
    BY DEF SumFunction, SumFunctionOnSet, FoldFunctionOnSet, MapThenFoldSet
<1> DEFINE pred == [s \in S |-> s \ {one(s)}]
           law == [s \in S |-> [v \in Int |-> f[one(s)] + v]]
           R == StrictSubsetOrdering(D)
<1>2. IsWellFoundedOn(R, S)
    <2>1. S = FiniteSubsetsOf(D)
        BY FS_FiniteSubsetsOfFinite
    <2> QED
        BY <2>1, FS_StrictSubsetOrderingWellFounded
<1>3. \A s \in S \ {{}} : one(s) \in s /\ f[one(s)] \in Int
    OBVIOUS
<1>4. \A s \in S \ {{}} : pred[s] \in S /\ <<pred[s], s>> \in R
    BY <1>3 DEF StrictSubsetOrdering
<1>5. \A s \in S \ {{}} : \A v \in Int : law[s][v] \in Int
    BY <1>3
<1>6. PICK g \in [S -> Int] : Follows(g, S, {{}}, 0, pred, law)
    <2> DEFINE B == {{}}
               V == Int
               zero == 0
    <2>1. Descends(S, R, B, zero, pred, law, V)
        <3> HIDE DEF S, pred, law, R
        <3> QED
            BY <1>2, <1>4, <1>5 DEF Descends
    <2> HIDE DEF S, pred, law, R, B, V, zero
    <2>2. \E g \in [S -> V] : Follows(g, S, B, zero, pred, law)
        BY <2>1, Recursion
    <2> QED
        BY <2>2 DEF B, V, zero
<1>7. g = Sum(g)
    <2>1. ASSUME NEW s \in S
          PROVE  g[s] = IF s = {} THEN 0 ELSE f[one(s)] + g[s \ {one(s)}]
        <3>1. s # {} => g[pred[s]] \in Int /\ pred[s] = s \ {one(s)}
            BY <1>4
        <3> QED
            BY <1>6, <3>1 DEF Follows
    <2> QED
        BY <2>1
<1>8. iter = Sum(iter)
    <2> HIDE DEF Sum
    <2> QED
        BY <1>7
<1>9. \A s \in S : iter[s] \in Int
    <2> HIDE DEF iter
    <2> DEFINE Bad == {s \in S : iter[s] \notin Int}
    <2> SUFFICES ASSUME Bad # {}  PROVE FALSE
        OBVIOUS
    <2>1. PICK s \in Bad : \A r \in Bad : <<r, s>> \notin R
        <3>1. Bad \subseteq S
            OBVIOUS
        <3> HIDE DEF Bad, R, S
        <3> QED
            BY <1>2, <3>1, WFMin
    <2>2. s # {} => iter[s \ {one(s)}] \in Int
        BY <1>4, <2>1
    <2>3. iter[s] = IF s = {} THEN 0 ELSE f[one(s)] + iter[s \ {one(s)}]
        BY <1>8
    <2> QED
        BY <1>3, <2>1, <2>2, <2>3
<1> QED
    BY <1>1, <1>9

Verdicts == Failures \cup {"accepted"}

(* The positions of the accepted verdicts in a list. *)
AcceptedIn(t) == {i \in DOMAIN t : t[i] = "accepted"}

LEMMA AcceptedAppend ==
    ASSUME NEW t \in Seq(Verdicts), NEW v \in Verdicts
    PROVE  /\ Append(t, v) \in Seq(Verdicts) /\ Len(Append(t, v)) = Len(t) + 1
           /\ Cardinality(AcceptedIn(t)) \in Nat
           /\ Cardinality(AcceptedIn(Append(t, v))) =
                  Cardinality(AcceptedIn(t)) + IF v = "accepted" THEN 1 ELSE 0
<1> DEFINE n == Len(t) + 1
<1>1. /\ DOMAIN t = 1..Len(t) /\ DOMAIN Append(t, v) = 1..n /\ Len(t) \in Nat
      /\ Append(t, v)[n] = v /\ \A i \in 1..Len(t) : Append(t, v)[i] = t[i]
    OBVIOUS
<1>2. IsFiniteSet(AcceptedIn(t)) /\ Cardinality(AcceptedIn(t)) \in Nat
    <2>1. AcceptedIn(t) \subseteq 1..Len(t)
        BY <1>1 DEF AcceptedIn
    <2>2. IsFiniteSet(1..Len(t))
        BY <1>1, FS_Interval
    <2> QED
        BY <2>1, <2>2, FS_Subset, FS_CardinalityType
<1>3. AcceptedIn(Append(t, v)) = AcceptedIn(t) \cup (IF v = "accepted" THEN {n} ELSE {})
    BY <1>1 DEF AcceptedIn
<1>4. n \notin AcceptedIn(t)
    BY <1>1 DEF AcceptedIn
<1>5. Cardinality(AcceptedIn(t) \cup {n}) = Cardinality(AcceptedIn(t)) + 1
    BY <1>2, <1>4, FS_AddElement
<1>6. Cardinality(AcceptedIn(Append(t, v))) =
         Cardinality(AcceptedIn(t)) + IF v = "accepted" THEN 1 ELSE 0
    <2>1. CASE v = "accepted"
        BY <1>3, <1>5, <2>1
    <2>2. CASE v # "accepted"
        BY <1>2, <1>3, <2>2
    <2> QED
        BY <2>1, <2>2
<1>7. Append(t, v) \in Seq(Verdicts) /\ Len(Append(t, v)) = Len(t) + 1
    OBVIOUS
<1> QED
    BY <1>2, <1>6, <1>7

LEMMA AppendFacts ==
    ASSUME ScoringTypeOK, NEW s \in Subtasks, NEW v
    PROVE  LET t == Append(verdicts[s], v)
               n == Len(verdicts[s]) + 1
           IN  /\ DOMAIN t = DOMAIN verdicts[s] \cup {n} /\ t[n] = v
               /\ \A i \in DOMAIN verdicts[s] : t[i] = verdicts[s][i]
<1> PICK q : q = verdicts[s]
    OBVIOUS
<1>1. q \in Seq(Verdicts)
    BY DEF ScoringTypeOK, Verdicts
<1> QED
    BY <1>1

(* One more case of the running subtask has a verdict. *)
LEMMA CaseJudged ==
    ASSUME ScoringTypeOK, NEW v \in Verdicts, HasCase, Judged(v), UNCHANGED <<problem, cur>>
    PROVE  /\ cur \in Subtasks
           /\ verdicts'[cur] = Append(verdicts[cur], v)
           /\ verdicts' \in [Subtasks -> Seq(Verdicts)]
           /\ \A s \in Subtasks : Len(verdicts'[s]) <= count'[s]
           /\ Accepted(cur) \in Nat
           /\ \A s \in Subtasks :
                /\ s # cur => verdicts'[s] = verdicts[s]
                /\ Accepted(s)' = IF s = cur /\ v = "accepted" THEN Accepted(s) + 1 ELSE Accepted(s)
<1> DEFINE c == cur
<1>1. c \in Subtasks /\ verdicts \in [Subtasks -> Seq(Verdicts)]
    BY DEF ScoringTypeOK, HasCase, Verdicts
<1>2. verdicts' = [verdicts EXCEPT ![c] = Append(verdicts[c], v)]
    BY <1>1 DEF Judged
<1>3. /\ Append(verdicts[c], v) \in Seq(Verdicts)
      /\ Len(Append(verdicts[c], v)) = Len(verdicts[c]) + 1
    BY <1>1, AcceptedAppend
<1>4. \A s \in Subtasks : verdicts'[s] = IF s = c THEN Append(verdicts[s], v) ELSE verdicts[s]
    BY <1>1, <1>2
<1>5. \A s \in Subtasks : Len(verdicts'[s]) <= count'[s]
    <2>1. \A s \in Subtasks : count[s] \in Nat /\ Len(verdicts[s]) \in Nat /\ Len(verdicts[s]) <= count[s]
        BY <1>1, ScoringAssumption DEF ScoringTypeOK, ScoringAssumption
    <2>2. count' = count /\ Len(verdicts[c]) < count[c]
        BY DEF HasCase, problem
    <2>3. ASSUME NEW s \in Subtasks  PROVE Len(verdicts'[s]) <= count[s]
        <3>1. CASE s = c
            <4>1. Len(verdicts'[c]) = Len(verdicts[c]) + 1
                BY <1>1, <1>3, <1>4
            <4>2. Len(verdicts[c]) \in Nat /\ count[c] \in Nat
                BY <1>1, <2>1
            <4> QED
                BY <2>2, <3>1, <4>1, <4>2
        <3>2. CASE s # c
            BY <1>4, <2>1, <3>2
        <3> QED
            BY <3>1, <3>2
    <2> QED
        BY <2>2, <2>3
<1>6. \A s \in Subtasks :
        /\ Accepted(s) = Cardinality(AcceptedIn(verdicts[s]))
        /\ Accepted(s)' = Cardinality(AcceptedIn(verdicts'[s]))
    BY DEF Accepted, AcceptedIn
<1>7. /\ Cardinality(AcceptedIn(verdicts[c])) \in Nat
      /\ Cardinality(AcceptedIn(Append(verdicts[c], v))) =
             Cardinality(AcceptedIn(verdicts[c])) + IF v = "accepted" THEN 1 ELSE 0
    BY <1>1, AcceptedAppend
<1>8. \A s \in Subtasks :
        Accepted(s)' = IF s = c /\ v = "accepted" THEN Accepted(s) + 1 ELSE Accepted(s)
    <2>1. Accepted(c)' = Accepted(c) + IF v = "accepted" THEN 1 ELSE 0
        BY <1>1, <1>4, <1>6, <1>7
    <2>2. ASSUME NEW s \in Subtasks, s # c  PROVE Accepted(s)' = Accepted(s)
        BY <1>4, <1>6, <2>2
    <2> QED
        BY <1>1, <1>6, <1>7, <2>1, <2>2
<1> QED
    BY <1>1, <1>2, <1>3, <1>4, <1>5, <1>6, <1>7, <1>8

(* The score of a case is a natural number, and the rounded score of a     *)
(* share of the cases is at most one point below the exact one.            *)
LEMMA QuotientFacts ==
    ASSUME NEW a \in Nat, NEW n \in Nat \ {0}
    PROVE  /\ a \div n \in Nat
           /\ (a \div n) * n <= a /\ a <= ((a \div n) + 1) * n
           /\ a % n = 0 => ((a \div n) - 1) * n <= a /\ a <= (((a \div n) - 1) + 1) * n
<1> DEFINE q == a \div n
           r == a % n
<1>1. q \in Int /\ r \in 0..n - 1 /\ a = n * q + r
    OBVIOUS
<1> HIDE DEF q, r
<1>2. q \in Nat
    BY <1>1
<1>3. q * n <= a /\ a <= (q + 1) * n
    BY <1>1
<1>4. r = 0 => (q - 1) * n <= a /\ a <= ((q - 1) + 1) * n
    BY <1>1
<1> QED
    BY <1>2, <1>3, <1>4 DEF q, r

LEMMA ProblemTypes ==
    ASSUME ScoringTypeOK, NEW s \in Subtasks
    PROVE  /\ full[s] \in Nat \ {0} /\ count[s] \in Nat
           /\ count[s] > 0 => CaseScore(s) \in Nat
<1>1. full[s] \in Nat \ {0} /\ count[s] \in Nat
    <2>1. full[s] \in Fulls /\ count[s] \in 0..MaxCases
        BY DEF ScoringTypeOK
    <2>2. Fulls \subseteq Nat \ {0} /\ MaxCases \in Nat
        BY ScoringAssumption DEF ScoringAssumption
    <2>3. full[s] \in Nat \ {0}
        BY <2>1, <2>2
    <2> QED
        BY <2>1, <2>2, <2>3
<1> QED
    BY <1>1, QuotientFacts DEF CaseScore

LEMMA ScoringInvInit == ScoringInit => ScoringInv
<1> SUFFICES ASSUME ScoringInit  PROVE ScoringInv
    OBVIOUS
<1>1. ScoringTypeOK
    <2>1. \A s \in Subtasks : verdicts[s] = <<>> /\ Len(verdicts[s]) = 0 /\ count[s] \in 0..MaxCases
        BY DEF ScoringInit
    <2>2. \A s \in Subtasks : Len(verdicts[s]) <= count[s]
        BY <2>1, ScoringAssumption DEF ScoringAssumption
    <2>3. verdicts \in [Subtasks -> Seq(Failures \cup {"accepted"})]
        BY DEF ScoringInit
    <2>4. result.score \in Int /\ score \in [Subtasks -> Int]
        BY DEF ScoringInit, Pending
    <2>5. conclusion \in [Subtasks -> Conclusions] /\ cur = NoSubtask
        BY DEF ScoringInit, Conclusions
    <2> QED
        BY <2>2, <2>3, <2>4, <2>5 DEF ScoringInit, ScoringTypeOK
<1>2. \A s \in Subtasks : Accepted(s) = 0
    <2>1. \A s \in Subtasks : {i \in DOMAIN verdicts[s] : verdicts[s][i] = "accepted"} = {}
        BY DEF ScoringInit
    <2> QED
        BY <2>1, FS_EmptySet DEF Accepted
<1>3. ScoreFollowsPolicy /\ ResultWarranted /\ RunOrder /\ ConclusionWarranted
    BY <1>1, ScoringAssumption DEF ScoringInit, ScoreFollowsPolicy, ResultWarranted, RunOrder,
        ConclusionWarranted, Pending, ScoringAssumption
<1>4. RunningScore
    <2> SUFFICES ASSUME NEW s \in Subtasks, count[s] > 0
                 PROVE  score[s] = CaseScore(s) * Accepted(s)
        BY DEF RunningScore
    <2>1. score[s] = 0 /\ CaseScore(s) \in Nat
        BY <1>1, ProblemTypes DEF ScoringInit
    <2> QED
        BY <1>2, <2>1
<1> QED
    BY <1>3, <1>4 DEF ScoringInv

LEMMA StartKeeps ==
    ASSUME ScoringInv, NEW s \in Subtasks, Start(s)
    PROVE  ScoringInv'
<1> USE DEF ScoringInv, Start
<1>1. ScoringTypeOK /\ verdicts[s] = <<>>
    BY DEF ScoreFollowsPolicy, RunOrder
<1>2. \A t \in Subtasks : Accepted(t)' = Accepted(t) /\ CaseScore(t)' = CaseScore(t)
    BY DEF Accepted, CaseScore, problem
<1>3. Accepted(s) = 0
    <2>1. {i \in DOMAIN verdicts[s] : verdicts[s][i] = "accepted"} = {}
        BY <1>1
    <2> QED
        BY <2>1, FS_EmptySet DEF Accepted
<1>4. ScoringTypeOK'
    BY <1>1, <1>2, <1>3 DEF ScoringTypeOK, Conclusions, problem
<1>5. ScoreFollowsPolicy'
    <2>1. finished \subseteq Subtasks
        BY <1>1 DEF ScoringTypeOK
    <2> QED
        BY <1>2, <1>4, <2>1 DEF ScoreFollowsPolicy, problem
<1>6. ResultWarranted'
    BY DEF ResultWarranted, Pending
<1>7. RunOrder' /\ ConclusionWarranted'
    BY <1>1, ScoringAssumption DEF RunOrder, ConclusionWarranted, ScoringTypeOK, ScoringAssumption
<1>8. RunningScore'
    BY <1>2 DEF RunningScore, problem
<1> QED
    BY <1>5, <1>6, <1>7, <1>8

(* A running callback has not returned and nothing has been reported.      *)
LEMMA RunningCase ==
    ASSUME ScoringInv, cur # NoSubtask
    PROVE  /\ ScoringTypeOK /\ cur \in Subtasks \ finished
           /\ result = Pending /\ conclusion[cur] # "invalid"
           /\ passCases = Accepted(cur)
BY DEF ScoringInv, ScoreFollowsPolicy, RunOrder, ScoringTypeOK

LEMMA CaseAcceptedKeeps ==
    ASSUME ScoringInv, CaseAccepted
    PROVE  ScoringInv'
<1> USE DEF CaseAccepted
<1> PICK c : c = cur
    OBVIOUS
<1>1. /\ ScoringTypeOK /\ c \in Subtasks \ finished /\ result = Pending
      /\ conclusion[c] # "invalid" /\ passCases = Accepted(c)
    BY RunningCase DEF HasCase
<1>2. /\ verdicts'[c] = Append(verdicts[c], "accepted")
      /\ verdicts' \in [Subtasks -> Seq(Verdicts)]
      /\ \A s \in Subtasks : Len(verdicts'[s]) <= count'[s]
      /\ Accepted(c) \in Nat
      /\ \A s \in Subtasks : s # c => verdicts'[s] = verdicts[s]
      /\ \A s \in Subtasks : Accepted(s)' = IF s = c THEN Accepted(s) + 1 ELSE Accepted(s)
    BY <1>1, CaseJudged DEF Verdicts
<1>3. \A s \in Subtasks : CaseScore(s)' = CaseScore(s)
    BY DEF CaseScore, problem
<1>4. count[c] > 0 /\ CaseScore(c) \in Nat
    <2>1. count[c] \in Nat /\ Len(verdicts[c]) \in Nat
        BY <1>1, ProblemTypes DEF ScoringTypeOK
    <2>2. count[c] > 0
        BY <2>1 DEF HasCase
    <2> QED
        BY <1>1, <2>2, ProblemTypes
<1>5. /\ score[c] \in Int /\ Scored(c) \in Int
      /\ \A s \in Subtasks : score'[s] = IF s = c THEN Scored(c) ELSE score[s]
      /\ score' \in [Subtasks -> Int]
    BY <1>1, <1>4 DEF ScoringTypeOK, Scored
<1>6. ScoringTypeOK'
    BY <1>1, <1>2, <1>5 DEF ScoringTypeOK, Verdicts, problem
<1>7. ScoreFollowsPolicy'
    <2>1. ASSUME NEW s \in finished
          PROVE  s \in Subtasks /\ Accepted(s)' = Accepted(s) /\ score'[s] = score[s]
        BY <1>1, <1>2, <1>5 DEF ScoringTypeOK
    <2> QED
        BY <1>3, <1>6, <2>1 DEF ScoringInv, ScoreFollowsPolicy, problem
<1>8. RunningScore'
    <2> SUFFICES ASSUME NEW s \in Subtasks, count[s] > 0, policy[s] = "SUM"
                 PROVE  score'[s] = CaseScore(s) * Accepted(s)'
        BY <1>3 DEF RunningScore, problem
    <2>1. score[s] = CaseScore(s) * Accepted(s)
        BY DEF ScoringInv, RunningScore
    <2>2. CASE s # c
        BY <1>2, <1>5, <2>1, <2>2
    <2>3. CASE s = c
        <3>1. score'[s] = CaseScore(s) * Accepted(s) + CaseScore(s)
            BY <1>5, <2>1, <2>3 DEF Scored
        <3>2. CaseScore(s) * Accepted(s) + CaseScore(s) = CaseScore(s) * (Accepted(s) + 1)
            BY <1>2, <1>4, <2>3
        <3> QED
            BY <1>2, <2>3, <3>1, <3>2
    <2> QED
        BY <2>2, <2>3
<1>9. ResultWarranted'
    BY <1>1 DEF ResultWarranted, Pending
<1>10. RunOrder'
    BY <1>1, <1>2, <1>5 DEF ScoringInv, RunOrder
<1>11. ConclusionWarranted'
    <2> SUFFICES ASSUME NEW s \in Subtasks
                 PROVE  /\ conclusion[s] \in Failures =>
                            \E i \in DOMAIN verdicts'[s] : verdicts'[s][i] = conclusion[s]
                        /\ conclusion[s] \notin Failures =>
                            \A i \in DOMAIN verdicts'[s] : verdicts'[s][i] = "accepted"
        BY DEF ConclusionWarranted
    <2>1. /\ conclusion[s] \in Failures =>
             \E i \in DOMAIN verdicts[s] : verdicts[s][i] = conclusion[s]
          /\ conclusion[s] \notin Failures => \A i \in DOMAIN verdicts[s] : verdicts[s][i] = "accepted"
        BY DEF ScoringInv, ConclusionWarranted
    <2>2. CASE s = c
        <3>1. /\ DOMAIN verdicts'[s] = DOMAIN verdicts[s] \cup {Len(verdicts[s]) + 1}
              /\ verdicts'[s][Len(verdicts[s]) + 1] = "accepted"
              /\ \A i \in DOMAIN verdicts[s] : verdicts'[s][i] = verdicts[s][i]
            <4>1. verdicts'[s] = Append(verdicts[s], "accepted")
                BY <1>2, <2>2
            <4> QED
                BY <1>1, <4>1, AppendFacts
        <3> QED
            BY <2>1, <3>1
    <2>3. CASE s # c
        BY <1>2, <2>1, <2>3
    <2> QED
        BY <2>2, <2>3
<1> QED
    BY <1>7, <1>8, <1>9, <1>10, <1>11 DEF ScoringInv

LEMMA CaseFailsKeeps ==
    ASSUME ScoringInv, NEW v \in Failures, CaseFails(v)
    PROVE  ScoringInv'
<1> USE DEF CaseFails
<1> PICK c : c = cur
    OBVIOUS
<1>1. /\ ScoringTypeOK /\ c \in Subtasks \ finished /\ result = Pending
      /\ conclusion[c] # "invalid" /\ passCases = Accepted(c)
    BY RunningCase DEF HasCase
<1>2. v # "accepted" /\ v # "invalid"
    BY ScoringAssumption DEF ScoringAssumption
<1>3. /\ verdicts'[c] = Append(verdicts[c], v)
      /\ verdicts' \in [Subtasks -> Seq(Verdicts)]
      /\ \A s \in Subtasks : Len(verdicts'[s]) <= count'[s]
      /\ \A s \in Subtasks : s # c => verdicts'[s] = verdicts[s]
      /\ \A s \in Subtasks : Accepted(s)' = Accepted(s)
    BY <1>1, <1>2, CaseJudged DEF Verdicts
<1>4. \A s \in Subtasks : CaseScore(s)' = CaseScore(s)
    BY DEF CaseScore, problem
<1>5. /\ conclusion' \in [Subtasks -> Conclusions]
      /\ \A s \in Subtasks : conclusion'[s] = IF s = c THEN v ELSE conclusion[s]
    BY <1>1 DEF ScoringTypeOK, Conclusions
<1>6. ScoringTypeOK'
    BY <1>1, <1>3, <1>5 DEF ScoringTypeOK, Verdicts, problem
<1>7. ScoreFollowsPolicy'
    <2>1. finished \subseteq Subtasks
        BY <1>1 DEF ScoringTypeOK
    <2> QED
        BY <1>3, <1>4, <1>6, <2>1 DEF ScoringInv, ScoreFollowsPolicy, problem
<1>8. RunningScore'
    BY <1>3, <1>4 DEF ScoringInv, RunningScore, problem
<1>9. ResultWarranted'
    BY <1>1 DEF ResultWarranted, Pending
<1>10. RunOrder'
    BY <1>1, <1>2, <1>3, <1>5 DEF ScoringInv, RunOrder
<1>11. ConclusionWarranted'
    <2> SUFFICES ASSUME NEW s \in Subtasks
                 PROVE  /\ conclusion'[s] \in Failures =>
                            \E i \in DOMAIN verdicts'[s] : verdicts'[s][i] = conclusion'[s]
                        /\ conclusion'[s] \notin Failures =>
                            \A i \in DOMAIN verdicts'[s] : verdicts'[s][i] = "accepted"
        BY DEF ConclusionWarranted
    <2>1. CASE s = c
        <3>1. verdicts'[s] = Append(verdicts[s], v)
            BY <1>3, <2>1
        <3>2. Len(verdicts[s]) + 1 \in DOMAIN verdicts'[s] /\ verdicts'[s][Len(verdicts[s]) + 1] = v
            BY <1>1, <3>1, AppendFacts
        <3> QED
            BY <1>5, <2>1, <3>2
    <2>2. CASE s # c
        BY <1>3, <1>5, <2>2 DEF ScoringInv, ConclusionWarranted
    <2> QED
        BY <2>1, <2>2
<1> QED
    BY <1>7, <1>8, <1>9, <1>10, <1>11 DEF ScoringInv

LEMMA EndSubtaskKeeps ==
    ASSUME ScoringInv, EndSubtask
    PROVE  ScoringInv'
<1> USE DEF EndSubtask
<1> PICK c : c = cur
    OBVIOUS
<1>1. /\ ScoringTypeOK /\ c \in Subtasks \ finished /\ result = Pending
      /\ conclusion[c] # "invalid" /\ passCases = Accepted(c)
    BY RunningCase
<1>2. \A s \in Subtasks : CaseScore(s)' = CaseScore(s) /\ Accepted(s)' = Accepted(s)
    BY DEF CaseScore, Accepted, problem
<1>3. /\ full[c] \in Nat \ {0} /\ count[c] \in Nat /\ passCases \in Nat
      /\ full[c] * passCases \in Nat
    <2>1. Accepted(c) \in Nat
        <3>1. Accepted(c) = Cardinality(AcceptedIn(verdicts[c]))
            BY DEF Accepted, AcceptedIn
        <3>2. verdicts[c] \in Seq(Verdicts) /\ "accepted" \in Verdicts
            BY <1>1 DEF ScoringTypeOK, Verdicts
        <3> QED
            BY <3>1, <3>2, AcceptedAppend
    <2>2. full[c] \in Nat \ {0} /\ count[c] \in Nat
        BY <1>1, ProblemTypes
    <2> QED
        BY <1>1, <2>1, <2>2
<1>4. ASSUME NEW r \in Pct(c)
      PROVE  /\ r \in Int
             /\ count[c] > 0 => /\ r * count[c] <= full[c] * passCases
                                /\ full[c] * passCases <= (r + 1) * count[c]
    <2> DEFINE n == count[c]
               a == full[c] * passCases
    <2>1. CASE n = 0
        BY <2>1, <1>4, ScoringAssumption DEF Pct, ScoringAssumption
    <2>2. CASE n # 0
        <3>1. /\ n > 0 /\ n \in Nat \ {0} /\ a \in Nat
              /\ \/ r = a \div n
                 \/ a % n = 0 /\ r = (a \div n) - 1
            BY <1>3, <1>4, <2>2 DEF Pct
        <3> HIDE DEF n, a
        <3>2. /\ a \div n \in Nat
              /\ (a \div n) * n <= a /\ a <= ((a \div n) + 1) * n
              /\ a % n = 0 => ((a \div n) - 1) * n <= a /\ a <= (((a \div n) - 1) + 1) * n
            BY <3>1, QuotientFacts
        <3>3. r \in Int /\ r * n <= a /\ a <= (r + 1) * n
            BY <3>1, <3>2
        <3> QED
            BY <3>3 DEF n, a
    <2> QED
        BY <2>1, <2>2
<1>5. /\ score' \in [Subtasks -> Int]
      /\ \A s \in Subtasks : s # c \/ policy[s] # "PCT" => score'[s] = score[s]
      /\ policy[c] = "PCT" => score'[c] \in Pct(c)
    <2>1. score \in [Subtasks -> Int]
        BY <1>1 DEF ScoringTypeOK
    <2>2. CASE policy[c] = "PCT"
        <3>1. PICK r \in Pct(c) : score' = [score EXCEPT ![c] = r]
            BY <2>2
        <3> QED
            BY <1>1, <1>4, <2>1, <2>2, <3>1
    <2>3. CASE policy[c] # "PCT"
        BY <2>1, <2>3
    <2> QED
        BY <2>2, <2>3
<1>6. ScoringTypeOK'
    BY <1>1, <1>5 DEF ScoringTypeOK, problem
<1>7. RunningScore'
    BY <1>2, <1>5 DEF ScoringInv, RunningScore, problem
<1>8. ScoreFollowsPolicy'
    <2> SUFFICES ASSUME NEW s \in finished', count[s] > 0
                 PROVE  LET exact == full[s] * Accepted(s)' IN
                        /\ policy[s] = "SUM" => score'[s] = CaseScore(s) * Accepted(s)'
                        /\ policy[s] = "PCT" => /\ score'[s] * count[s] <= exact
                                                /\ exact <= (score'[s] + 1) * count[s]
        <3>1. finished' \subseteq Subtasks
            BY <1>6 DEF ScoringTypeOK
        <3> QED
            BY <1>2, <1>6, <3>1 DEF ScoreFollowsPolicy, problem
    <2>1. s \in Subtasks
        BY <1>6 DEF ScoringTypeOK
    <2>2. policy[s] = "SUM" => score'[s] = CaseScore(s) * Accepted(s)'
        BY <1>2, <1>5, <2>1 DEF ScoringInv, RunningScore
    <2>3. CASE s = c
        <3>1. policy[s] = "PCT" =>
                /\ score'[s] * count[s] <= full[s] * passCases
                /\ full[s] * passCases <= (score'[s] + 1) * count[s]
            BY <1>4, <1>5, <2>3
        <3> QED
            BY <1>1, <1>2, <2>1, <2>2, <2>3, <3>1
    <2>4. CASE s # c
        <3>1. s \in finished /\ score'[s] = score[s] /\ Accepted(s)' = Accepted(s)
            BY <1>2, <1>5, <2>1, <2>4
        <3> QED
            BY <2>2, <3>1 DEF ScoringInv, ScoreFollowsPolicy
    <2> QED
        BY <2>3, <2>4
<1>9. ResultWarranted'
    BY <1>1 DEF ResultWarranted, Pending
<1>10. RunOrder'
    BY <1>1, <1>5, ScoringAssumption DEF ScoringInv, RunOrder, ScoringTypeOK, ScoringAssumption, problem
<1>11. ConclusionWarranted'
    BY DEF ScoringInv, ConclusionWarranted
<1> QED
    BY <1>7, <1>8, <1>9, <1>10, <1>11 DEF ScoringInv

LEMMA ZeroIsInteger == 0 \in Int
OBVIOUS

LEMMA TotalKeeps ==
    ASSUME ScoringInv, Total
    PROVE  ScoringInv'
<1> USE DEF Total
<1>1. ScoringTypeOK /\ RunOrder /\ ConclusionWarranted
    BY DEF ScoringInv, ScoreFollowsPolicy
<1>2. \A s \in Subtasks : CaseScore(s)' = CaseScore(s) /\ Accepted(s)' = Accepted(s)
    BY DEF CaseScore, Accepted, problem
<1>3. SumFunction(score) \in Int /\ SumFunction(score)' = SumFunction(score)
    <2>1. score \in [Subtasks -> Int] /\ IsFiniteSet(Subtasks)
        BY <1>1, ScoringAssumption DEF ScoringTypeOK, ScoringAssumption
    <2>2. SumFunction(score) \in Int
        BY <2>1, SumIsInteger
    <2> QED
        BY <2>2
<1>4. /\ result'.score \in Int
      /\ \/ result'.conclusion = "internal error"
         \/ /\ result'.score = SumFunction(score)
            /\ \/ FailedSubtasks = {} /\ result'.conclusion = "accepted"
               \/ \E s \in FailedSubtasks : result'.conclusion = conclusion[s]
    <2> DEFINE total == SumFunction(score)
    <2>1. total \in Int
        BY <1>3
    <2> HIDE DEF total
    <2>2. CASE err
        <3>1. result' = [conclusion |-> "internal error", score |-> 0]
            BY <2>2
        <3>2. result'.score = 0 /\ result'.conclusion = "internal error"
            BY <3>1
        <3> QED
            BY <3>2, ZeroIsInteger, Zenon
    <2>3. CASE ~err
        <3>1. PICK c \in IF FailedSubtasks = {} THEN {"accepted"}
                         ELSE {conclusion[s] : s \in FailedSubtasks} :
                    result' = [conclusion |-> c, score |-> total]
            BY <2>3 DEF total
        <3>2. result'.conclusion = c /\ result'.score = total
            BY <3>1
        <3>3. FailedSubtasks = {} \/ \E s \in FailedSubtasks : c = conclusion[s]
            BY <3>1
        <3>4. FailedSubtasks = {} => c = "accepted"
            BY <3>1
        <3> QED
            BY <2>1, <3>2, <3>3, <3>4 DEF total
    <2> QED
        BY <2>2, <2>3
<1>5. ScoringTypeOK'
    BY <1>1, <1>4 DEF ScoringTypeOK, problem
<1>6. ScoreFollowsPolicy' /\ RunningScore'
    <2>1. finished \subseteq Subtasks
        BY <1>1 DEF ScoringTypeOK
    <2> QED
        BY <1>2, <1>5, <2>1 DEF ScoringInv, ScoreFollowsPolicy, RunningScore, problem
<1>7. ResultWarranted'
    <2> DEFINE failed == {v \in Failures : \E s \in Subtasks :
                             \E i \in DOMAIN verdicts[s] : verdicts[s][i] = v}
    <2>1. /\ result'.conclusion = "accepted" => failed = {}
          /\ result'.conclusion \in {"none", "accepted", "internal error"} \cup failed
        <3>1. CASE result'.conclusion = "internal error"
            BY <3>1
        <3>2. CASE FailedSubtasks = {} /\ result'.conclusion = "accepted"
            <4>1. \A s \in Subtasks : conclusion[s] \notin Failures
                BY <3>2, ScoringAssumption DEF FailedSubtasks, ScoringAssumption
            <4>2. failed = {}
                BY <1>1, <4>1, ScoringAssumption DEF ConclusionWarranted, ScoringAssumption
            <4> QED
                BY <3>2, <4>2
        <3>3. ASSUME NEW s \in FailedSubtasks, result'.conclusion = conclusion[s]
              PROVE  result'.conclusion \in failed /\ result'.conclusion # "accepted"
            <4>1. s \in Subtasks /\ conclusion[s] \in Failures /\ conclusion[s] # "accepted"
                BY <1>1 DEF FailedSubtasks, ScoringTypeOK, Conclusions
            <4> QED
                BY <1>1, <3>3, <4>1 DEF ConclusionWarranted
        <3> QED
            BY <1>4, <3>1, <3>2, <3>3
    <2>2. result'.conclusion \notin {"none", "internal error"} => result'.score = SumFunction(score)
        BY <1>4
    <2>3. failed' = failed /\ SumFunction(score)' = SumFunction(score)
        BY <1>3
    <2> QED
        BY <2>1, <2>2, <2>3 DEF ResultWarranted
<1>8. RunOrder' /\ ConclusionWarranted'
    BY <1>1 DEF RunOrder, ConclusionWarranted
<1> QED
    BY <1>6, <1>7, <1>8 DEF ScoringInv

LEMMA ScoringInvNext == ScoringInv /\ [ScoringNext]_scoringVars => ScoringInv'
<1> SUFFICES ASSUME ScoringInv, [ScoringNext]_scoringVars  PROVE ScoringInv'
    OBVIOUS
<1>1. CASE JudgeFails \/ UNCHANGED scoringVars
    <2> USE <1>1 DEF JudgeFails, scoringVars, problem
    <2>1. \A s \in Subtasks : CaseScore(s)' = CaseScore(s) /\ Accepted(s)' = Accepted(s)
        BY DEF CaseScore, Accepted
    <2>2. ScoringTypeOK /\ finished \subseteq Subtasks
        BY DEF ScoringInv, ScoreFollowsPolicy, ScoringTypeOK
    <2>3. ScoringTypeOK'
        <3>1. CASE JudgeFails
            BY <2>2, <3>1 DEF ScoringTypeOK
        <3>2. CASE UNCHANGED scoringVars
            BY <2>2, <3>2 DEF ScoringTypeOK, Accepted
        <3> QED
            BY <3>1, <3>2
    <2>4. ScoreFollowsPolicy' /\ RunningScore'
        BY <2>1, <2>2, <2>3 DEF ScoringInv, ScoreFollowsPolicy, RunningScore
    <2>5. ResultWarranted'
        BY DEF ScoringInv, ResultWarranted
    <2>6. RunOrder' /\ ConclusionWarranted'
        BY <2>2, ScoringAssumption DEF ScoringInv, RunOrder, ConclusionWarranted, ScoringAssumption
    <2> QED
        BY <2>4, <2>5, <2>6 DEF ScoringInv
<1> QED
    BY <1>1, StartKeeps, CaseAcceptedKeeps, CaseFailsKeeps, EndSubtaskKeeps, TotalKeeps DEF ScoringNext

LEMMA ScoringInvariant == ScoringSpec => []ScoringInv
BY ScoringInvInit, ScoringInvNext, PTL DEF ScoringSpec

(* A subtask that was run to its end has the score of its policy, for any  *)
(* scores and numbers of cases (SUM and PCT of judgeOnDAG).                *)
THEOREM ScoresFollowPolicies == ScoringSpec => []ScoreFollowsPolicy
<1>1. ScoringInv => ScoreFollowsPolicy
    BY DEF ScoringInv
<1> QED
    BY <1>1, ScoringInvariant, PTL

(* What work reports follows from the verdicts of the judged cases, in     *)
(* whatever order the map of the results is read.                          *)
THEOREM ResultsAreWarranted == ScoringSpec => []ResultWarranted
<1>1. ScoringInv => ResultWarranted
    BY DEF ScoringInv
<1> QED
    BY <1>1, ScoringInvariant, PTL

-----------------------------------------------------------------------------
(* Outputs (OutputFile) *)

(* The characters of all texts. *)
OutputNames ==
    {"stdout", "stderr", "status", "message", "newline"}
        \cup {"header of " \o f : f \in Streams}
OutputChars == OutputNames \X Nat

LEMMA TextFacts ==
    ASSUME NEW name, NEW n \in Nat, NEW m \in 0..n
    PROVE  /\ name \in OutputNames => Text(name, n) \in Seq(OutputChars)
           /\ Len(Text(name, n)) = n
           /\ SubSeq(Text(name, n), 1, m) = Text(name, m)
<1> DEFINE t == Text(name, n)
           S == {name} \X Nat
<1>1. t \in Seq(S) /\ Len(t) = n /\ \A i \in 1..n : t[i] = <<name, i>>
    <2>1. t = [i \in 1..n |-> <<name, i>>]
        BY DEF Text
    <2>2. \A i \in 1..n : <<name, i>> \in S
        OBVIOUS
    <2> HIDE DEF S
    <2>3. t \in [1..n -> S]
        BY <2>1, <2>2
    <2>4. t \in Seq(S)
        BY <2>3, IsASeq
    <2>5. DOMAIN t = 1..n
        BY <2>1
    <2> HIDE DEF t
    <2>6. Len(t) = n
        BY <2>4, <2>5, LenProperties
    <2> QED
        BY <2>1, <2>4, <2>6
<1>2. name \in OutputNames => t \in Seq(OutputChars)
    <2> SUFFICES ASSUME name \in OutputNames  PROVE t \in Seq(OutputChars)
        OBVIOUS
    <2>1. S \subseteq OutputChars
        BY DEF OutputChars
    <2> HIDE DEF S, t
    <2> QED
        BY <1>1, <2>1, SeqMonotonic
<1>3. SubSeq(t, 1, m) = Text(name, m)
    <2> DEFINE u == Text(name, m)
    <2>1. u = [i \in 1..m |-> <<name, i>>]
        BY DEF Text
    <2> HIDE DEF S, t
    <2>2. SubSeq(t, 1, m) = [i \in 1..m |-> t[i]]
        BY <1>1
    <2> QED
        BY <1>1, <2>1, <2>2
<1> QED
    BY <1>1, <1>2, <1>3

(* What a file holds that was not read yet, and what one read takes of it. *)
LEMMA ReadFacts ==
    ASSUME NEW f \in Streams, NEW b \in 0..size[f], size[f] \in Nat, offset[f] = 0
    PROVE  /\ Left(f) = Text(f, size[f])
           /\ Read(Left(f), b, FALSE) = Text(f, b)
           /\ Read(Left(f), Whole, FALSE) = Text(f, size[f])
<1>1. Left(f) = SubSeq(Text(f, size[f]), 1, size[f])
    BY DEF Left
<1>2. Left(f) = Text(f, size[f]) /\ Len(Left(f)) = size[f]
    BY <1>1, TextFacts
<1>3. Read(Left(f), b, FALSE) = SubSeq(Left(f), 1, b)
    BY <1>2 DEF Read, Whole
<1>4. Read(Left(f), Whole, FALSE) = Left(f)
    BY DEF Read
<1> QED
    BY <1>2, <1>3, <1>4, TextFacts

(* A text that fits is recorded as it is. *)
LEMMA TruncateFits ==
    ASSUME NEW name, NEW b \in Nat
    PROVE  truncate(<<>>, Text(name, b), b) = Text(name, b)
BY TextFacts DEF truncate, WithPrefix

LEMMA HeaderFacts ==
    ASSUME NEW f \in Streams
    PROVE  /\ Header(f) \in Seq(OutputChars)
           /\ Len(Header(f)) = HeaderLen
           /\ Header(f) # <<>>
<1>1. PICK name \in OutputNames : name = "header of " \o f
    BY DEF OutputNames
<1>2. Header(f) = Text(name, HeaderLen)
    BY <1>1 DEF Header
<1>3. HeaderLen \in Nat \ {0}
    BY LengthAssumption DEF LengthAssumption
<1>4. Text(name, HeaderLen) \in Seq(OutputChars) /\ Len(Text(name, HeaderLen)) = HeaderLen
    BY <1>3, TextFacts
<1> QED
    BY <1>2, <1>3, <1>4

(* A record with a header is cut to its share of the limit. *)
LEMMA TruncateBound ==
    ASSUME NEW prefix \in Seq(OutputChars), prefix # <<>>, NEW content \in Seq(OutputChars),
           NEW b \in Nat \ {0}
    PROVE  LET cut == truncate(prefix, content, b) IN
           cut \in Seq(OutputChars) /\ Len(cut) <= b
<1> DEFINE line == <<Newline>>
           res == WithPrefix(prefix, content)
<1>1. line \in Seq(OutputChars) /\ Len(line) = 1
    <2>1. "newline" \in OutputNames /\ 1 \in Nat
        BY DEF OutputNames
    <2>2. Newline \in OutputChars
        BY <2>1 DEF Newline, OutputChars
    <2> QED
        BY <2>2
<1> HIDE DEF line
<1>2. res \in Seq(OutputChars) /\ Len(res) \in Nat
    <2>1. res = prefix \o line \o content \o line
        BY DEF WithPrefix, line
    <2> QED
        BY <1>1, <2>1
<1>3. truncate(prefix, content, b) =
        IF Len(res) > b THEN SubSeq(res, 1, b - 1) \o line ELSE res
    BY DEF truncate, Whole, line
<1> HIDE DEF res
<1>4. CASE Len(res) > b
    <2> DEFINE cut == SubSeq(res, 1, b - 1)
    <2>1. \A i \in 1..(b - 1) : res[i] \in OutputChars
        BY <1>2, <1>4, LenProperties
    <2>2. cut \in Seq(OutputChars) /\ Len(cut) = b - 1
        BY <2>1, SubSeqProperties
    <2> HIDE DEF cut
    <2>3. cut \o line \in Seq(OutputChars) /\ Len(cut \o line) = Len(cut) + Len(line)
        BY <1>1, <2>2, ConcatProperties
    <2>4. Len(cut \o line) = b
        BY <1>1, <2>2, <2>3
    <2> QED
        BY <1>3, <1>4, <2>3, <2>4 DEF cut
<1> QED
    BY <1>2, <1>3, <1>4

-----------------------------------------------------------------------------

LEMMA InputTypes ==
    ASSUME RunInputs
    PROVE  /\ run.kind \in {"case", "compilation"} /\ run.limit \in Nat
           /\ {run.accepted, run.exitZero, run.faulty} \subseteq BOOLEAN
           /\ \A f \in Streams : size[f] \in Nat
           /\ outputFile \in Streams /\ outputSize = size[outputFile]
<1>1. /\ run \in [kind : {"case", "compilation"}, limit : Limits,
                    accepted : BOOLEAN, exitZero : BOOLEAN, faulty : BOOLEAN]
      /\ size \in [Streams -> 0..MaxSize]
    BY DEF RunInputs
<1>2. Limits \subseteq Nat /\ MaxSize \in Nat
    BY OutputAssumption DEF OutputAssumption
<1>3. \A f \in Streams : size[f] \in Nat
    BY <1>1, <1>2
<1>4. outputFile \in Streams /\ outputSize = size[outputFile]
    BY DEF Streams, outputFile, outputSize
<1> QED
    BY <1>1, <1>2, <1>3, <1>4

LEMMA OutputInvInit == ASSUME OutputInit  PROVE OutputInv
<1>1. /\ \A f \in Streams : offset[f] = 0 /\ size[f] \in Nat
      /\ step \in {"case", "compilation"} /\ step = run.kind
      /\ tries = 0 /\ record = <<>> /\ MaxRetries \in Nat
      /\ run.limit \in Nat /\ RunInputs
    BY InputTypes, OutputAssumption DEF None, OutputInit, OutputAssumption
<1>2. OutputTypeOK
    <2>1. offset \in [Streams -> Nat] /\ \A f \in Streams : offset[f] <= size[f]
        BY <1>1 DEF OutputInit
    <2> QED
        <3>1. tries \in 0..MaxRetries + 1
            BY <1>1
        <3> QED
            BY <1>1, <2>1, <3>1, Zenon DEF OutputTypeOK
<1>3. StepOfKind /\ Rewound /\ NotRecorded /\ RetriesLeft
    BY <1>1 DEF StepOfKind, Rewound, NotRecorded, RetriesLeft, None, Streams
<1>4. OutputKept
    BY <1>1, <1>2 DEF OutputKept
<1>5. RecordBounded
    <2>1. Len(record) <= run.limit
        BY <1>1
    <2> QED
        BY <1>1, <2>1 DEF RecordBounded
<1>6. RunInputs
    BY DEF OutputInit
<1> QED
    BY <1>2, <1>3, <1>4, <1>5, <1>6 DEF OutputInv

(* Judge moves the offset and rewinds the file. *)
LEMMA JudgeKeeps ==
    ASSUME OutputInv,
           SkipComparison \/ Compare \/ Rewind \/ RewindFails
    PROVE  OutputInv'
<1>1. /\ step \in {"case", "rewind"}
      /\ step' \in {"record", "rewind", "no record"}
      /\ run' = run /\ size' = size /\ record' = record /\ tries' = tries
      /\ uploaded' = uploaded
    BY DEF SkipComparison, Compare, Rewind, RewindFails, Proceed, fixed
<1>2. /\ run.kind = "case" /\ record = <<>> /\ run.limit \in Nat
      /\ offset \in [Streams -> Nat]
      /\ \A f \in Streams : size[f] \in Nat
      /\ tries \in 0..MaxRetries + 1
    BY <1>1, InputTypes DEF OutputInv, StepOfKind, NotRecorded, OutputTypeOK, None
<1>3. RunInputs'
    BY <1>1 DEF OutputInv, RunInputs
<1>4. /\ offset' \in [Streams -> Nat]
      /\ \A f \in Streams : offset'[f] <= size[f]
      /\ step' = "record" => \A f \in Streams : offset'[f] = 0
      /\ step' = "rewind" => offset'["stderr"] = 0
    <2>1. /\ Streams = {"stdout", "stderr"}
          /\ offset["stdout"] <= size["stdout"] /\ offset["stderr"] <= size["stderr"]
        BY DEF OutputInv, OutputTypeOK, Streams
    <2>2. /\ step = "case" => offset["stdout"] = 0 /\ offset["stderr"] = 0
          /\ step = "rewind" => offset["stderr"] = 0
        BY <2>1 DEF OutputInv, Rewound
    <2>3. CASE Compare
        <3>1. PICK n \in 0..size["stdout"] : offset' = [offset EXCEPT !["stdout"] = n]
            BY <2>3 DEF Compare, Seek
        <3>2. step = "case" /\ step' # "record"
            BY <2>3 DEF Compare, Proceed
        <3>3. n \in Nat /\ n <= size["stdout"]
            <4>1. size["stdout"] \in Nat
                BY <1>2, <2>1
            <4> QED
                BY <4>1
        <3> QED
            BY <1>2, <2>1, <2>2, <3>1, <3>2, <3>3
    <2>4. CASE Rewind
        BY <1>2, <2>1, <2>2, <2>4 DEF Rewind, Proceed, Seek
    <2>5. CASE SkipComparison \/ RewindFails
        BY <1>2, <2>1, <2>2, <2>5 DEF SkipComparison, RewindFails, Proceed
    <2> QED
        BY <2>3, <2>4, <2>5
<1>5. OutputTypeOK'
    BY <1>1, <1>2, <1>4 DEF OutputTypeOK
<1>6. (StepOfKind /\ Rewound /\ NotRecorded)'
    BY <1>1, <1>2, <1>4 DEF StepOfKind, Rewound, NotRecorded, None
<1>8. RetriesLeft'
    BY <1>1 DEF OutputInv, RetriesLeft
<1>7. OutputKept' /\ RecordBounded'
    <2>1. Len(record') = 0 /\ run'.limit \in Nat
        BY <1>1, <1>2
    <2>2. Len(record') <= run'.limit
        BY <2>1
    <2> QED
        BY <1>1, <1>2, <1>5, <2>2 DEF OutputKept, RecordBounded
<1> QED
    BY <1>3, <1>5, <1>6, <1>7, <1>8 DEF OutputInv

(* What the record of a case holds of its output. *)
Beginning == Clamp(outputSize, 0, run.limit)

LEMMA BeginningFacts ==
    ASSUME RunInputs
    PROVE  Beginning \in 0..outputSize /\ Beginning <= run.limit /\ Beginning \in Nat
<1>1. run.limit \in Nat /\ outputSize \in Nat
    BY InputTypes
<1> QED
    BY <1>1 DEF Beginning, Clamp

(* The judge and the uploader leave the run alone.                         *)
LEMMA SameRun ==
    ASSUME UNCHANGED fixed
    PROVE  /\ run' = run /\ size' = size
           /\ outputFile' = outputFile /\ outputSize' = outputSize
           /\ Beginning' = Beginning
           /\ RunInputs => RunInputs'
BY DEF fixed, outputFile, outputSize, RunInputs, Beginning

LEMMA RecordCaseKeeps ==
    ASSUME OutputInv, RecordCase
    PROVE  OutputInv'
<1> DEFINE f == outputFile
           n == outputSize
<1>1. /\ step = "record" /\ tries' = tries /\ UNCHANGED fixed
      /\ step' = IF n > Beginning THEN "upload" ELSE "done"
      /\ Seek(f, Clamp(offset[f] + Beginning, 0, n))
      /\ \E fails \in Fails :
            record' = truncate(<<>>, Read(Left(f), Beginning, fails), Beginning)
    BY DEF RecordCase, Proceed, Beginning
<1>2. /\ RunInputs /\ RunInputs'
      /\ run' = run /\ size' = size /\ f' = f /\ n' = n /\ Beginning' = Beginning
    BY <1>1, SameRun DEF OutputInv
<1>3. /\ f \in Streams /\ n \in Nat /\ n = size[f] /\ run.limit \in Nat
      /\ Beginning \in 0..n /\ Beginning \in Nat /\ Beginning <= run.limit
    BY <1>2, InputTypes, BeginningFacts
<1>4. run.kind = "case" /\ offset[f] = 0 /\ OutputTypeOK
    BY <1>1, <1>2, <1>3, InputTypes DEF OutputInv, StepOfKind, Rewound
<1>5. ~run.faulty => record' = Text(f, Beginning)
    <2> SUFFICES ASSUME ~run.faulty
                 PROVE  record' = Text(f, Beginning)
        OBVIOUS
    <2>1. record' = truncate(<<>>, Read(Left(f), Beginning, FALSE), Beginning)
        BY <1>1 DEF Fails
    <2>2. Read(Left(f), Beginning, FALSE) = Text(f, Beginning)
        <3> HIDE DEF f
        <3> QED
            BY <1>3, <1>4, ReadFacts
    <2> QED
        BY <1>3, <2>1, <2>2, TruncateFits
<1> HIDE DEF f, n
<1>6. OutputTypeOK'
    <2>1. offset' = [offset EXCEPT ![f] = Beginning]
        <3>1. Clamp(offset[f] + Beginning, 0, n) = Beginning
            BY <1>3, <1>4 DEF Clamp
        <3> QED
            BY <1>1, <3>1 DEF Seek
    <2>2. /\ offset' \in [Streams -> Nat]
          /\ \A g \in Streams : offset'[g] <= size[g]
        <3>1. offset \in [Streams -> Nat] /\ \A g \in Streams : offset[g] <= size[g]
            BY <1>4 DEF OutputTypeOK
        <3>2. Beginning <= size[f]
            BY <1>3
        <3> QED
            BY <1>3, <2>1, <3>1, <3>2
    <2>3. step' \in {"upload", "done"} /\ tries' \in 0..MaxRetries + 1
        BY <1>1, <1>4 DEF OutputTypeOK
    <2> QED
        BY <1>2, <2>2, <2>3 DEF OutputTypeOK
<1>7. (StepOfKind /\ Rewound /\ NotRecorded)'
    BY <1>1, <1>2, <1>4 DEF StepOfKind, Rewound, NotRecorded
<1>8. RetriesLeft'
    BY <1>1 DEF OutputInv, RetriesLeft
<1>9. OutputKept'
    <2> SUFFICES ASSUME ~run.faulty
                 PROVE  /\ step' = "done" => Text(f, n) \in {record', uploaded'}
                        /\ record' = Text(f, Beginning)
        BY <1>2, <1>6 DEF OutputKept, f, n, Beginning
    <2>1. step' = "done" => Beginning = n
        BY <1>1, <1>3
    <2> QED
        BY <1>5, <2>1
<1>10. RecordBounded'
    <2> SUFFICES ASSUME ~run.faulty  PROVE step' # "dead" /\ Len(record') <= run.limit
        BY <1>2, <1>4 DEF RecordBounded
    <2>1. Len(record') = Beginning
        BY <1>3, <1>5, TextFacts
    <2> QED
        BY <1>1, <1>3, <2>1
<1> QED
    BY <1>2, <1>6, <1>7, <1>8, <1>9, <1>10 DEF OutputInv

LEMMA UploaderKeeps ==
    ASSUME OutputInv, Uploader
    PROVE  OutputInv'
<1> DEFINE f == outputFile
           n == outputSize
<1>1. /\ step \in {"upload", "put"} /\ step' \in {"upload", "put", "done", "dropped"}
      /\ record' = record /\ UNCHANGED fixed
      /\ \/ tries' = tries /\ step' \in {"put", "done"}
         \/ tries' = tries + 1 /\ step' = IF tries < MaxRetries THEN "upload" ELSE "dropped"
    BY DEF Uploader, SeekStart, SeekFails, PutOk, PutFails, Proceed
<1>2. \/ offset' = offset /\ step' # "put" /\ step' # "done"
      \/ Seek(f, 0) /\ step' = "put"
      \/ step = "put" /\ step' = "done" /\ Seek(f, n) /\ uploaded' = Left(f)
      \/ step' # "put" /\ step' # "done" /\ \E m \in offset[f]..n : Seek(f, m)
    <2>1. SeekStart => Seek(f, 0) /\ step' = "put"
        BY DEF SeekStart, Proceed
    <2>2. SeekFails => offset' = offset /\ step' # "put" /\ step' # "done"
        BY DEF SeekFails, Proceed
    <2>3. PutOk => /\ step = "put" /\ step' = "done"
                       /\ Seek(f, n) /\ uploaded' = Left(f)
        BY DEF PutOk, Proceed
    <2>4. PutFails => /\ step' # "put" /\ step' # "done"
                          /\ \E m \in offset[f]..n : Seek(f, m)
        BY DEF PutFails, Proceed
    <2>5. SeekStart \/ SeekFails \/ PutOk \/ PutFails
        BY DEF Uploader
    <2> QED
        BY <2>1, <2>2, <2>3, <2>4, <2>5
<1>3. /\ RunInputs /\ RunInputs' /\ OutputTypeOK
      /\ run' = run /\ size' = size /\ f' = f /\ n' = n /\ Beginning' = Beginning
    BY <1>1, SameRun DEF OutputInv
<1>4. /\ f \in Streams /\ n \in Nat /\ n = size[f] /\ run.limit \in Nat
      /\ Beginning \in Nat /\ run.kind = "case" /\ tries \in Nat /\ tries <= MaxRetries
      /\ MaxRetries \in Nat /\ offset[f] \in Nat
    <2>1. /\ f \in Streams /\ n \in Nat /\ n = size[f] /\ run.limit \in Nat
          /\ Beginning \in Nat /\ run.kind \in {"case", "compilation"}
        BY <1>3, InputTypes, BeginningFacts
    <2>2. MaxRetries \in Nat
        BY OutputAssumption DEF OutputAssumption
    <2>3. run.kind = "case"
        BY <1>1, <2>1 DEF OutputInv, StepOfKind
    <2>4. tries \in Nat /\ tries <= MaxRetries
        <3>1. tries \in 0..MaxRetries + 1
            BY <1>3 DEF OutputTypeOK
        <3>2. tries <= MaxRetries
            BY <1>1 DEF OutputInv, RetriesLeft
        <3> QED
            BY <2>2, <3>1, <3>2
    <2>5. offset[f] \in Nat
        BY <1>3, <2>1 DEF OutputTypeOK
    <2> QED
        BY <2>1, <2>2, <2>3, <2>4, <2>5
<1> HIDE DEF f, n
<1>5. \/ offset' = offset /\ step' # "put"
      \/ \E m \in 0..n : offset' = [offset EXCEPT ![f] = m] /\ (step' = "put" => m = 0)
    <2>1. 0 \in 0..n /\ n \in 0..n /\ offset[f]..n \subseteq 0..n
        BY <1>4
    <2> QED
        BY <1>2, <2>1 DEF Seek
<1>6. /\ offset' \in [Streams -> Nat]
      /\ \A g \in Streams : offset'[g] <= size[g]
      /\ step' = "put" => offset'[f] = 0
    <2>1. offset \in [Streams -> Nat] /\ \A g \in Streams : offset[g] <= size[g]
        BY <1>3 DEF OutputTypeOK
    <2>2. CASE offset' = offset /\ step' # "put"
        BY <2>1, <2>2
    <2>3. ASSUME NEW m \in 0..n, offset' = [offset EXCEPT ![f] = m], step' = "put" => m = 0
          PROVE  /\ offset' \in [Streams -> Nat]
                 /\ \A g \in Streams : offset'[g] <= size[g]
                 /\ step' = "put" => offset'[f] = 0
        <3>1. m \in Nat /\ m <= size[f]
            BY <1>4
        <3> QED
            BY <1>4, <2>1, <2>3, <3>1
    <2> QED
        BY <1>5, <2>2, <2>3
<1>7. tries' \in 0..MaxRetries + 1 /\ (step' # "dropped" => tries' <= MaxRetries)
    BY <1>1, <1>4
<1>8. OutputTypeOK'
    BY <1>1, <1>3, <1>6, <1>7 DEF OutputTypeOK
<1>9. (StepOfKind /\ Rewound /\ NotRecorded /\ RetriesLeft)'
    BY <1>1, <1>3, <1>4, <1>6, <1>7 DEF StepOfKind, Rewound, NotRecorded,
        RetriesLeft, f
<1>10. OutputKept'
    <2> SUFFICES ASSUME ~run.faulty
                 PROVE  /\ step' = "done" => Text(f, n) \in {record', uploaded'}
                        /\ record' = Text(f, Beginning)
        BY <1>3, <1>8 DEF OutputKept, f, n, Beginning
    <2>1. record = Text(f, Beginning)
        BY <1>1, <1>4 DEF OutputInv, OutputKept, f, Beginning
    <2>2. step' = "done" => uploaded' = Text(f, n)
        <3> SUFFICES ASSUME step' = "done"  PROVE uploaded' = Text(f, n)
            OBVIOUS
        <3>1. step = "put" /\ uploaded' = Left(f)
            BY <1>2
        <3>2. offset[f] = 0
            BY <3>1 DEF OutputInv, Rewound, f
        <3>3. 0 \in 0..size[f] /\ size[f] \in Nat
            BY <1>4
        <3>4. Left(f) = Text(f, size[f])
            BY <1>4, <3>2, <3>3, ReadFacts
        <3> QED
            BY <1>4, <3>1, <3>4
    <2> QED
        BY <1>1, <2>1, <2>2
<1>11. RecordBounded'
    <2> SUFFICES ASSUME ~run.faulty  PROVE step' # "dead" /\ Len(record') <= run.limit
        BY <1>3, <1>4 DEF RecordBounded
    <2>1. Len(record) <= run.limit
        BY <1>4 DEF OutputInv, RecordBounded
    <2> QED
        BY <1>1, <2>1
<1> QED
    BY <1>3, <1>8, <1>9, <1>10, <1>11 DEF OutputInv

(* compile records what the compiler wrote; what it leaves alone.          *)
LEMMA CompileFrame ==
    ASSUME OutputInv, Compile, RecordBounded'
    PROVE  OutputInv'
<1>1. /\ step = "compilation" /\ step' \in {"done", "dead"} /\ UNCHANGED fixed
      /\ offset' = offset /\ tries' = tries /\ uploaded' = uploaded
      /\ step' = "dead" => record' = record
    BY DEF Compile, RecordBoth, RecordPanics, RecordOne, RecordStatus, Proceed
<1>2. /\ RunInputs' /\ OutputTypeOK /\ run' = run /\ size' = size
      /\ run.kind = "compilation" /\ record = None
    <2>1. run.kind \in {"case", "compilation"}
        BY InputTypes DEF OutputInv
    <2> QED
        BY <1>1, <2>1, SameRun DEF OutputInv, StepOfKind, NotRecorded
<1>3. OutputTypeOK'
    BY <1>1, <1>2 DEF OutputTypeOK
<1>4. (StepOfKind /\ Rewound /\ NotRecorded /\ RetriesLeft /\ OutputKept)'
    BY <1>1, <1>2 DEF OutputInv, StepOfKind, Rewound, NotRecorded,
        RetriesLeft, OutputKept, None
<1> QED
    BY <1>2, <1>3, <1>4 DEF OutputInv

(* The share that one stream gets of the limit when both do not fit.       *)
LEMMA ShareFacts ==
    ASSUME RunInputs, NEW f \in Streams, NEW g \in Streams
    PROVE  /\ size[f] + size[g] <= run.limit => Limit(f, g) = Whole
           /\ size[f] + size[g] > run.limit =>
                /\ Limit(f, g) \in 0..size[f]
                /\ 2 * Limit(f, g) <= run.limit
                /\ Limit(f, g) = 0 /\ size[f] > 0 => run.limit < 2
<1>1. size[f] \in Nat /\ size[g] \in Nat /\ run.limit \in Nat
    BY InputTypes
<1>2. PICK half \in Nat : /\ half = run.limit \div 2
                          /\ 2 * half <= run.limit /\ run.limit <= 2 * half + 1
    BY <1>1
<1>3. Limit(f, g) =
        IF size[f] + size[g] > run.limit THEN Clamp(size[f], 0, half) ELSE Whole
    BY <1>2 DEF Limit, StreamLimit
<1>4. /\ Clamp(size[f], 0, half) \in 0..size[f]
      /\ Clamp(size[f], 0, half) <= half
      /\ Clamp(size[f], 0, half) = 0 /\ size[f] > 0 => half = 0
    BY <1>1, <1>2 DEF Clamp
<1>5. CASE size[f] + size[g] <= run.limit
    <2>1. ~(size[f] + size[g] > run.limit)
        BY <1>1, <1>5
    <2> QED
        BY <1>3, <1>5, <2>1
<1>6. CASE size[f] + size[g] > run.limit
    <2>1. Limit(f, g) = Clamp(size[f], 0, half)
        BY <1>3, <1>6
    <2>2. ~(size[f] + size[g] <= run.limit)
        BY <1>1, <1>6
    <2>3. PICK c \in 0..size[f] : /\ c = Limit(f, g) /\ c <= half
                                  /\ c = 0 /\ size[f] > 0 => half = 0
        BY <1>4, <2>1
    <2>4. c \in Nat /\ 2 * c <= run.limit /\ (half = 0 => run.limit < 2)
        BY <1>1, <1>2, <2>3
    <2> QED
        BY <2>2, <2>3, <2>4
<1> QED
    BY <1>1, <1>5, <1>6

LEMMA RecordBothKeeps ==
    ASSUME OutputInv, RecordBoth
    PROVE  RecordBounded'
<1> DEFINE outShare == Limit("stdout", "stderr")
           errShare == Limit("stderr", "stdout")
           total == size["stdout"] + size["stderr"]
<1>1. /\ RunInputs /\ RunInputs' /\ run' = run /\ size' = size /\ offset' = offset
      /\ step = "compilation" /\ step' = "done" /\ Printed = Streams
    BY SameRun DEF OutputInv, RecordBoth, Proceed
<1>2. /\ {"stdout", "stderr"} \subseteq Streams /\ run.limit \in Nat
      /\ size["stdout"] \in Nat /\ size["stderr"] \in Nat
      /\ size["stdout"] > 0 /\ size["stderr"] > 0
      /\ offset["stdout"] = 0 /\ offset["stderr"] = 0
    <2>1. run.kind \in {"case", "compilation"} /\ run.limit \in Nat
        BY <1>1, InputTypes
    <2>2. \A f \in Streams : size[f] \in Nat /\ size[f] > 0 /\ offset[f] = 0
        BY <1>1, <2>1, InputTypes DEF Printed, OutputInv, StepOfKind
    <2> QED
        BY <2>1, <2>2 DEF Streams
<1> SUFFICES ASSUME ~run.faulty
             PROVE  IF total <= run.limit
                    THEN record' =
                            WithPrefix(Header("stdout"), Text("stdout", size["stdout"]))
                            \o WithPrefix(Header("stderr"), Text("stderr", size["stderr"]))
                    ELSE Len(record') <= run.limit
    <2>1. (ShownInFull)' <=> total <= run.limit
        BY <1>1 DEF ShownInFull, Printed, Streams
    <2>2. total <= run.limit \/ total > run.limit
        BY <1>2
    <2>3. run'.faulty = run.faulty /\ run'.limit = run.limit /\ run'.kind = "compilation"
        BY <1>1, InputTypes DEF OutputInv, StepOfKind
    <2> QED
        BY <1>1, <2>1, <2>2, <2>3 DEF RecordBounded
<1> DEFINE Part(f, b) == truncate(Header(f), Read(Left(f), b, FALSE), b)
<1>3. record' = Part("stdout", outShare) \o Part("stderr", errShare)
    BY DEF RecordBoth, Recorded, Fails
<1>4. CASE total <= run.limit
    <2>1. outShare = Whole /\ errShare = Whole
        BY <1>1, <1>2, <1>4, ShareFacts
    <2>2. /\ Read(Left("stdout"), Whole, FALSE) = Text("stdout", size["stdout"])
          /\ Read(Left("stderr"), Whole, FALSE) = Text("stderr", size["stderr"])
        <3>1. 0 \in 0..size["stdout"] /\ 0 \in 0..size["stderr"]
            BY <1>2
        <3> QED
            BY <1>2, <3>1, ReadFacts
    <2> HIDE DEF outShare, errShare
    <2> QED
        BY <1>3, <1>4, <2>1, <2>2 DEF truncate
<1>5. CASE total > run.limit
    <2>1. /\ outShare \in 1..size["stdout"] /\ errShare \in 1..size["stderr"]
          /\ 2 * outShare <= run.limit /\ 2 * errShare <= run.limit
        <3>1. outShare # 0 /\ errShare # 0
            <4>1. "stdout" \in Streams /\ "stderr" \in Streams
                BY <1>2
            <4>2. Header("stdout") # <<>> /\ Header("stderr") # <<>>
                BY <4>1, HeaderFacts
            <4> QED
                BY <4>2 DEF RecordBoth, Panics
        <3>2. /\ outShare \in 0..size["stdout"] /\ errShare \in 0..size["stderr"]
              /\ 2 * outShare <= run.limit /\ 2 * errShare <= run.limit
            BY <1>1, <1>2, <1>5, ShareFacts
        <3> QED
            BY <1>2, <3>1, <3>2
    <2> HIDE DEF outShare, errShare
    <2>2. ASSUME NEW f \in Streams, NEW b \in 1..size[f], size[f] \in Nat, offset[f] = 0
          PROVE  Part(f, b) \in Seq(OutputChars) /\ Len(Part(f, b)) <= b
        <3>1. b \in 0..size[f] /\ b \in Nat \ {0}
            BY <2>2
        <3>2. Read(Left(f), b, FALSE) = Text(f, b)
            BY <2>2, <3>1, ReadFacts
        <3>3. Text(f, b) \in Seq(OutputChars)
            <4>1. f \in OutputNames
                BY DEF OutputNames, Streams
            <4>2. 0 \in 0..b
                BY <3>1
            <4> QED
                BY <3>1, <4>1, <4>2, TextFacts
        <3> QED
            BY <3>1, <3>2, <3>3, HeaderFacts, TruncateBound
    <2> HIDE DEF Part
    <2>3. PICK a, b : /\ record' = a \o b
                      /\ a \in Seq(OutputChars) /\ Len(a) <= outShare
                      /\ b \in Seq(OutputChars) /\ Len(b) <= errShare
        BY <1>2, <1>3, <2>1, <2>2
    <2>4. Len(record') = Len(a) + Len(b) /\ Len(a) \in Nat /\ Len(b) \in Nat
        BY <2>3, ConcatProperties, LenProperties
    <2>5. outShare \in Int /\ errShare \in Int
        BY <1>2, <2>1
    <2>6. Len(record') <= run.limit
        BY <1>2, <2>1, <2>3, <2>4, <2>5
    <2>7. ~(total <= run.limit)
        BY <1>2, <1>5
    <2> QED
        BY <2>6, <2>7
<1> QED
    BY <1>2, <1>4, <1>5

LEMMA RecordPanicsKeeps ==
    ASSUME OutputInv, RecordPanics
    PROVE  RecordBounded'
<1>1. /\ RunInputs /\ run' = run /\ size' = size /\ record' = record
      /\ step = "compilation" /\ step' = "dead" /\ Printed = Streams
    BY SameRun DEF OutputInv, RecordPanics, Proceed
<1>2. PICK f \in Streams, g \in Streams : Limit(f, g) = 0
    <2>1. "stdout" \in Streams /\ "stderr" \in Streams
        BY DEF Streams
    <2> QED
        BY <2>1 DEF RecordPanics, Panics
<1>3. size[f] > 0 /\ size[f] \in Nat /\ size[g] \in Nat /\ run.limit \in Nat
    BY <1>1, InputTypes DEF Printed
<1>4. run.limit < 2
    <2>1. Limit(f, g) # Whole
        BY <1>2 DEF Whole
    <2>2. size[f] + size[g] > run.limit
        BY <1>1, <1>3, <2>1, ShareFacts
    <2> QED
        BY <1>1, <1>2, <1>3, <2>2, ShareFacts
<1>5. Len(record') <= run.limit
    <2>1. Len(record) = 0
        BY <1>1 DEF OutputInv, NotRecorded, None
    <2> QED
        BY <1>1, <1>3, <2>1
<1> QED
    BY <1>1, <1>4, <1>5 DEF RecordBounded

LEMMA RecordOneKeeps ==
    ASSUME OutputInv, NEW f \in Streams, RecordOne(f)
    PROVE  RecordBounded'
<1> DEFINE b == Clamp(size[f], 0, run.limit)
<1>1. /\ RunInputs /\ run' = run /\ size' = size
      /\ step = "compilation" /\ step' = "done" /\ Printed = {f}
    BY SameRun DEF OutputInv, RecordOne, Proceed
<1>2. /\ size[f] \in Nat /\ run.limit \in Nat /\ offset[f] = 0
      /\ run.kind = "compilation" /\ b \in 0..size[f] /\ b \in Nat /\ b <= run.limit
    <2>1. size[f] \in Nat /\ run.limit \in Nat /\ run.kind \in {"case", "compilation"}
        BY <1>1, InputTypes
    <2>2. b \in 0..size[f] /\ b \in Nat /\ b <= run.limit
        BY <2>1 DEF Clamp
    <2> QED
        BY <1>1, <2>1, <2>2 DEF OutputInv, StepOfKind
<1>3. ~(ShownInFull)'
    <2>1. Printed' = {f}
        BY <1>1 DEF Printed
    <2>2. Streams # {f}
        BY DEF Streams
    <2> QED
        BY <2>1, <2>2 DEF ShownInFull
<1> SUFFICES ASSUME ~run.faulty  PROVE Len(record') <= run.limit
    BY <1>1, <1>3 DEF RecordBounded
<1>4. record' = truncate(<<>>, Read(Left(f), b, FALSE), b)
    BY DEF RecordOne, Recorded, Fails
<1> HIDE DEF b
<1>5. Read(Left(f), b, FALSE) = Text(f, b)
    BY <1>2, ReadFacts
<1>6. record' = Text(f, b) /\ Len(Text(f, b)) = b
    <2>1. 0 \in 0..b
        BY <1>2
    <2> QED
        BY <1>2, <1>4, <1>5, <2>1, TruncateFits, TextFacts
<1> QED
    BY <1>2, <1>6

LEMMA RecordStatusKeeps ==
    ASSUME OutputInv, RecordStatus
    PROVE  RecordBounded'
<1>1. /\ run' = run /\ size' = size /\ step = "compilation" /\ step' = "done"
      /\ Printed = {}
    BY SameRun DEF RecordStatus, Proceed
<1>2. Printed' = {} /\ ~(ShownInFull)'
    BY <1>1 DEF Printed, ShownInFull, Streams
<1>3. run.kind = "compilation"
    BY <1>1, InputTypes DEF OutputInv, StepOfKind
<1> QED
    BY <1>1, <1>2, <1>3 DEF RecordBounded

LEMMA OutputInvNext ==
    OutputInv /\ [OutputNext]_outputVars => OutputInv'
<1> SUFFICES ASSUME OutputInv, [OutputNext]_outputVars  PROVE OutputInv'
    OBVIOUS
<1>1. CASE Judge
    BY <1>1, JudgeKeeps, RecordCaseKeeps DEF Judge
<1>2. CASE Uploader
    BY <1>2, UploaderKeeps
<1>3. CASE Compile
    <2>1. RecordBounded'
        BY <1>3, RecordBothKeeps, RecordPanicsKeeps, RecordOneKeeps, RecordStatusKeeps
        DEF Compile
    <2> QED
        BY <1>3, <2>1, CompileFrame
<1>4. CASE UNCHANGED outputVars
    <2>1. /\ UNCHANGED fixed /\ step' = step /\ offset' = offset
          /\ record' = record /\ tries' = tries /\ uploaded' = uploaded
        BY <1>4 DEF outputVars
    <2>2. /\ run' = run /\ size' = size /\ RunInputs'
          /\ outputFile' = outputFile /\ outputSize' = outputSize
        BY <2>1, SameRun DEF OutputInv
    <2>3. (OutputTypeOK /\ StepOfKind /\ Rewound /\ NotRecorded /\ RetriesLeft)'
        BY <2>1, <2>2 DEF OutputInv, OutputTypeOK, StepOfKind, Rewound, NotRecorded, RetriesLeft
    <2>4. OutputKept'
        BY <2>1, <2>2, <2>3 DEF OutputInv, OutputKept
    <2>5. ShownInFull' = ShownInFull /\ Printed' = Printed
        BY <2>2 DEF ShownInFull, Printed
    <2>6. RecordBounded'
        BY <2>1, <2>2, <2>5 DEF OutputInv, RecordBounded
    <2> QED
        BY <2>2, <2>3, <2>4, <2>6 DEF OutputInv
<1> QED
    BY <1>1, <1>2, <1>3, <1>4 DEF OutputNext

LEMMA OutputInvariant == OutputSpec => []OutputInv
BY OutputInvInit, OutputInvNext, PTL DEF OutputSpec

(* Every output of a test case is in the record or in the hands of the     *)
(* uploader, who sends all of it: for any sizes, limits and retries.       *)
THEOREM OutputsAreKept == OutputSpec => []OutputKept
<1>1. OutputInv => OutputKept
    BY DEF OutputInv
<1> QED
    BY <1>1, OutputInvariant, PTL

(* No record exceeds the limit but for the headers of truncateOutput, and  *)
(* truncate never slices out of range unless the limit is below two.       *)
THEOREM RecordsAreBounded == OutputSpec => []RecordBounded
<1>1. OutputInv => RecordBounded
    BY DEF OutputInv
<1> QED
    BY <1>1, OutputInvariant, PTL

-----------------------------------------------------------------------------
(* Verdicts (Compare): CompareInv is inductive.                            *)

(* Taken is what its definition says. *)
LEMMA TakenFacts ==
    ASSUME NEW S, NEW t \in Seq(S), NEW K
    PROVE  LET f == Taken(t, K) IN
           /\ f \in [0..Len(t) -> Seq(S)]
           /\ f[0] = <<>>
           /\ \A n \in 1..Len(t) : f[n] = IF n \in K THEN Append(f[n - 1], t[n]) ELSE f[n - 1]
<1> DEFINE N == Len(t)
           V == Seq(S)
           Step(g) == [n \in 0..N |-> IF n = 0 THEN <<>>
                                      ELSE IF n \in K THEN Append(g[n - 1], t[n]) ELSE g[n - 1]]
           f == CHOOSE g : g = Step(g)
           law == [n \in 1..N |-> [v \in V |-> IF n \in K THEN Append(v, t[n]) ELSE v]]
<1>1. Taken(t, K) = f
    BY DEF Taken
<1>2. N \in Nat /\ <<>> \in V
    OBVIOUS
<1>3. ASSUME NEW n \in 1..N, NEW v \in V
      PROVE  law[n][v] = (IF n \in K THEN Append(v, t[n]) ELSE v) /\ law[n][v] \in V
    <2>1. t[n] \in S
        OBVIOUS
    <2>2. Append(v, t[n]) \in V
        BY <2>1
    <2> HIDE DEF V
    <2> QED
        BY <2>2
<1>11. ASSUME NEW h, NEW n \in 0..N
       PROVE  Step(h)[n] = IF n = 0 THEN <<>>
                           ELSE IF n \in K THEN Append(h[n - 1], t[n]) ELSE h[n - 1]
    <2> HIDE DEF N
    <2> QED
        OBVIOUS
<1>4. PICK g \in [0..N -> V] : Counts(g, N, <<>>, law)
    <2> HIDE DEF N, V, law
    <2> QED
        BY <1>2, <1>3, CountedRecursion
<1>5. ASSUME NEW h, h = Step(h)
      PROVE  /\ h[0] = <<>>
             /\ \A n \in 1..N : h[n] = IF n \in K THEN Append(h[n - 1], t[n]) ELSE h[n - 1]
             /\ DOMAIN h = 0..N
    <2>1. DOMAIN h = 0..N
        <3>1. DOMAIN Step(h) = 0..N
            OBVIOUS
        <3> HIDE DEF Step
        <3> QED
            BY <1>5, <3>1
    <2>2. \A n \in 0..N : h[n] = IF n = 0 THEN <<>>
                                 ELSE IF n \in K THEN Append(h[n - 1], t[n]) ELSE h[n - 1]
        <3> HIDE DEF Step, N
        <3> QED
            BY <1>5, <1>11
    <2> HIDE DEF N
    <2>3. 0 \in 0..N /\ \A n \in 1..N : n \in 0..N /\ n # 0
        BY <1>2
    <2> QED
        BY <2>1, <2>2, <2>3
<1>6. g = Step(g)
    <2>1. g[0] = <<>>
        BY <1>4 DEF Counts
    <2>2. ASSUME NEW n \in 1..N
          PROVE  g[n] = IF n \in K THEN Append(g[n - 1], t[n]) ELSE g[n - 1]
        <3>1. n - 1 \in 0..N
            BY <1>2
        <3>2. g[n - 1] \in V
            BY <3>1
        <3>3. g[n] = law[n][g[n - 1]]
            BY <1>4 DEF Counts
        <3> HIDE DEF law, V
        <3> QED
            BY <1>3, <3>2, <3>3
    <2> HIDE DEF N, law, V
    <2>3. \A n \in 0..N : g[n] = Step(g)[n]
        <3> SUFFICES ASSUME NEW n \in 0..N  PROVE g[n] = Step(g)[n]
            OBVIOUS
        <3>1. n = 0 \/ n \in 1..N
            BY <1>2
        <3>2. Step(g)[n] = IF n = 0 THEN <<>>
                           ELSE IF n \in K THEN Append(g[n - 1], t[n]) ELSE g[n - 1]
            BY <1>11
        <3> HIDE DEF Step
        <3> QED
            BY <2>1, <2>2, <3>1, <3>2
    <2>4. g = [n \in 0..N |-> g[n]]
        OBVIOUS
    <2> QED
        BY <2>3, <2>4
<1>7. f = Step(f)
    <2> HIDE DEF Step
    <2> QED
        BY <1>6
<1>8. /\ f[0] = <<>>
      /\ \A n \in 1..N : f[n] = IF n \in K THEN Append(f[n - 1], t[n]) ELSE f[n - 1]
      /\ DOMAIN f = 0..N
    <2> HIDE DEF f, Step
    <2> QED
        BY <1>5, <1>7
<1>9. 0..N \subseteq {n \in 0..N : f[n] \in V}
    <2> DEFINE T == {n \in 0..N : f[n] \in V}
    <2>1. 0 \in T /\ 0 \in 0..N
        <3> HIDE DEF f, N, V
        <3> QED
            BY <1>2, <1>8
    <2>2. ASSUME NEW n \in 0..N - 1, n \in T  PROVE n + 1 \in T
        <3>1. n + 1 \in 1..N /\ n + 1 \in 0..N /\ (n + 1) - 1 = n
            BY <1>2
        <3>2. f[n + 1] = IF n + 1 \in K THEN Append(f[n], t[n + 1]) ELSE f[n]
            <4> HIDE DEF f, N
            <4> QED
                BY <1>8, <3>1
        <3>3. f[n] \in V /\ t[n + 1] \in S
            BY <2>2, <3>1
        <3>4. Append(f[n], t[n + 1]) \in V
            <4> HIDE DEF f
            <4> QED
                BY <3>3
        <3> HIDE DEF f, V, N
        <3> QED
            BY <3>1, <3>2, <3>3, <3>4
    <2> HIDE DEF T
    <2>3. 0..N \subseteq T
        <3> HIDE DEF N
        <3> QED
            BY <1>2, <2>1, <2>2, BoundedInduction
    <2> QED
        BY <2>3 DEF T
<1>10. f \in [0..N -> V]
    <2>1. f = [n \in 0..N |-> f[n]]
        <3> HIDE DEF f
        <3> QED
            BY <1>7
    <2> HIDE DEF f, V
    <2> QED
        BY <1>8, <1>9, <2>1
<1> HIDE DEF f
<1> QED
    BY <1>1, <1>8, <1>10

(* What is taken of a text only grows, by characters of the positions read. *)
Grows(f, t, K, p, n) ==
    /\ Len(f[p]) <= Len(f[n])
    /\ \A j \in 1..Len(f[p]) : f[n][j] = f[p][j]
    /\ \A j \in Len(f[p]) + 1..Len(f[n]) : \E i \in p + 1..n : i \in K /\ f[n][j] = t[i]

LEMMA TakenGrows ==
    ASSUME NEW S, NEW t \in Seq(S), NEW K, NEW p \in 0..Len(t), NEW n \in p..Len(t)
    PROVE  Grows(Taken(t, K), t, K, p, n)
<1> DEFINE f == Taken(t, K)
           N == Len(t)
           T == {m \in p..N : Grows(f, t, K, p, m)}
<1>1. /\ f \in [0..N -> Seq(S)]
      /\ \A m \in 1..N : f[m] = IF m \in K THEN Append(f[m - 1], t[m]) ELSE f[m - 1]
    BY TakenFacts
<1> HIDE DEF f
<1>2. N \in Nat /\ p \in 0..N
    OBVIOUS
<1>3. p \in T
    BY <1>1 DEF Grows
<1>4. ASSUME NEW m \in p..N - 1, m \in T  PROVE m + 1 \in T
    <2>1. /\ m \in Nat /\ m + 1 \in p..N /\ m + 1 \in 1..N /\ (m + 1) - 1 = m
          /\ m \in 0..N /\ m + 1 \in 0..N
        BY <1>2
    <2>2. /\ f[m] \in Seq(S) /\ f[p] \in Seq(S)
          /\ Grows(f, t, K, p, m)
          /\ Len(f[m]) \in Nat /\ Len(f[p]) \in Nat
        <3>1. Grows(f, t, K, p, m)
            BY <1>4
        <3>2. f[m] \in Seq(S) /\ f[p] \in Seq(S)
            BY <1>1, <1>2, <2>1
        <3> QED
            BY <3>1, <3>2, LenProperties
    <2>3. f[m + 1] = IF m + 1 \in K THEN Append(f[m], t[m + 1]) ELSE f[m]
        BY <1>1, <2>1
    <2>4. CASE m + 1 \notin K
        <3>1. f[m + 1] = f[m] /\ p + 1..m \subseteq p + 1..m + 1
            BY <1>2, <2>1, <2>3, <2>4
        <3> QED
            BY <2>1, <2>2, <3>1 DEF Grows
    <2>5. CASE m + 1 \in K
        <3>1. /\ Len(f[m + 1]) = Len(f[m]) + 1
              /\ \A j \in 1..Len(f[m]) : f[m + 1][j] = f[m][j]
              /\ f[m + 1][Len(f[m]) + 1] = t[m + 1]
            BY <2>2, <2>3, <2>5
        <3>2. Len(f[p]) <= Len(f[m + 1]) /\ \A j \in 1..Len(f[p]) : f[m + 1][j] = f[p][j]
            BY <2>2, <3>1 DEF Grows
        <3>3. ASSUME NEW j \in Len(f[p]) + 1..Len(f[m + 1])
              PROVE  \E i \in p + 1..m + 1 : i \in K /\ f[m + 1][j] = t[i]
            <4>1. CASE j = Len(f[m]) + 1
                BY <1>2, <2>1, <2>5, <3>1, <4>1
            <4>2. CASE j # Len(f[m]) + 1
                <5> DEFINE a == Len(f[p])
                           b == Len(f[m])
                <5>1. a \in Nat /\ b \in Nat /\ j \in a + 1..b + 1 /\ j # b + 1
                    BY <2>2, <3>1, <4>2
                <5> HIDE DEF a, b
                <5>2. j \in 1..b /\ j \in a + 1..b
                    BY <5>1
                <5>3. PICK i \in p + 1..m : i \in K /\ f[m][j] = t[i]
                    BY <2>2, <5>2 DEF Grows, a, b
                <5>4. i \in p + 1..m + 1
                    BY <1>2, <2>1
                <5> QED
                    BY <3>1, <5>2, <5>3, <5>4 DEF b
            <4> QED
                BY <4>1, <4>2
        <3> QED
            BY <2>1, <3>2, <3>3 DEF Grows
    <2> QED
        BY <2>4, <2>5
<1>5. p..N \subseteq T
    <2> HIDE DEF T, N
    <2> QED
        BY <1>2, <1>3, <1>4, BoundedInduction
<1>6. Grows(f, t, K, p, n)
    BY <1>5
<1> QED
    BY <1>6 DEF f

(* One text is the beginning of another. *)
Begins(u, v) == Len(u) <= Len(v) /\ \A i \in 1..Len(u) : u[i] = v[i]

LEMMA TakenBegins ==
    ASSUME NEW S, NEW t \in Seq(S), NEW K, NEW p \in 0..Len(t), NEW n \in p..Len(t)
    PROVE  Begins(Taken(t, K)[p], Taken(t, K)[n])
<1> DEFINE f == Taken(t, K)
<1>1. Grows(f, t, K, p, n)
    BY TakenGrows
<1> HIDE DEF f
<1>2. Begins(f[p], f[n])
    BY <1>1 DEF Grows, Begins
<1> QED
    BY <1>2 DEF f

(* K is the part of W between two positions.                               *)
PartOf(K, W, p, q) ==
    /\ \A i \in p + 1..q : i \in W <=> i \in K
    /\ \A i \in K : i \in p + 1..q

(* What is taken of a text between two positions can be taken by itself.   *)
LEMMA TakenSplit ==
    ASSUME NEW S, NEW t \in Seq(S), NEW W, NEW K, NEW p \in 0..Len(t), NEW q \in p..Len(t),
           PartOf(K, W, p, q)
    PROVE  /\ Taken(t, W)[q] = Taken(t, W)[p] \o Chosen(t, K)
           /\ Chosen(t, K) \in Seq(S)
<1> DEFINE f == Taken(t, W)
           g == Taken(t, K)
           N == Len(t)
<1>0. /\ \A i \in p + 1..q : i \in W <=> i \in K
      /\ \A i \in K : i \in p + 1..q
    BY DEF PartOf
<1>1. /\ f \in [0..N -> Seq(S)]
      /\ \A m \in 1..N : f[m] = IF m \in W THEN Append(f[m - 1], t[m]) ELSE f[m - 1]
      /\ g \in [0..N -> Seq(S)] /\ g[0] = <<>>
      /\ \A m \in 1..N : g[m] = IF m \in K THEN Append(g[m - 1], t[m]) ELSE g[m - 1]
    BY TakenFacts
<1> HIDE DEF f, g
<1>2. /\ N \in Nat /\ p \in 0..N /\ q \in 0..N /\ p <= q
      /\ p \in Nat /\ q \in Nat /\ p <= N /\ q <= N
      /\ \A m \in 1..N : t[m] \in S
    OBVIOUS
<1> HIDE DEF N
<1>3. g[p] = <<>>
    <2> DEFINE T == {m \in 0..p : g[m] = <<>>}
    <2>1. 0 \in T /\ 0 \in 0..p /\ p \in Nat
        BY <1>1, <1>2
    <2>2. ASSUME NEW m \in 0..p - 1, m \in T  PROVE m + 1 \in T
        <3>1. m + 1 \in 1..N /\ (m + 1) - 1 = m /\ m + 1 \in 0..p /\ m + 1 \notin p + 1..q
            BY <1>2
        <3>2. g[m + 1] = g[m]
            BY <1>0, <1>1, <3>1
        <3> QED
            BY <2>2, <3>1, <3>2
    <2> HIDE DEF T
    <2>3. 0..p \subseteq T
        BY <2>1, <2>2, BoundedInduction
    <2> QED
        BY <1>2, <2>3 DEF T
<1>4. f[q] = f[p] \o g[q]
    <2> DEFINE T == {m \in p..q : f[m] = f[p] \o g[m]}
    <2>1. p \in T
        <3>1. p \in p..q /\ f[p] \in Seq(S)
            BY <1>1, <1>2
        <3>2. f[p] \o g[p] = f[p]
            BY <1>3, <3>1, ConcatEmptySeq
        <3> QED
            BY <3>1, <3>2
    <2>2. ASSUME NEW m \in p..q - 1, m \in T  PROVE m + 1 \in T
        <3>1. /\ m + 1 \in 1..N /\ (m + 1) - 1 = m /\ m + 1 \in p..q /\ m + 1 \in p + 1..q
              /\ m \in 0..N
            BY <1>2
        <3>2. f[p] \in Seq(S) /\ g[m] \in Seq(S) /\ f[m] = f[p] \o g[m] /\ t[m + 1] \in S
            BY <1>1, <1>2, <2>2, <3>1
        <3>3. /\ f[m + 1] = IF m + 1 \in K THEN Append(f[m], t[m + 1]) ELSE f[m]
              /\ g[m + 1] = IF m + 1 \in K THEN Append(g[m], t[m + 1]) ELSE g[m]
            BY <1>0, <1>1, <3>1
        <3>4. f[m + 1] = f[p] \o g[m + 1]
            <4>1. Append(f[p] \o g[m], t[m + 1]) = f[p] \o Append(g[m], t[m + 1])
                <5> DEFINE x == f[p]
                           y == g[m]
                           e == t[m + 1]
                <5>1. x \in Seq(S) /\ y \in Seq(S) /\ e \in S
                    BY <3>2
                <5> HIDE DEF x, y, e
                <5>2. x \o y \in Seq(S) /\ <<e>> \in Seq(S)
                    BY <5>1
                <5>3. Append(x \o y, e) = (x \o y) \o <<e>>
                    BY <5>1, <5>2, AppendIsConcat, Zenon
                <5>4. Append(y, e) = y \o <<e>>
                    BY <5>1, AppendIsConcat, Zenon
                <5>5. (x \o y) \o <<e>> = x \o (y \o <<e>>)
                    BY <5>1, <5>2, ConcatAssociative, SMT
                <5>6. Append(x \o y, e) = x \o Append(y, e)
                    BY <5>3, <5>4, <5>5, Zenon
                <5> QED
                    BY <5>6 DEF x, y, e
            <4> QED
                BY <3>2, <3>3, <4>1
        <3> QED
            BY <3>1, <3>4
    <2> HIDE DEF T
    <2>3. q \in Nat /\ p \in 0..q
        BY <1>2
    <2>4. p..q \subseteq T
        BY <2>1, <2>2, <2>3, BoundedInduction
    <2>5. q \in T
        BY <1>2, <2>4
    <2> QED
        BY <2>5 DEF T
<1>5. g[N] = g[q]
    <2> DEFINE T == {m \in q..N : g[m] = g[q]}
    <2>1. q \in T
        BY <1>2
    <2>2. ASSUME NEW m \in q..N - 1, m \in T  PROVE m + 1 \in T
        <3>1. m + 1 \in 1..N /\ (m + 1) - 1 = m /\ m + 1 \in q..N /\ m + 1 \notin p + 1..q
            BY <1>2
        <3>2. g[m + 1] = g[m]
            BY <1>0, <1>1, <3>1
        <3> QED
            BY <2>2, <3>1, <3>2
    <2> HIDE DEF T
    <2>3. q..N \subseteq T
        BY <1>2, <2>1, <2>2, BoundedInduction
    <2> QED
        BY <1>2, <2>3 DEF T
<1>6. Chosen(t, K) = g[q] /\ g[q] \in Seq(S)
    BY <1>1, <1>2, <1>5 DEF Chosen, g, N
<1> QED
    BY <1>4, <1>6 DEF f

(* What is taken of the beginning of a text does not depend on the rest.   *)
LEMMA TakenOfPrefix ==
    ASSUME NEW S, NEW t \in Seq(S), NEW u \in Seq(S), NEW K, NEW L, Len(t) <= Len(u),
           \A i \in 1..Len(t) : t[i] = u[i] /\ (i \in K <=> i \in L)
    PROVE  Taken(u, L)[Len(t)] = Chosen(t, K)
<1> DEFINE f == Taken(t, K)
           g == Taken(u, L)
           N == Len(t)
           T == {n \in 0..N : f[n] = g[n]}
<1>1. /\ f[0] = <<>> /\ g[0] = <<>>
      /\ \A n \in 1..N : f[n] = IF n \in K THEN Append(f[n - 1], t[n]) ELSE f[n - 1]
      /\ \A n \in 1..Len(u) : g[n] = IF n \in L THEN Append(g[n - 1], u[n]) ELSE g[n - 1]
    BY TakenFacts
<1> HIDE DEF f, g
<1>2. N \in Nat /\ Len(u) \in Nat /\ N <= Len(u)
    OBVIOUS
<1>3. 0 \in T /\ 0 \in 0..N
    BY <1>1, <1>2
<1>4. ASSUME NEW n \in 0..N - 1, n \in T  PROVE n + 1 \in T
    <2>1. n + 1 \in 1..N /\ n + 1 \in 1..Len(u) /\ (n + 1) - 1 = n /\ n + 1 \in 0..N
        BY <1>2
    <2>2. f[n] = g[n]
        BY <1>4
    <2>3. /\ f[n + 1] = IF n + 1 \in K THEN Append(f[n], t[n + 1]) ELSE f[n]
          /\ g[n + 1] = IF n + 1 \in L THEN Append(g[n], u[n + 1]) ELSE g[n]
        BY <1>1, <2>1
    <2>4. t[n + 1] = u[n + 1] /\ (n + 1 \in K <=> n + 1 \in L)
        BY <2>1
    <2> QED
        BY <2>1, <2>2, <2>3, <2>4
<1>5. 0..N \subseteq T
    <2> HIDE DEF T, N
    <2> QED
        BY <1>2, <1>3, <1>4, BoundedInduction
<1>6. f[N] = g[N]
    BY <1>2, <1>5
<1> QED
    BY <1>6 DEF f, g, Chosen

LineChars == Letters \cup {"CR", "LF"}

(* Joined, character by character. *)
LEMMA JoinedFacts ==
    /\ Joined(<<>>) = <<>>
    /\ \A t \in Seq(LineChars), c \in LineChars :
        Joined(Append(t, c)) =
            IF c \in Letters THEN Append(Joined(t), c) ELSE Joined(t)
<1> DEFINE K(t) == {i \in DOMAIN t : t[i] \in Letters}
<1>1. Joined(<<>>) = <<>>
    <2>1. ASSUME NEW t \in Seq(LineChars), Len(t) = 0  PROVE Joined(t) = <<>>
        <3>1. /\ Taken(t, K(t)) \in [0..Len(t) -> Seq(LineChars)]
              /\ Taken(t, K(t))[0] = <<>>
            <4> HIDE DEF K
            <4> QED
                BY TakenFacts
        <3> QED
            BY <2>1, <3>1 DEF Joined, Chosen
    <2>2. <<>> \in Seq(LineChars) /\ Len(<<>>) = 0
        OBVIOUS
    <2> QED
        BY <2>1, <2>2
<1>2. ASSUME NEW t \in Seq(LineChars), NEW c \in LineChars
      PROVE  Joined(Append(t, c)) =
                IF c \in Letters THEN Append(Joined(t), c) ELSE Joined(t)
    <2> DEFINE u == Append(t, c)
               n == Len(t) + 1
    <2>1. /\ u \in Seq(LineChars) /\ Len(u) = n /\ u[n] = c /\ n \in 1..Len(u) /\ n - 1 = Len(t)
          /\ Len(t) <= Len(u) /\ Len(t) \in Nat
          /\ \A i \in 1..Len(t) : t[i] = u[i]
          /\ DOMAIN t = 1..Len(t) /\ DOMAIN u = 1..n
        OBVIOUS
    <2>2. \A i \in 1..Len(t) : i \in K(t) <=> i \in K(u)
        <3> HIDE DEF u, n
        <3> QED
            BY <2>1 DEF n
    <2>3. n \in K(u) <=> c \in Letters
        <3> HIDE DEF u
        <3> QED
            BY <2>1
    <2> HIDE DEF u, K, n
    <2>4. Taken(u, K(u))[Len(t)] = Chosen(t, K(t))
        BY <2>1, <2>2, TakenOfPrefix
    <2>5. Taken(u, K(u))[n] = IF n \in K(u) THEN Append(Taken(u, K(u))[n - 1], u[n])
                                  ELSE Taken(u, K(u))[n - 1]
        BY <2>1, TakenFacts
    <2>6. Chosen(u, K(u)) = IF c \in Letters THEN Append(Chosen(t, K(t)), c)
                                ELSE Chosen(t, K(t))
        BY <2>1, <2>3, <2>4, <2>5 DEF Chosen
    <2> QED
        BY <2>6 DEF Joined, K, u
<1> QED
    BY <1>1, <1>2

(* The letters of a text are those of its normal form. *)
LEMMA JoinedOfNormal ==
    ASSUME NEW t \in Seq(LineChars), NEW n \in 0..Len(t), "CR" \notin Letters
    PROVE  LET letters == Taken(t, {i \in DOMAIN t : t[i] \in Letters})
               normal == Taken(t, {i \in DOMAIN t : t[i] # "CR"})
           IN  letters[n] = Joined(normal[n]) /\ normal[n] \in Seq(LineChars)
<1> DEFINE K == {i \in DOMAIN t : t[i] \in Letters}
           L == {i \in DOMAIN t : t[i] # "CR"}
           f == Taken(t, K)
           g == Taken(t, L)
           N == Len(t)
           T == {m \in 0..N : f[m] = Joined(g[m])}
<1>1. /\ f[0] = <<>> /\ g[0] = <<>> /\ g \in [0..N -> Seq(LineChars)]
      /\ \A m \in 1..N : f[m] = IF m \in K THEN Append(f[m - 1], t[m]) ELSE f[m - 1]
      /\ \A m \in 1..N : g[m] = IF m \in L THEN Append(g[m - 1], t[m]) ELSE g[m - 1]
    <2> HIDE DEF K, L
    <2> QED
        BY TakenFacts
<1>2. /\ N \in Nat
      /\ \A m \in 1..N : t[m] \in LineChars /\ (m \in K <=> t[m] \in Letters) /\ (m \in L <=> t[m] # "CR")
    OBVIOUS
<1> HIDE DEF f, g, K, L
<1>3. 0 \in T /\ 0 \in 0..N
    BY <1>1, <1>2, JoinedFacts
<1>4. ASSUME NEW m \in 0..N - 1, m \in T  PROVE m + 1 \in T
    <2>1. m + 1 \in 1..N /\ (m + 1) - 1 = m /\ m + 1 \in 0..N /\ m \in 0..N
        BY <1>2
    <2>2. f[m] = Joined(g[m]) /\ g[m] \in Seq(LineChars)
        BY <1>1, <1>4, <2>1
    <2>3. /\ f[m + 1] = IF m + 1 \in K THEN Append(f[m], t[m + 1]) ELSE f[m]
          /\ g[m + 1] = IF m + 1 \in L THEN Append(g[m], t[m + 1]) ELSE g[m]
        BY <1>1, <2>1
    <2>4. /\ t[m + 1] \in LineChars
          /\ m + 1 \in K <=> t[m + 1] \in Letters
          /\ m + 1 \in L <=> t[m + 1] # "CR"
        BY <1>2, <2>1
    <2>5. Joined(Append(g[m], t[m + 1])) =
            IF t[m + 1] \in Letters THEN Append(Joined(g[m]), t[m + 1]) ELSE Joined(g[m])
        BY <2>2, <2>4, JoinedFacts
    <2>6. CASE t[m + 1] = "CR"
        BY <2>1, <2>2, <2>3, <2>4, <2>6
    <2>7. CASE t[m + 1] # "CR"
        BY <2>1, <2>2, <2>3, <2>4, <2>5, <2>7
    <2> QED
        BY <2>6, <2>7
<1>5. 0..N \subseteq T
    <2> HIDE DEF T, N
    <2> QED
        BY <1>2, <1>3, <1>4, BoundedInduction
<1>6. f[n] = Joined(g[n]) /\ g[n] \in Seq(LineChars)
    BY <1>1, <1>5
<1> QED
    BY <1>6 DEF f, g, K, L

-----------------------------------------------------------------------------

LEMMA LettersApart == "CR" \notin Letters /\ "LF" \notin Letters
BY CompareAssumption DEF CompareAssumption

LEMMA TextTypes ==
    ASSUME TextInputs, diffPolicy = "LINE", NEW s \in Sides
    PROVE  /\ text[s] \in Seq(LineChars) /\ ignoreNewline \in BOOLEAN
           /\ DOMAIN text[s] = 1..Len(text[s]) /\ Len(text[s]) \in Nat
           /\ \A i \in 1..Len(text[s]) : text[s][i] \in LineChars
<1>1. text \in [Sides -> Texts] /\ ignoreNewline \in BOOLEAN
    BY DEF TextInputs
<1>2. PICK n \in 0..MaxLen : text[s] \in [1..n -> LineChars]
    BY <1>1 DEF Texts, BoundedSeq, SeqOf, LineChars
<1>3. n \in Nat
    OBVIOUS
<1>4. text[s] \in Seq(LineChars)
    BY <1>2, <1>3
<1> QED
    BY <1>1, <1>4

(* iterHash reads up to the next newline or to the end of the text.        *)
LEMMA LineEndFacts ==
    ASSUME TextInputs, diffPolicy = "LINE", NEW s \in Sides,
           pos[s] \in Nat, pos[s] <= Len(text[s])
    PROVE  LET q == LineEnd(s) IN
           /\ q \in pos[s]..Len(text[s]) /\ q \in Nat
           /\ AtEOF(s) => /\ q = Len(text[s])
                              /\ \A i \in pos[s] + 1..q : text[s][i] # "LF"
           /\ ~AtEOF(s) => /\ q \in pos[s] + 1..Len(text[s]) /\ text[s][q] = "LF"
                               /\ \A i \in pos[s] + 1..q - 1 : text[s][i] # "LF"
<1> DEFINE P == Newlines(s)
           q == LineEnd(s)
<1>1. Len(text[s]) \in Nat
    BY TextTypes
<1>2. /\ P \subseteq pos[s] + 1..Len(text[s]) /\ P \subseteq Nat
      /\ \A i \in pos[s] + 1..Len(text[s]) : i \in P <=> text[s][i] = "LF"
    BY <1>1 DEF Newlines
<1>3. CASE AtEOF(s)
    <2>1. q = Len(text[s])
        BY <1>3 DEF LineEnd
    <2>2. P = {}
        BY <1>3 DEF AtEOF
    <2> HIDE DEF P, q
    <2> QED
        BY <1>1, <1>2, <1>3, <2>1, <2>2 DEF q
<1>4. CASE ~AtEOF(s)
    <2>1. P # {}
        BY <1>4 DEF AtEOF
    <2> HIDE DEF P
    <2>2. PICK m \in P : \A y \in P : <<y, m>> \notin Less
        BY <1>2, <2>1, LessIsWellFounded, WFMin
    <2>3. \A y \in P : m <= y
        <3> SUFFICES ASSUME NEW y \in P  PROVE m <= y
            OBVIOUS
        <3>1. y \in Nat /\ m \in Nat
            BY <1>2
        <3>2. <<y, m>> \notin Less
            BY <2>2
        <3> QED
            BY <3>1, <3>2 DEF Less
    <2>4. q = Min(P)
        BY <1>4 DEF LineEnd, P
    <2> HIDE DEF q
    <2>5. q \in P /\ \A y \in P : q <= y
        BY <2>2, <2>3, <2>4 DEF Min
    <2>6. q \in pos[s] + 1..Len(text[s]) /\ text[s][q] = "LF" /\ q \in Nat /\ q \in pos[s]..Len(text[s])
        BY <1>1, <1>2, <2>5
    <2>7. \A i \in pos[s] + 1..q - 1 : text[s][i] # "LF"
        BY <1>1, <1>2, <2>5, <2>6
    <2> QED
        BY <1>4, <2>6, <2>7 DEF q
<1> QED
    BY <1>3, <1>4

(* What iterHash writes is what Written says of the line.                  *)
LEMMA HashedFacts ==
    ASSUME TextInputs, Lined, NEW s \in Sides,
           pos[s] \in Nat, pos[s] <= Len(text[s])
    PROVE  /\ Taken(text[s], Written(s))[LineEnd(s)] =
                Taken(text[s], Written(s))[pos[s]] \o Hashed(s)
           /\ Hashed(s) \in Seq(LineChars)
<1> DEFINE t == text[s]
           p == pos[s]
           q == LineEnd(s)
           K == Kept(s)
           W == Written(s)
           f == Taken(t, W)
           end == IF AtEOF(s) THEN q ELSE q - 1
<1>1. /\ diffPolicy = "LINE" /\ t \in Seq(LineChars) /\ DOMAIN t = 1..Len(t) /\ Len(t) \in Nat
      /\ ignoreNewline \in BOOLEAN
      /\ \A i \in 1..Len(t) : t[i] \in LineChars
    BY TextTypes DEF Lined
<1>2. \A i \in 1..Len(t) : t[i] = "CR" => i < Len(t) /\ t[i + 1] = "LF"
    BY <1>1 DEF Lined, ProperInput, Proper
<1>3. /\ q \in p..Len(t) /\ q \in Nat
      /\ AtEOF(s) => q = Len(t) /\ \A i \in p + 1..q : t[i] # "LF"
      /\ ~AtEOF(s) => /\ q \in p + 1..Len(t) /\ t[q] = "LF"
                          /\ \A i \in p + 1..q - 1 : t[i] # "LF"
    BY <1>1, LineEndFacts
<1>4. K = {i \in p + 1..q : t[i] # "LF" /\ (t[i] = "CR" => ~EndsChunk(s, i) /\ t[i + 1] # "LF")}
    BY DEF Kept
<1>5. \A i \in 1..Len(t) : i \in W <=> IF ignoreNewline THEN t[i] \in Letters ELSE t[i] # "CR"
    BY <1>1 DEF Written
<1>6. Hashed(s) = Chosen(t, K) \o (IF ignoreNewline \/ AtEOF(s) THEN <<>> ELSE <<"LF">>)
    BY DEF Hashed
<1> HIDE DEF q, K, W
<1>7. end \in p..Len(t) /\ end \in Nat /\ p \in 0..Len(t) /\ end <= q
    BY <1>1, <1>3
<1>8. \A i \in p + 1..q : i \in 1..Len(t)
    BY <1>1, <1>3
<1>9. \A i \in p + 1..q : i \in K <=> t[i] # "LF" /\ t[i] # "CR"
    BY <1>2, <1>4, <1>8
<1>10. \A i \in K : i \in p + 1..end
    BY <1>3, <1>4, <1>7
<1>11. \A i \in p + 1..end : i \in W <=> i \in K
    <2> SUFFICES ASSUME NEW i \in p + 1..end  PROVE i \in W <=> i \in K
        OBVIOUS
    <2>1. i \in p + 1..q /\ i \in 1..Len(t) /\ t[i] # "LF" /\ t[i] \in LineChars
        BY <1>1, <1>3, <1>7, <1>8
    <2>2. i \in K <=> t[i] # "CR"
        BY <1>9, <2>1
    <2>3. i \in W <=> IF ignoreNewline THEN t[i] \in Letters ELSE t[i] # "CR"
        BY <1>5, <2>1
    <2> QED
        BY <2>1, <2>2, <2>3, LettersApart DEF LineChars
<1> HIDE DEF t, end, p
<1>12. f[end] = f[p] \o Chosen(t, K) /\ Chosen(t, K) \in Seq(LineChars)
    <2>1. t \in Seq(LineChars) /\ p \in 0..Len(t) /\ end \in p..Len(t)
        BY <1>1, <1>7
    <2>2. PartOf(K, W, p, end)
        BY <1>10, <1>11 DEF PartOf
    <2> HIDE DEF f
    <2>3. Taken(t, W)[end] = Taken(t, W)[p] \o Chosen(t, K) /\ Chosen(t, K) \in Seq(LineChars)
        BY <2>1, <2>2, TakenSplit
    <2> QED
        BY <2>3 DEF f
<1>13. f \in [0..Len(t) -> Seq(LineChars)] /\ f[p] \in Seq(LineChars)
    <2>1. f \in [0..Len(t) -> Seq(LineChars)]
        BY <1>1, TakenFacts
    <2> QED
        BY <1>7, <2>1
<1>14. CASE AtEOF(s)
    <2>1. end = q
        BY <1>14 DEF end
    <2>2. Hashed(s) = Chosen(t, K)
        BY <1>6, <1>12, <1>14, ConcatEmptySeq
    <2> QED
        BY <1>12, <2>1, <2>2 DEF t, q, W, p
<1>15. CASE ~AtEOF(s)
    <2>1. end = q - 1 /\ q \in 1..Len(t) /\ t[q] = "LF"
        <3>1. end = q - 1
            BY <1>15 DEF end
        <3>2. q \in p + 1..Len(t) /\ t[q] = "LF"
            BY <1>3, <1>15
        <3> QED
            BY <1>1, <1>7, <3>1, <3>2
    <2>2. f[q] = IF q \in W THEN Append(f[q - 1], t[q]) ELSE f[q - 1]
        BY <1>1, <2>1, TakenFacts
    <2>3. q \in W <=> ~ignoreNewline
        BY <1>1, <1>5, <2>1, LettersApart
    <2>4. CASE ignoreNewline
        <3>1. Hashed(s) = Chosen(t, K)
            BY <1>6, <1>12, <2>4, ConcatEmptySeq
        <3> QED
            BY <1>12, <2>1, <2>2, <2>3, <2>4, <3>1 DEF t, q, W, p
    <2>5. CASE ~ignoreNewline
        <3>1. Hashed(s) = Chosen(t, K) \o <<"LF">>
            BY <1>6, <1>15, <2>5
        <3>2. f[q] = Append(f[p] \o Chosen(t, K), "LF")
            BY <1>12, <2>1, <2>2, <2>3, <2>5
        <3> DEFINE x == f[p]
                   y == Chosen(t, K)
        <3>3. x \in Seq(LineChars) /\ y \in Seq(LineChars) /\ "LF" \in LineChars
            BY <1>12, <1>13 DEF LineChars
        <3> HIDE DEF x, y
        <3>4. y \o <<"LF">> = Append(y, "LF") /\ Append(y, "LF") \in Seq(LineChars)
            BY <3>3
        <3>5. Append(x \o y, "LF") = x \o Append(y, "LF")
            <4>1. x \o y \in Seq(LineChars) /\ <<"LF">> \in Seq(LineChars)
                BY <3>3
            <4>2. Append(x \o y, "LF") = (x \o y) \o <<"LF">>
                BY <3>3, <4>1, AppendIsConcat, Zenon
            <4>3. (x \o y) \o <<"LF">> = x \o (y \o <<"LF">>)
                BY <3>3, <4>1, ConcatAssociative, SMT
            <4> QED
                BY <3>4, <4>2, <4>3, Zenon
        <3> QED
            BY <3>1, <3>2, <3>4, <3>5 DEF t, q, W, x, y, p
    <2> QED
        BY <2>4, <2>5
<1> QED
    BY <1>14, <1>15

LEMMA HashedType ==
    ASSUME TextInputs, diffPolicy = "LINE", NEW s \in Sides
    PROVE  Hashed(s) \in Seq(LineChars)
<1> DEFINE t == text[s]
           K == Kept(s)
           line == Chosen(t, K)
           break == IF ignoreNewline \/ AtEOF(s) THEN <<>> ELSE <<"LF">>
<1>1. t \in Seq(LineChars) /\ Len(t) \in Nat
    BY TextTypes
<1>2. line \in Seq(LineChars)
    <2>1. Taken(t, K) \in [0..Len(t) -> Seq(LineChars)]
        <3> HIDE DEF t, K
        <3> QED
            BY <1>1, TakenFacts
    <2> HIDE DEF t, K
    <2> QED
        BY <1>1, <2>1 DEF Chosen
<1>3. break \in Seq(LineChars)
    <2>1. "LF" \in LineChars
        BY DEF LineChars
    <2>2. <<>> \in Seq(LineChars) /\ <<"LF">> \in Seq(LineChars)
        BY <2>1
    <2> QED
        BY <2>2, Zenon
<1>4. Hashed(s) = line \o break
    BY DEF Hashed
<1> HIDE DEF line, break
<1> QED
    BY <1>2, <1>3, <1>4

LEMMA BeginsIsPrefix ==
    ASSUME NEW S, NEW u \in Seq(S), NEW v \in Seq(S)
    PROVE  IsPrefix(u, v) <=> Begins(u, v)
<1>1. Len(u) \in Nat /\ Len(v) \in Nat /\ SubSeq(u, 1, Len(u)) = u
    OBVIOUS
<1>2. CASE Len(u) <= Len(v)
    <2> DEFINE w == SubSeq(v, 1, Len(u))
    <2>1. w \in Seq(S) /\ Len(w) = Len(u) /\ \A i \in 1..Len(u) : w[i] = v[i]
        BY <1>1, <1>2
    <2> HIDE DEF w
    <2>2. w = u <=> \A i \in 1..Len(u) : u[i] = v[i]
        BY <1>1, <2>1, SeqEqual
    <2> QED
        BY <1>1, <1>2, <2>2 DEF IsPrefix, Begins, w
<1>3. CASE ~(Len(u) <= Len(v))
    BY <1>3 DEF IsPrefix, Begins
<1> QED
    BY <1>2, <1>3

(* The next line is the same in all texts that begin alike.                *)
LEMMA OneLineFollows ==
    ASSUME NEW S, NEW h \in Seq(S), NEW u \in Seq(S), NEW v \in Seq(S), NEW g \in Seq(S),
           OneMoreLine(h, u), OneMoreLine(h, v), Begins(u, g), Begins(v, g)
    PROVE  u = v
<1>1. Len(h) \in Nat /\ Len(u) \in Nat /\ Len(v) \in Nat /\ Len(h) < Len(u) /\ Len(h) < Len(v)
    BY DEF OneMoreLine
<1>2. /\ \A i \in Len(h) + 1..Len(u) : u[i] = "LF" <=> i = Len(u)
      /\ \A i \in Len(h) + 1..Len(v) : v[i] = "LF" <=> i = Len(v)
    BY DEF OneMoreLine
<1>3. /\ \A i \in 1..Len(u) : u[i] = g[i]
      /\ \A i \in 1..Len(v) : v[i] = g[i]
    BY DEF Begins
<1>4. ~(Len(u) < Len(v))
    <2> SUFFICES ASSUME Len(u) < Len(v)  PROVE FALSE
        OBVIOUS
    <2>1. Len(u) \in 1..Len(u) /\ Len(u) \in 1..Len(v) /\ Len(u) \in Len(h) + 1..Len(u)
          /\ Len(u) \in Len(h) + 1..Len(v)
        BY <1>1
    <2> QED
        BY <1>1, <1>2, <1>3, <2>1
<1>5. ~(Len(v) < Len(u))
    <2> SUFFICES ASSUME Len(v) < Len(u)  PROVE FALSE
        OBVIOUS
    <2>1. Len(v) \in 1..Len(u) /\ Len(v) \in 1..Len(v) /\ Len(v) \in Len(h) + 1..Len(u)
          /\ Len(v) \in Len(h) + 1..Len(v)
        BY <1>1
    <2> QED
        BY <1>1, <1>2, <1>3, <2>1
<1>6. Len(u) = Len(v)
    BY <1>1, <1>4, <1>5
<1>7. \A i \in 1..Len(u) : u[i] = v[i]
    BY <1>3, <1>6
<1> QED
    BY <1>6, <1>7, SeqEqual

NoReturns(t) == {i \in DOMAIN t : t[i] # "CR"}

(* Lines are read in the order of the normal form. *)
LEMMA NormalFacts ==
    ASSUME NEW t \in Seq(LineChars), NEW n \in 0..Len(t)
    PROVE  LET lines == Taken(t, NoReturns(t))[n] IN
           /\ lines \in Seq(LineChars) /\ Normal(t) \in Seq(LineChars)
           /\ Begins(lines, Normal(t))
           /\ n = Len(t) => lines = Normal(t)
<1> DEFINE K == NoReturns(t)
           f == Taken(t, K)
<1>1. Normal(t) = f[Len(t)]
    BY DEF Normal, Chosen, NoReturns
<1> HIDE DEF K
<1>2. Len(t) \in Nat /\ Len(t) \in n..Len(t) /\ Len(t) \in 0..Len(t)
    OBVIOUS
<1>3. f \in [0..Len(t) -> Seq(LineChars)]
    BY TakenFacts
<1>4. Begins(f[n], f[Len(t)])
    BY <1>2, TakenBegins
<1> HIDE DEF f
<1> QED
    BY <1>1, <1>2, <1>3, <1>4 DEF f, K

LEMMA SameEnds ==
    ASSUME NEW t \in Seq(LineChars), NEW u \in Seq(LineChars), "CR" \notin Letters, "LF" \notin Letters,
           SameButLastNewline(t, u)
    PROVE  /\ Joined(t) = Joined(u)
           /\ \E g \in Seq(LineChars) : Begins(Normal(t), g) /\ Begins(Normal(u), g)
<1> DEFINE x == Normal(t)
           y == Normal(u)
<1>1. x \in Seq(LineChars) /\ y \in Seq(LineChars) /\ "LF" \in LineChars
    BY NormalFacts DEF LineChars
<1>2. Joined(t) = Joined(x) /\ Joined(u) = Joined(y)
    <2>1. ASSUME NEW w \in Seq(LineChars)
          PROVE  Joined(w) = Joined(Normal(w))
        <3>1. Len(w) \in 0..Len(w)
            OBVIOUS
        <3> QED
            BY <2>1, <3>1, JoinedOfNormal DEF Joined, Normal, Chosen
    <2> QED
        BY <2>1
<1>3. x = y \/ y = x \o <<"LF">> \/ x = y \o <<"LF">>
    BY DEF SameButLastNewline
<1> HIDE DEF x, y
<1>4. ASSUME NEW v \in Seq(LineChars), NEW w \in Seq(LineChars), w = v \o <<"LF">>
      PROVE  Joined(w) = Joined(v) /\ Begins(v, w) /\ Begins(w, w)
    <2>1. w = Append(v, "LF")
        BY <1>4
    <2>2. Joined(w) = Joined(v)
        BY <1>1, <2>1, JoinedFacts
    <2>3. Len(w) = Len(v) + 1 /\ Len(v) \in Nat /\ \A i \in 1..Len(v) : w[i] = v[i]
        BY <1>1, <2>1
    <2>4. Begins(v, w) /\ Begins(w, w)
        BY <2>3 DEF Begins
    <2> QED
        BY <2>2, <2>4
<1>5. CASE x = y
    <2>1. Begins(x, x)
        BY <1>1 DEF Begins
    <2> QED
        BY <1>1, <1>2, <1>5, <2>1 DEF x, y
<1> QED
    BY <1>1, <1>2, <1>3, <1>4, <1>5 DEF x, y

LEMMA BeginsFurther ==
    ASSUME NEW u, NEW v, NEW w, Len(u) \in Nat, Len(v) \in Nat, Len(w) \in Nat,
           Begins(u, v), Begins(v, w)
    PROVE  Begins(u, w)
<1>1. Len(u) <= Len(w)
    BY DEF Begins
<1>2. ASSUME NEW i \in 1..Len(u)  PROVE u[i] = w[i]
    <2>1. i \in 1..Len(v)
        BY DEF Begins
    <2> QED
        BY <2>1 DEF Begins
<1> QED
    BY <1>1, <1>2 DEF Begins

(* A read up to a newline adds one line. *)
LEMMA LineIsRead ==
    ASSUME TextInputs, diffPolicy = "LINE", NEW s \in Sides,
           pos[s] \in Nat, pos[s] <= Len(text[s]), ~AtEOF(s)
    PROVE  LET f == Taken(text[s], NoReturns(text[s]))
           IN  OneMoreLine(f[pos[s]], f[LineEnd(s)])
<1> DEFINE t == text[s]
           K == NoReturns(t)
           f == Taken(t, K)
           p == pos[s]
           q == LineEnd(s)
<1>1. t \in Seq(LineChars) /\ DOMAIN t = 1..Len(t) /\ Len(t) \in Nat /\ p \in Nat /\ p <= Len(t)
    BY TextTypes
<1>2. q \in p + 1..Len(t) /\ t[q] = "LF" /\ \A i \in p + 1..q - 1 : t[i] # "LF"
    BY LineEndFacts
<1>3. \A i \in 1..Len(t) : i \in K <=> t[i] # "CR"
    BY <1>1 DEF NoReturns
<1> HIDE DEF t, K, f, p, q
<1>4. /\ q \in 1..Len(t) /\ q \in 0..Len(t) /\ q - 1 \in 0..Len(t) /\ p \in 0..Len(t)
      /\ q - 1 \in p..Len(t) /\ q \in p..Len(t) /\ q \in Nat
    BY <1>1, <1>2
<1>5. /\ f \in [0..Len(t) -> Seq(LineChars)]
      /\ f[q] = IF q \in K THEN Append(f[q - 1], t[q]) ELSE f[q - 1]
    BY <1>1, <1>4, TakenFacts DEF f
<1>6. f[q] = Append(f[q - 1], "LF")
    BY <1>2, <1>3, <1>4, <1>5
<1>7. /\ f[p] \in Seq(LineChars) /\ f[q] \in Seq(LineChars) /\ f[q - 1] \in Seq(LineChars)
      /\ Len(f[p]) \in Nat /\ Len(f[q - 1]) \in Nat /\ "LF" \in LineChars
    <2>1. f[p] \in Seq(LineChars) /\ f[q] \in Seq(LineChars) /\ f[q - 1] \in Seq(LineChars)
        BY <1>4, <1>5
    <2> QED
        BY <2>1, LenProperties DEF LineChars
<1>8. Grows(f, t, K, p, q - 1)
    BY <1>1, <1>4, TakenGrows DEF f
<1>9. Begins(f[p], f[q])
    BY <1>1, <1>4, TakenBegins DEF f
<1>10. /\ Len(f[q]) = Len(f[q - 1]) + 1 /\ f[q][Len(f[q])] = "LF"
       /\ \A i \in 1..Len(f[q - 1]) : f[q][i] = f[q - 1][i]
    BY <1>6, <1>7
<1>11. Len(f[p]) < Len(f[q])
    BY <1>7, <1>8, <1>10 DEF Grows
<1>12. ASSUME NEW i \in Len(f[p]) + 1..Len(f[q])
       PROVE  f[q][i] = "LF" <=> i = Len(f[q])
    <2>1. CASE i = Len(f[q])
        BY <1>10, <2>1
    <2>2. CASE i # Len(f[q])
        <3>1. i \in Len(f[p]) + 1..Len(f[q - 1]) /\ i \in 1..Len(f[q - 1])
            BY <1>7, <1>10, <2>2
        <3>2. PICK j \in p + 1..q - 1 : f[q - 1][i] = t[j]
            BY <1>8, <3>1 DEF Grows
        <3> QED
            BY <1>2, <1>10, <2>2, <3>1, <3>2
    <2> QED
        BY <2>1, <2>2
<1>13. IsPrefix(f[p], f[q])
    BY <1>7, <1>9, BeginsIsPrefix
<1>14. OneMoreLine(f[p], f[q])
    BY <1>11, <1>12, <1>13 DEF OneMoreLine
<1> QED
    BY <1>14 DEF f, K, t, p, q

(* What the lines that were read, and their hash, are.                     *)
LEMMA LinesReadFacts ==
    ASSUME CompareInv, Lined, NEW s \in Sides
    PROVE  /\ LinesRead(s) = Taken(text[s], NoReturns(text[s]))[pos[s]]
           /\ LinesRead(s) \in Seq(LineChars)
           /\ Normal(text[s]) \in Seq(LineChars)
           /\ Begins(LinesRead(s), Normal(text[s]))
           /\ hash[s] = IF ignoreNewline THEN Joined(LinesRead(s)) ELSE LinesRead(s)
<1> DEFINE t == text[s]
           p == pos[s]
<1>1. /\ diffPolicy = "LINE" /\ TextInputs
      /\ hash[s] = Taken(t, Written(s))[p] /\ p \in 0..Len(t)
    <2>1. diffPolicy = "LINE" /\ TextInputs
        BY DEF CompareInv, Lined
    <2>2. p \in Nat /\ p <= Len(t)
        BY DEF CompareInv, Positions
    <2>3. Len(t) \in Nat
        BY <2>1, TextTypes
    <2>4. hash[s] = Taken(t, Written(s))[p]
        BY DEF CompareInv, HashesLines
    <2> QED
        BY <2>1, <2>2, <2>3, <2>4
<1>2. t \in Seq(LineChars) /\ ignoreNewline \in BOOLEAN /\ "CR" \notin Letters
    BY <1>1, TextTypes, LettersApart
<1>3. LinesRead(s) = Taken(t, NoReturns(t))[p]
    BY DEF LinesRead, NoReturns
<1>4. CASE ignoreNewline
    <2>1. Written(s) = {i \in DOMAIN t : t[i] \in Letters}
        BY <1>4 DEF Written
    <2>2. hash[s] = Joined(LinesRead(s))
        <3>1. Taken(t, {i \in DOMAIN t : t[i] \in Letters})[p]
                = Joined(Taken(t, {i \in DOMAIN t : t[i] # "CR"})[p])
            BY <1>1, <1>2, JoinedOfNormal
        <3> QED
            BY <1>1, <1>3, <2>1, <3>1 DEF NoReturns
    <2> QED
        BY <1>1, <1>2, <1>3, <1>4, <2>2, NormalFacts
<1>5. CASE ~ignoreNewline
    <2>1. Written(s) = NoReturns(t)
        BY <1>5 DEF Written, NoReturns
    <2> QED
        BY <1>1, <1>2, <1>3, <1>5, <2>1, NormalFacts
<1> QED
    BY <1>2, <1>4, <1>5

(* What iterHash changes, and what it keeps of the invariant.              *)
LEMMA IterHashKeeps ==
    ASSUME CompareInv, diffPolicy = "LINE", NEW s \in Sides,
           IterHash(s), UNCHANGED input
    PROVE  /\ pos' \in [Sides -> Nat] /\ hash' \in [Sides -> Seq(LineChars)]
           /\ pos'[s] = LineEnd(s) /\ pos'[s] <= Len(text[s])
           /\ \A x \in Sides : x # s => pos'[x] = pos[x]
           /\ AtEOF(s) => pos'[s] = Len(text[s])
           /\ pos[s] = Len(text[s]) => pos'[s] = Len(text[s])
           /\ HashesLines'
<1> DEFINE q == LineEnd(s)
<1>1. /\ TextInputs /\ pos \in [Sides -> Nat] /\ hash \in [Sides -> Seq(LineChars)]
      /\ \A x \in Sides : pos[x] <= Len(text[x])
    BY DEF CompareInv, Positions, LineChars
<1>2. /\ hash' = [hash EXCEPT ![s] = hash[s] \o Hashed(s)]
      /\ pos' = [pos EXCEPT ![s] = q]
    BY DEF IterHash
<1>3. diffPolicy' = diffPolicy /\ ignoreNewline' = ignoreNewline /\ text' = text
    BY DEF input
<1>4. /\ q \in pos[s]..Len(text[s]) /\ q \in Nat /\ Len(text[s]) \in Nat
      /\ AtEOF(s) => q = Len(text[s])
    BY <1>1, LineEndFacts, TextTypes
<1>5. Hashed(s) \in Seq(LineChars)
    BY <1>1, HashedType
<1> HIDE DEF q
<1>6. pos' \in [Sides -> Nat] /\ pos'[s] = q /\ \A x \in Sides : x # s => pos'[x] = pos[x]
    BY <1>1, <1>2, <1>4
<1>7. /\ hash' \in [Sides -> Seq(LineChars)] /\ hash'[s] = hash[s] \o Hashed(s)
      /\ \A x \in Sides : x # s => hash'[x] = hash[x]
    <2>1. hash[s] \o Hashed(s) \in Seq(LineChars)
        BY <1>1, <1>5
    <2> QED
        BY <1>1, <1>2, <2>1
<1>8. HashesLines'
    <2> SUFFICES ASSUME Lined', NEW x \in Sides
                 PROVE  hash'[x] = Taken(text'[x], Written(x)')[pos'[x]]
        BY DEF HashesLines
    <2>1. Lined
        BY <1>3 DEF Lined, ProperInput
    <2>2. hash[x] = Taken(text[x], Written(x))[pos[x]]
        BY <2>1 DEF CompareInv, HashesLines
    <2>3. Written(x)' = Written(x)
        BY <1>3 DEF Written
    <2>4. CASE x = s
        <3>1. Taken(text[s], Written(s))[LineEnd(s)] =
                Taken(text[s], Written(s))[pos[s]] \o Hashed(s)
            BY <1>1, <2>1, HashedFacts
        <3> QED
            BY <1>3, <1>6, <1>7, <2>2, <2>3, <2>4, <3>1 DEF q
    <2>5. CASE x # s
        BY <1>3, <1>6, <1>7, <2>2, <2>3, <2>5
    <2> QED
        BY <2>4, <2>5
<1> QED
    BY <1>1, <1>3, <1>4, <1>6, <1>7, <1>8 DEF q

-----------------------------------------------------------------------------

(* The steps *)

Sentences == LinesExact /\ IgnoreNewlineOnly /\ FloatExact

(* A step without a verdict violates none of the three properties.         *)
LEMMA NothingDecided ==
    ASSUME verdict' \notin {"equal", "different"}
    PROVE  Sentences'
BY DEF Sentences, LinesExact, IgnoreNewlineOnly, FloatExact, Done

LEMMA ReadExpectedKeeps ==
    ASSUME CompareInv, ReadExpected
    PROVE  CompareInv'
<1>1. /\ IterHash("expected") /\ UNCHANGED input /\ verdict' = verdict
      /\ phase = "expected"
      /\ phase' = IF AtEOF("expected") THEN "drain actual" ELSE "actual"
    BY DEF ReadExpected, Goto
<1>2. TextInputs /\ PhaseOfPolicy /\ Positions /\ InStep
    BY DEF CompareInv
<1>3. diffPolicy = "LINE" /\ verdict = "pending" /\ "expected" \in Sides
    BY <1>1, <1>2 DEF TextInputs, PhaseOfPolicy, Sides
<1>4. /\ pos' \in [Sides -> Nat] /\ hash' \in [Sides -> Seq(LineChars)]
      /\ pos'["expected"] = LineEnd("expected") /\ pos'["expected"] <= Len(text["expected"])
      /\ \A x \in Sides : x # "expected" => pos'[x] = pos[x]
      /\ AtEOF("expected") => pos'["expected"] = Len(text["expected"])
      /\ HashesLines'
    BY <1>1, <1>3, IterHashKeeps
<1>5. diffPolicy' = diffPolicy /\ ignoreNewline' = ignoreNewline /\ text' = text
    BY <1>1 DEF input
<1>6. TextInputs'
    BY <1>2, <1>5 DEF TextInputs
<1>7. PhaseOfPolicy'
    BY <1>1, <1>3, <1>5 DEF PhaseOfPolicy
<1>8. Positions'
    <2>1. \A x \in Sides : pos'[x] <= Len(text'[x])
        BY <1>2, <1>4, <1>5 DEF Positions
    <2> QED
        BY <1>1, <1>4, <1>5, <2>1 DEF Positions, LineChars
<1>9. InStep'
    <2> SUFFICES ASSUME Lined', phase' = "actual",
                        SameButLastNewline(text'["expected"], text'["actual"])
                 PROVE  OneMoreLine(LinesRead("actual")', LinesRead("expected")')
        BY <1>1 DEF InStep
    <2>1. Lined /\ SameButLastNewline(text["expected"], text["actual"])
        BY <1>5 DEF Lined, ProperInput
    <2>2. LinesRead("expected") = LinesRead("actual")
        BY <1>1, <1>2, <2>1 DEF InStep
    <2>3. LinesRead("actual")' = LinesRead("actual")
        BY <1>4, <1>5 DEF LinesRead, Sides
    <2>4. /\ LinesRead("expected") =
                Taken(text["expected"], NoReturns(text["expected"]))[pos["expected"]]
          /\ LinesRead("expected")' =
                Taken(text["expected"], NoReturns(text["expected"]))[LineEnd("expected")]
        BY <1>4, <1>5 DEF LinesRead, NoReturns
    <2>5. pos["expected"] \in Nat /\ pos["expected"] <= Len(text["expected"])
        BY <1>2, <1>3 DEF Positions
    <2>6. OneMoreLine(LinesRead("expected"), LinesRead("expected")')
        BY <1>1, <1>2, <1>3, <2>4, <2>5, LineIsRead
    <2> QED
        BY <2>2, <2>3, <2>6
<1>10. Sentences'
    BY <1>1, <1>3, NothingDecided
<1> QED
    BY <1>4, <1>6, <1>7, <1>8, <1>9, <1>10 DEF CompareInv, Sentences

LEMMA ReadActualKeeps ==
    ASSUME CompareInv, ReadActual
    PROVE  CompareInv'
<1>1. /\ IterHash("actual") /\ UNCHANGED input /\ verdict' = verdict
      /\ phase = "actual"
      /\ phase' = IF AtEOF("actual") THEN "drain expected" ELSE "compare"
    BY DEF ReadActual, Goto
<1>2. TextInputs /\ PhaseOfPolicy /\ Positions /\ InStep
    BY DEF CompareInv
<1>3. /\ diffPolicy = "LINE" /\ verdict = "pending"
      /\ "actual" \in Sides /\ "expected" \in Sides
    BY <1>1, <1>2 DEF TextInputs, PhaseOfPolicy, Sides
<1>4. /\ pos' \in [Sides -> Nat] /\ hash' \in [Sides -> Seq(LineChars)]
      /\ pos'["actual"] = LineEnd("actual") /\ pos'["actual"] <= Len(text["actual"])
      /\ \A x \in Sides : x # "actual" => pos'[x] = pos[x]
      /\ AtEOF("actual") => pos'["actual"] = Len(text["actual"])
      /\ HashesLines'
    BY <1>1, <1>3, IterHashKeeps
<1>5. diffPolicy' = diffPolicy /\ ignoreNewline' = ignoreNewline /\ text' = text
    BY <1>1 DEF input
<1>6. TextInputs'
    BY <1>2, <1>5 DEF TextInputs
<1>7. PhaseOfPolicy'
    BY <1>1, <1>3, <1>5 DEF PhaseOfPolicy
<1>8. Positions'
    <2>1. \A x \in Sides : pos'[x] <= Len(text'[x])
        BY <1>2, <1>4, <1>5 DEF Positions
    <2> QED
        BY <1>1, <1>4, <1>5, <2>1 DEF Positions, LineChars
<1>9. InStep'
    <2> SUFFICES ASSUME Lined', phase' = "compare",
                        SameButLastNewline(text'["expected"], text'["actual"])
                 PROVE  LinesRead("expected")' = LinesRead("actual")'
        BY <1>1 DEF InStep
    <2> DEFINE h == LinesRead("actual")
               u == LinesRead("expected")
               v == Taken(text["actual"], NoReturns(text["actual"]))[LineEnd("actual")]
               x == Normal(text["expected"])
               y == Normal(text["actual"])
    <2>1. Lined /\ SameButLastNewline(text["expected"], text["actual"])
        BY <1>5 DEF Lined, ProperInput
    <2>2. OneMoreLine(h, u)
        BY <1>1, <1>2, <2>1 DEF InStep
    <2>3. LinesRead("expected")' = u /\ LinesRead("actual")' = v
        BY <1>4, <1>5 DEF LinesRead, Sides, NoReturns
    <2>4. /\ h = Taken(text["actual"], NoReturns(text["actual"]))[pos["actual"]]
          /\ h \in Seq(LineChars) /\ u \in Seq(LineChars) /\ x \in Seq(LineChars) /\ Begins(u, x)
        BY <1>3, <2>1, LinesReadFacts
    <2>5. pos["actual"] \in Nat /\ pos["actual"] <= Len(text["actual"])
        BY <1>2, <1>3 DEF Positions
    <2>6. OneMoreLine(h, v)
        BY <1>1, <1>2, <1>3, <2>4, <2>5, LineIsRead
    <2>7. /\ LineEnd("actual") \in 0..Len(text["actual"])
          /\ text["actual"] \in Seq(LineChars) /\ text["expected"] \in Seq(LineChars)
        <3>1. /\ Len(text["actual"]) \in Nat
              /\ text["actual"] \in Seq(LineChars) /\ text["expected"] \in Seq(LineChars)
            BY <1>2, <1>3, TextTypes
        <3>2. LineEnd("actual") \in Nat
            BY <1>3, <1>4
        <3> QED
            BY <1>4, <3>1, <3>2
    <2>8. v \in Seq(LineChars) /\ y \in Seq(LineChars) /\ Begins(v, y)
        BY <2>7, NormalFacts
    <2>9. PICK g \in Seq(LineChars) : Begins(x, g) /\ Begins(y, g)
        BY <2>1, <2>7, LettersApart, SameEnds
    <2> HIDE DEF h, u, v, x, y
    <2>10. /\ Len(u) \in Nat /\ Len(v) \in Nat /\ Len(x) \in Nat /\ Len(y) \in Nat
           /\ Len(g) \in Nat
        BY <2>4, <2>8, <2>9, LenProperties
    <2>11. Begins(u, g) /\ Begins(v, g)
        BY <2>4, <2>8, <2>9, <2>10, BeginsFurther
    <2>12. u = v
        BY <2>2, <2>4, <2>6, <2>8, <2>11, OneLineFollows
    <2> QED
        BY <2>3, <2>12
<1>10. Sentences'
    BY <1>1, <1>3, NothingDecided
<1> QED
    BY <1>4, <1>6, <1>7, <1>8, <1>9, <1>10 DEF CompareInv, Sentences

LEMMA DrainKeeps ==
    ASSUME CompareInv, NEW s \in Sides, Drain(s)
    PROVE  CompareInv'
<1> DEFINE drain == IF s = "expected" THEN "drain expected" ELSE "drain actual"
<1>1. /\ IterHash(s) /\ UNCHANGED input /\ verdict' = verdict
      /\ phase = drain
      /\ phase' = IF AtEOF(s) THEN "end" ELSE drain
    BY DEF Drain, Goto
<1>2. TextInputs /\ PhaseOfPolicy /\ Positions
    BY DEF CompareInv
<1>3. diffPolicy = "LINE" /\ verdict = "pending"
    BY <1>1, <1>2 DEF TextInputs, PhaseOfPolicy
<1>4. /\ pos' \in [Sides -> Nat] /\ hash' \in [Sides -> Seq(LineChars)]
      /\ pos'[s] <= Len(text[s])
      /\ \A x \in Sides : x # s => pos'[x] = pos[x]
      /\ AtEOF(s) => pos'[s] = Len(text[s])
      /\ HashesLines'
    BY <1>1, <1>3, IterHashKeeps
<1>5. diffPolicy' = diffPolicy /\ ignoreNewline' = ignoreNewline /\ text' = text
    BY <1>1 DEF input
<1>6. TextInputs'
    BY <1>2, <1>5 DEF TextInputs
<1>7. PhaseOfPolicy'
    BY <1>1, <1>3, <1>5 DEF PhaseOfPolicy
<1>8. Positions'
    <2>1. \A x \in Sides : pos'[x] <= Len(text'[x])
        BY <1>2, <1>4, <1>5 DEF Positions
    <2>2. CASE s = "expected"
        <3>1. pos["actual"] = Len(text["actual"]) /\ pos'["actual"] = pos["actual"]
            BY <1>1, <1>2, <1>4, <2>2 DEF Positions, Sides
        <3> QED
            BY <1>1, <1>4, <1>5, <2>1, <2>2, <3>1 DEF Positions, LineChars
    <2>3. CASE s = "actual"
        <3>1. pos["expected"] = Len(text["expected"]) /\ pos'["expected"] = pos["expected"]
            BY <1>1, <1>2, <1>4, <2>3 DEF Positions, Sides
        <3> QED
            BY <1>1, <1>4, <1>5, <2>1, <2>3, <3>1 DEF Positions, LineChars
    <2> QED
        BY <2>2, <2>3 DEF Sides
<1>9. InStep'
    BY <1>1 DEF InStep
<1>10. Sentences'
    BY <1>1, <1>3, NothingDecided
<1> QED
    BY <1>4, <1>6, <1>7, <1>8, <1>9, <1>10 DEF CompareInv, Sentences

(* A step that reads nothing keeps what was read. *)
LEMMA NothingRead ==
    ASSUME CompareInv, UNCHANGED <<input, pos, hash>>,
           phase' = "done" \/ (phase = "compare" /\ phase' = "expected")
    PROVE  /\ TextInputs' /\ Positions' /\ HashesLines' /\ InStep'
           /\ diffPolicy' = diffPolicy /\ ignoreNewline' = ignoreNewline /\ text' = text
<1>1. TextInputs /\ Positions /\ HashesLines /\ InStep
    BY DEF CompareInv
<1>2. /\ diffPolicy' = diffPolicy /\ ignoreNewline' = ignoreNewline /\ text' = text
      /\ pos' = pos /\ hash' = hash
    BY DEF input
<1>3. TextInputs' /\ Positions'
    BY <1>1, <1>2 DEF TextInputs, Positions
<1>4. Lined' <=> Lined
    BY <1>2 DEF Lined, ProperInput
<1>5. \A s \in Sides : Written(s)' = Written(s)
    BY <1>2 DEF Written
<1>6. HashesLines'
    BY <1>1, <1>2, <1>4, <1>5 DEF HashesLines
<1>7. \A s \in Sides : LinesRead(s)' = LinesRead(s)
    BY <1>2 DEF LinesRead
<1>8. InStep'
    BY <1>1, <1>2, <1>4, <1>7 DEF InStep, Sides
<1> QED
    BY <1>2, <1>3, <1>6, <1>8

LEMMA HashesEqualKeeps ==
    ASSUME CompareInv, HashesEqual
    PROVE  CompareInv'
<1>1. /\ UNCHANGED <<input, pos, hash>> /\ verdict' = verdict
      /\ phase = "compare" /\ phase' = "expected"
    BY DEF HashesEqual, Goto
<1>2. /\ TextInputs' /\ Positions' /\ HashesLines' /\ InStep'
      /\ diffPolicy' = diffPolicy
    BY <1>1, NothingRead
<1>3. diffPolicy = "LINE" /\ verdict = "pending"
    BY <1>1 DEF CompareInv, TextInputs, PhaseOfPolicy
<1>4. PhaseOfPolicy'
    BY <1>1, <1>2, <1>3 DEF PhaseOfPolicy
<1>5. Sentences'
    BY <1>1, <1>3, NothingDecided
<1> QED
    BY <1>2, <1>4, <1>5 DEF CompareInv, Sentences

(* A step that ends the comparison. *)
Ends == UNCHANGED <<input, pos, hash>> /\ phase' = "done"

LEMMA EndsKeeps ==
    ASSUME CompareInv, Ends, Sentences'
    PROVE  CompareInv'
<1>1. /\ TextInputs' /\ Positions' /\ HashesLines' /\ InStep'
      /\ diffPolicy' = diffPolicy
    <2>1. UNCHANGED <<input, pos, hash>> /\ phase' = "done"
        BY DEF Ends
    <2> QED
        BY <2>1, NothingRead
<1>2. PhaseOfPolicy'
    BY DEF Ends, PhaseOfPolicy
<1> QED
    BY <1>1, <1>2 DEF CompareInv, Sentences

(* What a verdict of compareLines2 has to say. *)
LEMMA LinesDecided ==
    ASSUME CompareInv, Ends, diffPolicy = "LINE",
           verdict' \in {"equal", "different"},
           ProperInput =>
             IF ignoreNewline
             THEN /\ SameButLastNewline(text["expected"], text["actual"]) => verdict' = "equal"
                  /\ verdict' = "equal" =>
                        Joined(text["expected"]) = Joined(text["actual"])
             ELSE verdict' = "equal" <=> Normal(text["expected"]) = Normal(text["actual"])
    PROVE  Sentences'
<1>1. /\ diffPolicy' = diffPolicy /\ ignoreNewline' = ignoreNewline /\ text' = text
    BY DEF Ends, input
<1>2. ProperInput' <=> ProperInput
    BY <1>1 DEF ProperInput
<1>3. LinesExact'
    BY <1>1, <1>2 DEF LinesExact
<1>4. IgnoreNewlineOnly'
    BY <1>1, <1>2 DEF IgnoreNewlineOnly
<1>5. FloatExact'
    BY <1>1 DEF FloatExact, Done
<1> QED
    BY <1>3, <1>4, <1>5 DEF Sentences

LEMMA HashesDifferKeeps ==
    ASSUME CompareInv, HashesDiffer
    PROVE  CompareInv'
<1> DEFINE x == text["expected"]
           y == text["actual"]
<1>1. /\ Ends /\ phase = "compare" /\ verdict' = "different"
      /\ hash["expected"] # hash["actual"]
    BY DEF HashesDiffer, Goto, Decide, Ends
<1>2. diffPolicy = "LINE" /\ ignoreNewline \in BOOLEAN
    BY <1>1 DEF CompareInv, TextInputs, PhaseOfPolicy
<1>3. ASSUME ProperInput  PROVE ~SameButLastNewline(x, y)
    <2> SUFFICES ASSUME SameButLastNewline(x, y)  PROVE FALSE
        OBVIOUS
    <2>1. Lined
        BY <1>2, <1>3 DEF Lined
    <2>2. LinesRead("expected") = LinesRead("actual")
        BY <1>1, <2>1 DEF CompareInv, InStep
    <2>3. \A s \in Sides :
            hash[s] = IF ignoreNewline THEN Joined(LinesRead(s)) ELSE LinesRead(s)
        BY <2>1, LinesReadFacts
    <2>4. hash["expected"] = hash["actual"]
        BY <2>2, <2>3 DEF Sides
    <2> QED
        BY <1>1, <2>4
<1>4. ProperInput => Normal(x) # Normal(y)
    BY <1>3 DEF SameButLastNewline
<1>5. Sentences'
    BY <1>1, <1>2, <1>3, <1>4, LinesDecided
<1> QED
    BY <1>1, <1>5, EndsKeeps

LEMMA CompareEndKeeps ==
    ASSUME CompareInv, CompareEnd
    PROVE  CompareInv'
<1> DEFINE x == text["expected"]
           y == text["actual"]
<1>1. /\ Ends /\ phase = "end"
      /\ verdict' = IF hash["expected"] = hash["actual"] THEN "equal" ELSE "different"
    BY DEF CompareEnd, Goto, Decide, Ends
<1>2. diffPolicy = "LINE" /\ ignoreNewline \in BOOLEAN /\ TextInputs
    BY <1>1 DEF CompareInv, TextInputs, PhaseOfPolicy
<1>3. \A s \in Sides : pos[s] = Len(text[s]) /\ text[s] \in Seq(LineChars)
    <2>1. \A s \in Sides : pos[s] = Len(text[s])
        BY <1>1 DEF CompareInv, Positions, Sides
    <2> QED
        BY <1>2, <2>1, TextTypes
<1>4. ASSUME ProperInput, NEW s \in Sides
      PROVE  hash[s] = IF ignoreNewline THEN Joined(text[s]) ELSE Normal(text[s])
    <2>1. hash[s] = Chosen(text[s], Written(s))
        BY <1>2, <1>3, <1>4 DEF CompareInv, HashesLines, Lined, Chosen
    <2>2. CASE ignoreNewline
        <3>1. Written(s) = {i \in DOMAIN text[s] : text[s][i] \in Letters}
            BY <2>2 DEF Written
        <3> QED
            BY <2>1, <2>2, <3>1 DEF Joined
    <2>3. CASE ~ignoreNewline
        <3>1. Written(s) = {i \in DOMAIN text[s] : text[s][i] # "CR"}
            BY <2>3 DEF Written
        <3> QED
            BY <2>1, <2>3, <3>1 DEF Normal
    <2> QED
        BY <2>2, <2>3
<1>5. "expected" \in Sides /\ "actual" \in Sides
    BY DEF Sides
<1>6. SameButLastNewline(x, y) => Joined(x) = Joined(y)
    BY <1>3, <1>5, LettersApart, SameEnds
<1>7. Sentences'
    BY <1>1, <1>2, <1>4, <1>5, <1>6, LinesDecided
<1> QED
    BY <1>1, <1>7, EndsKeeps

LEMMA CompareAllKeeps ==
    ASSUME CompareInv, CompareAll
    PROVE  CompareInv'
<1>1. Ends /\ phase = "all"
    BY DEF CompareAll, Goto, Ends
<1>2. diffPolicy = "ALL" /\ diffPolicy' = diffPolicy
    BY <1>1 DEF CompareInv, TextInputs, PhaseOfPolicy, Ends, input
<1>3. Sentences'
    BY <1>2 DEF Sentences, LinesExact, IgnoreNewlineOnly, FloatExact, Done
<1> QED
    BY <1>1, <1>3, EndsKeeps

LEMMA ReadFailsKeeps ==
    ASSUME CompareInv, ReadFails
    PROVE  CompareInv'
<1>1. Ends /\ verdict' = IF diffPolicy = "ALL" THEN "different" ELSE "error"
    BY DEF ReadFails, Ends
<1>2. Sentences'
    <2>1. CASE diffPolicy = "ALL"
        <3>1. diffPolicy' = "ALL"
            BY <1>1, <2>1 DEF Ends, input
        <3> QED
            BY <3>1 DEF Sentences, LinesExact, IgnoreNewlineOnly, FloatExact, Done
    <2>2. CASE diffPolicy # "ALL"
        BY <1>1, <2>2, NothingDecided
    <2> QED
        BY <2>1, <2>2
<1> QED
    BY <1>1, <1>2, EndsKeeps

LEMMA NotAFloatKeeps ==
    ASSUME CompareInv, NotAFloat
    PROVE  CompareInv'
<1>1. Ends /\ verdict' = "error"
    BY DEF NotAFloat, Goto, Ends
<1>2. Sentences'
    BY <1>1, NothingDecided
<1> QED
    BY <1>1, <1>2, EndsKeeps

-----------------------------------------------------------------------------

(* Numbers *)

LEMMA ValueIsNatural ==
    ASSUME NEW u \in Seq(DOMAIN Digit)
    PROVE  Value(u) \in Nat
<1> DEFINE N == Len(u)
           Step(g) == [n \in 0..N |-> IF n = 0 THEN 0 ELSE 10 * g[n - 1] + Digit[u[n]]]
           f == CHOOSE g : g = Step(g)
           law == [n \in 1..N |-> [v \in Nat |-> 10 * v + Digit[u[n]]]]
<1>1. Value(u) = f[N]
    BY DEF Value
<1>2. N \in Nat /\ 0 \in Nat /\ N \in 0..N
    OBVIOUS
<1>3. \A n \in 1..N : Digit[u[n]] \in Nat
    BY CompareAssumption DEF CompareAssumption
<1> HIDE DEF N
<1>4. ASSUME NEW n \in 1..N, NEW v \in Nat
      PROVE  law[n][v] = 10 * v + Digit[u[n]] /\ law[n][v] \in Nat
    <2>1. Digit[u[n]] \in Nat
        BY <1>3
    <2> QED
        BY <2>1
<1>5. PICK g \in [0..N -> Nat] : Counts(g, N, 0, law)
    <2> HIDE DEF law
    <2> QED
        BY <1>2, <1>4, CountedRecursion
<1>6. ASSUME NEW h, NEW n \in 0..N
      PROVE  Step(h)[n] = IF n = 0 THEN 0 ELSE 10 * h[n - 1] + Digit[u[n]]
    OBVIOUS
<1>7. g = Step(g)
    <2>1. g[0] = 0
        BY <1>5 DEF Counts
    <2>2. ASSUME NEW n \in 1..N  PROVE g[n] = 10 * g[n - 1] + Digit[u[n]]
        <3>1. n - 1 \in 0..N
            BY <1>2
        <3>2. g[n - 1] \in Nat
            BY <3>1
        <3>3. g[n] = law[n][g[n - 1]]
            BY <1>5 DEF Counts
        <3> HIDE DEF law
        <3> QED
            BY <1>4, <3>2, <3>3
    <2>3. \A n \in 0..N : g[n] = Step(g)[n]
        <3> SUFFICES ASSUME NEW n \in 0..N  PROVE g[n] = Step(g)[n]
            OBVIOUS
        <3>1. n = 0 \/ n \in 1..N
            BY <1>2
        <3>2. Step(g)[n] = IF n = 0 THEN 0 ELSE 10 * g[n - 1] + Digit[u[n]]
            BY <1>6
        <3> HIDE DEF Step
        <3> QED
            BY <2>1, <2>2, <3>1, <3>2
    <2>4. g = [n \in 0..N |-> g[n]]
        OBVIOUS
    <2> QED
        BY <2>3, <2>4
<1>8. f = Step(f)
    <2> HIDE DEF Step
    <2> QED
        BY <1>7
<1> HIDE DEF f
<1>9. /\ f[0] = 0
      /\ \A n \in 1..N : f[n] = 10 * f[n - 1] + Digit[u[n]]
    <2>1. \A n \in 0..N : f[n] = IF n = 0 THEN 0 ELSE 10 * f[n - 1] + Digit[u[n]]
        <3> HIDE DEF Step
        <3> QED
            BY <1>6, <1>8
    <2>2. 0 \in 0..N /\ \A n \in 1..N : n \in 0..N /\ n # 0
        BY <1>2
    <2> QED
        BY <2>1, <2>2
<1>10. 0..N \subseteq {n \in 0..N : f[n] \in Nat}
    <2> DEFINE T == {n \in 0..N : f[n] \in Nat}
    <2>1. 0 \in T /\ 0 \in 0..N
        BY <1>2, <1>9
    <2>2. ASSUME NEW n \in 0..N - 1, n \in T  PROVE n + 1 \in T
        <3>1. n + 1 \in 1..N /\ n + 1 \in 0..N /\ (n + 1) - 1 = n
            BY <1>2
        <3>2. f[n + 1] = 10 * f[n] + Digit[u[n + 1]] /\ f[n] \in Nat
            BY <1>9, <2>2, <3>1
        <3> QED
            BY <1>3, <3>1, <3>2
    <2> HIDE DEF T
    <2>3. 0..N \subseteq T
        BY <1>2, <2>1, <2>2, BoundedInduction
    <2> QED
        BY <2>3 DEF T
<1> QED
    BY <1>1, <1>2, <1>10

(* What Chopped takes away, ... *)
LEMMA ChoppedFacts ==
    ASSUME NEW S, NEW c \in S, NEW u \in Seq(S)
    PROVE  /\ Chopped(u \o <<c>>, c) = u
           /\ (u # <<>> => u[Len(u)] # c) => Chopped(u, c) = u
<1>1. ASSUME NEW v \in Seq(S)  PROVE Last(v) = v[Len(v)] /\ Front(v) = SubSeq(v, 1, Len(v) - 1)
    BY DEF Last, Front
<1>2. Chopped(u \o <<c>>, c) = u
    <2> DEFINE v == u \o <<c>>
    <2>1. v \in Seq(S) /\ v # <<>> /\ v[Len(v)] = c /\ Len(v) - 1 = Len(u)
        OBVIOUS
    <2>2. SubSeq(v, 1, Len(v) - 1) = u
        OBVIOUS
    <2> QED
        BY <1>1, <2>1, <2>2 DEF Chopped
<1>3. (u # <<>> => u[Len(u)] # c) => Chopped(u, c) = u
    BY <1>1 DEF Chopped
<1> QED
    BY <1>2, <1>3

(* ... and what it leaves. *)
LEMMA ChoppedSplits ==
    ASSUME NEW S, NEW c \in S, NEW u \in Seq(S)
    PROVE  LET v == Chopped(u, c)
           IN  v \in Seq(S) /\ (u = v \/ u = v \o <<c>>)
<1>1. CASE u # <<>> /\ u[Len(u)] = c
    <2>1. Chopped(u, c) = SubSeq(u, 1, Len(u) - 1)
        BY <1>1 DEF Chopped, Last, Front
    <2>2. SubSeq(u, 1, Len(u) - 1) \in Seq(S) /\ u = SubSeq(u, 1, Len(u) - 1) \o <<c>>
        BY <1>1
    <2> QED
        BY <2>1, <2>2
<1>2. CASE ~(u # <<>> /\ u[Len(u)] = c)
    BY <1>2, ChoppedFacts
<1> QED
    BY <1>1, <1>2

FloatChars == DOMAIN Digit \cup {"NaN", "CR", "LF"}

LEMMA FloatTypes ==
    ASSUME TextInputs, diffPolicy = "FLOAT", NEW s \in Sides
    PROVE  text[s] \in Seq(FloatChars) /\ Len(text[s]) \in Nat
<1>1. text \in [Sides -> FloatTexts]
    BY DEF TextInputs
<1>2. PICK n \in 0..FloatLen : text[s] \in [1..n -> FloatChars]
    BY <1>1 DEF FloatTexts, BoundedSeq, SeqOf, FloatChars
<1>3. n \in Nat
    OBVIOUS
<1>4. text[s] \in Seq(FloatChars)
    BY <1>2, <1>3
<1> QED
    BY <1>4, LenProperties

LEMMA FloatsEnd ==
    ASSUME NEW u \in Seq(FloatChars), IsFloat(u)
    PROVE  /\ u # <<>> /\ u[Len(u)] \notin {"CR", "LF"}
           /\ u # <<"NaN">> => u \in Seq(DOMAIN Digit)
<1>1. CASE u = <<"NaN">>
    BY <1>1
<1>2. CASE u # <<"NaN">>
    <2>1. u # <<>> /\ \A i \in 1..Len(u) : u[i] \in DOMAIN Digit
        BY <1>2 DEF IsFloat, Range
    <2>2. Len(u) \in 1..Len(u)
        BY <2>1
    <2>3. u[Len(u)] \notin {"CR", "LF"}
        BY <2>1, <2>2, CompareAssumption DEF CompareAssumption
    <2>4. u \in Seq(DOMAIN Digit)
        BY <2>1
    <2> QED
        BY <2>1, <2>3, <2>4
<1> QED
    BY <1>1, <1>2

(* How much readFloat64 reads. *)
LEMMA HeadLength ==
    ASSUME NEW n \in Nat
    PROVE  LET m == Min({FloatBuf, n})
           IN  m \in Nat /\ m <= n /\ m <= FloatBuf /\ (m = n \/ m = FloatBuf)
<1>1. FloatBuf \in Nat
    BY CompareAssumption DEF CompareAssumption
<1>2. \E x \in {FloatBuf, n} : \A y \in {FloatBuf, n} : x <= y
    BY <1>1
<1>3. Min({FloatBuf, n}) = CHOOSE x \in {FloatBuf, n} : \A y \in {FloatBuf, n} : x <= y
    BY DEF Min
<1> QED
    BY <1>1, <1>2, <1>3

(* A number at the beginning of a text is what is parsed of it, ...        *)
LEMMA NumberIsParsed ==
    ASSUME NEW s \in Sides, text[s] \in Seq(FloatChars),
           NEW u \in NumbersOf(text[s])
    PROVE  u = Numeral(s) /\ u \in Seq(FloatChars) /\ IsFloat(u)
<1> DEFINE t == text[s]
           m == Min({FloatBuf, Len(t)})
           head == SubSeq(t, 1, m)
           cr == u \o <<"CR">>
           crlf == cr \o <<"LF">>
<1>1. /\ IsFloat(u) /\ Len(u) <= FloatBuf
      /\ \E n \in 0..Len(t) : u = SubSeq(t, 1, n)
    BY DEF NumbersOf
<1>2. PICK b \in LineBreaks : t = u \o b
    BY DEF NumbersOf
<1>3. u \in Seq(FloatChars) /\ Len(u) \in Nat
    <2>1. PICK n \in 0..Len(t) : u = SubSeq(t, 1, n)
        BY <1>1
    <2>2. SubSeq(t, 1, n) \in Seq(FloatChars)
        OBVIOUS
    <2> QED
        BY <2>1, <2>2, LenProperties
<1>4. b \in Seq(FloatChars) /\ Len(t) = Len(u) + Len(b)
    <2>1. "CR" \in FloatChars /\ "LF" \in FloatChars
        BY DEF FloatChars
    <2>2. b = <<>> \/ b = <<"LF">> \/ b = <<"CR">> \/ b = <<"CR", "LF">>
        BY DEF LineBreaks
    <2>3. b \in Seq(FloatChars)
        <3>1. /\ <<>> \in Seq(FloatChars) /\ <<"LF">> \in Seq(FloatChars)
              /\ <<"CR">> \in Seq(FloatChars) /\ <<"CR", "LF">> \in Seq(FloatChars)
            BY <2>1
        <3> QED
            BY <2>2, <3>1, Zenon
    <2> QED
        BY <1>2, <1>3, <2>3
<1>5. m \in Nat /\ m <= Len(t) /\ Len(u) <= m
    <2>1. Len(t) \in Nat
        BY LenProperties
    <2>2. m \in Nat /\ m <= Len(t) /\ (m = Len(t) \/ m = FloatBuf)
        BY <2>1, HeadLength
    <2> HIDE DEF m
    <2> QED
        BY <1>1, <1>3, <1>4, <2>1, <2>2
<1>6. Numeral(s) = Chopped(Chopped(head, "LF"), "CR")
    BY DEF Numeral
<1> HIDE DEF t, m
<1>7. head = u \/ head = u \o <<"LF">> \/ head = cr \/ head = crlf
    <2>1. CASE b = <<>>
        <3>1. t = u
            BY <1>2, <1>3, <2>1, ConcatEmptySeq
        <3>2. m = Len(u)
            BY <1>3, <1>5, <3>1
        <3>3. SubSeq(u, 1, Len(u)) = u
            BY <1>3
        <3> QED
            BY <3>1, <3>2, <3>3
    <2>2. CASE b = <<"LF">>
        BY <1>2, <1>3, <1>4, <1>5, <2>2
    <2>3. CASE b = <<"CR">>
        BY <1>2, <1>3, <1>4, <1>5, <2>3
    <2>4. CASE b = <<"CR", "LF">>
        <3>1. t = crlf /\ Len(t) = Len(u) + 2
            <4>1. u \o <<"CR", "LF">> = (u \o <<"CR">>) \o <<"LF">>
                BY <1>3
            <4>2. Len(<<"CR", "LF">>) = 2
                OBVIOUS
            <4> QED
                BY <1>2, <1>4, <2>4, <4>1, <4>2
        <3>2. m = Len(u) \/ m = Len(u) + 1 \/ m = Len(u) + 2
            BY <1>3, <1>5, <3>1
        <3>3. /\ SubSeq(crlf, 1, Len(u)) = u
              /\ SubSeq(crlf, 1, Len(u) + 1) = cr
              /\ SubSeq(crlf, 1, Len(u) + 2) = crlf
            BY <1>3
        <3> QED
            BY <3>1, <3>2, <3>3
    <2> QED
        BY <2>1, <2>2, <2>3, <2>4 DEF LineBreaks
<1> HIDE DEF head
<1>8. "CR" \in FloatChars /\ "LF" \in FloatChars /\ cr \in Seq(FloatChars) /\ cr[Len(cr)] = "CR"
    BY <1>3 DEF FloatChars
<1>9. u # <<>> /\ u[Len(u)] \notin {"CR", "LF"}
    BY <1>1, <1>3, FloatsEnd
<1>10. Chopped(u, "LF") = u /\ Chopped(u, "CR") = u
    <2>1. u[Len(u)] # "LF" /\ u[Len(u)] # "CR"
        BY <1>9
    <2>2. Chopped(u, "LF") = u
        BY <1>3, <1>8, <2>1, ChoppedFacts
    <2>3. Chopped(u, "CR") = u
        BY <1>3, <1>8, <2>1, ChoppedFacts
    <2> QED
        BY <2>2, <2>3
<1>11. Chopped(u \o <<"LF">>, "LF") = u /\ Chopped(cr, "CR") = u
    BY <1>3, <1>8, ChoppedFacts
<1> HIDE DEF cr
<1>12. Chopped(crlf, "LF") = cr
    BY <1>8, ChoppedFacts
<1>13. Chopped(cr, "LF") = cr
    BY <1>8, ChoppedFacts
<1> HIDE DEF crlf
<1>14. Chopped(head, "LF") = u \/ Chopped(head, "LF") = cr
    BY <1>7, <1>10, <1>11, <1>12, <1>13
<1> QED
    BY <1>1, <1>3, <1>6, <1>10, <1>11, <1>14

(* ... and what is parsed of a text that fits into the buffer is one.      *)
LEMMA ParsedIsNumber ==
    ASSUME NEW s \in Sides, text[s] \in Seq(FloatChars),
           Len(text[s]) <= FloatBuf, IsFloat(Numeral(s))
    PROVE  Numeral(s) \in NumbersOf(text[s])
<1> DEFINE t == text[s]
           m == Min({FloatBuf, Len(t)})
           v == Chopped(t, "LF")
           w == Chopped(v, "CR")
<1>1. Len(t) \in Nat /\ FloatBuf \in Nat
    BY LenProperties, CompareAssumption DEF CompareAssumption
<1>2. m = Len(t)
    <2>1. m \in Nat /\ m <= Len(t) /\ (m = Len(t) \/ m = FloatBuf)
        BY <1>1, HeadLength
    <2> HIDE DEF m
    <2> QED
        BY <1>1, <2>1
<1>3. SubSeq(t, 1, Len(t)) = t
    OBVIOUS
<1>4. Numeral(s) = w
    BY <1>2, <1>3 DEF Numeral
<1>5. "CR" \in FloatChars /\ "LF" \in FloatChars
    BY DEF FloatChars
<1>6. v \in Seq(FloatChars) /\ (t = v \/ t = v \o <<"LF">>)
    BY <1>5, ChoppedSplits
<1> HIDE DEF v
<1>7. w \in Seq(FloatChars) /\ (v = w \/ v = w \o <<"CR">>)
    BY <1>5, <1>6, ChoppedSplits
<1> HIDE DEF w
<1>8. \E b \in LineBreaks : t = w \o b
    <2>1. CASE t = v /\ v = w
        BY <1>7, <2>1 DEF LineBreaks
    <2>2. CASE t = v \o <<"LF">> /\ v = w
        BY <2>2 DEF LineBreaks
    <2>3. CASE t = v /\ v = w \o <<"CR">>
        BY <2>3 DEF LineBreaks
    <2>4. CASE t = v \o <<"LF">> /\ v = w \o <<"CR">>
        <3>1. t = w \o <<"CR", "LF">>
            BY <1>5, <1>7, <2>4
        <3> QED
            BY <3>1 DEF LineBreaks
    <2> QED
        BY <1>6, <1>7, <2>1, <2>2, <2>3, <2>4
<1>9. Len(w) \in 0..Len(t) /\ w = SubSeq(t, 1, Len(w))
    <2>1. Begins(w, t) /\ Len(w) \in Nat
        <3>1. Len(w) \in Nat
            BY <1>7, LenProperties
        <3>2. Begins(w, v) /\ Len(v) \in Nat
            BY <1>7 DEF Begins
        <3>3. Begins(v, t)
            BY <1>6, <3>2 DEF Begins
        <3> QED
            BY <1>1, <3>1, <3>2, <3>3, BeginsFurther
    <2>2. Len(w) <= Len(t) /\ \A i \in 1..Len(w) : w[i] = t[i]
        BY <2>1 DEF Begins
    <2> DEFINE h == SubSeq(t, 1, Len(w))
    <2>3. h \in Seq(FloatChars) /\ Len(h) = Len(w) /\ \A i \in 1..Len(w) : h[i] = t[i]
        BY <1>1, <2>1, <2>2
    <2> HIDE DEF h
    <2>4. h = w
        BY <1>7, <2>2, <2>3, SeqEqual
    <2> QED
        BY <1>1, <2>1, <2>2, <2>4 DEF h
<1>10. IsFloat(w) /\ Len(w) <= FloatBuf
    BY <1>1, <1>4, <1>9
<1> QED
    BY <1>4, <1>8, <1>9, <1>10 DEF NumbersOf

LEMMA FarFacts ==
    ASSUME NEW e \in Seq(FloatChars), NEW a \in Seq(FloatChars),
           IsFloat(e), IsFloat(a), NEW far \in Far(e, a)
    PROVE  IF <<"NaN">> \in {e, a} THEN ~far
           ELSE /\ Value(a) - Value(e) \in -(Eps - 1)..(Eps - 1) => ~far
                /\ ~far => Value(a) - Value(e) \in -Eps..Eps
<1>1. CASE <<"NaN">> \in {e, a}
    BY <1>1 DEF Far
<1>2. CASE <<"NaN">> \notin {e, a}
    <2> DEFINE x == Value(e)
               y == Value(a)
               gaps == {y - x, x - y}
               gap == Max(gaps)
    <2>1. x \in Nat /\ y \in Nat /\ Eps \in Nat
        <3>1. e \in Seq(DOMAIN Digit) /\ a \in Seq(DOMAIN Digit)
            BY <1>2, FloatsEnd
        <3> QED
            BY <3>1, ValueIsNatural, CompareAssumption DEF CompareAssumption
    <2>2. far \in IF gap = Eps THEN BOOLEAN ELSE {gap > Eps}
        BY <1>2 DEF Far
    <2> HIDE DEF x, y
    <2>3. gap \in gaps /\ \A d \in gaps : gap >= d
        <3>1. \E g \in gaps : \A d \in gaps : g >= d
            BY <2>1
        <3>2. gap = CHOOSE g \in gaps : \A d \in gaps : g >= d
            BY DEF Max
        <3> HIDE DEF gaps, gap
        <3> QED
            BY <3>1, <3>2
    <2> HIDE DEF gap
    <2>4. gap \in Int /\ gap >= y - x /\ gap >= x - y /\ (gap = y - x \/ gap = x - y)
        BY <2>1, <2>3
    <2>5. y - x \in -(Eps - 1)..(Eps - 1) => ~far
        <3> SUFFICES ASSUME y - x \in -(Eps - 1)..(Eps - 1)  PROVE ~far
            OBVIOUS
        <3>1. gap < Eps
            BY <2>1, <2>4
        <3>2. gap # Eps /\ ~(gap > Eps)
            BY <2>1, <2>4, <3>1
        <3>3. far = (gap > Eps)
            BY <2>2, <3>2
        <3> QED
            BY <3>2, <3>3
    <2>6. ~far => y - x \in -Eps..Eps
        <3> SUFFICES ASSUME ~far  PROVE y - x \in -Eps..Eps
            OBVIOUS
        <3>1. gap = Eps \/ ~(gap > Eps)
            BY <2>2
        <3> QED
            BY <2>1, <2>4, <3>1
    <2> QED
        BY <1>2, <2>5, <2>6 DEF x, y
<1> QED
    BY <1>1, <1>2

LEMMA FloatsDecideKeeps ==
    ASSUME CompareInv, FloatsDecide
    PROVE  CompareInv'
<1>1. Ends /\ phase = "float" /\ \A s \in Sides : IsFloat(Numeral(s))
    BY DEF FloatsDecide, Goto, Ends
<1>2. PICK far \in Far(Numeral("expected"), Numeral("actual")) :
            verdict' = IF ~far THEN "equal" ELSE "different"
    BY DEF FloatsDecide, Decide
<1>3. diffPolicy = "FLOAT" /\ TextInputs
    BY <1>1 DEF CompareInv, TextInputs, PhaseOfPolicy
<1>4. diffPolicy' = diffPolicy /\ text' = text
    BY <1>1 DEF Ends, input
<1>5. \A s \in Sides : text[s] \in Seq(FloatChars) /\ Len(text[s]) \in Nat
    BY <1>3, FloatTypes
<1>6. "expected" \in Sides /\ "actual" \in Sides
    BY DEF Sides
<1>7. ASSUME NEW e \in NumbersOf(text["expected"]), NEW a \in NumbersOf(text["actual"])
      PROVE  IF <<"NaN">> \in {e, a} THEN verdict' = "equal"
             ELSE /\ Value(a) - Value(e) \in -(Eps - 1)..(Eps - 1) => verdict' = "equal"
                  /\ verdict' = "equal" => Value(a) - Value(e) \in -Eps..Eps
    <2>1. /\ e = Numeral("expected") /\ e \in Seq(FloatChars) /\ IsFloat(e)
          /\ a = Numeral("actual") /\ a \in Seq(FloatChars) /\ IsFloat(a)
        BY <1>5, <1>6, NumberIsParsed
    <2>2. far \in Far(e, a)
        BY <2>1
    <2>3. IF <<"NaN">> \in {e, a} THEN ~far
          ELSE /\ Value(a) - Value(e) \in -(Eps - 1)..(Eps - 1) => ~far
               /\ ~far => Value(a) - Value(e) \in -Eps..Eps
        BY <2>1, <2>2, FarFacts
    <2>4. verdict' = "equal" <=> ~far
        BY <1>2
    <2> QED
        BY <2>3, <2>4
<1>8. ASSUME NEW s \in Sides, NumbersOf(text[s]) = {}
      PROVE  Len(text[s]) > FloatBuf
    <2>1. ~(Len(text[s]) <= FloatBuf)
        BY <1>1, <1>5, <1>8, ParsedIsNumber
    <2> QED
        BY <1>5, <2>1, CompareAssumption DEF CompareAssumption
<1>9. FloatExact'
    BY <1>4, <1>7, <1>8 DEF FloatExact
<1>10. LinesExact' /\ IgnoreNewlineOnly'
    BY <1>3, <1>4 DEF LinesExact, IgnoreNewlineOnly, Done
<1> QED
    BY <1>1, <1>9, <1>10, EndsKeeps DEF Sentences

-----------------------------------------------------------------------------

LEMMA CompareInvInit == ASSUME CompareInit  PROVE CompareInv
<1>1. /\ TextInputs /\ pos = [s \in Sides |-> 0] /\ hash = [s \in Sides |-> <<>>]
      /\ verdict = "pending"
    BY DEF CompareInit
<1>2. diffPolicy \in {"ALL", "LINE", "FLOAT"}
    BY <1>1 DEF TextInputs
<1>3. phase = IF diffPolicy = "ALL" THEN "all" ELSE IF diffPolicy = "LINE" THEN "expected" ELSE "float"
    BY <1>2 DEF CompareInit
<1>4. PhaseOfPolicy
    BY <1>1, <1>2, <1>3 DEF PhaseOfPolicy
<1>5. Positions
    BY <1>1, <1>3 DEF Positions
<1>6. ASSUME Lined, NEW s \in Sides, NEW K
      PROVE  Taken(text[s], K)[pos[s]] = <<>>
    <2>1. text[s] \in Seq(LineChars)
        BY <1>1, <1>6, TextTypes DEF Lined
    <2>2. Taken(text[s], K)[0] = <<>>
        BY <2>1, TakenFacts
    <2> QED
        BY <1>1, <2>2
<1>7. HashesLines
    BY <1>1, <1>6 DEF HashesLines
<1>8. InStep
    BY <1>3, <1>6 DEF InStep, LinesRead, Sides
<1>9. LinesExact /\ IgnoreNewlineOnly /\ FloatExact
    BY <1>1 DEF LinesExact, IgnoreNewlineOnly, FloatExact, Done
<1> QED
    BY <1>1, <1>4, <1>5, <1>7, <1>8, <1>9 DEF CompareInv

LEMMA CompareInvNext ==
    ASSUME CompareInv, [CompareNext]_compareVars
    PROVE  CompareInv'
<1>1. CASE CompareNext
    BY <1>1, ReadExpectedKeeps, ReadActualKeeps, HashesEqualKeeps, HashesDifferKeeps, DrainKeeps,
       CompareEndKeeps, CompareAllKeeps, FloatsDecideKeeps, NotAFloatKeeps, ReadFailsKeeps
       DEF CompareNext
<1>2. CASE UNCHANGED compareVars
    <2>1. /\ diffPolicy' = diffPolicy /\ ignoreNewline' = ignoreNewline /\ text' = text
          /\ pos' = pos /\ hash' = hash /\ phase' = phase /\ verdict' = verdict
        BY <1>2 DEF compareVars, input
    <2>2. TextInputs' /\ PhaseOfPolicy' /\ Positions'
        BY <2>1 DEF CompareInv, TextInputs, PhaseOfPolicy, Positions
    <2>3. HashesLines' /\ InStep'
        BY <2>1 DEF CompareInv, HashesLines, InStep, Lined, ProperInput,
                    Written, LinesRead
    <2>4. LinesExact' /\ IgnoreNewlineOnly' /\ FloatExact'
        BY <2>1 DEF CompareInv, LinesExact, IgnoreNewlineOnly, FloatExact, Done,
                    ProperInput
    <2> QED
        BY <2>2, <2>3, <2>4 DEF CompareInv
<1> QED
    BY <1>1, <1>2

LEMMA CompareInvariant == CompareSpec => []CompareInv
<1>1. CompareInit => CompareInv
    BY CompareInvInit
<1>2. CompareInv /\ [CompareNext]_compareVars => CompareInv'
    BY CompareInvNext
<1> QED
    BY <1>1, <1>2, PTL DEF CompareSpec

(* Without ignoreNewline two outputs are equal exactly when they differ in *)
(* nothing but the form of their newlines, for every buffer size.          *)
THEOREM LinesAreExact == CompareSpec => []LinesExact
<1>1. CompareInv => LinesExact
    BY DEF CompareInv
<1> QED
    BY <1>1, CompareInvariant, PTL

(* With ignoreNewline a last newline makes no difference, and outputs with *)
(* different characters are not accepted.                                  *)
THEOREM OnlyNewlinesIgnored == CompareSpec => []IgnoreNewlineOnly
<1>1. CompareInv => IgnoreNewlineOnly
    BY DEF CompareInv
<1> QED
    BY <1>1, CompareInvariant, PTL

(* Numbers are compared up to the precision, and what is no number is not  *)
(* accepted.                                                               *)
THEOREM FloatsAreExact == CompareSpec => []FloatExact
<1>1. CompareInv => FloatExact
    BY DEF CompareInv
<1> QED
    BY <1>1, CompareInvariant, PTL
=============================================================================

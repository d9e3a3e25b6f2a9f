---------------------------- MODULE WorkerProofs ----------------------------
(***************************************************************************)
(* Proofs about Worker, for any number of workers, tasks and problems,     *)
(* with lost tasks and reports, deadlines and a shutdown at any time:      *)
(* WorkerInv is inductive, and every step of the workers is a step of      *)
(* TaskLife or leaves its state as it is.                                  *)
(***************************************************************************)
EXTENDS Worker, TLAPS, FiniteSetTheorems

-----------------------------------------------------------------------------
(* The deferred calls *)

LEMMA ElementsOf ==
    ASSUME NEW a, NEW b
    PROVE  /\ {<<>>[i] : i \in DOMAIN <<>>} = {}
           /\ {<<a>>[i] : i \in DOMAIN <<a>>} = {a}
           /\ {<<a, b>>[i] : i \in DOMAIN <<a, b>>} = {a, b}
<1>1. DOMAIN <<a>> = {1} /\ DOMAIN <<a, b>> = {1, 2} /\ DOMAIN <<>> = {}
    OBVIOUS
<1> QED
    BY <1>1

LEMMA LastOf ==
    ASSUME NEW a, NEW b
    PROVE  /\ <<a>>[Len(<<a>>)] = a /\ SubSeq(<<a>>, 1, Len(<<a>>) - 1) = <<>>
           /\ <<a, b>>[Len(<<a, b>>)] = b /\ SubSeq(<<a, b>>, 1, Len(<<a, b>>) - 1) = <<a>>
<1>1. Len(<<a>>) - 1 = 0 /\ Len(<<a, b>>) - 1 = 1
    OBVIOUS
<1>2. SubSeq(<<a>>, 1, 0) = <<>>
    OBVIOUS
<1>3. SubSeq(<<a, b>>, 1, 1) = <<a>>
    <2>1. SubSeq(<<a, b>>, 1, 1) = [i \in 1..1 |-> <<a, b>>[i]]
        OBVIOUS
    <2>2. 1..1 = {1} /\ <<a, b>>[1] = a
        OBVIOUS
    <2>3. <<a>> = [i \in {1} |-> a]
        OBVIOUS
    <2> QED
        BY <2>1, <2>2, <2>3
<1>4. <<a>>[1] = a /\ <<a, b>>[2] = b /\ Len(<<a>>) = 1 /\ Len(<<a, b>>) = 2
    OBVIOUS
<1> QED
    BY <1>1, <1>2, <1>3, <1>4

LEMMA AppendOf ==
    ASSUME NEW a, NEW b
    PROVE  Append(<<>>, a) = <<a>> /\ Append(<<a>>, b) = <<a, b>>
<1>1. Append(<<>>, a) = <<a>>
    OBVIOUS
<1>2. Append(<<a>>, b) = <<a, b>>
    <2>1. Append(<<a>>, b) = [i \in 1..2 |-> IF i = 2 THEN b ELSE <<a>>[i]]
        OBVIOUS
    <2>2. 1..2 = {1, 2} /\ <<a>>[1] = a
        OBVIOUS
    <2>3. <<a, b>> = [i \in {1, 2} |-> IF i = 2 THEN b ELSE a]
        OBVIOUS
    <2>4. [i \in 1..2 |-> IF i = 2 THEN b ELSE <<a>>[i]] = [i \in {1, 2} |-> IF i = 2 THEN b ELSE a]
        BY <2>2
    <2> QED
        BY <2>1, <2>3, <2>4
<1> QED
    BY <1>1, <1>2

LEMMA CallsDiffer ==
    /\ \A p, q : Unlock(p) = Unlock(q) => p = q
    /\ \A p, t : Unlock(p) # RemoveFiles(t)
    /\ \A p, t : Unlock(p).call = "unlock" /\ Unlock(p).arg = p
                 /\ RemoveFiles(t).call # "unlock" /\ RemoveFiles(t).arg = t
BY DEF Unlock, RemoveFiles

LEMMA DeferredSets ==
    ASSUME DefersOK, NEW w \in Workers
    PROVE  /\ pc[w] = "compile" => Deferred(w) = {Unlock(ProblemOf[sub[w]])}
           /\ pc[w] \in {"judge", "blocked"} =>
               Deferred(w) = {Unlock(ProblemOf[sub[w]]), RemoveFiles(sub[w])}
           /\ ~Working(w) => Deferred(w) = {}
BY ElementsOf DEF DefersOK, Deferred

-----------------------------------------------------------------------------
(* Types *)

Calls == {Unlock(p) : p \in Problems} \cup {RemoveFiles(t) : t \in Tasks}

LEMMA BusyTask ==
    ASSUME WorkerInv, NEW w \in Workers, Busy(w)
    PROVE  sub[w] \in Tasks /\ ProblemOf[sub[w]] \in Problems
BY WorkerAssumption DEF WorkerInv, TasksOK, WorkerAssumption

(* A lock that a deferred call is to give back is held.                    *)
LEMMA HeldLock ==
    ASSUME WorkerInv, NEW w \in Workers, NEW p \in Problems, Unlock(p) \in Deferred(w)
    PROVE  locks[p] \in Nat /\ locks[p] - 1 \in Nat /\ locks[p] > 0
<1>1. Holders(p) \subseteq Workers /\ w \in Holders(p) /\ IsFiniteSet(Holders(p))
    BY WorkerAssumption, FS_Subset DEF Holders, WorkerAssumption
<1>2. Cardinality(Holders(p)) \in Nat /\ Cardinality(Holders(p)) # 0
    BY <1>1, FS_CardinalityType, FS_EmptySet
<1> QED
    BY <1>2 DEF WorkerInv, LocksHeld

(* What the last deferred call of a work does.                             *)
LEMMA DeferredCall ==
    ASSUME WorkerInv, NEW w \in Workers, RunDeferred(w)
    PROVE  LET unlock == Unlock(ProblemOf[sub[w]])
               remove == RemoveFiles(sub[w])
           IN  \/ /\ defers[w] = <<unlock>>
                  /\ defers' = [defers EXCEPT ![w] = <<>>]
                  /\ locks' = [locks EXCEPT ![ProblemOf[sub[w]]] = @ - 1]
                  /\ UNCHANGED artifacts
               \/ /\ defers[w] = <<unlock, remove>>
                  /\ defers' = [defers EXCEPT ![w] = <<unlock>>]
                  /\ artifacts' = artifacts \ {sub[w]}
                  /\ UNCHANGED locks
<1> DEFINE unlock == Unlock(ProblemOf[sub[w]])
           remove == RemoveFiles(sub[w])
           d == defers[w][Len(defers[w])]
<1>1. defers[w] = <<unlock>> \/ defers[w] = <<unlock, remove>>
    BY DEF RunDeferred, WorkerInv, DefersOK
<1>2. /\ defers' = [defers EXCEPT ![w] = SubSeq(defers[w], 1, Len(defers[w]) - 1)]
      /\ d.call = "unlock" => locks' = [locks EXCEPT ![d.arg] = @ - 1] /\ UNCHANGED artifacts
      /\ d.call # "unlock" => artifacts' = artifacts \ {d.arg} /\ UNCHANGED locks
    BY DEF RunDeferred
<1>3. CASE defers[w] = <<unlock>>
    <2>1. d = unlock /\ SubSeq(defers[w], 1, Len(defers[w]) - 1) = <<>>
        BY <1>3, LastOf
    <2>2. d.call = "unlock" /\ d.arg = ProblemOf[sub[w]]
        BY <2>1, CallsDiffer
    <2>3. locks' = [locks EXCEPT ![ProblemOf[sub[w]]] = @ - 1] /\ UNCHANGED artifacts
        BY <1>2, <2>2
    <2>4. defers' = [defers EXCEPT ![w] = <<>>]
        BY <1>2, <2>1
    <2> QED
        BY <1>3, <2>3, <2>4
<1>4. CASE defers[w] = <<unlock, remove>>
    <2>1. d = remove /\ SubSeq(defers[w], 1, Len(defers[w]) - 1) = <<unlock>>
        BY <1>4, LastOf
    <2>2. d.call # "unlock" /\ d.arg = sub[w]
        BY <2>1, CallsDiffer
    <2>3. artifacts' = artifacts \ {sub[w]} /\ UNCHANGED locks
        BY <1>2, <2>2
    <2>4. defers' = [defers EXCEPT ![w] = <<unlock>>]
        BY <1>2, <2>1
    <2> QED
        BY <1>4, <2>3, <2>4
<1> QED
    BY <1>1, <1>3, <1>4

LEMMA PrepareTypes ==
    ASSUME WorkerInv, NEW w \in Workers,
           \/ Tick(w) \/ Exit(w) \/ FetchNothing(w) \/ \E t \in Tasks : FetchTask(w, t)
           \/ PrepareOk(w) \/ PrepareFails(w)
    PROVE  TypeOK'
<1> USE DEF TypeOK, backendVars, storeVars, Goto
<1>1. TypeOK
    BY DEF WorkerInv
<1>2. CASE Tick(w) \/ Exit(w) \/ FetchNothing(w)
    BY <1>1, <1>2 DEF Tick, Exit, FetchNothing
<1>3. ASSUME NEW t \in Tasks, FetchTask(w, t)  PROVE TypeOK'
    BY <1>1, <1>3 DEF FetchTask
<1>4. CASE PrepareOk(w)
    <2> DEFINE p == ProblemOf[sub[w]]
    <2>1. p \in Problems /\ locks[p] + 1 \in Nat
        BY <1>1, <1>4, BusyTask DEF PrepareOk, Busy
    <2>2. defers' \in [Workers -> Seq(Calls)]
        <3>1. Unlock(p) \in Calls /\ defers \in [Workers -> Seq(Calls)]
            BY <1>1, <2>1 DEF Calls
        <3> QED
            BY <1>4, <3>1 DEF PrepareOk, Defer
    <2>3. locks' \in [Problems -> Nat]
        BY <1>1, <1>4, <2>1 DEF PrepareOk
    <2> QED
        BY <1>1, <1>4, <2>2, <2>3 DEF PrepareOk, Calls
<1>5. CASE PrepareFails(w)
    BY <1>1, <1>5 DEF PrepareFails, Conclude, Conclusions
<1> QED
    BY <1>2, <1>3, <1>4, <1>5

LEMMA WorkTypes ==
    ASSUME WorkerInv, NEW w \in Workers,
           \/ CompileOk(w) \/ \E c \in Conclusions : CompileFails(w, c) \/ Judge(w, c)
           \/ JudgeBlocks(w) \/ RunDeferred(w) \/ Return(w)
    PROVE  TypeOK'
<1> USE DEF TypeOK, backendVars, storeVars, Goto
<1>1. TypeOK
    BY DEF WorkerInv
<1>2. CASE CompileOk(w)
    <2>1. sub[w] \in Tasks
        BY <1>2, BusyTask DEF CompileOk, Busy
    <2>2. defers' \in [Workers -> Seq(Calls)]
        <3>1. RemoveFiles(sub[w]) \in Calls /\ defers \in [Workers -> Seq(Calls)]
            BY <1>1, <2>1 DEF Calls
        <3> QED
            BY <1>2, <3>1 DEF CompileOk, Defer
    <2> QED
        BY <1>1, <1>2, <2>1, <2>2 DEF CompileOk, Calls
<1>3. ASSUME NEW c \in Conclusions, CompileFails(w, c) \/ Judge(w, c)
      PROVE  TypeOK'
    <2>1. sub[w] \in Tasks
        BY <1>3, BusyTask DEF CompileFails, Judge, Busy
    <2> QED
        BY <1>1, <1>3, <2>1 DEF CompileFails, Judge, Conclude
<1>4. CASE RunDeferred(w)
    <2> DEFINE p == ProblemOf[sub[w]]
    <2>1. sub[w] \in Tasks /\ p \in Problems
        BY <1>4, BusyTask DEF RunDeferred, Busy
    <2>2. defers[w] = <<Unlock(p)>> => locks[p] - 1 \in Nat
        BY <2>1, HeldLock, ElementsOf DEF Deferred
    <2>3. locks' \in [Problems -> Nat] /\ artifacts' \subseteq Tasks
        BY <1>1, <1>4, <2>1, <2>2, DeferredCall
    <2>4. defers' \in [Workers -> Seq(Calls)]
        <3>1. <<>> \in Seq(Calls) /\ <<Unlock(p)>> \in Seq(Calls)
            BY <2>1 DEF Calls
        <3>2. defers \in [Workers -> Seq(Calls)]
            BY <1>1 DEF Calls
        <3> QED
            BY <1>4, <3>1, <3>2, DeferredCall
    <2> QED
        BY <1>1, <1>4, <2>3, <2>4 DEF RunDeferred, Calls
<1>5. CASE Return(w) \/ JudgeBlocks(w)
    BY <1>1, <1>5 DEF Return, JudgeBlocks, WorkerInv, TasksOK
<1> QED
    BY <1>2, <1>3, <1>4, <1>5

LEMMA ReportTypes ==
    ASSUME WorkerInv, NEW w \in Workers, Report(w) \/ Deadline(w)
    PROVE  TypeOK'
<1> USE DEF backendVars, storeVars
<1>1. TypeOK
    BY DEF WorkerInv
<1>2. ASSUME pc[w] \in {"report", "backoff"}, EndWork(w),
             UNCHANGED reports \/ (pc[w] = "report" /\ Tell(w)),
             refused' \subseteq refused \cup {sub[w]},
             UNCHANGED <<pending, defers, ctxDone, cancelled, storeVars>>
      PROVE  TypeOK'
    <2>1. sub[w] \in Tasks /\ result[w] \in Conclusions
        BY <1>1, <1>2, BusyTask DEF Busy, TypeOK
    <2>2. reports' \in [Tasks -> SUBSET Conclusions]
        BY <1>1, <1>2, <2>1 DEF Tell, TypeOK
    <2>3. tries' \in [Workers -> 0..MaxRetries]
        BY <1>1, <1>2, WorkerAssumption DEF EndWork, WorkerAssumption, TypeOK
    <2>4. refused' \subseteq Tasks
        BY <1>1, <1>2, <2>1 DEF TypeOK
    <2>5. /\ pc' = [pc EXCEPT ![w] = "select"] /\ sub' = [sub EXCEPT ![w] = NoTask]
          /\ result' = [result EXCEPT ![w] = "none"]
        BY <1>2 DEF EndWork
    <2>6. \A v \in Workers : pc'[v] \in {"report", "backoff"} => result'[v] \in Conclusions
        BY <1>1, <2>5 DEF TypeOK
    <2> QED
        BY <1>1, <1>2, <2>2, <2>3, <2>4, <2>5, <2>6 DEF TypeOK
<1>3. ASSUME tries[w] < MaxRetries, PauseAndRetry(w), UNCHANGED reports \/ Tell(w),
             UNCHANGED <<pending, refused, defers, ctxDone, cancelled, storeVars>>
      PROVE  TypeOK'
    <2>1. sub[w] \in Tasks /\ result[w] \in Conclusions
        BY <1>1, <1>3, BusyTask DEF Busy, PauseAndRetry, Goto, TypeOK
    <2>2. reports' \in [Tasks -> SUBSET Conclusions]
        BY <1>1, <1>3, <2>1 DEF Tell, TypeOK
    <2>3. tries' \in [Workers -> 0..MaxRetries]
        <3>1. tries[w] + 1 \in 0..MaxRetries
            BY <1>1, <1>3, WorkerAssumption DEF WorkerAssumption, TypeOK
        <3> QED
            BY <1>1, <1>3, <3>1 DEF PauseAndRetry, TypeOK
    <2> QED
        BY <1>1, <1>3, <2>1, <2>2, <2>3 DEF PauseAndRetry, TypeOK, Goto
<1>4. CASE ReportOk(w) \/ ReportRefused(w)
    BY <1>2, <1>4 DEF ReportOk, ReportRefused
<1>5. CASE ReportFails(w)
    <2>1. /\ pc[w] = "report" /\ (UNCHANGED reports \/ Tell(w))
          /\ UNCHANGED <<pending, refused, defers, ctxDone, cancelled, storeVars>>
          /\ (tries[w] < MaxRetries /\ PauseAndRetry(w)) \/ EndWork(w)
        BY <1>5 DEF ReportFails
    <2> QED
        BY <1>2, <1>3, <2>1
<1>6. CASE RetryReport(w)
    <2>1. CASE EndWork(w)
        <3>1. /\ pc[w] = "backoff" /\ UNCHANGED reports
              /\ UNCHANGED <<pending, refused, defers, ctxDone, cancelled, storeVars>>
            BY <1>6 DEF RetryReport
        <3> QED
            BY <1>2, <2>1, <3>1
    <2>2. CASE UNCHANGED <<sub, result, tries>>
        BY <1>1, <1>6, <2>2 DEF RetryReport, EndWork, Goto, TypeOK
    <2> QED
        BY <1>6, <2>1, <2>2 DEF RetryReport
<1>7. CASE Deadline(w)
    BY <1>1, <1>7 DEF Deadline, TypeOK
<1> QED
    BY <1>4, <1>5, <1>6, <1>7 DEF Report

LEMMA TypesKept == WorkerInv /\ [Next]_vars => TypeOK'
<1> SUFFICES ASSUME WorkerInv, [Next]_vars  PROVE TypeOK'
    OBVIOUS
<1>1. CASE Cancel
    BY <1>1 DEF Cancel, WorkerInv, TypeOK, backendVars, storeVars
<1>2. CASE UNCHANGED vars
    BY <1>2 DEF vars, WorkerInv, TypeOK, backendVars, storeVars
<1> QED
    BY <1>1, <1>2, PrepareTypes, WorkTypes, ReportTypes DEF Next, Fetch, Work

-----------------------------------------------------------------------------
(* The other parts of the invariant.  Only the worker that takes a step    *)
(* changes its place, its task, its result and its deferred calls.         *)

LEMMA StepsOfOne ==
    ASSUME WorkerInv, NEW w \in Workers,
           Tick(w) \/ Exit(w) \/ Fetch(w) \/ Work(w) \/ Report(w) \/ Deadline(w)
    PROVE  \A v \in Workers \ {w} :
             pc'[v] = pc[v] /\ sub'[v] = sub[v] /\ result'[v] = result[v] /\ defers'[v] = defers[v]
<1>1. TypeOK
    BY DEF WorkerInv
<1>2. CASE Tick(w) \/ Exit(w) \/ Fetch(w) \/ Deadline(w)
    BY <1>1, <1>2 DEF TypeOK, Tick, Exit, Fetch, FetchNothing, FetchTask, Deadline, Goto
<1>3. CASE Work(w)
    BY <1>1, <1>3 DEF TypeOK, Work, PrepareOk, PrepareFails, CompileOk, CompileFails, Judge,
        JudgeBlocks, RunDeferred, Return, Goto, Conclude, Defer
<1>4. CASE Report(w)
    BY <1>1, <1>4 DEF TypeOK, Report, ReportOk, ReportRefused, ReportFails, RetryReport, PauseAndRetry,
        EndWork, Goto
<1> QED
    BY <1>2, <1>3, <1>4

LEMMA DefersKept ==
    ASSUME WorkerInv, NEW w \in Workers,
           Tick(w) \/ Exit(w) \/ Fetch(w) \/ Work(w) \/ Report(w) \/ Deadline(w)
    PROVE  DefersOK'
<1> DEFINE unlock == Unlock(ProblemOf[sub[w]])
           remove == RemoveFiles(sub[w])
           Calls1(u, r) ==
               /\ pc'[w] = "compile" => defers'[w] = <<u>>
               /\ pc'[w] \in {"judge", "blocked"} => defers'[w] = <<u, r>>
               /\ pc'[w] = "return" => defers'[w] \in {<<>>, <<u>>, <<u, r>>}
               /\ pc'[w] \notin {"compile", "judge", "blocked", "return"} => defers'[w] = <<>>
<1>1. TypeOK /\ DefersOK
    BY DEF WorkerInv
<1> SUFFICES Calls1(Unlock(ProblemOf[sub'[w]]), RemoveFiles(sub'[w]))
    BY <1>1, StepsOfOne DEF DefersOK, Working
<1> HIDE DEF unlock, remove
<1>2. /\ pc[w] = "compile" => defers[w] = <<unlock>>
      /\ pc[w] \in {"judge", "blocked"} => defers[w] = <<unlock, remove>>
      /\ pc[w] = "return" => defers[w] \in {<<>>, <<unlock>>, <<unlock, remove>>}
      /\ pc[w] \notin {"compile", "judge", "blocked", "return"} => defers[w] = <<>>
    BY <1>1 DEF DefersOK, Working, unlock, remove
<1>3. CASE Tick(w) \/ Exit(w) \/ Fetch(w)
    BY <1>1, <1>2, <1>3 DEF TypeOK, Tick, Exit, Fetch, FetchNothing, FetchTask, Goto
<1>4. CASE Deadline(w)
    BY <1>1, <1>2, <1>4 DEF TypeOK, Deadline, unlock, remove
<1>5. CASE PrepareOk(w)
    <2>1. defers'[w] = Append(<<>>, unlock) /\ pc'[w] = "compile" /\ sub' = sub
        BY <1>1, <1>2, <1>5 DEF TypeOK, PrepareOk, Goto, Defer, unlock
    <2> QED
        BY <2>1, AppendOf DEF unlock
<1>6. CASE CompileOk(w)
    <2>1. defers'[w] = Append(<<unlock>>, remove) /\ pc'[w] = "judge" /\ sub' = sub
        BY <1>1, <1>2, <1>6 DEF TypeOK, CompileOk, Goto, Defer, remove
    <2> QED
        BY <2>1, AppendOf DEF unlock, remove
<1>7. ASSUME \/ PrepareFails(w) \/ Return(w) \/ JudgeBlocks(w)
             \/ \E c \in Conclusions : CompileFails(w, c) \/ Judge(w, c)
      PROVE  Calls1(Unlock(ProblemOf[sub'[w]]), RemoveFiles(sub'[w]))
    BY <1>1, <1>2, <1>7 DEF TypeOK, PrepareFails, CompileFails, Judge, JudgeBlocks, Return,
        Goto, unlock, remove
<1>8. CASE RunDeferred(w)
    <2>1. pc'[w] = "return" /\ sub' = sub
        BY <1>8 DEF RunDeferred
    <2>2. defers'[w] \in {<<>>, <<unlock>>}
        BY <1>1, <1>8, DeferredCall DEF TypeOK, unlock
    <2> QED
        BY <2>1, <2>2 DEF unlock
<1>9. CASE Report(w)
    <2>1. pc'[w] \notin {"compile", "judge", "blocked", "return"} /\ defers'[w] = <<>>
        BY <1>1, <1>2, <1>9 DEF TypeOK, Report, ReportOk, ReportRefused, ReportFails, RetryReport, PauseAndRetry,
            EndWork, Goto
    <2> QED
        BY <2>1
<1> QED
    BY <1>3, <1>4, <1>5, <1>6, <1>7, <1>8, <1>9 DEF Work

LEMMA LocksKept ==
    ASSUME WorkerInv, NEW w \in Workers,
           Tick(w) \/ Exit(w) \/ Fetch(w) \/ Work(w) \/ Report(w) \/ Deadline(w)
    PROVE  LocksHeld'
<1> DEFINE p0 == ProblemOf[sub[w]]
<1>1. TypeOK /\ DefersOK /\ LocksHeld
    BY DEF WorkerInv
<1>2. \A v \in Workers \ {w} : Deferred(v)' = Deferred(v)
    BY StepsOfOne DEF Deferred
<1>3. \A p : IsFiniteSet(Holders(p)) /\ Cardinality(Holders(p)) \in Nat
    <2> TAKE p
    <2>1. Holders(p) \subseteq Workers
        BY DEF Holders
    <2> QED
        BY <2>1, WorkerAssumption, FS_Subset, FS_CardinalityType DEF WorkerAssumption
<1>4. ASSUME UNCHANGED locks,
             \A p \in Problems : Unlock(p) \in Deferred(w)' <=> Unlock(p) \in Deferred(w)
      PROVE  LocksHeld'
    <2>1. \A p \in Problems : Holders(p)' = Holders(p)
        BY <1>2, <1>4 DEF Holders
    <2> QED
        BY <1>1, <1>4, <2>1 DEF LocksHeld
<1>5. CASE PrepareOk(w)
    <2>1. p0 \in Problems /\ locks' = [locks EXCEPT ![p0] = @ + 1]
        BY <1>5, BusyTask DEF PrepareOk, Goto, Busy
    <2>2. Deferred(w) = {} /\ Deferred(w)' = {Unlock(p0)}
        <3>1. defers[w] = <<>> /\ defers'[w] = Append(<<>>, Unlock(p0))
            BY <1>1, <1>5 DEF PrepareOk, Goto, Defer, DefersOK, Working, TypeOK
        <3> QED
            BY <3>1, AppendOf, ElementsOf DEF Deferred
    <2>3. \A p \in Problems : Holders(p)' = IF p = p0 THEN Holders(p) \cup {w} ELSE Holders(p)
        BY <1>2, <2>2, CallsDiffer DEF Holders
    <2>4. w \notin Holders(p0)
        BY <2>2 DEF Holders
    <2>5. \A p \in Problems : locks'[p] = IF p = p0 THEN locks[p] + 1 ELSE locks[p]
        BY <1>1, <2>1 DEF TypeOK
    <2> QED
        BY <1>1, <1>3, <2>1, <2>3, <2>4, <2>5, FS_AddElement DEF LocksHeld
<1>6. CASE CompileOk(w)
    <2>1. /\ Deferred(w) = {Unlock(p0)}
          /\ Deferred(w)' = {Unlock(p0), RemoveFiles(sub[w])}
        <3>1. /\ defers[w] = <<Unlock(p0)>>
              /\ defers'[w] = Append(<<Unlock(p0)>>, RemoveFiles(sub[w]))
            BY <1>1, <1>6 DEF CompileOk, Goto, Defer, DefersOK, TypeOK
        <3> QED
            BY <3>1, AppendOf, ElementsOf DEF Deferred
    <2> QED
        BY <1>4, <1>6, <2>1, CallsDiffer DEF CompileOk
<1>7. CASE RunDeferred(w)
    <2>1. CASE /\ defers[w] = <<Unlock(p0)>>
               /\ defers' = [defers EXCEPT ![w] = <<>>]
               /\ locks' = [locks EXCEPT ![p0] = @ - 1]
        <3>1. Deferred(w) = {Unlock(p0)} /\ Deferred(w)' = {}
            BY <1>1, <2>1, ElementsOf DEF Deferred, TypeOK
        <3>2. p0 \in Problems /\ w \in Holders(p0)
            BY <1>7, <3>1, BusyTask DEF RunDeferred, Busy, Holders
        <3>3. \A p \in Problems :
                Holders(p)' = IF p = p0 THEN Holders(p) \ {w} ELSE Holders(p)
            BY <1>2, <3>1, CallsDiffer DEF Holders
        <3>4. \A p \in Problems : locks'[p] = IF p = p0 THEN locks[p] - 1 ELSE locks[p]
            BY <1>1, <2>1, <3>2 DEF TypeOK
        <3> QED
            BY <1>1, <1>3, <3>2, <3>3, <3>4, FS_RemoveElement DEF LocksHeld
    <2>2. CASE /\ defers[w] = <<Unlock(p0), RemoveFiles(sub[w])>>
               /\ defers' = [defers EXCEPT ![w] = <<Unlock(p0)>>]
               /\ UNCHANGED locks
        <3>1. /\ Deferred(w) = {Unlock(p0), RemoveFiles(sub[w])}
              /\ Deferred(w)' = {Unlock(p0)}
            BY <1>1, <2>2, ElementsOf DEF Deferred, TypeOK
        <3> QED
            BY <1>4, <2>2, <3>1, CallsDiffer
    <2> QED
        BY <1>7, <2>1, <2>2, DeferredCall
<1>8. CASE UNCHANGED <<defers, locks>>
    BY <1>4, <1>8 DEF Deferred
<1>9. \/ UNCHANGED <<defers, locks>> \/ PrepareOk(w) \/ CompileOk(w) \/ RunDeferred(w)
    BY DEF Tick, Exit, Fetch, FetchNothing, FetchTask, Work, PrepareFails, CompileFails, Judge,
        JudgeBlocks, Return, Report, ReportOk, ReportRefused, ReportFails, RetryReport, Deadline,
        storeVars
<1> QED
    BY <1>5, <1>6, <1>7, <1>8, <1>9

LEMMA TasksKept ==
    ASSUME WorkerInv, NEW w \in Workers,
           Tick(w) \/ Exit(w) \/ Fetch(w) \/ Work(w) \/ Report(w) \/ Deadline(w)
    PROVE  TasksOK'
<1>1. TypeOK /\ TasksOK
    BY DEF WorkerInv
<1>2. \A v \in Workers \ {w} : pc'[v] = pc[v] /\ sub'[v] = sub[v] /\ result'[v] = result[v]
    BY StepsOfOne
<1>3. CASE Tick(w) \/ Exit(w) \/ FetchNothing(w)
    <2>1. /\ pc'[w] \in {"select", "fetch", "exited"} /\ ~Busy(w)
          /\ UNCHANGED <<sub, result, reports>> /\ pending' \subseteq pending
        BY <1>1, <1>3 DEF TypeOK, Tick, Exit, FetchNothing, Goto, Busy, backendVars
    <2> QED
        BY <1>1, <1>2, <2>1 DEF TasksOK, Busy
<1>4. ASSUME NEW t \in Tasks, FetchTask(w, t)  PROVE TasksOK'
    <2>1. /\ pc[w] = "fetch" /\ pc'[w] = "prepare" /\ sub'[w] = t /\ t \in pending
          /\ pending' = pending \ {t} /\ UNCHANGED reports
        BY <1>1, <1>4 DEF TypeOK, FetchTask, Goto
    <2>2. \A v \in Workers : Busy(v) => sub[v] # t
        BY <1>1, <2>1 DEF TasksOK
    <2> QED
        BY <1>1, <1>2, <2>1, <2>2 DEF TasksOK, Busy
<1>5. CASE Work(w)
    <2>1. UNCHANGED <<pending, reports, sub>> /\ Busy(w) /\ Busy(w)'
        BY <1>1, <1>5 DEF TypeOK, Work, PrepareOk, PrepareFails, CompileOk, CompileFails, Judge,
            JudgeBlocks, RunDeferred, Return, Goto, Busy, backendVars
    <2>2. pc'[w] \in {"return", "report", "backoff"} => result'[w] \in Conclusions
        BY <1>1, <1>5 DEF TypeOK, TasksOK, Work, PrepareOk, PrepareFails, CompileOk, CompileFails,
            Judge, JudgeBlocks, RunDeferred, Return, Goto, Conclude, Conclusions
    <2>3. reports[sub[w]] = {}
        BY <1>1, <1>5, <2>1 DEF TasksOK, Work, PrepareOk, PrepareFails, CompileOk, CompileFails,
            Judge, JudgeBlocks, RunDeferred, Return, Goto
    <2> QED
        BY <1>1, <1>2, <2>1, <2>2, <2>3 DEF TasksOK, Busy
<1>6. CASE Report(w)
    <2>1. /\ Busy(w) /\ sub[w] \in Tasks /\ pc[w] \in {"report", "backoff"} /\ UNCHANGED pending
          /\ reports[sub[w]] \subseteq {result[w]}
          /\ \/ UNCHANGED reports
             \/ reports' = [reports EXCEPT ![sub[w]] = @ \cup {result[w]}]
        BY <1>1, <1>6 DEF TasksOK, Report, ReportOk, ReportRefused, ReportFails, RetryReport, Goto, Busy, Tell,
            backendVars
    <2>2. \/ ~Busy(w)' /\ sub'[w] = NoTask
          \/ pc'[w] \in {"report", "backoff"} /\ sub'[w] = sub[w] /\ result'[w] = result[w]
        BY <1>1, <1>6 DEF TypeOK, Report, ReportOk, ReportRefused, ReportFails, RetryReport, PauseAndRetry,
            EndWork, Goto, Busy
    <2>3. /\ \A t \in Tasks \ {sub[w]} : reports'[t] = reports[t]
          /\ reports'[sub[w]] \subseteq {result[w]}
        BY <1>1, <2>1 DEF TypeOK
    <2>4. \A v \in Workers \ {w} : Busy(v) => sub[v] # sub[w]
        BY <1>1 DEF TasksOK
    <2>5. pc'[w] \in {"select", "report", "backoff"} /\ result[w] \in Conclusions
        BY <1>1, <1>6, <2>1 DEF TypeOK, Report, ReportOk, ReportRefused, ReportFails, RetryReport, PauseAndRetry,
            EndWork, Goto
    <2>6. \A v \in Workers : Busy(v)' => Busy(v) /\ sub'[v] = sub[v]
        BY <1>2, <2>1, <2>2 DEF Busy
    <2>7. \A v \in Workers : Busy(v)' <=> sub'[v] \in Tasks
        BY <1>1, <1>2, <2>1, <2>2, WorkerAssumption DEF TasksOK, Busy, WorkerAssumption
    <2>8. ASSUME NEW v \in Workers, Busy(v)'
          PROVE  /\ sub'[v] \notin pending'
                 /\ reports'[sub'[v]] \subseteq
                        (IF pc'[v] \in {"report", "backoff"} THEN {result'[v]} ELSE {})
        <3>1. Busy(v) /\ sub'[v] = sub[v] /\ sub[v] \in Tasks /\ sub[v] \notin pending
            BY <1>1, <2>6, <2>8 DEF TasksOK
        <3>2. CASE v = w
            BY <2>1, <2>2, <2>3, <2>8, <3>1, <3>2
        <3>3. CASE v # w
            BY <1>1, <1>2, <2>1, <2>3, <2>4, <3>1, <3>3 DEF TasksOK
        <3> QED
            BY <3>2, <3>3
    <2>9. \A v \in Workers : pc'[v] \in {"return", "report", "backoff"} => result'[v] \in Conclusions
        BY <1>1, <1>2, <2>2, <2>5 DEF TasksOK, Busy
    <2>10. \A u, v \in Workers : Busy(u)' /\ sub'[u] = sub'[v] => u = v
        BY <1>1, <2>6, <2>7 DEF TasksOK
    <2>11. \A t \in pending' : reports'[t] = {}
        BY <1>1, <2>1, <2>3 DEF TasksOK, TypeOK
    <2>12. \A t \in Tasks : \A c, d \in reports'[t] : c = d
        BY <1>1, <2>3 DEF TasksOK
    <2> QED
        BY <2>7, <2>8, <2>9, <2>10, <2>11, <2>12 DEF TasksOK
<1>7. CASE Deadline(w)
    BY <1>1, <1>7 DEF Deadline, TasksOK, Busy, backendVars
<1> QED
    BY <1>3, <1>4, <1>5, <1>6, <1>7 DEF Fetch

(* The removal of t is still to come.                                      *)
ToRemove(t) == \E w \in Workers : sub[w] = t /\ RemoveFiles(t) \in Deferred(w)

LEMMA ArtifactsKept ==
    ASSUME WorkerInv, NEW w \in Workers,
           Tick(w) \/ Exit(w) \/ Fetch(w) \/ Work(w) \/ Report(w) \/ Deadline(w)
    PROVE  ArtifactsOK'
<1> DEFINE p0 == ProblemOf[sub[w]]
           Mine(p, s) ==
               /\ p \in {"prepare", "compile"} => s \notin artifacts'
               /\ p \in {"judge", "blocked"} => s \in artifacts'
<1>1. TypeOK /\ TasksOK /\ DefersOK /\ ArtifactsOK
    BY DEF WorkerInv
<1>2. \A v \in Workers \ {w} :
        /\ pc'[v] = pc[v] /\ sub'[v] = sub[v] /\ Deferred(v)' = Deferred(v)
    BY StepsOfOne DEF Deferred
<1>3. \A v \in Workers \ {w} : Busy(v) => sub[v] # sub[w]
    BY <1>1 DEF TasksOK
<1>4. ASSUME artifacts' \cap pending' = {},
             \/ artifacts' = artifacts
             \/ artifacts' = artifacts \cup {sub[w]} \/ artifacts' = artifacts \ {sub[w]},
             Mine(pc'[w], sub'[w]),
             \A t \in artifacts' \ abandoned' : ToRemove(t)'
      PROVE  ArtifactsOK'
    <2>1. ASSUME NEW v \in Workers \ {w}
          PROVE  /\ pc'[v] \in {"prepare", "compile"} => sub'[v] \notin artifacts'
                 /\ pc'[v] \in {"judge", "blocked"} => sub'[v] \in artifacts'
        BY <1>1, <1>2, <1>3, <1>4 DEF ArtifactsOK, Busy
    <2> QED
        BY <1>4, <2>1 DEF ArtifactsOK, ToRemove
<1>5. \A t \in artifacts \ abandoned : ToRemove(t)
    BY <1>1 DEF ArtifactsOK, ToRemove
<1>6. ASSUME NEW t, ToRemove(t),
             RemoveFiles(t) \in Deferred(w) => sub'[w] = sub[w] /\ RemoveFiles(t) \in Deferred(w)'
      PROVE  ToRemove(t)'
    BY <1>2, <1>6 DEF ToRemove
<1>7. ASSUME artifacts' \subseteq artifacts, UNCHANGED abandoned,
             \/ Deferred(w) = {}
             \/ sub'[w] = sub[w] /\ Deferred(w) \subseteq Deferred(w)'
      PROVE  \A t \in artifacts' \ abandoned' : ToRemove(t)'
    BY <1>5, <1>6, <1>7
<1>8. ASSUME artifacts' = artifacts, UNCHANGED abandoned, pending' \subseteq pending,
             pc'[w] \notin {"prepare", "compile", "judge", "blocked"},
             \/ Deferred(w) = {}
             \/ sub'[w] = sub[w] /\ Deferred(w) \subseteq Deferred(w)'
      PROVE  ArtifactsOK'
    <2>1. \A t \in artifacts' \ abandoned' : ToRemove(t)'
        BY <1>7, <1>8
    <2> QED
        BY <1>1, <1>4, <1>8, <2>1 DEF ArtifactsOK
<1>9. pc[w] \notin {"compile", "judge", "blocked", "return"} => Deferred(w) = {}
    BY <1>1, DeferredSets DEF Working
<1>10. CASE Tick(w) \/ Exit(w) \/ FetchNothing(w)
    <2>1. /\ pc[w] \in {"select", "fetch"} /\ pc'[w] \in {"select", "fetch", "exited"}
          /\ UNCHANGED <<artifacts, abandoned>> /\ pending' \subseteq pending
        BY <1>1, <1>10 DEF TypeOK, Tick, Exit, FetchNothing, Goto, backendVars, storeVars
    <2> QED
        BY <1>8, <1>9, <2>1
<1>11. ASSUME NEW t \in Tasks, FetchTask(w, t)  PROVE ArtifactsOK'
    <2>1. /\ pc[w] = "fetch" /\ pc'[w] = "prepare" /\ sub'[w] = t /\ t \in pending
          /\ pending' = pending \ {t} /\ UNCHANGED <<artifacts, abandoned>>
        BY <1>1, <1>11 DEF TypeOK, FetchTask, Goto, storeVars
    <2>2. Deferred(w) = {}
        BY <1>9, <2>1
    <2>3. \A u \in artifacts' \ abandoned' : ToRemove(u)'
        BY <1>7, <2>1, <2>2
    <2> QED
        BY <1>1, <1>4, <2>1, <2>3 DEF ArtifactsOK
<1>12. CASE PrepareOk(w)
    <2>1. /\ pc[w] = "prepare" /\ pc'[w] = "compile"
          /\ UNCHANGED <<artifacts, abandoned, pending, sub>>
        BY <1>1, <1>12 DEF TypeOK, PrepareOk, Goto, backendVars
    <2>2. Deferred(w) = {}
        BY <1>9, <2>1
    <2>3. \A u \in artifacts' \ abandoned' : ToRemove(u)'
        BY <1>7, <2>1, <2>2
    <2> QED
        BY <1>1, <1>4, <2>1, <2>3 DEF ArtifactsOK
<1>13. CASE PrepareFails(w)
    <2>1. /\ pc[w] = "prepare" /\ pc'[w] = "return"
          /\ UNCHANGED <<artifacts, abandoned, pending>>
        BY <1>1, <1>13 DEF TypeOK, PrepareFails, Goto, backendVars, storeVars
    <2> QED
        BY <1>8, <1>9, <2>1
<1>14. CASE CompileOk(w)
    <2>1. /\ pc[w] = "compile" /\ pc'[w] = "judge" /\ UNCHANGED <<pending, sub, abandoned>>
          /\ artifacts' = artifacts \cup {sub[w]}
        BY <1>1, <1>14 DEF TypeOK, CompileOk, Goto, backendVars
    <2>2. sub[w] \notin pending
        BY <1>1, <2>1 DEF TasksOK, Busy
    <2>3. /\ Deferred(w) = {Unlock(p0)}
          /\ Deferred(w)' = {Unlock(p0), RemoveFiles(sub[w])}
        <3>1. /\ defers[w] = <<Unlock(p0)>>
              /\ defers'[w] = Append(<<Unlock(p0)>>, RemoveFiles(sub[w]))
            BY <1>1, <1>14 DEF CompileOk, Goto, Defer, DefersOK, TypeOK
        <3> QED
            BY <3>1, AppendOf, ElementsOf DEF Deferred
    <2>4. ASSUME NEW t \in artifacts' \ abandoned'  PROVE ToRemove(t)'
        <3>1. CASE t = sub[w]
            BY <2>1, <2>3, <3>1 DEF ToRemove
        <3>2. CASE t \in artifacts
            BY <1>5, <1>6, <2>1, <2>3, <3>2
        <3> QED
            BY <2>1, <3>1, <3>2
    <2> QED
        BY <1>1, <1>4, <2>1, <2>2, <2>4 DEF ArtifactsOK
<1>15. ASSUME NEW c \in Conclusions, CompileFails(w, c)  PROVE ArtifactsOK'
    <2>1. /\ pc[w] = "compile" /\ pc'[w] = "return" /\ UNCHANGED <<pending, sub>>
          /\ artifacts' = artifacts \/ artifacts' = artifacts \cup {sub[w]}
          /\ abandoned' = abandoned \cup {sub[w]} /\ Deferred(w)' = Deferred(w)
        BY <1>1, <1>15 DEF TypeOK, CompileFails, Goto, Deferred, backendVars
    <2>2. sub[w] \notin pending
        BY <1>1, <2>1 DEF TasksOK, Busy
    <2>3. \A t \in artifacts' \ abandoned' : t \in artifacts \ abandoned
        BY <2>1
    <2>4. \A t \in artifacts' \ abandoned' : ToRemove(t)'
        BY <1>5, <1>6, <2>1, <2>3
    <2> QED
        BY <1>1, <1>4, <2>1, <2>2, <2>4 DEF ArtifactsOK
<1>16. ASSUME NEW c \in Conclusions, Judge(w, c)  PROVE ArtifactsOK'
    <2>1. /\ pc'[w] = "return" /\ UNCHANGED <<pending, sub, artifacts, abandoned>>
          /\ Deferred(w)' = Deferred(w)
        BY <1>1, <1>16 DEF TypeOK, Judge, Goto, Deferred, backendVars, storeVars
    <2> QED
        BY <1>8, <2>1
<1>17. CASE JudgeBlocks(w)
    <2>1. /\ pc[w] = "judge" /\ pc'[w] = "blocked"
          /\ UNCHANGED <<pending, sub, artifacts, abandoned>> /\ Deferred(w)' = Deferred(w)
        BY <1>1, <1>17 DEF TypeOK, JudgeBlocks, Goto, Deferred, backendVars, storeVars
    <2>2. \A u \in artifacts' \ abandoned' : ToRemove(u)'
        BY <1>7, <2>1
    <2> QED
        BY <1>1, <1>4, <2>1, <2>2 DEF ArtifactsOK
<1>18. CASE RunDeferred(w)
    <2>1. pc[w] = "return" /\ UNCHANGED <<pc, pending, sub, abandoned>>
        BY <1>18 DEF RunDeferred, backendVars
    <2>2. CASE /\ defers[w] = <<Unlock(p0)>> /\ UNCHANGED artifacts
        <3>1. \A t : RemoveFiles(t) \notin Deferred(w)
            BY <2>2, ElementsOf, CallsDiffer DEF Deferred
        <3>2. \A t \in artifacts' \ abandoned' : ToRemove(t)'
            BY <1>5, <1>6, <2>1, <2>2, <3>1
        <3> QED
            BY <1>1, <1>4, <2>1, <2>2, <3>2 DEF ArtifactsOK
    <2>3. CASE /\ defers[w] = <<Unlock(p0), RemoveFiles(sub[w])>>
               /\ artifacts' = artifacts \ {sub[w]}
        <3>1. \A t : RemoveFiles(t) \in Deferred(w) => t = sub[w]
            BY <2>3, ElementsOf, CallsDiffer DEF Deferred
        <3>2. \A t \in artifacts' \ abandoned' : ToRemove(t)'
            BY <1>5, <1>6, <2>1, <2>3, <3>1
        <3> QED
            BY <1>1, <1>4, <2>1, <2>3, <3>2 DEF ArtifactsOK
    <2> QED
        BY <1>18, <2>2, <2>3, DeferredCall
<1>19. CASE Return(w)
    <2>1. /\ pc'[w] = "report" /\ Deferred(w)' = Deferred(w)
          /\ UNCHANGED <<pending, sub, artifacts, abandoned>>
        BY <1>1, <1>19 DEF TypeOK, Return, Goto, Deferred, backendVars, storeVars
    <2> QED
        BY <1>8, <2>1
<1>20. CASE Report(w)
    <2>1. /\ pc[w] \in {"report", "backoff"} /\ UNCHANGED <<pending, artifacts, abandoned>>
          /\ pc'[w] \in {"select", "report", "backoff"}
        BY <1>1, <1>20 DEF TypeOK, Report, ReportOk, ReportRefused, ReportFails, RetryReport,
            PauseAndRetry, EndWork, Goto, backendVars, storeVars
    <2> QED
        BY <1>8, <1>9, <2>1
<1>21. CASE Deadline(w)
    BY <1>1, <1>21 DEF Deadline, ArtifactsOK, Deferred, backendVars, storeVars
<1> QED
    BY <1>10, <1>11, <1>12, <1>13, <1>14, <1>15, <1>16, <1>17, <1>18, <1>19, <1>20, <1>21
    DEF Fetch, Work

LEMMA WorkerInvInit == Init => WorkerInv
<1> SUFFICES ASSUME Init  PROVE WorkerInv
    OBVIOUS
<1> USE DEF Init
<1>1. TypeOK
    <2>1. tries \in [Workers -> 0..MaxRetries]
        BY WorkerAssumption DEF WorkerAssumption
    <2>2. defers \in [Workers -> Seq(Calls)]
        OBVIOUS
    <2> QED
        BY <2>1, <2>2 DEF TypeOK, Calls
<1>2. DefersOK /\ TasksOK /\ ArtifactsOK
    BY WorkerAssumption DEF WorkerAssumption, DefersOK, Working, TasksOK, Busy, ArtifactsOK
<1>3. LocksHeld
    <2>1. \A p : Holders(p) = {}
        BY DEF Holders, Deferred
    <2> QED
        BY <2>1, FS_EmptySet DEF LocksHeld
<1> QED
    BY <1>1, <1>2, <1>3 DEF WorkerInv

LEMMA WorkerInvNext == WorkerInv /\ [Next]_vars => WorkerInv'
<1> SUFFICES ASSUME WorkerInv, [Next]_vars  PROVE WorkerInv'
    OBVIOUS
<1>1. TypeOK'
    BY TypesKept
<1>2. CASE Cancel \/ UNCHANGED vars
    <2>1. UNCHANGED <<pending, reports, pc, sub, result, defers, locks, artifacts, abandoned>>
        BY <1>2 DEF Cancel, vars, backendVars, storeVars
    <2>2. \A w : Deferred(w)' = Deferred(w) /\ Busy(w)' = Busy(w) /\ Working(w)' = Working(w)
        BY <2>1 DEF Deferred, Busy, Working
    <2>3. DefersOK' /\ TasksOK' /\ ArtifactsOK'
        BY <2>1, <2>2 DEF WorkerInv, DefersOK, TasksOK, ArtifactsOK
    <2>4. LocksHeld'
        <3>1. \A p : Holders(p)' = Holders(p)
            BY <2>2 DEF Holders
        <3> QED
            BY <2>1, <3>1 DEF WorkerInv, LocksHeld
    <2> QED
        BY <1>1, <2>3, <2>4 DEF WorkerInv
<1>3. ASSUME NEW w \in Workers,
             Tick(w) \/ Exit(w) \/ Fetch(w) \/ Work(w) \/ Report(w) \/ Deadline(w)
      PROVE  WorkerInv'
    BY <1>1, <1>3, DefersKept, LocksKept, TasksKept, ArtifactsKept DEF WorkerInv
<1> QED
    BY <1>2, <1>3 DEF Next

LEMMA WorkerInvariant == Spec => []WorkerInv
BY WorkerInvInit, WorkerInvNext, PTL DEF Spec

-----------------------------------------------------------------------------
(* What the workers promise *)

(* However a work ends, the problem it has locked is unlocked once, before *)
(* the report: the lock count is the number of works still to unlock.      *)
THEOREM LocksAreBalanced == Spec => []LocksBalanced
<1>1. WorkerInv => LocksBalanced
    <2> SUFFICES ASSUME WorkerInv  PROVE LocksBalanced
        OBVIOUS
    <2>1. \A w \in Workers : ~Working(w) => defers[w] = <<>>
        BY DEF WorkerInv, DefersOK
    <2>2. ASSUME NEW w \in Workers, pc[w] \in {"compile", "judge", "blocked"}
          PROVE  locks[ProblemOf[sub[w]]] > 0
        <3>1. Unlock(ProblemOf[sub[w]]) \in Deferred(w)
            BY <2>2, DeferredSets DEF WorkerInv
        <3>2. ProblemOf[sub[w]] \in Problems
            BY <2>2, BusyTask DEF Busy
        <3> QED
            BY <3>1, <3>2, HeldLock
    <2> QED
        BY <2>1, <2>2 DEF WorkerInv, LocksBalanced, LocksHeld, Holders
<1> QED
    BY <1>1, WorkerInvariant, PTL

(* A compiled program is there while its cases are judged, and its removal *)
(* is still to come whatever way the judging ends, also as an error; only  *)
(* a failed compilation can leave one behind.                              *)
THEOREM ArtifactsAreRemoved == Spec => []ArtifactsRemoved
<1>1. WorkerInv => ArtifactsRemoved
    BY DEF WorkerInv, ArtifactsOK, ArtifactsRemoved
<1> QED
    BY <1>1, WorkerInvariant, PTL

(* The state of the abstract task t, given the pending tasks and its       *)
(* reports.                                                                *)
StateOf(t, P, R) ==
    IF t \in P THEN "waiting"
    ELSE IF R = {} THEN "taken"
    ELSE IF Cardinality(R) = 1 THEN CHOOSE c \in R : TRUE ELSE "several"

LEMMA StateOfTask ==
    /\ TaskState = [t \in Tasks |-> StateOf(t, pending, reports[t])]
    /\ \A t, P, R : t \in P => StateOf(t, P, R) = "waiting"
    /\ \A t, P : t \notin P => StateOf(t, P, {}) = "taken"
    /\ \A t, P, c : t \notin P => StateOf(t, P, {c}) = c
<1>1. \A c : Cardinality({c}) = 1 /\ (CHOOSE d \in {c} : TRUE) = c /\ {c} # {}
    BY FS_Singleton
<1> QED
    BY <1>1 DEF StateOf, TaskState

(* The backend sees each task handed out once and one conclusion reported  *)
(* for it, however many workers there are and however often a report is    *)
(* repeated or lost.                                                       *)
THEOREM TaskLifeImplemented == Spec => ImplementsTaskLife
<1>1. Init => Life!Init
    <2> SUFFICES ASSUME Init  PROVE TaskState = [t \in Tasks |-> "waiting"]
        BY DEF Life!Init
    <2> QED
        BY DEF Init, TaskState
<1>2. WorkerInv /\ WorkerInv' /\ [Next]_vars => [Life!Next]_TaskState
    <2> SUFFICES ASSUME WorkerInv, WorkerInv', [Next]_vars
                 PROVE  [Life!Next]_TaskState
        OBVIOUS
    <2>1. ASSUME UNCHANGED backendVars  PROVE UNCHANGED TaskState
        BY <2>1 DEF backendVars, TaskState
    <2> DEFINE state == [t \in Tasks |-> StateOf(t, pending, reports[t])]
    <2>2. TaskState = state /\ TaskState' = state'
        BY DEF TaskState, StateOf
    <2>3. ASSUME NEW t \in pending, pending' = pending \ {t}, UNCHANGED reports
          PROVE  Life!Next
        <3>1. t \in Tasks /\ reports[t] = {}
            BY DEF WorkerInv, TypeOK, TasksOK
        <3>2. state[t] = "waiting" /\ state'[t] = "taken"
            BY <2>3, <3>1, StateOfTask
        <3>3. \A u \in Tasks \ {t} :
                StateOf(u, pending', reports'[u]) = StateOf(u, pending, reports[u])
            BY <2>3 DEF StateOf
        <3>4. state' = [state EXCEPT ![t] = "taken"]
            BY <3>1, <3>2, <3>3
        <3> QED
            BY <2>2, <3>1, <3>2, <3>4 DEF Life!Next, Life!Take
    <2>4. ASSUME NEW w \in Workers, pc[w] = "report", Tell(w), UNCHANGED pending
          PROVE  Life!Next \/ UNCHANGED TaskState
        <3> DEFINE s == sub[w]
                   c == result[w]
        <3>1. /\ s \in Tasks /\ s \notin pending /\ c \in Conclusions /\ reports[s] \subseteq {c}
              /\ reports' = [reports EXCEPT ![s] = reports[s] \cup {c}]
            BY <2>4 DEF WorkerInv, TasksOK, Busy, Tell
        <3>2. /\ \A t \in Tasks \ {s} : reports'[t] = reports[t]
              /\ reports'[s] = {c}
            BY <3>1 DEF WorkerInv, TypeOK
        <3> HIDE DEF s, c
        <3>3. CASE reports[s] = {c}
            <4>1. \A t \in Tasks : reports'[t] = reports[t]
                BY <3>2, <3>3
            <4> QED
                BY <2>2, <2>4, <4>1
        <3>4. CASE reports[s] = {}
            <4>1. s \notin pending'
                BY <2>4, <3>1
            <4>2. state[s] = "taken" /\ state'[s] = c
                <5>1. StateOf(s, pending, reports[s]) = "taken"
                    BY <3>1, <3>4, StateOfTask
                <5>2. StateOf(s, pending', reports'[s]) = c
                    BY <3>1, <3>2, <4>1, StateOfTask
                <5> QED
                    BY <3>1, <5>1, <5>2
            <4>3. \A t \in Tasks \ {s} : state'[t] = state[t]
                BY <2>4, <3>2
            <4>4. state' = [state EXCEPT ![s] = c]
                BY <3>1, <4>2, <4>3
            <4> QED
                BY <2>2, <3>1, <4>2, <4>4 DEF Life!Next, Life!Report
        <3> QED
            BY <3>1, <3>3, <3>4
    <2>5. CASE Cancel \/ UNCHANGED vars
        BY <2>1, <2>5 DEF Cancel, vars
    <2>6. ASSUME NEW w \in Workers,
                 Tick(w) \/ Exit(w) \/ Work(w) \/ RetryReport(w) \/ Deadline(w)
          PROVE  UNCHANGED TaskState
        BY <2>1, <2>6 DEF Tick, Exit, Work, PrepareOk, PrepareFails, CompileOk, CompileFails,
            Judge, JudgeBlocks, RunDeferred, Return, RetryReport, Deadline
    <2>7. ASSUME NEW w \in Workers, Fetch(w)  PROVE [Life!Next]_TaskState
        BY <2>1, <2>3, <2>7 DEF Fetch, FetchNothing, FetchTask, backendVars
    <2>8. ASSUME NEW w \in Workers, ReportOk(w) \/ ReportRefused(w) \/ ReportFails(w)
          PROVE  [Life!Next]_TaskState
        <3>1. CASE UNCHANGED <<pending, reports>>
            BY <3>1 DEF TaskState
        <3>2. CASE pc[w] = "report" /\ Tell(w) /\ UNCHANGED pending
            BY <2>4, <3>2
        <3> QED
            BY <2>8, <3>1, <3>2 DEF ReportOk, ReportRefused, ReportFails
    <2> QED
        BY <2>5, <2>6, <2>7, <2>8 DEF Next, Report
<1> QED
    BY <1>1, <1>2, WorkerInvariant, PTL DEF Spec, ImplementsTaskLife, Life!Spec
=============================================================================

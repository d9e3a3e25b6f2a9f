------------------------------- MODULE Worker -------------------------------
(***************************************************************************)
(* The goroutines of Worker.spin (src/worker/worker.go): each takes a task *)
(* from the backend, locks the problem, compiles, judges, runs the         *)
(* deferred calls of work and reports the result, with a deadline on all   *)
(* of it.  PrepareThenLock is modelled by what ResourceManager shows of    *)
(* it, judgeOnDAG by what JudgeOnDag and Scoring show; the backend is      *)
(* modelled by how its answers are used.                                   *)
(***************************************************************************)
EXTENDS Naturals, Sequences, FiniteSets

CONSTANTS
    Workers,    \* goroutines running spin
    Tasks,      \* submissions the backend has
    Problems,
    ProblemOf,  \* ProblemOf[t]: the problem (id and version) of task t
    MaxRetries, \* retries of one report after its first attempt
    NoTask

ASSUME WorkerAssumption ==
    /\ IsFiniteSet(Workers)
    /\ ProblemOf \in [Tasks -> Problems]
    /\ MaxRetries \in Nat \ {0}
    /\ NoTask \notin Tasks

VARIABLES
    pending,    \* tasks the backend has not handed out
    reports,    \* reports[t]: the conclusions the backend was told
    pc,         \* where each worker is
    sub,        \* the task it works on
    result,     \* result.Conclusion; "none" stands for a nil result
    defers,     \* deferred calls of work, with their evaluated argument
    tries,      \* failed attempts of the running backoff.Retry
    ctxDone,    \* the context of the work is past its deadline or cancelled
    cancelled,  \* the context of the process is cancelled
    locks,      \* lock counts of the resource manager
    artifacts,  \* tasks whose compiled program is in the file store
    abandoned,  \* history: tasks whose compilation has failed
    refused     \* history: tasks whose report the backend has refused

backendVars == <<pending, reports, refused>>
storeVars == <<locks, artifacts, abandoned>>
vars == <<backendVars, pc, sub, result, defers, tries, ctxDone, cancelled, storeVars>>

Conclusions == {"accepted", "rejected", "compilation error", "internal error"}

Unlock(p) == [call |-> "unlock", arg |-> p]
RemoveFiles(t) == [call |-> "RemoveFiles", arg |-> t]

Init ==
    /\ pending = Tasks
    /\ reports = [t \in Tasks |-> {}]
    /\ pc = [w \in Workers |-> "select"]
    /\ sub = [w \in Workers |-> NoTask]
    /\ result = [w \in Workers |-> "none"]
    /\ defers = [w \in Workers |-> <<>>]
    /\ tries = [w \in Workers |-> 0]
    /\ ctxDone = [w \in Workers |-> FALSE]
    /\ cancelled = FALSE
    /\ locks = [p \in Problems |-> 0]
    /\ artifacts = {}
    /\ abandoned = {}
    /\ refused = {}

Goto(w, from, to) == pc[w] = from /\ pc' = [pc EXCEPT ![w] = to]

-----------------------------------------------------------------------------
(* The select of spin.  When the context is cancelled and the ticker has   *)
(* fired, it takes either branch.                                          *)

Tick(w) ==
    /\ Goto(w, "select", "fetch")
    /\ ctxDone' = [ctxDone EXCEPT ![w] = cancelled]
    /\ UNCHANGED <<backendVars, sub, result, defers, tries, cancelled, storeVars>>

Exit(w) ==
    /\ cancelled
    /\ Goto(w, "select", "exited")
    /\ UNCHANGED <<backendVars, sub, result, defers, tries, ctxDone, cancelled, storeVars>>

-----------------------------------------------------------------------------
(* fetch *)

FetchTask(w, t) ==
    /\ Goto(w, "fetch", "prepare")
    /\ ~ctxDone[w] /\ t \in pending
    /\ pending' = pending \ {t}
    /\ sub' = [sub EXCEPT ![w] = t]
    /\ result' = [result EXCEPT ![w] = "invalid"]
    /\ UNCHANGED <<reports, refused, defers, tries, ctxDone, cancelled, storeVars>>

(* No task, a status other than 2xx, an empty answer or an error, which    *)
(* may also lose a task that the backend has handed out.                   *)
FetchNothing(w) ==
    /\ Goto(w, "fetch", "select")
    /\ \/ UNCHANGED pending
       \/ ~ctxDone[w] /\ \E t \in pending : pending' = pending \ {t}
    /\ UNCHANGED <<reports, refused, sub, result, defers, tries, ctxDone, cancelled, storeVars>>

-----------------------------------------------------------------------------
(* work *)

Conclude(w, c) == result' = [result EXCEPT ![w] = c]
Defer(w, d) == defers' = [defers EXCEPT ![w] = Append(@, d)]

(* Mutant: the unlocking is not deferred. *)
PrepareOkNoDefer(w) ==
    /\ Goto(w, "prepare", "compile")
    /\ locks' = [locks EXCEPT ![ProblemOf[sub[w]]] = @ + 1]
    /\ UNCHANGED <<backendVars, sub, result, defers, tries, ctxDone, cancelled, artifacts, abandoned>>

(* removeOutputFiles is deferred here as well; its argument is evaluated   *)
(* now, when the slice is empty, so that the call does nothing.            *)
PrepareOk(w) ==
    /\ Goto(w, "prepare", "compile")
    /\ locks' = [locks EXCEPT ![ProblemOf[sub[w]]] = @ + 1]
    /\ Defer(w, Unlock(ProblemOf[sub[w]]))
    /\ UNCHANGED <<backendVars, sub, result, tries, ctxDone, cancelled, artifacts, abandoned>>

PrepareFails(w) ==
    /\ Goto(w, "prepare", "return")
    /\ Conclude(w, "internal error")
    /\ UNCHANGED <<backendVars, sub, defers, tries, ctxDone, cancelled, storeVars>>

CompileOk(w) ==
    /\ Goto(w, "compile", "judge")
    /\ artifacts' = artifacts \cup {sub[w]}
    /\ Defer(w, RemoveFiles(sub[w]))
    /\ UNCHANGED <<backendVars, sub, result, tries, ctxDone, cancelled, locks, abandoned>>

(* A compiler that exits with an error, or a failing step of Compile.  A   *)
(* file that was cached nevertheless is left behind: after a compile error *)
(* nobody removes it, and after a failed seek its id is not returned.      *)
CompileFails(w, c) ==
    /\ Goto(w, "compile", "return")
    /\ c \in {"compilation error", "internal error"}
    /\ Conclude(w, c)
    /\ \/ UNCHANGED artifacts
       \/ artifacts' = artifacts \cup {sub[w]}
    /\ abandoned' = abandoned \cup {sub[w]}
    /\ UNCHANGED <<backendVars, sub, defers, tries, ctxDone, cancelled, locks>>

(* Mutant: an error of the judging leaves work before the removal of the   *)
(* compiled files is deferred.                                             *)
JudgeSkipsRemoval(w, c) ==
    /\ Goto(w, "judge", "return")
    /\ c \in {"accepted", "rejected", "internal error"}
    /\ Conclude(w, c)
    /\ defers' = IF c = "internal error"
                 THEN [defers EXCEPT ![w] = SubSeq(@, 1, Len(@) - 1)] ELSE defers
    /\ UNCHANGED <<backendVars, sub, tries, ctxDone, cancelled, storeVars>>

Judge(w, c) ==
    /\ Goto(w, "judge", "return")
    /\ c \in {"accepted", "rejected", "internal error"}
    /\ Conclude(w, c)
    /\ UNCHANGED <<backendVars, sub, defers, tries, ctxDone, cancelled, storeVars>>

(* Once its context is done, the uploader leaves, and judgeOnDAG sends to  *)
(* a full channel that nobody reads: it never returns.                     *)
JudgeBlocks(w) ==
    /\ Goto(w, "judge", "blocked")
    /\ ctxDone[w]
    /\ UNCHANGED <<backendVars, sub, result, defers, tries, ctxDone, cancelled, storeVars>>

(* The last deferred call of work. *)
RunDeferred(w) ==
    /\ pc[w] = "return" /\ defers[w] # <<>>
    /\ LET d == defers[w][Len(defers[w])] IN
         IF d.call = "unlock"
         THEN locks' = [locks EXCEPT ![d.arg] = @ - 1] /\ UNCHANGED artifacts
         ELSE artifacts' = artifacts \ {d.arg} /\ UNCHANGED locks
    /\ defers' = [defers EXCEPT ![w] = SubSeq(@, 1, Len(@) - 1)]
    /\ UNCHANGED <<backendVars, pc, sub, result, tries, ctxDone, cancelled, abandoned>>

(* Mutant: an internal error is only logged. *)
ReturnOnlyVerdicts(w) ==
    /\ defers[w] = <<>>
    /\ Goto(w, "return", IF result[w] = "internal error" THEN "select" ELSE "report")
    /\ UNCHANGED <<backendVars, sub, result, defers, tries, ctxDone, cancelled, storeVars>>

Return(w) ==
    /\ defers[w] = <<>>
    /\ Goto(w, "return", "report")
    /\ UNCHANGED <<backendVars, sub, result, defers, tries, ctxDone, cancelled, storeVars>>

-----------------------------------------------------------------------------
(* The report *)

Tell(w) == reports' = [reports EXCEPT ![sub[w]] = @ \cup {result[w]}]

EndWork(w) ==
    /\ pc' = [pc EXCEPT ![w] = "select"]
    /\ sub' = [sub EXCEPT ![w] = NoTask]
    /\ result' = [result EXCEPT ![w] = "none"]
    /\ tries' = [tries EXCEPT ![w] = 0]

ReportOk(w) ==
    /\ pc[w] = "report" /\ ~ctxDone[w]
    /\ Tell(w)
    /\ EndWork(w)
    /\ UNCHANGED <<pending, refused, defers, ctxDone, cancelled, storeVars>>

(* The backend answers with a status other than 2xx.  The response is      *)
(* ignored, so that the refused report counts as told.                     *)
ReportRefused(w) ==
    /\ pc[w] = "report" /\ ~ctxDone[w]
    /\ refused' = refused \cup {sub[w]}
    /\ EndWork(w)
    /\ UNCHANGED <<pending, reports, defers, ctxDone, cancelled, storeVars>>

PauseAndRetry(w) ==
    /\ Goto(w, "report", "backoff")
    /\ tries' = [tries EXCEPT ![w] = @ + 1]
    /\ UNCHANGED <<sub, result>>

(* Mutant: after a failed attempt an internal error is reported. *)
ReportFailsDegrades(w) ==
    /\ pc[w] = "report"
    /\ UNCHANGED reports \/ (~ctxDone[w] /\ Tell(w))
    /\ \/ /\ tries[w] < MaxRetries /\ ~ctxDone[w]
          /\ Goto(w, "report", "backoff")
          /\ tries' = [tries EXCEPT ![w] = @ + 1]
          /\ Conclude(w, "internal error")
          /\ UNCHANGED sub
       \/ (tries[w] = MaxRetries \/ ctxDone[w]) /\ EndWork(w)
    /\ UNCHANGED <<pending, refused, defers, ctxDone, cancelled, storeVars>>

(* Mutant: the report is repeated without end. *)
ReportFailsForever(w) ==
    /\ Goto(w, "report", "backoff")
    /\ UNCHANGED reports \/ (~ctxDone[w] /\ Tell(w))
    /\ UNCHANGED <<pending, refused, sub, result, defers, tries, ctxDone, cancelled, storeVars>>

(* CompleteJudgeTask fails; the report may have arrived all the same. *)
ReportFails(w) ==
    /\ pc[w] = "report"
    /\ UNCHANGED reports \/ (~ctxDone[w] /\ Tell(w))
    /\ \/ tries[w] < MaxRetries /\ ~ctxDone[w] /\ PauseAndRetry(w)
       \/ (tries[w] = MaxRetries \/ ctxDone[w]) /\ EndWork(w)
    /\ UNCHANGED <<pending, refused, defers, ctxDone, cancelled, storeVars>>

RetryReport(w) ==
    /\ pc[w] = "backoff"
    /\ \/ Goto(w, "backoff", "report") /\ UNCHANGED <<sub, result, tries>>
       \/ ctxDone[w] /\ EndWork(w)
    /\ UNCHANGED <<backendVars, defers, ctxDone, cancelled, storeVars>>

-----------------------------------------------------------------------------
(* Time and shutdown *)

Deadline(w) ==
    /\ pc[w] \notin {"select", "exited"} /\ ~ctxDone[w]
    /\ ctxDone' = [ctxDone EXCEPT ![w] = TRUE]
    /\ UNCHANGED <<backendVars, pc, sub, result, defers, tries, cancelled, storeVars>>

Cancel ==
    /\ ~cancelled
    /\ cancelled' = TRUE
    /\ ctxDone' = [w \in Workers |-> TRUE]
    /\ UNCHANGED <<backendVars, pc, sub, result, defers, tries, storeVars>>

-----------------------------------------------------------------------------

Fetch(w) == FetchNothing(w) \/ \E t \in Tasks : FetchTask(w, t)

Work(w) ==
    \/ PrepareOk(w) \/ PrepareFails(w) \/ CompileOk(w)
    \/ \E c \in Conclusions : CompileFails(w, c) \/ Judge(w, c)
    \/ JudgeBlocks(w) \/ RunDeferred(w) \/ Return(w)

Report(w) == ReportOk(w) \/ ReportRefused(w) \/ ReportFails(w) \/ RetryReport(w)

Next ==
    \/ \E w \in Workers : \/ Tick(w) \/ Exit(w)
                          \/ Fetch(w) \/ Work(w) \/ Report(w)
                          \/ Deadline(w)
    \/ Cancel

Spec == Init /\ [][Next]_vars

(* Goroutines are scheduled and the calls of a work return: they take the  *)
(* context or are local, but for judgeOnDAG, which returns as long as the  *)
(* uploader reads (ReturnsUnlessStuck in JudgeOnDag) and may block for     *)
(* ever after that (JudgeBlocks).  The select between a cancelled context  *)
(* and a ticker that fires once a second does not take the ticker for      *)
(* ever.                                                                   *)
Fairness == \A w \in Workers :
    /\ WF_vars(Fetch(w) \/ Work(w) \/ Report(w))
    /\ SF_vars(Exit(w))

FairSpec == Spec /\ Fairness

-----------------------------------------------------------------------------
(* Properties *)

Deferred(w) == {defers[w][i] : i \in DOMAIN defers[w]}
Working(w) == pc[w] \in {"compile", "judge", "blocked", "return"}

TypeOK ==
    /\ pending \subseteq Tasks
    /\ reports \in [Tasks -> SUBSET Conclusions]
    /\ pc \in [Workers -> {"select", "fetch", "prepare", "compile", "judge",
                           "blocked", "return", "report", "backoff", "exited"}]
    /\ sub \in [Workers -> Tasks \cup {NoTask}]
    /\ result \in [Workers -> Conclusions \cup {"none", "invalid"}]
    /\ defers \in [Workers ->
         Seq({Unlock(p) : p \in Problems} \cup {RemoveFiles(t) : t \in Tasks})]
    /\ tries \in [Workers -> 0..MaxRetries]
    /\ ctxDone \in [Workers -> BOOLEAN] /\ cancelled \in BOOLEAN
    /\ locks \in [Problems -> Nat]
    /\ artifacts \subseteq Tasks /\ abandoned \subseteq Tasks /\ refused \subseteq Tasks
    /\ \A w \in Workers : pc[w] \in {"report", "backoff"} => result[w] \in Conclusions

(* Each work that has locked a problem unlocks it exactly once, whichever  *)
(* way it returns, and before the result is reported.                      *)
LocksBalanced ==
    /\ TypeOK
    /\ \A p \in Problems : locks[p] = Cardinality({w \in Workers : Unlock(p) \in Deferred(w)})
    /\ \A w \in Workers :
        /\ ~Working(w) => defers[w] = <<>>
        /\ pc[w] \in {"compile", "judge", "blocked"} => locks[ProblemOf[sub[w]]] > 0

(* A compiled program stays while its cases are judged, and whatever way   *)
(* the judging ends its removal is still to come: only a compilation that  *)
(* has failed leaves a program that nobody will remove.                    *)
ArtifactsRemoved ==
    /\ \A w \in Workers : pc[w] \in {"judge", "blocked"} => sub[w] \in artifacts
    /\ \A t \in artifacts \ abandoned :
        \E w \in Workers : sub[w] = t /\ RemoveFiles(t) \in Deferred(w)

(* The backend sees each task taken once and one conclusion reported,      *)
(* however often a report is repeated.                                     *)
TaskState == [t \in Tasks |->
    IF t \in pending THEN "waiting"
    ELSE IF reports[t] = {} THEN "taken"
    ELSE IF Cardinality(reports[t]) = 1 THEN CHOOSE c \in reports[t] : TRUE
    ELSE "several"]

Life == INSTANCE TaskLife WITH task <- TaskState
ImplementsTaskLife == Life!Spec

(* A task that was fetched is reported, unless the deadline passes, the    *)
(* process is cancelled, every attempt to report fails, or the backend     *)
(* refuses the report, which spin does not look at.                        *)
FetchedIsReported ==
    \A w \in Workers : \A t \in Tasks :
        sub[w] = t ~> (reports[t] # {} \/ t \in refused \/ ctxDone[w] \/ tries[w] = MaxRetries)

(* Once the process is cancelled, every worker leaves its loop with its    *)
(* deferred calls done, but for one that blocks in judgeOnDAG.             *)
StopsAfterCancel ==
    cancelled ~> [](\A w \in Workers : \/ pc[w] = "exited" /\ defers[w] = <<>>
                                       \/ pc[w] = "blocked")

(* "user should call the unlock function in the return values once the     *)
(* problem is no longer needed" (src/resource/manager.go:245-247): a       *)
(* locked problem is unlocked at some time.  The code does not keep this,  *)
(* see JudgeBlocks.                                                        *)
ProblemsUnlocked == \A p \in Problems : locks[p] > 0 ~> locks[p] = 0

-----------------------------------------------------------------------------
(* The inductive invariant behind the theorems of WorkerProofs.            *)

Busy(w) == pc[w] \in {"prepare", "compile", "judge", "blocked", "return", "report", "backoff"}

(* The deferred calls of a work are a prefix of these two.                 *)
DefersOK == \A w \in Workers :
    LET unlock == Unlock(ProblemOf[sub[w]])
        remove == RemoveFiles(sub[w])
    IN  /\ pc[w] = "compile" => defers[w] = <<unlock>>
        /\ pc[w] \in {"judge", "blocked"} => defers[w] = <<unlock, remove>>
        /\ pc[w] = "return" => defers[w] \in {<<>>, <<unlock>>, <<unlock, remove>>}
        /\ ~Working(w) => defers[w] = <<>>

Holders(p) == {w \in Workers : Unlock(p) \in Deferred(w)}
LocksHeld == \A p \in Problems : locks[p] = Cardinality(Holders(p))

(* A task is worked on by one worker, and only once; a report is repeated  *)
(* with the same conclusion.                                               *)
TasksOK ==
    /\ \A w \in Workers :
        /\ Busy(w) <=> sub[w] \in Tasks
        /\ Busy(w) =>
            /\ sub[w] \notin pending
            /\ reports[sub[w]] \subseteq
                   (IF pc[w] \in {"report", "backoff"} THEN {result[w]} ELSE {})
        /\ pc[w] \in {"return", "report", "backoff"} => result[w] \in Conclusions
    /\ \A v, w \in Workers : Busy(v) /\ sub[v] = sub[w] => v = w
    /\ \A t \in pending : reports[t] = {}
    /\ \A t \in Tasks : \A c, d \in reports[t] : c = d

(* A compiled program that nobody will remove is one of a failed           *)
(* compilation.                                                            *)
ArtifactsOK ==
    /\ artifacts \cap pending = {}
    /\ \A w \in Workers :
        /\ pc[w] \in {"prepare", "compile"} => sub[w] \notin artifacts
        /\ pc[w] \in {"judge", "blocked"} => sub[w] \in artifacts
    /\ \A t \in artifacts \ abandoned :
        \E w \in Workers : sub[w] = t /\ RemoveFiles(t) \in Deferred(w)

WorkerInv == TypeOK /\ DefersOK /\ LocksHeld /\ TasksOK /\ ArtifactsOK
=============================================================================

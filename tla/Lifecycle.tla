------------------------------ MODULE Lifecycle ------------------------------
(***************************************************************************)
(* The life of the process (src/cmd/proctor/main.go) and of its connection *)
(* (src/external/backend/backend_client.go): connect, start the workers,   *)
(* wait for a signal or for ping to cancel the context, report the exit,   *)
(* shut the sandbox down and remove the files, while workers and auth      *)
(* manager go on until they see the context.  A worker is reduced to the   *)
(* steps that meet the shutdown; module Worker has the others.             *)
(***************************************************************************)
EXTENDS Auth, Sequences, SequencesExt

CONSTANTS
    Workers,
    ConnectRetries, \* retries of connectBackend (8)
    PingRetries     \* retries of one ping (5)

ASSUME LifecycleAssumption == {ConnectRetries, PingRetries} \subseteq Nat

VARIABLES
    phase,          \* where main is
    attempts,       \* failed attempts to connect
    registered,     \* the ids that the backend has given, in this order
    renamed,        \* history: ids that a renewal has put in place of another
    interrupted,    \* main has left its select because of a signal
    removed,        \* fsCleanUp has removed the files
    exits,          \* the ids whose exit was reported to the backend
    ping,           \* where ping is
    misses,         \* failed attempts of the running ping
    work,           \* where each worker is
    spoilt          \* workers that have read a file after fsCleanUp

mainVars == <<phase, attempts, registered, interrupted, removed, exits>>
workVars == <<work, spoilt>>
vars == <<authVars, renamed, ctxDone, mainVars, ping, misses, workVars>>

Init ==
    /\ AuthInit
    /\ ctxDone = FALSE
    /\ phase = "connect"
    /\ attempts = 0
    /\ registered = <<>>
    /\ renamed = {}
    /\ interrupted = FALSE
    /\ removed = FALSE
    /\ exits = {}
    /\ ping = "off"
    /\ misses = 0
    /\ work = [w \in Workers |-> "off"]
    /\ spoilt = {}

Goto(from, to) == phase = from /\ phase' = to
MainVarsBut(v) == UNCHANGED <<attempts, registered, renamed, interrupted, removed, exits, v>>

-----------------------------------------------------------------------------
(* connectBackend.  An id that login has got is lost when a later step of  *)
(* NewBackendClient fails: the next attempt registers again.               *)

NewIds == {Len(registered) + 1} \cap Instances

Connect(i, lifetime) ==
    /\ Goto("connect", "start")
    /\ Login(i, lifetime)
    /\ registered' = Append(registered, i)
    /\ attempts' = 0
    /\ ping' = "select"
    /\ UNCHANGED <<renamed, ctxDone, interrupted, removed, exits, misses, workVars>>

ConnectFails(ids) ==
    /\ Goto("connect", IF attempts < ConnectRetries THEN "connect" ELSE "ended")
    /\ attempts' = attempts + 1
    /\ registered' = registered \o ids
    /\ UNCHANGED <<authVars, renamed, ctxDone, interrupted, removed, exits, ping, misses, workVars>>

-----------------------------------------------------------------------------
(* main *)

StartWorkers ==
    /\ Goto("start", "notify")
    /\ work' = [w \in Workers |-> "select"]
    /\ MainVarsBut(<<authVars, ctxDone, ping, misses, spoilt>>)

(* No file store, or one of a type that main does not expect. *)
StartFails ==
    /\ Goto("start", "ended")
    /\ MainVarsBut(<<authVars, ctxDone, ping, misses, workVars>>)

Notify ==
    /\ Goto("notify", "wait")
    /\ MainVarsBut(<<authVars, ctxDone, ping, misses, workVars>>)

(* Before signal.Notify, and again after signal.Reset, a signal ends the   *)
(* process.                                                                *)
Kill ==
    /\ phase \in {"connect", "start", "notify"} \/ (interrupted /\ phase # "ended")
    /\ phase' = "ended"
    /\ MainVarsBut(<<authVars, ctxDone, ping, misses, workVars>>)

(* Mutant: the context is not cancelled after a signal. *)
TakeSignalOnly ==
    /\ Goto("wait", "exit")
    /\ interrupted' = TRUE
    /\ UNCHANGED <<authVars, renamed, ctxDone, attempts, registered, removed, exits, ping, misses, workVars>>

TakeSignal ==
    /\ Goto("wait", "exit")
    /\ interrupted' = TRUE
    /\ ctxDone' = TRUE
    /\ UNCHANGED <<authVars, renamed, attempts, registered, removed, exits, ping, misses, workVars>>

(* Mutant: main waits for a signal only. *)
SeeContextNever == FALSE /\ UNCHANGED vars

SeeContext ==
    /\ ctxDone
    /\ Goto("wait", "exit")
    /\ MainVarsBut(<<authVars, ctxDone, ping, misses, workVars>>)

(* Mutant: the exit of the first registration is reported. *)
ReportFirst(arrives) ==
    /\ Goto("exit", "shutdown")
    /\ exits' = IF arrives THEN exits \cup {Head(registered)} ELSE exits
    /\ UNCHANGED <<authVars, renamed, ctxDone, attempts, registered, interrupted, removed, ping, misses, workVars>>

(* A report that fails or times out may have arrived. *)
ReportExit(arrives) ==
    /\ Goto("exit", "shutdown")
    /\ exits' = IF arrives THEN exits \cup {instanceID} ELSE exits
    /\ UNCHANGED <<authVars, renamed, ctxDone, attempts, registered, interrupted, removed, ping, misses, workVars>>

(* work.Shutdown waits for the running executions. *)
Shutdown ==
    /\ \A w \in Workers : work[w] # "execute"
    /\ Goto("shutdown", "clean")
    /\ MainVarsBut(<<authVars, ctxDone, ping, misses, workVars>>)

CleanUp ==
    /\ Goto("clean", "return")
    /\ removed' = TRUE
    /\ UNCHANGED <<authVars, renamed, ctxDone, attempts, registered, interrupted, exits, ping, misses, workVars>>

(* fsCleanUp is nil when a directory is configured. *)
CleanUpPanics ==
    /\ Goto("clean", "ended")
    /\ MainVarsBut(<<authVars, ctxDone, ping, misses, workVars>>)

MainReturns ==
    /\ Goto("return", "ended")
    /\ MainVarsBut(<<authVars, ctxDone, ping, misses, workVars>>)

-----------------------------------------------------------------------------
(* client.ping.  With the context done, a ping fails at once and its       *)
(* select may take the tick or the context.                                *)

StartPing ==
    /\ ping = "select"
    /\ ping' = "try"
    /\ UNCHANGED <<misses, ctxDone>>

PingOk ==
    /\ ping = "try"
    /\ ping' = "select" /\ misses' = 0
    /\ UNCHANGED ctxDone

PingFails ==
    /\ ping = "try"
    /\ IF misses < PingRetries /\ ~ctxDone
       THEN misses' = misses + 1 /\ UNCHANGED <<ping, ctxDone>>
       ELSE ping' = "select" /\ misses' = 0 /\ ctxDone' = TRUE

StopPing ==
    /\ ping = "select" /\ ctxDone
    /\ ping' = "stopped"
    /\ UNCHANGED <<misses, ctxDone>>

Ping == StartPing \/ PingOk \/ PingFails \/ StopPing

-----------------------------------------------------------------------------
(* The workers *)

Proceed(w, from, to) ==
    /\ phase # "ended"
    /\ work[w] = from
    /\ work' = [work EXCEPT ![w] = to]
    /\ UNCHANGED <<authVars, renamed, ctxDone, mainVars, ping, misses>>

ReadFiles(w) == spoilt' = IF removed THEN spoilt \cup {w} ELSE spoilt

(* Mutant: the calls of a work do not take the context of the process.     *)
FetchDetached(w) == Proceed(w, "select", "judge") /\ spoilt' = spoilt \ {w}

Fetch(w) ==
    /\ ~ctxDone
    /\ Proceed(w, "select", "judge")
    /\ spoilt' = spoilt \ {w}

Exit(w) == ctxDone /\ Proceed(w, "select", "exited") /\ UNCHANGED spoilt

(* The sandbox takes no more work once it is shut down. *)
Execute(w) ==
    /\ phase \notin {"shutdown", "clean", "return"}
    /\ Proceed(w, "judge", "execute")
    /\ UNCHANGED spoilt

CompareOutput(w) == Proceed(w, "execute", "judge") /\ UNCHANGED spoilt

(* A verdict is reached, or the error of a missing file. *)
Conclude(w) == Proceed(w, "judge", "report") /\ ReadFiles(w)

SendReport(w) == ~ctxDone /\ Proceed(w, "report", "sent") /\ UNCHANGED spoilt

SkipReport(w) == ctxDone /\ Proceed(w, "report", "select") /\ UNCHANGED spoilt

(* The call ends, whether the report has arrived or not. *)
EndReport(w) == Proceed(w, "sent", "select") /\ UNCHANGED spoilt

Worker(w) ==
    \/ Fetch(w) \/ Exit(w) \/ Execute(w) \/ CompareOutput(w) \/ Conclude(w)
    \/ SendReport(w) \/ SkipReport(w) \/ EndReport(w)

-----------------------------------------------------------------------------

Main ==
    \/ StartWorkers \/ Notify \/ SeeContext
    \/ \E arrives \in BOOLEAN : ReportExit(arrives)
    \/ Shutdown \/ CleanUp \/ CleanUpPanics \/ MainReturns

Connecting ==
    \/ \E i \in NewIds, l \in Lifetimes \cup {Never} : Connect(i, l)
    \/ ConnectFails(<<>>)
    \/ \E i \in NewIds : ConnectFails(<<i>>)

(* The clock stops with the context: nothing depends on it then. *)
Client ==
    /\ phase # "ended"
    /\ \/ PassTime /\ ~ctxDone /\ UNCHANGED <<ctxDone, ping, misses>>
       \/ scheduleRefresh /\ UNCHANGED <<ctxDone, ping, misses>>
       \/ Ping /\ UNCHANGED authVars
    /\ renamed' = IF instanceID' = instanceID THEN renamed ELSE renamed \cup {instanceID'}
    /\ UNCHANGED <<mainVars, workVars>>

Next ==
    \/ Connecting \/ Main \/ StartFails \/ Kill \/ TakeSignal
    \/ Client
    \/ \E w \in Workers : Worker(w)

Spec == Init /\ [][Next]_vars

(* main is scheduled.  Of what shutdown calls, ReportExit has a deadline   *)
(* of three seconds, work.Shutdown waits for the running executions, each  *)
(* of which has a time limit, and fsCleanUp is local.                      *)
Fairness ==
    /\ WF_vars(Main)
    /\ \A w \in Workers : WF_vars(CompareOutput(w))

FairSpec == Spec /\ Fairness

-----------------------------------------------------------------------------
(* Properties *)

TypeOK ==
    /\ phase \in {"connect", "start", "notify", "wait", "exit", "shutdown", "clean",
                  "return", "ended"}
    /\ instanceID \in Instances \cup {NoInstance}
    /\ refresher \in {"off", "select", "renew", "pause", "stopped"}
    /\ work \in [Workers -> {"off", "select", "judge", "execute", "report", "sent", "exited"}]
    /\ spoilt \subseteq Workers /\ renamed \subseteq Instances

(* One exit is reported at most: that of the last registration, never of   *)
(* one that connectBackend has abandoned, or of an id that a renewal has   *)
(* put in its place.  A renewal does so only where InsecureJwt is set.     *)
ExitNamesInstance ==
    /\ TypeOK
    /\ exits = {} \/ \E i \in {Last(registered)} \cup renamed : exits = {i}
    /\ renamed # {} => InsecureJwt

(* "unmatched instanceID, expecting %s, got: %s"                           *)
(* (src/external/backend/auth.go:150-153): a token that names another      *)
(* instance is refused.  With InsecureJwt the error is dropped, and the    *)
(* client goes on as the other instance.                                   *)
InstanceKept == [][instanceID # NoInstance => instanceID' = instanceID]_vars

(* Once the exit is reported no call to fetch a task or to report a result *)
(* is started, although nobody waits for the workers.                      *)
QuietAfterExit ==
    [][exits # {} => \A w \in Workers :
        /\ work[w] = "select" => work'[w] \in {"select", "exited"}
        /\ work'[w] = "sent" => work[w] = "sent"]_vars

(* A verdict that was reached after the files were removed is never sent,  *)
(* although main does not wait for the workers.                            *)
VerdictsBeforeCleanUp == \A w \in spoilt : work[w] # "sent"

(* Once the context is cancelled, by a signal or by ping, the process ends. *)
ShutdownEnds == ctxDone ~> (phase = "ended")

-----------------------------------------------------------------------------
(* The inductive invariant behind the theorems of LifecycleProofs.         *)

(* The client of main is the last that was registered, or was renamed.     *)
InstanceOK ==
    /\ registered \in Seq(Instances)
    /\ phase = "connect" => instanceID = NoInstance /\ refresher = "off"
    /\ phase \notin {"connect", "ended"} => instanceID # NoInstance
    /\ instanceID # NoInstance => instanceID \in {Last(registered)} \cup renamed
    /\ exits = {} \/ \E i \in {Last(registered)} \cup renamed : exits = {i}
    /\ renamed # {} => InsecureJwt

(* The files are removed, and the exit is reported, after the context is   *)
(* done: from then on no worker leaves its select or sends a report.       *)
ShutdownOK ==
    /\ phase \in {"exit", "shutdown", "clean", "return"} \/ removed \/ exits # {} => ctxDone
    /\ exits # {} => phase \in {"shutdown", "clean", "return", "ended"}
    /\ \A w \in spoilt : ctxDone /\ work[w] \in {"report", "select", "exited"}

LifecycleInv == TypeOK /\ AuthTypeOK /\ TicksHandled /\ InstanceOK /\ ShutdownOK
=============================================================================

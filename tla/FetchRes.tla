------------------------------ MODULE FetchRes ------------------------------
(***************************************************************************)
(* One call of Manager.fetchRes (src/resource/manager.go), goroutine by    *)
(* goroutine: the caller feeds the resource keys to a pool of fetchers in  *)
(* an errgroup, a receiver collects the keys that were saved, and the      *)
(* caller compares the two numbers.  The first fetcher that fails cancels  *)
(* the context of the group; the context of the submission may be          *)
(* cancelled at any time.                                                  *)
(***************************************************************************)
EXTENDS Naturals, Sequences, FiniteSets

CONSTANTS
    Keys,       \* the keys collected from the problem
    Leftovers,  \* what earlier calls may have left in its directory
    Fetchers,   \* the goroutines of the errgroup ("concurrency" many)
    ResCap,     \* capacity of resChan
    MaxRetries, \* retries of one transfer after its first attempt
    NoKey       \* no key is being fetched

ASSUME FetchAssumption ==
    /\ IsFiniteSet(Keys) /\ IsFiniteSet(Fetchers) /\ Fetchers # {}
    /\ Leftovers \subseteq {"full", "partial"}
    /\ ResCap \in Nat \ {0} /\ MaxRetries \in Nat \ {0}
    /\ NoKey \notin Keys

VARIABLES
    file,       \* file[k]: the file of resource k on disk
    unsent,     \* keys the caller has not yet put into keyChan
    keyChan,    \* keys in keyChan (its capacity is the number of keys)
    keysClosed, \* keyChan is closed
    resChan,    \* keys in resChan
    resClosed,  \* resChan is closed
    results,    \* what the receiver has appended
    received,   \* the receiver has signalled finRecv
    parentDone, \* the context given to fetchRes is done
    groupDone,  \* a fetcher failed and the errgroup cancelled its context
    main,       \* where the caller is
    pc,         \* where each fetcher is
    cur,        \* the key each fetcher works on
    tries       \* failed attempts of its backoff.Retry

callerVars == <<unsent, keysClosed, resClosed, main>>
recvVars == <<resChan, results, received>>
ctxVars == <<parentDone, groupDone>>
fetcherVars == <<pc, cur, tries>>
vars == <<file, keyChan, callerVars, recvVars, ctxVars, fetcherVars>>

\* "remnant": cut short in this call, and its rollback failed to remove it;
\* "partial": truncated before this call
FileStates == {"absent", "writing", "remnant", "partial", "full"}
Existing == {"full", "partial", "remnant"}  \* on disk and closed
MainStates == {"send", "wait", "drain", "ok", "failed"}
PcStates == {"select", "get", "open", "copy", "report", "backoff", "done", "failed"}

Done == parentDone \/ groupDone     \* ctx.Done() of the group's context
Running == main \notin {"ok", "failed"}

Init ==
    /\ file \in [Keys -> {"absent"} \cup Leftovers]
    /\ unsent = Keys
    /\ keyChan = {}
    /\ keysClosed = FALSE
    /\ resChan = <<>>
    /\ resClosed = FALSE
    /\ results = <<>>
    /\ received = FALSE
    /\ parentDone = FALSE
    /\ groupDone = FALSE
    /\ main = "send"
    /\ pc = [f \in Fetchers |-> "select"]
    /\ cur = [f \in Fetchers |-> NoKey]
    /\ tries = [f \in Fetchers |-> 0]

-----------------------------------------------------------------------------
(* The caller *)

SendKey(k) ==
    /\ main = "send"
    /\ k \in unsent
    /\ unsent' = unsent \ {k}
    /\ keyChan' = keyChan \cup {k}
    /\ UNCHANGED <<file, keysClosed, resClosed, main, recvVars, ctxVars, fetcherVars>>

CloseKeys ==
    /\ main = "send"
    /\ unsent = {}
    /\ keysClosed' = TRUE
    /\ main' = "wait"
    /\ UNCHANGED <<file, keyChan, unsent, resClosed, recvVars, ctxVars, fetcherVars>>

(* Mutant: resChan is closed without waiting for the group. *)
CloseResultsEarly ==
    /\ main = "wait"
    /\ resClosed' = TRUE
    /\ main' = "drain"
    /\ UNCHANGED <<file, keyChan, unsent, keysClosed, recvVars, ctxVars, fetcherVars>>

(* group.Wait() returns; close(resChan) *)
CloseResults ==
    /\ main = "wait"
    /\ \A f \in Fetchers : pc[f] \in {"done", "failed"}
    /\ resClosed' = TRUE
    /\ main' = "drain"
    /\ UNCHANGED <<file, keyChan, unsent, keysClosed, recvVars, ctxVars, fetcherVars>>

(* Mutant: the number of results is not compared with the number of keys. *)
CheckErrorOnly ==
    /\ main = "drain"
    /\ received
    /\ main' = IF groupDone THEN "failed" ELSE "ok"
    /\ UNCHANGED <<file, keyChan, unsent, keysClosed, resClosed, recvVars, ctxVars, fetcherVars>>

(* <-finRecv, then the error of the group and the count of the results. *)
Check ==
    /\ main = "drain"
    /\ received
    /\ main' = IF ~groupDone /\ Len(results) = Cardinality(Keys) THEN "ok" ELSE "failed"
    /\ UNCHANGED <<file, keyChan, unsent, keysClosed, resClosed, recvVars, ctxVars, fetcherVars>>

-----------------------------------------------------------------------------
(* The receiver *)

Receive ==
    /\ resChan # <<>>
    /\ results' = Append(results, Head(resChan))
    /\ resChan' = Tail(resChan)
    /\ UNCHANGED <<file, keyChan, callerVars, received, ctxVars, fetcherVars>>

FinishReceive ==
    /\ resChan = <<>>
    /\ resClosed
    /\ ~received
    /\ received' = TRUE
    /\ UNCHANGED <<file, keyChan, callerVars, resChan, results, ctxVars, fetcherVars>>

-----------------------------------------------------------------------------
(* fetchWorker.  Its select takes either branch when both are ready.       *)

Goto(f, label) == pc' = [pc EXCEPT ![f] = label]

TakeKey(f) ==
    /\ pc[f] = "select"
    /\ \E k \in keyChan :
        /\ keyChan' = keyChan \ {k}
        /\ cur' = [cur EXCEPT ![f] = k]
    /\ tries' = [tries EXCEPT ![f] = 0]
    /\ Goto(f, "get")
    /\ UNCHANGED <<file, callerVars, recvVars, ctxVars>>

(* keyChan is closed and empty, or the context is done: return nil. *)
Leave(f) ==
    /\ pc[f] = "select"
    /\ Done \/ (keysClosed /\ keyChan = {})
    /\ Goto(f, "done")
    /\ UNCHANGED <<file, keyChan, callerVars, recvVars, ctxVars, cur, tries>>

(* GetResourceStream answers a stream whose size is not contradicted. *)
Get(f) ==
    /\ pc[f] = "get"
    /\ Goto(f, "open")
    /\ UNCHANGED <<file, keyChan, callerVars, recvVars, ctxVars, cur, tries>>

(* Mutant: without O_EXCL an existing file is truncated and written anew. *)
OpenTruncates(f) ==
    /\ pc[f] = "open"
    /\ file' = [file EXCEPT ![cur[f]] = "writing"]
    /\ Goto(f, "copy")
    /\ UNCHANGED <<keyChan, callerVars, recvVars, ctxVars, cur, tries>>

(* saveResource creates the file with O_EXCL. *)
OpenNew(f) ==
    /\ pc[f] = "open"
    /\ file[cur[f]] = "absent"
    /\ file' = [file EXCEPT ![cur[f]] = "writing"]
    /\ Goto(f, "copy")
    /\ UNCHANGED <<keyChan, callerVars, recvVars, ctxVars, cur, tries>>

(* The file exists already, whole or not: saveResource ignores it and      *)
(* returns nil.                                                            *)
OpenExisting(f) ==
    /\ pc[f] = "open"
    /\ file[cur[f]] # "absent"
    /\ Goto(f, "report")
    /\ UNCHANGED <<file, keyChan, callerVars, recvVars, ctxVars, cur, tries>>

CopyOk(f) ==
    /\ pc[f] = "copy"
    /\ file' = [file EXCEPT ![cur[f]] = "full"]
    /\ Goto(f, "report")
    /\ UNCHANGED <<keyChan, callerVars, recvVars, ctxVars, cur, tries>>

(* resChan <- key.Key blocks while the channel is full. *)
Report(f) ==
    /\ pc[f] = "report"
    /\ ~resClosed               \* else the send panics
    /\ Len(resChan) < ResCap
    /\ resChan' = Append(resChan, cur[f])
    /\ cur' = [cur EXCEPT ![f] = NoKey]
    /\ Goto(f, "select")
    /\ UNCHANGED <<file, keyChan, callerVars, results, received, ctxVars, tries>>

PauseAndRetry(f) ==
    /\ tries' = [tries EXCEPT ![f] = @ + 1]
    /\ Goto(f, "backoff")
    /\ UNCHANGED groupDone

(* The fetcher returns an error: the group cancels its context. *)
Abandon(f) ==
    /\ Goto(f, "failed")
    /\ groupDone' = TRUE
    /\ UNCHANGED tries

(* Mutant: no retries. *)
AttemptFailsAtOnce(f) == Abandon(f)

(* One attempt fails: the next one follows after a pause, unless the       *)
(* retries are used up or the context is done.                             *)
AttemptFails(f) ==
    \/ tries[f] < MaxRetries /\ ~Done /\ PauseAndRetry(f)
    \/ (tries[f] = MaxRetries \/ Done) /\ Abandon(f)

(* The stream cannot be had, its size is wrong, or the directory or file   *)
(* cannot be created.                                                      *)
GetFails(f) ==
    /\ pc[f] \in {"get", "open"}
    /\ AttemptFails(f)
    /\ UNCHANGED <<file, keyChan, callerVars, recvVars, parentDone, cur>>

(* The copy fails or is short: the file is removed again, or the removal   *)
(* fails too and the file stays as it is.                                  *)
CopyFails(f) ==
    /\ pc[f] = "copy"
    /\ \E left \in {"absent", "remnant"} : file' = [file EXCEPT ![cur[f]] = left]
    /\ AttemptFails(f)
    /\ UNCHANGED <<keyChan, callerVars, recvVars, parentDone, cur>>

Retry(f) ==
    /\ pc[f] = "backoff"
    /\ Goto(f, "get")
    /\ UNCHANGED <<file, keyChan, callerVars, recvVars, ctxVars, cur, tries>>

(* The pause is cut short by the context: Retry returns its error. *)
GiveUp(f) ==
    /\ pc[f] = "backoff"
    /\ Done
    /\ Abandon(f)
    /\ UNCHANGED <<file, keyChan, callerVars, recvVars, parentDone, cur>>

-----------------------------------------------------------------------------

CancelParent ==
    /\ Running
    /\ ~parentDone
    /\ parentDone' = TRUE
    /\ UNCHANGED <<file, keyChan, callerVars, recvVars, groupDone, fetcherVars>>

Fetcher(f) ==
    \/ TakeKey(f) \/ Leave(f) \/ Get(f) \/ OpenNew(f) \/ OpenExisting(f) \/ CopyOk(f)
    \/ Report(f) \/ GetFails(f) \/ CopyFails(f) \/ Retry(f) \/ GiveUp(f)

Caller == (\E k \in Keys : SendKey(k)) \/ CloseKeys \/ CloseResults \/ Check

Receiver == Receive \/ FinishReceive

Next == Caller \/ Receiver \/ CancelParent \/ \E f \in Fetchers : Fetcher(f)

Spec == Init /\ [][Next]_vars

(* Goroutines are scheduled fairly and backend calls end: their context    *)
(* has a deadline.                                                         *)
Fairness ==
    /\ WF_vars(Caller)
    /\ WF_vars(Receiver)
    /\ \A f \in Fetchers : WF_vars(Fetcher(f))

FairSpec == Spec /\ Fairness

-----------------------------------------------------------------------------
(* Properties *)

TypeOK ==
    /\ file \in [Keys -> FileStates]
    /\ unsent \subseteq Keys /\ keyChan \subseteq Keys
    /\ resChan \in Seq(Keys) /\ Len(resChan) <= ResCap
    /\ results \in Seq(Keys)
    /\ main \in MainStates
    /\ pc \in [Fetchers -> PcStates]
    /\ cur \in [Fetchers -> Keys \cup {NoKey}]
    /\ tries \in [Fetchers -> 0..MaxRetries]
    /\ {keysClosed, resClosed, received, parentDone, groupDone} \subseteq BOOLEAN

InSeq(s) == {s[i] : i \in DOMAIN s}

(* A call that succeeds has collected every key exactly once, although a   *)
(* fetcher that sees the context done returns nil and leaves keys behind;  *)
(* and every file is complete, or is what a failed rollback of this very   *)
(* call left behind: no other fault of a transfer, no retry and no         *)
(* cancellation lets the call succeed without a whole file.                *)
SuccessIsComplete ==
    main = "ok" =>
        /\ InSeq(results) = Keys /\ Len(results) = Cardinality(Keys)
        /\ \A k \in Keys : file[k] \in {"full", "remnant"}

(* "Check if all have fetched" (manager.go:204): a call that succeeds has  *)
(* fetched every resource.  The code does not keep this: the retry after a *)
(* failed rollback meets the file it left, ignores it as existing, and     *)
(* counts the key.                                                         *)
AllFetched == main = "ok" => \A k \in Keys : file[k] = "full"

(* No fetcher can still send when resChan is closed (the send would        *)
(* panic), and none writes a file once the call has returned and the mutex *)
(* of the manager is free again.                                           *)
NothingOutlivesCall ==
    /\ TypeOK
    /\ resClosed => \A f \in Fetchers : pc[f] # "report"
    /\ ~Running => \A k \in Keys : file[k] # "writing"

(* A failure has a cause: the submission was cancelled, or some transfer   *)
(* used up all of its retries.                                             *)
FailureHasCause ==
    main = "failed" =>
        parentDone \/ \E f \in Fetchers : pc[f] = "failed" /\ tries[f] = MaxRetries

(* fetchRes does to the files what FileTransfer says, and it returns.      *)
Transfer == INSTANCE FileTransfer WITH
    outcome <- IF Running THEN "running" ELSE main
ImplementsTransfer == Transfer!Spec

-----------------------------------------------------------------------------
(* The inductive invariant behind the theorems of FetchResProofs.          *)

Reported == results \o resChan

(* Every key is in exactly one place: not sent yet, in keyChan, with one   *)
(* fetcher, or reported once.                                              *)
KeysInOnePlace ==
    /\ unsent \cap keyChan = {}
    /\ InSeq(Reported) \cap (unsent \cup keyChan) = {}
    /\ \A i, j \in 1..Len(Reported) : Reported[i] = Reported[j] => i = j
    /\ \A f \in Fetchers :
        /\ cur[f] = NoKey <=> pc[f] \in {"select", "done"}
        /\ cur[f] \notin unsent \cup keyChan \cup InSeq(Reported)
    /\ \A f, g \in Fetchers : cur[f] = cur[g] /\ cur[f] # NoKey => f = g
    /\ \A k \in Keys : k \in unsent \cup keyChan \cup InSeq(Reported) \/ \E f \in Fetchers : cur[f] = k

(* The file of a reported key is there, and a file is written by one       *)
(* fetcher that has its key.                                               *)
FilesOK ==
    /\ \A f \in Fetchers :
        /\ pc[f] = "copy" => file[cur[f]] = "writing"
        /\ pc[f] = "report" => file[cur[f]] \in Existing
    /\ \A k \in InSeq(Reported) : file[k] \in Existing
    /\ \A k \in Keys :
        /\ file[k] = "writing" => \E f \in Fetchers : pc[f] = "copy" /\ cur[f] = k
        /\ file[k] = "partial" => "partial" \in Leftovers

PhasesOK ==
    /\ keysClosed <=> main # "send"
    /\ keysClosed => unsent = {}
    /\ resClosed <=> main \in {"drain", "ok", "failed"}
    /\ resClosed => \A f \in Fetchers : pc[f] \in {"done", "failed"}
    /\ received => resClosed /\ resChan = <<>>
    /\ ~Running => received

(* Why a fetcher has left, and why the group or the call has failed.       *)
CausesOK ==
    /\ \A f \in Fetchers :
        /\ pc[f] = "done" => Done \/ (keysClosed /\ keyChan = {})
        /\ pc[f] = "failed" => groupDone
    /\ groupDone => parentDone \/ \E f \in Fetchers : pc[f] = "failed" /\ tries[f] = MaxRetries
    /\ main = "ok" => Len(results) = Cardinality(Keys)
    /\ main = "failed" => groupDone \/ Len(results) # Cardinality(Keys)

FetchInv == TypeOK /\ KeysInOnePlace /\ FilesOK /\ PhasesOK /\ CausesOK
=============================================================================

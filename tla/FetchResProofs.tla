--------------------------- MODULE FetchResProofs ---------------------------
(***************************************************************************)
(* Proofs about FetchRes, for any number of keys, of fetchers and of       *)
(* retries and any capacity of resChan: FetchInv is inductive, and every   *)
(* step is one of FileTransfer or a stutter.                               *)
(***************************************************************************)
EXTENDS FetchRes, TLAPS, FiniteSetTheorems

-----------------------------------------------------------------------------
(* Sequences of keys *)

(* Keys collected without repetition are as many as Keys exactly when none *)
(* of Keys is missing.                                                     *)
LEMMA CountedIsComplete ==
    ASSUME NEW s \in Seq(Keys), \A i, j \in 1..Len(s) : s[i] = s[j] => i = j
    PROVE  Len(s) = Cardinality(Keys) <=> InSeq(s) = Keys
<1>1. IsFiniteSet(Keys)
    BY FetchAssumption DEF FetchAssumption
<1>2. s \in Injection(1..Len(s), Keys)
    <2>1. s \in [1..Len(s) -> Keys] /\ DOMAIN s = 1..Len(s)
        OBVIOUS
    <2> QED
        BY <2>1 DEF Injection, IsInjective
<1>3. Cardinality(1..Len(s)) = Len(s)
    BY FS_Interval
<1>4. Len(s) = Cardinality(Keys) <=> s \in Surjection(1..Len(s), Keys)
    BY <1>1, <1>2, <1>3, FS_Injection
<1>5. s \in Surjection(1..Len(s), Keys) <=> InSeq(s) = Keys
    BY DEF Surjection, InSeq
<1> QED
    BY <1>4, <1>5

LEMMA ConcatKeys ==
    ASSUME NEW s \in Seq(Keys), NEW t \in Seq(Keys)
    PROVE  /\ s \o t \in Seq(Keys)
           /\ \A k \in Keys : s \o Append(t, k) = Append(s \o t, k)
           /\ t # <<>> => Append(s, Head(t)) \o Tail(t) = s \o t
<1>1. \A k \in Keys : s \o Append(t, k) = Append(s \o t, k)
    OBVIOUS
<1>2. t # <<>> => Append(s, Head(t)) \o Tail(t) = s \o t
    OBVIOUS
<1>3. s \o t \in Seq(Keys)
    OBVIOUS
<1> QED
    BY <1>1, <1>2, <1>3

LEMMA AppendKey ==
    ASSUME NEW s \in Seq(Keys), NEW k \in Keys
    PROVE  /\ Append(s, k) \in Seq(Keys)
           /\ InSeq(Append(s, k)) = InSeq(s) \cup {k}
           /\ /\ \A i, j \in 1..Len(s) : s[i] = s[j] => i = j
              /\ k \notin InSeq(s)
              => \A i, j \in 1..Len(Append(s, k)) : Append(s, k)[i] = Append(s, k)[j] => i = j
<1>1. InSeq(Append(s, k)) = InSeq(s) \cup {k}
    <2> DEFINE t == Append(s, k)
    <2>1. /\ DOMAIN t = 1..Len(s) + 1 /\ DOMAIN s = 1..Len(s) /\ Len(s) \in Nat
          /\ \A i \in 1..Len(s) : t[i] = s[i]
          /\ t[Len(s) + 1] = k
        OBVIOUS
    <2> HIDE DEF t
    <2>2. ASSUME NEW x \in InSeq(t)  PROVE x \in InSeq(s) \cup {k}
        <3>1. PICK i \in 1..Len(s) + 1 : x = t[i]
            BY <2>1, <2>2 DEF InSeq
        <3> QED
            BY <2>1, <3>1 DEF InSeq
    <2>3. ASSUME NEW x \in InSeq(s) \cup {k}  PROVE x \in InSeq(t)
        <3>1. CASE x = k
            BY <2>1, <3>1 DEF InSeq
        <3>2. ASSUME NEW i \in 1..Len(s), x = s[i]  PROVE x \in InSeq(t)
            BY <2>1, <3>2 DEF InSeq
        <3> QED
            BY <2>1, <2>3, <3>1, <3>2 DEF InSeq
    <2> QED
        BY <2>2, <2>3 DEF t
<1>2. ASSUME \A i, j \in 1..Len(s) : s[i] = s[j] => i = j, k \notin InSeq(s),
             NEW i \in 1..Len(s) + 1, NEW j \in 1..Len(s) + 1, Append(s, k)[i] = Append(s, k)[j]
      PROVE i = j
    BY <1>2 DEF InSeq
<1>3. Len(Append(s, k)) = Len(s) + 1
    OBVIOUS
<1> QED
    BY <1>1, <1>2, <1>3

-----------------------------------------------------------------------------
(* FetchInv holds initially and every step keeps it. *)

LEMMA ReportedType ==
    TypeOK => Reported \in Seq(Keys) /\ Len(Reported) \in Nat
BY ConcatKeys DEF TypeOK, Reported

LEMMA InitKeeps == Init => FetchInv
<1> SUFFICES ASSUME Init PROVE FetchInv
    OBVIOUS
<1> USE FetchAssumption DEF Init, FetchAssumption
<1>1. TypeOK
    <2>1. file \in [Keys -> FileStates]
        BY DEF FileStates
    <2>2. <<>> \in Seq(Keys) /\ Len(<<>>) = 0
        OBVIOUS
    <2>3. resChan \in Seq(Keys) /\ results \in Seq(Keys) /\ Len(resChan) <= ResCap
        BY <2>2
    <2>4. pc \in [Fetchers -> PcStates] /\ cur \in [Fetchers -> Keys \cup {NoKey}]
          /\ tries \in [Fetchers -> 0..MaxRetries]
        BY DEF PcStates
    <2>5. {keysClosed, resClosed, received, parentDone, groupDone} \subseteq BOOLEAN
        BY Zenon
    <2> QED
        BY <2>1, <2>3, <2>4, <2>5 DEF TypeOK, MainStates
<1>2. Reported = <<>> /\ InSeq(Reported) = {}
    BY DEF Reported, InSeq
<1>3. KeysInOnePlace
    BY <1>2 DEF KeysInOnePlace
<1>4. FilesOK
    BY <1>2 DEF FilesOK
<1>5. PhasesOK
    BY DEF PhasesOK, Running
<1>6. CausesOK
    BY DEF CausesOK
<1> QED
    BY <1>1, <1>3, <1>4, <1>5, <1>6 DEF FetchInv

LEMMA CallerKeeps ==
    ASSUME FetchInv, Caller
    PROVE  FetchInv'
<1> USE DEF FetchInv, recvVars, ctxVars, fetcherVars
<1>1. UNCHANGED <<file, recvVars, ctxVars, fetcherVars>>
    BY DEF Caller, SendKey, CloseKeys, CloseResults, Check
<1>2. Reported' = Reported
    BY <1>1 DEF Reported
<1>3. TypeOK'
    BY <1>1 DEF TypeOK, Caller, SendKey, CloseKeys, CloseResults, Check, MainStates
<1>4. FilesOK'
    BY <1>1, <1>2 DEF FilesOK
<1>5. CASE \E k \in Keys : SendKey(k)
    <2> PICK k \in Keys : SendKey(k)
        BY <1>5
    <2> USE DEF SendKey
    <2>1. KeysInOnePlace'
        BY <1>1, <1>2 DEF KeysInOnePlace
    <2>2. PhasesOK'
        BY <1>1 DEF PhasesOK, Running
    <2>3. CausesOK'
        BY <1>1 DEF CausesOK, PhasesOK, Done
    <2> QED
        BY <1>3, <1>4, <2>1, <2>2, <2>3
<1>6. CASE CloseKeys \/ CloseResults \/ Check
    <2>1. UNCHANGED <<keyChan, unsent>>
        BY <1>6 DEF CloseKeys, CloseResults, Check
    <2>2. KeysInOnePlace'
        BY <1>1, <1>2, <2>1 DEF KeysInOnePlace
    <2>3. PhasesOK'
        BY <1>1, <1>6 DEF PhasesOK, Running, CloseKeys, CloseResults, Check
    <2>4. CausesOK'
        BY <1>1, <1>6, <2>1 DEF CausesOK, Done, CloseKeys, CloseResults, Check
    <2> QED
        BY <1>3, <1>4, <2>2, <2>3, <2>4
<1> QED
    BY <1>5, <1>6 DEF Caller

LEMMA ReceiverKeeps ==
    ASSUME FetchInv, Receiver
    PROVE  FetchInv'
<1> USE DEF FetchInv, callerVars, ctxVars, fetcherVars
<1>1. UNCHANGED <<file, keyChan, callerVars, ctxVars, fetcherVars>>
    BY DEF Receiver, Receive, FinishReceive
<1>2. Reported' = Reported
    <2>1. CASE Receive
        <3>1. results \in Seq(Keys) /\ resChan \in Seq(Keys)
            BY DEF TypeOK
        <3>2. Append(results, Head(resChan)) \o Tail(resChan) = results \o resChan
            BY <2>1, <3>1, ConcatKeys DEF Receive
        <3> QED
            BY <2>1, <3>2 DEF Receive, Reported
    <2>2. CASE FinishReceive
        BY <2>2 DEF FinishReceive, Reported
    <2> QED
        BY <2>1, <2>2 DEF Receiver
<1>3. TypeOK'
    <2>1. CASE Receive
        <3>1. Head(resChan) \in Keys /\ Tail(resChan) \in Seq(Keys) /\ Len(Tail(resChan)) <= ResCap
            BY <2>1, FetchAssumption DEF Receive, TypeOK, FetchAssumption
        <3> QED
            BY <1>1, <2>1, <3>1 DEF Receive, TypeOK
    <2>2. CASE FinishReceive
        BY <1>1, <2>2 DEF FinishReceive, TypeOK
    <2> QED
        BY <2>1, <2>2 DEF Receiver
<1>4. KeysInOnePlace' /\ FilesOK'
    BY <1>1, <1>2 DEF KeysInOnePlace, FilesOK
<1>5. PhasesOK'
    BY <1>1 DEF PhasesOK, Running, Receiver, Receive, FinishReceive
<1>6. CausesOK'
    <2>1. main \in {"ok", "failed"} => results' = results
        BY DEF PhasesOK, Running, Receiver, Receive, FinishReceive
    <2> QED
        BY <1>1, <2>1 DEF CausesOK, Done
<1> QED
    BY <1>3, <1>4, <1>5, <1>6

LEMMA CancelKeeps ==
    ASSUME FetchInv, CancelParent
    PROVE  FetchInv'
<1> USE DEF FetchInv, CancelParent, callerVars, recvVars, fetcherVars
<1>1. Reported' = Reported
    BY DEF Reported
<1>2. TypeOK'
    BY DEF TypeOK
<1>3. KeysInOnePlace' /\ FilesOK'
    BY <1>1 DEF KeysInOnePlace, FilesOK
<1>4. PhasesOK'
    BY DEF PhasesOK, Running
<1>5. CausesOK'
    BY DEF CausesOK, Done
<1> QED
    BY <1>2, <1>3, <1>4, <1>5

LEMMA TakeKeyKeeps ==
    ASSUME FetchInv, NEW f \in Fetchers, TakeKey(f)
    PROVE  FetchInv'
<1> USE DEF FetchInv, TakeKey, Goto, callerVars, recvVars, ctxVars
<1>1. PICK k \in keyChan : keyChan' = keyChan \ {k} /\ cur' = [cur EXCEPT ![f] = k]
    OBVIOUS
<1>2. Reported' = Reported /\ k \in Keys /\ k # NoKey
    BY <1>1, FetchAssumption DEF Reported, TypeOK, FetchAssumption
<1>3. TypeOK'
    BY <1>1, <1>2, FetchAssumption DEF TypeOK, PcStates, FetchAssumption
<1>4. \A g \in Fetchers \ {f} : pc'[g] = pc[g] /\ cur'[g] = cur[g] /\ tries'[g] = tries[g] /\ cur[g] # k
    BY <1>1 DEF TypeOK, KeysInOnePlace
<1>5. pc'[f] = "get" /\ cur'[f] = k /\ cur[f] = NoKey
    BY <1>1 DEF TypeOK, KeysInOnePlace
<1>6. KeysInOnePlace'
    <2> USE DEF KeysInOnePlace
    <2>1. unsent' \cap keyChan' = {} /\ InSeq(Reported') \cap (unsent' \cup keyChan') = {}
        BY <1>1, <1>2
    <2>2. \A i, j \in 1..Len(Reported') : Reported'[i] = Reported'[j] => i = j
        BY <1>2
    <2>3. ASSUME NEW g \in Fetchers
          PROVE  /\ cur'[g] = NoKey <=> pc'[g] \in {"select", "done"}
                 /\ cur'[g] \notin unsent' \cup keyChan' \cup InSeq(Reported')
        <3>1. k \notin unsent' \cup keyChan' \cup InSeq(Reported')
            BY <1>1, <1>2
        <3> QED
            BY <1>1, <1>2, <1>4, <1>5, <3>1
    <2>4. \A g, h \in Fetchers : cur'[g] = cur'[h] /\ cur'[g] # NoKey => g = h
        BY <1>4, <1>5
    <2>5. ASSUME NEW x \in Keys
          PROVE  x \in unsent' \cup keyChan' \cup InSeq(Reported') \/ \E g \in Fetchers : cur'[g] = x
        <3>1. CASE x = k
            BY <1>5, <3>1
        <3>2. CASE x \in (unsent \cup keyChan \cup InSeq(Reported)) \ {k}
            BY <1>1, <1>2, <3>2
        <3>3. ASSUME NEW g \in Fetchers, cur[g] = x, x # k
              PROVE  \E h \in Fetchers : cur'[h] = x
            <4>1. g # f
                BY <1>2, <1>5, <3>3, FetchAssumption DEF FetchAssumption
            <4> QED
                BY <1>4, <3>3, <4>1
        <3> QED
            BY <3>1, <3>2, <3>3
    <2> QED
        BY <2>1, <2>2, <2>3, <2>4, <2>5
<1>7. FilesOK'
    BY <1>1, <1>2, <1>4, <1>5 DEF FilesOK
<1>8. ~resClosed
    BY DEF PhasesOK
<1>9. PhasesOK'
    BY <1>8 DEF PhasesOK, Running
<1>10. CausesOK'
    BY <1>1, <1>4, <1>5, <1>8 DEF CausesOK, Done, PhasesOK
<1> QED
    BY <1>3, <1>6, <1>7, <1>9, <1>10

LEMMA LeaveKeeps ==
    ASSUME FetchInv, NEW f \in Fetchers, Leave(f)
    PROVE  FetchInv'
<1> USE DEF FetchInv, Leave, Goto, callerVars, recvVars, ctxVars
<1>1. Reported' = Reported
    BY DEF Reported
<1>2. TypeOK'
    BY DEF TypeOK, PcStates
<1>3. pc'[f] = "done" /\ \A g \in Fetchers \ {f} : pc'[g] = pc[g]
    BY DEF TypeOK
<1>4. KeysInOnePlace'
    BY <1>1, <1>3 DEF KeysInOnePlace
<1>5. FilesOK'
    BY <1>1, <1>3 DEF FilesOK
<1>6. PhasesOK'
    BY <1>3 DEF PhasesOK, Running
<1>7. CausesOK'
    BY <1>3 DEF CausesOK, Done
<1> QED
    BY <1>2, <1>4, <1>5, <1>6, <1>7

LEMMA ReportKeeps ==
    ASSUME FetchInv, NEW f \in Fetchers, Report(f)
    PROVE  FetchInv'
<1> USE DEF FetchInv, Report, Goto, callerVars, ctxVars
<1> PICK k : k = cur[f]
    OBVIOUS
<1>1. k \in Keys /\ k # NoKey
    BY FetchAssumption DEF TypeOK, KeysInOnePlace, FetchAssumption
<1>2. Reported \in Seq(Keys) /\ Reported' = Append(Reported, k)
    BY <1>1, ConcatKeys DEF TypeOK, Reported
<1>3. InSeq(Reported') = InSeq(Reported) \cup {k}
    BY <1>1, <1>2, AppendKey
<1>4. \A i, j \in 1..Len(Reported') : Reported'[i] = Reported'[j] => i = j
    <2>1. k \notin InSeq(Reported)
        BY DEF KeysInOnePlace
    <2>2. \A i, j \in 1..Len(Reported) : Reported[i] = Reported[j] => i = j
        BY DEF KeysInOnePlace
    <2> QED
        <3> DEFINE s == Reported
        <3>1. s \in Seq(Keys) /\ Reported' = Append(s, k)
            BY <1>2
        <3>2. /\ k \notin InSeq(s)
              /\ \A i, j \in 1..Len(s) : s[i] = s[j] => i = j
            BY <2>1, <2>2
        <3> HIDE DEF s
        <3>3. \A i, j \in 1..Len(Append(s, k)) : Append(s, k)[i] = Append(s, k)[j] => i = j
            BY <1>1, <3>1, <3>2, AppendKey
        <3> QED
            BY <3>1, <3>3
<1>5. TypeOK'
    <2>1. resChan' \in Seq(Keys) /\ Len(resChan') <= ResCap
        BY <1>1, FetchAssumption DEF TypeOK, FetchAssumption
    <2> QED
        BY <2>1 DEF TypeOK, PcStates
<1>6. /\ pc'[f] = "select" /\ cur'[f] = NoKey
      /\ \A g \in Fetchers \ {f} : pc'[g] = pc[g] /\ cur'[g] = cur[g] /\ cur[g] # k
    BY <1>1 DEF TypeOK, KeysInOnePlace
<1>7. KeysInOnePlace'
    <2>1. NoKey \notin Keys
        BY FetchAssumption DEF FetchAssumption
    <2>2. NoKey \notin unsent \cup keyChan \cup InSeq(Reported')
        BY <1>1, <1>2, <1>3, <2>1 DEF TypeOK, InSeq
    <2>3. k \notin unsent \cup keyChan
        BY DEF KeysInOnePlace
    <2> QED
        BY <1>3, <1>4, <1>6, <2>2, <2>3 DEF KeysInOnePlace
<1>8. FilesOK'
    BY <1>3, <1>6 DEF FilesOK
<1>9. PhasesOK'
    BY DEF PhasesOK, Running
<1>10. CausesOK'
    BY <1>6 DEF CausesOK, Done
<1> QED
    BY <1>5, <1>7, <1>8, <1>9, <1>10

(* The steps of one transfer: the fetcher keeps its key. *)
Transferring(f) ==
    \/ Get(f) \/ OpenNew(f) \/ OpenExisting(f) \/ CopyOk(f)
    \/ GetFails(f) \/ CopyFails(f) \/ Retry(f) \/ GiveUp(f)

LEMMA TransferKeeps ==
    ASSUME FetchInv, NEW f \in Fetchers, Transferring(f)
    PROVE  FetchInv'
<1> USE DEF FetchInv, callerVars, recvVars, ctxVars
<1>1. UNCHANGED <<keyChan, callerVars, recvVars, parentDone, cur>>
    BY DEF Transferring, Get, OpenNew, OpenExisting, CopyOk, GetFails, CopyFails, Retry, GiveUp
<1>2. PICK to \in {"get", "open", "copy", "report", "backoff", "failed"} :
        pc' = [pc EXCEPT ![f] = to]
    BY DEF Transferring, Get, OpenNew, OpenExisting, CopyOk, GetFails, CopyFails, Retry, GiveUp, Goto,
           AttemptFails, PauseAndRetry, Abandon
<1>3. pc[f] \in {"get", "open", "copy", "backoff"}
    BY DEF Transferring, Get, OpenNew, OpenExisting, CopyOk, GetFails, CopyFails, Retry, GiveUp
<1>4. pc'[f] = to /\ \A g \in Fetchers \ {f} : pc'[g] = pc[g]
    BY <1>2 DEF TypeOK
<1>5. Reported' = Reported
    BY <1>1 DEF Reported
<1>6. cur[f] \in Keys /\ \A g \in Fetchers \ {f} : cur[g] # cur[f]
    BY <1>3 DEF TypeOK, KeysInOnePlace
<1>7. /\ cur[f] \notin InSeq(Reported)
      /\ \A k \in Keys \ {cur[f]} : file'[k] = file[k]
    BY <1>3, <1>6 DEF TypeOK, KeysInOnePlace, Transferring, Get, OpenNew, OpenExisting, CopyOk, GetFails,
        CopyFails, Retry, GiveUp
<1>8. TypeOK'
    <2>1. file' \in [Keys -> FileStates]
        BY <1>6 DEF TypeOK, FileStates, Transferring, Get, OpenNew, OpenExisting, CopyOk, GetFails,
            CopyFails, Retry, GiveUp
    <2>2. pc' \in [Fetchers -> PcStates]
        BY <1>2 DEF TypeOK, PcStates
    <2>3. tries' \in [Fetchers -> 0..MaxRetries]
        <3>1. tries' = tries \/ (tries' = [tries EXCEPT ![f] = @ + 1] /\ tries[f] < MaxRetries)
            BY DEF Transferring, Get, OpenNew, OpenExisting, CopyOk, GetFails, CopyFails, Retry, GiveUp,
                AttemptFails, PauseAndRetry, Abandon
        <3>2. tries \in [Fetchers -> 0..MaxRetries] /\ MaxRetries \in Nat
            BY FetchAssumption DEF TypeOK, FetchAssumption
        <3>3. tries[f] < MaxRetries => tries[f] + 1 \in 0..MaxRetries
            BY <3>2
        <3> QED
            BY <3>1, <3>2, <3>3
    <2>4. groupDone' \in BOOLEAN
        BY DEF TypeOK, Transferring, Get, OpenNew, OpenExisting, CopyOk, GetFails, CopyFails, Retry, GiveUp,
            AttemptFails, PauseAndRetry, Abandon
    <2> QED
        BY <1>1, <2>1, <2>2, <2>3, <2>4 DEF TypeOK
<1>9. KeysInOnePlace'
    BY <1>1, <1>3, <1>4, <1>5 DEF KeysInOnePlace
<1>10. FilesOK'
    <2>1. /\ to = "copy" => file'[cur[f]] = "writing"
          /\ to = "report" => file'[cur[f]] \in Existing
          /\ to \notin {"copy"} => file'[cur[f]] # "writing"
          /\ file'[cur[f]] = "partial" => file[cur[f]] = "partial"
        <3>1. file[cur[f]] = "writing" => pc[f] = "copy"
            BY <1>6 DEF FilesOK
        <3>2. CASE OpenNew(f) \/ CopyOk(f) \/ CopyFails(f)
            BY <1>4, <1>6, <3>2 DEF OpenNew, CopyOk, CopyFails, Goto, AttemptFails, PauseAndRetry, Abandon,
                TypeOK, Existing
        <3>3. CASE Get(f) \/ OpenExisting(f) \/ GetFails(f) \/ Retry(f) \/ GiveUp(f)
            BY <1>4, <1>6, <3>1, <3>3 DEF Get, OpenExisting, GetFails, Retry, GiveUp, Goto, AttemptFails,
                PauseAndRetry, Abandon, TypeOK, FileStates, Existing
        <3> QED
            BY <3>2, <3>3 DEF Transferring
    <2>2. ASSUME NEW k \in Keys, file'[k] = "writing"
          PROVE  \E g \in Fetchers : pc'[g] = "copy" /\ cur'[g] = k
        BY <1>1, <1>4, <1>7, <2>1, <2>2 DEF FilesOK
    <2>3. ASSUME NEW k \in InSeq(Reported)
          PROVE  file'[k] \in Existing
        <3>1. k \in Keys
            BY ReportedType DEF InSeq
        <3> QED
            BY <1>7, <3>1 DEF FilesOK
    <2>4. ASSUME NEW g \in Fetchers \ {f}
          PROVE  /\ pc'[g] = "copy" => file'[cur[g]] = "writing"
                 /\ pc'[g] = "report" => file'[cur[g]] \in Existing
        <3>1. pc[g] \in {"copy", "report"} => cur[g] \in Keys \ {cur[f]}
            BY <1>6 DEF TypeOK, KeysInOnePlace
        <3> QED
            BY <1>4, <1>7, <3>1 DEF FilesOK
    <2>5. ASSUME NEW k \in Keys, file'[k] = "partial"
          PROVE  "partial" \in Leftovers
        BY <1>7, <2>1, <2>5 DEF FilesOK
    <2> QED
        BY <1>1, <1>4, <1>5, <2>1, <2>2, <2>3, <2>4, <2>5 DEF FilesOK
<1>11. ~resClosed
    BY <1>3 DEF PhasesOK
<1>12. PhasesOK'
    BY <1>1, <1>11 DEF PhasesOK, Running
<1>13. CausesOK'
    <2>1. ASSUME NEW g \in Fetchers, pc[g] = "failed"  PROVE g # f /\ tries'[g] = tries[g]
        BY <1>3, <2>1 DEF TypeOK, Transferring, Get, OpenNew, OpenExisting, CopyOk, GetFails, CopyFails, Retry,
            GiveUp, AttemptFails, PauseAndRetry, Abandon
    <2>2. groupDone => groupDone'
        BY DEF Transferring, Get, OpenNew, OpenExisting, CopyOk, GetFails, CopyFails, Retry, GiveUp,
            AttemptFails, PauseAndRetry, Abandon
    <2>3. \/ groupDone' = groupDone /\ to # "failed"
          \/ /\ groupDone' /\ to = "failed" /\ tries' = tries
             /\ tries[f] = MaxRetries \/ Done
        BY <1>4 DEF Transferring, Get, OpenNew, OpenExisting, CopyOk, GetFails, CopyFails, Retry, GiveUp, Goto,
            AttemptFails, PauseAndRetry, Abandon, TypeOK
    <2>4. ASSUME groupDone'
          PROVE  parentDone \/ \E g \in Fetchers : pc'[g] = "failed" /\ tries'[g] = MaxRetries
        <3>1. CASE groupDone
            BY <1>4, <2>1, <3>1 DEF CausesOK
        <3>2. CASE ~groupDone
            BY <1>4, <2>3, <2>4, <3>2 DEF Done
        <3> QED
            BY <3>1, <3>2
    <2>5. main \notin {"ok", "failed"}
        BY <1>11 DEF PhasesOK
    <2>6. \A g \in Fetchers : pc'[g] = "failed" => groupDone'
        BY <1>4, <2>2, <2>3 DEF CausesOK
    <2>7. \A g \in Fetchers : pc'[g] = "done" => Done' \/ (keysClosed /\ keyChan = {})
        BY <1>1, <1>4, <2>2 DEF CausesOK, Done
    <2> QED
        BY <1>1, <2>4, <2>5, <2>6, <2>7 DEF CausesOK
<1> QED
    BY <1>8, <1>9, <1>10, <1>12, <1>13

LEMMA StutterKeeps ==
    ASSUME FetchInv, UNCHANGED vars
    PROVE  FetchInv'
<1> USE DEF vars, callerVars, recvVars, ctxVars, fetcherVars
<1>1. Reported' = Reported
    BY DEF Reported
<1> QED
    BY <1>1 DEF FetchInv, TypeOK, KeysInOnePlace, FilesOK, PhasesOK, CausesOK, Running, Done

LEMMA StepKeeps == FetchInv /\ [Next]_vars => FetchInv'
<1> SUFFICES ASSUME FetchInv, [Next]_vars PROVE FetchInv'
    OBVIOUS
<1>1. ASSUME NEW f \in Fetchers, Fetcher(f) PROVE FetchInv'
    BY <1>1, TakeKeyKeeps, LeaveKeeps, ReportKeeps, TransferKeeps DEF Fetcher, Transferring
<1> QED
    BY <1>1, CallerKeeps, ReceiverKeeps, CancelKeeps, StutterKeeps DEF Next

LEMMA FetchInvariant == Spec => []FetchInv
BY InitKeeps, StepKeeps, PTL DEF Spec

-----------------------------------------------------------------------------
(* What the invariant says of a call that is over *)

(* Once the receiver has finished, the results are all that was reported,  *)
(* and their number tells whether they are complete.                       *)
LEMMA ResultsComplete ==
    ASSUME FetchInv, received
    PROVE  /\ Reported = results
           /\ Len(results) = Cardinality(Keys) <=> InSeq(results) = Keys
<1>1. Reported = results
    BY DEF FetchInv, PhasesOK, TypeOK, Reported
<1> QED
    BY <1>1, ReportedType, CountedIsComplete DEF FetchInv, KeysInOnePlace

(* Without a cause the call cannot fail: a fetcher that has left found     *)
(* keyChan closed and empty, so every key was reported.                    *)
LEMMA UndisturbedIsComplete ==
    ASSUME FetchInv, received, ~groupDone, ~parentDone
    PROVE  Len(results) = Cardinality(Keys)
<1> USE DEF FetchInv
<1>1. resClosed /\ keysClosed /\ unsent = {}
    BY DEF PhasesOK
<1>2. \A f \in Fetchers : pc[f] = "done"
    BY <1>1 DEF PhasesOK, CausesOK
<1>3. keyChan = {}
    BY <1>2, FetchAssumption DEF CausesOK, Done, FetchAssumption
<1>4. ASSUME NEW k \in Keys  PROVE k \in InSeq(Reported)
    <2>1. ~ \E f \in Fetchers : cur[f] = k
        BY <1>2, FetchAssumption DEF KeysInOnePlace, FetchAssumption
    <2> QED
        BY <1>1, <1>3, <2>1 DEF KeysInOnePlace
<1>5. InSeq(Reported) \subseteq Keys
    BY ReportedType DEF InSeq
<1> QED
    BY <1>4, <1>5, ResultsComplete

(* No file is being written when resChan is closed. *)
LEMMA NobodyWrites ==
    ASSUME FetchInv, resClosed
    PROVE  \A k \in Keys : file[k] # "writing"
BY DEF FetchInv, PhasesOK, FilesOK

-----------------------------------------------------------------------------
(* The theorems *)

(* When no earlier call has left a truncated file, a call that succeeds    *)
(* has collected every key exactly once, and every file is complete but    *)
(* for what a failed rollback of this call left behind: although a fetcher *)
(* that sees the context done returns nil and leaves keys behind, the      *)
(* number of results then is too small.                                    *)
THEOREM SuccessesAreComplete ==
    ASSUME "partial" \notin Leftovers
    PROVE  Spec => []SuccessIsComplete
<1>1. FetchInv => SuccessIsComplete
    <2> SUFFICES ASSUME FetchInv, main = "ok"
                 PROVE  /\ InSeq(results) = Keys /\ Len(results) = Cardinality(Keys)
                        /\ \A k \in Keys : file[k] \in {"full", "remnant"}
        BY DEF SuccessIsComplete
    <2>1. received
        BY DEF FetchInv, PhasesOK, Running
    <2>2. Len(results) = Cardinality(Keys)
        BY DEF FetchInv, CausesOK
    <2>3. InSeq(results) = Keys /\ InSeq(Reported) = Keys
        BY <2>1, <2>2, ResultsComplete
    <2> QED
        BY <2>2, <2>3 DEF FetchInv, FilesOK, Existing
<1> QED
    BY FetchInvariant, <1>1, PTL

(* When resChan is closed no fetcher is left that could send to it, and    *)
(* when the call has returned no file is being written any more.           *)
THEOREM CallsEndClean == Spec => []NothingOutlivesCall
<1>1. FetchInv => NothingOutlivesCall
    BY NobodyWrites DEF NothingOutlivesCall, FetchInv, PhasesOK
<1> QED
    BY FetchInvariant, <1>1, PTL

(* A call fails only if the submission was cancelled or some transfer used *)
(* up all of its retries: neither the count of the results nor the error   *)
(* of the group is ever wrong without one of these.                        *)
THEOREM FailuresHaveCauses == Spec => []FailureHasCause
<1>1. FetchInv => FailureHasCause
    <2> SUFFICES ASSUME FetchInv, main = "failed", ~parentDone
                 PROVE  \E f \in Fetchers : pc[f] = "failed" /\ tries[f] = MaxRetries
        BY DEF FailureHasCause
    <2>1. received
        BY DEF FetchInv, PhasesOK, Running
    <2>2. groupDone
        BY <2>1, UndisturbedIsComplete DEF FetchInv, CausesOK
    <2> QED
        BY <2>2 DEF FetchInv, CausesOK
<1> QED
    BY FetchInvariant, <1>1, PTL

(* Every step of the call is one that FileTransfer allows, or leaves the   *)
(* files and the outcome alone: each file is created once at a time and    *)
(* completed, removed or left behind by a failed removal before the call   *)
(* returns, nothing is done to a file that exists, and success means that  *)
(* all files are there.  That the call returns is left to TLC.             *)
THEOREM TransferImplemented == Spec => Transfer!SafeSpec
<1>1. Init => Transfer!Init
    BY DEF Init, Transfer!Init, Running
<1>2. ASSUME FetchInv, [Next]_vars  PROVE [Transfer!Next]_(Transfer!vars)
    <2> USE DEF Transfer!Next, Transfer!vars, Transfer!Step
    <2>1. CASE Check
        <3>1. resClosed /\ received /\ Running /\ file' = file
            BY <1>2, <2>1 DEF Check, FetchInv, PhasesOK, Running
        <3>2. CASE main' = "ok"
            <4>1. InSeq(Reported) = Keys
                BY <1>2, <2>1, <3>1, <3>2, ResultsComplete DEF Check
            <4>2. \A k \in Keys : file[k] \in {"full", "partial", "remnant"}
                BY <1>2, <4>1 DEF FetchInv, FilesOK, Existing
            <4>3. Transfer!Ok
                BY <3>1, <3>2, <4>2 DEF Transfer!Ok, Running
            <4> QED
                BY <4>3
        <3>3. CASE main' = "failed"
            <4>1. Transfer!Fail
                BY <1>2, <3>1, <3>3, NobodyWrites DEF Transfer!Fail, Running
            <4> QED
                BY <4>1
        <3> QED
            BY <2>1, <3>2, <3>3 DEF Check
    <2>2. ASSUME NEW f \in Fetchers, OpenNew(f) \/ CopyOk(f) \/ CopyFails(f)
          PROVE  Transfer!Next
        <3>1. cur[f] \in Keys
            BY <1>2, <2>2 DEF FetchInv, TypeOK, KeysInOnePlace, OpenNew, CopyOk, CopyFails
        <3>2. Running /\ Running'
            BY <1>2, <2>2 DEF FetchInv, PhasesOK, Running, OpenNew, CopyOk, CopyFails, callerVars
        <3>3. pc[f] = "copy" => file[cur[f]] = "writing"
            BY <1>2 DEF FetchInv, FilesOK
        <3>4. Transfer!SaveBegin(cur[f]) \/ Transfer!SaveEnd(cur[f]) \/ Transfer!SaveRollback(cur[f])
            BY <2>2, <3>2, <3>3 DEF Transfer!SaveBegin, Transfer!SaveEnd, Transfer!SaveRollback, OpenNew,
                CopyOk, CopyFails
        <3> QED
            BY <3>1, <3>4
    <2>3. CASE file' = file /\ main' = main
        BY <2>3 DEF Running
    <2>4. CASE (\E k \in Keys : SendKey(k)) \/ CloseKeys \/ CloseResults
        <3>1. file' = file /\ Running /\ Running'
            BY <2>4 DEF SendKey, CloseKeys, CloseResults, Running
        <3> QED
            BY <3>1
    <2>5. CASE Receiver \/ CancelParent \/ UNCHANGED vars
        BY <2>3, <2>5 DEF Receiver, Receive, FinishReceive, CancelParent, callerVars, vars
    <2>6. ASSUME NEW f \in Fetchers,
                 \/ TakeKey(f) \/ Leave(f) \/ Get(f) \/ OpenExisting(f) \/ Report(f)
                 \/ GetFails(f) \/ Retry(f) \/ GiveUp(f)
          PROVE  file' = file /\ main' = main
        BY <2>6 DEF TakeKey, Leave, Get, OpenExisting, Report, GetFails, Retry, GiveUp, callerVars
    <2> QED
        BY <1>2, <2>1, <2>2, <2>3, <2>4, <2>5, <2>6 DEF Next, Caller, Fetcher
<1> QED
    BY <1>1, <1>2, FetchInvariant, PTL DEF Spec, Transfer!SafeSpec
=============================================================================

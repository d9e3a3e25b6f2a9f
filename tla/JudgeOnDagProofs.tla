-------------------------- MODULE JudgeOnDagProofs --------------------------
(***************************************************************************)
(* Proofs about JudgeOnDag, for every problem, every answer of the judge,  *)
(* every failure of an upload and a cancellation at any time.  JudgeInv is *)
(* inductive; what SubtaskGraphProofs shows of the traversal is used       *)
(* through an instance, since judgeOnDAG takes the steps of Traverse and   *)
(* no other.                                                               *)
(***************************************************************************)
EXTENDS JudgeOnDag, TLAPS

(* The search for cycles has ended and plays no part in this traversal. *)
TP == INSTANCE SubtaskGraphProofs WITH
        Ids <- Subtasks, Listed <- Subtasks,
        todo <- {}, checked <- {}, stk <- {}, frames <- <<>>, verdict <- "dag"

-----------------------------------------------------------------------------
(* The instances Trav and TP of Traverse define the same.                  *)

LEMMA SameCardinality ==
    /\ \A S : TP!Cardinality(S) = Trav!Cardinality(S)
    /\ IsFiniteSet(Subtasks) => TP!IsFiniteSet(Subtasks)
BY DEF TP!Cardinality, Trav!Cardinality, TP!IsFiniteSet, IsFiniteSet

LEMMA Assumed ==
    TP!IsFiniteSet(Subtasks) /\ Subtasks \subseteq Subtasks /\ NoNode \notin Subtasks
BY SameCardinality, JudgeAssumption DEF JudgeAssumption

LEMMA SameTravInv == TP!TravInv <=> Trav!TravInv
<1>1. \A n : TP!Pending(n) = Trav!Pending(n) /\ TP!Preds(n) = Trav!Preds(n)
    BY DEF TP!Pending, Trav!Pending, TP!Preds, Trav!Preds
<1>2. TP!Queued = Trav!Queued
    BY DEF TP!Queued, Trav!Queued
<1>3. TP!TypeOK <=> Trav!TypeOK
    BY DEF TP!TypeOK, Trav!TypeOK, TP!Edges, Trav!Edges
<1>4. TP!InDegree <=> Trav!InDegree
    BY <1>1, SameCardinality DEF TP!InDegree, Trav!InDegree
<1>5. TP!Released <=> Trav!Released
    BY <1>1, <1>2 DEF TP!Released, Trav!Released
<1>6. TP!Reached <=> Trav!Reached
    BY <1>1, <1>2 DEF TP!Reached, Trav!Reached
<1>7. TP!PhaseOK <=> Trav!PhaseOK
    BY <1>2 DEF TP!PhaseOK, Trav!PhaseOK
<1>8. TP!CalledOnce <=> Trav!CalledOnce
    BY <1>2 DEF TP!CalledOnce, Trav!CalledOnce
<1> QED
    BY <1>3, <1>4, <1>5, <1>6, <1>7, <1>8 DEF TP!TravInv, Trav!TravInv

LEMMA SameInit == Trav!Init => TP!Init
<1>1. \A n : TP!Preds(n) = Trav!Preds(n)
    BY DEF TP!Preds, Trav!Preds
<1> QED
    BY <1>1, SameCardinality DEF TP!Init, Trav!Init, TP!Edges, Trav!Edges

LEMMA SameNext == [Trav!Next]_(Trav!vars) => [TP!Next]_(TP!vars)
BY DEF Trav!Next, TP!Next, Trav!vars, TP!vars, Trav!Scan, TP!Scan, Trav!RemoveEdge,
    TP!RemoveEdge, Trav!EndLoop, TP!EndLoop, Trav!Pop, TP!Pop, Trav!CallbackTrue,
    TP!CallbackTrue, Trav!CallbackFalse, TP!CallbackFalse, Trav!Finish, TP!Finish

LEMMA TravInit == Trav!Init => Trav!TravInv
<1>1. TP!Init => TP!TravInv
    BY TP!TravInvInit, Assumed
<1> QED
    BY <1>1, SameInit, SameTravInv

LEMMA TravNext == Trav!TravInv /\ [Trav!Next]_(Trav!vars) => Trav!TravInv'
<1>1. TP!TravInv /\ [TP!Next]_(TP!vars) => TP!TravInv'
    BY TP!TravInvNext, Assumed
<1>2. TP!TravInv' <=> Trav!TravInv'
    BY SameTravInv, PTL
<1> QED
    BY <1>1, <1>2, SameTravInv, SameNext

(* judgeOnDAG takes the steps of the traversal and no other.               *)
LEMMA TravSteps == [Next]_vars => [Trav!Next]_(Trav!vars)
BY DEF Next, vars, Judging, Uploading, Walk, StartSubtask, JudgeCase, SendOutput, JudgeFails,
    EndSubtask, CloseOutputs, Return, TakeOutput, StopUploader, UploadOk, UploadFails,
    RetryUpload, CancelContext, UploadVarsBut, Trav!Next, Trav!vars, travVars

-----------------------------------------------------------------------------
(* The invariant *)

LEMMA JudgeInvInit == Init => JudgeInv
<1> SUFFICES ASSUME Init  PROVE JudgeInv
    OBVIOUS
<1>1. Trav!TravInv
    BY TravInit DEF Init
<1>2. TypeOK
    <2>1. caseOutputCh \in Seq(Outputs) /\ Len(caseOutputCh) <= ChanCap /\ tries \in 0..MaxRetries
        BY JudgeAssumption DEF Init, JudgeAssumption
    <2>2. conclusion \in [Subtasks -> Conclusions]
        BY DEF Init, Conclusions
    <2> QED
        BY <1>1, <2>1, <2>2 DEF Init, TypeOK, Trav!TravInv, Trav!Init
<1>3. OutputsAccounted
    BY <1>2 DEF Init, OutputsAccounted, GivenUpOK, InChan
<1>4. SenderOK /\ UploaderOK /\ AttemptsOK /\ OutputsJudged /\ ErrOK
    BY <1>1 DEF Init, Trav!Init, SenderOK, UploaderOK, AttemptsOK, OutputsJudged, ErrOK, InChan
<1> QED
    BY <1>1, <1>3, <1>4 DEF JudgeInv

LEMMA OutputFacts ==
    /\ \A s \in Subtasks, c \in Nat : <<s, c>> \in Outputs <=> c \in 1..Cases[s]
    /\ \A o \in Outputs : o \in Subtasks \X Nat /\ o[2] \in 1..Cases[o[1]]
<1>1. ASSUME NEW s \in Subtasks, NEW c \in Nat
      PROVE  <<s, c>> \in Outputs <=> c \in 1..Cases[s]
    BY DEF Outputs
<1>2. ASSUME NEW o \in Outputs  PROVE o \in Subtasks \X Nat /\ o[2] \in 1..Cases[o[1]]
    <2>1. PICK s \in Subtasks : o \in {s} \X (1..Cases[s])
        BY DEF Outputs
    <2>2. o = <<s, o[2]>> /\ o[1] = s /\ o[2] \in 1..Cases[s]
        BY <2>1
    <2>3. Cases[s] \in Nat
        BY JudgeAssumption DEF JudgeAssumption
    <2> QED
        BY <2>2, <2>3
<1> QED
    BY <1>1, <1>2

(* The subtask that the callback starts with has not been judged before.   *)
LEMMA PoppedIsNew ==
    ASSUME Trav!TravInv, Trav!Pop
    PROVE  /\ cur' \in Subtasks \ vis /\ vis' = vis \cup {cur'} /\ pc = "pop" /\ pc' = "call"
           /\ accepted' = accepted
<1>1. queue \in Seq(Subtasks) /\ queue # <<>> /\ 1 \in DOMAIN queue /\ Head(queue) = queue[1]
    BY DEF Trav!TravInv, Trav!TypeOK, Trav!Pop
<1> QED
    BY <1>1 DEF Trav!TravInv, Trav!CalledOnce, Trav!Queued, Trav!Pop

LEMMA JudgedKept ==
    ASSUME JudgeInv, Next
    PROVE  OutputsJudged'
<1> USE DEF OutputsJudged
<1>1. Trav!TravInv /\ OutputsJudged /\ TypeOK
    BY DEF JudgeInv, OutputsAccounted
<1>2. CASE UNCHANGED <<travVars, case, big>>
    BY <1>1, <1>2 DEF travVars
<1>3. CASE Walk \/ EndSubtask \/ JudgeFails
    BY <1>1, <1>3 DEF Walk, EndSubtask, JudgeFails, resultVars, Trav!Scan, Trav!RemoveEdge,
        Trav!EndLoop, Trav!Finish, Trav!CallbackTrue, Trav!CallbackFalse
<1>4. CASE StartSubtask
    BY <1>1, <1>4, PoppedIsNew DEF StartSubtask
<1>5. ASSUME NEW accepts \in BOOLEAN, NEW long \in BOOLEAN, JudgeCase(accepts, long)
      PROVE  OutputsJudged'
    <2>1. cur \in vis /\ case \in Nat
        BY <1>1, <1>5 DEF JudgeCase, TypeOK, Trav!TypeOK
    <2>2. \A o \in big : o \in Outputs /\ o[2] \in Nat
        BY <1>1, OutputFacts DEF TypeOK
    <2> QED
        BY <1>1, <1>5, <2>1, <2>2 DEF JudgeCase, travVars
<1> QED
    BY <1>2, <1>3, <1>4, <1>5 DEF Next, Judging, Uploading, SendOutput, CloseOutputs, Return,
        TakeOutput, StopUploader, UploadOk, UploadFails, RetryUpload, CancelContext,
        UploadVarsBut, resultVars

LEMMA ErrKept ==
    ASSUME JudgeInv, Next
    PROVE  ErrOK'
<1> USE DEF ErrOK
<1>1. Trav!TravInv /\ ErrOK /\ TypeOK
    BY DEF JudgeInv, OutputsAccounted
<1>2. CASE UNCHANGED <<travVars, err>>
    BY <1>1, <1>2 DEF travVars
<1>3. CASE Walk
    BY <1>1, <1>3 DEF Walk, resultVars, Trav!Scan, Trav!RemoveEdge, Trav!EndLoop, Trav!Finish
<1>4. CASE StartSubtask
    BY <1>1, <1>4, PoppedIsNew DEF StartSubtask, Trav!TravInv, Trav!TypeOK
<1>5. ASSUME NEW accepts \in BOOLEAN, NEW long \in BOOLEAN, JudgeCase(accepts, long)
      PROVE  ErrOK'
    BY <1>1, <1>5 DEF JudgeCase, travVars
<1>6. CASE JudgeFails
    BY <1>1, <1>6 DEF JudgeFails, Trav!CallbackFalse, Trav!TravInv, Trav!PhaseOK
<1>7. CASE EndSubtask
    BY <1>1, <1>7 DEF EndSubtask, resultVars, Trav!CallbackTrue
<1> QED
    BY <1>2, <1>3, <1>4, <1>5, <1>6, <1>7 DEF Next, Judging, Uploading, SendOutput, CloseOutputs,
        Return, TakeOutput, StopUploader, UploadOk, UploadFails, RetryUpload, CancelContext,
        UploadVarsBut, resultVars

(* The attempts of the backoff                                             *)
AttemptsInv == attempts \in [Outputs -> Nat] /\ AttemptsOK /\ GivenUpOK

LEMMA NoOutputInHand == NoOutput \notin Outputs
BY JudgeAssumption, OutputFacts DEF JudgeAssumption

LEMMA AttemptsKept ==
    ASSUME JudgeInv, Next
    PROVE  AttemptsInv'
<1>1. /\ attempts \in [Outputs -> Nat] /\ AttemptsOK /\ GivenUpOK
      /\ output \in Outputs \cup {NoOutput} /\ tries \in 0..MaxRetries
      /\ output # NoOutput <=> uploader \in {"upload", "backoff"}
      /\ output \notin outputKey \cup dropped
      /\ outputKey \cup dropped \subseteq Outputs
    BY DEF JudgeInv, OutputsAccounted, TypeOK, UploaderOK
<1>2. CASE UNCHANGED <<output, tries, attempts, outputKey, dropped>> /\ (ctxDone => ctxDone')
    BY <1>1, <1>2 DEF AttemptsInv, AttemptsOK, GivenUpOK
<1>3. CASE TakeOutput
    <2>1. /\ output = NoOutput /\ output' \in InChan /\ tries' = 0
          /\ UNCHANGED <<attempts, outputKey, dropped, ctxDone>>
        BY <1>1, <1>3, TP!PopFacts, Assumed DEF TakeOutput, UploadVarsBut, InChan, JudgeInv,
            OutputsAccounted, TypeOK
    <2>2. InChan \subseteq Outputs /\ InChan \cap (outputKey \cup dropped) = {}
        BY DEF JudgeInv, OutputsAccounted, TypeOK, InChan
    <2> QED
        BY <1>1, <2>1, <2>2, NoOutputInHand DEF AttemptsInv, AttemptsOK, GivenUpOK
<1>4. ASSUME DropOutput, UNCHANGED <<outputKey, ctxDone>>, uploader \in {"upload", "backoff"},
             \/ attempts' = attempts /\ ctxDone
             \/ Attempt /\ (tries = MaxRetries \/ ctxDone)
      PROVE  AttemptsInv'
    <2>1. /\ output \in Outputs /\ attempts[output] = tries /\ MaxRetries \in Nat
          /\ output' = NoOutput /\ dropped' = dropped \cup {output}
        BY <1>1, <1>4, JudgeAssumption DEF AttemptsOK, DropOutput, JudgeAssumption
    <2>2. /\ attempts' \in [Outputs -> Nat]
          /\ \A o \in Outputs \ {output} : attempts'[o] = attempts[o]
          /\ attempts'[output] = MaxRetries + 1 \/ ctxDone
        BY <1>1, <1>4, <2>1 DEF Attempt
    <2>3. AttemptsOK'
        BY <1>1, <1>4, <2>1, <2>2 DEF AttemptsOK
    <2>4. GivenUpOK'
        BY <1>1, <1>4, <2>1, <2>2 DEF GivenUpOK
    <2> QED
        BY <2>2, <2>3, <2>4 DEF AttemptsInv
<1>5. ASSUME uploader = "upload", Attempt, UNCHANGED <<dropped, ctxDone>>,
             \/ output' = NoOutput /\ outputKey' = outputKey \cup {output}
             \/ UNCHANGED <<output, outputKey>> /\ tries' = tries + 1
      PROVE  AttemptsInv'
    <2>1. output \in Outputs /\ attempts[output] = tries /\ output # NoOutput
        BY <1>1, <1>5 DEF AttemptsOK
    <2>2. /\ attempts' \in [Outputs -> Nat]
          /\ \A o \in Outputs \ {output} : attempts'[o] = attempts[o]
          /\ attempts'[output] = tries + 1
        BY <1>1, <1>5, <2>1 DEF Attempt
    <2>3. AttemptsOK'
        BY <1>1, <1>5, <2>1, <2>2 DEF AttemptsOK
    <2>4. GivenUpOK'
        BY <1>1, <1>5, <2>1, <2>2 DEF GivenUpOK
    <2> QED
        BY <2>2, <2>3, <2>4 DEF AttemptsInv
<1>6. CASE UploadOk
    BY <1>5, <1>6 DEF UploadOk, UploadVarsBut
<1>7. CASE UploadFails
    BY <1>4, <1>5, <1>7 DEF UploadFails, UploadVarsBut, PauseAndRetry
<1>8. CASE RetryUpload
    BY <1>2, <1>4, <1>8 DEF RetryUpload, UploadVarsBut
<1> QED
    BY <1>2, <1>3, <1>6, <1>7, <1>8 DEF Next, Judging, Uploading, Walk, StartSubtask, JudgeCase,
        SendOutput, JudgeFails, EndSubtask, CloseOutputs, Return, StopUploader, CancelContext,
        UploadVarsBut, uploadVars

(* The outputs, the channel and the uploader, action by action.            *)
OutputsInv == OutputsAccounted /\ SenderOK /\ UploaderOK

(* Steps of the judging goroutine that leave outputs and channel alone.    *)
LEMMA OtherStepsKeep ==
    ASSUME JudgeInv, Trav!TravInv', AttemptsInv', UNCHANGED <<step, big, chanVars, uploadVars, ctxDone>>,
           err' \in BOOLEAN, step = "judge", case' \in Nat, pc' = "call" => case' <= Cases[cur'],
           conclusion' \in [Subtasks -> Conclusions]
    PROVE  OutputsInv'
<1>1. TypeOK'
    BY DEF JudgeInv, OutputsAccounted, TypeOK, Trav!TravInv, chanVars, uploadVars
<1>2. OutputsAccounted'
    BY <1>1 DEF JudgeInv, OutputsAccounted, AttemptsInv, InChan, chanVars, uploadVars
<1>3. SenderOK' /\ UploaderOK'
    BY DEF JudgeInv, SenderOK, UploaderOK, InChan, chanVars, uploadVars
<1> QED
    BY <1>2, <1>3 DEF OutputsInv

LEMMA WalkKeepsOutputs ==
    ASSUME JudgeInv, Trav!TravInv', AttemptsInv', Walk \/ StartSubtask \/ JudgeFails \/ EndSubtask
    PROVE  OutputsInv'
<1>1. Trav!TravInv /\ TypeOK /\ SenderOK
    BY DEF JudgeInv, OutputsAccounted
<1>2. CASE Walk
    <2>1. step = "judge" /\ pc' # "call"
        BY <1>1, <1>2 DEF TypeOK, SenderOK, Walk, Trav!Scan, Trav!RemoveEdge, Trav!EndLoop,
            Trav!Finish
    <2> QED
        BY <1>1, <1>2, <2>1, OtherStepsKeep DEF Walk, TypeOK, resultVars
<1>3. CASE StartSubtask
    <2>1. step = "judge" /\ cur' \in Subtasks
        BY <1>1, <1>3, PoppedIsNew DEF TypeOK, SenderOK, StartSubtask
    <2>2. Cases[cur'] \in Nat
        BY <2>1, JudgeAssumption DEF JudgeAssumption
    <2>3. conclusion' \in [Subtasks -> Conclusions]
        BY <1>1, <1>3, <2>1 DEF TypeOK, StartSubtask, Conclusions
    <2> QED
        BY <1>1, <1>3, <2>1, <2>2, <2>3, OtherStepsKeep DEF StartSubtask, TypeOK
<1>4. CASE JudgeFails
    BY <1>1, <1>4, OtherStepsKeep DEF JudgeFails, Trav!CallbackFalse, TypeOK
<1>5. CASE EndSubtask
    BY <1>1, <1>5, OtherStepsKeep DEF EndSubtask, Trav!CallbackTrue, TypeOK, resultVars
<1> QED
    BY <1>2, <1>3, <1>4, <1>5

LEMMA JudgeCaseKeepsOutputs ==
    ASSUME JudgeInv, Trav!TravInv', AttemptsInv', NEW accepts \in BOOLEAN, NEW long \in BOOLEAN,
           JudgeCase(accepts, long)
    PROVE  OutputsInv'
<1> USE DEF JudgeCase
<1>1. /\ TypeOK /\ OutputsAccounted /\ SenderOK /\ UploaderOK /\ OutputsJudged
      /\ Trav!TypeOK
    BY DEF JudgeInv, OutputsAccounted, TypeOK
<1>2. /\ cur \in Subtasks /\ Cases[cur] \in Nat /\ case \in Nat
      /\ case' \in 1..Cases[cur] /\ cur' = cur /\ pc' = pc /\ <<cur, case'>> \in Outputs
    BY <1>1, JudgeAssumption, OutputFacts DEF TypeOK, Trav!TypeOK, JudgeAssumption, Trav!TravInv,
        Trav!PhaseOK, JudgeInv, travVars
<1>3. conclusion' \in [Subtasks -> Conclusions]
    BY <1>1, <1>2 DEF TypeOK, Conclusions
<1>4. CASE ~long
    <2>1. case' \in Nat /\ case' <= Cases[cur']
        BY <1>2
    <2>2. err' \in BOOLEAN
        OBVIOUS
    <2> QED
        BY <1>3, <1>4, <2>1, <2>2, OtherStepsKeep
<1>5. CASE long
    <2>1. <<cur, case'>> \notin big
        BY <1>1, <1>2 DEF OutputsJudged
    <2>2. TypeOK'
        <3>1. big' \subseteq Outputs
            BY <1>1, <1>2, <1>5 DEF TypeOK
        <3>2. case' \in Nat /\ case' <= Cases[cur'] /\ Trav!TypeOK'
            BY <1>2 DEF Trav!TravInv
        <3> QED
            BY <1>1, <1>3, <1>5, <3>1, <3>2 DEF TypeOK, chanVars, uploadVars
    <2>3. InChan' = InChan /\ <<cur, case'>> \notin InChan \cup outputKey \cup dropped \cup {output}
        BY <1>1, <1>2, <2>1, NoOutputInHand DEF OutputsAccounted, InChan, chanVars
    <2>4. OutputsAccounted'
        BY <1>1, <1>2, <1>5, <2>2, <2>3 DEF OutputsAccounted, AttemptsInv, chanVars, uploadVars
    <2>5. SenderOK' /\ UploaderOK'
        BY <1>1, <1>2, <1>5, <2>3 DEF SenderOK, UploaderOK, chanVars, uploadVars
    <2> QED
        BY <2>4, <2>5 DEF OutputsInv
<1> QED
    BY <1>4, <1>5

LEMMA SendOutputKeepsOutputs ==
    ASSUME JudgeInv, Trav!TravInv', AttemptsInv', SendOutput
    PROVE  OutputsInv'
<1> USE DEF SendOutput
<1> DEFINE o == <<cur, case>>
<1>1. TypeOK /\ OutputsAccounted /\ SenderOK /\ UploaderOK
    BY DEF JudgeInv, OutputsAccounted, TypeOK
<1>2. o \in Outputs /\ o \notin InChan \cup outputKey \cup dropped \cup {output}
    BY <1>1 DEF OutputsAccounted, SenderOK, TypeOK
<1> HIDE DEF o
<1>3. caseOutputCh \in Seq(Outputs) /\ caseOutputCh' = Append(caseOutputCh, o)
    BY <1>1 DEF TypeOK, o
<1>4. /\ caseOutputCh' \in Seq(Outputs)
      /\ InChan' = InChan \cup {o}
      /\ \A i, j \in DOMAIN caseOutputCh' : caseOutputCh'[i] = caseOutputCh'[j] => i = j
    BY <1>1, <1>2, <1>3, TP!PushFacts, Assumed DEF InChan, OutputsAccounted
<1>5. TypeOK'
    <2>1. Len(caseOutputCh') <= ChanCap
        BY <1>3, JudgeAssumption DEF JudgeAssumption
    <2> QED
        BY <1>1, <1>4, <2>1 DEF TypeOK, travVars, uploadVars, Trav!TravInv
<1>6. OutputsAccounted'
    <2>1. UNCHANGED <<big, output, outputKey, dropped>> /\ step = "send" /\ step' # "send"
        BY DEF uploadVars
    <2> HIDE DEF SendOutput
    <2>2. big' = InChan' \cup outputKey' \cup dropped' \cup (IF output' # NoOutput THEN {output'} ELSE {})
        BY <1>1, <1>4, <2>1 DEF OutputsAccounted, o
    <2>3. /\ (InChan' \cup {output'}) \cap (outputKey' \cup dropped') = {}
          /\ output' \notin InChan' /\ outputKey' \cap dropped' = {}
        BY <1>1, <1>2, <1>4, <2>1 DEF OutputsAccounted
    <2> QED
        BY <1>4, <1>5, <2>1, <2>2, <2>3 DEF OutputsAccounted, AttemptsInv
<1>7. ~outputsClosed /\ outputsClosed' = outputsClosed /\ step = "send" /\ step' = "judge"
    BY <1>1 DEF SenderOK
<1>8. SenderOK'
    BY <1>7 DEF SenderOK
<1>9. UploaderOK'
    <2>1. UNCHANGED <<uploader, output, ctxDone>>
        BY DEF uploadVars
    <2> HIDE DEF SendOutput
    <2> QED
        BY <1>1, <1>7, <2>1 DEF UploaderOK
<1> QED
    BY <1>6, <1>8, <1>9 DEF OutputsInv

LEMMA EndKeepsOutputs ==
    ASSUME JudgeInv, Trav!TravInv', AttemptsInv', CloseOutputs \/ Return
    PROVE  OutputsInv'
<1>1. TypeOK /\ OutputsAccounted /\ SenderOK /\ UploaderOK
    BY DEF JudgeInv, OutputsAccounted, TypeOK
<1>2. CASE CloseOutputs
    BY <1>1, <1>2 DEF OutputsInv, AttemptsInv, CloseOutputs, TypeOK, OutputsAccounted, SenderOK, UploaderOK,
        InChan, chanVars, uploadVars, travVars, Trav!TravInv
<1>3. CASE Return
    BY <1>1, <1>3 DEF OutputsInv, AttemptsInv, Return, TypeOK, OutputsAccounted, SenderOK, UploaderOK,
        InChan, chanVars, uploadVars, travVars, Trav!TravInv
<1> QED
    BY <1>2, <1>3

LEMMA TakeKeepsOutputs ==
    ASSUME JudgeInv, Trav!TravInv', AttemptsInv', TakeOutput
    PROVE  OutputsInv'
<1> USE DEF TakeOutput, UploadVarsBut
<1>1. TypeOK /\ OutputsAccounted /\ SenderOK /\ UploaderOK /\ output = NoOutput
    BY DEF JudgeInv, OutputsAccounted, TypeOK, UploaderOK
<1>2. caseOutputCh \in Seq(Outputs) /\ caseOutputCh # <<>>
    BY <1>1 DEF TypeOK
<1>3. /\ caseOutputCh' \in Seq(Outputs) /\ output' \in Outputs
      /\ InChan = InChan' \cup {output'} /\ output' \notin InChan'
      /\ \A i, j \in DOMAIN caseOutputCh' : caseOutputCh'[i] = caseOutputCh'[j] => i = j
    <2> DEFINE q == caseOutputCh
    <2>1. \A i, j \in DOMAIN q : q[i] = q[j] => i = j
        BY <1>1 DEF OutputsAccounted
    <2>2. /\ Tail(q) \in Seq(Outputs) /\ Head(q) \in Outputs
          /\ {q[i] : i \in DOMAIN q} = {Tail(q)[i] : i \in DOMAIN Tail(q)} \cup {Head(q)}
          /\ Head(q) \notin {Tail(q)[i] : i \in DOMAIN Tail(q)}
          /\ \A i, j \in DOMAIN Tail(q) : Tail(q)[i] = Tail(q)[j] => i = j
        BY <1>2, <2>1, TP!PopFacts, Assumed
    <2> QED
        BY <2>2 DEF InChan
<1>4. TypeOK'
    <2>1. Len(caseOutputCh') <= ChanCap /\ 0 \in 0..MaxRetries
        BY <1>1, <1>2, JudgeAssumption DEF JudgeAssumption, TypeOK
    <2> QED
        BY <1>1, <1>3, <2>1 DEF TypeOK, travVars, resultVars, Trav!TravInv
<1>5. OutputsAccounted'
    BY <1>1, <1>3, <1>4, NoOutputInHand DEF OutputsAccounted, AttemptsInv, travVars, resultVars
<1>6. SenderOK' /\ UploaderOK'
    BY <1>1, <1>3, NoOutputInHand DEF SenderOK, UploaderOK, travVars, resultVars
<1> QED
    BY <1>5, <1>6 DEF OutputsInv

LEMMA UploadingKeepsOutputs ==
    ASSUME JudgeInv, Trav!TravInv', AttemptsInv', StopUploader \/ UploadOk \/ UploadFails \/ RetryUpload
    PROVE  OutputsInv'
<1> USE DEF UploadVarsBut, travVars, resultVars
<1>1. /\ TypeOK /\ OutputsAccounted /\ SenderOK /\ UploaderOK
      /\ InChan' = InChan
    BY DEF JudgeInv, OutputsAccounted, TypeOK, InChan, StopUploader, UploadOk, UploadFails,
        RetryUpload
<1>2. CASE StopUploader
    BY <1>1, <1>2 DEF StopUploader, OutputsInv, AttemptsInv, OutputsAccounted, TypeOK, SenderOK, UploaderOK,
        Trav!TravInv
<1>3. CASE UploadOk
    BY <1>1, <1>3, NoOutputInHand DEF UploadOk, OutputsInv, AttemptsInv, OutputsAccounted, TypeOK, SenderOK,
        UploaderOK, Trav!TravInv
<1>4. ASSUME DropOutput, uploader \in {"upload", "backoff"},
             UNCHANGED <<travVars, resultVars, outputsClosed, ctxDone, caseOutputCh, outputKey>>
      PROVE  OutputsInv'
    BY <1>1, <1>4, NoOutputInHand DEF DropOutput, OutputsInv, AttemptsInv, OutputsAccounted, TypeOK, SenderOK,
        UploaderOK, Trav!TravInv
<1>5. ASSUME PauseAndRetry, tries < MaxRetries, uploader = "upload",
             UNCHANGED <<travVars, resultVars, outputsClosed, ctxDone, caseOutputCh, outputKey>>
      PROVE  OutputsInv'
    <2>1. tries' \in 0..MaxRetries
        BY <1>1, <1>5, JudgeAssumption DEF JudgeAssumption, TypeOK, PauseAndRetry
    <2> QED
        BY <1>1, <1>5, <2>1 DEF PauseAndRetry, OutputsInv, AttemptsInv, OutputsAccounted, TypeOK, SenderOK,
            UploaderOK, Trav!TravInv
<1>6. ASSUME uploader = "backoff", uploader' = "upload",
             UNCHANGED <<output, tries, dropped>>, UNCHANGED <<travVars, resultVars, outputsClosed, ctxDone, caseOutputCh, outputKey>>
      PROVE  OutputsInv'
    BY <1>1, <1>6 DEF OutputsInv, AttemptsInv, OutputsAccounted, TypeOK, SenderOK, UploaderOK, Trav!TravInv
<1> QED
    BY <1>2, <1>3, <1>4, <1>5, <1>6 DEF UploadFails, RetryUpload

LEMMA JudgeInvNext == JudgeInv /\ [Next]_vars => JudgeInv'
<1> SUFFICES ASSUME JudgeInv, [Next]_vars  PROVE JudgeInv'
    OBVIOUS
<1>1. Trav!TravInv'
    BY TravNext, TravSteps DEF JudgeInv
<1>2. CASE Next
    <2>0. AttemptsInv'
        BY <1>2, AttemptsKept
    <2>1. OutputsInv'
        <3>1. CASE Judging
            BY <1>1, <2>0, <3>1, WalkKeepsOutputs, JudgeCaseKeepsOutputs, SendOutputKeepsOutputs,
                EndKeepsOutputs DEF Judging
        <3>2. CASE Uploading
            BY <1>1, <2>0, <3>2, TakeKeepsOutputs, UploadingKeepsOutputs DEF Uploading
        <3>3. CASE CancelContext
            BY <1>1, <2>0, <3>3 DEF CancelContext, JudgeInv, OutputsInv, OutputsAccounted, TypeOK,
                AttemptsInv, SenderOK, UploaderOK, InChan, travVars, resultVars, chanVars, uploadVars,
                Trav!TravInv
        <3> QED
            BY <1>2, <3>1, <3>2, <3>3 DEF Next
    <2> QED
        BY <1>1, <1>2, <2>0, <2>1, JudgedKept, ErrKept DEF JudgeInv, OutputsInv, AttemptsInv
<1>3. CASE UNCHANGED vars
    BY <1>1, <1>3 DEF vars, JudgeInv, OutputsAccounted, TypeOK, SenderOK, UploaderOK, InChan,
        AttemptsOK, GivenUpOK, OutputsJudged, ErrOK, travVars, resultVars, chanVars, uploadVars, Trav!TravInv
<1> QED
    BY <1>2, <1>3

LEMMA JudgeInvariant == Spec => []JudgeInv
BY JudgeInvInit, JudgeInvNext, PTL DEF Spec

-----------------------------------------------------------------------------
(* What judgeOnDAG promises *)

(* No output that is too long for the record is lost on its way through    *)
(* the channel and the retries, and none is uploaded twice.                *)
THEOREM OutputsAreAccounted == Spec => []OutputsAccounted
<1>1. JudgeInv => OutputsAccounted
    BY DEF JudgeInv
<1> QED
    BY <1>1, JudgeInvariant, PTL

(* When judgeOnDAG returns and its context is alive, the uploader has      *)
(* tried every output: return waits for it, and it drains the channel.     *)
THEOREM UploadsAreTried == Spec => []AllUploadsTried
<1>1. JudgeInv => AllUploadsTried
    BY DEF JudgeInv, AllUploadsTried, OutputsAccounted, SenderOK, UploaderOK, InChan
<1> QED
    BY <1>1, JudgeInvariant, PTL

(* judgeOnDAG returns an error only if a subtask failed, and always when   *)
(* the last one did.                                                       *)
THEOREM ErrorIsReported == Spec => []LastFailureReported
<1>1. JudgeInv => LastFailureReported
    BY DEF JudgeInv, LastFailureReported, SenderOK, ErrOK, UploaderOK, Trav!TravInv, Trav!TypeOK
<1> QED
    BY <1>1, JudgeInvariant, PTL

(* Neither goroutine writes to the results after judgeOnDAG has returned   *)
(* them.                                                                   *)
THEOREM ResultIsStable == Spec => ResultStable
<1>1. JudgeInv /\ [Next]_vars => [step = "returned" => UNCHANGED <<outputKey, conclusion>>]_vars
    <2> SUFFICES ASSUME JudgeInv, Next, step = "returned"
                 PROVE  UNCHANGED <<outputKey, conclusion>>
        OBVIOUS
    <2>1. pc = "done" /\ uploader = "done"
        BY DEF JudgeInv, SenderOK, UploaderOK
    <2> QED
        BY <2>1 DEF Next, Judging, Uploading, Walk, StartSubtask, JudgeCase, SendOutput,
            JudgeFails, EndSubtask, CloseOutputs, Return, TakeOutput, StopUploader, UploadOk,
            UploadFails, RetryUpload, CancelContext, UploadVarsBut, Trav!Pop, resultVars,
            uploadVars, travVars
<1> QED
    BY <1>1, JudgeInvariant, PTL DEF Spec, ResultStable

(* Inside judgeOnDAG, too, a subtask is judged at most once, and only when *)
(* the callback has returned true for all of its predecessors.             *)
THEOREM SubtasksInOrder == Spec => [](Trav!CalledOnce /\ Trav!Topological)
<1>1. JudgeInv => Trav!CalledOnce /\ Trav!Topological
    <2>1. Trav!TravInv => Trav!Topological
        BY DEF Trav!TravInv, Trav!Released, Trav!Topological, Trav!Pending
    <2> QED
        BY <2>1 DEF JudgeInv, Trav!TravInv
<1> QED
    BY <1>1, JudgeInvariant, PTL
=============================================================================

----------------------------- MODULE OutputFile -----------------------------
(***************************************************************************)
(* The way of the outputs of one run into the record and to the backend:   *)
(* Judge compares an output and rewinds its file (src/judge/judge.go), the *)
(* callback of judgeOnDAG puts its beginning into the record and queues it *)
(* if it is too long, the uploader rewinds and sends it, as often as it    *)
(* has to; compile puts both outputs of the compiler into one text         *)
(* (src/worker/worker.go).  All of them move the offset of the same file.  *)
(***************************************************************************)
EXTENDS Truncate

CONSTANTS
    Limits,     \* values of JudgeOptions.MaxTruncatedOutput
    MaxSize,    \* bound on the size of an output
    MaxRetries  \* retries of one upload after its first attempt

ASSUME OutputAssumption ==
    /\ Limits \subseteq Nat
    /\ {MaxSize, MaxRetries} \subseteq Nat

VARIABLES
    run,        \* what was run: kind, limit, accepted, exitZero, faulty
    size,       \* sizes of stdout (or the output file of the problem), stderr
    offset,     \* the read offsets of the files
    step,       \* where the result is
    record,     \* TruncatedOutput or CompilerOutput
    tries,      \* failed attempts of the upload
    uploaded    \* what the backend has stored

fixed == <<run, size>>
outputVars == <<fixed, offset, step, record, tries, uploaded>>

Streams == {"stdout", "stderr"}
None == <<>>

(* The status is accepted only if the exit status is zero.                 *)
RunInputs ==
    /\ run \in [kind : {"case", "compilation"}, limit : Limits,
                accepted : BOOLEAN, exitZero : BOOLEAN, faulty : BOOLEAN]
    /\ run.accepted => run.exitZero
    /\ size \in [Streams -> 0..MaxSize]

(* reseekAndGetSize has rewound both files. *)
OutputInit ==
    /\ RunInputs
    /\ offset = [f \in Streams |-> 0]
    /\ step = run.kind
    /\ record = None
    /\ tries = 0
    /\ uploaded = None

Proceed(from, to) == step = from /\ step' = to
Seek(f, n) == offset' = [offset EXCEPT ![f] = n]
Left(f) == SubSeq(Text(f, size[f]), offset[f] + 1, size[f])

(* A read of a faulty disk may fail. *)
Fails == IF run.faulty THEN BOOLEAN ELSE {FALSE}

-----------------------------------------------------------------------------
(* Judge *)

(* A program that did not exit properly is not compared. *)
SkipComparison ==
    /\ ~run.accepted
    /\ Proceed("case", "record")
    /\ UNCHANGED <<fixed, offset, record, tries, uploaded>>

(* The comparator reads as much as it needs.  If it fails, so does Judge,  *)
(* and the case has no output.                                             *)
Compare ==
    /\ run.accepted
    /\ \/ Proceed("case", "rewind")
       \/ Proceed("case", "no record")
    /\ \E n \in 0..size["stdout"] : Seek("stdout", n)
    /\ UNCHANGED <<fixed, record, tries, uploaded>>

Rewind ==
    /\ Proceed("rewind", "record")
    /\ Seek("stdout", 0)
    /\ UNCHANGED <<fixed, record, tries, uploaded>>

RewindFails ==
    /\ run.faulty
    /\ Proceed("rewind", "no record")
    /\ UNCHANGED <<fixed, offset, record, tries, uploaded>>

-----------------------------------------------------------------------------
(* The callback of judgeOnDAG *)

outputFile == IF run.exitZero THEN "stdout" ELSE "stderr"
outputSize == size[outputFile]

RecordCase ==
    LET buffLen == Clamp(outputSize, 0, run.limit) IN
    /\ Proceed("record", IF outputSize > buffLen THEN "upload" ELSE "done")
    /\ \E fails \in Fails :
        record' = truncate(<<>>, Read(Left(outputFile), buffLen, fails), buffLen)
    /\ Seek(outputFile, Clamp(offset[outputFile] + buffLen, 0, outputSize))
    /\ UNCHANGED <<fixed, tries, uploaded>>

-----------------------------------------------------------------------------
(* The uploader *)

SeekStart ==
    /\ Proceed("upload", "put")
    /\ Seek(outputFile, 0)
    /\ UNCHANGED <<fixed, record, tries, uploaded>>

PutOk ==
    /\ Proceed("put", "done")
    /\ uploaded' = Left(outputFile)
    /\ Seek(outputFile, outputSize)
    /\ UNCHANGED <<fixed, record, tries>>

(* Mutant: the file is rewound once, before the first attempt. *)
PutFailsKeepsOffset ==
    /\ tries' = tries + 1
    /\ Proceed("put", IF tries < MaxRetries THEN "put" ELSE "dropped")
    /\ \E n \in offset[outputFile]..outputSize : Seek(outputFile, n)
    /\ UNCHANGED <<fixed, record, uploaded>>

(* PutResourceStream fails after it has read a part of the file.           *)
PutFails ==
    /\ tries' = tries + 1
    /\ Proceed("put", IF tries < MaxRetries THEN "upload" ELSE "dropped")
    /\ \E n \in offset[outputFile]..outputSize : Seek(outputFile, n)
    /\ UNCHANGED <<fixed, record, uploaded>>

SeekFails ==
    /\ run.faulty
    /\ tries' = tries + 1
    /\ Proceed("upload", IF tries < MaxRetries THEN "upload" ELSE "dropped")
    /\ UNCHANGED <<fixed, offset, record, uploaded>>

-----------------------------------------------------------------------------
(* compile *)

Printed == {f \in Streams : size[f] > 0}
Limit(f, g) == StreamLimit(size[f], size[g], run.limit)

Recorded(f, prefix, buffLen) ==
    {truncate(prefix, Read(Left(f), buffLen, fails), buffLen) : fails \in Fails}

(* truncateOutput *)
RecordBoth ==
    LET out == Limit("stdout", "stderr")
        err == Limit("stderr", "stdout")
    IN  /\ Printed = Streams
        /\ ~Panics(Header("stdout"), out) /\ ~Panics(Header("stderr"), err)
        /\ Proceed("compilation", "done")
        /\ \E a \in Recorded("stdout", Header("stdout"), out),
              b \in Recorded("stderr", Header("stderr"), err) : record' = a \o b
        /\ UNCHANGED <<fixed, offset, tries, uploaded>>

RecordPanics ==
    /\ Printed = Streams
    /\ \/ Panics(Header("stdout"), Limit("stdout", "stderr"))
       \/ Panics(Header("stderr"), Limit("stderr", "stdout"))
    /\ Proceed("compilation", "dead")
    /\ UNCHANGED <<fixed, offset, record, tries, uploaded>>

RecordOne(f) ==
    /\ Printed = {f}
    /\ Proceed("compilation", "done")
    /\ LET buffLen == Clamp(size[f], 0, run.limit) IN record' \in Recorded(f, <<>>, buffLen)
    /\ UNCHANGED <<fixed, offset, tries, uploaded>>

(* Without any output the status stands for it, unless it is accepted.     *)
RecordStatus ==
    /\ Printed = {}
    /\ Proceed("compilation", "done")
    /\ record' = IF run.accepted THEN None ELSE Text("status", 1)
    /\ UNCHANGED <<fixed, offset, tries, uploaded>>

-----------------------------------------------------------------------------

Judge == SkipComparison \/ Compare \/ Rewind \/ RewindFails \/ RecordCase
Uploader == SeekStart \/ SeekFails \/ PutOk \/ PutFails
Compile == RecordBoth \/ RecordPanics \/ RecordStatus \/ \E f \in Streams : RecordOne(f)

OutputNext == Judge \/ Uploader \/ Compile

OutputSpec == OutputInit /\ [][OutputNext]_outputVars

-----------------------------------------------------------------------------
(* Properties *)

OutputTypeOK ==
    /\ step \in {"case", "rewind", "record", "no record", "upload", "put", "dropped",
                 "compilation", "done", "dead"}
    /\ offset \in [Streams -> Nat]
    /\ \A f \in Streams : offset[f] <= size[f]
    /\ tries \in 0..MaxRetries + 1

(* Nothing of what a program wrote is lost, although the comparator, the   *)
(* record and each attempt to upload share one file offset: the record     *)
(* holds its output, or the beginning of it while the backend gets all.    *)
OutputKept ==
    run.kind = "case" /\ ~run.faulty =>
        /\ OutputTypeOK
        /\ step = "done" => Text(outputFile, outputSize) \in {record, uploaded}
        /\ step \in {"done", "upload", "put", "dropped"} =>
            record = Text(outputFile, Clamp(outputSize, 0, run.limit))

(* The record respects the limit, but for the headers of two streams that  *)
(* fit together, which are then both shown in full; and no part of it is   *)
(* cut at a negative position unless the limit leaves no room for two.     *)
ShownInFull == Printed = Streams /\ size["stdout"] + size["stderr"] <= run.limit
RecordBounded ==
    ~run.faulty =>
        /\ step = "dead" => run.limit < 2
        /\ ShownInFull /\ run.kind = "compilation" /\ step = "done" =>
            record = WithPrefix(Header("stdout"), Text("stdout", size["stdout"]))
                     \o WithPrefix(Header("stderr"), Text("stderr", size["stderr"]))
        /\ run.kind = "case" \/ ~ShownInFull =>
            Len(record) <= run.limit \/ (Printed = {} /\ run.kind = "compilation")

-----------------------------------------------------------------------------
(* The inductive invariant behind the theorems of RecordProofs.            *)

(* A compilation and a test case never meet, and a compilation reads the   *)
(* files from their beginning.                                             *)
StepOfKind ==
    /\ run.kind = "compilation" =>
        step \in {"compilation", "done", "dead"} /\ \A f \in Streams : offset[f] = 0
    /\ run.kind = "case" => step \notin {"compilation", "dead"}

(* Each reader after the comparator finds the file at its beginning.       *)
Rewound ==
    /\ step \in {"case", "record"} => \A f \in Streams : offset[f] = 0
    /\ step = "rewind" => offset["stderr"] = 0
    /\ step = "put" => offset[outputFile] = 0

NotRecorded ==
    step \in {"case", "rewind", "record", "no record", "compilation", "dead"} => record = None

RetriesLeft == step # "dropped" => tries <= MaxRetries

OutputInv ==
    /\ RunInputs /\ OutputTypeOK
    /\ StepOfKind /\ Rewound /\ NotRecorded /\ RetriesLeft
    /\ OutputKept /\ RecordBounded
=============================================================================

----------------------------- MODULE JudgeManager -----------------------------
(***************************************************************************)
(* The judge manager (src/judge/judge.go) and the temporary files it       *)
(* shares with the sandbox (src/resource/filestore.go): several            *)
(* submissions are compiled, run on their test cases and cleaned up by the *)
(* goroutines of their workers.  The sandbox is modelled by the outcomes   *)
(* that the code tells apart and by the calls it makes of the file store:  *)
(* the files it caches are created by New and indexed by Add, the output   *)
(* of a run is created by New only.  One output file stands for those of   *)
(* one run.                                                                *)
(***************************************************************************)
EXTENDS Naturals, FiniteSets

CONSTANTS
    Submissions,
    Ids,        \* what GenerateID can return
    TestInput,  \* the id of a test case's input, "problem/..."
    MaxCases,   \* test cases of a submission
    NoId,       \* a nil *os.File
    NoFile      \* no file under this id

ASSUME JudgeAssumption ==
    /\ TestInput \notin Ids /\ NoId \notin Ids
    /\ MaxCases \in Nat \ {0}
    /\ NoFile \notin [owner : Submissions, kind : {"empty", "program", "output"}]

VARIABLES
    compiled,   \* submissions in a language that needs compilation
    disk,       \* the files in the directory of the file store
    tmpFiles,   \* the ids in its map of temporary files
    pc,         \* where the goroutine of each submission is
    file,       \* the file that Compile or the sandbox is writing
    program,    \* the program or source in ArtifactFileIDs
    withInput,  \* submissions whose map of artifacts has an input file, too
    left,       \* test cases still to be judged
    failed      \* submissions that were not compiled

store == <<disk, tmpFiles>>
vars == <<compiled, store, pc, file, program, withInput, left, failed>>

File(s, k) == [owner |-> s, kind |-> k]

Init ==
    /\ compiled \in SUBSET Submissions
    /\ disk = [i \in Ids |-> NoFile]
    /\ tmpFiles = {}
    /\ pc = [s \in Submissions |-> "compile"]
    /\ file = [s \in Submissions |-> NoId]
    /\ program = [s \in Submissions |-> NoId]
    /\ withInput = {}
    /\ left = [s \in Submissions |-> MaxCases]
    /\ failed = {}

Goto(s, from, to) == pc[s] = from /\ pc' = [pc EXCEPT ![s] = to]

-----------------------------------------------------------------------------
(* FileStore.New.  A taken id is not tried again: neither a file nor an    *)
(* error is returned.                                                      *)

Free(i) == disk[i] = NoFile

(* Mutant: the file is opened without O_EXCL. *)
CreateShared(s, i, k, f) ==
    /\ disk' = [disk EXCEPT ![i] = File(s, k)]
    /\ f = i

Create(s, i, k, f) ==
    IF Free(i)
    THEN disk' = [disk EXCEPT ![i] = File(s, k)] /\ f = i
    ELSE UNCHANGED disk /\ f = NoId

-----------------------------------------------------------------------------
(* Compile *)

(* The compilation ends without a program that the caller knows of; worker *)
(* removes nothing then.                                                   *)
NotCompiled(s) ==
    /\ pc' = [pc EXCEPT ![s] = "done"]
    /\ failed' = failed \cup {s}
    /\ UNCHANGED <<compiled, store, file, program, withInput, left>>

(* No such language, bad options, or an error of the sandbox with a result.*)
CompileFails(s) == pc[s] = "compile" /\ NotCompiled(s)

(* An error of the sandbox without results: Results[0] ends the process.   *)
CompilePanics(s) ==
    /\ pc[s] = "compile" /\ s \in compiled
    /\ pc' = [t \in Submissions |-> "dead"]
    /\ UNCHANGED <<compiled, store, file, program, withInput, left, failed>>

InterpretedLanguage(s) ==
    /\ Goto(s, "compile", "store")
    /\ s \notin compiled
    /\ UNCHANGED <<compiled, store, file, program, withInput, left, failed>>

RunCompiler(s, i) ==
    /\ Goto(s, "compile", "store")
    /\ s \in compiled
    /\ \E f \in Ids \cup {NoId} : Create(s, i, "output", f)
    /\ UNCHANGED <<compiled, tmpFiles, file, program, withInput, left, failed>>

(* The compiler leaves no program, whether it fails or, against its exit   *)
(* status, just does not write one; or New fails.                          *)
NothingStored(s) == pc[s] = "store" /\ NotCompiled(s)

NewFile(s, i) ==
    /\ Goto(s, "store", "write")
    /\ \E f \in Ids \cup {NoId} :
        /\ Create(s, i, "empty", f)
        /\ file' = [file EXCEPT ![s] = f]
    /\ UNCHANGED <<compiled, tmpFiles, program, withInput, left, failed>>

WriteFile(s) ==
    /\ Goto(s, "write", "add")
    /\ file[s] # NoId
    /\ disk' = [disk EXCEPT ![file[s]] = File(s, "program")]
    /\ UNCHANGED <<compiled, tmpFiles, file, program, withInput, left, failed>>

(* Also for a nil file.  What was created stays. *)
WriteFails(s) == pc[s] = "write" /\ NotCompiled(s)

AddFile(s) ==
    /\ Goto(s, "add", IF s \in compiled THEN "compiled" ELSE "judge")
    /\ tmpFiles' = tmpFiles \cup {file[s]}
    /\ program' = [program EXCEPT ![s] = file[s]]
    /\ UNCHANGED <<compiled, disk, file, withInput, left, failed>>

CompileOk(s) ==
    /\ Goto(s, "compiled", "judge")
    /\ UNCHANGED <<compiled, store, file, program, withInput, left, failed>>

(* A status other than accepted, or an output that cannot be read: the     *)
(* program is in the file store all the same.                              *)
CompileRejected(s) == pc[s] = "compiled" /\ NotCompiled(s)

-----------------------------------------------------------------------------
(* Judge, once per test case *)

StartCase(s, inputFile) ==
    /\ Goto(s, "judge", "run")
    /\ left[s] > 0
    /\ withInput' = IF inputFile THEN withInput \cup {s} ELSE withInput
    /\ UNCHANGED <<compiled, store, file, program, left, failed>>

EndCase(s) ==
    /\ pc' = [pc EXCEPT ![s] = "judge"]
    /\ left' = [left EXCEPT ![s] = @ - 1]
    /\ UNCHANGED <<compiled, tmpFiles, file, program, withInput, failed>>

(* The sandbox finds the program by FileStore.Get and collects its output, *)
(* if a file can be created for it.                                        *)
RunProgram(s, i) ==
    /\ Goto(s, "run", "compare")
    /\ ~Free(program[s])
    /\ \E f \in Ids \cup {NoId} : Create(s, i, "output", f)
    /\ UNCHANGED <<compiled, tmpFiles, file, program, withInput, left, failed>>

(* An error of the sandbox, or a status other than accepted. *)
RunFails(s) == pc[s] = "run" /\ EndCase(s) /\ UNCHANGED disk

(* The output is compared with the expected one; the output file stays.    *)
CompareOutput(s) == pc[s] = "compare" /\ EndCase(s) /\ UNCHANGED disk

-----------------------------------------------------------------------------
(* RemoveFiles, deferred by the worker *)

ArtifactFileIDs(s) == {program[s]} \cup (IF s \in withInput THEN {TestInput} ELSE {})

(* Mutant: as Remove does, the id is kept if the file cannot be removed. *)
RemoveFilesKeepsIndex(s) ==
    /\ Goto(s, "judge", "done")
    /\ left[s] = 0
    /\ \E removed \in SUBSET (ArtifactFileIDs(s) \cap tmpFiles) :
        /\ tmpFiles' = tmpFiles \ removed
        /\ disk' = [i \in Ids |-> IF i \in removed THEN NoFile ELSE disk[i]]
    /\ UNCHANGED <<compiled, file, program, withInput, left, failed>>

(* BulkRemove skips the ids that are not its own and forgets the others,   *)
(* even if os.Remove fails.                                                *)
RemoveFiles(s) ==
    /\ Goto(s, "judge", "done")
    /\ left[s] = 0
    /\ tmpFiles' = tmpFiles \ ArtifactFileIDs(s)
    /\ \E removed \in SUBSET (ArtifactFileIDs(s) \cap tmpFiles) :
        disk' = [i \in Ids |-> IF i \in removed THEN NoFile ELSE disk[i]]
    /\ UNCHANGED <<compiled, file, program, withInput, left, failed>>

-----------------------------------------------------------------------------

Next == \E s \in Submissions :
    \/ CompileFails(s) \/ CompilePanics(s)
    \/ InterpretedLanguage(s)
    \/ \E i \in Ids : RunCompiler(s, i) \/ NewFile(s, i)
    \/ NothingStored(s)
    \/ WriteFile(s) \/ WriteFails(s)
    \/ AddFile(s)
    \/ CompileOk(s) \/ CompileRejected(s)
    \/ \E inputFile \in BOOLEAN : StartCase(s, inputFile)
    \/ \E i \in Ids : RunProgram(s, i)
    \/ RunFails(s) \/ CompareOutput(s)
    \/ RemoveFiles(s)

Spec == Init /\ [][Next]_vars

-----------------------------------------------------------------------------
(* Properties *)

Judging == {"judge", "run", "compare"}

TypeOK ==
    /\ compiled \subseteq Submissions
    /\ disk \in [Ids -> [owner : Submissions, kind : {"empty", "program", "output"}] \cup {NoFile}]
    /\ tmpFiles \subseteq Ids
    /\ pc \in [Submissions -> {"compile", "store", "write", "add", "compiled", "done", "dead"} \cup Judging]
    /\ file \in [Submissions -> Ids \cup {NoId}]
    /\ program \in [Submissions -> Ids \cup {NoId}]
    /\ withInput \subseteq Submissions
    /\ left \in [Submissions -> 0..MaxCases]
    /\ failed \subseteq Submissions

(* As long as a submission is judged, its program is in the file store,    *)
(* whole and its own, whatever ids the other submissions draw, keep or     *)
(* give back meanwhile.                                                    *)
ProgramKept ==
    \A s \in Submissions : pc[s] \in Judging =>
        /\ program[s] \in tmpFiles
        /\ disk[program[s]] = File(s, "program")

(* The map of temporary files only knows programs, each of a submission    *)
(* that is not done with it or that was not compiled: the one way to leave *)
(* an entry behind for ever.                                               *)
IndexedHasOwner ==
    \A i \in tmpFiles : \E s \in Submissions :
        /\ disk[i] = File(s, "program")
        /\ program[s] = i
        /\ pc[s] = "done" => s \in failed

-----------------------------------------------------------------------------
(* The inductive invariant *)

(* A file that is being written belongs to its writer.                     *)
WriterOwnsFile ==
    \A s \in Submissions :
        /\ pc[s] = "write" /\ file[s] # NoId => disk[file[s]] = File(s, "empty")
        /\ pc[s] = "add" => file[s] # NoId /\ disk[file[s]] = File(s, "program")

ProgramStored ==
    \A s \in Submissions :
        /\ pc[s] \in Judging \cup {"compiled"} =>
            program[s] \in tmpFiles /\ disk[program[s]] = File(s, "program")
        /\ pc[s] \in {"compile", "store", "write", "add"} => program[s] = NoId

CasesLeft == \A s \in Submissions : pc[s] \in {"run", "compare"} => left[s] > 0

FilesInv == TypeOK /\ WriterOwnsFile /\ ProgramStored /\ IndexedHasOwner /\ CasesLeft
=============================================================================

-------------------------- MODULE JudgeManagerProofs --------------------------
(***************************************************************************)
(* Proofs about JudgeManager, for any submissions, ids and number of test  *)
(* cases: FilesInv is inductive.                                           *)
(***************************************************************************)
EXTENDS JudgeManager, TLAPS

(* What New leaves alone and what it returns. *)
LEMMA CreateFacts ==
    ASSUME TypeOK, NEW s \in Submissions, NEW i \in Ids,
           NEW k \in {"empty", "program", "output"}, NEW f, Create(s, i, k, f)
    PROVE  /\ disk' \in [Ids -> [owner : Submissions, kind : {"empty", "program", "output"}] \cup {NoFile}]
           /\ \A j \in Ids : disk[j] # NoFile => disk'[j] = disk[j]
           /\ f # NoId => disk'[f] = File(s, k)
           /\ f \in Ids \cup {NoId}
<1>1. CASE Free(i)
    BY <1>1 DEF Create, Free, File, TypeOK
<1>2. CASE ~Free(i)
    BY <1>2 DEF Create, TypeOK
<1> QED
    BY <1>1, <1>2

(* An indexed file or one that is being written is a file. *)
LEMMA FileExists ==
    ASSUME NEW s \in Submissions, NEW k \in {"empty", "program", "output"}
    PROVE  File(s, k) # NoFile
BY JudgeAssumption DEF JudgeAssumption, File

LEMMA FilesInit == Init => FilesInv
BY JudgeAssumption DEF JudgeAssumption, Init, FilesInv, TypeOK, WriterOwnsFile, ProgramStored,
    IndexedHasOwner, CasesLeft, Judging

(* A step of New within a run of the sandbox. *)
LEMMA OutputCreated ==
    ASSUME FilesInv, NEW s \in Submissions, NEW i \in Ids,
           RunCompiler(s, i) \/ RunProgram(s, i)
    PROVE  FilesInv'
<1> USE DEF FilesInv
<1>1. PICK f \in Ids \cup {NoId} : Create(s, i, "output", f)
    BY DEF RunCompiler, RunProgram
<1>2. /\ disk' \in [Ids -> [owner : Submissions, kind : {"empty", "program", "output"}] \cup {NoFile}]
      /\ \A j \in Ids : disk[j] # NoFile => disk'[j] = disk[j]
    BY <1>1, CreateFacts
<1>3. UNCHANGED <<compiled, tmpFiles, file, program, withInput, left, failed>>
    BY DEF RunCompiler, RunProgram
<1>4. \/ pc[s] = "compile" /\ pc' = [pc EXCEPT ![s] = "store"]
      \/ pc[s] = "run" /\ pc' = [pc EXCEPT ![s] = "compare"]
    BY DEF RunCompiler, RunProgram, Goto
<1>5. TypeOK'
    BY <1>2, <1>3, <1>4 DEF TypeOK, Judging
<1>6. WriterOwnsFile'
    BY <1>2, <1>3, <1>4, FileExists DEF TypeOK, WriterOwnsFile
<1>7. ProgramStored'
    BY <1>2, <1>3, <1>4, FileExists DEF TypeOK, ProgramStored, Judging
<1>8. IndexedHasOwner'
    BY <1>2, <1>3, <1>4, FileExists DEF TypeOK, IndexedHasOwner
<1>9. CasesLeft'
    BY <1>3, <1>4 DEF TypeOK, CasesLeft
<1> QED
    BY <1>5, <1>6, <1>7, <1>8, <1>9

(* A compilation that ends without a program leaves all files as they are. *)
LEMMA NotCompiledKeeps ==
    ASSUME FilesInv, NEW s \in Submissions, NotCompiled(s), pc[s] \notin Judging
    PROVE  FilesInv'
<1> USE DEF FilesInv, NotCompiled, store
<1>1. TypeOK'
    BY DEF TypeOK
<1>2. WriterOwnsFile'
    BY DEF TypeOK, WriterOwnsFile
<1>3. ProgramStored'
    BY DEF TypeOK, ProgramStored, Judging
<1>4. IndexedHasOwner'
    BY DEF TypeOK, IndexedHasOwner
<1>5. CasesLeft'
    BY DEF TypeOK, CasesLeft
<1> QED
    BY <1>1, <1>2, <1>3, <1>4, <1>5

(* The steps of Compile that store and index a file. *)
LEMMA FileStored ==
    ASSUME FilesInv, NEW s \in Submissions,
           (\E i \in Ids : NewFile(s, i)) \/ WriteFile(s) \/ AddFile(s)
    PROVE  FilesInv'
<1> USE DEF FilesInv
<1>1. ASSUME NEW i \in Ids, NewFile(s, i)  PROVE FilesInv'
    <2>1. PICK f \in Ids \cup {NoId} :
              Create(s, i, "empty", f) /\ file' = [file EXCEPT ![s] = f]
        BY <1>1 DEF NewFile
    <2>2. /\ disk' \in [Ids -> [owner : Submissions, kind : {"empty", "program", "output"}] \cup {NoFile}]
          /\ \A j \in Ids : disk[j] # NoFile => disk'[j] = disk[j]
          /\ f # NoId => disk'[f] = File(s, "empty")
        BY <2>1, CreateFacts
    <2>3. /\ UNCHANGED <<compiled, tmpFiles, program, withInput, left, failed>>
          /\ pc[s] = "store" /\ pc' = [pc EXCEPT ![s] = "write"]
        BY <1>1 DEF NewFile, Goto
    <2>4. TypeOK'
        BY <2>1, <2>2, <2>3 DEF TypeOK
    <2>5. WriterOwnsFile'
        BY <2>1, <2>2, <2>3, FileExists DEF TypeOK, WriterOwnsFile
    <2>6. ProgramStored'
        BY <2>2, <2>3, FileExists DEF TypeOK, ProgramStored, Judging
    <2>7. IndexedHasOwner'
        BY <2>2, <2>3, FileExists DEF TypeOK, IndexedHasOwner
    <2>8. CasesLeft'
        BY <2>3 DEF TypeOK, CasesLeft
    <2> QED
        BY <2>4, <2>5, <2>6, <2>7, <2>8
<1>2. CASE WriteFile(s)
    <2> USE <1>2 DEF WriteFile, Goto
    <2>1. disk[file[s]] = File(s, "empty") /\ file[s] \in Ids
        BY DEF TypeOK, WriterOwnsFile
    <2>2. \A j \in Ids : (\E t \in Submissions : disk[j] = File(t, "program")
                                            \/ (t # s /\ disk[j] = File(t, "empty")))
              => disk'[j] = disk[j]
        BY <2>1 DEF TypeOK, File
    <2>3. TypeOK'
        BY <2>1 DEF TypeOK, File
    <2>4. WriterOwnsFile'
        BY <2>1, <2>2 DEF TypeOK, WriterOwnsFile
    <2>5. ProgramStored'
        BY <2>2 DEF TypeOK, ProgramStored, Judging
    <2>6. IndexedHasOwner'
        BY <2>2 DEF TypeOK, IndexedHasOwner
    <2>7. CasesLeft'
        BY DEF TypeOK, CasesLeft
    <2> QED
        BY <2>3, <2>4, <2>5, <2>6, <2>7
<1>3. CASE AddFile(s)
    <2> USE <1>3 DEF AddFile, Goto
    <2>1. disk[file[s]] = File(s, "program") /\ file[s] \in Ids /\ program[s] = NoId
        BY DEF TypeOK, WriterOwnsFile, ProgramStored
    <2>2. TypeOK'
        BY <2>1 DEF TypeOK, Judging
    <2>3. WriterOwnsFile'
        BY DEF TypeOK, WriterOwnsFile
    <2>4. ProgramStored'
        BY <2>1 DEF TypeOK, ProgramStored, Judging
    <2>5. IndexedHasOwner'
        BY <2>1, JudgeAssumption DEF TypeOK, IndexedHasOwner, JudgeAssumption
    <2>6. CasesLeft'
        BY DEF TypeOK, CasesLeft
    <2> QED
        BY <2>2, <2>3, <2>4, <2>5, <2>6
<1> QED
    BY <1>1, <1>2, <1>3

(* The removal of one program leaves the programs of all others. *)
LEMMA RemovalIsOwn ==
    ASSUME FilesInv, NEW s \in Submissions, RemoveFiles(s)
    PROVE  FilesInv'
<1> USE DEF FilesInv, RemoveFiles, Goto
<1>1. /\ program[s] \in tmpFiles /\ disk[program[s]] = File(s, "program")
      /\ program[s] \in Ids
    BY DEF TypeOK, ProgramStored, Judging
<1>2. tmpFiles' = tmpFiles \ {program[s]} /\ \A j \in Ids : j # program[s] => disk'[j] = disk[j]
    BY JudgeAssumption DEF ArtifactFileIDs, JudgeAssumption, TypeOK
<1>3. TypeOK'
    BY <1>2 DEF TypeOK
<1>4. \A t \in Submissions, k \in {"empty", "program"}, j \in Ids :
          t # s /\ disk[j] = File(t, k) => j # program[s]
    BY <1>1 DEF File
<1>5. WriterOwnsFile'
    BY <1>2, <1>4 DEF TypeOK, WriterOwnsFile
<1>6. ProgramStored'
    BY <1>2, <1>4 DEF TypeOK, ProgramStored, Judging
<1>7. IndexedHasOwner'
    BY <1>2, <1>4 DEF TypeOK, IndexedHasOwner
<1>8. CasesLeft'
    BY DEF TypeOK, CasesLeft
<1> QED
    BY <1>3, <1>5, <1>6, <1>7, <1>8

(* The other steps change neither files nor index. *)
LEMMA StoreUntouched ==
    ASSUME FilesInv, NEW s \in Submissions,
           \/ CompilePanics(s) \/ InterpretedLanguage(s) \/ CompileOk(s)
           \/ \E inputFile \in BOOLEAN : StartCase(s, inputFile)
           \/ RunFails(s) \/ CompareOutput(s)
    PROVE  FilesInv'
<1> USE DEF FilesInv, CompilePanics, InterpretedLanguage, CompileOk, StartCase, RunFails,
        CompareOutput, EndCase, Goto, store
<1>1. TypeOK'
    <2>1. left' \in [Submissions -> 0..MaxCases]
        BY JudgeAssumption DEF JudgeAssumption, TypeOK, CasesLeft
    <2>2. pc' \in [Submissions -> {"compile", "store", "write", "add", "compiled", "done", "dead"} \cup Judging]
        BY DEF TypeOK, Judging
    <2> QED
        BY <2>1, <2>2 DEF TypeOK
<1>2. WriterOwnsFile'
    BY DEF TypeOK, WriterOwnsFile
<1>3. ProgramStored'
    BY DEF TypeOK, ProgramStored, Judging
<1>4. IndexedHasOwner'
    BY DEF TypeOK, IndexedHasOwner
<1>5. CasesLeft'
    BY DEF TypeOK, CasesLeft
<1> QED
    BY <1>1, <1>2, <1>3, <1>4, <1>5

LEMMA FilesStep == FilesInv /\ [Next]_vars => FilesInv'
<1> SUFFICES ASSUME FilesInv, [Next]_vars  PROVE FilesInv'
    OBVIOUS
<1>1. CASE UNCHANGED vars
    <2> USE <1>1 DEF vars, store
    <2>1. TypeOK' /\ CasesLeft'
        BY DEF FilesInv, TypeOK, CasesLeft
    <2>2. WriterOwnsFile'
        BY DEF FilesInv, WriterOwnsFile
    <2>3. ProgramStored'
        BY DEF FilesInv, ProgramStored, Judging
    <2>4. IndexedHasOwner'
        BY DEF FilesInv, IndexedHasOwner
    <2> QED
        BY <2>1, <2>2, <2>3, <2>4 DEF FilesInv
<1>2. ASSUME NEW s \in Submissions,
             CompileFails(s) \/ NothingStored(s) \/ WriteFails(s) \/ CompileRejected(s)
      PROVE  FilesInv'
    BY <1>2, NotCompiledKeeps DEF CompileFails, NothingStored, WriteFails, CompileRejected, Judging
<1>3. CASE Next
    BY <1>2, <1>3, OutputCreated, FileStored, RemovalIsOwn, StoreUntouched DEF Next
<1> QED
    BY <1>1, <1>3

-----------------------------------------------------------------------------

(* The invariant holds in every behaviour. *)
THEOREM FilesCorrect == Spec => []FilesInv
<1>1. Init => FilesInv
    BY FilesInit
<1>2. FilesInv /\ [Next]_vars => FilesInv'
    BY FilesStep
<1> QED
    BY <1>1, <1>2, PTL DEF Spec

(* Types are preserved by every step of Compile, Judge and RemoveFiles, and *)
(* no submission runs more test cases than it has.                         *)
THEOREM TypeCorrect == Spec => []TypeOK
<1>1. FilesInv => TypeOK
    BY DEF FilesInv
<1> QED
    BY <1>1, FilesCorrect, PTL

(* While a submission is judged, its program is in the file store, its own *)
(* and whole, whatever the other submissions do (Judge and RemoveFiles in  *)
(* judge.go, New, Add and BulkRemove in filestore.go).                     *)
THEOREM ProgramKeptCorrect == Spec => []ProgramKept
<1>1. FilesInv => ProgramKept
    BY DEF FilesInv, ProgramStored, ProgramKept
<1> QED
    BY <1>1, FilesCorrect, PTL

(* An entry of the map of temporary files outlives its submission only if  *)
(* that was not compiled.                                                  *)
THEOREM IndexedHasOwnerCorrect == Spec => []IndexedHasOwner
<1>1. FilesInv => IndexedHasOwner
    BY DEF FilesInv
<1> QED
    BY <1>1, FilesCorrect, PTL
=============================================================================

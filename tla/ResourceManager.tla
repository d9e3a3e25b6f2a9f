-------------------------- MODULE ResourceManager --------------------------
(***************************************************************************)
(* The problem cache of the judge: resource.Manager (src/resource/         *)
(* manager.go) with the problem half of resource.FileStore (src/resource/  *)
(* filestore.go).                                                          *)
(*                                                                         *)
(* Every judging goroutine of worker.Worker calls PrepareThenLock, which   *)
(* holds Manager.mut while it asks the backend for the problem and         *)
(* downloads its resource files, and calls the unlock closure when the     *)
(* submission is judged.  evictAll removes the problems nobody has locked. *)
(* The transfer of one set of files is abstract here: each file is opened, *)
(* then completed or rolled back; module FetchRes models it goroutine by   *)
(* goroutine.                                                              *)
(***************************************************************************)
EXTENDS Integers, FiniteSets

CONSTANTS
    Workers,        \* goroutines of worker.Worker.spin
    Evictor,        \* the goroutine that calls evictAll
    Free,           \* value of mut when nobody holds it
    Ids,            \* problem ids
    Vers,           \* problem versions, the empty version excluded
    Latest,         \* the empty version "" of a request: the latest one
    Keys,           \* Keys[p]: the resource keys fetchRes collects for p
    Cyclic,         \* problems whose subtask graph verifyProblem rejects
    PersistentDir,  \* conf.Dir is configured, so files outlive the process
    Faults          \* environment faults: "crash", "evict", "rollback"

Problems == Ids \X Vers
Requests == Ids \X (Vers \cup {Latest})
Resources == UNION {Keys[p] : p \in Problems}
NoKey == <<Latest, Latest>>

ASSUME ConstantsAssumption ==
    /\ IsFiniteSet(Workers)
    /\ Evictor \notin Workers
    /\ Free \notin Workers \cup {Evictor}
    /\ Latest \notin Vers \cup Ids
    /\ DOMAIN Keys = Problems
    /\ Cyclic \subseteq Problems
    /\ PersistentDir \in BOOLEAN
    /\ Faults \subseteq {"crash", "evict", "rollback"}

VARIABLES
    mut,        \* holder of Manager.mut
    problems,   \* keys of the map Manager.problems
    locks,      \* entry.locks of the cached problems, 0 for the others
    probFiles,  \* FileStore.probFiles: pairs <<problem, resource key>>
    shaToKey,   \* FileStore.shaToKey: resource keys whose sha is known
    dirs,       \* problem directories that exist under probLoc
    disk,       \* disk[p][k]: the file of resource k in the directory of p
    pc,         \* where each worker is in PrepareThenLock and unlock
    key,        \* the variable key each worker's call (and closure) uses
    todo        \* problems evictAll has not yet visited

vars == <<mut, problems, locks, probFiles, shaToKey, dirs, disk, pc, key, todo>>
cacheVars == <<problems, locks>>
indexVars == <<probFiles, shaToKey>>
fileVars == <<dirs, disk>>

(***************************************************************************)
(* A file is absent, being written by the running process, a truncated     *)
(* leftover, or complete.                                                  *)
(***************************************************************************)
FileStates == {"absent", "writing", "partial", "full"}

(***************************************************************************)
(* idle: outside the manager.  calling: about to take mut in               *)
(* PrepareThenLock.  fetchProblem, fetchRes, install: inside it, holding   *)
(* mut.  holding: the call returned, the problem is locked.  unlock: the   *)
(* closure has read the map and waits for mut.                             *)
(***************************************************************************)
PcStates == {"idle", "calling", "fetchProblem", "fetchRes", "install",
             "holding", "unlock"}

InCall(w) == pc[w] \in {"fetchProblem", "fetchRes", "install"}
Locking(w) == pc[w] \in {"holding", "unlock"}
Holders(p) == {w \in Workers : Locking(w) /\ key[w] = p}

AllAbsent == [p \in Problems |-> [k \in Keys[p] |-> "absent"]]

-----------------------------------------------------------------------------
(* NewResourceManager and NewFileStore over an empty directory. *)

Init ==
    /\ mut = Free
    /\ problems = {}
    /\ locks = [p \in Problems |-> 0]
    /\ probFiles = {}
    /\ shaToKey = {}
    /\ dirs = {}
    /\ disk = AllAbsent
    /\ pc = [w \in Workers |-> "idle"]
    /\ key = [w \in Workers |-> NoKey]
    /\ todo = {}

-----------------------------------------------------------------------------
(* PrepareThenLock *)

Goto(w, label) == pc' = [pc EXCEPT ![w] = label]

Return(w) ==
    /\ Goto(w, "idle")
    /\ key' = [key EXCEPT ![w] = NoKey]

Call(w) ==
    /\ pc[w] = "idle"
    /\ Goto(w, "calling")
    /\ \E req \in Requests : key' = [key EXCEPT ![w] = req]
    /\ UNCHANGED <<mut, cacheVars, indexVars, fileVars, todo>>

(* The problem is cached: its lock count goes up and mut is released. *)
LockHit(w) ==
    /\ pc[w] = "calling"
    /\ mut = Free
    /\ key[w] \in problems
    /\ locks' = [locks EXCEPT ![key[w]] = @ + 1]
    /\ Goto(w, "holding")
    /\ UNCHANGED <<mut, problems, indexVars, fileVars, key, todo>>

LockMiss(w) ==
    /\ pc[w] = "calling"
    /\ mut = Free
    /\ key[w] \notin problems
    /\ mut' = w
    /\ Goto(w, "fetchProblem")
    /\ UNCHANGED <<cacheVars, indexVars, fileVars, key, todo>>

(* What GetProblem may answer for a request: the version asked for, or any *)
(* one when the request leaves the version open.                           *)
Answers(req) == {p \in Problems : p[1] = req[1] /\ req[2] \in {p[2], Latest}}

(* The key is overridden by the one of the fetched problem. *)
ResolveCached(w) ==
    /\ pc[w] = "fetchProblem"
    /\ \E p \in Answers(key[w]) \cap problems :
        /\ key' = [key EXCEPT ![w] = p]
        /\ locks' = [locks EXCEPT ![p] = @ + 1]
    /\ mut' = Free
    /\ Goto(w, "holding")
    /\ UNCHANGED <<problems, indexVars, fileVars, todo>>

(* Mutant: the map is not looked up again under the fetched key. *)
StartFetchUnchecked(w) ==
    /\ pc[w] = "fetchProblem"
    /\ \E p \in Answers(key[w]) \ Cyclic : key' = [key EXCEPT ![w] = p]
    /\ Goto(w, "fetchRes")
    /\ UNCHANGED <<mut, cacheVars, indexVars, fileVars, todo>>

StartFetch(w) ==
    /\ pc[w] = "fetchProblem"
    /\ \E p \in Answers(key[w]) \ (problems \cup Cyclic) :
        key' = [key EXCEPT ![w] = p]
    /\ Goto(w, "fetchRes")
    /\ UNCHANGED <<mut, cacheVars, indexVars, fileVars, todo>>

(* GetProblem failed, answered an error status or no data, or the problem  *)
(* did not pass verifyProblem.                                             *)
FetchProblemFails(w) ==
    /\ pc[w] = "fetchProblem"
    /\ mut' = Free
    /\ Return(w)
    /\ UNCHANGED <<cacheVars, indexVars, fileVars, todo>>

-----------------------------------------------------------------------------
(* fetchRes: the files of the problem, each created with O_EXCL.           *)

SetFile(p, k, state) == disk' = [disk EXCEPT ![p][k] = state]

SaveBegin(w, k) ==
    /\ pc[w] = "fetchRes"
    /\ k \in Keys[key[w]]
    /\ disk[key[w]][k] = "absent"
    /\ dirs' = dirs \cup {key[w]}
    /\ SetFile(key[w], k, "writing")
    /\ UNCHANGED <<mut, cacheVars, indexVars, pc, key, todo>>

SaveEnd(w, k) ==
    /\ pc[w] = "fetchRes"
    /\ k \in Keys[key[w]]
    /\ disk[key[w]][k] = "writing"
    /\ SetFile(key[w], k, "full")
    /\ UNCHANGED <<mut, cacheVars, indexVars, dirs, pc, key, todo>>

(* Mutant: the partly written file is left behind. *)
SaveNoRollback(w, k) ==
    /\ pc[w] = "fetchRes"
    /\ k \in Keys[key[w]]
    /\ disk[key[w]][k] = "writing"
    /\ SetFile(key[w], k, "partial")
    /\ UNCHANGED <<mut, cacheVars, indexVars, dirs, pc, key, todo>>

(* The copy failed or wrote an unexpected size: the deferred rollback      *)
(* removes the file, unless os.Remove fails too.                           *)
SaveRollback(w, k) ==
    /\ pc[w] = "fetchRes"
    /\ k \in Keys[key[w]]
    /\ disk[key[w]][k] = "writing"
    /\ \/ SetFile(key[w], k, "absent")
       \/ "rollback" \in Faults /\ SetFile(key[w], k, "partial")
    /\ UNCHANGED <<mut, cacheVars, indexVars, dirs, pc, key, todo>>

NothingInFlight(p) == \A k \in Keys[p] : disk[p][k] # "writing"

(* Mutant: the sha table is not filled. *)
SubmitWithoutSha(p) ==
    /\ probFiles' = probFiles \cup ({p} \X Keys[p])
    /\ UNCHANGED shaToKey

SubmitResourceKeys(p) ==
    /\ probFiles' = probFiles \cup ({p} \X Keys[p])
    /\ shaToKey' = shaToKey \cup Keys[p]

(* Every key was saved or ignored because its file already exists; the     *)
(* keys are submitted to the file store.                                   *)
FetchResOk(w) ==
    /\ pc[w] = "fetchRes"
    /\ \A k \in Keys[key[w]] : disk[key[w]][k] \in {"full", "partial"}
    /\ SubmitResourceKeys(key[w])
    /\ Goto(w, "install")
    /\ UNCHANGED <<mut, cacheVars, fileVars, key, todo>>

(* A transfer failed after its retries, or the context was cancelled. *)
FetchResFails(w) ==
    /\ pc[w] = "fetchRes"
    /\ NothingInFlight(key[w])
    /\ mut' = Free
    /\ Return(w)
    /\ UNCHANGED <<cacheVars, indexVars, fileVars, todo>>

(* Mutant: the entry is installed without a lock. *)
InstallUnlocked(w) ==
    /\ pc[w] = "install"
    /\ problems' = problems \cup {key[w]}
    /\ mut' = Free
    /\ Goto(w, "holding")
    /\ UNCHANGED <<locks, indexVars, fileVars, key, todo>>

(* m.problems[key] = fromProblem(p); m.problems[key].locks++ *)
Install(w) ==
    /\ pc[w] = "install"
    /\ problems' = problems \cup {key[w]}
    /\ locks' = [locks EXCEPT ![key[w]] = 1]
    /\ mut' = Free
    /\ Goto(w, "holding")
    /\ UNCHANGED <<indexVars, fileVars, key, todo>>

-----------------------------------------------------------------------------
(* The closure returned by PrepareThenLock evaluates m.problems[key]       *)
(* without mut and then calls unlock, which takes it.                      *)

UnlockRead(w) ==
    /\ pc[w] = "holding"
    /\ key[w] \in problems      \* else the closure dereferences nil
    /\ Goto(w, "unlock")
    /\ UNCHANGED <<mut, cacheVars, indexVars, fileVars, key, todo>>

Unlock(w) ==
    /\ pc[w] = "unlock"
    /\ mut = Free
    /\ locks' = IF key[w] \in problems
                THEN [locks EXCEPT ![key[w]] = @ - 1]
                ELSE locks
    /\ Return(w)
    /\ UNCHANGED <<mut, problems, indexVars, fileVars, todo>>

-----------------------------------------------------------------------------
(* evictAll, with evictProblem of the file store. *)

EvictBegin ==
    /\ mut = Free
    /\ mut' = Evictor
    /\ todo' = problems
    /\ UNCHANGED <<cacheVars, indexVars, fileVars, pc, key>>

Visit(p) ==
    /\ mut = Evictor
    /\ p \in todo
    /\ todo' = todo \ {p}
    /\ UNCHANGED <<mut, pc, key>>

EvictSkip(p) ==
    /\ Visit(p)
    /\ locks[p] > 0
    /\ UNCHANGED <<cacheVars, indexVars, fileVars>>

(* The index entries of the files found in the directory of p. *)
Listed(p) ==
    {<<p, k>> : k \in {r \in Keys[p] : disk[p][r] # "absent" /\ r \in shaToKey}}

(* Mutant: the lock count is not looked at. *)
EvictLocked(p) ==
    /\ Visit(p)
    /\ p \in dirs
    /\ probFiles' = probFiles \ Listed(p)
    /\ dirs' = dirs \ {p}
    /\ disk' = [disk EXCEPT ![p] = [k \in Keys[p] |-> "absent"]]
    /\ problems' = problems \ {p}
    /\ locks' = [locks EXCEPT ![p] = 0]
    /\ UNCHANGED shaToKey

EvictProblem(p) ==
    /\ Visit(p)
    /\ locks[p] <= 0
    /\ p \in dirs
    /\ probFiles' = probFiles \ Listed(p)
    /\ dirs' = dirs \ {p}
    /\ disk' = [disk EXCEPT ![p] = [k \in Keys[p] |-> "absent"]]
    /\ problems' = problems \ {p}
    /\ locks' = [locks EXCEPT ![p] = 0]
    /\ UNCHANGED shaToKey

(* ReadDir fails because the directory was never created: the entry stays. *)
EvictNoDir(p) ==
    /\ Visit(p)
    /\ locks[p] <= 0
    /\ p \notin dirs
    /\ UNCHANGED <<cacheVars, indexVars, fileVars>>

(* RemoveAll fails half way: the index entries and some files are gone,    *)
(* the entry of the map stays.                                             *)
EvictFails(p) ==
    /\ "evict" \in Faults
    /\ Visit(p)
    /\ locks[p] <= 0
    /\ p \in dirs
    /\ probFiles' = probFiles \ Listed(p)
    /\ \E gone \in SUBSET Keys[p] :
        disk' = [disk EXCEPT
                    ![p] = [k \in Keys[p] |-> IF k \in gone THEN "absent" ELSE @[k]]]
    /\ UNCHANGED <<cacheVars, shaToKey, dirs>>

(* Mutant: mut is not released. *)
EvictEndLocked ==
    /\ mut = Evictor
    /\ todo = {}
    /\ UNCHANGED vars

EvictEnd ==
    /\ mut = Evictor
    /\ todo = {}
    /\ mut' = Free
    /\ UNCHANGED <<cacheVars, indexVars, fileVars, pc, key, todo>>

-----------------------------------------------------------------------------
(* The process dies and a new one starts: all memory is lost; the files    *)
(* survive only in a configured directory, those being written truncated.  *)

Truncated(state) == IF state = "writing" THEN "partial" ELSE state

Restart ==
    /\ mut' = Free
    /\ problems' = {}
    /\ locks' = [p \in Problems |-> 0]
    /\ probFiles' = {}
    /\ shaToKey' = {}
    /\ pc' = [w \in Workers |-> "idle"]
    /\ key' = [w \in Workers |-> NoKey]
    /\ todo' = {}
    /\ IF PersistentDir
       THEN /\ disk' = [p \in Problems |-> [k \in Keys[p] |-> Truncated(disk[p][k])]]
            /\ UNCHANGED dirs
       ELSE /\ disk' = AllAbsent
            /\ dirs' = {}

Crash == "crash" \in Faults /\ Restart

(* A write of the map is the next thing the holder of mut does. *)
MapWriteDue ==
    \/ \E w \in Workers : pc[w] = "install"
    \/ mut = Evictor /\ \E p \in todo : locks[p] <= 0

(* The unlocked read of the closure overlaps a write of the map: the Go    *)
(* runtime may throw "concurrent map read and map write".                  *)
MapThrow(w) ==
    /\ pc[w] = "holding"
    /\ MapWriteDue
    /\ Restart

-----------------------------------------------------------------------------

WorkerStep(w) ==
    \/ Call(w) \/ LockHit(w) \/ LockMiss(w)
    \/ ResolveCached(w) \/ StartFetch(w) \/ FetchProblemFails(w)
    \/ \E k \in Resources : SaveBegin(w, k) \/ SaveEnd(w, k) \/ SaveRollback(w, k)
    \/ FetchResOk(w) \/ FetchResFails(w) \/ Install(w)
    \/ UnlockRead(w) \/ Unlock(w) \/ MapThrow(w)

EvictorStep ==
    \/ EvictBegin \/ EvictEnd
    \/ \E p \in Problems :
        EvictSkip(p) \/ EvictProblem(p) \/ EvictNoDir(p) \/ EvictFails(p)

Next ==
    \/ \E w \in Workers : WorkerStep(w)
    \/ EvictorStep
    \/ Crash

Spec == Init /\ [][Next]_vars

(***************************************************************************)
(* Fairness.  The holder of mut makes progress: the backend call ends with *)
(* an answer or, at the latest, with the deadline of its context, and a    *)
(* transfer is retried a bounded number of times, so that only endlessly   *)
(* many calls begin to save a file endlessly often (FetchRes shows that    *)
(* fetchRes returns).  sync.Mutex is starvation free, so a goroutine that  *)
(* keeps waiting for mut gets it.                                          *)
(***************************************************************************)
FetchProblemReturns(w) == ResolveCached(w) \/ StartFetch(w) \/ FetchProblemFails(w)
SaveReturns(w, k) == SaveEnd(w, k) \/ SaveRollback(w, k)
FetchResReturns(w) == FetchResOk(w) \/ FetchResFails(w)
SavesAreBounded(w) ==
    \A k \in Resources : []<><<SaveBegin(w, k)>>_vars => []<>(pc[w] # "fetchRes")
EvictVisits == \E p \in Problems : EvictSkip(p) \/ EvictProblem(p) \/ EvictNoDir(p)

Fairness ==
    /\ \A w \in Workers :
        /\ SF_vars(LockHit(w) \/ LockMiss(w))
        /\ SF_vars(Unlock(w))
        /\ WF_vars(FetchProblemReturns(w))
        /\ \A k \in Resources : WF_vars(SaveReturns(w, k))
        /\ SavesAreBounded(w)
        /\ WF_vars(FetchResReturns(w))
        /\ WF_vars(Install(w))
    /\ WF_vars(EvictVisits)
    /\ WF_vars(EvictEnd)

FairSpec == Spec /\ Fairness

-----------------------------------------------------------------------------
(* Properties *)

TypeOK ==
    /\ mut \in Workers \cup {Evictor, Free}
    /\ problems \subseteq Problems
    /\ locks \in [Problems -> Nat]
    /\ probFiles \subseteq Problems \X Resources
    /\ shaToKey \subseteq Resources
    /\ dirs \subseteq Problems
    /\ DOMAIN disk = Problems
    /\ \A p \in Problems : disk[p] \in [Keys[p] -> FileStates]
    /\ pc \in [Workers -> PcStates]
    /\ key \in [Workers -> Requests \cup {NoKey}]
    /\ todo \subseteq Problems

(* The lock semaphore of a cached problem counts exactly the submissions   *)
(* that still hold it, whatever calls, unlocks and evictions interleave.   *)
LockCountExact ==
    \A p \in Problems : locks[p] = Cardinality(Holders(p))

(* A problem somebody holds is still in the map, so the closure finds its  *)
(* entry: evictAll never takes a locked problem away.                      *)
HeldEntryPresent ==
    \A w \in Workers : Locking(w) => key[w] \in problems

(* What PrepareThenLock promises: as long as the problem is held, it is    *)
(* one that passed the verification, each of its resources is indexed and  *)
(* its file is complete.                                                   *)
Complete(p) ==
    /\ p \notin Cyclic
    /\ \A k \in Keys[p] : <<p, k>> \in probFiles /\ disk[p][k] = "full"

HeldProblemIntact ==
    \A w \in Workers : Locking(w) => Complete(key[w])

(* The index names no file of a problem that is not cached: eviction       *)
(* removes every entry of the problem, although it finds the entries only  *)
(* through the files in the directory and the sha table.                   *)
NoStaleIndex ==
    \A e \in probFiles :
        \/ e[1] \in problems
        \/ \E w \in Workers : pc[w] = "install" /\ key[w] = e[1]

(* At most one call downloads at a time, and never a problem that is       *)
(* already cached (whose files others may be reading).                     *)
SingleFetch ==
    \A w \in Workers : pc[w] \in {"fetchRes", "install"} =>
        /\ key[w] \notin problems
        /\ \A v \in Workers \ {w} : pc[v] \notin {"fetchRes", "install"}

(* The files of a held problem are not touched: nobody writes, truncates   *)
(* or removes one between PrepareThenLock and unlock (a restart of the     *)
(* process ends the hold).                                                 *)
HeldFilesUntouched ==
    [][\A w \in Workers :
        (Locking(w) /\ Locking(w)' /\ key'[w] = key[w]) => disk'[key[w]] = disk[key[w]]]_vars

(* Without faults the workers see a cache: the map, the locks, the files   *)
(* and the mutex do together what ProblemCache says in single steps.       *)
Usable == {p \in problems : Complete(p)}
Downloads == {w \in Workers : pc[w] \in {"fetchRes", "install"}}
Downloaded == IF Downloads = {} THEN NoKey ELSE key[CHOOSE w \in Downloads : TRUE]
Held == [w \in Workers |-> IF Locking(w) THEN key[w] ELSE NoKey]
Cache == INSTANCE ProblemCache WITH
    NoProblem <- NoKey, usable <- Usable, download <- Downloaded, held <- Held
ImplementsCache == Cache!Spec

(* Every call of PrepareThenLock returns, with the problem or an error,    *)
(* and every unlock completes, although one call may hold mut for a whole  *)
(* download and evictAll competes for it.                                  *)
CallsReturn ==
    \A w \in Workers : pc[w] \in {"calling", "unlock"} ~> pc[w] \in {"idle", "holding"}

-----------------------------------------------------------------------------
(* The inductive invariant behind the theorems of ResourceManagerProofs.   *)

(* mut is held by the call that is fetching, and by nobody else's. *)
MutexDiscipline == \A w \in Workers : mut = w <=> InCall(w)

(* The key of a call that downloads is that of a verified problem that is  *)
(* not in the map.                                                         *)
FetchedKeyNew ==
    \A w \in Workers : pc[w] \in {"fetchRes", "install"} =>
        key[w] \in Problems \ (problems \cup Cyclic)

(* An index entry is found again by eviction: its file is in the directory *)
(* and its sha in the table.                                               *)
IndexFound ==
    \A e \in probFiles :
        /\ e[2] \in Keys[e[1]] \cap shaToKey
        /\ disk[e[1]][e[2]] \in {"full", "partial"}

LockInv == TypeOK /\ MutexDiscipline /\ FetchedKeyNew /\ LockCountExact /\ HeldEntryPresent
IndexInv == IndexFound /\ NoStaleIndex

(* Without faults, what is cached, or about to be, is complete. *)
NoPartialFile == \A p \in Problems : \A k \in Keys[p] : disk[p][k] # "partial"
CachedComplete == \A p \in problems : Complete(p)
InstallComplete == \A w \in Workers : pc[w] = "install" => Complete(key[w])
FileInv == NoPartialFile /\ CachedComplete /\ InstallComplete

=============================================================================

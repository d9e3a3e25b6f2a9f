# A verification project for proctor-signal

proctor-signal is the judging agent of an online judge. It registers with a
backend, and several workers fetch submissions, download the problem data into a
local file store, compile the source code in a sandbox (the go-judge library),
run it on the test cases of the problem's subtasks, compare the outputs, score
them, upload what is too long for the record, and report a result.

This directory holds TLA+ modules of the parts of that program whose behaviour is
hard to test, TLC configurations that check them on small instances, and TLAPS
proofs for every value of the constants. `PROJECT.json` maps every definition to
the lines it models and lists runs, mutants, findings, hazards and theorems.

## 1. The system

| component | source | state it keeps | operations | modelled by |
|---|---|---|---|---|
| worker loop | `src/worker/worker.go` 54-243, 432-443 | the task, its result, deferred calls, the context | `Start`, `spin`, `work`, `fetch`, `compile` | `Worker`, `TaskLife` |
| judging and upload | `worker.go` 245-388 | results per subtask, `caseOutputCh`, the named result `err` | `judgeOnDAG`, `uploader` | `JudgeOnDag` |
| scoring | `worker.go` 326-345, 143-163 | scores and conclusions | the scoring part of the callback, the total of `work` | `Scoring` |
| output truncation | `worker.go` 205-235, 295-325, 390-430; `judge.go` 334-364 | the offset of an open output file | `truncate`, `truncateOutput`, rewinding | `Truncate`, `OutputFile` |
| resource manager | `src/resource/manager.go`, `check.go` | the map of problems with lock counts, the mutex | `PrepareThenLock`, `unlock`, `evictAll` | `ResourceManager`, `ProblemCache` |
| fetchRes | `manager.go` 82-213 | three channels, an error group | `fetchRes`, `fetchWorker`, the receiver | `FetchRes`, `FileTransfer` |
| file store, problems | `src/resource/filestore.go` 36-163 | directories and files, `probFiles`, `shaToKey` | `saveResource`, `submitResourceKeys`, `evictProblem` | `ResourceManager`, `FetchRes` |
| file store, temporary files | `filestore.go` 165-370 | the map of temporary files | `Add`, `New`, `BulkRemove`, `Get` | `JudgeManager` |
| subtask graph | `src/model/dag.go` | nodes, edges, in-degrees | `NewSubtaskGraph`, `IsDAG`, `Traverse` | `CycleCheck`, `Traverse`, `SubtaskGraph` |
| judge manager | `src/judge/judge.go`, `src/model/convert.go` | the language table, the sandbox | `Compile`, `Execute`, `Judge`, `RemoveFiles` | `JudgeManager` |
| comparators | `src/judge/compare.go` | two readers and hashes | `compareAll`, `compareLines2`, `compareFloats` | `Compare` |
| auth manager | `src/external/backend/auth.go` | token, expiry, instance id | `login`, `refresh`, `scheduleRefresh`, `updateToken`, `reportExit` | `Auth` |
| backend client | `src/external/backend/backend_client.go` | the connection | `NewBackendClient`, `ping`, `ReportExit` | `Lifecycle` |
| process lifecycle | `src/cmd/proctor/main.go` | the root context | `main`, `shutdown`, `connectBackend` | `Lifecycle` |

Interaction. `spin` runs in one goroutine per unit of parallelism. A work takes a
task from the backend, calls `PrepareThenLock` (one mutex for all workers, held
over a whole download), compiles through the judge manager, and calls
`judgeOnDAG`, which starts the uploader goroutine and runs `Graph.Traverse` with a
callback that judges the cases of a subtask. The callback and the uploader share
a buffered channel and the case results. When work returns, its deferred calls
remove the compiled program and unlock the problem; then `spin` reports under the
context of the work, which has a deadline of ten minutes and is a child of the
context that `main` and `ping` cancel. `PrepareThenLock` starts ten fetchers and a
receiver, which meet over buffered channels: the keys all fit into theirs,
the results need not. `evictAll` would compete for the mutex; in this commit only
`manager_test.go` calls it.

`main` connects to the backend (`login` gives the token and the instance id, and
starts the goroutine that renews the token; `NewBackendClient` starts `ping`), opens
the file store, starts the workers, and waits for a signal or for `ping` to cancel
the context. It then reports the exit, shuts the sandbox down and removes the files,
and it waits for no worker: what keeps a worker from reporting a verdict on missing
files is only that its calls take the cancelled context.

What is hard here: locks counted across calls and evictions; a download that
fails half way, is retried, or is cut by a crash and found again; goroutines that
wait for each other over channels while a context ends; an error variable shared
by all callbacks; deferred calls on six return paths; retries of calls that may
have arrived; one file offset moved by comparator, record and uploads; ticks that are
dropped or late; an end of the process that meets running work. Section 6 says what correctness means for each component, as the
properties of its module.

## 2. Modules and how they correspond to the code

**ResourceManager** (core). State: `mut`, the map (`problems`, `locks`), the file
store's `probFiles` and `shaToKey`, the directories and files on disk, and for
each worker its place in `PrepareThenLock` / `unlock` and its variable `key`.
One action per step between two points where another goroutine can be seen:
`LockHit` and `LockMiss` are the two outcomes of the first lookup under the
mutex; `ResolveCached`, `StartFetch`, `FetchProblemFails` those of `fetchProblem`
followed by the second lookup under the key of the fetched problem;
`SaveBegin/SaveEnd/SaveRollback` one file of `saveResource`; `FetchResOk` includes
the submission of the keys; `Install` the new entry. The closure that unlocks has
two steps, because it reads the map before `unlock` takes the mutex.
`evictAll`, which only the tests call so far, is `EvictBegin`, one visit per entry, `EvictEnd`. Faults (`crash`,
`evict`, `rollback`) are switched on by a constant; `MapThrow` is the Go runtime
ending the process on a concurrent read and write of a map. Without faults it is shown
to implement **ProblemCache**, what a worker may rely on: a problem can be used once it
is published, is downloaded by one call at a time and only when it cannot be used, and
stays while it is held. There a problem is usable when it is in the map and complete, so
that the map, the lock counts, the files and the mutex have to agree at every step.

**FetchRes** is `fetchRes` goroutine by goroutine: the caller that sends keys,
closes the channels and checks the result, the receiver, the fetchers with their
retries, the context of the error group and that of the caller. It is shown to
implement **FileTransfer**, whose steps are those that ResourceManager uses for
every download; so the download in ResourceManager is not an assumption.
FileTransfer also promises that the transfer ends, which FetchRes implements under
the fairness of its goroutines. A transfer that fails removes its partial file, and the
removal may fail, too (`CopyFails`, `SaveRollback`): the file is then a "remnant", which a
retry meets as an existing file and takes for the resource (`OpenExisting`). Both
modules have this step, and ResourceManager has it as the fault `rollback`.

**CycleCheck** is `IsDAG`, its recursion as a stack of frames; **Traverse** is the
loop that hands subtasks to a callback. Both take every graph over the given ids;
an id that is no subtask models a dangling dependency.

**JudgeOnDag** is `judgeOnDAG` with the uploader. It instantiates Traverse on its
own variables (`Trav == INSTANCE Traverse WITH ...`): `Walk` is a step of the
traversal between two callbacks, `StartSubtask`, `EndSubtask` and `JudgeFails`
contain Traverse's `Pop`, `CallbackTrue` and `CallbackFalse`. The uploader's
`select` may take either ready branch. The history variable `attempts` counts how often an
output was tried. The named result `err` is one variable of all
callbacks: `LastFailureReported` says what the code keeps of it, the error of the
last subtask.

**Truncate** has the texts: how much of an output `truncate` and `truncateOutput` put
into a record, with headers, the message in place of what could not be read, and the
slice bound that may become negative. A character is known by its stream and its
position, so that a text shows where it was read from. **OutputFile** follows the file
of one output: `Compare` and `Rewind` are the end of `Judge`, `RecordCase` is the
callback's part, `SeekStart`, `PutOk`, `PutFails` the uploader's; all of them move one
offset. `RecordBoth`, `RecordOne`, `RecordStatus` and `RecordPanics` are what `compile`
makes of the two outputs of a compiler.

**Scoring** is the arithmetic of the callback and of the end of `work`: scores per
policy, conclusions, and the total in the order of a Go map. The float of `PCT` is
modelled by the two values rounding can give.

**Worker** is `spin`, `work`, `fetch` and `compile` for several workers. The deferred
calls are a stack with their evaluated arguments, run one by one when work
returns, so that each return path is checked for what it leaves behind. `JudgeBlocks` is
the send to a full channel whose reader has left with the context: `judgeOnDAG` never
returns. `ReportRefused` is a report that the backend answers with a status other than
2xx; `spin` does not look at it, and the task counts as told. The history variables
`abandoned` and `refused` hold the tasks whose compilation failed, whose program nobody
removes, and those whose report was refused. It is
shown to implement **TaskLife**: what the backend sees of a task.

**JudgeManager** is what `Compile`, `Judge` and `RemoveFiles` of several submissions
do to the files of the store, one action between two points where another
goroutine can be seen. `Create` is `New` (a taken id gives neither a file nor an
error), `AddFile` is `Add`, `RemoveFiles` is `BulkRemove` over `ArtifactFileIDs`,
into which `StartCase` may have put the id of test data. The sandbox is the calls it
makes of the store (`RunCompiler`, `NewFile` to `AddFile`, `RunProgram`) and the
outcomes that the code tells apart. Random ids are drawn from a small set, so that
a collision, which is rare in the program, happens here.

**Compare** is `compareLines2` with `iterHash` and `filter`, one line per step, and
`compareAll` as one step. A hash is the sequence that was written to it. A line
longer than the buffer is filtered in chunks: `EndsChunk` tells where they end.
`compareFloats` with `readFloat64` are `FloatsDecide` and `NotAFloat`: a text is a
natural number in units of the last place, NaN, or no number; what follows the buffer
is not looked at, and at a distance of exactly `Eps` rounding decides.

**Auth** is the auth manager: `Login`, and `scheduleRefresh` as a loop of `SkipTick`,
`StartRenewal`, `Renew`, `RenewFails`, `RetryRenewal` over a clock. The channel of a Go
ticker is one place: a tick keeps the time at which it fired, and further ticks are
dropped while a renewal is slow. **Lifecycle** extends it with `main`, `connectBackend`,
`ping` and the shutdown; a worker is reduced to the steps that meet the shutdown
(`Fetch`, `Execute`, `Conclude`, `SendReport`), which module Worker has in full. The history
variable `renamed` holds the ids that renewals have put in place of the registered one,
which `updateToken` allows with `InsecureJwt`.

**SubtaskGraph** composes CycleCheck and Traverse in the order of the program:
`verifyProblem` searches the graph before the problem is cached, and `judgeOnDAG`
traverses what was accepted.

The modules `MC*` only give values to constants, except that `MCRecord` puts Scoring,
OutputFile and Compare side by side: they share no state, so each of its behaviours is
one of one of them. The theorems are in modules of their
own, each of which extends the module it is about: `ResourceManagerProofs`,
`FetchResProofs`, `JudgeManagerProofs`, `SubtaskGraphProofs` (CycleCheck and Traverse),
`JudgeOnDagProofs`, `WorkerProofs`, `LifecycleProofs` (with Auth), and `RecordProofs`, about
what is recorded of a submission: it extends Scoring, OutputFile and Compare, because
their proofs share the lemmas on recursion and induction it begins with; for its sake
the names that each of the three would have in common with the others carry a prefix
(`ScoringSpec`, `OutputSpec`, `CompareSpec`). The inductive invariants stand at the end of the modules they are about.

## 3. Runs

| run | instance | shows |
|---|---|---|
| `resource` | 2 workers, 3 versions of a problem (one cyclic), keys shared by versions, evictor, no faults | lock counts, entries and files stay consistent; ProblemCache is implemented; a held problem is complete and untouched; calls and unlocks return |
| `resource_faults` | 2 workers, 2 versions (one without resources), all faults, a configured directory | the index of keys survives crashes, failing removals and failing rollbacks |
| `fetch_res` | 3 keys, 2 fetchers, 1 retry, a full leftover, failing rollbacks | success means files that are complete or the remnant of a failed rollback, failure has a cause, no goroutine outlives the call, it implements FileTransfer, also that it returns |
| `graph` | all 4096 graphs of 3 subtasks and a dangling id | the stack of `IsDAG` is a path and its verdict right; `Traverse` is topological, calls once, visits all it can |
| `graph_order` | the same | section 5 |
| `judge` | 2 subtasks, 3 cases, channel capacity 1, 1 retry | no output lost, sent twice, or given up before its retries are used or the context is done, all tried before the return, results final, an error of the last subtask returned; it returns while the context lives or when the outputs fit into the channel |
| `record` | scores: 2 subtasks, 0 to 3 cases, scores 4 and 6, 2 failure verdicts, all policies; outputs: of 0 to 4 characters, limits 0, 1, 2, 3, 6, headers and message of 2, 1 retry, with and without a faulty disk; verdicts: all pairs of texts of up to 4 characters (a letter, CR, LF), of up to 3 for numbers, a buffer of 2, all policies | SUM and PCT follow from the verdicts, the result is warranted; nothing a program wrote is lost, the record keeps to its limit; `compareLines2` is exact on texts with proper line breaks, with `ignoreNewline` it accepts a newline more or less at the end and no other characters; `compareFloats` decides by the distance |
| `scoring_min` | the scores of `record` | section 5 |
| `compare_newline` | the texts of `record` | section 5 |
| `worker` | 2 workers, 2 tasks, one problem, 1 retry | locks and compiled programs balanced on every return path; TaskLife implemented; fetched tasks are reported or have an excuse; workers stop, unless they block in `judgeOnDAG` |
| `judge_manager` | 2 submissions of 2 cases, 4 ids | a program under judgement is kept, whole and its own; only failed compilations leave an index entry |
| `lifecycle` | 2 registrations, ticks every 2, tokens of 3, 7 or no end, a clock up to 6, one retry of each call, 1 worker, `InsecureJwt` as in `conf/signal.toml` | renewals are in time, the exit names the last registration or the id a renewal has put in its place, no verdict on removed files is sent, nothing is fetched or reported after the exit, the process ends |

Why the bounds suffice. Two workers are needed for every interleaving on one
entry, and a third adds no new pair; the theorems of section 4 remove the bound
for the lock accounting. Three versions give a hit, a miss and a rejected
problem, also for the request of the latest version. Two fetchers instead of
ten give every interleaving of a pair, and three keys make one of them take two; the theorems
hold for any number. Four ids contain every small
shape: self loop, two- and three-cycle, diamond, chain, dangling id. Retry
bounds of 1 or 2 instead of 5 keep each branch: a retry that works, one that
fails, the last one. The capacity of the output channel is 32 in the code, that of the
results of `fetchRes` 10; what matters is whether a channel can fill up, which 1 does with the
second value. Three cases make the
division of the scores exact (6) and inexact (4). Four
ids for two submissions of two cases run out, so that ids are both taken and given
back. A buffer of two characters splits a line of three or four, also between CR
and LF, and leaves the third digit of a number unread. The limits of the outputs lie below, at
and above the sizes, include the two (0 and 1) for which the share of a stream is
nothing, and are odd as well as even, because they are halved; a header of two exceeds
the smallest shares. With a tick every 2 a token of 3 is due at its first tick and one
of 7 must be let pass once before it is renewed; a clock of 6 has three ticks, so that
one can be dropped and one be late. The second registration is what a failed first
attempt leaves behind. One worker is enough there: the properties are about one
worker and `main`, and workers meet only in the modules above. With `InsecureJwt` the model has
every behaviour that it has without. Symmetry under permutation of
workers (`resource_faults`) or of ids and submissions (`judge_manager`) is used only where
no liveness is checked. `CHECK_DEADLOCK FALSE` stands where the
modelled call ends (it returned, or all workers exited).

Fairness. A goroutine that can run does; calls to the backend and the sandbox end
with an answer or their context (weak fairness on each goroutine). `sync.Mutex` is
starvation free, and the Go `select` is random, so a waiting locker and the exit of
a cancelled worker have strong fairness. In Worker the judging
ends with one of its outcomes, of which `JudgeBlocks` is one: a worker that blocks takes no
further step, and `StopsAfterCancel` is about the others. `ReturnsUnlessStuck` delimits the case in
JudgeOnDag: the call returns when the outputs fit into the channel, or when the context
lives. In ResourceManager a
transfer is retried a bounded number of times (`SavesAreBounded`), which FetchRes
has as an explicit counter. In Lifecycle `main` is fair, since `ReportExit`
has a deadline of three seconds, `Shutdown` waits for executions that have
a time limit, and the rest is local; and so is the end of an execution; nothing else is, neither the worker nor the auth
manager nor `ping`, and the process must end without them.

Every property has a mutant: a plausible bug in a mapped definition under which
the same run finds the property violated.

## 4. Proofs

TLAPS has checked every theorem below; `PROJECT.json` lists them with the properties
that the runs check on small instances.

`ResourceManagerProofs` proves, for any finite set of workers, any problems, keys
and faults (assumption `ConstantsAssumption`):

* `TypeCorrect`, `LockCountCorrect`, `HeldEntryCorrect`, `SingleFetchCorrect` from
  the inductive invariant `LockInv`. `LockCountExact` is not inductive alone: that
  `Install` may set a count to 1 needs that the key is new (`FetchedKeyNew`), which
  needs that no other call can install meanwhile (`MutexDiscipline`); that
  `EvictProblem` may drop an entry needs the count to be exact.
* `HeldFilesCorrect` ([][..]_vars): no step touches a file of a held problem; from
  `LockInv`, action by action.
* `IndexCorrect`: `NoStaleIndex` with the strengthening `IndexFound`, since eviction
  finds index entries only through files and the sha table.
* `HeldProblemCorrect`: with `Faults = {}` and a fresh directory, a held problem is
  complete; strengthened by `FileInv`. Both hypotheses are needed: with
  "crash" in `Faults` over a configured directory TLC finds a held problem with
  a truncated file.
* `CacheImplemented`: under the same hypotheses every step of the manager is a step of
  ProblemCache or changes nothing there (`ImplementsCache`). By `FileInv` the usable
  problems are those in the map; by `MutexDiscipline` there is at most one download and
  none while the mutex is free, so that the `CHOOSE` in the mapping has one candidate
  (`Mapping`); the rest is one lemma per kind of step.

`LockInv`, `IndexInv` and `FileInv` are defined in ResourceManager; the lemmas on
cardinalities say how the set of holders changes with one worker.

`JudgeManagerProofs` proves, for any submissions, ids and number of test cases
(assumption `JudgeAssumption`), `TypeCorrect`, `ProgramKeptCorrect` and
`IndexedHasOwnerCorrect` from the inductive invariant `FilesInv` (`FilesCorrect`). `ProgramKept` is
not inductive alone. A program gets into the store in three steps, between which
other submissions draw ids: a file that is being written must belong to its writer
(`WriterOwnsFile`), so that nobody else draws its id or writes to it. `RemoveFiles`
of one submission must not meet the program of another: the files under two ids
tell their owners apart (`ProgramStored`), and no entry of the index is without its
owner (`IndexedHasOwner`). `CasesLeft` keeps the counter of test cases a natural
number.

`FetchResProofs` proves, for any finite sets of keys and fetchers, any capacity of the
channel and any number of retries (`FetchAssumption`: at least one fetcher, one place, one
retry), from the inductive invariant `FetchInv`:

* `CallsEndClean` (`NothingOutlivesCall`) and `FailuresHaveCauses`, without further
  hypotheses; `SuccessesAreComplete` for a directory without truncated leftovers, since
  `saveResource` takes any file that exists for a complete one. What it takes for complete
  within one call is the remnant of a failed rollback: a successful call leaves complete
  files and such remnants, and nothing else.
* `TransferImplemented`: every step, failing rollbacks included, is one of FileTransfer or a stutter. `FileTransfer!Spec`
  also says that the call returns; that part stays with TLC.

What `fetchRes` compares are two numbers, so the invariant has to say why equal numbers
mean equal sets: each key is in exactly one place and reported once (`KeysInOnePlace`;
`CountedIsComplete` then counts with the injection of the results into the keys). Why a
failure has a cause needs the opposite direction: without an error a fetcher has left
only after it found `keyChan` closed and empty (`CausesOK`), so that every key was
reported. `FilesOK` ties each file that is written to the one fetcher that has its key.

`SubtaskGraphProofs`, on the traversal: for every finite graph and every answer of the
callback, `CalledOnce`, `Topological` and `VisitsAllPossible` from `TravInv`
(`TravCorrect`, `CalledOnceCorrect`, `TopologicalCorrect`, `VisitsAllCorrect`). At its centre is
`InDegree`: the counter of a node is the number of its predecessors whose edges were
not removed yet, also in the middle of the loop over the edges of a node. With it a node
is in the queue exactly when the counter is zero (`Released`, `Reached`).
That on an acyclic graph nothing is left unvisited takes an argument about sets, not
about steps: each unvisited node would have an unvisited predecessor, and a smallest set with
this property has successors inside as well, so it is a cycle (`EndlessBothWays`).

`SubtaskGraphProofs`, on the search: for every finite graph the stack of the search is a path
(`SearchCorrect`) and the verdict is right (`VerdictIsCorrect`), from `CycleInv` together
with `TravInv`. That a graph accepted as acyclic is so needs that no set inside the
finished nodes is closed (`NoCycleFinished`), which holds because a finished node has
only finished ones behind it (`FinishedClosed`, `CallsBehind`); that a rejected graph has
a cycle is the segment of the stack between the two ends of the back edge. A cycle is a
nonempty set in which each node has a successor in the set, so that no induction over
paths is needed.

`JudgeOnDagProofs`: `OutputsAreAccounted`, `UploadsAreTried`, `ErrorIsReported` and
`ResultIsStable` ([][..]_vars) from `JudgeInv`, for any graph, number of cases, capacity
and number of retries (`JudgeAssumption`). The steps of the traversal inside it are those
of Traverse, so `JudgeInv` contains `Trav!TravInv` and the lemmas on the traversal
(`TP == INSTANCE SubtaskGraphProofs`) are used as they are; `SubtasksInOrder` is their result inside `judgeOnDAG`. An output
is given up only after its last retry or under a context that is done: `GivenUpOK` ties
`attempts`, the history of each output, to the counter of the uploader. That no output is
sent twice rests on `OutputsJudged`: outputs only come from cases that were judged, and
`CalledOnce` keeps a subtask from being judged again. `ErrOK` says which failure the
shared `err` may stand for between two callbacks.

`WorkerProofs`: `LocksAreBalanced`, `ArtifactsAreRemoved` and `TaskLifeImplemented`
(`ImplementsTaskLife`, which is a safety property) from `WorkerInv`, for any finite set of
workers, any tasks, problems and number of retries (`WorkerAssumption`). The deferred calls
of a work are a prefix of "unlock, remove files" that its place determines (`DefersOK`),
and a count is the number of works with the unlock still on their stack (`LocksHeld`). A
compiled program is in the store while its work judges, blocked works included, and its
removal is on the stack; only a failed compilation leaves one behind (`abandoned`).
That the backend is told one conclusion needs that a task has one worker and that a
repeated report carries the same result (`TasksOK`).

`LifecycleProofs`: for any set of workers, numbers of retries, tick period, lifetimes of
tokens and bound of the clock (`AuthAssumption`, `LifecycleAssumption`), from
`LifecycleInv`:

* `TokensAreRenewed` (`RenewalTimely`). The property looks at one moment; inductive is
  `TicksHandled`: while the refresher waits, each tick since the token was set found it
  fresh, and a tick that waits is older than the token or has just come. The lemmas
  `ModOf` and `NextMod` are the arithmetic of the clock.
* `ExitNamesRightInstance`: the id in use is the last registered or one that a renewal has put
  in its place, and the latter only with `InsecureJwt` (`InstanceOK`).
* `NoVerdictAfterCleanUp` and `NothingStartsAfterExit` ([][..]_vars): the files are removed
  and the exit is reported only when the context is done (`ShutdownOK`), and no worker
  leaves its select to fetch, or sends a report, under such a context.

`RecordProofs`, on scores: `ScoresFollowPolicies` and `ResultsAreWarranted` from
`ScoringInv`, for any subtasks, policies, scores and numbers of cases
(`ScoringAssumption`). The running score of `SUM` is a multiple of the score of a case
(`RunningScore`) and the counter of passed cases is the number of accepted verdicts; that
a failed subtask carries the verdict of one of its cases (`ConclusionWarranted`) makes the
reported conclusion one, whichever of the failed subtasks it is taken from.
The score of the total is a sum over a function (`SumFunction`), of which the proof needs
that it is an integer.

On outputs: `OutputsAreKept` and `RecordsAreBounded` from `OutputInv`, for any sizes, limits,
lengths of headers and message, and number of retries. `Rewound` says where each reader finds the
offset; the bounds come from `ShareFacts`, the arithmetic of the halves that two
streams get, and `TruncateBound`, the length of what `truncate` puts together.

On verdicts: `LinesAreExact`, `OnlyNewlinesIgnored` and `FloatsAreExact` from `CompareInv`, for
texts of any length, any letters, digits and precision, and buffers of any size. What was
hashed is what `Normal` or `Joined` keeps of the lines that were read, wherever the chunks
end (`HashesLines`, `HashedFacts`). With it `CompareEnd` is exact, but a difference after a
line (`HashesDiffer`) shows only that the lines that were read differ: that texts
which are the same but for a last newline never get there is `InStep`, since the next line
of both is the one up to the next newline of their common extension (`OneLineFollows`).
For numbers, a number with a line break is what `filter` leaves of its text, also when
the buffer ends within the line break (`NumberIsParsed`), and what is parsed of a text
that fits into the buffer is such a number (`ParsedIsNumber`).

They assume of their constants what the models name: `OutputAssumption` and
`LengthAssumption` (sizes and limits are natural numbers, header and message are not
empty), `CompareAssumption` (letters are no newlines, buffers and precision are positive).

These proofs are about functions that recur over a text. Induction is stated for sets
(`Induction`, `BoundedInduction`), and that a recursion has a solution for functions
(`Recursion`, `CountedRecursion`), so that no operator has to be passed: `law` is a
function from positions and values to values. `TakenFacts` and `ValueIsNatural` turn the
definitions of Compare into equations with them, `TakenGrows`, `TakenSplit`, `TakenOfPrefix`,
`JoinedFacts` are the inductions.

TLC has checked each inductive invariant as an invariant of the instances of section 3
before it was proved.

Every safety property of a passing run is the statement of a theorem. Out of reach of the
prover, and so only model-checked: liveness under fairness (`CallsReturn`,
`ReturnsUnlessStuck`, `FetchedIsReported`, `StopsAfterCancel`, `ShutdownEnds`, and the
termination in `ImplementsTransfer`, whose safety part `TransferImplemented` proves).

## 5. Disagreements found

Three runs expect a violation: a comment of `proto/model.proto` says what the code does not
do. Quotations and lines are in `PROJECT.json`, "findings".

* `graph_order`: a subtask runs before its dependencies, not after them.
* `scoring_min`: the policy `MIN` gives 0 for every subtask, also when all its cases pass,
  since the minimum is taken with a score that starts at 0 (`Scored`, `worker.go:334`).
* `compare_newline`: with `ignoreNewline`, `compareLines2` drops newlines between lines as
  well as the last one, so that "ab" equals "a\nb" (`Hashed`, `compare.go:154`).

Three more are stated in the modules and do not hold either. Each needs only its name in a cfg:
TLC shows the counterexample.

* `AllFetched` (cfg `fetch_res`): a transfer fails, the removal of its partial file fails, and the
  retry takes the partial file for the resource; the call succeeds (`CopyFails`,
  `OpenExisting`, `filestore.go:84` and 98).
* `ProblemsUnlocked` (cfg `worker`, a liveness property): a context that ends and a full channel block
  `judgeOnDAG` for ever, so that the problem stays locked and the worker is lost (`JudgeBlocks`,
  `worker.go:318` and 361; `ReturnsUnlessStuck` and `StopsAfterCancel` leave this case out).
* `InstanceKept` (cfg `lifecycle`, a property of steps): with `InsecureJwt`, which `conf/signal.toml` sets, a
  renewal whose token names another instance replaces the id (`Renew`, `auth.go:157`), while the
  error it drops says that this is refused.

The models, or reading the code for them, show more:

* the response to a report is not looked at: a report that the backend answers with another
  status than 2xx is not repeated, unlike one without an answer (`ReportRefused`, `worker.go:77`);
* the error of an earlier subtask is hidden by a later one that succeeds, and that
  earlier subtask keeps its conclusion (`LastFailureReported`, `worker.go:287`);
* a file truncated by a crash counts as fetched after a restart over a configured
  directory (`SaveBegin`, `filestore.go:83`);
* `New` gives up on a taken id, while its comment (`filestore.go:357`) says that
  another one is tried (`Create`);
* a response of the sandbox without results ends the process (`CompilePanics`,
  `judge.go:149`);
* a failing read is a wrong answer under `compareAll` (`ReadFails`);
* `compareFloats` accepts NaN against any number, ignores what follows the first 512
  bytes, and ends in an internal error when the program printed no number
  (`FloatsDecide`, `NotAFloat`);
* the headers of truncated compiler output count towards the limit and may leave
  nothing of a short stream; when both streams fit, the record exceeds the limit by
  the headers; a limit below 2 makes `compile` panic (`RecordBounded`);
* an attempt to connect that fails after its login leaves an instance that is renewed
  until the process ends and whose exit is never reported (`ConnectFails`);
* tasks in progress at a shutdown are lost: `main` waits for no worker, and they skip
  their reports (`SkipReport`);
* a second signal ends the process in the middle of its shutdown (`Kill`);
* the closure that unlocks reads the map without the mutex (`MapThrow`); a problem
  without resources is never evicted (`EvictNoDir`); output files are never removed;
  compiled files stay after a compile error; a task past its deadline is never
  reported;
* `main` asserts a type of the file store that it does not have when `FileTimeout` is
  set (`StartFails`, `main.go:56`), and calls a nil cleanup function when the
  directory is configured (`CleanUpPanics`, `main.go:88`);
* outside the modules: `FloatEps` may be nil (`compare.go:42`), and `TimeLimitExceeded`
  becomes `MemoryLimitExceeded` (`convert.go:15`).

## 6. What makes each component correct

* resource manager: a cache to its users (ProblemCache), exact lock counts, no eviction or write under a holder, a held
  problem is complete, one download at a time, calls return.
* fetchRes: success only with files that are complete or the remnant of a failed rollback, failure only with a cause, nothing
  outlives the call.
* graph: exact answer on cycles; topological, once, complete traversal.
* judgeOnDAG: outputs accounted for and given up only after their retries, results final when returned, the error of the
  last subtask returned.
* scoring: `SUM` and `PCT` are what the passed cases are worth (`MIN` is not, section 5);
  reported conclusion warranted.
* worker: balanced locks and files on each return path, one conclusion per task,
  every fetched task reported or excused, and after a cancellation every worker stops that
  does not block in `judgeOnDAG`.
* judge manager and temporary files: a program is kept, whole and its own, while it
  is judged; nothing is left in the index but by failed compilations.
* comparators: without `ignoreNewline`, equal if and only if the texts are the same up to the form
  of their line breaks; with it, texts with other characters are never equal; numbers equal if and only
  if they are no further apart than the precision (NaN is equal to all).
* outputs: a record is the beginning of the output, the backend gets all of it, and
  each reader starts at the beginning; records keep to their limit.
* auth manager: a token that is about to expire is renewed, whatever happens to ticks;
  the id of the instance changes by a renewal only, and only with `InsecureJwt`.
* lifecycle: the exit names the last registration or the id a renewal has put in its place, nothing is fetched, reported or
  judged on removed files after it, and a cancelled process ends.

## 7. Plan

Done, in this order: ResourceManager, its proofs, ProblemCache, FetchRes with FileTransfer,
CycleCheck, Traverse, SubtaskGraph, JudgeOnDag, Scoring, Worker with TaskLife,
JudgeManager, its proofs, Compare with `compareFloats`, Truncate with OutputFile, Auth,
Lifecycle.

Then the proofs, each with its inductive invariant: SubtaskGraphProofs, JudgeOnDagProofs,
WorkerProofs, LifecycleProofs, FetchResProofs, the refinement of ProblemCache in
ResourceManagerProofs, and RecordProofs.

Left: the hazards without a property in `PROJECT.json`, each with the reason.

## 8. Not modelled

The language table with its templates, the configuration, the go-judge wrapper with
its metrics and the small utilities format and construct; they hold no state that a
property could be about. The HTTP and S3 resource clients are plain I/O: FetchRes has
their outcomes. Generated code (`model.pb.go`, more than a third of the lines) and
mocks are left out, and so are the logger, and `compareLines`, `List`, `Remove`,
`AddEdge`, which only tests or the interface of the sandbox use. In Auth the
verification of a token and its attachment to requests are left out. Which status of the
sandbox becomes which verdict is left open in JudgeManager. Duplicate
subtask ids and lists with repeated dependencies are outside Traverse and
CycleCheck; a nil subtask reached through a dangling dependency is outside
JudgeOnDag. The sandbox, the operating system and the backend appear as the
outcomes that the code distinguishes.

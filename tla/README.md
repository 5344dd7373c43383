# chromite in TLA+

chromite is the build tooling of Chromium OS: the continuous-integration driver `cbuildbot` with its commit queue, and
the libraries it stands on (parallel tasks, subprocesses, locks, caches, retries). This directory keeps TLA+ models of
the parts whose correctness depends on the order in which several actors act, or on what happens when one of them
fails, together with the TLC runs that check them and the TLAPS proofs about them.

Paths below are relative to the repository; line numbers are those of the commit the models were written from.

Contents: [1 The system](#1-the-system) · [2 Modules](#2-modules) · [3 Runs](#3-runs) · [4 Proofs](#4-proofs) ·
[5 What the code does that its text does not say](#5-what-the-code-does-that-its-text-does-not-say) ·
[6 What is not modelled](#6-what-is-not-modelled) · [7 Plan](#7-plan)

To check: `tlc -config <run>.cfg <module>` for a run of section 3, `tlapm <module>Proofs.tla` for section 4.

## 1 The system

A change (CL) is uploaded to Gerrit. The *pre-CQ* tries it on trybots. The *commit queue* then picks a pool of changes,
applies them to a checkout, publishes a manifest that names them as the *candidate*, has a few dozen slave builders
build and test it, and submits the pool, a part of it, or blames somebody. *Canaries* and release builders number the
resulting source as *build specs*. All builders are processes on different machines that share only git repositories
(`manifest-versions`, the sources), Google Storage and Gerrit. Inside one builder, stages and their helpers are run as
parallel child processes by `lib/parallel.py`.

### Components modelled

**Background tasks** (`lib/parallel.py`). *State*: per child process two events (`_started`, `_killing`), a managed
queue with its report, output on disk; a semaphore common to the children; the parent's list of tasks.
*Operations*: `start`, `run`/`_Run` in the child, `Wait`, `Kill`, `_KillChildren`, `ParallelTasks`, `TaskRunner`,
`BackgroundTaskRunner`. *Interactions*: stages, uploads, test runs and Gerrit submissions are run through it; a child
may itself be a parent. *Hard*: child and parent interleave at every primitive; children die, hang or ignore signals;
four different timeouts race with answers that are on their way. *Correct when*: the caller learns of every failure;
no process outlives the call; no more than `max_parallel` steps run; the call ends; inputs of a pool are run once.

**Patch series: dependencies and transactions** (`cbuildbot/validation_pool.py`, 357–758). *State*: caches of lookups,
dependencies and committed patches. *Operations*: `CreateTransaction(s)`, `CreateDisjointTransactions`.
*Interactions*: Gerrit parents (git order) and CQ-DEPEND lines (any graph, cycles included) of a pool; the answers
drive applying and submitting. *Hard*: two kinds of dependency with different ordering demands, explored by mutual
recursion with two sets of things already seen; lists cut at a maximal length. *Correct when*: a transaction is exactly
what its change needs, parents precede children, lists are disjoint and no change gets lost.

**Patch series: applying** (same file, 791–971). *State*: the git checkouts of the build root, `_committed_cache`,
`failed_tot`. *Operations*: `Apply`, `_Transaction`, `_ApplyChanges`, `ApplyChange`. *Hard*: transactions span
repositories, overlap, and fail in the middle; the rollback must bring back both the checkouts and the cache.
*Correct when*: transactions land whole or not at all, each change once and after its parents, and each change is
either applied or explained.

**Validation pool: submitting** (same file, 1946–2257). *State*: Gerrit's (status, current patch set, approvals), the
pool's, `_committed_cache`. *Operations*: `SubmitPool`, `SubmitChanges`, `FilterModifiedChanges`,
`_SubmitChangeWithDeps`, `_SubmitChange`. *Hard*: people edit and merge changes between the filter and the request;
Gerrit answers SUBMITTED and merges later, or never; one change of a transaction fails after others are merged; the
tree may close. *Correct when*: parents merge before children, each change is asked for in one go, everybody is told.

**Build specs** (`cbuildbot/manifest_version.py`, parts of `stages/sync_stages.py` and `lib/gs.py`). *State*: the
version file in the source, specs and pass/fail links in `manifest-versions`, the builder status in Google Storage,
and each run's possibly stale checkouts of the first two. *Operations*: `GetNextBuildSpec` (with `IncrementVersion`,
`PublishManifest`, `SetInFlight`), `UpdateStatus` (links, then `UploadStatus`). *Hard*: read-then-push on two
repositories and a bucket, all retried as one block; writes whose answers are lost; runs that die after a claim.
A builder of a group does all this for several names. *Correct when*: no two runs build the same spec for one name,
numbers and manifests agree, statuses and links come from the same run, specs are not rewritten.

**Commit queue** (`cbuildbot/lkgm_manager.py`, `stages/completion_stages.py`, `stages/test_stages.py`,
`failures_lib.py`, `CalculateSuspects` in `validation_pool.py`). *State*: the candidate, the slaves' statuses and the
hwtests-aborted marker in Google Storage, what the master last read, what became of each change. *Operations*:
`CreateNewCandidate`, `GetLatestCandidate`, `GetBuildersStatus`, `UploadStatus`, `HandleSuccess`,
`CQMasterHandleFailure`, `SubmitPartialPool`, `HandleValidationFailure`, `HandleValidationTimeout`, `PromoteCandidate`,
`AbortCQHWTests`. *Hard*: slaves fail, die, are late, restart, abort each other's tests; the master decides on what it
read hours ago; blame is computed from messages that may be missing. *Correct when*: nothing is submitted that a slave
refused, nobody is blamed without cause, each change is decided once, and the master ends.

**Pre-CQ launcher** (`stages/sync_stages.py` 794–1041, `remote_try.py`, the pre-CQ parts of `validation_pool.py` and
`completion_stages.py`). *State*: a status file per patch set in Google Storage; the launcher's clocks (`launching`,
`inflight`) and `retried`; what each trybot tests. *Operations*: `GetPreCQStatus`, `GetDisjointTransactionsToTest`,
`LaunchTrybot`, `ProcessChanges`; in a trybot `_HandleApplySuccess`, `HandlePreCQSuccess`, `HandleValidationFailure`.
*Hard*: everybody reads the status and then writes it, with nothing in between to keep others out; trybots start late,
never, or after they were given up on; people upload meanwhile; the launcher is restarted and forgets. *Correct when*:
a patch set that passed was tested, a change is not tested twice at once without a reason, no one is turned down
because of one bad trybot, and every change is decided.

**Parallel emerge** (`scripts/parallel_emerge.py`). *State*: the dependency graph (`deps_map`), three heaps, three pools
of workers, the retry queue. *Operations*: `SanitizeTree`, `_Schedule`, `_ScheduleLoop`, `_Finish`, `_Retry`, `Run`.
*Hard*: a package is ready when the later of two things happens; failures are retried one at a time; emptiness of five
collections means deadlock or the end. *Correct when*: each package is merged once and after its dependencies, no
deadlock is declared, and `Run` ends.

**Run attributes** (`cbuildbot/cbuildbot_run.py` 307–445). *State*: one queue and one lock per attribute, in a manager.
*Operations*: `SetParallel`, `SetParallelDefault`, `HasParallel`, `GetParallel`. *Hard*: a reader takes the value off
the queue, without the lock, and puts it back. *Correct when*: the value is not lost or doubled, and readers get it.

**Disk cache** (`lib/cache.py` on `lib/locking.py`). *State*: an entry, two file locks, what each reference holds.
*Operations*: `Exists`, `SetDefault`, `Assign`, `Remove`, `Acquire`, `Release`, `unlock`. *Hard*: nested locks of which
one is kept after the call; processes that die half way through an insertion. *Correct when*: readers' entries stay,
a default does not replace an entry, and calls return.

### Components not modelled

| component | state and operations | why not |
| --- | --- | --- |
| stage runner (`stages/generic_stages.py`, `results_lib.py`) | the results list; `Run`, exception handlers, `RetryStage`, `ForgivingBuilderStage` | one process from beginning to end; parallel stages report through `lib/parallel.py` |
| enforced cleanup (`lib/cleanup.py`) | a watchdog process that runs the handlers of a parent that was killed | two processes and a pipe; the window it leaves is item 13 of section 5 |
| Google Storage (`lib/gs.py`), timeouts (`lib/timeout_util.py`, `lib/signals.py`), retries (`lib/retry_util.py`) | generation-matched writes, one alarm per process, deferred signals | the claims, deadlines and retries that matter are in BuildSpecs, CommitQueue and PreCQ |
| sync stages, repo and trybot patches | checkouts on disk | sequential commands; the parts on specs, candidates and statuses are in BuildSpecs, CommitQueue and PreCQ |
| the graph of parallel emerge | portage's resolver and its options | data; EmergeQueue takes any graph |
| builders, stages, configuration, prebuilts, uprevs, SDK, devices, `cros`, statistics, licensing, output | commands in order, data | no shared state that outlives a step; ordinary tests reach them |

`PROJECT.json` lists every component with its sources, and the hazards with the line where each bites and the property
that watches it; a hazard that no property watches says why.

## 2 Modules

| module | stands for | instantiates |
| --- | --- | --- |
| `ParallelSteps` | what `ParallelTasks` promises its caller (abstract) | |
| `BackgroundTasks` | `_BackgroundTask` and `ParallelTasks`, process by process | `ParallelSteps` (refined) |
| `TaskPool` | `BackgroundTaskRunner`, `TaskRunner` | `ParallelSteps` (used: the workers are its steps) |
| `Transactions` | the calls of `_AddChangeToPlanWithDeps`, and what a transaction should be | |
| `DisjointTransactions` | `CreateTransactions`, `CreateDisjointTransactions` | extends `Transactions` |
| `SeriesPromise` | what `PatchSeries.Apply` promises (abstract) | |
| `PatchSeries` | `Apply` on the checkouts, for any orderly plans | `SeriesPromise` (refined) |
| `MCTransactions` | `CreateTransaction` as an operator: the calls run to their end | extends `Transactions` |
| `MCPatchSeries` | its plans are what `CreateTransaction` computes | `MCTransactions` |
| `SubmitPool` | `SubmitPool` against Gerrit and developers | |
| `MCSubmitPool` | its transactions are what `CreateTransaction` computes | `MCTransactions` |
| `BuildSpecs`, `MCBuildSpecs` | several runs on one build spec repository | |
| `CommitQueue`, `MCCommitQueue` | master and slaves of one queue run | |
| `PreCQ`, `MCPreCQ` | launcher, trybots and developers on the status of patch sets | |
| `EmergeOrder` | what `EmergeQueue` is for (abstract) | |
| `EmergeQueue`, `MCEmergeQueue` | the scheduler of parallel_emerge | `EmergeOrder` (refined) |
| `RunAttributes` | one parallel attribute and the processes that use it | |
| `DiskCache` | one key of a cache and the processes that use it | |

The proofs about a module `M` are in `MProofs`, which extends it: `BackgroundTasksProofs`, `PatchSeriesProofs` (which
also extends `DisjointTransactions`, the other half of the class), `SubmitPoolProofs`, `BuildSpecsProofs`, `CommitQueueProofs`, `PreCQProofs`, `EmergeQueueProofs`. Those about the three
small components in which processes share one thing are in `SharedStateProofs`, which extends `TaskPool`,
`RunAttributes` and `DiskCache`. Names that two modules proved about together would both have carry a prefix (`DT`, `Attr`,
`Cache`).

How they compose: what `BackgroundTasks` is proved to promise is all that `TaskPool` knows of its workers; what
`Transactions` computes is what `PatchSeries` and `SubmitPool` run on, while these assume no more of a plan than
`Orderly` and `Promise`, which TLC evaluates for every plan that `Transactions` computes in their runs, and the first of
which `TransactionsAreOrderly` proves of what `CreateTransactions` yields; what `SubmitPool` does in detail is `SubmitChange` in `CommitQueue`, where only its result matters; the claim of `BuildSpecs` is `Claim`
in `CommitQueue`; and the transactions that `PreCQ` tests are the closed sets of its `Needs`, which is what
`DisjointTransactions` shows of `CreateDisjointTransactions`.

Operators named `X_Something` next to an operator `X` are wrong variants of `X`, a dropped guard or an off-by-one. No
specification uses them; each shows that some property would notice.

### Background tasks (`lib/parallel.py`)

`BackgroundTasks`: a parent forks one child per step and waits for the children in launch order. The children and the
parent interleave at every semaphore operation, event, queue operation, liveness check and signal. Children may crash
anywhere, hang in their step or at exit, survive SIGINT and SIGTERM, and race every one of the parent's timeouts. Time
itself is abstract: a timeout may expire whenever the parent waits for something that has not happened.

| variable | code |
| --- | --- |
| `child[t]` | where in `run` and `_Run` the child process is; `exited` if it had put its report, `died` if not |
| `outcome[t]` | how the step ended: the child's local `errors` |
| `started`, `killing` | the events `_started`, `_killing` |
| `queue[t]` | the report `(errors, results)` on the task's managed queue |
| `sem`, `permit` | the semaphore of `max_parallel` and who holds it |
| `signal` | the strongest signal sent to a child |
| `pc`, `cur`, `body`, `running`, `clean`, `errors` | where the parent is in `ParallelTasks` and `Wait`, how the with body ended, and Wait's locals |
| `kill` | the list `_KillChildren` works on, and its signal |

| actions | code |
| --- | --- |
| `ChildAcquire` … `ChildExits` | `run` 320–335, `_Run` 340–386, a step per operation another process can see |
| `ChildKilled`, `ChildCrashes` | the process ends by a signal, or on its own |
| `LaunchTask`, `LaunchFails`, `BodyEnds` | `ParallelTasks` 455–469 |
| `WaitStarted` … `JoinTimesOut` | `Wait` 211–281, liveness check, queue, silent timeout and join apart |
| `KillMark` … `KillReturns` | `Kill` 173–193, `_KillChildren` 389–425 |
| `FinishTask` | the loop over the tasks, the verdict 466–482 |

The abstract specification `ParallelSteps` has neither processes nor timeouts: each step ends well or fails, and the
call returns when all ended well, raises BackgroundFailure when all ended and one failed, or leaves by an exception of
the machinery. `BackgroundTasks!KeepsPromise` is the refinement: a step is `ok` once its process is gone with a good
report and no timeout on record.

`TaskPool` adds the queue of `BackgroundTaskRunner`: the workers are launched one by one (`Launch`; `LaunchFails` is
`start()` raising) and come to `_started` each at its time (`StartsUp`), the with body feeds the queue (`Produce`), ends or raises (`BodyEnds`),
one sentinel per worker follows (`PutSentinel`, in the finally clause), workers take entries one by one (`GetInput`,
`GetSentinel`), go on draining without running anything after a failure (`TaskRaises`), run `onexit` and report. A
worker's end is `Succeed` or `Fail` of `ParallelSteps`, the end of the call one of its three ways out. Of the third,
the exception of the machinery, `TaskPool` has what makes it: a worker that cannot be launched, and one that is not at
`_started` when it is waited for (`"lost"`: it died before, or takes longer than `STARTUP_TIMEOUT`), which fails the
assertion of `_WaitForStartup` (`StartupAssertion`). That exception leaves with the errors of the workers before and
without waiting for those behind, whose queue goes with its Manager (`QueueGone`). `FailuresSurface` says that nothing
else takes the place of a failure.

### Transactions and patch series (`cbuildbot/validation_pool.py`)

`_AddChangeToPlanWithDeps` calls itself, for Gerrit dependencies and for CQ-DEPENDs. `Transactions` has its calls under
way as a record: a stack with a frame for each call (its arguments, where in its body it is, the dependencies it still
has to go through) and what they share, `plan`, `gerritSeen`, `cqSeen` and `raised`. A step of the call on top is `Enter`
(the early return, the lookup of Gerrit dependencies), `AddGerritDeps` (one of them), `AddItself` (the append, the
lookup of CQ-DEPENDs) or `AddCQDeps` (one of them). The stack makes of the recursion steps that can be reasoned about;
the order of everything is that of the code. Beside it stands a definition without the algorithm: `Required` (the
closure of both kinds of dependency) and `ParentsBeforeChildren`, which exempts a change that is an ancestor of its own.

`DisjointTransactions` is `CreateTransactions` (`CreateTransaction`, `Resolve`, `Yield` for each change in turn) and what
`CreateDisjointTransactions` does with the result: `TakeGroup`, the connected component of a change, `Consider`, one
change of it, whose transaction joins the list if it fits, `FinishGroup`, which yields the list or refuses the group. The
order in which a Python set yields groups and members is left open. Whether a change is committed, merged, outside the
pool or filtered is its status in the pool (`PoolWith`).

`PatchSeries` applies the plans: `Begin` notes the heads of the repositories the transaction involves; `Skip`,
`ApplyOne`, `Conflict` and `GitFails` are one iteration of `_ApplyChanges`; `Rewind` is the except clause of
`_Transaction`, `RewindFails` the same when a `git reset` fails and repositories are left as they were; `Commit` is
`InjectCommittedPatches`; `Return` drops the failures of changes that went in later.
What conflicts is open: any change may conflict with ToT, or with what is in flight if something is.

`SeriesPromise` says what this is for: whole transactions land and stay. `PatchSeries!KeepsPromise` is the refinement.

### Submitting (`cbuildbot/validation_pool.py`)

`SubmitPool` has two sides. `UploadPatchSet`, `Chump` and `Settle` are developers and Gerrit, at any time. The code's
side is `CheckTree`, `FilterChanges` (one answer of Gerrit), then for each change `Start` (its transaction, resolved
with what is committed by then), `PassOver`, `Refused`, `Accepted`, `SeesMerged`, `StopsWaiting` for each change of the
plan, `EndTransaction` with its second loop that reports changes submitted without a dependency, and `Finish`. While a
submitted change is not merged the code asks again: `Polls` is a query that still shows it as submitted, `Poke` the
submission that follows, which finds it as it was, merged, or dropped by Gerrit and hence submitted anew. The three minutes
may be up, or a query fail, at any of these points (`StopsWaiting`), even if Gerrit has merged the change by then.

### Build specs (`cbuildbot/manifest_version.py`)

The shared stores are `versionFile`, `tree`, `specs`, `links` and `status`; each run has a `checkout` of the source and a
`clone` of manifest-versions. An attempt of `GetNextBuildSpec` is `Checkout`, `RefreshManifestCheckout`, `LookUp`,
`KeepVersion` or `IncrementVersion`, `PublishManifest`, `SetInFlight`; a push succeeds only if what it was made from is
still the head; `AttemptFails` is the except clause, at any command. `PushLink`, `UploadStatus`, `UpdateFails` and
`UploadFails` are `UpdateStatus`. `ClaimFails` also covers the upload whose answer is lost and that `GSContext` repeats.
A run that dies is one that takes no more steps.

A run has `build_names`, `NamesOf`; one of a group has several and asks about the first alone. `Uploads` is a step of
the loop of `_UploadStatus`, of which `sent` names are over, so that a claim or an upload may stop between two names and
leave the first ones as they are. `Build` chooses `verdict`, the `success` that `UploadStatus` writes for all names,
and `passed`, the names that `LocalBuilderStatus` has as passed, which say where `_SetPassSymlinks` puts each link: the
two are independent, because `RunStages` takes a failure after the stages, and `sys.exit(0)` before their end, into
account and the links do not.

### Commit queue (`lkgm_manager.py`, `completion_stages.py` and others)

Slaves: `Claim`, `Build` (its tracebacks are chosen), `StartHWTest`, `HWTestPasses`, `HWTestFails`, `Report`,
`AbortCQHWTests`, `Die`. Master: `CreateNewCandidate`, `MasterBuild`, `GetBuildStatus` (one slave at a time, as the
loop does), `AskAgain`, then `HandleSuccess` or `HandleFailure`, `SubmitChange` per change, `PoolSubmitted` or
`PartSubmitted`, `HandleChange` per change, `Blamed`; `MasterDies` is an exception or a kill on the way. A traceback is
a stage and a cause; `FindSuspects` and `FindPackageBuildFailureSuspects` are operators on them.

| variable | code |
| --- | --- |
| `status`, `fault`, `success` | a slave's status file, the tracebacks of its message, how its build really went |
| `aborted`, `skipped` | the hwtests-aborted marker; whether a slave skipped its hardware tests because of it |
| `seen`, `todo`, `left`, `marked`, `cl` | what the master last read; changes still to submit or blame; what became of each |

### Pre-CQ (`stages/sync_stages.py`, `validation_pool.py`, `completion_stages.py`)

Statuses belong to patch sets, readiness to changes. The launcher is `Query`, then per change `LaunchTimesOut`,
`InflightTimesOut`, `SeesFailed` or `JustLooks` (`GetPreCQStatus`), `Plan`, and for each plan `Launch`, `Mark` per change
and `WriteMark`; `Write` and `WriteMark` stand apart from the reading that precedes them, so that others write in
between. A trybot is `Apply` (with the patch sets of that moment), `SeesApplied` and `WritesInflight` per change,
`Succeeds` or `Fails`, `WritesPassed` or `WritesFailed` per change; or it stops anywhere. `Upload` and `MarkReady` are
developers; `Restart` is a new launcher. `tested`, `launches` and `excused` are history for the properties.

| variable | code |
| --- | --- |
| `patch`, `ready`, `status` | Gerrit's latest patch set and ready bit; `GetCLStatus` of each patch set |
| `pool`, `todo`, `busy`, `passed` | the patch sets that a loop of the launcher is about, and the sets of `GetPreCQStatus` |
| `launching`, `inflight`, `retried` | the launcher's clocks and its memory of retries |
| `plans`, `marking`, `writing` | what is still to launch, to mark, and the write that is on its way |
| `trybot[t]` | which patch sets a trybot tests, how far it is, what it still has to write |

Suspects lose their ready bit at the moment the decision is made; a trybot that never starts takes up no slot of
`Trybots`. The counters of statuses, the all-patch-sets URL and what the commit queue does with a verified change are
left out.

### Parallel emerge (`scripts/parallel_emerge.py`)

`BreakCycles` cuts what `FindCycles` may return, until there is no cycle; `StartFetchers` is the beginning of `Run`.
`CheckDone` … `CheckGivesUp` are the tests at the head of its loop, `WaitTimesOut` a wait for reports in vain,
`HandleFetch`, `HandleUnpack`, `HandleFailure`, `HandleSuccess` the handling of a report, `ScheduleNoMerge`,
`ScheduleBuild`, `ScheduleEnds` the iterations of `_ScheduleLoop`, and `WorkerStep` a worker that reports. The load
average only says how many jobs are wanted: one, or as many as there are workers.

`EmergeOrder` knows neither heaps nor workers: a package is merged, or fails, when what it needs is merged; one that
failed is tried once more, when nothing else can be merged or another such try went well, and never two at a time; the
end is good if all are merged, and bad only if nothing more can be. `KeepsOrder` is the refinement.

| variable | code |
| --- | --- |
| `needs`, `provides`, `left` | the two sides of `deps_map`, and its keys |
| `fetchReady`, `buildReady`, `unpackReady` | the three heaps |
| `fetchJobs`, `buildJobs`, `unpackJobs`, `reports` | what workers work on, and their job queue back |
| `prefetched`, `failed`, `retryQueue` | flags of a target, failed packages, those to try again |

### Run attributes (`cbuildbot_run.py`) and disk cache (`lib/cache.py`)

`RunAttributes`: `GetTakes` or `GetTimesOut` without the lock, `GetLocks`, `GetUpdates` (a value that came meanwhile),
`GetFlushed`, `GetReturns` or `GetRaises` are `GetParallel`; `SetLocks`, `SetFlushes`, `SetFlushed`, `SetPuts` are
`SetParallel`; `HasParallel` and `SetParallelDefault` look and, the latter, go on to set. `queue`, `lock` are the
attribute's; `value[p]` is the value in a reader's hands. Values are numbered as they are set.

`DiskCache`: `Call` is refused while a read lock is on record; `TakesEntryLock`, `Look`, `TakesWriteLock`, `Removes`,
`Moves`, `Written`, `TakesReadLock`, `Leaves` are the nested with statements of `CacheReference`; `InsertFails` is an
exception on the way, `Dies` a kill anywhere, at which the kernel takes the locks. `entryLock`, `writers`, `readers` are
the locks, `acquired`, `readLocked` the fields of each process's reference.

## 3 Runs

Every invariant named here was made to fail by a wrong variant of the code it watches. State counts are distinct
states.

| run | module | checks | bounds | states |
| --- | --- | --- | --- | --- |
| `tasks` | `BackgroundTasks` | NoOrphans, ReportHonoured, KeepsPromise, Termination | 3 steps, 2 at once, halt_on_error, crashes, fork failures | 567,480 |
| `tasks_blocks` | `BackgroundTasks`, cfg `_blocks` | BlocksUntilCompleted: *violated* | 2 steps, 1 at once | |
| `pool` | `TaskPool` | AllRunOnce, FailuresSurface, PoolEnds | 3 inputs, 3 workers, deaths, `start()` failing | 287,000 |
| `transactions` | `DisjointTransactions` | TransactionsComplete, ParentsLandFirst, Independent, Accounted | 3 changes, ≤ 2 Gerrit and ≤ 1 CQ dependencies each, 3 statuses, lists of ≤ 2 | 1,383,825 |
| `series` | `MCPatchSeries` | CacheMatchesCheckout, AppliedInOrder, EveryoneAnswered, KeepsPromise | 4 changes, 2 repositories, all CQ graphs | 36,936 |
| `submit` | `MCSubmitPool` | ParentsMergeFirst, AskedInOneGo, EveryoneAnswered, MissingDependencyReported | 3 changes, all CQ graphs, tree may close, 2 pokes | 3,561,012 |
| `buildspecs` | `MCBuildSpecs` | ClaimIsExclusive, StatusHasLink, SpecsOnlyGrow | 2 runs in 3 fleets, of ≤ 2 names, 1 retry, 1 commit, versions ≤ 5 | 9,825,690 |
| `queue` | `MCCommitQueue` | SeenIsReported, SubmittedWithConsent, RejectedForCause, SkippedForCause, DecidedOnce, MasterEnds | 2 slaves, 2 changes, 3 scenes, 2 rounds | 2,316,866 |
| `emerge` | `MCEmergeQueue` | NoDeadlockDeclared, KeepsOrder, Termination | every graph of 3 packages, 2 jobs | 754,654 |
| `precq` | `MCPreCQ` | PassedWasTested, DuplicatesExcused, LaunchedTwice, Settles | 2 changes, 2 patch sets, 2 trybots, 3 disturbances | 1,046,720 |
| `attrs` | `RunAttributes` | OneValue, EveryCallEnds | 3 processes, 2 calls each | 97,095 |
| `cache` | `DiskCache` | StableWhileRead, DefaultsYield, CallsEnd | 3 processes, 4 calls | 507,712 |

The modules' `TypeOK` (`DTTypeOK`, `AttrTypeOK`, `CacheTypeOK`) is part of the inductive invariants of section 4 and holds in these runs when it is added.

### What the bounds leave in, and why they are enough

- `tasks`: with three steps there is one behind, one at and one ahead of the parent's `cur`; with two permits one
  step is queued while two hold the semaphore, and a crash can take a permit with it. The parent's code never looks at
  two tasks at once except in `_KillChildren`, whose list has up to three members here. With `HaltOnError = FALSE` the
  run passes as well (1,557,386 states). The proofs of section 4 lift the bounds.
- `pool`: three workers allow one that died or never started, one that drains and one that still runs; three inputs let one of them be
  in each place.
- `transactions`: one dependency of each kind on three changes gives every chain, both pure cycles and every mixed
  cycle of length two and three, with each change in each standing, and lists that do not fit. A change has two
  dependencies when it has one of each kind; merge commits with two parents are left out.
- `series`: change 2 was made on change 1 in one repository, change 3 is in another, change 4 may be outside the pool;
  transactions overlap in every way four changes allow. `honor_ordering` is FALSE as in the commit queue; the proofs
  hold for both.
- `submit`: three changes with one Gerrit edge make transactions of one to three, in which failures before, at and
  after each place differ. `MaxAsks` 3 lets the poll ask twice more, so that it can find a change unchanged and then
  dropped. A developer leaves a change alone once it is out of the run.
- `buildspecs`: fleets are the master of a group of two and a builder of its second name, two masters of one
  name (a restarted builder), and two runs of one group that are not masters. Two names let a claim or an upload stop half
  way, and let a group pass with one board failed. Two runs with one retry each increment the version four times at most, so that
  `MaxVersion` 5 never disables a step; one commit makes a tree differ.
- `queue`: an internal and an external slave, of which the first may be the sanity checker, cover each distinction
  that the code makes between slaves; the scenes pair changes that differ in stages ignored, overlays, being internal,
  being chromite's and being marked bad. Two rounds of polling give a final status that is read early and one that
  is read late.
- `emerge`: three packages have every kind of cycle, and a package that waits for one of two that failed; with two
  workers one queues. Without `--unpackonly` every graph is tried; with it, where packages are not built, two packages
  are independent and the third may need them.
- `precq`: two changes, the second of which needs the first, with the launcher and two trybots on their own; or one
  change with a developer who uploads or marks it as ready, failures that blame another, and restarts, three such
  disturbances in all: enough for a trybot given up on, launched again, and late. Two patch sets make one stale.
- `attrs`, `cache`: three processes let two race while a third has what both want. Calls are counted, so that a
  process that is overtaken by endless calls of others, which the code does not prevent, is not a counterexample.

`CHECK_DEADLOCK FALSE` is said for `buildspecs` and `queue`, whose runs end and nothing follows, and for `attrs` and
`cache`, whose processes have made their calls. In the other modules ending is an explicit stuttering step, or there is
no end, so that any other standstill is reported as a deadlock.

### Fairness

- `BackgroundTasks!Fairness`: weak fairness of the parent's step (it is a running process, and each wait has a
  timeout); weak fairness of the few lines of Python a child runs before and after its step; weak fairness of the
  death of a child sent SIGKILL (the kernel's). A step may run for ever and a child may hang at exit: no fairness. The
  silent timeout is strongly fair: a hung child writes nothing, so each poll of it is one in which the clock
  that has been running all along may exceed `SILENT_TIMEOUT`.
- `TaskPool!Fairness`: the with body ends, the parent puts its sentinels, and workers run. Unlike in `BackgroundTasks`
  tasks end here: a worker that hangs is one that `Dies`, which is what its parent makes of it by `SilentTimeout`.
- `CommitQueue!Spec`: weak fairness of the master's step, and nothing of the slaves; `MasterEnds` holds because the
  master's wait is bounded (`MaxRounds`, the timeout of `_RunLambdaWithTimeout`).
- `EmergeQueue!Fairness`: weak fairness of the main loop and of each worker's job: packages take their time, but a
  build that never ends is one that emerge waits for, by design.
- `PreCQ!Fairness`: weak fairness of the launcher's loop, and strong fairness of `TimesUp`, the moments when the
  launcher notices that something is overdue: its clocks run on while it looks at other things. Nothing is asked of
  trybots and developers.
- `RunAttributes!AttrSpec`: weak fairness of each process's step once it has begun a call.
- `DiskCache!CacheSpec`: the same, and of giving up what a process holds: who has a reference releases it in the end, as the
  with statements of its callers do.
- `DisjointTransactions`, `PatchSeries`, `SubmitPool` and `BuildSpecs` state no fairness and check safety only.

### What the runs show

*Background tasks.* A child's report is never missed because its process has exited, since `is_alive()` is read before
the queue; a killed child neither reports nor gives back its permit, so that a call with dead permit holders ends by
the startup assertion rather than by overbooking; after a normal return or a BackgroundFailure no child is left,
whichever timeouts expired; the parent ends although every child hangs.
*Pool.* No input runs twice; after a normal return all ran; a worker that fails drains its share, so that the queue is
empty in the end unless workers died.
*Transactions.* A transaction is exactly the closure of what its change needs, is refused exactly if something in the
closure is not to be committed, and has parents first unless they are in a cycle; cut lists stay disjoint and closed.
*Series.* The cache and the checkouts agree between transactions, and everybody is applied or explained, never both;
when a rewind fails half way, what the cache says is still there, and what is there too is of that transaction.
*Submit.* A change is asked for after its parents merged, and again only by the poll that waits for it, never once it has merged or failed; everybody not merged gets an error; a change
that went in without a dependency is reported.
*Build specs.* The claims in Google Storage, taken name by name, make builds exclusive although looking and publishing
are not; each final status is preceded by the one link of its name, from the same run, so that the two differ only where
the name and the run ended differently; published specs do not change, except by a run whose source checkout is stale.
*Queue.* No decision rests on a status that a slave did not report; a submitted change has the consent of each slave
that told the master it had started, and the candidate becomes the LKGM only with its pool submitted whole; nobody is rejected for what only the infrastructure, a sanity checker or an
external builder did; every change is decided once.
*Emerge.* Whichever cycles `FindCycles` returns, cutting what goes against the install plan leaves none; from then on
`Run` neither declares a deadlock nor waits for ever; packages are merged in order although they become ready by two
routes, fail and are retried.
*Pre-CQ.* Though statuses are overwritten by writes that come late, a patch set marked as passed was tested; a change is
in two trybots at once only after an upload, after the launcher gave up on one, after a restart in the middle of
marking, or once it has passed; in the end each change passed or lost its ready bit.
*Attributes.* The queue holds one value at most and the value is never lost, although readers take it off without the
lock; every call returns.
*Cache.* A read lock keeps the entry, though writers die between removing and replacing one; SetDefault yields;
the two locks are never waited for in a circle.

## 4 Proofs

TLAPS checks eight modules of proofs, which concern a dozen of the modules above, to the last leaf (11,496 obligations).
They rest on the named assumptions of the modules (`BackgroundTasksAssumption`, `SeriesAssumption`, `SpecsAssumption`,
`QueueAssumption`, `DisjointAssumption`, `EmergeAssumption`, `AttributesAssumption`, `CacheAssumption`, `TaskPoolAssumption`,
`PreCQAssumption`: the constants are numbers, booleans, finite sets and functions of the right kind; every plan of a series is
`Orderly`; `SubmitAssumption`: every transaction keeps its `Promise`), which TLC evaluates in the runs, and on the
theorems about finite sets, sequences and well-founded orders of the TLAPS library.

| theorem | says, for every value of the constants |
| --- | --- |
| `Invariance`, `TypeCorrect` | `IInv`, and with it `TypeOK`, is an invariant of `BackgroundTasks` |
| `ReturnIsHonest` | a normal return means that every step ended well and its process is gone (`ReturnMeansSuccess`) |
| `NothingLeftBehind` | no process outlives a normal return or a BackgroundFailure (`NoOrphans`) |
| `ReportsAreHonoured` | who reported is not declared to have exited unexpectedly (`ReportHonoured`) |
| `SemaphoreBounds` | at most `max_parallel` children are in the guarded part (`AtMostMaxParallel`) |
| `HaltIsFinal` | with halt_on_error only one task has errors (`HaltSquelches`) |
| `ParallelTasksKeepsPromise` | `BackgroundTasks` implements `ParallelSteps` (`KeepsPromise`) |
| `SeriesInvariance`, `SeriesTypeCorrect` | the same for `PatchSeries` |
| `RollbackIsExact` | checkouts and cache agree between transactions (`CacheMatchesCheckout`) |
| `AppliedOnceInOrder` | no change twice, none before its parents (`AppliedInOrder`) |
| `KnownBadIsBarred` | what does not apply to ToT is never in the build root (`KnownBadStaysOut`) |
| `AppliedOrExplained` | each change is applied or named by an exception, not both (`EveryoneAnswered`) |
| `SeriesKeepsPromise` | `PatchSeries` implements `SeriesPromise` (`KeepsPromise`) |
| `DTTypeCorrect` | every variable of `DisjointTransactions` keeps its type (`DTTypeOK`) |
| `TransactionsAreComplete` | a transaction is what its change needs, each change once, or there is an obstacle (`TransactionsComplete`) |
| `ParentsDoLandFirst` | parents come first in transactions and in lists made of several (`ParentsLandFirst`) |
| `ListsAreIndependent` | lists share no change and lack none that they need (`Independent`) |
| `ChangesAreAccounted` | each change is in a list, refused, or waits for one of its group (`Accounted`) |
| `GroupsHaveTransactions` | each change of a group has a transaction to look up |
| `TransactionsAreOrderly` | what `DisjointTransactions` yields is what `PatchSeries` assumes (`Orderly`) |
| `ParentsFirst` | no change is submitted before all it was made on is in (`ParentsMergeFirst`) |
| `SubmittedInOneGo` | none is asked for again but by its own poll, before it has merged or failed (`AskedInOneGo`) |
| `NoneForgotten` | each change is merged or has an error (`EveryoneAnswered`) |
| `BrokenDependenciesTold` | a change that went in without a dependency is reported (`MissingDependencyReported`) |
| `PassedAreTested` | a patch set marked as passed was tested (`PassedWasTested`) |
| `TurnedDownAfterTwo` | no change is turned down for a silent trybot before its second launch (`LaunchedTwice`) |
| `TestedOnceAtATime` | no change is in two trybots at once without an excuse (`DuplicatesExcused`) |
| `InputsRunOnce` | inputs of a pool run once, all of them if the call returns (`AllRunOnce`) |
| `NoFailureHidden` | a failed task or worker surfaces, unless a worker never started (`FailuresSurface`) |
| `OneClaim` | no two runs build the same spec for one name (`ClaimIsExclusive`) |
| `LinkBeforeStatus` | a final status is one run's, and the link of its name was pushed before by the same run (`StatusHasLink`) |
| `SpecsStay` | specs are not rewritten, stale checkouts apart (`SpecsOnlyGrow`) |
| `ReadIsReported` | what the master read as final is what the slave reported (`SeenIsReported`) |
| `Consent` | no submission or promotion without the slaves' consent (`SubmittedWithConsent`) |
| `CauseForRejection` | no rejection without a cause (`RejectedForCause`) |
| `CauseForSkipping` | hardware tests are skipped only if something else failed (`SkippedForCause`) |
| `OneDecision` | each change is decided once (`DecidedOnce`) |
| `NoDeadlock` | parallel emerge never declares a deadlock, whatever the graph (`NoDeadlockDeclared`) |
| `RetriesAlone` | one package is retried at a time (`OneRetryAtATime`) |
| `EmergeQueueKeepsOrder` | `EmergeQueue` implements `EmergeOrder` (`KeepsOrder`) |
| `AttributeKept` | a parallel attribute keeps its one value (`OneValue`) |
| `EntryStable` | an entry stays while it is read (`StableWhileRead`) |
| `DefaultsAreDefaults` | SetDefault takes no entry's place (`DefaultsYield`) |

**The argument for background tasks.** The properties speak of the places where the call leaves; they are not
inductive, because whether the parent may leave depends on what it concluded about each child long before. `IInv` says
what it knows at each place: `PendingInv` (the report of a task not dealt with is still on its queue), `ReportInv` (it
says how the step ended), `CurrentInv` (Wait's `clean` and `running` are true of the current task), `SettledInv` (a
task dealt with is gone, and without an error on record it ended well), `KillInv` (the tasks `_KillChildren` dropped
from the end of its list are gone), `HaltInv` and `BlameInv` (which errors can be on record), `LaunchInv`, and
`PermitsInv`, the counting argument for the semaphore: permits in it and with children, alive or dead, add up to
`max_parallel`. `ChildFrames` says once that a child's step leaves the parent alone, moves only forward, and turns no
dead process alive; `ChildKeepsParentInv` draws from it that the parent's knowledge is stable under all of them. Then each
parent action is taken for itself. The refinement needs two states of a child at a time: a step of `BackgroundTasks`
changes the status of one task (`OneStatusChanges`), or ends the call, or stutters.

**The argument for the series.** The invariants speak of the moments between transactions. Within one, `Progress` says
that the checkouts hold what was committed and the prefix of the plan up to `pos`; `Rewindable` that the saved heads
hold what was committed and differ from the checkouts only where the transaction is involved; `Heads` that both are in
order; `Barred` that the plan being tried has nothing known to be bad; `Answers` that each change given is waiting,
being tried, committed or blamed. A rewind restores `Between` by `Rewindable`, a commit by `Progress` with `pos` at the
end (`PrefixIsPlan`). After a rewind that failed, each repository holds one of the two states that `Progress` and
`Rewindable` describe, which is all that `Aborted` claims; it needs `Heads`, since a committed change is in the same
repository in both.

**The argument for transactions.** Nothing that `TransactionsComplete` says of a plan is true while the calls are under
way, and what they still have to do is spread over the whole stack. `RunInv` says of every moment that what is missing is *pending*: a Gerrit dependency
of a change seen is in the plan, or in what a call for that change has left, or is what the next call is for
(`GerritPending`); a change in the plan has had its CQ-DEPENDs looked up, or is in the list of a call, or will be, because
a call that has not come to its own CQ-DEPENDs takes in all that was added since `old_plan_len` (`CQPending`); likewise
for the change itself, for those looked up but not appended and for CQ-DEPENDs (`RootPending`, `SeenPending`,
`CQDepsPending`). It takes `Shape` to know that calls without CQ-DEPENDs stand on a call with them, and
`Branch`, which says that the calls above one that goes through Gerrit dependencies are for ancestors of its change:
this is why a call met twice, whose change is in `gerrit_deps_seen` but not in the plan, means a cycle, which is all that
`Ordered` needs in order to put parents first. `Origin` says that nothing gets in that is not in the least closed set. Each
kind of step has a lemma (`EnterNew`, `GerritNext`, `AddReturn`, ...; `PopKeeps` and its kin say once what a
return leaves pending, `PushCQPending` what a call does); when the stack is empty nothing is pending, so the plan is closed, hence the
least closed set (`RunEnd`). `Created` and `Grouped` then follow the transactions made so far: a group is the least set
that keeps transactions whole (`LinkedFacts`), hence the group of each of its members (`LinkedSame`), and groups are
disjoint; a list is a union of whole transactions (`Sound`), also when others did not fit, and stays in order when the
rest of another one is added (`JoinOrdered`). `Kept` is written so that the provers can say where the elements of what is
left of a list were (`KeptPlaces`). Cycles are allowed, in both kinds of dependency.

**The argument for submitting.** What `SubmitPool` needs of `CreateTransaction` is `Promise`: a transaction is of changes
that may go in, each once; it has the change it is for, and all that a member of it depends on that is not in yet; and
what a member was made on comes before it. `SubmitAssumption` asks this of `Resolve` for every graph, every set of
approved changes, every part of it that is committed and every set of other changes that are merged. It excludes
graphs in which Gerrit parents go in circles; the code has none, since a Gerrit parent is the change of an ancestor
commit. TLC evaluates it in the run `submit`, where `Resolve` is the algorithm of `Transactions`, and the run
`transactions` compares that algorithm with the definition of a transaction for more graphs. `ParentsMergeFirst` is not
inductive: nothing in it says why the parents are in. `PlanInv` says that what the loop has been through was submitted
or failed, and, unless `error_stack` holds something, was submitted; `RestsOn` that what a planned change depends on is
merged or planned, parents before it; `MergedInv` that `submitted` and `_committed_cache` only name merged changes, and
a merged change stays so (`OthersStep`). When Gerrit is asked (`AskingIs`), the stack is empty, hence the parents are
merged; and the change is none that was asked for, since by `AskInv` those have failed, are in or are being polled, and a
plan names no change twice and none that is committed. `PollInv` is the same for the poll: what is polled has not failed. A transaction ends with all its members submitted or failed
(`EndTransactionStep`): this keeps `AnswerInv`, that each change is merged, has an error or is still to come, from which
`EveryoneAnswered` follows when nothing is to come, and `ReportInv`, since the dependency that is missing is then among
the errors the second loop looks at.

**The argument for the pre-CQ.** `PassedWasTested` needs only `PassInv`: who is about to write "passed" writes it for the
patch sets it began with. For `LaunchedTwice`, `LaunchInv` says that a patch set whose status is launching, or a change
that the launcher remembers or is about to mark, has been launched, and `RetryInv` that a change in `retried` with one
launch behind it is no longer launching: the launcher has written "waiting" over it, or is about to. `DuplicatesExcused` is the
hard one: writes are apart from the reads that cause them, so that what keeps a change out of a second trybot is a
status that may be overwritten. `TestInv` says of each change without an excuse that its status shows that it is being
tested as long as a trybot has it, save for the moment before the launcher has marked it (`Unmarked`), that the
launcher is about to overwrite only what no trybot has, and that what it has found fit to be tested (`Eligible`) is in no trybot.
`PlansInv`, that the plans of one loop have nothing in common, is `GroupsDisjoint`: what `Groups` puts apart is closed
under `Needs` in both directions. A proof attempt found that an earlier form of the property was false (item 20 of section 5).

**The argument for parallel emerge.** `NoDeadlockDeclared` is about the absence of work, so the invariant must say where
every package is. `FetchInv`: a package waits for a fetcher, is with one, or has been through; `BuildInv`: a package that is left, fetched
and in need of nothing is ready, being built or failed; `GraphInv`: the two sides of `deps_map` mirror each other, and
every set of packages has one that needs none of the others. The last is where the graph comes in: `NoCyclesOrdered` derives it from `CycleSets = {}` alone. If every
package of a set needed another one, then, what is reached from a package being finite, there would be one whose reach
is smallest (strict inclusion is well-founded on finite sets); the package it needs reaches as much, hence back to it,
and `CycleFound` makes of the edge that leads back a member of `CycleSets`. `Finished` and `Accounted` show that a
package that is done unblocks exactly those that need nothing more, so that `BuildInv` is kept; then, if all has been
fetched and nothing is ready, running or waiting for its retry, what is left has no package that needs none of the
others, unless one has failed: the end is an honest failure (`NeverDeadlocked`). The refinement maps a package to merged when
`_Finish` drops it, to `again` while it is built once more, and to hopeless when it fails for the second time. That a
retry waits until nothing else can be merged is `NothingElse`, by `BuildInv` and the emptiness that `Idle` finds; that it
is alone is `RetryInv`, which also gives `RetriesAlone`.

**The argument for the commit queue.** A slave's run is one way (`SlaveInv`), so that what is final stays as it is
(`Settled`); with that, `SlaveFrame` and `MasterFrame` say that neither side disturbs what the other side's part of the
invariant is about. `SeenInv` and `SeenIsReported` tie what the master holds to what the slave did; `ChoiceInv` says
which changes are still open in which phase, and `DecisionInv` what the master saw when it decided, which is still all
that it sees. `SubmittedWithConsent` and `RejectedForCause` follow from `DecisionInv` by `SeenIsReported`. `AbortInv` needs
`FaultInv`: the hardware tests' traceback is the last one, so that a failure elsewhere is on record before the abort.

**The argument for build specs.** A run owns the names that it has claimed (`Owns`) until it is over. `OwnInv` says
what the stores have of them: `inflight` until it has uploaded, no link until it has pushed, and then its own. Nobody else
writes there, because a claim needs a status that is `missing` and no two owners have the same version (`ExclInv`), which
gives `ClaimIsExclusive`; `MissingInv` (no link where the status is missing) and `SentInv` (the loops start from the
first name) are what claims and pushes need. `StatusHasLink` is itself inductive given these: no step changes an entry
whose status is final (`StoresHold`), and an upload makes one of an entry that has its link. For `SpecsOnlyGrow`,
`VersionInv` says that every checkout and clone is an earlier state of the version file and of the specs, and
`PublishInv` that the number about to be published is that of the checkout and not the latest spec known; a push goes
through only if the clone is the head, so the number is above the latest spec or the checkout is behind.

**The smaller ones.** For the pool, `QueueInv` (sentinels come after inputs, and nobody leaves before reading one) and
`RanInv` (an input that was read was begun by one worker, or some task failed) give `AllRunOnce`. For `FailuresSurface`,
`CallInv` (a worker known to be well ended without a failed task), `StatusInv` (nothing is known of one that is not
over, and a BackgroundFailure knows all) and `WayOutInv`: all workers are launched before there is a body, and an
exception that is not a BackgroundFailure finds every worker well or one that never started. For attributes, `LockInv` and `PutInv`:
only the holder of the lock puts, after emptying the queue. For the cache, `LockInv` (who is past a lock holds it alone)
and `LookInv`: what a call saw under the entry lock is so until it ends.

**Model-checked only.** Liveness: `Termination` (twice), `PoolEnds`, `MasterEnds`, `Settles`, `EveryCallEnds`, `CallsEnd`;
the provers do not reach liveness under fairness. For the same reason no theorem says that the calls for a change come to
an end; `RunEnd` says what they have achieved if they do. `MCTransactions`, which runs them to their end in one step for `series` and
`submit`, is recursive and hence out of reach; that its plans keep the `Promise` of `SubmitAssumption` is evaluated by TLC.

## 5 What the code does that its text does not say

Shown by a run that violates what the text says:

1. `tasks_blocks`. A step queued behind `max_parallel` has not set `_started` (set at `lib/parallel.py:365`, after the
   acquire at 323). `_WaitForStartup` gives it `STARTUP_TIMEOUT` all the same, so the call may leave by an assertion
   with other steps running, although "This function blocks until all steps are completed." (541)

Met while modelling; the models do what the code does, and a property that would say otherwise is not stated:

2. Once a change of a plan has failed to be submitted, every later one gets a `DependencyError`, also one that the
   failed change depends on and that depends on nothing; the comment says "One of the dependencies failed to submit."
   (`validation_pool.py:1986`)
3. `HandleSuccess` is called whatever became of the master's own stages, although "This function is called whenever the
   cbuildbot run is successful." (`completion_stages.py:230` and 162)
4. `completion_stages.py:361` and `test_stages.py:229`. A failing slave, a sanity checker too, aborts the hardware
   tests of all the others, whose failures are then warnings: they report that they passed. If only the sanity checker
   failed, the pool is submitted without having been tested on hardware. `SkippedForCause` is what remains true.
5. `completion_stages.py:403`. A partial submission is not attempted if somebody is `inflight`, but is if a builder
   never reported anything, against the care of "the builder did not report its status properly. Don't submit anything."
   (331) for builders with an empty report.
   Hence the disjunct `"missing"` in `SubmittedWithConsent`.
6. `failures_lib.py:291`. `MatchesFailureType` is true of no tracebacks: a builder that failed outside every stage looks
   like a lab failure, and nobody is blamed. A builder without a message at all is treated otherwise.
7. `validation_pool.py:2059`. The tree is closed: the exception's constructor is called with a keyword it does not have,
   and a `TypeError` leaves instead of a `TreeIsClosedException`. (`RaisedWhenClosed`)
8. `completion_stages.py:301`. `isinstance(exc_type, FailedToSubmitAllChangesNonFatalException)` asks about a class, not
   an exception, and is never true: failures of whitelisted kinds are fatal to the run, against the comment at
   `validation_pool.py:2236`.
9. `validation_pool.py:1130`. The docstring of `FindSuspects` says it calls `FindPreviouslyFailedChanges`; nobody does.
10. `manifest_version.py:808`. If Google Storage fails after the links were pushed, the status stays `inflight` for
    ever; so does the claim of a run that died, and those a group made before it was refused one; and a claim whose
    answer was lost is met by its own retry (733).
11. `manifest_version.py:671`. A run that synced before another one incremented the version publishes the number that
    is taken, over the spec that is there. `StaleCheckout` is this exception in `SpecsOnlyGrow`.
12. `cbuildbot_run.py:423`. `GetParallel` takes the value off its queue before it takes the lock, although the comment
    relies on the lock being held by any process that does so.
13. `lib/cleanup.py:65`. The watchdog is dismissed at the end of the body it guards, before the cleanup handlers around
    it have run; a parent killed there leaves them undone.
14. `stages/generic_stages.py:253`. `_HandleExceptionAsSuccess` returns two values where `Run` unpacks three; nobody
    calls it.
15. `parallel_emerge.py:575`. "we can install this package before its deps are ready": the branch of `_Finish` for
    packages with `nodeps` (1541) is never reached. With `--unpackonly` `Run` ends when `deps_map` is empty although
    packages may still wait to be unpacked, and an unpacking that fails is not recorded. A worker that dies is waited
    for without a timeout.
16. `sync_stages.py:968`. "Once a Pre-CQ run actually starts, it'll set the status to STATUS_INFLIGHT." (919) fails if
    LAUNCHING is written after the trybot looked; a status of PASSED can be overwritten as well, although "Pre-CQ
    ignores changes that were already verified." (`validation_pool.py:2554`); hence the excuses of `DuplicatesExcused`.
17. `validation_pool.py:2550`. A failing trybot reloads its changes: a patch set that it has not tested is marked as
    failed and loses the ready bit. The launcher's timeouts act on the change, too, whichever patch set timed out.
    `retried` is not cleared by a success.
18. `cbuildbot_run.py:432`. "This should only happen if another process put a value in after our first queue.get above.
    If so, accept the updated value.": the value on the queue may as well be an older one that another reader has put
    back, which then replaces the newer one in the reader's hands. `SetParallelDefault` may set an attribute that is
    set but in a reader's hands, although it acts "only if it is not already set"; a reader with timeout 0 may
    find it unset. `OneValue` is what remains true.
19. `lib/cache.py`. `read_locked` stays true after `unlock` and `Release`: later calls on the reference raise "Cannot
    call … while holding a read lock" although none is held. An item that comes from another file system
    (`cros_chrome_sdk.py:783`, a directory in `/tmp`) is copied, not renamed, into place: a process killed
    meanwhile leaves half an entry that `Exists` reports. `DiskCache` models the items of the staging directory.
20. `sync_stages.py:947` and 988. "If any of the CLs in the plan are currently "busy" being tested, wait until they're
    done before launching our trybot run. This helps avoid race conditions." A change whose status is PASSED is never
    busy, also when a trybot is testing it anew together with a change that needs it: with three changes, two
    trybots test a passed change at once without an upload, timeout or restart. `DuplicatesExcused` exempts it.
21. `lib/parallel.py:171`. A worker that dies before `_started` makes `Wait` raise an `AssertionError`, which discards
    the errors collected before it and leaves the rest of the workers behind, although "a BackgroundFailure is raised
    with full stack traces of all exceptions" (438, 619). `FailuresSurface` exempts it.
22. `manifest_version.py:763` and 744. The links of a group say what each name's boards did, the status the same for
    all names: a name whose link is in `pass` may have the status `fail`, and the other way round after `sys.exit(0)`,
    which passes although boards are missing from the log. `StatusHasLink` says what remains true.

## 6 What is not modelled

In the components that are modelled: the formatting of messages and alerts; `Manager` and pickling in `parallel.py`;
the output printed by `Wait`; the queries to Gerrit and the parsing of commit messages (their results are the graphs and
pools a run starts with); drafts and the saving of pools between `cbuildbot` re-executions; the contents of manifests and
blame lists; chump changes between runs of the queue. What Gerrit knows changes neither during a
series nor between the computing of transactions and their use, save by the filter of `SubmitPool`: the caches of a
`PatchSeries` are the pool it starts with. In the pre-CQ, the commit queue's own filter of changes and the
limit of 50 patches to a plan (`sync_stages.py:985`), hence cut plans; in parallel emerge, portage, and that `_Finish`
finishes an unblocked package with nothing to merge on the spot (1556), where `ScheduleNoMerge` does it later; in run attributes and caches, a process that dies with an attribute's value in its hands, several keys, and two
references in one process, which would share the kernel's locks.

In the system: the table at the end of section 1 and `PROJECT.json` name each component left out. Those with actors that
race are in the plan. The rest runs commands in sequence, formats data, or wraps the kernel or a service.

## 7 Plan

The order is by how much depends on a component and how hard its behaviour is to test.

| step | module | what it adds | state |
| --- | --- | --- | --- |
| 1 | `ParallelSteps`, `BackgroundTasks`, `TaskPool` | everything else runs on it | done |
| 2 | `Transactions`, `DisjointTransactions` | what may land together | done |
| 3 | `SeriesPromise`, `PatchSeries` | it lands whole or not at all | done |
| 4 | `SubmitPool` | it is submitted against moving targets | done |
| 5 | `BuildSpecs` | builders agree on what to build | done |
| 6 | `CommitQueue` | master and slaves, verdicts and blame | done |
| 7 | `BackgroundTasksProofs`, `PatchSeriesProofs` | invariants and refinements for all sizes | done |
| 8 | `PreCQ` | launcher, trybots and developers on one status per patch set | done |
| 9 | `EmergeOrder`, `EmergeQueue` | the scheduler of parallel_emerge and its abstract order | done |
| 10 | `RunAttributes`, `DiskCache` | the smaller races of section 1 | done |
| 11 | `BuildSpecsProofs`, `CommitQueueProofs`, the pool in `SharedStateProofs` | their invariants for any builders, slaves, changes, inputs | done |
| 12 | `EmergeQueueProofs`, attributes and cache in `SharedStateProofs` | invariants and a refinement for any graph and processes | done |
| 13 | `SubmitPoolProofs` | parents first, once each, everyone answered, given what a transaction promises | done |
| 14 | `PreCQProofs` | its safety for any changes, patch sets and trybots | done |
| 15 | `DisjointTransactions` in `PatchSeriesProofs` | transactions are complete and in order, groups stay apart and lose no change, for any graph | done |
| 16 | enforced cleanup | the watchdog of `lib/cleanup.py` | later |

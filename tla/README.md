# A verification development of hpc-sandbox-benchmarks

This directory holds TLA+ models of the parts of the repository that decide what a benchmark
experiment may create at a sandbox vendor, what it owns there, and what it may claim afterwards. TLC
checks small instances of every model; TLAPS proves the most important facts for every value of the
constants. Line numbers below refer to files under `src/`.

## 1. The system

The repository is a Bun/TypeScript monorepo that benchmarks sandbox vendors. A frozen *experiment
plan* names *cells* (provider, suite, replicate); cells of one vendor account form *batches*. A GitHub
Actions worker executes one batch of an account at a time (the account's workflow queue provides the
exclusion, there is no lock), each cell being one sandbox: create, set up, run, collect, destroy,
observe the removal. Workers are killed, vendors answer late or never, and a request that looks failed
may have taken effect. Sandboxes cost money and count against a quota, so the program keeps a *durable
journal* of ownership on a protected Git branch and refuses to create anything while an earlier
create is unexplained.

| Part | Source | State | Operations | What makes it correct |
| --- | --- | --- | --- | --- |
| Batch executor | `apps/cli/src/lib/execute-experiment.ts` | per worker: admission failure, refill stop, journal history; per cell: create started / rejected / allocated, journal failure, evidence | `executeExperimentBatch` (admit, `runCell`, wrapped `create`, `launch`) | ownership is durable before create and lasts through observed removal; capacity; one create per planned cell; truthful evidence |
| Account journal | `account-journal.ts` | records intent, allocated, released, cleanup-attested | `recoverAccount`, `confirmRemoval`, `withinSignal` | unknown creates block admission; records never contradict |
| GitHub journal | `github-account-journal.ts` | a branch per account; per process a chain of appends and a cache of the last acknowledged commit | `read`, `append` | append-only log, no duplicate, acknowledged records stay |
| Account reconciliation | `account-reconciliation.ts`, `account-policy.ts`, `account-inventory.ts` | two inventory snapshots | list, destroy, observe, list again | nothing owned or unknown is left before the first create |
| Operator recovery | `allocated-intent-recovery.ts`, `not-allocated-intent-recovery.ts`, `completed-create-recovery.ts`, `rejected-create-recovery.ts`, `cleanup-recovery.ts` | sealed attempt evidence, journal | append the records an interrupted worker lost | an operator closes only what evidence and observation prove closed; an interrupted command is repeatable |
| Harness suite execution | `packages/harness/src/index.ts` | step log, phase, suite error, receipts | `createSuiteSandboxFromPlan`, `executeSuite`, `runSuiteWork` | every exit tears down, observes, leaves its receipts and a gap marker |
| Sandbox owner | `packages/harness/src/lib/sandbox-owner.ts` | registry of owned sandboxes and pending creates, shutdown flag | create, release, cleanup, shutdown, signal handlers | no sandbox outlives its process unowned; destroy once; exit after cleanup |
| Detached step runner | `packages/harness/src/lib/execute.ts`, `completion.ts` | launch token, status file, poll failures | start, poll, collect, settle | the status reported is that of the step's first run, neither lost nor invented |
| Driver kit | `packages/driver/src/lib` (`computesdk.ts`, `table.ts`, `vendor-lifecycle.ts`, `vendor-driver.ts`, `poll.ts`) | session teardown state, ambiguous-create inventory | create, rollback, reconcile, destroy, observe | a create error is either proof of absence or says what is left; a destroy that resolved means gone |
| Command-line driver kit | `packages/driver/src/cli.ts` (`packages/tama`) | one shared login per driver, one profile queue per binary, retained cleanups by name | prepare, create, poll readiness, retry a cleanup | one login at a time; no call fails because another gave up; absence needs two looks |
| Plan, evaluation, publication | `packages/results/src/lib/experiment.ts`, `publication.ts`, `experiment-repair.ts`, `unstarted-batches.ts` | none (pure) | verify, evaluate, aggregate, repair | coverage counts each cell once and only verified evidence |
| Experiment artifacts | `experiment-artifacts.ts`, `experiment-store.ts`, `experiment-transfer.ts` | immutable attempt directories | write once, digest, collect against the journal, read back | evidence that verifies when written verifies when read; a lost receipt is noticed |
| Image bake and promotion | `apps/cli/src/lib/bake/` | image catalogue, canary results | build, verify, promote | only a verified image becomes current |
| GPU fleet | `apps/cli/src/lib/gpu/` | leases of GPU hosts | acquire, run, release | a host is released once |
| Provider packages | `packages/{modal,daytona,e2b,…}` | none beyond their SDK clients | bindings to the driver port | covered by the driver conformance gate |
| Schema, statistics, figures, templates, site data, repository checks | `packages/schema`, `packages/figures`, `packages/templates`, `tooling`, `lib`, `data` | none | pure transformations, generated catalogues | tested by value |

How they interact: the executor opens drivers, calls `recoverAccount` and `reconcileAccount`, then runs
cells through the harness, handing it a *wrapped* driver whose `create` keeps the journal. The harness
registers the session with the sandbox owner, races `create` against a timer it cannot cancel with,
and reports only through receipts in the cell's raw directory. The executor reads the receipts, decides
what the journal may say, seals the attempt and uploads it. Recovery commands and publication read the
sealed attempts later.

What is hard: four actors (worker, abandoned create, vendor, Git branch) that interleave at every
`await`; timers that abandon an operation without stopping it; requests whose effect outlives their
client; workers that die anywhere; state read before an `await` and used after it. The list, with the
line where each one bites, is `hazards` in `PROJECT.json`.

## 2. The modules

    OwnershipLedger        abstract: what the executor promises of an account
      ^ implemented by
    ExperimentBatch        account queue, admission, runCell, wrapped create, harness, vendor, journal
      ^ extended by          ^ proved in ExperimentBatchProofs <- ExperimentBatchLedger
    ExperimentPublication  collection, evaluation, publication and repair gates
      ^ proved in ExperimentBatchLedger
      ^ instantiated by MCExperimentBatch (MCRerun, MCSuccessive, MCBatchLive, MCLateCreate)

    AppendOnlyJournal      abstract: what a journal promises its callers
      ^ implemented by
    GithubJournal          append() over GitHub's Git Data API
      ^ proved in GithubJournalProofs
      ^ instantiated by MCGithubJournal (MCGithubJournal, MCPoisonedCache)

    OperatorRecovery       the recovery commands, admission and late appends on one attempt
      ^ proved in OperatorRecoveryProofs

    SandboxOwner           the registry of one process, its signals, drains and exit
      ^ proved in SandboxOwnerProofs

    ProviderPort           abstract: what a driver's create promises
      ^ implemented by
    CreateLifecycle        create, rollback, reconciliation  \
    SessionTeardown        operations against destroys        } composed by ManagedSandbox
    ProviderRemoval        removal by id                     /    (proved in ManagedSandboxProofs)

    DetachedStep           one step of a suite in a sandbox
      ^ extended by
    SuiteWork              setup with retries, benchmark, collection, receipts, teardown
      ^ proved in SuiteWorkProofs

    VendorAccount          the machines of one account
      ^ extended by
    CliPreparation <- CliCreate    calls of a command-line driver  \ composed by
    AccountReconciliation          admission's two inspections     /  CliAccount
                                                                     (proved in CliAccountProofs,
                                                                      implements ProviderPort too)

### ExperimentBatch

One account. `journal`, `vendor`, `retained` (attempts with `raw/allocation.json`) and `evidence` (the
sealed `attempt.json`) are durable; everything else belongs to the current worker. A *run* is one
worker process; an attempt is a run and a cell, as the code draws a fresh attempt id per launch.

| Code | Model |
| --- | --- |
| account queue hands over; `recoverAccount` reads the journal | `StartRun` |
| `recoverAccount`: `confirmRemoval`, append `released/absent` | `RecoverDestroys`, `RecoverConfirms`, `RecoverySettles` |
| `catch` of the admission block | `AdmissionFails` |
| `history = journal.read`, `reconcileAccount` | `RecoveryEnds`, `ReconcileDestroys`, `ReconcileEnds` |
| `launch`, the checks of `runCell`, issuing the intent | `Launch` |
| `startupSignal` | `Deadline` |
| `await append(intent, startupSignal)` | `IntentSettles`, `IntentTimesOut` |
| the recheck in the wrapped `create`, then the request; or a throw before it | `IssueCreate`, `RefuseCreate` |
| `driver.create` settles: session, ordinary error, `FailedCreateCleanupError` | `CreateReturns`, `CreateRejects`, `CreateUncertain` |
| append of the allocation; undo when it fails | `AllocatedSettles`, `AllocatedTimesOut`, `UndoCreate` |
| `createSuiteSandboxFromPlan`: result, error, timer; late session | `HarnessGetsSession`, `HarnessGetsError`, `HarnessTimesOut`, `DiscardLate` |
| teardown and `confirmCleanup` in `runSuiteWork`'s `finally` | `SuiteEnds`, `ConfirmCleanup` |
| receipts, release, refill stop, evidence | `Settle`, `ReadForRelease`, `AbsentSettles`, `NotAllocatedSettles`, `Seal` |
| upload; end of the loop; killed worker | `Upload`, `BatchEnds`, `Crash` (both forget the process: `FreshProcess`) |
| an append nobody waits for any more | `OrphanSettles` |

`pc[c]` is where `runCell` is, `cr[c]` where the wrapped create is: they are two tasks, and after
`HarnessTimesOut` both move. `createStarted` and `allocationRecorded` are read off `cr`. A failing
append has the two outcomes it has in reality (`MayLand`). `todo` stands for the loop of recovery in any order; `stray` is a
sandbox of the account that no journal knows (a path that allocates without one, as ADR 0010 says legacy
paths do), present or not at the start and only seen by the sweep's inventory; appends of one process settle in any order, which includes the order of the chain.

Abstracted: the data of records, plans and receipts; several drivers and suites of one account
(a second driver adds failures of admission only); wall-clock budgets, which become a signal that may
fire at any time; what happens inside a suite (`SuiteWork`); the operator's commands
(`OperatorRecovery`). A driver's promise that any error other than `FailedCreateCleanupError` proves
absence (`execute-experiment.ts:209-210`) is assumed here, as the executor assumes it; that the driver
kit keeps it is `ImplementsPort` of `ManagedSandbox`, and `CallsKeepPort` of `CliAccount` for
command-line drivers. The second list is taken to show every live sandbox, not those still being
created; `AccountReconciliation` reads the lists page by page.

### GithubJournal

`head` is the branch; a commit is identified with the records of its journal, each with its writer, so
commits of two processes differ even when their records do not. `wire` holds the PATCH requests that may
still take effect. Per process: the cache `acknowledged`, and the append at the end of its chain
(`phase`, `record`, `base`, `tries`). `Snapshot` and `Check` may observe any earlier head, because the
code says itself that reads may lag (line 60). Transport retries of one request (`githubGitRequest`) are
one request that fails or succeeds. `clean` only serves the property of run `poisoned_cache`.

`ExperimentBatch` uses of a journal exactly what `AppendOnlyJournal` offers: `Lands` is an acknowledged
append, `MayLand` one that was not.

### ExperimentPublication

Operators over the durable state of `ExperimentBatch`, no state of its own. `downloadExperimentAttempts`
lists the artifacts and then reads the journal; an upload may fail. Sealed attempts and records are
never withdrawn (theorem `NothingWithdrawn`), so every collection the code can make is some set `U` of attempts sealed by the time
the journal is read: the property quantifies over all of them. `Interrupted` are the intents without a
terminal receipt, whose `intent.json` makes `readExperimentAttempts` throw; `Backed` is the check of
completed attempts; `Conflict`, `Missing`, `Verified`, `Complete` are the coverage of
`evaluateExperiment`; `Clear` and `Unblocked` the blockers of `partialPublicationBlockers`;
`Publishable` and `Repaired` are `aggregateExperiment` and `aggregateRepairedExperiment`. Metrics, passes
and artifact attribution are data that can only refuse more. The recovery plan of a repair runs every
cell of this account; replaced cells of other accounts do not touch its journal.

### OperatorRecovery

One failed attempt: `evidence` (what was sealed), `journal` with the attempt's records and one of another
attempt, `sandbox`, and `late`, the appends nobody waits for any more. Each process (two operators and
the next workflow) is the list of phases it has left in `todo`, a phase being the code between two
awaits: quiescence check, reading the records again, replay of the allocation, removal, observation,
sweep, release, local file (`CleanupPhases` and `AdmissionPhases` write out the lists a command chooses
between). `Issue` and `Acknowledged` are an append that compares with the cached or the
read journal. `GiveUp` is a kill, a timeout or a failing call anywhere, its append applied, lost, or
applied later. `recover-rejected-create` refuses every attempt, because retained evidence and
inventory cannot prove a definitive rejection (`rejected-create-recovery.ts` ends in an unconditional
`throw`), and so has no action.

### SandboxOwner

`owned` is the registry, `handlers` whether the process handlers are installed, `stopping` the shutdown
flag, `drain[d]` one run of `shutdownOwnedSandboxes` for each way it is started (`exit`, `signal`,
`beforeExit`), with its attempts, pauses and deadline; `calls[s]` are the provider's destroys in flight,
`teardown[s]` the shared promise of the destroy wrapper; `operation` a release operation a drain waits
for. `Allocate` is the provider's and happens any time after the call. Abort signals handed to providers
change no state of the owner and are left out.

### ManagedSandbox

`CreateLifecycle` follows one create: the call, the post-create checks, the rollback by id, and the
reconciliation by marker of a create whose acceptance is unknown, over a listing that lags; time is two
ages in ticks. `SessionTeardown` is the handle of `table.ts`: accepted operations, destroys of several
owners that share one drain, `DeferredTeardownError` and the retry of its disposal. `ProviderRemoval` is
`destroy` of `vendor-lifecycle.ts`: ask, observe, ask again at the vendor's pace (`Begins` is its first
poll, `Ends` what a return or a throw forgets). `ManagedSandbox` runs
the three on one allocation: a session is handed over when the create returned, each provider call of a
teardown is one removal, and a sweep by id may run at the same time.

### DetachedStep and SuiteWork

`DetachedStep` is one attempt of a step over both transports: launch under a tag, polls with their
failure limit and degradation to the log, read-back, removal of the files; every wait raced against a
timer that cancels nothing. The sandbox may run a launch late or twice, garble or drop any answer,
truncate an output, and die. `claimed` is the directory of the tag, the `mkdir` of `completion.ts:8`: it
admits one launch. The removal the host asks for after the read-back (`AskRemoval`) takes effect at
any later time or not at all (`RunRemoval`) and gives the directory up, so a launch the sandbox still
holds can then run the command again: `job` is the first run, `again` the second. What an attempt leaves
in the sandbox is followed until the next one begins, under another tag. `SuiteWork` strings attempts together as `runSuiteWork` does: preparation,
a setup step with retries, the benchmark, `collectResults` with its attempts, then the exit every path
takes. Preamble, pass policy and wording are left out; readiness and disk probes are one step that may
fail.

### CliAccount

`VendorAccount` holds `machine[m]`: a request may take effect late or never, a deletion late. `CliPreparation` is
the shared login: `task[d]`, the queue `lock` of a binary's profile, callers that give up and the last of
which cancels and reaps the task. `CliCreate` adds the create command, the readiness poll and the
failed-create cleanup by name with its confirmation horizon. `AccountReconciliation` reads each driver's
listing page by page before it destroys anything and a second time after. In `CliAccount` the benchmark
process may end at any step (`ProcessEnds`: its calls are forgotten, its requests and machines are
not) and the next worker reconciles what it finds (`NextWorker`), with a stray machine that belongs to
the benchmark or to someone else. `Port(c)` maps each call to the abstract `ProviderPort`: what the caller
was told, and the allocation; a create that cleaned up after itself maps to one that retained the cleanup
and then finished it, which is what the caller could have done. No provider declares probe-first preparation or a cleanup
by command, which are left out.

## 3. Runs, bounds, and what they show

| Run | Instance | Properties | What it shows |
| --- | --- | --- | --- |
| `rerun` | 2 cells, 2 slots, 2 workers, same plan | `OneCreatePerPlannedCell`, `JournalNeverContradicts`, `OwnershipIsDurable`, `EvidenceIsTruthful`, `PublishedIsAccountedFor`, `CreatesOnlyOnSettledAccount` | a plan executed again after a crash creates no cell twice; a create waits for every other intent to be settled or in the hands of the same worker; no selection of receipts publishes while an attempt is unaccounted for |
| `successive` | 2 cells, 1 slot, 2 workers, two plans | `CapacityRespected`, `PublishedIsAccountedFor`, `ImplementsLedger` | workers, crashes and recovery implement the abstract ledger within the slots; a repair accounts for both plans (with one plan, as in `rerun`, that half of the property does not apply) |
| `batch_live` | 2 cells, 1 slot, 1 worker, fair | `BatchFinishes` | no wait of the worker is unbounded |
| `late_create` | 1 cell | `RetainedIdentityIsSealed` (violated) | finding 1 |
| `github_journal` | 2 processes, 2 records, 3 tries | `ImplementsJournal` | the branch is the log admission relies on |
| `poisoned_cache` | 1 process, 3 records | `UntroubledAppendsSucceed` (violated) | finding 2 |
| `recovery` | 2 operators, 1 fault, late appends, fair | `TypeOK`, `NeverWedged`, `ReleasedMeansGone`, `SparesWorkflows`, `InterruptedIsFinished` | recovery commands that race, die and append late leave an account admission can read, and close only what ended |
| `owner` | 2 sandboxes, 2 attempts a drain | `TypeOK`, `LiveIsOwned`, `SuccessLeavesNothing`, `DestroyIsIdempotent`, `HandlersGuardOwnership` | creates, destroys, signals and exits in any order drop no live session |
| `owner_exit` | 1 sandbox, 3 attempts, fair | `ExitHappens` | an exit that was asked for happens although no provider answers |
| `managed_sandbox` | window 3 = lag 3, 4 lookups, 2 cleanups, 1 operation, 2 owners, fair | `TypeOK`, `ImplementsPort`, `RemovalIsAlone`, `OkMeansGone`, `NothingHangs` | the driver kit keeps the promise the executor relies on, and its destroys are truthful and end |
| `suite_work` | 3 poll failures, 2 reads, 2 setup tries, 3 collections, fair | `TypeOK`, `ReportIsOwn`, `SuccessIsEarned`, `DeadSandboxIsNoticed`, `SuiteEnds` | no transport failure turns into a result, a step reports its first run although a late launch may run it again, and every suite ends in a teardown |
| `cli_account` | 2 calls, 2 drivers, 1 stray, fair | `TypeOK`, `ProfileHasOneOwner`, `FailuresAreOwn`, `CleanMeansAbsent`, `SettledMeansClear`, `DestroysAreAuthorized`, `CallsKeepPort`, `CallsSettle` | calls share a login without harming each other, keep the promise of the port, leave nothing behind a clean error, and the next worker's admission clears the rest |

Bounds. Two workers are enough for every dependency between workers, which is the journal one leaves to
the next; two cells are enough for one to stop another, and two plans for a repair. Three records are the
least for a cache to be filled, to go stale and to be used. Two operators race every pair of commands,
and one fault is enough to leave any append in flight or any phase unfinished, after which the other
process and a rerun go on. Two sandboxes are enough for one to hold the handlers while the other's last
release would remove them; two attempts of a drain for a retry (the code's 3 in `owner_exit`). Window
and lag equal is the tightest timing a proving module may declare; four lookups see absence, presence
and absence again; two owners share one drain. `PollFailures` is 3 for
the code's 12 and `ReadAttempts` 2 for its 5, since only the last failure of a row is treated differently;
the other retry limits are the code's or the least value that has a retry. Two callers meet at every point of a login, two drivers queue for one profile, and one
stray machine, present or late, ours or foreign, in the view of one or both drivers, is what
reconciliation has to tell apart. `StaleReads = TRUE` adds lagging reads before the not-allocated
release: `batch_live` runs with them, and every theorem about the batch but one holds for both values.
The one is `CreatesOnlyOnSettledAccount`, stated without them, because with them a not-allocated release
may be skipped in silence and the account then carries an open intent of a cell that ended: the hazard
is listed. Deadlock is not checked anywhere: an account whose queue is empty, a process that ended and
a sandbox that is gone really stop. Symmetry is used in the safety runs of the batch and the owner, never
with liveness or in a run whose constants are told apart.

Fairness is weak fairness of what the program itself bounds, and nothing of the vendor beyond what is
named here:

* batch: admission runs under `AbortSignal.timeout`, each journal request under a 20 s timeout, the
  harness under its create timer, `confirmCleanup` under 15 s, the upload under 5 minutes, and the loop
  launches as slots free. `driver.create` need not settle.
* recovery: workflows of the account keep being dispatched (the queue), a running process takes its next
  phase, and an operator whose cleanup command was interrupted runs it again
  (ADR 0014: "Recovery is explicit and idempotent").
* owner: timers and microtasks of a drain run; providers need not answer.
* managed sandbox: polls and timers run, requests are answered or time out, and a vendor that acknowledged
  a removal finishes it. For `RemovalPersists` (part of `NothingHangs`) the vendor's answers are strongly
  fair, so one that refuses for a while is not assumed to refuse for ever.
* suite: the host advances; `SuiteEnds` assumes, in the formula, that deadlines pass.
* command line: the runner kills and reaps children at their timeout, so every command ends; machines
  need not.

Every property has a mutant, a plausible slip in one definition that makes the run fail; they stand
before the definition they replace.

## 4. What is proved

Every invariant and every action property that a passing run checks is a theorem too, for every value of
the constants, and so are the four refinements. Liveness is not; for the queue of the shared login its
safety half is (`NobodyStranded`). Each proof has the same form: an invariant that is inductive (`XInv`), a
lemma that the initial states satisfy it, one lemma for the actions that disturb the same parts of it, and
the property from it. Before it was proved, each inductive invariant was checked by TLC on a small
instance.

**ExperimentBatch.** From `CellAssumption` (finitely many cells), `MaxRuns`, `MaxConcurrency` naturals and
`StaleReads` a Boolean. `ExperimentBatchProofs`:

* `TypeCorrect`: `Spec => []TypeOK`.
* `OwnershipDurable`: `Spec => []OwnershipIsDurable`. The invariant is not inductive as it stands: it
  says nothing of a release on its way to the branch, or of a cell that is about to create. `OwnershipInv`
  adds that attempts of later workers left no trace (`FutureIsBlank`), that a release is only issued, and
  so only lands, for an attempt that holds nothing (`ReleasedIsEmpty`, over `journal` and `inflight`),
  and what each cell's position says of its attempt (`CellOK`): a cell before its create holds nothing
  and has no release recorded or issued, an admitted cell has its intent on the branch, a cell whose
  create is idle, rejected or confirmed holds nothing. All steps but `IssueCreate` create nothing
  (`QuietVendor`) and are handled by three frame lemmas (`QuietStep`, `OneCell`, `NoCell`);
  `IssueOwnership` is the one step where something begins to be held.
* `CapacityNeverExceeded`: `Spec => []CapacityRespected`. `CapacityInv`, inductive together with
  `OwnershipInv`, follows the sandboxes through a worker's life: recovery starts with every one of them in
  `todo` and drops one only when it is gone (`RecoveryKnows`), so an admitted worker finds none of its
  predecessors' (`SweptIsEmpty`, `OnlyOwnHeld`); while refill goes on, a cell that ended holds nothing and
  an unadmitted worker has no cell near its create (`CellCapacity`). Where a create is issued (`IssueCapacity`),
  what is held then belongs to pending cells, one each (`OneAttemptPerCell`), and `launch` keeps those within
  the slots. Everywhere else what is held only shrinks.

`ExperimentBatchLedger`, for journals whose reads lag too unless it says otherwise:

* `JournalConsistent`: `Spec => []JournalNeverContradicts`, and `EvidenceTruthful`:
  `Spec => []EvidenceIsTruthful`. What is on the branch says too little, because an append nobody waits
  for may land after the attempt was judged. `RecordsInv` therefore speaks of what was *issued* (on the
  branch or in flight): a not-allocated release and an allocation are never both issued for one attempt
  (`AttemptOK`), which holds since a cell that is taken for empty has a wrapped create that can no longer
  append one (`CellRecords`). A step of one cell touches only its attempt (`CellFrame`), so the two
  invariants are carried over for every other attempt and cell by one lemma.
* `NothingWithdrawn`: `Spec => [][WithdrawsNothing]_vars`, no run's property but what
  `ExperimentPublication` rests on: records, retained identities and sealed attempts stay as they were
  written. A cell that has sealed its attempt is past every step that seals (`SealsOnce`). With
  `OwnershipDurable` it gives `ReleaseIsFinal`, for each attempt `a`:
  `Spec => [](Released(a) => [](Released(a) /\ a \notin Held))`, why recovery may skip what is released.
* `CreatedOnce`: `Spec => []OneCreatePerPlannedCell`. `HistoryInv` adds that the snapshot an admitted
  worker took shows the intent of every earlier attempt the vendor saw (`HistoryKnows`), and that no cell
  on its way to a create is in it (`NewCells`).
* `SettledAccount`: `~StaleReads /\ Spec => CreatesOnlyOnSettledAccount`. `SettledInv` follows the
  intents as `CapacityInv` follows the sandboxes.
* `LedgerImplemented`: `Spec => ImplementsLedger`. Every step moves at most one attempt, and each move the
  journal and the vendor make of it is an action of `OwnershipLedger`; the rest are stutters.
* `PublicationAccounted`: `Spec => []PublishedIsAccountedFor`, from `OwnershipInv` and `RecordsInv`: an
  attempt that reached the vendor left an intent, so a readable collection holds it, a clear one holds a
  terminal receipt of it, and that receipt is truthful.

**GithubJournal.** From at least one record and one try, and `ProcessAssumption`: no process has the name
of the placeholder writer of `NoBase` (in the code, `undefined`). `GithubJournalProofs`:

* `TypeCorrect`: `Spec => []TypeOK`, by which no append sends more than `MaxTries` updates. It rests on
  `SettlesInTime`: an append that reads the branch to settle a failed update has an update left.
* `JournalImplemented`: `Spec => ImplementsJournal`. `LogInv`: no record stands on the branch twice
  (`NoRecordTwice`); a commit on the wire, whoever still waits for it, adds one record that is not below it
  (`AddsOne`); an append past its lookup holds a base without its record, which is the base its process
  acknowledged last (`AppendsAreNew`); and what a process acknowledged is a beginning of the branch
  (`CachesAreCurrent`). An update is accepted only where the branch is the commit's parent, so each
  acceptance extends the log by one new record, and a lost answer changes nothing.
* `AcknowledgedForGood`: what was acknowledged once is on the branch at every later time.

**OperatorRecovery.** From `OperatorsAssumption` (no operator is named like the workflow or like the
absence of an attribution) and `FaultsAssumption`. `OperatorRecoveryProofs`:

* `AdmissionNeverWedged`: `Spec => []NeverWedged`; `ReleasesAreOfTheGone`: `Spec => []ReleasedMeansGone`;
  `WorkflowsSpared`: `Spec => SparesWorkflows`; `TypeCorrect`. `RecoveryInv` has three parts. The
  evidence bounds what the sandbox can be, whoever acts (`EvidenceOK`). The journal is readable, and so is
  every journal on which an append that may still land would land (`JournalOK`, `UpdateOK`): a release by
  identity stands exactly where the evidence retains one, which is what makes commands of different kinds
  compatible. And a process is what its remaining phases say (`ReleaseOK`, `PersistOK`, `WorkOK`): a
  release, wherever it stands in the list, has a phase before it that makes sure the sandbox is gone, or
  is of one that is, and an allocation is known or replayed before it. The workflow is spared because it
  cannot have begun: it works only after a release is on the journal.

**SandboxOwner.** From one teardown attempt at least. `SandboxOwnerProofs`: `LiveOwned`, `SuccessClean`,
`DestroyedOnce`, `HandlersGuarded` and `TypeCorrect` state the five properties of run `owner`. `OwnerInv`
says of each sandbox what its create's state allows of the registry, the provider and the teardown
wrapper (`EntryOK`), and of each drain that creates are refused from its start, so that a registry it found
empty stays empty (`DrainOK`).

**ManagedSandbox.** From `TimingAssumption`: the listing lags no longer than the window the module
declares, which is what a driver that declares `provesAbsence` vouches for, and the bounds on attempts are naturals. `ManagedSandboxProofs`:

* `PortImplemented`: `Spec => ImplementsPort`; `OkIsGone`: `Spec => []OkMeansGone`; `RemovalAlone`:
  `Spec => []RemovalIsAlone`; `TypeCorrect`. The heart of `ManagedInv` is `AbsenceOK`: a sandbox that an
  absence being confirmed overlooks is younger than that absence is old, and past its lag no lookup
  overlooks it; so at the end of the window there is none. `AllocationOK` says what is known of the
  allocation in each phase, `SessionOK` and `RemovalOK` that no owner is told "gone" before the vendor is,
  and `Untouched` that nobody destroys what was not handed over.
* `RefusalIsFinal`: `Spec => [](Refused => [](Refused /\ NoSandbox))`, from `PortImplemented` and a small
  invariant of the port (`PortInv`): what `CreateRejects` of `ExperimentBatch` takes for granted.

**SuiteWork.** From positive limits. `SuiteWorkProofs`: `ReportsAreOwn`, `SuccessEarned`, `TypeCorrect`.
`SuiteInv` says that every exit code on its way, observed, in the outcome or logged, is that of the
command's first run (`CodesAreOwn`), and what a suite without an error has achieved at each stage
(`Progress`). Its core is `FirstRunAlone`: until the host asks for the removal the directory stands, the
receipt is the first run's and there is no second; once it has asked, it polls no more. The theorems say
nothing of what a second run does to the steps that follow (section 5, observation 10).

**CliAccount.** From `CallersAreMachines` (a call's machine is one of the account's), for any calls,
drivers and machines; that there is a stray machine (`StraysExist`) is not needed. `CliAccountProofs`, all from the invariant `CliInv` (`Consistent`), which has a
part for each component:

* `ProfileOwned`, `FailuresOwn` and `NobodyStranded`. The queue of a profile holds the drivers with a task
  in flight, each once, and only its head runs a command (`QueueConsistent`); a task in flight has a call
  that waits for it, and once it is cancelled the call that cancelled it (`WaitersConsistent`). The second
  is what makes the last caller's departure safe: who arrives between a cancellation and the end of the
  child finds the task cancelled, and a cancelled task has no waiter left to inherit its failure.
* `CleanIsAbsent`. `CallConsistent` says what a call knows of its machine where it is: a call that has sent
  nothing has no machine; an absence that has ripened for a horizon rules out a request still on its way
  (`missing[c] = "ripe" => machine[c] # "sent"`); and no poll runs beside a cleanup command.
* `PortKept`: `Spec => CallsKeepPort`. Each step of the account is, for each call, a step of the call's
  `ProviderPort` or a stutter. The vendor can only make the machine appear while the call is undecided or
  owes a cleanup, and each verdict is one `CallConsistent` allows. It speaks of the time while the
  benchmark process lives: afterwards nobody holds the promise, and `SettledMeansClear` takes over.
* `RejectionIsFinal`, for each call `c`: `Spec => [](Rejected(c) => []NoMachine(c))`. This part of the
  promise does outlast the process: a call past its request sends nothing more, and neither the vendor nor
  the next worker makes a machine of one that is gone or was never sent (`NothingComesBack`).
* `SettledIsClear` and `DestroysAuthorized`. `NothingOverlooked` speaks of the machines that ran when the
  second inspection began, still run, and have to be shown by a driver: that driver's inventory has not
  been accepted, and while it is being listed the machine is still to be read, or was found, or is a
  foreign one for which the inspection will be refused. When every inventory is accepted there is none.
  `ListingConsistent` and `RemovalConsistent` say that only the benchmark's machines are found, and that a
  removal begins when all drivers have been accepted.
* `TypeCorrect`. `WorkerConsistent` says whose turn it is, so that a step of one component leaves the parts
  of the others alone; `ProcessEnds` and `NextWorker` re-establish all parts at once.

Two details of the model rest on what the proof needed to know of the code: when a shared login fails while
a caller's own time is up, the rejection of the task wins the race (`cli.ts:1337-1343`), so the caller
fails with the task's reason; and a request that never takes effect leaves no machine, rather than one that
ended.

Only model-checked, and why:

* `BatchFinishes`, `InterruptedIsFinished`, `ExitHappens`, `NothingHangs`, `DeadSandboxIsNoticed`,
  `SuiteEnds` and `CallsSettle`: liveness under fairness, out of the prover's reach.
* The two violated properties of section 5, which are false.

No module declares a RECURSIVE operator.

## 5. Findings

1. **A create that outlives the harness breaks its attempt's digest** (`late_create`). After
   `HarnessTimesOut` the cell is settled and `attempt.json` sealed with `rawTreeDigest(raw)`. The
   abandoned create then returns, or fails with a located `FailedCreateCleanupError`, and writes
   `raw/allocation.json` (lines 229-233 or 254). `readExperimentAttempt` rejects the attempt with `raw
   digest mismatch`, so the identity that ADR 0010 says "makes the intent resolvable" is not usable by
   `recover-allocated-intent`.
2. **A stale journal cache refuses later appends** (`poisoned_cache`). A PATCH that took effect but whose
   response and settling read are both lost rejects its append and leaves the cache at the parent
   commit; every later append of that account in the process is then refused as no fast-forward, which
   is what the comment on the chain (lines 128-130) says must not happen.

### Observations without a run

Differences met while modelling that no run isolates. The models do what the code does in each case.

1. `cli.ts:1726-1732`: `retryCleanup` compares the end of a retry's look with
   `firstMissingAt + absenceConfirmationMs`. A retry by the owner that starts at once, after a wait that
   was aborted, and whose list command outlasts the horizon (2 s against a 60 s command timeout) is taken
   for the second look, although its snapshot may precede the horizon. The comment above it and the test
   "an immediate owner retry cannot confirm absence before the declared horizon" (`cli.test.ts:2157`) say
   the opposite. `CleanMeansAbsent` excepts this one case as `early[c]`; without the exception TLC
   reaches a machine that appears after a cleanup reported as done in fifteen states.
2. `cli.ts:567` calls a preparation's deadline a hard ceiling, but a caller whose deadline passes while
   its cancelled task is queued behind another driver's keeps waiting for that queue (`CallsSettle` holds,
   later than the deadline).
3. `index.ts:1048` says a spec probe must never fail a run; one that rejects or times out ends the suite
   with an error.
4. The throw for an evidence file that could not be written (`index.ts:1244`) comes before the gap marker,
   which is then missing.
5. `execute.ts:714` removes the files of a step after a failed read-back too, although the comment says
   their contents are in memory.
6. The kill of a timed-out step matches its tag and may reach only the wrapper shell; a retry of a setup
   step can then overlap with the first attempt (listed as a hazard, without a property: nothing is
   promised).
7. With a late append, or a second operator, the attempt can be released while `recover-completed-create`
   still sweeps; it may then destroy the sandbox of the workflow that release admitted.
   `SparesWorkflows` holds as long as the attempt is open.
8. `inventoryAccounts` reports "exactly as admission will", but does not validate malformed snapshots and
   can be asked for some variants of an account only.
9. A workflow that is run again seals one more failed attempt for every planned cell, also for those
   with a measurement. Both receipts have sequence 0, so the evaluation reports an unauthorized
   lineage and an experiment that could be published before no longer can. This is what ADR 0010 asks of
   reruns ("start a fresh experiment"); a repair, too, is then refused.
10. The `rmdir` of `execute.ts:967` gives up the directory by which `completion.ts:8` admits one launch. A
   launch that the transport repeats and delays past it runs the command a second time, beside the
   steps that follow: a benchmark may write its results again while they are collected. The reported
   exit code is still the first run's (`ReportIsOwn`). Nothing in the repository promises more; the tests
   say that the host asks for one launch (`session-execute.test.ts:48`), which it does.

## 6. Not modelled, and the plan

Not modelled, with reasons:

* *Image bake and promotion* (`apps/cli/src/lib/bake`): a script whose steps run in sequence under the
  concurrency group of its workflow and are delegated to Docker and vendor builders. What a promotion
  that failed half-way leaves is the one question worth a module, and the next candidate for one.
* *GPU fleet*: each replicate is one `withSandboxWork`, whose ownership is `SandboxOwner`'s subject; the
  rest is staging, a pool of independent replicates, and reports.
* *Plan construction, metric eligibility, pass counts, artifact attribution, rendering of runs*: pure
  functions of large data, tested by value. The waiver for batches that never started is bound to one
  workflow revision.
* *Driver kits*: request mapping, redaction, normalisation of answers, file and snapshot passthroughs;
  the readiness poll of SDK drivers, which only delays the hand-over.
* *Provider packages*: bindings of vendor SDKs to the driver port.
* *Schema, statistics, figures, templates, site data, repository checks, workflow files*: generated
  catalogues (a quarter of the repository's code lines are one generated file), pure transformations, and
  text.

# ArcShuttle in TLA+

A specification of ArcShuttle, the command that creates and extracts archives by running many 7-Zip
processes under shared budgets: TLA+ modules translated from the Python source, TLC configurations
that check them on small instances, and TLAPS proofs about them for every instance. Paths below are
relative to `src/arcshuttle/` of the repository; "manual" is `docs/COMMAND_MANUAL.en.md`.

## 1. The system

| Component | Source | State | Operations |
|---|---|---|---|
| Resource scheduler | `scheduler.py` | queue, running futures, used tokens, two events | `run`, `stop`, worker threads |
| Manifest runner | `runner.py`, `results.py` | run id, records, summary | `execute_manifest`, `job_result`, `summary_record`, `result_exit_code` |
| 7-Zip processes | `sevenzip.py` | `_active` registry, children, logs | `extract`, `create`, `test`, `interrupt_all`, `inspect` |
| Staging | `staging.py`, `util.unique_path` | directories and ownership markers on disk | resolve, create, finalize (directory, archive), retain |
| Executors | `operations/create.py`, `operations/extract.py` | one job's progress | `execute_job` (two of them), `make_plan` |
| Command line | `cli.py`, `compat.py` | none | `plan`, `run`, `create`, `extract`, exit codes |
| Manifest | `manifest.py` | none | integrity, v1/v2 validation, clamping, collisions |
| Configuration | `config.py` | none | four layers, dependent defaults |
| Storage | `storage.py`, `storage_linux.py`, `storage_windows.py` | detector caches | observe paths, derive I/O slots |
| Planning helpers | `multipart.py`, `classify.py`, `inspect.py`, `input.py` | none | first volumes, profiles, listings, path input |
| Wrappers | `powershell/`, `parxtract/` | none | start the command, convert records |

**How they interact.** The CLI reads a manifest, validates it, may probe the storage for the number of
I/O slots, and calls `execute_manifest`. That hands every job to one `ResourceScheduler.run` on the
main thread, which submits them to a thread pool. A pool thread runs the executor of the job's
operation, which calls `SevenZip` (one process for an extraction, two for a creation) and the staging
functions, and returns a result record. The threads share: the future of each job, `stop_event` and
`interrupt_event`, the registry `_active` behind its lock, and the filesystem. Ctrl-C arrives in the
main thread only, at any bytecode; its handler sets both events and calls `interrupt_all`, a callback
into `SevenZip` that signals the children the worker threads are waiting for. Nothing is persisted
between runs except what is on disk.

**What is hard.** A `KeyboardInterrupt` between any two statements of the scheduler's bookkeeping;
workers that finish while others are being admitted; the window between starting a child and
registering it; a 7-Zip that ignores SIGTERM, cannot start, or is killed from outside; destinations
that appear, sources that change and markers that vanish between a check and its use; cleanup that
fails after publication; the precedence of outcomes when several of these happen at once. `hazards`
in `PROJECT.json` lists them by line.

**What makes each component correct.** *Scheduler*: budgets hold for what really runs, no token is
lost, an aged head is served, a stop stops, every job is reported once, the run ends. *Runner*: every
job has one record, the exit code tells the truth. *SevenZip*: an interruption leaves no registered
child alive and no signal death passes for a result. *Staging and executors*: nothing is overwritten,
what is published is whole, a success is published and everything else is retained. *Manifest*: no
accepted job can be larger than the budgets, no two have one destination. *Storage*: the slowest
device decides and detection never fails a run. *Configuration*: the documented precedence.

## 2. Modules

| Module | Models |
|---|---|
| `Resources` | jobs, tokens and budgets as constants with their assumptions; `Cost`, `WithinBudgets` |
| `JobLifecycle` | abstract: a job waits, runs only together with jobs the budgets allow, finishes |
| `Scheduler` | `ResourceScheduler.run`, statement by statement; implements `JobLifecycle` |
| `Runner` | `execute_manifest` and `results.py`, composed with an instance of `Scheduler`; process exit |
| `SevenZip` | worker threads, children, registry and `interrupt_all` |
| `Staging` | the filesystem at the output paths, staging directories, the functions of `staging.py` |
| `Executors` | both `execute_job`s on `Staging`, with other programs acting between their steps |
| `Configuration` | `resolve_config`: six layers of settings and the defaults that depend on others |
| `Paths` | path spellings, and the names of volumes and archives (`multipart.py`) |
| `Manifest` | job records of both schemas, integrity, `validate_manifest` |
| `Inventory` | `inventory_source`, one system call at a time |
| `Planning` | `make_plan`, `make_create_plan` per input; normalization of inputs; collisions |
| `Storage` | `observe_storage_paths`, `resolve_auto_io_slots` |
| `StorageLinux`, `StorageWindows` | the two detectors, over what the system answers |
| `CommandLine` | `main`: plan, edits, run or direct command, up to the start of each job; composes the eight above |
| `MC...` | values for the constants; nothing else |
| `SchedulerProofs` | lemmas about `Cost`; the inductive invariant, types and budgets; the safety part of the refinement |
| `SchedulerReportProofs` | accounting, results, no start after a stop, the order of the queue, the reservation, "can never fit" |
| `RunnerProofs` | records, their order and number, the exit code, small batches, on top of the scheduler's proofs |
| `SevenZipProofs` | the registry and `interrupt_all` |
| `ExecutorsProofs` | staging, publication and retention |
| `ManifestProofs` | lemmas: what validation, clamping, the planners, the lists of paths, the layers of settings and the walk yield for any input |
| `StorageProofs` | the recursion over block devices and both detectors, against the devices behind a path |
| `CommandLineProofs` | the invariants of a whole life of a manifest and its theorems |

### Scheduler

The main thread is the variable `pc`: `loop` (the `while` test), `start` (the admission loop),
`charge`, `submit`, `track`, `notifyStart` (the statements 147 to 152), `idle` (`if not running`),
`wait`, `collect` (the `for`), `release`, `result`, `append`, `notifyFinish` (166 to 177), `handler`
and `interrupting` (the `except`), `drain` (the pool's `__exit__`), `ended`. Each action is the code
from one place at which another thread or Ctrl-C matters to the next. `pending` is a set: its order
never changes, so `Before` (the lexicographic `sort_key`, then input position, because `sorted` is
stable) replaces the list. The clock is `aged`, the set of jobs whose `reservation_delay` has passed,
grown by `Age` at any time, in queue order because `queued_at` is taken in queue order. A future is
`none`, `queued`, `executing` or the value it holds.

`Interrupt...` raise `KeyboardInterrupt`. At a point inside the `try` the iteration is abandoned: the
locals `selected`, `completed`, `current` are forgotten, the counters and `running` stay as they are.
Inside the inner `try` around `future.result()` (168-173) the exception becomes the job's value
`keyboard`. Between iterations, or in the handler, it leaves `run()`. `held` is a history variable:
the jobs whose tokens are counted.

### Runner

`Runner` instantiates `Scheduler` with the budgets `execute_manifest` computes (`MaxProcesses` and
`IoSlots` are 1 for a small batch) and adds what happens after `run()`: `Records` builds one record
per reported value and one per job without a value, `Ordered` sorts them, `ResultExitCode` decides.
`ExitInterrupted` is a `KeyboardInterrupt` that reaches `main`, `ExitTraceback` an exception that
nothing catches. A worker's value may be `successWarned`, a success with warnings of its own, which
counts as a success and not for exit code 0. Building, sorting and writing the records is one step: the records are written by
one thread with nobody left to race, and a Ctrl-C before it writes none.

### SevenZip

Per worker: the place in the current call, the child, the outcome. `Popen` and `Register` are separate
because nothing but the registry insertion is under the lock. The main thread is `mpc`: set the event,
snapshot, SIGTERM one by one, grace, SIGKILL one by one. Signals are POSIX's; a child either obeys
SIGTERM or is in `Stubborn`. `interrupt_all` may be called again when it has returned (`SetInterrupt`
from `done`), as the scheduler does at every further Ctrl-C. `extract` and the pair `create`, `test` share the shape of a call; they
differ in how many calls a job has (`Calls`) and in `LogFails`.

### Staging and Executors

`fs` maps each output path to what is there (absent, file, directory, empty directory, dangling link),
its owner and whether it is whole. `Candidates` are the names `unique_path` would try. A staging
directory is `none`, `tmp`, `failed`, `published` or `removed`; `owned` is its marker. Each action is
one filesystem or process step of `execute_job`: check the source, resolve the destination, stage, run,
judge, test, judge, recheck, look at marker and destination, publish, clean up. Between any two of
them another job acts, another program creates an entry (`ForeignCreates`) or removes a marker
(`Disown`), a source changes, or `interrupt_event` is set.

Three kinds of error are raised while another is being handled, or after success. `Retain` is refused
for a directory without its marker, and its rename may fail (`MoveMayFail`); the executors catch both,
leave the `.tmp` and put the reason into the record's warnings, which `refusal` stands for. A log may
raise (`CallMayRaise`), which `create` catches and `extract` does not. The line that `finish()` prints
may raise (`FinishMayRaise`), which nobody catches: `Raise` is an exception that leaves `execute_job`,
of which the runner makes a record that says `failed` and names no staging directory. `reported` is what
`staging_path` of a record says.

### CommandLine and what it composes

A behaviour is the life of one manifest, in the world of one scenario: the command and its settings,
the inputs, a file tree, what 7-Zip would list, what the storage answers. `pc` follows `main`:
`config` (`_config_from_args`), `collect` and `planning` (one action per input), `inventory` (the walk
of a create source), `manifest` (written; between two processes), `preflight`, `observe`, `validate`
(`_prepare_runtime_jobs`, with its two validations around the detection), `execute` and `check` (each
job's source checks), `ended` with an exit code. `Edit` changes, drops, repeats or adds records
between two processes; `ForeignChange` changes the tree between any two steps.

A record is a function on its fields. Its hash is what is hashed, so that equal hashes mean equal
contents, and an edit forges one only by computing it anew (`restamped`). The fields the hash protects
are `ProtectedFields`; a record that lacks a field, or has a field of the wrong shape, is one with
fewer fields or with `form` other than `"ok"`. Priority, tags and the estimated weight do not occur:
nothing here depends on them. A name is the sequence of its dot-separated parts and a path the
sequence of its names; a spelling is a path with or without dots in it, and `path_key` takes them
away. A job's directories are compared as paths, symbolic links above them are not followed, and names
are case-sensitive.

`Inventory` is a small machine of its own, kept in the variable `walk`: `os.scandir` of one pending
directory, the second `lstat` of one entry, the last `lstat` of the root. The digest is the set of
entries. Job sources are checked one after the other although the pool checks them in parallel; the checks
read nothing that another job's check writes.

`StorageLinux` reads a record of what `stat`, the mount table and sysfs say, and `StorageWindows` a
record of what each Win32 call answers. Both are the detector's decisions in the order in which the code
takes them. `SlotsConservative` compares them with `BackingCapacities`, which describes the devices
below a node as a closure, without the recursion.

Definitions with the name of another and a suffix that says what they get wrong (`FitsWithoutIo`,
`RetainUnchecked`) are no part of any specification. They are plausible mistakes; put in place of
the definition they imitate, each makes a property of a run fail, which shows that the property
depends on that definition.

## 3. Runs

| Run | Instance | Shows |
|---|---|---|
| `sched_core` | 4 jobs, 2 CPU tokens, 3 I/O slots, 2 processes, 2 Ctrl-C, fail-fast, outside stop, raising callback | all safety, action and liveness properties of `Scheduler`, and `JobLifecycle` |
| `runner_core` | 3 jobs, mixed schemas, fail-fast, 1 Ctrl-C, five worker outcomes | records, order, summary, exit code |
| `seven_interrupt` | a two-call and a one-call worker, one child stubborn, a second Ctrl-C anywhere in `interrupt_all` | registered children die, their calls return, interruption is never mistaken for a result |
| `cli_core` | seven families of scenarios, below | what reaches the scheduler fits the budgets, is distinct and was planned; settings and storage decide as documented; a creation starts from the tree in the manifest; exit codes account for every input |
| `exec_core` | jobs desiring `o` and `o (2)`, every `--existing` policy, one foreign act, failing logs, renames and prints, every pair of operations with a creation | publication, ownership, retention, no overwriting |

**Bounds.** `MaxInterrupts` bounds Ctrl-C: two reach every handler state, including the second one in
the handler. Four jobs are the least with a head that does not fit, a job that backfills, one that may
overtake because it needs less of the other resource, and one running; the last two of `sched_core` fit
together, so that either may end first with the queue empty. `runner_oversized` gives a job two I/O tokens,
which the planners never write (they write 1) and a manifest may contain.
`MaxForeign` bounds what other
programs do at the output paths; two jobs suffice because every conflict in `staging.py` is between
one job and one other actor at one path. `Candidates` gives each name enough numbered successors that
the search always ends within the foreign acts allowed; a deadlock would show if it did not. The
workers of `SevenZip` share only the registry, so that two are enough for a child on either side of
the snapshot.

Each family of `cli_core` varies one concern and keeps the others plain:

- settings: any two of ten, legal and illegal, each in any of the six layers;
- manifests of two jobs planned in either schema and extended by a record of schema 1, edited at most
  twice (allowed, forbidden and forged edits, destinations that collide as spelled or not) and run
  under other CPU and I/O budgets;
- Linux: all graphs of a stacked node over two others that may be disks, partitions, stacks, cycles or
  broken links, and a second device that is a network mount, unlisted or denied;
- Windows: every volume that deviates from a plain one in one answer, the sizes in replies at or
  next to their bounds;
- extraction inputs: up to two of twelve spellings, up to three of the eight that are volumes;
- creation inputs: up to two of files, nested directories, links and missing paths, with the output
  outside, beside or inside a source;
- changes: a directory with a subdirectory whose entries other programs create, remove and replace
  twice, with old and new time stamps, before, during and between the two walks.

Two edits suffice for one that forges and one that collides, two changes for one that is hidden by
another. `Ended` stutters where the system stops, so that a deadlock anywhere else is found.

`exec_core` leaves out what the runs of the disagreements below are about: two extractions, and an empty
directory made by another program, can be replaced (`exec_empty_directory`); a process killed from
outside has a negative return code (`exec_killed_process`). `AllowChanged` is FALSE in it: a changed
source that is allowed goes on exactly like a planned one, and `cli_core` covers the source checks.

**Fairness.** Weak fairness of the main thread, of each pool thread and of `interrupt_all`: the
interpreter schedules every runnable thread, and none of these steps can be disabled for ever by
another. `Scheduler` also assumes that a worker ends, since it models the worker as one step: no step of
an executor repeats and `exec_core` finds no deadlock before both jobs are done, and
`InterruptedCallReturns` covers the one place where it waits, when the run was interrupted. An
uninterrupted 7-Zip that never ends does hang the program: there is no time limit on it. `SevenZip` assumes
nothing of the children. Aging, Ctrl-C, stops and foreign programs are not fair.

**Disagreements between the code and its documentation.** Seven runs check a documented statement and
end in a counterexample; `findings` in `PROJECT.json` has the details.

| Run | Statement | What the code does |
|---|---|---|
| `sched_interrupt_swallowed` | "Interruption stops new starts" (manual 8) | Ctrl-C inside `future.result()` is recorded as a failed job and scheduling continues |
| `runner_not_started` | "not started after interruption" (record text) | written of jobs that ran to success, when Ctrl-C fell between two bookkeeping statements |
| `seven_unsignalled` | "signals managed child process groups" (manual 8) | not a child started and not yet registered |
| `exec_uncaught_error` | "Warning, failure, or interruption retains owned staging as `.failed`" (manual 10.1) | an exception that leaves `execute_job` becomes a record that says `failed`, and nothing is retained: an OSError of a log in an extraction leaves `.tmp` behind, named nowhere; a closed stderr, when `finish()` prints after the publication, leaves the output published |
| `runner_oversized` | "execution writes results followed by a summary" (README); exit code 1 is "warning/skip/result warning and no failure" (manual 10.3) | a small batch lowers the I/O slots below a job that validation accepted: the jobs before it run, then a traceback, exit code 1 and no record |
| `exec_killed_process` | "Exit 0 finalizes the output" (manual 10.1) | so does death by a signal, whose return code is negative |
| `exec_empty_directory` | existing destinations are handled "without overwriting them" (README) | `os.replace` takes an empty directory that appears after the last check: here, the published output of another extraction of the same run |

Five more were observed while modelling and have no run:

- A rename that fails in `retain_failed` (`staging.py:133`) leaves an owned directory as `.tmp`, where the
  manual (10.1, 10.2) has `.failed`. The code expects it: it catches the error and says so in the
  record's warnings. `StagingRetained` allows it and requires that the record names the directory.
- A print of `on_event` that raises (`runner.py:58-69`, a closed pipe) leaves `ResourceScheduler.run` with
  exit code 1 and no record, too: `ExitHasReport` does not hold with `CallbackMayRaise` either.

- A manifest whose `profile` is a list or an object, or that is not UTF-8, ends in a traceback and
  exit code 1, where the manual (10.3) has 64 for a manifest error. `Verdict` has it as `TypeError`.
- "The destination, staging directory, and log root must not be inside a directory source" (manual 5):
  planner and executor compare each job with its own source only (`operations/create.py:243-254`,
  `388-399`). The archive and staging directory of one creation may lie inside the source directory
  of another. They then appear in a tree that is being inventoried or archived: the second walk fails
  or, when 7-Zip reads later, the archive contains them.
- With `--on-input-error skip`, jobs whose destinations collide are reported as input errors and
  written to the plan all the same, so that running it, or the direct command, ends with 64.

## 4. Proofs

The theorems hold for every value of the constants that meets the assumptions below. The name in the
second column is the property of a run that the theorem states for all of them; that of
`SequentialBatch` no run checks.

| Theorem | States | For every |
|---|---|---|
| `SchedulerProofs.TypeCorrect` | `TypeOK` | number of jobs, tokens, priorities, budgets, interruptions |
| `BudgetSafety` | `BudgetsRespected` | the same |
| `SafetyRefinement` | `Spec` implements `JobLifecycle!SafetySpec` | the same |
| `SchedulerReportProofs.LedgerFaithful` | `LedgerMatchesRunning` | the same, as in all of this module |
| `FaithfulResults` | `ResultsFaithful` | |
| `CompleteReport` | `ReturnReportsAll` | |
| `NoStartAfterStop` | `NoStartOnceStopping` | |
| `ImpossibleIsOversized` | `ImpossibleOnlyIfOversized` | |
| `NotOvertaken` | `NoSmallerOvertaken` | |
| `AgedHeadFirst` | `AgedHeadReserved` | |
| `RunnerProofs.TypeCorrect` | `TypeOK` | manifest, mix of schemas, plan indices, threshold |
| `CompleteRecords` | `ReportComplete` | the same, as in all of this module |
| `RecordsInOrder` | `PlanOrder` | |
| `SequentialBatch` | `SmallBatchIsSequential` | |
| `TruthfulExitCode` | `ExitCodeTruthful` | |
| `SkippedNeverStarted` | `SkippedNeverRan` | |
| `SevenZipProofs.TypeCorrect` | `TypeOK` | set of workers, number of calls, stubborn children, failing logs |
| `NoSignalTakenForResult` | `KilledIsInterrupted` | the same, as in all of this module |
| `InterruptLeavesNoSurvivor` | `NoSurvivor` | |
| `ReturnIsClean` | `ReturnedLeavesNothing` | |
| `ExecutorsProofs.TypeCorrect` | `TypeOK` | set of jobs and paths, operations, policies, foreign acts |
| `RetainedAndReported` | `StagingRetained` | the same |
| `UnownedStays` | `UnownedUntouched` | the same |
| `PublishedWhole` | `PublishedIsWhole` | the same, if no 7-Zip dies of a signal from outside |
| `SuccessPublishes` | `SuccessIsPublished` | the same, if extractions of empty archives share no name with other extractions |
| `NothingOverwritten` | `NoOverwrite` | the same, if extractions of empty archives share no name with other extractions |
| `CommandLineProofs.TypeCorrect` | `TypeOK` | set of scenarios: settings, trees, storage, manifests, edits, changes |
| `JobsFitBudgets` | `HandedOverFits` | the same, as in all of this module |
| `JobsAreDistinct` | `DistinctJobs` | |
| `EditsStayInAllowlist` | `OnlyAllowlistEdited` | |
| `StartsFromManifestTree` | `StartsFromInventoriedTree` | |
| `ExplicitSettingsKept` | `ExplicitIoKept` | |
| `DetectionDecides` | `SlotsConservative` | |
| `ExitCodesAccount` | `EveryInputAccounted` | |
| `PlansAreAccepted` | `PlannedIsAccepted` | |
| `ValidationLeavesOneTrace` | `ValidatedOnce` | |
| `OneExtraction` | `OneJobPerArchive` | the same, if no given name belongs to two series of volumes |

### Assumptions

`ResourcesAssumption`, `SchedulerAssumption`, `RunnerAssumption`, `SevenZipAssumption`,
`StagingAssumption`, `ExecutorsAssumption`, `CpuCountAssumption` and `ScenariosAssumption` are evaluated
by TLC in the runs. Most say that numbers are numbers and budgets positive. Those that say more:

- `RunnerAssumption` has `ExternalStop = FALSE`: `execute_manifest` creates its scheduler and hands it to
  nobody, so that nothing outside calls `stop`.
- `ScenariosAssumption`: the tree is one (`ProperTree`: what is above an entry is a directory); the tables
  the Linux detector reads are finite and a slave of a device is a device of the table or a broken
  link (`ProperSys`; cycles are allowed); given paths have names; records at hand to be added to a
  manifest are as a planner writes them.

Four theorems have a hypothesis of their own. `PublishedWhole` assumes `NoSignalDeaths`, and
`SuccessPublishes` and `NothingOverwritten` assume `EmptyExtractionsApart`: other programs make no empty
directories, and no name that an extraction of an empty archive may be given (the one it wants, its
numbered variants, and theirs) is one that another extraction may be given; extractions of full
archives and creations may share any. What they leave out is what the runs
`exec_killed_process` and `exec_empty_directory` show to go wrong. `OneExtraction` assumes
`InputsInOneSeries`: `x.part2.r00` is taken for a volume of `x.part2.rar`, which is itself a volume of
`x.part1.rar`, and when all three are there and the first and the last are given, there are two jobs.

### The scheduler

`Cost` counts pairs `<<job, token>>` instead of folding a sum, so that the library's theorems on
cardinalities apply and no induction is needed: it is finite and a natural number for sets of jobs,
grows by the tokens of a job that joins, shrinks by those of one that leaves, and is monotone.

Neither `TypeOK` nor `BudgetsRespected` is inductive. The invariant `IInv` has five parts. `Types` is
`TypeOK` without the bounds on the counters. `AtWork` says what `selected`, `current` and `got` are at
each `pc`, in particular that a job being collected is done. `Admission` follows a job through the
ledger: a queued job holds nothing; every future that is queued or executing is of a job that is
`held`; a job is between `charge` and `track` only while nothing was interrupted, which is the reason
why an abandoned iteration can leak tokens but never free them early. `Ledger` equates the counters
with the cost of `held` and bounds them. `Processes` bounds the futures tracked or alive. It uses that
after an interruption nothing is submitted. The budget theorem follows because the alive jobs are a
subset of `held`, and `Cost` is monotone.

`RInv` adds what the reports need. `Reporting` keeps reported jobs apart from those tracked or in hand.
`Settled` accounts for every job (queued, in hand, tracked or reported) as long as nothing has
abandoned an iteration, and at the end of a run that returned. `Tracked` says that the tokens held are
those of the tracked jobs and of the one between two statements. `Halting` says that a fatal result
has set the stop event before the main thread admits again. `Causes` says why a flag is up or a
future is `interrupted`, and that the pool is empty when `run` has returned; the runner's theorems use
it. `OInv` adds `Blocked`: when the main thread stops starting jobs without a stop, some queued job
does not fit. That needs a head, a job that nothing comes before. `HeadExists` finds it as the job with
the fewest predecessors, by the well-foundedness of `<` on the naturals and the transitivity of
`Before`, because induction over finite sets is not available to the provers. At `idle` with nothing
running, `Tracked` makes both counters zero, so that the job that does not fit is larger than a budget.

### The runner

`RunnerProofs` uses the scheduler's invariants without proving them again. `P` is an instance of
`SchedulerReportProofs` with the runner's budgets; the first lemmas show that its definitions and those
of the runner's own instance `S` mean the same. A step of the runner is a step of the scheduler, or one
around it, which leaves a returned run as it is: with an empty pool nothing of it can move. `AsReported`
says that records are written only then, and are those of all jobs, in order. `Ordered` needs no
induction over sorting: a job's place is the number of records before it, these ranks are a bijection
of jobs and places because the order is total, and the five counts of the summary are of disjoint sets
that together are the jobs.

### 7-Zip processes

The three properties follow from five facts: a child is alive only while its worker is between `Popen`
and the end of the wait (`AliveWhileRun`); a call that has not returned has no outcome (`OutcomeUnset`);
`interrupt_all` looks at nothing before the event is set (`EventFirst`); a worker whose child was found
in the registry is in its last call and will report the interruption (`FoundCallIsLast`); and what the
second pass has looked at is dead (`KillPass`).

### Staging and executors

`Always` is invariant in every run: the types, `StatusAtEnd` (a job has a status exactly when it is
done), `StagedWhileRun` (the staging directory is there from its creation to the publication) and
`StagingRetained` itself, which names the three ways in which a record without success can leave a
staging directory: moved, unowned, or not movable. Under `NoSignalDeaths`, `WholeIsStaged` follows the
content from the judgement of the first process to the publication. Under `EmptyExtractionsApart`,
`PublishedOnce` says that a job owns no entry but the one at its `final` path, that it owns this one
between the publishing call and the record, and with the record `success`, and that it owns none
before that call or with any other record of its own; only of a job that an exception ended it is open
whether it published. `EmptyIsExtracted` says that an empty directory is the output of an extraction
of an empty archive, and `WithinNames` that `final` stays in the least set that has the wanted name
and the variants of its members. If a target of `os.replace` were an empty directory, its name would
be one of two extractions'.

### The command line

Of `HandedOverFits`, `DistinctJobs` and `OnlyAllowlistEdited` only their conjunction with the following
is inductive (`IInv`). `Idle`: there are no runtime jobs before a validation handed them over, so that
`Configure`, `Rerun` and `Observe` may change the configuration. `Budgeted`: past `config` the CPU budget
and the threads of a heavy job are positive numbers. `Listed`: plan and manifest are sequences.
`Unedited`: jobs of the plan are as planned, their hash included. `Traced`: without forgery each record
carries the hash of a planned one. At a validation, `ValidFits` bounds the clamped tokens, `Clashes`
separates any two records, and `ValidKeepsPlan` derives from the equal hash that the protected fields
are those planned, and from `Attributed` that a profile other than the planned one is marked. The lemmas
treat a record as an arbitrary function: which fields it has is what `Verdict` tested.

The other theorems stand on invariants of their own, one concern each:

- *The source of a creation* (`WInv`). While nothing has changed since a walk began, the walk is a
  `Survey`: every entry of the tree is found, or below a directory still pending, and what was found is
  as it is in the tree. A walk that ends has nothing pending, so its digest is the tree's.
  `ForeignChange` keeps the tree a `ProperTree`, without which an entry could be below nothing.
- *Settings* (`Settled`). A configuration is what its layers resolve to, except for I/O slots that are
  to be detected. `HighestWins` says of the update of settings by layers that each field is that of the
  highest layer which has it.
- *Storage* (`Detected`). `ClassifyNode` is a recursive function whose arguments are a node and the set of
  nodes above it. That it has a value at all is a theorem (`Recursion`): the set above a node grows with
  each call and is part of a finite one, so the recursion is settled from its deepest visits up. The
  visits it makes from a root are then those of the devices below it, a visit that is cut by a cycle is
  of a device that `BackingCapacities` counts too, and the least capacity is the same in both directions.
  The caches and the cap at the number of processes are part of the theorem.
- *Accounting* (`AInv`). `Typed` and `Turns` place the process and its turn; `Owed` says that as long as
  there are no errors every given path is an input, every input before the turn has a job, and every
  planned job is a record; `Promised` says what an exit code means. The lists of distinct paths are
  where a path could get lost (`UniqueKeeps`, `NothingDropped`): a list with its doublets removed has
  each element once, at the place of its first occurrence.
- *Plans* (`DInv`). `Drafted`: a planner writes at most one record per input and none with a fault that
  validation looks for. `Fresh`: a manifest nobody edited is the plan, and without errors its records
  are separate. `Kept`: what was handed over is made of all the records, and a second validation refuses
  only for want of I/O slots. `PlanIsValid` joins them. A validation adds no warning that is there, so
  that two leave what one would.
- *Volumes* (`Intended`). Each job's path is what `identify` answers for a given one, and these are
  distinct. `FirstVolumeIsFirst`: that answer has no later number in any series. `FirstsDiffer`: two such
  names are not of one series, unless they are one name.

`CommandLine` puts the scheduler's assumption about jobs on firm ground: a job that `JobsFitBudgets`
is about can never be the reason for "can never fit" of `ImpossibleIsOversized`, except where
`execute_manifest` lowers the I/O slots for a small batch (`runner_oversized`).

### What only TLC checks

`Termination`, the fairness part of `ImplementsLifecycle`, and `InterruptedCallReturns`:
the prover does not do liveness under fairness. Every safety property of a passing run is proved as
well. That the reference definitions say what is meant (`BackingCapacities`, `SameArchive`, `EntriesBelow`)
is for the reader; the definitions with a suffix that section 2 describes show that they can fail.

## 5. Not modelled

- Windows signals: `SevenZip` has POSIX process groups.
- The ctypes declarations and the byte layout of descriptors (`storage_windows.py`): bytes become
  the sizes and values that the code tests.
- The parser of 7-Zip's listings (`inspect.py`), decoding of list files and standard input
  (`input.py`), JSON, TOML and argparse's tables, hashing, wording, log contents: string work, taken at
  what it yields. `inspect` and `version` run a process with a time limit and no shared state.
- A missing 7-Zip (exit 64 before planning or running), the per-device caches of the
  detectors (they return what the detector returns again), a Ctrl-C outside `execute_manifest`.
- The PowerShell wrappers and `parxtract` start the command and convert its records; the release
  scripts check archives at build time.

## 6. Plan

1. `ArcShuttle`: `Scheduler` with `Executors` in place of the opaque worker, where it subsumes a run of
   its parts, and the theorem that this composition implements both.
2. The theorem that each job of `Executors` goes through the states of `JobLifecycle`, so that a worker
   may be put in place of the opaque one of `Scheduler`.

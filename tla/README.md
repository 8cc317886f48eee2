# Verification of web_listening

TLA+ modules, TLC configurations and TLAPS proofs for the runtime of
`web_listening`, a service that acquires web pages for callers: it keeps
durable Jobs in SQLite, executes them in a bounded thread pool, commits what it
acquired to an immutable artifact repository, and hands the caller a terminal
Result. All paths below are relative to `src/src/web_listening/`.

The code is read as the only authority. Docstrings, comments and the README of
the repository are used for one thing: where one of them promises something
the code does not do, section 6 says so.

Contents: 1 inventory, 2 plan, 3 modules and code, 4 runs and bounds,
5 fairness, 6 disagreements found, 7 proofs, 8 what is only model-checked,
9 what is not modelled, 10 how to run.

## 1. Inventory

### Components, their state and their operations

| Component | Source | State | Operations |
|---|---|---|---|
| Job repository | `runtime/jobs.py` | tables `jobs`, `job_events`, `job_artifact_grants` | `submit`, `submit_request`, `submit_and_claim`, `claim_next`, `cancel`, `transition`, `reconcile`, reads that replay a row |
| Job execution | `runtime/service.py`, `runtime/acquisition_service.py`, `interfaces/server.py`, `interfaces/cli.py`, `interfaces/mcp.py` | local variables of each thread and process | `execute_submitted`, `run`, `retrieve`, server start, close, crash |
| Worker pool | `runtime/acquisition_service.py` | one lock, `_worker_count`, `_wake_generation`, `_futures`, sets of active identifiers, `_claim_failed`, `_closed` | `wake`, `run_available`, `_worker`, `close` |
| URL fetch | `runtime/url_fetch.py`, `runtime/jobs.py`, `runtime/service.py` | table `url_fetches` with its hops and discoveries; grants in the artifact repository | submit, claim, checkpoint, save discovery, finish, cancel, restart; the navigation loop |
| Site batch | `runtime/site_batch.py`, `runtime/jobs.py`, `runtime/service.py` | table `site_batches` with its children; grants | submit, claim, checkpoint, finish, cancel, restart; the serial loop |
| Artifact store | `artifact/store.py` | SQLite rows, content-addressed files, temporaries | `commit_observation`, `grant_artifacts`, reads |
| Retrieval | `runtime/retrieval.py`, `runtime/service.py` | one operation record, a shared budget, a deadline | plan, execute alternates, project states |
| Target workflow | `runtime/workflow.py` | one run: tools tried, budget used, artifacts | acquire, switch tools, transform, end |
| Site exploration, refresh | `runtime/site_explore.py`, `runtime/site_refresh.py` | frontier, visited set, shared budget, recovered state | explore, recover, compare |
| Tool registry | `tool_registry/registry.py`, `eligibility.py`, `acquisition/quality.py` | manifests and health | rank, admit, invoke |
| Tool lifecycle | `tool_registry/lifecycle.py` | one state file per tool version, active pointers | install, qualify, activate, disable, rollback |
| Access gateway and runners | `tool_registry/runners/*` | budget of one invocation, robots cache, child process | request, redirect, check robots, run, kill |
| Site Skills | `site_skill/*` | versioned files | resolve, validate, update |
| Requests, results, interfaces | `request/*`, `result/*`, `interfaces/*` | immutable records | validate, parse, format |

### How they interact

Callers reach the Job tables through REST, CLI or MCP. The REST server also
owns a worker pool; CLI and MCP are short processes that open the same data
directory, and either leave a Request in the queue or execute it inline. The
tables are the only thing the processes share: SQLite serializes their
transactions, the pool's lock serializes threads, and nothing else does. An
execution runs the workflow, which commits to the artifact store in
transactions of its own, and then makes one terminal transition that stores
the Result and the grants together. URL fetches and batches have tables of
their own and a checkpoint per hop or child, so that a restarted server resumes
them; a Job is not resumed but failed with `service.restart_interrupted`.

### What is hard

* **Concurrency.** Cancellation races with the terminal transition; wakeups
  race with workers that are about to leave; close races with claims; other
  processes race with all of it.
* **Failure.** A process dies between any two transactions. Two databases and
  a file system are written one after the other. Any write may raise.
* **Time.** Clock readings are taken before the transactions they are used in,
  have a resolution of one second and may step back.
* **Order.** Rows are validated against their own replay when they are read:
  a sequence of legal calls that writes an unreadable row loses the Job.

`PROJECT.json` lists each of these at its line under "hazards", with the
properties that cover it.

### What makes each component correct

* Job repository: rows stay readable; a cancellation that was acknowledged is
  never answered by an ordinary outcome; content is granted exactly with the
  outcome; a caller's key names one Job; a claim authorizes one Job; the
  lifecycle promised to callers is implemented.
* Job execution: no Job is executed twice or left running by a serving
  process; only its executor or a restart ends it; evidence is not lost; every
  accepted Request is answered.
* Worker pool: slots are returned once; no wakeup is lost; close reaches every
  Job and ends.
* URL fetch and site batch: durable steps are not repeated, all runs share one
  budget, the outcome is the durable history, cancellation stops the next step.
* Artifact store: a committed row has its file for ever; failures leave nothing.
* Retrieval, workflow, exploration: shared budgets are kept by every alternate,
  the order of tools is the admitted one, the first terminal failure ends it.
* Exploration and refresh: a page is called missing, and a recipe proposed,
  only on evidence; attempts at a URL are limited over replay and recovery.
* Tool registry and lifecycle: what is active and served has passed a
  qualification; a disable holds against everything that runs beside it.
* Access gateway and runners: nothing is requested that policy or robots file
  forbid, whatever it was redirected from; one budget covers all reads of an
  attempt; a failed attempt reads no more; every attempt ends.

## 2. Plan

Done, in the order of importance:

1. `JobLifecycle` (abstract), `JobRepository` (implements it), proofs.
2. `JobExecution` (composes repository, executors and processes), proofs.
3. `WorkerPool`, `UrlFetch`, `SiteBatch`, `ArtifactStore`.
4. `ToolLifecycle`: state files and active pointers under interrupted and
   interleaved commands, and a process that serves them; proofs.
5. `TargetWorkflow` and `Retrieval`, which composes targets: the order of
   tools, the budget shared by tools, alternates and proposals, the answer.
6. `AccessGateway` and `BrowserBridge`, which composes the gateway with a
   browser's process: policy, robots files, budgets, failure, closing; proofs.
7. `SiteExplore` and `SiteRefresh`, which composes a replay with an
   exploration: recipes, recovery, comparison of states.
8. Proofs about `SiteBatch`, `UrlFetch`, `WorkerPool` and `ArtifactStore`.
9. Proofs of the remaining safety properties: `NothingStranded` and
   `EvidenceIsKept` of `JobExecution`, `TargetWorkflow` and `Retrieval`,
   `SiteRefresh`, and the budget of `UrlFetch`, a sum over its hops.

Every safety property a run checks now has a theorem. Next: what the liveness
properties rest on and can be proved, the measure that each step of a run
lowers (`UrlFetch`, `SiteBatch`, `BrowserBridge`).

## 3. Modules and code

**`JobLifecycle`** is what a caller is promised, without tables: a Job is
published once, started once, may be asked to stop, ends once with a verdict
and content, and stays as it is.

**`JobRepository`** is `runtime/jobs.py` for Jobs. `jobs`, `events` and
`grants` are the three tables; each public method is one action, because each
is one `BEGIN IMMEDIATE` transaction. `SnapshotLegal` is
`_transition_snapshot`, `ClaimHeld` is `_require_claim`, `CancelHonoured` is
`_require_cancellation_result`; `Readable` is the replay `_load_job` does,
which raises `job.persisted_invalid` when it is false. A Result is a record of
what these functions look at: its run, status, error, attempt error, artifacts
and the window of its timestamps. `Reconcile` of the code is one `Interrupt`
per Job, since each is its own transaction.

**`JobExecution`** extends it with those who call it. `exec[e]` is the program
counter and the locals of a worker thread of the server, or of a CLI or MCP
process; the steps between two database accesses are one action.
`Look` is the top of the worker loop with its clock reading, `Claim`, `Register`
and `Abandon` the claim and the look at `_closed` after it, `Work` and `Raise`
the workflow, `Poll`, `Commit`, `Convert`, `Terminalize` the end of
`execute_submitted`. A workflow that raises loses the Result it was building: a
claimed Job is ended from the exception alone, and `run` records a rejected or a failed Job
(`RunFailures`). `server` is the life of the server process: `Open` reads
the clock, `Start` the list of running Jobs, `Reconcile` fails one, `Serve`
opens the pool; `Close`, `CancelActive` and `Exit` are a cooperative end,
`Crash` the other one. What the workflow returns is any well-formed Result; it
reports a cancellation only if one was requested.

**`WorkerPool`** is `AcquisitionService` with its lock: each region under the
lock is one action, and each queue (`claim_next`, `claim_next_url_fetch`,
`claim_next_batch`) a step between. A piece of work is only queued, running or
ended here. `pc` includes finished futures ("done", "raised"), which the next
wakeup forgets.

**`UrlFetch`** is one row of `url_fetches` and the run that works on it. A hop
is recorded with where it ended, what it cost and which links its page has; the
loop of `run_url_fetch` is `Top`, `Acquire`, `Checkpoint`, `Examine`, `Save`,
`Decide`, and `Resume` rebuilds the locals from the row. `Ask` and `Cancel` are
the read and the write of `cancel_url_fetch`. What an acquisition costs is not
bounded by what it was given: a tool that reports more requests than that has
failed, but its usage is durable.

**`SiteBatch`** is one row of `site_batches` and the serial loop: `NextChild`,
`RunChild`, `Checkpoint`, then `Build` and `Finish`. `Grant` is the transaction
on the artifact database that follows the checkpoint in the jobs database.
`phase` says whether the batch explores its sites or refreshes them: the two
read a cancellation at different places, so `Children` differ, and `HaltChild`
is the refresh that raises (section 6).

**`ArtifactStore`** is `commit_observation` between the lock of the process,
the write lock of SQLite and the file system. `Look`, `WriteTemp`, `Link` and
`MakeFolder` are the steps of `_publish_blob`; `Undo` is its rollback and
`UndoCommit` the one of a failed commit. Files have inodes, so that "the file I
made" and "the file that is there" are different things.

**`ToolLifecycle`** is `tool_registry/lifecycle.py` for the versions of one
tool. Nothing locks its files, so each operation of an administrator's process
is cut where it reads a state file, where it writes it (from the copy it read,
`WriteState`), and where it makes and renames the temporary beside
`active.json`. `Install` to `WriteCertified` are the installer of
`tools/browser`; `BeginQualify` and `EndQualify` enclose the trials of
`qualify`; `Raise` is any step's exception, which may leave the
temporary behind when unlinking it fails too, and `Crash` the end of the process. The
serving process lists versions once (`OpenLists`, `OpenDescribes`), and its
wrapper reads the state twice for each call (`Acquire`, `Invoke`).

**`AccessGateway`** is `GovernedAccessGateway` of
`tool_registry/runners/in_process.py`: `read` holds the state of one read, whose
stages are its calls of `_apply_robots`, `_load_robots`, `_resolve`, `_send`,
the redirects and `_read_body`. A robots file takes the same path as a target,
and `ForRobots` says which of the two is under way. The transport and the remote side
are free: every answer the code distinguishes is possible at every request.

**`BrowserBridge`** extends it with `tool_registry/runners/browser_network.py`
and `isolated_runtime.py`: the adapter's process posts navigations, one handler
of the parent holds the lock and drives the gateway (`Serve` checks the attempt's
status, `StartRead`, `Read` and `EndRead` do the read), the watcher's poll may set the
failure beside it (`Watch`), the runner kills (`Stop`), and `Report` replaces
the adapter's claims by what the parent measured (`normalize`). `Close` does not
wait for handlers.

**`TargetWorkflow`** is `run_single_target` of `runtime/workflow.py`. `RankTools`
is one turn of its loop with `eligibility.py` as operators (`Eligible`,
`Ranked`, `Followups`, `AllowsSwitch`), `ToolReturns` the call of a tool that
spends what it likes and answers what it likes, then `CommitSource` and the
steps of the Transform. `cancel` is a flag that is read only where the code
reads it. Requests, bytes and seconds are `Resources`, because the code treats
them alike except where the model says `"runtime"`.

**`Retrieval`** runs such targets under one authorization: `retrieve` of
`runtime/service.py` (`NextRequest`, `JobEnds`, `JobRaises`, `Answer`) and
`run_agent_assisted_target` (`AssistFirst`, `AssistFails`, `Propose`,
`ActionEnds`). `late` is what the deadline leaves.

**`SiteExplore`** is `runtime/site_explore.py`: `RunSeed`, `OfferTools`,
`Discover`, `Visit` and `Build`. The run of one page is one step, with the
outcomes `TargetWorkflow` reaches as far as a site tells them apart (`Runs`).
`Refuses` are the checks of `result/site_explore.py` on its own record: a
result it refuses is an exception instead of a Result.

**`SiteRefresh`** extends it with `runtime/site_refresh.py`: `ReplaySource`,
`Rediscover`, `Revisit`, and `Recover`, which starts the exploration on what is
left of budget and attempts; `Report` compares with the previous state.

The operators that begin with "Mutant of" in the modules are small faults. They
are not part of the specification; each is used to check that a property
would notice it.

## 4. Runs and bounds

Every cfg says `CHECK_DEADLOCK FALSE`, because the system may stop: Jobs and
times are used up, and a closed pool, an answered operation or a finished batch
does nothing more.

| Run | Instance | Distinct states | Shows |
|---|---|---|---|
| `job_repository` | 2 callers, 2 Jobs, 2 tokens, 2 times, 5 kinds of Results | 14 797 | readability, cancellation fence, grants, identities, lifecycle refinement |
| `job_execution_server` | 2 workers, 2 Jobs, a crash, a close, fair | 58 364 | no Job stranded or executed twice; Jobs end |
| `job_execution_faults` | 1 worker, 1 inline process, 1 Job, 2 times, failing storage, dying processes, clock steps back | 530 596 | who ends a Job, returned evidence kept |
| `worker_pool` | 2 threads, 1 Job, 1 fetch, with and without polling, another process, a driver, a failing Job claim, fair | 379 614 | slots and exclusive work, close, no lost wakeup |
| `url_fetch` | 3 URLs, 2 clients, 2 hops after the seed, tools that overspend, runtime 6, a crash, lost writes, fair | 339 474 | hops not repeated, shared budget, nothing begun without means, outcome, cancellation, end |
| `site_batch` | 3 sites, both phases, 2 crashes, lost writes, fair | 170 844 | aggregate, cancellation, history, end |
| `artifact_store` | 2 threads of one process, 2 contents in one folder, 3 commits, a crash | 921 432 | files, grants, immutability, failures leave nothing |
| `tool_lifecycle` | 2 versions, 2 administrators, 4 operations, a crash, a serving process | 840 306 | what is served is qualified, a failing verdict stands, a disable holds |
| `browser_gateway` | 2 origins, one of them https, each with a robots file and a page; 4 requests, 2 bytes, fair | 1 680 478 | policy and robots files over redirects, budgets, failure is final, attempts end |
| `retrieval` | 3 tools, 2 resources of 2, 3 attempts, an alternate or a proposal, fair | 1 137 314 | order of tools, shared budget, true answers, end |
| `site` | a seed, 2 pages, a page of another host, 3 discovery tools, 2 acquisition tools, budget 7, 3 attempts, with and without a required file | 8 885 631 | missing pages and Site Skills are proven, attempts limited, records accepted |

The run `site_batch_cancel` is in section 6.

`job_execution_server` uses Results without artifacts: which outcome an
execution has matters to it only as far as it is a cancellation or not.
In `worker_pool`, batches are left out because their queue is handled like that
of the fetches, step for step.

Why these bounds are enough for what is asked. Every transaction touches one
Job row and, through the uniqueness of keys and tokens, one other: two of each
show every conflict. Two times order any two events; only readings are
compared. Two executors are the least that can compete; a third repeats the
competition. A second crash hits a run that has already been resumed, a third
one another such run. Three sites have a first, a middle and a last; three URLs
allow a loop back to the seed and one back to a later page. Two contents in one
folder share the directory that a rollback may remove. Two versions are what a
rollback needs, and two administrators what a lost update needs. Two origins
are a redirect and the verdict it must not inherit; four requests are two robots
files and two targets, and a page that is asked again meets the end of the
budget. Three tools are all there are; a budget of two per resource is used
up exactly, overspent, and left over for an alternate. In `site`, a budget of 7
at a cost of 2 is overspent by the fourth call, and three attempts allow a
replay, a recovery and one more at the seed. Results that differ only in what no guard
reads are one value.

Constants that bound the model and nothing in the code: `MaxCrashes`,
`MaxFiles`, `MaxCommits`, `MaxOps`, `MaxSpend`, the size of `Times` and of the
sets of identifiers. `MaxHops`, `MaxRequests`, `MaxBytes`, `MaxRuntime`,
`MaxAttempts`, `Budget`, `Tries` and `Sites` are parameters of the admitted
request.

## 5. Fairness

`ExecFairSpec` lets every executor take its next step (the operating system
schedules threads, and executions return: the workflow is bounded by its own
runtime budget) and the server's own steps, including its start: an operator or
service manager starts a server that is down. It does not assume that clients
submit or cancel, nor that faults happen or cease. `PoolFairSpec` lets threads
and close take their steps, polling included (`Event.wait` has a timeout), and
submitters of the server process call `wake` after they submitted, as the REST
handlers do. `FairSpec` of `UrlFetch` and `SiteBatch` lets the run and, after
a crash, the claim proceed (`Thread` includes it). `Spec` of
`Retrieval` lets its thread proceed: a call of a tool returns, because its
runner limits it. `Fairness` of `BrowserBridge` says that time passes, that the
runner kills the adapter once its time is up, and that the parent's threads run;
the adapter itself, the remote side and the watcher promise nothing. All are
weak fairness: no step of the code waits for a condition that comes and goes.

## 6. Disagreements found

One is kept as a run; TLC prints the behaviour.

* `site_batch_cancel` - a refresh that reads a cancellation before it calls a
  tool for a page returns a Result without its Site Skill
  (`runtime/workflow.py:370`), which the record of the refresh refuses. The
  refresh raises, and the batch ends failed without the Result its durable
  children add up to, though it was cancelled at an acquisition boundary.

Others met while modelling. The models contain the behaviour, and the
properties are stated so as to hold beside it; where a property would not, the
instance excludes the case and the text says so.

* `reconcile` fails every running Job, also one that a CLI or MCP process is
  executing on the same data directory. Leases are written by every claim and
  read by nobody. (`EndedByItsExecutor` allows it.)
* `claim_next` raises for a Job submitted in the second after the worker read
  the clock; the worker takes it for a broken repository.
* A worker whose claim of a URL fetch or batch raises ends without giving its
  slot back, and the pool goes on calling itself healthy. (`FailingClaims` of
  `worker_pool` contains the guarded claim of Jobs only.)
* A batch whose process dies after a cancelled child runs one child more after
  the restart and then cannot derive an aggregate.
* A failing commit removes its file after it gave up the database's write lock:
  a row that another process committed in between loses its content.
  (The run `artifact_store` is about one process.)
* A qualification that began before a disable writes its older copy of the state
  back and undoes it (`DisabledIsNotInvoked` excepts it, by name `lost`).
* A process that dies before it renames the temporary of `active.json`, or that fails
  to and then fails to unlink it too (that failure is swallowed), leaves a `.state-*` file, and
  every later start refuses the tool's directory. Nothing in the code removes
  it. (`Raise` and `Crash` set `litter`, `Listable` refuses it.)
* A workflow that raises after it committed artifacts leaves them granted to nobody:
  `execute_submitted` still has no Result then, and ends the Job with a failure
  built from the exception. (`EvidenceIsKept` is about Results the workflow returned.)
* A disable that read a version's state before a failing verdict was written puts the older
  qualified bit back, with `enabled` off (`VerdictsStand`, a
  conjunct of `ServesOnlyQualified`, is about what can be used, not about the bit).
* A tool that reports more requests than a fetch has left fails its attempt and
  ends the fetch, but the request counts as overspent (`RunsShareTheBudget`
  says what follows instead of denying it).
* The usage of a read that is under way when the attempt ends is not reported,
  if the attempt failed (`SuccessIsMeasured` is about success).
* An exploration that spent the attempts of one candidate and was cancelled at
  the next, or was refused there while a file is required, contradicts its own
  record and raises; so does one with a required file where no tool aware of files
  answered although another tool did (`RaisesOnlyWhenCancelled` excepts them).
* A refresh with a required file stops at the first file and still counts as
  complete: previous pages it did not visit are called missing
  (`MissingIsProven` excepts it).

## 7. Proofs

All theorems hold for every value of the constants, under the assumptions the
modules name: identifiers are Integers and times Naturals, `None` is none of the
values, Results are well-formed records, the set of Results is closed under the
conversions of `JobExecution` (`ResultsAreClosed`), every URL has an origin and every
origin a robots file, policies permit only URLs of allowed origins, limits and
costs are numbers, and names of URLs are not the words the models use beside
them. TLC evaluates all of them in the runs. Some theorems have a hypothesis about the
environment, named where they are described below; without it TLC finds a counterexample.

`JobProofs`, part I, about `JobRepository`. The invariants the runs check are
not inductive alone: that a row can be read back depends on columns the guards
of another call wrote earlier. `IInv` says what each row of each status looks
like, how it relates to its events and its grants, and that keys and tokens are
unique. Every action either rewrites one row or leaves them all; `RowInv` and
the lemma `NextRewrites` reduce each preservation to that one row, so that each
conjunct is proved once per kind of row rather than once per action. From `IInv`
follow `TypesHold`, `ReadabilityHolds`, `FenceHolds`, `GrantsHold`,
`IdentitiesHold`, `FirstCancelHolds` and, mapping each step to a step or a
stutter of `JobLifecycle`, `LifecycleHolds`. (`TypeOK` and `FirstCancelStands`
are proved and in no run.)

Part II, about `JobExecution`. `ExecTypes` adds to the type invariant which locals are
set at which program counter (a worker that has looked has a clock reading, a
committing one has a proposal). With it every step is shown to be one call of
`JobRepository` or none (`UsesRepositoryHolds`), so everything above is true of
the composed system. `Holdings` says that a busy executor knows the token in its
Job's row, that the row is running or was interrupted, and that no other
executor has the same Job; it needs the clause on queued Jobs of
`RuntimeService.run`, which have no Request and therefore cannot be claimed in
the meantime. From it follow `ExclusionHolds` and `EndingHolds`, for any number
of workers, processes, Jobs, crashes and closes. `Carries` says that every
proposal of an executor carries what its workflow returned; it gives
`EvidenceHolds`. `Ownership` says that a row without a caller has no Request, no
token and no cancellation, and is executed by no worker (`OwnershipHolds`).

`StrandedHolds` needs three hypotheses, each of which TLC shows to be necessary:
rows can be written (`~StorageMayFail`), processes that run their own Job are
not killed (`~InlineMayDie`), and the clock does not step back
(`~ClockMayStepBack`). Under them what an executor proposes fits the times of its row and is
never refused but for a cancellation, which it then honours (`Timely`), and
every running Job has an executor, or is on the list of a server that is still
starting (`Attended`). The two runs have these faults apart: the server's run has
none of them, and checks `NothingStranded`; the other has all.

`ToolLifecycleProofs`. That a served version is qualified does not follow from
the files alone, since every operation holds an older copy of a state and may
write it back. The invariant says of each copy, each pending pointer and each
file that its qualification was real, and what a call that was admitted after a disable
can still find. Of a version whose latest verdict was a failure it says that its
file is not usable: whatever copy an operation writes back, it disables the version or
gives a verdict of its own (`WriteIsGood`). From it follow
`OnlyQualifiedIsServed` and `DisableHolds`, for any number of
versions, processes, operations and crashes.

`BrowserBridgeProofs`. `ReadIsGoverned` says what is known of the read under
way at each stage: its target is permitted, and with a verdict on its origin the
request is for the target and not forbidden. A verdict does not reach back to
what was asked before, because only an origin that had none gets one
(`VerdictKeeps`). `BridgeUsesGateway` shows that every step of the bridge is
a step of the gateway or none, and `BridgeInv` that an adapter which exited with
a page leaves no read under way. From these follow `GovernedHolds`, `UsageHolds`
and `FailureHolds`, for any URLs, policies, robots files, redirects and budgets.

`SiteBatchProofs`. The properties speak of durable rows; they hold because of
how the thread's locals relate to them at each place it can be: its results are
the durable children, or one more before their checkpoint; all but the one just
checkpointed are granted; and a child that begins after a durable cancellation
is barred. With `CompletionIsTrue`, a lemma on the derivation of an aggregate,
follow `AggregateHolds`, `CancelHolds` and `HistoryHolds`, for any number of
sites and crashes.

`ArtifactStoreProofs`. Without a crash every file has a row or is owned by the
commit that linked it, and a commit only ever removes what it owns, by inode
(`OwnersInv`); so `NothingIsLeft` holds for any number of processes. That rows keep
their files needs the hypothesis `Exclusive`: one process, or no rows that fail
after their publication. Then the lock of the process, or that of the database,
leaves one commit at work until the end of its clean-up (`OneAtWork`), and what it
owns on disk is nothing a row relies on (`OwnedIsNew`). From it follow
`PublishedHolds` and `ContentsHold`. Without the hypothesis they are false (section 6).

`UrlFetchProofs`. As for a batch, the thread's hops and discoveries are the
durable ones or one more; besides, what it has visited covers every durable hop
but the page under examination, and a page to acquire is new to them
(`VisitedFollow`). Since `Resume` rebuilds all of that from the rows, a crash
changes nothing. From it follow `HopsHold`, `OutcomeHolds` and `CancelHolds`,
for any site, answers, costs and crashes. `BudgetHolds` and `BeginningsHold`
are about sums over sequences of any length. The library's induction takes an operator as a
parameter; `SetInduction` takes a set of numbers and follows from the least number
outside it. With it the recursion of `Total` is shown to define
the partial sums (`SumsExist`, `SumsAgree`), which grow by what is appended
(`TotalAppend`). `BudgetFollows` says that hops which
overspend end with one that has no source, whether they are durable or on their way, that
a fetch with such hops can only end failed, and that the thread turns to a new
page, begins a hop or saves a discovery only while the durable rows leave the means.

`RuntimeProofs`, part I, about `WorkerPool`. Where a thread is decides whether it
holds work, and what it holds is running or just ended (`HoldInv`); no two hold
the same. With that, `AccountsHold` follows by counting the threads that started
and left, and `CloseHolds` because a running Job has its thread or was asked to
stop, and a Job that a closing pool has not seen is refused. The first has the
hypothesis `OnlyJobClaimsFail`, without which a slot is lost (section 6); the
second `RowsAreWritten`, since `close` swallows a cancellation whose write raises.

Part II, about `TargetWorkflow` and `Retrieval`, for any resources, budgets,
tries and alternates. Each phase of a target has what the steps before it
established: every attempt so far permits one more, by a tool that has not had
its turn (`Switching`); nothing is overspent from the acceptance of a body on, and
an attempt is left for what begins (`Paying`); what is stored is what the ending will
say (`Telling`). An operation grants each target what its predecessors left
(`Budgeting`), and every Job but its last stored nothing, for a reason that is
the site's (`Answering`). Together they are `OperationInv`; from it follow
`SwitchingHolds`, `BudgetHolds` and `AnswersHold`. Tools may spend more than they were
granted (`MaxSpend` is any number): the theorem is about what is stored.

`SiteProofs`, about `SiteExplore` and `SiteRefresh`. What a result says was
settled many steps before it is built, so `SiteInv` says of every place what is known there:
what has not begun (`Untouched`), that each candidate comes from a discovery
tool that succeeded (`Discovered`), that what the runs of the candidates came to
is among the reasons to stop (`Reasons`), why the visits ended (`Visiting`), that
a replay which goes on has a page or a technical failure for each of its visits
(`Replayed`), and that the attempts at the seed of a recovery are those of the
replay and those charged (`Recovered`). `Ended` is what the final steps
establish. From these follow `AbsencesHold`, `SkillsHold`, `AttemptsHold`
and `RaisesHold`, for any site, redirects, tools, costs, budgets and limits.
The provenance of a candidate is the least discovery tool that found it; that there is a
least one follows from the well-foundedness of the numbers.

## 8. Only model-checked

Liveness (`JobsEnd`, `PoolMovesOn`, `FetchEnds`, `BatchEnds`, `AttemptEnds`,
`RetrievalEnds`) rests on fairness and ENABLED, which the proof system does not
handle; the runs check it on their instances. All other properties of the passing
runs have theorems. Where a theorem has a hypothesis, the instance of its run
satisfies it too: nothing is claimed for other environments, in which the property
is false.

## 9. Not modelled

The in-memory mode of the repositories (a test double of the same class);
validation and canonicalization of identifiers, URLs and payloads (pure
functions over text); formatting, logging and authentication of the interfaces;
parsing of HTML, feeds, sitemaps and documents; sockets, framing and process
plumbing of the runners below what `AccessGateway` and `BrowserBridge` say;
the quality heuristics over bodies, which decide what a failed or accepted
acquisition is (`ToolReturns` allows both); hardening of paths against links;
digests of installed tools and of site states; `acquire_discovered_candidates`,
which no service operation calls. Rows that `RuntimeService.run` publishes without
a Request and whose process dies before it starts them are never claimed:
`JobsEnd` is about Jobs with a Request. Idempotent submission of URL fetches and
batches follows the scheme proved for Jobs and is left out of their modules.
`JobExecution` takes any well-formed Result where `Retrieval` has
`TargetWorkflow`: the two are not composed in one instance, which would multiply
their states without a step they share other than the cancellation flag and the
terminal transition, both in each of them. `PROJECT.json` gives the status of each component.

## 10. How to run

    tlc -workers 2 -config JobExecutionServer.cfg MCJobExecution
    tlapm JobProofs.tla

Each run of `PROJECT.json` names its module and its cfg. The largest, `site`,
takes about a minute and a half with two workers, every other less.

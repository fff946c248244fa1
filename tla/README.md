# Specifications of the package analysis platform

TLA+ models, model checking runs and machine checked proofs for the repository
PROJECT-GROUP ("Pack-A-Mal"): a Django application that accepts packages for
dynamic analysis and runs one analysis container at a time, the Go programs that
do the analysis, and the simulated services the analysed packages meet. Paths below
are relative to `src/`; `PA/` stands for `web/packamal/package_analysis/`, `DA/` for
`dynamic-analysis/`, `SIM/` for `service-simulation-module/`.

## Inventory

| Component | State | Operations | Hard behaviour | Module |
|---|---|---|---|---|
| Task table, `PA/models.py` | `AnalysisTask`, `ReportDynamicAnalysis`, `APIKey` rows | queries, `save()` of whole rows, UNIQUE constraints | shared by every process at READ COMMITTED; `save()` writes all columns, however old | `AnalysisTable` |
| Submission API, `PA/views.py` | the object in memory of a request | `analyze_api`, status, queue, list | lookup and creation are separate transactions; publishing follows the commit; the error path saves a stale object | `CeleryTasks`, `WebQueue`, `ApiAccess` |
| Celery dispatcher, `PA/tasks.py`, `packamal/celery.py` | broker queue, object in memory and process cache of each worker | `run_dynamic_analysis`, `_process_next_queued_task`, `check_timeouts`, `cleanup_old_tasks` | late acknowledgement, redelivery, one retry, soft and hard time limits, duplicated messages | `CeleryTasks` |
| QueueManager, `PA/queue_manager.py`, `PA/apps.py` | one thread per Django process | poll, claim without a lock, analyse, link, renumber, time out | copies that are older than the row; several threads; restarts | `WebQueue` |
| Analysis runner, `PA/analysis_runner.py`, `PA/services/execution_service.py` | containers, shared result volume | start, wait, read the result file | nothing stops a container; the file is named after the package only | `CeleryTasks`, `WebQueue` |
| Report store, `PA/views.py`, `PA/redis_client.py` | report rows, Redis entries | save, show, download | expiry in Redis; the newest report is linked | `WebQueue` |
| Authentication, `PA/auth.py` | cached request counts, the key's row | authenticate, rate limit, `last_used` | check then act; save of an old object | `ApiAccess` |
| Scheduler, `DA/cmd/scheduler` | goroutine per feed entry | filter, forward, acknowledge | crash between send and ack | `FeedPipeline` |
| Analysis worker, `DA/cmd/worker` | one message, extender goroutine | receive, analyse, save, ack or nack | lapsing leases, failing uploads, crashes | `FeedPipeline`, `AnalysisRun` |
| Analyze command and worker logic, `DA/cmd/analyze`, `DA/internal/worker` | results file, temporary buffers, stores | static and dynamic analysis, saving | failing steps, state left over from the package before | `AnalysisRun` |
| Sandbox and capture, `DA/internal/sandbox`, `dynamicanalysis`, `packetcapture` | podman container, capture goroutine | Init, Run, Copy, Clean; capture | failure in the middle, deferred cleanup | `AnalysisRun` |
| Network mode, `DA/internal/networkmode` | mode, rules, decision cache, connections, statistics, logs | intercept, decide, route, switch mode, Close | unlocked shared state | `NetworkMode` |
| Artifact extension, `SIM/artifact-extension` | artifacts volume | events, three injections | partial failure, kill and restart | `ArtifactInjection` |
| HTTP simulation, `SIM/service-simulation` | directory of executables, log | start, analyse, classify, answer | threads, failing writes, restarts | `HTTPSimulation` |
| Tool pages, `PA/views.py`, `PA/services/execution_service.py` | shared folders, a module global with the archive's name | bandit, oss-find-source, lastpymile, uploads | threads that share the global and the folders, files a failed scan leaves | `ToolRequests` |
| Package lists, `PA/services/repository_service.py` and its helpers | list files, memoised results | look up, fetch, write the file | a reader beside a writer, a writer that dies | `PackageLists` |
| LastPyMile, `PA/src/lastpymile` | checkout, hashes, cache of releases | clone, hash the history, compare releases | only changed files are hashed; failures on the way | `LastPyMile` |
| bandit4mal, `PA/src/bandit4mal` | issues, metrics, skipped files | scan, filter, baseline | a file that fails half way; two runs around a reset of the branch | `BanditScan` |
| py2src, `PA/src/py2src` | links, votes | five sources, vote, score | renamed, dead and unanswered links | `URLFinder` |
| Sandbox scripts, `DA/sandboxes/dynamicanalysis` | alarm, types seen, call stack | install, import, execute | time limits by alarm, types that return each other | `SandboxScript` |

How they interact. `analyze_api` passes the gate of `auth.py`, writes a row and
publishes a message. A Celery worker takes the message, or a QueueManager thread polls
the row; it claims the row, runs the container, stores a report, links it to the row
and turns to the next one. Celery beat fails rows that have been running too
long and deletes old ones. All of them meet in the task table. The Go pipeline is
separate: feed, scheduler, worker topic, worker, result stores. Inside a worker an
analysis creates a sandbox, runs its phases under a packet capture and saves what they
yield. A package in the sandbox meets the network mode controller, the
injected artifacts and the simulated services.

What makes the parts correct: one running task at a time; every accepted task or
published package ends, none is forgotten; a task or package gets its own results;
nothing is acknowledged, reported or served before it is stored; what one step left
behind does not reach the next; no request leaves an isolating network mode; limits
and revocations hold.

## Modules

* `AnalysisTable`: constants and rows. A row is named by the request that creates it, so
  its purl, priority and key are constant functions; a report is named by its
  package because `ReportDynamicAnalysis.package` is a OneToOneField. Its operators are
  the queries of the code.
* `TaskLifecycle`: the abstract specification of both dispatchers: statuses, and one
  slot; its `Start` needs a free slot.
* `CeleryTasks` (extends `AnalysisTable`): requests, broker, workers, `check_timeouts`,
  `cleanup_old_tasks`, failures of processes. A step is one committed transaction, one
  autocommitted statement or one exchange with the broker. A transaction that reads
  first and writes later is two steps with the locks it holds in between
  (`LockedByWorker`, `LockedByBeat`). `pc` and `job` say where each worker is in
  `run_dynamic_analysis`; `obj` and `draft` are Django objects in memory, so that a save
  of a stale object is what it is in the code. Implements `TaskLifecycle` with
  `status == [t |-> db[t].status]`.
  `Take` receives a message; `CheckMissing`, `CheckRetry`, `CheckGiveUp`, `CheckCompleted`,
  `CheckReuse` and `CheckPass` are the ways through the first transaction, `Claim` its commit;
  `CacheHit` and `CacheMiss` consult the process cache; `AnalysisEnds`, `AnalysisFails` and
  `Heartbeat` are the analysis and what follows it; `SaveReport`, `Link`, `PublishReport`
  and `Finish` the successful end; `HandlerRead`, `HandlerFail` and `HandlerRetry` the
  `except Exception` block; `SoftLimit`, `HardLimit`, `Crash` and `DropCache` come from
  `celery.py`.
* `WebQueue` (extends `AnalysisTable`): QueueManager threads with the result volume,
  report rows and Redis. `mgr[m]` is a thread: its step, its copy of the task (`copy`), the
  rows it is about to save (`rows`). One action per query or commit of `_worker_loop`,
  `_get_next_task`, `_process_task`, `_update_queue_positions` and the timeout manager;
  `ProcessEnds` ends the process in the middle and leaves its container as an orphan that
  writes later. `crowded` is a history variable: two threads have been up at once.
  Implements `TaskLifecycle` too.
* `ApiAccess`: threads of one process in `require_api_key` and `check_rate_limit`, the
  key's row and its revocation, the expiring count, and a client that pages through
  `list_tasks_api`. `age` (time since the n-th last admission) and `overlap` are history variables for `LimitKept`.
* `FeedPipeline`: scheduler, worker topic, workers and their `MessageExtender`, with time in
  ticks. `lease[w]` is what is left of the acknowledgement deadline, `clock[w]` the time to the
  next tick of the ticker, `ext[w]` where the extender goroutine is. A worker's handling is
  reduced to which analyses are done and saved; `AnalysisRun` has the detail.
* `AnalysisRun`: one process (`driver` is the worker or the command line tool) with `pc`, `mode`
  (static or dynamic) and everything a failing step can leave: container, results file,
  capture goroutine, temporary buffers, stores. `Object` records for which package an
  object is filed and from which analysis it came.
* `NetworkMode`: callers in `HandleRequest` and one operator. Each access to unlocked shared
  state is a step; `Torn` is a mode string that is read while it is stored.
  Each exchange of the rules' sort is a step of its own, so a decision may see half-sorted
  rules (it reads all of them at once). `MatchingRules`, the default rules and the routing are
  operators over packets.
* `ArtifactInjection`, `HTTPSimulation`, and `ServiceSimulation`, which composes them: the
  sample runs once the injection is over, and only then sends requests.
* `LastPyMile`: one analysis after the other over a chosen history: clone, hashing of the
  files each commit changed, releases from the cache or the registry, verdicts, removal of
  the temporary folder; every call may raise. A hash is the content itself.
* `BanditScan`: a scan file by file and test by test, with `nosec`, filters, files that raise,
  exit codes, and `bandit-baseline`, which scans the parent and the branch.
* `URLFinder`: the votes of five sources, the comparison of repositories by a request, the
  fallback to OSSGadget's answer when no source proposes one, and the score.
* `SandboxScript`: the phases of the four scripts and, for Python, the call of every
  function and the exploration of what is returned, with the alarm.
* `ToolRequests`: threads of several web processes on the pages of the tools, with the
  shared folders, the archive's name in a global, and failures at each step.
* `PackageLists`: readers in several processes, the list files they fetch and write in
  place, and what each process has memoised.
* `Analyzers` puts these six side by side: they share no state, so in a behaviour one of
  them is at work and the others stand still.
* `MC...` modules give small instances to TLC; the modules that end in `Proofs` hold the
  theorems.

Branches of the code that cannot be taken, which the models show. Reusing the report
of another task always violates the UNIQUE constraint on `AnalysisTask.report`: in
`CeleryTasks`, `CheckReuse` raises and `ToDispatch` publishes nothing for such a row, so
that `_update_queue_positions` of `tasks.py` is unreachable; in `WebQueue` the poll fails.
`container_id` is never set, so no timeout handler stops a container. The HTML view
`dynamic_analysis` creates a row without an API key, which the NOT NULL column refuses.

### Abstractions

Everywhere: columns and fields nothing reads back, texts, durations and log wording are
left out; identities are model values.

* Celery: `queued_at` is the number of the row in the order of queueing. The filter
  "created in the last 24 hours" is taken to match; the lookup of the last minute is
  merged with it. Messages wait in a bag, as priorities and countdowns allow any order.
  `apply_async` publishes or raises without publishing. One `check_timeouts` at a time; it
  cannot find a row whose worker is inside the hard time limit, as both are 30 minutes. A
  row deleted by the cleanup is seven days old, so nothing is in the middle of using it.
  Soft limits are not raised inside the first transaction and in the exception handler.
* WebQueue: rows are queued by `add_task_to_queue`, the QueueManager's interface, which nothing
  calls at this commit (`views.py:26` has the import commented out). `analyze_api`, whose rows the thread serves
  today, numbers them by the count of queued rows plus one and does not start the
  thread. The Celery workers are down (the other way round, "one worker" in
  `CeleryTasks` assumes that no QueueManager serves the table beside it). Containers
  end; a container that hangs is not modelled.
* ApiAccess: one key, its limit a constant, one process: the count is in `LocMemCache`,
  so several processes each have their own. Pages are asked for from 1.
* FeedPipeline: Pub/Sub is external: at-least-once delivery, leases, no effect of an
  ack on a lapsed lease. gocloud's prefetching, Kafka's missing nack and
  messages with a `package_path` are left out; `config.go` is a set of constants.
* AnalysisRun: podman, buckets and registries succeed or fail. Parsing strace
  output is reduced to success or failure. The commands
  of `InitNetwork` come before the first package and may fail: `cmd/analyze` repeats them
  for each analysis after the package is resolved, and leaves them out with `-offline`
  (`main.go:136`, `165`).
* NetworkMode: the loop over the rules is one step on the list it read; log files can be
  opened; forwarding, a placeholder in the code, returns the placeholder's response. Whether a
  payload is extracted depends on the protocol of the request, in the code on the one of the
  connection's first packet if it was recognised (`transparent.go:344`). `Close` is called once
  (a second call panics at `controller.go:500`).
* ServiceSimulation: the id of a request is an injective hash of its fields; `MaxFaults`
  bounds the failures of both parts together; the read only endpoints have no action. A
  failed save leaves no empty file in the sandbox directory, where `open` may have made one
  (`safe_executable_handler.py:351`). The `mkdir` at `manager.py:99`, outside the `try`, finds the
  folder: the Dockerfile declares `/artifacts` a volume. With `days_of_history` 0 the
  history's extension fails on a division by zero, which is modelled (`AgeRaises`).
* LastPyMile: renames are not followed (git's rename detection is off); a kill in the
  middle of a download, which does leave a cut file in the cache, is not modelled.
  BanditScan: a node has one test's finding, so several tests of one node are several nodes
  on its line; the filter by confidence (`issue.py:70`), which works like the one by
  severity, is left out. URLFinder: a page is the links on it; the PyPI URL is there when the
  score is computed (`url_finder.py:835`, `862`, `884`), and a failed request for the homepage proposes
  nothing, where the code goes on to the code page (`266`-`274`); no property is about either.
  SandboxScript: an alarm that is due while the arguments of a callable are bound counts as
  the time-out of that call, which ends in the same way.

## Runs

| Run | Instance | Shows |
|---|---|---|
| `one_worker` | 2 requests, 2 packages, 1 worker, 1 fault | one running task (`OneRunning`), own reports (`OwnReport`), no queued task forgotten (`QueuedIsDriven`), no completed task runs again (`NoRerun`), `ImplementsLifecycle`, and `EventuallySettled` |
| `same_purl` | 3 requests, two for one purl and two with one idempotency key, 1 worker, no fault | `NoReanalysis`: no container for a purl that has a result (with faults: proved) |
| `web_queue` | 2 requests for two versions of one name, 2 QueueManager threads (one per Django process), 1 fault, one report large | `QueueImplementsLifecycle`, `OwnReport`, `EventuallyServed` |
| `api_access` | 2 threads, limit 2, 2 ticks an hour, pages of 1, 2 tasks | `LimitKept`, `RevocationHolds`, `PagesComplete`, `EventuallyAdmitted` |
| `feed_pipeline` | 1 entry of any kind, 2 workers, subscription deadlines 1 and 3, grace 2, latency 1, 1 fault | `AckedIsSaved`, `NothingLost`, `LeaseHeld`, `NoLateExtension`, `EventuallyAnalysed` |
| `analysis_run` | 2 packages of 2 ecosystems, 5 configurations, 2 runs, 2 faults | `OwnResults`, `PhasesInOrder`, `NoLeftovers`, `ArchiveSaved`, `EventuallyAnswered` |
| `network_mode` | 2 callers, 3 packets, 2 added rules, 2 configurations, 2 requests, 2 operations | `Isolated`, `DecisionObeyed`, `Healthy`, `Accounted` |
| `service_simulation` | 3 events, 2 sites, 2 identities, 3 files one of which is under the home of the identity, 2 calls of 6 shapes, 1 fault | `HistoryWhole`, `ArtifactsWhole`, `ServedIsTraced`, `SampleServed` |
| `analyzers` | 3 commits of 2 files; 3 files to scan, one of which may gain or lose an occurrence of an issue; 3 threads in 2 processes with 3 requests; 2 readers with 3 lookups | `PhantomsAreReal`, `BanditAccounts`, `BaselineReportsNew`, `URLPlurality`, `ExploredOnce`, `AlarmIsCleared`, `OwnBanditReport`, `ListsWhole` |

Type invariants are proved where a module has theorems.

Bounds. Two tasks are what a conflict needs: one that runs and one that waits, or two
messages of one task. Two threads, workers or callers are what a race needs. One fault
strikes at every step; `analysis_run` has two because a failure during the cleanup of
another one is where leftovers would come from, and two runs because a leftover needs a
next package. In `feed_pipeline` one entry is enough for loss, duplication and two
holders, since messages do not affect each other except through a worker, and a
deadline of 3 lets the ticker fire and an extension take its full latency; deadline 1 is
below the grace period and is refused. In `web_queue` both versions share a result file
and one report is large, so that an orphan's late write and the expiry in Redis can
interfere. In `analyzers` three commits let a file change and change back; two threads of
one process and one of another are what the shared name and the shared folders need; the
threads of one process and the contents are symmetric (the run has no liveness
property). `api_access` needs a limit above 1 so that a check can pass beside another.
Faults (`MaxFaults`) bound crashes, lost processes and time limits; failing
analyses and failing publishes are bounded only by the code (`MaxRetries`) where it
bounds them. `CHECK_DEADLOCK FALSE` stands where the modelled work is finite and really
ends.

Qualifications in the properties, each of which the code needs:

* "unless crowded" (`web_queue`): nothing prevents two QueueManager threads, and with
  two of them two rows run and reports are mixed up. `EventuallyServed` holds for two.
* "without a fault" (`OwnReport` of `web_queue`): an orphaned container writes the
  result file of the other version late.
* "unless overlap" (`LimitKept`): `get` and `set` of the count are separate, so checks that
  overlap admit more than the limit. In the other direction the limit is stricter
  than documented, since every admitted request renews the hour.
* "no deletion" (`PagesComplete`), "unless an extension failed" (`LeaseHeld`), "unless Clean
  failed" (`NoLeftovers`), "unless SwitchMode ran during the request" (`DecisionObeyed`).
* `BaselineReportsNew` claims exit code 1 for an issue its file did not have before and 0 when
  every file has each issue as often as before. It claims nothing when a file has a known
  issue more often or less often than before: there documentation and code disagree (below).
* `ArtifactsWhole` is about the files the sample's identity uses. The home of an identity
  that an earlier start chose stays in the volume; the property says only that it holds
  what a start wrote for that identity, perhaps torn.
* `ListsWhole` is about JSON lists; a CSV list that was cut short is accepted.
  `OwnBanditReport` stops where two scans of one process overlap, `AlarmIsCleared` allows the
  alarm that an exception leaves behind, and `EventuallyAnswered` names the panic and the hang
  of the packet capture. `URLPlurality` assumes that every request is answered.

Fairness, and why the code justifies it. Celery: workers and the web server go on
when they can, beat runs `check_timeouts` every minute, `timeout_minutes` pass; requests
need not arrive and no fault has to happen. `EventuallySettled` is about tasks
whose request was answered: one that dies between queueing and publishing leaves a row
nothing is obliged to serve. WebQueue: threads run, a process that ended is restarted,
rows time out. Feed: goroutines and processes run, calls return, every analysis ends
(weak); strong for `StopSignal`, as Go's `select` does not always prefer the ticker,
and for `Receive`, as Pub/Sub does not withhold one message for ever. Analysis: the process
goes on, every command ends. ApiAccess: time passes, nothing else. Simulation: the
injection, the start and the handlers go on. `network_mode` states no liveness.

Each property is also run against a variant of one definition that a plausible
mistake in the code would produce (`OtherPending`, `CheckRetryLost`, `TouchKeyWhole`,
`page_items_from_zero`, ...), listed in `PROJECT.json`, and must fail there.

### Where documentation and code disagree

Three runs end in a counterexample; `PROJECT.json` quotes the sentence each contradicts.

* `doc_one_running`: with two workers, as the Kubernetes manifests allow, two tasks run.
* `doc_failsafe`: a request that meets transparent mode before its handler exists is
  logged as falling back to Full Mode and is passed through nevertheless.
* `doc_queue_blocked`: a queued row whose purl already has a completed row makes every
  poll of the QueueManager fail, so that everything behind it waits for ever.

Met while modelling, without a run of their own:

* With two Celery workers a task can get the report of another package and a completed
  row can go back to running. A container survives its worker and runs beside the next.
  A retry that hits the process cache completes a task without a report.
* `DA/internal/worker/save_data.go:151` uses a store that is nil when none is configured; the
  model ends in "panic", which `EventuallyAnswered` names.
  `DA/internal/resultstore/resultstore.go:236` says `<version>.json` where line 241
  uses the package's name, so that versions of a package overwrite each other. `packetcapture.Close` blocks when
  the capture ended by itself.
* `PA/views.py:25` says "QueueManager removed - using Celery instead"; `PA/apps.py:20` starts its thread
  in every Django process all the same, so both dispatchers serve one table.
* `views.task_status` reads `duration_seconds`, `worker_id` and `result`, which `AnalysisTask`
  lacks. `list_tasks_api` with page 0 makes a negative slice.
* `DA/internal/networkmode/controller.go:141-144` says that a recovered panic "falls back to Full Mode"; the request
  gets an empty answer instead. `DecisionObeyed` permits it.
* Simulation: an identity chosen by an earlier start leaves its home directory in the volume,
  beside that of the identity in use. `server.py:180` evaluates JSON booleans and answers 500 for `/logs/executables`;
  `http_extension.py:168` looks for `referrer` where the emitted event has `referrer_url`; Test 6 of
  `test_http_simulation.py` expects a honeypot where the strategy is `sandbox_fake`.
* LastPyMile: a second `if` at `maliciouscodepackageanalyzer.py:483` sets the status of a
  "critic" or "danger" phantom back; the npm version is always the one of `dist-tags.latest`.
* bandit4mal: `filter_results` and `_find_candidate_matches` (`manager.py:99-106`, `386-392`) and
  `tests/functional/test_baseline.py:31-38` say that a file is shown again when its number of results
  changed. The code tests `a not in baseline`, so that one more occurrence of a known issue
  exits with 0; `MCTrees` has such a file (`Twice`) and `BaselineReportsNew` leaves the case
  open. An empty or broken report of the parent makes every issue new; when
  bandit is missing the branch stays at the parent; `convert_legacy_blacklist_tests` is
  called with its arguments swapped; a skipped stdin ends in a crash.
* Sandbox script: phase "all" hands the description of the package to `execute_module`, so
  nothing of the package is executed; one module that fails to import ends the execute phase; a callable
  that catches `TimeoutError` can hang for ever.
* Tool pages: two scans of one process can mix their reports, and what a failed scan leaves
  can end up in a later one; `run_lastpymile` never gets past its import; the
  file of `oss-find-source` lacks the ecosystem; `submit_sample` returns the id of the latest
  report; a failed upload leaves its file.
* Package lists: `lru_cache` keeps a failure; a list cut short in CSV is accepted; the list of
  crates is always empty because `mkdtemp` has already made the folder.

Hazards beyond the list in `PROJECT.json`, which the models contain but which are minor or
a variant of a listed one: the refused reuse of a report in `tasks.py:77`; a report
refused after the analysis (`queue_manager.py:275`); empty static output, which is
acknowledged with a warning; `Init` of a sandbox whose copy failed, which returns nil the second
time; the cached decision, whose key omits method and size and which outlives `AddRule`; a
jitter below 30 seconds, for which every DNS event is dropped; the endless wait for inetsim.

## Proofs

Checked by TLAPS for every value of the constants.

`CeleryTasksProofs`, from `TableAssumption` and `CeleryAssumption` (finite set of requests):

* `TypeCorrect`: `Spec => []TypeOK`. TypeOK is inductive; one lemma per actor (`WebType`,
  `WorkType`, `FaultType`).
* `QueuedTasksAreDriven`: `Spec => []QueuedIsDriven`, for any number of workers. Not
  inductive as it stands: a message is used up when the function returns, so one
  needs that the row has left "queued" by then. `DriveInv` adds `Unpublished` (before its
  request queues it a task has no message, no worker and no place in `check_timeouts`),
  `WrittenNotQueued` (a worker that has written the row of its task left it in another
  status) and `LinkedIsCompleted` (what `PublishReport` saves is completed).
  `OnlyEnqueueQueues` carries the argument.
* `OneWorkerOneRunning`, `OneWorkerNoRerun`: with a single worker `Spec => []OneRunning` and
  `Spec => NoRerun`. `SlotInv` adds `SlotHeld`: from the check to the heartbeat the worker's
  task is the only one that may be running, and it is not completed. `OnlyWorkersRun`:
  requests, `check_timeouts` and the cleanup never write "running" or "completed".
  `SingleWorker` is needed: see `doc_one_running`.
* `OneTaskForEachKey`: `Spec => []OneTaskPerKey`, for any number of workers. The invariant
  (`KeyInv`) adds `RowsKept`: the row of a task is there as long as its request, a worker or
  `check_timeouts` is going to save it, so that only the insert, which checks that the key is
  unique, brings a row into the table.
* `OneWorkerOwnReport`, `OneWorkerNoReanalysis`: with a single worker. `OwnInv` adds that at
  `Link` the newest report is that of the worker's task, and that the objects in memory
  that will be saved carry no report of another package; `ReuseInv` that from the claim to
  the analysis no other row of that purl has a result, as only the worker links one.
* `OneWorkerImplementsLifecycle`: `Spec => ImplementsLifecycle`, the refinement of
  `TaskLifecycle` under `status`. `LifeInv` joins the invariants above with `NotCreated` (a row
  is created once) and `PendingUntouched` (a pending row has no message, no worker and no
  place in `check_timeouts`).

`FeedPipelineProofs`, from `FeedAssumption` (finite set of workers, any entries):

* `FeedTypeCorrect` and `StopIsWaitedFor`: `[]TypeOK`, `[]NoLateExtension`. `TypeInv` joins the
  two with `ClockRuns` (a ticker that runs has a positive frequency) and `LeaseIsOfMessage`
  (a worker with a lease is handling a message), without which neither is inductive.
* `AcknowledgedIsSaved`: `[]AckedIsSaved`. `SavedInv` says for each position of a worker what
  is stored by then (`Stored`); the store never shrinks, so another worker's copy of the
  message cannot undo it.
* `NoEntryIsLost`: `[]NothingLost`. `SentInv` says that what the proxy has acknowledged at the
  feed, or is about to, has reached the worker topic (`InTopic`): that acknowledgement
  never removes the last place an entry is in.
* `LeaseIsHeld`: `[]LeaseHeld`, under `ExtensionInTime`: the latency is below the grace
  period, and no subscription's deadline is above Pub/Sub's maximum. `LeaseInv` relates what is left
  of the lease to what is left of the ticker, and to the latency used up by an extension
  under way (`LeaseLeft`). `feed_pipeline` checks it with the largest
  latency below the grace period.

`WebQueueProofs`, from `TableAssumption` and `WebQueueAssumption`: one lemma per action says what the
step does to the thread and to the row (`...Effect`), and `QueueInv` is kept by each of them.

* `QueueTypeCorrect` (`TypeOK`) with `InHand`: a thread that works on a task has one, and what it
  reads of the reports is there.
* `QueuedIsNotShownAsRunning`: `[]PositionsShown`, for any number of threads at once. `Numbered`: the rows a
  thread will save have positions too; `CopyKept`: the copies that are saved are never queued.
* `LinkedReportIsOwn` (`OwnReport`). `OneReport` and `SameName` hold for any number of threads. The rest
  is "unless crowded": at most one thread is up (`OneUp`), the newest report is that of the
  thread about to link it (`Linked`), and without a fault no orphan exists and the file read is
  the one just written (`Faultless`).
* `ThreadImplementsLifecycle` (`QueueImplementsLifecycle`), the refinement of `TaskLifecycle`. `Alone`: the
  rows a lone thread has read are still as it read them, and its task is as it left it
  (`Undisturbed`), since a request only touches rows that are absent or pending. So the copy
  it saves, although old, moves the row on.

`AnalysisRunProofs`, from the assumptions of `AnalysisRun`: `RunTypeCorrect`, `ResultsAreOwn`
(`OwnResults`), `PhasesAreInOrder`, `NothingIsLeftOver` (`NoLeftovers`) and `ArchiveIsSaved`, all from
one inductive invariant, `RunInv`: it says which steps belong to which analysis (`Placed`), where a
container and a capture may exist (`Contained`, `Captured`), whose output the results file and
the data read from it are (`OwnFile`), how many phases have a status at each step (`Phased`)
and what `pkgSaved` stands for (`Archived`). None of the properties is inductive alone, because
a failing step jumps to the deferred cleanup from anywhere.

`NetworkModeProofs`, for any callers, packets and rules, from `BoundsAssumption`, `ConfigsAssumption`,
`PacketsAssumption` (sizes are naturals) and `RulesAssumption` (priorities are integers):

* `FullModeIsolates` (`Isolated`), `DecisionsAreObeyed` (`DecisionObeyed`) and `SwitchIsComplete`
  (`ComponentsReady`, a conjunct of `Healthy`). `ModeInv` relates what each caller has read to the
  modes that were in effect since its request began (`ModesSeen`, `Undisturbed`) and the steps of a
  switch to the components it has built (`ModeStored`, `ModeReady`).
* `IdleIsHealthy` (`Healthy`) by `RulesInv`. While the operator sorts, `SortedTo` its two indices: of every
  pair of places the exchange sort is past, the first holds the higher priority; when the
  sort ends that is all pairs, so an idle controller has its rules in order.
* `RequestsAreAccounted` (`Accounted`) by `AccountInv`: every request under way was
  intercepted (`RequestsKnown`), the counters and the logs account for all requests but those under
  way (`StatsKept`), rules, cache and requests hold only decisions that are counted (`DecisionsCountable`),
  and the table's bytes are those the handler has counted plus those of the packets being observed
  (`TableKept`; sums are compared as the cardinalities of sets of numbered bytes). The hypothesis `EveryActionCounted` is needed: a
  `modify` rule or default without a modifier, and an unknown default action, are counted
  nowhere (`controller.go` 338-348).

`ApiAccessProofs`, from `ApiAssumption`:

* `AccessTypeCorrect`, `HourlyLimitIsKept` (`LimitKept`). `GateInv`: the entry in the cache
  outlives every admission by an hour (`WindowKept`); unless two checks overlapped one is under
  way at a time and has read all that was counted (`OneCheck`), so that every admission beyond the
  count is an hour old (`CountCovers`).
* `RevocationIsKept` (`RevocationHolds`).
* `PagingIsComplete` (`PagesComplete`). The rank of a row is the number of newer ones. `UnseenAhead`:
  what the client has not seen has a rank on a page to come; new rows only raise ranks. That
  an empty page is the end needs `NoGap`: every rank below that of a row is the rank of some
  row, by the least element of a set of numbers (well-founded order, no induction).

`ServiceSimulationProofs`, from `HTTPAssumption` and `ArtifactAssumption`. Every step is one of the injection
or one of the server (`BothStep`), so the two halves have an invariant each:

* `ServedIsAlwaysTraced` (`ServedIsTraced`) by `TraceInv`: what a thread has logged and saved by its step
  (`Located`), that every file has the id of a request that was traced before (`Owned`), and that what a
  thread with an id of its own has written stays (`Kept`): only a thread with the same id writes there.
* `ArtifactsAreWhole` (`ArtifactsWhole`) by `WholeInv`: what the extensions have captured is what the
  events up to here contain (`EventsCaptured`), and what the volume holds of each extension that is past and
  did not fail (`DnsKept`, `ZonesKept`, `HostKept`). What an earlier start left of the other files needs no
  invariant, as each extension writes all of its files again; the homes have one path for each
  identity and are not written again by another one, so `HostKept` also says of every home what may
  be in it (`LeftOver`, `HomesBut`): nothing, a torn file, or what a start wrote for that identity.
  `ArtifactAssumption` says that events and files are sequences and that no cache and no identity
  equals `None`.
* `HistoryIsWhole` (`HistoryWhole`) by `HistoryInv` beside `WholeInv`: what the browser extension has captured
  is counted against the events (`HttpCaptured`), and the database is absent, empty or `WholeDb`. What
  `_write_entries` computes is proved by the least row that would be wrong (`WriteEntriesLoop`,
  `RowsAfter`, `EntriesWritten`); visits are in order because Chrome's clock is monotone in ours
  (`ChromeTimes`). `ArtifactAssumption` also says that times are natural numbers, that the offset of
  Chrome's epoch is an integer and that no database equals `None`.
* `SimulationTypeCorrect` (`TypeOK`) adds `Counted`: microseconds and log entries come from requests that were
  received; this is what a finite set of requests is needed for.

`AnalyzersProofs`, about the six modules, each on its own specification:

* `JsonListsAreWhole` (`ListsWhole`) by `ListInv`: a short list in a file, in a memo or at hand has
  a reason, a CSV file or a registry in `shortened`.
* `BanditReportsAreOwn` (`OwnBanditReport`) by `ScanInv`: until two scans of a process overlap, the
  names a scan reads from the shared object are those of its own archive (`OwnNames`), folders and
  reports hold nothing of another one (`OwnFiles`), and what a scan has just put there stays
  unless another process scans the same package (`FilesKept`).
* `VerdictsAreRight` (`PhantomsAreReal`) and `AnalysisEndsClean` by `LpmInv`. That hashing only changed
  files is enough is `ChangesCoverHistory`: the first commit in which a file has a
  content changed it.
* `ExplorationIsBounded` (`ExploredOnce`) and `AlarmsAreCleared` (`AlarmIsCleared`) by `ScriptInv`: a
  type has been explored only if it is marked (`SeenIsExplored`), and a call is within a module.
* `ReportAccountsForFiles` (`BanditAccounts`) and `BaselineShowsTheNew` (`BaselineReportsNew`) by `BanditInv`: the files
  are divided into those to come, scanned and skipped (`FilesDivided`), the results are those that the
  tests give so far (`ResultsExpected`, `FoundExpected`), `nosec` lines are behind the visitor
  (`NosecBehind`), and reports that were written are right (`ReportsRight`). The nodes of a file are
  assumed to be a syntax tree in pre-order (`AstNode`, `PreOrder`), the order the visitor meets them in.
* `PluralityWins` (`URLPlurality`) by `URLInv`: which proposals there are at each step as long as no request
  failed. `MostVotedScan` and `VoteFindsFirst` prove what the loop over the votes computes: the first of
  the most voted. `PackagesAssumption` types the registry's answers.

Where a definition is a recursive function (the votes, the rows of the browser's history), the
proof first shows that the finite function exists and then argues by the least element of the set of
places where it would be wrong, as the library's induction theorems cannot be instantiated.

Only model checked: the liveness properties `EventuallyAdmitted`, `EventuallyAnalysed`, `EventuallyAnswered`,
`EventuallyServed`, `EventuallySettled` and `SampleServed`, as liveness under fairness and ENABLED are out of
the prover's reach. Every other property of a passing run is stated by a theorem.

## Not modelled

Report generator, static analysis, parsers and feature extraction (pure functions
over file contents, no state survives a call); the BigQuery loader (one call to a
service); the registries' protocols in the package managers; the container manager, which
the code reaches only with a container id it never has; bandit's plugins and formatters;
three heuristics of py2src that nothing calls; the yara report; the demo application; the
malware lab (configuration of other programs); HTML views and everything generated.

## Plan

A composition of the Celery workers with a QueueManager beside them.

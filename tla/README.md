# GNOME Builder: a TLA+ verification project

GNOME Builder is an IDE. Its own core is the library `src/libide`: a tree of
asynchronous objects on one GLib main loop, with worker threads behind
`IdeTask`, subprocesses behind `IdeSubprocess`, and a build pipeline that most
of the other parts feed or wait for. The project models the parts of that core
where order, cancellation and re-entrancy decide whether the program is right.

Paths below are relative to the root of the repository.

## Inventory

| Component | State it keeps | Operations | What makes it hard, and what makes it right |
|---|---|---|---|
| `IdeTask` (`src/libide/threading/ide-task.c`) | result, thread result, chained tasks, completion source, cancellation flags, references | return, run in thread, chain, cancel, propagate, dispose | a worker thread, the cancellable and the main loop race to give the one result; every task is answered once, off the worker thread, and so are the tasks chained to it |
| `IdeTaskCache` (`src/libide/io/ide-task-cache.c`) | cached items, eviction heap, queued gets, fetches in flight | get, evict, expire, cancel | callbacks re-enter the cache; cancellation is handled in an idle and races the answer; no waiter is lost or answered twice, a key has one fetch |
| `IdeHeap` (`src/libide/io/ide-heap.c`) | an array in heap order | insert, extract, extract at an index | sifting up or down from the middle of the array |
| `IdePipeline` (`src/libide/foundry/ide-pipeline.c`) | entries (stages by phase), a queue of tasks, position, requested mask, busy, failed | build, clean, rebuild, attach, detach, invalidate, cancel, load | the queue is flushed from idles; the walk of one task may answer others; stages come and go in a build; one execution at a time, in order, none forgotten |
| `IdePipelineStage` (`src/libide/foundry/ide-pipeline-stage.c`) | completed, disabled, transient, a queued build, a pause count | build, clean, pause, unpause, chain | a build that was started may be held back by pauses while the rest of the world goes on |
| `IdeBuildManager` (`src/libide/foundry/ide-build-manager.c`) | the current pipeline, its cancellable, can-build, building, a timer | invalidate, build, rebuild, clean, cancel | the pipeline is replaced while callbacks of the old one, and builds on it, are under way; nobody is told that a build succeeded by a pipeline that is gone |
| `IdeRunManager`, `IdeRunContext` (`src/libide/foundry`) | a count of runs, the running process, the cancellable of a run, the chosen command, layers of environment | run, cancel, restart | a chain of asynchronous steps that may be cancelled, or lose its pipeline, between any two; one application at a time |
| `IdeConfigManager`, `IdeDeviceManager`, `IdeRuntimeManager`, `IdeToolchainManager`, `IdeTestManager` | lists of what providers give, a current one, delayed saves | add, remove, save, prepare | selections that outlive what they select |
| `IdeSubprocessSupervisor` (`src/libide/threading/ide-subprocess-supervisor.c`) | the process, a respawn timeout, the time of the last spawn | start, stop, respawn | a process that exits while it is being started or stopped, waits that are dispatched late; no process that nobody watches, no tight loop of respawns |
| Clang client (`src/plugins/clang/ide-clang-client.c`) | state, connection, calls that wait, drafts sent | call, save, destroy; handlers of "spawned" and "exited" | the server crashes and its successor knows of no draft; every call is answered, from contents that are fresh |
| `IdeObject`, `IdeContext` (`src/libide/core`) | parent, children, cancellable, a destroy count | append, remove, destroy | destruction races with threads that hold a reference |
| `IdeTransferManager`, `IdeNotifications` (`src/libide/core`) | lists with progress | execute, cancel, withdraw | little: presentation state |
| `IdeDiagnosticsManager` (`src/libide/code`), `IdeExtensionSetAdapter` (`src/libide/plugins`) | diagnostics by file and provider, a counter of those asked, a request and a timeout; the providers of each file | file opened, changed, closed; provider added, removed, invalidated; answers | files change and providers are unloaded while they are asked; what an idle file shows is about the file as it is, and no request is forgotten |
| `IdeBufferManager`, `IdeBuffer`, `IdeUnsavedFiles` (`src/libide/code`) | buffers, loads under way, drafts | load, save, reload | loads of one file share a task through `ide_task_chain` |
| LSP client (`src/libide/lsp`) | capabilities, files open, queued messages | initialize, call, notify | messages before the server is initialized |
| Debugger (`src/libide/debugger`) | breakpoints, threads, running | run, stop, sync breakpoints | two lists kept in step over a slow channel |
| Workbench, editor, greeter, GTK helpers | widgets | actions | user interface |
| Plugins (`src/plugins`) | adapters to tools | providers and stages | each behind an interface of the library |

The components talk in four ways: direct calls on the main loop; `GTask` or
`IdeTask` callbacks, which run from the main loop or, for `GTask`, sometimes in
the middle of the call that returns the task; signals and property bindings,
which run at once; and idle sources. The main loop is the only place where the
state of `IdePipeline` and `IdeTaskCache` changes, so what has to be interleaved
there are sources and re-entrant calls. `IdeTask` is the one component of the
modelled ones where threads meet, under a mutex; in `IdeSubprocessSupervisor` and the
clang client the other party is a process that dies when it likes, in
`IdeDiagnosticsManager` it is plugins that come, go and answer late.

## Modules

| Module | What it is |
|---|---|
| `TaskCache`, `MCTaskCache`, `TaskCacheProofs` | `IdeTaskCache`, its instances, its theorems |
| `Pipeline`, `MCPipeline`, `PipelineProofs` | `IdePipeline` with the part of `IdePipelineStage` it drives |
| `RequestQueue` | what the queue of a pipeline promises to those who make requests |
| `PipelineRefinement` | the proof that `Pipeline` implements `RequestQueue` |
| `Lines` | the filter of queues and of the array of stages, shared by both |
| `Task`, `MCTask`, `TaskProofs` | `IdeTask`, its instances, its theorems |
| `Promise` | what a task promises to the operation that waits for it, which `Task` implements |
| `Supervisor` | `IdeSubprocessSupervisor` |
| `ClangClient`, `MCClangClient` | the clang client over `Supervisor`: its handlers run inside the steps of the supervisor |
| `SupervisorProofs` | theorems of `Supervisor`, alone and under the client |
| `BuildManager`, `MCBuildManager` | `IdeBuildManager` over several pipelines, each reduced to its queue |
| `RunManager`, `MCRunManager` | `IdeRunManager` over `BuildManager`: every run installs through it |
| `ManagerProofs` | theorems of `BuildManager` and of `RunManager` over it |
| `Diagnostics`, `MCDiagnostics`, `DiagnosticsProofs` | `IdeDiagnosticsManager` with the adapters that make and drop its providers, its instances, its theorems |
| `SharedLemmas` | what `Lines!Keep` keeps, and facts about natural numbers, for all the proofs |

`ClangClient` extends `Supervisor` and `RunManager` extends `BuildManager`: an
operation of the upper component that calls the lower one is one step with the
lower operation as a conjunct, and a step of the lower one that emits a signal has
the handler as a conjunct. `Pipeline` and `BuildManager` meet in `RequestQueue`: a
pipeline with all its stages implements it, and so does each of the pipelines the
manager has, which are modelled without stages. What the manager assumes of a
pipeline is thus stated once and shown of both: it is no more than what
`IdePipeline` does (`PipelineServes`), and the steps that handle a request in
`BuildManager` are steps of that queue (`QueuesServe`).

In a module, a definition that begins with a comment "Mutant:" is a wrong
variant of the definition that follows it. No specification uses it; it stands
for a plausible bug that the named property has been seen to catch.

### TaskCache

| Model | Code |
|---|---|
| `cache`, `evictHeap` | the tables and the heap of `CacheItem`; an item is named by the fetch that made it |
| `queued`, `hasQueue` | the table `queued` of arrays of waiting tasks, and which arrays exist |
| `inFlight`, `fetches` | the table `in_flight`, and every fetch with its own cancellable |
| `handler` | the handler that is on the stack: `g_task_return_*` may run the callback of a waiter at once, which calls the cache again |
| `idles` | sources of `ide_task_cache_cancel_in_idle` |
| `GetCached`, `GetQueued` | the two outcomes of `ide_task_cache_get_async` |
| `FetchDone`, `Deliver` | `ide_task_cache_fetch_cb` up to the first waiter, and one more waiter |
| `Cancel`, `CancelWaiter`, `CancelUnqueue`, `CancelMissed` | the cancelled handler, and its idle in the pieces between which the program can step in |
| `Evict`, `EvictAll`, `EvictExpired` | eviction by the program and by the timer |

The populate callback and the dispatch of `GTask` are outside the file
(`PopulateReturn`, `Return`, `Finish`).

### Pipeline

Everything runs on one main loop. A request is popped by a flush of the queue,
an idle source of low priority; all that are ready are dispatched in one
iteration (`batch`), while the completion of a task that a flush starts comes in
a later one. A phase bit is its rank, and `requested_mask`, always a union of
masks `phase | (phase - 1)`, is the largest phase in it.

| Model | Code |
|---|---|
| `pipeline`, `completed`, `disabled`, `pauses` | the entries and the fields of their stages |
| `bindings`, `unbinds` | property bindings of `completed` between chained stages, and the order in which they are released |
| `tasks[t].step` | where the execution of a request stands: queued, paused by a query, building, passed over, cleaning, reaping, returned and not yet dispatched, done |
| `position`, `requested`, `busy`, `failed`, `inClean` | the fields of the same names |
| `Flush...` | the paths of `ide_pipeline_do_flush` |
| `StageBuilt`, `StageCleaned`, `Reaped` | the callbacks, each with the walk (`TickBuild`, `TickClean`, `TickRebuild`) it goes on with |
| `Complete` | `ide_pipeline_task_notify_completed` |
| `BuildAsync`, `CleanAsync`, `RebuildAsync`, `Cancel`, `RequestPhase`, `Attach`, `Detach`, `InvalidatePhase`, `SetDisabled`, `Unpause` | the operations |

`RequestQueue` is what is left of this for those who make requests. A request
waits, runs, has returned and is answered; whoever is served may meet others, which
are answered before their turn. A stage that fails sets `failed`, and while it is set
a build up to CONFIGURE is refused without the pipeline becoming busy
(`ide-pipeline.c:2438`). As the end of a refused build ends the busy period of the
one that runs, two may run at a time, and one whose
stage finishes well after the other has failed goes on no more and gets no answer
(`1942`): its place is "lost". The
phase of a build is reduced to whether it is refused (`configures`).

Two histories serve the properties: `outdated` has the stages not started since
they were last incomplete; `quiet` says nobody has changed the stages since a
task was started.

### Task

Every access to a task holds its mutex, so a function that locks once is an
action and `ide_task_return_cb`, which calls the callback without it, is two
(`ReturnCb`, `ReturnCbEnd`). In between the main thread takes any sequence of its
actions: what a callback does is left to the client. `stack` has the callbacks
the main thread is in and the synchronous propagates, which iterate the main
context and so dispatch other completions, and other sources of the client, inside
them.

| Model | Code |
|---|---|
| `task[t].sources`, `returnSource` | sources of `ide_task_return_cb`, and `return_source` being set |
| `worker`, `threadResult` | the thread function, and the result stashed until it ends |
| `cancelHandler`, `cancelSource` | the handler of the cancellable, and the idle it attaches |
| `chained`, `Orphans`, `Dispose` | tasks that wait for this one, and the error they get when it is released |
| `held`, `Referenced`, `Doomed` | who has a reference; a task nobody refers to is disposed of before anything else happens |
| `asserts`, `aborted` | a build with or without `g_assert` (`meson.build:266`), and a failed one |

Source priorities are fields of each task, so sources of different tasks are
dispatched in any order; this includes the default, where a cancellation goes
before a completion. Sources that complete the same task keep their order.
`StartInMain`, `RunInThread` and `Chain` create the task, optionally set it to
return on cancel, and start it in one step, as the operations in the library
do. A client chains only as the documentation of `ide_task_chain` allows.

`Promise` is what is left of this for a client: a promise is made or follows
another one, is settled by the first result, called once with it, and settles those
that follow it when its callback has returned. `Place` and `Value` read both from
a task. Sources, workers, nested waits, references and second results do not
appear in it.

### Supervisor and ClangClient

| Model | Code |
|---|---|
| `supervising`, `current`, `timer` | `supervising`, `subprocess` and `restart_timeout` of the supervisor; a timer of n + 1 is due in n |
| `age` | the time since `last_spawn_time`, counted up to the threshold |
| `process` | a process: running, killed, exited with its wait not dispatched, reaped |
| `Start`, `Stop`, `Reap`, `Fire` | `ide_subprocess_supervisor_start`, `stop`, `wait_cb` and the timeout |
| `state`, `peer`, `pending`, `sentSeq` | `state`, `rpc_client`, the tasks in the queue `get_client`, `seq_by_file` |
| `given`, `wire` | tasks of `get_client` that have returned and are to be dispatched; calls that are on their way to a server |
| `edited`, `disk`, `draft` | the contents of a file in `IdeUnsavedFiles`, on disk, and what each server holds |
| `Ask`, `Save`, `Destroy`, `Dispatch` | a query with the drafts that go before it, `buffer_saved`, `destroy`, `call_get_client_cb` |
| `Exited`, `Respawn` | `wait_cb` and the timeout, with the handlers of "exited" and "spawned" |

The server is external: it reads what it is sent in order, may die at any time
(`Crash`), and its connection is closed with it (`HangUp`). The order in which the
death of a process and the close of its connection are seen is free.

### BuildManager

| Model | Code |
|---|---|
| `pipeline`, `made` | `self->pipeline`; the pipelines are numbered, and the signal group stays with the last one made |
| `setup`, `strategy` | how far the setup of each pipeline is (device, runtime, toolchain, initialized, loaded), and the state of its deploy strategy |
| `canBuild`, `building`, `timer` | the fields of these names |
| `cancelled`, `chained` | the cancellables of requests, and those that are chained to the one of the manager |
| `queue`, `busy`, `failed` | of each pipeline |
| `Invalidate`, `Close`, `StartManager`, `CancelBuilds` | `ide_build_manager_invalidate_pipeline`, with and without a context in destruction; the start; the action "cancel" |
| `SetupStep`, `Load`, `StrategyLoaded` | the callbacks that set a pipeline up |
| `BuildAsync`, `CleanAsync`, `Prepared`, `CancelCb`, `Deliver` | a request, its preparation, its cancellation and its answer |
| `Flush`, `FlushFails`, `Met`, `Finish`, `Complete` | what the pipeline does with it, with the handlers of its signals |

`Line(p)` is the `RequestQueue` of pipeline `p`: a request that waits for the
buffers, or is with another pipeline, is idle in it. What the manager does with
cancellables, setup and "building" moves no line. A pipeline that was replaced goes on
with what it has started. `rebuild_async`
does what `clean_async` does with another call of the pipeline, and is not told
apart from it.

### RunManager

| Model | Code |
|---|---|
| `runs[r].step`, `.pipe` | how far a run is, and the pipeline that is its task data |
| `active`, `current`, `sentSignal` | `busy`, `current_subprocess`, `sent_signal` |
| `stoppable`, `stopping` | the runs whose cancellable is chained to the one of the manager, and those a pending timeout is going to cancel |
| `process` | the application of each run |
| `RunAsync`, `InstallCb`, `RunInstallCb`, `DiscoverCb`, `DeployCb`, `WaitCb`, `Ended` | `ide_run_manager_run_async` and the callbacks it goes through |
| `Stop`, `StopTimeout` | `ide_run_manager_cancel` and its timeout |
| `aborted` | an assertion of `discover_run_command_cb` that fails |

The install of a run is a build of the same name, and its cancellable is the one
of that build. "restart" and the profiler (`gbp-sysprof-workbench-addin.c:169`) call
`run_async` whether or not the pipeline can build, and so does `RunAsync`.

### Diagnostics

| Model | Code |
|---|---|
| `open`, `reload` | the groups that have an adapter, and the adapters that have queued a reload |
| `owner` | the data "IDE_DIAGNOSTICS_GROUP" of a provider |
| `needs`, `inDiagnose`, `source` | `needs_diagnose` and `in_diagnose` of each group, `queued_diagnose_source` |
| `shown` | the providers each group has diagnostics of: `diagnostics_by_provider` |
| `query`, `known` | histories: whether the file, its language or the provider has changed since a provider was asked, and who has answered about what there is now |
| `FileOpened`, `FileChanged`, `LanguageChanged`, `FileClosed`, `ProviderInvalidated` | what the buffer manager and the providers call |
| `PluginsChanged`, `Reload`, `PluginUnloaded` | `IdeExtensionSetAdapter`: a reload from an idle, and a plugin that goes at once |
| `BeginDiagnose`, `DiagnoseCb` | the timeout that asks, and an answer |

An adapter makes a new object for each plugin it turns on, so that a provider which
still waits for an answer is not made again. Every file of the model may have
diagnostics of every provider, as when a source file is parsed with its headers.

## Runs

| Run | Instance | What it shows |
|---|---|---|
| `task_cache` | two keys, two gets, two fetches, time to live 1, clock to 3, fair | waiters are not stranded, answered twice or from a fetch they did not join; one caller's cancellation does not reach the others; heap and table stay the same set; expired items leave; every get is answered if the populate callback returns, a cancelled one in any case |
| `pipeline_builds` | two stages, three requests, cancellation, queries, failures | one execution at a time, no request forgotten, TRUE means built; the pipeline serves its requests as `RequestQueue` says |
| `pipeline_changes` | three stages, one chained to another, two requests, fair | stages are built in order and every request is answered while stages are attached, detached, disabled, released and invalidated |
| `pipeline_busy`, `pipeline_lost_invalidation` | two stages | two of the disagreements below |
| `task_results` | two tasks, one with a cancellable, one that keeps its result and whose thread may end silently; both kinds of build; fair | each task is answered once, from the main loop after its thread has ended; a task implements `Promise`; every task with a result, a cancelled one and a chained one is answered |
| `clang_client` | two processes, two queries, one file, two versions, fair | no process runs unwatched, respawns are spaced, queries are answered from fresh contents, every call is answered |
| `build_manager` | two requests, two pipelines, fair | the setup of a replaced pipeline enables nothing; "building" is true of a build; a request is answered with TRUE only by the current pipeline, and is answered even if its own hangs; each pipeline, replaced or not, serves its requests as `RequestQueue` says |
| `run_manager` | two runs, two pipelines, fair | one application at a time; a run that was installed goes on only with the current pipeline; a run that is stopped ends |
| `run_stale_pipeline` | one run, two pipelines | a run without install goes on with a pipeline that is destroyed |
| `diagnostics` | two files, two providers, fair | what an idle file shows is about the file as it is, unloaded providers leave nothing behind, every request is followed by a diagnosis unless a provider was unloaded while it was asked |
| `diagnostics_lost` | one file, one provider, fair | the exception just made |

### Bounds, and why they are enough

* Cache: a get that is forced behind a fetch, or that joins one that was
  cancelled, needs the fetch and the one after it, so two fetches
  (`MaxFetches`); two gets make one that cancels and one that waits with it or
  comes between two steps of a handler. Two keys make an item that is evicted and
  one that stays, and the clock (`MaxTime`) passes the expiry of the second one.
  The safety properties are proved for any number of each.
* Pipeline: what can go wrong between requests needs two that are queued behind
  one that runs. Three phases give a phase before, in and after; one pause per
  stage (`MaxPauses`) suffices for a query that pauses and is unpaused, and
  `Changes` says which kinds of outside change a run has.
* Task: the races are between the sources of one task, and between a task and
  the one chained to it. A chain of three is two such pairs. One wait that the
  client is in (`MaxNested`) dispatches completions, and runs the client, in the middle
  of its operation; waits inside callbacks are left to the proofs, which hold for any
  number. (The run passes with `MaxNested = 2` as well, in twice the time.)
  The choice of roles (main thread, worker, chained) is free for both tasks.
* Clang client: a process that has died while something of it is still to be
  dispatched, and its successor, are the two that can be confused; a third is a copy
  of the first. The client stops its supervisor only for good, so that a killed
  process has no successor here; that case of the supervisor is left to the proof. One
  call that waits and one behind it, and one file with a version before and
  after the save (`MaxVersion`), are what freshness can go wrong with. The
  threshold is one tick: a process is younger than it or not.
* Build and run manager: what is confused is a pipeline and the one that replaces
  it (`MaxPipelines`); a third is made while nothing of the first is left that the
  second does not have. Two requests make one that runs and one that waits.
* Diagnostics: what is confused is a file with one its diagnostics are about, and a
  provider that has answered with one that is asked: two of each. No counter of
  the model needs a bound.

Deadlock is not checked: all the systems stop when every request has been
made and answered. That nobody waits forever is stated as liveness.

### Fairness, and why the code justifies it

* A source of the main loop that stays ready is dispatched (`LoopFairness`,
  `Fairness`): GLib serves all ready sources of a priority, and a finite number
  of requests cannot starve a lower one forever.
* A callback returns (`WF_vars(Unwind)`).
* Nothing is assumed of the populate callback of the cache: `EveryGetAnswered`
  has as a premise that it returns for the gets that are not cancelled, and does
  without for those that are. Nothing is assumed of worker threads:
  `EveryTaskAnswered` speaks of tasks that have a result, are cancelled or wait
  for one that was released.
* The pipeline's stages and the directory reaper finish, and what pauses a stage
  unpauses it: `ide_pipeline_stage_unpause` is the obligation of every handler
  of `query` that pauses. Under the build manager only the current pipeline is
  assumed to finish its builds.
* Timeouts expire and a killed process dies; a server that runs reads what it is
  sent, but nothing says that it lives or that it is not spawned in vain. The
  plugins a run asks for its command and for a deployment answer; applications
  need not exit.
* A provider of diagnostics that is asked answers, if only with an error: each has
  an asynchronous call to finish. Nobody is assumed to edit, open or close files.

## Where the code disagrees with what it says

* `pipeline_busy`: `busy` should be set "if we are within a build"
  (`ide-pipeline.c:299`). One flush refuses a build, the next one of the same iteration
  starts another, and the completion of the refused one clears the bit while
  that one executes. With a fourth request the next flush then starts a second
  build beside the first.
* `pipeline_lost_invalidation`: `ide-pipeline.c:2946` promises that a phase that
  was invalidated is built by the next execution; not if its stage was running.
* `run_stale_pipeline`: `ide-run-manager.c:1056` asserts that the pipeline of a run
  has a context. With install-before-run off, `install_async` returns before the run's
  cancellable is chained to the one of the build manager, so that a pipeline replaced
  during the discovery is destroyed under the run.
* `diagnostics_lost`: the comment at `ide-diagnostics-manager.c:529` leaves a request
  that is made during a diagnosis to its completion. A provider that is unloaded
  while it is asked (its plugin, or a change of language) has no group when it
  answers (`336`), so `in_diagnose` is never 0 again and the file is not
  diagnosed any more.

Others that were met while reading and that have no run of their own:

* `ide-pipeline.c:2235`: a request whose phase "has already been met" is answered
  at once; during a rebuild `position` is -1 and the comparison is unsigned.
* `ide-task.c:1648` allows chaining until the task has completed, which is after
  its callback; a callback that propagates and then chains leaves the chained
  task to "parent task disposed" (`920`).
* `ide-clang-client.c:317`: a saved file should not be a draft any more, but
  `IdeUnsavedFiles` keeps its contents and the next query sends them again. They
  are the same as those on disk until the file is changed by somebody else.
* `ide-clang-client.c:531`: a call is cancelled by its id on the connection, and the
  ids start again with the next server.
* `ide-run-manager.c:736`: nothing is to be installed again if no file has changed
  since the last install, but `has_installed_once` is never set.
* `ide-run-manager.c:986`: the wait for the application is cancelled by the first
  stop; if the application ignores its signal, the manager has forgotten it
  (`796`) and the second stop, which would force the exit, finds no process.
* `ide-pipeline.c:1195`: a user who cancels while the deploy strategy is loading
  loses it for good; the next run fails the assertion at `ide-run-manager.c:1059`.
* `ide-pipeline.c:2441`: a build that is refused emits "finished" without
  "started". The build manager takes it for the end of a build, which is harmless
  only while that is not running; `BuildingIsReal` is stated until a refusal.
* `ide-subprocess-supervisor.c:96`: a spawn that fails is never retried, and a later
  start does nothing as `supervising` is set.
* `ide-diagnostics-manager.c:761`: extension_added files the provider of a group whose
  table clear_by_provider has removed with its last entry, though `805` reads as if
  the next diagnostic were to make it. The adapter does so whenever a provider
  is added after the others were removed.
* `ide-diagnostics-manager.c:830`: removing a provider clears what it has found about
  any file, but emits no "changed", which the documentation of the signal
  (`593`) promises. The branch at `411` that would dispose of a group is not reached.
* `ide-task-cache.c:510` asserts task data that `get_async` sets only after it has
  connected the handler, which runs at once if the cancellable is cancelled. Without
  assertions the get is answered as any other that is cancelled.
* `ide-task-cache.c:487`: a second assertion about the queue of a waiter fails
  when the waiter was cancelled after its key got a new queue.
* `ide-pipeline.c:1937`: a binding of `completed` can outlive the execution that
  chained the stages, depending on when the free function of the array is set.
* `ide-pipeline.c:2085`: the walk of one task completes queued builds of a
  smaller phase even when their stages were passed over; `2012` completes a
  queued rebuild that was never started, though `3850` says that it cleans.
* `ide-pipeline.c:3493`: cleaning marks no stage incomplete unless its class
  does so, though the comment at `3588` reads otherwise.
* `ide-task.c:896`: a chained task that returns on cancel can have two
  completion sources, and the assertion at `964` fails for the second one if the
  first was dispatched in between. `AbortsOnlyChained` shows that this is the
  only way for the assertions of `ide_task_return_cb` to fail. No operation of
  the library chains such a task. `deliver_result` also leaves the cancel
  handler connected, and with it the reference cycle of `1903`.
* `ide-task.c:1781`: `set_task_data` in a worker frees the old data in the
  thread, and attaches a source whose callback gets NULL.

## Proofs

`tlapm` checks every proof. The assumptions are the `ASSUME`s of the component's
module; each is evaluated by TLC in the runs.

| Theorem | For all constants |
|---|---|
| `TaskCacheProofs!TypeCorrect` | `Spec => []TypeOK` |
| `TaskCacheProofs!Coalesced` | a key has at most one fetch, and `in_flight` names it |
| `TaskCacheProofs!NoOneStranded` | a queued get has a live fetch of its key |
| `TaskCacheProofs!HeapHolds` | the heap has exactly the items of the table |
| `TaskCacheProofs!AnsweredOnceHolds` | no get is answered twice |
| `TaskCacheProofs!JoinedFetchAnswers` | a queued get is answered by the fetch it joined |
| `TaskCacheProofs!CancelStaysAlone` | a get that was not cancelled is told of a cancellation only if it joined a cancelled fetch |
| `PipelineProofs!TypeCorrect` | `Spec => []TypeOK` |
| `PipelineProofs!StartedOneAtATime` | until a build is refused, one task at most is started, and `busy` is set while one is |
| `PipelineProofs!BusyIsOwned` | `busy` is never left set without a task whose completion clears it |
| `PipelineProofs!QueueIsFlushed` | with a ready configuration, a queue that is not empty has a flush or a completion coming |
| `PipelineProofs!FailuresStay` | no callback of a stage finds the failure of another task |
| `PipelineProofs!StagesInOrder` | while nobody changes the stages, a stage is started only when all enabled ones in front of it are complete |
| `PipelineProofs!DoneIsBuilt` | a build that answers TRUE has every enabled stage up to its phase complete, if nobody changed the stages meanwhile |
| `PipelineProofs!EarlyIsBuilt` | the same of a queued build that another one's walk completes |
| `PipelineProofs!CompletedIsBuilt` | without chains and invalidations, a complete stage was started or found up to date since it was last incomplete |
| `PipelineRefinement!PipelineServes` | `Spec => ServesAQueue`: the pipeline implements `RequestQueue`, refusals and failures included |
| `DiagnosticsProofs!TypeCorrect` | `Spec => []TypeOK`: `in_diagnose`, which is unsigned, never passes below 0 |
| `DiagnosticsProofs!SettledHolds` | every provider of an idle file has answered about the file as it is |
| `DiagnosticsProofs!NoLeftoversHold` | no group has diagnostics of a provider that was unloaded |
| `SupervisorProofs!SupervisorNoStray`, `NoStray` | no process runs that the supervisor does not watch, whoever uses it and under the clang client |
| `SupervisorProofs!Spaced` | a respawn is the threshold away from the spawn before |
| `SupervisorProofs!ClientTypeCorrect` | `Spec => []TypeOK`, of the clang client and the supervisor together, which no run repeats |
| `SupervisorProofs!QueriesAreFresh` | a query is answered from contents at least as new as what was edited when it was made, whichever server answers it |
| `SupervisorProofs!PeerWatched` | the client is connected to the process that is watched, and no call is left in the queue when it is destroyed |
| `ManagerProofs!SetUp` | builds are accepted only by a pipeline whose own setup got to its end |
| `ManagerProofs!BuildingHolds` | "building" and its timer never outlive their build, and until a build is refused none runs without them |
| `ManagerProofs!DoneHolds` | no request is answered with TRUE by a pipeline that has been replaced |
| `ManagerProofs!QueuesServe`, `LineServes` | `BuildSpec => PipelinesServe`, and `BuildSpec => Line(p)!Spec` for every `p`: each pipeline of the manager implements `RequestQueue` |
| `ManagerProofs!TypeCorrect` | `Spec => []TypeOK`, of the two managers together |
| `ManagerProofs!OneRun` | the counter of runs counts those under way, one at most, and the process that is held is the one of the run that waits |
| `ManagerProofs!RunHolds` | a run that was installed goes on only with the current pipeline |
| `TaskProofs!TypeCorrect` | `Spec => []TypeOK` |
| `TaskProofs!AnsweredOnce` | the callback of a task is called at most once |
| `TaskProofs!NothingIsLost` | an accepted result is with a source or a worker until the callback gets it |
| `TaskProofs!WaitsAreEnded` | a propagate that spins on `return_source` has a source to wait for |
| `TaskProofs!NeverInTheThread` | no result of a worker gets to the callback before its thread function has ended |
| `TaskProofs!ChainedAgree` | a chained task gets what the other one got, unless it was cancelled or the other one released |
| `TaskProofs!PromiseIsKept` | `Spec => KeepsItsPromise`: a task implements `Promise` |
| `TaskProofs!LeftClean` | `ide_task_finalize` finds nothing left, but for a worker that never returned a result |
| `TaskProofs!AssertsFailOnlyChained` | the assertions of `ide_task_return_cb` fail only for a chained task set to return on cancel |

TaskCache. `TypeOK` is inductive. `OneFetchPerKey` is not: a new fetch is started
under a number that must be unused, and `in_flight` must not name a fetch that
is over. `FetchInv` adds the two, and that a queue with waiters has an entry in
`in_flight`, from which `NobodyStranded` follows with the types. What a get is answered
rests on `WaiterInv`: who is in a queue joined the fetch that is in flight for its key,
and that fetch was cancelled before or is not (`QueuedInv`); those a handler has
still to answer have left every queue, and its answer is right for each of them, or it
is the one `cancel_in_idle` has answered and will take out of the queue of its own key
(`LeftInv`); and whoever has an idle is cancelled (`GivenInv`). The program's calls
between the steps of a handler touch only gets that are new, which is why they
disturb none of it. `HeapMatchesCache` needs that a key has one item at most, filed
under its own key (`ItemInv`), since expiry takes items from the heap and keys from
the table. `Rearm` takes the
least time of a set; that it exists is `SharedLemmas!LeastNat`, proved without
induction over data from the well-foundedness of the natural numbers.

Pipeline. The invariant is `IInv == TypeOK /\ SafeInv`. `OneAtATime` needs that the
head of the queue is not a started task, hence `QueueInv` (no request is queued
twice, and what is queued was not started); its condition that no build was
refused must be stable, hence `AnswerInv` (a refusal is not taken back);
`NoneLost` needs that `failed` is clear while a task runs, `FailInv`. The step is
proved by action. The walks are summarised first (`TickBuildEffect`,
`TickCleanEffect`, `TickRebuildEffect`: what a tick does to the task, to `failed`
and to other requests), so that the four actions that tick share the argument;
`MovesQueue` and `GoOn` say what a new queue and a completion do to the rest.

The order of stages rests on two more invariants. `OrderInv`: the array is sorted, has
no stage twice, and each of its tails is cut off by a set that no binding leads out of
(`Cut`), so that completing a stage never completes one behind the position. It
starts from `LoadedAssumption`: every addin attaches stages of its own, and attach sorts.
`WalkInv`: while a task walks and nobody has changed the stages, whatever the walk has
passed is disabled, complete, the stage it waits for, or chained to that
one. Each action advances one task (`Advance`), changes nothing a walk looks
at (`Rests`), or moves the others without starting any (`Stirs`). `InOrder`, `DoneMeansBuilt`
and `EarlyMeansBuilt` are read off the step.

`CompletedIsBuilt` has two hypotheses on constants, `Chains = {}` and
`"invalidate" \notin Changes`, because without them the property is false: an
invalidation of a stage that runs is lost (`pipeline_lost_invalidation`), and a binding that
outlives its execution (`ide-pipeline.c:1937`) completes a stage that a later rebuild
has reset; TLC finds that one with chained stages, builds to the phases 2
and 3 and a rebuild to 2.

Task. None of the properties is inductive by itself. `CalledOnce` needs to know where
the result is: a task that was cancelled while it was chained may have two
sources, for its cancellation and for the result it is delivered, and gets one
answer because the source that is dispatched second finds `got_cancel` and a
result. `Sound` says this for one task: `Placed` and `Kept` (nowhere, with the
worker, with a source, or with the callback), `Waits` (what can have happened to a task
that is still chained), `Jobs` (who is to return the result), `Behind` (what can
have happened while the worker is there) and `Ends` (after the callback, and after
disposal). `ChainInv` says that a chained task waits in one place, the task it was
chained to or the callback of that one, so that it is delivered one result;
`AnswerInv` relates its sources and its answer to those of the other task;
`StackInv` says that no task in the stack is disposed. A handler is summarised as
its effect on one record (`CompleteEffect`, `ReturnEffect`, `DeliverEffect`),
`OneMoves` lifts a step of one task to the invariant, and the actions that move
several tasks (`ReturnCb`, `ReturnCbEnd`, `Chain`, `Dispose`) have proofs of their own.

That a task implements `Promise` is shown under `PInv`, which adds three facts:
only who was cancelled has an idle of its cancellable (`WatchInv`); a callback is in
the stack once, of a task that is not complete yet (`CallInv`); and nobody is left
chained to a task that is complete (`OverInv`). An action moves no place (`QuietStep`),
one task (`SettlingStep`), or a task and those that follow it: the end of a callback
and the disposal. For these `FollowerSettles` says what the delivery does to one
follower, which may have been settled by its own cancellation before, `BystanderStays`
that the rest keep their place, and `EndsAll` puts them together. An open
follower waits with the task exactly if it is late, else in the frame of the callback: the
two answers of `Promise!End` are these two.

Refinement. `PipelineRefinement` maps a request's `step` to its place (idle,
waiting, running, returned, answered, lost) and the queue to the line. Each action is
mapped under `IInv`: a flush that starts or refuses a request is `Take`, one that
cannot make the build directory is `Fail`; a callback of a stage is `Advance`, with the
requests its walk answers as those that are met, or `Break` if the stage failed or
another one had; and everything that changes stages stutters. That no step changes
what a request is (`SameConfigures`) is what keeps refusals right.
`MovesQueue` of the first proof is reused: it says that what a step takes out of
the queue it has answered. The two filters of a sequence are the same operator,
`Lines!Keep`, about which only a few facts are needed (`SharedLemmas`).

Supervisor. `NoStrayProcess` is inductive with the types and `TimerInv` (an armed
timer and the age add up to the threshold), which gives `Spaced`. The client
takes no step of the supervisor but its own (`ClientSteps`), so the invariant
holds under it. `ClientInv` is `PeerIsSupervised` with what relates the state of the
client to `supervising`: a client that runs or spawns has started the supervisor, one
that is shut down has stopped it. `QueryIsFresh` is about a server that reads a
stream, what is on the wire and what is still to be dispatched: `StreamInv` says that
each query in it finds, once the calls before it have been read, drafts as new as it
wants, and that when all is read the server holds what `sentSeq` says it was sent. Without
a connection it says so of the calls that wait, and of a server that holds nothing yet.
`AskedInv` says that a query that was not made is nowhere. Two streams with the same calls
in the same order are fresh together (`Reindexed`), whatever is between; reading a call
leaves the rest fresh (`ServedFresh`). A server that dies takes its stream with it, and
the handler of "exited" forgets what was sent.

Managers. `DoneIsCurrent` needs to know why a request that waits for its answer cannot
outlive its pipeline: it is cancelled, or chained to the cancellable that is
triggered when the pipeline is replaced (`WaitInv`). `BuildingIsReal` needs that a
pipeline is at work on one build, `WorkInv`, which holds until a build is refused and
rests on `LineInv` (a queue has each request once, and only requests that are queued for
its pipeline); `LifeInv` says that the pipeline is the last one made. `RunInv`
adds what a run needs: `ActiveInv` (the counter is 1 and one run is under way, or 0
and none is), from which `OneRunAtATime` follows without an induction on the size
of the set; `JoinInv`, the analogue of `WaitInv` for a run that has been installed and
whose cancellable stays chained after the install was answered; and
`InstallInv`, that the install of a run that is past it has been answered. A step of
the build manager keeps the three because it moves no run, and a run moves the
build manager only by `BuildAsync` and by taking its cancellable away.

That each pipeline of the manager is a `RequestQueue` needs, beside `LineInv`, its
converse `QueueInv`: a request that is queued is in the queue of its own pipeline, and
was told nothing before it left. A failing flush answers every request whose step is
"queued" there, where `RequestQueue!Fail` answers those in the line: the two agree
only under it. An action moves no line (`QuietStep`), or one request of one pipeline
and those that it meets (`OneStep`); the other pipelines stutter, since a request is seen
by its own one alone. What is met leaves the queue by `Lines!Keep`, of which
`KeepMembers` says that it drops nobody else.

Diagnostics. That the counter does not pass below 0 needs `CountInv`: it covers the
providers of the group that are asked, from which an answer takes one. It is an
inequality, since an unloaded provider leaves the counter too high. `Settled`
needs `FreshInv`: while a group has no request, each provider it has either
has answered about what there is now or is asked about it; `CountInv` says that nobody is
asked when the counter is 0.

What is only model-checked: the eight liveness properties (`EveryGetAnswered`,
`ExpiredItemsLeave`, `EveryRequestAnswered`, `EveryTaskAnswered`, `EveryQueryAnswered`,
`EveryBuildAnswered`, `StopEndsTheRun`, `RequestsAreServed`), since fairness and `ENABLED`
are outside the proof system. Every invariant and every action property of a passing
run is a theorem, `CompletedMeansBuilt` under the two hypotheses above.

## Not modelled, and why

Inside the modelled components: task data, names and priorities of `IdeTask`;
`get_values` and disposal of the cache; the terminal, error formats, build log and
addins of the pipeline; changes of a supervisor's launcher, which nobody makes;
cancellation of a single call of the clang client; diagnostics counts and targets
of the build manager; run contexts (the layers of environment) and run tools; the
sequence numbers, signals and destruction of the diagnostics manager. None
of them takes part in the order of events.

The rest of the program is by far the greatest part of its lines: widgets and their
actions, generated and vendored parsers (`gdbwire`), and more than a hundred plugins
that adapt a tool to an interface of the library. What they have in common with
the modelled parts is that they run tasks on the main loop, which `Task` models
once. `IdeBuffer` is a text buffer whose loads share a task by `ide_task_chain`;
`IdeHeap` is an array algorithm; the LSP client and the debugger keep their
protocol state in a library or in a plugin; the managers of configurations,
devices, runtimes, toolchains and tests are registries. `PROJECT.json` lists every
component with its reason.

## Plan

`Heap`: the array algorithm, with heap order and the bag of its elements as the
abstract specification, and `evictHeap` of `TaskCache` as its client.

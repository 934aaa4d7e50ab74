---------------------------- MODULE BuildManager ----------------------------
(***************************************************************************)
(* IdeBuildManager (src/libide/foundry/ide-build-manager.c): it owns the   *)
(* pipeline, replaces it by a new one when it is invalidated, sets the new *)
(* one up in asynchronous steps, and hands builds to it.                   *)
(*                                                                         *)
(* The pipelines are numbered as they are made and 0 is none; all but the  *)
(* current one are destroyed.  Of a pipeline only its queue is left here,  *)
(* as RequestQueue describes it.  A request of the manager is a task that  *)
(* returns on cancel: its result is set first, and handed to the caller by *)
(* the main loop later.                                                    *)
(***************************************************************************)
EXTENDS Lines, SequencesExt

CONSTANTS
    Builds,         \* calls of build_async, clean_async and rebuild_async
    Keeping,        \* those whose caller keeps its cancellable
    MaxPipelines    \* bound on the pipelines that are made

ASSUME BuildManagerAssumption ==
    /\ Keeping \subseteq Builds
    /\ MaxPipelines \in Nat

VARIABLES
    life,       \* started, and the context in destruction
    pipeline,   \* self->pipeline
    made,       \* how many there were; the signal group listens to the last
    setup,      \* how far each pipeline is set up
    strategy,   \* best_strategy of each pipeline
    canBuild, building,
    timer,      \* timer_source is not 0
    builds,     \* every request
    cancelled,  \* the requests whose cancellable is cancelled
    chained,    \* those whose cancellable is chained to self->cancellable
    queue,      \* task_queue of each pipeline
    busy, failed, \* of each pipeline
    refused     \* history: a build was refused

managerVars  == <<life, pipeline, made, canBuild, building, timer>>
setupVars    == <<setup, strategy>>
cancelVars   == <<cancelled, chained>>
pipelineVars == <<queue, busy, failed, refused>>
buildVars    == <<managerVars, setupVars, builds, cancelVars, pipelineVars>>

Pipelines == 1..MaxPipelines

\* A request that is prepared waits for the buffers or for the targets.
\* The task of the pipeline has returned when the step is one of Outcomes, and
\* was answered with "told" when the request has left it.
Outcomes == {"done", "error", "refused"}
Results  == {"none", "done", "error", "cancelled"}

Build == [configures: BOOLEAN, pipe: 0..MaxPipelines,
          step: {"new", "prepared", "queued", "running", "lost", "left"} \cup Outcomes,
          told: {"none"} \cup Outcomes, result: Results, answer: Results]

BuildTypeOK ==
    /\ life \in {"new", "started", "closed"}
    /\ pipeline \in 0..MaxPipelines /\ made \in 0..MaxPipelines
    /\ setup \in [Pipelines -> {"none", "device", "runtime", "toolchain",
                                "failed", "initialized", "loaded"}]
    /\ strategy \in [Pipelines -> {"none", "loading", "ready", "lost"}]
    /\ canBuild \in BOOLEAN /\ building \in BOOLEAN /\ timer \in BOOLEAN
    /\ builds \in [Builds -> Build]
    /\ cancelled \subseteq Builds /\ chained \subseteq Builds
    /\ queue \in [Pipelines -> Seq(Builds)]
    /\ busy \in [Pipelines -> BOOLEAN] /\ failed \in [Pipelines -> BOOLEAN]
    /\ refused \in BOOLEAN

BuildInit ==
    /\ life = "new"
    /\ pipeline = 0 /\ made = 0
    /\ setup = [p \in Pipelines |-> "none"]
    /\ strategy = [p \in Pipelines |-> "none"]
    /\ canBuild = FALSE /\ building = FALSE /\ timer = FALSE
    /\ builds = [b \in Builds |-> [configures |-> FALSE, pipe |-> 0, step |-> "new",
                                   told |-> "none", result |-> "none", answer |-> "none"]]
    /\ cancelled = {} /\ chained = {}
    /\ queue = [p \in Pipelines |-> << >>]
    /\ busy = [p \in Pipelines |-> FALSE] /\ failed = [p \in Pipelines |-> FALSE]
    /\ refused = FALSE

-----------------------------------------------------------------------------
(* The pipeline is replaced *)

\* Mutant: the new cancellable is made, but the old one is not cancelled.
CancelNobody == UNCHANGED cancelled /\ chained' = {}

\* ide_build_manager_cancel without the pipeline: whoever listens to the
\* cancellable is cancelled, and nobody listens to the new one.
CancelAll == cancelled' = cancelled \cup chained /\ chained' = {}

\* What is loading when the cancellable of the pipeline is cancelled is lost.
StrategyCancelled == [p \in Pipelines |-> IF p = pipeline /\ strategy[p] = "loading"
                                          THEN "lost" ELSE strategy[p]]

\* ide_build_manager_invalidate_pipeline up to the check for a shutdown.  A
\* pipeline that is destroyed is unloaded and has no strategy.
Discard ==
    /\ life = "started"
    /\ building' = FALSE
    /\ timer' = IF building THEN FALSE ELSE timer
    /\ CancelAll
    /\ strategy' = [p \in Pipelines |-> IF p = pipeline THEN "none" ELSE strategy[p]]

\* The rest of it: a new pipeline whose setup asks for the device first.
Invalidate ==
    /\ made < MaxPipelines
    /\ Discard
    /\ made' = made + 1 /\ pipeline' = made + 1
    /\ canBuild' = FALSE
    /\ setup' = [setup EXCEPT ![made + 1] = "device"]
    /\ UNCHANGED <<life, builds, pipelineVars>>

\* The same while the context is in destruction.
Close ==
    /\ Discard
    /\ life' = "closed"
    /\ pipeline' = 0
    /\ UNCHANGED <<made, canBuild, setup, builds, pipelineVars>>

\* _ide_build_manager_start, which invalidates.
StartManager ==
    /\ life = "new" /\ life' = "started"
    /\ made < MaxPipelines
    /\ made' = made + 1 /\ pipeline' = made + 1
    /\ setup' = [setup EXCEPT ![made + 1] = "device"]
    /\ CancelAll
    /\ UNCHANGED <<canBuild, building, timer, strategy, builds, pipelineVars>>

\* The action "cancel", which is enabled while the pipeline is busy.
CancelBuilds ==
    /\ pipeline # 0
    /\ busy[pipeline]
    /\ CancelAll
    /\ strategy' = StrategyCancelled
    /\ UNCHANGED <<managerVars, setup, builds, pipelineVars>>

-----------------------------------------------------------------------------
(* The setup of a pipeline.  Its cancellable is cancelled only when the     *)
(* pipeline is replaced: CancelBuilds needs one that is set up.             *)

SettingUp(p) == setup[p] \in {"device", "runtime", "toolchain"}

\* Mutant: the callbacks do not look at which pipeline they are for.
AnyPipeline(p) == TRUE

StillCurrent(p) == p = pipeline

NextStep == [device |-> "runtime", runtime |-> "toolchain", toolchain |-> "initialized"]

\* ide_build_manager_device_get_info_cb, ensure_runtime_cb and ensure_
\* toolchain_cb, whose last step initializes the pipeline.
SetupStep(p) ==
    /\ SettingUp(p)
    /\ \/ /\ StillCurrent(p)
          /\ setup' = [setup EXCEPT ![p] = NextStep[@]]
          /\ canBuild' = (canBuild \/ setup[p] = "toolchain")
       \/ /\ setup' = [setup EXCEPT ![p] = "failed"]
          /\ UNCHANGED canBuild
    /\ UNCHANGED <<life, pipeline, made, building, timer, strategy, builds,
                   cancelVars, pipelineVars>>

\* ide_pipeline_load_cb of the last addin, which asks the strategies.
Load(p) ==
    /\ setup[p] = "initialized" /\ p = pipeline
    /\ setup' = [setup EXCEPT ![p] = "loaded"]
    /\ strategy' = [strategy EXCEPT ![p] = "loading"]
    /\ UNCHANGED <<managerVars, builds, cancelVars, pipelineVars>>

\* ide_pipeline_deploy_strategy_load_cb.
StrategyLoaded(p) ==
    /\ strategy[p] = "loading" /\ p = pipeline
    /\ \E found \in {"ready", "lost"} : strategy' = [strategy EXCEPT ![p] = found]
    /\ UNCHANGED <<managerVars, setup, builds, cancelVars, pipelineVars>>

-----------------------------------------------------------------------------
(* Requests *)

\* ide_task_return of the task of the manager: later results are ignored.
Resolved(build, x) == [build EXCEPT !.result = IF @ = "none" THEN x ELSE @]

\* The callback of the pipeline's task.
Left(build, told) == [Resolved(build, IF told = "done" THEN "done" ELSE "error")
                         EXCEPT !.step = "left", !.told = told]

\* ide_pipeline_build_targets_async, clean_async and rebuild_async: an answer
\* at once, or the end of the queue.
Submit(b, build) ==
    \/ /\ queue' = [queue EXCEPT ![build.pipe] = Append(@, b)]
       /\ builds' = [builds EXCEPT ![b] = [build EXCEPT !.step = "queued"]]
    \/ /\ \E x \in {"done", "error"} : builds' = [builds EXCEPT ![b] = Left(build, x)]
       /\ UNCHANGED queue

\* A real build saves the buffers first, and a build may look for the default
\* target.
BuildAsync(b, configures) ==
    LET build == [builds[b] EXCEPT !.configures = configures, !.pipe = pipeline] IN
    /\ builds[b].step = "new"
    /\ chained' = chained \cup {b}
    /\ IF pipeline = 0 \/ ~canBuild \/ setup[pipeline] # "loaded"
       THEN /\ builds' = [builds EXCEPT ![b] = Left(build, "error")]
            /\ UNCHANGED queue
       ELSE \/ /\ builds' = [builds EXCEPT ![b] = Left(build, "done")]
               /\ UNCHANGED queue
            \/ /\ builds' = [builds EXCEPT ![b] = [build EXCEPT !.step = "prepared"]]
               /\ UNCHANGED queue
            \/ configures /\ Submit(b, build)
    /\ UNCHANGED <<managerVars, setupVars, cancelled, busy, failed, refused>>

\* The buffers are saved and the targets listed.  The request goes to the
\* pipeline it was made for, destroyed or not.
Prepared(b) ==
    /\ builds[b].step = "prepared"
    /\ \/ Submit(b, builds[b])
       \/ /\ builds' = [builds EXCEPT ![b] = Left(@, "error")]
          /\ UNCHANGED queue
    /\ UNCHANGED <<managerVars, setupVars, cancelVars, busy, failed, refused>>

\* clean_async and rebuild_async: the pipeline has to be loaded by its own
\* check, and the manager's are not made.
CleanAsync(b) ==
    LET build == [builds[b] EXCEPT !.pipe = pipeline] IN
    /\ builds[b].step = "new"
    /\ chained' = chained \cup {b}
    /\ IF pipeline = 0 \/ setup[pipeline] # "loaded"
       THEN /\ builds' = [builds EXCEPT ![b] = Left(build, "error")]
            /\ UNCHANGED queue
       ELSE Submit(b, build)
    /\ UNCHANGED <<managerVars, setupVars, cancelled, busy, failed, refused>>

\* The source of a cancelled task that returns on cancel.
CancelCb(b) ==
    /\ b \in cancelled
    /\ builds[b].step # "new" /\ builds[b].result = "none"
    /\ builds' = [builds EXCEPT ![b].result = "cancelled"]
    /\ UNCHANGED <<managerVars, setupVars, cancelVars, pipelineVars>>

\* Mutant: the finish function does not look at the cancellable.
Propagated(b) == builds[b].result

\* ide_task_propagate_boolean checks the cancellable once more.
Answer(b) == IF b \in cancelled /\ builds[b].result = "done" THEN "cancelled"
             ELSE builds[b].result

\* The callback of the caller.  The cancellable of a request goes with it,
\* unless the caller keeps it.
Deliver(b) ==
    /\ builds[b].result # "none" /\ builds[b].answer = "none"
    /\ builds' = [builds EXCEPT ![b].answer = Answer(b), ![b].result = Answer(b)]
    /\ IF b \in Keeping THEN UNCHANGED cancelVars
       ELSE cancelled' = cancelled \ {b} /\ chained' = chained \ {b}
    /\ UNCHANGED <<managerVars, setupVars, pipelineVars>>

-----------------------------------------------------------------------------
(* The pipelines *)

\* ide_build_manager_pipeline_started and the handler of "build-started".
HearStarted(p) ==
    IF p = made THEN building' = TRUE /\ timer' = TRUE
    ELSE UNCHANGED <<building, timer>>

\* Mutant: the handler of "build-failed" does not stop the timer.
HearFailure(p) ==
    IF p = made THEN building' = FALSE /\ timer' = (timer /\ failed[p])
    ELSE UNCHANGED <<building, timer>>

\* ide_build_manager_pipeline_finished, and "build-failed" or "build-finished".
HearFinished(p) ==
    IF p = made THEN building' = FALSE /\ timer' = FALSE
    ELSE UNCHANGED <<building, timer>>

Heard == UNCHANGED <<life, pipeline, made, canBuild, setupVars, cancelVars>>

\* A failed pipeline refuses to configure, without a "started".
Flush(p) ==
    LET b == Head(queue[p]) IN
    /\ ~busy[p] /\ queue[p] # << >>
    /\ queue' = [queue EXCEPT ![p] = Tail(@)]
    /\ IF failed[p] /\ builds[b].configures
       THEN /\ builds' = [builds EXCEPT ![b].step = "refused"]
            /\ refused' = TRUE
            /\ UNCHANGED <<building, timer, busy, failed>>
       ELSE /\ builds' = [builds EXCEPT ![b].step = "running"]
            /\ busy' = [busy EXCEPT ![p] = TRUE]
            /\ failed' = [failed EXCEPT ![p] = FALSE]
            /\ HearStarted(p)
            /\ UNCHANGED refused
    /\ Heard

\* The build directory cannot be made.
FlushFails(p) ==
    /\ ~busy[p] /\ queue[p] # << >>
    /\ queue' = [queue EXCEPT ![p] = << >>]
    /\ builds' = [b \in Builds |-> IF b \in ToSet(queue[p]) THEN Left(builds[b], "error")
                                   ELSE builds[b]]
    /\ UNCHANGED <<managerVars, setupVars, cancelVars, busy, failed, refused>>

\* Mutant: the request that is met stays in the queue.
MetStays(b) ==
    LET p == builds[b].pipe IN
    /\ builds[b].step = "queued"
    /\ \E c \in Builds : builds[c].pipe = p /\ builds[c].step = "running"
    /\ builds' = [builds EXCEPT ![b] = Left(@, "done")]
    /\ UNCHANGED <<managerVars, setupVars, cancelVars, pipelineVars>>

\* A queued build is met by the one that is running.
Met(b) ==
    LET p == builds[b].pipe IN
    /\ builds[b].step = "queued"
    /\ \E c \in Builds : builds[c].pipe = p /\ builds[c].step = "running"
    /\ queue' = [queue EXCEPT ![p] = Keep(@, Builds \ {b})]
    /\ builds' = [builds EXCEPT ![b] = Left(@, "done")]
    /\ UNCHANGED <<managerVars, setupVars, cancelVars, busy, failed, refused>>

\* The last stage finishes, or one fails.  A stage that is built after one of
\* another build has failed leaves its own build without an answer; one that is
\* cleaned does not look at it.
Finish(b) ==
    LET p == builds[b].pipe IN
    /\ builds[b].step = "running"
    /\ \/ /\ builds' = [builds EXCEPT ![b].step = "done"]
          /\ UNCHANGED failed
       \/ /\ failed[p]
          /\ builds' = [builds EXCEPT ![b].step = "lost"]
          /\ UNCHANGED failed
       \/ /\ builds' = [builds EXCEPT ![b].step = "error"]
          /\ \E f \in BOOLEAN : failed' = [failed EXCEPT ![p] = @ \/ f]
    /\ UNCHANGED <<managerVars, setupVars, cancelVars, queue, busy, refused>>

\* The task of the pipeline completes: its callback returns the one of the
\* manager, and ide_pipeline_task_notify_completed emits "finished".
Complete(b) ==
    LET p == builds[b].pipe IN
    /\ builds[b].step \in Outcomes
    /\ builds' = [builds EXCEPT ![b] = Left(@, @.step)]
    /\ busy' = [busy EXCEPT ![p] = FALSE]
    /\ HearFinished(p)
    /\ Heard
    /\ UNCHANGED <<queue, failed, refused>>

-----------------------------------------------------------------------------

\* What happens to the requests once they are made.
Work(b) == Prepared(b) \/ CancelCb(b) \/ Deliver(b) \/ Met(b) \/ Finish(b) \/ Complete(b)

Serve(p) == SetupStep(p) \/ Load(p) \/ StrategyLoaded(p) \/ Flush(p) \/ FlushFails(p)

Request(b) == (\E configures \in BOOLEAN : BuildAsync(b, configures)) \/ CleanAsync(b)

BuildNext ==
    \/ StartManager \/ Invalidate \/ Close \/ CancelBuilds
    \/ \E p \in Pipelines : Serve(p)
    \/ \E b \in Builds : Work(b)
    \/ \E b \in Builds \ Keeping : Request(b)

BuildSpec == BuildInit /\ [][BuildNext]_buildVars

\* The main loop dispatches what is ready and what is asked of others is
\* answered; a pipeline that was replaced may hang in a stage for ever.
BuildFairness ==
    /\ \A p \in Pipelines : WF_buildVars(SetupStep(p)) /\ WF_buildVars(Flush(p))
    /\ \A b \in Builds :
          /\ WF_buildVars(Prepared(b)) /\ WF_buildVars(CancelCb(b))
          /\ WF_buildVars(Deliver(b)) /\ WF_buildVars(Complete(b))
          /\ WF_buildVars(builds[b].pipe = pipeline /\ Finish(b))

BuildFairSpec == BuildSpec /\ BuildFairness

-----------------------------------------------------------------------------
(* What each pipeline does for its callers. *)

Place(step) ==
    CASE step \in {"new", "prepared"} -> "idle"
      [] step = "queued" -> "waiting"
      [] step \in Outcomes -> "returned"
      [] step = "left" -> "answered"
      [] OTHER -> step

\* How a request stands with pipeline p.
Seen(p, build) ==
    IF build.pipe # p THEN [place |-> "idle", answer |-> "none"]
    ELSE [place  |-> Place(build.step),
          answer |-> IF build.step \in Outcomes THEN build.step ELSE build.told]

Line(p) == INSTANCE RequestQueue WITH
    Requests <- Builds,
    call <- [b \in Builds |-> Seen(p, builds[b])], line <- queue[p],
    busy <- busy[p], failed <- failed[p],
    configures <- {b \in Builds : Seen(p, builds[b]).place # "idle" /\ builds[b].configures}

-----------------------------------------------------------------------------
(* Properties *)

\* Each pipeline, the current one and those that were replaced, serves the
\* requests that are made of it as IdePipeline is shown to: Line(p)!Spec for
\* every p, in the form TLC can check.
PipelinesServe ==
    /\ \A p \in Pipelines : Line(p)!Init
    /\ [][\A p \in Pipelines : [Line(p)!Next]_(Line(p)!vars)]_buildVars

\* The last pipeline runs a build that has not completed.
Occupies(b) == builds[b].pipe = made /\ builds[b].step \in {"running", "lost"} \cup Outcomes

\* "building" and the timer that counts it never outlive the build they are
\* for, however it ends and whichever pipeline it is on; and unless a build
\* was refused, none runs without them.  The timer is free when a build
\* starts (the assertion in ide_build_manager_start_timer).
BuildingIsReal ==
    /\ building = timer
    /\ building => \E b \in Builds : Occupies(b)
    /\ life = "started" /\ ~refused => \A b \in Builds : Occupies(b) => building

\* Builds are accepted only by a pipeline whose own setup got to its end: the
\* setup of one that was replaced says nothing of the next.
CanBuildIsSetUp ==
    canBuild /\ life = "started" =>
        pipeline # 0 /\ setup[pipeline] \in {"initialized", "loaded"}

\* A caller that is told TRUE was served by the pipeline of now: whatever was
\* asked of one that has been replaced fails, though it may have succeeded.
DoneIsCurrent ==
    [][\A b \in Builds : builds[b].answer = "none" /\ builds'[b].answer = "done"
                            => builds[b].pipe = pipeline]_buildVars

\* Every request is answered, even by a pipeline that was replaced and hangs,
\* unless a build was refused.
EveryBuildAnswered ==
    \A b \in Builds : builds[b].step # "new" ~> builds[b].answer # "none" \/ refused

=============================================================================

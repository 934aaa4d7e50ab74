------------------------------ MODULE Pipeline ------------------------------
(***************************************************************************)
(* IdePipeline (src/libide/foundry/ide-pipeline.c) and the part of         *)
(* IdePipelineStage it drives: builds, cleans and rebuilds are queued and  *)
(* run one after the other; a build walks the stages of the pipeline,      *)
(* which are sorted by phase, and runs those that are not complete.        *)
(*                                                                         *)
(* Everything runs on one main loop.  A flush of the queue is an idle      *)
(* source of low priority, and all of those that are ready are dispatched  *)
(* in one iteration ("batch"); the completion of a task that was started   *)
(* is a source of higher priority that was added when the task returned.   *)
(* A phase bit of the code is its rank here: 1 is the first phase, and     *)
(* requested_mask, always a union of masks phase | (phase - 1), is the     *)
(* highest phase in it.                                                    *)
(***************************************************************************)
EXTENDS Lines

CONSTANTS
    Stages,         \* stages that can be attached
    Requests,       \* calls of build_async, clean_async and rebuild_async
    NoStage,        \* a value that is not a stage
    MaxPhase,       \* number of phases
    Configure,      \* the rank of IDE_PIPELINE_PHASE_CONFIGURE
    PhaseOf,        \* the phase a stage is attached to
    WhenceOf,       \* 0, 1, 2: before, in, after the phase
    PriorityOf,     \* the priority a stage is attached with
    Loaded,         \* the stages the addins attach, as the pipeline sorts them
    Extra,          \* stages that are attached and detached later
    Transients,     \* stages that are released after the next execution
    Queried,        \* stages with a handler of "query"
    Chains,         \* pairs: the first takes over the work of the second
    Launchers,      \* stages whose class has a clean_async of its own
    MaxPauses,      \* bound on the pauses of a stage
    BuildPhases, CleanPhases, RebuildPhases,  \* phases that are asked for
    Changes         \* what else happens, out of ChangeKinds

Phases == 1..MaxPhase
ChangeKinds == {"attach", "invalidate", "disable", "request",
                "cancel", "unready", "broken", "builddir"}

\* The handler of a stage that chains defers to make: it clears "completed".
ASSUME StagesAssumption ==
    /\ NoStage \notin Stages
    /\ Stages # {} /\ IsFiniteSet(Stages)
    /\ Loaded \in Seq(Stages)
    /\ Extra \subseteq Stages /\ Transients \subseteq Extra
    /\ Queried \subseteq Stages /\ Launchers \subseteq Stages
    /\ Chains \subseteq Queried \X Stages
    /\ PhaseOf \in [Stages -> Phases]
    /\ WhenceOf \in [Stages -> 0..2]
    /\ PriorityOf \in [Stages -> Nat]

ASSUME PhasesAssumption ==
    /\ MaxPhase \in Nat
    /\ Configure \in Nat
    /\ MaxPauses \in Nat
    /\ BuildPhases \subseteq Phases
    /\ CleanPhases \subseteq Phases
    /\ RebuildPhases \subseteq Phases \cup {0}
    /\ Changes \subseteq ChangeKinds

VARIABLES
    status,     \* loaded and broken
    ready,      \* ide_config_get_ready
    pipeline,   \* the stages of the entries of the array
    completed,  \* the stages whose "completed" is set
    disabled,   \* the stages whose "disabled" is set
    pauses,     \* n_pause of each stage
    bindings,   \* the bindings of "completed" that are alive
    unbinds,    \* the free function of chained_bindings unbinds
    tasks,      \* every request, with where its execution stands
    queue,      \* task_queue
    busy, failed, inClean,
    position,   \* counted from 1; 0 is the -1 of the code
    requested,  \* requested_mask
    flushes,    \* pending sources of ide_pipeline_do_flush
    batch,      \* those of them the current iteration still dispatches
    outdated    \* history: stages not started since they lost "completed"

stageVars == <<pipeline, completed, disabled, pauses, bindings, unbinds, outdated>>
runVars   == <<tasks, queue, busy, failed, inClean, position, requested>>
loopVars  == <<flushes, batch>>
vars == <<status, ready, stageVars, runVars, loopVars>>

Step == {"new", "queued", "paused", "pending", "building", "skipped",
         "reaping", "cleaning", "lost", "returned", "done"}

\* stage: the stage the task waits for; rest: what is left to clean;
\* jumped: the stages it left to the stage they are chained to;
\* quiet: nobody has changed the stages since it was started.
Task == [type: {"none", "build", "clean", "rebuild"}, phase: 0..MaxPhase,
         step: Step, answer: {"none", "done", "error", "refused"},
         cancelled: BOOLEAN, stage: Stages \cup {NoStage}, rest: Seq(Stages),
         jumped: SUBSET Stages, quiet: BOOLEAN]

NewTask == [type |-> "none", phase |-> 0, step |-> "new", answer |-> "none",
            cancelled |-> FALSE, stage |-> NoStage, rest |-> << >>,
            jumped |-> {}, quiet |-> TRUE]

\* The tasks do_flush has popped and whose completion is still to come.
Started(t) == tasks[t].step \notin {"new", "queued", "done"}
Running(t) == Started(t) /\ tasks[t].step # "returned"

Larger(a, b) == IF a < b THEN b ELSE a
InPipeline == {pipeline[i] : i \in DOMAIN pipeline}

-----------------------------------------------------------------------------
(* The stages *)

\* pipeline_entry_compare (a, b) < 0.
Precedes(a, b) ==
    \/ PhaseOf[a] < PhaseOf[b]
    \/ /\ PhaseOf[a] = PhaseOf[b]
       /\ \/ WhenceOf[a] < WhenceOf[b]
          \/ WhenceOf[a] = WhenceOf[b] /\ PriorityOf[a] < PriorityOf[b]

\* Every addin attaches stages of its own, and every attach sorts the array.
ASSUME LoadedAssumption ==
    \A i, j \in DOMAIN Loaded :
        i < j => Loaded[i] # Loaded[j] /\ ~Precedes(Loaded[j], Loaded[i])

\* g_array_sort is stable: s comes after the entries that compare equal.
Placed(line, s) ==
    LET n == Cardinality({i \in DOMAIN line : ~Precedes(s, line[i])})
    IN  SubSeq(line, 1, n) \o <<s>> \o SubSeq(line, n + 1, Len(line))

\* The stages that notify "completed" when it is changed on those of S; out
\* are the stages that have the other value, links the bindings that are alive.
Notified(S, out, links) ==
    LET Closed(C) == \A l \in links : l[1] \in C /\ l[2] \in out => l[2] \in C
    IN  {b \in out : \A C \in SUBSET out : S \cap out \subseteq C /\ Closed(C) => b \in C}

WithCompleted(S, done, links) == done \cup Notified(S, Stages \ done, links)
WithoutCompleted(S, done, links) == done \ Notified(S, done, links)

\* What the handlers of "query" of s make of "completed".
Queries(s, done, links) ==
    IF s \notin Queried THEN {done}
    ELSE {WithoutCompleted({s}, done, links)} \cup
         (IF \E b \in Stages : <<s, b>> \in Chains THEN {}
          ELSE {WithCompleted({s}, done, links)})

QueuedBuild(s) == \E t \in Requests : tasks[t].step = "paused" /\ tasks[t].stage = s

-----------------------------------------------------------------------------
(* Walking the pipeline *)

Returned(task, answer) ==
    [task EXCEPT !.step = "returned", !.answer = answer, !.stage = NoStage,
                 !.rest = << >>, !.jumped = {}]

\* A task that was never started has nobody listening to its completion.
Finished(task, answer) == [Returned(task, answer) EXCEPT !.step = "done"]

Update(t, new, met) ==
    tasks' = [r \in Requests |-> IF r = t THEN new
                                 ELSE IF r \in met THEN Finished(tasks[r], "done")
                                 ELSE tasks[r]]

\* Mutant: only the stages of the phase itself are looked at.
NeedsOwnWork(mask, done) ==
    \E s \in InPipeline : PhaseOf[s] = mask /\ (s \notin done \/ s \in Queried)

\* Some stage of the phases up to mask may have work to do.
NeedsWork(mask, done) ==
    \E s \in InPipeline : PhaseOf[s] <= mask /\ (s \notin done \/ s \in Queried)

\* Mutant: position is advanced twice.
StopsLate(pos, mask) ==
    {i \in DOMAIN pipeline : /\ i > pos + 1
                             /\ pipeline[i] \notin disabled
                             /\ PhaseOf[pipeline[i]] <= mask}

\* The entries behind position pos that the walk stops at.
Stops(pos, mask) ==
    {i \in DOMAIN pipeline : /\ i > pos
                             /\ pipeline[i] \notin disabled
                             /\ PhaseOf[pipeline[i]] <= mask}

\* Mutant: the comparison of the phases is off by one.
MetEarly(waiting, pos, last) ==
    {r \in {waiting[j] : j \in DOMAIN waiting} :
        \E i \in DOMAIN pipeline : i > pos /\ i <= last /\ tasks[r].phase <= PhaseOf[pipeline[i]]}

\* The queued tasks that the entries the walk passes complete.
Met(waiting, pos, last) ==
    {r \in {waiting[j] : j \in DOMAIN waiting} :
        \E i \in DOMAIN pipeline : i > pos /\ i <= last /\ tasks[r].phase < PhaseOf[pipeline[i]]}

\* Mutant: the answer of "chain" is ignored.
ChainedAll(i, mask) ==
    {k \in DOMAIN pipeline :
        /\ k > i /\ pipeline[k] \notin disabled
        /\ \A j \in DOMAIN pipeline : j > i /\ j <= k => PhaseOf[pipeline[j]] <= mask}

\* The entries that are chained to the stage of entry i.
Chained(i, mask) ==
    {k \in DOMAIN pipeline :
        /\ k > i /\ pipeline[k] \notin disabled
        /\ \A j \in DOMAIN pipeline :
              j > i /\ j <= k => /\ PhaseOf[pipeline[j]] <= mask
                                 /\ \/ pipeline[j] \in disabled
                                    \/ <<pipeline[i], pipeline[j]>> \in Chains}

\* The bindings of "completed" once the stages of joined are chained to s.
Bound(s, joined, links) == links \cup ({s} \X joined)

\* The stages whose work is done when a build of s starts.
Covered(s, joined) == {s} \cup {b \in joined : <<s, b>> \in Chains}

\* The entry at position i is executed: the entries chained to it are passed,
\* and its "query" may change its completion and hold it back.
Execute(t, i, met, done, links, dated) ==
    LET s      == pipeline[i]
        chain  == Chained(i, requested')
        joined == {pipeline[k] : k \in chain}
        bound  == Bound(s, joined, links)
        task   == [tasks[t] EXCEPT !.stage = s, !.jumped = @ \cup joined]
    IN  /\ position' \in {i} \cup chain /\ \A k \in chain : k <= position'
        /\ bindings' = bound
        /\ \/ /\ QueuedBuild(s)
              /\ completed' = done /\ outdated' = dated
              /\ UNCHANGED pauses
              /\ Update(t, [task EXCEPT !.step = "pending"], met)
           \/ /\ ~QueuedBuild(s)
              /\ completed' \in Queries(s, done, bound)
              /\ \E held \in pauses[s]..MaxPauses :
                    /\ held = pauses[s] \/ (held = pauses[s] + 1 /\ s \in Queried)
                    /\ pauses' = [pauses EXCEPT ![s] = held]
                    /\ LET step == IF held > 0 THEN "paused"
                                   ELSE IF s \in completed' THEN "skipped" ELSE "building"
                           upToDate == IF step = "building" THEN Covered(s, joined)
                                       ELSE IF s \in Queried THEN {s} \cap completed' ELSE {}
                       IN  /\ outdated' = (dated \cup (done \ completed')) \ upToDate
                           /\ Update(t, [task EXCEPT !.step = step], met)

\* ide_task_return_error_if_cancelled at the start of a tick.
IsCancelled(t) == tasks[t].cancelled

\* ide_pipeline_tick_build; waiting, done, links and dated are what the handler
\* that calls it made of queue, completed, bindings and outdated.
TickBuild(t, waiting, done, links, pos, dated) ==
    \/ /\ \/ /\ IsCancelled(t)
             /\ requested' = requested
             /\ Update(t, Returned(tasks[t], "error"), {})
          \/ /\ ~IsCancelled(t)
             /\ requested' = Larger(requested, tasks[t].phase)
             /\ ~NeedsWork(requested', done)
             /\ Update(t, Returned(tasks[t], "done"), {})
       /\ position' = pos
       /\ completed' = done /\ bindings' = links /\ outdated' = dated
       /\ queue' = waiting
       /\ UNCHANGED pauses
    \/ /\ ~IsCancelled(t)
       /\ requested' = Larger(requested, tasks[t].phase)
       /\ NeedsWork(requested', done)
       /\ LET stops == Stops(pos, requested')
              last  == IF stops = {} THEN Larger(pos, Len(pipeline)) + 1
                       ELSE CHOOSE i \in stops : \A j \in stops : i <= j
              met   == Met(waiting, pos, last)
          IN  /\ queue' = Keep(waiting, Requests \ met)
              /\ \/ /\ stops = {}
                    /\ position' = last
                    /\ completed' = done /\ bindings' = links /\ outdated' = dated
                    /\ UNCHANGED pauses
                    /\ Update(t, Returned(tasks[t], "done"), met)
                 \/ /\ stops # {}
                    /\ Execute(t, last, met, done, links, dated)

\* ide_pipeline_tick_clean; a class that does not override clean_async clears
\* "completed".
TickClean(t, rest) ==
    /\ IF rest = << >>
       THEN /\ Update(t, Returned(tasks[t], "done"), {})
            /\ UNCHANGED <<completed, outdated>>
       ELSE LET s == rest[Len(rest)]
            IN  /\ Update(t, [tasks[t] EXCEPT !.step = "cleaning", !.stage = s, !.rest = rest], {})
                /\ completed' = IF s \in Launchers THEN completed
                                ELSE WithoutCompleted({s}, completed, bindings)
                /\ outdated' = outdated \cup (completed \ completed')
    /\ UNCHANGED <<bindings, pauses, requested>>

\* ide_pipeline_tick_rebuild: every stage is incomplete, the reaper starts.
TickRebuild(t) ==
    /\ Update(t, [tasks[t] EXCEPT !.step = "reaping"], {})
    /\ completed' = WithoutCompleted(InPipeline, completed, bindings)
    /\ outdated' = outdated \cup (completed \ completed')
    /\ UNCHANGED <<bindings, pauses, requested>>

-----------------------------------------------------------------------------
(* Requests.  Nothing but a flush runs between the flushes of one batch. *)

Reply(t, type, phase, answer) ==
    /\ tasks' = [tasks EXCEPT ![t] =
                    [Finished(@, answer) EXCEPT !.type = type, !.phase = phase]]
    /\ UNCHANGED <<queue, flushes>>

Enqueue(t, type, phase, rest) ==
    /\ tasks' = [tasks EXCEPT ![t] = [@ EXCEPT !.type = type, !.phase = phase,
                                               !.step = "queued", !.rest = rest]]
    /\ queue' = Append(queue, t)
    /\ flushes' = flushes + 1

\* The short circuit of a build: position is compared as an unsigned number,
\* and the phase of the entry with its BEFORE and AFTER bits.
AlreadyPassed(phase) ==
    /\ busy /\ ~inClean
    /\ \/ position = 0
       \/ position > Len(pipeline)
       \/ /\ position \in DOMAIN pipeline
          /\ LET s == pipeline[position]
             IN  PhaseOf[s] > phase \/ WhenceOf[s] # 1

BuildAsync(t, phase) ==
    /\ IF status # "loaded" THEN Reply(t, "build", phase, "error")
       ELSE IF AlreadyPassed(phase) THEN Reply(t, "build", phase, "done")
       ELSE Enqueue(t, "build", phase, << >>)

\* The stages to clean are fixed when the clean is asked for.
CleanAsync(t, phase) ==
    LET rest == Keep(pipeline, {s \in Stages : PhaseOf[s] >= phase})
    IN  IF status # "loaded" THEN Reply(t, "clean", phase, "error")
        ELSE IF rest = << >> THEN Reply(t, "clean", phase, "done")
        ELSE Enqueue(t, "clean", phase, rest)

RebuildAsync(t, phase) ==
    IF status # "loaded" THEN Reply(t, "rebuild", phase, "error")
    ELSE Enqueue(t, "rebuild", phase, << >>)

Request(t) ==
    /\ batch = 0 /\ tasks[t].step = "new"
    /\ \/ \E p \in BuildPhases : BuildAsync(t, p)
       \/ \E p \in CleanPhases : CleanAsync(t, p)
       \/ \E p \in RebuildPhases : RebuildAsync(t, p)
    /\ UNCHANGED <<status, ready, stageVars, busy, failed, inClean, position, requested, batch>>

\* _ide_pipeline_cancel, and the cancellable of one caller.
Cancel(S) ==
    /\ "cancel" \in Changes /\ batch = 0
    /\ \E t \in S : tasks[t].step = "queued" \/ Running(t)
    /\ tasks' = [t \in Requests |->
                    IF t \in S /\ (tasks[t].step = "queued" \/ Running(t))
                    THEN [tasks[t] EXCEPT !.cancelled = TRUE] ELSE tasks[t]]
    /\ UNCHANGED <<status, ready, stageVars, queue, busy, failed, inClean, position, requested, loopVars>>

\* ide_build_manager_build_async asks for the phase before it asks for a build.
RequestPhase(phase) ==
    /\ "request" \in Changes /\ batch = 0
    /\ requested' = Larger(requested, phase)
    /\ UNCHANGED <<status, ready, stageVars, tasks, queue, busy, failed, inClean, position, loopVars>>

-----------------------------------------------------------------------------
(* The queue *)

\* One iteration of the main loop takes every ready source of low priority;
\* a completion has a higher priority.
Iterate ==
    /\ batch = 0 /\ flushes > 0
    /\ \A t \in Requests : tasks[t].step # "returned"
    /\ batch' = flushes /\ flushes' = 0
    /\ UNCHANGED <<status, ready, stageVars, runVars>>

Flushing == batch > 0 /\ batch' = batch - 1 /\ UNCHANGED <<status, ready, unbinds, pipeline, disabled, flushes>>

\* Mutant: do_flush does not look at busy.
PopsAlways == Flushing /\ queue # << >>

\* do_flush goes on to the head of the queue.
Pops == Flushing /\ ~busy /\ queue # << >>

\* busy, or nothing to do.
FlushNothing ==
    /\ Flushing
    /\ busy \/ queue = << >>
    /\ UNCHANGED <<completed, pauses, bindings, outdated, runVars>>

\* The build directory cannot be made: every queued task fails.
FlushFails ==
    /\ Pops /\ "builddir" \in Changes
    /\ queue' = << >>
    /\ tasks' = [t \in Requests |-> IF tasks[t].step = "queued"
                                    THEN Finished(tasks[t], "error") ELSE tasks[t]]
    /\ UNCHANGED <<completed, pauses, bindings, outdated, busy, failed, inClean, position, requested>>

\* A pipeline that failed has to be rebuilt up to CONFIGURE.
Configures(t) == tasks[t].type = "build" /\ tasks[t].phase <= Configure
NeedsRebuild(t) == failed /\ Configures(t)

FlushRefuses ==
    /\ Pops
    /\ NeedsRebuild(Head(queue))
    /\ queue' = Tail(queue)
    /\ Update(Head(queue), Returned(tasks[Head(queue)], "refused"), {})
    /\ UNCHANGED <<completed, pauses, bindings, outdated, busy, failed, inClean, position, requested>>

\* The pipeline is marked busy before the task is ticked.
Begins(t) == busy' = TRUE /\ failed' = FALSE /\ inClean' = (tasks[t].type = "clean")

FlushStarts ==
    /\ Pops
    /\ LET t == Head(queue)
       IN  /\ ~NeedsRebuild(t)
           /\ Begins(t)
           /\ \/ /\ tasks[t].type = "build"
                 /\ TickBuild(t, Tail(queue), completed, bindings, 0, outdated)
              \/ /\ tasks[t].type = "clean"
                 /\ TickClean(t, tasks[t].rest)
                 /\ queue' = Tail(queue) /\ position' = 0
              \/ /\ tasks[t].type = "rebuild"
                 /\ TickRebuild(t)
                 /\ queue' = Tail(queue) /\ position' = 0

\* Mutant: the busy bit is not cleared.
ReleasesMask == UNCHANGED busy /\ inClean' = FALSE /\ requested' = 0

Releases == busy' = FALSE /\ inClean' = FALSE /\ requested' = 0

\* Mutant: the queue is not flushed after a completion.
GoesIdle(kept) == pipeline' = kept /\ UNCHANGED flushes

\* The queue is flushed; a configuration that is not ready unloads the addins.
GoesOn(kept) ==
    IF ready THEN pipeline' = kept /\ flushes' = flushes + 1
    ELSE /\ pipeline' = Keep(kept, Stages \ {Loaded[i] : i \in DOMAIN Loaded})
         /\ UNCHANGED flushes

\* A task that do_flush has popped completes.
Complete(t) ==
    /\ batch = 0 /\ tasks[t].step = "returned"
    /\ tasks' = [tasks EXCEPT ![t].step = "done"]
    /\ Releases
    /\ GoesOn(Keep(pipeline, Stages \ Transients))
    /\ UNCHANGED <<status, ready, completed, disabled, pauses, bindings, unbinds, outdated,
                   queue, failed, position, batch>>

-----------------------------------------------------------------------------
(* Stages that finish *)

\* A pause of a stage ends; the last one lets a queued build of it go on.
Unpause(s) ==
    /\ batch = 0 /\ pauses[s] > 0
    /\ pauses' = [pauses EXCEPT ![s] = @ - 1]
    /\ IF pauses[s] = 1 /\ QueuedBuild(s)
       THEN \E t \in Requests :
              /\ tasks[t].step = "paused" /\ tasks[t].stage = s
              /\ Update(t, [tasks[t] EXCEPT !.step = IF s \in completed THEN "skipped" ELSE "building"], {})
              /\ outdated' = IF s \in completed THEN outdated
                             ELSE outdated \ Covered(s, tasks[t].jumped)
       ELSE UNCHANGED <<tasks, outdated>>
    /\ UNCHANGED <<status, ready, pipeline, completed, disabled, bindings, unbinds,
                   queue, busy, failed, inClean, position, requested, loopVars>>

\* What the callback of a stage can find in its result.
Outcomes(t) ==
    IF tasks[t].cancelled \/ tasks[t].step = "pending" THEN {FALSE}
    ELSE IF tasks[t].step = "skipped" THEN {TRUE} ELSE BOOLEAN

StageBuilt(t) ==
    /\ batch = 0 /\ tasks[t].step \in {"building", "skipped", "pending"}
    /\ \E ok \in Outcomes(t) :
         LET s     == tasks[t].stage
             bad   == failed \/ ~ok
             done  == IF bad THEN WithoutCompleted({s}, completed, bindings)
                      ELSE WithCompleted({s}, completed, bindings)
             links == IF unbinds THEN {} ELSE bindings
             dated == outdated \cup (completed \ done)
         IN  /\ failed' = bad /\ unbinds' = FALSE
             /\ \/ /\ ~bad
                   /\ TickBuild(t, queue, done, links, position, dated)
                \/ /\ bad
                   /\ Update(t, IF ok THEN [tasks[t] EXCEPT !.step = "lost"]
                                ELSE Returned(tasks[t], "error"), {})
                   /\ completed' = done /\ bindings' = links /\ outdated' = dated
                   /\ UNCHANGED <<pauses, queue, position, requested>>
    /\ UNCHANGED <<status, ready, pipeline, disabled, busy, inClean, loopVars>>

StageCleaned(t) ==
    /\ batch = 0 /\ tasks[t].step = "cleaning"
    /\ \/ /\ ~tasks[t].cancelled
          /\ TickClean(t, SubSeq(tasks[t].rest, 1, Len(tasks[t].rest) - 1))
       \/ /\ Update(t, Returned(tasks[t], "error"), {})
          /\ UNCHANGED <<completed, outdated, bindings, pauses, requested>>
    /\ UNCHANGED <<status, ready, pipeline, disabled, unbinds, queue,
                   busy, failed, inClean, position, loopVars>>

Reaped(t) ==
    /\ batch = 0 /\ tasks[t].step = "reaping"
    /\ \/ /\ tasks[t].phase # 0
          /\ TickBuild(t, queue, completed, bindings, position, outdated)
       \/ /\ \/ Update(t, Returned(tasks[t], "error"), {})
             \/ tasks[t].phase = 0 /\ Update(t, Returned(tasks[t], "done"), {})
          /\ UNCHANGED <<completed, bindings, pauses, outdated, queue, position, requested>>
    /\ UNCHANGED <<status, ready, pipeline, disabled, unbinds, busy, failed, inClean, loopVars>>

-----------------------------------------------------------------------------
(* The stages change *)

Stir == tasks' = [t \in Requests |-> IF Started(t) THEN [tasks[t] EXCEPT !.quiet = FALSE]
                                     ELSE tasks[t]]

\* position is left alone.  A stage that comes back is a new object.
Attach(s) ==
    /\ "attach" \in Changes /\ batch = 0
    /\ s \in Extra \ InPipeline
    /\ \A t \in Requests : tasks[t].stage # s /\ s \notin tasks[t].jumped
                           /\ \A i \in DOMAIN tasks[t].rest : tasks[t].rest[i] # s
    /\ pipeline' = Placed(pipeline, s)
    /\ completed' = completed \ {s} /\ outdated' = outdated \cup {s}
    /\ disabled' = disabled \ {s} /\ pauses' = [pauses EXCEPT ![s] = 0]
    /\ bindings' = {l \in bindings : l[1] # s /\ l[2] # s}
    /\ Stir
    /\ UNCHANGED <<status, ready, unbinds, queue, busy, failed, inClean, position, requested, loopVars>>

Detach(s) ==
    /\ "attach" \in Changes /\ batch = 0
    /\ s \in Extra \cap InPipeline
    /\ pipeline' = Keep(pipeline, Stages \ {s})
    /\ Stir
    /\ UNCHANGED <<status, ready, completed, disabled, pauses, bindings, unbinds, outdated,
                   queue, busy, failed, inClean, position, requested, loopVars>>

InvalidatePhase(phase) ==
    /\ "invalidate" \in Changes /\ batch = 0
    /\ LET gone == {s \in InPipeline : PhaseOf[s] = phase}
       IN  /\ completed' = WithoutCompleted(gone, completed, bindings)
           /\ outdated' = outdated \cup gone \cup (completed \ completed')
    /\ Stir
    /\ UNCHANGED <<status, ready, pipeline, disabled, pauses, bindings, unbinds,
                   queue, busy, failed, inClean, position, requested, loopVars>>

SetDisabled(s) ==
    /\ "disable" \in Changes /\ batch = 0
    /\ disabled' = IF s \in disabled THEN disabled \ {s} ELSE disabled \cup {s}
    /\ Stir
    /\ UNCHANGED <<status, ready, pipeline, completed, pauses, bindings, unbinds, outdated,
                   queue, busy, failed, inClean, position, requested, loopVars>>

\* The addins are loaded, one idle after the other, and nothing is built before.
Load ==
    /\ batch = 0 /\ status = "loading"
    /\ status' \in {"loaded"} \cup (IF "broken" \in Changes THEN {"broken"} ELSE {})
    /\ UNCHANGED <<ready, stageVars, runVars, loopVars>>

\* The runtime of the configuration goes away; IdePipeline does not listen to
\* this any more and looks at "ready" when a task completes.
Unready ==
    /\ "unready" \in Changes /\ batch = 0
    /\ ready /\ ready' = FALSE
    /\ UNCHANGED <<status, stageVars, runVars, loopVars>>

-----------------------------------------------------------------------------

Init ==
    /\ status = "loading" /\ ready = TRUE
    /\ pipeline = Loaded
    /\ completed = {} /\ disabled = {} /\ outdated = Stages
    /\ pauses = [s \in Stages |-> 0]
    /\ bindings = {} /\ unbinds = TRUE
    /\ tasks = [t \in Requests |-> NewTask] /\ queue = << >>
    /\ busy = FALSE /\ failed = FALSE /\ inClean = FALSE
    /\ position = 0 /\ requested = 0
    /\ flushes = 0 /\ batch = 0

Flush == FlushNothing \/ FlushFails \/ FlushRefuses \/ FlushStarts

Next ==
    \/ Load \/ Unready \/ Iterate \/ Flush
    \/ \E t \in Requests : Request(t) \/ Cancel({t}) \/ Complete(t)
                           \/ StageBuilt(t) \/ StageCleaned(t) \/ Reaped(t)
    \/ Cancel(Requests)
    \/ \E s \in Stages : Unpause(s) \/ Attach(s) \/ Detach(s) \/ SetDisabled(s)
    \/ \E p \in Phases : RequestPhase(p) \/ InvalidatePhase(p)

Spec == Init /\ [][Next]_vars

\* The main loop dispatches every source that stays ready, the stages and the
\* reaper finish, and a handler of "query" that pauses its stage unpauses it.
Fairness ==
    /\ WF_vars(Iterate) /\ WF_vars(Flush)
    /\ \A t \in Requests : /\ WF_vars(Complete(t)) /\ WF_vars(StageBuilt(t))
                           /\ WF_vars(StageCleaned(t)) /\ WF_vars(Reaped(t))
    /\ \A s \in Stages : WF_vars(Unpause(s))

FairSpec == Spec /\ Fairness

-----------------------------------------------------------------------------
(* Properties *)

StageType ==
    /\ pipeline \in Seq(Stages)
    /\ completed \subseteq Stages /\ disabled \subseteq Stages /\ outdated \subseteq Stages
    /\ pauses \in [Stages -> 0..MaxPauses]
    /\ bindings \subseteq Stages \X Stages /\ unbinds \in BOOLEAN

TaskType == tasks \in [Requests -> Task] /\ queue \in Seq(Requests)

RunType ==
    /\ status \in {"loading", "loaded", "broken"} /\ ready \in BOOLEAN
    /\ busy \in BOOLEAN /\ failed \in BOOLEAN /\ inClean \in BOOLEAN
    /\ position \in Nat /\ requested \in 0..MaxPhase
    /\ flushes \in Nat /\ batch \in Nat

\* Types of the variables.
TypeOK == StageType /\ TaskType /\ RunType

NoneRefused == \A t \in Requests : tasks[t].answer # "refused"

\* busy protects the pipeline: as long as do_flush has refused no build, one
\* task at most is between its start and its completion, and busy says so.
OneAtATime ==
    NoneRefused => \A a, b \in Requests : Started(a) /\ Started(b) => a = b /\ busy

\* "If we are within a build, this should be set" (ide-pipeline.c:299): while a
\* task executes, which one that was refused never does, the pipeline is busy and
\* no flush takes another task.
BusyWithinABuild == \A t \in Requests : Running(t) /\ tasks[t].step # "lost" => busy

\* While the configuration is ready, a queue that is not empty will be flushed,
\* by a source that is pending or by the completion of a task that was started:
\* busy alone, which turns every flush away, is never what is left.
NobodyForgotten ==
    ready /\ queue # << >> => flushes + batch > 0 \/ \E t \in Requests : Started(t)

\* "completed" is set after the pipeline has processed the stage, and stages
\* whose phase was invalidated are built by the next execution: a completed
\* stage was started, or found up to date, since it was last incomplete.  (After
\* a refusal a rebuild may start while a build runs, which then completes the
\* stages the rebuild has reset.)
CompletedMeansBuilt == NoneRefused => completed \cap outdated = {}

Returns(t) == tasks'[t].step = "returned" /\ tasks[t].step # "returned"

\* A build or rebuild that is executed and answers TRUE leaves every enabled
\* stage up to its phase complete, if nobody changes the stages meanwhile.
DoneMeansBuilt ==
    [][\A t \in Requests :
         Returns(t) /\ tasks'[t].answer = "done" /\ tasks[t].type # "clean"
           /\ tasks[t].quiet /\ NoneRefused
         => \A s \in InPipeline \ disabled : PhaseOf[s] <= tasks[t].phase => s \in completed'
      ]_vars

\* A queued build that the walk of another request completes finds complete
\* every enabled stage up to its phase that the walk was asked to execute.
EarlyMeansBuilt ==
    [][\A t \in Requests :
         /\ tasks[t].step = "queued" /\ tasks[t].type = "build" /\ tasks'[t].answer = "done"
         /\ NoneRefused /\ \A r \in Requests : Started(r) => tasks[r].quiet
         => \A s \in InPipeline \ disabled :
               PhaseOf[s] <= tasks[t].phase /\ PhaseOf[s] <= requested' => s \in completed'
      ]_vars

\* The stages are built in the order of the pipeline: when one is started all
\* enabled ones before it are complete, if nobody changes the stages meanwhile.
InOrder ==
    [][\A t \in Requests :
         /\ tasks'[t].stage # tasks[t].stage
         /\ tasks'[t].step \in {"paused", "building", "skipped"}
         /\ tasks[t].quiet /\ NoneRefused
         => \A i, j \in DOMAIN pipeline :
               i < j /\ pipeline[j] = tasks'[t].stage /\ pipeline[i] \notin disabled
                 => pipeline[i] \in completed'
      ]_vars

\* No request waits for ever while the configuration stays ready, unless a build
\* was refused.
EveryRequestAnswered ==
    \A t \in Requests :
        []<>(\/ tasks[t].step = "new" \/ tasks[t].answer # "none"
             \/ ~ready \/ ~NoneRefused)

\* How a request looks from outside: what its task holds is no answer before
\* the task has returned.
Place(step) ==
    CASE step = "new" -> "idle"
      [] step = "queued" -> "waiting"
      [] step = "returned" -> "returned"
      [] step = "done" -> "answered"
      [] step = "lost" -> "lost"
      [] OTHER -> "running"

Seen(task) == [place  |-> Place(task.step),
               answer |-> IF task.step \in {"returned", "done"} THEN task.answer ELSE "none"]

Queue == INSTANCE RequestQueue WITH
    call <- [t \in Requests |-> Seen(tasks[t])], line <- queue,
    configures <- {t \in Requests : Configures(t)}

\* However the stages fail, pause, chain and change and whoever is cancelled,
\* the requests see a queue: ide_pipeline_do_flush takes its head, only one
\* at a time, no walk answers a request that is not waiting or twice, and who is
\* refused is told so when the build before it has failed, not later.
ServesAQueue == Queue!Spec

=============================================================================

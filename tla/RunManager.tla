----------------------------- MODULE RunManager -----------------------------
(***************************************************************************)
(* IdeRunManager (src/libide/foundry/ide-run-manager.c) together with the  *)
(* build manager it runs the pipeline of: a run installs through the build *)
(* manager, discovers its command, deploys, spawns the application and     *)
(* waits for it.  The install of a run is the build of the same name.      *)
(*                                                                         *)
(* The cancellable of a run is its own.  It is chained to the one of the   *)
(* run manager, and by build_async also to the one of the build manager;   *)
(* the chain lasts as long as the run does.                                *)
(***************************************************************************)
EXTENDS BuildManager, FiniteSets

CONSTANTS
    Runs,   \* calls of ide_run_manager_run_async
    NoRun   \* a value that is not a run

ASSUME RunManagerAssumption == Runs \subseteq Keeping /\ NoRun \notin Builds

VARIABLES
    runs,       \* every run
    active,     \* self->busy, a counter
    current,    \* current_subprocess: the run whose process it is
    sentSignal,
    stoppable,  \* the runs chained to self->cancellable
    stopping,   \* those a pending do_cancel_in_timeout will cancel
    process,    \* the application of each run
    aborted     \* the g_assert that failed, of the pipeline's "context" or "strategy"

runVars == <<runs, active, current, sentSignal, stoppable, stopping, process, aborted>>
vars == <<buildVars, runVars>>

Run == [step: {"new", "installing", "installed", "discovering", "deploying",
               "waiting", "returned", "ended"},
        pipe: 0..MaxPipelines, ok: BOOLEAN]

TypeOK ==
    /\ BuildTypeOK
    /\ runs \in [Runs -> Run]
    /\ active \in Nat
    /\ current \in Runs \cup {NoRun}
    /\ sentSignal \in BOOLEAN /\ aborted \in {"no", "context", "strategy"}
    /\ stoppable \subseteq Runs /\ stopping \subseteq Runs
    /\ process \in [Runs -> {"none", "running", "signalled", "killed", "exited"}]

Init ==
    /\ BuildInit
    /\ runs = [r \in Runs |-> [step |-> "new", pipe |-> 0, ok |-> FALSE]]
    /\ active = 0 /\ current = NoRun /\ sentSignal = FALSE
    /\ stoppable = {} /\ stopping = {}
    /\ process = [r \in Runs |-> "none"]
    /\ aborted = "no"

\* A run under way; it is over when its task has completed.
UnderWay(r) == runs[r].step \notin {"new", "ended"}

Moved(r, step) == runs' = [runs EXCEPT ![r].step = step]

-----------------------------------------------------------------------------
(* A run *)

\* Mutant: self->busy is not looked at.
BusyUnchecked == FALSE

\* ide_run_manager_check_busy.
CheckBusy == active > 0

\* Mutant: a run is counted once and discounted twice.
UnmarkBusyTwice == active' = active - 2

MarkBusy   == active' = active + 1
UnmarkBusy == active' = active - 1

\* ide_run_manager_run_async and install_async: without install-before-run the
\* build manager is not asked for anything.  (Nor would it be if no file had
\* changed since the last install, but has_installed_once is never set.)
\* "restart" and the profiler do not look at canBuild.
RunAsync(r, installs) ==
    /\ runs[r].step = "new"
    /\ sentSignal' = FALSE
    /\ IF CheckBusy
       THEN /\ Moved(r, "ended")
            /\ UNCHANGED <<active, stoppable, buildVars>>
       ELSE /\ MarkBusy
            /\ stoppable' = stoppable \cup {r}
            /\ \/ /\ pipeline = 0
                  /\ Moved(r, "returned")
                  /\ UNCHANGED buildVars
               \/ /\ pipeline # 0 /\ installs
                  /\ runs' = [runs EXCEPT ![r].step = "installing", ![r].pipe = pipeline]
                  /\ BuildAsync(r, FALSE)
               \/ /\ pipeline # 0 /\ ~installs
                  /\ runs' = [runs EXCEPT ![r] = [step |-> "installed", pipe |-> pipeline,
                                                  ok |-> TRUE]]
                  /\ UNCHANGED buildVars
    /\ UNCHANGED <<current, stopping, process, aborted>>

\* ide_run_manager_install_cb.
InstallCb(r) ==
    /\ runs[r].step = "installing" /\ builds[r].answer # "none"
    /\ runs' = [runs EXCEPT ![r].step = "installed", ![r].ok = builds[r].answer = "done"]
    /\ UNCHANGED <<buildVars, active, current, sentSignal, stoppable, stopping, process, aborted>>

\* Mutant: the finish functions do not look at the cancellable.
GoesAnyway(r) == r \in Runs

\* The finish function of a task of the run fails once it is cancelled.
Goes(r) == r \notin cancelled

\* ide_run_manager_run_install_cb.
RunInstallCb(r) ==
    /\ runs[r].step = "installed"
    /\ Moved(r, IF runs[r].ok /\ Goes(r) THEN "discovering" ELSE "returned")
    /\ UNCHANGED <<buildVars, active, current, sentSignal, stoppable, stopping, process, aborted>>

\* The assertions of ide_run_manager_run_discover_run_command_cb: a pipeline
\* that was destroyed has no context, and one that is not loaded no strategy.
Failing(p) == IF p # pipeline THEN "context" ELSE IF strategy[p] # "ready" THEN "strategy" ELSE "no"

DiscoverCb(r) ==
    /\ runs[r].step = "discovering"
    /\ \/ /\ Goes(r)
          /\ aborted' = Failing(runs[r].pipe)
          /\ IF aborted' = "no" THEN Moved(r, "deploying") ELSE UNCHANGED runs
       \/ /\ Moved(r, "returned")
          /\ UNCHANGED aborted
    /\ UNCHANGED <<buildVars, active, current, sentSignal, stoppable, stopping, process>>

\* ide_run_manager_run_deploy_cb.
DeployCb(r) ==
    /\ runs[r].step = "deploying"
    /\ \/ /\ Goes(r)
          /\ Moved(r, "waiting")
          /\ process' = [process EXCEPT ![r] = "running"]
          /\ current' = r
       \/ /\ Moved(r, "returned")
          /\ UNCHANGED <<process, current>>
    /\ UNCHANGED <<buildVars, active, sentSignal, stoppable, stopping, aborted>>

\* ide_run_manager_run_subprocess_wait_check_cb: the process has exited, or
\* nobody waits for it any more.
WaitCb(r) ==
    /\ runs[r].step = "waiting"
    /\ process[r] = "exited" \/ r \in cancelled
    /\ Moved(r, "returned")
    /\ current' = NoRun
    /\ UNCHANGED <<buildVars, active, sentSignal, stoppable, stopping, process, aborted>>

\* The cancellable goes with the task, and its chains with it.
Unchained(r) ==
    /\ cancelled' = cancelled \ {r} /\ chained' = chained \ {r}
    /\ stoppable' = stoppable \ {r} /\ stopping' = stopping \ {r}

\* "notify::completed" of the task.
Ended(r) ==
    /\ runs[r].step = "returned"
    /\ Moved(r, "ended")
    /\ UnmarkBusy
    /\ Unchained(r)
    /\ UNCHANGED <<managerVars, setupVars, builds, pipelineVars,
                   current, sentSignal, process, aborted>>

-----------------------------------------------------------------------------
(* The user and the application *)

\* ide_run_manager_cancel: the signal is sent the first time and the exit is
\* forced the next; the cancellable is left to a timeout.
Stop ==
    /\ active > 0
    /\ IF current = NoRun
       THEN UNCHANGED <<process, sentSignal>>
       ELSE /\ sentSignal' = TRUE
            /\ process' = [process EXCEPT ![current] =
                 IF @ = "exited" THEN @ ELSE IF sentSignal THEN "killed" ELSE "signalled"]
    /\ stopping' = stopping \cup stoppable
    /\ stoppable' = {}
    /\ UNCHANGED <<buildVars, runs, active, current, aborted>>

\* Mutant: the timeout has the new cancellable.
NotCancelled == UNCHANGED cancelled

CancelStopping == cancelled' = cancelled \cup stopping

\* do_cancel_in_timeout.
StopTimeout ==
    /\ stopping # {}
    /\ CancelStopping
    /\ stopping' = {}
    /\ UNCHANGED <<managerVars, setupVars, builds, chained, pipelineVars,
                   runs, active, current, sentSignal, stoppable, process, aborted>>

\* The application exits; the first signal need not make it.
Exit(r) ==
    /\ process[r] \in {"running", "signalled", "killed"}
    /\ process' = [process EXCEPT ![r] = "exited"]
    /\ UNCHANGED <<buildVars, runs, active, current, sentSignal, stoppable, stopping, aborted>>

Progress(r) ==
    InstallCb(r) \/ RunInstallCb(r) \/ DiscoverCb(r) \/ DeployCb(r) \/ WaitCb(r) \/ Ended(r)

Next ==
    /\ aborted = "no"
    /\ \/ BuildNext /\ UNCHANGED runVars
       \/ \E r \in Runs, installs \in BOOLEAN : RunAsync(r, installs)
       \/ \E r \in Runs : Progress(r) \/ Exit(r)
       \/ Stop \/ StopTimeout

Spec == Init /\ [][Next]_vars

\* As for the build manager; the plugins that are asked for the commands and
\* to deploy answer.
FairSpec ==
    /\ Spec
    /\ BuildFairness
    /\ WF_vars(StopTimeout)
    /\ \A r \in Runs : WF_vars(Progress(r))

-----------------------------------------------------------------------------
(* Properties *)

\* One application at most is started at a time, the counter that says so
\* returns to 0, and a process the manager holds is the one of the run that
\* waits for it.
OneRunAtATime ==
    /\ active = Cardinality({r \in Runs : UnderWay(r)})
    /\ active <= 1
    /\ current # NoRun => runs[current].step = "waiting"

\* An application that was installed is started on the pipeline that is
\* current: when that is replaced while it is installed, discovered or
\* deployed, the run ends.
RunIsCurrent ==
    [][\A r \in Runs :
         /\ runs[r].step \in {"discovering", "deploying"}
         /\ runs'[r].step \in {"deploying", "waiting"} /\ runs'[r] # runs[r]
         /\ builds[r].step # "new"
         => runs[r].pipe = pipeline]_vars

\* A run that is stopped ends, whatever it is doing and whether or not the
\* application listens to the signal.
StopEndsTheRun == \A r \in Runs : r \in stopping ~> runs[r].step = "ended" \/ aborted # "no"

\* "g_assert (IDE_IS_CONTEXT (context))" of ide_run_manager_run_discover_run_
\* command_cb (ide-run-manager.c:1056): the pipeline a run was made for is not
\* destroyed while its command is discovered.
ContextIsAlive == aborted # "context"

=============================================================================

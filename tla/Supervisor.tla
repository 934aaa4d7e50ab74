------------------------------ MODULE Supervisor ------------------------------
(***************************************************************************)
(* IdeSubprocessSupervisor                                                 *)
(* (src/libide/threading/ide-subprocess-supervisor.c): it keeps a helper   *)
(* process alive.  A process that exits is spawned again, at once when the *)
(* last spawn is longer ago than the threshold and from a timeout          *)
(* otherwise; stop kills it and forgets the timeout.                       *)
(*                                                                         *)
(* A process goes from "none" to "running", to "killed" when the           *)
(* supervisor forces its exit, to "exited" when it is dead and the wait    *)
(* has not been dispatched, and back to "none" in the callback of the      *)
(* wait.  The time since the last spawn is counted up to the threshold.    *)
(*                                                                         *)
(* Every user sets the launcher before the first start, and those that     *)
(* stop a supervisor leave it set, so that it is not part of the state.    *)
(***************************************************************************)
EXTENDS Naturals, FiniteSets

CONSTANTS
    Processes,  \* the processes there may be at a time
    NoProcess,  \* a value that is not a process
    Threshold   \* RATE_LIMIT_THRESHOLD_SECONDS

ASSUME ProcessesAssumption ==
    /\ IsFiniteSet(Processes)
    /\ NoProcess \notin Processes
    /\ Threshold \in Nat \ {0}

VARIABLES
    supervising,
    current,    \* priv->subprocess
    timer,      \* restart_timeout: 0 is none, n + 1 is due in n
    age,        \* time since last_spawn_time, at most Threshold
    process     \* what has become of each process

supervisorVars == <<supervising, current, timer, age, process>>

SupervisorTypeOK ==
    /\ supervising \in BOOLEAN
    /\ current \in Processes \cup {NoProcess}
    /\ timer \in 0..Threshold + 1
    /\ age \in 0..Threshold
    /\ process \in [Processes -> {"none", "running", "killed", "exited"}]

\* last_spawn_time is 0 at first, which is long ago.
SupervisorInit ==
    /\ supervising = FALSE
    /\ current = NoProcess
    /\ timer = 0
    /\ age = Threshold
    /\ process = [p \in Processes |-> "none"]

-----------------------------------------------------------------------------

\* ide_subprocess_supervisor_reset: forcing the exit of a process that is
\* dead already does nothing.
Reset(processes) ==
    [p \in Processes |-> IF p = current /\ processes[p] = "running"
                         THEN "killed" ELSE processes[p]]

\* What spawn may return: a new process, or NoProcess for an error.
Outcomes == {p \in Processes : process[p] = "none"} \cup {NoProcess}

\* ide_subprocess_supervisor_start past its guards, and "supervise".  A
\* failure is logged and leaves supervising set with nothing to supervise.
Spawn(processes, p) ==
    /\ supervising' = TRUE
    /\ current' = p
    /\ IF p = NoProcess
       THEN /\ process' = processes
            /\ UNCHANGED age
       ELSE /\ process' = [processes EXCEPT ![p] = "running"]
            /\ age' = 0

\* ide_subprocess_supervisor_start called by the user.
Start(p) ==
    /\ ~supervising
    /\ Spawn(Reset(process), p)
    /\ UNCHANGED timer

\* The process ends of its own, or because it was killed.
Die(p) ==
    /\ process[p] \in {"running", "killed"}
    /\ process' = [process EXCEPT ![p] = "exited"]
    /\ UNCHANGED <<supervising, current, timer, age>>

\* Mutant: the time of the last spawn does not matter.
RestartsAtOnce(p) == p = current /\ supervising

\* ide_subprocess_supervisor_needs_rate_limit is asked of a process that is
\* still the current one.
Restarts(p) == p = current /\ supervising /\ age = Threshold

\* The timeout of a process that died before the threshold.
Delay == Threshold - age + 1

\* ide_subprocess_supervisor_wait_cb.
Reap(p, next) ==
    LET rest == [process EXCEPT ![p] = "none"]
    IN  /\ process[p] = "exited"
        /\ \/ /\ Restarts(p)
              /\ Spawn(rest, next)
              /\ UNCHANGED timer
           \/ /\ ~Restarts(p)
              /\ next = NoProcess
              /\ process' = rest
              /\ current' = IF p = current THEN NoProcess ELSE current
              /\ timer' = IF p = current /\ supervising
                          THEN Delay ELSE timer
              /\ UNCHANGED <<supervising, age>>

\* ide_subprocess_supervisor_start_in_usec_cb.
Fire(next) ==
    /\ timer = 1
    /\ timer' = 0
    /\ Spawn(Reset(process), next)

\* Mutant: stop leaves the timeout.
StillArmed == UNCHANGED timer

Disarmed == timer' = 0

\* ide_subprocess_supervisor_stop.
Stop ==
    /\ Disarmed
    /\ supervising' = FALSE
    /\ IF supervising
       THEN /\ process' = Reset(process)
            /\ current' = NoProcess
       ELSE UNCHANGED <<process, current>>
    /\ UNCHANGED age

Tick ==
    /\ age < Threshold \/ timer > 1
    /\ age' = IF age < Threshold THEN age + 1 ELSE age
    /\ timer' = IF timer > 1 THEN timer - 1 ELSE timer
    /\ UNCHANGED <<supervising, current, process>>

-----------------------------------------------------------------------------
(* The supervisor on its own, whose user starts and stops it at any time *)

SupervisorNext ==
    \/ \E next \in Outcomes : Start(next) \/ Fire(next)
    \/ \E p \in Processes, next \in Outcomes : Reap(p, next)
    \/ \E p \in Processes : Die(p)
    \/ Stop
    \/ Tick

SupervisorSpec == SupervisorInit /\ [][SupervisorNext]_supervisorVars

-----------------------------------------------------------------------------
(* Properties *)

\* No process runs that the supervisor does not know of or has been told to
\* stop, and no timeout is left that would spawn one: what it forgets, it
\* has killed (the assertion in ide_subprocess_supervisor_start_in_usec_cb).
NoStrayProcess ==
    /\ \A p \in Processes : process[p] = "running" => supervising /\ p = current
    /\ timer # 0 => supervising /\ current = NoProcess

\* A process that keeps crashing is not spawned in a tight loop: whatever
\* restarts, stops and timeouts there were, a spawn that the user did not
\* ask for is the threshold away from the one before.
RespawnsAreSpaced ==
    [][supervising /\ current' \notin {current, NoProcess} => age = Threshold]_supervisorVars

=============================================================================

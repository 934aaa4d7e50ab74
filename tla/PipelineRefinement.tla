------------------------- MODULE PipelineRefinement -------------------------
(***************************************************************************)
(* The proof that IdePipeline serves its requests as RequestQueue says:    *)
(* every step of Pipeline is a step of the queue, or none.                 *)
(***************************************************************************)
EXTENDS PipelineProofs

-----------------------------------------------------------------------------
(***************************************************************************)
(* The mapping.                                                            *)
(***************************************************************************)

\* Where a task stands decides how it is seen.
LEMMA SeenTask ==
    ASSUME NEW task \in Task
    PROVE  /\ task.step = "new" => Seen(task) = Queue!At("idle", "none")
           /\ task.step = "queued" => Seen(task) = Queue!At("waiting", "none")
           /\ task.step = "returned" => Seen(task) = Queue!At("returned", task.answer)
           /\ task.step = "done" => Seen(task) = Queue!At("answered", task.answer)
           /\ task.step = "lost" => Seen(task) = Queue!At("lost", "none")
           /\ task.step \notin {"new", "queued", "returned", "done", "lost"}
                 => Seen(task) = Queue!At("running", "none")
BY DEF Seen, Place, Queue!At

\* ... and of a task that is seen the place is known.
LEMMA SeenPlace ==
    ASSUME NEW task \in Task
    PROVE  /\ task.step = "new" => Seen(task).place = "idle"
           /\ task.step = "queued" <=> Seen(task).place = "waiting"
           /\ task.step = "returned" => Seen(task).place = "returned"
           /\ task.step \notin {"new", "queued", "returned", "done", "lost"} => Seen(task).place = "running"
BY DEF Seen, Place

call == [t \in Requests |-> Seen(tasks[t])]
configures == {t \in Requests : Configures(t)}

\* What a request is for does not change once it is made.
SameKind(t) == tasks'[t].type = tasks[t].type /\ tasks'[t].phase = tasks[t].phase
AllSameKind == \A r \in Requests : SameKind(r)

LEMMA SameConfigures == ASSUME AllSameKind PROVE configures' = configures
BY DEF AllSameKind, SameKind, configures, Configures

LEMMA UpdateKinds ==
    ASSUME TaskType, NEW t \in Requests, NEW new, NEW met, Update(t, new, met),
           new.type = tasks[t].type /\ new.phase = tasks[t].phase
    PROVE  AllSameKind
<1>1. \A r \in Requests : /\ Finished(tasks[r], "done").type = tasks[r].type
                          /\ Finished(tasks[r], "done").phase = tasks[r].phase
  BY DEF TaskType, Task, Finished, Returned
<1>2. \A r \in Requests : tasks'[r] = IF r = t THEN new
                                      ELSE IF r \in met THEN Finished(tasks[r], "done")
                                      ELSE tasks[r]
  BY DEF Update
<1> QED BY <1>1, <1>2 DEF AllSameKind, SameKind

LEMMA ReturnKinds ==
    ASSUME TaskType, NEW t \in Requests, NEW answer, NEW met, Update(t, Returned(tasks[t], answer), met)
    PROVE  AllSameKind
<1> DEFINE new == Returned(tasks[t], answer)
<1>1. new.type = tasks[t].type /\ new.phase = tasks[t].phase
  BY DEF TaskType, Task, Returned
<1> HIDE DEF new
<1>2. Update(t, new, met)
  BY DEF new
<1> QED BY <1>1, <1>2, UpdateKinds

LEMMA ExecuteKinds ==
    ASSUME TaskType, NEW t \in Requests, NEW i, NEW met, NEW done, NEW links, NEW dated,
           Execute(t, i, met, done, links, dated)
    PROVE  AllSameKind
<1> DEFINE s == pipeline[i]
           joined == {pipeline[k] : k \in Chained(i, requested')}
           task == [tasks[t] EXCEPT !.stage = s, !.jumped = @ \cup joined]
           New(step) == [task EXCEPT !.step = step]
<1>1. \A step : New(step).type = tasks[t].type /\ New(step).phase = tasks[t].phase
  BY DEF TaskType, Task
<1>2. \E step : Update(t, New(step), met)
  BY DEF Execute
<1> HIDE DEF New
<1> QED BY <1>1, <1>2, UpdateKinds

LEMMA TickBuildKinds ==
    ASSUME TaskType, NEW t \in Requests, NEW waiting, NEW done, NEW links, NEW pos, NEW dated,
           TickBuild(t, waiting, done, links, pos, dated)
    PROVE  AllSameKind
<1>1. \/ \E answer, met : Update(t, Returned(tasks[t], answer), met)
      \/ \E i, met : Execute(t, i, met, done, links, dated)
  BY DEF TickBuild
<1> QED BY <1>1, ReturnKinds, ExecuteKinds

LEMMA TickKinds ==
    ASSUME TaskType, NEW t \in Requests,
           TickRebuild(t) \/ \E rest : TickClean(t, rest)
    PROVE  AllSameKind
<1>1. CASE TickRebuild(t)
  <2> DEFINE new == [tasks[t] EXCEPT !.step = "reaping"]
  <2>1. new.type = tasks[t].type /\ new.phase = tasks[t].phase
    BY DEF TaskType, Task
  <2>2. Update(t, new, {})
    BY <1>1 DEF TickRebuild
  <2> HIDE DEF new
  <2> QED BY <2>1, <2>2, UpdateKinds
<1>2. ASSUME NEW rest, TickClean(t, rest) PROVE AllSameKind
  <2> DEFINE New(s) == [tasks[t] EXCEPT !.step = "cleaning", !.stage = s, !.rest = rest]
  <2>1. \A s : New(s).type = tasks[t].type /\ New(s).phase = tasks[t].phase
    BY DEF TaskType, Task
  <2>2. Update(t, Returned(tasks[t], "done"), {}) \/ \E s : Update(t, New(s), {})
    BY <1>2 DEF TickClean
  <2> HIDE DEF New
  <2> QED BY <2>1, <2>2, UpdateKinds, ReturnKinds
<1> QED BY <1>1, <1>2

\* A step after which every request looks as it did.
LEMMA LooksTheSame ==
    ASSUME TaskType, tasks' \in [Requests -> Task], AllSameKind,
           \A r \in Requests :
              /\ tasks'[r].answer = tasks[r].answer
              /\ \/ tasks'[r].step = tasks[r].step
                 \/ /\ tasks[r].step = "paused"
                    /\ tasks'[r].step \in {"skipped", "building"},
           UNCHANGED <<queue, busy, failed>>
    PROVE  UNCHANGED Queue!vars
<1>1. \A r \in Requests : Seen(tasks'[r]) = Seen(tasks[r])
  BY DEF Seen, Place
<1>2. call' = call
  BY <1>1 DEF call
<1>3. configures' = configures
  BY SameConfigures
<1> QED BY <1>2, <1>3 DEF Queue!vars, call, configures

\* A step of t that completes those of met.
LEMMA MetMaps ==
    ASSUME NEW t \in Requests, NEW waiting \in Seq(Requests),
           NEW met \in SUBSET {waiting[j] : j \in DOMAIN waiting},
           tasks' \in [Requests -> Task],
           \A r \in Requests \ {t} :
              /\ r \in met => tasks'[r].step = "done" /\ tasks'[r].answer = "done"
              /\ r \notin met => tasks'[r] = tasks[r],
           queue' = Keep(waiting, Requests \ met) \/ (met = {} /\ queue' = waiting)
    PROVE  Queue!Moves(t, Seen(tasks'[t]), waiting, met)
<1> DEFINE outcome == Seen(tasks'[t])
<1>1. \A x \in Requests : Seen(tasks'[x]) = IF x = t THEN outcome
                                            ELSE IF x \in met THEN Queue!At("answered", "done")
                                            ELSE Seen(tasks[x])
  BY SeenTask
<1> HIDE DEF outcome
<1>2. call' = [x \in Requests |-> IF x = t THEN outcome
                                  ELSE IF x \in met THEN Queue!At("answered", "done")
                                  ELSE call[x]]
  BY <1>1 DEF call
<1>3. queue' = Keep(waiting, Requests \ met)
  <2>1. CASE met = {} /\ queue' = waiting
    <3>1. Requests \ met = Requests
      BY <2>1
    <3> QED BY <2>1, <3>1, KeepAll
  <2> QED BY <2>1
<1>4. Keep(waiting, Requests \ met) = Queue!Keep(waiting, Requests \ met)
  BY DEF Keep, Queue!Keep, Cardinality, Queue!Cardinality
<1>5. Queue!Moves(t, outcome, waiting, met)
  BY <1>2, <1>3, <1>4 DEF Queue!Moves, call
<1> QED BY <1>5 DEF outcome

\* A tick serves its task.
LEMMA MovesServe ==
    ASSUME NEW t \in Requests, NEW waiting \in Seq(Requests), Moves(t, waiting), Settles(t)
    PROVE  \E outcome \in Queue!Outcomes, met \in SUBSET Requests : Queue!Moves(t, outcome, waiting, met)
<1>1. /\ tasks' \in [Requests -> Task]
      /\ tasks'[t].step \notin {"new", "queued", "done", "lost"}
  BY DEF Moves, Settles
<1>2. PICK met \in SUBSET {waiting[j] : j \in DOMAIN waiting} :
         /\ \A r \in Requests \ {t} :
               /\ r \in met => tasks'[r].step = "done" /\ tasks'[r].answer = "done"
               /\ r \notin met => tasks'[r] = tasks[r]
         /\ queue' = Keep(waiting, Requests \ met) \/ (met = {} /\ queue' = waiting)
  BY DEF Moves
<1> DEFINE outcome == Seen(tasks'[t])
<1>3. outcome \in Queue!Outcomes
  <2>1. CASE tasks'[t].step = "returned"
    BY <1>1, <2>1, SeenTask DEF Queue!Outcomes, Settles
  <2>2. CASE tasks'[t].step # "returned"
    BY <1>1, <2>2, SeenTask DEF Queue!Outcomes
  <2> QED BY <2>1, <2>2
<1>4. Queue!Moves(t, outcome, waiting, met)
  BY <1>1, <1>2, MetMaps
<1>5. met \in SUBSET Requests
  OBVIOUS
<1> HIDE DEF outcome
<1> QED BY <1>3, <1>4, <1>5

\* A step of t that does nothing else.
LEMMA AloneMaps ==
    ASSUME TaskType, NEW t \in Requests, NEW new \in Task, NEW waiting \in Seq(Requests),
           Update(t, new, {}), queue' = waiting
    PROVE  Queue!Moves(t, Seen(new), waiting, {})
<1>1. {} \in SUBSET Requests /\ {} \in SUBSET {waiting[j] : j \in DOMAIN waiting}
  OBVIOUS
<1>2. /\ tasks' \in [Requests -> Task] /\ tasks'[t] = new
      /\ \A r \in Requests \ {t} : tasks'[r] = tasks[r]
  BY <1>1, UpdateEffect
<1>3. Queue!Moves(t, Seen(tasks'[t]), waiting, {})
  BY <1>1, <1>2, MetMaps
<1> QED BY <1>2, <1>3

-----------------------------------------------------------------------------
(***************************************************************************)
(* The steps.                                                              *)
(***************************************************************************)

LEMMA RequestMaps ==
    ASSUME IInv, NEW t \in Requests, Request(t)
    PROVE  Queue!Ask(t) \/ Queue!Reply(t)
<1>1. tasks \in [Requests -> Task] /\ tasks[t] \in Task /\ tasks[t].step = "new"
  BY DEF IInv, TypeOK, TaskType, Request
<1>2. call[t].place = "idle"
  BY <1>1, SeenPlace DEF call
<1>3. UNCHANGED <<busy, failed>>
  BY DEF Request
<1>4. ASSUME NEW new, tasks' = [tasks EXCEPT ![t] = new] PROVE Queue!Says(t)
  <2>1. \A r \in Requests \ {t} : Configures(r)' = Configures(r)
    BY <1>1, <1>4 DEF Configures
  <2>2. configures' = configures \cup {t} \/ configures' = configures \ {t}
    BY <2>1 DEF configures
  <2> QED BY <2>2 DEF Queue!Says, configures
<1> DEFINE Types == {"build", "clean", "rebuild"}
<1>5. ASSUME NEW type, NEW phase, NEW answer \in {"done", "error"}, Reply(t, type, phase, answer)
      PROVE  Queue!Reply(t)
  <2> DEFINE new == [Finished(tasks[t], answer) EXCEPT !.type = type, !.phase = phase]
             old == Finished(tasks[t], answer)
  <2>1. old \in Task /\ old.step = "done" /\ old.answer = answer
    BY <1>1, FinishedType DEF Answers
  <2>2. new = [old EXCEPT !.type = type, !.phase = phase]
    OBVIOUS
  <2> HIDE DEF old
  <2>3. new.step = "done" /\ new.answer = answer
    BY <2>1, <2>2 DEF Task
  <2>4. tasks' = [tasks EXCEPT ![t] = new] /\ UNCHANGED queue
    BY <1>5 DEF Reply, old
  <2> HIDE DEF new
  <2>5. Seen(new) = Queue!At("answered", answer)
    BY <2>3 DEF Seen, Place, Queue!At
  <2>6. call' = [call EXCEPT ![t] = Queue!At("answered", answer)]
    BY <1>1, <2>4, <2>5 DEF call
  <2> QED BY <1>2, <1>3, <1>4, <2>4, <2>6 DEF Queue!Reply, call
<1>6. ASSUME NEW type, NEW phase, NEW rest, Enqueue(t, type, phase, rest)
      PROVE  Queue!Ask(t)
  <2> DEFINE new == [tasks[t] EXCEPT !.type = type, !.phase = phase, !.step = "queued", !.rest = rest]
  <2>1. new.step = "queued"
    BY <1>1 DEF Task
  <2>2. tasks' = [tasks EXCEPT ![t] = new] /\ queue' = Append(queue, t)
    BY <1>6 DEF Enqueue
  <2> HIDE DEF new
  <2>3. Seen(new) = Queue!At("waiting", "none")
    BY <2>1 DEF Seen, Place, Queue!At
  <2>4. call' = [call EXCEPT ![t] = Queue!At("waiting", "none")]
    BY <1>1, <2>2, <2>3 DEF call
  <2> QED BY <1>2, <1>3, <1>4, <2>2, <2>4 DEF Queue!Ask, call
<1>7. CASE \E p \in BuildPhases : BuildAsync(t, p)
  BY <1>5, <1>6, <1>7 DEF BuildAsync
<1>8. CASE \E p \in CleanPhases : CleanAsync(t, p)
  BY <1>5, <1>6, <1>8 DEF CleanAsync
<1>9. CASE \E p \in RebuildPhases : RebuildAsync(t, p)
  BY <1>5, <1>6, <1>9 DEF RebuildAsync
<1> QED BY <1>7, <1>8, <1>9 DEF Request

LEMMA FlushStartsMaps ==
    ASSUME IInv, FlushStarts
    PROVE  Queue!Take
<1> DEFINE t == Head(queue)
           rest == Tail(queue)
<1>1. queue # << >> /\ ~busy /\ busy' = TRUE /\ failed' = FALSE /\ ~(failed /\ Configures(t))
  BY DEF FlushStarts, Pops, Begins, NeedsRebuild
<1>2. t \in Requests /\ rest \in Seq(Requests) /\ TaskType
  BY <1>1, HeadOfQueue DEF IInv, TypeOK
<1>3. Moves(t, rest) /\ Settles(t)
  BY FlushStartsEffect
<1>4. AllSameKind
  BY <1>2, TickBuildKinds, TickKinds DEF FlushStarts
<1>5. configures' = configures /\ (t \notin configures \/ ~failed)
  BY <1>1, <1>4, SameConfigures DEF configures
<1>6. \E outcome \in Queue!Outcomes, met \in SUBSET Requests : Queue!Moves(t, outcome, rest, met)
  <2> HIDE DEF t, rest
  <2> QED BY <1>2, <1>3, MovesServe
<1> QED BY <1>1, <1>5, <1>6 DEF Queue!Take, Queue!Refuses, configures

LEMMA FlushRefusesMaps ==
    ASSUME IInv, FlushRefuses
    PROVE  Queue!Take
<1> DEFINE t == Head(queue)
           rest == Tail(queue)
           new == Returned(tasks[t], "refused")
<1>1. /\ queue # << >> /\ ~busy /\ UNCHANGED <<busy, failed>> /\ queue' = rest
      /\ Update(t, new, {}) /\ failed /\ Configures(t)
  BY DEF FlushRefuses, Pops, NeedsRebuild
<1>2. t \in Requests /\ rest \in Seq(Requests) /\ TaskType /\ tasks[t] \in Task
  BY <1>1, HeadOfQueue DEF IInv, TypeOK
<1>3. configures' = configures /\ t \in configures
  <2>1. AllSameKind
    BY <1>1, <1>2, ReturnKinds
  <2> QED BY <1>1, <1>2, <2>1, SameConfigures DEF configures
<1>4. new \in Task /\ new.step = "returned" /\ new.answer = "refused"
  BY <1>2, ReturnedType DEF Answers
<1>5. Queue!Moves(t, Queue!At("returned", "refused"), rest, {})
  <2> HIDE DEF t, rest, new
  <2> QED BY <1>1, <1>2, <1>4, SeenTask, AloneMaps
<1> QED BY <1>1, <1>3, <1>5 DEF Queue!Take, Queue!Refuses, configures

LEMMA FlushFailsMaps ==
    ASSUME IInv, FlushFails
    PROVE  Queue!Fail
<1> DEFINE f(t) == Finished(tasks[t], "error")
<1>1. queue # << >> /\ ~busy /\ UNCHANGED <<busy, failed>> /\ queue' = << >>
  BY DEF FlushFails, Pops
<1>2. \A t \in Requests : tasks[t] \in Task
  BY DEF IInv, TypeOK, TaskType
<1>3. tasks' = [t \in Requests |-> IF tasks[t].step = "queued" THEN f(t) ELSE tasks[t]]
  BY DEF FlushFails
<1>4. \A t \in Requests : f(t) \in Task /\ f(t).step = "done" /\ f(t).answer = "error"
  BY <1>2, FinishedType DEF Answers
<1>5. configures' = configures
  <2>1. \A t \in Requests : f(t).type = tasks[t].type /\ f(t).phase = tasks[t].phase
    BY <1>2 DEF Finished, Returned, Task
  <2>2. \A t \in Requests : tasks'[t] \in {f(t), tasks[t]}
    BY <1>3
  <2> HIDE DEF f
  <2> QED BY <2>1, <2>2, SameConfigures DEF AllSameKind, SameKind
<1> HIDE DEF f
<1>6. \A t \in Requests : Seen(f(t)) = Queue!At("answered", "error")
  BY <1>4, SeenTask
<1>7. \A t \in Requests : tasks[t].step = "queued" <=> call[t].place = "waiting"
  BY <1>2, SeenPlace DEF call
<1>8. \A t \in Requests : Seen(tasks'[t]) = IF call[t].place = "waiting"
                                            THEN Queue!At("answered", "error") ELSE call[t]
  BY <1>3, <1>6, <1>7 DEF call
<1>9. call' = [t \in Requests |-> IF call[t].place = "waiting"
                                  THEN Queue!At("answered", "error") ELSE call[t]]
  BY <1>8 DEF call
<1> QED BY <1>1, <1>9, <1>5 DEF Queue!Fail, call, configures

LEMMA CompleteMaps ==
    ASSUME IInv, NEW t \in Requests, Complete(t)
    PROVE  Queue!Complete(t)
<1> DEFINE new == [tasks[t] EXCEPT !.step = "done"]
<1>1. tasks \in [Requests -> Task] /\ tasks[t] \in Task /\ tasks[t].step = "returned"
  BY DEF IInv, TypeOK, TaskType, Complete
<1>2. tasks' = [tasks EXCEPT ![t] = new] /\ busy' = FALSE /\ UNCHANGED <<queue, failed>>
  BY DEF Complete, Releases
<1>3. configures' = configures
  <2>1. new.type = tasks[t].type /\ new.phase = tasks[t].phase
    BY <1>1 DEF Task
  <2> HIDE DEF new
  <2> QED BY <1>1, <1>2, <2>1, SameConfigures DEF AllSameKind, SameKind
<1>4. Seen(new) = [Seen(tasks[t]) EXCEPT !.place = "answered"]
  <2>1. new.step = "done" /\ new.answer = tasks[t].answer
    BY <1>1 DEF Task
  <2> HIDE DEF new
  <2> QED BY <1>1, <2>1 DEF Seen, Place
<1>5. call[t].place = "returned"
  BY <1>1, SeenPlace DEF call
<1> HIDE DEF new
<1>6. call' = [call EXCEPT ![t].place = "answered"]
  BY <1>1, <1>2, <1>4 DEF call
<1> QED BY <1>2, <1>5, <1>6, <1>3 DEF Queue!Complete, call, configures

\* A stage that is cleaned, or the directory that is reaped, makes nothing fail.
LEMMA CleanedMaps ==
    ASSUME IInv, NEW t \in Requests, StageCleaned(t) \/ Reaped(t)
    PROVE  Queue!Advance(t)
<1>1. tasks[t] \in Task /\ tasks[t].step \in {"cleaning", "reaping"} /\ UNCHANGED <<busy, failed>>
  BY DEF IInv, TypeOK, TaskType, StageCleaned, Reaped
<1>2. queue \in Seq(Requests) /\ TaskType
  BY DEF IInv, TypeOK, TaskType
<1>3. \E outcome \in Queue!Outcomes, met \in SUBSET Requests : Queue!Moves(t, outcome, queue, met)
  BY <1>2, StageCleanedEffect, ReapedEffect, MovesServe
<1>4. configures' = configures
  <2>1. CASE StageCleaned(t)
    BY <1>2, <2>1, TickKinds, ReturnKinds, SameConfigures DEF StageCleaned
  <2>2. CASE Reaped(t)
    BY <1>2, <2>2, TickBuildKinds, ReturnKinds, SameConfigures DEF Reaped
  <2> QED BY <2>1, <2>2
<1>5. call[t].place = "running"
  BY <1>1, SeenPlace DEF call
<1> QED BY <1>1, <1>3, <1>4, <1>5 DEF Queue!Advance, call, configures

\* A stage that is built goes on, fails, or finds that another one has.
LEMMA BuiltMaps ==
    ASSUME IInv, NEW t \in Requests, StageBuilt(t)
    PROVE  Queue!Advance(t) \/ Queue!Break(t)
<1>1. /\ tasks[t] \in Task /\ tasks[t].step \in {"building", "skipped", "pending"}
      /\ UNCHANGED busy /\ TaskType /\ queue \in Seq(Requests)
  BY DEF IInv, TypeOK, TaskType, StageBuilt
<1>2. call[t].place = "running"
  BY <1>1, SeenPlace DEF call
<1> DEFINE lost == [tasks[t] EXCEPT !.step = "lost"]
           gone == Returned(tasks[t], "error")
<1>3. \/ /\ failed' = FALSE /\ failed = FALSE
         /\ \E done, links, dated : TickBuild(t, queue, done, links, position, dated)
      \/ failed' = TRUE /\ Update(t, gone, {}) /\ UNCHANGED queue
      \/ failed' = TRUE /\ failed = TRUE /\ Update(t, lost, {}) /\ UNCHANGED queue
  <2>1. failed \in BOOLEAN
    BY DEF IInv, TypeOK, RunType
  <2> QED BY <2>1, Zenon DEF StageBuilt
<1>4. lost \in Task /\ lost.step = "lost" /\ lost.type = tasks[t].type /\ lost.phase = tasks[t].phase
  BY <1>1 DEF Task, Step
<1>5. gone \in Task /\ gone.step = "returned" /\ gone.answer = "error"
  BY <1>1, ReturnedType DEF Answers
<1> HIDE DEF lost
<1>6. CASE /\ failed' = FALSE /\ failed = FALSE
           /\ \E done, links, dated : TickBuild(t, queue, done, links, position, dated)
  <2>1. configures' = configures
    BY <1>1, <1>6, TickBuildKinds, SameConfigures
  <2>2. Moves(t, queue) /\ Settles(t)
    BY <1>6, StageBuiltEffect
  <2> QED BY <1>1, <1>2, <1>6, <2>1, <2>2, MovesServe DEF Queue!Advance, call, configures
<1>7. CASE failed' = TRUE /\ Update(t, gone, {}) /\ UNCHANGED queue
  <2>1. configures' = configures
    BY <1>1, <1>7, ReturnKinds, SameConfigures
  <2>2. Queue!Moves(t, Queue!At("returned", "error"), queue, {})
    <3> HIDE DEF gone
    <3> QED BY <1>1, <1>5, <1>7, SeenTask, AloneMaps
  <2> QED BY <1>1, <1>2, <1>7, <2>1, <2>2 DEF Queue!Break, call, configures
<1>8. CASE failed' = TRUE /\ failed = TRUE /\ Update(t, lost, {}) /\ UNCHANGED queue
  <2>1. configures' = configures
    BY <1>1, <1>4, <1>8, UpdateKinds, SameConfigures
  <2>2. Queue!Moves(t, Queue!At("lost", "none"), queue, {})
    BY <1>1, <1>4, <1>8, SeenTask, AloneMaps
  <2> QED BY <1>1, <1>2, <1>8, <2>1, <2>2 DEF Queue!Break, call, configures
<1> QED BY <1>3, <1>6, <1>7, <1>8

LEMMA UnpauseMaps ==
    ASSUME IInv, NEW s \in Stages, Unpause(s)
    PROVE  UNCHANGED Queue!vars
<1>1. UNCHANGED <<queue, busy, failed>>
  BY DEF Unpause
<1>2. UNCHANGED tasks => AllSameKind
  BY DEF AllSameKind, SameKind
<1>3. CASE UNCHANGED tasks
  BY <1>1, <1>3, <1>2, LooksTheSame DEF IInv, TypeOK, TaskType
<1>4. ASSUME NEW t \in Requests, tasks[t].step = "paused",
             Update(t, [tasks[t] EXCEPT !.step = IF s \in completed THEN "skipped" ELSE "building"], {})
      PROVE  UNCHANGED Queue!vars
  <2> DEFINE step == IF s \in completed THEN "skipped" ELSE "building"
             new == [tasks[t] EXCEPT !.step = step]
  <2>1. step \in {"skipped", "building"} /\ tasks[t] \in Task /\ {} \in SUBSET Requests
    BY DEF IInv, TypeOK, TaskType
  <2>2. Update(t, new, {})
    BY <1>4
  <2> HIDE DEF step
  <2>3. new \in Task /\ new.step = step /\ new.answer = tasks[t].answer
    BY <2>1 DEF Task, Step
  <2>6. new.type = tasks[t].type /\ new.phase = tasks[t].phase
    BY <2>1 DEF Task
  <2> HIDE DEF new
  <2>7. AllSameKind
    BY <2>2, <2>6, UpdateKinds DEF IInv, TypeOK
  <2>4. /\ tasks' \in [Requests -> Task] /\ tasks'[t] = new
        /\ \A r \in Requests \ {t} : tasks'[r] = tasks[r]
    BY <2>1, <2>2, <2>3, UpdateEffect DEF IInv, TypeOK
  <2>5. \A r \in Requests :
           /\ tasks'[r].answer = tasks[r].answer
           /\ \/ tasks'[r].step = tasks[r].step
              \/ /\ tasks[r].step = "paused"
                 /\ tasks'[r].step \in {"skipped", "building"}
    BY <1>4, <2>1, <2>3, <2>4
  <2> QED BY <1>1, <2>4, <2>5, <2>7, LooksTheSame DEF IInv, TypeOK
<1> QED BY <1>3, <1>4 DEF Unpause

LEMMA CancelMaps ==
    ASSUME IInv, NEW S, Cancel(S)
    PROVE  UNCHANGED Queue!vars
<1> DEFINE f(t) == [tasks[t] EXCEPT !.cancelled = TRUE]
<1>1. \A t \in Requests : tasks[t] \in Task
  BY DEF IInv, TypeOK, TaskType
<1>2. tasks' = [t \in Requests |-> IF t \in S /\ (tasks[t].step = "queued" \/ Running(t))
                                   THEN f(t) ELSE tasks[t]]
  BY DEF Cancel
<1>3. \A t \in Requests : f(t) \in Task /\ f(t).step = tasks[t].step /\ f(t).answer = tasks[t].answer
  BY <1>1, CancelledType
<1>4. \A t \in Requests : f(t).type = tasks[t].type /\ f(t).phase = tasks[t].phase
  BY <1>1 DEF Task
<1> HIDE DEF f
<1>5. \A t \in Requests : tasks'[t] \in {f(t), tasks[t]}
  BY <1>2
<1>6. \A t \in Requests : /\ tasks'[t] \in Task
                          /\ tasks'[t].step = tasks[t].step /\ tasks'[t].answer = tasks[t].answer
  BY <1>1, <1>3, <1>5
<1>7. tasks' \in [Requests -> Task]
  BY <1>2, <1>6
<1>8. UNCHANGED <<queue, busy, failed>>
  BY DEF Cancel
<1>9. AllSameKind
  BY <1>5, <1>4 DEF AllSameKind, SameKind
<1> QED BY <1>6, <1>7, <1>8, <1>9, LooksTheSame DEF IInv, TypeOK

\* The changes of the stages are not seen.
LEMMA ChangeMaps ==
    ASSUME IInv, \/ \E s \in Stages : Attach(s) \/ Detach(s) \/ SetDisabled(s)
                 \/ \E p \in Phases : InvalidatePhase(p)
    PROVE  UNCHANGED Queue!vars
<1>1. Stir /\ UNCHANGED <<queue, busy, failed>>
  BY DEF Attach, Detach, SetDisabled, InvalidatePhase
<1>2. /\ tasks' \in [Requests -> Task]
      /\ \A t \in Requests : tasks'[t].step = tasks[t].step /\ tasks'[t].answer = tasks[t].answer
  BY <1>1, StirEffect DEF IInv, TypeOK
<1>3. AllSameKind
  BY <1>1 DEF Stir, IInv, TypeOK, TaskType, Task, AllSameKind, SameKind
<1> QED BY <1>1, <1>2, <1>3, LooksTheSame DEF IInv, TypeOK

LEMMA AsideMaps ==
    ASSUME \/ UNCHANGED vars
           \/ Load \/ Unready \/ Iterate \/ FlushNothing
           \/ \E p \in Phases : RequestPhase(p)
    PROVE  UNCHANGED Queue!vars
<1>1. UNCHANGED <<tasks, queue, busy, failed>>
  BY DEF vars, runVars, stageVars, loopVars, Load, Unready, Iterate, FlushNothing, Flushing, RequestPhase
<1>2. configures' = configures
  BY <1>1 DEF configures, Configures
<1> QED BY <1>1, <1>2 DEF Queue!vars, configures

-----------------------------------------------------------------------------
(***************************************************************************)
(* The theorem.                                                            *)
(***************************************************************************)

LEMMA InitMaps == Init => Queue!Init
<1> SUFFICES ASSUME Init PROVE Queue!Init
  OBVIOUS
<1>1. tasks = [t \in Requests |-> NewTask] /\ queue = << >> /\ busy = FALSE /\ failed = FALSE
  BY DEF Init
<1>2. configures = {}
  BY <1>1 DEF configures, Configures, NewTask
<1>3. Seen(NewTask) = Queue!At("idle", "none")
  BY DEF NewTask, Seen, Place, Queue!At
<1> QED BY <1>1, <1>3, <1>2 DEF Queue!Init, configures

LEMMA StepMaps == IInv /\ [Next]_vars => [Queue!Next]_Queue!vars
<1> SUFFICES ASSUME IInv, [Next]_vars PROVE Queue!Next \/ UNCHANGED Queue!vars
  OBVIOUS
<1>1. CASE \/ UNCHANGED vars
           \/ Load \/ Unready \/ Iterate \/ FlushNothing
           \/ \E p \in Phases : RequestPhase(p)
  BY <1>1, AsideMaps
<1>2. CASE FlushFails \/ FlushRefuses \/ FlushStarts
  BY <1>2, FlushFailsMaps, FlushRefusesMaps, FlushStartsMaps DEF Queue!Next
<1>3. CASE \E t \in Requests : Request(t)
  BY <1>3, RequestMaps DEF Queue!Next
<1>4. CASE \E t \in Requests : Complete(t)
  BY <1>4, CompleteMaps DEF Queue!Next
<1>5. CASE \E t \in Requests : StageBuilt(t) \/ StageCleaned(t) \/ Reaped(t)
  BY <1>5, BuiltMaps, CleanedMaps DEF Queue!Next
<1>6. CASE Cancel(Requests) \/ \E t \in Requests : Cancel({t})
  BY <1>6, CancelMaps
<1>7. CASE \E s \in Stages : Unpause(s)
  BY <1>7, UnpauseMaps
<1>8. CASE \/ \E s \in Stages : Attach(s) \/ Detach(s) \/ SetDisabled(s)
           \/ \E p \in Phases : InvalidatePhase(p)
  BY <1>8, ChangeMaps
<1> QED BY <1>1, <1>2, <1>3, <1>4, <1>5, <1>6, <1>7, <1>8 DEF Next, Flush

\* IdePipeline implements the queue: whatever the stages, the requests and the
\* order of the calls, its callers cannot tell it from RequestQueue.
THEOREM PipelineServes == Spec => ServesAQueue
<1> QED BY InitMaps, StepMaps, AlwaysInv, PTL DEF Spec, ServesAQueue, Queue!Spec

=============================================================================

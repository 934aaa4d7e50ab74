--------------------------- MODULE PipelineProofs ---------------------------
(***************************************************************************)
(* TLAPS proofs about Pipeline, for every pipeline, every set of requests  *)
(* and every bound.                                                        *)
(***************************************************************************)
EXTENDS Pipeline, SharedLemmas

-----------------------------------------------------------------------------
(***************************************************************************)
(* The operators a step is built from.                                     *)
(***************************************************************************)

Answers == {"none", "done", "error", "refused"}

LEMMA NewTaskType == NewTask \in Task
<1>1. << >> \in Seq(Stages)
  OBVIOUS
<1> QED BY <1>1, StagesAssumption, PhasesAssumption DEF NewTask, Task, Step

\* What is left of a task that has been answered.
LEMMA ReturnedType ==
    ASSUME NEW task \in Task, NEW answer \in Answers
    PROVE  /\ Returned(task, answer) \in Task
           /\ Returned(task, answer).step = "returned"
           /\ Returned(task, answer).answer = answer
<1>1. << >> \in Seq(Stages)
  OBVIOUS
<1> QED BY <1>1 DEF Returned, Task, Step, Answers

\* Cancelling a task, or stirring it, moves neither its step nor its answer.
LEMMA CancelledType ==
    ASSUME NEW r \in Task
    PROVE  /\ [r EXCEPT !.cancelled = TRUE] \in Task
           /\ [r EXCEPT !.cancelled = TRUE].step = r.step
           /\ [r EXCEPT !.cancelled = TRUE].answer = r.answer
  BY DEF Task

LEMMA StirredType ==
    ASSUME NEW r \in Task
    PROVE  /\ [r EXCEPT !.quiet = FALSE] \in Task
           /\ [r EXCEPT !.quiet = FALSE].step = r.step
           /\ [r EXCEPT !.quiet = FALSE].answer = r.answer
  BY DEF Task

LEMMA FinishedType ==
    ASSUME NEW task \in Task, NEW answer \in Answers
    PROVE  /\ Finished(task, answer) \in Task
           /\ Finished(task, answer).step = "done"
           /\ Finished(task, answer).answer = answer
<1> DEFINE r == Returned(task, answer)
<1>1. r \in Task /\ r.answer = answer
  BY ReturnedType
<1>2. Finished(task, answer) = [r EXCEPT !.step = "done"]
  BY DEF Finished
<1> HIDE DEF r
<1> QED BY <1>1, <1>2 DEF Task, Step

\* "completed" only ever holds stages.
LEMMA CompletedType ==
    ASSUME NEW done \in SUBSET Stages, NEW S, NEW links
    PROVE  /\ WithCompleted(S, done, links) \in SUBSET Stages
           /\ WithoutCompleted(S, done, links) \in SUBSET done
           /\ \A s : Queries(s, done, links) \subseteq SUBSET Stages
<1>1. WithCompleted(S, done, links) \in SUBSET Stages
  BY DEF WithCompleted, Notified
<1>2. WithoutCompleted(S, done, links) \in SUBSET done
  BY DEF WithoutCompleted
<1>3. ASSUME NEW s PROVE Queries(s, done, links) \subseteq SUBSET Stages
  <2>1. WithoutCompleted({s}, done, links) \in SUBSET Stages
    BY DEF WithoutCompleted
  <2>2. WithCompleted({s}, done, links) \in SUBSET Stages
    BY DEF WithCompleted, Notified
  <2> QED BY <2>1, <2>2 DEF Queries
<1> QED BY <1>1, <1>2, <1>3

LEMMA PlacedType ==
    ASSUME NEW line \in Seq(Stages), NEW s \in Stages
    PROVE  Placed(line, s) \in Seq(Stages)
<1> DEFINE before == {i \in DOMAIN line : ~Precedes(s, line[i])}
           n == Cardinality(before)
<1>1. Len(line) \in Nat /\ DOMAIN line = 1..Len(line)
  OBVIOUS
<1>2. n \in Nat /\ n <= Len(line)
  <2> DEFINE N == Len(line)
  <2>0. N \in Nat /\ N \in Int /\ 1 \in Int
    BY <1>1
  <2> HIDE DEF N
  <2>a. IsFiniteSet(1..N) /\ Cardinality(1..N) = IF 1 > N THEN 0 ELSE N - 1 + 1
    BY ONLY <2>0, FS_Interval, Zenon
  <2>1. IsFiniteSet(1..N) /\ Cardinality(1..N) = N
    BY <2>0, <2>a
  <2>2. before \in SUBSET (1..N)
    BY <1>1 DEF N
  <2> HIDE DEF before
  <2>3. IsFiniteSet(before) /\ Cardinality(before) <= Cardinality(1..N)
    BY <2>1, <2>2, FS_Subset
  <2>4. Cardinality(before) \in Nat
    BY <2>3, FS_CardinalityType
  <2> QED BY <2>1, <2>3, <2>4 DEF N
<1>3. Placed(line, s) = SubSeq(line, 1, n) \o <<s>> \o SubSeq(line, n + 1, Len(line))
  BY DEF Placed
<1> HIDE DEF n
<1>4. SubSeq(line, 1, n) \in Seq(Stages) /\ SubSeq(line, n + 1, Len(line)) \in Seq(Stages)
  <2>1. \A i \in 1..n : line[i] \in Stages
    BY <1>1, <1>2
  <2>2. \A i \in n + 1..Len(line) : line[i] \in Stages
    BY <1>1, <1>2
  <2> QED BY <1>1, <1>2, <2>1, <2>2, SubSeqProperties
<1>5. <<s>> \in Seq(Stages)
  OBVIOUS
<1>6. SubSeq(line, 1, n) \o <<s>> \in Seq(Stages)
  BY <1>4, <1>5, ConcatProperties
<1>7. (SubSeq(line, 1, n) \o <<s>>) \o SubSeq(line, n + 1, Len(line)) \in Seq(Stages)
  BY <1>4, <1>6, ConcatProperties
<1> QED BY <1>3, <1>7

\* The first entry the walk stops at is one it stops at.
LEMMA FirstStop ==
    ASSUME StageType, NEW pos \in Nat, NEW mask, Stops(pos, mask) # {}
    PROVE  /\ (CHOOSE i \in Stops(pos, mask) : \A j \in Stops(pos, mask) : i <= j) \in Stops(pos, mask)
           /\ Stops(pos, mask) \subseteq DOMAIN pipeline
           /\ DOMAIN pipeline \subseteq Nat
<1>1. Stops(pos, mask) \subseteq DOMAIN pipeline
  BY DEF Stops
<1>2. DOMAIN pipeline \subseteq Nat
  <2>1. pipeline \in Seq(Stages)
    BY DEF StageType
  <2>2. Len(pipeline) \in Nat /\ DOMAIN pipeline = 1..Len(pipeline)
    BY <2>1
  <2> QED BY <2>2
<1> DEFINE S == Stops(pos, mask)
<1>3. S \subseteq Nat /\ S # {}
  BY <1>1, <1>2
<1> HIDE DEF S
<1>4. \E i \in S : \A j \in S : i <= j
  BY <1>3, LeastNat
<1>5. (CHOOSE i \in S : \A j \in S : i <= j) \in S
  BY <1>4
<1> QED BY <1>1, <1>2, <1>5 DEF S

\* What Update makes of the tasks.
LEMMA UpdateEffect ==
    ASSUME TaskType, NEW t \in Requests, NEW new \in Task, NEW met \in SUBSET Requests,
           Update(t, new, met)
    PROVE  /\ tasks' \in [Requests -> Task]
           /\ tasks'[t] = new
           /\ \A r \in Requests \ {t} :
                 /\ r \in met => tasks'[r].step = "done" /\ tasks'[r].answer = "done"
                 /\ r \notin met => tasks'[r] = tasks[r]
<1> DEFINE f(r) == Finished(tasks[r], "done")
<1>1. \A r \in Requests : f(r) \in Task /\ f(r).step = "done" /\ f(r).answer = "done"
  <2>1. "done" \in Answers
    BY DEF Answers
  <2>2. \A r \in Requests : tasks[r] \in Task
    BY DEF TaskType
  <2> QED BY <2>1, <2>2, FinishedType
<1>2. tasks' = [r \in Requests |-> IF r = t THEN new ELSE IF r \in met THEN f(r) ELSE tasks[r]]
  BY DEF Update
<1>3. \A r \in Requests : tasks[r] \in Task
  BY DEF TaskType
<1> HIDE DEF f
<1> QED BY <1>1, <1>2, <1>3

-----------------------------------------------------------------------------
(***************************************************************************)
(* The inductive invariant.                                                *)
(***************************************************************************)

\* No request is queued twice, and what is queued has not been started.
QueueInv ==
    /\ Injective(queue)
    /\ \A i \in DOMAIN queue : tasks[queue[i]].step = "queued"

\* A refusal is an answer: it is never taken back.
AnswerInv == \A t \in Requests : tasks[t].answer = "refused" => tasks[t].step \in {"returned", "done"}

\* A failure belongs to the task that runs, which it ends.
FailInv == NoneRefused => \A t \in Requests : Running(t) => ~failed /\ tasks[t].step # "lost"

\* busy is never left without a started task whose completion clears it.
BusyHasOwner == busy => \E t \in Requests : Started(t)

\* The flush of a queue that finds the pipeline busy is left to that task.
FlushInv ==
    ready /\ queue # << >> => busy \/ flushes + batch > 0 \/ \E t \in Requests : Started(t)

SafeInv == QueueInv /\ AnswerInv /\ OneAtATime /\ BusyHasOwner /\ FlushInv /\ FailInv

IInv == TypeOK /\ SafeInv

-----------------------------------------------------------------------------
(***************************************************************************)
(* What ticks do.                                                          *)
(***************************************************************************)

\* A step moves t, which stays started, and completes some of those waiting.
Moves(t, waiting) ==
    /\ tasks' \in [Requests -> Task]
    /\ tasks'[t].step \notin {"new", "queued", "done"}
    /\ \E met \in SUBSET {waiting[j] : j \in DOMAIN waiting} :
          /\ \A r \in Requests \ {t} :
                /\ r \in met => tasks'[r].step = "done" /\ tasks'[r].answer = "done"
                /\ r \notin met => tasks'[r] = tasks[r]
          /\ queue' = Keep(waiting, Requests \ met) \/ (met = {} /\ queue' = waiting)

\* A tick refuses nothing and loses nothing; a task that returns has an answer.
Settles(t) ==
    /\ tasks'[t].answer # "refused" /\ tasks'[t].step # "lost"
    /\ tasks'[t].step = "returned" => tasks'[t].answer \in {"done", "error"}

\* The types of what a tick may change beside the tasks.
TickType ==
    /\ completed' \subseteq Stages /\ outdated' \subseteq Stages
    /\ pauses' \in [Stages -> 0..MaxPauses]
    /\ bindings' \subseteq Stages \X Stages
    /\ requested' \in 0..MaxPhase

\* The execution of an entry.
LEMMA ExecuteEffect ==
    ASSUME TypeOK, requested' \in 0..MaxPhase,
           NEW t \in Requests, NEW i \in DOMAIN pipeline, NEW met \in SUBSET Requests,
           NEW done \in SUBSET Stages, NEW links \in SUBSET (Stages \X Stages),
           NEW dated \in SUBSET Stages, Execute(t, i, met, done, links, dated)
    PROVE  /\ TickType /\ position' \in Nat
           /\ \E new \in Task : /\ Update(t, new, met)
                                /\ new.step \in {"paused", "pending", "building", "skipped"}
                                /\ new.answer = tasks[t].answer
<1> DEFINE s == pipeline[i]
           chain == Chained(i, requested')
           joined == {pipeline[k] : k \in chain}
           bound == Bound(s, joined, links)
           New(step) == [[tasks[t] EXCEPT !.stage = s, !.jumped = @ \cup joined] EXCEPT !.step = step]
<1>0. pipeline \in Seq(Stages)
  BY DEF TypeOK, StageType
<1>1. s \in Stages /\ DOMAIN pipeline \subseteq Nat /\ \A k \in DOMAIN pipeline : pipeline[k] \in Stages
  BY <1>0
<1>2. chain \subseteq DOMAIN pipeline
  BY DEF Chained
<1>3. joined \in SUBSET Stages
  BY <1>1, <1>2
<1>4. tasks[t] \in Task
  BY DEF TypeOK, TaskType
<1>5. \A step \in {"paused", "pending", "building", "skipped"} :
         New(step) \in Task /\ New(step).step = step /\ New(step).answer = tasks[t].answer
  <2> SUFFICES ASSUME NEW step \in {"paused", "pending", "building", "skipped"}
               PROVE  New(step) \in Task /\ New(step).step = step /\ New(step).answer = tasks[t].answer
    OBVIOUS
  <2>1. step \in Step
    BY DEF Step
  <2> DEFINE r == [tasks[t] EXCEPT !.stage = s, !.jumped = @ \cup joined]
  <2>2. r \in Task /\ r.answer = tasks[t].answer
    <3> HIDE DEF s, joined
    <3> QED BY <1>1, <1>3, <1>4 DEF Task
  <2>3. New(step) = [r EXCEPT !.step = step]
    OBVIOUS
  <2> HIDE DEF r, New
  <2> QED BY <2>1, <2>2, <2>3 DEF Task
<1>6. bound \in SUBSET (Stages \X Stages)
  BY <1>1, <1>3 DEF Bound
<1>7. position' \in Nat
  BY <1>1, <1>2 DEF Execute
<1>8. bindings' = bound
  BY DEF Execute
<1>9. CASE /\ completed' = done /\ outdated' = dated /\ UNCHANGED pauses
           /\ Update(t, New("pending"), met)
  BY <1>5, <1>6, <1>7, <1>8, <1>9 DEF TickType, TypeOK, StageType
<1>10. CASE /\ completed' \in Queries(s, done, bound)
            /\ \E held \in pauses[s]..MaxPauses :
                  /\ pauses' = [pauses EXCEPT ![s] = held]
                  /\ LET step == IF held > 0 THEN "paused"
                                 ELSE IF s \in completed' THEN "skipped" ELSE "building"
                         upToDate == IF step = "building" THEN Covered(s, joined)
                                     ELSE IF s \in Queried THEN {s} \cap completed' ELSE {}
                     IN  /\ outdated' = (dated \cup (done \ completed')) \ upToDate
                         /\ Update(t, New(step), met)
  <2>0. Queries(s, done, bound) \subseteq SUBSET Stages
    <3> HIDE DEF s, bound
    <3> QED BY CompletedType
  <2>1. completed' \subseteq Stages
    BY <1>10, <2>0
  <2>2. PICK held \in pauses[s]..MaxPauses, step \in {"paused", "skipped", "building"} :
           /\ pauses' = [pauses EXCEPT ![s] = held]
           /\ outdated' \subseteq (dated \cup (done \ completed'))
           /\ Update(t, New(step), met)
    <3> HIDE DEF s, joined, New, bound
    <3> QED BY <1>10
  <2>3. held \in 0..MaxPauses
    BY <1>1 DEF TypeOK, StageType
  <2>4. pauses' \in [Stages -> 0..MaxPauses]
    BY <2>2, <2>3 DEF TypeOK, StageType
  <2>5. outdated' \subseteq Stages
    BY <2>2
  <2> HIDE DEF New, bound
  <2> QED BY <1>5, <1>6, <1>7, <1>8, <2>1, <2>2, <2>4, <2>5 DEF TickType
<1>11. \/ /\ completed' = done /\ outdated' = dated /\ UNCHANGED pauses
          /\ Update(t, New("pending"), met)
       \/ /\ completed' \in Queries(s, done, bound)
          /\ \E held \in pauses[s]..MaxPauses :
                /\ pauses' = [pauses EXCEPT ![s] = held]
                /\ LET step == IF held > 0 THEN "paused"
                               ELSE IF s \in completed' THEN "skipped" ELSE "building"
                       upToDate == IF step = "building" THEN Covered(s, joined)
                                   ELSE IF s \in Queried THEN {s} \cap completed' ELSE {}
                   IN  /\ outdated' = (dated \cup (done \ completed')) \ upToDate
                       /\ Update(t, New(step), met)
  BY DEF Execute
<1> QED BY <1>9, <1>10, <1>11

\* ide_pipeline_tick_build moves its task, and it refuses nothing.
LEMMA TickBuildEffect ==
    ASSUME TypeOK, NEW t \in Requests, NEW waiting \in Seq(Requests),
           NEW done \in SUBSET Stages, NEW links \in SUBSET (Stages \X Stages),
           NEW pos \in Nat, NEW dated \in SUBSET Stages,
           TickBuild(t, waiting, done, links, pos, dated),
           tasks[t].answer # "refused"
    PROVE  /\ TickType /\ position' \in Nat
           /\ Moves(t, waiting)
           /\ Settles(t)
<1> DEFINE Returning(new) == new.step = "returned" /\ new.answer \in {"done", "error"}
           Walking(new) == /\ new.step \in {"paused", "pending", "building", "skipped"}
                           /\ new.answer = tasks[t].answer
<1>1. ASSUME NEW new \in Task, NEW met \in SUBSET {waiting[j] : j \in DOMAIN waiting},
             Update(t, new, met), Returning(new) \/ Walking(new),
             queue' = Keep(waiting, Requests \ met) \/ (met = {} /\ queue' = waiting)
      PROVE  Moves(t, waiting) /\ Settles(t)
  <2>1. met \in SUBSET Requests
    OBVIOUS
  <2>2. /\ tasks' \in [Requests -> Task] /\ tasks'[t] = new
        /\ \A r \in Requests \ {t} :
                 /\ r \in met => tasks'[r].step = "done" /\ tasks'[r].answer = "done"
                 /\ r \notin met => tasks'[r] = tasks[r]
    BY <1>1, <2>1, UpdateEffect DEF TypeOK
  <2> QED BY <1>1, <2>2 DEF Moves, Settles
<1>2. requested' \in 0..MaxPhase
  <2>1. requested \in 0..MaxPhase /\ tasks[t].phase \in 0..MaxPhase
    BY DEF TypeOK, RunType, TaskType, Task
  <2> QED BY <2>1 DEF TickBuild, Larger
<1>3. tasks[t] \in Task
  BY DEF TypeOK, TaskType
<1>4. \A answer \in {"done", "error"} :
        Returned(tasks[t], answer) \in Task /\ Returning(Returned(tasks[t], answer))
  BY <1>3, ReturnedType DEF Answers
<1> DEFINE stops == Stops(pos, requested')
           last  == IF stops = {} THEN Larger(pos, Len(pipeline)) + 1
                    ELSE CHOOSE i \in stops : \A j \in stops : i <= j
           met   == Met(waiting, pos, last)
<1>5. met \in SUBSET {waiting[j] : j \in DOMAIN waiting}
  BY DEF Met
<1>6. CASE /\ \/ Update(t, Returned(tasks[t], "error"), {})
              \/ Update(t, Returned(tasks[t], "done"), {})
           /\ position' = pos
           /\ completed' = done /\ bindings' = links /\ outdated' = dated
           /\ queue' = waiting
           /\ UNCHANGED pauses
  <2>1. TickType /\ position' \in Nat
    BY <1>2, <1>6 DEF TickType, TypeOK, StageType
  <2>2. {} \in SUBSET {waiting[j] : j \in DOMAIN waiting}
    OBVIOUS
  <2>3. PICK answer \in {"done", "error"} : Update(t, Returned(tasks[t], answer), {})
    BY <1>6
  <2> HIDE DEF Returning, Walking
  <2>4. Returned(tasks[t], answer) \in Task /\ Returning(Returned(tasks[t], answer))
    BY <1>4
  <2>5. Moves(t, waiting) /\ Settles(t)
    BY <1>1, <1>6, <2>2, <2>3, <2>4
  <2> QED BY <2>1, <2>5
<1>7. CASE /\ stops = {}
           /\ position' = last
           /\ completed' = done /\ bindings' = links /\ outdated' = dated
           /\ UNCHANGED pauses
           /\ queue' = Keep(waiting, Requests \ met)
           /\ Update(t, Returned(tasks[t], "done"), met)
  <2>1. Len(pipeline) \in Nat
    BY DEF TypeOK, StageType
  <2>a. last \in Nat
    BY <1>7, <2>1 DEF Larger
  <2>2. TickType /\ position' \in Nat
    <3> HIDE DEF last, met, stops
    <3> QED BY <1>2, <1>7, <2>a DEF TickType, TypeOK, StageType
  <2> HIDE DEF Returning, Walking, met
  <2> QED BY <1>1, <1>4, <1>5, <1>7, <2>2
<1>8. CASE /\ stops # {}
           /\ queue' = Keep(waiting, Requests \ met)
           /\ Execute(t, last, met, done, links, dated)
  <2>1. last \in DOMAIN pipeline
    BY <1>8, FirstStop DEF TypeOK
  <2>2. met \in SUBSET Requests
    <3> HIDE DEF met
    <3> QED BY <1>5
  <2> HIDE DEF stops, last, met
  <2>3. /\ TickType /\ position' \in Nat
        /\ \E new \in Task : Update(t, new, met) /\ Walking(new)
    BY <1>2, <1>8, <2>1, <2>2, ExecuteEffect
  <2> HIDE DEF Returning, Walking
  <2> QED BY <1>1, <1>5, <1>8, <2>3
<1>9. QED
  <2> HIDE DEF Returning, Walking
  <2> QED BY <1>6, <1>7, <1>8 DEF TickBuild

\* The ticks of cleans and rebuilds move their task and complete no other.
LEMMA TickCleanEffect ==
    ASSUME TypeOK, NEW t \in Requests, NEW rest \in Seq(Stages), TickClean(t, rest),
           tasks[t].answer # "refused", NEW waiting, queue' = waiting
    PROVE  TickType /\ Moves(t, waiting) /\ Settles(t)
<1>1. tasks[t] \in Task
  BY DEF TypeOK, TaskType
<1>2. ASSUME NEW new \in Task, Update(t, new, {}),
             \/ new.step = "returned" /\ new.answer = "done"
             \/ new.step = "cleaning" /\ new.answer # "refused"
      PROVE  Moves(t, waiting) /\ Settles(t)
  <2>1. {} \in SUBSET Requests /\ {} \in SUBSET {waiting[j] : j \in DOMAIN waiting}
    OBVIOUS
  <2>2. /\ tasks' \in [Requests -> Task] /\ tasks'[t] = new
        /\ \A r \in Requests \ {t} : tasks'[r] = tasks[r]
    BY <1>2, <2>1, UpdateEffect DEF TypeOK
  <2> QED BY <1>2, <2>1, <2>2 DEF Moves, Settles
<1>3. bindings' = bindings /\ pauses' = pauses /\ requested' = requested
  BY DEF TickClean
<1>4. CASE rest = << >>
  <2>1. "done" \in Answers
    BY DEF Answers
  <2>2. Update(t, Returned(tasks[t], "done"), {}) /\ completed' = completed /\ outdated' = outdated
    BY <1>4 DEF TickClean
  <2>3. TickType
    BY <1>3, <2>2 DEF TickType, TypeOK, StageType, RunType
  <2> QED BY <1>1, <1>2, <2>1, <2>2, <2>3, ReturnedType
<1>5. CASE rest # << >>
  <2> DEFINE s == rest[Len(rest)]
             new == [tasks[t] EXCEPT !.step = "cleaning", !.stage = s, !.rest = rest]
  <2>1. s \in Stages
    BY <1>5
  <2>2. /\ Update(t, new, {})
        /\ completed' = IF s \in Launchers THEN completed ELSE WithoutCompleted({s}, completed, bindings)
        /\ outdated' = outdated \cup (completed \ completed')
    BY <1>5 DEF TickClean
  <2> HIDE DEF s
  <2>3. new \in Task /\ new.step = "cleaning" /\ new.answer = tasks[t].answer
    BY <1>1, <2>1 DEF Task, Step
  <2> HIDE DEF new
  <2>4. completed \in SUBSET Stages
    BY DEF TypeOK, StageType
  <2>5. completed' \subseteq Stages
    BY <2>2, <2>4, CompletedType
  <2>6. TickType
    BY <1>3, <2>2, <2>5 DEF TickType, TypeOK, StageType, RunType
  <2> QED BY <1>2, <2>2, <2>3, <2>6
<1> QED BY <1>4, <1>5

LEMMA TickRebuildEffect ==
    ASSUME TypeOK, NEW t \in Requests, TickRebuild(t),
           tasks[t].answer # "refused", NEW waiting, queue' = waiting
    PROVE  TickType /\ Moves(t, waiting) /\ Settles(t)
<1> DEFINE new == [tasks[t] EXCEPT !.step = "reaping"]
<1>1. tasks[t] \in Task
  BY DEF TypeOK, TaskType
<1>2. Update(t, new, {})
  BY DEF TickRebuild
<1>3. new \in Task /\ new.step = "reaping" /\ new.answer = tasks[t].answer
  BY <1>1 DEF Task, Step
<1> HIDE DEF new
<1>4. {} \in SUBSET Requests /\ {} \in SUBSET {waiting[j] : j \in DOMAIN waiting}
  OBVIOUS
<1>5. /\ tasks' \in [Requests -> Task] /\ tasks'[t] = new
      /\ \A r \in Requests \ {t} : tasks'[r] = tasks[r]
  BY <1>2, <1>3, <1>4, UpdateEffect DEF TypeOK
<1>6. Moves(t, waiting) /\ Settles(t)
  BY <1>3, <1>4, <1>5 DEF Moves, Settles
<1>7. completed \in SUBSET Stages
  BY DEF TypeOK, StageType
<1>8. WithoutCompleted(InPipeline, completed, bindings) \subseteq completed
  BY <1>7, CompletedType
<1>9. TickType
  BY <1>7, <1>8 DEF TickRebuild, TickType, TypeOK, StageType, RunType
<1> QED BY <1>6, <1>9

-----------------------------------------------------------------------------
(***************************************************************************)
(* What a step has to do to keep the invariant.                            *)
(***************************************************************************)

\* Every task but t is as far as it was, or was waiting and is done.
OthersStay(t) ==
    \A r \in Requests \ {t} :
       /\ tasks'[r].answer = tasks[r].answer \/ (tasks[r].step = "queued" /\ tasks'[r].answer = "done")
       /\ \/ tasks'[r].step = tasks[r].step
          \/ tasks[r].step = "queued" /\ tasks'[r].step = "done"

LEMMA MovesQueue ==
    ASSUME TypeOK, AnswerInv, NEW t \in Requests, NEW waiting \in Seq(Requests), Injective(waiting),
           \A j \in DOMAIN waiting : waiting[j] # t /\ tasks[waiting[j]].step = "queued",
           Moves(t, waiting), tasks'[t].answer = "refused" => tasks'[t].step = "returned"
    PROVE  queue' \in Seq(Requests) /\ QueueInv' /\ AnswerInv' /\ OthersStay(t)
<1>1. PICK met \in SUBSET {waiting[j] : j \in DOMAIN waiting} :
          /\ \A r \in Requests \ {t} :
                /\ r \in met => tasks'[r].step = "done" /\ tasks'[r].answer = "done"
                /\ r \notin met => tasks'[r] = tasks[r]
          /\ queue' = Keep(waiting, Requests \ met) \/ (met = {} /\ queue' = waiting)
  BY DEF Moves
<1>2. \A r \in met : tasks[r].step = "queued"
  BY <1>1
<1>3. OthersStay(t)
  BY <1>1, <1>2 DEF OthersStay
<1>4. AnswerInv'
  <2> SUFFICES ASSUME NEW r \in Requests, tasks'[r].answer = "refused"
               PROVE  tasks'[r].step \in {"returned", "done"}
    BY DEF AnswerInv
  <2>1. CASE r # t
    <3>1. tasks'[r] = tasks[r]
      BY <1>1, <2>1
    <3> QED BY <3>1 DEF AnswerInv
  <2> QED BY <2>1
<1>5. CASE met = {} /\ queue' = waiting
  <2>1. \A j \in DOMAIN waiting : waiting[j] \in Requests \ {t}
    OBVIOUS
  <2>2. \A j \in DOMAIN waiting : tasks'[waiting[j]] = tasks[waiting[j]]
    BY <1>1, <1>5, <2>1
  <2>3. QueueInv'
    BY <1>5, <2>2 DEF QueueInv, Injective
  <2> QED BY <1>3, <1>4, <1>5, <2>3
<1>6. CASE queue' = Keep(waiting, Requests \ met)
  <2> DEFINE S == Requests \ met
             kept == Keep(waiting, S)
  <2>a. /\ kept \in Seq(Requests) /\ (Injective(waiting) => Injective(kept))
        /\ \A n \in DOMAIN kept : /\ kept[n] \in S
                                 /\ \E j \in DOMAIN waiting : waiting[j] = kept[n]
    <3> HIDE DEF S
    <3> QED BY KeepProperties
  <2> HIDE DEF kept
  <2>1. /\ kept \in Seq(Requests) /\ Injective(kept)
        /\ \A n \in DOMAIN kept : /\ kept[n] \in Requests \ met
                                 /\ \E j \in DOMAIN waiting : waiting[j] = kept[n]
    BY <2>a
  <2>2. \A n \in DOMAIN kept : kept[n] \in Requests \ {t} /\ kept[n] \notin met
                             /\ tasks[kept[n]].step = "queued"
    BY <2>1
  <2>3. \A n \in DOMAIN kept : tasks'[kept[n]].step = "queued"
    BY <1>1, <2>2
  <2>4. queue' = kept
    BY <1>6 DEF kept
  <2>5. QueueInv'
    BY <2>1, <2>3, <2>4 DEF QueueInv, Injective
  <2> QED BY <1>3, <1>4, <2>1, <2>4, <2>5
<1> QED BY <1>1, <1>5, <1>6

\* While no build is refused, none has been refused before.
LEMMA NoneRefusedBefore ==
    ASSUME AnswerInv, NEW t \in Requests, OthersStay(t), tasks[t].answer # "refused"
    PROVE  NoneRefused' => NoneRefused
BY DEF NoneRefused, OthersStay, AnswerInv

LEMMA OthersStanding ==
    ASSUME NEW t \in Requests, OthersStay(t), NEW r \in Requests \ {t}
    PROVE  /\ Started(r)' <=> Started(r)
           /\ Running(r)' <=> Running(r)
           /\ tasks'[r].step = "lost" <=> tasks[r].step = "lost"
BY DEF OthersStay, Started, Running

\* The task that runs goes on.
LEMMA GoOn ==
    ASSUME TypeOK, SafeInv, NEW t \in Requests, Started(t), tasks[t].answer # "refused",
           Moves(t, queue), tasks'[t].answer # "refused",
           NoneRefused => (Running(t)' => ~failed' /\ tasks'[t].step # "lost"),
           UNCHANGED <<busy, ready, flushes, batch>>
    PROVE  queue' \in Seq(Requests) /\ SafeInv'
<1>1. queue \in Seq(Requests) /\ Injective(queue)
  BY DEF TypeOK, TaskType, SafeInv, QueueInv
<1>2. \A j \in DOMAIN queue : queue[j] # t /\ tasks[queue[j]].step = "queued"
  BY DEF SafeInv, QueueInv, Started
<1>3. queue' \in Seq(Requests) /\ QueueInv' /\ AnswerInv' /\ OthersStay(t)
  BY <1>1, <1>2, MovesQueue DEF SafeInv
<1>4. Started(t)'
  BY DEF Moves, Started
<1>5. NoneRefused' => NoneRefused
  BY <1>3, NoneRefusedBefore DEF SafeInv
<1>6. \A r \in Requests : Started(r)' <=> Started(r)
  BY <1>3, <1>4, OthersStanding
<1>7. OneAtATime'
  BY <1>5, <1>6 DEF SafeInv, OneAtATime
<1>8. BusyHasOwner' /\ FlushInv'
  BY <1>4 DEF BusyHasOwner, FlushInv
<1>9. FailInv'
  <2> SUFFICES ASSUME NoneRefused', NEW r \in Requests, Running(r)'
               PROVE  ~failed' /\ tasks'[r].step # "lost"
    BY DEF FailInv
  <2>1. Started(r)
    BY <1>6 DEF Running
  <2>2. r = t
    BY <1>5, <2>1 DEF SafeInv, OneAtATime
  <2> QED BY <1>5, <2>2
<1> QED BY <1>3, <1>7, <1>8, <1>9 DEF SafeInv

\* What is behind the head of the queue.
LEMMA HeadOfQueue ==
    ASSUME IInv, queue # << >>, NEW t, t = Head(queue)
    PROVE  /\ t \in Requests /\ tasks[t] \in Task
           /\ tasks[t].step = "queued" /\ tasks[t].answer # "refused"
           /\ Tail(queue) \in Seq(Requests) /\ Injective(Tail(queue))
           /\ \A j \in DOMAIN Tail(queue) : Tail(queue)[j] # t /\ tasks[Tail(queue)[j]].step = "queued"
<1>1. queue \in Seq(Requests) /\ Injective(queue)
  BY DEF IInv, TypeOK, TaskType, SafeInv, QueueInv
<1>2. /\ t \in Requests /\ t = queue[1] /\ 1 \in DOMAIN queue
      /\ Tail(queue) \in Seq(Requests) /\ DOMAIN Tail(queue) = 1..Len(queue) - 1
      /\ \A j \in 1..Len(queue) - 1 : Tail(queue)[j] = queue[j + 1] /\ j + 1 \in DOMAIN queue /\ j + 1 # 1
  BY <1>1
<1>3. tasks[t].step = "queued" /\ tasks[t] \in Task
  BY <1>2 DEF IInv, TypeOK, TaskType, SafeInv, QueueInv
<1>4. \A j \in DOMAIN Tail(queue) : Tail(queue)[j] # t /\ tasks[Tail(queue)[j]].step = "queued"
  BY <1>1, <1>2 DEF IInv, SafeInv, QueueInv, Injective
<1>5. Injective(Tail(queue))
  <2> SUFFICES ASSUME NEW i \in 1..Len(queue) - 1, NEW j \in 1..Len(queue) - 1,
                      Tail(queue)[i] = Tail(queue)[j]
               PROVE  i = j
    BY <1>2 DEF Injective
  <2>1. i + 1 = j + 1
    BY <1>1, <1>2 DEF Injective
  <2> QED BY <2>1
<1>6. tasks[t].answer # "refused"
  BY <1>2, <1>3 DEF IInv, SafeInv, AnswerInv
<1> QED BY <1>2, <1>3, <1>4, <1>5, <1>6

\* The head of the queue starts.
LEMMA StartUp ==
    ASSUME TypeOK, SafeInv, ~busy, queue # << >>, NEW t, t = Head(queue),
           Moves(t, Tail(queue)), tasks'[t].answer # "refused", tasks'[t].step # "lost",
           busy' = TRUE, failed' = FALSE
    PROVE  queue' \in Seq(Requests) /\ SafeInv'
<1>1. /\ t \in Requests /\ tasks[t].answer # "refused"
      /\ Tail(queue) \in Seq(Requests) /\ Injective(Tail(queue))
      /\ \A j \in DOMAIN Tail(queue) : Tail(queue)[j] # t /\ tasks[Tail(queue)[j]].step = "queued"
  BY HeadOfQueue DEF IInv
<1>7. queue' \in Seq(Requests) /\ QueueInv' /\ AnswerInv' /\ OthersStay(t)
  BY <1>1, MovesQueue DEF SafeInv
<1>8. Started(t)'
  BY DEF Moves, Started
<1>9. NoneRefused' => NoneRefused
  BY <1>1, <1>7, NoneRefusedBefore DEF SafeInv
<1>10. NoneRefused => \A r \in Requests : ~Started(r)
  BY DEF SafeInv, OneAtATime
<1>11. NoneRefused' => \A r \in Requests \ {t} : ~Started(r)'
  BY <1>1, <1>7, <1>9, <1>10, OthersStanding
<1>12. OneAtATime'
  BY <1>11 DEF OneAtATime
<1>13. BusyHasOwner' /\ FlushInv'
  BY <1>1, <1>8 DEF BusyHasOwner, FlushInv
<1>14. FailInv'
  <2> SUFFICES ASSUME NoneRefused', NEW r \in Requests, Running(r)'
               PROVE  ~failed' /\ tasks'[r].step # "lost"
    BY DEF FailInv
  <2>1. Started(r)'
    BY DEF Running
  <2>2. r = t
    BY <1>11, <2>1
  <2> QED BY <2>2
<1> QED BY <1>7, <1>12, <1>13, <1>14 DEF SafeInv

\* A step after which every task stands as it stood.
LEMMA StandStill ==
    ASSUME TypeOK, SafeInv,
           \A r \in Requests :
              /\ tasks'[r].answer = tasks[r].answer
              /\ \/ tasks'[r].step = tasks[r].step
                 \/ /\ tasks[r].step = "paused"
                    /\ tasks'[r].step \in {"skipped", "building"},
           UNCHANGED <<queue, busy, failed>>,
           ready' => ready,
           flushes' \in Nat, batch' \in Nat,
           flushes + batch > 0 => flushes' + batch' > 0
    PROVE  SafeInv'
<1>1. \A r \in Requests :
        /\ Started(r)' <=> Started(r)
        /\ Running(r)' <=> Running(r)
        /\ tasks'[r].step = "lost" <=> tasks[r].step = "lost"
        /\ tasks[r].step = "queued" => tasks'[r].step = "queued"
  BY DEF Started, Running
<1>2. NoneRefused' <=> NoneRefused
  BY DEF NoneRefused
<1>3. \A i \in DOMAIN queue : queue[i] \in Requests
  BY DEF TypeOK, TaskType
<1>4. QueueInv'
  BY <1>1, <1>3 DEF SafeInv, QueueInv, Injective
<1>5. AnswerInv'
  BY DEF SafeInv, AnswerInv
<1>6. OneAtATime' /\ BusyHasOwner'
  BY <1>1, <1>2 DEF SafeInv, OneAtATime, BusyHasOwner
<1>7. FlushInv'
  BY <1>1 DEF SafeInv, FlushInv
<1>8. FailInv'
  BY <1>1, <1>2 DEF SafeInv, FailInv
<1> QED BY <1>4, <1>5, <1>6, <1>7, <1>8 DEF SafeInv

-----------------------------------------------------------------------------
(***************************************************************************)
(* The actions, one by one.                                                *)
(***************************************************************************)

LEMMA InitInv == Init => IInv
<1> SUFFICES ASSUME Init PROVE IInv
  OBVIOUS
<1>1. \A t \in Requests : tasks[t].step = "new" /\ tasks[t].answer = "none"
  BY DEF Init, NewTask
<1>2. StageType
  BY StagesAssumption, PhasesAssumption DEF Init, StageType
<1>3. TaskType
  BY NewTaskType DEF Init, TaskType
<1>a. 0 \in 0..MaxPhase
  BY PhasesAssumption
<1>4. RunType
  BY <1>a DEF Init, RunType
<1>5. QueueInv /\ FlushInv
  BY DEF Init, QueueInv, Injective, FlushInv
<1>6. AnswerInv /\ OneAtATime /\ BusyHasOwner /\ FailInv
  BY <1>1 DEF Init, AnswerInv, OneAtATime, BusyHasOwner, FailInv, Started, Running
<1> QED BY <1>2, <1>3, <1>4, <1>5, <1>6 DEF IInv, TypeOK, SafeInv

\* Steps that leave the tasks and the queue alone.
LEMMA AsideInv ==
    ASSUME IInv, \/ Load \/ Unready \/ Iterate
                 \/ \E p \in Phases : RequestPhase(p)
    PROVE  IInv'
<1>1. requested' \in 0..MaxPhase
  BY PhasesAssumption DEF IInv, TypeOK, RunType, Load, Unready, Iterate, RequestPhase, Larger, runVars, Phases
<1>2. TypeOK'
  <2>1. UNCHANGED <<stageVars, tasks, queue>>
    BY DEF Load, Unready, Iterate, RequestPhase, stageVars, runVars
  <2>2. StageType' /\ TaskType'
    BY <2>1 DEF IInv, TypeOK, StageType, TaskType, stageVars
  <2>3. RunType'
    BY <1>1 DEF IInv, TypeOK, RunType, Load, Unready, Iterate, RequestPhase, runVars, loopVars
  <2> QED BY <2>2, <2>3 DEF TypeOK
<1>3. /\ UNCHANGED <<tasks, queue, busy, failed>>
      /\ ready' => ready
      /\ flushes' \in Nat /\ batch' \in Nat
      /\ flushes + batch > 0 => flushes' + batch' > 0
  BY DEF IInv, TypeOK, RunType, Load, Unready, Iterate, RequestPhase, stageVars, runVars, loopVars
<1>4. SafeInv'
  BY <1>3, StandStill DEF IInv
<1> QED BY <1>2, <1>4 DEF IInv

LEMMA CancelInv ==
    ASSUME IInv, NEW S, Cancel(S)
    PROVE  IInv'
<1>1. \A t \in Requests : tasks[t] \in Task
  BY DEF IInv, TypeOK, TaskType
<1>2. \A t \in Requests : /\ [tasks[t] EXCEPT !.cancelled = TRUE] \in Task
                          /\ [tasks[t] EXCEPT !.cancelled = TRUE].step = tasks[t].step
                          /\ [tasks[t] EXCEPT !.cancelled = TRUE].answer = tasks[t].answer
  BY <1>1, CancelledType
<1> DEFINE f(t) == [tasks[t] EXCEPT !.cancelled = TRUE]
<1>3. tasks' = [t \in Requests |-> IF t \in S /\ (tasks[t].step = "queued" \/ Running(t))
                                   THEN f(t) ELSE tasks[t]]
  BY DEF Cancel
<1>4. \A t \in Requests : f(t) \in Task /\ f(t).step = tasks[t].step /\ f(t).answer = tasks[t].answer
  BY <1>2
<1> HIDE DEF f
<1>5. /\ tasks' \in [Requests -> Task]
      /\ \A t \in Requests : tasks'[t].step = tasks[t].step /\ tasks'[t].answer = tasks[t].answer
  <2>1. \A t \in Requests : tasks'[t] \in {f(t), tasks[t]}
    BY <1>3
  <2>2. \A t \in Requests : /\ tasks'[t] \in Task
                            /\ tasks'[t].step = tasks[t].step /\ tasks'[t].answer = tasks[t].answer
    BY <1>1, <1>4, <2>1
  <2> QED BY <1>3, <2>2
<1>6. UNCHANGED <<status, ready, stageVars, queue, busy, failed, inClean, position, requested, loopVars>>
  BY DEF Cancel
<1>7. TypeOK'
  BY <1>5, <1>6 DEF IInv, TypeOK, StageType, TaskType, RunType, stageVars, loopVars
<1>8. SafeInv'
  BY <1>5, <1>6, StandStill DEF IInv, TypeOK, RunType, loopVars
<1> QED BY <1>7, <1>8 DEF IInv

\* Stir leaves every task where it stands.
LEMMA StirEffect ==
    ASSUME TaskType, Stir
    PROVE  /\ tasks' \in [Requests -> Task]
           /\ \A t \in Requests : tasks'[t].step = tasks[t].step /\ tasks'[t].answer = tasks[t].answer
<1>1. \A t \in Requests : tasks[t] \in Task
  BY DEF TaskType
<1> DEFINE f(t) == [tasks[t] EXCEPT !.quiet = FALSE]
<1>2. \A t \in Requests : f(t) \in Task /\ f(t).step = tasks[t].step /\ f(t).answer = tasks[t].answer
  BY <1>1, StirredType
<1>3. tasks' = [t \in Requests |-> IF Started(t) THEN f(t) ELSE tasks[t]]
  BY DEF Stir
<1> HIDE DEF f
<1>4. \A t \in Requests : tasks'[t] \in {f(t), tasks[t]}
  BY <1>3
<1>5. \A t \in Requests : /\ tasks'[t] \in Task
                          /\ tasks'[t].step = tasks[t].step /\ tasks'[t].answer = tasks[t].answer
  BY <1>1, <1>2, <1>4
<1> QED BY <1>3, <1>5

\* What the stages that change keep.
LEMMA ChangeInv ==
    ASSUME IInv, \/ \E s \in Stages : Attach(s) \/ Detach(s) \/ SetDisabled(s)
                 \/ \E p \in Phases : InvalidatePhase(p)
    PROVE  IInv'
<1>1. Stir
  BY DEF Attach, Detach, SetDisabled, InvalidatePhase
<1>2. /\ tasks' \in [Requests -> Task]
      /\ \A t \in Requests : tasks'[t].step = tasks[t].step /\ tasks'[t].answer = tasks[t].answer
  BY <1>1, StirEffect DEF IInv, TypeOK
<1>3. UNCHANGED <<status, ready, unbinds, queue, busy, failed, inClean, position, requested, loopVars>>
  BY DEF Attach, Detach, SetDisabled, InvalidatePhase
<1>4. TaskType' /\ RunType'
  BY <1>2, <1>3 DEF IInv, TypeOK, TaskType, RunType, loopVars
<1>5. ASSUME NEW s \in Stages, Attach(s) PROVE StageType'
  <2>1. pipeline' = Placed(pipeline, s)
    BY <1>5 DEF Attach
  <2>2. pipeline' \in Seq(Stages)
    BY <2>1, PlacedType DEF IInv, TypeOK, StageType
  <2>3. StageType
    BY DEF IInv, TypeOK
  <2>4. /\ completed' = completed \ {s} /\ outdated' = outdated \cup {s}
        /\ disabled' = disabled \ {s} /\ pauses' = [pauses EXCEPT ![s] = 0]
        /\ bindings' \subseteq bindings
    BY <1>5 DEF Attach
  <2>5. 0 \in 0..MaxPauses
    BY PhasesAssumption
  <2>6. pauses' \in [Stages -> 0..MaxPauses]
    BY <2>3, <2>4, <2>5 DEF StageType
  <2>7. /\ completed' \subseteq Stages /\ disabled' \subseteq Stages /\ outdated' \subseteq Stages
        /\ bindings' \subseteq Stages \X Stages
    BY <2>3, <2>4 DEF StageType
  <2>8. unbinds' \in BOOLEAN
    BY <1>3, <2>3 DEF StageType
  <2> QED BY <2>2, <2>6, <2>7, <2>8 DEF StageType
<1>6. ASSUME NEW s \in Stages, Detach(s) PROVE StageType'
  <2> DEFINE S == Stages \ {s}
  <2>1. pipeline' = Keep(pipeline, S)
    BY <1>6 DEF Detach
  <2> HIDE DEF S
  <2>2. pipeline' \in Seq(Stages)
    BY <2>1, KeepProperties DEF IInv, TypeOK, StageType
  <2> QED BY <1>3, <1>6, <2>2 DEF Detach, IInv, TypeOK, StageType
<1>7. ASSUME NEW s \in Stages, SetDisabled(s) PROVE StageType'
  BY <1>7 DEF SetDisabled, IInv, TypeOK, StageType
<1>8. ASSUME NEW p \in Phases, InvalidatePhase(p) PROVE StageType'
  <2> DEFINE gone == {s \in InPipeline : PhaseOf[s] = p}
  <2>1. gone \subseteq Stages
    BY DEF InPipeline, IInv, TypeOK, StageType
  <2>2. /\ completed' = WithoutCompleted(gone, completed, bindings)
        /\ outdated' = outdated \cup gone \cup (completed \ completed')
        /\ UNCHANGED <<pipeline, disabled, pauses, bindings, unbinds>>
    BY <1>8 DEF InvalidatePhase
  <2> HIDE DEF gone
  <2>3. completed \in SUBSET Stages
    BY DEF IInv, TypeOK, StageType
  <2>4. completed' \subseteq completed
    BY <2>2, <2>3, CompletedType
  <2> QED BY <2>1, <2>2, <2>3, <2>4 DEF IInv, TypeOK, StageType
<1>9. TypeOK'
  BY <1>4, <1>5, <1>6, <1>7, <1>8 DEF TypeOK
<1>10. SafeInv'
  BY <1>2, <1>3, StandStill DEF IInv, TypeOK, RunType, loopVars
<1> QED BY <1>9, <1>10 DEF IInv

\* An answer that is given at once, or a place at the end of the queue.
LEMMA RequestInv ==
    ASSUME IInv, NEW t \in Requests, Request(t)
    PROVE  IInv'
<1> DEFINE answered(type, phase, answer) == [Finished(tasks[t], answer) EXCEPT !.type = type, !.phase = phase]
           queued(type, phase, rest) == [tasks[t] EXCEPT !.type = type, !.phase = phase,
                                                         !.step = "queued", !.rest = rest]
           Types == {"build", "clean", "rebuild"}
<1>1. tasks \in [Requests -> Task] /\ tasks[t] \in Task /\ tasks[t].step = "new"
  BY DEF IInv, TypeOK, TaskType, Request
<1>2. UNCHANGED <<status, ready, stageVars, busy, failed, inClean, position, requested, batch>>
  BY DEF Request
<1>3. ASSUME NEW type \in Types, NEW phase \in 0..MaxPhase, NEW answer \in {"done", "error"},
             Reply(t, type, phase, answer)
      PROVE  IInv'
  <2> DEFINE new == answered(type, phase, answer)
             old == Finished(tasks[t], answer)
  <2>1. old \in Task /\ old.step = "done" /\ old.answer = answer
    BY <1>1, FinishedType DEF Answers
  <2>2. new = [old EXCEPT !.type = type, !.phase = phase]
    OBVIOUS
  <2> HIDE DEF old, answered
  <2>3. new \in Task /\ new.step = "done" /\ new.answer = answer
    BY <2>1, <2>2 DEF Task
  <2>4. tasks' = [tasks EXCEPT ![t] = new] /\ UNCHANGED <<queue, flushes>>
    BY <1>3 DEF Reply, answered
  <2> HIDE DEF new
  <2>5. /\ tasks' \in [Requests -> Task] /\ tasks'[t] = new
        /\ \A r \in Requests \ {t} : tasks'[r] = tasks[r]
    BY <1>1, <2>3, <2>4
  <2>6. TypeOK'
    <3>1. StageType' /\ RunType'
      BY <1>2, <2>4 DEF IInv, TypeOK, StageType, RunType, stageVars
    <3>2. TaskType'
      BY <2>4, <2>5 DEF IInv, TypeOK, TaskType
    <3> QED BY <3>1, <3>2 DEF TypeOK
  <2>7. \A r \in Requests : /\ Started(r)' <=> Started(r)
                            /\ Running(r)' <=> Running(r)
                            /\ tasks'[r].step = "lost" <=> tasks[r].step = "lost"
                            /\ tasks[r].step = "queued" => tasks'[r].step = "queued"
                            /\ tasks[r].answer = "refused" => tasks'[r].answer = "refused"
                            /\ tasks'[r].answer = "refused" => tasks'[r] = tasks[r]
    BY <1>1, <2>3, <2>5 DEF Started, Running, IInv, SafeInv, AnswerInv
  <2>8. NoneRefused' => NoneRefused
    BY <2>7 DEF NoneRefused
  <2>9. QueueInv'
    <3>1. \A i \in DOMAIN queue : queue[i] \in Requests
      BY DEF IInv, TypeOK, TaskType
    <3>2. QueueInv /\ queue' = queue
      BY <2>4 DEF IInv, SafeInv
    <3>3. \A i \in DOMAIN queue : tasks'[queue[i]].step = "queued"
      BY <2>7, <3>1, <3>2 DEF QueueInv
    <3> QED BY <3>2, <3>3 DEF QueueInv, Injective
  <2>10. AnswerInv' /\ OneAtATime' /\ BusyHasOwner'
    BY <1>2, <2>7, <2>8 DEF IInv, SafeInv, AnswerInv, OneAtATime, BusyHasOwner
  <2>11. FlushInv' /\ FailInv'
    BY <1>2, <2>4, <2>7, <2>8 DEF IInv, SafeInv, FlushInv, FailInv
  <2> QED BY <2>6, <2>9, <2>10, <2>11 DEF IInv, SafeInv
<1>4. ASSUME NEW type \in Types, NEW phase \in 0..MaxPhase, NEW rest \in Seq(Stages),
             Enqueue(t, type, phase, rest)
      PROVE  IInv'
  <2> DEFINE new == queued(type, phase, rest)
  <2>3. new \in Task /\ new.step = "queued" /\ new.answer = tasks[t].answer
    BY <1>1 DEF Task, Step
  <2>4. tasks' = [tasks EXCEPT ![t] = new] /\ queue' = Append(queue, t) /\ flushes' = flushes + 1
    BY <1>4 DEF Enqueue
  <2> HIDE DEF new
  <2>5. /\ tasks' \in [Requests -> Task] /\ tasks'[t] = new
        /\ \A r \in Requests \ {t} : tasks'[r] = tasks[r]
    BY <1>1, <2>3, <2>4
  <2>6. TypeOK'
    <3>1. StageType'
      BY <1>2 DEF IInv, TypeOK, StageType, stageVars
    <3>2. RunType'
      BY <1>2, <2>4 DEF IInv, TypeOK, RunType
    <3>3. queue \in Seq(Requests)
      BY DEF IInv, TypeOK, TaskType
    <3>4. queue' \in Seq(Requests)
      BY <2>4, <3>3
    <3> QED BY <2>5, <3>1, <3>2, <3>4 DEF TypeOK, TaskType
  <2>7. \A r \in Requests : /\ Started(r)' <=> Started(r)
                            /\ Running(r)' <=> Running(r)
                            /\ tasks'[r].step = "lost" <=> tasks[r].step = "lost"
                            /\ tasks[r].step = "queued" => tasks'[r].step = "queued"
                            /\ tasks'[r].answer = tasks[r].answer
    BY <1>1, <2>3, <2>5 DEF Started, Running
  <2>8. NoneRefused' => NoneRefused
    BY <2>7 DEF NoneRefused
  <2>9. QueueInv'
    <3>1. /\ queue \in Seq(Requests)
          /\ \A i \in DOMAIN queue : queue[i] \in Requests /\ queue[i] # t
      BY <1>1 DEF IInv, TypeOK, TaskType, SafeInv, QueueInv
    <3>2. /\ DOMAIN queue' = 1..Len(queue) + 1 /\ DOMAIN queue = 1..Len(queue) /\ Len(queue) \in Nat
          /\ queue'[Len(queue) + 1] = t
          /\ \A i \in DOMAIN queue : queue'[i] = queue[i]
      BY <2>4, <3>1
    <3> DEFINE q == queue'
    <3>a. \A i \in DOMAIN q : i \in DOMAIN queue \/ i = Len(queue) + 1
      BY <3>2
    <3>b. /\ q[Len(queue) + 1] = t
          /\ \A i \in DOMAIN queue : q[i] = queue[i] /\ q[i] \in Requests /\ q[i] # t
      BY <3>1, <3>2
    <3> HIDE DEF q
    <3>c. \A i, j \in DOMAIN queue : queue[i] = queue[j] => i = j
      BY DEF IInv, SafeInv, QueueInv, Injective
    <3>d. ASSUME NEW i \in DOMAIN q, NEW j \in DOMAIN q, q[i] = q[j] PROVE i = j
      <4>1. CASE i \in DOMAIN queue /\ j \in DOMAIN queue
        BY <3>b, <3>c, <3>d, <4>1
      <4>2. CASE i = Len(queue) + 1 \/ j = Len(queue) + 1
        BY <3>a, <3>b, <3>d, <4>2
      <4> QED BY <3>a, <4>1, <4>2
    <3>3. Injective(q)
      BY <3>d DEF Injective
    <3>e. \A i \in DOMAIN queue : tasks[queue[i]].step = "queued"
      BY DEF IInv, SafeInv, QueueInv
    <3>4. \A i \in DOMAIN q : tasks'[q[i]].step = "queued"
      <4>1. \A i \in DOMAIN queue : tasks'[q[i]].step = "queued"
        BY <2>5, <3>b, <3>e
      <4>2. tasks'[q[Len(queue) + 1]].step = "queued"
        BY <2>3, <2>5, <3>b
      <4> QED BY <3>a, <4>1, <4>2
    <3> QED BY <3>3, <3>4 DEF QueueInv, Injective, q
  <2>10. AnswerInv'
    BY <1>1, <2>5, <2>7 DEF IInv, SafeInv, AnswerInv
  <2>11. OneAtATime' /\ BusyHasOwner'
    BY <1>2, <2>7, <2>8 DEF IInv, SafeInv, OneAtATime, BusyHasOwner
  <2>12. FlushInv' /\ FailInv'
    BY <1>2, <2>4, <2>7, <2>8 DEF IInv, TypeOK, RunType, SafeInv, FlushInv, FailInv
  <2> QED BY <2>6, <2>9, <2>10, <2>11, <2>12 DEF IInv, SafeInv
<1> HIDE DEF answered, queued
<1>5. << >> \in Seq(Stages)
  OBVIOUS
<1>6. ASSUME NEW p \in BuildPhases, BuildAsync(t, p) PROVE IInv'
  <2>1. p \in 0..MaxPhase
    BY PhasesAssumption DEF Phases
  <2> QED BY <1>3, <1>4, <1>5, <1>6, <2>1 DEF BuildAsync
<1>7. ASSUME NEW p \in CleanPhases, CleanAsync(t, p) PROVE IInv'
  <2> DEFINE S == {s \in Stages : PhaseOf[s] >= p}
             rest == Keep(pipeline, S)
  <2>1. p \in 0..MaxPhase
    BY PhasesAssumption DEF Phases
  <2>2. rest \in Seq(Stages)
    <3> HIDE DEF S
    <3> QED BY KeepProperties DEF IInv, TypeOK, StageType
  <2>3. \/ \E answer \in {"done", "error"} : Reply(t, "clean", p, answer)
        \/ Enqueue(t, "clean", p, rest)
    BY <1>7 DEF CleanAsync
  <2> HIDE DEF rest
  <2> QED BY <1>3, <1>4, <2>1, <2>2, <2>3
<1>8. ASSUME NEW p \in RebuildPhases, RebuildAsync(t, p) PROVE IInv'
  <2>1. p \in 0..MaxPhase
    BY PhasesAssumption DEF Phases
  <2> QED BY <1>3, <1>4, <1>5, <1>8, <2>1 DEF RebuildAsync
<1> QED BY <1>6, <1>7, <1>8 DEF Request

LEMMA FlushNothingInv ==
    ASSUME IInv, FlushNothing
    PROVE  IInv'
<1>1. /\ UNCHANGED <<status, ready, stageVars, runVars, flushes>>
      /\ batch' \in Nat /\ (busy \/ queue = << >>)
  BY DEF IInv, TypeOK, RunType, FlushNothing, Flushing, stageVars, runVars
<1>2. TypeOK'
  BY <1>1 DEF IInv, TypeOK, StageType, TaskType, RunType, stageVars, runVars
<1>3. QueueInv' /\ AnswerInv'
  BY <1>1 DEF IInv, SafeInv, QueueInv, Injective, AnswerInv, runVars
<1>4. OneAtATime' /\ BusyHasOwner' /\ FailInv'
  BY <1>1 DEF IInv, SafeInv, OneAtATime, BusyHasOwner, FailInv, NoneRefused, Started, Running, runVars
<1>5. FlushInv'
  BY <1>1 DEF FlushInv, runVars
<1> QED BY <1>2, <1>3, <1>4, <1>5 DEF IInv, SafeInv

LEMMA FlushFailsInv ==
    ASSUME IInv, FlushFails
    PROVE  IInv'
<1> DEFINE f(t) == Finished(tasks[t], "error")
<1>1. /\ UNCHANGED <<status, ready, stageVars, busy, failed, inClean, position, requested, flushes>>
      /\ batch' \in Nat /\ queue' = << >>
  BY DEF IInv, TypeOK, RunType, FlushFails, Pops, Flushing, stageVars
<1>2. \A t \in Requests : tasks[t] \in Task
  BY DEF IInv, TypeOK, TaskType
<1>3. \A t \in Requests : f(t) \in Task /\ f(t).step = "done" /\ f(t).answer = "error"
  BY <1>2, FinishedType DEF Answers
<1>4. tasks' = [t \in Requests |-> IF tasks[t].step = "queued" THEN f(t) ELSE tasks[t]]
  BY DEF FlushFails
<1> HIDE DEF f
<1>5. /\ tasks' \in [Requests -> Task]
      /\ \A t \in Requests : IF tasks[t].step = "queued"
                             THEN tasks'[t].step = "done" /\ tasks'[t].answer = "error"
                             ELSE tasks'[t] = tasks[t]
  <2>1. \A t \in Requests : tasks'[t] = IF tasks[t].step = "queued" THEN f(t) ELSE tasks[t]
    BY <1>4
  <2>2. \A t \in Requests : tasks'[t] \in Task
    BY <1>2, <1>3, <2>1
  <2>3. tasks' \in [Requests -> Task]
    BY <1>4, <2>2
  <2> QED BY <1>3, <2>1, <2>3
<1>6. TypeOK'
  BY <1>1, <1>5 DEF IInv, TypeOK, StageType, TaskType, RunType, stageVars
<1>7. \A r \in Requests : /\ Started(r)' <=> Started(r)
                          /\ Running(r)' <=> Running(r)
                          /\ tasks'[r].step = "lost" <=> tasks[r].step = "lost"
  BY <1>5 DEF Started, Running
<1>8. AnswerInv' /\ (NoneRefused' => NoneRefused)
  BY <1>5 DEF IInv, SafeInv, AnswerInv, NoneRefused
<1>9. QueueInv' /\ FlushInv'
  BY <1>1 DEF QueueInv, Injective, FlushInv
<1>10. OneAtATime' /\ BusyHasOwner' /\ FailInv'
  BY <1>1, <1>7, <1>8 DEF IInv, SafeInv, OneAtATime, BusyHasOwner, FailInv
<1> QED BY <1>6, <1>8, <1>9, <1>10 DEF IInv, SafeInv

LEMMA FlushRefusesInv ==
    ASSUME IInv, FlushRefuses
    PROVE  IInv'
<1> DEFINE t == Head(queue)
           new == Returned(tasks[t], "refused")
           rest == Tail(queue)
<1>1. /\ UNCHANGED <<status, ready, stageVars, busy, failed, inClean, position, requested, flushes>>
      /\ batch' \in Nat /\ queue' = rest /\ queue # << >> /\ ~busy
      /\ Update(t, new, {})
  BY DEF IInv, TypeOK, RunType, FlushRefuses, Pops, Flushing, stageVars
<1>2. /\ t \in Requests /\ tasks[t] \in Task
      /\ tasks[t].step = "queued" /\ tasks[t].answer # "refused"
      /\ rest \in Seq(Requests) /\ Injective(rest)
      /\ \A j \in DOMAIN rest : rest[j] # t /\ tasks[rest[j]].step = "queued"
  BY <1>1, HeadOfQueue
<1> HIDE DEF t, rest
<1>3. new \in Task /\ new.step = "returned" /\ new.answer = "refused"
  BY <1>2, ReturnedType DEF Answers
<1> HIDE DEF new
<1>4. {} \in SUBSET Requests /\ {} \in SUBSET {rest[j] : j \in DOMAIN rest}
  OBVIOUS
<1>5. /\ tasks' \in [Requests -> Task] /\ tasks'[t] = new
      /\ \A r \in Requests \ {t} : tasks'[r] = tasks[r]
  BY <1>1, <1>2, <1>3, <1>4, UpdateEffect DEF IInv, TypeOK
<1>6. Moves(t, rest)
  BY <1>1, <1>3, <1>4, <1>5 DEF Moves
<1>7. queue' \in Seq(Requests) /\ QueueInv' /\ AnswerInv'
  BY <1>2, <1>3, <1>5, <1>6, MovesQueue DEF IInv, SafeInv
<1>8. TypeOK'
  BY <1>1, <1>5, <1>7 DEF IInv, TypeOK, StageType, TaskType, RunType, stageVars
<1>a. tasks'[t].step = "returned" /\ tasks'[t].answer = "refused"
  BY <1>3, <1>5
<1>9. ~NoneRefused' /\ \E r \in Requests : Started(r)'
  BY <1>2, <1>a DEF NoneRefused, Started
<1>10. OneAtATime' /\ BusyHasOwner' /\ FlushInv' /\ FailInv'
  BY <1>1, <1>2, <1>9 DEF OneAtATime, BusyHasOwner, FlushInv, FailInv
<1> QED BY <1>7, <1>8, <1>10 DEF IInv, SafeInv

\* The head of the queue goes its first steps.
LEMMA FlushStartsEffect ==
    ASSUME IInv, FlushStarts
    PROVE  /\ TickType /\ position' \in Nat
           /\ Moves(Head(queue), Tail(queue)) /\ Settles(Head(queue))
<1> DEFINE t == Head(queue)
           rest == Tail(queue)
<1>1. queue # << >>
  BY DEF FlushStarts, Pops
<1>2. /\ t \in Requests /\ tasks[t] \in Task
      /\ tasks[t].step = "queued" /\ tasks[t].answer # "refused"
      /\ rest \in Seq(Requests)
  BY <1>1, HeadOfQueue
<1>3. TypeOK
  BY DEF IInv
<1>4. /\ TickType /\ position' \in Nat /\ Moves(t, rest)
      /\ Settles(t)
  <2>1. CASE TickBuild(t, rest, completed, bindings, 0, outdated)
    <3>1. /\ completed \in SUBSET Stages /\ bindings \in SUBSET (Stages \X Stages)
          /\ outdated \in SUBSET Stages /\ 0 \in Nat
      BY <1>3 DEF TypeOK, StageType
    <3> HIDE DEF t, rest
    <3> QED BY <1>2, <1>3, <2>1, <3>1, TickBuildEffect
  <2>2. CASE TickClean(t, tasks[t].rest) /\ queue' = rest /\ position' = 0
    <3>1. tasks[t].rest \in Seq(Stages)
      BY <1>2 DEF Task
    <3> HIDE DEF t, rest
    <3> QED BY <1>2, <1>3, <2>2, <3>1, TickCleanEffect
  <2>3. CASE TickRebuild(t) /\ queue' = rest /\ position' = 0
    <3> HIDE DEF t, rest
    <3> QED BY <1>2, <1>3, <2>3, TickRebuildEffect
  <2> QED BY <2>1, <2>2, <2>3 DEF FlushStarts
<1> QED BY <1>4

LEMMA FlushStartsInv ==
    ASSUME IInv, FlushStarts
    PROVE  IInv'
<1> DEFINE t == Head(queue)
           rest == Tail(queue)
<1>1. /\ UNCHANGED <<status, ready, unbinds, pipeline, disabled, flushes>>
      /\ batch' \in Nat /\ queue # << >> /\ ~busy
      /\ busy' = TRUE /\ failed' = FALSE /\ inClean' \in BOOLEAN
  BY DEF IInv, TypeOK, RunType, FlushStarts, Pops, Flushing, Begins
<1>2. /\ t \in Requests /\ tasks[t] \in Task
      /\ tasks[t].step = "queued" /\ tasks[t].answer # "refused"
      /\ rest \in Seq(Requests)
  BY <1>1, HeadOfQueue
<1>3. TypeOK
  BY DEF IInv
<1>4. /\ TickType /\ position' \in Nat /\ Moves(t, rest)
      /\ tasks'[t].answer # "refused" /\ tasks'[t].step # "lost"
  BY FlushStartsEffect DEF Settles
<1>5. queue' \in Seq(Requests) /\ SafeInv'
  BY <1>1, <1>3, <1>4, StartUp DEF IInv
<1>6. tasks' \in [Requests -> Task]
  BY <1>4 DEF Moves
<1> HIDE DEF t, rest
<1>7. TypeOK'
  BY <1>1, <1>4, <1>5, <1>6 DEF IInv, TypeOK, StageType, TaskType, RunType, TickType
<1> QED BY <1>5, <1>7 DEF IInv

\* The completion of a task.  It may clear the busy bit of another one, but
\* only after a refusal.
LEMMA CompleteInv ==
    ASSUME IInv, NEW t \in Requests, Complete(t)
    PROVE  IInv'
<1> DEFINE S == Stages \ Transients
           R == Stages \ {Loaded[i] : i \in DOMAIN Loaded}
           kept == Keep(pipeline, S)
           new == [tasks[t] EXCEPT !.step = "done"]
<1>1. /\ tasks \in [Requests -> Task] /\ tasks[t] \in Task /\ tasks[t].step = "returned"
      /\ pipeline \in Seq(Stages)
  BY DEF IInv, TypeOK, TaskType, StageType, Complete
<1>2. /\ UNCHANGED <<status, ready, completed, disabled, pauses, bindings, unbinds, outdated,
                     queue, failed, position, batch>>
      /\ busy' = FALSE /\ inClean' = FALSE /\ requested' = 0
      /\ tasks' = [tasks EXCEPT ![t] = new]
  BY DEF Complete, Releases
<1>3. /\ ready => flushes' = flushes + 1
      /\ flushes' \in {flushes, flushes + 1}
      /\ pipeline' \in {kept, Keep(kept, R)}
  BY DEF Complete, GoesOn
<1> HIDE DEF S, R
<1>4. kept \in Seq(Stages)
  BY <1>1, KeepProperties
<1> HIDE DEF kept
<1>5. Keep(kept, R) \in Seq(Stages)
  BY <1>4, KeepProperties
<1>6. new \in Task /\ new.step = "done" /\ new.answer = tasks[t].answer
  BY <1>1 DEF Task, Step
<1> HIDE DEF new
<1>7. /\ tasks' \in [Requests -> Task] /\ tasks'[t] = new
      /\ \A r \in Requests \ {t} : tasks'[r] = tasks[r]
  BY <1>1, <1>2, <1>6
<1>8. 0 \in 0..MaxPhase
  BY PhasesAssumption
<1>a. flushes \in Nat /\ batch \in Nat
  BY DEF IInv, TypeOK, RunType
<1>b. flushes' \in Nat /\ (ready => flushes' + batch > 0)
  <2>1. flushes \in Nat /\ flushes + 1 \in Nat /\ flushes + 1 + batch > 0
    BY <1>a
  <2>2. flushes' \in Nat
    BY <1>3, <2>1
  <2>3. ASSUME ready PROVE flushes' + batch > 0
    <3>1. flushes' = flushes + 1
      BY <1>3, <2>3
    <3> QED BY <2>1, <3>1
  <2> QED BY <2>2, <2>3
<1>c. pipeline' \in Seq(Stages)
  BY <1>3, <1>4, <1>5
<1>9. TypeOK'
  <2>1. StageType'
    BY <1>2, <1>c DEF IInv, TypeOK, StageType
  <2>2. TaskType'
    BY <1>2, <1>7 DEF IInv, TypeOK, TaskType
  <2>3. RunType'
    BY <1>2, <1>8, <1>b DEF IInv, TypeOK, RunType
  <2> QED BY <2>1, <2>2, <2>3 DEF TypeOK
<1>10. \A r \in Requests : /\ tasks'[r].answer = tasks[r].answer
                           /\ tasks[r].step = "queued" => tasks'[r].step = "queued"
                           /\ Started(r)' <=> Started(r) /\ r # t
                           /\ Running(r)' => Running(r) /\ tasks'[r] = tasks[r]
  BY <1>1, <1>6, <1>7 DEF Started, Running
<1>11. NoneRefused' <=> NoneRefused
  BY <1>10 DEF NoneRefused
<1>12. QueueInv'
  <2>1. \A i \in DOMAIN queue : queue[i] \in Requests
    BY DEF IInv, TypeOK, TaskType
  <2> QED BY <1>2, <1>10, <2>1 DEF IInv, SafeInv, QueueInv, Injective
<1>13. AnswerInv'
  BY <1>6, <1>7, <1>10 DEF IInv, SafeInv, AnswerInv
<1>14. OneAtATime'
  <2>1. Started(t)
    BY <1>1 DEF Started
  <2> QED BY <1>10, <1>11, <2>1 DEF IInv, SafeInv, OneAtATime
<1>15. BusyHasOwner' /\ FlushInv'
  BY <1>2, <1>b DEF BusyHasOwner, FlushInv
<1>16. FailInv'
  BY <1>2, <1>10, <1>11 DEF IInv, SafeInv, FailInv
<1> QED BY <1>9, <1>12, <1>13, <1>14, <1>15, <1>16 DEF IInv, SafeInv

\* A step of the task that runs, once its effect is known.
LEMMA GoesOnInv ==
    ASSUME IInv, NEW t \in Requests, Started(t), tasks[t].step # "returned",
           Moves(t, queue), tasks'[t].answer # "refused",
           NoneRefused => (Running(t)' => ~failed' /\ tasks'[t].step # "lost"),
           TickType, position' \in Nat, failed' \in BOOLEAN, unbinds' \in BOOLEAN,
           UNCHANGED <<status, ready, pipeline, disabled, busy, inClean, flushes, batch>>
    PROVE  IInv'
<1>1. tasks[t].answer # "refused"
  BY DEF IInv, SafeInv, AnswerInv, Started
<1>2. queue' \in Seq(Requests) /\ SafeInv'
  BY <1>1, GoOn DEF IInv
<1>3. tasks' \in [Requests -> Task]
  BY DEF Moves
<1>4. TypeOK'
  BY <1>2, <1>3 DEF IInv, TypeOK, StageType, TaskType, RunType, TickType
<1> QED BY <1>2, <1>4 DEF IInv

\* A step that gives the task that runs another record, and touches no other.
LEMMA MovesAlone ==
    ASSUME TypeOK, NEW t \in Requests, NEW new \in Task, Update(t, new, {}),
           new.step \notin {"new", "queued", "done"}, queue' = queue
    PROVE  Moves(t, queue) /\ tasks'[t] = new
<1>1. {} \in SUBSET Requests /\ {} \in SUBSET {queue[j] : j \in DOMAIN queue}
  OBVIOUS
<1>2. /\ tasks' \in [Requests -> Task] /\ tasks'[t] = new
      /\ \A r \in Requests \ {t} : tasks'[r] = tasks[r]
  BY <1>1, UpdateEffect DEF TypeOK
<1> QED BY <1>1, <1>2 DEF Moves

LEMMA StageCleanedEffect ==
    ASSUME IInv, NEW t \in Requests, StageCleaned(t)
    PROVE  TickType /\ Moves(t, queue) /\ Settles(t)
<1>1. /\ UNCHANGED <<status, ready, pipeline, disabled, unbinds, queue,
                     busy, failed, inClean, position, flushes, batch>>
      /\ tasks[t].step = "cleaning" /\ tasks[t] \in Task
  BY DEF StageCleaned, loopVars, IInv, TypeOK, TaskType
<1>2. /\ Started(t) /\ tasks[t].answer # "refused"
      /\ NoneRefused => ~failed
  BY <1>1 DEF Started, Running, IInv, SafeInv, AnswerInv, FailInv
<1>3. TypeOK
  BY DEF IInv
<1>4. TickType /\ Moves(t, queue) /\ Settles(t)
  <2>1. CASE TickClean(t, SubSeq(tasks[t].rest, 1, Len(tasks[t].rest) - 1))
    <3> DEFINE rest == SubSeq(tasks[t].rest, 1, Len(tasks[t].rest) - 1)
    <3>1. tasks[t].rest \in Seq(Stages)
      BY <1>1 DEF Task
    <3>2. rest \in Seq(Stages)
      BY <3>1
    <3> HIDE DEF rest
    <3> QED BY <1>1, <1>2, <1>3, <2>1, <3>2, TickCleanEffect DEF rest
  <2>2. CASE /\ Update(t, Returned(tasks[t], "error"), {})
             /\ UNCHANGED <<completed, outdated, bindings, pauses, requested>>
    <3> DEFINE new == Returned(tasks[t], "error")
    <3>1. new \in Task /\ new.step = "returned" /\ new.answer = "error"
      BY <1>1, ReturnedType DEF Answers
    <3> HIDE DEF new
    <3>2. Moves(t, queue) /\ tasks'[t] = new
      BY <1>1, <1>3, <2>2, <3>1, MovesAlone DEF new
    <3>3. TickType
      BY <1>3, <2>2 DEF TickType, TypeOK, StageType, RunType
    <3> QED BY <3>1, <3>2, <3>3 DEF Settles
  <2> QED BY <2>1, <2>2 DEF StageCleaned
<1> QED BY <1>4

LEMMA StageCleanedInv ==
    ASSUME IInv, NEW t \in Requests, StageCleaned(t)
    PROVE  IInv'
<1>1. /\ UNCHANGED <<status, ready, pipeline, disabled, unbinds, queue,
                     busy, failed, inClean, position, flushes, batch>>
      /\ tasks[t].step = "cleaning" /\ tasks[t] \in Task
  BY DEF StageCleaned, loopVars, IInv, TypeOK, TaskType
<1>2. /\ Started(t) /\ tasks[t].answer # "refused"
      /\ NoneRefused => ~failed
  BY <1>1 DEF Started, Running, IInv, SafeInv, AnswerInv, FailInv
<1>3. TypeOK
  BY DEF IInv
<1>4. TickType /\ Moves(t, queue) /\ tasks'[t].answer # "refused" /\ tasks'[t].step # "lost"
  BY StageCleanedEffect DEF Settles
<1>5. position' \in Nat /\ failed' \in BOOLEAN /\ unbinds' \in BOOLEAN
  BY <1>1, <1>3 DEF TypeOK, StageType, RunType
<1> QED BY <1>1, <1>2, <1>4, <1>5, GoesOnInv

LEMMA ReapedEffect ==
    ASSUME IInv, NEW t \in Requests, Reaped(t)
    PROVE  TickType /\ position' \in Nat /\ Moves(t, queue) /\ Settles(t)
<1>1. /\ UNCHANGED <<status, ready, pipeline, disabled, unbinds, busy, failed, inClean, flushes, batch>>
      /\ tasks[t].step = "reaping" /\ tasks[t] \in Task
  BY DEF Reaped, loopVars, IInv, TypeOK, TaskType
<1>2. /\ Started(t) /\ tasks[t].answer # "refused"
      /\ NoneRefused => ~failed
  BY <1>1 DEF Started, Running, IInv, SafeInv, AnswerInv, FailInv
<1>3. TypeOK
  BY DEF IInv
<1>4. /\ TickType /\ position' \in Nat /\ Moves(t, queue)
      /\ Settles(t)
  <2>1. CASE TickBuild(t, queue, completed, bindings, position, outdated)
    <3>1. /\ completed \in SUBSET Stages /\ bindings \in SUBSET (Stages \X Stages)
          /\ outdated \in SUBSET Stages /\ position \in Nat /\ queue \in Seq(Requests)
      BY <1>3 DEF TypeOK, StageType, TaskType, RunType
    <3> QED BY <1>2, <1>3, <2>1, <3>1, TickBuildEffect
  <2>2. CASE /\ \E answer \in {"done", "error"} : Update(t, Returned(tasks[t], answer), {})
             /\ UNCHANGED <<completed, bindings, pauses, outdated, queue, position, requested>>
    <3>1. PICK answer \in {"done", "error"} : Update(t, Returned(tasks[t], answer), {})
      BY <2>2
    <3> DEFINE new == Returned(tasks[t], answer)
    <3>2. new \in Task /\ new.step = "returned" /\ new.answer = answer
      BY <1>1, ReturnedType DEF Answers
    <3> HIDE DEF new
    <3>3. Moves(t, queue) /\ tasks'[t] = new
      BY <1>3, <2>2, <3>1, <3>2, MovesAlone DEF new
    <3>4. TickType /\ position' \in Nat
      BY <1>3, <2>2 DEF TickType, TypeOK, StageType, RunType
    <3> QED BY <3>1, <3>2, <3>3, <3>4 DEF Settles
  <2> QED BY <2>1, <2>2 DEF Reaped
<1> QED BY <1>4

LEMMA ReapedInv ==
    ASSUME IInv, NEW t \in Requests, Reaped(t)
    PROVE  IInv'
<1>1. /\ UNCHANGED <<status, ready, pipeline, disabled, unbinds, busy, failed, inClean, flushes, batch>>
      /\ tasks[t].step = "reaping" /\ tasks[t] \in Task
  BY DEF Reaped, loopVars, IInv, TypeOK, TaskType
<1>2. /\ Started(t) /\ tasks[t].answer # "refused"
      /\ NoneRefused => ~failed
  BY <1>1 DEF Started, Running, IInv, SafeInv, AnswerInv, FailInv
<1>3. TypeOK
  BY DEF IInv
<1>4. /\ TickType /\ position' \in Nat /\ Moves(t, queue)
      /\ tasks'[t].answer # "refused" /\ tasks'[t].step # "lost"
  BY ReapedEffect DEF Settles
<1>5. failed' \in BOOLEAN /\ unbinds' \in BOOLEAN
  BY <1>1, <1>3 DEF TypeOK, StageType, RunType
<1> QED BY <1>1, <1>2, <1>4, <1>5, GoesOnInv

\* The callback of a stage.  It loses its task only when it finds "failed" set
\* by another one.
LEMMA StageBuiltEffect ==
    ASSUME IInv, NEW t \in Requests, StageBuilt(t)
    PROVE  /\ TickType /\ position' \in Nat /\ failed' \in BOOLEAN /\ unbinds' \in BOOLEAN
           /\ Moves(t, queue) /\ tasks'[t].answer # "refused"
           /\ tasks'[t].step = "returned" => tasks'[t].answer \in {"done", "error"}
           /\ NoneRefused => (Running(t)' => ~failed' /\ tasks'[t].step # "lost")
           /\ ~failed' => Settles(t)
<1>1. /\ UNCHANGED <<status, ready, pipeline, disabled, busy, inClean, flushes, batch>>
      /\ tasks[t].step \in {"building", "skipped", "pending"} /\ tasks[t] \in Task
  BY DEF StageBuilt, loopVars, IInv, TypeOK, TaskType
<1>2. /\ Started(t) /\ tasks[t].answer # "refused" /\ tasks[t].step # "returned"
      /\ NoneRefused => ~failed
  BY <1>1 DEF Started, Running, IInv, SafeInv, AnswerInv, FailInv
<1>3. TypeOK
  BY DEF IInv
<1>4. PICK ok \in Outcomes(t) :
         LET s     == tasks[t].stage
             bad   == failed \/ ~ok
             done  == IF bad THEN WithoutCompleted({s}, completed, bindings)
                      ELSE WithCompleted({s}, completed, bindings)
             links == IF unbinds THEN {} ELSE bindings
             dated == outdated \cup (completed \ done)
         IN  /\ failed' = bad /\ unbinds' = FALSE
             /\ \/ /\ ~bad
                   /\ TickBuild(t, queue, done, links, position, dated)
                \/ /\ bad
                   /\ Update(t, IF ok THEN [tasks[t] EXCEPT !.step = "lost"]
                                ELSE Returned(tasks[t], "error"), {})
                   /\ completed' = done /\ bindings' = links /\ outdated' = dated
                   /\ UNCHANGED <<pauses, queue, position, requested>>
  BY DEF StageBuilt
<1> DEFINE s     == tasks[t].stage
           bad   == failed \/ ~ok
           done  == IF bad THEN WithoutCompleted({s}, completed, bindings)
                    ELSE WithCompleted({s}, completed, bindings)
           links == IF unbinds THEN {} ELSE bindings
           dated == outdated \cup (completed \ done)
<1>5. ok \in BOOLEAN /\ bad \in BOOLEAN
  BY <1>3 DEF Outcomes, TypeOK, RunType
<1>6. /\ done \in SUBSET Stages /\ links \in SUBSET (Stages \X Stages) /\ dated \in SUBSET Stages
      /\ position \in Nat /\ queue \in Seq(Requests)
  <2>1. completed \in SUBSET Stages /\ bindings \in SUBSET (Stages \X Stages) /\ outdated \in SUBSET Stages
    BY <1>3 DEF TypeOK, StageType
  <2>a. \A r : /\ WithoutCompleted({r}, completed, bindings) \in SUBSET Stages
                /\ WithCompleted({r}, completed, bindings) \in SUBSET Stages
    BY <2>1, CompletedType
  <2>2. WithoutCompleted({s}, completed, bindings) \in SUBSET Stages
    BY <2>a
  <2>3. WithCompleted({s}, completed, bindings) \in SUBSET Stages
    BY <2>a
  <2>4. position \in Nat /\ queue \in Seq(Requests)
    BY <1>3 DEF TypeOK, TaskType, RunType
  <2> QED BY <2>1, <2>2, <2>3, <2>4
<1>7. CASE ~bad /\ TickBuild(t, queue, done, links, position, dated)
  <2> HIDE DEF done, links, dated
  <2>1. TickType /\ position' \in Nat /\ Moves(t, queue) /\ Settles(t)
    BY <1>2, <1>3, <1>6, <1>7, TickBuildEffect
  <2>2. failed' = FALSE /\ unbinds' = FALSE
    BY <1>4, <1>5, <1>7
  <2> QED BY <2>1, <2>2 DEF Settles
<1>8. CASE /\ bad
           /\ Update(t, IF ok THEN [tasks[t] EXCEPT !.step = "lost"]
                        ELSE Returned(tasks[t], "error"), {})
           /\ completed' = done /\ bindings' = links /\ outdated' = dated
           /\ UNCHANGED <<pauses, queue, position, requested>>
  <2> DEFINE new == IF ok THEN [tasks[t] EXCEPT !.step = "lost"] ELSE Returned(tasks[t], "error")
  <2>1. /\ new \in Task /\ new.step \in {"lost", "returned"} /\ new.answer # "refused"
        /\ new.step = "returned" => new.answer \in {"done", "error"}
        /\ ~ok => new.step = "returned"
    <3>1. CASE ok
      BY <1>1, <1>2, <3>1 DEF Task, Step
    <3>2. CASE ~ok
      BY <1>1, <3>2, ReturnedType DEF Answers
    <3> QED BY <3>1, <3>2
  <2>2. Update(t, new, {})
    BY <1>8
  <2> HIDE DEF new
  <2>3. Moves(t, queue) /\ tasks'[t] = new
    BY <1>3, <1>8, <2>1, <2>2, MovesAlone
  <2>4. TickType /\ position' \in Nat
    <3> HIDE DEF done, links, dated
    <3> QED BY <1>3, <1>6, <1>8 DEF TickType, TypeOK, StageType, RunType
  <2>5. NoneRefused => ~Running(t)'
    BY <1>2, <1>8, <2>1, <2>3 DEF Running
  <2>6. failed' = TRUE /\ failed' \in BOOLEAN /\ unbinds' \in BOOLEAN
    BY <1>4, <1>5, <1>8
  <2> QED BY <2>1, <2>3, <2>4, <2>5, <2>6
<1> QED BY <1>4, <1>7, <1>8

LEMMA StageBuiltInv ==
    ASSUME IInv, NEW t \in Requests, StageBuilt(t)
    PROVE  IInv'
<1>1. /\ UNCHANGED <<status, ready, pipeline, disabled, busy, inClean, flushes, batch>>
      /\ Started(t) /\ tasks[t].step # "returned"
  BY DEF StageBuilt, loopVars, Started, IInv, SafeInv, AnswerInv
<1> QED BY <1>1, StageBuiltEffect, GoesOnInv

\* A stage that is held back goes on.
LEMMA UnpauseInv ==
    ASSUME IInv, NEW s \in Stages, Unpause(s)
    PROVE  IInv'
<1>1. /\ UNCHANGED <<status, ready, pipeline, completed, disabled, bindings, unbinds,
                     queue, busy, failed, inClean, position, requested, flushes, batch>>
      /\ pauses' = [pauses EXCEPT ![s] = @ - 1] /\ pauses[s] > 0
  BY DEF Unpause, loopVars
<1>2. TypeOK /\ SafeInv
  BY DEF IInv
<1>3. pauses' \in [Stages -> 0..MaxPauses]
  <2>1. pauses[s] \in 0..MaxPauses /\ pauses \in [Stages -> 0..MaxPauses]
    BY <1>2 DEF TypeOK, StageType
  <2>2. pauses[s] - 1 \in 0..MaxPauses
    BY <1>1, <2>1, PhasesAssumption
  <2> QED BY <1>1, <2>1, <2>2
<1>4. CASE UNCHANGED <<tasks, outdated>>
  <2>1. TypeOK'
    BY <1>1, <1>2, <1>3, <1>4 DEF TypeOK, StageType, TaskType, RunType
  <2>2. SafeInv'
    BY <1>1, <1>2, <1>4, StandStill DEF TypeOK, RunType
  <2> QED BY <2>1, <2>2 DEF IInv
<1>5. ASSUME NEW t \in Requests, tasks[t].step = "paused",
             Update(t, [tasks[t] EXCEPT !.step = IF s \in completed THEN "skipped" ELSE "building"], {}),
             outdated' \subseteq outdated
      PROVE  IInv'
  <2> DEFINE step == IF s \in completed THEN "skipped" ELSE "building"
             new == [tasks[t] EXCEPT !.step = step]
  <2>1. step \in {"skipped", "building"} /\ tasks[t] \in Task /\ {} \in SUBSET Requests
    BY <1>2 DEF TypeOK, TaskType
  <2>2. Update(t, new, {})
    BY <1>5
  <2> HIDE DEF step
  <2>3. new \in Task /\ new.step = step /\ new.answer = tasks[t].answer
    BY <2>1 DEF Task, Step
  <2> HIDE DEF new
  <2>4. /\ tasks' \in [Requests -> Task] /\ tasks'[t] = new
        /\ \A r \in Requests \ {t} : tasks'[r] = tasks[r]
    BY <1>2, <2>1, <2>2, <2>3, UpdateEffect DEF TypeOK
  <2>5. TypeOK'
    BY <1>1, <1>2, <1>3, <1>5, <2>4 DEF TypeOK, StageType, TaskType, RunType
  <2>6. \A r \in Requests :
              /\ tasks'[r].answer = tasks[r].answer
              /\ \/ tasks'[r].step = tasks[r].step
                 \/ /\ tasks[r].step = "paused"
                    /\ tasks'[r].step \in {"skipped", "building"}
    BY <1>5, <2>1, <2>3, <2>4
  <2>7. SafeInv'
    BY <1>1, <1>2, <2>6, StandStill DEF TypeOK, RunType
  <2> QED BY <2>5, <2>7 DEF IInv
<1> QED BY <1>4, <1>5 DEF Unpause

-----------------------------------------------------------------------------
(***************************************************************************)
(* The theorems.                                                           *)
(***************************************************************************)

LEMMA StepInv == IInv /\ [Next]_vars => IInv'
<1> SUFFICES ASSUME IInv, [Next]_vars PROVE IInv'
  OBVIOUS
<1>1. CASE UNCHANGED vars
  <2>1. UNCHANGED <<status, ready, pipeline, completed, disabled, pauses, bindings, unbinds, outdated,
                    tasks, queue, busy, failed, inClean, position, requested, flushes, batch>>
    BY <1>1 DEF vars, stageVars, runVars, loopVars
  <2>2. TypeOK'
    BY <2>1 DEF IInv, TypeOK, StageType, TaskType, RunType
  <2>3. SafeInv'
    BY <2>1, StandStill DEF IInv, TypeOK, RunType
  <2> QED BY <2>2, <2>3 DEF IInv
<1>2. CASE Load \/ Unready \/ Iterate \/ \E p \in Phases : RequestPhase(p)
  BY <1>2, AsideInv
<1>3. CASE Flush
  BY <1>3, FlushNothingInv, FlushFailsInv, FlushRefusesInv, FlushStartsInv DEF Flush
<1>4. CASE \E t \in Requests : Request(t) \/ Complete(t) \/ StageBuilt(t) \/ StageCleaned(t) \/ Reaped(t)
  BY <1>4, RequestInv, CompleteInv, StageBuiltInv, StageCleanedInv, ReapedInv
<1>5. CASE Cancel(Requests) \/ \E t \in Requests : Cancel({t})
  BY <1>5, CancelInv
<1>6. CASE \E s \in Stages : Unpause(s)
  BY <1>6, UnpauseInv
<1>7. CASE \/ \E s \in Stages : Attach(s) \/ Detach(s) \/ SetDisabled(s)
           \/ \E p \in Phases : InvalidatePhase(p)
  BY <1>7, ChangeInv
<1> QED BY <1>1, <1>2, <1>3, <1>4, <1>5, <1>6, <1>7 DEF Next

LEMMA AlwaysInv == Spec => []IInv
BY InitInv, StepInv, PTL DEF Spec

\* The variables of the pipeline keep their types, whatever the stages, the
\* requests and the order of the calls.
THEOREM TypeCorrect == Spec => []TypeOK
<1>1. IInv => TypeOK
  BY DEF IInv
<1> QED BY <1>1, AlwaysInv, PTL

\* busy protects the pipeline until a build is refused: do_flush starts no task
\* before the completion of the one it started has been dispatched.
THEOREM StartedOneAtATime == Spec => []OneAtATime
<1>1. IInv => OneAtATime
  BY DEF IInv, SafeInv
<1> QED BY <1>1, AlwaysInv, PTL

\* A queue that is not empty will be looked at again, by a flush that is
\* pending or by one that a completion makes.
THEOREM QueueIsFlushed == Spec => []NobodyForgotten
<1>1. IInv => NobodyForgotten
  BY DEF IInv, SafeInv, FlushInv, BusyHasOwner, NobodyForgotten
<1> QED BY <1>1, AlwaysInv, PTL

\* No callback of a stage finds failed set by another task and leaves its own
\* without an answer.
NoneLost == NoneRefused => \A t \in Requests : tasks[t].step # "lost"

\* Until a build is refused, no callback of a stage finds the failure of
\* another task, so that none leaves its task without an answer.
THEOREM FailuresStay == Spec => []NoneLost
<1>1. IInv => NoneLost
  BY DEF IInv, SafeInv, FailInv, NoneLost, Running, Started
<1> QED BY <1>1, AlwaysInv, PTL


-----------------------------------------------------------------------------
(***************************************************************************)
(* The order of the stages.  A binding of "completed" leads from a stage   *)
(* to one behind it, and neither attaching nor detaching turns two stages  *)
(* round: what a stage notifies never comes before it.                     *)
(***************************************************************************)

Sorted(line) == \A i, j \in DOMAIN line : i < j => ~Precedes(line[j], line[i])

\* No binding leads out of C.
Closed(C, links) == \A l \in links : l[1] \in C => l[2] \in C

\* The entries of line from place m on, with stages that are not in it, are a
\* set that no binding leads out of.
Cut(line, links, m) ==
    \E C \in SUBSET Stages : /\ Closed(C, links)
                             /\ \A k \in DOMAIN line : line[k] \in C <=> m <= k

Ordered(line, links) ==
    /\ Sorted(line) /\ Injective(line)
    /\ \A m \in Nat : Cut(line, links, m)

OrderInv == Ordered(pipeline, bindings)

\* pipeline_entry_compare is a weak order: that an entry does not precede
\* another is transitive.
LEMMA PrecedesOrder ==
    ASSUME NEW a \in Stages, NEW b \in Stages, NEW c \in Stages,
           ~Precedes(a, b), ~Precedes(b, c)
    PROVE  ~Precedes(a, c)
<1>1. ASSUME NEW s \in Stages
      PROVE  PhaseOf[s] \in Nat /\ WhenceOf[s] \in Nat /\ PriorityOf[s] \in Nat
  <2>1. PhaseOf[s] \in 1..MaxPhase /\ WhenceOf[s] \in 0..2 /\ PriorityOf[s] \in Nat
    BY StagesAssumption DEF Phases
  <2> QED BY <2>1
<1> QED BY <1>1 DEF Precedes

\* In a line that is sorted the phases do not decrease.
LEMMA SortedPhases ==
    ASSUME NEW line \in Seq(Stages), Sorted(line),
           NEW i \in DOMAIN line, NEW j \in DOMAIN line, i < j
    PROVE  PhaseOf[line[i]] <= PhaseOf[line[j]]
<1>1. line[i] \in Stages /\ line[j] \in Stages
  OBVIOUS
<1>2. PhaseOf[line[i]] \in Nat /\ PhaseOf[line[j]] \in Nat
  BY <1>1, StagesAssumption, PhasesAssumption DEF Phases
<1>3. ~(PhaseOf[line[j]] < PhaseOf[line[i]])
  BY DEF Sorted, Precedes
<1> QED BY <1>2, <1>3

\* What is left out of a line does not change the order of the others.
LEMMA KeepOrdered ==
    ASSUME NEW line \in Seq(Stages), NEW links, NEW S, Ordered(line, links)
    PROVE  Ordered(Keep(line, S), links)
<1> DEFINE kept == Keep(line, S)
           N == Len(kept)
<1>1. PICK f \in [DOMAIN kept -> DOMAIN line] :
         /\ \A n \in DOMAIN kept : kept[n] = line[f[n]] /\ line[f[n]] \in S
         /\ \A m, n \in DOMAIN kept : m < n => f[m] < f[n]
  BY KeepOrder
<1>2. kept \in Seq(Stages)
  BY KeepOrder
<1> HIDE DEF kept
<1>3. N \in Nat /\ DOMAIN kept = 1..N
  BY <1>2
<1>4. Len(line) \in Nat /\ DOMAIN line = 1..Len(line)
  OBVIOUS
<1>5. Sorted(kept)
  BY <1>1 DEF Sorted, Ordered
<1>6. Injective(kept)
  <2> SUFFICES ASSUME NEW n \in DOMAIN kept, NEW m \in DOMAIN kept, kept[n] = kept[m] PROVE n = m
    BY DEF Injective
  <2>1. f[n] = f[m] /\ f[n] \in Nat
    BY <1>1, <1>4 DEF Injective, Ordered
  <2>2. ~(n < m) /\ ~(m < n)
    BY <1>1, <2>1
  <2> QED BY <1>3, <2>2
<1>7. ASSUME NEW m \in Nat PROVE Cut(kept, links, m)
  <2>1. PICK k \in Nat : \A n \in DOMAIN kept : k <= f[n] <=> m <= n
    <3>1. CASE m \in DOMAIN kept
      <4>1. f[m] \in Nat
        BY <1>1, <1>4, <3>1
      <4>2. \A n \in DOMAIN kept : f[m] <= f[n] <=> m <= n
        <5> SUFFICES ASSUME NEW n \in DOMAIN kept PROVE f[m] <= f[n] <=> m <= n
          OBVIOUS
        <5>1. f[n] \in Nat /\ n \in Nat /\ m \in Nat
          BY <1>1, <1>3, <1>4
        <5>2. n < m => f[n] < f[m]
          BY <1>1, <3>1
        <5>3. m < n => f[m] < f[n]
          BY <1>1, <3>1
        <5>4. n = m => f[m] = f[n]
          OBVIOUS
        <5>5. n < m \/ m < n \/ n = m
          BY <5>1
        <5> QED BY <4>1, <5>1, <5>2, <5>3, <5>4, <5>5
      <4> QED BY <4>1, <4>2
    <3>2. CASE m = 0
      <4>1. \A n \in DOMAIN kept : 0 <= f[n] /\ 0 <= n
        BY <1>1, <1>3, <1>4
      <4> QED BY <3>2, <4>1
    <3>3. CASE m > N
      <4>1. \A n \in DOMAIN kept : ~(Len(line) + 1 <= f[n]) /\ ~(m <= n)
        BY <1>1, <1>3, <1>4, <3>3
      <4> QED BY <1>4, <4>1
    <3>4. m \in DOMAIN kept \/ m = 0 \/ m > N
      BY <1>3
    <3> QED BY <3>1, <3>2, <3>3, <3>4
  <2>2. PICK C \in SUBSET Stages : Closed(C, links) /\ \A i \in DOMAIN line : line[i] \in C <=> k <= i
    BY DEF Ordered, Cut
  <2>3. \A n \in DOMAIN kept : kept[n] \in C <=> m <= n
    BY <1>1, <2>1, <2>2
  <2> QED BY <2>2, <2>3 DEF Cut
<1> QED BY <1>5, <1>6, <1>7 DEF Ordered, kept

\* Fewer bindings lead out of less.
LEMMA UnboundOrdered ==
    ASSUME NEW line, NEW links, NEW fewer \in SUBSET links, Ordered(line, links)
    PROVE  Ordered(line, fewer)
<1>1. \A C : Closed(C, links) => Closed(C, fewer)
  BY DEF Closed
<1>2. \A m \in Nat : Cut(line, links, m) => Cut(line, fewer, m)
  BY <1>1 DEF Cut
<1> QED BY <1>2 DEF Ordered

\* A stage is bound to stages behind it.
LEMMA BoundOrdered ==
    ASSUME NEW line \in Seq(Stages), NEW links, NEW i \in DOMAIN line, NEW joined,
           Ordered(line, links), \A b \in joined : \E k \in DOMAIN line : i < k /\ line[k] = b
    PROVE  Ordered(line, Bound(line[i], joined, links))
<1>1. ASSUME NEW m \in Nat PROVE Cut(line, Bound(line[i], joined, links), m)
  <2>1. PICK C \in SUBSET Stages : Closed(C, links) /\ \A k \in DOMAIN line : line[k] \in C <=> m <= k
    BY DEF Ordered, Cut
  <2>2. ASSUME NEW l \in Bound(line[i], joined, links), l[1] \in C PROVE l[2] \in C
    <3>1. CASE l \in links
      BY <2>1, <2>2, <3>1 DEF Closed
    <3>2. CASE l \in {line[i]} \X joined
      <4>1. l[1] = line[i] /\ l[2] \in joined
        BY <3>2
      <4>2. m <= i
        BY <2>1, <2>2, <4>1
      <4>3. PICK k \in DOMAIN line : i < k /\ line[k] = l[2]
        BY <4>1
      <4>4. m <= k
        <5>1. DOMAIN line \subseteq Nat
          OBVIOUS
        <5> QED BY <4>2, <4>3, <5>1
      <4> QED BY <2>1, <4>3, <4>4
    <3> QED BY <3>1, <3>2 DEF Bound
  <2> QED BY <2>1, <2>2 DEF Cut, Closed
<1> QED BY <1>1 DEF Ordered

\* What the change of a stage notifies is not in front of it.
LEMMA NotifiedBehind ==
    ASSUME NEW line \in Seq(Stages), NEW links, NEW i \in DOMAIN line, NEW out \in SUBSET Stages,
           Ordered(line, links), NEW k \in DOMAIN line, k < i
    PROVE  line[k] \notin Notified({line[i]}, out, links)
<1>1. DOMAIN line \subseteq Nat
  OBVIOUS
<1>2. PICK C \in SUBSET Stages : Closed(C, links) /\ \A n \in DOMAIN line : line[n] \in C <=> i <= n
  BY <1>1 DEF Ordered, Cut
<1> DEFINE D == C \cap out
<1>3. D \in SUBSET out /\ {line[i]} \cap out \subseteq D
  BY <1>1, <1>2
<1>4. \A l \in links : l[1] \in D /\ l[2] \in out => l[2] \in D
  BY <1>2 DEF Closed
<1>5. line[k] \notin D
  BY <1>1, <1>2
<1> HIDE DEF D
<1> QED BY <1>3, <1>4, <1>5 DEF Notified


\* Where g_array_sort puts a stage that was appended to a line in order: behind
\* those it does not precede, and in front of the others.
LEMMA PlacedAt ==
    ASSUME NEW line \in Seq(Stages), NEW s \in Stages, Sorted(line)
    PROVE  \E n \in 0..Len(line) :
              /\ Len(Placed(line, s)) = Len(line) + 1
              /\ Placed(line, s)[n + 1] = s
              /\ \A k \in 1..n : Placed(line, s)[k] = line[k] /\ ~Precedes(s, line[k])
              /\ \A k \in n + 2..Len(line) + 1 : /\ Placed(line, s)[k] = line[k - 1]
                                                 /\ Precedes(s, line[k - 1])
<1> DEFINE before == {i \in DOMAIN line : ~Precedes(s, line[i])}
           n == Cardinality(before)
           N == Len(line)
<1>1. N \in Nat /\ DOMAIN line = 1..N
  OBVIOUS
<1>2. \A i \in 1..N : line[i] \in Stages
  BY <1>1
<1>3. before \in SUBSET (1..N)
  BY <1>1
<1>4. \A i \in before : \A j \in 1..N : j <= i => j \in before
  <2> SUFFICES ASSUME NEW i \in before, NEW j \in 1..N, j < i PROVE j \in before
    BY <1>1
  <2>1. ~Precedes(line[i], line[j])
    BY <1>1 DEF Sorted
  <2>2. ~Precedes(s, line[i])
    OBVIOUS
  <2>3. ~Precedes(s, line[j])
    BY <1>1, <1>2, <2>1, <2>2, PrecedesOrder
  <2> QED BY <1>1, <2>3
<1>5. Placed(line, s) = (SubSeq(line, 1, n) \o <<s>>) \o SubSeq(line, n + 1, N)
  BY DEF Placed
<1>6. \A i \in 1..N : i \in before <=> ~Precedes(s, line[i])
  BY <1>1
<1> HIDE DEF before, N
<1>7. \A k \in Nat : IsFiniteSet(1..k) /\ Cardinality(1..k) = k
  <2> SUFFICES ASSUME NEW k \in Nat PROVE IsFiniteSet(1..k) /\ Cardinality(1..k) = k
    OBVIOUS
  <2>0. k \in Int /\ 1 \in Int
    OBVIOUS
  <2>1. IsFiniteSet(1..k) /\ Cardinality(1..k) = IF 1 > k THEN 0 ELSE k - 1 + 1
    BY ONLY <2>0, FS_Interval, Zenon
  <2> QED BY <2>1
<1>8. IsFiniteSet(before) /\ n \in Nat /\ n <= N
  <2>1. IsFiniteSet(before) /\ n <= Cardinality(1..N)
    BY <1>1, <1>3, <1>7, FS_Subset
  <2>2. n \in Nat
    BY <2>1, FS_CardinalityType
  <2> QED BY <1>1, <1>7, <2>1, <2>2
<1>9. before \subseteq 1..n
  <2> SUFFICES ASSUME NEW i \in before PROVE i \in 1..n
    OBVIOUS
  <2>1. i \in 1..N /\ i \in Nat
    BY <1>1, <1>3
  <2>2. 1..i \subseteq before
    BY <1>1, <1>4, <2>1
  <2>3. Cardinality(1..i) <= n
    BY <1>8, <2>2, FS_Subset
  <2>4. i <= n
    BY <1>7, <2>1, <2>3
  <2> QED BY <1>1, <1>8, <2>1, <2>4
<1>10. before = 1..n
  <2>1. IsFiniteSet(1..n) /\ Cardinality(before) = Cardinality(1..n)
    BY <1>7, <1>8
  <2> HIDE DEF n
  <2> QED BY <1>9, <2>1, FS_Subset
<1> HIDE DEF n
<1> DEFINE front == SubSeq(line, 1, n)
           back == SubSeq(line, n + 1, N)
<1>11. /\ front \in Seq(Stages) /\ Len(front) = n /\ \A k \in 1..n : front[k] = line[k]
       /\ back \in Seq(Stages) /\ Len(back) = N - n
       /\ \A k \in 1..N - n : back[k] = line[n + k]
  <2>1. /\ \A i \in 1..n : line[i] \in Stages
        /\ \A i \in n + 1..N : line[i] \in Stages
    BY <1>1, <1>2, <1>8
  <2>2. front \in Seq(Stages) /\ back \in Seq(Stages)
    BY <1>1, <1>8, <2>1, SubSeqProperties DEF N
  <2>3. Len(front) = n /\ \A k \in 1..n : front[k] = line[k]
    BY <1>1, <1>8, SubSeqProperties DEF N
  <2>4. Len(back) = N - n /\ \A k \in 1..N - n : back[k] = line[n + k]
    <3> DEFINE m == n + 1
    <3>1. m \in Int /\ N \in Int /\ \A i \in m..N : line[i] \in Stages
      BY <1>1, <1>8, <2>1
    <3> HIDE DEF m
    <3>2. /\ Len(SubSeq(line, m, N)) = IF m <= N THEN N - m + 1 ELSE 0
          /\ \A i \in 1..N - m + 1 : SubSeq(line, m, N)[i] = line[m + i - 1]
      BY <3>1, SubSeqProperties
    <3>3. /\ Len(back) = IF m <= N THEN N - m + 1 ELSE 0
          /\ \A i \in 1..N - m + 1 : back[i] = line[m + i - 1]
      BY <3>2 DEF back, m
    <3>4. N - m + 1 = N - n /\ m = n + 1 /\ (m <= N \/ N = n)
      BY <1>1, <1>8 DEF m
    <3>5. Len(back) = N - n
      BY <1>1, <1>8, <3>3, <3>4
    <3>6. \A k \in 1..N - n : m + k - 1 = n + k
      BY <1>1, <1>8, <3>4
    <3> QED BY <3>3, <3>4, <3>5, <3>6
  <2> QED BY <2>2, <2>3, <2>4
<1>12. <<s>> \in Seq(Stages) /\ Len(<<s>>) = 1 /\ <<s>>[1] = s
  OBVIOUS
<1> HIDE DEF front, back
<1>13. /\ front \o <<s>> \in Seq(Stages) /\ Len(front \o <<s>>) = n + 1
       /\ \A k \in 1..n : (front \o <<s>>)[k] = line[k]
       /\ (front \o <<s>>)[n + 1] = s
  BY <1>8, <1>11, <1>12, ConcatProperties
<1> DEFINE first == front \o <<s>>
           all == first \o back
<1> HIDE DEF first
<1>14. /\ Len(all) = (n + 1) + (N - n)
       /\ \A k \in 1..n + 1 : all[k] = first[k]
       /\ \A k \in n + 2..(n + 1) + (N - n) : all[k] = back[k - (n + 1)]
  <2>1. first \in Seq(Stages) /\ back \in Seq(Stages) /\ Len(first) = n + 1 /\ Len(back) = N - n
    BY <1>11, <1>13 DEF first
  <2>2. /\ Len(all) = Len(first) + Len(back)
        /\ \A k \in 1..Len(first) + Len(back) :
              all[k] = IF k <= Len(first) THEN first[k] ELSE back[k - Len(first)]
    BY <2>1, ConcatProperties
  <2> HIDE DEF all
  <2> QED BY <1>1, <1>8, <2>1, <2>2
<1>15. Placed(line, s) = all
  BY <1>5 DEF first, front, back
<1> HIDE DEF all
<1>16. n \in 0..N /\ Len(all) = N + 1 /\ all[n + 1] = s
  BY <1>1, <1>8, <1>13, <1>14 DEF first
<1>17. \A k \in 1..n : all[k] = line[k] /\ ~Precedes(s, line[k])
  <2> SUFFICES ASSUME NEW k \in 1..n PROVE all[k] = line[k] /\ ~Precedes(s, line[k])
    OBVIOUS
  <2>1. k \in 1..n + 1 /\ k \in 1..N
    BY <1>1, <1>8
  <2> QED BY <1>6, <1>10, <1>13, <1>14, <2>1 DEF first
<1>18. \A k \in n + 2..N + 1 : all[k] = line[k - 1] /\ Precedes(s, line[k - 1])
  <2> SUFFICES ASSUME NEW k \in n + 2..N + 1 PROVE all[k] = line[k - 1] /\ Precedes(s, line[k - 1])
    OBVIOUS
  <2>1. /\ k \in n + 2..(n + 1) + (N - n) /\ k - (n + 1) \in 1..N - n
        /\ n + (k - (n + 1)) = k - 1 /\ k - 1 \in 1..N /\ k - 1 \notin 1..n
    BY <1>1, <1>8
  <2>2. all[k] = back[k - (n + 1)]
    BY <1>14, <2>1
  <2>3. back[k - (n + 1)] = line[n + (k - (n + 1))]
    BY <1>11, <2>1
  <2> QED BY <1>6, <1>10, <2>1, <2>2, <2>3
<1> QED BY <1>15, <1>16, <1>17, <1>18 DEF N

\* A stage that comes back is bound to nothing, wherever it is put.
LEMMA PlacedOrdered ==
    ASSUME NEW line \in Seq(Stages), NEW links, NEW s \in Stages, Ordered(line, links),
           \A i \in DOMAIN line : line[i] # s
    PROVE  Ordered(Placed(line, s), {l \in links : l[1] # s /\ l[2] # s})
<1> DEFINE new == Placed(line, s)
           N == Len(line)
           few == {l \in links : l[1] # s /\ l[2] # s}
<1>1. N \in Nat /\ DOMAIN line = 1..N /\ \A i \in 1..N : line[i] \in Stages
  OBVIOUS
<1>2. PICK n \in 0..N :
         /\ Len(new) = N + 1
         /\ new[n + 1] = s
         /\ \A k \in 1..n : new[k] = line[k] /\ ~Precedes(s, line[k])
         /\ \A k \in n + 2..N + 1 : new[k] = line[k - 1] /\ Precedes(s, line[k - 1])
  BY PlacedAt DEF Ordered
<1>3. new \in Seq(Stages)
  BY PlacedType
<1> HIDE DEF new, N
<1>4. n \in Nat /\ n <= N /\ DOMAIN new = 1..N + 1
  BY <1>1, <1>2, <1>3
<1>5. \A k \in 1..N + 1 : k \in 1..n \/ k = n + 1 \/ (k \in n + 2..N + 1 /\ k - 1 \in 1..N)
  BY <1>1, <1>4
<1>6. Sorted(new)
  <2> SUFFICES ASSUME NEW i \in 1..N + 1, NEW j \in 1..N + 1, i < j PROVE ~Precedes(new[j], new[i])
    BY <1>4 DEF Sorted
  <2>0. \A a, b \in 1..N : a < b => ~Precedes(line[b], line[a])
    BY <1>1 DEF Ordered, Sorted
  <2>a. \A a \in Stages : Precedes(s, a) => ~Precedes(a, s)
    <3> SUFFICES ASSUME NEW a \in Stages, Precedes(s, a) PROVE ~Precedes(a, s)
      OBVIOUS
    <3>1. PhaseOf[a] \in Phases /\ PhaseOf[s] \in Phases /\ WhenceOf[a] \in 0..2 /\ WhenceOf[s] \in 0..2
          /\ PriorityOf[a] \in Nat /\ PriorityOf[s] \in Nat
      BY StagesAssumption
    <3>2. PhaseOf[a] \in Nat /\ PhaseOf[s] \in Nat
      BY <3>1, PhasesAssumption DEF Phases
    <3> QED BY <3>1, <3>2 DEF Precedes
  <2>1. CASE i \in 1..n /\ j \in 1..n
    <3>1. i \in 1..N /\ j \in 1..N
      BY <1>1, <1>4, <2>1
    <3> QED BY <1>2, <2>0, <2>1, <3>1
  <2>2. CASE i \in 1..n /\ j = n + 1
    BY <1>2, <2>2
  <2>3. CASE i \in 1..n /\ j \in n + 2..N + 1
    <3>1. i \in 1..N /\ j - 1 \in 1..N /\ i < j - 1
      BY <1>1, <1>4, <2>3
    <3> QED BY <1>2, <2>0, <2>3, <3>1
  <2>4. CASE i = n + 1 /\ j \in n + 2..N + 1
    <3>1. j - 1 \in 1..N
      BY <1>1, <1>4, <2>4
    <3>2. new[j] = line[j - 1] /\ Precedes(s, line[j - 1]) /\ line[j - 1] \in Stages
      BY <1>1, <1>2, <2>4, <3>1
    <3> QED BY <1>2, <2>a, <2>4, <3>2
  <2>5. CASE i \in n + 2..N + 1 /\ j \in n + 2..N + 1
    <3>1. i - 1 \in 1..N /\ j - 1 \in 1..N /\ i - 1 < j - 1
      BY <1>1, <1>4, <2>5
    <3> QED BY <1>2, <2>0, <2>5, <3>1
  <2>6. \/ i \in 1..n /\ j \in 1..n
        \/ i \in 1..n /\ j = n + 1
        \/ i \in 1..n /\ j \in n + 2..N + 1
        \/ i = n + 1 /\ j \in n + 2..N + 1
        \/ i \in n + 2..N + 1 /\ j \in n + 2..N + 1
    BY <1>1, <1>4
  <2> QED BY <2>1, <2>2, <2>3, <2>4, <2>5, <2>6
<1>7. Injective(new)
  <2> SUFFICES ASSUME NEW i \in 1..N + 1, NEW j \in 1..N + 1, i < j PROVE new[i] # new[j]
    BY <1>1, <1>4 DEF Injective
  <2>0. \A a, b \in 1..N : a < b => line[a] # line[b]
    BY <1>1 DEF Ordered, Injective
  <2>1. CASE i \in 1..n /\ j \in 1..n
    <3>1. i \in 1..N /\ j \in 1..N
      BY <1>1, <1>4, <2>1
    <3> QED BY <1>2, <2>0, <2>1, <3>1
  <2>2. CASE i \in 1..n /\ j = n + 1
    <3>1. i \in 1..N
      BY <1>1, <1>4, <2>2
    <3> QED BY <1>1, <1>2, <2>2, <3>1
  <2>3. CASE i \in 1..n /\ j \in n + 2..N + 1
    <3>1. i \in 1..N /\ j - 1 \in 1..N /\ i < j - 1
      BY <1>1, <1>4, <2>3
    <3> QED BY <1>2, <2>0, <2>3, <3>1
  <2>4. CASE i = n + 1 /\ j \in n + 2..N + 1
    <3>1. j - 1 \in 1..N
      BY <1>1, <1>4, <2>4
    <3> QED BY <1>1, <1>2, <2>4, <3>1
  <2>5. CASE i \in n + 2..N + 1 /\ j \in n + 2..N + 1
    <3>1. i - 1 \in 1..N /\ j - 1 \in 1..N /\ i - 1 < j - 1
      BY <1>1, <1>4, <2>5
    <3> QED BY <1>2, <2>0, <2>5, <3>1
  <2>6. \/ i \in 1..n /\ j \in 1..n
        \/ i \in 1..n /\ j = n + 1
        \/ i \in 1..n /\ j \in n + 2..N + 1
        \/ i = n + 1 /\ j \in n + 2..N + 1
        \/ i \in n + 2..N + 1 /\ j \in n + 2..N + 1
    BY <1>1, <1>4
  <2> QED BY <2>1, <2>2, <2>3, <2>4, <2>5, <2>6
<1>8. ASSUME NEW m \in Nat PROVE Cut(new, few, m)
  <2>1. CASE m <= n + 1
    <3>1. PICK C \in SUBSET Stages : Closed(C, links) /\ \A k \in 1..N : line[k] \in C <=> m <= k
      BY <1>1 DEF Ordered, Cut
    <3> DEFINE D == C \cup {s}
    <3>2. D \in SUBSET Stages /\ Closed(D, few)
      BY <3>1 DEF Closed
    <3>3. \A k \in 1..N + 1 : new[k] \in D <=> m <= k
      <4> SUFFICES ASSUME NEW k \in 1..N + 1 PROVE new[k] \in D <=> m <= k
        OBVIOUS
      <4>1. CASE k \in 1..n
        <5>1. k \in 1..N
          BY <1>1, <1>4, <4>1
        <5> QED BY <1>1, <1>2, <3>1, <4>1, <5>1
      <4>2. CASE k = n + 1
        BY <1>2, <2>1, <4>2
      <4>3. CASE k \in n + 2..N + 1
        <5>1. k - 1 \in 1..N /\ m <= k - 1 /\ m <= k
          BY <1>1, <1>4, <2>1, <4>3
        <5> QED BY <1>2, <3>1, <4>3, <5>1
      <4> QED BY <1>5, <4>1, <4>2, <4>3
    <3> HIDE DEF D
    <3> QED BY <1>4, <3>2, <3>3 DEF Cut
  <2>2. CASE ~(m <= n + 1)
    <3>0. m - 1 \in Nat
      BY <1>4, <2>2
    <3>1. PICK C \in SUBSET Stages : Closed(C, links) /\ \A k \in 1..N : line[k] \in C <=> m - 1 <= k
      BY <1>1, <3>0 DEF Ordered, Cut
    <3> DEFINE D == C \ {s}
    <3>2. D \in SUBSET Stages /\ Closed(D, few)
      BY <3>1 DEF Closed
    <3>3. \A k \in 1..N + 1 : new[k] \in D <=> m <= k
      <4> SUFFICES ASSUME NEW k \in 1..N + 1 PROVE new[k] \in D <=> m <= k
        OBVIOUS
      <4>1. CASE k \in 1..n
        <5>1. k \in 1..N /\ ~(m - 1 <= k) /\ ~(m <= k)
          BY <1>1, <1>4, <2>2, <4>1
        <5> QED BY <1>2, <3>1, <4>1, <5>1
      <4>2. CASE k = n + 1
        BY <1>2, <2>2, <4>2
      <4>3. CASE k \in n + 2..N + 1
        <5>1. k - 1 \in 1..N /\ (m - 1 <= k - 1 <=> m <= k)
          BY <1>1, <1>4, <4>3
        <5>2. line[k - 1] # s
          BY <1>1, <5>1
        <5> QED BY <1>2, <3>1, <4>3, <5>1, <5>2
      <4> QED BY <1>5, <4>1, <4>2, <4>3
    <3> HIDE DEF D
    <3> QED BY <1>4, <3>2, <3>3 DEF Cut
  <2> QED BY <2>1, <2>2
<1> QED BY <1>6, <1>7, <1>8 DEF Ordered, new

-----------------------------------------------------------------------------
(***************************************************************************)
(* The walk.  While nobody changes the stages, what the walk of a task has *)
(* passed is complete, or is the stage the task waits for, or was chained  *)
(* to that stage: it will be completed with it.                            *)
(***************************************************************************)

WalkSteps == {"paused", "building", "skipped"}

\* The enabled entries up to pos are complete.
Behind(pos, done) ==
    \A k \in DOMAIN pipeline : k <= pos /\ pipeline[k] \notin disabled => pipeline[k] \in done

\* The same while stage s is waited for.
Walked(s, pos, done, links) ==
    \A k \in DOMAIN pipeline :
        k <= pos /\ pipeline[k] \notin disabled
        => \/ pipeline[k] \in done
           \/ pipeline[k] = s
           \/ <<s, pipeline[k]>> \in links /\ s \notin done

\* Every enabled entry in front of s is complete.
InFront(s, done) ==
    \A i, j \in DOMAIN pipeline :
        i < j /\ pipeline[j] = s /\ pipeline[i] \notin disabled => pipeline[i] \in done

\* Every enabled stage that none of the phases excludes is complete.
Built(limits, done) ==
    \A s \in InPipeline \ disabled : (\A p \in limits : PhaseOf[s] <= p) => s \in done

WalkInv ==
    /\ \A t \in Requests : /\ tasks[t].step = "cleaning" => tasks[t].type = "clean"
                           /\ tasks[t].step \in {"new", "queued"} => tasks[t].answer = "none"
    /\ NoneRefused => \A t \in Requests :
          /\ tasks[t].step = "reaping" => position = 0
          /\ tasks[t].step \in WalkSteps /\ tasks[t].quiet
             => Walked(tasks[t].stage, position, completed, bindings)

OrderedInv == IInv /\ OrderInv /\ WalkInv

LEMMA ReturnedFields ==
    ASSUME NEW task \in Task, NEW answer
    PROVE  /\ Returned(task, answer).type = task.type /\ Returned(task, answer).quiet = task.quiet
           /\ Returned(task, answer).step = "returned" /\ Returned(task, answer).answer = answer
BY DEF Returned, Task

LEMMA SteppedFields ==
    ASSUME NEW task \in Task, NEW step
    PROVE  LET new == [task EXCEPT !.step = step]
           IN  /\ new.type = task.type /\ new.quiet = task.quiet /\ new.answer = task.answer
               /\ new.stage = task.stage /\ new.phase = task.phase /\ new.step = step
BY DEF Task

\* A stage loses its completion when it changes.
LEMMA Uncompleted ==
    ASSUME NEW s, NEW done, NEW links
    PROVE  s \notin WithoutCompleted({s}, done, links)
BY DEF WithoutCompleted, Notified

\* A stage that is completed completes those that are bound to it.
LEMMA CompletedWith ==
    ASSUME NEW s \in Stages, NEW done \in SUBSET Stages, NEW links
    PROVE  /\ done \subseteq WithCompleted({s}, done, links)
           /\ s \in WithCompleted({s}, done, links)
           /\ \A b \in Stages : <<s, b>> \in links /\ s \notin done => b \in WithCompleted({s}, done, links)
<1>1. done \subseteq WithCompleted({s}, done, links)
  BY DEF WithCompleted
<1>2. s \in WithCompleted({s}, done, links)
  BY DEF WithCompleted, Notified
<1>3. ASSUME NEW b \in Stages, <<s, b>> \in links, s \notin done, b \notin done
      PROVE  b \in Notified({s}, Stages \ done, links)
  <2>1. ASSUME NEW C \in SUBSET (Stages \ done), {s} \cap (Stages \ done) \subseteq C,
               \A l \in links : l[1] \in C /\ l[2] \in Stages \ done => l[2] \in C
        PROVE  b \in C
    <3>1. s \in C
      BY <1>3, <2>1
    <3>2. <<s, b>>[1] = s /\ <<s, b>>[2] = b
      OBVIOUS
    <3> QED BY <1>3, <2>1, <3>1, <3>2
  <2> QED BY <1>3, <2>1 DEF Notified
<1> QED BY <1>1, <1>2, <1>3 DEF WithCompleted

\* What is behind a walk stays behind it when the stage it waits for is built.
LEMMA BehindBuilt ==
    ASSUME TypeOK, NEW s, NEW pos, Walked(s, pos, completed, bindings)
    PROVE  Behind(pos, WithCompleted({s}, completed, bindings))
<1>1. pipeline \in Seq(Stages) /\ completed \in SUBSET Stages /\ bindings \in SUBSET (Stages \X Stages)
  BY DEF TypeOK, StageType
<1> SUFFICES ASSUME NEW k \in DOMAIN pipeline, k <= pos, pipeline[k] \notin disabled
             PROVE  pipeline[k] \in WithCompleted({s}, completed, bindings)
  BY DEF Behind
<1>2. pipeline[k] \in Stages
  BY <1>1
<1>3. \/ pipeline[k] \in completed
      \/ pipeline[k] = s
      \/ <<s, pipeline[k]>> \in bindings /\ s \notin completed
  BY DEF Walked
<1>4. CASE pipeline[k] \in completed
  BY <1>4 DEF WithCompleted
<1>5. CASE s \in Stages
  BY <1>1, <1>2, <1>3, <1>5, CompletedWith
<1>6. s \in Stages \/ pipeline[k] \in completed
  BY <1>1, <1>2, <1>3
<1> QED BY <1>4, <1>5, <1>6

\* t comes to the entry at i, and completes those in met.  Unless it waits for
\* another task that waits for the same stage, the entries that are passed with
\* this one are bound to it, and its handlers leave it incomplete.
ComesTo(t, i, met) ==
    \E new \in Task :
       /\ Update(t, new, met)
       /\ new.step \in WalkSteps \cup {"pending"}
       /\ new.type = tasks[t].type /\ new.quiet = tasks[t].quiet
       /\ new.answer = tasks[t].answer /\ new.stage = pipeline[i]
       /\ new.step # "pending" =>
             \A k \in DOMAIN pipeline :
                i < k /\ k <= position' /\ pipeline[k] \notin disabled
                => <<pipeline[i], pipeline[k]>> \in bindings' /\ pipeline[i] \notin completed'

\* The execution of an entry takes nothing from those in front of it.
LEMMA ExecuteWalk ==
    ASSUME TypeOK, NEW t \in Requests, NEW i \in DOMAIN pipeline, NEW met \in SUBSET Requests,
           NEW done \in SUBSET Stages, NEW links \in SUBSET (Stages \X Stages), NEW dated,
           Execute(t, i, met, done, links, dated), Ordered(pipeline, links)
    PROVE  /\ Ordered(pipeline, bindings')
           /\ \A k \in DOMAIN pipeline : k < i /\ pipeline[k] \in done => pipeline[k] \in completed'
           /\ ComesTo(t, i, met)
<1> DEFINE s == pipeline[i]
           chain == Chained(i, requested')
           joined == {pipeline[k] : k \in chain}
           bound == Bound(s, joined, links)
           task == [tasks[t] EXCEPT !.stage = s, !.jumped = @ \cup joined]
           New(step) == [task EXCEPT !.step = step]
<1>0. pipeline \in Seq(Stages) /\ tasks[t] \in Task
  BY DEF TypeOK, StageType, TaskType
<1>1. s \in Stages /\ DOMAIN pipeline \subseteq Nat /\ \A k \in DOMAIN pipeline : pipeline[k] \in Stages
  BY <1>0
<1>2. chain \subseteq DOMAIN pipeline /\ \A k \in chain : i < k
  BY DEF Chained
<1>3. joined \in SUBSET Stages
  BY <1>1, <1>2
<1>4. /\ task \in Task /\ task.stage = s /\ task.answer = tasks[t].answer
      /\ task.type = tasks[t].type /\ task.quiet = tasks[t].quiet
  <2> HIDE DEF s, joined
  <2> QED BY <1>0, <1>1, <1>3 DEF Task
<1>5. bindings' = bound /\ position' \in {i} \cup chain
  BY DEF Execute
<1> HIDE DEF task
<1>6. \A step \in WalkSteps \cup {"pending"} :
         /\ New(step) \in Task /\ New(step).step = step /\ New(step).stage = s
         /\ New(step).type = tasks[t].type /\ New(step).quiet = tasks[t].quiet
         /\ New(step).answer = tasks[t].answer
  <2> SUFFICES ASSUME NEW step \in WalkSteps \cup {"pending"}
               PROVE  /\ New(step) \in Task /\ New(step).step = step /\ New(step).stage = s
                      /\ New(step).type = tasks[t].type /\ New(step).quiet = tasks[t].quiet
                      /\ New(step).answer = tasks[t].answer
    OBVIOUS
  <2>1. step \in Step
    BY DEF Step, WalkSteps
  <2>2. New(step) \in Task
    BY <1>4, <2>1 DEF Task
  <2> HIDE DEF s
  <2> QED BY <1>4, <2>2, SteppedFields
<1>7. Ordered(pipeline, bindings')
  <2>1. \A b \in joined : \E k \in DOMAIN pipeline : i < k /\ pipeline[k] = b
    BY <1>2
  <2> HIDE DEF joined, chain
  <2> QED BY <1>0, <1>5, <2>1, BoundOrdered
<1>8. \/ completed' = done
      \/ completed' \in Queries(s, done, bound)
  BY DEF Execute
<1>9. ASSUME NEW k \in DOMAIN pipeline, k < i, pipeline[k] \in done PROVE pipeline[k] \in completed'
  <2>1. pipeline[k] \notin Notified({s}, done, bound)
    <3> HIDE DEF joined, chain
    <3>1. Ordered(pipeline, bound)
      BY <1>5, <1>7
    <3> HIDE DEF bound
    <3> QED BY <1>0, <1>9, <3>1, NotifiedBehind
  <2>2. pipeline[k] \in WithoutCompleted({s}, done, bound) /\ pipeline[k] \in WithCompleted({s}, done, bound)
    BY <1>9, <2>1 DEF WithoutCompleted, WithCompleted
  <2> HIDE DEF s, bound
  <2> QED BY <1>8, <1>9, <2>2 DEF Queries
<1>10. ASSUME NEW k \in DOMAIN pipeline, i < k, k <= position', pipeline[k] \notin disabled
       PROVE  k \in chain /\ <<s, pipeline[k]>> \in Chains
  <2>1. position' \in chain
    BY <1>1, <1>5, <1>10
  <2>2. \A j \in DOMAIN pipeline :
           j > i /\ j <= position' => /\ PhaseOf[pipeline[j]] <= requested'
                                      /\ \/ pipeline[j] \in disabled
                                         \/ <<pipeline[i], pipeline[j]>> \in Chains
    BY <2>1 DEF Chained
  <2>3. \A j \in DOMAIN pipeline : j <= k => j <= position'
    <3>1. position' \in Nat
      BY <1>1, <1>2, <1>5
    <3> QED BY <1>1, <1>10, <3>1
  <2>4. k \in chain
    BY <1>10, <2>2, <2>3 DEF Chained
  <2>5. <<s, pipeline[k]>> \in Chains
    BY <1>1, <1>10, <2>2
  <2> QED BY <2>4, <2>5
<1>11. ASSUME completed' \in Queries(s, done, bound),
              NEW k \in DOMAIN pipeline, i < k, k <= position', pipeline[k] \notin disabled
       PROVE  <<pipeline[i], pipeline[k]>> \in bindings' /\ pipeline[i] \notin completed'
  <2>1. k \in chain /\ <<s, pipeline[k]>> \in Chains /\ pipeline[k] \in Stages
    BY <1>1, <1>10, <1>11
  <2>2. <<s, pipeline[k]>> \in bound
    BY <2>1 DEF Bound
  <2>3. s \in Queried
    BY <2>1, StagesAssumption
  <2> HIDE DEF bound
  <2>4. completed' = WithoutCompleted({s}, done, bound)
    <3> HIDE DEF s
    <3> QED BY <1>11, <2>1, <2>3 DEF Queries
  <2>5. s \notin completed'
    BY <2>4, Uncompleted
  <2> QED BY <1>5, <2>2, <2>5
<1>12. \/ Update(t, New("pending"), met)
       \/ /\ completed' \in Queries(s, done, bound)
          /\ \E step \in WalkSteps : Update(t, New(step), met)
  <2>1. CASE ~QueuedBuild(s)
    <3>1. /\ completed' \in Queries(s, done, bound)
          /\ \E held \in pauses[s]..MaxPauses :
                Update(t, New(IF held > 0 THEN "paused"
                              ELSE IF s \in completed' THEN "skipped" ELSE "building"), met)
      BY <2>1 DEF Execute, task
    <3> HIDE DEF New, s, bound
    <3> QED BY <3>1 DEF WalkSteps
  <2>2. CASE QueuedBuild(s)
    BY <2>2 DEF Execute, task
  <2> QED BY <2>1, <2>2
<1>13. CASE Update(t, New("pending"), met)
  <2>1. "pending" \in WalkSteps \cup {"pending"} /\ New("pending").step = "pending"
    BY <1>6
  <2> HIDE DEF New
  <2> QED BY <1>6, <1>7, <1>9, <1>13, <2>1 DEF ComesTo
<1>14. CASE completed' \in Queries(s, done, bound) /\ \E step \in WalkSteps : Update(t, New(step), met)
  <2>1. PICK step \in WalkSteps : Update(t, New(step), met)
    BY <1>14
  <2>2. \A k \in DOMAIN pipeline :
           i < k /\ k <= position' /\ pipeline[k] \notin disabled
           => <<pipeline[i], pipeline[k]>> \in bindings' /\ pipeline[i] \notin completed'
    BY <1>11, <1>14
  <2> HIDE DEF New, bound, chain, joined
  <2> QED BY <1>6, <1>7, <1>9, <2>1, <2>2 DEF ComesTo
<1> QED BY <1>12, <1>13, <1>14

\* What a step of t makes of it and of those that wait.  When it is calm, all
\* that it passes is complete: then t answers TRUE, and those that wait are
\* completed, only when the stages they asked for are complete, and t comes to
\* a stage only when those in front of it are.
Advance(t, calm) ==
    \E new \in Task, met \in SUBSET Requests :
       /\ Update(t, new, met)
       /\ new.type = tasks[t].type /\ new.quiet = tasks[t].quiet
       /\ new.step \notin {"new", "queued"}
       /\ new.step # "returned" => new.answer = tasks[t].answer
       /\ new.step = "cleaning" => new.type = "clean"
       /\ new.step = "reaping" => position' = 0
       /\ calm =>
             /\ new.step = "returned" /\ new.answer = "done" /\ new.type # "clean"
                => Built({tasks[t].phase}, completed')
             /\ \A r \in met : Built({tasks[r].phase, requested'}, completed')
             /\ new.step \in WalkSteps
                => /\ Walked(new.stage, position', completed', bindings')
                   /\ InFront(new.stage, completed')

\* ide_pipeline_tick_build behind complete entries.
LEMMA TickBuildWalk ==
    ASSUME TypeOK, NEW t \in Requests, NEW waiting \in Seq(Requests),
           NEW done \in SUBSET Stages, NEW links \in SUBSET (Stages \X Stages),
           NEW pos \in Nat, NEW dated, TickBuild(t, waiting, done, links, pos, dated),
           Ordered(pipeline, links)
    PROVE  Ordered(pipeline, bindings') /\ Advance(t, Behind(pos, done))
<1>1. /\ tasks[t] \in Task /\ tasks[t].phase \in Nat /\ requested \in Nat
      /\ pipeline \in Seq(Stages) /\ DOMAIN pipeline \subseteq Nat
      /\ \A k \in DOMAIN pipeline : pipeline[k] \in Stages
  <2>1. tasks[t] \in Task /\ requested \in 0..MaxPhase /\ pipeline \in Seq(Stages)
    BY DEF TypeOK, TaskType, RunType, StageType
  <2>2. tasks[t].phase \in 0..MaxPhase
    BY <2>1 DEF Task
  <2> QED BY <2>1, <2>2
<1>2. \A s \in Stages : PhaseOf[s] \in Nat
  <2> SUFFICES ASSUME NEW s \in Stages PROVE PhaseOf[s] \in Nat
    OBVIOUS
  <2>1. PhaseOf[s] \in 1..MaxPhase
    BY StagesAssumption DEF Phases
  <2> QED BY <2>1
<1>3. Sorted(pipeline) /\ Injective(pipeline)
  BY DEF Ordered
<1>4. \A i, j \in DOMAIN pipeline : PhaseOf[pipeline[i]] < PhaseOf[pipeline[j]] => i < j
  <2> SUFFICES ASSUME NEW i \in DOMAIN pipeline, NEW j \in DOMAIN pipeline,
                      PhaseOf[pipeline[i]] < PhaseOf[pipeline[j]], ~(i < j)
               PROVE  FALSE
    OBVIOUS
  <2>1. PhaseOf[pipeline[i]] \in Nat /\ PhaseOf[pipeline[j]] \in Nat /\ i \in Nat /\ j \in Nat
    BY <1>1, <1>2
  <2>2. i # j /\ j < i
    BY <2>1
  <2>3. PhaseOf[pipeline[j]] <= PhaseOf[pipeline[i]]
    BY <1>1, <1>3, <2>2, SortedPhases
  <2> QED BY <2>1, <2>3
<1>5. ASSUME NEW answer \in {"done", "error"}, NEW met \in SUBSET Requests,
             Update(t, Returned(tasks[t], answer), met),
             answer = "done" /\ Behind(pos, done) => Built({tasks[t].phase}, completed'),
             Behind(pos, done) => \A r \in met : Built({tasks[r].phase, requested'}, completed')
      PROVE  Advance(t, Behind(pos, done))
  <2> DEFINE new == Returned(tasks[t], answer)
  <2>1. /\ new \in Task /\ new.type = tasks[t].type /\ new.quiet = tasks[t].quiet
        /\ new.step = "returned" /\ new.answer = answer
    BY <1>1, ReturnedFields, ReturnedType DEF Answers
  <2>2. Update(t, new, met)
    BY <1>5
  <2> HIDE DEF new
  <2> QED BY <1>5, <2>1, <2>2 DEF Advance, WalkSteps
<1>6. CASE IsCancelled(t)
  <2>1. Update(t, Returned(tasks[t], "error"), {}) /\ bindings' = links
    BY <1>6 DEF TickBuild
  <2> QED BY <1>5, <2>1
<1>7. ASSUME ~IsCancelled(t)
      PROVE  /\ requested' \in Nat /\ tasks[t].phase <= requested'
  <2>1. requested' = Larger(requested, tasks[t].phase)
    BY <1>7 DEF TickBuild
  <2> QED BY <1>1, <2>1 DEF Larger
<1>8. CASE ~IsCancelled(t) /\ ~NeedsWork(requested', done)
  <2>1. Update(t, Returned(tasks[t], "done"), {}) /\ bindings' = links /\ completed' = done
    BY <1>8 DEF TickBuild
  <2>2. \A s \in InPipeline : PhaseOf[s] <= requested' => s \in done
    BY <1>8 DEF NeedsWork
  <2>3. \A s \in InPipeline : PhaseOf[s] \in Nat
    BY <1>1, <1>2 DEF InPipeline
  <2>4. Built({tasks[t].phase}, completed')
    BY <1>1, <1>7, <1>8, <2>1, <2>2, <2>3 DEF Built
  <2> QED BY <1>5, <2>1, <2>4
<1>9. CASE ~IsCancelled(t) /\ NeedsWork(requested', done)
  <2> DEFINE stops == Stops(pos, requested')
             last == IF stops = {} THEN Larger(pos, Len(pipeline)) + 1
                     ELSE CHOOSE i \in stops : \A j \in stops : i <= j
             met == Met(waiting, pos, last)
  <2>1. /\ stops = {} => /\ position' = last /\ completed' = done /\ bindings' = links
                         /\ Update(t, Returned(tasks[t], "done"), met)
        /\ stops # {} => Execute(t, last, met, done, links, dated)
    BY <1>9 DEF TickBuild
  <2>2. stops # {} => /\ last \in stops /\ last \in DOMAIN pipeline
                      /\ \A j \in stops : last <= j
    <3>1. StageType
      BY DEF TypeOK
    <3>2. ASSUME stops # {} PROVE last \in stops /\ stops \subseteq DOMAIN pipeline
      BY <3>1, <3>2, FirstStop
    <3>3. ASSUME stops # {} PROVE \A j \in stops : last <= j
      <4>1. stops \subseteq Nat
        BY <1>1, <3>2, <3>3
      <4> HIDE DEF stops
      <4>2. \E i \in stops : \A j \in stops : i <= j
        BY <3>3, <4>1, LeastNat
      <4>3. last = CHOOSE i \in stops : \A j \in stops : i <= j
        BY <3>3
      <4> QED BY <4>2, <4>3
    <3> HIDE DEF stops, last
    <3> QED BY <3>2, <3>3
  <2>3. last \in Nat /\ (stops = {} => \A k \in DOMAIN pipeline : k < last)
    <3>1. CASE stops = {}
      <4>1. Len(pipeline) \in Nat /\ DOMAIN pipeline = 1..Len(pipeline) /\ last = Larger(pos, Len(pipeline)) + 1
        BY <1>1, <3>1
      <4> HIDE DEF last
      <4> QED BY <4>1 DEF Larger
    <3>2. CASE stops # {}
      <4> HIDE DEF stops, last
      <4> QED BY <1>1, <2>2, <3>2
    <3> QED BY <3>1, <3>2
  <2>4. met \in SUBSET Requests
    BY DEF Met
  <2>5. \A r \in met : \E i \in DOMAIN pipeline : i > pos /\ i <= last /\ tasks[r].phase < PhaseOf[pipeline[i]]
    BY DEF Met
  <2>6. \A k \in stops : pipeline[k] \notin disabled /\ PhaseOf[pipeline[k]] <= requested'
    BY DEF Stops
  <2>7. \A k \in DOMAIN pipeline :
           k > pos /\ pipeline[k] \notin disabled /\ PhaseOf[pipeline[k]] <= requested' => k \in stops
    BY DEF Stops
  <2> HIDE DEF stops, last, met
  <2>8. ASSUME Behind(pos, done), NEW k \in DOMAIN pipeline, k < last,
               pipeline[k] \notin disabled, PhaseOf[pipeline[k]] <= requested'
        PROVE  pipeline[k] \in done
    <3>1. CASE k <= pos
      BY <2>8, <3>1 DEF Behind
    <3>2. CASE ~(k <= pos)
      <4>1. k > pos
        BY <1>1, <3>2
      <4>2. k \in stops
        BY <2>7, <2>8, <4>1
      <4>3. last <= k
        BY <2>2, <4>2
      <4> QED BY <1>1, <2>3, <2>8, <4>3
    <3> QED BY <3>1, <3>2
  <2>9. ASSUME Behind(pos, done), NEW r \in met, NEW s \in InPipeline \ disabled,
               PhaseOf[s] <= tasks[r].phase, PhaseOf[s] <= requested'
        PROVE  \E k \in DOMAIN pipeline : k < last /\ pipeline[k] = s /\ s \in done
    <3>1. PICK k \in DOMAIN pipeline : pipeline[k] = s
      BY <2>9 DEF InPipeline
    <3>2. PICK i \in DOMAIN pipeline : i <= last /\ tasks[r].phase < PhaseOf[pipeline[i]]
      BY <2>5, <2>9
    <3>3. tasks[r].phase \in Nat
      <4>1. r \in Requests
        BY <2>4
      <4>2. tasks[r] \in Task
        BY <4>1 DEF TypeOK, TaskType
      <4>3. tasks[r].phase \in 0..MaxPhase
        BY <4>2 DEF Task
      <4> QED BY <4>3
    <3>4. PhaseOf[pipeline[k]] \in Nat /\ PhaseOf[pipeline[i]] \in Nat
      BY <1>1, <1>2
    <3>5. PhaseOf[pipeline[k]] < PhaseOf[pipeline[i]]
      BY <2>9, <3>1, <3>2, <3>3, <3>4
    <3>6. k < i
      BY <1>4, <3>5
    <3>7. k < last
      BY <1>1, <2>3, <3>2, <3>6
    <3> QED BY <2>8, <2>9, <3>1, <3>7
  <2>10. CASE stops = {}
    <3>1. completed' = done /\ bindings' = links /\ Update(t, Returned(tasks[t], "done"), met)
      BY <2>1, <2>10
    <3>2. ASSUME Behind(pos, done) PROVE Built({tasks[t].phase}, completed')
      <4> SUFFICES ASSUME NEW s \in InPipeline \ disabled, PhaseOf[s] <= tasks[t].phase PROVE s \in done
        BY <3>1 DEF Built
      <4>1. PICK k \in DOMAIN pipeline : pipeline[k] = s
        BY DEF InPipeline
      <4>2. PhaseOf[pipeline[k]] \in Nat
        BY <1>1, <1>2
      <4>3. PhaseOf[pipeline[k]] <= requested' /\ k < last
        BY <1>1, <1>7, <1>9, <2>3, <2>10, <4>1, <4>2
      <4> QED BY <2>8, <3>2, <4>1, <4>3
    <3>3. ASSUME Behind(pos, done), NEW r \in met PROVE Built({tasks[r].phase, requested'}, completed')
      BY <2>9, <3>1, <3>3 DEF Built
    <3> QED BY <1>5, <2>4, <3>1, <3>2, <3>3
  <2>11. CASE stops # {}
    <3>1. last \in DOMAIN pipeline /\ last \in stops /\ Execute(t, last, met, done, links, dated)
      BY <2>1, <2>2, <2>11
    <3>2. /\ Ordered(pipeline, bindings')
          /\ \A k \in DOMAIN pipeline : k < last /\ pipeline[k] \in done => pipeline[k] \in completed'
          /\ ComesTo(t, last, met)
      BY <2>4, <3>1, ExecuteWalk
    <3>3. PICK new \in Task :
                /\ Update(t, new, met)
                /\ new.step \in WalkSteps \cup {"pending"}
                /\ new.type = tasks[t].type /\ new.quiet = tasks[t].quiet
                /\ new.answer = tasks[t].answer /\ new.stage = pipeline[last]
                /\ new.step # "pending" =>
                      \A k \in DOMAIN pipeline :
                         last < k /\ k <= position' /\ pipeline[k] \notin disabled
                         => <<pipeline[last], pipeline[k]>> \in bindings' /\ pipeline[last] \notin completed'
      BY <3>2 DEF ComesTo
    <3>4. ASSUME Behind(pos, done), NEW r \in met PROVE Built({tasks[r].phase, requested'}, completed')
      BY <2>9, <3>2, <3>4 DEF Built
    <3>5. ASSUME Behind(pos, done), NEW k \in DOMAIN pipeline, k < last, pipeline[k] \notin disabled
          PROVE  pipeline[k] \in completed'
      <4>1. PhaseOf[pipeline[k]] <= PhaseOf[pipeline[last]] /\ PhaseOf[pipeline[last]] <= requested'
        BY <1>1, <1>3, <2>6, <3>1, <3>5, SortedPhases
      <4>2. PhaseOf[pipeline[k]] \in Nat /\ PhaseOf[pipeline[last]] \in Nat
        BY <1>1, <1>2, <3>1
      <4>3. PhaseOf[pipeline[k]] <= requested'
        BY <1>7, <1>9, <4>1, <4>2
      <4>4. pipeline[k] \in done
        BY <2>8, <3>5, <4>3
      <4> QED BY <3>2, <3>5, <4>4
    <3>6. ASSUME Behind(pos, done), new.step \in WalkSteps
          PROVE  Walked(new.stage, position', completed', bindings') /\ InFront(new.stage, completed')
      <4>1. new.step # "pending"
        BY <3>6 DEF WalkSteps
      <4>2. Walked(new.stage, position', completed', bindings')
        <5> SUFFICES ASSUME NEW k \in DOMAIN pipeline, k <= position', pipeline[k] \notin disabled
                     PROVE  \/ pipeline[k] \in completed'
                            \/ pipeline[k] = new.stage
                            \/ <<new.stage, pipeline[k]>> \in bindings' /\ new.stage \notin completed'
          BY DEF Walked
        <5>1. k < last \/ k = last \/ last < k
          BY <1>1, <2>3
        <5> QED BY <3>3, <3>5, <3>6, <4>1, <5>1
      <4>3. InFront(new.stage, completed')
        <5> SUFFICES ASSUME NEW i \in DOMAIN pipeline, NEW j \in DOMAIN pipeline,
                            i < j, pipeline[j] = pipeline[last], pipeline[i] \notin disabled
                     PROVE  pipeline[i] \in completed'
          BY <3>3 DEF InFront
        <5>1. j = last
          BY <1>3, <3>1 DEF Injective
        <5> QED BY <3>5, <3>6, <5>1
      <4> QED BY <4>2, <4>3
    <3>7. Advance(t, Behind(pos, done))
      <4>1. new.step # "returned" /\ new.step \notin {"new", "queued", "cleaning", "reaping"}
        BY <3>3 DEF WalkSteps
      <4> QED BY <2>4, <3>3, <3>4, <3>6, <4>1 DEF Advance
    <3> QED BY <3>2, <3>7
  <2> QED BY <2>10, <2>11
<1> QED BY <1>6, <1>8, <1>9

-----------------------------------------------------------------------------
(***************************************************************************)
(* What the steps promise.                                                 *)
(***************************************************************************)

\* What InOrder, DoneMeansBuilt and EarlyMeansBuilt say of one request.
InOrderStep(t) ==
    /\ tasks'[t].stage # tasks[t].stage
    /\ tasks'[t].step \in {"paused", "building", "skipped"}
    /\ tasks[t].quiet /\ NoneRefused
    => \A i, j \in DOMAIN pipeline :
          i < j /\ pipeline[j] = tasks'[t].stage /\ pipeline[i] \notin disabled
            => pipeline[i] \in completed'

DoneStep(t) ==
    Returns(t) /\ tasks'[t].answer = "done" /\ tasks[t].type # "clean"
      /\ tasks[t].quiet /\ NoneRefused
    => \A s \in InPipeline \ disabled : PhaseOf[s] <= tasks[t].phase => s \in completed'

EarlyStep(t) ==
    /\ tasks[t].step = "queued" /\ tasks[t].type = "build" /\ tasks'[t].answer = "done"
    /\ NoneRefused /\ \A r \in Requests : Started(r) => tasks[r].quiet
    => \A s \in InPipeline \ disabled :
          PhaseOf[s] <= tasks[t].phase /\ PhaseOf[s] <= requested' => s \in completed'

Promised == \A t \in Requests : InOrderStep(t) /\ DoneStep(t) /\ EarlyStep(t)

\* A step of the only task that is started.
LEMMA AdvanceWalk ==
    ASSUME IInv, WalkInv, NEW t \in Requests, NEW calm, Advance(t, calm),
           NoneRefused /\ (Started(t) => tasks[t].quiet) => calm,
           NoneRefused => \A r \in Requests \ {t} : ~Started(r),
           NoneRefused' => NoneRefused, UNCHANGED <<pipeline, disabled>>
    PROVE  WalkInv' /\ Promised
<1>1. PICK new \in Task, met \in SUBSET Requests :
         /\ Update(t, new, met)
         /\ new.type = tasks[t].type /\ new.quiet = tasks[t].quiet
         /\ new.step \notin {"new", "queued"}
         /\ new.step # "returned" => new.answer = tasks[t].answer
         /\ new.step = "cleaning" => new.type = "clean"
         /\ new.step = "reaping" => position' = 0
         /\ calm =>
               /\ new.step = "returned" /\ new.answer = "done" /\ new.type # "clean"
                  => Built({tasks[t].phase}, completed')
               /\ \A r \in met : Built({tasks[r].phase, requested'}, completed')
               /\ new.step \in WalkSteps
                  => /\ Walked(new.stage, position', completed', bindings')
                     /\ InFront(new.stage, completed')
  BY DEF Advance
<1>2. /\ tasks'[t] = new
      /\ \A r \in Requests \ {t} :
            /\ r \in met => tasks'[r].step = "done" /\ tasks'[r].answer = "done"
            /\ r \notin met => tasks'[r] = tasks[r]
  BY <1>1, UpdateEffect DEF IInv, TypeOK
<1>3. \A r \in Requests : /\ tasks'[r].step = "cleaning" => tasks'[r].type = "clean"
                          /\ tasks'[r].step \in {"new", "queued"} => tasks'[r].answer = "none"
  BY <1>1, <1>2 DEF WalkInv
<1>4. ASSUME NoneRefused', NEW r \in Requests
      PROVE  /\ tasks'[r].step = "reaping" => position' = 0
             /\ tasks'[r].step \in WalkSteps /\ tasks'[r].quiet
                => Walked(tasks'[r].stage, position', completed', bindings')
  <2>1. NoneRefused
    BY <1>4
  <2>2. CASE r = t
    <3>1. new.quiet => calm
      BY <1>1, <2>1
    <3> QED BY <1>1, <1>2, <2>2, <3>1
  <2>3. CASE r # t
    <3>1. ~Started(r)
      BY <2>1, <2>3
    <3>2. tasks'[r].step \notin WalkSteps \cup {"reaping"}
      BY <1>2, <2>3, <3>1 DEF Started, WalkSteps
    <3> QED BY <3>2
  <2> QED BY <2>2, <2>3
<1>5. WalkInv'
  <2>1. \A s : Walked(s, position', completed', bindings') => Walked(s, position, completed, bindings)'
    BY DEF Walked
  <2> QED BY <1>3, <1>4, <2>1 DEF WalkInv
<1>6. InOrderStep(t) /\ DoneStep(t) /\ EarlyStep(t)
  <2>1. InOrderStep(t)
    BY <1>1, <1>2 DEF InOrderStep, InFront, WalkSteps
  <2>2. DoneStep(t)
    BY <1>1, <1>2 DEF DoneStep, Returns, Built
  <2>3. EarlyStep(t)
    <3> SUFFICES ASSUME tasks[t].step = "queued", tasks[t].type = "build", tasks'[t].answer = "done",
                        NoneRefused, \A r \in Requests : Started(r) => tasks[r].quiet
                 PROVE  Built({tasks[t].phase}, completed')
      BY DEF EarlyStep, Built
    <3>1. tasks[t].answer = "none"
      BY DEF WalkInv
    <3>2. new.step = "returned" /\ new.answer = "done"
      BY <1>1, <1>2, <3>1
    <3> QED BY <1>1, <3>2
  <2> QED BY <2>1, <2>2, <2>3
<1>7. ASSUME NEW r \in Requests \ {t} PROVE InOrderStep(r) /\ DoneStep(r) /\ EarlyStep(r)
  <2>1. CASE r \in met
    <3>1. tasks'[r].step = "done"
      BY <1>2, <1>7, <2>1
    <3>2. InOrderStep(r) /\ DoneStep(r)
      BY <3>1 DEF InOrderStep, DoneStep, Returns
    <3>3. EarlyStep(r)
      <4> SUFFICES ASSUME NoneRefused, \A q \in Requests : Started(q) => tasks[q].quiet
                   PROVE  Built({tasks[r].phase, requested'}, completed')
        BY DEF EarlyStep, Built
      <4> QED BY <1>1, <2>1
    <3> QED BY <3>2, <3>3
  <2>2. CASE r \notin met
    <3>1. tasks'[r] = tasks[r]
      BY <1>2, <1>7, <2>2
    <3>2. tasks[r].step = "queued" => tasks'[r].answer # "done"
      BY <3>1 DEF WalkInv
    <3> QED BY <3>1, <3>2 DEF InOrderStep, DoneStep, EarlyStep, Returns
  <2> QED BY <2>1, <2>2
<1> QED BY <1>5, <1>6, <1>7 DEF Promised

\* No refusal is taken back by a step that moves t.
LEMMA MovesRefused ==
    ASSUME IInv, NEW t \in Requests, NEW waiting \in Seq(Requests), Injective(waiting),
           \A j \in DOMAIN waiting : waiting[j] # t /\ tasks[waiting[j]].step = "queued",
           Moves(t, waiting), tasks'[t].answer # "refused", tasks[t].answer # "refused"
    PROVE  NoneRefused' => NoneRefused
<1>1. OthersStay(t)
  BY MovesQueue DEF IInv, SafeInv
<1> QED BY <1>1, NoneRefusedBefore DEF IInv, SafeInv

\* The same for the task that runs, which is the only one until a refusal.
LEMMA RunsAlone ==
    ASSUME IInv, NEW t \in Requests, Running(t), Moves(t, queue), tasks'[t].answer # "refused"
    PROVE  /\ NoneRefused' => NoneRefused
           /\ NoneRefused => \A r \in Requests \ {t} : ~Started(r)
<1>1. Started(t) /\ tasks[t].step \notin {"returned", "done", "queued"}
  BY DEF Running, Started
<1>2. tasks[t].answer # "refused"
  BY <1>1 DEF IInv, SafeInv, AnswerInv
<1>3. queue \in Seq(Requests) /\ Injective(queue)
  BY DEF IInv, TypeOK, TaskType, SafeInv, QueueInv
<1>4. \A j \in DOMAIN queue : queue[j] # t /\ tasks[queue[j]].step = "queued"
  BY <1>1 DEF IInv, SafeInv, QueueInv
<1>5. NoneRefused' => NoneRefused
  BY <1>2, <1>3, <1>4, MovesRefused
<1>6. NoneRefused => \A r \in Requests \ {t} : ~Started(r)
  BY <1>1 DEF IInv, SafeInv, OneAtATime
<1> QED BY <1>5, <1>6

\* A tick of a clean passes nothing.
LEMMA TickCleanWalk ==
    ASSUME TypeOK, NEW t \in Requests, NEW rest \in Seq(Stages), TickClean(t, rest),
           tasks[t].type = "clean"
    PROVE  bindings' = bindings /\ Advance(t, TRUE)
<1>1. tasks[t] \in Task
  BY DEF TypeOK, TaskType
<1>2. bindings' = bindings
  BY DEF TickClean
<1>3. ASSUME NEW new \in Task, Update(t, new, {}), new.type = "clean", new.quiet = tasks[t].quiet,
             \/ new.step = "returned"
             \/ new.step = "cleaning" /\ new.answer = tasks[t].answer
      PROVE  Advance(t, TRUE)
  BY <1>3 DEF Advance, WalkSteps
<1>4. CASE rest = << >>
  <2> DEFINE new == Returned(tasks[t], "done")
  <2>1. /\ new \in Task /\ new.type = "clean" /\ new.quiet = tasks[t].quiet
        /\ new.step = "returned"
    BY <1>1, ReturnedFields, ReturnedType DEF Answers
  <2>2. Update(t, new, {})
    BY <1>4 DEF TickClean
  <2> HIDE DEF new
  <2> QED BY <1>2, <1>3, <2>1, <2>2
<1>5. CASE rest # << >>
  <2> DEFINE s == rest[Len(rest)]
             new == [tasks[t] EXCEPT !.step = "cleaning", !.stage = s, !.rest = rest]
  <2>1. s \in Stages
    BY <1>5
  <2>2. Update(t, new, {})
    BY <1>5 DEF TickClean
  <2> HIDE DEF s
  <2>3. /\ new \in Task /\ new.type = "clean" /\ new.quiet = tasks[t].quiet
        /\ new.step = "cleaning" /\ new.answer = tasks[t].answer
    BY <1>1, <2>1 DEF Task, Step
  <2> HIDE DEF new
  <2> QED BY <1>2, <1>3, <2>2, <2>3
<1> QED BY <1>2, <1>4, <1>5

\* A step that ends the task without TRUE, or loses it.
LEMMA FailureWalk ==
    ASSUME TypeOK, NEW t \in Requests, NEW new \in Task, Update(t, new, {}),
           new.type = tasks[t].type, new.quiet = tasks[t].quiet,
           \/ new.step = "returned" /\ new.answer = "error"
           \/ new.step = "lost" /\ new.answer = tasks[t].answer
    PROVE  Advance(t, TRUE)
BY DEF Advance, WalkSteps

\* The head of the queue, which is started when no other task is.
LEMMA HeadAlone ==
    ASSUME IInv, FlushStarts
    PROVE  LET t == Head(queue)
           IN  /\ t \in Requests /\ tasks[t] \in Task /\ Tail(queue) \in Seq(Requests)
               /\ NoneRefused' => NoneRefused
               /\ NoneRefused => \A r \in Requests \ {t} : ~Started(r)
<1> DEFINE t == Head(queue)
           rest == Tail(queue)
<1>1. ~busy /\ queue # << >>
  BY DEF FlushStarts, Pops
<1>2. /\ t \in Requests /\ tasks[t] \in Task
      /\ tasks[t].step = "queued" /\ tasks[t].answer # "refused"
      /\ rest \in Seq(Requests) /\ Injective(rest)
      /\ \A j \in DOMAIN rest : rest[j] # t /\ tasks[rest[j]].step = "queued"
  BY <1>1, HeadOfQueue
<1>3. Moves(t, rest) /\ tasks'[t].answer # "refused"
  BY FlushStartsEffect DEF Settles
<1> HIDE DEF t, rest
<1>4. NoneRefused' => NoneRefused
  BY <1>2, <1>3, MovesRefused
<1>5. NoneRefused => \A r \in Requests \ {t} : ~Started(r)
  BY <1>1 DEF IInv, SafeInv, OneAtATime
<1> QED BY <1>2, <1>4, <1>5 DEF t, rest

\* The head of the queue starts in front of the first entry.
LEMMA FlushStartsWalk ==
    ASSUME OrderedInv, FlushStarts
    PROVE  OrderInv' /\ WalkInv' /\ Promised
<1> DEFINE t == Head(queue)
           rest == Tail(queue)
<1>1. UNCHANGED <<pipeline, disabled>>
  BY DEF FlushStarts, Pops, Flushing
<1>2. IInv /\ OrderInv /\ WalkInv /\ TypeOK
  BY DEF OrderedInv, IInv
<1>3. /\ t \in Requests /\ tasks[t] \in Task /\ rest \in Seq(Requests)
      /\ NoneRefused' => NoneRefused
      /\ NoneRefused => \A r \in Requests \ {t} : ~Started(r)
  BY <1>2, HeadAlone
<1>4. \/ TickBuild(t, rest, completed, bindings, 0, outdated)
      \/ tasks[t].type = "clean" /\ TickClean(t, tasks[t].rest)
      \/ TickRebuild(t) /\ position' = 0
  BY DEF FlushStarts
<1> HIDE DEF t, rest
<1>5. pipeline \in Seq(Stages) /\ Ordered(pipeline, bindings)
  BY <1>2 DEF TypeOK, StageType, OrderInv
<1>6. CASE TickBuild(t, rest, completed, bindings, 0, outdated)
  <2>1. /\ completed \in SUBSET Stages /\ bindings \in SUBSET (Stages \X Stages) /\ 0 \in Nat
    BY <1>2 DEF TypeOK, StageType
  <2>2. Ordered(pipeline, bindings') /\ Advance(t, Behind(0, completed))
    BY <1>2, <1>3, <1>5, <1>6, <2>1, TickBuildWalk
  <2>3. Behind(0, completed)
    <3>1. \A k \in DOMAIN pipeline : ~(k <= 0)
      BY <1>5
    <3> QED BY <3>1 DEF Behind
  <2> DEFINE calm == Behind(0, completed)
  <2> HIDE DEF calm
  <2>4. calm /\ Advance(t, calm)
    BY <2>2, <2>3 DEF calm
  <2>5. WalkInv' /\ Promised
    BY <1>1, <1>2, <1>3, <2>4, AdvanceWalk
  <2> QED BY <1>1, <2>2, <2>5 DEF OrderInv
<1>7. CASE tasks[t].type = "clean" /\ TickClean(t, tasks[t].rest)
  <2>1. tasks[t].rest \in Seq(Stages)
    BY <1>3 DEF Task
  <2>2. bindings' = bindings /\ Advance(t, TRUE)
    BY <1>2, <1>3, <1>7, <2>1, TickCleanWalk
  <2>3. WalkInv' /\ Promised
    BY <1>1, <1>2, <1>3, <2>2, AdvanceWalk
  <2> QED BY <1>1, <1>5, <2>2, <2>3 DEF OrderInv
<1>8. CASE TickRebuild(t) /\ position' = 0
  <2> DEFINE new == [tasks[t] EXCEPT !.step = "reaping"]
  <2>1. Update(t, new, {}) /\ bindings' = bindings
    BY <1>8 DEF TickRebuild
  <2>2. /\ new \in Task /\ new.type = tasks[t].type /\ new.quiet = tasks[t].quiet
        /\ new.answer = tasks[t].answer /\ new.step = "reaping"
    BY <1>3 DEF Task, Step
  <2> HIDE DEF new
  <2>3. Advance(t, TRUE)
    BY <1>8, <2>1, <2>2 DEF Advance, WalkSteps
  <2>4. WalkInv' /\ Promised
    BY <1>1, <1>2, <1>3, <2>3, AdvanceWalk
  <2> QED BY <1>1, <1>5, <2>1, <2>4 DEF OrderInv
<1> QED BY <1>4, <1>6, <1>7, <1>8

\* A stage that is built completes all that was passed with it.
LEMMA StageBuiltWalk ==
    ASSUME OrderedInv, NEW t \in Requests, StageBuilt(t)
    PROVE  OrderInv' /\ WalkInv' /\ Promised
<1>1. /\ UNCHANGED <<pipeline, disabled>>
      /\ tasks[t].step \in {"building", "skipped", "pending"}
  BY DEF StageBuilt
<1>2. IInv /\ OrderInv /\ WalkInv /\ TypeOK
  BY DEF OrderedInv, IInv
<1>3. tasks[t] \in Task /\ Running(t) /\ Started(t)
  BY <1>1, <1>2 DEF TypeOK, TaskType, Running, Started
<1>4. Moves(t, queue) /\ tasks'[t].answer # "refused"
  BY <1>2, StageBuiltEffect
<1>5. /\ NoneRefused' => NoneRefused
      /\ NoneRefused => \A r \in Requests \ {t} : ~Started(r)
  BY <1>2, <1>3, <1>4, RunsAlone
<1>6. pipeline \in Seq(Stages) /\ Ordered(pipeline, bindings)
  BY <1>2 DEF TypeOK, StageType, OrderInv
<1>7. PICK ok \in Outcomes(t) :
         LET s     == tasks[t].stage
             bad   == failed \/ ~ok
             done  == IF bad THEN WithoutCompleted({s}, completed, bindings)
                      ELSE WithCompleted({s}, completed, bindings)
             links == IF unbinds THEN {} ELSE bindings
             dated == outdated \cup (completed \ done)
         IN  \/ /\ ~bad
                /\ TickBuild(t, queue, done, links, position, dated)
             \/ /\ bad
                /\ Update(t, IF ok THEN [tasks[t] EXCEPT !.step = "lost"]
                             ELSE Returned(tasks[t], "error"), {})
                /\ bindings' = links
  BY DEF StageBuilt
<1> DEFINE s     == tasks[t].stage
           links == IF unbinds THEN {} ELSE bindings
           good  == WithCompleted({s}, completed, bindings)
<1>8. links \in SUBSET bindings
  OBVIOUS
<1>9. Ordered(pipeline, links)
  <2> HIDE DEF links
  <2> QED BY <1>6, <1>8, UnboundOrdered
<1>10. CASE ok /\ ~failed
  <2> DEFINE dated == outdated \cup (completed \ good)
  <2>1. TickBuild(t, queue, good, links, position, dated)
    BY <1>7, <1>10
  <2>2. /\ completed \in SUBSET Stages /\ bindings \in SUBSET (Stages \X Stages) /\ position \in Nat
        /\ queue \in Seq(Requests)
    BY <1>2 DEF TypeOK, StageType, TaskType, RunType
  <2>a. \A r : WithCompleted({r}, completed, bindings) \in SUBSET Stages
    BY <2>2, CompletedType
  <2>3. good \in SUBSET Stages
    BY <2>a
  <2>4. links \in SUBSET (Stages \X Stages)
    BY <1>8, <2>2
  <2> HIDE DEF dated, links
  <2>5. Ordered(pipeline, bindings') /\ Advance(t, Behind(position, good))
    <3> HIDE DEF good
    <3> QED BY <1>2, <1>9, <2>1, <2>2, <2>3, <2>4, TickBuildWalk
  <2>6. ASSUME NoneRefused, Started(t) => tasks[t].quiet PROVE Behind(position, good)
    <3>1. tasks[t].step \in WalkSteps
      BY <1>1, <1>7, <1>10 DEF Outcomes, WalkSteps
    <3>2. Walked(s, position, completed, bindings)
      BY <1>2, <1>3, <2>6, <3>1 DEF WalkInv
    <3> HIDE DEF s
    <3> QED BY <1>2, <3>2, BehindBuilt
  <2> DEFINE calm == Behind(position, good)
  <2>7. Advance(t, calm) /\ (NoneRefused /\ (Started(t) => tasks[t].quiet) => calm)
    BY <2>5, <2>6
  <2> HIDE DEF calm
  <2>8. WalkInv' /\ Promised
    BY <1>1, <1>2, <1>5, <2>7, AdvanceWalk
  <2> QED BY <1>1, <2>5, <2>8 DEF OrderInv
<1>11. CASE ~(ok /\ ~failed)
  <2> DEFINE new == IF ok THEN [tasks[t] EXCEPT !.step = "lost"] ELSE Returned(tasks[t], "error")
  <2>1. Update(t, new, {}) /\ bindings' = links
    BY <1>7, <1>11
  <2>2. /\ new \in Task /\ new.type = tasks[t].type /\ new.quiet = tasks[t].quiet
        /\ \/ new.step = "returned" /\ new.answer = "error"
           \/ new.step = "lost" /\ new.answer = tasks[t].answer
    <3>1. CASE ok
      BY <1>3, <3>1 DEF Task, Step
    <3>2. CASE ~ok
      BY <1>3, <3>2, ReturnedType, ReturnedFields DEF Answers
    <3> QED BY <3>1, <3>2
  <2> HIDE DEF new, links
  <2>3. Advance(t, TRUE)
    BY <1>2, <2>1, <2>2, FailureWalk
  <2>4. WalkInv' /\ Promised
    BY <1>1, <1>2, <1>5, <2>3, AdvanceWalk
  <2> QED BY <1>1, <1>9, <2>1, <2>4 DEF OrderInv
<1> QED BY <1>10, <1>11

\* A rebuild starts in front of the first entry, too.
LEMMA ReapedWalk ==
    ASSUME OrderedInv, NEW t \in Requests, Reaped(t)
    PROVE  OrderInv' /\ WalkInv' /\ Promised
<1>1. UNCHANGED <<pipeline, disabled>> /\ tasks[t].step = "reaping"
  BY DEF Reaped
<1>2. IInv /\ OrderInv /\ WalkInv /\ TypeOK
  BY DEF OrderedInv, IInv
<1>3. tasks[t] \in Task /\ Running(t) /\ Started(t)
  BY <1>1, <1>2 DEF TypeOK, TaskType, Running, Started
<1>4. Moves(t, queue) /\ tasks'[t].answer # "refused"
  BY <1>2, ReapedEffect DEF Settles
<1>5. /\ NoneRefused' => NoneRefused
      /\ NoneRefused => \A r \in Requests \ {t} : ~Started(r)
  BY <1>2, <1>3, <1>4, RunsAlone
<1>6. pipeline \in Seq(Stages) /\ Ordered(pipeline, bindings)
  BY <1>2 DEF TypeOK, StageType, OrderInv
<1>7. CASE TickBuild(t, queue, completed, bindings, position, outdated)
  <2>1. /\ completed \in SUBSET Stages /\ bindings \in SUBSET (Stages \X Stages) /\ position \in Nat
        /\ queue \in Seq(Requests)
    BY <1>2 DEF TypeOK, StageType, TaskType, RunType
  <2>2. Ordered(pipeline, bindings') /\ Advance(t, Behind(position, completed))
    BY <1>2, <1>6, <1>7, <2>1, TickBuildWalk
  <2>3. ASSUME NoneRefused PROVE Behind(position, completed)
    <3>1. position = 0
      BY <1>1, <1>2, <2>3 DEF WalkInv
    <3>2. \A k \in DOMAIN pipeline : ~(k <= 0)
      BY <1>6
    <3> QED BY <3>1, <3>2 DEF Behind
  <2> DEFINE calm == Behind(position, completed)
  <2>4. Advance(t, calm) /\ (NoneRefused => calm)
    BY <2>2, <2>3
  <2> HIDE DEF calm
  <2>5. WalkInv' /\ Promised
    BY <1>1, <1>2, <1>5, <2>4, AdvanceWalk
  <2> QED BY <1>1, <2>2, <2>5 DEF OrderInv
<1>8. CASE /\ \E answer \in {"done", "error"} :
                 /\ Update(t, Returned(tasks[t], answer), {})
                 /\ answer = "done" => tasks[t].phase = 0
           /\ UNCHANGED <<completed, bindings>>
  <2>1. PICK answer \in {"done", "error"} : /\ Update(t, Returned(tasks[t], answer), {})
                                            /\ answer = "done" => tasks[t].phase = 0
    BY <1>8
  <2> DEFINE new == Returned(tasks[t], answer)
  <2>2. /\ new \in Task /\ new.type = tasks[t].type /\ new.quiet = tasks[t].quiet
        /\ new.step = "returned" /\ new.answer = answer
    BY <1>3, ReturnedType, ReturnedFields DEF Answers
  <2>3. Update(t, new, {})
    BY <2>1
  <2> HIDE DEF new
  <2>4. new.answer = "done" => Built({tasks[t].phase}, completed')
    <3>1. \A s \in InPipeline : s \in Stages
      BY <1>6 DEF InPipeline
    <3>2. \A s \in Stages : PhaseOf[s] \in 1..MaxPhase
      BY StagesAssumption DEF Phases
    <3>3. \A s \in Stages : ~(PhaseOf[s] <= 0)
      BY <3>2
    <3> QED BY <2>1, <2>2, <3>1, <3>3 DEF Built
  <2>5. Advance(t, TRUE)
    BY <2>2, <2>3, <2>4 DEF Advance, WalkSteps
  <2>6. WalkInv' /\ Promised
    BY <1>1, <1>2, <1>5, <2>5, AdvanceWalk
  <2> QED BY <1>1, <1>6, <1>8, <2>6 DEF OrderInv
<1> QED BY <1>7, <1>8 DEF Reaped

LEMMA StageCleanedWalk ==
    ASSUME OrderedInv, NEW t \in Requests, StageCleaned(t)
    PROVE  OrderInv' /\ WalkInv' /\ Promised
<1>1. UNCHANGED <<pipeline, disabled>> /\ tasks[t].step = "cleaning"
  BY DEF StageCleaned
<1>2. IInv /\ OrderInv /\ WalkInv /\ TypeOK
  BY DEF OrderedInv, IInv
<1>3. tasks[t] \in Task /\ Running(t) /\ Started(t) /\ tasks[t].type = "clean"
  BY <1>1, <1>2 DEF TypeOK, TaskType, Running, Started, WalkInv
<1>4. Moves(t, queue) /\ tasks'[t].answer # "refused"
  BY <1>2, StageCleanedEffect DEF Settles
<1>5. /\ NoneRefused' => NoneRefused
      /\ NoneRefused => \A r \in Requests \ {t} : ~Started(r)
  BY <1>2, <1>3, <1>4, RunsAlone
<1>6. bindings' = bindings /\ Advance(t, TRUE)
  <2>1. CASE TickClean(t, SubSeq(tasks[t].rest, 1, Len(tasks[t].rest) - 1))
    <3> DEFINE rest == SubSeq(tasks[t].rest, 1, Len(tasks[t].rest) - 1)
    <3>1. tasks[t].rest \in Seq(Stages)
      BY <1>3 DEF Task
    <3>2. rest \in Seq(Stages)
      BY <3>1
    <3> HIDE DEF rest
    <3> QED BY <1>2, <1>3, <2>1, <3>2, TickCleanWalk DEF rest
  <2>2. CASE Update(t, Returned(tasks[t], "error"), {}) /\ UNCHANGED bindings
    <3> DEFINE new == Returned(tasks[t], "error")
    <3>1. /\ new \in Task /\ new.type = tasks[t].type /\ new.quiet = tasks[t].quiet
          /\ new.step = "returned" /\ new.answer = "error"
      BY <1>3, ReturnedType, ReturnedFields DEF Answers
    <3>2. Update(t, new, {})
      BY <2>2
    <3> HIDE DEF new
    <3> QED BY <1>2, <2>2, <3>1, <3>2, FailureWalk
  <2> QED BY <2>1, <2>2 DEF StageCleaned
<1>7. WalkInv' /\ Promised
  BY <1>1, <1>2, <1>5, <1>6, AdvanceWalk
<1> QED BY <1>1, <1>2, <1>6, <1>7 DEF OrderInv

\* A stage that is no longer paused goes on.
Resumes(r) ==
    /\ tasks[r].step = "paused" /\ tasks'[r].step \in {"skipped", "building"}
    /\ IF tasks'[r].step = "skipped" THEN tasks[r].stage \in completed
       ELSE tasks[r].stage \notin outdated'

\* A step that goes on with no walk: r stands where it was, is asked for, or
\* leaves the queue without TRUE.
Idles(r) ==
    \/ /\ tasks'[r].type = tasks[r].type /\ tasks'[r].answer = tasks[r].answer
       /\ tasks'[r].stage = tasks[r].stage /\ tasks'[r].quiet = tasks[r].quiet
       /\ tasks'[r].step = tasks[r].step \/ Resumes(r)
    \/ /\ tasks[r].step = "new"
       /\ \/ tasks'[r].step = "queued" /\ tasks'[r].answer = tasks[r].answer
          \/ tasks'[r].step = "done"
    \/ /\ tasks[r].step = "queued"
       /\ tasks'[r].step \in {"returned", "done"} /\ tasks'[r].answer # "done"

Rests == /\ \A r \in Requests : Idles(r)
         /\ UNCHANGED <<pipeline, disabled, completed, bindings, position>>
         /\ outdated' \subseteq outdated

LEMMA RestsRefused ==
    ASSUME IInv, Rests
    PROVE  NoneRefused' => NoneRefused
<1> SUFFICES ASSUME NEW r \in Requests, tasks[r].answer = "refused" PROVE tasks'[r].answer = "refused"
  BY DEF NoneRefused
<1>1. Idles(r)
  BY DEF Rests
<1>2. tasks[r].step \in {"returned", "done"}
  BY DEF IInv, SafeInv, AnswerInv
<1> QED BY <1>1, <1>2 DEF Idles, Resumes

LEMMA RestsWalk ==
    ASSUME OrderedInv, Rests
    PROVE  OrderInv' /\ WalkInv' /\ Promised
<1>0. /\ \A r \in Requests : Idles(r)
      /\ UNCHANGED <<pipeline, disabled, completed, bindings, position>>
  BY DEF Rests
<1>1. OrderInv'
  BY <1>0 DEF OrderedInv, OrderInv
<1>2. WalkInv /\ AnswerInv
  BY DEF OrderedInv, IInv, SafeInv
<1>3. NoneRefused' => NoneRefused
  BY RestsRefused DEF OrderedInv
<1>4. ASSUME NEW r \in Requests
      PROVE  /\ tasks'[r].step = "cleaning" => tasks'[r].type = "clean"
             /\ tasks'[r].step \in {"new", "queued"} => tasks'[r].answer = "none"
  <2>1. Idles(r)
    BY <1>0
  <2> QED BY <1>2, <2>1 DEF Idles, Resumes, WalkInv, WalkSteps
<1>5. ASSUME NEW r \in Requests, NoneRefused
      PROVE  /\ tasks'[r].step = "reaping" => position' = 0
             /\ tasks'[r].step \in WalkSteps /\ tasks'[r].quiet
                => Walked(tasks'[r].stage, position, completed, bindings)
  <2>1. Idles(r)
    BY <1>0
  <2> QED BY <1>0, <1>2, <1>5, <2>1 DEF Idles, Resumes, WalkInv, WalkSteps
<1>6. WalkInv'
  <2>1. \A s : Walked(s, position, completed, bindings) => Walked(s, position, completed, bindings)'
    BY <1>0 DEF Walked
  <2> QED BY <1>0, <1>3, <1>4, <1>5, <2>1 DEF WalkInv
<1>7. ASSUME NEW r \in Requests PROVE InOrderStep(r) /\ DoneStep(r) /\ EarlyStep(r)
  <2>1. Idles(r) /\ (tasks[r].step = "queued" => tasks[r].answer = "none")
    BY <1>0, <1>2 DEF WalkInv
  <2> QED BY <2>1 DEF Idles, Resumes, WalkSteps, InOrderStep, DoneStep, EarlyStep, Returns
<1> QED BY <1>1, <1>6, <1>7 DEF Promised

\* A change of the stages, after which no task that is started is quiet, and
\* the end of one, after which none is started.
Stirs(r) ==
    \/ /\ tasks'[r].type = tasks[r].type /\ tasks'[r].answer = tasks[r].answer
       /\ tasks'[r].stage = tasks[r].stage /\ tasks'[r].step = tasks[r].step
       /\ NoneRefused /\ tasks'[r].quiet => ~Started(r)
    \/ /\ tasks[r].step = "returned" /\ tasks'[r].step = "done"
       /\ tasks'[r].answer = tasks[r].answer

LEMMA StirsRefused ==
    ASSUME \A r \in Requests : Stirs(r)
    PROVE  NoneRefused' => NoneRefused
<1> SUFFICES ASSUME NEW r \in Requests, tasks[r].answer = "refused" PROVE tasks'[r].answer = "refused"
  BY DEF NoneRefused
<1> QED BY DEF Stirs

LEMMA StirsWalk ==
    ASSUME OrderedInv, \A r \in Requests : Stirs(r), UNCHANGED position
    PROVE  WalkInv' /\ Promised
<1>1. WalkInv
  BY DEF OrderedInv
<1>2. NoneRefused' => NoneRefused
  BY StirsRefused
<1>3. ASSUME NEW r \in Requests
      PROVE  /\ tasks'[r].step = "cleaning" => tasks'[r].type = "clean"
             /\ tasks'[r].step \in {"new", "queued"} => tasks'[r].answer = "none"
             /\ NoneRefused => /\ tasks'[r].step = "reaping" => position' = 0
                               /\ ~(tasks'[r].step \in WalkSteps /\ tasks'[r].quiet)
  <2>1. Stirs(r)
    OBVIOUS
  <2> QED BY <1>1, <2>1 DEF Stirs, WalkInv, WalkSteps, Started
<1>4. WalkInv'
  BY <1>2, <1>3 DEF WalkInv
<1>5. ASSUME NEW r \in Requests PROVE InOrderStep(r) /\ DoneStep(r) /\ EarlyStep(r)
  <2>1. Stirs(r) /\ (tasks[r].step = "queued" => tasks[r].answer = "none")
    BY <1>1 DEF WalkInv
  <2> QED BY <2>1 DEF Stirs, InOrderStep, DoneStep, EarlyStep, Returns
<1> QED BY <1>4, <1>5 DEF Promised

\* What lets the walk of a task alone.
LEMMA AsideRests ==
    ASSUME IInv, \/ UNCHANGED vars
                       \/ Load \/ Unready \/ Iterate \/ FlushNothing
                       \/ \E p \in Phases : RequestPhase(p)
    PROVE  Rests
<1>1. UNCHANGED <<pipeline, disabled, completed, bindings, position, outdated, tasks>>
  BY DEF vars, stageVars, runVars, Load, Unready, Iterate, FlushNothing, Flushing, RequestPhase
<1>2. \A r \in Requests : Idles(r)
  BY <1>1 DEF Idles
<1> QED BY <1>1, <1>2 DEF Rests

LEMMA CancelRests ==
    ASSUME IInv, NEW S, Cancel(S)
    PROVE  Rests
<1> DEFINE f(r) == [tasks[r] EXCEPT !.cancelled = TRUE]
<1>1. \A r \in Requests : tasks[r] \in Task
  BY DEF IInv, TypeOK, TaskType
<1>2. \A r \in Requests : /\ f(r).type = tasks[r].type /\ f(r).answer = tasks[r].answer
                          /\ f(r).stage = tasks[r].stage /\ f(r).quiet = tasks[r].quiet
                          /\ f(r).step = tasks[r].step
  BY <1>1 DEF Task
<1>3. tasks' = [r \in Requests |-> IF r \in S /\ (tasks[r].step = "queued" \/ Running(r))
                                   THEN f(r) ELSE tasks[r]]
  BY DEF Cancel
<1> HIDE DEF f
<1>4. \A r \in Requests : tasks'[r] = f(r) \/ tasks'[r] = tasks[r]
  BY <1>3
<1>5. \A r \in Requests : Idles(r)
  BY <1>2, <1>4 DEF Idles
<1>6. UNCHANGED <<pipeline, disabled, completed, bindings, position, outdated>>
  BY DEF Cancel, stageVars
<1> QED BY <1>5, <1>6 DEF Rests

LEMMA UnpauseRests ==
    ASSUME IInv, NEW s \in Stages, Unpause(s)
    PROVE  Rests
<1>1. UNCHANGED <<pipeline, disabled, completed, bindings, position>>
  BY DEF Unpause
<1>2. CASE UNCHANGED <<tasks, outdated>>
  BY <1>1, <1>2 DEF Rests, Idles
<1>3. ASSUME NEW t \in Requests, tasks[t].step = "paused",
             tasks[t].stage = s,
             Update(t, [tasks[t] EXCEPT !.step = IF s \in completed THEN "skipped" ELSE "building"], {}),
             outdated' = IF s \in completed THEN outdated
                         ELSE outdated \ Covered(s, tasks[t].jumped)
      PROVE  Rests
  <2> DEFINE step == IF s \in completed THEN "skipped" ELSE "building"
             new == [tasks[t] EXCEPT !.step = step]
  <2>1. step \in {"skipped", "building"} /\ TaskType /\ tasks[t] \in Task /\ {} \in SUBSET Requests
    BY DEF IInv, TypeOK, TaskType
  <2>2. Update(t, new, {})
    BY <1>3
  <2>a. /\ outdated' \subseteq outdated
        /\ IF step = "skipped" THEN s \in completed ELSE s \notin outdated'
    BY <1>3 DEF Covered
  <2> HIDE DEF step
  <2>3. /\ new \in Task /\ new.step = step /\ new.answer = tasks[t].answer
        /\ new.type = tasks[t].type /\ new.quiet = tasks[t].quiet /\ new.stage = tasks[t].stage
    BY <2>1 DEF Task, Step
  <2> HIDE DEF new
  <2>4. /\ tasks'[t] = new
        /\ \A r \in Requests \ {t} : tasks'[r] = tasks[r]
    BY <2>1, <2>2, <2>3, UpdateEffect
  <2>5. \A r \in Requests : Idles(r)
    <3> SUFFICES ASSUME NEW r \in Requests PROVE Idles(r)
      OBVIOUS
    <3>1. CASE r = t
      BY <1>3, <2>1, <2>a, <2>3, <2>4, <3>1 DEF Idles, Resumes
    <3>2. CASE r # t
      BY <2>4, <3>2 DEF Idles
    <3> QED BY <3>1, <3>2
  <2> QED BY <1>1, <2>a, <2>5 DEF Rests
<1> QED BY <1>2, <1>3 DEF Unpause

LEMMA RequestRests ==
    ASSUME IInv, NEW t \in Requests, Request(t)
    PROVE  Rests
<1>1. tasks \in [Requests -> Task] /\ tasks[t] \in Task /\ tasks[t].step = "new"
  BY DEF IInv, TypeOK, TaskType, Request
<1>2. UNCHANGED <<pipeline, disabled, completed, bindings, position, outdated>>
  BY DEF Request, stageVars
<1>3. \E type, phase, rest, answer : \/ Reply(t, type, phase, answer)
                                     \/ Enqueue(t, type, phase, rest)
  BY DEF Request, BuildAsync, CleanAsync, RebuildAsync
<1>4. PICK type, phase, rest, answer : \/ Reply(t, type, phase, answer)
                                       \/ Enqueue(t, type, phase, rest)
  BY <1>3
<1>5. ASSUME NEW new, tasks' = [tasks EXCEPT ![t] = new],
             new.step = "done" \/ (new.step = "queued" /\ new.answer = tasks[t].answer)
      PROVE  \A r \in Requests : Idles(r)
  <2>1. /\ tasks'[t] = new
        /\ \A r \in Requests \ {t} : tasks'[r] = tasks[r]
    BY <1>1, <1>5
  <2> SUFFICES ASSUME NEW r \in Requests PROVE Idles(r)
    OBVIOUS
  <2>2. CASE r = t
    BY <1>1, <1>5, <2>1, <2>2 DEF Idles
  <2>3. CASE r # t
    BY <2>1, <2>3 DEF Idles
  <2> QED BY <2>2, <2>3
<1>6. CASE Reply(t, type, phase, answer)
  <2> DEFINE new == [Finished(tasks[t], answer) EXCEPT !.type = type, !.phase = phase]
  <2>1. new.step = "done"
    BY <1>1 DEF Finished, Returned, Task
  <2>2. tasks' = [tasks EXCEPT ![t] = new]
    BY <1>6 DEF Reply
  <2> HIDE DEF new
  <2> QED BY <1>2, <1>5, <2>1, <2>2 DEF Rests
<1>7. CASE Enqueue(t, type, phase, rest)
  <2> DEFINE new == [tasks[t] EXCEPT !.type = type, !.phase = phase,
                                     !.step = "queued", !.rest = rest]
  <2>1. new.step = "queued" /\ new.answer = tasks[t].answer
    BY <1>1 DEF Task
  <2>2. tasks' = [tasks EXCEPT ![t] = new]
    BY <1>7 DEF Enqueue
  <2> HIDE DEF new
  <2> QED BY <1>2, <1>5, <2>1, <2>2 DEF Rests
<1> QED BY <1>4, <1>6, <1>7

LEMMA FlushFailsRests ==
    ASSUME IInv, FlushFails
    PROVE  Rests
<1> DEFINE f(r) == Finished(tasks[r], "error")
<1>1. \A r \in Requests : tasks[r] \in Task
  BY DEF IInv, TypeOK, TaskType
<1>2. \A r \in Requests : f(r).step = "done" /\ f(r).answer = "error"
  BY <1>1, FinishedType DEF Answers
<1>3. tasks' = [r \in Requests |-> IF tasks[r].step = "queued" THEN f(r) ELSE tasks[r]]
  BY DEF FlushFails
<1> HIDE DEF f
<1>4. \A r \in Requests : tasks'[r] = IF tasks[r].step = "queued" THEN f(r) ELSE tasks[r]
  BY <1>3
<1>5. \A r \in Requests : Idles(r)
  BY <1>2, <1>4 DEF Idles
<1>6. UNCHANGED <<pipeline, disabled, completed, bindings, position, outdated>>
  BY DEF FlushFails, Pops, Flushing
<1> QED BY <1>5, <1>6 DEF Rests

LEMMA FlushRefusesRests ==
    ASSUME IInv, FlushRefuses
    PROVE  Rests
<1> DEFINE t == Head(queue)
           new == Returned(tasks[t], "refused")
<1>1. /\ UNCHANGED <<pipeline, disabled, completed, bindings, position, outdated>>
      /\ queue # << >> /\ Update(t, new, {})
  BY DEF FlushRefuses, Pops, Flushing
<1>2. t \in Requests /\ tasks[t] \in Task /\ tasks[t].step = "queued" /\ TaskType /\ {} \in SUBSET Requests
  BY <1>1, HeadOfQueue DEF IInv, TypeOK
<1> HIDE DEF t
<1>3. new \in Task /\ new.step = "returned" /\ new.answer = "refused"
  BY <1>2, ReturnedType DEF Answers
<1> HIDE DEF new
<1>4. /\ tasks'[t] = new
      /\ \A r \in Requests \ {t} : tasks'[r] = tasks[r]
  BY <1>1, <1>2, <1>3, UpdateEffect
<1>5. \A r \in Requests : Idles(r)
  <2> SUFFICES ASSUME NEW r \in Requests PROVE Idles(r)
    OBVIOUS
  <2>1. CASE r = t
    BY <1>2, <1>3, <1>4, <2>1 DEF Idles
  <2>2. CASE r # t
    BY <1>4, <2>2 DEF Idles
  <2> QED BY <2>1, <2>2
<1> QED BY <1>1, <1>5 DEF Rests

\* No walk is under way when a task completes.
LEMMA CompleteStirs ==
    ASSUME IInv, NEW t \in Requests, Complete(t)
    PROVE  \A r \in Requests : Stirs(r)
<1> DEFINE new == [tasks[t] EXCEPT !.step = "done"]
<1>1. tasks \in [Requests -> Task] /\ tasks[t] \in Task /\ tasks[t].step = "returned"
  BY DEF IInv, TypeOK, TaskType, Complete
<1>2. new.step = "done" /\ new.answer = tasks[t].answer
  BY <1>1 DEF Task
<1>3. tasks' = [tasks EXCEPT ![t] = new]
  BY DEF Complete
<1> HIDE DEF new
<1>4. /\ tasks'[t] = new
      /\ \A r \in Requests \ {t} : tasks'[r] = tasks[r]
  BY <1>1, <1>3
<1>5. NoneRefused => \A r \in Requests \ {t} : ~Started(r)
  <2>1. Started(t)
    BY <1>1 DEF Started
  <2> QED BY <2>1 DEF IInv, SafeInv, OneAtATime
<1> SUFFICES ASSUME NEW r \in Requests PROVE Stirs(r)
  OBVIOUS
<1>6. CASE r = t
  BY <1>1, <1>2, <1>4, <1>6 DEF Stirs
<1>7. CASE r # t
  BY <1>4, <1>5, <1>7 DEF Stirs
<1> QED BY <1>6, <1>7

\* Stages are dropped then, which turns none round.
LEMMA CompleteWalk ==
    ASSUME OrderedInv, NEW t \in Requests, Complete(t)
    PROVE  OrderInv' /\ WalkInv' /\ Promised
<1> DEFINE S == Stages \ Transients
           R == Stages \ {Loaded[i] : i \in DOMAIN Loaded}
           kept == Keep(pipeline, S)
<1>1. IInv /\ pipeline \in Seq(Stages) /\ Ordered(pipeline, bindings)
  BY DEF OrderedInv, OrderInv, IInv, TypeOK, StageType
<1>2. UNCHANGED <<bindings, position>> /\ pipeline' \in {kept, Keep(kept, R)}
  BY DEF Complete, GoesOn
<1> HIDE DEF S, R
<1>3. kept \in Seq(Stages) /\ Ordered(kept, bindings)
  BY <1>1, KeepProperties, KeepOrdered
<1> HIDE DEF kept
<1>4. Ordered(Keep(kept, R), bindings)
  BY <1>3, KeepOrdered
<1>5. OrderInv'
  BY <1>2, <1>3, <1>4 DEF OrderInv
<1>6. \A r \in Requests : Stirs(r)
  BY <1>1, CompleteStirs
<1> QED BY <1>2, <1>5, <1>6, StirsWalk

\* Whoever changes the stages disturbs the task that runs.
LEMMA StirStirs ==
    ASSUME TaskType, Stir
    PROVE  \A r \in Requests : Stirs(r)
<1> DEFINE f(r) == [tasks[r] EXCEPT !.quiet = FALSE]
<1>1. \A r \in Requests : tasks[r] \in Task
  BY DEF TaskType
<1>2. \A r \in Requests : /\ f(r).type = tasks[r].type /\ f(r).answer = tasks[r].answer
                          /\ f(r).stage = tasks[r].stage /\ f(r).step = tasks[r].step
                          /\ f(r).quiet = FALSE
  BY <1>1 DEF Task
<1>3. tasks' = [r \in Requests |-> IF Started(r) THEN f(r) ELSE tasks[r]]
  BY DEF Stir
<1> HIDE DEF f
<1>4. \A r \in Requests : tasks'[r] = IF Started(r) THEN f(r) ELSE tasks[r]
  BY <1>3
<1> QED BY <1>2, <1>4 DEF Stirs

LEMMA ChangeWalk ==
    ASSUME OrderedInv, \/ \E s \in Stages : Attach(s) \/ Detach(s) \/ SetDisabled(s)
                       \/ \E p \in Phases : InvalidatePhase(p)
    PROVE  OrderInv' /\ WalkInv' /\ Promised
<1>1. Stir /\ UNCHANGED position
  BY DEF Attach, Detach, SetDisabled, InvalidatePhase
<1>2. pipeline \in Seq(Stages) /\ Ordered(pipeline, bindings) /\ TaskType
  BY DEF OrderedInv, OrderInv, IInv, TypeOK, StageType
<1>3. WalkInv' /\ Promised
  BY <1>1, <1>2, StirStirs, StirsWalk
<1>4. ASSUME NEW s \in Stages, Attach(s) PROVE OrderInv'
  <2>1. /\ pipeline' = Placed(pipeline, s)
        /\ bindings' = {l \in bindings : l[1] # s /\ l[2] # s}
        /\ s \notin InPipeline
    BY <1>4 DEF Attach
  <2>2. \A i \in DOMAIN pipeline : pipeline[i] # s
    BY <2>1 DEF InPipeline
  <2>3. Ordered(Placed(pipeline, s), {l \in bindings : l[1] # s /\ l[2] # s})
    BY <1>2, <2>2, PlacedOrdered
  <2> QED BY <2>1, <2>3 DEF OrderInv
<1>5. ASSUME NEW s \in Stages, Detach(s) PROVE OrderInv'
  <2> DEFINE S == Stages \ {s}
  <2>1. pipeline' = Keep(pipeline, S) /\ bindings' = bindings
    BY <1>5 DEF Detach
  <2> HIDE DEF S
  <2>2. Ordered(Keep(pipeline, S), bindings)
    BY <1>2, KeepOrdered
  <2> QED BY <2>1, <2>2 DEF OrderInv
<1>6. ASSUME UNCHANGED <<pipeline, bindings>> PROVE OrderInv'
  BY <1>2, <1>6 DEF OrderInv
<1>7. OrderInv'
  BY <1>4, <1>5, <1>6 DEF SetDisabled, InvalidatePhase
<1> QED BY <1>3, <1>7

LEMMA InitWalk == Init => OrderInv /\ WalkInv
<1> SUFFICES ASSUME Init PROVE OrderInv /\ WalkInv
  OBVIOUS
<1>1. pipeline = Loaded /\ bindings = {} /\ Loaded \in Seq(Stages) /\ DOMAIN Loaded \subseteq Nat
  BY StagesAssumption DEF Init
<1>2. Sorted(Loaded)
  BY LoadedAssumption DEF Sorted
<1>3. Injective(Loaded)
  <2> SUFFICES ASSUME NEW i \in DOMAIN Loaded, NEW j \in DOMAIN Loaded, Loaded[i] = Loaded[j] PROVE i = j
    BY DEF Injective
  <2>1. ~(i < j) /\ ~(j < i)
    BY LoadedAssumption
  <2> QED BY <1>1, <2>1
<1>4. ASSUME NEW m \in Nat PROVE Cut(Loaded, {}, m)
  <2> DEFINE C == {Loaded[k] : k \in {n \in DOMAIN Loaded : m <= n}}
  <2>1. C \in SUBSET Stages /\ Closed(C, {})
    BY <1>1 DEF Closed
  <2>2. \A k \in DOMAIN Loaded : Loaded[k] \in C <=> m <= k
    BY <1>3 DEF Injective
  <2> QED BY <2>1, <2>2 DEF Cut
<1>5. OrderInv
  BY <1>1, <1>2, <1>3, <1>4 DEF OrderInv, Ordered
<1>6. \A t \in Requests : tasks[t].step = "new" /\ tasks[t].answer = "none"
  BY DEF Init, NewTask
<1>7. WalkInv
  BY <1>6 DEF WalkInv, WalkSteps
<1> QED BY <1>5, <1>7

LEMMA StepWalk == OrderedInv /\ [Next]_vars => OrderedInv' /\ Promised
<1> SUFFICES ASSUME OrderedInv, [Next]_vars PROVE OrderedInv' /\ Promised
  OBVIOUS
<1>1. IInv'
  BY StepInv DEF OrderedInv
<1>2. OrderInv' /\ WalkInv' /\ Promised
  <2>1. CASE \/ UNCHANGED vars \/ Load \/ Unready \/ Iterate
             \/ \E p \in Phases : RequestPhase(p)
    BY <2>1, AsideRests, RestsWalk DEF OrderedInv
  <2>2. CASE Flush
    BY <2>2, AsideRests, FlushFailsRests, FlushRefusesRests, RestsWalk, FlushStartsWalk
       DEF Flush, OrderedInv
  <2>3. CASE \E t \in Requests : Request(t) \/ Complete(t) \/ StageBuilt(t) \/ StageCleaned(t) \/ Reaped(t)
    BY <2>3, RequestRests, RestsWalk, CompleteWalk, StageBuiltWalk, StageCleanedWalk, ReapedWalk
       DEF OrderedInv
  <2>4. CASE Cancel(Requests) \/ \E t \in Requests : Cancel({t})
    BY <2>4, CancelRests, RestsWalk DEF OrderedInv
  <2>5. CASE \E s \in Stages : Unpause(s)
    BY <2>5, UnpauseRests, RestsWalk DEF OrderedInv
  <2>6. CASE \/ \E s \in Stages : Attach(s) \/ Detach(s) \/ SetDisabled(s)
             \/ \E p \in Phases : InvalidatePhase(p)
    BY <2>6, ChangeWalk
  <2> QED BY <2>1, <2>2, <2>3, <2>4, <2>5, <2>6 DEF Next
<1> QED BY <1>1, <1>2 DEF OrderedInv

LEMMA AlwaysPromised == Spec => [][Promised]_vars
<1>1. Init => OrderedInv
  BY InitInv, InitWalk DEF OrderedInv
<1>2. OrderedInv /\ [Next]_vars => OrderedInv' /\ [Promised]_vars
  BY StepWalk
<1> QED BY <1>1, <1>2, PTL DEF Spec

\* While nobody changes the stages, a stage is started only when every enabled
\* one in front of it is complete, whatever was paused, chained and found up to
\* date on the way.
THEOREM StagesInOrder == Spec => InOrder
<1>1. [Promised]_vars => [\A t \in Requests : InOrderStep(t)]_vars
  BY DEF Promised
<1> QED BY <1>1, AlwaysPromised, PTL DEF InOrder, InOrderStep

\* The answer TRUE of a build is true: every enabled stage up to the phase it
\* asked for is complete at that moment, if nobody changed the stages meanwhile.
THEOREM DoneIsBuilt == Spec => DoneMeansBuilt
<1>1. [Promised]_vars => [\A t \in Requests : DoneStep(t)]_vars
  BY DEF Promised
<1> QED BY <1>1, AlwaysPromised, PTL DEF DoneMeansBuilt, DoneStep

\* The same for the queued builds that a walk completes as it passes them, for
\* the stages that walk was to execute.
THEOREM EarlyIsBuilt == Spec => EarlyMeansBuilt
<1>1. [Promised]_vars => [\A t \in Requests : EarlyStep(t)]_vars
  BY DEF Promised
<1> QED BY <1>1, AlwaysPromised, PTL DEF EarlyMeansBuilt, EarlyStep

-----------------------------------------------------------------------------
(***************************************************************************)
(* What is complete was built.  Two things break this, and both are the    *)
(* code's: a phase that is invalidated while its stage is built, and a     *)
(* binding that outlives the execution in which two stages were chained.   *)
(* Without either it holds until a build is refused, with whatever else    *)
(* happens to the stages.                                                  *)
(***************************************************************************)

\* A stage that is built has nothing left to answer for, and one that is passed
\* over needs nothing.
BuiltInv ==
    /\ bindings = {}
    /\ NoneRefused =>
          /\ completed \cap outdated = {}
          /\ \A t \in Requests :
                /\ tasks[t].step = "building" => tasks[t].stage \notin outdated
                /\ tasks[t].step = "skipped" => tasks[t].stage \in completed

\* Nothing but the stages that change notifies.
LEMMA Unbound ==
    ASSUME NEW S \in SUBSET Stages, NEW done \in SUBSET Stages
    PROVE  /\ WithCompleted(S, done, {}) = done \cup S
           /\ WithoutCompleted(S, done, {}) = done \ S
<1>1. ASSUME NEW out PROVE Notified(S, out, {}) = S \cap out
  <2>1. \A b : (\A C \in SUBSET out : S \cap out \subseteq C => b \in C) => b \in S \cap out
    OBVIOUS
  <2> QED BY <2>1 DEF Notified
<1> QED BY <1>1 DEF WithCompleted, WithoutCompleted

\* A step of t; when it is sound, what it leaves complete was built.
Ticked(t, sound) ==
    \E new \in Task, met \in SUBSET Requests :
       /\ Update(t, new, met) /\ bindings' = {}
       /\ sound => /\ completed' \cap outdated' = {}
                   /\ new.step = "building" => new.stage \notin outdated'
                   /\ new.step = "skipped" => new.stage \in completed'

LEMMA ExecuteBuilt ==
    ASSUME Chains = {}, TypeOK, NEW t \in Requests, NEW i \in DOMAIN pipeline, NEW met \in SUBSET Requests,
           NEW done \in SUBSET Stages, NEW dated, Execute(t, i, met, done, {}, dated)
    PROVE  Ticked(t, done \cap dated = {})
<1> DEFINE s == pipeline[i]
           chain == Chained(i, requested')
           joined == {pipeline[k] : k \in chain}
           bound == Bound(s, joined, {})
           task == [tasks[t] EXCEPT !.stage = s, !.jumped = @ \cup joined]
           New(step) == [task EXCEPT !.step = step]
<1>1. s \in Stages /\ tasks[t] \in Task /\ DOMAIN pipeline \subseteq Nat
  BY DEF TypeOK, StageType, TaskType
<1>2. chain = {}
  <2> SUFFICES ASSUME NEW k \in chain PROVE FALSE
    OBVIOUS
  <2>1. k \in DOMAIN pipeline /\ k > i /\ k <= k
    BY <1>1 DEF Chained
  <2> QED BY <2>1 DEF Chained
<1>3. joined = {} /\ bound = {}
  BY <1>2 DEF Bound
<1>4. bindings' = {}
  BY <1>3 DEF Execute
<1>5. task \in Task /\ task.stage = s
  <2> HIDE DEF s, joined
  <2> QED BY <1>1, <1>3 DEF Task
<1> HIDE DEF task
<1>6. \A step \in WalkSteps \cup {"pending"} :
         New(step) \in Task /\ New(step).step = step /\ New(step).stage = s
  BY <1>5 DEF Task, Step, WalkSteps
<1>7. CASE QueuedBuild(s)
  <2>1. Update(t, New("pending"), met) /\ completed' = done /\ outdated' = dated
    BY <1>7 DEF Execute, task
  <2> HIDE DEF New
  <2> QED BY <1>4, <1>6, <2>1 DEF Ticked
<1>8. CASE ~QueuedBuild(s)
  <2> DEFINE step(held) == IF held > 0 THEN "paused"
                           ELSE IF s \in completed' THEN "skipped" ELSE "building"
             upToDate(held) == IF step(held) = "building" THEN Covered(s, joined)
                               ELSE IF s \in Queried THEN {s} \cap completed' ELSE {}
  <2>1. /\ completed' \in Queries(s, done, bound)
        /\ \E held \in pauses[s]..MaxPauses :
              /\ outdated' = (dated \cup (done \ completed')) \ upToDate(held)
              /\ Update(t, New(step(held)), met)
    BY <1>8 DEF Execute, task
  <2>2. PICK held : /\ outdated' = (dated \cup (done \ completed')) \ upToDate(held)
                    /\ Update(t, New(step(held)), met)
    BY <2>1
  <2>3. /\ completed' \ done \subseteq {s}
        /\ s \notin Queried => completed' = done
    <3>1. {s} \in SUBSET Stages
      BY <1>1
    <3>2. WithCompleted({s}, done, {}) = done \cup {s} /\ WithoutCompleted({s}, done, {}) = done \ {s}
      BY <3>1, Unbound
    <3> HIDE DEF s, bound
    <3> QED BY <1>3, <2>1, <3>2 DEF Queries
  <2> DEFINE go == step(held)
             fresh == upToDate(held)
  <2>4. /\ go \in WalkSteps
        /\ go = "building" => s \in fresh /\ s \notin completed'
        /\ go = "skipped" => s \in completed'
        /\ go # "building" /\ s \in Queried => {s} \cap completed' \subseteq fresh
    BY DEF WalkSteps, Covered
  <2>5. /\ outdated' = (dated \cup (done \ completed')) \ fresh
        /\ Update(t, New(go), met)
    BY <2>2
  <2> HIDE DEF go, fresh, New, s
  <2>6. done \cap dated = {} => completed' \cap outdated' = {}
    BY <2>3, <2>4, <2>5
  <2>7. New(go) \in Task /\ New(go).step = go /\ New(go).stage = s
    BY <1>6, <2>4
  <2> QED BY <1>4, <2>4, <2>5, <2>6, <2>7 DEF Ticked
<1> QED BY <1>7, <1>8

LEMMA TickBuildBuilt ==
    ASSUME Chains = {}, TypeOK, NEW t \in Requests, NEW waiting \in Seq(Requests),
           NEW done \in SUBSET Stages, NEW pos \in Nat, NEW dated,
           TickBuild(t, waiting, done, {}, pos, dated)
    PROVE  Ticked(t, done \cap dated = {})
<1>1. tasks[t] \in Task /\ StageType
  BY DEF TypeOK, TaskType
<1>2. ASSUME NEW answer \in {"done", "error"}, NEW met \in SUBSET Requests,
             Update(t, Returned(tasks[t], answer), met),
             completed' = done, outdated' = dated, bindings' = {}
      PROVE  Ticked(t, done \cap dated = {})
  <2> DEFINE new == Returned(tasks[t], answer)
  <2>1. new \in Task /\ new.step = "returned"
    BY <1>1, ReturnedType DEF Answers
  <2>2. Update(t, new, met)
    BY <1>2
  <2> HIDE DEF new
  <2> QED BY <1>2, <2>1, <2>2 DEF Ticked
<1> DEFINE stops == Stops(pos, requested')
           last == IF stops = {} THEN Larger(pos, Len(pipeline)) + 1
                   ELSE CHOOSE i \in stops : \A j \in stops : i <= j
           met == Met(waiting, pos, last)
<1>3. \/ /\ \E answer \in {"done", "error"}, m \in {{}, met} : Update(t, Returned(tasks[t], answer), m)
         /\ completed' = done /\ bindings' = {} /\ outdated' = dated
      \/ stops # {} /\ Execute(t, last, met, done, {}, dated)
  BY DEF TickBuild
<1>4. met \in SUBSET Requests
  BY DEF Met
<1>5. stops # {} => last \in DOMAIN pipeline
  BY <1>1, FirstStop
<1> HIDE DEF stops, last, met
<1> QED BY <1>2, <1>3, <1>4, <1>5, ExecuteBuilt

\* A step of the only task that is started.
LEMMA TickedBuilt ==
    ASSUME TypeOK, NEW t \in Requests, NEW sound, Ticked(t, sound),
           NoneRefused => sound,
           NoneRefused => \A r \in Requests \ {t} : ~Started(r),
           NoneRefused' => NoneRefused
    PROVE  BuiltInv'
<1>1. PICK new \in Task, met \in SUBSET Requests :
         /\ Update(t, new, met) /\ bindings' = {}
         /\ sound => /\ completed' \cap outdated' = {}
                     /\ new.step = "building" => new.stage \notin outdated'
                     /\ new.step = "skipped" => new.stage \in completed'
  BY DEF Ticked
<1>2. /\ tasks'[t] = new
      /\ \A r \in Requests \ {t} : tasks'[r].step = "done" \/ tasks'[r] = tasks[r]
  BY <1>1, UpdateEffect DEF TypeOK
<1>3. ASSUME NoneRefused', NEW r \in Requests
      PROVE  /\ tasks'[r].step = "building" => tasks'[r].stage \notin outdated'
             /\ tasks'[r].step = "skipped" => tasks'[r].stage \in completed'
  <2>1. CASE r = t
    BY <1>1, <1>2, <1>3, <2>1
  <2>2. CASE r # t
    BY <1>2, <1>3, <2>2 DEF Started
  <2> QED BY <2>1, <2>2
<1> QED BY <1>1, <1>3 DEF BuiltInv

\* A tick of a clean, or a task that ends, leaves no stage complete that is
\* outdated.
LEMMA EndBuilt ==
    ASSUME TypeOK, NEW t \in Requests, NEW new \in Task, Update(t, new, {}),
           new.step \notin {"building", "skipped"}, bindings' = {},
           \/ completed' = completed /\ outdated' = outdated
           \/ completed' \subseteq completed /\ outdated' = outdated \cup (completed \ completed')
    PROVE  Ticked(t, completed \cap outdated = {})
<1>1. completed \cap outdated = {} => completed' \cap outdated' = {}
  OBVIOUS
<1>2. {} \in SUBSET Requests
  OBVIOUS
<1> QED BY <1>1, <1>2 DEF Ticked

LEMMA TickCleanBuilt ==
    ASSUME TypeOK, bindings = {}, NEW t \in Requests, NEW rest \in Seq(Stages), TickClean(t, rest)
    PROVE  Ticked(t, completed \cap outdated = {})
<1>1. tasks[t] \in Task /\ completed \in SUBSET Stages /\ bindings' = {}
  BY DEF TypeOK, TaskType, StageType, TickClean
<1>2. CASE rest = << >>
  <2> DEFINE new == Returned(tasks[t], "done")
  <2>1. new \in Task /\ new.step = "returned"
    BY <1>1, ReturnedType DEF Answers
  <2>2. Update(t, new, {}) /\ completed' = completed /\ outdated' = outdated
    BY <1>2 DEF TickClean
  <2> HIDE DEF new
  <2> QED BY <1>1, <2>1, <2>2, EndBuilt
<1>3. CASE rest # << >>
  <2> DEFINE s == rest[Len(rest)]
             new == [tasks[t] EXCEPT !.step = "cleaning", !.stage = s, !.rest = rest]
  <2>1. s \in Stages
    BY <1>3
  <2>2. Update(t, new, {}) /\ outdated' = outdated \cup (completed \ completed')
    BY <1>3 DEF TickClean
  <2>3. completed' \subseteq completed
    BY <1>3 DEF TickClean, WithoutCompleted
  <2> HIDE DEF s
  <2>4. new \in Task /\ new.step = "cleaning"
    BY <1>1, <2>1 DEF Task, Step
  <2> HIDE DEF new
  <2> QED BY <1>1, <2>2, <2>3, <2>4, EndBuilt
<1> QED BY <1>2, <1>3

LEMMA FlushStartsBuilt ==
    ASSUME Chains = {}, IInv, BuiltInv, FlushStarts
    PROVE  BuiltInv'
<1> DEFINE t == Head(queue)
           rest == Tail(queue)
<1>1. /\ t \in Requests /\ tasks[t] \in Task /\ rest \in Seq(Requests)
      /\ NoneRefused' => NoneRefused
      /\ NoneRefused => \A r \in Requests \ {t} : ~Started(r)
  BY HeadAlone
<1>2. \/ TickBuild(t, rest, completed, bindings, 0, outdated)
      \/ TickClean(t, tasks[t].rest)
      \/ TickRebuild(t)
  BY DEF FlushStarts
<1> HIDE DEF t, rest
<1>3. TypeOK /\ completed \in SUBSET Stages /\ bindings = {}
  BY DEF IInv, TypeOK, StageType, BuiltInv
<1> DEFINE sound == completed \cap outdated = {}
<1>4. NoneRefused => sound
  BY DEF BuiltInv
<1>5. Ticked(t, sound)
  <2>1. CASE TickBuild(t, rest, completed, bindings, 0, outdated)
    BY <1>1, <1>3, <2>1, TickBuildBuilt
  <2>2. CASE TickClean(t, tasks[t].rest)
    <3>1. tasks[t].rest \in Seq(Stages)
      BY <1>1 DEF Task
    <3> QED BY <1>1, <1>3, <2>2, <3>1, TickCleanBuilt
  <2>3. CASE TickRebuild(t)
    <3> DEFINE new == [tasks[t] EXCEPT !.step = "reaping"]
    <3>1. new \in Task /\ new.step = "reaping"
      BY <1>1 DEF Task, Step
    <3>2. /\ Update(t, new, {}) /\ bindings' = {}
          /\ completed' \subseteq completed /\ outdated' = outdated \cup (completed \ completed')
      BY <1>3, <2>3 DEF TickRebuild, WithoutCompleted
    <3> HIDE DEF new
    <3> QED BY <1>1, <1>3, <3>1, <3>2, EndBuilt
  <2> QED BY <1>2, <2>1, <2>2, <2>3
<1> HIDE DEF sound
<1> QED BY <1>1, <1>3, <1>4, <1>5, TickedBuilt

\* A stage that completes is not outdated: it was built, or was complete before.
LEMMA StageBuiltBuilt ==
    ASSUME Chains = {}, IInv, BuiltInv, NEW t \in Requests, StageBuilt(t)
    PROVE  BuiltInv'
<1>1. tasks[t].step \in {"building", "skipped", "pending"}
  BY DEF StageBuilt
<1>2. /\ TypeOK /\ completed \in SUBSET Stages /\ outdated \in SUBSET Stages /\ bindings = {}
      /\ queue \in Seq(Requests) /\ position \in Nat
  BY DEF IInv, TypeOK, StageType, TaskType, RunType, BuiltInv
<1>3. tasks[t] \in Task /\ Running(t)
  BY <1>1, <1>2 DEF TypeOK, TaskType, Running, Started
<1>4. Moves(t, queue) /\ tasks'[t].answer # "refused"
  BY StageBuiltEffect
<1>5. /\ NoneRefused' => NoneRefused
      /\ NoneRefused => \A r \in Requests \ {t} : ~Started(r)
  BY <1>3, <1>4, RunsAlone
<1> DEFINE s == tasks[t].stage
           good == WithCompleted({s}, completed, bindings)
           lost == WithoutCompleted({s}, completed, bindings)
           links == IF unbinds THEN {} ELSE bindings
<1>6. PICK ok \in Outcomes(t) :
         \/ /\ ok
            /\ TickBuild(t, queue, good, links, position, outdated \cup (completed \ good))
         \/ /\ Update(t, IF ok THEN [tasks[t] EXCEPT !.step = "lost"]
                         ELSE Returned(tasks[t], "error"), {})
            /\ completed' = lost /\ bindings' = links
            /\ outdated' = outdated \cup (completed \ lost)
  BY DEF StageBuilt
<1>7. links = {}
  BY <1>2
<1> HIDE DEF links
<1>8. CASE ok /\ TickBuild(t, queue, good, links, position, outdated \cup (completed \ good))
  <2>1. tasks[t].step # "pending"
    BY <1>6, <1>8 DEF Outcomes
  <2>2. NoneRefused => s \in completed \/ s \notin outdated
    BY <1>1, <2>1 DEF BuiltInv
  <2>3. completed \subseteq good /\ good \in SUBSET Stages /\ good \subseteq completed \cup {s}
    <3>0. completed \subseteq good
      BY DEF WithCompleted
    <3>1. \A r : WithCompleted({r}, completed, bindings) \in SUBSET Stages
      BY <1>2, CompletedType
    <3>2. good \subseteq completed \cup {s}
      <4>1. CASE s \in Stages
        <5>1. {s} \in SUBSET Stages
          BY <4>1
        <5> HIDE DEF s
        <5> QED BY <1>2, <5>1, Unbound
      <4>2. CASE s \notin Stages
        <5>1. good \in SUBSET Stages
          BY <3>1
        <5>2. Notified({s}, Stages \ completed, {}) \subseteq {}
          <6> HIDE DEF s
          <6> QED BY <4>2 DEF Notified
        <5> QED BY <1>2, <5>2 DEF WithCompleted
      <4> QED BY <4>1, <4>2
    <3>3. good \in SUBSET Stages
      BY <3>1
    <3> QED BY <3>0, <3>2, <3>3
  <2> DEFINE dated == outdated \cup (completed \ good)
             sound == good \cap dated = {}
  <2>4. NoneRefused => sound
    <3>1. NoneRefused => completed \cap outdated = {}
      BY DEF BuiltInv
    <3> HIDE DEF good, s
    <3> QED BY <2>2, <2>3, <3>1
  <2>5. TickBuild(t, queue, good, {}, position, dated)
    BY <1>7, <1>8
  <2>6. Ticked(t, sound)
    <3> HIDE DEF good, dated
    <3> QED BY <1>2, <2>3, <2>5, TickBuildBuilt
  <2> HIDE DEF sound
  <2> QED BY <1>2, <1>5, <2>4, <2>6, TickedBuilt
<1>9. CASE /\ Update(t, IF ok THEN [tasks[t] EXCEPT !.step = "lost"]
                        ELSE Returned(tasks[t], "error"), {})
           /\ completed' = lost /\ bindings' = links
           /\ outdated' = outdated \cup (completed \ lost)
  <2> DEFINE new == IF ok THEN [tasks[t] EXCEPT !.step = "lost"] ELSE Returned(tasks[t], "error")
             sound == completed \cap outdated = {}
  <2>1. /\ Update(t, new, {}) /\ bindings' = {}
        /\ completed' \subseteq completed /\ outdated' = outdated \cup (completed \ completed')
    BY <1>7, <1>9 DEF WithoutCompleted
  <2>2. new \in Task /\ new.step \in {"lost", "returned"}
    <3>1. CASE ok
      BY <1>3, <3>1 DEF Task, Step
    <3>2. CASE ~ok
      BY <1>3, <3>2, ReturnedType DEF Answers
    <3> QED BY <3>1, <3>2
  <2> HIDE DEF new
  <2>3. Ticked(t, sound)
    BY <1>2, <2>1, <2>2, EndBuilt
  <2>4. NoneRefused => sound
    BY DEF BuiltInv
  <2> HIDE DEF sound
  <2> QED BY <1>2, <1>5, <2>3, <2>4, TickedBuilt
<1> QED BY <1>6, <1>8, <1>9

LEMMA ReapedBuilt ==
    ASSUME Chains = {}, IInv, BuiltInv, NEW t \in Requests, Reaped(t)
    PROVE  BuiltInv'
<1>1. tasks[t].step = "reaping"
  BY DEF Reaped
<1>2. /\ TypeOK /\ completed \in SUBSET Stages /\ bindings = {}
      /\ queue \in Seq(Requests) /\ position \in Nat
  BY DEF IInv, TypeOK, StageType, TaskType, RunType, BuiltInv
<1>3. tasks[t] \in Task /\ Running(t)
  BY <1>1, <1>2 DEF TypeOK, TaskType, Running, Started
<1>4. Moves(t, queue) /\ tasks'[t].answer # "refused"
  BY ReapedEffect DEF Settles
<1>5. /\ NoneRefused' => NoneRefused
      /\ NoneRefused => \A r \in Requests \ {t} : ~Started(r)
  BY <1>3, <1>4, RunsAlone
<1> DEFINE sound == completed \cap outdated = {}
<1>6. NoneRefused => sound
  BY DEF BuiltInv
<1>7. Ticked(t, sound)
  <2>1. CASE TickBuild(t, queue, completed, bindings, position, outdated)
    BY <1>2, <2>1, TickBuildBuilt
  <2>2. CASE /\ \E answer \in {"done", "error"} : Update(t, Returned(tasks[t], answer), {})
             /\ UNCHANGED <<completed, bindings, outdated>>
    <3>1. PICK answer \in {"done", "error"} : Update(t, Returned(tasks[t], answer), {})
      BY <2>2
    <3> DEFINE new == Returned(tasks[t], answer)
    <3>2. new \in Task /\ new.step = "returned"
      BY <1>3, ReturnedType DEF Answers
    <3>3. Update(t, new, {})
      BY <3>1
    <3> HIDE DEF new
    <3> QED BY <1>2, <2>2, <3>2, <3>3, EndBuilt
  <2> QED BY <2>1, <2>2 DEF Reaped
<1> HIDE DEF sound
<1> QED BY <1>2, <1>5, <1>6, <1>7, TickedBuilt

LEMMA StageCleanedBuilt ==
    ASSUME IInv, BuiltInv, NEW t \in Requests, StageCleaned(t)
    PROVE  BuiltInv'
<1>1. tasks[t].step = "cleaning"
  BY DEF StageCleaned
<1>2. TypeOK /\ bindings = {}
  BY DEF IInv, BuiltInv
<1>3. tasks[t] \in Task /\ Running(t)
  BY <1>1, <1>2 DEF TypeOK, TaskType, Running, Started
<1>4. Moves(t, queue) /\ tasks'[t].answer # "refused"
  BY StageCleanedEffect DEF Settles
<1>5. /\ NoneRefused' => NoneRefused
      /\ NoneRefused => \A r \in Requests \ {t} : ~Started(r)
  BY <1>3, <1>4, RunsAlone
<1> DEFINE sound == completed \cap outdated = {}
<1>6. NoneRefused => sound
  BY DEF BuiltInv
<1>7. Ticked(t, sound)
  <2>1. CASE TickClean(t, SubSeq(tasks[t].rest, 1, Len(tasks[t].rest) - 1))
    <3> DEFINE rest == SubSeq(tasks[t].rest, 1, Len(tasks[t].rest) - 1)
    <3>1. tasks[t].rest \in Seq(Stages)
      BY <1>3 DEF Task
    <3>2. rest \in Seq(Stages) /\ TickClean(t, rest)
      BY <2>1, <3>1
    <3> HIDE DEF rest
    <3> QED BY <1>2, <3>2, TickCleanBuilt
  <2>2. CASE Update(t, Returned(tasks[t], "error"), {}) /\ UNCHANGED <<completed, outdated, bindings>>
    <3> DEFINE new == Returned(tasks[t], "error")
    <3>1. new \in Task /\ new.step = "returned"
      BY <1>3, ReturnedType DEF Answers
    <3>2. Update(t, new, {})
      BY <2>2
    <3> HIDE DEF new
    <3> QED BY <1>2, <2>2, <3>1, <3>2, EndBuilt
  <2> QED BY <2>1, <2>2 DEF StageCleaned
<1> HIDE DEF sound
<1> QED BY <1>2, <1>5, <1>6, <1>7, TickedBuilt

LEMMA RestsBuilt ==
    ASSUME IInv, BuiltInv, Rests
    PROVE  BuiltInv'
<1>1. NoneRefused' => NoneRefused
  BY RestsRefused
<1>2. /\ \A r \in Requests : Idles(r)
      /\ UNCHANGED <<completed, bindings>> /\ outdated' \subseteq outdated
  BY DEF Rests
<1>3. ASSUME NoneRefused, NEW r \in Requests
      PROVE  /\ tasks'[r].step = "building" => tasks'[r].stage \notin outdated'
             /\ tasks'[r].step = "skipped" => tasks'[r].stage \in completed'
  <2>1. Idles(r)
    BY <1>2
  <2> QED BY <1>2, <1>3, <2>1 DEF Idles, Resumes, BuiltInv
<1> QED BY <1>1, <1>2, <1>3 DEF BuiltInv

\* A stage that is attached is not one that is built.
LEMMA StirsBuilt ==
    ASSUME BuiltInv, \A r \in Requests : Stirs(r), bindings' = {},
           \/ UNCHANGED <<completed, outdated>>
           \/ \E s \in Stages : /\ completed' = completed \ {s} /\ outdated' = outdated \cup {s}
                                /\ \A r \in Requests : tasks[r].stage # s
    PROVE  BuiltInv'
<1>1. NoneRefused' => NoneRefused
  BY StirsRefused
<1>2. ASSUME NoneRefused, NEW r \in Requests
      PROVE  /\ tasks'[r].step = "building" => tasks'[r].stage \notin outdated'
             /\ tasks'[r].step = "skipped" => tasks'[r].stage \in completed'
  <2>1. Stirs(r)
    OBVIOUS
  <2> QED BY <1>2, <2>1 DEF Stirs, BuiltInv
<1>3. NoneRefused => completed' \cap outdated' = {}
  BY DEF BuiltInv
<1> QED BY <1>1, <1>2, <1>3 DEF BuiltInv

LEMMA StepBuilt ==
    ASSUME Chains = {}, "invalidate" \notin Changes, IInv, BuiltInv, [Next]_vars
    PROVE  BuiltInv'
<1>1. CASE Rests
  BY <1>1, RestsBuilt
<1>2. CASE \/ UNCHANGED vars \/ Load \/ Unready \/ Iterate
           \/ \E p \in Phases : RequestPhase(p)
  BY <1>1, <1>2, AsideRests
<1>3. CASE Flush
  BY <1>1, <1>3, AsideRests, FlushFailsRests, FlushRefusesRests, FlushStartsBuilt DEF Flush
<1>4. CASE \E t \in Requests : StageBuilt(t) \/ StageCleaned(t) \/ Reaped(t)
  BY <1>4, StageBuiltBuilt, StageCleanedBuilt, ReapedBuilt
<1>5. CASE \E t \in Requests : Request(t)
  BY <1>1, <1>5, RequestRests
<1>6. CASE Cancel(Requests) \/ \E t \in Requests : Cancel({t})
  BY <1>1, <1>6, CancelRests
<1>7. CASE \E s \in Stages : Unpause(s)
  BY <1>1, <1>7, UnpauseRests
<1>8. ASSUME NEW t \in Requests, Complete(t) PROVE BuiltInv'
  <2>1. UNCHANGED <<completed, outdated, bindings>>
    BY <1>8 DEF Complete
  <2>2. bindings' = {}
    BY <2>1 DEF BuiltInv
  <2>3. \A r \in Requests : Stirs(r)
    BY <1>8, CompleteStirs
  <2> QED BY <2>1, <2>2, <2>3, StirsBuilt
<1>9. ASSUME NEW s \in Stages, Attach(s) \/ Detach(s) \/ SetDisabled(s) PROVE BuiltInv'
  <2>1. Stir /\ TaskType
    BY <1>9 DEF Attach, Detach, SetDisabled, IInv, TypeOK
  <2>2. \A r \in Requests : Stirs(r)
    BY <2>1, StirStirs
  <2>3. /\ bindings' = {}
        /\ \/ UNCHANGED <<completed, outdated>>
           \/ /\ completed' = completed \ {s} /\ outdated' = outdated \cup {s}
              /\ \A r \in Requests : tasks[r].stage # s
    BY <1>9 DEF Attach, Detach, SetDisabled, BuiltInv
  <2> QED BY <2>2, <2>3, StirsBuilt
<1>10. \A p \in Phases : ~InvalidatePhase(p)
  BY DEF InvalidatePhase
<1> QED BY <1>2, <1>3, <1>4, <1>5, <1>6, <1>7, <1>8, <1>9, <1>10 DEF Next

\* In a pipeline without chained stages, and while no phase is invalidated, a
\* stage that is complete was started, or found up to date, since it was last
\* incomplete, until a build is refused.
THEOREM CompletedIsBuilt ==
    ASSUME Chains = {}, "invalidate" \notin Changes
    PROVE  Spec => []CompletedMeansBuilt
<1>1. Init => IInv /\ BuiltInv
  <2>1. Init => BuiltInv
    BY DEF Init, NewTask, BuiltInv
  <2> QED BY <2>1, InitInv
<1>2. IInv /\ BuiltInv /\ [Next]_vars => (IInv /\ BuiltInv)'
  BY StepInv, StepBuilt
<1>3. IInv /\ BuiltInv => CompletedMeansBuilt
  BY DEF BuiltInv, CompletedMeansBuilt
<1> QED BY <1>1, <1>2, <1>3, PTL DEF Spec

=============================================================================

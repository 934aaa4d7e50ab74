--------------------------- MODULE ManagerProofs ---------------------------
(***************************************************************************)
(* TLAPS proofs about BuildManager and RunManager, for every set of builds *)
(* and runs and any number of pipelines.                                   *)
(***************************************************************************)
EXTENDS RunManager, SharedLemmas

-----------------------------------------------------------------------------
(***************************************************************************)
(* The inductive invariant of the build manager.                           *)
(***************************************************************************)

\* The manager has a pipeline from its start to its end, the last one made.
LifeInv ==
    /\ pipeline <= made
    /\ life = "new" => made = 0 /\ ~canBuild /\ ~building
    /\ life = "started" => pipeline = made /\ pipeline # 0

\* A request was made for a pipeline there has been, and has no result before
\* it is made.
PipeInv ==
    \A b \in Builds : /\ builds[b].pipe <= made
                      /\ builds[b].step \notin {"new", "left"} => builds[b].pipe # 0
                      /\ builds[b].result # "none" => builds[b].step # "new"

\* A pipeline's queue has requests for it that are queued, each once.
LineInv ==
    \A p \in Pipelines :
        /\ Injective(queue[p])
        /\ \A i \in DOMAIN queue[p] : /\ builds[queue[p][i]].pipe = p
                                      /\ builds[queue[p][i]].step = "queued"

\* The build has been taken from its queue and has not completed.
AtWork == {"running", "lost", "done", "error", "refused"}

\* Until a build is refused, a pipeline is at work on one build, and busy.
WorkInv ==
    ~refused => \A b \in Builds : builds[b].step \in AtWork =>
        /\ busy[builds[b].pipe]
        /\ \A c \in Builds : /\ builds[c].step \in AtWork
                             /\ builds[c].pipe = builds[b].pipe
                             => c = b

\* A request that waits for its answer is cancelled, or chained to the
\* manager and made for the pipeline of now.
WaitInv ==
    \A b \in Builds : builds[b].step # "new" /\ builds[b].answer = "none" =>
        b \in cancelled \/ (b \in chained /\ builds[b].pipe = pipeline)

BuildInv ==
    /\ BuildTypeOK /\ LifeInv /\ PipeInv /\ LineInv /\ WorkInv /\ WaitInv
    /\ CanBuildIsSetUp /\ BuildingIsReal

USE BuildManagerAssumption DEF Pipelines

LEMMA OccupiesWork ==
    ASSUME NEW b
    PROVE  Occupies(b) <=> builds[b].pipe = made /\ builds[b].step \in AtWork
BY DEF Occupies, AtWork, Outcomes

LEMMA BuildStart == BuildInit => BuildInv
<1> SUFFICES ASSUME BuildInit PROVE BuildInv
  OBVIOUS
<1> USE DEF BuildInit
<1>1. << >> \in Seq(Builds) /\ Len(<< >>) = 0
  OBVIOUS
<1>2. BuildTypeOK
  <2>1. builds \in [Builds -> Build]
    BY DEF Build, Results, Outcomes
  <2>2. queue \in [Pipelines -> Seq(Builds)]
    BY <1>1
  <2>3. busy \in [Pipelines -> BOOLEAN] /\ failed \in [Pipelines -> BOOLEAN]
    OBVIOUS
  <2>4. setup \in [Pipelines -> {"none", "device", "runtime", "toolchain",
                                "failed", "initialized", "loaded"}]
        /\ strategy \in [Pipelines -> {"none", "loading", "ready", "lost"}]
    OBVIOUS
  <2>5. canBuild \in BOOLEAN /\ building \in BOOLEAN /\ timer \in BOOLEAN /\ refused \in BOOLEAN
    BY Zenon
  <2> HIDE DEF BuildInit, Pipelines
  <2>6. life = "new" /\ pipeline = 0 /\ made = 0 /\ cancelled = {} /\ chained = {}
    BY DEF BuildInit
  <2> QED BY <2>1, <2>2, <2>3, <2>4, <2>5, <2>6 DEF BuildTypeOK
<1>3. LifeInv /\ PipeInv /\ WorkInv /\ WaitInv
  BY DEF LifeInv, PipeInv, WorkInv, WaitInv, AtWork
<1>4. LineInv
  BY DEF LineInv, Injective
<1>5. CanBuildIsSetUp /\ BuildingIsReal
  BY OccupiesWork DEF CanBuildIsSetUp, BuildingIsReal, AtWork
<1> QED BY <1>2, <1>3, <1>4, <1>5 DEF BuildInv

-----------------------------------------------------------------------------
(***************************************************************************)
(* The pipeline is replaced.                                               *)
(***************************************************************************)

\* Whoever waited is cancelled.
LEMMA AllCancelled ==
    ASSUME BuildInv, CancelAll, builds' = builds
    PROVE  WaitInv' /\ cancelled' \in SUBSET Builds /\ chained' = {}
BY DEF BuildInv, BuildTypeOK, WaitInv, CancelAll

\* Neither the time nor the strategy of a pipeline outlives it.
LEMMA DiscardTypes ==
    ASSUME BuildInv, Discard
    PROVE  building' = FALSE /\ timer' = FALSE
           /\ building' \in BOOLEAN /\ timer' \in BOOLEAN
           /\ strategy' \in [Pipelines -> {"none", "loading", "ready", "lost"}]
<1>1. building' = FALSE /\ timer' = FALSE
  BY DEF Discard, BuildInv, BuildingIsReal
<1>2. strategy \in [Pipelines -> {"none", "loading", "ready", "lost"}]
  BY DEF BuildInv, BuildTypeOK
<1>3. strategy' \in [Pipelines -> {"none", "loading", "ready", "lost"}]
  BY <1>2 DEF Discard
<1>4. building' \in BOOLEAN /\ timer' \in BOOLEAN
  BY <1>1, Zenon
<1> QED BY <1>1, <1>3, <1>4

LEMMA InvalidateInv == ASSUME BuildInv, Invalidate PROVE BuildInv'
<1> USE DEF Invalidate, Discard, BuildInv
<1>1. UNCHANGED <<life, builds, queue, busy, failed, refused>> /\ life = "started"
  BY DEF pipelineVars
<1>2. WaitInv' /\ cancelled' \in SUBSET Builds /\ chained' = {}
  BY <1>1, AllCancelled
<1>3. made' \in Pipelines /\ made' = made + 1 /\ pipeline' = made' /\ made \in Nat
  BY DEF BuildTypeOK
<1>4. BuildTypeOK'
  <2>1. building' \in BOOLEAN /\ timer' \in BOOLEAN
        /\ strategy' \in [Pipelines -> {"none", "loading", "ready", "lost"}]
    BY DiscardTypes
  <2>4. canBuild' \in BOOLEAN
    BY Zenon
  <2>2. setup' \in [Pipelines -> {"none", "device", "runtime", "toolchain",
                                 "failed", "initialized", "loaded"}]
    BY <1>3 DEF BuildTypeOK
  <2>3. BuildTypeOK
    OBVIOUS
  <2> HIDE DEF Invalidate, Discard, BuildInv, Pipelines
  <2> QED BY <1>1, <1>2, <1>3, <2>1, <2>2, <2>3, <2>4 DEF BuildTypeOK, Pipelines
<1>5. LifeInv' /\ PipeInv'
  BY <1>1, <1>3 DEF LifeInv, PipeInv, BuildTypeOK, Build
<1>6. LineInv'
  BY <1>1 DEF LineInv, Injective
<1>7. WorkInv'
  BY <1>1 DEF WorkInv
<1>8. CanBuildIsSetUp'
  BY DEF CanBuildIsSetUp
<1>9. BuildingIsReal'
  <2>1. building' = FALSE /\ timer' = FALSE
    BY DEF BuildingIsReal
  <2>2. \A b \in Builds : ~(builds'[b].pipe = made')
    BY <1>1, <1>3 DEF PipeInv, BuildTypeOK, Build
  <2> QED BY <2>1, <2>2 DEF BuildingIsReal, Occupies
<1> QED BY <1>2, <1>4, <1>5, <1>6, <1>7, <1>8, <1>9

LEMMA CloseInv == ASSUME BuildInv, Close PROVE BuildInv'
<1> USE DEF Close, Discard, BuildInv
<1>1. UNCHANGED <<made, canBuild, setup, builds, queue, busy, failed, refused>> /\ life' = "closed"
  BY DEF pipelineVars
<1>2. WaitInv' /\ cancelled' \in SUBSET Builds /\ chained' = {}
  BY <1>1, AllCancelled
<1>3. BuildTypeOK'
  <2>1. building' \in BOOLEAN /\ timer' \in BOOLEAN
        /\ strategy' \in [Pipelines -> {"none", "loading", "ready", "lost"}]
    BY DiscardTypes
  <2>2. BuildTypeOK /\ pipeline' = 0
    OBVIOUS
  <2> HIDE DEF Close, Discard, BuildInv, Pipelines
  <2> QED BY <1>1, <1>2, <2>1, <2>2 DEF BuildTypeOK
<1>4. LifeInv' /\ PipeInv'
  BY <1>1 DEF LifeInv, PipeInv, BuildTypeOK
<1>5. LineInv'
  BY <1>1 DEF LineInv, Injective
<1>6. WorkInv'
  BY <1>1 DEF WorkInv
<1>7. CanBuildIsSetUp' /\ BuildingIsReal'
  <2>1. building' = FALSE /\ timer' = FALSE
    BY DiscardTypes
  <2> QED BY <1>1, <2>1 DEF CanBuildIsSetUp, BuildingIsReal
<1> QED BY <1>2, <1>3, <1>4, <1>5, <1>6, <1>7

LEMMA StartManagerInv == ASSUME BuildInv, StartManager PROVE BuildInv'
<1> USE DEF StartManager, BuildInv
<1>1. /\ UNCHANGED <<canBuild, building, timer, strategy, builds, queue, busy, failed, refused>>
      /\ life = "new" /\ life' = "started"
  BY DEF pipelineVars
<1>2. WaitInv' /\ cancelled' \in SUBSET Builds /\ chained' = {}
  BY <1>1, AllCancelled
<1>3. made = 0 /\ made' = 1 /\ pipeline' = 1 /\ 1 \in Pipelines /\ ~canBuild /\ ~building
  BY <1>1 DEF LifeInv, BuildTypeOK
<1>4. BuildTypeOK'
  <2>1. setup' \in [Pipelines -> {"none", "device", "runtime", "toolchain",
                                 "failed", "initialized", "loaded"}]
    BY <1>3 DEF BuildTypeOK
  <2> QED BY <1>1, <1>2, <1>3, <2>1 DEF BuildTypeOK
<1>5. LifeInv' /\ PipeInv'
  BY <1>1, <1>3 DEF LifeInv, PipeInv, BuildTypeOK, Build
<1>6. LineInv'
  BY <1>1 DEF LineInv, Injective
<1>7. WorkInv'
  BY <1>1 DEF WorkInv
<1>8. CanBuildIsSetUp'
  BY <1>1, <1>3 DEF CanBuildIsSetUp
<1>9. BuildingIsReal'
  <2>1. \A b \in Builds : ~(builds'[b].pipe = made')
    BY <1>1, <1>3 DEF PipeInv, BuildTypeOK, Build
  <2> QED BY <1>1, <1>3, <2>1 DEF BuildingIsReal, Occupies
<1> QED BY <1>2, <1>4, <1>5, <1>6, <1>7, <1>8, <1>9

LEMMA CancelBuildsInv == ASSUME BuildInv, CancelBuilds PROVE BuildInv'
<1> USE DEF CancelBuilds, BuildInv
<1>1. UNCHANGED <<life, pipeline, made, canBuild, building, timer, setup, builds,
                  queue, busy, failed, refused>>
  BY DEF pipelineVars, managerVars
<1>2. WaitInv' /\ cancelled' \in SUBSET Builds /\ chained' = {}
  BY <1>1, AllCancelled
<1>3. BuildTypeOK'
  BY <1>1, <1>2 DEF BuildTypeOK, StrategyCancelled
<1>4. LifeInv' /\ PipeInv'
  BY <1>1 DEF LifeInv, PipeInv
<1>5. LineInv'
  BY <1>1 DEF LineInv, Injective
<1>6. WorkInv'
  BY <1>1 DEF WorkInv
<1>7. CanBuildIsSetUp' /\ BuildingIsReal'
  BY <1>1 DEF CanBuildIsSetUp, BuildingIsReal, Occupies
<1> QED BY <1>2, <1>3, <1>4, <1>5, <1>6, <1>7

-----------------------------------------------------------------------------
(***************************************************************************)
(* The setup of a pipeline.                                                *)
(***************************************************************************)

\* The steps that set a pipeline up leave the requests alone.
LEMMA SetupMoves ==
    ASSUME BuildInv, NEW p \in Pipelines, SetupStep(p) \/ Load(p) \/ StrategyLoaded(p)
    PROVE  BuildInv'
<1> USE DEF BuildInv
<1>1. UNCHANGED <<life, pipeline, made, building, timer, builds, cancelled, chained,
                  queue, busy, failed, refused>>
  BY DEF SetupStep, Load, StrategyLoaded, cancelVars, pipelineVars, managerVars
<1>2. BuildTypeOK'
  <2> DEFINE Setups == {"none", "device", "runtime", "toolchain", "failed", "initialized", "loaded"}
             Strategies == {"none", "loading", "ready", "lost"}
  <2>1. setup \in [Pipelines -> Setups] /\ strategy \in [Pipelines -> Strategies] /\ canBuild \in BOOLEAN
    BY DEF BuildTypeOK
  <2>2. setup' \in [Pipelines -> Setups] /\ strategy' \in [Pipelines -> Strategies]
    <3>1. CASE SetupStep(p)
      BY <2>1, <3>1 DEF SetupStep, SettingUp, NextStep
    <3>2. CASE Load(p) \/ StrategyLoaded(p)
      BY <2>1, <3>2 DEF Load, StrategyLoaded
    <3> QED BY <3>1, <3>2
  <2>3. canBuild' \in BOOLEAN
    BY <2>1 DEF SetupStep, Load, StrategyLoaded, managerVars
  <2> HIDE DEF Pipelines
  <2> QED BY <1>1, <2>2, <2>3 DEF BuildTypeOK
<1>3. LifeInv'
  <2>1. canBuild' => canBuild \/ pipeline = p
    BY DEF SetupStep, Load, StrategyLoaded, StillCurrent, managerVars
  <2>2. life = "new" => pipeline = 0
    BY DEF LifeInv, BuildTypeOK
  <2> QED BY <1>1, <2>1, <2>2 DEF LifeInv
<1>4. PipeInv' /\ WorkInv' /\ WaitInv'
  BY <1>1 DEF PipeInv, WorkInv, WaitInv
<1>5. LineInv'
  BY <1>1 DEF LineInv, Injective
<1>6. CanBuildIsSetUp'
  <2> SUFFICES ASSUME canBuild', life = "started"
               PROVE  pipeline # 0 /\ setup'[pipeline] \in {"initialized", "loaded"}
    BY <1>1 DEF CanBuildIsSetUp
  <2>1. pipeline \in Pipelines
    BY DEF LifeInv, BuildTypeOK
  <2>2. CASE SetupStep(p)
    <3>1. CASE pipeline = p
      <4>1. setup' = [setup EXCEPT ![p] = NextStep[@]] \/ (setup'[p] = "failed" /\ canBuild' = canBuild)
        BY <2>1, <2>2, <3>1 DEF SetupStep, BuildTypeOK
      <4>2. setup[p] \in {"device", "runtime", "toolchain"} /\ ~canBuild
        BY <2>2, <3>1 DEF SetupStep, SettingUp, CanBuildIsSetUp
      <4>3. setup[p] = "toolchain" /\ setup'[p] = "initialized"
        <5>1. canBuild' => canBuild \/ (setup[p] = "toolchain" /\ setup' = [setup EXCEPT ![p] = NextStep[@]])
          BY <2>2, Zenon DEF SetupStep
        <5> QED BY <5>1, <4>2, <2>1, <3>1 DEF BuildTypeOK, NextStep
      <4> QED BY <2>1, <3>1, <4>3
    <3>2. CASE pipeline # p
      <4>1. canBuild' = canBuild /\ setup'[pipeline] = setup[pipeline]
        BY <2>1, <2>2, <3>2 DEF SetupStep, BuildTypeOK, StillCurrent
      <4> QED BY <2>1, <4>1 DEF CanBuildIsSetUp
    <3> QED BY <3>1, <3>2
  <2>3. CASE Load(p) \/ StrategyLoaded(p)
    BY <2>1, <2>3 DEF Load, StrategyLoaded, CanBuildIsSetUp, BuildTypeOK, managerVars
  <2> QED BY <2>2, <2>3
<1>7. BuildingIsReal'
  BY <1>1 DEF BuildingIsReal, Occupies
<1> QED BY <1>2, <1>3, <1>4, <1>5, <1>6, <1>7

-----------------------------------------------------------------------------
(***************************************************************************)
(* Requests.                                                               *)
(***************************************************************************)

LEMMA LeftEffect ==
    ASSUME NEW build \in Build, NEW x \in Outcomes
    PROVE  /\ Left(build, x) \in Build
           /\ Left(build, x).step = "left" /\ Left(build, x).told = x
           /\ Left(build, x).pipe = build.pipe
           /\ Left(build, x).answer = build.answer
           /\ Left(build, x).configures = build.configures
<1> DEFINE y == IF x = "done" THEN "done" ELSE "error"
<1>1. Resolved(build, y) \in Build
  BY DEF Resolved, Build, Results
<1>2. /\ Resolved(build, y).pipe = build.pipe /\ Resolved(build, y).answer = build.answer
      /\ Resolved(build, y).configures = build.configures
  BY DEF Resolved, Build
<1>3. Left(build, x) = [Resolved(build, y) EXCEPT !.step = "left", !.told = x]
  BY DEF Left
<1> HIDE DEF y
<1> QED BY <1>1, <1>2, <1>3 DEF Build

\* A request moves while the pipelines stay as they are, or it joins a queue.
LEMMA RequestMoves ==
    ASSUME BuildInv, NEW b \in Builds, NEW build \in Build,
           builds' = [builds EXCEPT ![b] = build],
           UNCHANGED <<managerVars, setupVars, cancelled, busy, failed, refused>>,
           chained \subseteq chained', chained' \subseteq Builds,
           builds[b].step \in {"new", "prepared"},
           build.pipe <= made,
           build.answer = "none" => b \in cancelled \/ (b \in chained' /\ build.pipe = pipeline),
           \/ queue' = queue /\ build.step = "left"
           \/ queue' = queue /\ build.step = "prepared" /\ build.pipe # 0
           \/ /\ build.step = "queued" /\ build.pipe # 0
              /\ queue' = [queue EXCEPT ![build.pipe] = Append(@, b)]
    PROVE  BuildInv'
<1> USE DEF BuildInv
<1>1. UNCHANGED <<life, pipeline, made, canBuild, building, timer, setup, strategy>>
  BY DEF managerVars, setupVars
<1>2. /\ builds \in [Builds -> Build] /\ queue \in [Pipelines -> Seq(Builds)]
      /\ builds'[b] = build /\ \A c \in Builds : c # b => builds'[c] = builds[c]
      /\ builds' \in [Builds -> Build]
  BY DEF BuildTypeOK
<1>3. build.step \notin AtWork /\ builds[b].step \notin AtWork
  BY DEF AtWork
<1>4. build.pipe # 0 => build.pipe \in Pipelines
  BY DEF Build, BuildTypeOK
<1>5. queue' \in [Pipelines -> Seq(Builds)]
  <2> HIDE DEF Pipelines
  <2>1. CASE queue' = queue
    BY <1>2, <2>1
  <2>2. CASE queue' = [queue EXCEPT ![build.pipe] = Append(@, b)] /\ build.pipe # 0
    <3>1. Append(queue[build.pipe], b) \in Seq(Builds)
      BY <1>2, <1>4, <2>2
    <3> QED BY <1>2, <2>2, <3>1
  <2> QED BY <2>1, <2>2
<1>6. BuildTypeOK'
  <2> HIDE DEF Pipelines
  <2> QED BY <1>1, <1>2, <1>5 DEF BuildTypeOK
<1>7. LifeInv' /\ PipeInv'
  BY <1>1, <1>2 DEF LifeInv, PipeInv
<1>8. LineInv'
  <2> SUFFICES ASSUME NEW p \in Pipelines
               PROVE  /\ Injective(queue'[p])
                      /\ \A i \in DOMAIN queue'[p] : /\ builds'[queue'[p][i]].pipe = p
                                                     /\ builds'[queue'[p][i]].step = "queued"
    BY DEF LineInv
  <2>1. /\ queue[p] \in Seq(Builds) /\ Injective(queue[p])
        /\ \A i \in DOMAIN queue[p] : /\ queue[p][i] \in Builds /\ queue[p][i] # b
                                      /\ builds[queue[p][i]].pipe = p
                                      /\ builds[queue[p][i]].step = "queued"
    BY <1>2 DEF LineInv
  <2>2. CASE queue'[p] = queue[p]
    BY <1>2, <2>1, <2>2
  <2>3. CASE queue'[p] # queue[p]
    <3>1. build.pipe = p /\ build.step = "queued" /\ queue'[p] = Append(queue[p], b)
      BY <1>2, <1>4, <2>3
    <3>2. /\ DOMAIN queue'[p] = 1..Len(queue[p]) + 1 /\ DOMAIN queue[p] = 1..Len(queue[p])
          /\ Len(queue[p]) \in Nat
          /\ queue'[p][Len(queue[p]) + 1] = b
          /\ \A i \in DOMAIN queue[p] : queue'[p][i] = queue[p][i]
      BY <2>1, <3>1
    <3>3. \A i \in DOMAIN queue'[p] : i \in DOMAIN queue[p] \/ i = Len(queue[p]) + 1
      BY <3>2
    <3>4. Injective(queue'[p])
      BY <2>1, <3>2, <3>3 DEF Injective
    <3>5. \A i \in DOMAIN queue'[p] : /\ builds'[queue'[p][i]].pipe = p
                                      /\ builds'[queue'[p][i]].step = "queued"
      BY <1>2, <2>1, <3>1, <3>2, <3>3
    <3> QED BY <3>4, <3>5
  <2> QED BY <2>2, <2>3
<1>9. WorkInv'
  BY <1>2, <1>3 DEF WorkInv
<1>10. WaitInv'
  BY <1>1, <1>2 DEF WaitInv
<1>11. CanBuildIsSetUp'
  BY <1>1 DEF CanBuildIsSetUp
<1>12. BuildingIsReal'
  <2>1. \A c \in Builds : Occupies(c)' <=> Occupies(c)
    BY <1>1, <1>2, <1>3, OccupiesWork DEF Occupies, AtWork, Outcomes
  <2> QED BY <1>1, <2>1 DEF BuildingIsReal
<1> QED BY <1>6, <1>7, <1>8, <1>9, <1>10, <1>11, <1>12

\* What a submitted request becomes.
LEMMA SubmitInv ==
    ASSUME BuildInv, NEW b \in Builds, NEW build \in Build, Submit(b, build),
           UNCHANGED <<managerVars, setupVars, cancelled, busy, failed, refused>>,
           chained \subseteq chained', chained' \subseteq Builds,
           builds[b].step \in {"new", "prepared"},
           build.pipe <= made, build.pipe # 0,
           build.answer = "none" => b \in cancelled \/ (b \in chained' /\ build.pipe = pipeline)
    PROVE  BuildInv'
<1>1. CASE /\ queue' = [queue EXCEPT ![build.pipe] = Append(@, b)]
           /\ builds' = [builds EXCEPT ![b] = [build EXCEPT !.step = "queued"]]
  <2> DEFINE new == [build EXCEPT !.step = "queued"]
  <2>1. /\ new \in Build /\ new.step = "queued" /\ new.pipe = build.pipe
        /\ new.answer = build.answer
    BY DEF Build
  <2> HIDE DEF new
  <2> QED BY <1>1, <2>1, RequestMoves DEF new
<1>2. CASE queue' = queue /\ \E x \in {"done", "error"} :
                builds' = [builds EXCEPT ![b] = Left(build, x)]
  <2>1. PICK x \in {"done", "error"} : builds' = [builds EXCEPT ![b] = Left(build, x)]
    BY <1>2
  <2>2. x \in Outcomes
    BY DEF Outcomes
  <2>3. /\ Left(build, x) \in Build /\ Left(build, x).step = "left"
        /\ Left(build, x).pipe = build.pipe /\ Left(build, x).answer = build.answer
    BY <2>2, LeftEffect
  <2> QED BY <1>2, <2>1, <2>3, RequestMoves
<1> QED BY <1>1, <1>2 DEF Submit

\* A new request is for the current pipeline and chained to the manager.
LEMMA NewRequest ==
    ASSUME BuildInv, NEW b \in Builds, NEW configures \in BOOLEAN
    PROVE  LET build == [builds[b] EXCEPT !.configures = configures, !.pipe = pipeline]
           IN  /\ build \in Build /\ build.pipe = pipeline /\ pipeline <= made
               /\ build.step = builds[b].step
               /\ [builds[b] EXCEPT !.pipe = pipeline] \in Build
               /\ [builds[b] EXCEPT !.pipe = pipeline].pipe = pipeline
BY DEF BuildInv, BuildTypeOK, Build, LifeInv

LEMMA BuildAsyncInv ==
    ASSUME BuildInv, NEW b \in Builds, NEW configures \in BOOLEAN, BuildAsync(b, configures)
    PROVE  BuildInv'
<1> DEFINE build == [builds[b] EXCEPT !.configures = configures, !.pipe = pipeline]
<1>1. build \in Build /\ build.pipe = pipeline /\ pipeline <= made
  BY NewRequest
<1>2. /\ builds[b].step = "new" /\ chained' = chained \cup {b} /\ chained \subseteq Builds
      /\ UNCHANGED <<managerVars, setupVars, cancelled, busy, failed, refused>>
  BY DEF BuildAsync, BuildInv, BuildTypeOK
<1>3. \A x \in {"done", "error"} :
        /\ Left(build, x) \in Build /\ Left(build, x).step = "left"
        /\ Left(build, x).pipe = build.pipe /\ Left(build, x).answer = build.answer
  <2> HIDE DEF build
  <2> QED BY <1>1, LeftEffect DEF Outcomes
<1> DEFINE prepared == [build EXCEPT !.step = "prepared"]
<1>4. /\ prepared \in Build /\ prepared.step = "prepared" /\ prepared.pipe = pipeline
  <2> HIDE DEF build
  <2> QED BY <1>1 DEF Build
<1>5. \/ \E x \in {"done", "error"} : builds' = [builds EXCEPT ![b] = Left(build, x)] /\ queue' = queue
      \/ builds' = [builds EXCEPT ![b] = prepared] /\ queue' = queue /\ pipeline # 0
      \/ Submit(b, build) /\ pipeline # 0
  BY Zenon DEF BuildAsync
<1> HIDE DEF build, prepared
<1>6. ASSUME NEW x \in {"done", "error"}, builds' = [builds EXCEPT ![b] = Left(build, x)], queue' = queue
      PROVE  BuildInv'
  BY <1>1, <1>2, <1>3, <1>6, RequestMoves
<1>7. CASE builds' = [builds EXCEPT ![b] = prepared] /\ queue' = queue /\ pipeline # 0
  BY <1>1, <1>2, <1>4, <1>7, RequestMoves
<1>8. CASE Submit(b, build) /\ pipeline # 0
  BY <1>1, <1>2, <1>8, SubmitInv
<1> QED BY <1>5, <1>6, <1>7, <1>8

LEMMA CleanAsyncInv == ASSUME BuildInv, NEW b \in Builds, CleanAsync(b) PROVE BuildInv'
<1> DEFINE build == [builds[b] EXCEPT !.pipe = pipeline]
<1>1. build \in Build /\ build.pipe = pipeline /\ pipeline <= made
  BY NewRequest
<1>2. /\ builds[b].step = "new" /\ chained' = chained \cup {b} /\ chained \subseteq Builds
      /\ UNCHANGED <<managerVars, setupVars, cancelled, busy, failed, refused>>
  BY DEF CleanAsync, BuildInv, BuildTypeOK
<1>3. /\ Left(build, "error") \in Build /\ Left(build, "error").step = "left"
      /\ Left(build, "error").pipe = build.pipe
  <2> HIDE DEF build
  <2> QED BY <1>1, LeftEffect DEF Outcomes
<1>4. \/ builds' = [builds EXCEPT ![b] = Left(build, "error")] /\ queue' = queue
      \/ Submit(b, build) /\ pipeline # 0
  BY Zenon DEF CleanAsync
<1> HIDE DEF build
<1>5. CASE builds' = [builds EXCEPT ![b] = Left(build, "error")] /\ queue' = queue
  BY <1>1, <1>2, <1>3, <1>5, RequestMoves
<1>6. CASE Submit(b, build) /\ pipeline # 0
  BY <1>1, <1>2, <1>6, SubmitInv
<1> QED BY <1>4, <1>5, <1>6

LEMMA PreparedInv == ASSUME BuildInv, NEW b \in Builds, Prepared(b) PROVE BuildInv'
<1>1. /\ builds[b].step = "prepared" /\ chained' = chained /\ cancelled' = cancelled
      /\ UNCHANGED <<managerVars, setupVars, busy, failed, refused>>
  BY DEF Prepared, cancelVars
<1>2. /\ builds[b] \in Build /\ builds[b].pipe <= made /\ builds[b].pipe # 0 /\ chained \subseteq Builds
      /\ builds[b].answer = "none" => b \in cancelled \/ (b \in chained /\ builds[b].pipe = pipeline)
  BY <1>1 DEF BuildInv, BuildTypeOK, PipeInv, WaitInv
<1>3. CASE Submit(b, builds[b])
  BY <1>1, <1>2, <1>3, SubmitInv
<1>4. CASE builds' = [builds EXCEPT ![b] = Left(builds[b], "error")] /\ queue' = queue
  <2>1. /\ Left(builds[b], "error") \in Build /\ Left(builds[b], "error").step = "left"
        /\ Left(builds[b], "error").pipe = builds[b].pipe
        /\ Left(builds[b], "error").answer = builds[b].answer
    BY <1>2, LeftEffect DEF Outcomes
  <2> QED BY <1>1, <1>2, <1>4, <2>1, RequestMoves
<1> QED BY <1>3, <1>4 DEF Prepared

\* The cancellation and the answer of a request do not move it.
LEMMA AnswerMoves ==
    ASSUME BuildInv, NEW b \in Builds, CancelCb(b) \/ Deliver(b)
    PROVE  BuildInv'
<1> USE DEF BuildInv
<1>1. UNCHANGED <<life, pipeline, made, canBuild, building, timer, setup, strategy,
                  queue, busy, failed, refused>>
  BY DEF CancelCb, Deliver, managerVars, setupVars, pipelineVars
<1>2. builds \in [Builds -> Build] /\ cancelled \subseteq Builds /\ chained \subseteq Builds
  BY DEF BuildTypeOK
<1>3. PICK build \in Build : /\ builds' = [builds EXCEPT ![b] = build]
                             /\ build.step = builds[b].step /\ build.pipe = builds[b].pipe
                             /\ build.answer = builds[b].answer \/ build.answer # "none"
  <2>1. CASE CancelCb(b)
    <3>1. [builds[b] EXCEPT !.result = "cancelled"] \in Build
      BY <1>2 DEF Build, Results
    <3>2. builds' = [builds EXCEPT ![b] = [builds[b] EXCEPT !.result = "cancelled"]]
      BY <1>2, <2>1 DEF CancelCb
    <3> QED BY <1>2, <3>1, <3>2 DEF Build
  <2>2. CASE Deliver(b)
    <3> DEFINE given == [builds[b] EXCEPT !.answer = Answer(b), !.result = Answer(b)]
    <3>1. Answer(b) \in Results /\ Answer(b) # "none"
      BY <1>2, <2>2 DEF Deliver, Answer, Build, Results
    <3>2. builds' = [builds EXCEPT ![b] = given]
      BY <1>2, <2>2 DEF Deliver
    <3>3. given \in Build /\ given.step = builds[b].step /\ given.pipe = builds[b].pipe
          /\ given.answer = Answer(b)
      BY <1>2, <3>1 DEF Build
    <3> HIDE DEF given
    <3> QED BY <3>1, <3>2, <3>3
  <2> QED BY <2>1, <2>2
<1>4. /\ builds' \in [Builds -> Build] /\ builds'[b] = build
      /\ \A c \in Builds : /\ builds'[c].step = builds[c].step /\ builds'[c].pipe = builds[c].pipe
                           /\ c # b => builds'[c] = builds[c]
  BY <1>2, <1>3
<1>5. /\ cancelled' \subseteq Builds /\ chained' \subseteq Builds
      /\ \A c \in Builds : c # b => (c \in cancelled' <=> c \in cancelled) /\ (c \in chained' <=> c \in chained)
      /\ builds'[b].answer = "none" => cancelled' = cancelled /\ chained' = chained
  <2>1. CASE CancelCb(b)
    BY <1>2, <2>1 DEF CancelCb, cancelVars
  <2>2. CASE Deliver(b)
    <3>1. builds'[b].answer # "none"
      BY <1>2, <2>2 DEF Deliver, Answer, Build
    <3> QED BY <1>2, <2>2, <3>1 DEF Deliver, cancelVars
  <2> QED BY <2>1, <2>2
<1>6. BuildTypeOK'
  BY <1>1, <1>4, <1>5 DEF BuildTypeOK
<1>7. LifeInv' /\ PipeInv'
  <2>1. builds[b].step # "new"
    BY DEF CancelCb, Deliver, PipeInv
  <2> QED BY <1>1, <1>3, <1>4, <2>1 DEF LifeInv, PipeInv
<1>8. LineInv'
  <2>1. \A p \in Pipelines : \A i \in DOMAIN queue[p] : queue[p][i] \in Builds
    BY DEF BuildTypeOK
  <2> QED BY <1>1, <1>4, <2>1 DEF LineInv, Injective
<1>9. WorkInv'
  BY <1>1, <1>4 DEF WorkInv
<1>10. WaitInv'
  <2> SUFFICES ASSUME NEW c \in Builds, builds'[c].step # "new", builds'[c].answer = "none"
               PROVE  c \in cancelled' \/ (c \in chained' /\ builds'[c].pipe = pipeline')
    BY DEF WaitInv
  <2>1. builds[c].step # "new" /\ builds[c].answer = "none"
    BY <1>3, <1>4
  <2> QED BY <1>1, <1>4, <1>5, <2>1 DEF WaitInv
<1>11. CanBuildIsSetUp'
  BY <1>1 DEF CanBuildIsSetUp
<1>12. BuildingIsReal'
  <2>1. \A c \in Builds : Occupies(c)' <=> Occupies(c)
    BY <1>1, <1>4 DEF Occupies
  <2> QED BY <1>1, <2>1 DEF BuildingIsReal
<1> QED BY <1>6, <1>7, <1>8, <1>9, <1>10, <1>11, <1>12

-----------------------------------------------------------------------------
(***************************************************************************)
(* The pipelines.                                                          *)
(***************************************************************************)

\* What the steps of the pipelines have in common: the requests move, and keep
\* their pipeline and their answer.
LEMMA PipelineMoves ==
    ASSUME BuildInv, Heard,
           builds' \in [Builds -> Build],
           \A c \in Builds : /\ builds'[c].pipe = builds[c].pipe
                             /\ builds'[c].answer = builds[c].answer
                             /\ "new" \in {builds[c].step, builds'[c].step} => builds'[c] = builds[c]
                             /\ builds[c].step = "left" => builds'[c].step = "left",
           queue' \in [Pipelines -> Seq(Builds)],
           busy' \in [Pipelines -> BOOLEAN], failed' \in [Pipelines -> BOOLEAN],
           building' \in BOOLEAN, timer' \in BOOLEAN, refused' \in BOOLEAN,
           life = "new" => ~building'
    PROVE  BuildTypeOK' /\ LifeInv' /\ PipeInv' /\ WaitInv' /\ CanBuildIsSetUp'
<1> USE DEF BuildInv, Heard, setupVars, cancelVars
<1>1. BuildTypeOK'
  BY DEF BuildTypeOK
<1>2. LifeInv' /\ CanBuildIsSetUp'
  BY DEF LifeInv, CanBuildIsSetUp
<1>3. PipeInv'
  BY DEF PipeInv
<1>4. WaitInv'
  BY DEF WaitInv
<1> QED BY <1>1, <1>2, <1>3, <1>4

\* The head of a queue is a request for that pipeline, and is not behind itself.
LEMMA HeadOfLine ==
    ASSUME BuildInv, NEW p \in Pipelines, queue[p] # << >>
    PROVE  LET b == Head(queue[p]) IN
           /\ b \in Builds /\ builds[b].pipe = p /\ builds[b].step = "queued"
           /\ Tail(queue[p]) \in Seq(Builds)
           /\ Injective(Tail(queue[p]))
           /\ \A i \in DOMAIN Tail(queue[p]) :
                 /\ Tail(queue[p])[i] # b
                 /\ \E j \in DOMAIN queue[p] : Tail(queue[p])[i] = queue[p][j]
<1> DEFINE line == queue[p]
<1>1. line \in Seq(Builds) /\ line # << >> /\ Injective(line)
  BY DEF BuildInv, BuildTypeOK, LineInv
<1>2. \A i \in DOMAIN line : builds[line[i]].pipe = p /\ builds[line[i]].step = "queued"
  BY DEF BuildInv, LineInv
<1> HIDE DEF line
<1>3. /\ Len(line) \in Nat \ {0} /\ DOMAIN line = 1..Len(line) /\ Head(line) = line[1]
      /\ Tail(line) \in Seq(Builds) /\ Head(line) \in Builds
      /\ DOMAIN Tail(line) = 1..Len(line) - 1
      /\ \A i \in 1..Len(line) - 1 : Tail(line)[i] = line[i + 1]
  BY <1>1
<1>4. \A i \in 1..Len(line) - 1 : i + 1 \in DOMAIN line /\ 1 \in DOMAIN line /\ i + 1 # 1
  BY <1>3
<1>5. Injective(Tail(line))
  BY <1>1, <1>3, <1>4 DEF Injective
<1>6. \A i \in DOMAIN Tail(line) : /\ Tail(line)[i] # Head(line)
                                   /\ \E j \in DOMAIN line : Tail(line)[i] = line[j]
  BY <1>1, <1>3, <1>4 DEF Injective
<1>7. builds[Head(line)].pipe = p /\ builds[Head(line)].step = "queued"
  <2>1. 1 \in DOMAIN line
    BY <1>3
  <2> QED BY <1>2, <1>3, <2>1
<1> QED BY <1>3, <1>5, <1>6, <1>7 DEF line

\* The queues of a step that takes requests out of one of them.
LEMMA LineShrinks ==
    ASSUME BuildInv, NEW p \in Pipelines, NEW line \in Seq(Builds), NEW gone,
           queue' = [queue EXCEPT ![p] = line], Injective(line),
           \A i \in DOMAIN line : line[i] \notin gone /\ \E j \in DOMAIN queue[p] : line[i] = queue[p][j],
           \A c \in Builds : builds'[c].pipe = builds[c].pipe,
           \A c \in Builds : c \notin gone \/ builds[c].pipe # p => builds'[c].step = builds[c].step
    PROVE  LineInv' /\ queue' \in [Pipelines -> Seq(Builds)]
<1>1. queue \in [Pipelines -> Seq(Builds)]
  BY DEF BuildInv, BuildTypeOK
<1>2. queue' \in [Pipelines -> Seq(Builds)]
  <2> HIDE DEF Pipelines
  <2> QED BY <1>1
<1>3. ASSUME NEW q \in Pipelines
      PROVE  /\ Injective(queue'[q])
             /\ \A i \in DOMAIN queue'[q] : /\ builds'[queue'[q][i]].pipe = q
                                            /\ builds'[queue'[q][i]].step = "queued"
  <2>1. /\ queue[q] \in Seq(Builds) /\ Injective(queue[q])
        /\ \A i \in DOMAIN queue[q] : /\ queue[q][i] \in Builds
                                      /\ builds[queue[q][i]].pipe = q
                                      /\ builds[queue[q][i]].step = "queued"
    <3>1. queue[q] \in Seq(Builds)
      BY <1>1
    <3>2. \A i \in DOMAIN queue[q] : queue[q][i] \in Builds
      BY <3>1
    <3> HIDE DEF Pipelines
    <3> QED BY <3>1, <3>2 DEF BuildInv, LineInv
  <2>2. CASE q = p
    <3>1. queue'[q] = line
      BY <1>1, <2>2
    <3>2. \A i \in DOMAIN line : line[i] \in Builds
      OBVIOUS
    <3>3. ASSUME NEW i \in DOMAIN line
          PROVE  builds'[line[i]].pipe = q /\ builds'[line[i]].step = "queued"
      <4>1. PICK j \in DOMAIN queue[p] : line[i] = queue[p][j]
        OBVIOUS
      <4>2. builds[line[i]].pipe = q /\ builds[line[i]].step = "queued"
        BY <2>1, <2>2, <4>1
      <4> QED BY <3>2, <4>2
    <3> QED BY <2>2, <3>1, <3>3
  <2>3. CASE q # p
    <3>1. queue'[q] = queue[q]
      BY <1>1, <2>3
    <3> QED BY <2>1, <2>3, <3>1
  <2> QED BY <2>2, <2>3
<1> QED BY <1>2, <1>3 DEF LineInv

LEMMA FlushInv == ASSUME BuildInv, NEW p \in Pipelines, Flush(p) PROVE BuildInv'
<1> DEFINE b == Head(queue[p])
<1>1. ~busy[p] /\ queue[p] # << >> /\ queue' = [queue EXCEPT ![p] = Tail(@)] /\ Heard
  BY DEF Flush
<1>2. /\ b \in Builds /\ builds[b].pipe = p /\ builds[b].step = "queued"
      /\ Tail(queue[p]) \in Seq(Builds) /\ Injective(Tail(queue[p]))
      /\ \A i \in DOMAIN Tail(queue[p]) : /\ Tail(queue[p])[i] # b
                                          /\ \E j \in DOMAIN queue[p] : Tail(queue[p])[i] = queue[p][j]
  BY <1>1, HeadOfLine
<1>3. \/ /\ builds' = [builds EXCEPT ![b].step = "refused"] /\ refused' = TRUE
         /\ UNCHANGED <<building, timer, busy, failed>>
      \/ /\ builds' = [builds EXCEPT ![b].step = "running"]
         /\ busy' = [busy EXCEPT ![p] = TRUE] /\ failed' = [failed EXCEPT ![p] = FALSE]
         /\ HearStarted(p) /\ refused' = refused
  BY Zenon DEF Flush
<1> HIDE DEF b
<1>4. /\ builds \in [Builds -> Build] /\ busy \in [Pipelines -> BOOLEAN] /\ failed \in [Pipelines -> BOOLEAN]
      /\ building \in BOOLEAN /\ timer \in BOOLEAN /\ refused \in BOOLEAN /\ queue \in [Pipelines -> Seq(Builds)]
  BY DEF BuildInv, BuildTypeOK
<1>5. /\ builds' \in [Builds -> Build] /\ builds'[b].step \in AtWork /\ builds'[b].step # "queued"
      /\ \A c \in Builds : /\ builds'[c].pipe = builds[c].pipe /\ builds'[c].answer = builds[c].answer
                           /\ c # b => builds'[c] = builds[c]
  <2>1. PICK step \in {"refused", "running"} :
            builds' = [builds EXCEPT ![b] = [builds[b] EXCEPT !.step = step]]
    BY <1>3, <1>4
  <2>2. step \in AtWork /\ step # "queued"
    BY DEF AtWork
  <2>3. [builds[b] EXCEPT !.step = step] \in Build
    BY <1>2, <1>4 DEF Build, Outcomes
  <2>4. /\ [builds[b] EXCEPT !.step = step].step = step
        /\ [builds[b] EXCEPT !.step = step].pipe = builds[b].pipe
        /\ [builds[b] EXCEPT !.step = step].answer = builds[b].answer
    BY <1>2, <1>4 DEF Build
  <2> QED BY <1>2, <1>4, <2>1, <2>2, <2>3, <2>4
<1>6. LineInv' /\ queue' \in [Pipelines -> Seq(Builds)]
  <2>1. queue' = [queue EXCEPT ![p] = Tail(queue[p])]
    BY <1>1, <1>4
  <2> DEFINE gone == {b}
           line == Tail(queue[p])
  <2>2. /\ line \in Seq(Builds) /\ Injective(line)
        /\ \A i \in DOMAIN line : line[i] \notin gone /\ \E j \in DOMAIN queue[p] : line[i] = queue[p][j]
    BY <1>2
  <2>4. queue' = [queue EXCEPT ![p] = line] /\ \A c \in Builds : builds'[c].pipe = builds[c].pipe
    BY <1>5, <2>1
  <2>3. \A c \in Builds : c \notin gone \/ builds[c].pipe # p => builds'[c].step = builds[c].step
    BY <1>2, <1>5
  <2> HIDE DEF gone, line
  <2> QED BY <2>2, <2>3, <2>4, LineShrinks
<1>7. /\ busy' \in [Pipelines -> BOOLEAN] /\ failed' \in [Pipelines -> BOOLEAN]
      /\ building' \in BOOLEAN /\ timer' \in BOOLEAN /\ refused' \in BOOLEAN
  <2>1. refused' \in BOOLEAN /\ building' \in BOOLEAN /\ timer' \in BOOLEAN
    BY <1>3, <1>4, Zenon DEF HearStarted
  <2>2. busy' \in [Pipelines -> BOOLEAN] /\ failed' \in [Pipelines -> BOOLEAN]
    BY <1>3, <1>4
  <2> QED BY <2>1, <2>2
<1>8. life = "new" => ~building'
  <2>1. life = "new" => made = 0 /\ ~building
    BY DEF BuildInv, LifeInv
  <2>2. p # 0
    OBVIOUS
  <2> QED BY <1>3, <2>1, <2>2, Zenon DEF HearStarted
<1>9. BuildTypeOK' /\ LifeInv' /\ PipeInv' /\ WaitInv' /\ CanBuildIsSetUp'
  <2>1. \A c \in Builds : /\ "new" \in {builds[c].step, builds'[c].step} => builds'[c] = builds[c]
                          /\ builds[c].step = "left" => builds'[c].step = "left"
    BY <1>2, <1>5 DEF AtWork
  <2> QED BY <1>1, <1>5, <1>6, <1>7, <1>8, <2>1, PipelineMoves
<1>10. WorkInv'
  <2> SUFFICES ASSUME ~refused', NEW c \in Builds, builds'[c].step \in AtWork
               PROVE  /\ busy'[builds'[c].pipe]
                      /\ \A d \in Builds : builds'[d].step \in AtWork /\ builds'[d].pipe = builds'[c].pipe
                                              => d = c
    BY DEF WorkInv
  <2>1. ~refused /\ busy' = [busy EXCEPT ![p] = TRUE]
    BY <1>3
  <2>2. \A d \in Builds : builds[d].step \in AtWork => builds[d].pipe # p
    BY <1>1, <2>1 DEF BuildInv, WorkInv
  <2>3. \A d \in Builds : builds'[d].step \in AtWork => d = b \/ builds[d].step \in AtWork
    BY <1>5
  <2>4. CASE c = b
    <3>1. builds'[c].pipe = p /\ busy'[p]
      BY <1>2, <1>4, <1>5, <2>1, <2>4
    <3>2. \A d \in Builds : builds'[d].step \in AtWork /\ builds'[d].pipe = p => d = b
      BY <1>5, <2>2, <2>3
    <3> QED BY <2>4, <3>1, <3>2
  <2>5. CASE c # b
    <3>1. builds[c].step \in AtWork /\ builds[c].pipe # p /\ builds'[c].pipe = builds[c].pipe
      BY <1>5, <2>2, <2>3, <2>5
    <3>2. busy[builds[c].pipe] /\ builds[c].pipe \in Pipelines
      <4>1. busy[builds[c].pipe]
        BY <2>1, <3>1 DEF BuildInv, WorkInv
      <4>2. builds[c].pipe # 0
        BY <3>1 DEF BuildInv, PipeInv, AtWork
      <4>3. builds[c].pipe \in 0..MaxPipelines
        BY <1>4 DEF Build
      <4> QED BY <4>1, <4>2, <4>3
    <3>3. \A d \in Builds : builds'[d].step \in AtWork /\ builds'[d].pipe = builds[c].pipe => d = c
      BY <1>2, <1>5, <2>1, <2>3, <3>1 DEF BuildInv, WorkInv
    <3> QED BY <1>4, <2>1, <3>1, <3>2, <3>3
  <2> QED BY <2>4, <2>5
<1>11. BuildingIsReal'
  <2>1. made' = made /\ life' = life
    BY <1>1 DEF Heard
  <2>2. \A c \in Builds : Occupies(c) => Occupies(c)'
    BY <1>2, <1>5, <2>1 DEF Occupies, Outcomes
  <2>3. \A c \in Builds : Occupies(c)' => Occupies(c) \/ (c = b /\ p = made)
    BY <1>2, <1>5, <2>1 DEF Occupies, Outcomes
  <2>4. p = made => \A c \in Builds : c = b => Occupies(c)'
    BY <1>2, <1>5, <2>1 DEF Occupies, AtWork, Outcomes
  <2>5. /\ building = timer /\ (building => \E c \in Builds : Occupies(c))
        /\ life = "started" /\ ~refused => \A c \in Builds : Occupies(c) => building
    BY DEF BuildInv, BuildingIsReal
  <2>6. \/ refused' /\ building' = building /\ timer' = timer
        \/ p = made /\ building' /\ timer' /\ refused' = refused
        \/ p # made /\ building' = building /\ timer' = timer /\ refused' = refused
    BY <1>3, Zenon DEF HearStarted
  <2>7. building' = timer'
    BY <1>7, <2>5, <2>6
  <2>8. building' => \E c \in Builds : Occupies(c)'
    <3>1. building => \E c \in Builds : Occupies(c)'
      BY <2>2, <2>5
    <3>2. building' => building \/ p = made
      BY <2>6
    <3>3. p = made => \E c \in Builds : Occupies(c)'
      BY <1>2, <2>4
    <3> QED BY <3>1, <3>2, <3>3
  <2>9. life' = "started" /\ ~refused' => \A c \in Builds : Occupies(c)' => building'
    BY <1>2, <2>1, <2>3, <2>5, <2>6
  <2> QED BY <2>7, <2>8, <2>9 DEF BuildingIsReal
<1> QED BY <1>6, <1>9, <1>10, <1>11 DEF BuildInv

\* Requests that wait in a queue are answered where they wait.
LEMMA LeaveLine ==
    ASSUME BuildInv, NEW p \in Pipelines, NEW line \in Seq(Builds), NEW gone \in SUBSET Builds,
           UNCHANGED <<managerVars, setupVars, cancelVars, busy, failed, refused>>,
           queue' = [queue EXCEPT ![p] = line], Injective(line),
           \A i \in DOMAIN line : line[i] \notin gone /\ \E j \in DOMAIN queue[p] : line[i] = queue[p][j],
           \A c \in gone : builds[c].step = "queued" /\ builds[c].pipe = p,
           builds' \in [Builds -> Build],
           \A c \in Builds \ gone : builds'[c] = builds[c],
           \A c \in gone : /\ builds'[c].step = "left" /\ builds'[c].pipe = p
                           /\ builds'[c].answer = builds[c].answer
    PROVE  BuildInv'
<1> USE DEF BuildInv
<1>1. /\ UNCHANGED <<life, pipeline, made, canBuild, building, timer, busy, failed, refused>>
      /\ Heard
  BY DEF managerVars, setupVars, cancelVars, Heard
<1>2. \A c \in Builds : /\ builds'[c].pipe = builds[c].pipe
                        /\ builds'[c].answer = builds[c].answer
                        /\ "new" \in {builds[c].step, builds'[c].step} => builds'[c] = builds[c]
                        /\ builds[c].step = "left" => builds'[c].step = "left"
                        /\ c \notin gone \/ builds[c].pipe # p => builds'[c].step = builds[c].step
  OBVIOUS
<1>3. LineInv' /\ queue' \in [Pipelines -> Seq(Builds)]
  <2> HIDE DEF BuildInv
  <2> QED BY <1>2, LineShrinks
<1>4. /\ busy' \in [Pipelines -> BOOLEAN] /\ failed' \in [Pipelines -> BOOLEAN]
      /\ building' \in BOOLEAN /\ timer' \in BOOLEAN /\ refused' \in BOOLEAN
  BY <1>1 DEF BuildTypeOK
<1>5. BuildTypeOK' /\ LifeInv' /\ PipeInv' /\ WaitInv' /\ CanBuildIsSetUp'
  <2>1. life = "new" => ~building'
    BY <1>1 DEF LifeInv
  <2> HIDE DEF BuildInv
  <2> QED BY <1>1, <1>2, <1>3, <1>4, <2>1, PipelineMoves
<1>6. \A c \in Builds : (builds'[c].step \in AtWork <=> builds[c].step \in AtWork)
  BY DEF AtWork
<1>7. WorkInv'
  BY <1>1, <1>2, <1>6 DEF WorkInv
<1>8. BuildingIsReal'
  <2>1. \A c \in Builds : Occupies(c)' <=> Occupies(c)
    BY <1>1, <1>2, <1>6 DEF Occupies, AtWork, Outcomes
  <2> QED BY <1>1, <2>1 DEF BuildingIsReal
<1> QED BY <1>3, <1>5, <1>7, <1>8

LEMMA FlushFailsInv == ASSUME BuildInv, NEW p \in Pipelines, FlushFails(p) PROVE BuildInv'
<1> DEFINE gone == ToSet(queue[p])
<1>1. /\ builds \in [Builds -> Build] /\ queue[p] \in Seq(Builds)
      /\ \A i \in DOMAIN queue[p] : builds[queue[p][i]].pipe = p /\ builds[queue[p][i]].step = "queued"
  BY DEF BuildInv, BuildTypeOK, LineInv
<1>2. gone \in SUBSET Builds /\ \A c \in gone : builds[c].step = "queued" /\ builds[c].pipe = p
  BY <1>1 DEF ToSet
<1>3. /\ queue' = [queue EXCEPT ![p] = << >>]
      /\ builds' = [c \in Builds |-> IF c \in gone THEN Left(builds[c], "error") ELSE builds[c]]
      /\ UNCHANGED <<managerVars, setupVars, cancelVars, busy, failed, refused>>
  BY DEF FlushFails
<1>4. \A c \in Builds : /\ Left(builds[c], "error") \in Build
                        /\ Left(builds[c], "error").step = "left"
                        /\ Left(builds[c], "error").pipe = builds[c].pipe
                        /\ Left(builds[c], "error").answer = builds[c].answer
  BY <1>1, LeftEffect DEF Outcomes
<1> HIDE DEF gone
<1>5. builds' \in [Builds -> Build] /\ \A c \in Builds \ gone : builds'[c] = builds[c]
  BY <1>1, <1>3, <1>4
<1>6. \A c \in gone : /\ builds'[c].step = "left" /\ builds'[c].pipe = p
                      /\ builds'[c].answer = builds[c].answer
  BY <1>2, <1>3, <1>4
<1>7. << >> \in Seq(Builds) /\ Injective(<< >>) /\ DOMAIN << >> = {}
  BY DEF Injective
<1> QED BY <1>2, <1>3, <1>5, <1>6, <1>7, LeaveLine

LEMMA MetInv == ASSUME BuildInv, NEW b \in Builds, Met(b) PROVE BuildInv'
<1> DEFINE p == builds[b].pipe
           line == Keep(queue[p], Builds \ {b})
<1>1. /\ builds[b].step = "queued"
      /\ queue' = [queue EXCEPT ![p] = Keep(@, Builds \ {b})]
      /\ builds' = [builds EXCEPT ![b] = Left(builds[b], "done")]
      /\ UNCHANGED <<managerVars, setupVars, cancelVars, busy, failed, refused>>
      /\ builds \in [Builds -> Build] /\ queue \in [Pipelines -> Seq(Builds)]
  BY DEF Met, BuildInv, BuildTypeOK
<1>2. p \in Pipelines
  BY <1>1 DEF BuildInv, PipeInv, Build
<1>3. queue[p] \in Seq(Builds) /\ Injective(queue[p])
  BY <1>1, <1>2 DEF BuildInv, LineInv
<1>4. queue' = [queue EXCEPT ![p] = line]
  BY <1>1, <1>2
<1>6. /\ line \in Seq(Builds) /\ Injective(line)
      /\ \A i \in DOMAIN line : line[i] \in Builds \ {b} /\ \E j \in DOMAIN queue[p] : line[i] = queue[p][j]
  <2> DEFINE L == queue[p]
  <2>1. L \in Seq(Builds) /\ Injective(L)
    BY <1>3
  <2> DEFINE S == Builds \ {b}
             kept == Keep(L, S)
  <2> HIDE DEF L, S
  <2>2. Injective(L) => Injective(kept)
    BY <2>1, KeepProperties
  <2>3. kept \in Seq(Builds)
    BY <2>1, KeepProperties
  <2>4. \A n \in DOMAIN kept : kept[n] \in S /\ \E i \in DOMAIN L : L[i] = kept[n]
    BY <2>1, KeepProperties
  <2> HIDE DEF kept
  <2>5. Injective(kept) /\ \A n \in DOMAIN kept : kept[n] \in Builds \ {b} /\ \E i \in DOMAIN L : kept[n] = L[i]
    BY <2>1, <2>2, <2>4 DEF S
  <2> QED BY <2>3, <2>5 DEF L, S, kept
<1>7. /\ Left(builds[b], "done") \in Build /\ Left(builds[b], "done").step = "left"
      /\ Left(builds[b], "done").pipe = builds[b].pipe
      /\ Left(builds[b], "done").answer = builds[b].answer
  BY <1>1, LeftEffect DEF Outcomes
<1>8. /\ builds' \in [Builds -> Build] /\ \A c \in Builds \ {b} : builds'[c] = builds[c]
      /\ builds'[b] = Left(builds[b], "done")
  BY <1>1, <1>7
<1> DEFINE gone == {b}
<1>9. /\ gone \in SUBSET Builds
      /\ \A i \in DOMAIN line : line[i] \notin gone /\ \E j \in DOMAIN queue[p] : line[i] = queue[p][j]
      /\ \A c \in gone : builds[c].step = "queued" /\ builds[c].pipe = p
      /\ \A c \in Builds \ gone : builds'[c] = builds[c]
      /\ \A c \in gone : /\ builds'[c].step = "left" /\ builds'[c].pipe = p
                         /\ builds'[c].answer = builds[c].answer
  BY <1>1, <1>6, <1>7, <1>8
<1> HIDE DEF gone, line, p
<1> QED BY <1>1, <1>2, <1>4, <1>6, <1>8, <1>9, LeaveLine

\* A build at work that ends, well or not, is still at work until it completes.
LEMMA FinishInv == ASSUME BuildInv, NEW b \in Builds, Finish(b) PROVE BuildInv'
<1> USE DEF BuildInv
<1>1. /\ builds[b].step = "running" /\ builds \in [Builds -> Build] /\ builds[b].pipe \in Pipelines
      /\ UNCHANGED <<managerVars, setupVars, cancelVars, queue, busy, refused>>
  BY DEF Finish, BuildTypeOK, PipeInv, Build
<1>2. PICK step \in {"done", "lost", "error"} :
          builds' = [builds EXCEPT ![b] = [builds[b] EXCEPT !.step = step]]
  BY <1>1 DEF Finish
<1>3. failed' \in [Pipelines -> BOOLEAN]
  <2>1. failed \in [Pipelines -> BOOLEAN]
    BY DEF BuildTypeOK
  <2>2. failed' = failed \/ \E f \in BOOLEAN : failed' = [failed EXCEPT ![builds[b].pipe] = @ \/ f]
    BY Zenon DEF Finish
  <2>3. CASE \E f \in BOOLEAN : failed' = [failed EXCEPT ![builds[b].pipe] = @ \/ f]
    <3>1. PICK f \in BOOLEAN : failed' = [failed EXCEPT ![builds[b].pipe] = @ \/ f]
      BY <2>3
    <3>2. (failed[builds[b].pipe] \/ f) \in BOOLEAN
      BY Zenon
    <3> HIDE DEF Pipelines
    <3> QED BY <1>1, <2>1, <3>1, <3>2
  <2> QED BY <2>1, <2>2, <2>3
<1>4. /\ [builds[b] EXCEPT !.step = step] \in Build
      /\ [builds[b] EXCEPT !.step = step].step = step
      /\ [builds[b] EXCEPT !.step = step].pipe = builds[b].pipe
      /\ [builds[b] EXCEPT !.step = step].answer = builds[b].answer
  BY <1>1 DEF Build, Outcomes
<1>5. /\ builds' \in [Builds -> Build] /\ step \in AtWork /\ builds[b].step \in AtWork
      /\ builds'[b].step = step
      /\ \A c \in Builds : /\ builds'[c].pipe = builds[c].pipe /\ builds'[c].answer = builds[c].answer
                           /\ c # b => builds'[c] = builds[c]
  BY <1>1, <1>2, <1>4 DEF AtWork
<1>6. UNCHANGED <<life, pipeline, made, canBuild, building, timer, queue, busy, refused>> /\ Heard
  BY <1>1 DEF managerVars, Heard
<1>7. BuildTypeOK' /\ LifeInv' /\ PipeInv' /\ WaitInv' /\ CanBuildIsSetUp'
  <2>1. /\ life = "new" => ~building'
        /\ busy' \in [Pipelines -> BOOLEAN] /\ queue' \in [Pipelines -> Seq(Builds)]
        /\ building' \in BOOLEAN /\ timer' \in BOOLEAN /\ refused' \in BOOLEAN
    BY <1>6 DEF LifeInv, BuildTypeOK
  <2>2. \A c \in Builds : /\ builds'[c].pipe = builds[c].pipe
                          /\ builds'[c].answer = builds[c].answer
                          /\ "new" \in {builds[c].step, builds'[c].step} => builds'[c] = builds[c]
                          /\ builds[c].step = "left" => builds'[c].step = "left"
    BY <1>1, <1>5
  <2> HIDE DEF BuildInv
  <2> QED BY <1>3, <1>5, <1>6, <2>1, <2>2, PipelineMoves
<1>8. LineInv'
  <2>1. \A p \in Pipelines : \A i \in DOMAIN queue[p] : queue[p][i] \in Builds /\ queue[p][i] # b
    <3> SUFFICES ASSUME NEW p \in Pipelines, NEW i \in DOMAIN queue[p]
                 PROVE  queue[p][i] \in Builds /\ queue[p][i] # b
      OBVIOUS
    <3>1. queue[p] \in Seq(Builds)
      BY DEF BuildTypeOK
    <3>2. builds[queue[p][i]].step = "queued"
      BY DEF LineInv
    <3> QED BY <1>1, <3>1, <3>2
  <2> QED BY <1>5, <1>6, <2>1 DEF LineInv, Injective
<1>9. \A c \in Builds : (builds'[c].step \in AtWork <=> builds[c].step \in AtWork)
  BY <1>5
<1>10. WorkInv'
  BY <1>5, <1>6, <1>9 DEF WorkInv
<1>11. BuildingIsReal'
  <2>1. \A c \in Builds : Occupies(c)' <=> Occupies(c)
    BY <1>5, <1>6, <1>9 DEF Occupies, AtWork, Outcomes
  <2> QED BY <1>6, <2>1 DEF BuildingIsReal
<1> QED BY <1>7, <1>8, <1>10, <1>11

LEMMA CompleteInv == ASSUME BuildInv, NEW b \in Builds, Complete(b) PROVE BuildInv'
<1> USE DEF BuildInv
<1> DEFINE p == builds[b].pipe
           x == builds[b].step
<1>1. /\ builds[b].step \in {"done", "error", "refused"} /\ builds \in [Builds -> Build]
      /\ builds' = [builds EXCEPT ![b] = Left(builds[b], x)]
      /\ busy' = [busy EXCEPT ![p] = FALSE] /\ HearFinished(p) /\ Heard
      /\ UNCHANGED <<queue, failed, refused>>
  BY DEF Complete, Outcomes, BuildTypeOK
<1>2. p \in Pipelines /\ builds[b].step \in AtWork
  BY <1>1 DEF PipeInv, Build, AtWork
<1>3. /\ Left(builds[b], x) \in Build /\ Left(builds[b], x).step = "left"
      /\ Left(builds[b], x).pipe = p /\ Left(builds[b], x).answer = builds[b].answer
  <2> HIDE DEF x
  <2>1. x \in Outcomes
    BY <1>1 DEF x, Outcomes
  <2> QED BY <1>1, <2>1, LeftEffect
<1>4. /\ builds' \in [Builds -> Build] /\ builds'[b].step = "left"
      /\ \A c \in Builds : /\ builds'[c].pipe = builds[c].pipe /\ builds'[c].answer = builds[c].answer
                           /\ c # b => builds'[c] = builds[c]
  <2> HIDE DEF x
  <2> QED BY <1>1, <1>3
<1> HIDE DEF x, p
<1>5. \/ p = made /\ ~building' /\ ~timer'
      \/ p # made /\ building' = building /\ timer' = timer
  BY <1>1, Zenon DEF HearFinished
<1>6. /\ building' \in BOOLEAN /\ timer' \in BOOLEAN /\ refused' \in BOOLEAN
      /\ busy' \in [Pipelines -> BOOLEAN] /\ failed' \in [Pipelines -> BOOLEAN]
      /\ queue' \in [Pipelines -> Seq(Builds)]
  <2>1. /\ building \in BOOLEAN /\ timer \in BOOLEAN /\ busy \in [Pipelines -> BOOLEAN]
    BY DEF BuildTypeOK
  <2>2. building' \in BOOLEAN /\ timer' \in BOOLEAN
    BY <1>1, <2>1, Zenon DEF HearFinished
  <2>3. busy' \in [Pipelines -> BOOLEAN]
    BY <1>1, <2>1
  <2> QED BY <1>1, <2>2, <2>3 DEF BuildTypeOK
<1>7. BuildTypeOK' /\ LifeInv' /\ PipeInv' /\ WaitInv' /\ CanBuildIsSetUp'
  <2>1. life = "new" => ~building'
    BY <1>5 DEF LifeInv
  <2>2. \A c \in Builds : /\ builds'[c].pipe = builds[c].pipe
                          /\ builds'[c].answer = builds[c].answer
                          /\ "new" \in {builds[c].step, builds'[c].step} => builds'[c] = builds[c]
                          /\ builds[c].step = "left" => builds'[c].step = "left"
    BY <1>1, <1>4
  <2> HIDE DEF BuildInv
  <2> QED BY <1>1, <1>4, <1>6, <2>1, <2>2, PipelineMoves
<1>8. LineInv'
  <2>1. \A q \in Pipelines : \A i \in DOMAIN queue[q] : queue[q][i] \in Builds /\ queue[q][i] # b
    <3> SUFFICES ASSUME NEW q \in Pipelines, NEW i \in DOMAIN queue[q]
                 PROVE  queue[q][i] \in Builds /\ queue[q][i] # b
      OBVIOUS
    <3>1. queue[q] \in Seq(Builds)
      BY DEF BuildTypeOK
    <3>2. builds[queue[q][i]].step = "queued"
      BY DEF LineInv
    <3> QED BY <1>1, <3>1, <3>2
  <2> QED BY <1>1, <1>4, <2>1 DEF LineInv, Injective
<1>9. \A c \in Builds : builds'[c].step \in AtWork => c # b /\ builds[c].step \in AtWork
  BY <1>4 DEF AtWork
<1>10. ~refused => \A c \in Builds : builds[c].step \in AtWork /\ builds[c].pipe = p => c = b
  BY <1>2 DEF WorkInv, p
<1>11. WorkInv'
  <2> SUFFICES ASSUME ~refused, NEW c \in Builds, builds'[c].step \in AtWork
               PROVE  /\ busy'[builds'[c].pipe]
                      /\ \A d \in Builds : builds'[d].step \in AtWork /\ builds'[d].pipe = builds'[c].pipe
                                              => d = c
    BY <1>1 DEF WorkInv
  <2>1. /\ builds[c].step \in AtWork /\ builds[c].pipe # p /\ builds'[c].pipe = builds[c].pipe
        /\ busy[builds[c].pipe]
    BY <1>4, <1>9, <1>10 DEF WorkInv
  <2>2. builds[c].pipe \in Pipelines
    <3>1. builds[c].pipe # 0 /\ builds[c].pipe \in 0..MaxPipelines
      BY <1>1, <2>1 DEF PipeInv, AtWork, Build
    <3> QED BY <3>1
  <2>3. busy'[builds'[c].pipe]
    BY <1>1, <2>1, <2>2 DEF BuildTypeOK
  <2> QED BY <1>4, <1>9, <2>1, <2>3 DEF WorkInv
<1>12. BuildingIsReal'
  <2>1. made' = made /\ life' = life /\ refused' = refused
    BY <1>1 DEF Heard
  <2>2. \A c \in Builds : Occupies(c)' => c # b /\ Occupies(c)
    BY <1>4, <2>1 DEF Occupies, Outcomes
  <2>3. p # made => \A c \in Builds : Occupies(c) => Occupies(c)'
    <3> SUFFICES ASSUME p # made, NEW c \in Builds, Occupies(c) PROVE Occupies(c)'
      BY DEF Occupies
    <3>1. c # b
      BY DEF Occupies, p
    <3> QED BY <1>4, <2>1, <3>1 DEF Occupies
  <2>4. ~refused /\ p = made => \A c \in Builds : ~Occupies(c)'
    BY <1>10, <2>2, OccupiesWork DEF Occupies, AtWork, Outcomes
  <2>5. /\ building = timer /\ (building => \E c \in Builds : Occupies(c))
        /\ life = "started" /\ ~refused => \A c \in Builds : Occupies(c) => building
    BY DEF BuildingIsReal
  <2>6. building' = timer'
    BY <1>5, <1>6, <2>5
  <2>7. building' => \E c \in Builds : Occupies(c)'
    BY <1>5, <2>3, <2>5
  <2>8. life' = "started" /\ ~refused' => \A c \in Builds : Occupies(c)' => building'
    BY <1>5, <2>1, <2>2, <2>4, <2>5
  <2> QED BY <2>6, <2>7, <2>8 DEF BuildingIsReal
<1> QED BY <1>7, <1>8, <1>11, <1>12

-----------------------------------------------------------------------------
(***************************************************************************)
(* The theorems about the build manager.                                   *)
(***************************************************************************)

LEMMA BuildStutter == ASSUME BuildInv, UNCHANGED buildVars PROVE BuildInv'
<1>1. /\ UNCHANGED <<life, pipeline, made, canBuild, building, timer, setup, strategy, builds>>
      /\ UNCHANGED <<cancelled, chained, queue, busy, failed, refused>>
  BY DEF buildVars, managerVars, setupVars, cancelVars, pipelineVars
<1> USE DEF BuildInv
<1>2. BuildTypeOK' /\ LifeInv' /\ PipeInv' /\ WorkInv' /\ WaitInv' /\ CanBuildIsSetUp'
  BY <1>1 DEF BuildTypeOK, LifeInv, PipeInv, WorkInv, WaitInv, CanBuildIsSetUp
<1>3. LineInv' /\ BuildingIsReal'
  BY <1>1 DEF LineInv, Injective, BuildingIsReal, Occupies
<1> QED BY <1>2, <1>3

LEMMA BuildStep == BuildInv /\ [BuildNext]_buildVars => BuildInv'
<1> SUFFICES ASSUME BuildInv, [BuildNext]_buildVars PROVE BuildInv'
  OBVIOUS
<1>1. CASE StartManager \/ Invalidate \/ Close \/ CancelBuilds
  BY <1>1, StartManagerInv, InvalidateInv, CloseInv, CancelBuildsInv
<1>2. ASSUME NEW p \in Pipelines, Serve(p) PROVE BuildInv'
  BY <1>2, SetupMoves, FlushInv, FlushFailsInv DEF Serve
<1>3. ASSUME NEW b \in Builds, Work(b) PROVE BuildInv'
  BY <1>3, PreparedInv, AnswerMoves, MetInv, FinishInv, CompleteInv DEF Work
<1>4. ASSUME NEW b \in Builds \ Keeping, Request(b) PROVE BuildInv'
  BY <1>4, BuildAsyncInv, CleanAsyncInv DEF Request
<1>5. CASE UNCHANGED buildVars
  BY <1>5, BuildStutter
<1> QED BY <1>1, <1>2, <1>3, <1>4, <1>5 DEF BuildNext

LEMMA BuildAlways == BuildSpec => []BuildInv
<1> QED BY BuildStart, BuildStep, PTL DEF BuildSpec

\* "can-build" is TRUE only for a pipeline whose own setup has ended well,
\* whatever the setup of the pipelines that were replaced does.
THEOREM SetUp == BuildSpec => []CanBuildIsSetUp
<1>1. BuildInv => CanBuildIsSetUp
  BY DEF BuildInv
<1> QED BY <1>1, BuildAlways, PTL

\* "building" and the timer are those of a build of the last pipeline.
THEOREM BuildingHolds == BuildSpec => []BuildingIsReal
<1>1. BuildInv => BuildingIsReal
  BY DEF BuildInv
<1> QED BY <1>1, BuildAlways, PTL

\* A request keeps its answer, or the lack of one, until its callback is called.
LEMMA AnswersKept ==
    ASSUME BuildInv, BuildNext, NEW b \in Builds, ~Deliver(b)
    PROVE  builds'[b].answer = builds[b].answer
<1>1. builds \in [Builds -> Build]
  BY DEF BuildInv, BuildTypeOK
<1>2. ASSUME NEW c \in Builds, NEW build \in Build, Submit(c, build), build.answer = builds[c].answer
      PROVE  builds'[b].answer = builds[b].answer
  <2>1. \A x \in {"done", "error"} : Left(build, x).answer = build.answer
    BY LeftEffect DEF Outcomes
  <2>2. [build EXCEPT !.step = "queued"].answer = build.answer
    BY DEF Build
  <2> QED BY <1>1, <1>2, <2>1, <2>2 DEF Submit
<1>3. CASE UNCHANGED builds
  BY <1>3
<1>4. ASSUME NEW p \in Pipelines, Serve(p) PROVE builds'[b].answer = builds[b].answer
  <2>1. CASE Flush(p) /\ queue[p] # << >>
    <3>1. Head(queue[p]) \in Builds
      BY <2>1, HeadOfLine
    <3> QED BY <1>1, <2>1, <3>1 DEF Flush, Build
  <2>2. CASE FlushFails(p)
    BY <1>1, <2>2, LeftEffect DEF FlushFails, Outcomes
  <2>3. CASE SetupStep(p) \/ Load(p) \/ StrategyLoaded(p)
    BY <2>3 DEF SetupStep, Load, StrategyLoaded
  <2> QED BY <1>4, <2>1, <2>2, <2>3 DEF Serve, Flush
<1>5. ASSUME NEW c \in Builds, Work(c) PROVE builds'[b].answer = builds[b].answer
  <2>1. \A x \in Outcomes : Left(builds[c], x).answer = builds[c].answer
    BY <1>1, LeftEffect
  <2>2. CASE Prepared(c)
    BY <1>1, <1>2, <2>1, <2>2 DEF Prepared, Outcomes
  <2>3. CASE CancelCb(c) \/ Finish(c)
    BY <1>1, <2>3 DEF CancelCb, Finish, Build
  <2>4. CASE Met(c) \/ Complete(c)
    BY <1>1, <2>1, <2>4 DEF Met, Complete, Outcomes
  <2>5. CASE Deliver(c)
    <3>1. c # b
      BY <2>5
    <3> QED BY <1>1, <2>5, <3>1 DEF Deliver
  <2> QED BY <1>5, <2>2, <2>3, <2>4, <2>5 DEF Work
<1>6. ASSUME NEW c \in Builds, NEW configures \in BOOLEAN, BuildAsync(c, configures)
      PROVE  builds'[b].answer = builds[b].answer
  <2> DEFINE build == [builds[c] EXCEPT !.configures = configures, !.pipe = pipeline]
  <2>1. build \in Build /\ build.answer = builds[c].answer
    BY <1>1, NewRequest DEF Build
  <2>2. \A x \in {"done", "error"} : Left(build, x).answer = build.answer
    <3> HIDE DEF build
    <3> QED BY <2>1, LeftEffect DEF Outcomes
  <2>3. [build EXCEPT !.step = "prepared"].answer = build.answer
    BY <2>1 DEF Build
  <2>4. \/ \E x \in {"done", "error"} : builds' = [builds EXCEPT ![c] = Left(build, x)]
        \/ builds' = [builds EXCEPT ![c] = [build EXCEPT !.step = "prepared"]]
        \/ Submit(c, build)
    BY <1>6, Zenon DEF BuildAsync
  <2> HIDE DEF build
  <2> QED BY <1>1, <1>2, <2>1, <2>2, <2>3, <2>4
<1>7. ASSUME NEW c \in Builds, CleanAsync(c) PROVE builds'[b].answer = builds[b].answer
  <2> DEFINE build == [builds[c] EXCEPT !.pipe = pipeline]
  <2>1. build \in Build /\ build.answer = builds[c].answer
    BY <1>1, NewRequest DEF Build
  <2>2. Left(build, "error").answer = build.answer
    BY <2>1, LeftEffect DEF Outcomes
  <2>3. \/ builds' = [builds EXCEPT ![c] = Left(build, "error")]
        \/ Submit(c, build)
    BY <1>7, Zenon DEF CleanAsync
  <2> HIDE DEF build
  <2> QED BY <1>1, <1>2, <2>1, <2>2, <2>3
<1>8. CASE StartManager \/ Invalidate \/ Close \/ CancelBuilds
  BY <1>8 DEF StartManager, Invalidate, Close, CancelBuilds
<1> QED BY <1>4, <1>5, <1>6, <1>7, <1>8 DEF BuildNext, Request

LEMMA DoneStep ==
    BuildInv /\ [BuildNext]_buildVars =>
        [\A b \in Builds : builds[b].answer = "none" /\ builds'[b].answer = "done"
                              => builds[b].pipe = pipeline]_buildVars
<1> SUFFICES ASSUME BuildInv, BuildNext, NEW b \in Builds,
                    builds[b].answer = "none", builds'[b].answer = "done"
             PROVE  builds[b].pipe = pipeline
  OBVIOUS
<1>1. Deliver(b)
  BY AnswersKept
<1>2. builds \in [Builds -> Build]
  BY DEF BuildInv, BuildTypeOK
<1>3. Answer(b) = "done"
  BY <1>1, <1>2 DEF Deliver, Build
<1>4. b \notin cancelled /\ builds[b].result = "done"
  BY <1>3 DEF Answer
<1>5. builds[b].step # "new"
  BY <1>4 DEF BuildInv, PipeInv
<1> QED BY <1>4, <1>5 DEF BuildInv, WaitInv

\* A request is answered with TRUE only if its pipeline has not been replaced.
THEOREM DoneHolds == BuildSpec => DoneIsCurrent
<1> QED BY BuildAlways, DoneStep, PTL DEF BuildSpec, DoneIsCurrent

-----------------------------------------------------------------------------
(***************************************************************************)
(* The pipelines serve their queues.                                       *)
(***************************************************************************)

\* A request that is queued is in the queue of its pipeline, and the pipeline
\* has told it nothing until it leaves.
QueueInv ==
    \A b \in Builds :
        /\ builds[b].step = "queued" =>
              \E i \in DOMAIN queue[builds[b].pipe] : queue[builds[b].pipe][i] = b
        /\ builds[b].step # "left" => builds[b].told = "none"

\* The variables of Line(p) that are not those of BuildManager.
Calls(p) == [b \in Builds |-> Seen(p, builds[b])]
Configuring(p) == {b \in Builds : Seen(p, builds[b]).place # "idle" /\ builds[b].configures}

\* What is to be shown of a step: the queues are kept and every pipeline serves.
Serves(p) == [Line(p)!Next]_(Line(p)!vars)
StepServes == QueueInv' /\ \A p \in Pipelines : Serves(p)

LEMMA SameLine ==
    ASSUME NEW p \in Pipelines, Calls(p)' = Calls(p), Configuring(p)' = Configuring(p),
           queue'[p] = queue[p], busy'[p] = busy[p], failed'[p] = failed[p]
    PROVE  UNCHANGED Line(p)!vars
BY DEF Line!vars, Calls, Configuring

LEMMA SameKeep ==
    ASSUME NEW p \in Pipelines, NEW line, NEW S
    PROVE  Line(p)!Keep(line, S) = Keep(line, S)
BY DEF Keep, Line!Keep, Cardinality, Line!Cardinality

\* How a request is seen that waits for the buffers, or has just been made.
LEMMA SeenIdle ==
    ASSUME NEW build \in Build, NEW p \in Pipelines,
           (build.step \in {"new", "prepared"} /\ build.told = "none") \/ build.pipe # p
    PROVE  Seen(p, build) = [place |-> "idle", answer |-> "none"]
BY DEF Seen, Place, Outcomes

LEMMA SeenHere ==
    ASSUME NEW build \in Build, NEW p \in Pipelines, build.pipe = p
    PROVE  /\ build.step = "queued" /\ build.told = "none" => Seen(p, build) = Line(p)!At("waiting", "none")
           /\ build.step = "running" /\ build.told = "none" => Seen(p, build) = Line(p)!At("running", "none")
           /\ build.step = "lost" /\ build.told = "none" => Seen(p, build) = Line(p)!At("lost", "none")
           /\ build.step \in Outcomes => Seen(p, build) = Line(p)!At("returned", build.step)
           /\ build.step = "left" => Seen(p, build) = Line(p)!At("answered", build.told)
BY DEF Seen, Place, Line!At, Outcomes

\* The request stays where it is, or is not with a pipeline before and after.
Unmoved(old, new) ==
    \/ /\ new.step = old.step /\ new.pipe = old.pipe
       /\ new.told = old.told /\ new.configures = old.configures
    \/ old.step \in {"new", "prepared"} /\ new.step \in {"new", "prepared"} /\ new.told = "none"
    \/ old.step = "new" /\ new.step = "left" /\ new.pipe = 0

\* A step of the manager, or of a request that is not with a pipeline.
LEMMA QuietStep ==
    ASSUME BuildTypeOK, QueueInv, builds' \in [Builds -> Build], UNCHANGED <<queue, busy, failed>>,
           \A b \in Builds : Unmoved(builds[b], builds'[b])
    PROVE  StepServes
<1>1. \A b \in Builds : builds[b] \in Build /\ builds'[b] \in Build
  BY DEF BuildTypeOK
<1>2. QueueInv'
  BY DEF QueueInv, Unmoved
<1>3. ASSUME NEW p \in Pipelines PROVE UNCHANGED Line(p)!vars
  <2>1. ASSUME NEW b \in Builds
        PROVE  /\ Seen(p, builds'[b]) = Seen(p, builds[b])
               /\ Seen(p, builds[b]).place # "idle" => builds'[b].configures = builds[b].configures
    <3>1. CASE /\ builds'[b].step = builds[b].step /\ builds'[b].pipe = builds[b].pipe
               /\ builds'[b].told = builds[b].told /\ builds'[b].configures = builds[b].configures
      BY <3>1 DEF Seen
    <3>2. CASE /\ builds[b].step \in {"new", "prepared"}
               /\ \/ builds'[b].step \in {"new", "prepared"} /\ builds'[b].told = "none"
                  \/ builds'[b].step = "left" /\ builds'[b].pipe = 0
      <4>1. builds[b].told = "none" /\ (builds'[b].told = "none" \/ builds'[b].pipe # p)
        BY <3>2 DEF QueueInv
      <4>2. /\ Seen(p, builds[b]) = [place |-> "idle", answer |-> "none"]
            /\ Seen(p, builds'[b]) = [place |-> "idle", answer |-> "none"]
        BY <1>1, <3>2, <4>1, SeenIdle
      <4> QED BY <4>2
    <3> QED BY <3>1, <3>2 DEF Unmoved
  <2>2. Calls(p)' = Calls(p) /\ Configuring(p)' = Configuring(p)
    BY <2>1 DEF Calls, Configuring
  <2> QED BY <2>2, SameLine
<1> QED BY <1>2, <1>3 DEF StepServes, Serves

\* A step of one request of a pipeline.
OneMoves(p, b, new, line) ==
    /\ builds' = [builds EXCEPT ![b] = new] /\ new.pipe = p
    /\ builds[b].pipe = p \/ builds[b].step \in {"new", "prepared"}
    /\ queue' = [queue EXCEPT ![p] = line]
    /\ \A q \in Pipelines \ {p} : busy'[q] = busy[q] /\ failed'[q] = failed[q]
    /\ new.step # "left" => new.told = "none"
    /\ new.step = "queued" => \E i \in DOMAIN line : line[i] = b
    /\ \A i \in DOMAIN queue[p] : queue[p][i] = b \/ \E j \in DOMAIN line : line[j] = queue[p][i]

\* How pipeline p sees it, and the others do not.
OneSeen(p, b, new, line) ==
    /\ QueueInv' /\ \A q \in Pipelines \ {p} : Serves(q)
    /\ Calls(p)' = [Calls(p) EXCEPT ![b] = Seen(p, new)]
    /\ queue'[p] = line
    /\ Configuring(p)' \in {Configuring(p) \cup {b}, Configuring(p) \ {b}}
    /\ (/\ Seen(p, builds[b]).place # "idle" /\ Seen(p, new).place # "idle"
        /\ new.configures = builds[b].configures) => Configuring(p)' = Configuring(p)

LEMMA OneStep ==
    ASSUME BuildTypeOK, QueueInv, NEW p \in Pipelines, NEW b \in Builds, NEW new \in Build,
           NEW line \in Seq(Builds), OneMoves(p, b, new, line)
    PROVE  OneSeen(p, b, new, line)
<1> USE DEF OneMoves
<1>1. /\ builds \in [Builds -> Build] /\ queue \in [Pipelines -> Seq(Builds)]
      /\ builds'[b] = new /\ \A c \in Builds : c # b => builds'[c] = builds[c]
      /\ queue'[p] = line /\ \A q \in Pipelines : q # p => queue'[q] = queue[q]
  BY DEF BuildTypeOK
<1>2. QueueInv'
  <2> SUFFICES ASSUME NEW c \in Builds
               PROVE  /\ builds'[c].step = "queued" =>
                            \E i \in DOMAIN queue'[builds'[c].pipe] : queue'[builds'[c].pipe][i] = c
                      /\ builds'[c].step # "left" => builds'[c].told = "none"
    BY DEF QueueInv
  <2>1. CASE c = b
    BY <1>1, <2>1
  <2>2. CASE c # b
    <3>1. builds'[c] = builds[c] /\ (builds[c].step # "left" => builds[c].told = "none")
      BY <1>1, <2>2 DEF QueueInv
    <3>2. ASSUME builds[c].step = "queued"
          PROVE  \E i \in DOMAIN queue'[builds[c].pipe] : queue'[builds[c].pipe][i] = c
      <4>1. PICK i \in DOMAIN queue[builds[c].pipe] : queue[builds[c].pipe][i] = c
        BY <3>2 DEF QueueInv
      <4>2. CASE builds[c].pipe = p
        BY <1>1, <2>2, <4>1, <4>2
      <4>3. CASE builds[c].pipe # p
        <5>1. queue' = [queue EXCEPT ![p] = line] /\ p # builds[c].pipe
          BY <4>3
        <5>2. queue'[builds[c].pipe] = queue[builds[c].pipe]
          BY <1>1, <5>1
        <5> QED BY <4>1, <5>2
      <4> QED BY <4>2, <4>3
    <3> QED BY <3>1, <3>2
  <2> QED BY <2>1, <2>2
<1>3. ASSUME NEW q \in Pipelines, q # p PROVE Serves(q)
  <2>1. /\ builds[b] \in Build
        /\ \/ builds[b].pipe # q
           \/ builds[b].step \in {"new", "prepared"} /\ builds[b].told = "none"
    BY <1>1, <1>3 DEF QueueInv
  <2>2. /\ Seen(q, builds[b]) = [place |-> "idle", answer |-> "none"]
        /\ Seen(q, new) = [place |-> "idle", answer |-> "none"]
    BY <1>3, <2>1, SeenIdle
  <2>3. \A c \in Builds : /\ Seen(q, builds'[c]) = Seen(q, builds[c])
                          /\ Seen(q, builds[c]).place # "idle" => builds'[c] = builds[c]
    BY <1>1, <2>2
  <2>4. Calls(q)' = Calls(q) /\ Configuring(q)' = Configuring(q)
    BY <2>3 DEF Calls, Configuring
  <2> QED BY <1>1, <1>3, <2>4, SameLine DEF Serves
<1>4. \A c \in Builds : Seen(p, builds'[c]) = IF c = b THEN Seen(p, new) ELSE Seen(p, builds[c])
  BY <1>1
<1>5. Calls(p)' = [Calls(p) EXCEPT ![b] = Seen(p, new)]
  BY <1>4 DEF Calls
<1>6. \A c \in Builds : c # b => (c \in Configuring(p)' <=> c \in Configuring(p))
  BY <1>1, <1>4 DEF Configuring
<1>7. Configuring(p)' \in {Configuring(p) \cup {b}, Configuring(p) \ {b}}
  <2>1. Configuring(p)' \subseteq Builds /\ Configuring(p) \subseteq Builds
    BY DEF Configuring
  <2>2. CASE b \in Configuring(p)'
    BY <1>6, <2>1, <2>2
  <2>3. CASE b \notin Configuring(p)'
    BY <1>6, <2>1, <2>3
  <2> QED BY <2>2, <2>3
<1>8. ASSUME Seen(p, builds[b]).place # "idle", Seen(p, new).place # "idle",
             new.configures = builds[b].configures
      PROVE  Configuring(p)' = Configuring(p)
  <2>1. b \in Configuring(p)' <=> b \in Configuring(p)
    BY <1>1, <1>8 DEF Configuring
  <2>2. Configuring(p)' \subseteq Builds /\ Configuring(p) \subseteq Builds
    BY DEF Configuring
  <2>3. \A c \in Builds : (c \in Configuring(p)' <=> c \in Configuring(p))
    BY <1>6, <2>1
  <2> HIDE DEF Configuring
  <2> QED BY <2>2, <2>3, Zenon
<1> QED BY <1>1, <1>2, <1>3, <1>5, <1>7, <1>8 DEF OneSeen

\* A request is made of a pipeline.
LEMMA SubmitStep ==
    ASSUME BuildTypeOK, QueueInv, NEW p \in Pipelines, NEW b \in Builds, NEW build \in Build,
           build.pipe = p, build.told = "none", builds[b].step \in {"new", "prepared"},
           \/ Submit(b, build)
           \/ queue' = queue /\ \E x \in {"done", "error"} : builds' = [builds EXCEPT ![b] = Left(build, x)],
           UNCHANGED <<busy, failed>>
    PROVE  StepServes
<1>1. /\ builds[b] \in Build /\ builds[b].told = "none" /\ queue \in [Pipelines -> Seq(Builds)]
      /\ queue[p] \in Seq(Builds)
  BY DEF BuildTypeOK, QueueInv
<1>2. Calls(p)[b].place = "idle" /\ \A q \in Pipelines \ {p} : busy'[q] = busy[q] /\ failed'[q] = failed[q]
  BY <1>1, SeenIdle DEF Calls
<1>3. CASE /\ queue' = [queue EXCEPT ![p] = Append(@, b)]
           /\ builds' = [builds EXCEPT ![b] = [build EXCEPT !.step = "queued"]]
  <2> DEFINE new == [build EXCEPT !.step = "queued"]
  <2>9. Append(queue[p], b) \in Seq(Builds)
    BY <1>1
  <2>0. PICK line \in Seq(Builds) : line = Append(queue[p], b)
    BY <2>9, Zenon
  <2>1. new \in Build /\ new.pipe = p /\ new.step = "queued" /\ new.told = "none"
    BY DEF Build
  <2>2. queue' = [queue EXCEPT ![p] = line] /\ builds' = [builds EXCEPT ![b] = new]
    BY <1>1, <1>3, <2>0
  <2>3. /\ line[Len(queue[p]) + 1] = b /\ Len(queue[p]) + 1 \in DOMAIN line
        /\ \A i \in DOMAIN queue[p] : i \in DOMAIN line /\ line[i] = queue[p][i]
    BY <1>1, <2>0
  <2> HIDE DEF new
  <2>4. Seen(p, new) = Line(p)!At("waiting", "none")
    BY <2>1, SeenHere
  <2>6. OneMoves(p, b, new, line)
    BY <1>1, <1>2, <2>1, <2>2, <2>3 DEF OneMoves
  <2>7. OneSeen(p, b, new, line)
    BY <2>1, <2>2, <2>6, OneStep
  <2>8. Line(p)!Ask(b)
    BY <1>2, <2>0, <2>4, <2>7 DEF OneSeen, Line!Ask, Line!Says, Calls, Configuring
  <2> QED BY <2>7, <2>8 DEF OneSeen, StepServes, Serves, Line!Next
<1>4. ASSUME NEW x \in {"done", "error"}, queue' = queue, builds' = [builds EXCEPT ![b] = Left(build, x)]
      PROVE  StepServes
  <2> DEFINE new == Left(build, x)
  <2>4. PICK line \in Seq(Builds) : line = queue[p]
    BY <1>1
  <2>1. new \in Build /\ new.pipe = p /\ new.step = "left" /\ new.told = x
    BY LeftEffect DEF Outcomes
  <2>2. queue' = [queue EXCEPT ![p] = line] /\ builds' = [builds EXCEPT ![b] = new]
    BY <1>1, <1>4, <2>4
  <2> HIDE DEF new
  <2>3. Seen(p, new) = Line(p)!At("answered", x)
    BY <2>1, SeenHere
  <2>5. OneMoves(p, b, new, line)
    BY <1>1, <1>2, <2>1, <2>2, <2>4 DEF OneMoves
  <2>6. OneSeen(p, b, new, line)
    BY <2>1, <2>4, <2>5, OneStep
  <2>7. Line(p)!Reply(b)
    BY <1>2, <2>3, <2>4, <2>6 DEF OneSeen, Line!Reply, Line!Says, Calls, Configuring
  <2> QED BY <2>6, <2>7 DEF OneSeen, StepServes, Serves, Line!Next
<1> QED BY <1>3, <1>4 DEF Submit

LEMMA RequestServes ==
    ASSUME BuildInv, QueueInv, NEW b \in Builds, Request(b)
    PROVE  StepServes
<1>1. /\ BuildTypeOK /\ builds \in [Builds -> Build] /\ builds[b].step = "new" /\ builds[b].told = "none"
      /\ UNCHANGED <<busy, failed>> /\ (pipeline # 0 => pipeline \in Pipelines)
  <2>1. builds[b].step = "new" /\ UNCHANGED <<busy, failed>>
    BY DEF Request, BuildAsync, CleanAsync
  <2>2. BuildTypeOK /\ builds \in [Builds -> Build] /\ (pipeline # 0 => pipeline \in Pipelines)
    BY DEF BuildInv, BuildTypeOK
  <2> QED BY <2>1, <2>2 DEF QueueInv
<1>2. ASSUME NEW build \in Build, build.pipe = pipeline, build.told = "none",
             NEW x \in {"done", "error"}, queue' = queue, builds' = [builds EXCEPT ![b] = Left(build, x)]
      PROVE  StepServes
  <2>1. CASE pipeline = 0
    <3>1. Left(build, x) \in Build /\ Left(build, x).step = "left" /\ Left(build, x).pipe = 0
      BY <1>2, <2>1, LeftEffect DEF Outcomes
    <3>2. Unmoved(builds[b], Left(build, x))
      BY <1>1, <3>1 DEF Unmoved
    <3>3. builds' \in [Builds -> Build] /\ \A c \in Builds : Unmoved(builds[c], builds'[c])
      BY <1>1, <1>2, <3>1, <3>2 DEF Unmoved
    <3> QED BY <1>1, <1>2, <3>3, QuietStep
  <2>2. CASE pipeline # 0
    BY <1>1, <1>2, <2>2, SubmitStep
  <2> QED BY <2>1, <2>2
<1>3. ASSUME NEW configures \in BOOLEAN, BuildAsync(b, configures) PROVE StepServes
  <2> DEFINE build == [builds[b] EXCEPT !.configures = configures, !.pipe = pipeline]
             prepared == [build EXCEPT !.step = "prepared"]
  <2>1. build \in Build /\ build.pipe = pipeline /\ build.told = "none"
    BY <1>1, NewRequest DEF BuildInv, Build
  <2>2. \/ \E x \in {"done", "error"} : builds' = [builds EXCEPT ![b] = Left(build, x)] /\ queue' = queue
        \/ builds' = [builds EXCEPT ![b] = prepared] /\ queue' = queue
        \/ Submit(b, build) /\ pipeline # 0
    BY <1>3, Zenon DEF BuildAsync
  <2>3. prepared \in Build /\ prepared.step = "prepared" /\ prepared.told = "none"
    <3> HIDE DEF build
    <3> QED BY <2>1 DEF Build
  <2> HIDE DEF build, prepared
  <2>4. CASE builds' = [builds EXCEPT ![b] = prepared] /\ queue' = queue
    <3>1. Unmoved(builds[b], prepared)
      BY <1>1, <2>3 DEF Unmoved
    <3>2. builds' \in [Builds -> Build] /\ \A c \in Builds : Unmoved(builds[c], builds'[c])
      BY <1>1, <2>3, <2>4, <3>1 DEF Unmoved
    <3> QED BY <1>1, <2>4, <3>2, QuietStep
  <2>5. CASE Submit(b, build) /\ pipeline # 0
    BY <1>1, <2>1, <2>5, SubmitStep
  <2> QED BY <1>2, <2>1, <2>2, <2>4, <2>5
<1>4. CASE CleanAsync(b)
  <2> DEFINE build == [builds[b] EXCEPT !.pipe = pipeline]
  <2>1. build \in Build /\ build.pipe = pipeline /\ build.told = "none"
    BY <1>1, NewRequest DEF BuildInv, Build
  <2>2. \/ builds' = [builds EXCEPT ![b] = Left(build, "error")] /\ queue' = queue
        \/ Submit(b, build) /\ pipeline # 0
    BY <1>4, Zenon DEF CleanAsync
  <2> HIDE DEF build
  <2>3. CASE Submit(b, build) /\ pipeline # 0
    BY <1>1, <2>1, <2>3, SubmitStep
  <2> QED BY <1>2, <2>1, <2>2, <2>3
<1> QED BY <1>3, <1>4 DEF Request

LEMMA PreparedServes ==
    ASSUME BuildInv, QueueInv, NEW b \in Builds, Prepared(b)
    PROVE  StepServes
<1>1. /\ BuildTypeOK /\ builds[b] \in Build /\ builds[b].step = "prepared" /\ builds[b].told = "none"
      /\ UNCHANGED <<busy, failed>> /\ builds[b].pipe \in Pipelines
  BY DEF BuildInv, BuildTypeOK, Prepared, QueueInv, PipeInv, Build
<1>2. \/ Submit(b, builds[b])
      \/ queue' = queue /\ \E x \in {"done", "error"} : builds' = [builds EXCEPT ![b] = Left(builds[b], x)]
  <2>1. CASE builds' = [builds EXCEPT ![b] = Left(builds[b], "error")] /\ queue' = queue
    BY <2>1
  <2> QED BY <2>1 DEF Prepared
<1> QED BY <1>1, <1>2, SubmitStep

\* What the manager does to its pipelines does not touch their queues.
LEMMA ManagerServes ==
    ASSUME BuildInv, QueueInv,
           \/ StartManager \/ Invalidate \/ Close \/ CancelBuilds
           \/ \E p \in Pipelines : SetupStep(p) \/ Load(p) \/ StrategyLoaded(p)
           \/ \E b \in Builds : CancelCb(b) \/ Deliver(b)
    PROVE  StepServes
<1>1. BuildTypeOK /\ builds \in [Builds -> Build]
  BY DEF BuildInv, BuildTypeOK
<1>2. UNCHANGED <<queue, busy, failed>>
  BY DEF StartManager, Invalidate, Close, CancelBuilds, SetupStep, Load, StrategyLoaded,
         CancelCb, Deliver, pipelineVars
<1>3. \A b \in Builds : Unmoved(builds[b], builds'[b])
  <2>1. CASE \E b \in Builds : CancelCb(b) \/ Deliver(b)
    BY <1>1, <2>1 DEF CancelCb, Deliver, Unmoved, Build
  <2>2. CASE \/ StartManager \/ Invalidate \/ Close \/ CancelBuilds
             \/ \E p \in Pipelines : SetupStep(p) \/ Load(p) \/ StrategyLoaded(p)
    <3>1. UNCHANGED builds
      BY <2>2 DEF StartManager, Invalidate, Close, CancelBuilds, SetupStep, Load, StrategyLoaded
    <3> QED BY <3>1 DEF Unmoved
  <2> QED BY <2>1, <2>2
<1>4. builds' \in [Builds -> Build]
  <2>1. BuildInv'
    BY StartManagerInv, InvalidateInv, CloseInv, CancelBuildsInv, SetupMoves, AnswerMoves
  <2> QED BY <2>1 DEF BuildInv, BuildTypeOK
<1> QED BY <1>1, <1>2, <1>3, <1>4, QuietStep

\* A request that is served on its own, while those of line wait.
LEMMA MovesAlone ==
    ASSUME NEW p \in Pipelines, NEW b \in Builds, NEW new \in Build, NEW line \in Seq(Builds),
           OneSeen(p, b, new, line)
    PROVE  Line(p)!Moves(b, Seen(p, new), line, {})
<1>1. Line(p)!Keep(line, Builds \ {}) = line
  <2>1. Builds \ {} = Builds /\ Keep(line, Builds) = line
    BY KeepAll
  <2> QED BY <2>1, SameKeep
<1>2. Calls(p)' = [x \in Builds |-> IF x = b THEN Seen(p, new) ELSE Calls(p)[x]] /\ queue'[p] = line
  BY DEF OneSeen, Calls
<1> QED BY <1>1, <1>2 DEF Line!Moves, Calls

LEMMA FlushServes ==
    ASSUME BuildInv, QueueInv, NEW p \in Pipelines, Flush(p)
    PROVE  StepServes
<1>1. /\ BuildTypeOK /\ builds \in [Builds -> Build] /\ queue \in [Pipelines -> Seq(Builds)]
      /\ busy \in [Pipelines -> BOOLEAN] /\ failed \in [Pipelines -> BOOLEAN]
      /\ ~busy[p] /\ queue[p] # << >> /\ queue[p] \in Seq(Builds)
  BY DEF BuildInv, BuildTypeOK, Flush
<1>2. /\ Head(queue[p]) \in Builds /\ Tail(queue[p]) \in Seq(Builds)
      /\ builds[Head(queue[p])].pipe = p /\ builds[Head(queue[p])].step = "queued"
  BY <1>1, HeadOfLine
<1>3. PICK b \in Builds : b = Head(queue[p])
  BY <1>2, Zenon
<1>4. PICK line \in Seq(Builds) : line = Tail(queue[p])
  BY <1>2, Zenon
<1>5. /\ builds[b] \in Build /\ builds[b].pipe = p /\ builds[b].step = "queued" /\ builds[b].told = "none"
      /\ queue' = [queue EXCEPT ![p] = line]
  BY <1>1, <1>2, <1>3, <1>4 DEF Flush, QueueInv
<1>6. \A i \in DOMAIN queue[p] : queue[p][i] = b \/ \E j \in DOMAIN line : line[j] = queue[p][i]
  <2> DEFINE L == queue[p]
  <2>0. L \in Seq(Builds) /\ L # << >> /\ b = Head(L) /\ line = Tail(L)
    BY <1>1, <1>3, <1>4
  <2> HIDE DEF L
  <2>1. \A i \in DOMAIN L : i = 1 \/ (i - 1 \in DOMAIN line /\ line[i - 1] = L[i])
    BY <2>0
  <2>2. ASSUME NEW i \in DOMAIN L, L[i] # b PROVE \E j \in DOMAIN line : line[j] = L[i]
    <3>1. i # 1
      BY <2>0, <2>2
    <3> QED BY <2>1, <3>1, Zenon
  <2> QED BY <2>2 DEF L
<1>7. Seen(p, builds[b]) = Line(p)!At("waiting", "none")
  BY <1>5, SeenHere
<1>8. /\ line = Tail(queue[p]) /\ b = Head(queue[p])
      /\ b \in Configuring(p) <=> builds[b].configures
  BY <1>3, <1>4, <1>7 DEF Configuring, Line!At
<1>9. ASSUME NEW step \in {"refused", "running"}, builds' = [builds EXCEPT ![b].step = step],
             \A q \in Pipelines \ {p} : busy'[q] = busy[q] /\ failed'[q] = failed[q]
      PROVE  /\ QueueInv' /\ \A q \in Pipelines \ {p} : Serves(q)
             /\ Configuring(p)' = Configuring(p)
             /\ step = "refused" => Line(p)!Moves(b, Line(p)!At("returned", "refused"), line, {})
             /\ step = "running" => Line(p)!Moves(b, Line(p)!At("running", "none"), line, {})
  <2>1. PICK new \in Build : new = [builds[b] EXCEPT !.step = step]
    <3>1. [builds[b] EXCEPT !.step = step] \in Build
      BY <1>5 DEF Build, Outcomes
    <3> QED BY <3>1, Zenon
  <2>2. /\ new.step = step /\ new.pipe = p /\ new.told = "none" /\ new.configures = builds[b].configures
        /\ builds' = [builds EXCEPT ![b] = new]
    BY <1>1, <1>5, <1>9, <2>1 DEF Build
  <2>3. OneMoves(p, b, new, line)
    BY <1>5, <1>6, <1>9, <2>2 DEF OneMoves
  <2>4. OneSeen(p, b, new, line)
    BY <1>1, <2>3, OneStep
  <2>5. Line(p)!Moves(b, Seen(p, new), line, {})
    BY <2>4, MovesAlone
  <2>6. /\ step = "refused" => Seen(p, new) = Line(p)!At("returned", "refused")
        /\ step = "running" => Seen(p, new) = Line(p)!At("running", "none")
    BY <2>2, SeenHere DEF Outcomes
  <2>7. Seen(p, builds[b]).place # "idle" /\ Seen(p, new).place # "idle"
    BY <1>7, <2>6, <1>9 DEF Line!At
  <2> QED BY <2>2, <2>4, <2>5, <2>6, <2>7 DEF OneSeen
<1>10. CASE /\ failed[p] /\ builds[b].configures
            /\ builds' = [builds EXCEPT ![b].step = "refused"] /\ UNCHANGED <<busy, failed>>
  <2>1. /\ QueueInv' /\ \A q \in Pipelines \ {p} : Serves(q)
        /\ Configuring(p)' = Configuring(p)
        /\ Line(p)!Moves(b, Line(p)!At("returned", "refused"), line, {})
    BY <1>9, <1>10
  <2>2. Line(p)!Take
    BY <1>1, <1>8, <1>10, <2>1 DEF Line!Take, Line!Refuses, Configuring
  <2> QED BY <2>1, <2>2 DEF StepServes, Serves, Line!Next
<1>11. CASE /\ ~(failed[p] /\ builds[b].configures)
            /\ builds' = [builds EXCEPT ![b].step = "running"]
            /\ busy' = [busy EXCEPT ![p] = TRUE] /\ failed' = [failed EXCEPT ![p] = FALSE]
  <2>1. /\ QueueInv' /\ \A q \in Pipelines \ {p} : Serves(q)
        /\ Configuring(p)' = Configuring(p)
        /\ Line(p)!Moves(b, Line(p)!At("running", "none"), line, {})
    BY <1>1, <1>9, <1>11
  <2>2. busy'[p] = TRUE /\ failed'[p] = FALSE
    BY <1>1, <1>11
  <2>3. {} \in SUBSET Builds /\ Line(p)!At("running", "none") \in Line(p)!Outcomes
    BY DEF Line!Outcomes
  <2>4. Line(p)!Take
    BY <1>1, <1>8, <1>11, <2>1, <2>2, <2>3 DEF Line!Take, Line!Refuses, Configuring
  <2> QED BY <2>1, <2>4 DEF StepServes, Serves, Line!Next
<1>12. \/ failed[p] /\ builds[b].configures /\ builds' = [builds EXCEPT ![b].step = "refused"]
          /\ UNCHANGED <<busy, failed>>
       \/ ~(failed[p] /\ builds[b].configures) /\ builds' = [builds EXCEPT ![b].step = "running"]
          /\ busy' = [busy EXCEPT ![p] = TRUE] /\ failed' = [failed EXCEPT ![p] = FALSE]
  BY <1>3, Zenon DEF Flush
<1> QED BY <1>10, <1>11, <1>12

LEMMA FlushFailsServes ==
    ASSUME BuildInv, QueueInv, NEW p \in Pipelines, FlushFails(p)
    PROVE  StepServes
<1>1. /\ BuildTypeOK /\ builds \in [Builds -> Build] /\ queue \in [Pipelines -> Seq(Builds)]
      /\ ~busy[p] /\ queue[p] # << >> /\ UNCHANGED <<busy, failed>>
  BY DEF BuildInv, BuildTypeOK, FlushFails
<1>2. \A b \in Builds : b \in ToSet(queue[p]) <=> builds[b].pipe = p /\ builds[b].step = "queued"
  <2>1. ASSUME NEW b \in ToSet(queue[p]) PROVE builds[b].pipe = p /\ builds[b].step = "queued"
    BY <2>1 DEF ToSet, BuildInv, LineInv
  <2>2. ASSUME NEW b \in Builds, builds[b].pipe = p, builds[b].step = "queued" PROVE b \in ToSet(queue[p])
    BY <2>2 DEF ToSet, QueueInv
  <2> QED BY <2>1, <2>2
<1> DEFINE Told(b) == Left(builds[b], "error")
<1>3. \A b \in Builds : builds'[b] = IF builds[b].pipe = p /\ builds[b].step = "queued" THEN Told(b)
                                     ELSE builds[b]
  BY <1>2 DEF FlushFails
<1>4. \A b \in Builds : /\ builds[b] \in Build /\ Told(b) \in Build
                        /\ Told(b).step = "left" /\ Told(b).told = "error"
                        /\ Told(b).pipe = builds[b].pipe /\ Told(b).configures = builds[b].configures
  BY <1>1, LeftEffect DEF Outcomes
<1> HIDE DEF Told
<1>5. queue' = [queue EXCEPT ![p] = << >>]
  BY DEF FlushFails
<1>6. QueueInv'
  <2> SUFFICES ASSUME NEW b \in Builds
               PROVE  /\ builds'[b].step = "queued" =>
                            \E i \in DOMAIN queue'[builds'[b].pipe] : queue'[builds'[b].pipe][i] = b
                      /\ builds'[b].step # "left" => builds'[b].told = "none"
    BY DEF QueueInv
  <2>1. CASE builds[b].pipe = p /\ builds[b].step = "queued"
    BY <1>3, <1>4, <2>1
  <2>2. CASE ~(builds[b].pipe = p /\ builds[b].step = "queued")
    <3>1. builds'[b] = builds[b]
      BY <1>3, <2>2
    <3>2. builds[b].step = "queued" => queue'[builds[b].pipe] = queue[builds[b].pipe]
      <4> SUFFICES ASSUME builds[b].step = "queued" PROVE queue'[builds[b].pipe] = queue[builds[b].pipe]
        OBVIOUS
      <4>1. PICK q : q = builds[b].pipe
        OBVIOUS
      <4>2. q # p
        BY <2>2, <4>1
      <4>3. queue'[q] = queue[q]
        BY <1>1, <1>5, <4>2
      <4> QED BY <4>1, <4>3
    <3> QED BY <3>1, <3>2 DEF QueueInv
  <2> QED BY <2>1, <2>2
<1>7. ASSUME NEW q \in Pipelines, q # p PROVE Serves(q)
  <2>1. \A b \in Builds : /\ Seen(q, builds'[b]) = Seen(q, builds[b])
                          /\ Seen(q, builds[b]).place # "idle" => builds'[b].configures = builds[b].configures
    <3> SUFFICES ASSUME NEW b \in Builds
                 PROVE  /\ Seen(q, builds'[b]) = Seen(q, builds[b])
                        /\ Seen(q, builds[b]).place # "idle" => builds'[b].configures = builds[b].configures
      OBVIOUS
    <3>1. CASE builds[b].pipe = p /\ builds[b].step = "queued"
      <4>1. builds'[b] = Told(b) /\ Told(b).pipe # q /\ builds[b].pipe # q
        BY <1>3, <1>4, <1>7, <3>1
      <4>2. Seen(q, builds'[b]) = Seen(q, builds[b])
        BY <1>4, <4>1, SeenIdle
      <4> QED BY <1>4, <4>1, <4>2
    <3>2. CASE ~(builds[b].pipe = p /\ builds[b].step = "queued")
      BY <1>3, <3>2
    <3> QED BY <3>1, <3>2
  <2>2. Calls(q)' = Calls(q) /\ Configuring(q)' = Configuring(q)
    BY <2>1 DEF Calls, Configuring
  <2>3. queue'[q] = queue[q]
    BY <1>1, <1>5, <1>7
  <2> QED BY <1>1, <2>2, <2>3, SameLine DEF Serves
<1>8. \A b \in Builds :
         /\ Seen(p, builds'[b]) = IF Seen(p, builds[b]).place = "waiting" THEN Line(p)!At("answered", "error")
                                  ELSE Seen(p, builds[b])
         /\ builds'[b].configures = builds[b].configures
  <2> SUFFICES ASSUME NEW b \in Builds
               PROVE  /\ Seen(p, builds'[b]) =
                            IF Seen(p, builds[b]).place = "waiting" THEN Line(p)!At("answered", "error")
                            ELSE Seen(p, builds[b])
                      /\ builds'[b].configures = builds[b].configures
    OBVIOUS
  <2>1. Seen(p, builds[b]).place = "waiting" <=> builds[b].pipe = p /\ builds[b].step = "queued"
    BY <1>4 DEF Seen, Place, Outcomes, Build
  <2>2. CASE builds[b].pipe = p /\ builds[b].step = "queued"
    BY <1>3, <1>4, <2>1, <2>2, SeenHere
  <2>3. CASE ~(builds[b].pipe = p /\ builds[b].step = "queued")
    BY <1>3, <2>1, <2>3
  <2> QED BY <2>2, <2>3
<1>9. Calls(p)' = [b \in Builds |-> IF Calls(p)[b].place = "waiting" THEN Line(p)!At("answered", "error")
                                    ELSE Calls(p)[b]]
  BY <1>8 DEF Calls
<1>10. Configuring(p)' = Configuring(p)
  <2>1. \A b \in Builds : Seen(p, builds'[b]).place # "idle" <=> Seen(p, builds[b]).place # "idle"
    BY <1>8 DEF Line!At
  <2> QED BY <1>8, <2>1 DEF Configuring
<1>11. queue'[p] = << >>
  BY <1>1, <1>5
<1>12. Line(p)!Fail
  BY <1>1, <1>9, <1>10, <1>11 DEF Line!Fail, Calls, Configuring
<1> QED BY <1>6, <1>7, <1>12 DEF StepServes, Serves, Line!Next

LEMMA MetServes ==
    ASSUME BuildInv, QueueInv, NEW b \in Builds, Met(b)
    PROVE  StepServes
<1>1. /\ BuildTypeOK /\ builds \in [Builds -> Build] /\ queue \in [Pipelines -> Seq(Builds)]
      /\ builds[b].step = "queued" /\ builds[b].pipe \in Pipelines /\ UNCHANGED <<busy, failed>>
      /\ builds[b] \in Build
  BY DEF BuildInv, BuildTypeOK, Met, PipeInv, Build, managerVars
<1>2. PICK p \in Pipelines : p = builds[b].pipe
  BY <1>1, Zenon
<1>3. PICK c \in Builds : builds[c].pipe = p /\ builds[c].step = "running"
  BY <1>2 DEF Met
<1> DEFINE S == Builds \ {b}
<1>4. PICK L \in Seq(Builds) : L = queue[p]
  <2>1. queue[p] \in Seq(Builds)
    BY <1>1
  <2> QED BY <2>1, Zenon
<1>5. PICK line \in Seq(Builds) : line = Keep(L, S)
  <2> HIDE DEF S
  <2>1. Keep(L, S) \in Seq(Builds)
    BY KeepProperties
  <2> QED BY <2>1, Zenon
<1>6. PICK new \in Build : new = Left(builds[b], "done")
  <2>1. Left(builds[b], "done") \in Build
    BY <1>1, LeftEffect DEF Outcomes
  <2> QED BY <2>1, Zenon
<1>7. /\ new.step = "left" /\ new.told = "done" /\ new.pipe = p /\ new.configures = builds[b].configures
      /\ builds' = [builds EXCEPT ![b] = new]
      /\ queue' = [queue EXCEPT ![p] = line]
  BY <1>1, <1>2, <1>4, <1>5, <1>6, LeftEffect DEF Met, Outcomes
<1>8. \A i \in DOMAIN L : L[i] = b \/ \E j \in DOMAIN line : line[j] = L[i]
  <2> SUFFICES ASSUME NEW i \in DOMAIN L, L[i] # b PROVE \E j \in DOMAIN line : line[j] = L[i]
    OBVIOUS
  <2>1. L[i] \in S
    OBVIOUS
  <2> HIDE DEF S
  <2> QED BY <1>5, <2>1, KeepMembers
<1>9. OneMoves(p, b, new, line)
  BY <1>1, <1>2, <1>4, <1>7, <1>8 DEF OneMoves
<1>10. OneSeen(p, b, new, line)
  BY <1>1, <1>9, OneStep
<1>11. /\ Seen(p, builds[b]) = Line(p)!At("waiting", "none")
       /\ Seen(p, builds[c]) = Line(p)!At("running", "none")
       /\ Seen(p, new) = Line(p)!At("answered", "done")
  BY <1>1, <1>2, <1>3, <1>7, SeenHere DEF QueueInv
<1>12. Configuring(p)' = Configuring(p)
  BY <1>7, <1>10, <1>11 DEF OneSeen, Line!At
<1>13. Line(p)!Moves(c, Line(p)!At("running", "none"), L, {b})
  <2>1. {b} \subseteq {L[i] : i \in DOMAIN L}
    BY <1>1, <1>2, <1>4 DEF QueueInv
  <2>2. line = Line(p)!Keep(L, Builds \ {b})
    BY <1>5, SameKeep
  <2>3. b # c
    BY <1>1, <1>3
  <2>4. Calls(p)' = [x \in Builds |-> IF x = c THEN Line(p)!At("running", "none")
                                      ELSE IF x \in {b} THEN Line(p)!At("answered", "done")
                                      ELSE Calls(p)[x]]
    BY <1>10, <1>11, <2>3 DEF OneSeen, Calls
  <2>5. queue'[p] = line
    BY <1>10 DEF OneSeen
  <2> QED BY <2>1, <2>2, <2>4, <2>5 DEF Line!Moves, Calls
<1>14. Line(p)!Advance(c)
  <2>1. /\ Calls(p)[c].place = "running" /\ {b} \in SUBSET Builds
        /\ Line(p)!At("running", "none") \in Line(p)!Outcomes
    BY <1>11 DEF Calls, Line!At, Line!Outcomes
  <2>2. busy'[p] = busy[p] /\ failed'[p] = failed[p]
    BY <1>1
  <2> QED BY <1>4, <1>12, <1>13, <2>1, <2>2 DEF Line!Advance, Calls, Configuring
<1> QED BY <1>10, <1>14 DEF OneSeen, StepServes, Serves, Line!Next

LEMMA FinishServes ==
    ASSUME BuildInv, QueueInv, NEW b \in Builds, Finish(b)
    PROVE  StepServes
<1>1. /\ BuildTypeOK /\ builds \in [Builds -> Build] /\ queue \in [Pipelines -> Seq(Builds)]
      /\ failed \in [Pipelines -> BOOLEAN]
      /\ builds[b].step = "running" /\ builds[b].pipe \in Pipelines /\ UNCHANGED <<queue, busy>>
      /\ builds[b] \in Build /\ builds[b].told = "none"
  BY DEF BuildInv, BuildTypeOK, Finish, PipeInv, Build, QueueInv
<1>2. PICK p \in Pipelines : p = builds[b].pipe
  BY <1>1, Zenon
<1>3. PICK line \in Seq(Builds) : line = queue[p]
  <2>1. queue[p] \in Seq(Builds)
    BY <1>1
  <2> QED BY <2>1, Zenon
<1>4. queue' = [queue EXCEPT ![p] = line]
  BY <1>1, <1>3
<1>5. Seen(p, builds[b]) = Line(p)!At("running", "none")
  BY <1>1, <1>2, SeenHere
<1>6. ASSUME NEW step \in {"done", "error", "lost"}, builds' = [builds EXCEPT ![b].step = step],
             \A q \in Pipelines \ {p} : failed'[q] = failed[q]
      PROVE  /\ QueueInv' /\ \A q \in Pipelines \ {p} : Serves(q)
             /\ Configuring(p)' = Configuring(p)
             /\ step # "lost" => Line(p)!Moves(b, Line(p)!At("returned", step), line, {})
             /\ step = "lost" => Line(p)!Moves(b, Line(p)!At("lost", "none"), line, {})
  <2>1. PICK new \in Build : new = [builds[b] EXCEPT !.step = step]
    <3>1. [builds[b] EXCEPT !.step = step] \in Build
      BY <1>1 DEF Build, Outcomes
    <3> QED BY <3>1, Zenon
  <2>2. /\ new.step = step /\ new.pipe = p /\ new.told = "none" /\ new.configures = builds[b].configures
        /\ builds' = [builds EXCEPT ![b] = new]
    BY <1>1, <1>2, <1>6, <2>1 DEF Build
  <2>3. OneMoves(p, b, new, line)
    BY <1>1, <1>2, <1>3, <1>4, <1>6, <2>2 DEF OneMoves
  <2>4. OneSeen(p, b, new, line)
    BY <1>1, <2>3, OneStep
  <2>5. Line(p)!Moves(b, Seen(p, new), line, {})
    BY <2>4, MovesAlone
  <2>6. /\ step # "lost" => Seen(p, new) = Line(p)!At("returned", step)
        /\ step = "lost" => Seen(p, new) = Line(p)!At("lost", "none")
    BY <2>2, SeenHere DEF Outcomes
  <2>7. Seen(p, builds[b]).place # "idle" /\ Seen(p, new).place # "idle"
    BY <1>5, <2>6 DEF Line!At
  <2> QED BY <2>2, <2>4, <2>5, <2>6, <2>7 DEF OneSeen
<1>7. Calls(p)[b].place = "running" /\ busy'[p] = busy[p] /\ line = queue[p]
  BY <1>1, <1>3, <1>5 DEF Calls, Line!At
\* It runs to its end, or fails while the pipeline has not.
<1>8. ASSUME NEW step \in {"done", "error"}, builds' = [builds EXCEPT ![b].step = step],
             \A q \in Pipelines : failed'[q] = failed[q]
      PROVE  StepServes
  <2>1. /\ QueueInv' /\ \A q \in Pipelines \ {p} : Serves(q)
        /\ Configuring(p)' = Configuring(p)
        /\ Line(p)!Moves(b, Line(p)!At("returned", step), line, {})
    BY <1>6, <1>8
  <2>2. {} \in SUBSET Builds /\ Line(p)!At("returned", step) \in Line(p)!Outcomes
    BY DEF Line!Outcomes
  <2>3. Line(p)!Advance(b)
    BY <1>7, <1>8, <2>1, <2>2 DEF Line!Advance, Calls, Configuring
  <2> QED BY <2>1, <2>3 DEF StepServes, Serves, Line!Next
<1>9. ASSUME failed[p], builds' = [builds EXCEPT ![b].step = "lost"], UNCHANGED failed PROVE StepServes
  <2>1. /\ QueueInv' /\ \A q \in Pipelines \ {p} : Serves(q)
        /\ Configuring(p)' = Configuring(p)
        /\ Line(p)!Moves(b, Line(p)!At("lost", "none"), line, {})
    BY <1>6, <1>9
  <2>2. Line(p)!Break(b)
    BY <1>7, <1>9, <2>1 DEF Line!Break, Calls, Configuring
  <2> QED BY <2>1, <2>2 DEF StepServes, Serves, Line!Next
<1>10. ASSUME builds' = [builds EXCEPT ![b].step = "error"], failed'[p] = TRUE,
              \A q \in Pipelines \ {p} : failed'[q] = failed[q]
       PROVE  StepServes
  <2>1. /\ QueueInv' /\ \A q \in Pipelines \ {p} : Serves(q)
        /\ Configuring(p)' = Configuring(p)
        /\ Line(p)!Moves(b, Line(p)!At("returned", "error"), line, {})
    BY <1>6, <1>10
  <2>2. Line(p)!Break(b)
    BY <1>7, <1>10, <2>1 DEF Line!Break, Calls, Configuring
  <2> QED BY <2>1, <2>2 DEF StepServes, Serves, Line!Next
<1>11. CASE builds' = [builds EXCEPT ![b].step = "done"] /\ UNCHANGED failed
  BY <1>8, <1>11
<1>12. CASE /\ builds' = [builds EXCEPT ![b].step = "error"]
            /\ \E f \in BOOLEAN : failed' = [failed EXCEPT ![p] = @ \/ f]
  <2>1. PICK f \in BOOLEAN : failed' = [failed EXCEPT ![p] = @ \/ f]
    BY <1>12
  <2>2. \A q \in Pipelines \ {p} : failed'[q] = failed[q]
    BY <1>1, <2>1
  <2>3. failed'[p] = (failed[p] \/ f)
    BY <1>1, <2>1
  <2>4. CASE failed[p] \/ f
    <3>1. failed'[p] = TRUE
      BY <2>3, <2>4, Zenon
    <3> QED BY <1>10, <1>12, <2>2, <3>1
  <2>5. CASE ~(failed[p] \/ f)
    <3>1. failed[p] = FALSE /\ failed'[p] = FALSE
      <4>1. failed[p] \in BOOLEAN
        BY <1>1
      <4> QED BY <2>3, <2>5, <4>1, Zenon
    <3>2. failed'[p] = failed[p]
      BY <3>1
    <3>3. \A q \in Pipelines : failed'[q] = failed[q]
      BY <2>2, <3>2
    <3> QED BY <1>8, <1>12, <3>3
  <2> QED BY <2>4, <2>5
<1> QED BY <1>2, <1>9, <1>11, <1>12 DEF Finish

LEMMA CompleteServes ==
    ASSUME BuildInv, QueueInv, NEW b \in Builds, Complete(b)
    PROVE  StepServes
<1>1. /\ BuildTypeOK /\ builds \in [Builds -> Build] /\ queue \in [Pipelines -> Seq(Builds)]
      /\ busy \in [Pipelines -> BOOLEAN]
      /\ builds[b].step \in Outcomes /\ builds[b].pipe \in Pipelines /\ UNCHANGED <<queue, failed>>
      /\ builds[b] \in Build
  BY DEF BuildInv, BuildTypeOK, Complete, PipeInv, Build, Outcomes
<1>2. PICK p \in Pipelines : p = builds[b].pipe
  BY <1>1, Zenon
<1>3. PICK line \in Seq(Builds) : line = queue[p]
  <2>1. queue[p] \in Seq(Builds)
    BY <1>1
  <2> QED BY <2>1, Zenon
<1>4. PICK step \in Outcomes : step = builds[b].step
  BY <1>1, Zenon
<1>5. PICK new \in Build : new = Left(builds[b], step)
  <2>1. Left(builds[b], step) \in Build
    BY <1>1, LeftEffect
  <2> QED BY <2>1, Zenon
<1>6. /\ new.step = "left" /\ new.told = step /\ new.pipe = p /\ new.configures = builds[b].configures
      /\ builds' = [builds EXCEPT ![b] = new]
      /\ busy' = [busy EXCEPT ![p] = FALSE]
      /\ queue' = [queue EXCEPT ![p] = line]
  BY <1>1, <1>2, <1>3, <1>4, <1>5, LeftEffect DEF Complete
<1>7. OneMoves(p, b, new, line)
  BY <1>1, <1>2, <1>3, <1>6 DEF OneMoves
<1>8. OneSeen(p, b, new, line)
  BY <1>1, <1>7, OneStep
<1>9. /\ Seen(p, builds[b]) = Line(p)!At("returned", step)
      /\ Seen(p, new) = Line(p)!At("answered", step)
  BY <1>1, <1>2, <1>4, <1>6, SeenHere
<1>10. /\ Calls(p)[b] = Line(p)!At("returned", step)
       /\ Calls(p)' = [Calls(p) EXCEPT ![b] = Line(p)!At("answered", step)]
       /\ Configuring(p)' = Configuring(p)
  BY <1>6, <1>8, <1>9 DEF OneSeen, Calls, Line!At
<1>11. Calls(p)' = [Calls(p) EXCEPT ![b].place = "answered"]
  <2>1. [Line(p)!At("returned", step) EXCEPT !.place = "answered"] = Line(p)!At("answered", step)
    BY DEF Line!At
  <2> QED BY <1>10, <2>1, Zenon
<1>12. Calls(p)[b].place = "returned"
  BY <1>10 DEF Line!At
<1>13. busy'[p] = FALSE /\ queue'[p] = queue[p] /\ failed'[p] = failed[p]
  BY <1>1, <1>6
<1>14. Line(p)!Complete(b)
  BY <1>10, <1>11, <1>12, <1>13 DEF Line!Complete, Calls, Configuring
<1> QED BY <1>8, <1>14 DEF OneSeen, StepServes, Serves, Line!Next

LEMMA QueueStep ==
    ASSUME BuildInv, QueueInv, [BuildNext]_buildVars
    PROVE  StepServes
<1>1. CASE \/ StartManager \/ Invalidate \/ Close \/ CancelBuilds
           \/ \E p \in Pipelines : SetupStep(p) \/ Load(p) \/ StrategyLoaded(p)
           \/ \E b \in Builds : CancelCb(b) \/ Deliver(b)
  BY <1>1, ManagerServes
<1>2. ASSUME NEW p \in Pipelines, Serve(p) PROVE StepServes
  BY <1>1, <1>2, FlushServes, FlushFailsServes DEF Serve
<1>3. ASSUME NEW b \in Builds, Work(b) PROVE StepServes
  BY <1>1, <1>3, PreparedServes, MetServes, FinishServes, CompleteServes DEF Work
<1>4. ASSUME NEW b \in Builds \ Keeping, Request(b) PROVE StepServes
  BY <1>4, RequestServes
<1>5. CASE UNCHANGED buildVars
  <2>1. UNCHANGED <<builds, queue, busy, failed>>
    BY <1>5 DEF buildVars, pipelineVars
  <2>2. BuildTypeOK /\ builds' \in [Builds -> Build] /\ \A b \in Builds : Unmoved(builds[b], builds'[b])
    BY <2>1 DEF BuildInv, BuildTypeOK, Unmoved
  <2> QED BY <2>1, <2>2, QuietStep
<1> QED BY <1>1, <1>2, <1>3, <1>4, <1>5 DEF BuildNext

LEMMA QueueStart ==
    ASSUME BuildInit
    PROVE  QueueInv /\ \A p \in Pipelines : Line(p)!Init
<1>1. QueueInv
  BY DEF BuildInit, QueueInv
<1>2. ASSUME NEW p \in Pipelines PROVE Line(p)!Init
  <2>1. \A b \in Builds : Seen(p, builds[b]) = Line(p)!At("idle", "none")
    BY DEF BuildInit, Seen, Line!At
  <2>2. /\ Calls(p) = [b \in Builds |-> Line(p)!At("idle", "none")]
        /\ Configuring(p) = {}
    BY <2>1 DEF Calls, Configuring, Line!At
  <2>3. queue[p] = << >> /\ busy[p] = FALSE /\ failed[p] = FALSE
    BY DEF BuildInit
  <2> QED BY <2>2, <2>3 DEF Line!Init, Calls, Configuring
<1> QED BY <1>1, <1>2

\* Each of the pipelines the manager makes, the current one and those it has
\* replaced, serves the requests made of it as RequestQueue says: the queue
\* that IdePipeline was shown to be.
THEOREM QueuesServe == BuildSpec => PipelinesServe
<1>1. BuildInit => QueueInv /\ \A p \in Pipelines : Line(p)!Init
  BY QueueStart
<1>2. BuildInv /\ QueueInv /\ [BuildNext]_buildVars => QueueInv'
  BY QueueStep DEF StepServes
<1>3. BuildInv /\ QueueInv /\ [BuildNext]_buildVars
         => [\A p \in Pipelines : [Line(p)!Next]_(Line(p)!vars)]_buildVars
  BY QueueStep DEF StepServes, Serves
<1> QED BY <1>1, <1>2, <1>3, BuildAlways, PTL DEF BuildSpec, PipelinesServe

\* The same, of one pipeline: the manager implements its queue.
THEOREM LineServes == ASSUME NEW p \in Pipelines PROVE BuildSpec => Line(p)!Spec
<1>1. BuildInit => QueueInv /\ Line(p)!Init
  BY QueueStart
<1>2. BuildInv /\ QueueInv /\ [BuildNext]_buildVars => QueueInv' /\ [Line(p)!Next]_(Line(p)!vars)
  BY QueueStep DEF StepServes, Serves
<1> QED BY <1>1, <1>2, BuildAlways, PTL DEF BuildSpec, Line!Spec

-----------------------------------------------------------------------------
(***************************************************************************)
(* The inductive invariant of the run manager.                             *)
(***************************************************************************)

\* The counter is 1 when one run is under way and 0 when none is.
ActiveInv ==
    /\ active \in {0, 1}
    /\ active = 0 => \A r \in Runs : ~UnderWay(r)
    /\ active = 1 => \E r \in Runs : UnderWay(r) /\ \A s \in Runs : UnderWay(s) => s = r
    /\ current # NoRun => runs[current].step = "waiting"

\* A run that is under way and has asked for its install is cancelled, or
\* chained to the build manager and made for the pipeline of now.
JoinInv ==
    \A r \in Runs : UnderWay(r) /\ builds[r].step # "new" =>
        r \in cancelled \/ (r \in chained /\ runs[r].pipe = pipeline)

\* A run asks for its install when it starts, if at all, and waits for it.
InstallInv ==
    \A r \in Runs :
        /\ runs[r].step = "new" => builds[r].step = "new"
        /\ runs[r].step \notin {"new", "installing"} /\ builds[r].step # "new"
              => builds[r].answer # "none"

RunInv == BuildInv /\ TypeOK /\ ActiveInv /\ JoinInv /\ InstallInv

USE RunManagerAssumption

LEMMA RunStart == Init => RunInv
<1> SUFFICES ASSUME Init PROVE RunInv
  OBVIOUS
<1>1. BuildInv /\ BuildTypeOK
  BY BuildStart DEF Init, BuildInv
<1>2. runs \in [Runs -> Run] /\ process \in [Runs -> {"none", "running", "signalled", "killed", "exited"}]
  BY DEF Init, Run
<1>3. sentSignal \in BOOLEAN
  BY Zenon DEF Init
<1>4. TypeOK
  BY <1>1, <1>2, <1>3 DEF TypeOK, Init
<1>5. ActiveInv /\ JoinInv /\ InstallInv
  BY DEF ActiveInv, JoinInv, InstallInv, UnderWay, Init, BuildInit
<1> QED BY <1>1, <1>4, <1>5 DEF RunInv

\* Cancellables change, and nothing else does.
LEMMA CancelOnly ==
    ASSUME BuildInv, UNCHANGED <<managerVars, setupVars, builds, pipelineVars>>,
           cancelled' \subseteq Builds, chained' \subseteq Builds, WaitInv'
    PROVE  BuildInv'
<1>1. UNCHANGED <<life, pipeline, made, canBuild, building, timer, setup, strategy, builds,
                  queue, busy, failed, refused>>
  BY DEF managerVars, setupVars, pipelineVars
<1> USE DEF BuildInv
<1>2. BuildTypeOK' /\ LifeInv' /\ PipeInv' /\ WorkInv' /\ CanBuildIsSetUp'
  BY <1>1 DEF BuildTypeOK, LifeInv, PipeInv, WorkInv, CanBuildIsSetUp
<1>3. LineInv' /\ BuildingIsReal'
  BY <1>1 DEF LineInv, Injective, BuildingIsReal, Occupies
<1> QED BY <1>2, <1>3

\* What the build manager does with the request and the cancellable of a
\* caller that keeps it.
LEMMA KeepingMoves ==
    ASSUME BuildInv, BuildNext, NEW r \in Keeping
    PROVE  /\ builds[r].step = "new" => builds'[r].step = "new"
           /\ builds[r].answer # "none" => builds'[r].answer # "none"
           /\ r \in cancelled => r \in cancelled'
           /\ r \in chained => r \in cancelled' \/ (r \in chained' /\ pipeline' = pipeline)
<1>1. builds \in [Builds -> Build] /\ r \in Builds
  BY DEF BuildInv, BuildTypeOK
<1>2. CASE StartManager \/ Invalidate \/ Close \/ CancelBuilds
  BY <1>2 DEF StartManager, Invalidate, Close, CancelBuilds, Discard, CancelAll
<1>3. ASSUME NEW p \in Pipelines, Serve(p)
      PROVE  builds[r].step = "new" => builds'[r].step = "new"
  <2>1. CASE Flush(p) /\ queue[p] # << >>
    <3>1. Head(queue[p]) \in Builds /\ builds[Head(queue[p])].step = "queued"
      BY <2>1, HeadOfLine
    <3>2. builds[r].step = "new" => builds'[r] = builds[r]
      BY <1>1, <2>1, <3>1 DEF Flush
    <3> QED BY <3>2
  <2>2. CASE FlushFails(p)
    <3>1. \A i \in DOMAIN queue[p] : builds[queue[p][i]].step = "queued"
      BY DEF BuildInv, LineInv
    <3>2. builds[r].step = "new" => r \notin ToSet(queue[p])
      BY <3>1 DEF ToSet
    <3>3. builds' = [b \in Builds |-> IF b \in ToSet(queue[p]) THEN Left(builds[b], "error") ELSE builds[b]]
      BY <2>2 DEF FlushFails
    <3> HIDE DEF ToSet
    <3> QED BY <1>1, <3>2, <3>3
  <2>3. CASE SetupStep(p) \/ Load(p) \/ StrategyLoaded(p)
    BY <2>3 DEF SetupStep, Load, StrategyLoaded
  <2> QED BY <1>3, <2>1, <2>2, <2>3 DEF Serve, Flush
<1>4. ASSUME NEW p \in Pipelines, Serve(p) PROVE UNCHANGED <<cancelled, chained, pipeline>>
  BY <1>4 DEF Serve, SetupStep, Load, StrategyLoaded, Flush, FlushFails, Heard, cancelVars, managerVars
<1>5. ASSUME NEW b \in Builds, Work(b)
      PROVE  /\ builds[r].step = "new" => builds'[r].step = "new"
             /\ r \in cancelled => r \in cancelled'
             /\ r \in chained => r \in chained' /\ pipeline' = pipeline
  <2>1. CASE CancelCb(b) \/ Deliver(b)
    <3>1. builds'[r].step = builds[r].step
      BY <1>1, <2>1 DEF CancelCb, Deliver, Build
    <3>2. /\ r \in cancelled => r \in cancelled'
          /\ r \in chained => r \in chained'
          /\ pipeline' = pipeline
      BY <2>1 DEF CancelCb, Deliver, cancelVars, managerVars
    <3> QED BY <3>1, <3>2
  <2>2. CASE Prepared(b) \/ Met(b) \/ Finish(b) \/ Complete(b)
    <3>1. builds[b].step # "new" /\ UNCHANGED <<cancelled, chained, pipeline>>
      BY <2>2 DEF Prepared, Met, Finish, Complete, Heard, cancelVars, managerVars, Outcomes
    <3>2. b # r => builds'[r] = builds[r]
      BY <1>1, <2>2 DEF Prepared, Submit, Met, Finish, Complete
    <3> QED BY <3>1, <3>2
  <2> QED BY <1>5, <2>1, <2>2 DEF Work
<1>6. ASSUME NEW b \in Builds \ Keeping, Request(b)
      PROVE  /\ builds[r].step = "new" => builds'[r].step = "new"
             /\ r \in cancelled => r \in cancelled'
             /\ r \in chained => r \in chained' /\ pipeline' = pipeline
  <2>1. b # r
    OBVIOUS
  <2>2. builds'[r] = builds[r]
    BY <1>1, <1>6, <2>1 DEF Request, BuildAsync, CleanAsync, Submit
  <2>3. cancelled' = cancelled /\ chained' = chained \cup {b} /\ pipeline' = pipeline
    BY <1>6 DEF Request, BuildAsync, CleanAsync, managerVars
  <2> QED BY <2>2, <2>3
<1>7. builds[r].answer # "none" => builds'[r].answer # "none"
  <2>1. CASE Deliver(r)
    BY <1>1, <2>1 DEF Deliver
  <2>2. CASE ~Deliver(r)
    BY <1>1, <2>2, AnswersKept
  <2> QED BY <2>1, <2>2
<1> QED BY <1>2, <1>3, <1>4, <1>5, <1>6, <1>7 DEF BuildNext

\* The build manager moves alone.
LEMMA ManagerInv ==
    ASSUME RunInv, BuildNext \/ UNCHANGED buildVars, UNCHANGED runVars
    PROVE  RunInv'
<1> USE DEF RunInv
<1>1. BuildInv'
  BY BuildStep
<1>2. UNCHANGED <<runs, active, current, sentSignal, stoppable, stopping, process, aborted>>
  BY DEF runVars
<1>3. BuildTypeOK'
  BY <1>1 DEF BuildInv
<1>4. TypeOK' /\ ActiveInv'
  BY <1>2, <1>3 DEF TypeOK, ActiveInv, UnderWay
<1>5. \A r \in Runs : /\ builds[r].step = "new" => builds'[r].step = "new"
                      /\ builds[r].answer # "none" => builds'[r].answer # "none"
                      /\ r \in cancelled => r \in cancelled'
                      /\ r \in chained => r \in cancelled' \/ (r \in chained' /\ pipeline' = pipeline)
  <2>1. CASE BuildNext
    BY <2>1, KeepingMoves
  <2>2. CASE UNCHANGED buildVars
    BY <2>2 DEF buildVars, cancelVars, managerVars
  <2> QED BY <2>1, <2>2
<1>6. JoinInv' /\ InstallInv'
  BY <1>2, <1>5 DEF JoinInv, InstallInv, UnderWay
<1> QED BY <1>1, <1>4, <1>6

-----------------------------------------------------------------------------
(***************************************************************************)
(* The steps of the run manager.                                           *)
(***************************************************************************)

\* A run that is under way and goes on, or returns.
GoesOnRun(r) == InstallCb(r) \/ RunInstallCb(r) \/ DiscoverCb(r) \/ DeployCb(r) \/ WaitCb(r)

LEMMA GoesOnEffect ==
    ASSUME RunInv, NEW r \in Runs, GoesOnRun(r)
    PROVE  /\ runs' \in [Runs -> Run]
           /\ \A s \in Runs : s # r => runs'[s] = runs[s]
           /\ runs'[r].pipe = runs[r].pipe
           /\ runs[r].step \notin {"new", "returned", "ended"}
           /\ runs'[r].step \notin {"new", "installing", "ended"}
<1>1. runs \in [Runs -> Run] /\ runs[r] \in Run
  BY DEF RunInv, TypeOK
<1>2. runs[r].step \in {"installing", "installed", "discovering", "deploying", "waiting"}
  BY DEF GoesOnRun, InstallCb, RunInstallCb, DiscoverCb, DeployCb, WaitCb
<1>3. CASE InstallCb(r)
  <2>1. (builds[r].answer = "done") \in BOOLEAN
    BY Zenon
  <2> DEFINE ok == builds[r].answer = "done"
  <2>2. runs' = [runs EXCEPT ![r] = [runs[r] EXCEPT !.step = "installed", !.ok = ok]]
    BY <1>1, <1>3 DEF InstallCb
  <2> HIDE DEF ok
  <2>3. ok \in BOOLEAN
    BY <2>1 DEF ok
  <2> QED BY <1>1, <1>2, <2>2, <2>3 DEF Run
<1>4. CASE ~InstallCb(r) /\ runs' = runs
  <2>1. runs[r].step # "installing"
    BY <1>4 DEF GoesOnRun, RunInstallCb, DiscoverCb, DeployCb, WaitCb
  <2> QED BY <1>1, <1>2, <1>4, <2>1
<1>5. CASE ~InstallCb(r) /\ runs' # runs
  <2>1. \E step \in {"discovering", "deploying", "waiting", "returned"} : Moved(r, step)
    BY <1>5 DEF GoesOnRun, RunInstallCb, DiscoverCb, DeployCb, WaitCb
  <2>2. PICK step \in {"discovering", "deploying", "waiting", "returned"} :
            runs' = [runs EXCEPT ![r] = [runs[r] EXCEPT !.step = step]]
    BY <1>1, <2>1 DEF Moved
  <2> QED BY <1>1, <1>2, <2>2 DEF Run
<1> QED BY <1>3, <1>4, <1>5

LEMMA GoesOnRunInv == ASSUME RunInv, NEW r \in Runs, GoesOnRun(r) PROVE RunInv'
<1> USE DEF RunInv
<1>1. UNCHANGED buildVars /\ UNCHANGED <<active, sentSignal, stoppable, stopping>>
  BY DEF GoesOnRun, InstallCb, RunInstallCb, DiscoverCb, DeployCb, WaitCb
<1>2. BuildInv' /\ UNCHANGED <<builds, cancelled, chained, pipeline>>
  BY <1>1, BuildStutter DEF buildVars, cancelVars, managerVars
<1>3. /\ runs' \in [Runs -> Run]
      /\ \A s \in Runs : s # r => runs'[s] = runs[s]
      /\ runs'[r].pipe = runs[r].pipe
      /\ runs[r].step \notin {"new", "returned", "ended"}
      /\ runs'[r].step \notin {"new", "installing", "ended"}
  <2> HIDE DEF RunInv
  <2> QED BY GoesOnEffect
<1>4. /\ process' \in [Runs -> {"none", "running", "signalled", "killed", "exited"}]
      /\ aborted' \in {"no", "context", "strategy"}
      /\ current' \in Runs \cup {NoRun}
  BY DEF GoesOnRun, InstallCb, RunInstallCb, DiscoverCb, DeployCb, WaitCb, TypeOK, Failing
<1>5. TypeOK'
  BY <1>1, <1>2, <1>3, <1>4 DEF TypeOK, BuildInv
<1>6. \A s \in Runs : UnderWay(s)' <=> UnderWay(s)
  BY <1>3 DEF UnderWay
<1>7. current' # NoRun => runs'[current'].step = "waiting"
  <2>1. CASE DeployCb(r)
    <3>1. runs \in [Runs -> Run] /\ runs[r].step = "deploying"
      BY <2>1 DEF DeployCb, TypeOK
    <3>2. CASE current' = r /\ Moved(r, "waiting")
      BY <3>1, <3>2 DEF Moved, Run
    <3>3. CASE current' = current
      BY <1>3, <3>1, <3>3 DEF ActiveInv, TypeOK
    <3> QED BY <2>1, <3>2, <3>3 DEF DeployCb
  <2>2. CASE WaitCb(r)
    BY <2>2 DEF WaitCb
  <2>3. CASE InstallCb(r) \/ RunInstallCb(r) \/ DiscoverCb(r)
    <3>1. runs[r].step # "waiting" /\ current' = current
      BY <2>3 DEF InstallCb, RunInstallCb, DiscoverCb
    <3> QED BY <1>3, <3>1 DEF ActiveInv, TypeOK
  <2> QED BY <2>1, <2>2, <2>3 DEF GoesOnRun
<1>8. ActiveInv'
  BY <1>1, <1>6, <1>7 DEF ActiveInv
<1>9. JoinInv'
  <2>1. \A s \in Runs : runs'[s].pipe = runs[s].pipe
    BY <1>3
  <2> QED BY <1>2, <1>6, <2>1 DEF JoinInv
<1>10. InstallInv'
  <2>1. builds[r].step # "new" => builds[r].answer # "none"
    <3>1. CASE InstallCb(r)
      BY <3>1 DEF InstallCb
    <3>2. CASE ~InstallCb(r)
      <4>1. runs[r].step \notin {"new", "installing"}
        BY <3>2 DEF GoesOnRun, RunInstallCb, DiscoverCb, DeployCb, WaitCb
      <4> QED BY <4>1 DEF InstallInv
    <3> QED BY <3>1, <3>2
  <2> QED BY <1>2, <1>3, <2>1 DEF InstallInv
<1> QED BY <1>2, <1>5, <1>8, <1>9, <1>10

LEMMA EndedInv == ASSUME RunInv, NEW r \in Runs, Ended(r) PROVE RunInv'
<1> USE DEF RunInv
<1>1. /\ runs[r].step = "returned" /\ runs \in [Runs -> Run]
      /\ runs' = [runs EXCEPT ![r] = [runs[r] EXCEPT !.step = "ended"]]
      /\ cancelled' = cancelled \ {r} /\ chained' = chained \ {r}
      /\ stoppable' = stoppable \ {r} /\ stopping' = stopping \ {r}
      /\ active' = active - 1
      /\ UNCHANGED <<managerVars, setupVars, builds, pipelineVars, current, sentSignal, process, aborted>>
  BY DEF Ended, Unchained, Moved, UnmarkBusy, TypeOK
<1>2. pipeline' = pipeline
  BY <1>1 DEF managerVars
<1>3. /\ runs' \in [Runs -> Run] /\ runs'[r].step = "ended"
      /\ \A s \in Runs : s # r => runs'[s] = runs[s]
  BY <1>1 DEF Run
<1>4. WaitInv'
  <2>1. builds[r].step # "new" => builds[r].answer # "none"
    BY <1>1 DEF InstallInv
  <2>2. \A b \in Builds : b # r => (b \in cancelled' <=> b \in cancelled) /\ (b \in chained' <=> b \in chained)
    BY <1>1
  <2> QED BY <1>1, <1>2, <2>1, <2>2 DEF BuildInv, WaitInv
<1>5. BuildInv'
  <2>1. cancelled' \subseteq Builds /\ chained' \subseteq Builds
    BY <1>1 DEF BuildInv, BuildTypeOK
  <2> HIDE DEF RunInv
  <2> QED BY <1>1, <1>4, <2>1, CancelOnly DEF RunInv
<1>6. active = 1 /\ UnderWay(r)
  BY <1>1 DEF ActiveInv, UnderWay
<1>7. active' = 0 /\ \A s \in Runs : ~UnderWay(s)'
  <2>1. \A s \in Runs : UnderWay(s) => s = r
    BY <1>6 DEF ActiveInv
  <2>2. \A s \in Runs : ~UnderWay(s)'
    BY <1>3, <2>1 DEF UnderWay
  <2> QED BY <1>1, <1>6, <2>2
<1>8. TypeOK'
  BY <1>1, <1>3, <1>5, <1>7 DEF TypeOK, BuildInv
<1>9. current' # NoRun => runs'[current'].step = "waiting"
  BY <1>1, <1>3 DEF ActiveInv, TypeOK
<1>10. ActiveInv'
  BY <1>7, <1>9 DEF ActiveInv
<1>11. JoinInv' /\ InstallInv'
  <2>1. builds[r].step # "new" => builds[r].answer # "none"
    BY <1>1 DEF InstallInv
  <2> QED BY <1>1, <1>3, <1>7, <2>1 DEF JoinInv, InstallInv
<1> QED BY <1>5, <1>8, <1>10, <1>11

\* A run that starts is the only one, and asks for its install or for nothing.
LEMMA RunAsyncInv ==
    ASSUME RunInv, NEW r \in Runs, NEW installs \in BOOLEAN, RunAsync(r, installs)
    PROVE  RunInv'
<1> USE DEF RunInv
<1>1. /\ runs[r].step = "new" /\ runs \in [Runs -> Run] /\ runs[r] \in Run /\ r \in Builds
      /\ pipeline \in 0..MaxPipelines
      /\ sentSignal' = FALSE /\ UNCHANGED <<current, stopping, process, aborted>>
  BY DEF RunAsync, TypeOK, BuildTypeOK
<1>2. sentSignal' \in BOOLEAN
  BY <1>1, Zenon
<1>3. /\ \A s \in Runs : s # r /\ UnderWay(s) => active = 1
      /\ current # NoRun => current \in Runs /\ current # r
  BY <1>1 DEF ActiveInv, TypeOK
<1>4. CASE CheckBusy
  <2>1. /\ runs' = [runs EXCEPT ![r] = [runs[r] EXCEPT !.step = "ended"]]
        /\ UNCHANGED <<active, stoppable, buildVars>>
    BY <1>1, <1>4 DEF RunAsync, Moved
  <2>2. /\ runs' \in [Runs -> Run] /\ runs'[r].step = "ended"
        /\ \A s \in Runs : s # r => runs'[s] = runs[s]
    BY <1>1, <2>1 DEF Run
  <2>3. BuildInv' /\ UNCHANGED <<builds, cancelled, chained, pipeline>>
    BY <2>1, BuildStutter DEF buildVars, cancelVars, managerVars
  <2>4. TypeOK'
    BY <1>1, <1>2, <2>1, <2>2, <2>3 DEF TypeOK, BuildInv
  <2>5. \A s \in Runs : UnderWay(s)' <=> UnderWay(s)
    BY <1>1, <2>2 DEF UnderWay
  <2>6. ActiveInv'
    BY <1>1, <1>3, <2>1, <2>2, <2>5 DEF ActiveInv
  <2>7. JoinInv'
    BY <1>1, <2>2, <2>3, <2>5 DEF JoinInv, UnderWay
  <2>8. InstallInv'
    BY <1>1, <2>2, <2>3 DEF InstallInv
  <2> QED BY <2>3, <2>4, <2>6, <2>7, <2>8
<1>5. CASE ~CheckBusy
  <2>1. active = 0 /\ active' = 1 /\ stoppable' \subseteq Runs
    BY <1>5 DEF RunAsync, CheckBusy, MarkBusy, ActiveInv, TypeOK
  <2>2. PICK run \in Run : /\ runs' = [runs EXCEPT ![r] = run]
                           /\ run.step \in {"installing", "installed", "returned"}
                           /\ \/ run.step # "installing" /\ UNCHANGED buildVars
                              \/ /\ run.step = "installing" /\ run.pipe = pipeline
                                 /\ BuildAsync(r, FALSE)
    <3>1. CASE Moved(r, "returned") /\ UNCHANGED buildVars
      <4>1. [runs[r] EXCEPT !.step = "returned"] \in Run /\ [runs[r] EXCEPT !.step = "returned"].step = "returned"
        BY <1>1 DEF Run
      <4> QED BY <1>1, <3>1, <4>1 DEF Moved
    <3>2. CASE /\ runs' = [runs EXCEPT ![r].step = "installing", ![r].pipe = pipeline]
               /\ BuildAsync(r, FALSE)
      <4> DEFINE run == [runs[r] EXCEPT !.step = "installing", !.pipe = pipeline]
      <4>1. run \in Run /\ run.step = "installing" /\ run.pipe = pipeline
        BY <1>1 DEF Run
      <4>2. runs' = [runs EXCEPT ![r] = run]
        BY <1>1, <3>2
      <4> HIDE DEF run
      <4> QED BY <3>2, <4>1, <4>2
    <3>3. CASE /\ runs' = [runs EXCEPT ![r] = [step |-> "installed", pipe |-> pipeline, ok |-> TRUE]]
               /\ UNCHANGED buildVars
      <4> DEFINE run == [step |-> "installed", pipe |-> pipeline, ok |-> TRUE]
      <4>1. run \in Run /\ run.step = "installed"
        BY <1>1 DEF Run
      <4> HIDE DEF run
      <4> QED BY <3>3, <4>1 DEF run
    <3> QED BY <1>5, <3>1, <3>2, <3>3, Zenon DEF RunAsync
  <2>3. /\ runs' \in [Runs -> Run] /\ runs'[r] = run
        /\ \A s \in Runs : s # r => runs'[s] = runs[s]
    BY <1>1, <2>2
  <2>4. \A s \in Runs : UnderWay(s)' <=> s = r
    BY <2>1, <2>2, <2>3 DEF ActiveInv, UnderWay
  <2>5. BuildInv'
    <3>1. CASE UNCHANGED buildVars
      BY <3>1, BuildStutter
    <3>2. CASE BuildAsync(r, FALSE)
      BY <1>1, <3>2, BuildAsyncInv
    <3> QED BY <2>2, <3>1, <3>2
  <2>6. TypeOK'
    BY <1>1, <1>2, <2>1, <2>3, <2>5 DEF TypeOK, BuildInv
  <2>7. ActiveInv'
    <3>1. current' # NoRun => runs'[current'].step = "waiting"
      BY <1>1, <1>3, <2>3 DEF ActiveInv
    <3> QED BY <2>1, <2>4, <3>1 DEF ActiveInv
  <2>8. JoinInv' /\ InstallInv'
    <3>1. CASE run.step # "installing" /\ UNCHANGED buildVars
      <4>1. UNCHANGED builds
        BY <3>1 DEF buildVars
      <4>2. builds[r].step = "new"
        BY <1>1 DEF InstallInv
      <4> QED BY <2>2, <2>3, <2>4, <3>1, <4>1, <4>2 DEF JoinInv, InstallInv
    <3>2. CASE run.step = "installing" /\ run.pipe = pipeline /\ BuildAsync(r, FALSE)
      <4>1. chained' = chained \cup {r} /\ pipeline' = pipeline
        BY <3>2 DEF BuildAsync, managerVars
      <4>2. builds \in [Builds -> Build]
        BY DEF TypeOK, BuildTypeOK
      <4>3. \A s \in Runs : s # r => builds'[s] = builds[s]
        BY <1>1, <3>2, <4>2 DEF BuildAsync, Submit
      <4>4. JoinInv'
        BY <2>3, <2>4, <3>2, <4>1 DEF JoinInv
      <4> QED BY <2>2, <2>3, <3>2, <4>3, <4>4 DEF InstallInv
    <3> QED BY <2>2, <3>1, <3>2
  <2> QED BY <2>5, <2>6, <2>7, <2>8
<1> QED BY <1>4, <1>5

\* The application exits, or the user stops it.
LEMMA AsideRunInv ==
    ASSUME RunInv, Stop \/ \E r \in Runs : Exit(r)
    PROVE  RunInv'
<1> USE DEF RunInv
<1>1. UNCHANGED <<buildVars, runs, active, current, aborted>>
  BY DEF Stop, Exit
<1>2. BuildInv' /\ UNCHANGED <<builds, cancelled, chained, pipeline>>
  BY <1>1, BuildStutter DEF buildVars, cancelVars, managerVars
<1>3. /\ process' \in [Runs -> {"none", "running", "signalled", "killed", "exited"}]
      /\ stoppable' \subseteq Runs /\ stopping' \subseteq Runs
  BY DEF Stop, Exit, TypeOK
<1>4. sentSignal' \in BOOLEAN
  <2>1. sentSignal' = sentSignal \/ sentSignal' = TRUE
    BY Zenon DEF Stop, Exit
  <2>2. sentSignal \in BOOLEAN /\ TRUE \in BOOLEAN
    BY DEF TypeOK
  <2> QED BY <2>1, <2>2, Zenon
<1>5. TypeOK'
  BY <1>1, <1>2, <1>3, <1>4 DEF TypeOK, BuildInv
<1>6. ActiveInv' /\ JoinInv' /\ InstallInv'
  BY <1>1, <1>2 DEF ActiveInv, JoinInv, InstallInv, UnderWay
<1> QED BY <1>2, <1>5, <1>6

LEMMA StopTimeoutInv == ASSUME RunInv, StopTimeout PROVE RunInv'
<1> USE DEF RunInv
<1>1. /\ cancelled' = cancelled \cup stopping /\ stopping' = {}
      /\ UNCHANGED <<managerVars, setupVars, builds, chained, pipelineVars,
                     runs, active, current, sentSignal, stoppable, process, aborted>>
  BY DEF StopTimeout, CancelStopping
<1>2. pipeline' = pipeline
  BY <1>1 DEF managerVars
<1>3. BuildInv'
  <2>1. cancelled' \subseteq Builds /\ chained' \subseteq Builds
    BY <1>1 DEF BuildInv, BuildTypeOK, TypeOK
  <2>2. WaitInv'
    BY <1>1, <1>2 DEF BuildInv, WaitInv
  <2> HIDE DEF RunInv
  <2> QED BY <1>1, <2>1, <2>2, CancelOnly DEF RunInv
<1>4. TypeOK'
  BY <1>1, <1>3 DEF TypeOK, BuildInv
<1>5. ActiveInv' /\ JoinInv' /\ InstallInv'
  BY <1>1, <1>2 DEF ActiveInv, JoinInv, InstallInv, UnderWay
<1> QED BY <1>3, <1>4, <1>5

LEMMA RunStep == RunInv /\ [Next]_vars => RunInv'
<1> SUFFICES ASSUME RunInv, [Next]_vars PROVE RunInv'
  OBVIOUS
<1>1. CASE UNCHANGED vars
  <2>1. UNCHANGED buildVars /\ UNCHANGED runVars
    BY <1>1 DEF vars
  <2> QED BY <2>1, ManagerInv
<1>2. CASE BuildNext /\ UNCHANGED runVars
  BY <1>2, ManagerInv
<1>3. ASSUME NEW r \in Runs, NEW installs \in BOOLEAN, RunAsync(r, installs) PROVE RunInv'
  BY <1>3, RunAsyncInv
<1>4. ASSUME NEW r \in Runs, Progress(r) PROVE RunInv'
  BY <1>4, GoesOnRunInv, EndedInv DEF Progress, GoesOnRun
<1>5. CASE Stop \/ \E r \in Runs : Exit(r)
  BY <1>5, AsideRunInv
<1>6. CASE StopTimeout
  BY <1>6, StopTimeoutInv
<1> QED BY <1>1, <1>2, <1>3, <1>4, <1>5, <1>6 DEF Next

LEMMA RunAlways == Spec => []RunInv
<1> QED BY RunStart, RunStep, PTL DEF Spec

-----------------------------------------------------------------------------
(***************************************************************************)
(* The theorems about the run manager.                                     *)
(***************************************************************************)

\* Type correctness of the two managers together.
THEOREM TypeCorrect == Spec => []TypeOK
<1>1. RunInv => TypeOK
  BY DEF RunInv
<1> QED BY <1>1, RunAlways, PTL

\* The counter "busy" is the number of runs under way, which is 1 at most, and
\* the process the manager holds is that of a run that waits for it.
THEOREM OneRun == Spec => []OneRunAtATime
<1>1. ASSUME RunInv PROVE OneRunAtATime
  <2> DEFINE S == {r \in Runs : UnderWay(r)}
  <2>1. active \in {0, 1} /\ (current # NoRun => runs[current].step = "waiting")
    BY <1>1 DEF RunInv, ActiveInv
  <2>2. CASE active = 0
    <3>1. S = {}
      BY <1>1, <2>2 DEF RunInv, ActiveInv
    <3> HIDE DEF S
    <3>2. Cardinality(S) = 0
      BY <3>1, FS_EmptySet
    <3> QED BY <2>1, <2>2, <3>2 DEF OneRunAtATime, S
  <2>3. CASE active = 1
    <3>1. PICK r \in Runs : UnderWay(r) /\ \A s \in Runs : UnderWay(s) => s = r
      BY <1>1, <2>3 DEF RunInv, ActiveInv
    <3>2. S = {r}
      BY <3>1
    <3> HIDE DEF S
    <3>3. Cardinality(S) = 1
      BY <3>2, FS_Singleton
    <3> QED BY <2>1, <2>3, <3>3 DEF OneRunAtATime, S
  <2> QED BY <2>1, <2>2, <2>3
<1> QED BY <1>1, RunAlways, PTL

LEMMA CurrentStep ==
    RunInv /\ [Next]_vars =>
        [\A r \in Runs :
            /\ runs[r].step \in {"discovering", "deploying"}
            /\ runs'[r].step \in {"deploying", "waiting"} /\ runs'[r] # runs[r]
            /\ builds[r].step # "new"
            => runs[r].pipe = pipeline]_vars
<1> SUFFICES ASSUME RunInv, Next, NEW r \in Runs,
                    runs[r].step \in {"discovering", "deploying"},
                    runs'[r].step \in {"deploying", "waiting"}, runs'[r] # runs[r],
                    builds[r].step # "new"
             PROVE  runs[r].pipe = pipeline
  OBVIOUS
<1>1. runs \in [Runs -> Run]
  BY DEF RunInv, TypeOK
<1>2. DiscoverCb(r) \/ DeployCb(r)
  <2>1. CASE BuildNext /\ UNCHANGED runVars
    BY <2>1 DEF runVars
  <2>2. ASSUME NEW s \in Runs, NEW installs \in BOOLEAN, RunAsync(s, installs)
        PROVE  runs'[r] = runs[r]
    <3>1. s # r
      BY <2>2 DEF RunAsync
    <3> QED BY <1>1, <2>2, <3>1 DEF RunAsync, Moved
  <2>3. ASSUME NEW s \in Runs, GoesOnRun(s), ~(DiscoverCb(r) \/ DeployCb(r))
        PROVE  runs'[r] = runs[r]
    <3>1. s # r
      BY <2>3 DEF GoesOnRun, InstallCb, RunInstallCb, WaitCb
    <3> QED BY <2>3, <3>1, GoesOnEffect
  <2>4. ASSUME NEW s \in Runs, Ended(s) PROVE runs'[r] = runs[r]
    <3>1. s # r
      BY <2>4 DEF Ended
    <3> QED BY <1>1, <2>4, <3>1 DEF Ended, Moved
  <2>5. CASE Stop \/ StopTimeout \/ \E s \in Runs : Exit(s)
    BY <2>5 DEF Stop, StopTimeout, Exit
  <2> QED BY <2>1, <2>2, <2>3, <2>4, <2>5 DEF Next, Progress, GoesOnRun
<1>3. r \notin cancelled
  <2>1. ~Moved(r, "returned")
    <3>1. SUFFICES ASSUME Moved(r, "returned") PROVE FALSE
      OBVIOUS
    <3>2. runs'[r].step = "returned"
      BY <1>1, <3>1 DEF Moved, Run
    <3> QED BY <3>2
  <2> QED BY <1>2, <2>1 DEF DiscoverCb, DeployCb, Goes
<1> QED BY <1>3 DEF RunInv, JoinInv, UnderWay

\* A run that was installed goes on only with the pipeline of now.
THEOREM RunHolds == Spec => RunIsCurrent
<1> QED BY RunAlways, CurrentStep, PTL DEF Spec, RunIsCurrent

=============================================================================

-------------------------- MODULE SupervisorProofs --------------------------
(***************************************************************************)
(* TLAPS proofs about Supervisor and its user ClangClient, for every set   *)
(* of processes, queries and files and every threshold.                    *)
(***************************************************************************)
EXTENDS ClangClient, FiniteSetTheorems, SequenceTheorems, TLAPS

LEMMA ThresholdType == Threshold \in Nat /\ Threshold > 0 /\ NoProcess \notin Processes
BY ProcessesAssumption

USE ThresholdType

-----------------------------------------------------------------------------
(***************************************************************************)
(* The supervisor, whose user may start and stop it at any time.           *)
(***************************************************************************)

\* A timeout that is pending will find the threshold reached.
TimerInv == timer # 0 => age + timer = Threshold + 1

SupervisorInv == SupervisorTypeOK /\ NoStrayProcess /\ TimerInv

LEMMA ResetEffect ==
    ASSUME SupervisorTypeOK
    PROVE  /\ Reset(process) \in [Processes -> {"none", "running", "killed", "exited"}]
           /\ \A p \in Processes : /\ Reset(process)[p] = "running" => process[p] = "running" /\ p # current
                                   /\ process[p] # "running" => Reset(process)[p] = process[p]
BY DEF Reset, SupervisorTypeOK

LEMMA SpawnEffect ==
    ASSUME SupervisorInv, NEW next \in Outcomes,
           NEW rest \in [Processes -> {"none", "running", "killed", "exited"}],
           \A p \in Processes : rest[p] # "running",
           Spawn(rest, next), timer' = 0
    PROVE  SupervisorInv'
<1>1. next \in Processes \cup {NoProcess}
  BY DEF Outcomes
<1>2. supervising' = TRUE /\ current' = next
  BY DEF Spawn
<1>3. CASE next = NoProcess
  BY <1>1, <1>2, <1>3 DEF Spawn, SupervisorInv, SupervisorTypeOK, NoStrayProcess, TimerInv
<1>4. CASE next # NoProcess
  BY <1>1, <1>2, <1>4 DEF Spawn, SupervisorInv, SupervisorTypeOK, NoStrayProcess, TimerInv
<1> QED BY <1>3, <1>4

LEMMA StartInv == ASSUME SupervisorInv, NEW next \in Outcomes, Start(next) PROVE SupervisorInv'
<1>1. timer' = 0 /\ Spawn(Reset(process), next)
  BY DEF Start, SupervisorInv, NoStrayProcess
<1>2. \A p \in Processes : Reset(process)[p] # "running"
  BY ResetEffect DEF Start, SupervisorInv, NoStrayProcess
<1> QED BY <1>1, <1>2, ResetEffect, SpawnEffect DEF SupervisorInv

LEMMA FireInv == ASSUME SupervisorInv, NEW next \in Outcomes, Fire(next) PROVE SupervisorInv'
<1>1. timer' = 0 /\ Spawn(Reset(process), next)
  BY DEF Fire
<1>2. \A p \in Processes : Reset(process)[p] # "running"
  BY ResetEffect DEF Fire, SupervisorInv, NoStrayProcess
<1> QED BY <1>1, <1>2, ResetEffect, SpawnEffect DEF SupervisorInv

LEMMA ReapInv ==
    ASSUME SupervisorInv, NEW p \in Processes, NEW next \in Outcomes, Reap(p, next)
    PROVE  SupervisorInv'
<1> DEFINE rest == [process EXCEPT ![p] = "none"]
<1>1. rest \in [Processes -> {"none", "running", "killed", "exited"}] /\ process[p] = "exited"
  BY DEF Reap, SupervisorInv, SupervisorTypeOK
<1>2. CASE Restarts(p)
  <2>1. Spawn(rest, next) /\ timer' = timer
    BY <1>2 DEF Reap
  <2>2. timer = 0
    BY <1>2 DEF Restarts, SupervisorInv, NoStrayProcess
  <2>3. \A q \in Processes : rest[q] # "running"
    BY <1>1, <1>2 DEF Restarts, SupervisorInv, SupervisorTypeOK, NoStrayProcess
  <2> HIDE DEF rest
  <2> QED BY <1>1, <2>1, <2>2, <2>3, SpawnEffect
<1>3. CASE ~Restarts(p)
  <2>1. /\ process' = rest
        /\ current' = IF p = current THEN NoProcess ELSE current
        /\ timer' = IF p = current /\ supervising THEN Delay ELSE timer
        /\ UNCHANGED <<supervising, age>>
    BY <1>3 DEF Reap
  <2>2. Delay \in 1..Threshold + 1 /\ age + Delay = Threshold + 1
    BY DEF Delay, SupervisorInv, SupervisorTypeOK
  <2>3. \A q \in Processes : rest[q] = "running" => process[q] = "running" /\ q # p
    BY <1>1 DEF SupervisorInv, SupervisorTypeOK
  <2> HIDE DEF rest
  <2>4. timer' \in 0..Threshold + 1
    <3>1. CASE p = current /\ supervising
      BY <2>1, <2>2, <3>1
    <3>2. CASE ~(p = current /\ supervising)
      BY <2>1, <3>2 DEF SupervisorInv, SupervisorTypeOK
    <3> QED BY <3>1, <3>2
  <2>7. SupervisorTypeOK'
    BY <1>1, <2>1, <2>4 DEF SupervisorInv, SupervisorTypeOK
  <2>5. NoStrayProcess'
    BY <1>1, <2>1, <2>3 DEF SupervisorInv, SupervisorTypeOK, NoStrayProcess
  <2>6. TimerInv'
    BY <2>1, <2>2 DEF SupervisorInv, TimerInv
  <2> QED BY <2>5, <2>6, <2>7 DEF SupervisorInv
<1> QED BY <1>2, <1>3

LEMMA StopInv == ASSUME SupervisorInv, Stop PROVE SupervisorInv'
<1>1. timer' = 0 /\ supervising' = FALSE /\ age' = age
  BY DEF Stop, Disarmed
<1>2. CASE supervising
  <2>1. process' = Reset(process) /\ current' = NoProcess
    BY <1>2 DEF Stop
  <2>2. \A p \in Processes : Reset(process)[p] # "running"
    BY ResetEffect DEF SupervisorInv, NoStrayProcess
  <2>3. SupervisorTypeOK'
    <3>1. process' \in [Processes -> {"none", "running", "killed", "exited"}]
      BY <2>1, ResetEffect DEF SupervisorInv
    <3>2. timer' \in 0..Threshold + 1
      BY <1>1
    <3> QED BY <1>1, <2>1, <3>1, <3>2 DEF SupervisorInv, SupervisorTypeOK
  <2> QED BY <1>1, <2>1, <2>2, <2>3 DEF SupervisorInv, NoStrayProcess, TimerInv
<1>3. CASE ~supervising
  BY <1>1, <1>3 DEF Stop, SupervisorInv, SupervisorTypeOK, NoStrayProcess, TimerInv
<1> QED BY <1>2, <1>3

LEMMA DieInv == ASSUME SupervisorInv, NEW p \in Processes, Die(p) PROVE SupervisorInv'
BY DEF Die, SupervisorInv, SupervisorTypeOK, NoStrayProcess, TimerInv

LEMMA TickInv == ASSUME SupervisorInv, Tick PROVE SupervisorInv'
<1>1. timer \in 0..Threshold + 1 /\ age \in 0..Threshold /\ (timer # 0 => age + timer = Threshold + 1)
  BY DEF SupervisorInv, SupervisorTypeOK, TimerInv
<1>2. /\ age' = IF age < Threshold THEN age + 1 ELSE age
      /\ timer' = IF timer > 1 THEN timer - 1 ELSE timer
      /\ UNCHANGED <<supervising, current, process>>
  BY DEF Tick
<1>3. timer' \in 0..Threshold + 1 /\ age' \in 0..Threshold
  BY <1>1, <1>2
<1>4. timer' # 0 => timer # 0 /\ age' + timer' = Threshold + 1
  BY <1>1, <1>2
<1> QED BY <1>2, <1>3, <1>4 DEF SupervisorInv, SupervisorTypeOK, NoStrayProcess, TimerInv

LEMMA SupervisorStep == SupervisorInv /\ [SupervisorNext]_supervisorVars => SupervisorInv'
<1> SUFFICES ASSUME SupervisorInv, [SupervisorNext]_supervisorVars PROVE SupervisorInv'
  OBVIOUS
<1>1. CASE UNCHANGED supervisorVars
  BY <1>1 DEF supervisorVars, SupervisorInv, SupervisorTypeOK, NoStrayProcess, TimerInv
<1>2. CASE SupervisorNext
  BY <1>2, StartInv, FireInv, ReapInv, StopInv, DieInv, TickInv DEF SupervisorNext
<1> QED BY <1>1, <1>2

LEMMA SupervisorStart == SupervisorInit => SupervisorInv
<1> SUFFICES ASSUME SupervisorInit PROVE SupervisorInv
  OBVIOUS
<1>1. 0 \in 0..Threshold + 1 /\ Threshold \in 0..Threshold
  OBVIOUS
<1>2. process \in [Processes -> {"none", "running", "killed", "exited"}]
  BY DEF SupervisorInit
<1>3. SupervisorTypeOK
  BY <1>1, <1>2 DEF SupervisorInit, SupervisorTypeOK
<1> QED BY <1>3 DEF SupervisorInit, SupervisorInv, NoStrayProcess, TimerInv

LEMMA SupervisorAlways == SupervisorSpec => []SupervisorInv
BY SupervisorStart, SupervisorStep, PTL DEF SupervisorSpec

\* A respawn is spaced: the user's start needs one that does not supervise, a
\* restart in the callback of the wait looks at the age, and a timeout that is
\* due finds the threshold reached.
LEMMA SpacedStep ==
    ASSUME SupervisorInv, [SupervisorNext]_supervisorVars,
           supervising, current' \notin {current, NoProcess}
    PROVE  age = Threshold
<1>1. CASE UNCHANGED supervisorVars
  BY <1>1 DEF supervisorVars
<1>2. CASE \E next \in Outcomes : Start(next)
  BY <1>2 DEF Start
<1>3. CASE \E next \in Outcomes : Fire(next)
  BY <1>3 DEF Fire, SupervisorInv, SupervisorTypeOK, TimerInv
<1>4. CASE \E p \in Processes, next \in Outcomes : Reap(p, next)
  BY <1>4 DEF Reap, Restarts
<1>5. CASE Stop \/ Tick \/ \E p \in Processes : Die(p)
  BY <1>5 DEF Stop, Tick, Die
<1> QED BY <1>1, <1>2, <1>3, <1>4, <1>5 DEF SupervisorNext

\* Whoever starts and stops the supervisor, it never loses sight of a process
\* that runs, and never leaves a timeout that would spawn one after a stop.
THEOREM SupervisorNoStray == SupervisorSpec => []NoStrayProcess
<1>1. SupervisorInv => NoStrayProcess
  BY DEF SupervisorInv
<1> QED BY <1>1, SupervisorAlways, PTL

-----------------------------------------------------------------------------
(***************************************************************************)
(* The client takes only steps of the supervisor.                          *)
(***************************************************************************)

LEMMA ClientSteps == [Next]_vars => [SupervisorNext]_supervisorVars
<1> SUFFICES ASSUME [Next]_vars PROVE SupervisorNext \/ UNCHANGED supervisorVars
  OBVIOUS
<1>1. ASSUME NEW calls, NEW p, p \in Outcomes \cup {NoProcess}, GetClient(calls, p)
      PROVE  SupervisorNext \/ UNCHANGED supervisorVars
  BY <1>1 DEF GetClient, SupervisorNext, Outcomes
<1>2. CASE UNCHANGED vars
  BY <1>2 DEF vars
<1>3. CASE \E q \in Queries, p \in Outcomes : Ask(q, p)
  BY <1>1, <1>3 DEF Ask
<1>4. CASE \E f \in Files : Edit(f) \/ Save(f)
  BY <1>1, <1>4 DEF Edit, Save
<1>5. CASE Dispatch \/ \E p \in Processes : Serve(p) \/ HangUp(p)
  BY <1>5 DEF Dispatch, Serve, HangUp
<1>6. CASE Destroy
  BY <1>6 DEF Destroy, SupervisorNext
<1>7. CASE \E p \in Processes, next \in Outcomes : Exited(p, next)
  BY <1>7 DEF Exited, SupervisorNext
<1>8. CASE \E next \in Outcomes : Respawn(next)
  BY <1>8 DEF Respawn, SupervisorNext
<1>9. CASE TimePasses \/ \E p \in Processes : Crash(p)
  BY <1>9 DEF TimePasses, Crash, SupervisorNext
<1> QED BY <1>2, <1>3, <1>4, <1>5, <1>6, <1>7, <1>8, <1>9 DEF Next

LEMMA ClientAlways == Spec => []SupervisorInv
<1>1. Init => SupervisorInv
  BY SupervisorStart DEF Init
<1> QED BY <1>1, ClientSteps, SupervisorStep, PTL DEF Spec

\* The server of the client is never running without the supervisor that was
\* started for it, and none is spawned after the client is destroyed.
THEOREM NoStray == Spec => []NoStrayProcess
<1>1. SupervisorInv => NoStrayProcess
  BY DEF SupervisorInv
<1> QED BY <1>1, ClientAlways, PTL

\* However the server crashes and whatever is asked of the client meanwhile,
\* a server that is spawned again is the threshold away from the last one.
THEOREM Spaced == Spec => RespawnsAreSpaced
<1>1. SupervisorInv /\ [Next]_vars
        => [supervising /\ current' \notin {current, NoProcess} => age = Threshold]_supervisorVars
  BY ClientSteps, SpacedStep
<1> QED BY <1>1, ClientAlways, PTL DEF Spec, RespawnsAreSpaced

-----------------------------------------------------------------------------
(***************************************************************************)
(* The client and its supervisor agree on the process there is.            *)
(***************************************************************************)

\* What the supervisor is doing in each state of the client.  Only a client
\* that is destroyed leaves processes behind for the wait to collect.
ClientInv ==
    /\ state \in {"initial", "spawning", "running", "shutdown"}
    /\ state = "running" => supervising /\ current # NoProcess /\ peer = current
    /\ state # "running" => current = NoProcess /\ peer = NoProcess
    /\ state = "spawning" => supervising
    /\ state \in {"initial", "shutdown"} => ~supervising /\ timer = 0
    /\ state # "shutdown" => \A p \in Processes : process[p] # "none" => p = current
    /\ pending # << >> => state = "spawning"

\* A process that is spawned when no other is left.
LEMMA SpawnedClient ==
    ASSUME NEW next \in Processes \cup {NoProcess}, NEW calls, NEW rest,
           rest \in [Processes -> {"none", "running", "killed", "exited"}],
           \A p \in Processes : rest[p] = "none",
           Spawn(rest, next), Spawned(next, calls), timer' = 0
    PROVE  ClientInv'
<1>1. supervising' = TRUE /\ current' = next
  BY DEF Spawn
<1>2. CASE next = NoProcess
  BY <1>1, <1>2 DEF Spawn, Spawned, ClientInv
<1>3. CASE next # NoProcess
  <2>1. \A p \in Processes : process'[p] # "none" => p = next
    BY <1>3 DEF Spawn
  <2> QED BY <1>1, <1>3, <2>1 DEF Spawned, ClientInv
<1> QED BY <1>2, <1>3

LEMMA GetClientEffect ==
    ASSUME SupervisorInv, ClientInv, NEW calls, NEW p \in Processes \cup {NoProcess},
           p \in Outcomes \cup {NoProcess}, GetClient(calls, p)
    PROVE  ClientInv'
<1>1. CASE state = "initial"
  <2>1. Start(p) /\ Spawned(p, calls)
    BY <1>1 DEF GetClient
  <2>2. /\ Reset(process) \in [Processes -> {"none", "running", "killed", "exited"}]
        /\ \A q \in Processes : Reset(process)[q] = "none"
    BY <1>1, ResetEffect DEF ClientInv, SupervisorInv
  <2>3. Spawn(Reset(process), p) /\ timer' = 0
    BY <1>1, <2>1 DEF Start, ClientInv
  <2> QED BY <2>1, <2>2, <2>3, SpawnedClient
<1>2. CASE state # "initial"
  BY <1>2 DEF GetClient, ClientInv, supervisorVars
<1> QED BY <1>1, <1>2

LEMMA ExitedEffect ==
    ASSUME SupervisorInv, ClientInv, NEW p \in Processes, NEW next \in Outcomes, Exited(p, next)
    PROVE  ClientInv'
<1> DEFINE rest == [process EXCEPT ![p] = "none"]
<1>1. rest \in [Processes -> {"none", "running", "killed", "exited"}] /\ process[p] = "exited"
  BY DEF Exited, Reap, SupervisorInv, SupervisorTypeOK
<1>2. CASE Restarts(p)
  <2>1. Spawn(rest, next) /\ Spawned(next, pending) /\ timer' = timer
    BY <1>2 DEF Exited, Reap
  <2>2. timer = 0 /\ \A q \in Processes : rest[q] = "none"
    BY <1>1, <1>2 DEF Restarts, SupervisorInv, SupervisorTypeOK, NoStrayProcess, ClientInv
  <2>3. next \in Processes \cup {NoProcess}
    BY DEF Outcomes
  <2> HIDE DEF rest
  <2> QED BY <1>1, <2>1, <2>2, <2>3, SpawnedClient
<1>3. CASE ~Restarts(p)
  <2>1. /\ process' = rest
        /\ current' = IF p = current THEN NoProcess ELSE current
        /\ timer' = IF p = current /\ supervising THEN Delay ELSE timer
        /\ supervising' = supervising
        /\ state' = IF state = "running" THEN "spawning" ELSE state
        /\ peer' = NoProcess /\ pending' = pending
    BY <1>3 DEF Exited, Reap
  <2>2. \A q \in Processes : rest[q] # "none" => q # p /\ process[q] # "none"
    BY <1>1 DEF SupervisorInv, SupervisorTypeOK
  <2> HIDE DEF rest
  <2>3. CASE p = current
    <3>1. state = "running" /\ supervising
      BY <2>3 DEF ClientInv
    <3> QED BY <2>1, <2>2, <2>3, <3>1 DEF ClientInv
  <2>4. CASE p # current
    <3>1. state = "shutdown"
      BY <1>1, <2>4 DEF ClientInv
    <3> QED BY <2>1, <2>4, <3>1 DEF ClientInv
  <2> QED BY <2>3, <2>4
<1> QED BY <1>2, <1>3

LEMMA RespawnEffect ==
    ASSUME SupervisorInv, ClientInv, NEW next \in Outcomes, Respawn(next)
    PROVE  ClientInv'
<1>1. Spawn(Reset(process), next) /\ Spawned(next, pending) /\ timer' = 0 /\ timer = 1
  BY DEF Respawn, Fire
<1>2. state = "spawning" /\ current = NoProcess
  BY <1>1 DEF ClientInv, SupervisorInv, NoStrayProcess
<1>3. /\ Reset(process) \in [Processes -> {"none", "running", "killed", "exited"}]
      /\ \A q \in Processes : Reset(process)[q] = "none"
  BY <1>2, ResetEffect DEF ClientInv, SupervisorInv
<1>4. next \in Processes \cup {NoProcess}
  BY DEF Outcomes
<1> QED BY <1>1, <1>3, <1>4, SpawnedClient

LEMMA DestroyEffect == ASSUME SupervisorInv, ClientInv, Destroy PROVE ClientInv'
<1>1. /\ timer' = 0 /\ supervising' = FALSE /\ state' = "shutdown"
      /\ peer' = NoProcess /\ pending' = << >>
      /\ current' = IF supervising THEN NoProcess ELSE current
  BY DEF Destroy, Stop, Disarmed, Flushed
<1>2. current' = NoProcess
  BY <1>1 DEF ClientInv
<1> QED BY <1>1, <1>2 DEF ClientInv

LEMMA ClientStep == SupervisorInv /\ ClientInv /\ [Next]_vars => ClientInv'
<1> SUFFICES ASSUME SupervisorInv, ClientInv, [Next]_vars PROVE ClientInv'
  OBVIOUS
<1>2. CASE UNCHANGED vars
  BY <1>2 DEF vars, clientVars, supervisorVars, ClientInv
<1>3. CASE \E q \in Queries, p \in Outcomes : Ask(q, p)
  BY <1>3, GetClientEffect DEF Ask, Outcomes
<1>4. CASE Dispatch \/ \E p \in Processes : Serve(p) \/ HangUp(p)
  BY <1>4 DEF Dispatch, Serve, HangUp, supervisorVars, ClientInv
<1>5. CASE \E f \in Files : Edit(f)
  BY <1>5 DEF Edit, clientVars, supervisorVars, ClientInv
<1>6. CASE \E f \in Files : Save(f)
  BY <1>6, GetClientEffect DEF Save, supervisorVars, ClientInv
<1>7. CASE Destroy
  BY <1>7, DestroyEffect
<1>8. CASE \E p \in Processes, next \in Outcomes : Exited(p, next)
  BY <1>8, ExitedEffect
<1>9. CASE \E next \in Outcomes : Respawn(next)
  BY <1>9, RespawnEffect
<1>10. CASE \E p \in Processes : Crash(p)
  BY <1>10 DEF Crash, Die, clientVars, SupervisorInv, SupervisorTypeOK, ClientInv
<1>11. CASE TimePasses
  BY <1>11 DEF TimePasses, Tick, clientVars, SupervisorInv, SupervisorTypeOK, ClientInv
<1> QED BY <1>2, <1>3, <1>4, <1>5, <1>6, <1>7, <1>8, <1>9, <1>10, <1>11 DEF Next

\* The assertions of "spawned" and finalize hold: whatever order the server
\* dies, is spawned and is asked in, the client never talks to a process
\* that its supervisor does not watch, and no call is left in the queue of a
\* client that has a server or is destroyed.
THEOREM PeerWatched == Spec => []PeerIsSupervised
<1>1. Init => ClientInv
  BY DEF Init, SupervisorInit, ClientInv
<1>2. ClientInv => PeerIsSupervised
  BY DEF ClientInv, PeerIsSupervised
<1> QED BY <1>1, <1>2, ClientAlways, ClientStep, PTL DEF Spec

-----------------------------------------------------------------------------
(***************************************************************************)
(* The type invariant of the client.                                       *)
(***************************************************************************)

Ends == Processes \cup {NoProcess}
Entry == [call : Message, to : Ends]

LEMMA MessageKinds ==
    ASSUME NEW m \in Message
    PROVE  \/ m.kind = "query" /\ m.query \in Queries /\ m = Query(m.query)
           \/ m.kind = "buffer" /\ m.file \in Files /\ m.version \in Versions
BY DEF Message, Query, Buffer

LEMMA MessageTypes ==
    /\ \A q \in Queries : Query(q) \in Message
    /\ \A f \in Files, v \in Versions : Buffer(f, v) \in Message
BY DEF Message

LEMMA VersionTypes == Versions \in SUBSET Nat /\ 0 \in Versions /\ Nothing \in [Files -> Versions]
BY ClientAssumption DEF Versions, Nothing

\* What get_client hands out are the calls it was given, in their order.
LEMMA GivenProperties ==
    ASSUME NEW calls \in Seq(Message), NEW t \in Ends
    PROVE  /\ Given(calls, t) \in Seq(Entry)
           /\ Len(Given(calls, t)) = Len(calls)
           /\ \A i \in 1..Len(calls) : Given(calls, t)[i] = [call |-> calls[i], to |-> t]
<1> DEFINE n == Len(calls)
<1>1. n \in Nat /\ DOMAIN calls = 1..n
  OBVIOUS
<1>2. \A i \in 1..n : [call |-> calls[i], to |-> t] \in Entry
  BY DEF Entry
<1>3. Given(calls, t) = [i \in 1..n |-> [call |-> calls[i], to |-> t]]
  BY <1>1 DEF Given
<1> HIDE DEF n
<1>4. Given(calls, t) \in Seq(Entry)
  BY <1>1, <1>2, <1>3, IsASeq
<1>5. Len(Given(calls, t)) = n
  BY <1>1, <1>3, <1>4
<1> QED BY <1>3, <1>4, <1>5 DEF n

\* A permutation of the files that are newer than what was sent has each of
\* them once.
LEMMA StaleOrder ==
    ASSUME TypeOK, NEW order \in SetToSeqs(Stale)
    PROVE  /\ order \in Seq(Files)
           /\ \A f \in Stale : \E k \in 1..Len(order) : order[k] = f
           /\ \A k \in 1..Len(order) : order[k] \in Stale
<1> DEFINE D == 1..Cardinality(Stale)
<1>1. IsFiniteSet(Stale) /\ Stale \in SUBSET Files
  BY ClientAssumption, FS_Subset DEF Stale
<1>2. Cardinality(Stale) \in Nat
  BY <1>1, FS_CardinalityType
<1>3. order \in [D -> Stale] /\ \A i, j \in D : i # j => order[i] # order[j]
  BY DEF SetToSeqs
<1>4. order \in Seq(Files) /\ Len(order) = Cardinality(Stale)
  <2> HIDE DEF Stale
  <2> QED BY <1>1, <1>2, <1>3
<1>5. IsFiniteSet(D) /\ Cardinality(D) = Cardinality(Stale)
  <2> DEFINE n == Cardinality(Stale)
  <2>1. n \in Int /\ 1 \in Int
    BY <1>2
  <2> HIDE DEF n
  <2>2. Cardinality(1..n) = (IF 1 > n THEN 0 ELSE n - 1 + 1) /\ IsFiniteSet(1..n)
    BY ONLY <2>1, FS_Interval, Zenon
  <2>3. Cardinality(1..n) = n
    BY <1>2, <2>2 DEF n
  <2> QED BY <2>2, <2>3 DEF n
<1>6. order \in Injection(D, Stale)
  BY <1>3 DEF Injection, IsInjective
<1>7. order \in Surjection(D, Stale)
  <2> HIDE DEF D, Stale
  <2> QED BY <1>1, <1>5, <1>6, FS_Injection
<1> QED BY <1>3, <1>4, <1>7 DEF Surjection

LEMMA UpdatesType ==
    ASSUME TypeOK, NEW order \in SetToSeqs(Stale)
    PROVE  /\ Updates(order) \in Seq(Message)
           /\ Len(Updates(order)) = Len(order)
           /\ \A k \in 1..Len(order) : Updates(order)[k] = Buffer(order[k], edited[order[k]])
<1> DEFINE n == Len(order)
<1>1. n \in Nat /\ DOMAIN order = 1..n /\ \A k \in 1..n : order[k] \in Files
  BY StaleOrder
<1>2. \A k \in 1..n : Buffer(order[k], edited[order[k]]) \in Message
  BY <1>1, MessageTypes DEF TypeOK
<1>3. Updates(order) = [k \in 1..n |-> Buffer(order[k], edited[order[k]])]
  BY <1>1 DEF Updates
<1> HIDE DEF n
<1>4. Updates(order) \in Seq(Message)
  BY <1>1, <1>2, <1>3, IsASeq
<1>5. Len(Updates(order)) = n
  BY <1>1, <1>3, <1>4
<1> QED BY <1>3, <1>4, <1>5 DEF n

\* The variables that getting a client changes.
QueueType ==
    /\ state \in {"initial", "spawning", "running", "shutdown"}
    /\ peer \in Ends
    /\ pending \in Seq(Message)
    /\ given \in Seq(Entry)
    /\ draft \in [Processes -> [Files -> Versions]]

LEMMA SpawnedType ==
    ASSUME TypeOK, NEW p \in Ends, NEW calls \in Seq(Message), Spawned(p, calls)
    PROVE  QueueType'
<1>1. CASE p = NoProcess
  BY <1>1 DEF Spawned, TypeOK, QueueType, Ends, Entry
<1>2. CASE p # NoProcess
  <2>1. p \in Processes /\ p \in Ends
    BY <1>2 DEF Ends
  <2>2. given \o Given(calls, p) \in Seq(Entry)
    BY <2>1, GivenProperties, ConcatProperties DEF TypeOK, Entry, Ends
  <2>3. [draft EXCEPT ![p] = Nothing] \in [Processes -> [Files -> Versions]]
    BY VersionTypes DEF TypeOK
  <2> QED BY <1>2, <2>1, <2>2, <2>3, EmptySeq DEF Spawned, QueueType
<1> QED BY <1>1, <1>2

LEMMA GetClientType ==
    ASSUME TypeOK, NEW p \in Ends, NEW calls \in Seq(Message), GetClient(calls, p)
    PROVE  QueueType'
<1>1. CASE state = "initial"
  BY <1>1, SpawnedType DEF GetClient
<1>2. CASE state # "initial"
  <2>1. /\ IF state = "spawning"
           THEN pending' = pending \o calls /\ UNCHANGED given
           ELSE given' = given \o Given(calls, peer) /\ UNCHANGED pending
        /\ UNCHANGED <<state, peer, draft>>
    BY <1>2 DEF GetClient
  <2>2. pending \o calls \in Seq(Message)
    BY ConcatProperties DEF TypeOK
  <2>3. given \o Given(calls, peer) \in Seq(Entry)
    BY GivenProperties, ConcatProperties DEF TypeOK, Entry, Ends
  <2> QED BY <2>1, <2>2, <2>3 DEF TypeOK, QueueType, Entry, Ends
<1> QED BY <1>1, <1>2

LEMMA OutcomesAreEnds == Outcomes \in SUBSET Ends /\ NoProcess \in Ends /\ Processes \in SUBSET Ends
BY DEF Outcomes, Ends

LEMMA AskType ==
    ASSUME TypeOK, NEW q \in Queries, NEW p \in Outcomes, Ask(q, p), SupervisorTypeOK'
    PROVE  TypeOK'
<1>1. <<Query(q)>> \in Seq(Message)
  BY MessageTypes
<1>2. /\ answer' \in [Queries -> {"none", "asked", "reply", "error"}]
      /\ wanted' \in [Queries -> [Files -> Versions]]
      /\ UNCHANGED <<wire, edited, disk>>
  BY DEF Ask, bufferVars, TypeOK
<1>3. QueueType' /\ sentSeq' \in [Files -> Versions]
  <2>1. CASE state = "shutdown"
    BY <1>1, <2>1, GetClientType, OutcomesAreEnds DEF Ask, TypeOK
  <2>2. CASE state # "shutdown"
    <3>1. PICK order \in SetToSeqs(Stale) : GetClient(Updates(order) \o <<Query(q)>>, p)
      BY <2>2 DEF Ask
    <3>2. Updates(order) \o <<Query(q)>> \in Seq(Message)
      BY <1>1, UpdatesType, ConcatProperties
    <3>3. sentSeq' = [f \in Files |-> IF f \in Stale THEN edited[f] ELSE sentSeq[f]]
      BY <2>2 DEF Ask
    <3>4. sentSeq' \in [Files -> Versions]
      BY <3>3 DEF TypeOK
    <3> QED BY <3>1, <3>2, <3>4, GetClientType, OutcomesAreEnds
  <2> QED BY <2>1, <2>2
<1> QED BY <1>2, <1>3 DEF TypeOK, QueueType, Ends, Entry

LEMMA SaveType ==
    ASSUME TypeOK, NEW f \in Files, Save(f), SupervisorTypeOK'
    PROVE  TypeOK'
<1>1. /\ disk' \in [Files -> Versions] /\ sentSeq' \in [Files -> Versions]
      /\ UNCHANGED <<wire, edited, wanted, answer>>
  BY VersionTypes DEF Save, TypeOK
<1>2. QueueType'
  <2>1. CASE peer = NoProcess
    BY <2>1 DEF Save, TypeOK, QueueType, Ends, Entry
  <2>2. CASE peer # NoProcess
    <3>1. Buffer(f, 0) \in Message
      BY MessageTypes, VersionTypes
    <3>2. <<Buffer(f, 0)>> \in Seq(Message) /\ GetClient(<<Buffer(f, 0)>>, NoProcess)
      BY <2>2, <3>1 DEF Save
    <3> QED BY <3>2, GetClientType, OutcomesAreEnds
  <2> QED BY <2>1, <2>2
<1> QED BY <1>1, <1>2 DEF TypeOK, QueueType, Ends, Entry

LEMMA DispatchType == ASSUME TypeOK, Dispatch, SupervisorTypeOK' PROVE TypeOK'
<1> DEFINE next == Head(given)
<1>1. next \in Entry /\ Tail(given) \in Seq(Entry) /\ given' = Tail(given)
  BY HeadTailProperties DEF Dispatch, TypeOK, Ends, Entry
<1>2. next.call \in Message /\ next.to \in Ends
  BY <1>1 DEF Entry
<1>3. CASE next.to = NoProcess
  <2>1. answer' \in [Queries -> {"none", "asked", "reply", "error"}]
    BY <1>3 DEF Dispatch, TypeOK
  <2> QED BY <1>1, <1>3, <2>1 DEF Dispatch, TypeOK, bufferVars, Ends, Entry
<1>4. CASE next.to # NoProcess
  <2>1. next.to \in Processes /\ wire[next.to] \in Seq(Message)
    BY <1>2, <1>4 DEF TypeOK, Ends
  <2>2. Append(wire[next.to], next.call) \in Seq(Message)
    BY <1>2, <2>1, AppendProperties
  <2>3. wire' = [wire EXCEPT ![next.to] = Append(wire[next.to], next.call)] /\ answer' = answer
    BY <1>4 DEF Dispatch
  <2> HIDE DEF next
  <2>4. wire' \in [Processes -> Seq(Message)]
    BY <2>2, <2>3 DEF TypeOK
  <2> QED BY <1>1, <2>3, <2>4 DEF Dispatch, TypeOK, bufferVars, Ends, Entry
<1> QED BY <1>3, <1>4

LEMMA DestroyType == ASSUME TypeOK, Destroy, SupervisorTypeOK' PROVE TypeOK'
<1>1. given \o Given(pending, NoProcess) \in Seq(Entry)
  BY OutcomesAreEnds, GivenProperties, ConcatProperties DEF TypeOK, Ends, Entry
<1>2. given' \in Seq(Entry) /\ pending' \in Seq(Message) /\ sentSeq' \in [Files -> Versions]
  BY <1>1, VersionTypes DEF Destroy, Flushed, Forgotten
<1> QED BY <1>2 DEF Destroy, TypeOK, bufferVars, queryVars, Ends, Entry

LEMMA ExitedType ==
    ASSUME TypeOK, NEW p \in Processes, NEW next \in Outcomes, Exited(p, next), SupervisorTypeOK'
    PROVE  TypeOK'
<1>1. sentSeq' \in [Files -> Versions] /\ UNCHANGED <<wire, edited, disk, wanted, answer>>
  BY VersionTypes DEF Exited, Forgotten, bufferVars
<1>2. QueueType'
  <2>1. CASE Restarts(p)
    BY <2>1, SpawnedType, OutcomesAreEnds DEF Exited, TypeOK
  <2>2. CASE ~Restarts(p)
    BY <2>2 DEF Exited, TypeOK, QueueType, Ends, Entry
  <2> QED BY <2>1, <2>2
<1> QED BY <1>1, <1>2 DEF TypeOK, QueueType, Ends, Entry

LEMMA RespawnType ==
    ASSUME TypeOK, NEW next \in Outcomes, Respawn(next), SupervisorTypeOK'
    PROVE  TypeOK'
<1>1. QueueType' /\ UNCHANGED <<wire, sentSeq, edited, disk, wanted, answer>>
  BY SpawnedType, OutcomesAreEnds DEF Respawn, TypeOK, bufferVars
<1> QED BY <1>1 DEF TypeOK, QueueType, Ends, Entry

LEMMA ServeType ==
    ASSUME TypeOK, NEW p \in Processes, Serve(p), SupervisorTypeOK'
    PROVE  TypeOK'
<1> DEFINE next == Head(wire[p])
<1>1. next \in Message /\ Tail(wire[p]) \in Seq(Message)
  BY HeadTailProperties DEF Serve, TypeOK
<1>2. wire' = [wire EXCEPT ![p] = Tail(wire[p])]
  BY DEF Serve
<1>3. wire' \in [Processes -> Seq(Message)]
  BY <1>1, <1>2 DEF TypeOK
<1>4. draft' \in [Processes -> [Files -> Versions]] /\ answer' \in [Queries -> {"none", "asked", "reply", "error"}]
  <2>1. CASE next.kind = "buffer"
    <3>1. next.file \in Files /\ next.version \in Versions
      BY <1>1, <2>1, MessageKinds
    <3>2. draft' = [draft EXCEPT ![p][next.file] = next.version] /\ answer' = answer
      BY <2>1 DEF Serve
    <3> HIDE DEF next
    <3> QED BY <3>1, <3>2 DEF TypeOK
  <2>2. CASE next.kind # "buffer"
    BY <2>2 DEF Serve, TypeOK
  <2> QED BY <2>1, <2>2
<1> QED BY <1>3, <1>4 DEF Serve, TypeOK, bufferVars

LEMMA HangUpType ==
    ASSUME TypeOK, NEW p \in Processes, HangUp(p), SupervisorTypeOK'
    PROVE  TypeOK'
<1>1. wire' \in [Processes -> Seq(Message)]
  BY EmptySeq DEF HangUp, TypeOK
<1>2. answer' \in [Queries -> {"none", "asked", "reply", "error"}]
  BY DEF HangUp, TypeOK
<1> QED BY <1>1, <1>2 DEF HangUp, TypeOK, bufferVars

LEMMA ClientTypeStep == SupervisorInv' /\ TypeOK /\ [Next]_vars => TypeOK'
<1> SUFFICES ASSUME SupervisorTypeOK', TypeOK, [Next]_vars PROVE TypeOK'
  BY DEF SupervisorInv
<1>1. CASE UNCHANGED vars
  BY <1>1 DEF vars, clientVars, bufferVars, queryVars, TypeOK
<1>2. CASE \E q \in Queries, p \in Outcomes : Ask(q, p)
  BY <1>2, AskType
<1>3. CASE Dispatch
  BY <1>3, DispatchType
<1>4. ASSUME NEW f \in Files, Edit(f) PROVE TypeOK'
  <2>1. edited[f] + 1 \in Versions
    BY <1>4, ClientAssumption DEF Edit, TypeOK, Versions
  <2>2. edited' \in [Files -> Versions]
    BY <1>4, <2>1 DEF Edit, TypeOK
  <2> QED BY <1>4, <2>2 DEF Edit, clientVars, queryVars, TypeOK
<1>5. CASE \E f \in Files : Save(f)
  BY <1>5, SaveType
<1>6. CASE Destroy
  BY <1>6, DestroyType
<1>7. CASE \E p \in Processes, next \in Outcomes : Exited(p, next)
  BY <1>7, ExitedType
<1>8. CASE \E next \in Outcomes : Respawn(next)
  BY <1>8, RespawnType
<1>9. CASE TimePasses \/ \E p \in Processes : Crash(p)
  BY <1>9 DEF TimePasses, Crash, clientVars, bufferVars, queryVars, TypeOK
<1>10. CASE \E p \in Processes : Serve(p)
  BY <1>10, ServeType
<1>11. CASE \E p \in Processes : HangUp(p)
  BY <1>11, HangUpType
<1> QED BY <1>1, <1>2, <1>3, <1>4, <1>5, <1>6, <1>7, <1>8, <1>9, <1>10, <1>11 DEF Next

LEMMA ClientTypeStart == Init => TypeOK
<1> SUFFICES ASSUME Init PROVE TypeOK
  OBVIOUS
<1>1. SupervisorTypeOK
  BY SupervisorStart DEF Init, SupervisorInv
<1>2. /\ pending \in Seq(Message) /\ given \in Seq(Entry)
      /\ wire \in [Processes -> Seq(Message)]
  BY EmptySeq DEF Init
<1> QED BY <1>1, <1>2, VersionTypes DEF Init, TypeOK, Entry, Ends

\* Every handler leaves the client, its queues and what its peers hold with
\* values of their types: no message is made of a file, version or query that
\* does not exist, however the calls and the deaths of servers fall.
THEOREM ClientTypeCorrect == Spec => []TypeOK
BY ClientTypeStart, ClientTypeStep, ClientAlways, PTL DEF Spec

-----------------------------------------------------------------------------
(***************************************************************************)
(* What a server will hold when it reads a query.  The calls on their way  *)
(* to a process are a stream: those it has been sent and not read, then    *)
(* those that wait for the main loop.                                      *)
(***************************************************************************)

IsDraft(e, t, f) == e.to = t /\ e.call.kind = "buffer" /\ e.call.file = f
IsQuery(e, t) == e.to = t /\ e.call.kind = "query"
DraftsBefore(s, n, t, f) == {i \in 1..Len(s) : i < n /\ IsDraft(s[i], t, f)}

\* The process t, which holds base[f] of f now, will hold version w or a newer
\* one when it comes to the n-th call of s: the last of the drafts before it is
\* as new as w, and if there is none, base[f] is.
Holds(s, n, t, f, base, w) ==
    LET drafts == DraftsBefore(s, n, t, f) IN
    /\ drafts = {} => base[f] >= w
    /\ \A i \in drafts : (\A j \in drafts : j <= i) => s[i].call.version >= w

\* Every query on its way to t will find what it wants, and when all is read t
\* holds what seq_by_file says it was sent.
FreshStream(s, t, base, want, sent) ==
    /\ \A n \in 1..Len(s) : IsQuery(s[n], t)
          => \A f \in Files : Holds(s, n, t, f, base, want[s[n].call.query][f])
    /\ \A f \in Files : Holds(s, Len(s) + 1, t, f, base, sent[f])

\* A query that was not made is nowhere.
Absent(m, calls) == \A i \in DOMAIN calls : calls[i] # m
AbsentGiven(m) == \A i \in DOMAIN given : given[i].call # m
AskedInv ==
    \A q \in Queries : answer[q] = "none"
        => /\ Absent(Query(q), pending) /\ AbsentGiven(Query(q))
           /\ \A p \in Processes : Absent(Query(q), wire[p])

\* The stream of the server that runs is fresh; without one, the calls that
\* wait would be for one that holds nothing yet.
Stream(p) == Given(wire[p], p) \o given
StreamInv ==
    /\ \A p \in Processes : process[p] = "running" => FreshStream(Stream(p), p, draft[p], wanted, sentSeq)
    /\ peer = NoProcess => FreshStream(Given(pending, NoProcess), NoProcess, Nothing, wanted, sentSeq)

LEMMA StreamType == ASSUME TypeOK, NEW p \in Processes PROVE Stream(p) \in Seq(Entry)
BY OutcomesAreEnds, GivenProperties, ConcatProperties DEF TypeOK, Stream, Entry, Ends

\* The calls to v in u are the calls to t in s, in the same order: h says where
\* a call of u is in s.
SameCalls(s, t, u, v, h) ==
    /\ \A i \in 1..Len(u) : u[i].to = v
          => h[i] \in 1..Len(s) /\ s[h[i]].to = t /\ s[h[i]].call = u[i].call
    /\ \A i, j \in 1..Len(u) : u[i].to = v /\ u[j].to = v /\ i < j => h[i] < h[j]
    /\ \A k \in 1..Len(s) : s[k].to = t => \E i \in 1..Len(u) : u[i].to = v /\ h[i] = k

\* Two streams with the same calls are fresh together, whatever else is between.
LEMMA Reindexed ==
    ASSUME NEW s \in Seq(Entry), NEW t, NEW u \in Seq(Entry), NEW v, NEW h, NEW base, NEW want, NEW sent,
           SameCalls(s, t, u, v, h), FreshStream(s, t, base, want, sent)
    PROVE  FreshStream(u, v, base, want, sent)
<1>s. /\ \A i \in 1..Len(u) : u[i].to = v
           => h[i] \in 1..Len(s) /\ s[h[i]].to = t /\ s[h[i]].call = u[i].call
      /\ \A i, j \in 1..Len(u) : u[i].to = v /\ u[j].to = v /\ i < j => h[i] < h[j]
      /\ \A k \in 1..Len(s) : s[k].to = t => \E i \in 1..Len(u) : u[i].to = v /\ h[i] = k
  BY DEF SameCalls
<1>0. Len(s) \in Nat /\ Len(u) \in Nat
  OBVIOUS
<1>1. ASSUME NEW m \in 1..Len(s) + 1, NEW n \in 1..Len(u) + 1, NEW f, NEW w,
             \A i \in 1..Len(u) : u[i].to = v => (i < n <=> h[i] < m),
             Holds(s, m, t, f, base, w)
      PROVE  Holds(u, n, v, f, base, w)
  <2> DEFINE Ds == DraftsBefore(s, m, t, f)
             Du == DraftsBefore(u, n, v, f)
  <2>1. \A i \in Du : i \in 1..Len(u) /\ i < n /\ u[i].to = v /\ IsDraft(u[i], v, f)
    BY <1>0 DEF DraftsBefore, IsDraft
  <2>2. \A i \in Du : h[i] \in Ds /\ s[h[i]].call = u[i].call
    <3> SUFFICES ASSUME NEW i \in Du PROVE h[i] \in Ds /\ s[h[i]].call = u[i].call
      OBVIOUS
    <3>1. h[i] \in 1..Len(s) /\ s[h[i]].to = t /\ s[h[i]].call = u[i].call /\ h[i] < m
      BY <1>s, <1>1, <2>1
    <3>2. IsDraft(s[h[i]], t, f)
      BY <2>1, <3>1 DEF IsDraft
    <3> QED BY <3>1, <3>2 DEF DraftsBefore
  <2>3. \A k \in Ds : \E i \in Du : h[i] = k
    <3> SUFFICES ASSUME NEW k \in Ds PROVE \E i \in Du : h[i] = k
      OBVIOUS
    <3>1. k \in 1..Len(s) /\ k < m /\ IsDraft(s[k], t, f) /\ s[k].to = t
      BY <1>0 DEF DraftsBefore, IsDraft
    <3>2. PICK i \in 1..Len(u) : u[i].to = v /\ h[i] = k
      BY <1>s, <3>1
    <3>3. i < n /\ s[k].call = u[i].call
      BY <1>s, <1>1, <3>1, <3>2
    <3>4. IsDraft(u[i], v, f)
      BY <3>1, <3>2, <3>3 DEF IsDraft
    <3> QED BY <3>2, <3>3, <3>4 DEF DraftsBefore
  <2>4. \A i, j \in Du : j <= i => h[j] <= h[i]
    <3> SUFFICES ASSUME NEW i \in Du, NEW j \in Du, j <= i PROVE h[j] <= h[i]
      OBVIOUS
    <3>1. i \in 1..Len(u) /\ j \in 1..Len(u) /\ u[i].to = v /\ u[j].to = v
      BY <2>1
    <3>2. h[i] \in Nat /\ h[j] \in Nat
      BY <1>0, <1>s, <3>1
    <3>3. CASE j = i
      BY <3>2, <3>3
    <3>4. CASE j # i
      <4>1. j < i
        BY <3>1, <3>4, <1>0
      <4>2. h[j] < h[i]
        BY <1>s, <3>1, <4>1
      <4> QED BY <3>2, <4>2
    <3> QED BY <3>3, <3>4
  <2>5. /\ Ds = {} => base[f] >= w
        /\ \A i \in Ds : (\A j \in Ds : j <= i) => s[i].call.version >= w
    BY <1>1 DEF Holds
  <2> HIDE DEF Ds, Du
  <2>6. Du = {} => base[f] >= w
    BY <2>3, <2>5
  <2>7. ASSUME NEW i \in Du, \A j \in Du : j <= i PROVE u[i].call.version >= w
    <3>1. \A k \in Ds : k <= h[i]
      BY <2>3, <2>4, <2>7
    <3>2. s[h[i]].call.version >= w /\ s[h[i]].call = u[i].call
      BY <2>2, <2>5, <2>7, <3>1
    <3> QED BY <3>2
  <2> QED BY <2>6, <2>7 DEF Holds, Du
<1>2. ASSUME NEW n \in 1..Len(u), IsQuery(u[n], v), NEW f \in Files
      PROVE  Holds(u, n, v, f, base, want[u[n].call.query][f])
  <2> DEFINE m == h[n]
  <2>1. u[n].to = v /\ m \in 1..Len(s) /\ s[m].to = t /\ s[m].call = u[n].call
    BY <1>s, <1>2 DEF IsQuery
  <2>2. IsQuery(s[m], t)
    BY <1>2, <2>1 DEF IsQuery
  <2>3. Holds(s, m, t, f, base, want[u[n].call.query][f])
    BY <2>1, <2>2 DEF FreshStream
  <2>4. \A i \in 1..Len(u) : u[i].to = v => (i < n <=> h[i] < m)
    <3> SUFFICES ASSUME NEW i \in 1..Len(u), u[i].to = v PROVE i < n <=> h[i] < m
      OBVIOUS
    <3>1. h[i] \in Nat /\ m \in Nat
      BY <1>0, <1>s, <2>1
    <3>2. i < n => h[i] < m
      BY <1>s, <2>1
    <3>3. n < i => m < h[i]
      BY <1>s, <2>1
    <3>4. i < n \/ n < i \/ i = n
      OBVIOUS
    <3> QED BY <3>1, <3>2, <3>3, <3>4
  <2>5. m \in 1..Len(s) + 1 /\ n \in 1..Len(u) + 1
    BY <2>1, <1>0
  <2> HIDE DEF m
  <2> QED BY <1>1, <2>3, <2>4, <2>5
<1>3. ASSUME NEW f \in Files
      PROVE  Holds(u, Len(u) + 1, v, f, base, sent[f])
  <2>1. Holds(s, Len(s) + 1, t, f, base, sent[f])
    BY DEF FreshStream
  <2>2. \A i \in 1..Len(u) : u[i].to = v => (i < Len(u) + 1 <=> h[i] < Len(s) + 1)
    BY <1>0, <1>s
  <2>3. Len(s) + 1 \in 1..Len(s) + 1 /\ Len(u) + 1 \in 1..Len(u) + 1
    BY <1>0
  <2> QED BY <1>1, <2>1, <2>2, <2>3
<1> QED BY <1>2, <1>3 DEF FreshStream

\* A concatenation, element by element.
LEMMA ConcatAt ==
    ASSUME NEW S, NEW a \in Seq(S), NEW b \in Seq(S)
    PROVE  /\ Len(a) \in Nat /\ Len(b) \in Nat /\ a \o b \in Seq(S)
           /\ Len(a \o b) = Len(a) + Len(b)
           /\ \A i \in 1..Len(a) : (a \o b)[i] = a[i]
           /\ \A j \in 1..Len(b) : (a \o b)[Len(a) + j] = b[j]
<1> DEFINE m == Len(a)
           k == Len(b)
<1>1. m \in Nat /\ k \in Nat
  OBVIOUS
<1>2. /\ a \o b \in Seq(S) /\ Len(a \o b) = m + k
      /\ \A i \in 1..m + k : (a \o b)[i] = IF i <= m THEN a[i] ELSE b[i - m]
  BY ConcatProperties
<1> HIDE DEF m, k
<1>3. \A i \in 1..m : i \in 1..m + k /\ i <= m
  BY <1>1
<1>4. \A j \in 1..k : m + j \in 1..m + k /\ ~(m + j <= m) /\ (m + j) - m = j
  BY <1>1
<1>5. \A i \in 1..m : (a \o b)[i] = a[i]
  BY <1>2, <1>3
<1>6. \A j \in 1..k : (a \o b)[m + j] = b[j]
  BY <1>2, <1>4
<1> QED BY <1>1, <1>2, <1>5, <1>6 DEF m, k

\* What is appended changes nothing for the calls before it.
LEMMA HoldsBefore ==
    ASSUME NEW s \in Seq(Entry), NEW u \in Seq(Entry), NEW n \in 1..Len(s) + 1, NEW t, NEW f, NEW base, NEW w
    PROVE  /\ DraftsBefore(s \o u, n, t, f) = DraftsBefore(s, n, t, f)
           /\ Holds(s \o u, n, t, f, base, w) <=> Holds(s, n, t, f, base, w)
<1>0. Len(s) \in Nat /\ Len(u) \in Nat /\ Len(s \o u) = Len(s) + Len(u)
  BY ConcatAt
<1>1. \A i \in 1..Len(s) : (s \o u)[i] = s[i]
  BY ConcatAt
<1>2. \A i : i \in 1..Len(s) /\ i < n <=> i \in 1..Len(s \o u) /\ i < n
  BY <1>0
<1>3. DraftsBefore(s \o u, n, t, f) = DraftsBefore(s, n, t, f)
  BY <1>1, <1>2 DEF DraftsBefore
<1>4. \A i \in DraftsBefore(s, n, t, f) : (s \o u)[i] = s[i]
  BY <1>1 DEF DraftsBefore
<1> QED BY <1>3, <1>4 DEF Holds

\* Older contents are wanted less.
LEMMA HoldsLess ==
    ASSUME NEW s \in Seq(Entry), NEW n, NEW t, NEW f \in Files, NEW base \in [Files -> Versions],
           NEW w \in Versions, NEW v \in Versions, v <= w, Holds(s, n, t, f, base, w)
    PROVE  Holds(s, n, t, f, base, v)
<1> DEFINE D == DraftsBefore(s, n, t, f)
<1>1. w \in Nat /\ v \in Nat /\ base[f] \in Nat
  BY VersionTypes
<1>2. \A i \in D : s[i].call.version \in Nat
  <2>1. \A i \in D : s[i] \in Entry /\ s[i].call.kind = "buffer"
    BY DEF DraftsBefore, IsDraft
  <2> QED BY <2>1, MessageKinds, VersionTypes DEF Entry
<1>3. /\ D = {} => base[f] >= w
      /\ \A i \in D : (\A j \in D : j <= i) => s[i].call.version >= w
  BY DEF Holds
<1> HIDE DEF D
<1>4. D = {} => base[f] >= v
  BY <1>1, <1>3
<1>5. ASSUME NEW i \in D, \A j \in D : j <= i PROVE s[i].call.version >= v
  <2>1. s[i].call.version >= w /\ s[i].call.version \in Nat
    BY <1>2, <1>3, <1>5
  <2> QED BY <1>1, <2>1
<1> QED BY <1>4, <1>5 DEF Holds, D

\* A place in a concatenation is in one part or in the other.
LEMMA ConcatPlace ==
    ASSUME NEW a \in Seq(Entry), NEW b \in Seq(Entry), NEW i \in 1..Len(a \o b), i \notin 1..Len(a)
    PROVE  \E j \in 1..Len(b) : i = Len(a) + j /\ (a \o b)[i] = b[j]
<1>1. Len(a) \in Nat /\ Len(b) \in Nat /\ Len(a \o b) = Len(a) + Len(b)
  BY ConcatAt
<1>2. i - Len(a) \in 1..Len(b) /\ i = Len(a) + (i - Len(a))
  BY <1>1
<1> QED BY <1>2, ConcatAt

\* What is appended without a draft of f leaves the last one where it was.
LEMMA HoldsUndrafted ==
    ASSUME NEW s \in Seq(Entry), NEW u \in Seq(Entry), NEW n \in Nat, n > Len(s),
           NEW t, NEW f, NEW base, NEW w,
           \A j \in 1..Len(u) : ~IsDraft(u[j], t, f),
           Holds(s, Len(s) + 1, t, f, base, w)
    PROVE  Holds(s \o u, n, t, f, base, w)
<1>0. Len(s) \in Nat /\ Len(u) \in Nat /\ Len(s \o u) = Len(s) + Len(u)
  BY ConcatAt
<1>1. \A i \in 1..Len(s) : (s \o u)[i] = s[i] /\ i \in 1..Len(s \o u) /\ i < n /\ i < Len(s) + 1
  BY <1>0, ConcatAt
<1>2. \A i \in 1..Len(s \o u) : IsDraft((s \o u)[i], t, f) => i \in 1..Len(s)
  BY ConcatPlace
<1>3. DraftsBefore(s \o u, n, t, f) = DraftsBefore(s, Len(s) + 1, t, f)
  BY <1>1, <1>2 DEF DraftsBefore
<1>4. \A i \in DraftsBefore(s, Len(s) + 1, t, f) : (s \o u)[i] = s[i]
  BY <1>1 DEF DraftsBefore
<1> QED BY <1>3, <1>4 DEF Holds

\* When drafts of f are appended, the last of them counts.
LEMMA HoldsDrafted ==
    ASSUME NEW s \in Seq(Entry), NEW u \in Seq(Entry), NEW n \in Nat,
           NEW t, NEW f, NEW base, NEW w,
           NEW k \in 1..Len(u), IsDraft(u[k], t, f), Len(s) + k < n,
           \A j \in 1..Len(u) : IsDraft(u[j], t, f) => u[j].call.version >= w
    PROVE  Holds(s \o u, n, t, f, base, w)
<1> DEFINE all == s \o u
           D == DraftsBefore(all, n, t, f)
<1>0. Len(s) \in Nat /\ Len(u) \in Nat /\ Len(all) = Len(s) + Len(u) /\ all[Len(s) + k] = u[k]
  BY ConcatAt
<1>1. Len(s) + k \in D
  <2>1. Len(s) + k \in 1..Len(all)
    BY <1>0
  <2> HIDE DEF all
  <2> QED BY <1>0, <2>1 DEF DraftsBefore
<1>2. ASSUME NEW i \in D, \A j \in D : j <= i PROVE all[i].call.version >= w
  <2>1. i \in 1..Len(all) /\ IsDraft(all[i], t, f) /\ Len(s) + k <= i
    BY <1>1, <1>2 DEF DraftsBefore
  <2>2. i \notin 1..Len(s)
    BY <1>0, <2>1
  <2>3. PICK j \in 1..Len(u) : all[i] = u[j]
    BY <2>1, <2>2, ConcatPlace
  <2> HIDE DEF all, D
  <2> QED BY <2>1, <2>3
<1>3. D # {}
  BY <1>1
<1> HIDE DEF D
<1> QED BY <1>2, <1>3 DEF Holds, D

\* The files that are newer than what was sent, then the query.
LEMMA AskedFresh ==
    ASSUME TypeOK, NEW q \in Queries, NEW order \in SetToSeqs(Stale),
           NEW s \in Seq(Entry), NEW t \in Ends, NEW base \in [Files -> Versions],
           FreshStream(s, t, base, wanted, sentSeq),
           \A n \in 1..Len(s) : s[n].call # Query(q)
    PROVE  FreshStream(s \o Given(Updates(order) \o <<Query(q)>>, t), t, base,
                       [wanted EXCEPT ![q] = edited],
                       [f \in Files |-> IF f \in Stale THEN edited[f] ELSE sentSeq[f]])
<1> DEFINE first == Updates(order)
           last == <<Query(q)>>
           k == Len(order)
           u == Given(first \o last, t)
           all == s \o u
           want == [wanted EXCEPT ![q] = edited]
           sent == [f \in Files |-> IF f \in Stale THEN edited[f] ELSE sentSeq[f]]
<1>k. k \in Nat
  BY StaleOrder
<1>1. /\ k \in Nat /\ first \in Seq(Message) /\ Len(first) = k
      /\ \A j \in 1..k : first[j] = Buffer(order[j], edited[order[j]]) /\ order[j] \in Stale
      /\ \A f \in Stale : \E j \in 1..k : order[j] = f
  BY StaleOrder, UpdatesType
<1>2. last \in Seq(Message) /\ Len(last) = 1 /\ last[1] = Query(q) /\ 1 \in 1..1
  BY MessageTypes
<1>3. /\ u \in Seq(Entry) /\ Len(u) = k + 1
      /\ \A j \in 1..k : u[j] = [call |-> Buffer(order[j], edited[order[j]]), to |-> t]
      /\ u[k + 1] = [call |-> Query(q), to |-> t]
  <2> HIDE DEF first, last, k
  <2> DEFINE calls == first \o last
  <2>1. /\ calls \in Seq(Message) /\ Len(calls) = Len(first) + Len(last)
        /\ \A j \in 1..Len(first) : calls[j] = first[j]
        /\ \A j \in 1..Len(last) : calls[Len(first) + j] = last[j]
    <3>1. first \in Seq(Message) /\ last \in Seq(Message)
      BY <1>1, <1>2
    <3> QED BY <3>1, ConcatAt
  <2> HIDE DEF calls
  <2>2. /\ Given(calls, t) \in Seq(Entry) /\ Len(Given(calls, t)) = Len(calls)
        /\ \A j \in 1..Len(calls) : Given(calls, t)[j] = [call |-> calls[j], to |-> t]
    BY <2>1, GivenProperties
  <2>3. u = Given(calls, t)
    BY DEF calls
  <2>4. k + 1 \in 1..k + 1 /\ \A j \in 1..k : j \in 1..k + 1
    BY <1>k
  <2> HIDE DEF u
  <2>5. Len(u) = k + 1 /\ Len(calls) = k + 1 /\ calls[k + 1] = Query(q)
    BY <1>k, <1>1, <1>2, <2>1, <2>2, <2>3
  <2>6. u[k + 1] = [call |-> Query(q), to |-> t]
    BY <1>k, <2>2, <2>3, <2>4, <2>5
  <2>7. \A j \in 1..k : u[j] = [call |-> Buffer(order[j], edited[order[j]]), to |-> t]
    BY <1>k, <1>1, <2>1, <2>2, <2>3, <2>4, <2>5
  <2> QED BY <2>2, <2>3, <2>5, <2>6, <2>7
<1>4. \A j \in 1..k + 1 : j \in 1..k \/ j = k + 1
  BY <1>k
<1> HIDE DEF first, last, k, u
<1>d. \A j \in 1..k : /\ u[j].to = t /\ u[j].call.kind = "buffer"
                     /\ u[j].call.file = order[j] /\ u[j].call.version = edited[order[j]]
  <2> SUFFICES ASSUME NEW j \in 1..k
               PROVE  /\ u[j].to = t /\ u[j].call.kind = "buffer"
                      /\ u[j].call.file = order[j] /\ u[j].call.version = edited[order[j]]
    OBVIOUS
  <2>1. u[j] = [call |-> Buffer(order[j], edited[order[j]]), to |-> t]
    BY <1>3
  <2> QED BY <2>1 DEF Buffer
<1>q. u[k + 1].to = t /\ u[k + 1].call.kind = "query" /\ u[k + 1].call.query = q
  <2>1. u[k + 1] = [call |-> Query(q), to |-> t]
    BY <1>3
  <2> DEFINE e == u[k + 1]
  <2> HIDE DEF e
  <2>2. e = [call |-> Query(q), to |-> t]
    BY <2>1 DEF e
  <2>3. e.to = t /\ e.call.kind = "query" /\ e.call.query = q
    BY <2>2 DEF Query
  <2> QED BY <2>3 DEF e
<1>l. u \in Seq(Entry) /\ Len(u) = k + 1
  BY <1>3
<1>5. \A f \in Files : edited[f] \in Versions /\ sentSeq[f] \in Versions /\ edited[f] \in Nat /\ sentSeq[f] \in Nat
  BY VersionTypes DEF TypeOK
<1>6. want[q] = edited /\ \A r \in Queries \ {q} : want[r] = wanted[r]
  BY DEF TypeOK
<1>7. \A f \in Files : sent[f] = IF f \in Stale THEN edited[f] ELSE sentSeq[f]
  OBVIOUS
<1>8. /\ Len(s) \in Nat /\ all \in Seq(Entry) /\ Len(all) = Len(s) + (k + 1)
      /\ \A i \in 1..Len(s) : all[i] = s[i]
  <2>1. u \in Seq(Entry)
    BY <1>3
  <2>2. /\ Len(s) \in Nat /\ all \in Seq(Entry) /\ Len(all) = Len(s) + Len(u)
        /\ \A i \in 1..Len(s) : all[i] = s[i]
    BY <2>1, ConcatAt
  <2> HIDE DEF all
  <2> QED BY <1>k, <1>3, <2>2
<1> HIDE DEF all, want, sent
<1>9. ASSUME NEW f \in Files, NEW n \in Nat, n >= Len(all)
      PROVE  Holds(all, n, t, f, base, edited[f]) /\ Holds(all, n, t, f, base, sent[f])
  <2>1. CASE f \in Stale
    <3>1. PICK j \in 1..k : order[j] = f
      BY <1>1, <2>1
    <3>2. j \in 1..Len(u) /\ Len(s) + j < n
      BY <1>1, <1>3, <1>8, <1>9
    <3>3. IsDraft(u[j], t, f)
      BY <1>d, <3>1 DEF IsDraft
    <3>4. ASSUME NEW i \in 1..Len(u), IsDraft(u[i], t, f) PROVE u[i].call.version >= edited[f]
      <4>1. i \in 1..k
        BY <1>l, <1>q, <1>4, <3>4 DEF IsDraft
      <4>2. u[i].call.version = edited[f]
        BY <1>d, <3>4, <4>1 DEF IsDraft
      <4> QED BY <1>5, <4>2
    <3> QED BY <1>3, <1>7, <2>1, <3>2, <3>3, <3>4, HoldsDrafted DEF all
  <2>2. CASE f \notin Stale
    <3>1. ASSUME NEW i \in 1..Len(u) PROVE ~IsDraft(u[i], t, f)
      <4>1. CASE i \in 1..k
        BY <1>1, <1>d, <2>2, <4>1 DEF IsDraft
      <4>2. CASE i = k + 1
        BY <1>q, <4>2 DEF IsDraft
      <4> QED BY <1>3, <1>4, <4>1, <4>2
    <3>2. Holds(s, Len(s) + 1, t, f, base, sentSeq[f])
      BY DEF FreshStream
    <3>3. n > Len(s)
      BY <1>1, <1>8, <1>9
    <3>4. Holds(all, n, t, f, base, sentSeq[f])
      BY <1>3, <3>1, <3>2, <3>3, HoldsUndrafted DEF all
    <3>5. edited[f] <= sentSeq[f] /\ sent[f] = sentSeq[f]
      BY <1>5, <1>7, <2>2 DEF Stale
    <3> QED BY <1>5, <1>8, <3>4, <3>5, HoldsLess
  <2> QED BY <2>1, <2>2
<1>10. ASSUME NEW n \in 1..Len(all), IsQuery(all[n], t), NEW f \in Files
       PROVE  Holds(all, n, t, f, base, want[all[n].call.query][f])
  <2>1. CASE n \in 1..Len(s)
    <3>1. all[n] = s[n] /\ s[n].call # Query(q) /\ s[n] \in Entry /\ IsQuery(s[n], t)
      BY <1>8, <1>10, <2>1
    <3>2. s[n].call.query \in Queries \ {q}
      BY <3>1, MessageKinds DEF Entry, IsQuery
    <3>3. Holds(s, n, t, f, base, wanted[s[n].call.query][f]) /\ n \in 1..Len(s) + 1
      BY <1>8, <2>1, <3>1 DEF FreshStream
    <3>4. Holds(all, n, t, f, base, wanted[s[n].call.query][f])
      BY <1>3, <3>3, HoldsBefore DEF all
    <3> QED BY <1>6, <3>1, <3>2, <3>4
  <2>2. CASE n \notin 1..Len(s)
    <3>1. PICK j \in 1..Len(u) : n = Len(s) + j /\ all[n] = u[j]
      BY <1>3, <2>2, ConcatPlace DEF all
    <3>2. j = k + 1
      BY <1>l, <1>d, <1>4, <1>10, <3>1 DEF IsQuery
    <3>3. want[all[n].call.query][f] = edited[f]
      BY <1>q, <1>6, <3>1, <3>2
    <3>4. n \in Nat /\ n >= Len(all)
      BY <1>1, <1>8, <3>1, <3>2
    <3> QED BY <1>9, <3>3, <3>4
  <2> QED BY <2>1, <2>2
<1>11. ASSUME NEW f \in Files PROVE Holds(all, Len(all) + 1, t, f, base, sent[f])
  <2>1. Len(all) + 1 \in Nat /\ Len(all) + 1 >= Len(all)
    BY <1>1, <1>8
  <2> QED BY <1>9, <2>1
<1>12. FreshStream(all, t, base, want, sent)
  BY <1>10, <1>11 DEF FreshStream
<1> QED BY <1>12 DEF all, want, sent, u, first, last

\* A draft that is taken back.
LEMMA SavedFresh ==
    ASSUME TypeOK, NEW f \in Files, NEW s \in Seq(Entry), NEW t \in Ends,
           NEW base \in [Files -> Versions], FreshStream(s, t, base, wanted, sentSeq)
    PROVE  FreshStream(s \o Given(<<Buffer(f, 0)>>, t), t, base, wanted, [sentSeq EXCEPT ![f] = 0])
<1> DEFINE call == <<Buffer(f, 0)>>
           u == Given(call, t)
           all == s \o u
           sent == [sentSeq EXCEPT ![f] = 0]
<1>1. call \in Seq(Message) /\ Len(call) = 1 /\ call[1] = Buffer(f, 0)
  BY MessageTypes, VersionTypes
<1> HIDE DEF call
<1>2. u \in Seq(Entry) /\ Len(u) = 1 /\ u[1] = [call |-> Buffer(f, 0), to |-> t] /\ 1 \in 1..Len(u)
  <2>1. /\ u \in Seq(Entry) /\ Len(u) = 1
        /\ \A i \in 1..1 : u[i] = [call |-> call[i], to |-> t]
    BY <1>1, GivenProperties
  <2>2. 1 \in 1..1 /\ 1 \in Nat
    OBVIOUS
  <2> HIDE DEF u
  <2> QED BY <1>1, <2>1, <2>2
<1>3. \A j \in 1..Len(u) : j = 1
  <2> HIDE DEF u
  <2> QED BY <1>2
<1> HIDE DEF u
<1>4. /\ Len(s) \in Nat /\ all \in Seq(Entry) /\ Len(all) = Len(s) + 1
      /\ \A i \in 1..Len(s) : all[i] = s[i]
  <2>1. u \in Seq(Entry)
    BY <1>2
  <2>2. /\ Len(s) \in Nat /\ all \in Seq(Entry) /\ Len(all) = Len(s) + Len(u)
        /\ \A i \in 1..Len(s) : all[i] = s[i]
    BY <2>1, ConcatAt
  <2> HIDE DEF all
  <2> QED BY <1>2, <2>2
<1>5. \A g \in Files : sent[g] = IF g = f THEN 0 ELSE sentSeq[g]
  BY DEF TypeOK
<1> HIDE DEF all, sent
<1>6. ASSUME NEW n \in 1..Len(all), IsQuery(all[n], t), NEW g \in Files
      PROVE  Holds(all, n, t, g, base, wanted[all[n].call.query][g])
  <2>1. n \in 1..Len(s)
    <3> SUFFICES ASSUME n \notin 1..Len(s) PROVE FALSE
      OBVIOUS
    <3>1. PICK j \in 1..Len(u) : all[n] = u[j]
      BY <1>2, ConcatPlace DEF all
    <3> QED BY <1>2, <1>3, <1>6, <3>1 DEF IsQuery, Buffer
  <2>2. all[n] = s[n] /\ n \in 1..Len(s) + 1
    BY <1>4, <2>1
  <2>3. Holds(s, n, t, g, base, wanted[s[n].call.query][g])
    BY <1>6, <2>1, <2>2 DEF FreshStream
  <2> QED BY <1>2, <2>2, <2>3, HoldsBefore DEF all
<1>7. ASSUME NEW g \in Files PROVE Holds(all, Len(all) + 1, t, g, base, sent[g])
  <2>1. Len(all) + 1 \in Nat /\ Len(all) + 1 > Len(s) /\ Len(s) + 1 < Len(all) + 1
    BY <1>4
  <2>2. CASE g = f
    <3>1. IsDraft(u[1], t, g)
      BY <1>2, <2>2 DEF IsDraft, Buffer
    <3>2. \A j \in 1..Len(u) : u[j].call.version >= sent[g]
      BY <1>2, <1>3, <1>5, <2>2 DEF Buffer
    <3> QED BY <1>2, <2>1, <3>1, <3>2, HoldsDrafted DEF all
  <2>3. CASE g # f
    <3>1. \A j \in 1..Len(u) : ~IsDraft(u[j], t, g)
      BY <1>2, <1>3, <2>3 DEF IsDraft, Buffer
    <3>2. Holds(s, Len(s) + 1, t, g, base, sent[g])
      BY <1>5, <2>3 DEF FreshStream
    <3> QED BY <1>2, <2>1, <3>1, <3>2, HoldsUndrafted DEF all
  <2> QED BY <2>2, <2>3
<1>8. FreshStream(all, t, base, wanted, sent)
  BY <1>6, <1>7 DEF FreshStream
<1> QED BY <1>8 DEF all, sent, u, call

\* r is what remains of s when its first call was served, and new is what the
\* server then holds of the drafts.
Remaining(s, r, t, base, new) ==
    /\ Len(s) = Len(r) + 1
    /\ \A i \in 1..Len(r) : r[i] = s[i + 1]
    /\ s[1].to = t
    /\ new = IF s[1].call.kind = "buffer"
             THEN [base EXCEPT ![s[1].call.file] = s[1].call.version] ELSE base

\* A server reads a call: a draft replaces what it holds of the file.
LEMMA ServedFresh ==
    ASSUME NEW s \in Seq(Entry), NEW r \in Seq(Entry), NEW t, NEW base \in [Files -> Versions],
           NEW want, NEW sent, NEW new \in [Files -> Versions],
           Remaining(s, r, t, base, new), FreshStream(s, t, base, want, sent)
    PROVE  FreshStream(r, t, new, want, sent)
<1>r. /\ Len(s) = Len(r) + 1 /\ s[1].to = t
      /\ \A i \in 1..Len(r) : r[i] = s[i + 1]
      /\ new = IF s[1].call.kind = "buffer"
               THEN [base EXCEPT ![s[1].call.file] = s[1].call.version] ELSE base
  BY DEF Remaining
<1>0. Len(r) \in Nat /\ \A i \in 1..Len(r) : i + 1 \in 1..Len(s)
  <2>1. Len(r) \in Nat /\ Len(s) = Len(r) + 1
    BY <1>r
  <2> QED BY <2>1
<1>1. ASSUME NEW n \in 1..Len(r) + 1, NEW f \in Files, NEW w, Holds(s, n + 1, t, f, base, w)
      PROVE  Holds(r, n, t, f, new, w)
  <2> DEFINE Ds == DraftsBefore(s, n + 1, t, f)
             Dr == DraftsBefore(r, n, t, f)
  <2>1. \A i \in Dr : i \in Nat /\ i + 1 \in Ds /\ s[i + 1] = r[i]
    BY <1>r, <1>0 DEF DraftsBefore
  <2>2. \A k \in Ds : k = 1 \/ (k - 1 \in Dr /\ k \in Nat)
    <3> SUFFICES ASSUME NEW k \in Ds, k # 1 PROVE k - 1 \in Dr /\ k \in Nat
      OBVIOUS
    <3>1. k \in 1..Len(s) /\ k < n + 1 /\ IsDraft(s[k], t, f)
      BY DEF DraftsBefore
    <3>2. k - 1 \in 1..Len(r) /\ k - 1 < n /\ (k - 1) + 1 = k /\ k \in Nat
      BY <1>0, <3>1
    <3>3. r[k - 1] = s[k]
      BY <1>r, <3>2
    <3> QED BY <3>1, <3>2, <3>3 DEF DraftsBefore
  <2>3. IsDraft(s[1], t, f) <=> 1 \in Ds
    <3>1. 1 \in 1..Len(s) /\ 1 < n + 1
      BY <1>r, <1>0
    <3> QED BY <3>1 DEF DraftsBefore
  <2>4. /\ Ds = {} => base[f] >= w
        /\ \A i \in Ds : (\A j \in Ds : j <= i) => s[i].call.version >= w
    BY <1>1 DEF Holds
  <2> HIDE DEF Ds, Dr
  <2>5. ASSUME Dr = {} PROVE new[f] >= w
    <3>1. CASE IsDraft(s[1], t, f)
      <4>1. \A j \in Ds : j <= 1
        BY <2>2, <2>5
      <4>2. s[1].call.version >= w
        BY <2>3, <2>4, <3>1, <4>1
      <4>3. new[f] = s[1].call.version
        BY <1>r, <3>1 DEF IsDraft
      <4> QED BY <4>2, <4>3
    <3>2. CASE ~IsDraft(s[1], t, f)
      <4>1. Ds = {}
        BY <2>2, <2>3, <2>5, <3>2
      <4>2. new[f] = base[f]
        BY <1>r, <3>2 DEF IsDraft
      <4> QED BY <2>4, <4>1, <4>2
    <3> QED BY <3>1, <3>2
  <2>6. ASSUME NEW i \in Dr, \A j \in Dr : j <= i PROVE r[i].call.version >= w
    <3>1. \A k \in Ds : k <= i + 1
      BY <2>1, <2>2, <2>6
    <3> QED BY <2>1, <2>4, <3>1
  <2> QED BY <2>5, <2>6 DEF Holds, Dr
<1>2. ASSUME NEW n \in 1..Len(r), IsQuery(r[n], t), NEW f \in Files
      PROVE  Holds(r, n, t, f, new, want[r[n].call.query][f])
  <2>1. n + 1 \in 1..Len(s) /\ s[n + 1] = r[n] /\ n \in 1..Len(r) + 1
    BY <1>r, <1>0
  <2>2. Holds(s, n + 1, t, f, base, want[r[n].call.query][f])
    BY <1>2, <2>1 DEF FreshStream
  <2> QED BY <1>1, <2>1, <2>2
<1>3. ASSUME NEW f \in Files PROVE Holds(r, Len(r) + 1, t, f, new, sent[f])
  <2>1. Holds(s, Len(s) + 1, t, f, base, sent[f])
    BY DEF FreshStream
  <2>2. Len(r) + 1 \in 1..Len(r) + 1 /\ Len(s) + 1 = (Len(r) + 1) + 1
    BY <1>r, <1>0
  <2> QED BY <1>1, <2>1, <2>2
<1> QED BY <1>2, <1>3 DEF FreshStream

\* Nothing is on its way to a server that is sent nothing.
LEMMA EmptyFresh ==
    ASSUME NEW t \in Ends, NEW want
    PROVE  FreshStream(Given(<< >>, t), t, Nothing, want, Nothing)
<1>1. Given(<< >>, t) \in Seq(Entry) /\ Len(Given(<< >>, t)) = 0
  BY EmptySeq, GivenProperties
<1>2. \A n : n \notin 1..Len(Given(<< >>, t))
  BY <1>1
<1>3. \A f \in Files : Nothing[f] >= 0 /\ Nothing[f] = 0
  BY DEF Nothing
<1>4. \A n, f : DraftsBefore(Given(<< >>, t), n, t, f) = {}
  BY <1>2 DEF DraftsBefore
<1> QED BY <1>2, <1>3, <1>4 DEF FreshStream, Holds

\* A file that is counted as not sent asks for nothing.
LEMMA UnsentFresh ==
    ASSUME TypeOK, NEW s \in Seq(Entry), NEW t, NEW base \in [Files -> Versions], NEW f \in Files,
           FreshStream(s, t, base, wanted, sentSeq)
    PROVE  FreshStream(s, t, base, wanted, [sentSeq EXCEPT ![f] = 0])
<1> DEFINE sent == [sentSeq EXCEPT ![f] = 0]
<1>0. \A g \in Files : sent[g] = IF g = f THEN 0 ELSE sentSeq[g]
  BY DEF TypeOK
<1>1. \A g \in Files : sent[g] \in Versions /\ sentSeq[g] \in Versions /\ sent[g] <= sentSeq[g]
  <2>1. \A g \in Files : sentSeq[g] \in Versions /\ sentSeq[g] \in Nat
    BY VersionTypes DEF TypeOK
  <2> HIDE DEF sent
  <2> QED BY <1>0, <2>1, VersionTypes
<1> HIDE DEF sent
<1>2. \A g \in Files : Holds(s, Len(s) + 1, t, g, base, sent[g])
  BY <1>1, HoldsLess DEF FreshStream
<1>3. FreshStream(s, t, base, wanted, sent)
  BY <1>2 DEF FreshStream
<1> QED BY <1>3 DEF sent

\* The calls that wait become the stream of a process that nothing was sent to.
LEMMA SpawnedStream ==
    ASSUME TypeOK, NEW p \in Processes, Fresh(p), NEW calls \in Seq(Message), NEW want, NEW sent,
           FreshStream(Given(calls, NoProcess), NoProcess, Nothing, want, sent)
    PROVE  FreshStream(Given(wire[p], p) \o (given \o Given(calls, p)), p, Nothing, want, sent)
<1> DEFINE m == Len(given)
           s == Given(calls, NoProcess)
           new == Given(calls, p)
           none == Given(wire[p], p)
           rest == given \o new
           u == none \o rest
           h == [i \in 1..Len(u) |-> i - m]
<1>1. p \in Ends /\ NoProcess \in Ends /\ p # NoProcess /\ wire[p] = << >> /\ given \in Seq(Entry)
  BY OutcomesAreEnds DEF Fresh, TypeOK, Entry, Ends
<1>2. /\ s \in Seq(Entry) /\ Len(s) = Len(calls)
      /\ \A j \in 1..Len(calls) : s[j] = [call |-> calls[j], to |-> NoProcess]
  BY <1>1, GivenProperties
<1>3. /\ new \in Seq(Entry) /\ Len(new) = Len(calls)
      /\ \A j \in 1..Len(calls) : new[j] = [call |-> calls[j], to |-> p]
  BY <1>1, GivenProperties
<1>4. none \in Seq(Entry) /\ Len(none) = 0
  BY <1>1, EmptySeq, GivenProperties
<1> HIDE DEF s, new, none
<1>5. /\ rest \in Seq(Entry) /\ Len(rest) = m + Len(new) /\ m \in Nat /\ Len(new) \in Nat
      /\ \A i \in 1..m : rest[i] = given[i]
      /\ \A j \in 1..Len(new) : rest[m + j] = new[j]
  <2>1. given \in Seq(Entry) /\ new \in Seq(Entry)
    BY <1>1, <1>3
  <2> QED BY <2>1, ConcatAt
<1>6. u = rest
  <2>1. none = << >>
    BY <1>4, EmptySeq
  <2> HIDE DEF rest
  <2> QED BY <1>5, <2>1, ConcatEmptySeq
<1>7. \A i \in 1..m : given[i].to # p
  BY <1>1 DEF Fresh
<1> HIDE DEF m, rest, u, h
<1>8. \A i \in 1..Len(rest) : rest[i].to = p => i - m \in 1..Len(s) /\ rest[i] = new[i - m]
  <2> SUFFICES ASSUME NEW i \in 1..Len(rest), rest[i].to = p
               PROVE  i - m \in 1..Len(s) /\ rest[i] = new[i - m]
    OBVIOUS
  <2>1. i \notin 1..m
    BY <1>5, <1>7
  <2>2. i - m \in 1..Len(new) /\ m + (i - m) = i
    BY <1>5, <2>1
  <2> QED BY <1>2, <1>3, <1>5, <2>2
<1>9. \A i \in 1..Len(u) : h[i] = i - m
  BY DEF h
<1>10. \A i \in 1..Len(u) : u[i].to = p
          => h[i] \in 1..Len(s) /\ s[h[i]].to = NoProcess /\ s[h[i]].call = u[i].call
  <2> SUFFICES ASSUME NEW i \in 1..Len(u), u[i].to = p
               PROVE  h[i] \in 1..Len(s) /\ s[h[i]].to = NoProcess /\ s[h[i]].call = u[i].call
    OBVIOUS
  <2> DEFINE j == i - m
  <2>1. h[i] = j /\ j \in 1..Len(s) /\ u[i] = new[j]
    BY <1>6, <1>8, <1>9
  <2> HIDE DEF j
  <2>2. s[j] = [call |-> calls[j], to |-> NoProcess] /\ new[j] = [call |-> calls[j], to |-> p]
    BY <1>2, <1>3, <2>1
  <2> QED BY <2>1, <2>2
<1>11. \A i, j \in 1..Len(u) : u[i].to = p /\ u[j].to = p /\ i < j => h[i] < h[j]
  <2>1. \A i, j \in 1..Len(u) : i < j => i - m < j - m
    BY <1>5
  <2> QED BY <1>9, <2>1
<1>12. \A k \in 1..Len(s) : s[k].to = NoProcess => \E i \in 1..Len(u) : u[i].to = p /\ h[i] = k
  <2> SUFFICES ASSUME NEW k \in 1..Len(s) PROVE \E i \in 1..Len(u) : u[i].to = p /\ h[i] = k
    OBVIOUS
  <2>1. k \in 1..Len(new) /\ m + k \in 1..Len(rest) /\ (m + k) - m = k
    BY <1>2, <1>3, <1>5
  <2>2. rest[m + k] = [call |-> calls[k], to |-> p]
    BY <1>3, <1>5, <2>1
  <2>3. rest[m + k].to = p
    BY <2>2
  <2> QED BY <1>6, <1>9, <2>1, <2>3
<1>13. FreshStream(s, NoProcess, Nothing, want, sent)
  BY DEF s
<1>14. FreshStream(u, p, Nothing, want, sent)
  <2>1. s \in Seq(Entry) /\ u \in Seq(Entry)
    BY <1>2, <1>5, <1>6
  <2>2. SameCalls(s, NoProcess, u, p, h)
    BY <1>10, <1>11, <1>12 DEF SameCalls
  <2> QED BY <1>13, <2>1, <2>2, Reindexed
<1> QED BY <1>14 DEF u, none, rest, new

\* What is dispatched to a process leaves its stream as it was, and what is
\* dispatched to another one was not in it.
LEMMA DispatchedStream ==
    ASSUME TypeOK, Dispatch, NEW p \in Processes, NEW base, NEW want, NEW sent,
           FreshStream(Given(wire[p], p) \o given, p, base, want, sent)
    PROVE  FreshStream(Given(wire'[p], p) \o given', p, base, want, sent)
<1> DEFINE old == Given(wire[p], p)
           new == Given(wire'[p], p)
           rest == Tail(given)
           m == Len(old)
           k == Len(rest)
           s == old \o given
           u == new \o rest
           c == Head(given).call
<1>1. p \in Ends /\ wire[p] \in Seq(Message) /\ given \in Seq(Entry) /\ given # << >> /\ given' = rest
  BY OutcomesAreEnds DEF Dispatch, TypeOK, Entry, Ends
<1>2. /\ rest \in Seq(Entry) /\ Len(rest) \in Nat /\ Len(given) = Len(rest) + 1
      /\ Head(given) = given[1] /\ given[1] \in Entry /\ \A i \in 1..Len(rest) : rest[i] = given[i + 1]
  BY <1>1, HeadTailProperties
<1>3. /\ old \in Seq(Entry) /\ m = Len(wire[p]) /\ m \in Nat
      /\ \A i \in 1..m : old[i] = [call |-> wire[p][i], to |-> p]
  BY <1>1, GivenProperties
<1>m. m \in Nat
  BY <1>3
<1>k. k \in Nat
  BY <1>2
<1> HIDE DEF rest
<1>4. /\ s \in Seq(Entry) /\ Len(s) = m + (k + 1)
      /\ \A i \in 1..m : s[i] = old[i]
      /\ \A j \in 1..k + 1 : s[m + j] = given[j]
  <2>1. old \in Seq(Entry) /\ given \in Seq(Entry)
    BY <1>1, <1>3
  <2> HIDE DEF old, m
  <2>2. /\ s \in Seq(Entry) /\ Len(s) = m + Len(given)
        /\ \A i \in 1..m : s[i] = old[i]
        /\ \A j \in 1..Len(given) : s[m + j] = given[j]
    BY <2>1, ConcatAt DEF m
  <2>3. Len(given) = k + 1
    BY <1>2
  <2> HIDE DEF s, k
  <2> QED BY <2>2, <2>3
<1>l. Len(s) = m + (k + 1)
  BY <1>4
<1>5. CASE given[1].to = p
  <2>1. wire'[p] = Append(wire[p], c) /\ c \in Message /\ given[1] = [call |-> c, to |-> p]
    <3>1. p # NoProcess /\ c = given[1].call /\ c \in Message /\ given[1] = [call |-> c, to |-> p]
      BY <1>2, <1>5 DEF Entry
    <3>2. wire' = [wire EXCEPT ![p] = Append(@, c)]
      BY <1>2, <1>5, <3>1 DEF Dispatch
    <3> QED BY <3>1, <3>2 DEF TypeOK
  <2>2. /\ wire'[p] \in Seq(Message) /\ Len(wire'[p]) = m + 1 /\ wire'[p][m + 1] = c
        /\ \A i \in 1..m : wire'[p][i] = wire[p][i]
    BY <1>1, <1>3, <2>1, AppendProperties
  <2>3. /\ new \in Seq(Entry) /\ Len(new) = Len(wire'[p])
        /\ \A i \in 1..Len(wire'[p]) : new[i] = [call |-> wire'[p][i], to |-> p]
    BY <1>1, <2>2, GivenProperties
  <2> HIDE DEF old, new, s, m, k, c
  <2>4. /\ Len(new) = m + 1 /\ new[m + 1] = s[m + 1]
        /\ \A i \in 1..m : new[i] = s[i]
    <3>1. m + 1 \in 1..Len(wire'[p]) /\ \A i \in 1..m : i \in 1..Len(wire'[p])
      BY <1>m, <2>2
    <3>2. 1 \in 1..k + 1
      BY <1>k
    <3>3. new[m + 1] = [call |-> c, to |-> p]
      BY <1>3, <2>2, <2>3, <3>1
    <3>4. s[m + 1] = given[1]
      BY <1>4, <3>2
    <3>5. \A i \in 1..m : new[i] = [call |-> wire[p][i], to |-> p]
      BY <2>2, <2>3, <3>1
    <3>6. \A i \in 1..m : new[i] = s[i]
      BY <1>3, <1>4, <3>5
    <3>7. new[m + 1] = s[m + 1]
      BY <1>m, <2>1, <3>3, <3>4
    <3> QED BY <2>2, <2>3, <3>6, <3>7
  <2>5. /\ u \in Seq(Entry) /\ Len(u) = Len(new) + k
        /\ \A i \in 1..Len(new) : u[i] = new[i]
        /\ \A j \in 1..k : u[Len(new) + j] = rest[j]
    <3>1. new \in Seq(Entry) /\ rest \in Seq(Entry)
      BY <1>2, <2>3
    <3> QED BY <3>1, ConcatAt DEF k
  <2>n. Len(new) = m + 1
    BY <2>4
  <2>u. Len(u) = Len(new) + k
    BY <2>5
  <2> HIDE DEF u
  <2>6. Len(u) = Len(s)
    BY <1>m, <1>k, <1>l, <2>n, <2>u
  <2>7. ASSUME NEW i \in 1..Len(u) PROVE u[i] = s[i]
    <3>1. CASE i \in 1..m
      <4>1. i \in 1..Len(new)
        BY <1>m, <2>n, <3>1
      <4> QED BY <2>4, <2>5, <3>1, <4>1
    <3>2. CASE i = m + 1
      <4>1. i \in 1..Len(new)
        BY <1>m, <2>n, <3>2
      <4> QED BY <2>4, <2>5, <3>2, <4>1
    <3>3. CASE i \notin 1..m /\ i # m + 1
      <4> DEFINE j == i - (m + 1)
      <4>1. j \in 1..k /\ (m + 1) + j = i /\ j + 1 \in 1..k + 1 /\ m + (j + 1) = i
        BY <1>m, <1>k, <2>n, <2>u, <3>3
      <4> HIDE DEF j
      <4>2. u[(m + 1) + j] = rest[j]
        BY <2>n, <2>5, <4>1
      <4>3. rest[j] = given[j + 1]
        BY <1>2, <4>1 DEF k
      <4>4. s[m + (j + 1)] = given[j + 1]
        BY <1>4, <4>1
      <4> QED BY <4>1, <4>2, <4>3, <4>4
    <3> QED BY <3>1, <3>2, <3>3
  <2>8. u = s
    BY <1>4, <2>5, <2>6, <2>7, SeqEqual
  <2> QED BY <1>1, <2>8 DEF u, s, old, new
<1>6. CASE given[1].to # p
  <2>1. wire'[p] = wire[p]
    BY <1>1, <1>2, <1>6 DEF Dispatch, TypeOK
  <2>2. new = old
    BY <2>1
  <2> DEFINE h == [i \in 1..m + k |-> IF i <= m THEN i ELSE i + 1]
  <2> HIDE DEF old, new, s, m, k, c
  <2>3. /\ u \in Seq(Entry) /\ Len(u) = m + k
        /\ \A i \in 1..m : u[i] = old[i]
        /\ \A j \in 1..k : u[m + j] = rest[j]
    <3>1. old \in Seq(Entry) /\ rest \in Seq(Entry)
      BY <1>2, <1>3
    <3> QED BY <2>2, <3>1, ConcatAt DEF m, k
  <2>u. Len(u) = m + k
    BY <2>3
  <2>4. \A i \in 1..Len(u) : h[i] = IF i <= m THEN i ELSE i + 1
    BY <2>u
  <2> HIDE DEF h, u
  <2>5. ASSUME NEW i \in 1..Len(u) PROVE h[i] \in 1..Len(s) /\ s[h[i]] = u[i]
    <3>1. CASE i <= m
      <4>1. i \in 1..m /\ h[i] = i /\ i \in 1..Len(s)
        BY <1>m, <1>k, <1>l, <2>u, <2>4, <3>1
      <4> QED BY <1>4, <2>3, <4>1
    <3>2. CASE ~(i <= m)
      <4> DEFINE j == i - m
      <4>1. j \in 1..k /\ m + j = i /\ h[i] = i + 1 /\ i + 1 \in 1..Len(s)
        BY <1>m, <1>k, <1>l, <2>u, <2>4, <3>2
      <4>2. j + 1 \in 1..k + 1 /\ m + (j + 1) = i + 1
        BY <1>m, <1>k, <4>1
      <4> HIDE DEF j
      <4>3. u[i] = rest[j] /\ rest[j] = given[j + 1]
        BY <1>2, <2>3, <4>1 DEF k
      <4>4. s[i + 1] = given[j + 1]
        BY <1>4, <4>2
      <4> QED BY <4>1, <4>3, <4>4
    <3> QED BY <3>1, <3>2
  <2>6. \A i, j \in 1..Len(u) : i < j => h[i] < h[j]
    <3>1. \A i, j \in 1..Len(u) : i < j => (IF i <= m THEN i ELSE i + 1) < (IF j <= m THEN j ELSE j + 1)
      BY <1>m, <1>k, <2>u
    <3> QED BY <2>4, <3>1
  <2>7. ASSUME NEW l \in 1..Len(s), s[l].to = p PROVE \E i \in 1..Len(u) : u[i].to = p /\ h[i] = l
    <3>1. 1 \in 1..k + 1
      BY <1>k
    <3>2. l # m + 1
      BY <1>4, <1>6, <2>7, <3>1
    <3>3. CASE l <= m
      <4>1. l \in 1..Len(u) /\ h[l] = l
        BY <1>m, <1>k, <1>l, <2>u, <2>4, <3>3
      <4> QED BY <2>5, <2>7, <4>1
    <3>4. CASE ~(l <= m)
      <4>1. l - 1 \in 1..Len(u) /\ ~(l - 1 <= m) /\ (l - 1) + 1 = l
        BY <1>m, <1>k, <1>l, <2>u, <3>2, <3>4
      <4>2. h[l - 1] = l
        BY <2>4, <4>1
      <4> QED BY <2>5, <2>7, <4>1, <4>2
    <3> QED BY <3>3, <3>4
  <2>8. SameCalls(s, p, u, p, h)
    BY <2>5, <2>6, <2>7 DEF SameCalls
  <2>9. FreshStream(s, p, base, want, sent)
    BY DEF s, old
  <2>10. FreshStream(u, p, base, want, sent)
    BY <1>4, <2>3, <2>8, <2>9, Reindexed
  <2> QED BY <1>1, <2>10 DEF u, new
<1> QED BY <1>5, <1>6

-----------------------------------------------------------------------------
(***************************************************************************)
(* A query that was not made is nowhere.                                   *)
(***************************************************************************)

LEMMA AbsentConcat ==
    ASSUME NEW m, NEW a \in Seq(Message), NEW b \in Seq(Message), Absent(m, a), Absent(m, b)
    PROVE  Absent(m, a \o b)
BY ConcatProperties DEF Absent

LEMMA AbsentConcatGiven ==
    ASSUME NEW m, NEW b \in Seq(Message), NEW t \in Ends, given \in Seq(Entry),
           AbsentGiven(m), Absent(m, b), given' = given \o Given(b, t)
    PROVE  AbsentGiven(m)'
<1>1. /\ Given(b, t) \in Seq(Entry) /\ Len(Given(b, t)) = Len(b)
      /\ \A i \in 1..Len(b) : Given(b, t)[i] = [call |-> b[i], to |-> t]
  BY GivenProperties
<1>2. \A i \in 1..Len(Given(b, t)) : Given(b, t)[i].call # m
  <2> SUFFICES ASSUME NEW i \in 1..Len(b) PROVE Given(b, t)[i].call # m
    BY <1>1
  <2>1. DOMAIN b = 1..Len(b)
    OBVIOUS
  <2>2. b[i] # m
    BY <2>1 DEF Absent
  <2>3. Given(b, t)[i] = [call |-> b[i], to |-> t]
    BY <1>1
  <2> QED BY <2>2, <2>3
<1>3. \A i \in 1..Len(given \o Given(b, t)) : (given \o Given(b, t))[i].call # m
  <2> SUFFICES ASSUME NEW i \in 1..Len(given \o Given(b, t)) PROVE (given \o Given(b, t))[i].call # m
    OBVIOUS
  <2>1. CASE i \in 1..Len(given)
    <3>1. (given \o Given(b, t))[i] = given[i]
      BY <1>1, <2>1, ConcatAt
    <3> QED BY <2>1, <3>1 DEF AbsentGiven
  <2>2. CASE i \notin 1..Len(given)
    <3>1. PICK j \in 1..Len(Given(b, t)) : (given \o Given(b, t))[i] = Given(b, t)[j]
      BY <1>1, <2>2, ConcatPlace
    <3> QED BY <1>2, <3>1
  <2> QED BY <2>1, <2>2
<1>4. DOMAIN (given \o Given(b, t)) = 1..Len(given \o Given(b, t))
  BY <1>1, ConcatAt
<1> QED BY <1>3, <1>4 DEF AbsentGiven

LEMMA SpawnedAbsent ==
    ASSUME TypeOK, NEW m, NEW p \in Ends, NEW calls \in Seq(Message), Spawned(p, calls),
           AbsentGiven(m), Absent(m, calls)
    PROVE  Absent(m, pending') /\ AbsentGiven(m)'
<1>1. CASE p = NoProcess
  BY <1>1 DEF Spawned, AbsentGiven
<1>2. CASE p # NoProcess
  <2>1. given' = given \o Given(calls, p) /\ pending' = << >>
    BY <1>2 DEF Spawned
  <2>2. given \in Seq(Entry) /\ Absent(m, << >>)
    BY DEF TypeOK, Entry, Ends, Absent
  <2> QED BY <2>1, <2>2, AbsentConcatGiven
<1> QED BY <1>1, <1>2

LEMMA GetClientAbsent ==
    ASSUME TypeOK, NEW m, NEW p \in Ends, NEW calls \in Seq(Message), GetClient(calls, p),
           Absent(m, pending), AbsentGiven(m), Absent(m, calls)
    PROVE  Absent(m, pending') /\ AbsentGiven(m)'
<1>1. CASE state = "initial"
  BY <1>1, SpawnedAbsent DEF GetClient
<1>2. CASE state = "spawning"
  <2>1. pending' = pending \o calls /\ given' = given
    BY <1>2 DEF GetClient
  <2>2. pending \in Seq(Message)
    BY DEF TypeOK
  <2>3. Absent(m, pending')
    BY <2>1, <2>2, AbsentConcat
  <2> QED BY <2>1, <2>3 DEF AbsentGiven
<1>3. CASE state \notin {"initial", "spawning"}
  <2>1. given' = given \o Given(calls, peer) /\ pending' = pending
    BY <1>3 DEF GetClient
  <2> QED BY <2>1, AbsentConcatGiven DEF TypeOK, Entry, Ends
<1> QED BY <1>1, <1>2, <1>3

LEMMA MessagesDiffer ==
    /\ \A q, r \in Queries : q # r => Query(q) # Query(r)
    /\ \A q \in Queries : \A f, v : Query(q) # Buffer(f, v)
<1>1. ASSUME NEW q \in Queries, NEW r \in Queries, q # r PROVE Query(q) # Query(r)
  <2>1. Query(q).query = q /\ Query(r).query = r
    BY DEF Query
  <2> QED BY <1>1, <2>1
<1>2. ASSUME NEW q \in Queries, NEW f, NEW v PROVE Query(q) # Buffer(f, v)
  <2>1. Query(q).kind = "query" /\ Buffer(f, v).kind = "buffer"
    BY DEF Query, Buffer
  <2> QED BY <2>1
<1> QED BY <1>1, <1>2

LEMMA AskAbsent ==
    ASSUME TypeOK, NEW q \in Queries, NEW p \in Outcomes, Ask(q, p),
           NEW r \in Queries, r # q,
           Absent(Query(r), pending), AbsentGiven(Query(r))
    PROVE  Absent(Query(r), pending') /\ AbsentGiven(Query(r))'
<1> DEFINE call == <<Query(q)>>
<1>1. call \in Seq(Message) /\ Absent(Query(r), call)
  BY MessageTypes, MessagesDiffer DEF Absent
<1>2. CASE state = "shutdown"
  BY <1>1, <1>2, GetClientAbsent, OutcomesAreEnds DEF Ask
<1>3. CASE state # "shutdown"
  <2>1. PICK order \in SetToSeqs(Stale) : GetClient(Updates(order) \o call, p)
    BY <1>3 DEF Ask
  <2>2. Updates(order) \in Seq(Message) /\ Absent(Query(r), Updates(order))
    <3>1. DOMAIN Updates(order) = 1..Len(order)
      BY UpdatesType
    <3> QED BY <3>1, UpdatesType, MessagesDiffer DEF Absent
  <2> HIDE DEF call
  <2>3. Updates(order) \o call \in Seq(Message) /\ Absent(Query(r), Updates(order) \o call)
    BY <1>1, <2>2, AbsentConcat, ConcatProperties
  <2> QED BY <2>1, <2>3, GetClientAbsent, OutcomesAreEnds
<1> QED BY <1>2, <1>3

LEMMA AbsentTail ==
    ASSUME NEW m, NEW s \in Seq(Message), s # << >>, Absent(m, s)
    PROVE  Absent(m, Tail(s))
BY HeadTailProperties DEF Absent

LEMMA DispatchAbsentGiven ==
    ASSUME TypeOK, Dispatch, NEW m, AbsentGiven(m)
    PROVE  AbsentGiven(m)'
<1>1. /\ given \in Seq(Entry) /\ given # << >> /\ given' = Tail(given)
  BY DEF Dispatch, TypeOK, Entry, Ends
<1>2. /\ Tail(given) \in Seq(Entry) /\ Len(Tail(given)) = Len(given) - 1 /\ Len(given) \in Nat
      /\ \A i \in 1..Len(Tail(given)) : Tail(given)[i] = given[i + 1]
  BY <1>1, HeadTailProperties
<1>3. \A i \in 1..Len(Tail(given)) : i + 1 \in DOMAIN given
  BY <1>1, <1>2
<1>4. DOMAIN Tail(given) = 1..Len(Tail(given))
  BY <1>2
<1> QED BY <1>1, <1>2, <1>3, <1>4 DEF AbsentGiven

LEMMA DispatchAbsent ==
    ASSUME TypeOK, Dispatch, NEW m, AbsentGiven(m), NEW p \in Processes, Absent(m, wire[p])
    PROVE  Absent(m, wire'[p])
<1>1. given \in Seq(Entry) /\ given # << >>
  BY DEF Dispatch, TypeOK, Entry, Ends
<1>2. Head(given) = given[1] /\ 1 \in DOMAIN given /\ given[1] \in Entry
  BY <1>1
<1>3. CASE given[1].to = p
  <2> DEFINE c == given[1].call
             old == wire[p]
  <2>1. c \in Message /\ c # m /\ p # NoProcess
    BY <1>2 DEF AbsentGiven, Entry
  <2>2. wire' = [wire EXCEPT ![p] = Append(@, c)]
    BY <1>2, <1>3, <2>1 DEF Dispatch
  <2>3. wire'[p] = Append(old, c) /\ old \in Seq(Message)
    BY <2>2 DEF TypeOK
  <2>4. \A i \in 1..Len(old) : old[i] # m
    BY <2>3 DEF Absent
  <2> HIDE DEF c, old
  <2>5. /\ Append(old, c) \in Seq(Message) /\ Len(Append(old, c)) = Len(old) + 1 /\ Len(old) \in Nat
        /\ \A i \in 1..Len(old) : Append(old, c)[i] = old[i]
        /\ Append(old, c)[Len(old) + 1] = c
    BY <2>1, <2>3, AppendProperties
  <2>6. \A i \in 1..Len(old) + 1 : i \in 1..Len(old) \/ i = Len(old) + 1
    BY <2>5
  <2>7. \A i \in 1..Len(old) + 1 : Append(old, c)[i] # m
    BY <2>1, <2>4, <2>5, <2>6
  <2>8. DOMAIN Append(old, c) = 1..Len(old) + 1
    BY <2>5
  <2> QED BY <2>3, <2>7, <2>8 DEF Absent
<1>4. CASE given[1].to # p
  <2>1. wire'[p] = wire[p]
    BY <1>2, <1>4 DEF Dispatch, TypeOK
  <2> QED BY <2>1
<1> QED BY <1>3, <1>4

LEMMA AskedStep == TypeOK /\ TypeOK' /\ AskedInv /\ [Next]_vars => AskedInv'
<1> SUFFICES ASSUME TypeOK, TypeOK', AskedInv, [Next]_vars PROVE AskedInv'
  OBVIOUS
<1>1. CASE UNCHANGED vars
  BY <1>1 DEF vars, clientVars, queryVars, AskedInv, AbsentGiven
<1>2. ASSUME NEW q \in Queries, NEW p \in Outcomes, Ask(q, p) PROVE AskedInv'
  <2>1. wire' = wire /\ \A r \in Queries : answer'[r] = "none" => answer[r] = "none" /\ r # q
    BY <1>2 DEF Ask, TypeOK
  <2> QED BY <1>2, <2>1, AskAbsent DEF AskedInv
<1>3. CASE Dispatch
  <2>1. pending' = pending /\ \A r \in Queries : answer'[r] = "none" => answer[r] = "none"
    BY <1>3 DEF Dispatch, TypeOK
  <2> SUFFICES ASSUME NEW r \in Queries, answer'[r] = "none"
               PROVE  /\ Absent(Query(r), pending') /\ AbsentGiven(Query(r))'
                      /\ \A p \in Processes : Absent(Query(r), wire'[p])
    BY DEF AskedInv
  <2>2. /\ Absent(Query(r), pending) /\ AbsentGiven(Query(r))
        /\ \A p \in Processes : Absent(Query(r), wire[p])
    BY <2>1 DEF AskedInv
  <2>3. \A p \in Processes : Absent(Query(r), wire'[p])
    BY <1>3, <2>2, DispatchAbsent
  <2>4. AbsentGiven(Query(r))'
    BY <1>3, <2>2, DispatchAbsentGiven
  <2> QED BY <2>1, <2>2, <2>3, <2>4
<1>4. CASE \E f \in Files : Edit(f)
  BY <1>4 DEF Edit, clientVars, queryVars, AskedInv, AbsentGiven
<1>5. ASSUME NEW f \in Files, Save(f) PROVE AskedInv'
  <2>1. wire' = wire /\ answer' = answer
    BY <1>5 DEF Save
  <2>2. CASE peer = NoProcess
    BY <1>5, <2>1, <2>2 DEF Save, AskedInv, AbsentGiven
  <2>3. CASE peer # NoProcess
    <3> DEFINE call == <<Buffer(f, 0)>>
    <3>1. call \in Seq(Message) /\ \A r \in Queries : Absent(Query(r), call)
      BY MessageTypes, MessagesDiffer, VersionTypes DEF Absent
    <3>2. GetClient(call, NoProcess)
      BY <1>5, <2>3 DEF Save
    <3> HIDE DEF call
    <3> QED BY <2>1, <3>1, <3>2, GetClientAbsent, OutcomesAreEnds DEF AskedInv
  <2> QED BY <2>2, <2>3
<1>6. CASE Destroy
  <2>1. /\ wire' = wire /\ answer' = answer /\ pending' = << >>
        /\ given' = given \o Given(pending, NoProcess)
    BY <1>6 DEF Destroy, Flushed, queryVars
  <2>2. \A m : Absent(m, << >>)
    BY DEF Absent
  <2>3. given \in Seq(Entry) /\ pending \in Seq(Message) /\ NoProcess \in Ends
    BY DEF TypeOK, Entry, Ends
  <2> QED BY <2>1, <2>2, <2>3, AbsentConcatGiven DEF AskedInv
<1>7. ASSUME NEW p \in Processes, NEW next \in Outcomes, Exited(p, next) PROVE AskedInv'
  <2>1. wire' = wire /\ answer' = answer
    BY <1>7 DEF Exited
  <2>2. CASE Restarts(p)
    BY <1>7, <2>1, <2>2, SpawnedAbsent, OutcomesAreEnds DEF Exited, AskedInv, TypeOK
  <2>3. CASE ~Restarts(p)
    BY <1>7, <2>1, <2>3 DEF Exited, AskedInv, AbsentGiven
  <2> QED BY <2>2, <2>3
<1>8. ASSUME NEW next \in Outcomes, Respawn(next) PROVE AskedInv'
  BY <1>8, SpawnedAbsent, OutcomesAreEnds DEF Respawn, AskedInv, TypeOK
<1>9. CASE TimePasses \/ \E p \in Processes : Crash(p)
  BY <1>9 DEF TimePasses, Crash, clientVars, queryVars, AskedInv, AbsentGiven
<1>10. ASSUME NEW p \in Processes, Serve(p) PROVE AskedInv'
  <2>1. given' = given /\ pending' = pending /\ wire' = [wire EXCEPT ![p] = Tail(wire[p])]
    BY <1>10 DEF Serve
  <2>2. \A r \in Queries : answer'[r] = "none" => answer[r] = "none"
    BY <1>10 DEF Serve, TypeOK
  <2>3. ASSUME NEW m, NEW x \in Processes, Absent(m, wire[x]) PROVE Absent(m, wire'[x])
    <3>1. CASE x = p
      BY <1>10, <2>1, <2>3, <3>1, AbsentTail DEF Serve, TypeOK
    <3>2. CASE x # p
      BY <2>1, <2>3, <3>2 DEF TypeOK
    <3> QED BY <3>1, <3>2
  <2> SUFFICES ASSUME NEW r \in Queries, answer'[r] = "none"
               PROVE  /\ Absent(Query(r), pending') /\ AbsentGiven(Query(r))'
                      /\ \A x \in Processes : Absent(Query(r), wire'[x])
    BY DEF AskedInv
  <2>4. /\ Absent(Query(r), pending) /\ AbsentGiven(Query(r))
        /\ \A x \in Processes : Absent(Query(r), wire[x])
    BY <2>2 DEF AskedInv
  <2>5. AbsentGiven(Query(r))'
    BY <2>1, <2>4 DEF AbsentGiven
  <2> QED BY <2>1, <2>3, <2>4, <2>5
<1>11. ASSUME NEW p \in Processes, HangUp(p) PROVE AskedInv'
  <2>1. given' = given /\ pending' = pending /\ wire' = [wire EXCEPT ![p] = << >>]
    BY <1>11 DEF HangUp
  <2>2. \A r \in Queries : answer'[r] = "none" => answer[r] = "none"
    BY <1>11 DEF HangUp, TypeOK
  <2>3. \A x \in Processes : wire'[x] = << >> \/ wire'[x] = wire[x]
    BY <2>1 DEF TypeOK
  <2> QED BY <2>1, <2>2, <2>3 DEF AskedInv, AbsentGiven, Absent
<1> QED BY <1>1, <1>2, <1>3, <1>4, <1>5, <1>6, <1>7, <1>8, <1>9, <1>10, <1>11 DEF Next

-----------------------------------------------------------------------------
(***************************************************************************)
(* Every step keeps the streams fresh.                                     *)
(***************************************************************************)

\* The process that runs is the peer.
LEMMA RunningIsPeer ==
    ASSUME SupervisorInv, ClientInv, NEW p \in Processes, process[p] = "running"
    PROVE  p = peer /\ state = "running"
<1>1. supervising /\ p = current
  BY DEF SupervisorInv, NoStrayProcess
<1> QED BY <1>1 DEF ClientInv

LEMMA RunningIsPeerNext ==
    ASSUME SupervisorInv', ClientInv', NEW p \in Processes, process'[p] = "running"
    PROVE  p = peer' /\ state' = "running"
<1>1. supervising' /\ p = current'
  BY DEF SupervisorInv, NoStrayProcess
<1> QED BY <1>1 DEF ClientInv

\* A client that has no peer and no call that waits has only empty streams.
LEMMA EmptyStreams ==
    ASSUME SupervisorInv', ClientInv', peer' = NoProcess, pending' = << >>, sentSeq' = Nothing
    PROVE  StreamInv'
<1>1. \A p \in Processes : process'[p] # "running"
  BY RunningIsPeerNext DEF ClientInv
<1>2. FreshStream(Given(pending', NoProcess), NoProcess, Nothing, wanted', sentSeq')
  BY EmptyFresh, OutcomesAreEnds
<1> QED BY <1>1, <1>2 DEF StreamInv

\* The process that is spawned takes over the calls that wait.
LEMMA SpawnedFresh ==
    ASSUME TypeOK, SupervisorInv', ClientInv', NEW p \in Ends, NEW calls \in Seq(Message),
           Spawned(p, calls), Fresh(p), wire' = wire,
           FreshStream(Given(calls, NoProcess), NoProcess, Nothing, wanted', sentSeq')
    PROVE  StreamInv'
<1>1. CASE p = NoProcess
  <2>1. peer' = NoProcess /\ pending' = calls /\ state' = "spawning"
    BY <1>1 DEF Spawned
  <2>2. \A x \in Processes : process'[x] # "running"
    BY <2>1, RunningIsPeerNext
  <2> QED BY <2>1, <2>2 DEF StreamInv
<1>2. CASE p # NoProcess
  <2>1. /\ p \in Processes /\ peer' = p /\ given' = given \o Given(calls, p)
        /\ draft' = [draft EXCEPT ![p] = Nothing]
    BY <1>2 DEF Spawned, Ends
  <2>2. draft'[p] = Nothing
    BY <2>1 DEF TypeOK
  <2>3. FreshStream(Given(wire[p], p) \o (given \o Given(calls, p)), p, Nothing, wanted', sentSeq')
    BY <2>1, SpawnedStream
  <2>4. FreshStream(Given(wire'[p], p) \o given', p, draft'[p], wanted', sentSeq')
    BY <2>1, <2>2, <2>3
  <2>5. \A x \in Processes : process'[x] = "running" => x = p
    BY <2>1, RunningIsPeerNext
  <2>6. peer' # NoProcess
    BY <1>2, <2>1
  <2> QED BY <2>4, <2>5, <2>6 DEF StreamInv, Stream
<1> QED BY <1>1, <1>2

\* Calls that are appended to what waits, or to what was handed out.
LEMMA GivenConcat ==
    ASSUME NEW a \in Seq(Message), NEW b \in Seq(Message), NEW t \in Ends
    PROVE  Given(a \o b, t) = Given(a, t) \o Given(b, t)
<1> DEFINE m == Len(a)
           k == Len(b)
           all == a \o b
           ga == Given(a, t)
           gb == Given(b, t)
           l == Given(all, t)
           r == ga \o gb
<1>m. m \in Nat
  OBVIOUS
<1>k. k \in Nat
  OBVIOUS
<1>1. /\ all \in Seq(Message) /\ Len(all) = m + k
      /\ \A i \in 1..m : all[i] = a[i]
      /\ \A j \in 1..k : all[m + j] = b[j]
  BY ConcatAt
<1>2. /\ ga \in Seq(Entry) /\ Len(ga) = m
      /\ \A i \in 1..m : ga[i] = [call |-> a[i], to |-> t]
  BY GivenProperties
<1>3. /\ gb \in Seq(Entry) /\ Len(gb) = k
      /\ \A i \in 1..k : gb[i] = [call |-> b[i], to |-> t]
  BY GivenProperties
<1> HIDE DEF all, ga, gb
<1>4. /\ l \in Seq(Entry) /\ Len(l) = Len(all)
      /\ \A i \in 1..Len(all) : l[i] = [call |-> all[i], to |-> t]
  BY <1>1, GivenProperties
<1>5. /\ r \in Seq(Entry) /\ Len(r) = Len(ga) + Len(gb)
      /\ \A i \in 1..Len(ga) : r[i] = ga[i]
      /\ \A j \in 1..Len(gb) : r[Len(ga) + j] = gb[j]
  <2>1. ga \in Seq(Entry) /\ gb \in Seq(Entry)
    BY <1>2, <1>3
  <2> QED BY <2>1, ConcatAt
<1>n. Len(all) = m + k /\ Len(ga) = m /\ Len(gb) = k
  BY <1>1, <1>2, <1>3
<1> HIDE DEF m, k, l, r
<1>6. Len(l) = Len(r) /\ Len(l) = m + k
  BY <1>4, <1>5, <1>n
<1>7. ASSUME NEW i \in 1..Len(l) PROVE l[i] = r[i]
  <2>0. i \in 1..Len(all) /\ l[i] = [call |-> all[i], to |-> t]
    BY <1>4
  <2>1. CASE i \in 1..m
    <3>1. r[i] = [call |-> a[i], to |-> t]
      BY <1>2, <1>5, <1>n, <2>1
    <3>2. all[i] = a[i]
      BY <1>1, <2>1
    <3> QED BY <2>0, <3>1, <3>2
  <2>2. CASE i \notin 1..m
    <3> DEFINE j == i - m
    <3>1. j \in 1..k /\ m + j = i
      BY <1>m, <1>k, <1>6, <2>2
    <3> HIDE DEF j
    <3>2. all[m + j] = b[j]
      BY <1>1, <3>1
    <3>3. r[m + j] = gb[j]
      BY <1>5, <1>n, <3>1
    <3>4. gb[j] = [call |-> b[j], to |-> t]
      BY <1>3, <3>1
    <3> QED BY <2>0, <3>1, <3>2, <3>3, <3>4
  <2> QED BY <2>1, <2>2
<1>8. l = r
  BY <1>4, <1>5, <1>6, <1>7, SeqEqual
<1> QED BY <1>8 DEF l, r, all, ga, gb

\* A query that was not made is in no stream.
LEMMA NotInStream ==
    ASSUME TypeOK, AskedInv, NEW q \in Queries, answer[q] = "none"
    PROVE  /\ \A n \in 1..Len(Given(pending, NoProcess)) : Given(pending, NoProcess)[n].call # Query(q)
           /\ \A p \in Processes : \A n \in 1..Len(Stream(p)) : Stream(p)[n].call # Query(q)
<1>1. /\ Absent(Query(q), pending) /\ AbsentGiven(Query(q))
      /\ \A p \in Processes : Absent(Query(q), wire[p])
  BY DEF AskedInv
<1>2. ASSUME NEW calls \in Seq(Message), NEW t \in Ends, Absent(Query(q), calls)
      PROVE  \A n \in 1..Len(Given(calls, t)) : Given(calls, t)[n].call # Query(q)
  <2>1. Len(Given(calls, t)) = Len(calls) /\ DOMAIN calls = 1..Len(calls)
    BY GivenProperties
  <2> SUFFICES ASSUME NEW n \in 1..Len(calls) PROVE Given(calls, t)[n].call # Query(q)
    BY <2>1
  <2>2. calls[n] # Query(q)
    BY <1>2, <2>1 DEF Absent
  <2>3. Given(calls, t)[n] = [call |-> calls[n], to |-> t]
    BY GivenProperties
  <2> QED BY <2>2, <2>3
<1>3. pending \in Seq(Message) /\ NoProcess \in Ends /\ given \in Seq(Entry)
  BY DEF TypeOK, Ends, Entry
<1>4. ASSUME NEW p \in Processes, NEW n \in 1..Len(Stream(p)) PROVE Stream(p)[n].call # Query(q)
  <2> DEFINE sent == Given(wire[p], p)
  <2>1. p \in Ends /\ wire[p] \in Seq(Message)
    BY OutcomesAreEnds DEF TypeOK
  <2>2. sent \in Seq(Entry) /\ \A i \in 1..Len(sent) : sent[i].call # Query(q)
    BY <1>1, <1>2, <2>1, GivenProperties
  <2> HIDE DEF sent
  <2>3. Stream(p) = sent \o given
    BY DEF Stream, sent
  <2>4. CASE n \in 1..Len(sent)
    BY <1>3, <2>2, <2>3, <2>4, ConcatAt
  <2>5. CASE n \notin 1..Len(sent)
    <3>1. PICK j \in 1..Len(given) : Stream(p)[n] = given[j]
      BY <1>3, <2>2, <2>3, <2>5, ConcatPlace
    <3> QED BY <1>1, <1>3, <3>1 DEF AbsentGiven
  <2> QED BY <2>4, <2>5
<1> QED BY <1>1, <1>2, <1>3, <1>4

LEMMA AskFresh ==
    ASSUME TypeOK, SupervisorInv, ClientInv, SupervisorInv', ClientInv', AskedInv, StreamInv,
           NEW q \in Queries, NEW p \in Outcomes, Ask(q, p)
    PROVE  StreamInv'
<1>1. /\ answer[q] = "none" /\ wire' = wire /\ wanted' = [wanted EXCEPT ![q] = edited]
      /\ p \in Ends /\ pending \in Seq(Message) /\ given \in Seq(Entry) /\ NoProcess \in Ends
  BY OutcomesAreEnds DEF Ask, TypeOK, Entry, Ends
<1>2. CASE state = "shutdown"
  <2>1. peer = NoProcess /\ pending = << >> /\ \A x \in Processes : process[x] # "running"
    BY <1>2, RunningIsPeer DEF ClientInv
  <2>2. UNCHANGED <<supervisorVars, state, peer, pending>> /\ sentSeq' = sentSeq
    BY <1>2 DEF Ask, GetClient
  <2>3. FreshStream(Given(pending, NoProcess), NoProcess, Nothing, wanted, sentSeq)
    BY <2>1 DEF StreamInv
  <2>4. Len(Given(pending, NoProcess)) = 0
    BY <2>1, <1>1, GivenProperties
  <2>5. \A n : n \notin 1..Len(Given(pending, NoProcess))
    BY <2>4
  <2>6. FreshStream(Given(pending, NoProcess), NoProcess, Nothing, wanted', sentSeq)
    BY <2>3, <2>5 DEF FreshStream
  <2> QED BY <2>1, <2>2, <2>6 DEF StreamInv, supervisorVars
<1>3. CASE state # "shutdown"
  <2>1. PICK order \in SetToSeqs(Stale) : GetClient(Updates(order) \o <<Query(q)>>, p)
    BY <1>3 DEF Ask
  <2> DEFINE calls == Updates(order) \o <<Query(q)>>
  <2>2. calls \in Seq(Message)
    BY MessageTypes, UpdatesType, ConcatProperties
  <2>3. sentSeq' = [f \in Files |-> IF f \in Stale THEN edited[f] ELSE sentSeq[f]]
    BY <1>3 DEF Ask
  <2>4. ASSUME NEW s \in Seq(Entry), NEW t \in Ends, NEW base \in [Files -> Versions],
               FreshStream(s, t, base, wanted, sentSeq),
               \A n \in 1..Len(s) : s[n].call # Query(q)
        PROVE  FreshStream(s \o Given(calls, t), t, base, wanted', sentSeq')
    BY <1>1, <2>3, <2>4, AskedFresh
  <2>5. GetClient(calls, p)
    BY <2>1
  <2> HIDE DEF calls
  <2>6. CASE peer = NoProcess
    <3>1. FreshStream(Given(pending, NoProcess), NoProcess, Nothing, wanted, sentSeq)
      BY <2>6 DEF StreamInv
    <3>2. Given(pending, NoProcess) \in Seq(Entry)
      BY <1>1, GivenProperties
    <3>3. \A n \in 1..Len(Given(pending, NoProcess)) : Given(pending, NoProcess)[n].call # Query(q)
      BY <1>1, NotInStream
    <3>4. FreshStream(Given(pending \o calls, NoProcess), NoProcess, Nothing, wanted', sentSeq')
      BY <1>1, <2>2, <2>4, <3>1, <3>2, <3>3, GivenConcat, VersionTypes
    <3>5. CASE state = "initial"
      <4>1. pending = << >> /\ Spawned(p, calls) /\ Fresh(p)
        BY <2>5, <3>5 DEF GetClient, ClientInv
      <4>2. pending \o calls = calls
        BY <2>2, <4>1, ConcatEmptySeq
      <4> QED BY <1>1, <2>2, <3>4, <4>1, <4>2, SpawnedFresh
    <3>6. CASE state = "spawning"
      <4>1. pending' = pending \o calls /\ UNCHANGED <<supervisorVars, state, peer>>
        BY <2>5, <3>6 DEF GetClient
      <4>2. \A x \in Processes : process'[x] # "running"
        BY <3>6, <4>1, RunningIsPeer DEF supervisorVars
      <4> QED BY <3>4, <4>1, <4>2 DEF StreamInv
    <3>7. state \in {"initial", "spawning"}
      BY <1>3, <2>6 DEF ClientInv
    <3> QED BY <3>5, <3>6, <3>7
  <2>7. CASE peer # NoProcess
    <3>1. state = "running"
      BY <2>7 DEF ClientInv
    <3>2. given' = given \o Given(calls, peer) /\ UNCHANGED <<supervisorVars, state, peer, draft>>
      BY <2>5, <3>1 DEF GetClient
    <3>3. ASSUME NEW x \in Processes, process'[x] = "running"
          PROVE  FreshStream(Given(wire'[x], x) \o given', x, draft'[x], wanted', sentSeq')
      <4>1. process[x] = "running" /\ x = peer
        BY <3>2, <3>3, RunningIsPeer DEF supervisorVars
      <4>2. FreshStream(Stream(x), x, draft[x], wanted, sentSeq)
        BY <4>1 DEF StreamInv
      <4>3. Stream(x) \in Seq(Entry) /\ x \in Ends /\ draft[x] \in [Files -> Versions]
        BY StreamType, OutcomesAreEnds DEF TypeOK
      <4>4. \A n \in 1..Len(Stream(x)) : Stream(x)[n].call # Query(q)
        BY <1>1, NotInStream
      <4>5. FreshStream(Stream(x) \o Given(calls, x), x, draft[x], wanted', sentSeq')
        BY <2>4, <4>2, <4>3, <4>4
      <4>6. Given(wire[x], x) \in Seq(Entry) /\ Given(calls, x) \in Seq(Entry)
        BY <2>2, <4>3, GivenProperties DEF TypeOK
      <4>7. Stream(x) \o Given(calls, x) = Given(wire[x], x) \o (given \o Given(calls, x))
        BY <1>1, <4>6, ConcatAssociative DEF Stream
      <4> QED BY <1>1, <3>2, <4>1, <4>5, <4>7
    <3> QED BY <2>7, <3>2, <3>3 DEF StreamInv, Stream
  <2> QED BY <2>6, <2>7
<1> QED BY <1>2, <1>3

LEMMA SaveFresh ==
    ASSUME TypeOK, SupervisorInv, ClientInv, StreamInv, NEW f \in Files, Save(f)
    PROVE  StreamInv'
<1>1. wire' = wire /\ wanted' = wanted /\ sentSeq' = [sentSeq EXCEPT ![f] = 0]
  BY DEF Save
<1>2. pending \in Seq(Message) /\ NoProcess \in Ends /\ given \in Seq(Entry)
  BY DEF TypeOK, Ends, Entry
<1>3. CASE peer = NoProcess
  <2>1. UNCHANGED <<supervisorVars, state, peer, pending, given, draft>>
    BY <1>3 DEF Save
  <2>2. \A x \in Processes : process'[x] # "running"
    BY <1>3, <2>1, RunningIsPeer DEF supervisorVars, ClientInv
  <2>3. FreshStream(Given(pending, NoProcess), NoProcess, Nothing, wanted, sentSeq)
    BY <1>3 DEF StreamInv
  <2>4. Given(pending, NoProcess) \in Seq(Entry)
    BY <1>2, GivenProperties
  <2>5. FreshStream(Given(pending, NoProcess), NoProcess, Nothing, wanted, [sentSeq EXCEPT ![f] = 0])
    BY <2>3, <2>4, UnsentFresh, VersionTypes
  <2> QED BY <1>1, <2>1, <2>2, <2>5 DEF StreamInv
<1>4. CASE peer # NoProcess
  <2> DEFINE calls == <<Buffer(f, 0)>>
  <2>1. state = "running" /\ GetClient(calls, NoProcess)
    BY <1>4 DEF Save, ClientInv
  <2>2. given' = given \o Given(calls, peer) /\ UNCHANGED <<supervisorVars, state, peer, draft>>
    BY <2>1 DEF GetClient
  <2>3. calls \in Seq(Message)
    BY MessageTypes, VersionTypes
  <2>4. ASSUME NEW s \in Seq(Entry), NEW t \in Ends, NEW base \in [Files -> Versions],
               FreshStream(s, t, base, wanted, sentSeq)
        PROVE  FreshStream(s \o Given(calls, t), t, base, wanted, [sentSeq EXCEPT ![f] = 0])
    BY <2>4, SavedFresh
  <2> HIDE DEF calls
  <2>5. ASSUME NEW x \in Processes, process'[x] = "running"
        PROVE  FreshStream(Given(wire'[x], x) \o given', x, draft'[x], wanted', sentSeq')
    <3>1. process[x] = "running" /\ x = peer
      BY <2>2, <2>5, RunningIsPeer DEF supervisorVars
    <3>2. FreshStream(Stream(x), x, draft[x], wanted, sentSeq)
      BY <3>1 DEF StreamInv
    <3>3. Stream(x) \in Seq(Entry) /\ x \in Ends /\ draft[x] \in [Files -> Versions]
      BY StreamType, OutcomesAreEnds DEF TypeOK
    <3>4. FreshStream(Stream(x) \o Given(calls, x), x, draft[x], wanted, [sentSeq EXCEPT ![f] = 0])
      BY <2>4, <3>2, <3>3
    <3>5. Given(wire[x], x) \in Seq(Entry) /\ Given(calls, x) \in Seq(Entry)
      BY <2>3, <3>3, GivenProperties DEF TypeOK
    <3>6. Stream(x) \o Given(calls, x) = Given(wire[x], x) \o (given \o Given(calls, x))
      <4> DEFINE a == Given(wire[x], x)
                 b == Given(calls, x)
      <4>1. a \in Seq(Entry) /\ given \in Seq(Entry) /\ b \in Seq(Entry)
        BY <1>2, <3>5
      <4> HIDE DEF a, b
      <4>2. (a \o given) \o b = a \o (given \o b)
        BY <4>1, ConcatAssociative
      <4> QED BY <4>2 DEF Stream, a, b
    <3> QED BY <1>1, <2>2, <3>1, <3>4, <3>6
  <2> QED BY <1>4, <2>2, <2>5 DEF StreamInv, Stream
<1> QED BY <1>3, <1>4

LEMMA DispatchFresh ==
    ASSUME TypeOK, StreamInv, Dispatch
    PROVE  StreamInv'
<1>1. UNCHANGED <<supervisorVars, peer, pending, sentSeq, draft, wanted>>
  BY DEF Dispatch
<1>2. ASSUME NEW p \in Processes, process'[p] = "running"
      PROVE  FreshStream(Given(wire'[p], p) \o given', p, draft'[p], wanted', sentSeq')
  <2>1. FreshStream(Given(wire[p], p) \o given, p, draft[p], wanted, sentSeq)
    BY <1>1, <1>2 DEF StreamInv, Stream, supervisorVars
  <2>2. FreshStream(Given(wire'[p], p) \o given', p, draft[p], wanted, sentSeq)
    BY <2>1, DispatchedStream
  <2> QED BY <1>1, <2>2
<1> QED BY <1>1, <1>2 DEF StreamInv, Stream

LEMMA ServeFresh ==
    ASSUME TypeOK, TypeOK', SupervisorInv, ClientInv, StreamInv, NEW p \in Processes, Serve(p)
    PROVE  StreamInv'
<1> DEFINE next == Head(wire[p])
           s == Given(wire[p], p)
           r == Given(wire'[p], p)
<1>1. /\ UNCHANGED <<supervisorVars, state, peer, pending, given, sentSeq, wanted>>
      /\ process[p] = "running" /\ wire[p] # << >>
      /\ wire' = [wire EXCEPT ![p] = Tail(wire[p])]
  BY DEF Serve
<1>2. p = peer /\ peer # NoProcess
  BY <1>1, RunningIsPeer DEF ClientInv
<1>3. FreshStream(s \o given, p, draft[p], wanted, sentSeq)
  BY <1>1 DEF StreamInv, Stream
<1>4. /\ p \in Ends /\ given \in Seq(Entry) /\ wire[p] \in Seq(Message) /\ wire'[p] = Tail(wire[p])
      /\ draft[p] \in [Files -> Versions] /\ draft'[p] \in [Files -> Versions]
  BY <1>1, OutcomesAreEnds DEF TypeOK, Entry, Ends
<1> DEFINE m == Len(wire'[p])
<1>5. /\ wire'[p] \in Seq(Message) /\ m \in Nat /\ Len(wire[p]) = m + 1
      /\ next = wire[p][1] /\ next \in Message
      /\ \A i \in 1..m : wire'[p][i] = wire[p][i + 1]
  <2>1. wire[p] \in Seq(Message) /\ wire[p] # << >>
    BY <1>1, <1>4
  <2>2. /\ Head(wire[p]) \in Message /\ Head(wire[p]) = wire[p][1]
        /\ Tail(wire[p]) \in Seq(Message) /\ Len(Tail(wire[p])) = Len(wire[p]) - 1
        /\ \A i \in 1..Len(Tail(wire[p])) : Tail(wire[p])[i] = wire[p][i + 1]
    BY <2>1, HeadTailProperties
  <2>3. Len(wire[p]) \in Nat /\ wire'[p] = Tail(wire[p])
    BY <1>4, <2>1
  <2>4. Len(wire'[p]) \in Nat
    BY <2>2, <2>3
  <2>5. Len(wire[p]) = Len(wire'[p]) + 1
    BY <2>2, <2>3
  <2> QED BY <2>2, <2>3, <2>4, <2>5
<1>m. m \in Nat
  BY <1>5
<1>6. /\ s \in Seq(Entry) /\ Len(s) = m + 1
      /\ \A i \in 1..m + 1 : s[i] = [call |-> wire[p][i], to |-> p]
  <2>1. /\ s \in Seq(Entry) /\ Len(s) = Len(wire[p])
        /\ \A i \in 1..Len(wire[p]) : s[i] = [call |-> wire[p][i], to |-> p]
    BY <1>4, GivenProperties
  <2> HIDE DEF s, m
  <2> QED BY <1>5, <2>1
<1>7. /\ r \in Seq(Entry) /\ Len(r) = m
      /\ \A i \in 1..m : r[i] = [call |-> wire'[p][i], to |-> p]
  BY <1>4, <1>5, GivenProperties
<1> HIDE DEF s, r, m
<1> DEFINE all == s \o given
           rest == r \o given
<1>8. /\ all \in Seq(Entry) /\ Len(all) = Len(s) + Len(given) /\ Len(given) \in Nat
      /\ \A i \in 1..Len(s) : all[i] = s[i]
      /\ \A j \in 1..Len(given) : all[Len(s) + j] = given[j]
  <2>1. s \in Seq(Entry) /\ given \in Seq(Entry)
    BY <1>4, <1>6
  <2> QED BY <2>1, ConcatAt
<1>9. /\ rest \in Seq(Entry) /\ Len(rest) = Len(r) + Len(given)
      /\ \A i \in 1..Len(r) : rest[i] = r[i]
      /\ \A j \in 1..Len(given) : rest[Len(r) + j] = given[j]
  <2>1. r \in Seq(Entry) /\ given \in Seq(Entry)
    BY <1>4, <1>7
  <2> QED BY <2>1, ConcatAt
<1> DEFINE k == Len(given)
<1>k. k \in Nat
  BY <1>8
<1>l. Len(s) = m + 1 /\ Len(r) = m /\ Len(all) = (m + 1) + k /\ Len(rest) = m + k
  BY <1>6, <1>7, <1>8, <1>9
<1> HIDE DEF all, rest, k
<1>10. ASSUME NEW i \in 1..Len(rest) PROVE rest[i] = all[i + 1]
  <2>1. CASE i \in 1..m
    <3>1. i + 1 \in 1..m + 1
      BY <1>m, <2>1
    <3>2. rest[i] = r[i] /\ r[i] = [call |-> wire'[p][i], to |-> p] /\ wire'[p][i] = wire[p][i + 1]
      BY <1>5, <1>7, <1>9, <1>l, <2>1
    <3>3. all[i + 1] = s[i + 1] /\ s[i + 1] = [call |-> wire[p][i + 1], to |-> p]
      BY <1>6, <1>8, <1>l, <3>1
    <3> QED BY <3>2, <3>3
  <2>2. CASE i \notin 1..m
    <3> DEFINE j == i - m
    <3>1. j \in 1..k /\ m + j = i /\ (m + 1) + j = i + 1
      BY <1>m, <1>k, <1>l, <2>2
    <3> HIDE DEF j
    <3>2. rest[m + j] = given[j]
      BY <1>9, <1>l, <3>1 DEF k
    <3>3. all[(m + 1) + j] = given[j]
      BY <1>8, <1>l, <3>1 DEF k
    <3> QED BY <3>1, <3>2, <3>3
  <2> QED BY <2>1, <2>2
<1>11. all[1] = [call |-> next, to |-> p]
  <2>1. 1 \in 1..m + 1
    BY <1>m
  <2> QED BY <1>5, <1>6, <1>8, <1>l, <2>1
<1>12. Len(all) = Len(rest) + 1
  BY <1>m, <1>k, <1>l
<1>13. draft'[p] = IF next.kind = "buffer"
                   THEN [draft[p] EXCEPT ![next.file] = next.version] ELSE draft[p]
  <2>1. CASE next.kind = "buffer"
    <3>1. draft' = [draft EXCEPT ![p][next.file] = next.version]
      BY <2>1 DEF Serve
    <3> HIDE DEF next
    <3> QED BY <2>1, <3>1 DEF TypeOK
  <2>2. CASE next.kind # "buffer"
    BY <2>2 DEF Serve
  <2> QED BY <2>1, <2>2
<1> HIDE DEF next
<1>14. FreshStream(rest, p, draft'[p], wanted, sentSeq)
  <2>1. all[1].to = p /\ all[1].call = next
    BY <1>11
  <2>2. FreshStream(all, p, draft[p], wanted, sentSeq)
    BY <1>3 DEF all
  <2> DEFINE base == draft[p]
             new == draft'[p]
  <2>3. new = IF all[1].call.kind = "buffer"
              THEN [base EXCEPT ![all[1].call.file] = all[1].call.version] ELSE base
    BY <1>13, <2>1
  <2>4. base \in [Files -> Versions] /\ new \in [Files -> Versions] /\ FreshStream(all, p, base, wanted, sentSeq)
    BY <1>4, <2>2
  <2> HIDE DEF base, new
  <2>5. Remaining(all, rest, p, base, new)
    BY <1>10, <1>12, <2>1, <2>3 DEF Remaining
  <2>6. all \in Seq(Entry) /\ rest \in Seq(Entry)
    BY <1>8, <1>9
  <2>7. FreshStream(rest, p, new, wanted, sentSeq)
    BY <2>4, <2>5, <2>6, ServedFresh
  <2> QED BY <2>7 DEF new
<1>15. ASSUME NEW x \in Processes, process'[x] = "running"
       PROVE  FreshStream(Given(wire'[x], x) \o given', x, draft'[x], wanted', sentSeq')
  <2>1. x = p
    BY <1>1, <1>2, <1>15, RunningIsPeer DEF supervisorVars
  <2> QED BY <1>1, <1>14, <2>1 DEF rest, r
<1> QED BY <1>1, <1>2, <1>15 DEF StreamInv, Stream

LEMMA ExitedFresh ==
    ASSUME TypeOK, SupervisorInv, ClientInv, SupervisorInv', ClientInv',
           NEW p \in Processes, NEW next \in Outcomes, Exited(p, next)
    PROVE  StreamInv'
<1>1. sentSeq' = Nothing /\ wire' = wire /\ wanted' = wanted
  BY DEF Exited, Forgotten
<1>2. CASE Restarts(p)
  <2>1. Spawned(next, pending) /\ Fresh(next) /\ pending = << >>
    BY <1>2 DEF Exited, Restarts, ClientInv
  <2>2. FreshStream(Given(pending, NoProcess), NoProcess, Nothing, wanted', sentSeq')
    BY <1>1, <2>1, EmptyFresh, OutcomesAreEnds
  <2>3. pending \in Seq(Message) /\ next \in Ends
    BY OutcomesAreEnds DEF TypeOK
  <2> QED BY <1>1, <2>1, <2>2, <2>3, SpawnedFresh
<1>3. CASE ~Restarts(p)
  <2>1. peer' = NoProcess /\ pending' = pending
    BY <1>3 DEF Exited
  <2>2. pending = << >>
    <3>1. process[p] = "exited"
      BY DEF Exited, Reap
    <3>2. state # "spawning"
      BY <3>1 DEF ClientInv
    <3> QED BY <3>2 DEF ClientInv
  <2> QED BY <1>1, <2>1, <2>2, EmptyStreams
<1> QED BY <1>2, <1>3

LEMMA RespawnFresh ==
    ASSUME TypeOK, SupervisorInv, ClientInv, SupervisorInv', ClientInv', StreamInv,
           NEW next \in Outcomes, Respawn(next)
    PROVE  StreamInv'
<1>1. /\ Spawned(next, pending) /\ Fresh(next) /\ timer = 1
      /\ wire' = wire /\ wanted' = wanted /\ sentSeq' = sentSeq
  BY DEF Respawn, Fire
<1>2. peer = NoProcess
  BY <1>1 DEF SupervisorInv, NoStrayProcess, ClientInv
<1>3. FreshStream(Given(pending, NoProcess), NoProcess, Nothing, wanted', sentSeq')
  BY <1>1, <1>2 DEF StreamInv
<1>4. pending \in Seq(Message) /\ next \in Ends
  BY OutcomesAreEnds DEF TypeOK
<1> QED BY <1>1, <1>3, <1>4, SpawnedFresh

FreshInv == SupervisorInv /\ ClientInv /\ TypeOK /\ AskedInv /\ StreamInv

LEMMA StreamStep ==
    FreshInv /\ SupervisorInv' /\ ClientInv' /\ TypeOK' /\ [Next]_vars => StreamInv'
<1> SUFFICES ASSUME SupervisorInv, ClientInv, TypeOK, AskedInv, StreamInv,
                    SupervisorInv', ClientInv', TypeOK', [Next]_vars
             PROVE  StreamInv'
  BY DEF FreshInv
<1>1. CASE UNCHANGED vars
  BY <1>1 DEF vars, supervisorVars, clientVars, queryVars, StreamInv, Stream
<1>2. CASE \E q \in Queries, p \in Outcomes : Ask(q, p)
  BY <1>2, AskFresh
<1>3. CASE Dispatch
  BY <1>3, DispatchFresh
<1>4. CASE \E f \in Files : Edit(f)
  BY <1>4 DEF Edit, supervisorVars, clientVars, queryVars, StreamInv, Stream
<1>5. CASE \E f \in Files : Save(f)
  BY <1>5, SaveFresh
<1>6. CASE Destroy
  BY <1>6, EmptyStreams DEF Destroy, Flushed, Forgotten
<1>7. CASE \E p \in Processes, next \in Outcomes : Exited(p, next)
  BY <1>7, ExitedFresh
<1>8. CASE \E next \in Outcomes : Respawn(next)
  BY <1>8, RespawnFresh
<1>9. ASSUME NEW p \in Processes, Crash(p) PROVE StreamInv'
  <2>1. \A x \in Processes : process'[x] = "running" => process[x] = "running"
    BY <1>9 DEF Crash, Die, TypeOK, SupervisorTypeOK
  <2> QED BY <1>9, <2>1 DEF Crash, clientVars, queryVars, StreamInv, Stream
<1>10. CASE TimePasses
  BY <1>10 DEF TimePasses, Tick, clientVars, queryVars, StreamInv, Stream
<1>11. CASE \E p \in Processes : Serve(p)
  BY <1>11, ServeFresh
<1>12. ASSUME NEW p \in Processes, HangUp(p) PROVE StreamInv'
  <2>1. /\ UNCHANGED <<supervisorVars, peer, pending, given, sentSeq, draft, wanted>>
        /\ process[p] # "running" /\ wire' = [wire EXCEPT ![p] = << >>]
    BY <1>12 DEF HangUp
  <2>2. \A x \in Processes : process'[x] = "running" => process[x] = "running" /\ wire'[x] = wire[x]
    BY <2>1 DEF TypeOK, supervisorVars
  <2> QED BY <2>1, <2>2 DEF StreamInv, Stream
<1> QED BY <1>1, <1>2, <1>3, <1>4, <1>5, <1>6, <1>7, <1>8, <1>9, <1>10, <1>11, <1>12 DEF Next

LEMMA StreamStart == Init => AskedInv /\ StreamInv
<1> SUFFICES ASSUME Init PROVE AskedInv /\ StreamInv
  OBVIOUS
<1>1. AskedInv
  BY DEF Init, AskedInv, Absent, AbsentGiven
<1>2. \A p \in Processes : process[p] # "running"
  BY DEF Init, SupervisorInit
<1>3. FreshStream(Given(pending, NoProcess), NoProcess, Nothing, wanted, sentSeq)
  BY EmptyFresh, OutcomesAreEnds DEF Init
<1> QED BY <1>1, <1>2, <1>3 DEF StreamInv

\* The query a server reads finds what it was sent before it.
LEMMA FreshRead == FreshInv => QueryIsFresh
<1> SUFFICES ASSUME FreshInv, NEW p \in Processes, process[p] = "running", wire[p] # << >>,
                    Head(wire[p]).kind = "query", NEW f \in Files
             PROVE  Seen(p, f) >= wanted[Head(wire[p]).query][f]
  BY DEF QueryIsFresh
<1> DEFINE next == Head(wire[p])
           s == Given(wire[p], p)
<1>1. /\ p \in Ends /\ wire[p] \in Seq(Message) /\ given \in Seq(Entry)
      /\ draft[p][f] \in Nat /\ disk[f] \in Nat
  <2>1. draft[p] \in [Files -> Versions] /\ disk \in [Files -> Versions]
    BY DEF FreshInv, TypeOK
  <2>2. draft[p][f] \in Versions /\ disk[f] \in Versions
    BY <2>1
  <2>3. draft[p][f] \in Nat /\ disk[f] \in Nat
    BY <2>2, VersionTypes
  <2>4. wire[p] \in Seq(Message) /\ p \in Ends
    BY OutcomesAreEnds DEF FreshInv, TypeOK
  <2>5. given \in Seq(Entry)
    BY DEF FreshInv, TypeOK, Entry, Ends
  <2> QED BY <2>3, <2>4, <2>5
<1>2. next = wire[p][1] /\ 1 \in 1..Len(wire[p]) /\ next \in Message
  BY <1>1
<1>3. wanted[next.query][f] \in Nat
  <2>1. next.query \in Queries
    BY <1>2, MessageKinds
  <2> HIDE DEF next
  <2> QED BY <2>1, VersionTypes DEF FreshInv, TypeOK
<1>4. s \in Seq(Entry) /\ 1 \in 1..Len(s) /\ s[1] = [call |-> next, to |-> p]
  BY <1>1, <1>2, GivenProperties
<1> HIDE DEF s
<1>5. /\ Stream(p) \in Seq(Entry) /\ 1 \in 1..Len(Stream(p)) /\ Stream(p)[1] = s[1]
  <2>1. /\ s \o given \in Seq(Entry) /\ Len(s \o given) = Len(s) + Len(given)
        /\ Len(given) \in Nat /\ Len(s) \in Nat /\ (s \o given)[1] = s[1]
    BY <1>1, <1>4, ConcatAt
  <2>2. 1 \in 1..Len(s) + Len(given)
    BY <1>4, <2>1
  <2> QED BY <2>1, <2>2 DEF Stream, s
<1>6. Stream(p)[1].to = p /\ Stream(p)[1].call = next
  BY <1>4, <1>5
<1>7. IsQuery(Stream(p)[1], p)
  BY <1>6 DEF IsQuery
<1>8. FreshStream(Stream(p), p, draft[p], wanted, sentSeq)
  BY DEF FreshInv, StreamInv
<1>9. Holds(Stream(p), 1, p, f, draft[p], wanted[next.query][f])
  BY <1>5, <1>6, <1>7, <1>8 DEF FreshStream
<1>10. DraftsBefore(Stream(p), 1, p, f) = {}
  BY DEF DraftsBefore
<1>11. draft[p][f] >= wanted[next.query][f]
  BY <1>9, <1>10 DEF Holds
<1> HIDE DEF next
<1>12. Seen(p, f) >= wanted[next.query][f]
  BY <1>1, <1>3, <1>11 DEF Seen
<1> QED BY <1>12 DEF next

\* Whatever is edited and saved while servers die, are spawned again and are
\* waited for, a server that comes to a query has been sent contents at least
\* as new as those the query was made with: ide_clang_client_sync_buffers and
\* the queue of get_client never let a query overtake its buffers, and the
\* record of what was sent is never kept for a server that was not sent it.
THEOREM QueriesAreFresh == Spec => []QueryIsFresh
<1>1. Init => SupervisorInv /\ ClientInv /\ FreshInv
  <2>1. Init => SupervisorInv /\ ClientInv
    BY SupervisorStart DEF Init, SupervisorInit, ClientInv
  <2> QED BY <2>1, ClientTypeStart, StreamStart DEF FreshInv
<1>2. FreshInv /\ [Next]_vars => FreshInv'
  <2>1. SupervisorInv /\ [Next]_vars => SupervisorInv'
    BY ClientSteps, SupervisorStep
  <2> QED BY <2>1, ClientStep, ClientTypeStep, AskedStep, StreamStep DEF FreshInv
<1> QED BY <1>1, <1>2, FreshRead, PTL DEF Spec

=============================================================================

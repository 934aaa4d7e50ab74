----------------------------- MODULE ClangClient -----------------------------
(***************************************************************************)
(* IdeClangClient (src/plugins/clang/ide-clang-client.c), the user of a    *)
(* supervised process: it starts the supervisor with its first call, keeps *)
(* the calls made while there is no server, hands them to the next one,    *)
(* and sends every server the unsaved contents of the buffers.             *)
(*                                                                         *)
(* The handlers of "spawned" and "exited" run inside the steps of the      *)
(* supervisor.  A call is answered with the peer by ide_clang_client_      *)
(* get_client_async, and sent when that answer is dispatched by the main   *)
(* loop; what is on its way to a peer is read in order.  The versions of a *)
(* file are numbered, 0 is no contents.  IdeUnsavedFiles never loses an    *)
(* entry: the program does not call ide_unsaved_files_remove.              *)
(***************************************************************************)
EXTENDS Supervisor, Sequences, SequencesExt

CONSTANTS
    Queries,    \* calls that ask for something, each made once
    Files,      \* the C sources that are open
    MaxVersion  \* bound on the versions of a file

ASSUME ClientAssumption ==
    /\ IsFiniteSet(Queries)
    /\ IsFiniteSet(Files)
    /\ MaxVersion \in Nat

VARIABLES
    state,      \* self->state
    peer,       \* the process rpc_client is connected to
    pending,    \* the calls behind the tasks of the queue get_client
    given,      \* answered tasks of get_client to dispatch
    wire,       \* what each process has been sent and not read
    sentSeq,    \* seq_by_file
    edited,     \* the contents of each file in IdeUnsavedFiles
    disk,       \* the contents of each file on disk
    draft,      \* the unsaved contents each process holds
    wanted,     \* history: what was edited when a query was made
    answer      \* what has become of each query

clientVars == <<state, peer, pending, given, wire, sentSeq>>
bufferVars == <<edited, disk>>
queryVars  == <<draft, wanted, answer>>
vars == <<supervisorVars, clientVars, bufferVars, queryVars>>

Versions == 0..MaxVersion
Query(q)     == [kind |-> "query", query |-> q]
Buffer(f, v) == [kind |-> "buffer", file |-> f, version |-> v]
Message == {Query(q) : q \in Queries} \cup {Buffer(f, v) : f \in Files, v \in Versions}

TypeOK ==
    /\ SupervisorTypeOK
    /\ state \in {"initial", "spawning", "running", "shutdown"}
    /\ peer \in Processes \cup {NoProcess}
    /\ pending \in Seq(Message)
    /\ given \in Seq([call : Message, to : Processes \cup {NoProcess}])
    /\ wire \in [Processes -> Seq(Message)]
    /\ sentSeq \in [Files -> Versions]
    /\ edited \in [Files -> Versions] /\ disk \in [Files -> Versions]
    /\ draft \in [Processes -> [Files -> Versions]]
    /\ wanted \in [Queries -> [Files -> Versions]]
    /\ answer \in [Queries -> {"none", "asked", "reply", "error"}]

Nothing == [f \in Files |-> 0]

Init ==
    /\ SupervisorInit
    /\ state = "initial"
    /\ peer = NoProcess
    /\ pending = << >> /\ given = << >>
    /\ wire = [p \in Processes |-> << >>]
    /\ sentSeq = Nothing
    /\ edited = Nothing /\ disk = Nothing
    /\ draft = [p \in Processes |-> Nothing]
    /\ wanted = [q \in Queries |-> Nothing]
    /\ answer = [q \in Queries |-> "none"]

-----------------------------------------------------------------------------
(* The pieces of the handlers *)

\* ide_task_return of the tasks of get_client, in the order they were made.
Given(calls, to) == [i \in DOMAIN calls |-> [call |-> calls[i], to |-> to]]

\* A process nobody holds a connection to any more.
Fresh(p) ==
    /\ p # NoProcess => wire[p] = << >>
    /\ \A i \in DOMAIN given : given[i].to = p => p = NoProcess

\* ide_clang_client_subprocess_spawned: the calls that wait get the new
\* peer, which knows of no unsaved contents.
Spawned(p, calls) ==
    IF p = NoProcess
    THEN /\ state' = "spawning"
         /\ peer' = NoProcess
         /\ pending' = calls
         /\ UNCHANGED <<given, draft>>
    ELSE /\ state' = "running"
         /\ peer' = p
         /\ pending' = << >>
         /\ given' = given \o Given(calls, p)
         /\ draft' = [draft EXCEPT ![p] = Nothing]

\* ide_clang_client_get_client_async for each of the calls; p is what the
\* supervisor spawns if it is started by the first of them.
GetClient(calls, p) ==
    \/ /\ state = "initial"
       /\ Start(p) /\ Fresh(p)
       /\ Spawned(p, calls)
    \/ /\ state \in {"spawning", "running", "shutdown"}
       /\ p = NoProcess
       /\ IF state = "spawning"
          THEN /\ pending' = pending \o calls
               /\ UNCHANGED given
          ELSE /\ given' = given \o Given(calls, peer)
               /\ UNCHANGED pending
       /\ UNCHANGED <<supervisorVars, state, peer, draft>>

\* ide_clang_client_sync_buffers: the files that are newer than what was
\* sent, in any order.
Stale == {f \in Files : edited[f] > sentSeq[f]}
Updates(order) == [i \in DOMAIN order |-> Buffer(order[i], edited[order[i]])]

\* Mutant: what the last peer was sent is remembered.
Remembered == UNCHANGED sentSeq

\* The next peer has been sent nothing.
Forgotten == sentSeq' = Nothing

\* Mutant: the calls that wait are left in the queue.
LeftWaiting == UNCHANGED <<given, pending>>

\* Every task of get_client is answered with an error.
Flushed ==
    /\ given' = given \o Given(pending, NoProcess)
    /\ pending' = << >>

-----------------------------------------------------------------------------
(* The operations of the client *)

\* A query, as ide_clang_client_diagnose_async: sync, then call.  Nothing is
\* synced once the client is destroyed.
Ask(q, p) ==
    /\ answer[q] = "none"
    /\ answer' = [answer EXCEPT ![q] = "asked"]
    /\ wanted' = [wanted EXCEPT ![q] = edited]
    /\ IF state = "shutdown"
       THEN /\ GetClient(<<Query(q)>>, p)
            /\ UNCHANGED sentSeq
       ELSE /\ \E order \in SetToSeqs(Stale) :
                  GetClient(Updates(order) \o <<Query(q)>>, p)
            /\ sentSeq' = [f \in Files |-> IF f \in Stale THEN edited[f] ELSE sentSeq[f]]
    /\ UNCHANGED <<wire, bufferVars>>

\* ide_clang_client_call_get_client_cb.
Dispatch ==
    LET next == Head(given) IN
    /\ given # << >>
    /\ given' = Tail(given)
    /\ IF next.to = NoProcess
       THEN /\ answer' = IF next.call.kind = "query"
                         THEN [answer EXCEPT ![next.call.query] = "error"] ELSE answer
            /\ UNCHANGED wire
       ELSE /\ wire' = [wire EXCEPT ![next.to] = Append(@, next.call)]
            /\ UNCHANGED answer
    /\ UNCHANGED <<supervisorVars, state, peer, pending, sentSeq, bufferVars, draft, wanted>>

\* ide_buffer_dup_content after the user has typed.
Edit(f) ==
    /\ edited[f] < MaxVersion
    /\ edited' = [edited EXCEPT ![f] = @ + 1]
    /\ UNCHANGED <<supervisorVars, clientVars, disk, queryVars>>

\* A buffer is written and ide_clang_client_buffer_saved runs: the draft of
\* the peer, if there is one, is taken back.
Save(f) ==
    /\ disk[f] < edited[f]
    /\ disk' = [disk EXCEPT ![f] = edited[f]]
    /\ sentSeq' = [sentSeq EXCEPT ![f] = 0]
    /\ IF peer = NoProcess
       THEN UNCHANGED <<supervisorVars, state, peer, pending, given, draft>>
       ELSE GetClient(<<Buffer(f, 0)>>, NoProcess)
    /\ UNCHANGED <<wire, edited, wanted, answer>>

\* ide_clang_client_destroy: the calls that wait are answered with an error.
Destroy ==
    /\ state # "shutdown"
    /\ Stop
    /\ state' = "shutdown"
    /\ peer' = NoProcess
    /\ Forgotten
    /\ Flushed
    /\ UNCHANGED <<wire, bufferVars, queryVars>>

-----------------------------------------------------------------------------
(* The steps of the supervisor with the handlers they run *)

\* wait_cb emits "exited" before it looks at the process, and the handler
\* forgets the peer and what it was sent.
Exited(p, next) ==
    /\ Reap(p, next) /\ Fresh(next)
    /\ Forgotten
    /\ IF Restarts(p)
       THEN Spawned(next, pending)
       ELSE /\ state' = IF state = "running" THEN "spawning" ELSE state
            /\ peer' = NoProcess
            /\ UNCHANGED <<pending, given, draft>>
    /\ UNCHANGED <<wire, bufferVars, wanted, answer>>

Respawn(next) ==
    /\ Fire(next) /\ Fresh(next)
    /\ Spawned(next, pending)
    /\ UNCHANGED <<wire, sentSeq, bufferVars, wanted, answer>>

Crash(p) ==
    /\ Die(p)
    /\ UNCHANGED <<clientVars, bufferVars, queryVars>>

TimePasses ==
    /\ Tick
    /\ UNCHANGED <<clientVars, bufferVars, queryVars>>

-----------------------------------------------------------------------------
(* The peer *)

\* The server reads a call and answers it, in the order they were sent.
Serve(p) ==
    LET next == Head(wire[p]) IN
    /\ process[p] = "running"
    /\ wire[p] # << >>
    /\ wire' = [wire EXCEPT ![p] = Tail(@)]
    /\ IF next.kind = "buffer"
       THEN /\ draft' = [draft EXCEPT ![p][next.file] = next.version]
            /\ UNCHANGED answer
       ELSE /\ answer' = [answer EXCEPT ![next.query] = "reply"]
            /\ UNCHANGED draft
    /\ UNCHANGED <<supervisorVars, state, peer, pending, given, sentSeq, bufferVars, wanted>>

\* The connection is closed with the process: the calls on it fail.
HangUp(p) ==
    LET lost == {i \in DOMAIN wire[p] : wire[p][i].kind = "query"} IN
    /\ process[p] \in {"exited", "none"}
    /\ wire[p] # << >>
    /\ wire' = [wire EXCEPT ![p] = << >>]
    /\ answer' = [q \in Queries |-> IF \E i \in lost : wire[p][i].query = q
                                    THEN "error" ELSE answer[q]]
    /\ UNCHANGED <<supervisorVars, state, peer, pending, given, sentSeq, bufferVars, draft, wanted>>

Next ==
    \/ \E q \in Queries, p \in Outcomes : Ask(q, p)
    \/ Dispatch
    \/ \E f \in Files : Edit(f) \/ Save(f)
    \/ Destroy
    \/ \E p \in Processes, next \in Outcomes : Exited(p, next)
    \/ \E next \in Outcomes : Respawn(next)
    \/ \E p \in Processes : Crash(p) \/ Serve(p) \/ HangUp(p)
    \/ TimePasses

Spec == Init /\ [][Next]_vars

\* The main loop dispatches what is ready, a killed process dies, and a
\* server that runs reads what it is sent.
FairSpec ==
    /\ Spec
    /\ WF_vars(Dispatch)
    /\ WF_vars(TimePasses)
    /\ WF_vars(\E next \in Outcomes : Respawn(next))
    /\ \A p \in Processes :
          /\ WF_vars(\E next \in Outcomes : Exited(p, next))
          /\ WF_vars(process[p] = "killed" /\ Crash(p))
          /\ WF_vars(Serve(p))
          /\ WF_vars(HangUp(p))

-----------------------------------------------------------------------------
(* Properties *)

\* What a server sees of a file: the draft it was sent, or else the disk.
Seen(p, f) == IF draft[p][f] # 0 THEN draft[p][f] ELSE disk[f]

\* A query is answered from contents that are at least as new as what was
\* edited when it was made, whichever server answers it and however often
\* the servers were replaced since.
QueryIsFresh ==
    \A p \in Processes :
        LET next == Head(wire[p]) IN
        process[p] = "running" /\ wire[p] # << >> /\ next.kind = "query"
            => \A f \in Files : Seen(p, f) >= wanted[next.query][f]

\* The client is connected to the process the supervisor watches or to
\* none, it has a peer when it says that it runs, and no call is left in
\* the queue once it is destroyed (the assertions in "spawned" and finalize).
PeerIsSupervised ==
    /\ peer # NoProcess => peer = current
    /\ state = "running" <=> peer # NoProcess
    /\ pending # << >> => state = "spawning"

\* After a spawn that failed nothing is retried.
SpawnFailed == supervising /\ current = NoProcess /\ timer = 0

\* Every call is answered, whether its server replies or dies, the next one
\* is delayed or the client is destroyed; all but those made when no server
\* can be spawned.
EveryQueryAnswered ==
    \A q \in Queries : answer[q] = "asked" ~> answer[q] \in {"reply", "error"} \/ SpawnFailed

=============================================================================

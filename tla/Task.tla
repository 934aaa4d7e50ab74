-------------------------------- MODULE Task --------------------------------
(***************************************************************************)
(* IdeTask (src/libide/threading/ide-task.c): one result for an operation, *)
(* which may come from the main thread, from a worker thread, from the     *)
(* cancellable or from a task this one is chained to, and which is always  *)
(* handed to the callback on the main loop.                                *)
(*                                                                         *)
(* Every access to a task holds its mutex, so a function that locks once   *)
(* is one action and ide_task_return_cb, which calls the callback without  *)
(* the mutex, is two.  What the callback does is any sequence of the       *)
(* actions of the main thread.  The sources of different tasks have        *)
(* priorities of their own and are dispatched in any order; those that     *)
(* complete one task are dispatched in the order they were attached.       *)
(***************************************************************************)
EXTENDS Naturals, Sequences

CONSTANTS
    Task,       \* the tasks that can be created
    NoTask, NoResult,
    Keeping,    \* tasks with release_on_propagate cleared
    Cancellable, \* tasks that are created with a cancellable
    Silent,     \* tasks whose thread function may end without a return
    MaxNested   \* callbacks and waits that are nested on the main thread

ASSUME TaskAssumption ==
    /\ NoTask \notin Task
    /\ Keeping \subseteq Task /\ Cancellable \subseteq Task /\ Silent \subseteq Task
    /\ MaxNested \in Nat \ {0}

\* "orphaned" is the error "parent task disposed" of ide_task_release.
Results == {"value", "error", "cancelled", "orphaned"}

ASSUME NoResultAssumption == NoResult \notin Results

VARIABLES
    task,       \* every task
    stack,      \* the callbacks and the waits the main thread is in
    asserts,    \* whether the build checks g_assert
    aborted,    \* a g_assert failed
    answers,    \* history: the results the callback of each task was given
    onto        \* history: the task each one was chained to

vars == <<task, stack, asserts, aborted, answers, onto>>

Record == [
    job: {"new", "main", "thread", "chained", "returned"},
    returnCalled: BOOLEAN, gotCancel: BOOLEAN,
    returnOnCancel: BOOLEAN, cancelHandler: BOOLEAN,
    cancelled: BOOLEAN,                 \* of the cancellable
    cancelSource: BOOLEAN,              \* a source of ide_task_cancel_cb
    worker: {"none", "queued", "running", "ended"},
    threadResult: Results \cup {NoResult},
    returnSource: BOOLEAN,              \* return_source is not 0
    sources: Seq(Results),              \* sources of ide_task_return_cb
    result: Results \cup {NoResult},
    chained: SUBSET Task,
    completed: BOOLEAN,
    held: BOOLEAN,                      \* its creator has a reference
    disposed: BOOLEAN]

Frame == [kind: {"callback", "wait"}, task: Task,
          copy: Results, chained: SUBSET Task]

TypeOK ==
    /\ task \in [Task -> Record]
    /\ stack \in Seq(Frame)
    /\ asserts \in BOOLEAN /\ aborted \in BOOLEAN
    /\ answers \in [Task -> Seq(Results)]
    /\ onto \in [Task -> Task \cup {NoTask}]

Init ==
    /\ task = [t \in Task |-> [
         job |-> "new", returnCalled |-> FALSE, gotCancel |-> FALSE,
         returnOnCancel |-> FALSE, cancelHandler |-> FALSE,
         cancelled |-> FALSE, cancelSource |-> FALSE,
         worker |-> "none", threadResult |-> NoResult,
         returnSource |-> FALSE, sources |-> <<>>, result |-> NoResult,
         chained |-> {}, completed |-> FALSE, held |-> FALSE, disposed |-> FALSE]]
    /\ stack = <<>>
    /\ asserts \in BOOLEAN
    /\ aborted = FALSE
    /\ answers = [t \in Task |-> <<>>]
    /\ onto = [t \in Task |-> NoTask]

-----------------------------------------------------------------------------
\* What happens to one task, as the record that comes out.

Complete(r, x) == [r EXCEPT !.returnSource = TRUE, !.sources = Append(@, x)]

Deliver(r, x) == Complete([r EXCEPT !.returnCalled = TRUE], x)

\* Mutant: a second result is accepted.
ReturnAgain(r, x, inMain) ==
    Complete([r EXCEPT !.cancelHandler = FALSE, !.returnCalled = TRUE,
                       !.gotCancel = (x = "cancelled")], x)

\* Mutant: a result does not wait for the end of the thread.
ReturnAtOnce(r, x, inMain) ==
    IF r.returnCalled THEN [r EXCEPT !.cancelHandler = FALSE]
    ELSE ReturnAgain(r, x, inMain)

\* The data of a result that came too late is freed on the main loop.
Return(r, x, inMain) ==
    LET free == [r EXCEPT !.cancelHandler = FALSE]
        first == [free EXCEPT !.returnCalled = TRUE,
                              !.gotCancel = (x = "cancelled")]
    IN  IF r.returnCalled THEN free
        ELSE IF \/ r.worker = "none"
                \/ inMain
                \/ r.returnOnCancel /\ x = "cancelled"
             THEN Complete(first, x)
             ELSE [first EXCEPT !.threadResult = x]

\* set_return_on_cancel: without effect if the task has no cancellable, and
\* the handler is called at once if that is cancelled already.
Watch(r) ==
    [r EXCEPT !.returnOnCancel = TRUE,
              !.cancelHandler = ~r.cancelled,
              !.cancelSource = r.cancelled]

\* A successful propagate takes the result unless the task keeps it.
Propagated(t) ==
    IF task[t].result = "value" /\ ~task[t].cancelled /\ t \notin Keeping
    THEN [task EXCEPT ![t].result = NoResult]
    ELSE task

-----------------------------------------------------------------------------
(***************************************************************************)
(* References.  A task that nothing refers to is disposed of at once: no   *)
(* other action is taken while there is one.                               *)
(***************************************************************************)
References(t) ==
    \/ task[t].held
    \/ task[t].job = "main"
    \/ task[t].sources # <<>>
    \/ task[t].cancelSource
    \/ task[t].cancelHandler
    \/ \E p \in Task : t \in task[p].chained
    \/ \E i \in DOMAIN stack : t \in {stack[i].task} \cup stack[i].chained

Referenced(t) == References(t) \/ task[t].worker \in {"queued", "running"}

Doomed(t) == task[t].job # "new" /\ ~task[t].disposed /\ ~Referenced(t)

\* The program goes on: worker threads, and the client, which runs inside a callback
\* or from other sources, those that a wait dispatches included.
Settled == ~aborted /\ \A t \in Task : ~Doomed(t)

-----------------------------------------------------------------------------
\* The main thread.

Top == stack[Len(stack)]
Pop == SubSeq(stack, 1, Len(stack) - 1)

TopIs(kind) == \A i \in DOMAIN stack : i = Len(stack) => stack[i].kind = kind

\* Sources are dispatched by the main loop and by a wait.
Dispatching == Settled /\ TopIs("wait")

-----------------------------------------------------------------------------
\* Mutant: dispose forgets the chained tasks.
DisposeQuietly(t) ==
    /\ ~aborted
    /\ Doomed(t)
    /\ task' = [task EXCEPT ![t].chained = {}, ![t].result = NoResult,
                            ![t].disposed = TRUE]
    /\ UNCHANGED <<stack, asserts, aborted, answers, onto>>

Dispose(t) ==
    /\ ~aborted
    /\ Doomed(t)
    /\ task' = [o \in Task |->
         IF o = t
         THEN [task[t] EXCEPT !.chained = {}, !.result = NoResult, !.disposed = TRUE]
         ELSE IF o \in task[t].chained THEN Return(task[o], "orphaned", TRUE)
         ELSE task[o]]
    /\ UNCHANGED <<stack, asserts, aborted, answers, onto>>

-----------------------------------------------------------------------------
\* An operation creates its task and starts the work in one go.

Created(t, watch) ==
    LET r == [task[t] EXCEPT !.held = TRUE]
    IN  IF watch THEN Watch(r) ELSE r

Watches(t) == IF t \in Cancellable THEN BOOLEAN ELSE {FALSE}

StartInMain(t) ==
    /\ Settled
    /\ task[t].job = "new"
    /\ \E watch \in Watches(t) :
         task' = [task EXCEPT ![t] = [Created(t, watch) EXCEPT !.job = "main"]]
    /\ UNCHANGED <<stack, asserts, aborted, answers, onto>>

RunInThread(t) ==
    /\ Settled
    /\ task[t].job = "new"
    /\ \E watch \in Watches(t) :
         task' = [task EXCEPT ![t] = [Created(t, watch) EXCEPT
                    !.job = "thread", !.worker = "queued"]]
    /\ UNCHANGED <<stack, asserts, aborted, answers, onto>>

\* By its contract, on a task that has not completed or that keeps its result.
Chain(p, t) ==
    /\ Settled
    /\ task[t].job = "new"
    /\ task[p].job # "new" /\ task[p].held
    /\ ~task[p].completed \/ p \in Keeping
    /\ onto' = [onto EXCEPT ![t] = p]
    /\ \E watch \in Watches(t) :
         LET r == [Created(t, watch) EXCEPT !.job = "chained"]
         IN  IF task[p].result # NoResult
             THEN task' = [task EXCEPT ![t] = Deliver(r, task[p].result)]
             ELSE task' = [task EXCEPT ![t] = r, ![p].chained = @ \cup {t}]
    /\ UNCHANGED <<stack, asserts, aborted, answers>>

Drop(t) ==
    /\ Settled
    /\ task[t].held
    /\ task' = [task EXCEPT ![t].held = FALSE]
    /\ UNCHANGED <<stack, asserts, aborted, answers, onto>>

-----------------------------------------------------------------------------
\* Results.

ReturnInMain(t, x) ==
    /\ Settled
    /\ task[t].job = "main"
    /\ task' = [task EXCEPT ![t] = [Return(task[t], x, TRUE) EXCEPT !.job = "returned"]]
    /\ UNCHANGED <<stack, asserts, aborted, answers, onto>>

ThreadBegin(t) ==
    /\ Settled
    /\ task[t].worker = "queued"
    /\ task' = [task EXCEPT ![t].worker = "running"]
    /\ UNCHANGED <<stack, asserts, aborted, answers, onto>>

ThreadReturn(t, x) ==
    /\ Settled
    /\ task[t].job = "thread"
    /\ task[t].worker = "running"
    /\ task' = [task EXCEPT ![t] = [Return(task[t], x, FALSE) EXCEPT !.job = "returned"]]
    /\ UNCHANGED <<stack, asserts, aborted, answers, onto>>

\* Mutant: the result of the thread is not handed over.
ThreadEndAlone(t) ==
    /\ Settled
    /\ task[t].worker = "running"
    /\ task[t].job = "returned" \/ t \in Silent
    /\ task' = [task EXCEPT ![t].worker = "ended", ![t].job = "returned"]
    /\ UNCHANGED <<stack, asserts, aborted, answers, onto>>

\* Mutant: a source is attached whether there is a result or not.
ThreadEndUnchecked(t) ==
    /\ Settled
    /\ task[t].worker = "running"
    /\ task[t].job = "returned" \/ t \in Silent
    /\ task' = [task EXCEPT ![t] =
         Complete([task[t] EXCEPT !.worker = "ended", !.threadResult = NoResult],
                  task[t].threadResult)]
    /\ UNCHANGED <<stack, asserts, aborted, answers, onto>>

\* The rest of ide_task_thread_func, after the function of the worker.
ThreadEnd(t) ==
    /\ Settled
    /\ task[t].worker = "running"
    /\ task[t].job = "returned" \/ t \in Silent
    /\ LET r == [task[t] EXCEPT !.worker = "ended", !.job = "returned",
                                !.threadResult = NoResult]
       IN  task' = [task EXCEPT ![t] =
             IF task[t].threadResult = NoResult THEN r
             ELSE Complete(r, task[t].threadResult)]
    /\ UNCHANGED <<stack, asserts, aborted, answers, onto>>

\* From any thread; a handler is called as part of it.
Cancel(t) ==
    /\ Settled
    /\ t \in Cancellable /\ ~task[t].cancelled
    /\ task' = [task EXCEPT ![t].cancelled = TRUE,
                            ![t].cancelSource = @ \/ task[t].cancelHandler]
    /\ UNCHANGED <<stack, asserts, aborted, answers, onto>>

CancelCb(t) ==
    /\ Dispatching
    /\ task[t].cancelSource
    /\ task' = [task EXCEPT ![t] =
         Return([task[t] EXCEPT !.cancelSource = FALSE], "cancelled", TRUE)]
    /\ UNCHANGED <<stack, asserts, aborted, answers, onto>>

-----------------------------------------------------------------------------
\* ide_task_return_cb, dispatched for the first completion source of a task.

Dispatched(t) == [task[t] EXCEPT !.returnSource = FALSE, !.sources = Tail(@)]

\* A result that was cancelled has been handled: what comes later is dropped.
Discards(t) == task[t].gotCancel /\ task[t].result # NoResult

AssertsHold(t) ==
    /\ task[t].returnSource
    /\ ~Discards(t) => task[t].result = NoResult /\ task[t].returnCalled

ReturnAbort(t) ==
    /\ Dispatching
    /\ task[t].sources # <<>>
    /\ asserts /\ ~AssertsHold(t)
    /\ aborted' = TRUE
    /\ UNCHANGED <<task, stack, asserts, answers, onto>>

ReturnDiscard(t) ==
    /\ Dispatching
    /\ task[t].sources # <<>>
    /\ asserts => AssertsHold(t)
    /\ Discards(t)
    /\ task' = [task EXCEPT ![t] = Dispatched(t)]
    /\ UNCHANGED <<stack, asserts, aborted, answers, onto>>

ReturnCb(t) ==
    /\ Dispatching
    /\ task[t].sources # <<>>
    /\ asserts => AssertsHold(t)
    /\ ~Discards(t)
    /\ LET x == Head(task[t].sources)
       IN  /\ task' = [task EXCEPT ![t] =
                [Dispatched(t) EXCEPT !.result = x, !.chained = {}]]
           /\ stack' = Append(stack, [kind |-> "callback", task |-> t,
                                      copy |-> x, chained |-> task[t].chained])
           /\ answers' = [answers EXCEPT ![t] = Append(@, x)]
    /\ UNCHANGED <<asserts, aborted, onto>>

\* The callback has returned: the chained tasks, "completed", the release.
Orphans(t) == IF t \in Keeping THEN {} ELSE task[t].chained

\* Mutant: the result is copied after the callback, which may have taken it.
ReturnCbEndLate ==
    /\ Settled
    /\ stack # <<>> /\ Top.kind = "callback"
    /\ LET copy == IF task[Top.task].result = NoResult THEN "error"
                   ELSE task[Top.task].result
       IN  task' = [o \in Task |->
             IF o = Top.task THEN [task[o] EXCEPT !.completed = TRUE]
             ELSE IF o \in Top.chained THEN Deliver(task[o], copy)
             ELSE task[o]]
    /\ stack' = Pop
    /\ UNCHANGED <<asserts, aborted, answers, onto>>

ReturnCbEnd ==
    /\ Settled
    /\ stack # <<>> /\ Top.kind = "callback"
    /\ task' = [o \in Task |->
         IF o = Top.task
         THEN [task[o] EXCEPT !.completed = TRUE, !.chained = @ \ Orphans(o)]
         ELSE IF o \in Top.chained THEN Deliver(task[o], Top.copy)
         ELSE IF o \in Orphans(Top.task) THEN Return(task[o], "orphaned", TRUE)
         ELSE task[o]]
    /\ stack' = Pop
    /\ UNCHANGED <<asserts, aborted, answers, onto>>

-----------------------------------------------------------------------------
\* ide_task_propagate_*, which waits for a result that is on its way.

Propagates(t) ==
    /\ Settled
    /\ task[t].held \/ \E i \in DOMAIN stack : i = Len(stack) /\ stack[i].task = t
    /\ ~task[t].disposed

Propagate(t) ==
    /\ Propagates(t)
    /\ task[t].result # NoResult
    /\ task' = Propagated(t)
    /\ UNCHANGED <<stack, asserts, aborted, answers, onto>>

PropagateWait(t) ==
    /\ Propagates(t)
    /\ task[t].result = NoResult /\ task[t].returnSource
    /\ Len(stack) < MaxNested
    /\ stack' = Append(stack, [kind |-> "wait", task |-> t,
                               copy |-> "error", chained |-> {}])
    /\ UNCHANGED <<task, asserts, aborted, answers, onto>>

PropagateEnd ==
    /\ Settled
    /\ stack # <<>> /\ Top.kind = "wait"
    /\ ~task[Top.task].returnSource
    /\ task' = Propagated(Top.task)
    /\ stack' = Pop
    /\ UNCHANGED <<asserts, aborted, answers, onto>>

-----------------------------------------------------------------------------
\* The main loop and what it called; it does not depend on the client.
Loop(t) == CancelCb(t) \/ ReturnAbort(t) \/ ReturnDiscard(t) \/ ReturnCb(t)

Unwind == ReturnCbEnd \/ PropagateEnd

Client(t) ==
    \/ StartInMain(t) \/ RunInThread(t) \/ Drop(t)
    \/ \E p \in Task : Chain(p, t)
    \/ \E x \in {"value", "error"} : ReturnInMain(t, x)
    \/ Propagate(t) \/ PropagateWait(t)
    \/ Cancel(t)

Worker(t) ==
    \/ ThreadBegin(t)
    \/ \E x \in {"value", "error"} : ThreadReturn(t, x)
    \/ ThreadEnd(t)

Next == Unwind \/ \E t \in Task : Loop(t) \/ Client(t) \/ Worker(t) \/ Dispose(t)

Spec == Init /\ [][Next]_vars

(***************************************************************************)
(* The main loop dispatches what is attached to it and a callback returns. *)
(* Nothing is assumed of a worker thread, or of whoever returns a result.  *)
(***************************************************************************)
Fairness ==
    /\ WF_vars(Unwind)
    /\ \A t \in Task : WF_vars(Loop(t)) /\ WF_vars(Dispose(t))

LiveSpec == Spec /\ Fairness

-----------------------------------------------------------------------------
\* The callback is called once, whoever else returns a result for the task.
CalledOnce == \A t \in Task : Len(answers[t]) <= 1

\* A result that was accepted reaches the callback: until it does, it is with
\* a source of the main loop or with the worker that will attach one.
NothingLost ==
    \A t \in Task : task[t].returnCalled /\ answers[t] = <<>> =>
        \/ task[t].sources # <<>>
        \/ task[t].threadResult # NoResult /\ task[t].worker \in {"queued", "running"}

\* The callback gets the result of a worker after its thread function has
\* ended, so that no object of the task can be finalized in the thread.
OffTheThread ==
    \A t \in Task : \A i \in DOMAIN answers[t] :
        answers[t][i] \in {"value", "error"} => task[t].worker \in {"none", "ended"}

\* A chained task gets what the other one got, unless it was cancelled itself
\* or the other one was released.
SameAnswer ==
    \A t \in Task : onto[t] # NoTask /\ answers[t] # <<>> =>
        answers[t][1] \in {"cancelled", "orphaned"} \cup {answers[onto[t]][i] : i \in DOMAIN answers[onto[t]]}

\* The assertions of ide_task_return_cb fail only for a chained task that is
\* set to return on cancel.
AbortsOnlyChained ==
    aborted => \E t \in Task : onto[t] # NoTask /\ task[t].returnOnCancel

\* A task is answered.
Answered(t) == answers[t] # <<>> \/ aborted

\* Every task is answered: once its result was returned and its thread has
\* ended; when it is set to return on cancel and the cancellable is cancelled,
\* whether its thread ends or not, unless that had returned a result before;
\* and when it is chained to one that is answered, or is gone.
EveryTaskAnswered ==
    \A t \in Task :
        /\ task[t].returnCalled /\ task[t].worker \in {"none", "ended"} ~> Answered(t)
        /\ task[t].cancelled /\ task[t].returnOnCancel
              ~> Answered(t) \/ task[t].threadResult \in {"value", "error"}
        /\ \A p \in Task :
              onto[t] = p /\ (answers[p] # <<>> \/ task[p].disposed) ~> Answered(t)

-----------------------------------------------------------------------------
\* How a task looks to the operation that waits for it.
Place(t) ==
    IF task[t].job = "new" THEN "new"
    ELSE IF answers[t] # <<>> THEN (IF task[t].completed THEN "complete" ELSE "called")
    ELSE IF task[t].returnCalled THEN "settled"
    ELSE IF task[t].disposed THEN "gone"
    ELSE IF \E p \in Task : onto[t] = p /\ answers[p] # <<>> /\ t \in task[p].chained THEN "late"
    ELSE "pending"

Value(t) ==
    IF answers[t] # <<>> THEN Head(answers[t])
    ELSE IF task[t].sources # <<>> THEN Head(task[t].sources)
    ELSE task[t].threadResult

Future == INSTANCE Promise WITH
    Promises <- Task, NoPromise <- NoTask,
    place <- [t \in Task |-> Place(t)], value <- [t \in Task |-> Value(t)],
    follows <- onto, revoked <- {t \in Task : task[t].cancelled}

\* Whatever returns a result, in whatever order the sources are dispatched and
\* the references dropped, the callback gets the first one, and a task that was
\* chained in time gets what the other one got, unless it was cancelled itself.
KeepsItsPromise == Future!Spec

=============================================================================

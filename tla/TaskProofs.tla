----------------------------- MODULE TaskProofs -----------------------------
(***************************************************************************)
(* Theorems about IdeTask, for any number of tasks, chains of any length   *)
(* and callbacks nested to any depth.                                      *)
(*                                                                         *)
(* The inductive invariant says where the result of a task is.  Sound is   *)
(* its part about one task: the record, the answers, what it is chained    *)
(* to, whether it still waits for that one and whether it is in its        *)
(* callback.  StackInv and ChainInv relate the tasks to each other.        *)
(***************************************************************************)
EXTENDS Task, SequenceTheorems, TLAPS

Waiting(t) == \/ \E p \in Task : t \in task[p].chained
              \/ \E i \in DOMAIN stack : t \in stack[i].chained

InCallback(t) == \E i \in DOMAIN stack : stack[i].kind = "callback" /\ stack[i].task = t

\* What was given to the callback of t.
Given(t) == {answers[t][i] : i \in DOMAIN answers[t]}

-----------------------------------------------------------------------------
\* Where the result is: nowhere, with a source or with the callback; or, after
\* a cancellation, with a source for the second time.
Placed(r, a, o, w) ==
    \/ r.sources = <<>> /\ a = <<>>
    \/ \E x \in Results : r.sources = <<x>> /\ a = <<>> /\ r.returnSource
    \/ \E x \in Results : r.sources = <<>> /\ a = <<x>>
    \/ /\ r.gotCancel /\ o # NoTask /\ ~w
       /\ \/ \E x \in Results : r.sources = <<"cancelled", x>> /\ a = <<>> /\ r.returnSource
          \/ \E x \in Results : r.sources = <<x>> /\ a = <<"cancelled">> /\ r.result = "cancelled"

\* A result is somewhere as soon as it was returned, and not before.
Kept(r, a) ==
    /\ r.returnSource => r.sources # <<>>
    /\ ~r.returnCalled => /\ r.sources = <<>> /\ a = <<>> /\ r.threadResult = NoResult
                          /\ ~r.gotCancel
    /\ r.returnCalled => r.sources # <<>> \/ a # <<>> \/ r.threadResult # NoResult
    /\ r.threadResult # NoResult => /\ r.worker = "running" /\ ~r.gotCancel
                                    /\ r.sources = <<>> /\ a = <<>>
    /\ a = <<>> => r.result = NoResult

\* A task that waits for another one has been cancelled or not returned.
Waits(r, a, w) ==
    w => /\ r.job = "chained"
         /\ r.returnCalled =>
              /\ r.gotCancel
              /\ \/ r.sources = <<"cancelled">> /\ a = <<>>
                 \/ r.sources = <<>> /\ a = <<"cancelled">> /\ r.result = "cancelled"

\* Who is to return the result.
Jobs(r, o, w) ==
    /\ r.job = "new" => /\ ~r.returnCalled /\ ~r.held /\ r.chained = {} /\ ~r.returnOnCancel
                        /\ ~r.completed /\ ~r.disposed
    /\ r.job \in {"new", "main", "chained"} => r.worker = "none"
    /\ r.job = "thread" => r.worker \in {"queued", "running"}
    /\ r.job = "returned" => r.returnCalled \/ r.worker = "ended"
    /\ r.job = "chained" => o # NoTask /\ (w \/ r.returnCalled)
    /\ o # NoTask => r.job = "chained"
    /\ r.cancelHandler \/ r.cancelSource \/ r.gotCancel => r.returnOnCancel

\* While the worker is there only a cancellation gets to the callback.
Behind(r, a) ==
    r.worker \in {"queued", "running"} =>
        r.sources \in {<<>>, <<"cancelled">>} /\ a \in {<<>>, <<"cancelled">>}

\* A callback that was called has ended or is under way; what is gone is gone.
Ends(r, a, w, c) ==
    /\ a # <<>> => r.completed \/ c
    /\ r.disposed => /\ r.chained = {} /\ r.sources = <<>> /\ r.threadResult = NoResult
                     /\ ~r.held /\ ~r.cancelSource /\ ~r.cancelHandler
                     /\ r.job # "main" /\ r.worker \notin {"queued", "running"}
                     /\ ~w /\ ~c
                     /\ r.completed \/ (~r.returnCalled /\ r.worker = "ended")

Sound(r, a, o, w, c) ==
    /\ Placed(r, a, o, w) /\ Kept(r, a) /\ Waits(r, a, w)
    /\ Jobs(r, o, w) /\ Behind(r, a) /\ Ends(r, a, w, c)

SoundInv == \A t \in Task : Sound(task[t], answers[t], onto[t], Waiting(t), InCallback(t))

-----------------------------------------------------------------------------
\* A task waits in one place, with the task it was chained to.
ChainInv ==
    /\ \A p, t \in Task : t \in task[p].chained => onto[t] = p
    /\ \A i \in DOMAIN stack : \A t \in stack[i].chained : onto[t] = stack[i].task
    /\ \A i \in DOMAIN stack : \A p \in Task : \A t \in stack[i].chained : t \notin task[p].chained
    /\ \A i, j \in DOMAIN stack : i # j => stack[i].chained \cap stack[j].chained = {}
    /\ \A t \in Task : onto[t] # t

\* What a chained task gets is what the other one got.
AnswerInv ==
    /\ \A t \in Task : task[t].result # NoResult => task[t].result \in Given(t)
    /\ \A i \in DOMAIN stack : stack[i].kind = "callback" => stack[i].copy \in Given(stack[i].task)
    /\ \A t \in Task : onto[t] # NoTask =>
         /\ \A i \in DOMAIN task[t].sources :
              task[t].sources[i] \in {"cancelled", "orphaned"} \cup Given(onto[t])
         /\ Given(t) \subseteq {"cancelled", "orphaned"} \cup Given(onto[t])

\* A task in the stack is not gone, and only a callback holds chained tasks.
StackInv ==
    \A i \in DOMAIN stack :
        /\ ~task[stack[i].task].disposed
        /\ stack[i].kind = "wait" => stack[i].chained = {}

IInv == TypeOK /\ SoundInv /\ ChainInv /\ AnswerInv /\ StackInv /\ AbortsOnlyChained

-----------------------------------------------------------------------------
USE TaskAssumption, NoResultAssumption

LEMMA SoundSame ==
    ASSUME NEW r, NEW a, NEW o, NEW w \in BOOLEAN, NEW w2 \in BOOLEAN,
           NEW c \in BOOLEAN, NEW c2 \in BOOLEAN,
           w2 <=> w, c2 <=> c, Sound(r, a, o, w, c)
    PROVE  Sound(r, a, o, w2, c2)
  BY DEF Sound, Placed, Kept, Waits, Jobs, Ends

LEMMA FrameType ==
    ASSUME TypeOK
    PROVE  \A i \in DOMAIN stack : /\ stack[i] \in Frame
                                   /\ stack[i].task \in Task
                                   /\ stack[i].copy \in Results
                                   /\ stack[i].chained \in SUBSET Task
<1>1. \A i \in DOMAIN stack : stack[i] \in Frame
  BY DEF TypeOK
<1> QED BY <1>1 DEF Frame

\* The sources and the answers are short sequences.
LEMMA Short ==
    ASSUME NEW x \in Results, NEW y \in Results
    PROVE  /\ Append(<<>>, x) = <<x>> /\ Append(<<x>>, y) = <<x, y>>
           /\ Tail(<<x>>) = <<>> /\ Tail(<<x, y>>) = <<y>>
           /\ Head(<<x>>) = x /\ Head(<<x, y>>) = x
           /\ <<x>> # <<>> /\ <<x, y>> # <<>>
           /\ (<<x>> = <<y>> => x = y)
           /\ <<x>> \in Seq(Results) /\ <<x, y>> \in Seq(Results)
<1>1. Append(<<>>, x) = <<x>>
  OBVIOUS
<1>2. Append(<<x>>, y) = <<x, y>>
  <2>1. <<x>> \in Seq(Results) /\ <<x, y>> \in Seq(Results) /\ Append(<<x>>, y) \in Seq(Results)
    OBVIOUS
  <2>2. Len(Append(<<x>>, y)) = Len(<<x, y>>)
    OBVIOUS
  <2>3. \A i \in 1..Len(<<x, y>>) : Append(<<x>>, y)[i] = <<x, y>>[i]
    OBVIOUS
  <2> QED BY <2>1, <2>2, <2>3, SeqEqual
<1>3. Tail(<<x>>) = <<>>
  OBVIOUS
<1>4. Tail(<<x, y>>) = <<y>>
  OBVIOUS
<1>5. Head(<<x>>) = x /\ Head(<<x, y>>) = x
  OBVIOUS
<1>6. <<x>> # <<>> /\ <<x, y>> # <<>>
  OBVIOUS
<1>7. <<x>> = <<y>> => x = y
  OBVIOUS
<1>8. <<x>> \in Seq(Results) /\ <<x, y>> \in Seq(Results)
  OBVIOUS
<1> QED BY <1>1, <1>2, <1>3, <1>4, <1>5, <1>6, <1>7, <1>8

LEMMA CompleteEffect ==
    ASSUME NEW r \in Record, NEW x \in Results
    PROVE  LET s == Complete(r, x)
           IN  /\ s \in Record
               /\ s.job = r.job /\ s.returnCalled = r.returnCalled /\ s.gotCancel = r.gotCancel
               /\ s.returnOnCancel = r.returnOnCancel /\ s.cancelHandler = r.cancelHandler
               /\ s.cancelled = r.cancelled /\ s.cancelSource = r.cancelSource
               /\ s.worker = r.worker /\ s.threadResult = r.threadResult
               /\ s.returnSource = TRUE /\ s.sources = Append(r.sources, x)
               /\ s.result = r.result /\ s.chained = r.chained /\ s.completed = r.completed
               /\ s.held = r.held /\ s.disposed = r.disposed
<1>1. r.sources \in Seq(Results) /\ Append(r.sources, x) \in Seq(Results)
  BY DEF Record
<1> DEFINE more == Append(r.sources, x)
<1>2. Complete(r, x) = [r EXCEPT !.returnSource = TRUE, !.sources = more]
  BY DEF Complete
<1>3. more \in Seq(Results)
  BY <1>1
<1> HIDE DEF more
<1>4. Complete(r, x) \in Record
  BY <1>2, <1>3 DEF Record
<1>5. LET s == Complete(r, x)
      IN  /\ s.job = r.job /\ s.returnCalled = r.returnCalled /\ s.gotCancel = r.gotCancel
          /\ s.returnOnCancel = r.returnOnCancel /\ s.cancelHandler = r.cancelHandler
          /\ s.cancelled = r.cancelled /\ s.cancelSource = r.cancelSource
          /\ s.worker = r.worker /\ s.threadResult = r.threadResult
  BY <1>2 DEF Record
<1>6. LET s == Complete(r, x)
      IN  /\ s.returnSource = TRUE /\ s.sources = more
          /\ s.result = r.result /\ s.chained = r.chained /\ s.completed = r.completed
          /\ s.held = r.held /\ s.disposed = r.disposed
  BY <1>2 DEF Record
<1> QED BY <1>4, <1>5, <1>6 DEF more

LEMMA ReturnEffect ==
    ASSUME NEW r \in Record, NEW x \in Results, NEW m \in BOOLEAN
    PROVE  LET s == Return(r, x, m)
           IN  /\ s \in Record
               /\ s.job = r.job /\ s.returnOnCancel = r.returnOnCancel
               /\ s.cancelled = r.cancelled /\ s.cancelSource = r.cancelSource
               /\ s.worker = r.worker /\ s.result = r.result /\ s.chained = r.chained
               /\ s.completed = r.completed /\ s.held = r.held /\ s.disposed = r.disposed
               /\ s.returnCalled /\ ~s.cancelHandler
               /\ r.returnCalled => /\ s.gotCancel = r.gotCancel /\ s.threadResult = r.threadResult
                                    /\ s.returnSource = r.returnSource /\ s.sources = r.sources
               /\ ~r.returnCalled =>
                    /\ s.gotCancel <=> (x = "cancelled")
                    /\ \/ /\ r.worker = "none" \/ m \/ (r.returnOnCancel /\ x = "cancelled")
                          /\ s.returnSource /\ s.sources = Append(r.sources, x)
                          /\ s.threadResult = r.threadResult
                       \/ /\ ~(r.worker = "none" \/ m \/ (r.returnOnCancel /\ x = "cancelled"))
                          /\ s.returnSource = r.returnSource /\ s.sources = r.sources
                          /\ s.threadResult = x
<1> DEFINE free == [r EXCEPT !.cancelHandler = FALSE]
           first == [free EXCEPT !.returnCalled = TRUE, !.gotCancel = (x = "cancelled")]
<1>1. free \in Record
  BY DEF Record
<1>2. first \in Record
  BY <1>1, ZenonT(60) DEF Record
<1>3. [first EXCEPT !.threadResult = x] \in Record
  <2> HIDE DEF first
  <2> QED BY <1>2 DEF Record
<1>4. /\ first.job = r.job /\ first.returnOnCancel = r.returnOnCancel
      /\ first.cancelled = r.cancelled /\ first.cancelSource = r.cancelSource
      /\ first.worker = r.worker /\ first.result = r.result /\ first.chained = r.chained
      /\ first.completed = r.completed /\ first.held = r.held /\ first.disposed = r.disposed
  BY DEF Record
<1>5. /\ first.returnCalled /\ ~first.cancelHandler
      /\ first.returnSource = r.returnSource /\ first.sources = r.sources
      /\ first.threadResult = r.threadResult
  BY DEF Record
<1>6. first.gotCancel = (x = "cancelled")
  BY DEF Record
<1>7. CASE r.returnCalled
  BY <1>1, <1>7 DEF Return, Record
<1>8. CASE ~r.returnCalled /\ (r.worker = "none" \/ m \/ (r.returnOnCancel /\ x = "cancelled"))
  <2>1. Return(r, x, m) = Complete(first, x)
    BY <1>8 DEF Return
  <2> HIDE DEF first
  <2> DEFINE s == Complete(first, x)
  <2>2. /\ s \in Record
        /\ s.job = first.job /\ s.returnOnCancel = first.returnOnCancel
        /\ s.cancelled = first.cancelled /\ s.cancelSource = first.cancelSource
        /\ s.worker = first.worker /\ s.result = first.result /\ s.chained = first.chained
        /\ s.completed = first.completed /\ s.held = first.held /\ s.disposed = first.disposed
    BY <1>2, CompleteEffect, ZenonT(60)
  <2>3. /\ s.returnCalled = first.returnCalled /\ s.cancelHandler = first.cancelHandler
        /\ s.returnSource = TRUE /\ s.sources = Append(first.sources, x)
        /\ s.threadResult = first.threadResult /\ s.gotCancel = first.gotCancel
    BY <1>2, CompleteEffect
  <2> HIDE DEF s
  <2>4. Return(r, x, m) = s
    BY <2>1 DEF s
  <2> QED BY <1>4, <1>5, <1>6, <1>8, <2>2, <2>3, <2>4, ZenonT(60)
<1>9. CASE ~r.returnCalled /\ ~(r.worker = "none" \/ m \/ (r.returnOnCancel /\ x = "cancelled"))
  <2> DEFINE stash == [first EXCEPT !.threadResult = x]
  <2>1. Return(r, x, m) = stash
    BY <1>9 DEF Return
  <2> HIDE DEF first
  <2>2. /\ stash.job = first.job /\ stash.returnOnCancel = first.returnOnCancel
        /\ stash.cancelled = first.cancelled /\ stash.cancelSource = first.cancelSource
        /\ stash.worker = first.worker /\ stash.result = first.result /\ stash.chained = first.chained
        /\ stash.completed = first.completed /\ stash.held = first.held /\ stash.disposed = first.disposed
    BY <1>2 DEF Record
  <2>3. /\ stash.returnCalled = first.returnCalled /\ stash.cancelHandler = first.cancelHandler
        /\ stash.returnSource = first.returnSource /\ stash.sources = first.sources
        /\ stash.threadResult = x /\ stash.gotCancel = first.gotCancel
    BY <1>2 DEF Record
  <2> HIDE DEF stash
  <2>4. stash \in Record
    BY <1>3 DEF stash
  <2> QED BY <1>4, <1>5, <1>6, <1>9, <2>1, <2>2, <2>3, <2>4
<1> QED BY <1>7, <1>8, <1>9

\* The parts of it.
LEMMA ReturnFields ==
    ASSUME NEW r \in Record, NEW x \in Results, NEW m \in BOOLEAN
    PROVE  LET s == Return(r, x, m)
           IN  /\ s \in Record
               /\ s.job = r.job /\ s.returnOnCancel = r.returnOnCancel
               /\ s.cancelled = r.cancelled /\ s.cancelSource = r.cancelSource
               /\ s.worker = r.worker /\ s.result = r.result /\ s.chained = r.chained
               /\ s.completed = r.completed /\ s.held = r.held /\ s.disposed = r.disposed
               /\ s.returnCalled /\ ~s.cancelHandler
  BY ReturnEffect

LEMMA ReturnLate ==
    ASSUME NEW r \in Record, NEW x \in Results, NEW m \in BOOLEAN, r.returnCalled
    PROVE  LET s == Return(r, x, m)
           IN  /\ s.gotCancel = r.gotCancel /\ s.threadResult = r.threadResult
               /\ s.returnSource = r.returnSource /\ s.sources = r.sources
  BY ReturnEffect

LEMMA ReturnInTime ==
    ASSUME NEW r \in Record, NEW x \in Results, ~r.returnCalled
    PROVE  LET s == Return(r, x, TRUE)
           IN  /\ s.gotCancel <=> (x = "cancelled")
               /\ s.returnSource /\ s.sources = Append(r.sources, x)
               /\ s.threadResult = r.threadResult
  BY ReturnEffect, ZenonT(60)

\* Nothing comes to the stack or leaves it but waits.
OnlyWaits ==
    /\ \A i \in DOMAIN stack' :
         \/ i \in DOMAIN stack /\ stack'[i] = stack[i]
         \/ /\ stack'[i].kind = "wait" /\ stack'[i].chained = {}
            /\ ~task[stack'[i].task].disposed
    /\ \A i \in DOMAIN stack :
         \/ i \in DOMAIN stack' /\ stack'[i] = stack[i]
         \/ stack[i].kind = "wait"

LEMMA OneMovesAndWaits ==
    ASSUME IInv, ~aborted, NEW t \in Task, NEW new \in Record,
           task' = [task EXCEPT ![t] = new],
           UNCHANGED <<asserts, aborted, answers, onto>>,
           stack' \in Seq(Frame), OnlyWaits,
           new.chained = task[t].chained, new.disposed = task[t].disposed,
           new.result \in {NoResult, task[t].result},
           Sound(new, answers[t], onto[t], Waiting(t), InCallback(t)),
           onto[t] # NoTask =>
             \A i \in DOMAIN new.sources :
               new.sources[i] \in {"cancelled", "orphaned"} \cup Given(onto[t])
    PROVE  IInv'
<1>1. task \in [Task -> Record] /\ task' \in [Task -> Record]
  BY DEF IInv, TypeOK
<1>2. TypeOK'
  BY <1>1 DEF IInv, TypeOK
<1>3. /\ task'[t] = new
      /\ \A o \in Task \ {t} : task'[o] = task[o]
  BY <1>1
<1>4. \A o \in Task : /\ task'[o].chained = task[o].chained
                      /\ task'[o].disposed = task[o].disposed
                      /\ task'[o].result \in {NoResult, task[o].result}
  BY <1>3
<1>5. \A i \in DOMAIN stack : stack[i].kind = "wait" => stack[i].chained = {}
  BY DEF IInv, StackInv
<1>6. \A i \in DOMAIN stack' :
        \/ i \in DOMAIN stack /\ stack'[i] = stack[i]
        \/ stack'[i].kind = "wait" /\ stack'[i].chained = {}
  BY DEF OnlyWaits
<1>7. \A o \in Task : (Waiting(o)' <=> Waiting(o)) /\ (InCallback(o)' <=> InCallback(o))
  <2>1. SUFFICES ASSUME NEW o \in Task
                 PROVE  (Waiting(o)' <=> Waiting(o)) /\ (InCallback(o)' <=> InCallback(o))
    OBVIOUS
  <2>2. (\E p \in Task : o \in task'[p].chained) <=> (\E p \in Task : o \in task[p].chained)
    BY <1>4
  <2>3. (\E i \in DOMAIN stack' : o \in stack'[i].chained) <=> (\E i \in DOMAIN stack : o \in stack[i].chained)
    BY <1>5, <1>6 DEF OnlyWaits
  <2>4. InCallback(o)' <=> InCallback(o)
    BY DEF OnlyWaits, InCallback
  <2> QED BY <2>2, <2>3, <2>4 DEF Waiting
<1>8. \A o \in Task : Sound(task'[o], answers[o], onto[o], Waiting(o), InCallback(o))
  BY <1>3 DEF IInv, SoundInv
<1>9. SoundInv'
  <2> SUFFICES ASSUME NEW o \in Task
               PROVE  Sound(task'[o], answers'[o], onto'[o], Waiting(o)', InCallback(o)')
    BY DEF SoundInv
  <2>1. Sound(task'[o], answers[o], onto[o], Waiting(o), InCallback(o))
    BY <1>8
  <2>2. Waiting(o) \in BOOLEAN /\ Waiting(o)' \in BOOLEAN /\ InCallback(o) \in BOOLEAN /\ InCallback(o)' \in BOOLEAN
    BY DEF Waiting, InCallback
  <2>3. (Waiting(o)' <=> Waiting(o)) /\ (InCallback(o)' <=> InCallback(o))
    BY <1>7
  <2>4. Sound(task'[o], answers[o], onto[o], Waiting(o)', InCallback(o)')
    BY <2>1, <2>2, <2>3, SoundSame
  <2> QED BY <2>4
<1>10. ChainInv'
  <2>1. \A i \in DOMAIN stack' : stack'[i].chained # {} => i \in DOMAIN stack /\ stack'[i] = stack[i]
    BY <1>6
  <2>2. /\ \A p, o \in Task : o \in task'[p].chained => onto[o] = p
        /\ \A o \in Task : onto[o] # o
    BY <1>4 DEF IInv, ChainInv
  <2>3. /\ \A i \in DOMAIN stack' : \A o \in stack'[i].chained : onto[o] = stack'[i].task
        /\ \A i \in DOMAIN stack' : \A p \in Task : \A o \in stack'[i].chained : o \notin task'[p].chained
    BY <1>4, <2>1 DEF IInv, ChainInv
  <2>4. \A i, j \in DOMAIN stack' : i # j => stack'[i].chained \cap stack'[j].chained = {}
    BY <2>1 DEF IInv, ChainInv
  <2> QED BY <2>2, <2>3, <2>4 DEF ChainInv
<1>11. AnswerInv'
  <2>1. \A o \in Task : Given(o)' = Given(o)
    BY DEF Given
  <2>2. \A o \in Task : task'[o].result # NoResult => task'[o].result \in Given(o)
    BY <1>4 DEF IInv, AnswerInv
  <2>3. \A i \in DOMAIN stack' : stack'[i].kind = "callback" =>
          /\ stack'[i].copy \in Given(stack'[i].task)
          /\ stack'[i].task \in Task
    <3>1. \A i \in DOMAIN stack' : stack'[i].kind = "callback" => i \in DOMAIN stack /\ stack'[i] = stack[i]
      BY <1>6
    <3>2. \A i \in DOMAIN stack : stack[i].task \in Task
      BY FrameType DEF IInv
    <3> QED BY <3>1, <3>2 DEF IInv, AnswerInv
  <2>4. \A o \in Task : onto[o] # NoTask =>
          \A i \in DOMAIN task'[o].sources :
             task'[o].sources[i] \in {"cancelled", "orphaned"} \cup Given(onto[o])
    BY <1>3 DEF IInv, AnswerInv
  <2>5. \A o \in Task : onto[o] # NoTask => onto[o] \in Task
    BY DEF IInv, TypeOK
  <2>6. \A o \in Task : onto[o] # NoTask =>
          Given(o) \subseteq {"cancelled", "orphaned"} \cup Given(onto[o])
    BY DEF IInv, AnswerInv
  <2> QED BY <2>1, <2>2, <2>3, <2>4, <2>5, <2>6 DEF AnswerInv
<1>12. StackInv'
  <2>1. \A i \in DOMAIN stack' : stack'[i].task \in Task
    <3>1. \A i \in DOMAIN stack' : stack'[i] \in Frame
      OBVIOUS
    <3> QED BY <3>1 DEF Frame
  <2>2. \A i \in DOMAIN stack' : ~task[stack'[i].task].disposed
    BY DEF OnlyWaits, IInv, StackInv
  <2>3. \A i \in DOMAIN stack' : stack'[i].kind = "wait" => stack'[i].chained = {}
    BY <1>5, <1>6
  <2> QED BY <1>4, <2>1, <2>2, <2>3 DEF StackInv
<1>13. AbortsOnlyChained'
  BY DEF AbortsOnlyChained
<1> QED BY <1>2, <1>9, <1>10, <1>11, <1>12, <1>13 DEF IInv

LEMMA OneMoves ==
    ASSUME IInv, ~aborted, NEW t \in Task, NEW new \in Record,
           task' = [task EXCEPT ![t] = new],
           UNCHANGED <<stack, asserts, aborted, answers, onto>>,
           new.chained = task[t].chained, new.disposed = task[t].disposed,
           new.result \in {NoResult, task[t].result},
           Sound(new, answers[t], onto[t], Waiting(t), InCallback(t)),
           onto[t] # NoTask =>
             \A i \in DOMAIN new.sources :
               new.sources[i] \in {"cancelled", "orphaned"} \cup Given(onto[t])
    PROVE  IInv'
<1>1. stack' \in Seq(Frame)
  BY DEF IInv, TypeOK
<1>2. OnlyWaits
  BY DEF OnlyWaits
<1> QED BY <1>1, <1>2, OneMovesAndWaits

-----------------------------------------------------------------------------
\* Steps that move one task.

LEMMA DropInv ==
    ASSUME IInv, NEW t \in Task, Drop(t)
    PROVE  IInv'
<1> DEFINE r == task[t]
           new == [r EXCEPT !.held = FALSE]
<1>1. r \in Record
  BY DEF IInv, TypeOK
<1>2. Sound(r, answers[t], onto[t], Waiting(t), InCallback(t))
  BY DEF IInv, SoundInv
<1>3. /\ task' = [task EXCEPT ![t] = new] /\ ~aborted
      /\ UNCHANGED <<stack, asserts, aborted, answers, onto>>
  BY DEF Drop, Settled
<1>4. r.job # "new"
  BY <1>2 DEF Drop, Sound, Jobs
<1> HIDE DEF r
<1>5. new \in Record
  BY <1>1 DEF Record
<1>6. /\ new.job = r.job /\ new.returnCalled = r.returnCalled /\ new.gotCancel = r.gotCancel
      /\ new.returnOnCancel = r.returnOnCancel /\ new.cancelHandler = r.cancelHandler
      /\ new.cancelled = r.cancelled /\ new.cancelSource = r.cancelSource
      /\ new.worker = r.worker /\ new.threadResult = r.threadResult
  BY <1>1 DEF Record
<1>7. /\ new.returnSource = r.returnSource /\ new.sources = r.sources
      /\ new.result = r.result /\ new.chained = r.chained /\ new.completed = r.completed
      /\ new.held = FALSE /\ new.disposed = r.disposed
  BY <1>1 DEF Record
<1> HIDE DEF new
<1>8. Sound(new, answers[t], onto[t], Waiting(t), InCallback(t))
  BY <1>2, <1>4, <1>6, <1>7 DEF Sound, Placed, Kept, Waits, Jobs, Behind, Ends
<1>9. onto[t] # NoTask =>
         \A i \in DOMAIN new.sources :
            new.sources[i] \in {"cancelled", "orphaned"} \cup Given(onto[t])
  BY <1>7 DEF IInv, AnswerInv, r
<1> QED BY <1>3, <1>5, <1>7, <1>8, <1>9, OneMoves DEF r

LEMMA ThreadBeginInv ==
    ASSUME IInv, NEW t \in Task, ThreadBegin(t)
    PROVE  IInv'
<1> DEFINE r == task[t]
           new == [r EXCEPT !.worker = "running"]
<1>1. r \in Record
  BY DEF IInv, TypeOK
<1>2. Sound(r, answers[t], onto[t], Waiting(t), InCallback(t))
  BY DEF IInv, SoundInv
<1>3. /\ task' = [task EXCEPT ![t] = new] /\ ~aborted
      /\ UNCHANGED <<stack, asserts, aborted, answers, onto>>
  BY DEF ThreadBegin, Settled
<1>4. r.worker = "queued"
  BY <1>2 DEF ThreadBegin
<1> HIDE DEF r
<1>5. new \in Record
  BY <1>1 DEF Record
<1>6. /\ new.job = r.job /\ new.returnCalled = r.returnCalled
      /\ new.gotCancel = r.gotCancel /\ new.returnOnCancel = r.returnOnCancel
      /\ new.cancelHandler = r.cancelHandler /\ new.cancelled = r.cancelled
      /\ new.cancelSource = r.cancelSource /\ new.worker = "running"
      /\ new.threadResult = r.threadResult
  BY <1>1 DEF Record
<1>7. /\ new.returnSource = r.returnSource /\ new.sources = r.sources
      /\ new.result = r.result /\ new.chained = r.chained
      /\ new.completed = r.completed /\ new.held = r.held
      /\ new.disposed = r.disposed
  BY <1>1 DEF Record
<1> HIDE DEF new
<1>8. Sound(new, answers[t], onto[t], Waiting(t), InCallback(t))
  BY <1>2, <1>4, <1>6, <1>7 DEF Sound, Placed, Kept, Waits, Jobs, Behind, Ends
<1>9. onto[t] # NoTask =>
         \A i \in DOMAIN new.sources :
            new.sources[i] \in {"cancelled", "orphaned"} \cup Given(onto[t])
  BY <1>7 DEF IInv, AnswerInv, r
<1> QED BY <1>3, <1>5, <1>7, <1>8, <1>9, OneMoves DEF r

LEMMA CancelInv ==
    ASSUME IInv, NEW t \in Task, Cancel(t)
    PROVE  IInv'
<1> DEFINE r == task[t]
           new == [r EXCEPT !.cancelled = TRUE, !.cancelSource = @ \/ r.cancelHandler]
<1>1. r \in Record
  BY DEF IInv, TypeOK
<1>2. Sound(r, answers[t], onto[t], Waiting(t), InCallback(t))
  BY DEF IInv, SoundInv
<1>3. /\ task' = [task EXCEPT ![t] = new] /\ ~aborted
      /\ UNCHANGED <<stack, asserts, aborted, answers, onto>>
  BY DEF Cancel, Settled
<1> HIDE DEF r
<1>4. new \in Record
  BY <1>1, ZenonT(60) DEF Record
<1>5. /\ new.job = r.job /\ new.returnCalled = r.returnCalled
      /\ new.gotCancel = r.gotCancel /\ new.returnOnCancel = r.returnOnCancel
      /\ new.cancelHandler = r.cancelHandler /\ new.cancelled = TRUE
      /\ new.cancelSource = (r.cancelSource \/ r.cancelHandler)
      /\ new.worker = r.worker /\ new.threadResult = r.threadResult
  BY <1>1 DEF Record
<1>6. /\ new.returnSource = r.returnSource /\ new.sources = r.sources
      /\ new.result = r.result /\ new.chained = r.chained
      /\ new.completed = r.completed /\ new.held = r.held
      /\ new.disposed = r.disposed
  BY <1>1 DEF Record
<1> HIDE DEF new
<1>7. Sound(new, answers[t], onto[t], Waiting(t), InCallback(t))
  BY <1>2, <1>5, <1>6, ZenonT(60) DEF Sound, Placed, Kept, Waits, Jobs, Behind, Ends
<1>8. onto[t] # NoTask =>
         \A i \in DOMAIN new.sources :
            new.sources[i] \in {"cancelled", "orphaned"} \cup Given(onto[t])
  BY <1>6 DEF IInv, AnswerInv, r
<1> QED BY <1>3, <1>4, <1>6, <1>7, <1>8, OneMoves DEF r

LEMMA CreatedEffect ==
    ASSUME NEW t \in Task, NEW watch \in BOOLEAN, task[t] \in Record,
           task[t].cancelHandler \/ task[t].cancelSource => task[t].returnOnCancel
    PROVE  LET s == Created(t, watch)
           IN  /\ s \in Record
               /\ s.cancelHandler \/ s.cancelSource => s.returnOnCancel
               /\ s.job = task[t].job /\ s.returnCalled = task[t].returnCalled
               /\ s.gotCancel = task[t].gotCancel /\ s.worker = task[t].worker
               /\ s.threadResult = task[t].threadResult /\ s.returnSource = task[t].returnSource
               /\ s.sources = task[t].sources /\ s.result = task[t].result
               /\ s.chained = task[t].chained /\ s.completed = task[t].completed
               /\ s.held /\ s.disposed = task[t].disposed
<1> DEFINE r == task[t]
           h == [r EXCEPT !.held = TRUE]
<1>1. h \in Record
  BY DEF Record
<1>2. /\ h.job = r.job /\ h.returnCalled = r.returnCalled
      /\ h.gotCancel = r.gotCancel /\ h.returnOnCancel = r.returnOnCancel
      /\ h.cancelHandler = r.cancelHandler /\ h.cancelled = r.cancelled
      /\ h.cancelSource = r.cancelSource /\ h.worker = r.worker
      /\ h.threadResult = r.threadResult
  BY DEF Record
<1>3. /\ h.returnSource = r.returnSource /\ h.sources = r.sources
      /\ h.result = r.result /\ h.chained = r.chained /\ h.completed = r.completed
      /\ h.held = TRUE /\ h.disposed = r.disposed
  BY DEF Record
<1>4. CASE ~watch
  <2>1. Created(t, watch) = h
    BY <1>4 DEF Created
  <2> HIDE DEF h
  <2> QED BY <1>1, <1>2, <1>3, <2>1
<1>5. CASE watch
  <2> DEFINE s == [h EXCEPT !.returnOnCancel = TRUE, !.cancelHandler = ~h.cancelled,
                            !.cancelSource = h.cancelled]
  <2>1. Created(t, watch) = s
    BY <1>5 DEF Created, Watch
  <2> HIDE DEF h
  <2>2. s \in Record
    BY <1>1, ZenonT(60) DEF Record
  <2>3. /\ s.job = h.job /\ s.returnCalled = h.returnCalled
        /\ s.gotCancel = h.gotCancel /\ s.returnOnCancel = TRUE
        /\ s.cancelled = h.cancelled /\ s.cancelSource = h.cancelled
        /\ s.worker = h.worker /\ s.threadResult = h.threadResult
    BY <1>1 DEF Record
  <2>4. /\ s.returnSource = h.returnSource /\ s.sources = h.sources
        /\ s.result = h.result /\ s.chained = h.chained /\ s.completed = h.completed
        /\ s.held = h.held /\ s.disposed = h.disposed
    BY <1>1 DEF Record
  <2> HIDE DEF s
  <2> QED BY <1>2, <1>3, <2>1, <2>2, <2>3, <2>4
<1> QED BY <1>4, <1>5

LEMMA StartInMainInv ==
    ASSUME IInv, NEW t \in Task, StartInMain(t)
    PROVE  IInv'
<1>1. PICK watch \in BOOLEAN :
        task' = [task EXCEPT ![t] = [Created(t, watch) EXCEPT !.job = "main"]]
  BY DEF StartInMain, Watches
<1> DEFINE r == task[t]
           fresh == Created(t, watch)
           new == [fresh EXCEPT !.job = "main"]
<1>2. r \in Record
  BY DEF IInv, TypeOK
<1>3. Sound(r, answers[t], onto[t], Waiting(t), InCallback(t))
  BY DEF IInv, SoundInv
<1>4. r.job = "new" /\ ~aborted /\ UNCHANGED <<stack, asserts, aborted, answers, onto>>
  BY DEF StartInMain, Settled
<1>5. r.cancelHandler \/ r.cancelSource => r.returnOnCancel
  BY <1>3 DEF Sound, Jobs
<1>6. /\ fresh \in Record
      /\ fresh.cancelHandler \/ fresh.cancelSource => fresh.returnOnCancel
      /\ fresh.job = r.job /\ fresh.returnCalled = r.returnCalled
      /\ fresh.gotCancel = r.gotCancel /\ fresh.worker = r.worker
      /\ fresh.threadResult = r.threadResult /\ fresh.returnSource = r.returnSource
      /\ fresh.sources = r.sources /\ fresh.result = r.result
      /\ fresh.chained = r.chained /\ fresh.completed = r.completed
      /\ fresh.held /\ fresh.disposed = r.disposed
  BY <1>2, <1>5, CreatedEffect
<1>7. task' = [task EXCEPT ![t] = new]
  BY <1>1
<1> HIDE DEF r, fresh
<1>8. new \in Record
  BY <1>6 DEF Record
<1>9. /\ new.job = "main" /\ new.returnCalled = fresh.returnCalled
      /\ new.gotCancel = fresh.gotCancel
      /\ new.returnOnCancel = fresh.returnOnCancel
      /\ new.cancelHandler = fresh.cancelHandler /\ new.cancelled = fresh.cancelled
      /\ new.cancelSource = fresh.cancelSource /\ new.worker = fresh.worker
      /\ new.threadResult = fresh.threadResult
  BY <1>6 DEF Record
<1>10. /\ new.returnSource = fresh.returnSource /\ new.sources = fresh.sources
       /\ new.result = fresh.result /\ new.chained = fresh.chained
       /\ new.completed = fresh.completed /\ new.held = fresh.held
       /\ new.disposed = fresh.disposed
  BY <1>6 DEF Record
<1> HIDE DEF new
<1>11. Sound(new, answers[t], onto[t], Waiting(t), InCallback(t))
  <2>1. ~Waiting(t) /\ onto[t] = NoTask /\ ~r.returnCalled /\ ~r.gotCancel
    BY <1>3, <1>4 DEF Sound, Waits, Jobs, Kept
  <2> QED BY <1>3, <1>4, <1>6, <1>9, <1>10, <2>1 DEF Sound, Placed, Kept, Waits, Jobs, Behind, Ends
<1>12. onto[t] # NoTask =>
         \A i \in DOMAIN new.sources :
            new.sources[i] \in {"cancelled", "orphaned"} \cup Given(onto[t])
  BY <1>6, <1>10 DEF IInv, AnswerInv, r
<1> QED BY <1>4, <1>6, <1>7, <1>8, <1>10, <1>11, <1>12, OneMoves DEF r

LEMMA RunInThreadInv ==
    ASSUME IInv, NEW t \in Task, RunInThread(t)
    PROVE  IInv'
<1>1. PICK watch \in BOOLEAN :
        task' = [task EXCEPT ![t] = [Created(t, watch) EXCEPT !.job = "thread", !.worker = "queued"]]
  BY DEF RunInThread, Watches
<1> DEFINE r == task[t]
           fresh == Created(t, watch)
           new == [fresh EXCEPT !.job = "thread", !.worker = "queued"]
<1>2. r \in Record
  BY DEF IInv, TypeOK
<1>3. Sound(r, answers[t], onto[t], Waiting(t), InCallback(t))
  BY DEF IInv, SoundInv
<1>4. r.job = "new" /\ ~aborted /\ UNCHANGED <<stack, asserts, aborted, answers, onto>>
  BY DEF RunInThread, Settled
<1>5. r.cancelHandler \/ r.cancelSource => r.returnOnCancel
  BY <1>3 DEF Sound, Jobs
<1>6. /\ fresh \in Record
      /\ fresh.cancelHandler \/ fresh.cancelSource => fresh.returnOnCancel
      /\ fresh.job = r.job /\ fresh.returnCalled = r.returnCalled
      /\ fresh.gotCancel = r.gotCancel /\ fresh.worker = r.worker
      /\ fresh.threadResult = r.threadResult /\ fresh.returnSource = r.returnSource
      /\ fresh.sources = r.sources /\ fresh.result = r.result
      /\ fresh.chained = r.chained /\ fresh.completed = r.completed
      /\ fresh.held /\ fresh.disposed = r.disposed
  BY <1>2, <1>5, CreatedEffect
<1>7. task' = [task EXCEPT ![t] = new]
  BY <1>1
<1> HIDE DEF r, fresh
<1>8. new \in Record
  BY <1>6 DEF Record
<1>9. /\ new.job = "thread" /\ new.returnCalled = fresh.returnCalled
      /\ new.gotCancel = fresh.gotCancel
      /\ new.returnOnCancel = fresh.returnOnCancel
      /\ new.cancelHandler = fresh.cancelHandler /\ new.cancelled = fresh.cancelled
      /\ new.cancelSource = fresh.cancelSource /\ new.worker = "queued"
      /\ new.threadResult = fresh.threadResult
  BY <1>6 DEF Record
<1>10. /\ new.returnSource = fresh.returnSource /\ new.sources = fresh.sources
       /\ new.result = fresh.result /\ new.chained = fresh.chained
       /\ new.completed = fresh.completed /\ new.held = fresh.held
       /\ new.disposed = fresh.disposed
  BY <1>6 DEF Record
<1> HIDE DEF new
<1>11. Sound(new, answers[t], onto[t], Waiting(t), InCallback(t))
  <2>1. ~Waiting(t) /\ onto[t] = NoTask /\ ~r.returnCalled /\ ~r.gotCancel
    BY <1>3, <1>4 DEF Sound, Waits, Jobs, Kept
  <2> QED BY <1>3, <1>4, <1>6, <1>9, <1>10, <2>1 DEF Sound, Placed, Kept, Waits, Jobs, Behind, Ends
<1>12. onto[t] # NoTask =>
         \A i \in DOMAIN new.sources :
            new.sources[i] \in {"cancelled", "orphaned"} \cup Given(onto[t])
  BY <1>6, <1>10 DEF IInv, AnswerInv, r
<1> QED BY <1>4, <1>6, <1>7, <1>8, <1>10, <1>11, <1>12, OneMoves DEF r

LEMMA ReturnInMainInv ==
    ASSUME IInv, NEW t \in Task, NEW x \in {"value", "error"}, ReturnInMain(t, x)
    PROVE  IInv'
<1> DEFINE r == task[t]
           ret == Return(r, x, TRUE)
           new == [ret EXCEPT !.job = "returned"]
<1>1. r \in Record /\ x \in Results /\ x # "cancelled"
  BY DEF IInv, TypeOK, Results
<1>2. Sound(r, answers[t], onto[t], Waiting(t), InCallback(t))
  BY DEF IInv, SoundInv
<1>3. /\ task' = [task EXCEPT ![t] = new] /\ ~aborted
      /\ UNCHANGED <<stack, asserts, aborted, answers, onto>>
  BY DEF ReturnInMain, Settled
<1>4. r.job = "main"
  BY DEF ReturnInMain
<1> HIDE DEF r
<1>5. /\ ret \in Record
      /\ ret.job = r.job /\ ret.returnOnCancel = r.returnOnCancel
      /\ ret.cancelled = r.cancelled /\ ret.cancelSource = r.cancelSource
      /\ ret.worker = r.worker /\ ret.result = r.result /\ ret.chained = r.chained
      /\ ret.completed = r.completed /\ ret.held = r.held /\ ret.disposed = r.disposed
      /\ ret.returnCalled /\ ~ret.cancelHandler
  BY <1>1, ReturnFields
<1>6. r.returnCalled =>
        /\ ret.gotCancel = r.gotCancel /\ ret.threadResult = r.threadResult
        /\ ret.returnSource = r.returnSource /\ ret.sources = r.sources
  BY <1>1, ReturnLate
<1>7. ~r.returnCalled =>
        /\ ~ret.gotCancel /\ ret.returnSource /\ ret.sources = <<x>>
        /\ ret.threadResult = r.threadResult
  <2>1. ~r.returnCalled => r.sources = <<>>
    BY <1>2 DEF Sound, Kept
  <2>2. ~r.returnCalled =>
          /\ ret.gotCancel <=> (x = "cancelled")
          /\ ret.returnSource /\ ret.sources = Append(r.sources, x)
          /\ ret.threadResult = r.threadResult
    BY <1>1, ReturnInTime
  <2>3. Append(<<>>, x) = <<x>>
    BY <1>1, Short
  <2> HIDE DEF ret
  <2> QED BY <1>1, <2>1, <2>2, <2>3
<1> HIDE DEF ret
<1>8. new \in Record
  BY <1>5 DEF Record
<1>9. /\ new.job = "returned" /\ new.returnCalled = ret.returnCalled
      /\ new.gotCancel = ret.gotCancel /\ new.returnOnCancel = ret.returnOnCancel
      /\ new.cancelHandler = ret.cancelHandler /\ new.cancelled = ret.cancelled
      /\ new.cancelSource = ret.cancelSource /\ new.worker = ret.worker
      /\ new.threadResult = ret.threadResult
  BY <1>5 DEF Record
<1>10. /\ new.returnSource = ret.returnSource /\ new.sources = ret.sources
       /\ new.result = ret.result /\ new.chained = ret.chained
       /\ new.completed = ret.completed /\ new.held = ret.held
       /\ new.disposed = ret.disposed
  BY <1>5 DEF Record
<1> HIDE DEF new
<1>11. ~Waiting(t) /\ onto[t] = NoTask
  BY <1>2, <1>4 DEF Sound, Waits, Jobs
<1>12. Sound(new, answers[t], onto[t], Waiting(t), InCallback(t))
  <2>1. CASE r.returnCalled
    BY <1>2, <1>4, <1>5, <1>6, <1>9, <1>10, <1>11, <2>1 DEF Sound, Placed, Kept, Waits, Jobs, Behind, Ends
  <2>2. CASE ~r.returnCalled
    <3>1. answers[t] = <<>> /\ r.sources = <<>> /\ r.threadResult = NoResult /\ r.result = NoResult
      BY <1>2, <2>2 DEF Sound, Kept
    <3>2. <<x>> # <<>>
      BY <1>1, Short
    <3>3. Placed(new, answers[t], onto[t], Waiting(t))
      BY <1>1, <1>7, <1>9, <1>10, <2>2, <3>1 DEF Placed
    <3>4. Kept(new, answers[t])
      BY <1>1, <1>2, <1>4, <1>5, <1>7, <1>9, <1>10, <2>2, <3>1, <3>2 DEF Sound, Kept
    <3>5. Placed(new, answers[t], onto[t], Waiting(t)) /\ Kept(new, answers[t])
      BY <3>3, <3>4
    <3>6. Waits(new, answers[t], Waiting(t)) /\ Jobs(new, onto[t], Waiting(t))
      BY <1>2, <1>4, <1>5, <1>7, <1>9, <1>10, <1>11, <2>2 DEF Sound, Waits, Jobs
    <3>7. Behind(new, answers[t])
      BY <1>2, <1>4, <1>5, <1>7, <1>9, <1>10, <2>2 DEF Sound, Kept, Jobs, Behind
    <3>8. Ends(new, answers[t], Waiting(t), InCallback(t))
      BY <1>2, <1>4, <1>5, <1>7, <1>9, <1>10, <2>2 DEF Sound, Ends, Jobs
    <3> QED BY <3>5, <3>6, <3>7, <3>8 DEF Sound
  <2> QED BY <2>1, <2>2
<1> QED BY <1>3, <1>5, <1>8, <1>10, <1>11, <1>12, OneMoves DEF r

LEMMA ThreadReturnInv ==
    ASSUME IInv, NEW t \in Task, NEW x \in {"value", "error"}, ThreadReturn(t, x)
    PROVE  IInv'
<1> DEFINE r == task[t]
           ret == Return(r, x, FALSE)
           new == [ret EXCEPT !.job = "returned"]
<1>1. r \in Record /\ x \in Results /\ x # "cancelled"
  BY DEF IInv, TypeOK, Results
<1>2. Sound(r, answers[t], onto[t], Waiting(t), InCallback(t))
  BY DEF IInv, SoundInv
<1>3. /\ task' = [task EXCEPT ![t] = new] /\ ~aborted
      /\ UNCHANGED <<stack, asserts, aborted, answers, onto>>
  BY DEF ThreadReturn, Settled
<1>4. r.job = "thread" /\ r.worker = "running"
  BY DEF ThreadReturn
<1> HIDE DEF r
<1>5. /\ ret \in Record
      /\ ret.job = r.job /\ ret.returnOnCancel = r.returnOnCancel
      /\ ret.cancelled = r.cancelled /\ ret.cancelSource = r.cancelSource
      /\ ret.worker = r.worker /\ ret.result = r.result /\ ret.chained = r.chained
      /\ ret.completed = r.completed /\ ret.held = r.held /\ ret.disposed = r.disposed
      /\ ret.returnCalled /\ ~ret.cancelHandler
  BY <1>1, ReturnFields
<1>6. r.returnCalled =>
        /\ ret.gotCancel = r.gotCancel /\ ret.threadResult = r.threadResult
        /\ ret.returnSource = r.returnSource /\ ret.sources = r.sources
  BY <1>1, ReturnLate
<1>7. ~r.returnCalled =>
        /\ ~ret.gotCancel /\ ret.returnSource = r.returnSource /\ ret.sources = r.sources
        /\ ret.threadResult = x
  BY <1>1, <1>4, ReturnEffect
<1> HIDE DEF ret
<1>8. new \in Record
  BY <1>5 DEF Record
<1>9. /\ new.job = "returned" /\ new.returnCalled = ret.returnCalled
      /\ new.gotCancel = ret.gotCancel /\ new.returnOnCancel = ret.returnOnCancel
      /\ new.cancelHandler = ret.cancelHandler /\ new.cancelled = ret.cancelled
      /\ new.cancelSource = ret.cancelSource /\ new.worker = ret.worker
      /\ new.threadResult = ret.threadResult
  BY <1>5 DEF Record
<1>10. /\ new.returnSource = ret.returnSource /\ new.sources = ret.sources
       /\ new.result = ret.result /\ new.chained = ret.chained
       /\ new.completed = ret.completed /\ new.held = ret.held
       /\ new.disposed = ret.disposed
  BY <1>5 DEF Record
<1> HIDE DEF new
<1>11. ~Waiting(t) /\ onto[t] = NoTask
  BY <1>2, <1>4 DEF Sound, Waits, Jobs
<1>12. Sound(new, answers[t], onto[t], Waiting(t), InCallback(t))
  <2>1. CASE r.returnCalled
    BY <1>2, <1>4, <1>5, <1>6, <1>9, <1>10, <1>11, <2>1 DEF Sound, Placed, Kept, Waits, Jobs, Behind, Ends
  <2>2. CASE ~r.returnCalled
    <3>1. answers[t] = <<>> /\ r.sources = <<>> /\ r.threadResult = NoResult /\ r.result = NoResult
      BY <1>2, <2>2 DEF Sound, Kept
    <3>2. <<x>> # <<>>
      BY <1>1, Short
    <3>3. Placed(new, answers[t], onto[t], Waiting(t))
      BY <1>1, <1>7, <1>9, <1>10, <2>2, <3>1 DEF Placed
    <3>4. Kept(new, answers[t])
      BY <1>1, <1>2, <1>4, <1>5, <1>7, <1>9, <1>10, <2>2, <3>1, <3>2 DEF Sound, Kept
    <3>5. Placed(new, answers[t], onto[t], Waiting(t)) /\ Kept(new, answers[t])
      BY <3>3, <3>4
    <3>6. Waits(new, answers[t], Waiting(t)) /\ Jobs(new, onto[t], Waiting(t))
      BY <1>2, <1>4, <1>5, <1>7, <1>9, <1>10, <1>11, <2>2 DEF Sound, Waits, Jobs
    <3>7. Behind(new, answers[t])
      BY <1>2, <1>4, <1>5, <1>7, <1>9, <1>10, <2>2 DEF Sound, Kept, Jobs, Behind
    <3>8. Ends(new, answers[t], Waiting(t), InCallback(t))
      BY <1>2, <1>4, <1>5, <1>7, <1>9, <1>10, <2>2 DEF Sound, Ends, Jobs
    <3> QED BY <3>5, <3>6, <3>7, <3>8 DEF Sound
  <2> QED BY <2>1, <2>2
<1> QED BY <1>3, <1>5, <1>8, <1>10, <1>11, <1>12, OneMoves DEF r

LEMMA ThreadEndInv ==
    ASSUME IInv, NEW t \in Task, ThreadEnd(t)
    PROVE  IInv'
<1> DEFINE r == task[t]
           ended == [r EXCEPT !.worker = "ended", !.job = "returned", !.threadResult = NoResult]
           new == IF r.threadResult = NoResult THEN ended ELSE Complete(ended, r.threadResult)
<1>1. r \in Record
  BY DEF IInv, TypeOK
<1>2. Sound(r, answers[t], onto[t], Waiting(t), InCallback(t))
  BY DEF IInv, SoundInv
<1>3. /\ task' = [task EXCEPT ![t] = new] /\ ~aborted
      /\ UNCHANGED <<stack, asserts, aborted, answers, onto>>
  BY DEF ThreadEnd, Settled
<1>4. r.worker = "running"
  BY DEF ThreadEnd
<1>5. ~Waiting(t) /\ onto[t] = NoTask /\ r.job # "new"
  BY <1>2, <1>4 DEF Sound, Waits, Jobs
<1> HIDE DEF r
<1>6. ended \in Record
  BY <1>1 DEF Record
<1>7. /\ ended.job = "returned" /\ ended.returnCalled = r.returnCalled
      /\ ended.gotCancel = r.gotCancel /\ ended.returnOnCancel = r.returnOnCancel
      /\ ended.cancelHandler = r.cancelHandler /\ ended.cancelled = r.cancelled
      /\ ended.cancelSource = r.cancelSource /\ ended.worker = "ended"
      /\ ended.threadResult = NoResult
  BY <1>1 DEF Record
<1>8. /\ ended.returnSource = r.returnSource /\ ended.sources = r.sources
      /\ ended.result = r.result /\ ended.chained = r.chained
      /\ ended.completed = r.completed /\ ended.held = r.held
      /\ ended.disposed = r.disposed
  BY <1>1 DEF Record
<1> HIDE DEF ended
<1>9. CASE r.threadResult = NoResult
  <2>1. new = ended
    BY <1>9
  <2> HIDE DEF new
  <2>2. Sound(ended, answers[t], onto[t], Waiting(t), InCallback(t))
    BY <1>2, <1>4, <1>5, <1>7, <1>8, <1>9 DEF Sound, Placed, Kept, Waits, Jobs, Behind, Ends
  <2> QED BY <1>3, <1>5, <1>6, <1>8, <2>1, <2>2, OneMoves DEF r
<1>10. CASE r.threadResult # NoResult
  <2> DEFINE x == r.threadResult
  <2>1. x \in Results /\ new = Complete(ended, x)
    BY <1>1, <1>10 DEF Record
  <2>2. /\ r.sources = <<>> /\ answers[t] = <<>> /\ r.returnCalled /\ r.result = NoResult
        /\ ~r.gotCancel /\ ~r.disposed
    BY <1>2, <1>4, <1>10 DEF Sound, Kept, Ends
  <2>3. /\ new.job = ended.job /\ new.returnCalled = ended.returnCalled
        /\ new.gotCancel = ended.gotCancel
        /\ new.returnOnCancel = ended.returnOnCancel
        /\ new.cancelHandler = ended.cancelHandler /\ new.cancelled = ended.cancelled
        /\ new.cancelSource = ended.cancelSource /\ new.worker = ended.worker
        /\ new.threadResult = ended.threadResult
    BY <1>6, <2>1, CompleteEffect, ZenonT(60)
  <2>4. /\ new.returnSource = TRUE /\ new.sources = Append(ended.sources, x)
        /\ new.result = ended.result /\ new.chained = ended.chained
        /\ new.completed = ended.completed /\ new.held = ended.held
        /\ new.disposed = ended.disposed
        /\ new \in Record
    BY <1>6, <2>1, CompleteEffect
  <2> HIDE DEF new, x
  <2>5. new.sources = <<x>> /\ <<x>> # <<>>
    <3>1. Append(<<>>, x) = <<x>> /\ <<x>> # <<>>
      BY <2>1, Short
    <3> QED BY <1>8, <2>2, <2>4, <3>1
  <2>6. Placed(new, answers[t], onto[t], Waiting(t))
    BY <2>1, <2>2, <2>4, <2>5 DEF Placed
  <2>7. Kept(new, answers[t])
    BY <1>7, <1>8, <2>2, <2>3, <2>4, <2>5 DEF Kept
  <2>8. Sound(new, answers[t], onto[t], Waiting(t), InCallback(t))
    BY <1>2, <1>5, <1>7, <1>8, <2>2, <2>3, <2>4, <2>6, <2>7 DEF Sound, Waits, Jobs, Behind, Ends
  <2> QED BY <1>3, <1>5, <1>8, <2>4, <2>8, OneMoves DEF r
<1> QED BY <1>9, <1>10

LEMMA CancelCbInv ==
    ASSUME IInv, NEW t \in Task, CancelCb(t)
    PROVE  IInv'
<1> DEFINE r == task[t]
           told == [r EXCEPT !.cancelSource = FALSE]
           x == "cancelled"
           new == Return(told, x, TRUE)
<1>1. r \in Record /\ x \in Results
  BY DEF IInv, TypeOK, Results
<1>2. x = "cancelled"
  OBVIOUS
<1>3. Sound(r, answers[t], onto[t], Waiting(t), InCallback(t))
  BY DEF IInv, SoundInv
<1>4. /\ task' = [task EXCEPT ![t] = new] /\ ~aborted
      /\ UNCHANGED <<stack, asserts, aborted, answers, onto>>
  BY DEF CancelCb, Dispatching, Settled
<1>5. r.returnOnCancel /\ r.job # "new" /\ ~r.disposed
  BY <1>3 DEF CancelCb, Sound, Jobs, Ends
<1> HIDE DEF r, x
<1>6. told \in Record
  BY <1>1 DEF Record
<1>7. /\ told.job = r.job /\ told.returnCalled = r.returnCalled
      /\ told.gotCancel = r.gotCancel /\ told.returnOnCancel = r.returnOnCancel
      /\ told.cancelHandler = r.cancelHandler /\ told.cancelled = r.cancelled
      /\ told.cancelSource = FALSE /\ told.worker = r.worker
      /\ told.threadResult = r.threadResult
  BY <1>1 DEF Record
<1>8. /\ told.returnSource = r.returnSource /\ told.sources = r.sources
      /\ told.result = r.result /\ told.chained = r.chained
      /\ told.completed = r.completed /\ told.held = r.held
      /\ told.disposed = r.disposed
  BY <1>1 DEF Record
<1> HIDE DEF told
<1>9. /\ new \in Record
      /\ new.job = told.job /\ new.returnOnCancel = told.returnOnCancel
      /\ new.cancelled = told.cancelled /\ new.cancelSource = told.cancelSource
      /\ new.worker = told.worker /\ new.result = told.result /\ new.chained = told.chained
      /\ new.completed = told.completed /\ new.held = told.held /\ new.disposed = told.disposed
      /\ new.returnCalled /\ ~new.cancelHandler
  BY <1>1, <1>6, ReturnFields
<1>10. told.returnCalled =>
        /\ new.gotCancel = told.gotCancel /\ new.threadResult = told.threadResult
        /\ new.returnSource = told.returnSource /\ new.sources = told.sources
  BY <1>1, <1>6, ReturnLate
<1>11. ~told.returnCalled =>
        /\ new.gotCancel <=> (x = "cancelled")
        /\ new.returnSource /\ new.sources = Append(told.sources, x)
        /\ new.threadResult = told.threadResult
  BY <1>1, <1>6, ReturnInTime
<1> HIDE DEF new
<1>12. CASE r.returnCalled
  <2>1. Sound(new, answers[t], onto[t], Waiting(t), InCallback(t))
    BY <1>3, <1>5, <1>7, <1>8, <1>9, <1>10, <1>12 DEF Sound, Placed, Kept, Waits, Jobs, Behind, Ends
  <2>2. onto[t] # NoTask =>
          \A i \in DOMAIN new.sources :
             new.sources[i] \in {"cancelled", "orphaned"} \cup Given(onto[t])
    BY <1>7, <1>8, <1>10, <1>12 DEF IInv, AnswerInv, r
  <2> QED BY <1>4, <1>8, <1>9, <2>1, <2>2, OneMoves DEF r
<1>13. CASE ~r.returnCalled
  <2>1. r.sources = <<>> /\ answers[t] = <<>> /\ r.threadResult = NoResult /\ r.result = NoResult
    BY <1>3, <1>13 DEF Sound, Kept
  <2>2. /\ new.sources = <<x>> /\ <<x>> # <<>>
        /\ new.gotCancel /\ new.returnSource /\ new.threadResult = NoResult
    <3>1. Append(<<>>, x) = <<x>> /\ <<x>> # <<>>
      BY <1>1, Short
    <3> QED BY <1>2, <1>7, <1>8, <1>11, <1>13, <2>1, <3>1
  <2>3. Placed(new, answers[t], onto[t], Waiting(t))
    BY <1>1, <2>1, <2>2 DEF Placed
  <2>4. Kept(new, answers[t])
    BY <1>8, <1>9, <2>1, <2>2 DEF Kept
  <2>5. Waits(new, answers[t], Waiting(t)) /\ Jobs(new, onto[t], Waiting(t))
    BY <1>2, <1>3, <1>5, <1>7, <1>8, <1>9, <2>1, <2>2 DEF Sound, Waits, Jobs
  <2>6. Behind(new, answers[t]) /\ Ends(new, answers[t], Waiting(t), InCallback(t))
    BY <1>2, <1>5, <1>8, <1>9, <2>1, <2>2 DEF Behind, Ends
  <2>7. Sound(new, answers[t], onto[t], Waiting(t), InCallback(t))
    BY <2>3, <2>4, <2>5, <2>6 DEF Sound
  <2>8. \A i \in DOMAIN new.sources : new.sources[i] \in {"cancelled", "orphaned"}
    BY <1>2, <2>2
  <2> QED BY <1>4, <1>8, <1>9, <2>7, <2>8, OneMoves DEF r
<1> QED BY <1>12, <1>13

\* A propagate, on whichever side of a wait.
LEMMA PropagatedEffect ==
    ASSUME IInv, NEW t \in Task
    PROVE  \E new \in Record :
             /\ Propagated(t) = [task EXCEPT ![t] = new]
             /\ new.chained = task[t].chained /\ new.disposed = task[t].disposed
             /\ new.result \in {NoResult, task[t].result}
             /\ new.sources = task[t].sources
             /\ Sound(new, answers[t], onto[t], Waiting(t), InCallback(t))
<1> DEFINE r == task[t]
<1>1. r \in Record /\ task \in [Task -> Record]
  BY DEF IInv, TypeOK
<1>2. Sound(r, answers[t], onto[t], Waiting(t), InCallback(t))
  BY DEF IInv, SoundInv
<1>3. CASE Propagated(t) = task
  <2>1. Propagated(t) = [task EXCEPT ![t] = r]
    BY <1>1, <1>3
  <2> QED BY <1>1, <1>2, <2>1
<1>4. CASE Propagated(t) # task
  <2> DEFINE new == [r EXCEPT !.result = NoResult]
  <2>1. r.result = "value" /\ Propagated(t) = [task EXCEPT ![t] = new]
    BY <1>4 DEF Propagated
  <2> HIDE DEF r
  <2>2. new \in Record
    BY <1>1 DEF Record
  <2>3. /\ new.job = r.job /\ new.returnCalled = r.returnCalled
        /\ new.gotCancel = r.gotCancel /\ new.returnOnCancel = r.returnOnCancel
        /\ new.cancelHandler = r.cancelHandler /\ new.cancelled = r.cancelled
        /\ new.cancelSource = r.cancelSource /\ new.worker = r.worker
        /\ new.threadResult = r.threadResult
    BY <1>1 DEF Record
  <2>4. /\ new.returnSource = r.returnSource /\ new.sources = r.sources
        /\ new.result = NoResult /\ new.chained = r.chained
        /\ new.completed = r.completed /\ new.held = r.held
        /\ new.disposed = r.disposed
    BY <1>1 DEF Record
  <2> HIDE DEF new
  <2>5. Sound(new, answers[t], onto[t], Waiting(t), InCallback(t))
    BY <1>2, <2>1, <2>3, <2>4 DEF Sound, Placed, Kept, Waits, Jobs, Behind, Ends
  <2> QED BY <2>1, <2>2, <2>4, <2>5 DEF r
<1> QED BY <1>3, <1>4

LEMMA PropagateInv ==
    ASSUME IInv, NEW t \in Task, Propagate(t)
    PROVE  IInv'
<1>1. task' = Propagated(t) /\ ~aborted /\ UNCHANGED <<stack, asserts, aborted, answers, onto>>
  BY DEF Propagate, Propagates, Settled
<1>2. PICK new \in Record :
        /\ Propagated(t) = [task EXCEPT ![t] = new]
        /\ new.chained = task[t].chained /\ new.disposed = task[t].disposed
        /\ new.result \in {NoResult, task[t].result}
        /\ new.sources = task[t].sources
        /\ Sound(new, answers[t], onto[t], Waiting(t), InCallback(t))
  BY PropagatedEffect
<1>3. onto[t] # NoTask =>
        \A i \in DOMAIN new.sources :
           new.sources[i] \in {"cancelled", "orphaned"} \cup Given(onto[t])
  BY <1>2 DEF IInv, AnswerInv
<1> QED BY <1>1, <1>2, <1>3, OneMoves

LEMMA PropagateEndInv ==
    ASSUME IInv, PropagateEnd
    PROVE  IInv'
<1> DEFINE t == Top.task
<1>1. /\ task' = Propagated(t) /\ ~aborted /\ UNCHANGED <<asserts, aborted, answers, onto>>
      /\ stack' = Pop /\ stack # <<>> /\ Top.kind = "wait"
  BY DEF PropagateEnd, Settled
<1>2. stack \in Seq(Frame) /\ Len(stack) \in Nat \ {0} /\ DOMAIN stack = 1..Len(stack)
  BY <1>1 DEF IInv, TypeOK
<1>3. t \in Task
  BY <1>2, FrameType DEF Top, IInv
<1>4. /\ stack' \in Seq(Frame) /\ DOMAIN stack' = 1..(Len(stack) - 1)
      /\ \A i \in 1..(Len(stack) - 1) : stack'[i] = stack[i]
  BY <1>1, <1>2 DEF Pop
<1>5. OnlyWaits
  BY <1>1, <1>2, <1>4 DEF OnlyWaits, Top
<1> HIDE DEF t
<1>6. PICK new \in Record :
        /\ Propagated(t) = [task EXCEPT ![t] = new]
        /\ new.chained = task[t].chained /\ new.disposed = task[t].disposed
        /\ new.result \in {NoResult, task[t].result}
        /\ new.sources = task[t].sources
        /\ Sound(new, answers[t], onto[t], Waiting(t), InCallback(t))
  BY <1>3, PropagatedEffect
<1>7. onto[t] # NoTask =>
        \A i \in DOMAIN new.sources :
           new.sources[i] \in {"cancelled", "orphaned"} \cup Given(onto[t])
  BY <1>3, <1>6 DEF IInv, AnswerInv
<1> QED BY <1>1, <1>3, <1>4, <1>5, <1>6, <1>7, OneMovesAndWaits

LEMMA PropagateWaitInv ==
    ASSUME IInv, NEW t \in Task, PropagateWait(t)
    PROVE  IInv'
<1> DEFINE new == task[t]
           frame == [kind |-> "wait", task |-> t, copy |-> "error", chained |-> {}]
<1>1. /\ UNCHANGED <<task, asserts, aborted, answers, onto>> /\ ~aborted
      /\ stack' = Append(stack, frame) /\ ~task[t].disposed
  BY DEF PropagateWait, Propagates, Settled
<1>2. stack \in Seq(Frame) /\ Len(stack) \in Nat /\ DOMAIN stack = 1..Len(stack)
  BY DEF IInv, TypeOK
<1>3. frame \in Frame /\ frame.kind = "wait" /\ frame.chained = {} /\ frame.task = t
  BY DEF Frame, Results
<1> HIDE DEF frame
<1>4. /\ stack' \in Seq(Frame) /\ DOMAIN stack' = 1..(Len(stack) + 1)
      /\ \A i \in 1..Len(stack) : stack'[i] = stack[i]
      /\ stack'[Len(stack) + 1] = frame
  BY <1>1, <1>2, <1>3
<1>5. OnlyWaits
  <2>1. ASSUME NEW i \in DOMAIN stack'
        PROVE  \/ i \in DOMAIN stack /\ stack'[i] = stack[i]
               \/ stack'[i] = frame
    BY <1>2, <1>4
  <2>2. \A i \in DOMAIN stack : i \in DOMAIN stack' /\ stack'[i] = stack[i]
    BY <1>2, <1>4
  <2> QED BY <1>1, <1>3, <2>1, <2>2 DEF OnlyWaits
<1>6. new \in Record /\ task' = [task EXCEPT ![t] = new]
  BY <1>1 DEF IInv, TypeOK
<1>7. Sound(new, answers[t], onto[t], Waiting(t), InCallback(t))
  BY DEF IInv, SoundInv
<1>8. onto[t] # NoTask =>
        \A i \in DOMAIN new.sources :
           new.sources[i] \in {"cancelled", "orphaned"} \cup Given(onto[t])
  BY DEF IInv, AnswerInv
<1> QED BY <1>1, <1>4, <1>5, <1>6, <1>7, <1>8, OneMovesAndWaits

LEMMA DispatchedEffect ==
    ASSUME NEW t \in Task, task[t] \in Record, task[t].sources # <<>>
    PROVE  LET s == Dispatched(t)
           IN  /\ s \in Record
               /\ s.job = task[t].job /\ s.returnCalled = task[t].returnCalled
               /\ s.gotCancel = task[t].gotCancel
               /\ s.returnOnCancel = task[t].returnOnCancel
               /\ s.cancelHandler = task[t].cancelHandler /\ s.cancelled = task[t].cancelled
               /\ s.cancelSource = task[t].cancelSource /\ s.worker = task[t].worker
               /\ s.threadResult = task[t].threadResult
               /\ s.returnSource = FALSE /\ s.sources = Tail(task[t].sources)
               /\ s.result = task[t].result /\ s.chained = task[t].chained
               /\ s.completed = task[t].completed /\ s.held = task[t].held
               /\ s.disposed = task[t].disposed
<1> DEFINE r == task[t]
           rest == Tail(r.sources)
           s == [r EXCEPT !.returnSource = FALSE, !.sources = rest]
<1>1. r \in Record /\ r.sources \in Seq(Results) /\ r.sources # <<>>
  BY DEF Record
<1>2. rest \in Seq(Results)
  BY <1>1
<1>3. Dispatched(t) = s
  BY DEF Dispatched
<1> HIDE DEF r, rest
<1>4. s \in Record
  BY <1>1, <1>2 DEF Record
<1>5. /\ s.job = r.job /\ s.returnCalled = r.returnCalled
      /\ s.gotCancel = r.gotCancel /\ s.returnOnCancel = r.returnOnCancel
      /\ s.cancelHandler = r.cancelHandler /\ s.cancelled = r.cancelled
      /\ s.cancelSource = r.cancelSource /\ s.worker = r.worker
      /\ s.threadResult = r.threadResult
  BY <1>1 DEF Record
<1>6. /\ s.returnSource = FALSE /\ s.sources = rest /\ s.result = r.result
      /\ s.chained = r.chained /\ s.completed = r.completed /\ s.held = r.held
      /\ s.disposed = r.disposed
  BY <1>1 DEF Record
<1> HIDE DEF s
<1> QED BY <1>3, <1>4, <1>5, <1>6 DEF r, rest

LEMMA ReturnDiscardInv ==
    ASSUME IInv, NEW t \in Task, ReturnDiscard(t)
    PROVE  IInv'
<1> DEFINE r == task[t]
           new == Dispatched(t)
<1>1. r \in Record /\ r.sources # <<>>
  BY DEF IInv, TypeOK, ReturnDiscard
<1>2. Sound(r, answers[t], onto[t], Waiting(t), InCallback(t))
  BY DEF IInv, SoundInv
<1>3. /\ task' = [task EXCEPT ![t] = new] /\ ~aborted
      /\ UNCHANGED <<stack, asserts, aborted, answers, onto>>
  BY DEF ReturnDiscard, Dispatching, Settled
<1>4. r.gotCancel /\ r.result # NoResult
  BY DEF ReturnDiscard, Discards
<1>5. /\ new \in Record
      /\ new.job = r.job /\ new.returnCalled = r.returnCalled
      /\ new.gotCancel = r.gotCancel /\ new.returnOnCancel = r.returnOnCancel
      /\ new.cancelHandler = r.cancelHandler /\ new.cancelled = r.cancelled
      /\ new.cancelSource = r.cancelSource /\ new.worker = r.worker
      /\ new.threadResult = r.threadResult
  BY <1>1, DispatchedEffect
<1>6. /\ new.returnSource = FALSE /\ new.sources = Tail(r.sources)
      /\ new.result = r.result /\ new.chained = r.chained
      /\ new.completed = r.completed /\ new.held = r.held
      /\ new.disposed = r.disposed
  BY <1>1, DispatchedEffect
<1> HIDE DEF new
<1>7. PICK x \in Results : r.sources = <<x>> /\ answers[t] = <<"cancelled">> /\ r.result = "cancelled"
  <2>1. answers[t] # <<>>
    BY <1>2, <1>4 DEF Sound, Kept
  <2>2. \A y \in Results : <<y>> # <<>>
    BY Short
  <2> HIDE DEF r
  <2> QED BY <1>1, <1>2, <2>1, <2>2 DEF Sound, Placed
<1>8. ~Waiting(t) /\ onto[t] # NoTask
  BY <1>1, <1>2, <1>7, Short DEF Sound, Placed
<1> HIDE DEF r
<1>9. new.sources = <<>>
  BY <1>6, <1>7, Short
<1>10. "cancelled" \in Results /\ <<"cancelled">> # <<>>
  BY Short DEF Results
<1>11. Placed(new, answers[t], onto[t], Waiting(t)) /\ Kept(new, answers[t])
  BY <1>1, <1>2, <1>4, <1>5, <1>6, <1>7, <1>9, <1>10 DEF Sound, Placed, Kept
<1>12. Waits(new, answers[t], Waiting(t)) /\ Jobs(new, onto[t], Waiting(t))
  BY <1>2, <1>5, <1>6, <1>8 DEF Sound, Waits, Jobs
<1>13. Behind(new, answers[t]) /\ Ends(new, answers[t], Waiting(t), InCallback(t))
  BY <1>2, <1>5, <1>6, <1>7, <1>9 DEF Sound, Behind, Ends
<1>14. Sound(new, answers[t], onto[t], Waiting(t), InCallback(t))
  BY <1>11, <1>12, <1>13 DEF Sound
<1>15. \A i \in DOMAIN new.sources : new.sources[i] \in {"cancelled", "orphaned"}
  BY <1>9
<1> QED BY <1>3, <1>5, <1>6, <1>14, <1>15, OneMoves DEF r

-----------------------------------------------------------------------------
\* Steps that move a chained task, or the stack.

\* A task that waits is given the result of the other one.
LEMMA DeliverEffect ==
    ASSUME NEW r \in Record, NEW x \in Results
    PROVE  LET s == Deliver(r, x)
           IN  /\ s \in Record
               /\ s.job = r.job /\ s.returnCalled = TRUE /\ s.gotCancel = r.gotCancel
               /\ s.returnOnCancel = r.returnOnCancel /\ s.cancelHandler = r.cancelHandler
               /\ s.cancelled = r.cancelled /\ s.cancelSource = r.cancelSource
               /\ s.worker = r.worker /\ s.threadResult = r.threadResult
               /\ s.returnSource = TRUE /\ s.sources = Append(r.sources, x)
               /\ s.result = r.result /\ s.chained = r.chained /\ s.completed = r.completed
               /\ s.held = r.held /\ s.disposed = r.disposed
<1> DEFINE called == [r EXCEPT !.returnCalled = TRUE]
           s == Complete(called, x)
<1>1. called \in Record
  BY DEF Record
<1>2. Deliver(r, x) = s
  BY DEF Deliver
<1>3. /\ called.job = r.job /\ called.returnCalled = TRUE
      /\ called.gotCancel = r.gotCancel /\ called.returnOnCancel = r.returnOnCancel
      /\ called.cancelHandler = r.cancelHandler /\ called.cancelled = r.cancelled
      /\ called.cancelSource = r.cancelSource /\ called.worker = r.worker
      /\ called.threadResult = r.threadResult
  BY DEF Record
<1>4. /\ called.returnSource = r.returnSource /\ called.sources = r.sources
      /\ called.result = r.result /\ called.chained = r.chained
      /\ called.completed = r.completed /\ called.held = r.held
      /\ called.disposed = r.disposed
  BY DEF Record
<1> HIDE DEF called
<1>5. /\ s \in Record
      /\ s.job = called.job /\ s.returnCalled = called.returnCalled
      /\ s.gotCancel = called.gotCancel /\ s.returnOnCancel = called.returnOnCancel
      /\ s.cancelHandler = called.cancelHandler /\ s.cancelled = called.cancelled
      /\ s.cancelSource = called.cancelSource /\ s.worker = called.worker
      /\ s.threadResult = called.threadResult
  BY <1>1, CompleteEffect, ZenonT(60)
<1>6. /\ s.returnSource = TRUE /\ s.sources = Append(called.sources, x)
      /\ s.result = called.result /\ s.chained = called.chained
      /\ s.completed = called.completed /\ s.held = called.held
      /\ s.disposed = called.disposed
  BY <1>1, CompleteEffect
<1> HIDE DEF s
<1> QED BY <1>2, <1>3, <1>4, <1>5, <1>6

LEMMA DeliverSound ==
    ASSUME NEW r \in Record, NEW a, NEW o, NEW c \in BOOLEAN, NEW x \in Results,
           Sound(r, a, o, TRUE, c)
    PROVE  Sound(Deliver(r, x), a, o, FALSE, c)
<1> DEFINE s == Deliver(r, x)
<1>1. /\ s.job = r.job /\ s.returnCalled = TRUE /\ s.gotCancel = r.gotCancel
      /\ s.returnOnCancel = r.returnOnCancel /\ s.cancelHandler = r.cancelHandler
      /\ s.cancelled = r.cancelled /\ s.cancelSource = r.cancelSource
      /\ s.worker = r.worker /\ s.threadResult = r.threadResult
  BY DeliverEffect
<1>2. /\ s.returnSource = TRUE /\ s.sources = Append(r.sources, x)
      /\ s.result = r.result /\ s.chained = r.chained /\ s.completed = r.completed
      /\ s.held = r.held /\ s.disposed = r.disposed
  BY DeliverEffect
<1> HIDE DEF s
<1>3. /\ r.job = "chained" /\ r.worker = "none" /\ o # NoTask
      /\ r.threadResult = NoResult /\ ~r.disposed
  BY DEF Sound, Waits, Jobs, Kept, Ends
<1>4. "cancelled" \in Results
  BY DEF Results
<1>5. /\ Append(<<>>, x) = <<x>> /\ <<x>> # <<>>
      /\ Append(<<"cancelled">>, x) = <<"cancelled", x>> /\ <<"cancelled", x>> # <<>>
  BY <1>4, Short
<1>6. \/ s.sources = <<x>> /\ a = <<>> /\ ~r.returnCalled
      \/ s.sources = <<"cancelled", x>> /\ a = <<>> /\ r.gotCancel
      \/ s.sources = <<x>> /\ a = <<"cancelled">> /\ r.result = "cancelled" /\ r.gotCancel
  <2>1. CASE ~r.returnCalled
    <3>1. r.sources = <<>> /\ a = <<>>
      BY <2>1 DEF Sound, Kept
    <3> QED BY <1>2, <1>5, <2>1, <3>1
  <2>2. CASE r.returnCalled
    <3>1. /\ r.gotCancel
          /\ \/ r.sources = <<"cancelled">> /\ a = <<>>
             \/ r.sources = <<>> /\ a = <<"cancelled">> /\ r.result = "cancelled"
      BY <2>2 DEF Sound, Waits
    <3> QED BY <1>2, <1>5, <3>1
  <2> QED BY <2>1, <2>2
<1>7. Placed(s, a, o, FALSE)
  BY <1>1, <1>2, <1>3, <1>6 DEF Placed
<1>8. s.sources # <<>> /\ (a = <<>> => s.result = NoResult)
  BY <1>2, <1>5, <1>6 DEF Sound, Kept
<1>9. Kept(s, a) /\ Waits(s, a, FALSE)
  BY <1>1, <1>3, <1>8 DEF Kept, Waits
<1>10. Jobs(s, o, FALSE) /\ Behind(s, a) /\ Ends(s, a, FALSE, c)
  BY <1>1, <1>2, <1>3 DEF Sound, Jobs, Behind, Ends
<1> QED BY <1>7, <1>9, <1>10 DEF Sound, s

\* A task that waits is told that the other one is gone.
LEMMA OrphanSound ==
    ASSUME NEW r \in Record, NEW a, NEW o, NEW c \in BOOLEAN,
           Sound(r, a, o, TRUE, c)
    PROVE  LET s == Return(r, "orphaned", TRUE)
           IN  /\ s \in Record
               /\ Sound(s, a, o, FALSE, c)
               /\ s.chained = r.chained /\ s.disposed = r.disposed /\ s.result = r.result
               /\ \/ s.sources = r.sources
                  \/ s.sources = <<"orphaned">>
<1> DEFINE x == "orphaned"
           s == Return(r, x, TRUE)
<1>1. x \in Results
  BY DEF Results
<1>2. x # "cancelled"
  OBVIOUS
<1> HIDE DEF x
<1>3. /\ s \in Record
      /\ s.job = r.job /\ s.returnOnCancel = r.returnOnCancel
      /\ s.cancelled = r.cancelled /\ s.cancelSource = r.cancelSource
      /\ s.worker = r.worker /\ s.result = r.result /\ s.chained = r.chained
      /\ s.completed = r.completed /\ s.held = r.held /\ s.disposed = r.disposed
      /\ s.returnCalled /\ ~s.cancelHandler
  BY <1>1, ReturnFields
<1>4. r.returnCalled =>
        /\ s.gotCancel = r.gotCancel /\ s.threadResult = r.threadResult
        /\ s.returnSource = r.returnSource /\ s.sources = r.sources
  BY <1>1, ReturnLate
<1>5. ~r.returnCalled =>
        /\ s.gotCancel <=> (x = "cancelled")
        /\ s.returnSource /\ s.sources = Append(r.sources, x)
        /\ s.threadResult = r.threadResult
  BY <1>1, ReturnInTime
<1> HIDE DEF s
<1>6. r.job = "chained" /\ r.worker = "none" /\ o # NoTask /\ r.threadResult = NoResult
  BY DEF Sound, Waits, Jobs, Kept
<1>7. CASE r.returnCalled
  <2>1. Sound(s, a, o, FALSE, c)
    BY <1>3, <1>4, <1>6, <1>7 DEF Sound, Placed, Kept, Waits, Jobs, Behind, Ends
  <2> QED BY <1>3, <1>4, <1>7, <2>1 DEF s, x
<1>8. CASE ~r.returnCalled
  <2>1. r.sources = <<>> /\ a = <<>> /\ r.result = NoResult
    BY <1>8 DEF Sound, Kept
  <2>2. Append(<<>>, x) = <<x>> /\ <<x>> # <<>>
    BY <1>1, Short
  <2>3. s.sources = <<x>> /\ s.returnSource /\ ~s.gotCancel /\ s.threadResult = NoResult
    BY <1>2, <1>5, <1>6, <1>8, <2>1, <2>2
  <2>4. Placed(s, a, o, FALSE)
    BY <1>1, <2>1, <2>3 DEF Placed
  <2>5. Kept(s, a) /\ Waits(s, a, FALSE)
    BY <1>3, <2>1, <2>2, <2>3 DEF Kept, Waits
  <2>6. Jobs(s, o, FALSE) /\ Behind(s, a) /\ Ends(s, a, FALSE, c)
    BY <1>3, <1>6, <2>1, <2>3 DEF Sound, Jobs, Behind, Ends
  <2>7. Sound(s, a, o, FALSE, c)
    BY <2>4, <2>5, <2>6 DEF Sound
  <2> QED BY <1>3, <2>3, <2>7 DEF s, x
<1> QED BY <1>7, <1>8

LEMMA StillInv ==
    ASSUME IInv, UNCHANGED <<task, stack, asserts, answers, onto>>,
           aborted' \in BOOLEAN, AbortsOnlyChained'
    PROVE  IInv'
<1>1. TypeOK'
  BY DEF IInv, TypeOK
<1>2. SoundInv'
  BY DEF IInv, SoundInv, Waiting, InCallback
<1>3. ChainInv'
  BY DEF IInv, ChainInv
<1>4. AnswerInv' /\ StackInv'
  BY DEF IInv, AnswerInv, StackInv, Given
<1> QED BY <1>1, <1>2, <1>3, <1>4 DEF IInv

LEMMA ReturnAbortInv ==
    ASSUME IInv, NEW t \in Task, ReturnAbort(t)
    PROVE  IInv'
<1> DEFINE r == task[t]
<1>1. Sound(r, answers[t], onto[t], Waiting(t), InCallback(t))
  BY DEF IInv, SoundInv
<1>2. /\ aborted' = TRUE /\ UNCHANGED <<task, stack, asserts, answers, onto>>
      /\ r.sources # <<>> /\ ~AssertsHold(t)
  BY DEF ReturnAbort
<1>3. ~r.returnSource \/ (~Discards(t) /\ (r.result # NoResult \/ ~r.returnCalled))
  BY <1>2 DEF AssertsHold
<1> HIDE DEF r
<1>4. r.returnCalled
  BY <1>1, <1>2 DEF Sound, Kept
<1>5. r.gotCancel /\ onto[t] # NoTask
  BY <1>1, <1>2, <1>3, <1>4 DEF Sound, Placed, Kept
<1>6. r.returnOnCancel
  BY <1>1, <1>5 DEF Sound, Jobs
<1>7. AbortsOnlyChained'
  BY <1>2, <1>5, <1>6 DEF AbortsOnlyChained, r
<1> QED BY <1>2, <1>7, StillInv

LEMMA InitInv == Init => IInv
<1> SUFFICES ASSUME Init
             PROVE  IInv
  OBVIOUS
<1>1. TypeOK
  <2>1. <<>> \in Seq(Results) /\ <<>> \in Seq(Frame)
    OBVIOUS
  <2> QED BY <2>1 DEF Init, TypeOK, Record
<1>2. \A t \in Task : ~Waiting(t) /\ ~InCallback(t)
  <2>1. DOMAIN stack = {}
    BY DEF Init
  <2>2. \A p \in Task : task[p].chained = {}
    BY DEF Init
  <2> QED BY <2>1, <2>2 DEF Waiting, InCallback
<1>3. SoundInv
  BY <1>2 DEF Init, SoundInv, Sound, Placed, Kept, Waits, Jobs, Behind, Ends
<1>4. ChainInv
  BY DEF Init, ChainInv
<1>5. AnswerInv /\ StackInv /\ AbortsOnlyChained
  BY DEF Init, AnswerInv, StackInv, AbortsOnlyChained, Given
<1> QED BY <1>1, <1>3, <1>4, <1>5 DEF IInv

LEMMA ReturnCbInv ==
    ASSUME IInv, NEW t \in Task, ReturnCb(t)
    PROVE  IInv'
<1> DEFINE r == task[t]
           x == Head(r.sources)
           fired == Dispatched(t)
           new == [fired EXCEPT !.result = x, !.chained = {}]
           frame == [kind |-> "callback", task |-> t, copy |-> x, chained |-> r.chained]
           n == Len(stack)
<1>1. /\ r \in Record /\ r.sources # <<>> /\ r.sources \in Seq(Results) /\ x \in Results
      /\ r.chained \subseteq Task
  <2>1. r \in Record /\ r.sources # <<>>
    BY DEF IInv, TypeOK, ReturnCb
  <2>2. r.sources \in Seq(Results) /\ r.chained \subseteq Task
    BY <2>1 DEF Record
  <2> QED BY <2>1, <2>2
<1>2. Sound(r, answers[t], onto[t], Waiting(t), InCallback(t))
  BY DEF IInv, SoundInv
<1>3. /\ task' = [task EXCEPT ![t] = new] /\ stack' = Append(stack, frame)
      /\ answers' = [answers EXCEPT ![t] = Append(@, x)]
      /\ ~aborted /\ UNCHANGED <<asserts, aborted, onto>>
  BY DEF ReturnCb, Dispatching, Settled
<1>4. ~(r.gotCancel /\ r.result # NoResult)
  BY DEF ReturnCb, Discards
<1>5. /\ stack \in Seq(Frame) /\ n \in Nat /\ DOMAIN stack = 1..n
      /\ \A i \in 1..n : stack[i].task \in Task
  <2>1. stack \in Seq(Frame) /\ n \in Nat /\ DOMAIN stack = 1..n
    BY DEF IInv, TypeOK
  <2> QED BY <2>1, FrameType DEF IInv
<1>6. /\ frame \in Frame /\ frame.kind = "callback" /\ frame.task = t
      /\ frame.copy = x /\ frame.chained = r.chained
  BY <1>1 DEF Frame
<1> HIDE DEF frame, x, n
<1>7. /\ stack' \in Seq(Frame) /\ DOMAIN stack' = 1..(n + 1)
      /\ \A i \in 1..n : stack'[i] = stack[i]
      /\ stack'[n + 1] = frame
  BY <1>3, <1>5, <1>6 DEF n
<1>8. /\ fired \in Record
      /\ fired.job = r.job /\ fired.returnCalled = r.returnCalled
      /\ fired.gotCancel = r.gotCancel /\ fired.returnOnCancel = r.returnOnCancel
      /\ fired.cancelHandler = r.cancelHandler /\ fired.cancelled = r.cancelled
      /\ fired.cancelSource = r.cancelSource /\ fired.worker = r.worker
      /\ fired.threadResult = r.threadResult
  BY <1>1, DispatchedEffect
<1>9. /\ fired.returnSource = FALSE /\ fired.sources = Tail(r.sources)
      /\ fired.result = r.result /\ fired.chained = r.chained
      /\ fired.completed = r.completed /\ fired.held = r.held
      /\ fired.disposed = r.disposed
  BY <1>1, DispatchedEffect
<1> HIDE DEF fired, r
<1>10. new \in Record
  BY <1>1, <1>8 DEF Record
<1>11. /\ new.job = fired.job /\ new.returnCalled = fired.returnCalled
       /\ new.gotCancel = fired.gotCancel
       /\ new.returnOnCancel = fired.returnOnCancel
       /\ new.cancelHandler = fired.cancelHandler /\ new.cancelled = fired.cancelled
       /\ new.cancelSource = fired.cancelSource /\ new.worker = fired.worker
       /\ new.threadResult = fired.threadResult
  BY <1>8 DEF Record
<1>12. /\ new.returnSource = fired.returnSource /\ new.sources = fired.sources
       /\ new.result = x /\ new.chained = {} /\ new.completed = fired.completed
       /\ new.held = fired.held /\ new.disposed = fired.disposed
  BY <1>8 DEF Record
<1> HIDE DEF new
<1>13. /\ r.returnCalled /\ ~r.disposed /\ r.threadResult = NoResult /\ r.job # "new"
  BY <1>1, <1>2 DEF Sound, Kept, Ends, Jobs
<1>14. /\ answers[t] = <<>>
       /\ \/ r.sources = <<x>> /\ new.sources = <<>>
          \/ /\ r.gotCancel /\ onto[t] # NoTask /\ ~Waiting(t) /\ x = "cancelled"
             /\ \E y \in Results : new.sources = <<y>>
  <2>1. "cancelled" \in Results /\ "cancelled" # NoResult
    BY DEF Results
  <2>2. CASE \E y \in Results : r.sources = <<y>> /\ answers[t] = <<>>
    <3>1. PICK y \in Results : r.sources = <<y>> /\ answers[t] = <<>>
      BY <2>2
    <3>2. Head(<<y>>) = y /\ Tail(<<y>>) = <<>>
      BY Short
    <3> QED BY <1>9, <1>12, <3>1, <3>2 DEF x
  <2>3. CASE /\ r.gotCancel /\ onto[t] # NoTask /\ ~Waiting(t)
             /\ \E y \in Results : r.sources = <<"cancelled", y>> /\ answers[t] = <<>>
    <3>1. PICK y \in Results : r.sources = <<"cancelled", y>> /\ answers[t] = <<>>
      BY <2>3
    <3>2. Head(<<"cancelled", y>>) = "cancelled" /\ Tail(<<"cancelled", y>>) = <<y>>
      BY <2>1, Short
    <3> QED BY <1>9, <1>12, <2>3, <3>1, <3>2 DEF x
  <2> QED BY <1>1, <1>2, <1>4, <2>1, <2>2, <2>3 DEF Sound, Placed
<1>15. answers' \in [Task -> Seq(Results)] /\ answers'[t] = <<x>> /\ <<x>> # <<>>
  <2>1. answers \in [Task -> Seq(Results)]
    BY DEF IInv, TypeOK
  <2>2. Append(<<>>, x) = <<x>> /\ <<x>> # <<>> /\ <<x>> \in Seq(Results)
    BY <1>1, Short
  <2> QED BY <1>3, <1>14, <2>1, <2>2
<1>16. \A o \in Task \ {t} : task'[o] = task[o] /\ answers'[o] = answers[o]
  BY <1>3 DEF IInv, TypeOK
<1>17. task' \in [Task -> Record] /\ task'[t] = new
  BY <1>3, <1>10 DEF IInv, TypeOK
<1>18. Sound(new, <<x>>, onto[t], Waiting(t), TRUE)
  <2>1. Placed(new, <<x>>, onto[t], Waiting(t))
    BY <1>1, <1>8, <1>9, <1>11, <1>12, <1>14 DEF Placed
  <2>2. Kept(new, <<x>>)
    BY <1>8, <1>9, <1>11, <1>12, <1>13, <1>15 DEF Kept
  <2>3. \A y \in Results : <<x>> = <<y>> => x = y
    BY <1>1, Short
  <2>4. "cancelled" \in Results
    BY DEF Results
  <2>5. Waits(new, <<x>>, Waiting(t))
    <3>1. Waiting(t) => /\ r.job = "chained" /\ r.gotCancel
                        /\ r.sources = <<"cancelled">>
      BY <1>1, <1>2, <1>13 DEF Sound, Waits
    <3> QED BY <1>8, <1>9, <1>11, <1>12, <1>14, <2>3, <2>4, <3>1 DEF Waits
  <2>6. Jobs(new, onto[t], Waiting(t))
    BY <1>2, <1>8, <1>9, <1>11, <1>12, <1>13 DEF Sound, Jobs
  <2>7. Behind(new, <<x>>)
    <3>1. r.worker \in {"queued", "running"} => r.sources = <<"cancelled">> /\ onto[t] = NoTask
      BY <1>1, <1>2 DEF Sound, Behind, Jobs
    <3> QED BY <1>8, <1>9, <1>11, <1>12, <1>14, <2>3, <2>4, <3>1 DEF Behind
  <2>8. Ends(new, <<x>>, Waiting(t), TRUE)
    BY <1>9, <1>12, <1>13 DEF Ends
  <2> QED BY <2>1, <2>2, <2>5, <2>6, <2>7, <2>8 DEF Sound
<1>19. TypeOK'
  BY <1>3, <1>7, <1>15, <1>17 DEF IInv, TypeOK
<1>20. \A o \in Task : (Waiting(o)' <=> Waiting(o))
  <2> SUFFICES ASSUME NEW o \in Task
               PROVE  Waiting(o)' <=> Waiting(o)
    OBVIOUS
  <2>1. (\E p \in Task : o \in task[p].chained) <=>
          (o \in r.chained \/ \E p \in Task : o \in task'[p].chained)
    BY <1>12, <1>16, <1>17 DEF r
  <2>2. (\E i \in DOMAIN stack' : o \in stack'[i].chained) <=>
          (o \in r.chained \/ \E i \in DOMAIN stack : o \in stack[i].chained)
    <3>1. \A i \in DOMAIN stack' : i \in 1..n \/ i = n + 1
      BY <1>5, <1>7
    <3>2. n + 1 \in DOMAIN stack' /\ \A i \in 1..n : i \in DOMAIN stack'
      BY <1>5, <1>7
    <3> QED BY <1>5, <1>6, <1>7, <3>1, <3>2
  <2> QED BY <2>1, <2>2 DEF Waiting
<1>21. InCallback(t)' /\ \A o \in Task \ {t} : (InCallback(o)' <=> InCallback(o))
  <2>1. \A i \in DOMAIN stack' : i \in 1..n \/ i = n + 1
    BY <1>5, <1>7
  <2>2. n + 1 \in DOMAIN stack' /\ \A i \in 1..n : i \in DOMAIN stack'
    BY <1>5, <1>7
  <2> QED BY <1>5, <1>6, <1>7, <2>1, <2>2 DEF InCallback
<1>22. SoundInv'
  <2> SUFFICES ASSUME NEW o \in Task
               PROVE  Sound(task'[o], answers'[o], onto'[o], Waiting(o)', InCallback(o)')
    BY DEF SoundInv
  <2>1. Waiting(o) \in BOOLEAN /\ Waiting(o)' \in BOOLEAN /\ InCallback(o) \in BOOLEAN /\ InCallback(o)' \in BOOLEAN
    BY DEF Waiting, InCallback
  <2>2. Waiting(o)' <=> Waiting(o)
    BY <1>20
  <2>3. CASE o = t
    <3>1. InCallback(o)' <=> TRUE
      BY <1>21, <2>3
    <3>2. Sound(task'[o], answers'[o], onto[o], Waiting(o), TRUE)
      BY <1>15, <1>17, <1>18, <2>3
    <3>3. Sound(task'[o], answers'[o], onto[o], Waiting(o)', InCallback(o)')
      BY <2>1, <2>2, <3>1, <3>2, SoundSame
    <3> QED BY <1>3, <3>3
  <2>4. CASE o # t
    <3>1. InCallback(o)' <=> InCallback(o)
      BY <1>21, <2>4
    <3>2. Sound(task'[o], answers'[o], onto[o], Waiting(o), InCallback(o))
      BY <1>16, <2>4 DEF IInv, SoundInv
    <3>3. Sound(task'[o], answers'[o], onto[o], Waiting(o)', InCallback(o)')
      BY <2>1, <2>2, <3>1, <3>2, SoundSame
    <3> QED BY <1>3, <3>3
  <2> QED BY <2>3, <2>4
<1>23. ChainInv'
  <2>1. \A i \in DOMAIN stack' : (i \in 1..n /\ stack'[i] = stack[i]) \/ (i = n + 1 /\ stack'[i] = frame)
    BY <1>5, <1>7
  <2>2. /\ \A p, o \in Task : o \in task'[p].chained => p # t /\ o \in task[p].chained
        /\ \A o \in r.chained : o \in Task /\ onto[o] = t /\ o \in task[t].chained
    BY <1>1, <1>12, <1>16, <1>17 DEF IInv, ChainInv, r
  <2>3. \A i \in 1..n : stack[i].chained \cap r.chained = {}
    BY <1>5 DEF IInv, ChainInv, r
  <2>4. \A p, o \in Task : o \in task'[p].chained => onto'[o] = p
    BY <1>3, <2>2 DEF IInv, ChainInv
  <2>5. \A i \in DOMAIN stack' : \A o \in stack'[i].chained : onto'[o] = stack'[i].task
    BY <1>3, <1>5, <1>6, <2>1, <2>2 DEF IInv, ChainInv
  <2>6. \A i \in DOMAIN stack' : \A p \in Task : \A o \in stack'[i].chained : o \notin task'[p].chained
    <3> SUFFICES ASSUME NEW i \in DOMAIN stack', NEW p \in Task, NEW o \in stack'[i].chained,
                        o \in task'[p].chained
                 PROVE  FALSE
      OBVIOUS
    <3>1. task'[p] \in Record
      BY <1>17
    <3>2. o \in Task
      BY <3>1 DEF Record
    <3>3. p # t /\ o \in task[p].chained /\ onto[o] = p
      BY <2>2, <3>2 DEF IInv, ChainInv
    <3>4. CASE i \in 1..n /\ stack'[i] = stack[i]
      BY <1>5, <3>3, <3>4 DEF IInv, ChainInv
    <3>5. CASE stack'[i] = frame
      BY <1>6, <2>2, <3>3, <3>5
    <3> QED BY <2>1, <3>4, <3>5
  <2>7. \A i, j \in DOMAIN stack' : i # j => stack'[i].chained \cap stack'[j].chained = {}
    BY <1>5, <1>6, <2>1, <2>3 DEF IInv, ChainInv
  <2>8. \A o \in Task : onto'[o] # o
    BY <1>3 DEF IInv, ChainInv
  <2> QED BY <2>4, <2>5, <2>6, <2>7, <2>8 DEF ChainInv
<1>24. AnswerInv'
  <2>1. \A o \in Task \ {t} : Given(o)' = Given(o)
    BY <1>16 DEF Given
  <2>2. Given(t)' = {x} /\ Given(t) = {}
    BY <1>14, <1>15 DEF Given
  <2>3. \A o \in Task : Given(o) \subseteq Given(o)'
    BY <2>1, <2>2
  <2>4. \A o \in Task : task'[o].result # NoResult => task'[o].result \in Given(o)'
    BY <1>12, <1>16, <1>17, <2>1, <2>2 DEF IInv, AnswerInv
  <2> DEFINE given(o) == {answers'[o][j] : j \in DOMAIN answers'[o]}
  <2>5. \A o \in Task : Given(o)' = given(o)
    BY DEF Given
  <2> HIDE DEF given
  <2>6. \A i \in DOMAIN stack' : stack'[i].kind = "callback" => stack'[i].copy \in given(stack'[i].task)
    <3>1. \A i \in DOMAIN stack' : (i \in 1..n /\ stack'[i] = stack[i]) \/ (i = n + 1 /\ stack'[i] = frame)
      BY <1>5, <1>7
    <3>2. \A i \in 1..n : stack[i].kind = "callback" => stack[i].copy \in Given(stack[i].task)
      BY <1>5 DEF IInv, AnswerInv
    <3>3. \A i \in 1..n : stack[i].kind = "callback" => stack[i].copy \in given(stack[i].task)
      BY <1>5, <2>3, <2>5, <3>2
    <3>4. x \in given(t)
      BY <2>2, <2>5
    <3> QED BY <1>6, <3>1, <3>3, <3>4
  <2>7. \A o \in Task : onto[o] # NoTask => onto[o] \in Task /\ onto[o] # o
    BY DEF IInv, TypeOK, ChainInv
  <2>8. \A o \in Task : onto[o] # NoTask =>
          /\ \A i \in DOMAIN task[o].sources :
               task[o].sources[i] \in {"cancelled", "orphaned"} \cup Given(onto[o])
          /\ Given(o) \subseteq {"cancelled", "orphaned"} \cup Given(onto[o])
    BY DEF IInv, AnswerInv
  <2>9. \A i \in DOMAIN new.sources : \E j \in DOMAIN r.sources : new.sources[i] = r.sources[j]
    <3>1. new.sources = Tail(r.sources)
      BY <1>9, <1>12
    <3>2. \A i \in DOMAIN Tail(r.sources) : i + 1 \in DOMAIN r.sources /\ Tail(r.sources)[i] = r.sources[i + 1]
      BY <1>1
    <3> QED BY <3>1, <3>2
  <2>10. onto[t] # NoTask => x \in {"cancelled", "orphaned"} \cup Given(onto[t])
    <3>1. 1 \in DOMAIN r.sources /\ x = r.sources[1]
      BY <1>1 DEF x
    <3> QED BY <2>8, <3>1 DEF r
  <2>11. \A o \in Task : onto[o] # NoTask =>
          /\ \A i \in DOMAIN task'[o].sources :
               task'[o].sources[i] \in {"cancelled", "orphaned"} \cup Given(onto[o])
          /\ Given(o)' \subseteq {"cancelled", "orphaned"} \cup Given(onto[o])
    <3> SUFFICES ASSUME NEW o \in Task, onto[o] # NoTask
                 PROVE  /\ \A i \in DOMAIN task'[o].sources :
                             task'[o].sources[i] \in {"cancelled", "orphaned"} \cup Given(onto[o])
                        /\ Given(o)' \subseteq {"cancelled", "orphaned"} \cup Given(onto[o])
      OBVIOUS
    <3>1. CASE o = t
      BY <1>17, <2>2, <2>8, <2>9, <2>10, <3>1 DEF r
    <3>2. CASE o # t
      BY <1>16, <2>1, <2>8, <3>2
    <3> QED BY <3>1, <3>2
  <2>12. \A o \in Task : onto[o] # NoTask =>
          /\ \A i \in DOMAIN task'[o].sources :
               task'[o].sources[i] \in {"cancelled", "orphaned"} \cup Given(onto[o])'
          /\ Given(o)' \subseteq {"cancelled", "orphaned"} \cup Given(onto[o])'
    BY <1>3, <2>3, <2>7, <2>11
  <2>13. \A i \in DOMAIN stack' : stack'[i].kind = "callback" =>
           stack'[i].copy \in {answers'[stack'[i].task][j] : j \in DOMAIN answers'[stack'[i].task]}
    BY <2>6 DEF given
  <2>14. /\ \A o \in Task : task'[o].result # NoResult => task'[o].result \in Given(o)'
         /\ \A o \in Task : onto'[o] # NoTask =>
              /\ \A i \in DOMAIN task'[o].sources :
                   task'[o].sources[i] \in {"cancelled", "orphaned"} \cup Given(onto[o])'
              /\ Given(o)' \subseteq {"cancelled", "orphaned"} \cup Given(onto[o])'
    BY <1>3, <2>4, <2>12
  <2> QED BY <2>13, <2>14 DEF AnswerInv, Given
<1>25. StackInv'
  <2>1. \A i \in DOMAIN stack' : (i \in 1..n /\ stack'[i] = stack[i]) \/ (i = n + 1 /\ stack'[i] = frame)
    BY <1>5, <1>7
  <2>2. \A o \in Task : task'[o].disposed = task[o].disposed
    BY <1>9, <1>12, <1>16, <1>17 DEF r
  <2>3. \A i \in 1..n : stack[i].task \in Task /\ ~task[stack[i].task].disposed
                        /\ (stack[i].kind = "wait" => stack[i].chained = {})
    BY <1>5 DEF IInv, StackInv
  <2> QED BY <1>6, <1>13, <2>1, <2>2, <2>3 DEF StackInv, r
<1>26. AbortsOnlyChained'
  BY <1>3 DEF AbortsOnlyChained
<1> QED BY <1>19, <1>22, <1>23, <1>24, <1>25, <1>26 DEF IInv

\* Steps that only take from what waits and from the stack.
LEMMA LessInv ==
    ASSUME IInv, ~aborted, UNCHANGED <<asserts, aborted, answers, onto>>,
           task' \in [Task -> Record], stack' \in Seq(Frame),
           \A i \in DOMAIN stack' : i \in DOMAIN stack /\ stack'[i] = stack[i],
           \A o \in Task : /\ task'[o].chained \subseteq task[o].chained
                           /\ task'[o].result \in {NoResult, task[o].result},
           \A i \in DOMAIN stack' : ~task'[stack[i].task].disposed,
           \A o \in Task : onto[o] # NoTask =>
             \A i \in DOMAIN task'[o].sources :
               task'[o].sources[i] \in {"cancelled", "orphaned"} \cup Given(onto[o]),
           SoundInv'
    PROVE  IInv'
<1>1. TypeOK'
  BY DEF IInv, TypeOK
<1>2. ChainInv'
  BY DEF IInv, ChainInv
<1>3. AnswerInv'
  <2>1. \A o \in Task : Given(o)' = Given(o)
    BY DEF Given
  <2>2. \A o \in Task : task'[o].result # NoResult => task'[o].result \in Given(o)
    BY DEF IInv, AnswerInv
  <2>3. \A i \in DOMAIN stack' : stack'[i].kind = "callback" =>
          stack'[i].copy \in Given(stack'[i].task) /\ stack'[i].task \in Task
    BY FrameType DEF IInv, AnswerInv
  <2>4. \A o \in Task : onto[o] # NoTask =>
          onto[o] \in Task /\ Given(o) \subseteq {"cancelled", "orphaned"} \cup Given(onto[o])
    BY DEF IInv, AnswerInv, TypeOK
  <2> QED BY <2>1, <2>2, <2>3, <2>4 DEF AnswerInv
<1>4. StackInv'
  BY DEF IInv, StackInv
<1>5. AbortsOnlyChained'
  BY DEF AbortsOnlyChained
<1> QED BY <1>1, <1>2, <1>3, <1>4, <1>5 DEF IInv

LEMMA DisposeInv ==
    ASSUME IInv, NEW t \in Task, Dispose(t)
    PROVE  IInv'
<1> DEFINE r == task[t]
           gone == [r EXCEPT !.chained = {}, !.result = NoResult, !.disposed = TRUE]
<1>1. /\ r \in Record /\ r.chained \subseteq Task /\ stack \in Seq(Frame)
      /\ task \in [Task -> Record]
  <2>1. r \in Record /\ stack \in Seq(Frame) /\ task \in [Task -> Record]
    BY DEF IInv, TypeOK
  <2> QED BY <2>1 DEF Record
<1>2. \A o \in Task : Sound(task[o], answers[o], onto[o], Waiting(o), InCallback(o))
  BY DEF IInv, SoundInv
<1>3. /\ task' = [o \in Task |-> IF o = t THEN gone
                                ELSE IF o \in r.chained THEN Return(task[o], "orphaned", TRUE)
                                ELSE task[o]]
      /\ ~aborted /\ UNCHANGED <<stack, asserts, aborted, answers, onto>>
  BY DEF Dispose
<1>4. /\ r.job # "new" /\ ~r.held /\ r.job # "main" /\ r.sources = <<>>
      /\ ~r.cancelSource /\ ~r.cancelHandler /\ r.worker \notin {"queued", "running"}
  BY DEF Dispose, Doomed, Referenced, References
<1>5. ~Waiting(t) /\ ~InCallback(t) /\ \A i \in DOMAIN stack : stack[i].task # t
  BY DEF Dispose, Doomed, Referenced, References, Waiting, InCallback
<1>6. \A o \in r.chained : /\ o # t /\ onto[o] = t /\ Waiting(o)
                          /\ \A p \in Task : o \in task[p].chained => p = t
  BY <1>1 DEF IInv, ChainInv, Waiting
<1>7. \A i \in DOMAIN stack : \A o \in r.chained : o \notin stack[i].chained
  BY <1>1 DEF IInv, ChainInv
<1> HIDE DEF r
<1>8. gone \in Record
  BY <1>1 DEF Record
<1>9. /\ gone.job = r.job /\ gone.returnCalled = r.returnCalled
      /\ gone.gotCancel = r.gotCancel /\ gone.returnOnCancel = r.returnOnCancel
      /\ gone.cancelHandler = r.cancelHandler /\ gone.cancelled = r.cancelled
      /\ gone.cancelSource = r.cancelSource /\ gone.worker = r.worker
      /\ gone.threadResult = r.threadResult
  BY <1>1 DEF Record
<1>10. /\ gone.returnSource = r.returnSource /\ gone.sources = r.sources
      /\ gone.result = NoResult /\ gone.chained = {} /\ gone.completed = r.completed
      /\ gone.held = r.held /\ gone.disposed = TRUE
  BY <1>1 DEF Record
<1> HIDE DEF gone
<1>11. \A w \in BOOLEAN, c \in BOOLEAN : ~w /\ ~c => Sound(gone, answers[t], onto[t], w, c)
  <2> SUFFICES ASSUME NEW w \in BOOLEAN, NEW c \in BOOLEAN, ~w, ~c
               PROVE  Sound(gone, answers[t], onto[t], w, c)
    OBVIOUS
  <2>1. Sound(r, answers[t], onto[t], Waiting(t), InCallback(t))
    BY <1>2 DEF r
  <2>2. r.threadResult = NoResult
    BY <1>4, <2>1 DEF Sound, Kept
  <2>3. Placed(gone, answers[t], onto[t], w)
    <3>1. (r.sources = <<>> /\ answers[t] = <<>>) \/ \E x \in Results : answers[t] = <<x>> /\ r.sources = <<>>
      <4>1. \A x \in Results : <<x>> # <<>> /\ <<"cancelled", x>> # <<>>
        <5>1. "cancelled" \in Results
          BY DEF Results
        <5> QED BY <5>1, Short
      <4> QED BY <1>4, <2>1, <4>1 DEF Sound, Placed
    <3> QED BY <1>10, <3>1 DEF Placed
  <2>4. Kept(gone, answers[t])
    BY <1>9, <1>10, <2>1, <2>2 DEF Sound, Kept
  <2>5. Waits(gone, answers[t], w) /\ Behind(gone, answers[t])
    BY <1>4, <1>9, <1>10 DEF Waits, Behind
  <2>6. Jobs(gone, onto[t], w)
    BY <1>4, <1>5, <1>9, <1>10, <2>1 DEF Sound, Jobs
  <2>7. r.completed \/ (~r.returnCalled /\ r.worker = "ended")
    <3>1. CASE r.returnCalled
      <4>1. answers[t] # <<>>
        BY <1>4, <2>1, <2>2, <3>1 DEF Sound, Kept
      <4> QED BY <1>5, <2>1, <4>1 DEF Sound, Ends
    <3>2. CASE ~r.returnCalled
      <4>1. r.job \in {"new", "main", "thread", "chained", "returned"}
        BY <1>1 DEF Record
      <4> QED BY <1>4, <1>5, <2>1, <3>2, <4>1 DEF Sound, Jobs
    <3> QED BY <3>1, <3>2
  <2>8. Ends(gone, answers[t], w, c)
    BY <1>4, <1>9, <1>10, <2>1, <2>2, <2>7, <1>5 DEF Sound, Ends
  <2> QED BY <2>3, <2>4, <2>5, <2>6, <2>8 DEF Sound
<1>12. /\ task'[t] = gone
       /\ \A o \in r.chained : task'[o] = Return(task[o], "orphaned", TRUE)
       /\ \A o \in Task : o # t /\ o \notin r.chained => task'[o] = task[o]
  BY <1>1, <1>3, <1>6
<1>13. \A o \in r.chained :
         /\ task'[o] \in Record /\ \A c \in BOOLEAN : (c <=> InCallback(o)) =>
              Sound(task'[o], answers[o], onto[o], FALSE, c)
         /\ task'[o].chained = task[o].chained /\ task'[o].disposed = task[o].disposed
         /\ task'[o].result = task[o].result
         /\ task'[o].sources = task[o].sources \/ task'[o].sources = <<"orphaned">>
  <2> SUFFICES ASSUME NEW o \in r.chained
               PROVE  /\ task'[o] \in Record /\ \A c \in BOOLEAN : (c <=> InCallback(o)) =>
                           Sound(task'[o], answers[o], onto[o], FALSE, c)
                      /\ task'[o].chained = task[o].chained /\ task'[o].disposed = task[o].disposed
                      /\ task'[o].result = task[o].result
                      /\ task'[o].sources = task[o].sources \/ task'[o].sources = <<"orphaned">>
    OBVIOUS
  <2>1. o \in Task /\ task[o] \in Record
    BY <1>1
  <2>2. InCallback(o) \in BOOLEAN /\ Waiting(o) \in BOOLEAN /\ (Waiting(o) <=> TRUE)
    BY <1>6 DEF InCallback, Waiting
  <2>3. Sound(task[o], answers[o], onto[o], Waiting(o), InCallback(o))
    BY <1>2, <2>1
  <2>4. Sound(task[o], answers[o], onto[o], TRUE, InCallback(o))
    BY <2>2, <2>3, SoundSame
  <2>5. /\ task'[o] \in Record /\ Sound(task'[o], answers[o], onto[o], FALSE, InCallback(o))
        /\ task'[o].chained = task[o].chained /\ task'[o].disposed = task[o].disposed
        /\ task'[o].result = task[o].result
        /\ task'[o].sources = task[o].sources \/ task'[o].sources = <<"orphaned">>
    <3> DEFINE s == Return(task[o], "orphaned", TRUE)
    <3>1. task'[o] = s
      BY <1>12
    <3>2. /\ s \in Record /\ Sound(s, answers[o], onto[o], FALSE, InCallback(o))
          /\ s.chained = task[o].chained /\ s.disposed = task[o].disposed
          /\ s.result = task[o].result
          /\ s.sources = task[o].sources \/ s.sources = <<"orphaned">>
      <4> DEFINE c == InCallback(o)
                 q == task[o]
      <4>1. c \in BOOLEAN /\ q \in Record /\ Sound(q, answers[o], onto[o], TRUE, c)
        BY <2>1, <2>2, <2>4
      <4> HIDE DEF c, q
      <4>2. LET e == Return(q, "orphaned", TRUE)
            IN  /\ e \in Record
                /\ Sound(e, answers[o], onto[o], FALSE, c)
                /\ e.chained = q.chained /\ e.disposed = q.disposed /\ e.result = q.result
                /\ e.sources = q.sources \/ e.sources = <<"orphaned">>
        BY <4>1, OrphanSound
      <4> QED BY <4>2 DEF c, q
    <3> HIDE DEF s
    <3> QED BY <3>1, <3>2
  <2>6. \A c \in BOOLEAN : (c <=> InCallback(o)) => Sound(task'[o], answers[o], onto[o], FALSE, c)
    BY <2>2, <2>5, SoundSame
  <2> QED BY <2>5, <2>6
<1>14. task' \in [Task -> Record]
  <2>1. \A o \in Task : task'[o] \in Record
    BY <1>1, <1>8, <1>12, <1>13
  <2> QED BY <1>3, <2>1
<1>15. \A o \in Task : (InCallback(o)' <=> InCallback(o))
  BY <1>3 DEF InCallback
<1>16. \A o \in Task : task'[o].chained = IF o = t THEN {} ELSE task[o].chained
  BY <1>10, <1>12, <1>13
<1>17. \A o \in Task : Waiting(o)' <=> (Waiting(o) /\ o \notin r.chained)
  <2> SUFFICES ASSUME NEW o \in Task
               PROVE  Waiting(o)' <=> (Waiting(o) /\ o \notin r.chained)
    OBVIOUS
  <2>1. (\E p \in Task : o \in task'[p].chained) <=> (\E p \in Task : p # t /\ o \in task[p].chained)
    BY <1>16
  <2>2. CASE o \in r.chained
    <3>1. stack' = stack
      BY <1>3
    <3>2. ~ \E p \in Task : o \in task'[p].chained
      BY <1>6, <2>1, <2>2
    <3>3. ~ \E i \in DOMAIN stack' : o \in stack'[i].chained
      <4>1. \A i \in DOMAIN stack : o \notin stack[i].chained
        BY <1>7, <2>2
      <4> QED BY <3>1, <4>1
    <3> QED BY <2>2, <3>2, <3>3 DEF Waiting
  <2>3. CASE o \notin r.chained
    BY <1>3, <2>1, <2>3 DEF Waiting, r
  <2> QED BY <2>2, <2>3
<1>18. SoundInv'
  <2> SUFFICES ASSUME NEW o \in Task
               PROVE  Sound(task'[o], answers'[o], onto'[o], Waiting(o)', InCallback(o)')
    BY DEF SoundInv
  <2>1. Waiting(o) \in BOOLEAN /\ Waiting(o)' \in BOOLEAN /\ InCallback(o) \in BOOLEAN /\ InCallback(o)' \in BOOLEAN
    BY DEF Waiting, InCallback
  <2>2. CASE o = t
    <3>1. ~Waiting(o)' /\ ~InCallback(o)'
      BY <1>5, <1>15, <1>17, <2>2
    <3>2. Sound(gone, answers[t], onto[t], Waiting(o)', InCallback(o)')
      BY <1>11, <2>1, <3>1
    <3> QED BY <1>3, <1>12, <2>2, <3>2
  <2>3. CASE o \in r.chained
    <3>1. (Waiting(o)' <=> FALSE) /\ (InCallback(o)' <=> InCallback(o))
      BY <1>15, <1>17, <2>3
    <3>2. Sound(task'[o], answers[o], onto[o], FALSE, InCallback(o)')
      BY <1>13, <2>1, <2>3, <3>1
    <3>3. Sound(task'[o], answers[o], onto[o], Waiting(o)', InCallback(o)')
      BY <2>1, <3>1, <3>2, SoundSame
    <3> QED BY <1>3, <3>3
  <2>4. CASE o # t /\ o \notin r.chained
    <3>1. (Waiting(o)' <=> Waiting(o)) /\ (InCallback(o)' <=> InCallback(o))
      BY <1>15, <1>17, <2>4
    <3>2. Sound(task'[o], answers[o], onto[o], Waiting(o), InCallback(o))
      BY <1>2, <1>12, <2>4
    <3>3. Sound(task'[o], answers[o], onto[o], Waiting(o)', InCallback(o)')
      BY <2>1, <3>1, <3>2, SoundSame
    <3> QED BY <1>3, <3>3
  <2> QED BY <2>2, <2>3, <2>4
<1>19. \A o \in Task : onto[o] # NoTask =>
         \A i \in DOMAIN task'[o].sources :
           task'[o].sources[i] \in {"cancelled", "orphaned"} \cup Given(onto[o])
  <2> SUFFICES ASSUME NEW o \in Task, onto[o] # NoTask, NEW i \in DOMAIN task'[o].sources
               PROVE  task'[o].sources[i] \in {"cancelled", "orphaned"} \cup Given(onto[o])
    OBVIOUS
  <2>1. CASE task'[o].sources = task[o].sources
    BY <2>1 DEF IInv, AnswerInv
  <2>2. CASE task'[o].sources = <<"orphaned">>
    BY <2>2
  <2> QED BY <1>10, <1>12, <1>13, <2>1, <2>2 DEF r
<1>20. \A i \in DOMAIN stack' : ~task'[stack[i].task].disposed
  <2>1. \A i \in DOMAIN stack : stack[i].task \in Task /\ ~task[stack[i].task].disposed
    BY FrameType DEF IInv, StackInv
  <2>2. \A o \in Task : o # t => task'[o].disposed = task[o].disposed
    BY <1>12, <1>13
  <2> QED BY <1>3, <1>5, <2>1, <2>2
<1>21. \A o \in Task : task'[o].result \in {NoResult, task[o].result}
  BY <1>10, <1>12, <1>13
<1> QED BY <1>1, <1>3, <1>14, <1>16, <1>18, <1>19, <1>20, <1>21, LessInv

LEMMA ReturnCbEndInv ==
    ASSUME IInv, ReturnCbEnd
    PROVE  IInv'
<1> DEFINE n == Len(stack)
           p == Top.task
           x == Top.copy
           L == Top.chained
           R == Orphans(p)
           r == task[p]
           last == [r EXCEPT !.completed = TRUE, !.chained = @ \ R]
<1>1. /\ ~aborted /\ stack # <<>> /\ Top.kind = "callback" /\ stack' = Pop
      /\ UNCHANGED <<asserts, aborted, answers, onto>>
  BY DEF ReturnCbEnd, Settled
<1>2. task' = [o \in Task |-> IF o = p THEN last
                            ELSE IF o \in L THEN Deliver(task[o], x)
                            ELSE IF o \in R THEN Return(task[o], "orphaned", TRUE)
                            ELSE task[o]]
  <2>1. task' = [o \in Task |-> IF o = p THEN [task[o] EXCEPT !.completed = TRUE, !.chained = @ \ Orphans(o)]
                              ELSE IF o \in L THEN Deliver(task[o], x)
                              ELSE IF o \in R THEN Return(task[o], "orphaned", TRUE)
                              ELSE task[o]]
    BY DEF ReturnCbEnd
  <2>2. \A o \in Task : o = p => [task[o] EXCEPT !.completed = TRUE, !.chained = @ \ Orphans(o)] = last
    OBVIOUS
  <2> HIDE DEF p, last, L, R, x
  <2> QED BY <2>1, <2>2
<1>3. /\ stack \in Seq(Frame) /\ n \in Nat \ {0} /\ DOMAIN stack = 1..n /\ n \in DOMAIN stack
      /\ Top = stack[n]
  BY <1>1 DEF IInv, TypeOK, Top
<1>4. /\ p \in Task /\ x \in Results /\ L \subseteq Task
      /\ x \in Given(p) /\ ~task[p].disposed
  BY <1>1, <1>3, FrameType DEF IInv, AnswerInv, StackInv
<1>5. /\ stack' \in Seq(Frame) /\ DOMAIN stack' = 1..(n - 1)
      /\ \A i \in 1..(n - 1) : stack'[i] = stack[i]
  BY <1>1, <1>3 DEF Pop
<1>6. r \in Record /\ R \subseteq r.chained /\ R \subseteq Task /\ task \in [Task -> Record]
  <2>1. r \in Record /\ task \in [Task -> Record]
    BY <1>4 DEF IInv, TypeOK
  <2>2. R \subseteq r.chained
    BY DEF Orphans
  <2> QED BY <2>1, <2>2 DEF Record
<1>7. \A o \in Task : Sound(task[o], answers[o], onto[o], Waiting(o), InCallback(o))
  BY DEF IInv, SoundInv
<1>8. \A o \in L : /\ o # p /\ onto[o] = p /\ Waiting(o)
                   /\ \A q \in Task : o \notin task[q].chained
  BY <1>3, <1>4 DEF IInv, ChainInv, Waiting
<1>9. \A o \in L : \A i \in 1..(n - 1) : o \notin stack[i].chained
  BY <1>3 DEF IInv, ChainInv
<1>10. \A o \in R : /\ o # p /\ onto[o] = p /\ Waiting(o) /\ o \notin L
                    /\ \A q \in Task : o \in task[q].chained => q = p
  BY <1>3, <1>4, <1>6, <1>8 DEF IInv, ChainInv, Waiting
<1>11. \A o \in R : \A i \in DOMAIN stack : o \notin stack[i].chained
  BY <1>4, <1>6 DEF IInv, ChainInv
<1>12. /\ task'[p] = last
       /\ \A o \in L : task'[o] = Deliver(task[o], x)
       /\ \A o \in R : task'[o] = Return(task[o], "orphaned", TRUE)
       /\ \A o \in Task : o # p /\ o \notin L /\ o \notin R => task'[o] = task[o]
  <2> HIDE DEF p, x, L, R, last
  <2> QED BY <1>2, <1>4, <1>6, <1>8, <1>10
<1> HIDE DEF r, p, x, L, R, n
<1>13. last \in Record
  BY <1>6 DEF Record
<1>14. /\ last.job = r.job /\ last.returnCalled = r.returnCalled
       /\ last.gotCancel = r.gotCancel /\ last.returnOnCancel = r.returnOnCancel
       /\ last.cancelHandler = r.cancelHandler /\ last.cancelled = r.cancelled
       /\ last.cancelSource = r.cancelSource /\ last.worker = r.worker
       /\ last.threadResult = r.threadResult
  BY <1>6 DEF Record
<1>15. /\ last.returnSource = r.returnSource /\ last.sources = r.sources
       /\ last.result = r.result /\ last.chained = (r.chained \ R)
       /\ last.completed = TRUE /\ last.held = r.held /\ last.disposed = r.disposed
  BY <1>6 DEF Record
<1> HIDE DEF last
<1>16. \A w \in BOOLEAN, c \in BOOLEAN : (w <=> Waiting(p)) => Sound(last, answers[p], onto[p], w, c)
  <2> SUFFICES ASSUME NEW w \in BOOLEAN, NEW c \in BOOLEAN, w <=> Waiting(p)
               PROVE  Sound(last, answers[p], onto[p], w, c)
    OBVIOUS
  <2>1. Waiting(p) \in BOOLEAN /\ InCallback(p) \in BOOLEAN
    BY DEF Waiting, InCallback
  <2>2. Sound(r, answers[p], onto[p], Waiting(p), InCallback(p))
    BY <1>4, <1>7 DEF r
  <2>3. Sound(r, answers[p], onto[p], w, InCallback(p))
    BY <2>1, <2>2, SoundSame
  <2>4. r.returnCalled /\ r.job # "new" /\ ~r.disposed
    <3>1. answers[p] # <<>>
      BY <1>4 DEF Given
    <3> QED BY <1>4, <2>3, <3>1 DEF Sound, Kept, Jobs, r
  <2> QED BY <1>14, <1>15, <2>3, <2>4 DEF Sound, Placed, Kept, Waits, Jobs, Behind, Ends
<1>17. \A o \in L \cup R :
         /\ task'[o] \in Record
         /\ \A c \in BOOLEAN : (c <=> InCallback(o)) => Sound(task'[o], answers[o], onto[o], FALSE, c)
         /\ task'[o].chained = task[o].chained /\ task'[o].disposed = task[o].disposed
         /\ task'[o].result = task[o].result
         /\ \/ task'[o].sources = task[o].sources
            \/ task'[o].sources = <<"orphaned">>
            \/ o \in L /\ task'[o].sources = Append(task[o].sources, x)
  <2> SUFFICES ASSUME NEW o \in L \cup R
               PROVE  /\ task'[o] \in Record
                      /\ \A c \in BOOLEAN : (c <=> InCallback(o)) => Sound(task'[o], answers[o], onto[o], FALSE, c)
                      /\ task'[o].chained = task[o].chained /\ task'[o].disposed = task[o].disposed
                      /\ task'[o].result = task[o].result
                      /\ \/ task'[o].sources = task[o].sources
                         \/ task'[o].sources = <<"orphaned">>
                         \/ o \in L /\ task'[o].sources = Append(task[o].sources, x)
    OBVIOUS
  <2> DEFINE c == InCallback(o)
             q == task[o]
  <2>1. o \in Task /\ q \in Record
    BY <1>4, <1>6
  <2>2. c \in BOOLEAN /\ Waiting(o) \in BOOLEAN /\ (Waiting(o) <=> TRUE)
    BY <1>8, <1>10 DEF InCallback, Waiting
  <2>3. Sound(q, answers[o], onto[o], Waiting(o), c)
    BY <1>7, <2>1
  <2>4. Sound(q, answers[o], onto[o], TRUE, c)
    BY <2>2, <2>3, SoundSame
  <2>5. c = InCallback(o)
    OBVIOUS
  <2>6. q = task[o]
    OBVIOUS
  <2> HIDE DEF c, q
  <2>7. CASE o \in L
    <3> DEFINE s == Deliver(q, x)
    <3>1. task'[o] = s
      BY <1>12, <2>6, <2>7
    <3>2. Sound(s, answers[o], onto[o], FALSE, c)
      BY <1>4, <2>1, <2>2, <2>4, DeliverSound
    <3>3. /\ s \in Record /\ s.chained = q.chained /\ s.disposed = q.disposed
          /\ s.result = q.result /\ s.sources = Append(q.sources, x)
      BY <1>4, <2>1, DeliverEffect
    <3> HIDE DEF s
    <3>4. \A d \in BOOLEAN : (d <=> c) => Sound(s, answers[o], onto[o], FALSE, d)
      BY <2>2, <3>2, SoundSame
    <3> QED BY <2>5, <2>6, <2>7, <3>1, <3>3, <3>4
  <2>8. CASE o \in R
    <3> DEFINE s == Return(q, "orphaned", TRUE)
    <3>1. task'[o] = s
      BY <1>12, <2>6, <2>8
    <3>2. /\ s \in Record /\ Sound(s, answers[o], onto[o], FALSE, c)
          /\ s.chained = q.chained /\ s.disposed = q.disposed /\ s.result = q.result
          /\ s.sources = q.sources \/ s.sources = <<"orphaned">>
      BY <2>1, <2>2, <2>4, OrphanSound, ZenonT(60)
    <3> HIDE DEF s
    <3>3. \A d \in BOOLEAN : (d <=> c) => Sound(s, answers[o], onto[o], FALSE, d)
      BY <2>2, <3>2, SoundSame
    <3> QED BY <2>5, <2>6, <3>1, <3>2, <3>3
  <2> QED BY <2>7, <2>8
<1>18. task' \in [Task -> Record]
  <2>1. \A o \in Task : task'[o] \in Record
    BY <1>6, <1>12, <1>13, <1>17
  <2> QED BY <1>2, <2>1
<1>19. /\ \A o \in Task : task'[o].chained = IF o = p THEN r.chained \ R ELSE task[o].chained
       /\ \A o \in Task : task'[o].disposed = task[o].disposed /\ task'[o].result = task[o].result
  BY <1>12, <1>15, <1>17 DEF r
<1>20. \A o \in Task \ {p} : (InCallback(o)' <=> InCallback(o))
  <2>1. stack[n].task = p
    BY <1>3 DEF p
  <2>2. \A i \in DOMAIN stack : i = n \/ (i \in DOMAIN stack' /\ stack'[i] = stack[i])
    BY <1>3, <1>5
  <2>3. \A i \in DOMAIN stack' : i \in DOMAIN stack /\ stack'[i] = stack[i]
    BY <1>3, <1>5
  <2> QED BY <2>1, <2>2, <2>3 DEF InCallback
<1>21. \A o \in Task : Waiting(o)' <=> (Waiting(o) /\ o \notin L /\ o \notin R)
  <2> SUFFICES ASSUME NEW o \in Task
               PROVE  Waiting(o)' <=> (Waiting(o) /\ o \notin L /\ o \notin R)
    OBVIOUS
  <2>1. (\E q \in Task : o \in task'[q].chained) <=> ((\E q \in Task : o \in task[q].chained) /\ o \notin R)
    BY <1>10, <1>19, <1>4 DEF r
  <2>2. stack[n].chained = L
    BY <1>3 DEF L
  <2>3. (\E i \in DOMAIN stack : o \in stack[i].chained) <=> (o \in L \/ \E i \in DOMAIN stack' : o \in stack'[i].chained)
    <3>1. \A i \in DOMAIN stack : i = n \/ (i \in DOMAIN stack' /\ stack'[i] = stack[i])
      BY <1>3, <1>5
    <3>2. \A i \in DOMAIN stack' : i \in DOMAIN stack /\ stack'[i] = stack[i]
      BY <1>3, <1>5
    <3> QED BY <1>3, <2>2, <3>1, <3>2
  <2>4. o \in L => ~ \E i \in DOMAIN stack' : o \in stack'[i].chained
    BY <1>5, <1>9
  <2>5. o \in R => ~ \E i \in DOMAIN stack : o \in stack[i].chained
    BY <1>11
  <2>6. o \in L => ~ \E q \in Task : o \in task[q].chained
    BY <1>8
  <2>7. (\E q \in Task : o \in task'[q].chained) \/ (\E i \in DOMAIN stack' : o \in stack'[i].chained)
         <=> /\ (\E q \in Task : o \in task[q].chained) \/ (\E i \in DOMAIN stack : o \in stack[i].chained)
             /\ o \notin L /\ o \notin R
    BY <2>1, <2>3, <2>4, <2>5, <2>6
  <2> QED BY <2>7 DEF Waiting
<1>22. SoundInv'
  <2> SUFFICES ASSUME NEW o \in Task
               PROVE  Sound(task'[o], answers'[o], onto'[o], Waiting(o)', InCallback(o)')
    BY DEF SoundInv
  <2>1. Waiting(o) \in BOOLEAN /\ Waiting(o)' \in BOOLEAN /\ InCallback(o) \in BOOLEAN /\ InCallback(o)' \in BOOLEAN
    BY DEF Waiting, InCallback
  <2>2. CASE o = p
    <3>1. Waiting(o)' <=> Waiting(p)
      BY <1>8, <1>10, <1>21, <2>2
    <3>2. Sound(last, answers[p], onto[p], Waiting(o)', InCallback(o)')
      BY <1>16, <2>1, <3>1
    <3> QED BY <1>1, <1>12, <2>2, <3>2
  <2>3. CASE o \in L \cup R
    <3>1. o # p
      BY <1>8, <1>10, <2>3
    <3>2. (Waiting(o)' <=> FALSE) /\ (InCallback(o)' <=> InCallback(o))
      BY <1>20, <1>21, <2>3, <3>1
    <3>3. Sound(task'[o], answers[o], onto[o], FALSE, InCallback(o)')
      BY <1>17, <2>1, <2>3, <3>2
    <3>4. Sound(task'[o], answers[o], onto[o], Waiting(o)', InCallback(o)')
      BY <2>1, <3>2, <3>3, SoundSame
    <3> QED BY <1>1, <3>4
  <2>4. CASE o # p /\ o \notin L /\ o \notin R
    <3>1. (Waiting(o)' <=> Waiting(o)) /\ (InCallback(o)' <=> InCallback(o))
      BY <1>20, <1>21, <2>4
    <3>2. Sound(task'[o], answers[o], onto[o], Waiting(o), InCallback(o))
      BY <1>7, <1>12, <2>4
    <3>3. Sound(task'[o], answers[o], onto[o], Waiting(o)', InCallback(o)')
      BY <2>1, <3>1, <3>2, SoundSame
    <3> QED BY <1>1, <3>3
  <2> QED BY <2>2, <2>3, <2>4
<1>23. \A o \in Task : onto[o] # NoTask =>
         \A i \in DOMAIN task'[o].sources :
           task'[o].sources[i] \in {"cancelled", "orphaned"} \cup Given(onto[o])
  <2> SUFFICES ASSUME NEW o \in Task, onto[o] # NoTask, NEW i \in DOMAIN task'[o].sources
               PROVE  task'[o].sources[i] \in {"cancelled", "orphaned"} \cup Given(onto[o])
    OBVIOUS
  <2>1. \A j \in DOMAIN task[o].sources : task[o].sources[j] \in {"cancelled", "orphaned"} \cup Given(onto[o])
    BY DEF IInv, AnswerInv
  <2>2. CASE task'[o].sources = task[o].sources
    BY <2>1, <2>2
  <2>3. CASE task'[o].sources = <<"orphaned">>
    BY <2>3
  <2>4. CASE o \in L /\ task'[o].sources = Append(task[o].sources, x)
    <3>1. task[o] \in Record
      BY <1>6
    <3>2. task[o].sources \in Seq(Results)
      BY <3>1 DEF Record
    <3>3. (i \in DOMAIN task[o].sources /\ task'[o].sources[i] = task[o].sources[i]) \/ task'[o].sources[i] = x
      BY <1>4, <2>4, <3>2
    <3>4. x \in Given(onto[o])
      BY <1>4, <1>8, <2>4
    <3> QED BY <2>1, <3>3, <3>4
  <2> QED BY <1>12, <1>15, <1>17, <2>2, <2>3, <2>4 DEF r
<1>24. \A i \in DOMAIN stack' : i \in DOMAIN stack /\ stack'[i] = stack[i]
  BY <1>3, <1>5
<1>25. \A i \in DOMAIN stack' : ~task'[stack[i].task].disposed
  <2>1. \A i \in DOMAIN stack : stack[i].task \in Task /\ ~task[stack[i].task].disposed
    BY FrameType DEF IInv, StackInv
  <2> QED BY <1>19, <1>24, <2>1
<1>26. \A o \in Task : /\ task'[o].chained \subseteq task[o].chained
                      /\ task'[o].result \in {NoResult, task[o].result}
  BY <1>19 DEF r
<1> QED BY <1>1, <1>5, <1>18, <1>22, <1>23, <1>24, <1>25, <1>26, LessInv

LEMMA ChainStepInv ==
    ASSUME IInv, NEW p \in Task, NEW t \in Task, Chain(p, t)
    PROVE  IInv'
<1> DEFINE old == task[t]
           x == task[p].result
<1>1. /\ ~aborted /\ UNCHANGED <<stack, asserts, aborted, answers>>
      /\ onto' = [onto EXCEPT ![t] = p]
      /\ old.job = "new" /\ task[p].job # "new" /\ task[p].held
  BY DEF Chain, Settled
<1>2. PICK watch \in BOOLEAN :
        LET r == [Created(t, watch) EXCEPT !.job = "chained"]
        IN  IF x # NoResult
            THEN task' = [task EXCEPT ![t] = Deliver(r, x)]
            ELSE task' = [task EXCEPT ![t] = r, ![p].chained = @ \cup {t}]
  BY DEF Chain, Watches
<1> DEFINE fresh == Created(t, watch)
           r == [fresh EXCEPT !.job = "chained"]
           joined == [task[p] EXCEPT !.chained = @ \cup {t}]
<1>3. /\ task \in [Task -> Record] /\ old \in Record /\ task[p] \in Record
      /\ onto \in [Task -> Task \cup {NoTask}] /\ p # t
  BY <1>1 DEF IInv, TypeOK
<1>4. \/ x # NoResult /\ task' = [task EXCEPT ![t] = Deliver(r, x)]
      \/ x = NoResult /\ task' = [task EXCEPT ![t] = r, ![p] = joined]
  <2>1. CASE x # NoResult
    BY <1>2, <2>1
  <2>2. CASE x = NoResult
    BY <1>2, <1>3, <2>2
  <2> QED BY <2>1, <2>2
<1>5. \A o \in Task : Sound(task[o], answers[o], onto[o], Waiting(o), InCallback(o))
  BY DEF IInv, SoundInv
<1>6. /\ ~Waiting(t) /\ ~old.returnCalled /\ old.worker = "none" /\ ~old.returnOnCancel
      /\ ~old.gotCancel /\ ~old.disposed /\ old.chained = {} /\ ~old.completed
      /\ ~old.cancelHandler /\ ~old.cancelSource
  BY <1>1, <1>5 DEF Sound, Waits, Jobs
<1>7. /\ old.sources = <<>> /\ answers[t] = <<>> /\ old.threadResult = NoResult
      /\ old.result = NoResult /\ ~old.returnSource
  BY <1>5, <1>6 DEF Sound, Kept
<1>8. /\ fresh \in Record
      /\ fresh.cancelHandler \/ fresh.cancelSource => fresh.returnOnCancel
      /\ fresh.job = old.job /\ fresh.returnCalled = old.returnCalled
      /\ fresh.gotCancel = old.gotCancel /\ fresh.worker = old.worker
      /\ fresh.threadResult = old.threadResult /\ fresh.returnSource = old.returnSource
      /\ fresh.sources = old.sources /\ fresh.result = old.result
      /\ fresh.chained = old.chained /\ fresh.completed = old.completed
      /\ fresh.held /\ fresh.disposed = old.disposed
  BY <1>3, <1>6, CreatedEffect
<1> HIDE DEF fresh, old, x
<1>9. r \in Record
  BY <1>8 DEF Record
<1>10. /\ r.job = "chained" /\ r.returnCalled = fresh.returnCalled
       /\ r.gotCancel = fresh.gotCancel /\ r.returnOnCancel = fresh.returnOnCancel
       /\ r.cancelHandler = fresh.cancelHandler /\ r.cancelled = fresh.cancelled
       /\ r.cancelSource = fresh.cancelSource /\ r.worker = fresh.worker
       /\ r.threadResult = fresh.threadResult
  BY <1>8 DEF Record
<1>11. /\ r.returnSource = fresh.returnSource /\ r.sources = fresh.sources
       /\ r.result = fresh.result /\ r.chained = fresh.chained
       /\ r.completed = fresh.completed /\ r.held = fresh.held
       /\ r.disposed = fresh.disposed
  BY <1>8 DEF Record
<1>12. joined \in Record
  <2> DEFINE q == task[p]
             more == q.chained \cup {t}
  <2>1. q \in Record /\ more \in SUBSET Task
    BY <1>3 DEF Record
  <2>2. joined = [q EXCEPT !.chained = more]
    OBVIOUS
  <2> HIDE DEF q, more, joined
  <2> QED BY <2>1, <2>2 DEF Record
<1>13. /\ joined.job = task[p].job /\ joined.returnCalled = task[p].returnCalled
       /\ joined.gotCancel = task[p].gotCancel
       /\ joined.returnOnCancel = task[p].returnOnCancel
       /\ joined.cancelHandler = task[p].cancelHandler
       /\ joined.cancelled = task[p].cancelled
       /\ joined.cancelSource = task[p].cancelSource
       /\ joined.worker = task[p].worker
       /\ joined.threadResult = task[p].threadResult
  BY <1>3 DEF Record
<1>14. /\ joined.returnSource = task[p].returnSource
       /\ joined.sources = task[p].sources /\ joined.result = task[p].result
       /\ joined.chained = (task[p].chained \cup {t})
       /\ joined.completed = task[p].completed /\ joined.held = task[p].held
       /\ joined.disposed = task[p].disposed
  BY <1>3 DEF Record
<1> HIDE DEF r, joined
<1>15. \A c \in BOOLEAN : Sound(r, answers[t], p, TRUE, c)
  <2> SUFFICES ASSUME NEW c \in BOOLEAN
               PROVE  Sound(r, answers[t], p, TRUE, c)
    OBVIOUS
  <2>1. p # NoTask
    OBVIOUS
  <2>2. Placed(r, answers[t], p, TRUE) /\ Kept(r, answers[t])
    BY <1>6, <1>7, <1>8, <1>10, <1>11 DEF Placed, Kept
  <2>3. Waits(r, answers[t], TRUE) /\ Jobs(r, p, TRUE)
    BY <1>6, <1>8, <1>10, <1>11, <2>1 DEF Waits, Jobs
  <2>4. Behind(r, answers[t]) /\ Ends(r, answers[t], TRUE, c)
    BY <1>6, <1>7, <1>8, <1>10, <1>11 DEF Behind, Ends
  <2> QED BY <2>2, <2>3, <2>4 DEF Sound
<1>16. \A o \in Task : (InCallback(o)' <=> InCallback(o))
  BY <1>1 DEF InCallback
<1>17. /\ onto' \in [Task -> Task \cup {NoTask}] /\ onto'[t] = p
       /\ \A o \in Task \ {t} : onto'[o] = onto[o]
  BY <1>1, <1>3
<1>18. AbortsOnlyChained'
  BY <1>1 DEF AbortsOnlyChained
<1>19. \A o \in Task : Given(o)' = Given(o)
  BY <1>1 DEF Given
<1>20. Given(t) = {}
  BY <1>7 DEF Given
<1>21. \A o \in Task : t \notin task[o].chained
  BY <1>6 DEF Waiting
<1>22. \A i \in DOMAIN stack : t \notin stack[i].chained
  BY <1>6 DEF Waiting
<1>23. ~task[p].disposed
  BY <1>1, <1>5 DEF Sound, Ends
<1>24. \A i \in DOMAIN stack : stack[i].task \in Task /\ stack[i].chained \subseteq Task
  BY FrameType DEF IInv
<1>25. \A i \in DOMAIN stack : ~task[stack[i].task].disposed /\ (stack[i].kind = "wait" => stack[i].chained = {})
  BY DEF IInv, StackInv
<1>26. CASE x # NoResult
  <2> DEFINE s == Deliver(r, x)
  <2>1. task' = [task EXCEPT ![t] = s]
    BY <1>4, <1>26
  <2>2. x \in Results /\ x \in Given(p)
    BY <1>3, <1>26 DEF IInv, AnswerInv, x, Record
  <2>3. \A c \in BOOLEAN : Sound(s, answers[t], p, FALSE, c)
    BY <1>9, <1>15, <2>2, DeliverSound
  <2>4. /\ s \in Record /\ s.sources = Append(r.sources, x) /\ s.chained = r.chained
        /\ s.disposed = r.disposed /\ s.result = r.result
    BY <1>9, <2>2, DeliverEffect
  <2> HIDE DEF s
  <2>5. /\ s.sources = <<x>> /\ s.chained = {} /\ ~s.disposed /\ s.result = NoResult
    <3>1. Append(<<>>, x) = <<x>>
      BY <2>2, Short
    <3> QED BY <1>6, <1>7, <1>8, <1>11, <2>4, <3>1
  <2>6. /\ task' \in [Task -> Record] /\ task'[t] = s
        /\ \A o \in Task \ {t} : task'[o] = task[o]
    BY <1>3, <2>1, <2>4
  <2>7. \A o \in Task : /\ task'[o].chained = task[o].chained
                        /\ task'[o].disposed <=> task[o].disposed
                        /\ task'[o].result = task[o].result
    BY <1>6, <1>7, <2>5, <2>6 DEF old
  <2>8. TypeOK'
    BY <1>1, <1>17, <2>6 DEF IInv, TypeOK
  <2>9. \A o \in Task : Waiting(o)' <=> Waiting(o)
    BY <1>1, <2>7 DEF Waiting
  <2>10. SoundInv'
    <3> SUFFICES ASSUME NEW o \in Task
                 PROVE  Sound(task'[o], answers'[o], onto'[o], Waiting(o)', InCallback(o)')
      BY DEF SoundInv
    <3>1. Waiting(o) \in BOOLEAN /\ Waiting(o)' \in BOOLEAN /\ InCallback(o) \in BOOLEAN /\ InCallback(o)' \in BOOLEAN
      BY DEF Waiting, InCallback
    <3>2. CASE o = t
      <4>1. Waiting(o)' <=> FALSE
        BY <1>6, <2>9, <3>2
      <4>2. Sound(s, answers[t], p, FALSE, InCallback(o)')
        BY <2>3, <3>1
      <4>3. Sound(s, answers[t], p, Waiting(o)', InCallback(o)')
        BY <3>1, <4>1, <4>2, SoundSame
      <4> QED BY <1>1, <1>17, <2>6, <3>2, <4>3
    <3>3. CASE o # t
      <4>1. Sound(task'[o], answers[o], onto'[o], Waiting(o), InCallback(o))
        BY <1>5, <1>17, <2>6, <3>3
      <4>2. Sound(task'[o], answers[o], onto'[o], Waiting(o)', InCallback(o)')
        BY <1>16, <2>9, <3>1, <4>1, SoundSame
      <4> QED BY <1>1, <4>2
    <3> QED BY <3>2, <3>3
  <2>11. ChainInv'
    <3>1. \A q, o \in Task : o \in task'[q].chained => onto'[o] = q
      BY <1>17, <1>21, <2>7 DEF IInv, ChainInv
    <3>2. \A i \in DOMAIN stack : \A o \in stack[i].chained : onto'[o] = stack[i].task
      BY <1>17, <1>22, <1>24 DEF IInv, ChainInv
    <3>3. /\ \A i \in DOMAIN stack : \A q \in Task : \A o \in stack[i].chained : o \notin task'[q].chained
          /\ \A i, j \in DOMAIN stack : i # j => stack[i].chained \cap stack[j].chained = {}
      BY <2>7 DEF IInv, ChainInv
    <3>4. \A o \in Task : onto'[o] # o
      BY <1>3, <1>17 DEF IInv, ChainInv
    <3> QED BY <1>1, <3>1, <3>2, <3>3, <3>4 DEF ChainInv
  <2>12. AnswerInv'
    <3>1. \A o \in Task : onto'[o] # NoTask =>
             /\ onto'[o] \in Task
             /\ \A i \in DOMAIN task'[o].sources :
                  task'[o].sources[i] \in {"cancelled", "orphaned"} \cup Given(onto'[o])
             /\ Given(o) \subseteq {"cancelled", "orphaned"} \cup Given(onto'[o])
      <4> SUFFICES ASSUME NEW o \in Task, onto'[o] # NoTask
                   PROVE  /\ onto'[o] \in Task
                          /\ \A i \in DOMAIN task'[o].sources :
                               task'[o].sources[i] \in {"cancelled", "orphaned"} \cup Given(onto'[o])
                          /\ Given(o) \subseteq {"cancelled", "orphaned"} \cup Given(onto'[o])
        OBVIOUS
      <4>1. CASE o = t
        <5>1. \A i \in DOMAIN s.sources : s.sources[i] = x
          BY <2>5
        <5> QED BY <1>17, <1>20, <2>2, <2>6, <4>1, <5>1
      <4>2. CASE o # t
        <5>1. onto'[o] = onto[o] /\ task'[o] = task[o]
          BY <1>17, <2>6, <4>2
        <5> QED BY <1>17, <5>1 DEF IInv, AnswerInv
      <4> QED BY <4>1, <4>2
    <3>2. \A o \in Task : task'[o].result # NoResult => task'[o].result \in Given(o)
      BY <2>7 DEF IInv, AnswerInv
    <3>3. \A i \in DOMAIN stack : stack[i].kind = "callback" => stack[i].copy \in Given(stack[i].task)
      BY DEF IInv, AnswerInv
    <3>4. answers' = answers /\ stack' = stack
      BY <1>1
    <3> QED BY <3>1, <3>2, <3>3, <3>4, SMTT(30) DEF AnswerInv, Given
  <2>13. StackInv'
    BY <1>1, <1>24, <1>25, <2>7 DEF StackInv
  <2> QED BY <1>18, <2>8, <2>10, <2>11, <2>12, <2>13 DEF IInv
<1>27. CASE x = NoResult
  <2>1. task' = [task EXCEPT ![t] = r, ![p] = joined]
    BY <1>4, <1>27
  <2>2. /\ task' \in [Task -> Record] /\ task'[t] = r /\ task'[p] = joined
        /\ \A o \in Task : o # t /\ o # p => task'[o] = task[o]
    BY <1>3, <1>9, <1>12, <2>1
  <2>3. \A o \in Task : /\ task'[o].chained = IF o = p THEN task[p].chained \cup {t} ELSE task[o].chained
                        /\ task'[o].disposed <=> task[o].disposed
                        /\ task'[o].result = task[o].result
                        /\ task'[o].sources = task[o].sources
    <3> SUFFICES ASSUME NEW o \in Task
                 PROVE  /\ task'[o].chained = IF o = p THEN task[p].chained \cup {t} ELSE task[o].chained
                        /\ task'[o].disposed <=> task[o].disposed
                        /\ task'[o].result = task[o].result
                        /\ task'[o].sources = task[o].sources
      OBVIOUS
    <3>1. CASE o = t
      <4>1. /\ r.chained = old.chained /\ r.disposed = old.disposed /\ r.result = old.result
            /\ r.sources = old.sources
        BY <1>8, <1>11
      <4> QED BY <1>3, <2>2, <3>1, <4>1 DEF old
    <3>2. CASE o = p
      BY <1>14, <2>2, <3>2
    <3>3. CASE o # t /\ o # p
      BY <2>2, <3>3
    <3> QED BY <3>1, <3>2, <3>3
  <2>4. TypeOK'
    BY <1>1, <1>17, <2>2 DEF IInv, TypeOK
  <2>5. Waiting(t)' /\ \A o \in Task \ {t} : Waiting(o)' <=> Waiting(o)
    <3>1. \A q \in Task : \A o \in Task \ {t} : o \in task'[q].chained <=> o \in task[q].chained
      BY <2>3
    <3>2. t \in task'[p].chained
      BY <2>3
    <3> QED BY <1>1, <3>1, <3>2 DEF Waiting
  <2>6. SoundInv'
    <3> SUFFICES ASSUME NEW o \in Task
                 PROVE  Sound(task'[o], answers'[o], onto'[o], Waiting(o)', InCallback(o)')
      BY DEF SoundInv
    <3>1. Waiting(o) \in BOOLEAN /\ Waiting(o)' \in BOOLEAN /\ InCallback(o) \in BOOLEAN /\ InCallback(o)' \in BOOLEAN
      BY DEF Waiting, InCallback
    <3>2. CASE o = t
      <4>1. Waiting(o)' <=> TRUE
        BY <2>5, <3>2
      <4>2. Sound(r, answers[t], p, TRUE, InCallback(o)')
        BY <1>15, <3>1
      <4>3. Sound(r, answers[t], p, Waiting(o)', InCallback(o)')
        BY <3>1, <4>1, <4>2, SoundSame
      <4> QED BY <1>1, <1>17, <2>2, <3>2, <4>3
    <3>3. CASE o = p
      <4>1. Sound(task[p], answers[p], onto[p], Waiting(p), InCallback(p))
        BY <1>5
      <4>2. Sound(joined, answers[p], onto[p], Waiting(p), InCallback(p))
        BY <1>1, <1>13, <1>14, <1>23, <4>1, SMTT(30) DEF Sound, Placed, Kept, Waits, Jobs, Behind, Ends
      <4>3. Sound(task'[o], answers[o], onto'[o], Waiting(o), InCallback(o))
        BY <1>3, <1>17, <2>2, <3>3, <4>2
      <4>4. Waiting(o)' <=> Waiting(o)
        BY <1>3, <2>5, <3>3
      <4>5. Sound(task'[o], answers[o], onto'[o], Waiting(o)', InCallback(o)')
        BY <1>16, <3>1, <4>3, <4>4, SoundSame
      <4> QED BY <1>1, <4>5
    <3>4. CASE o # t /\ o # p
      <4>1. Sound(task'[o], answers[o], onto'[o], Waiting(o), InCallback(o))
        BY <1>5, <1>17, <2>2, <3>4
      <4>2. Sound(task'[o], answers[o], onto'[o], Waiting(o)', InCallback(o)')
        BY <1>16, <2>5, <3>1, <3>4, <4>1, SoundSame
      <4> QED BY <1>1, <4>2
    <3> QED BY <3>2, <3>3, <3>4
  <2>7. ChainInv'
    <3>1. \A q, o \in Task : o \in task'[q].chained => onto'[o] = q
      BY <1>17, <1>21, <2>3 DEF IInv, ChainInv
    <3>2. \A i \in DOMAIN stack : \A o \in stack[i].chained : onto'[o] = stack[i].task
      BY <1>17, <1>22, <1>24 DEF IInv, ChainInv
    <3>3. \A i \in DOMAIN stack : \A q \in Task : \A o \in stack[i].chained : o \notin task'[q].chained
      BY <1>22, <2>3 DEF IInv, ChainInv
    <3>4. \A i, j \in DOMAIN stack : i # j => stack[i].chained \cap stack[j].chained = {}
      BY DEF IInv, ChainInv
    <3>5. \A o \in Task : onto'[o] # o
      BY <1>3, <1>17 DEF IInv, ChainInv
    <3> QED BY <1>1, <3>1, <3>2, <3>3, <3>4, <3>5 DEF ChainInv
  <2>8. AnswerInv'
    <3>1. \A o \in Task : onto'[o] # NoTask =>
             /\ onto'[o] \in Task
             /\ \A i \in DOMAIN task'[o].sources :
                  task'[o].sources[i] \in {"cancelled", "orphaned"} \cup Given(onto'[o])
             /\ Given(o) \subseteq {"cancelled", "orphaned"} \cup Given(onto'[o])
      <4> SUFFICES ASSUME NEW o \in Task, onto'[o] # NoTask
                   PROVE  /\ onto'[o] \in Task
                          /\ \A i \in DOMAIN task'[o].sources :
                               task'[o].sources[i] \in {"cancelled", "orphaned"} \cup Given(onto'[o])
                          /\ Given(o) \subseteq {"cancelled", "orphaned"} \cup Given(onto'[o])
        OBVIOUS
      <4>1. CASE o = t
        <5>1. DOMAIN task'[t].sources = {}
          BY <1>7, <2>3 DEF old
        <5> QED BY <1>17, <1>20, <4>1, <5>1
      <4>2. CASE o # t
        <5>1. onto'[o] = onto[o] /\ task'[o].sources = task[o].sources
          BY <1>17, <2>3, <4>2
        <5> QED BY <1>17, <5>1 DEF IInv, AnswerInv
      <4> QED BY <4>1, <4>2
    <3>2. \A o \in Task : task'[o].result # NoResult => task'[o].result \in Given(o)
      BY <2>3 DEF IInv, AnswerInv
    <3>3. \A i \in DOMAIN stack : stack[i].kind = "callback" => stack[i].copy \in Given(stack[i].task)
      BY DEF IInv, AnswerInv
    <3>4. answers' = answers /\ stack' = stack
      BY <1>1
    <3> QED BY <3>1, <3>2, <3>3, <3>4, SMTT(30) DEF AnswerInv, Given
  <2>9. StackInv'
    BY <1>1, <1>24, <1>25, <2>3 DEF StackInv
  <2> QED BY <1>18, <2>4, <2>6, <2>7, <2>8, <2>9 DEF IInv
<1> QED BY <1>26, <1>27

-----------------------------------------------------------------------------
LEMMA StepInv == IInv /\ [Next]_vars => IInv'
<1> SUFFICES ASSUME IInv, [Next]_vars
             PROVE  IInv'
  OBVIOUS
<1>1. CASE Unwind
  BY <1>1, ReturnCbEndInv, PropagateEndInv DEF Unwind
<1>2. ASSUME NEW t \in Task, Loop(t)
      PROVE  IInv'
  BY <1>2, CancelCbInv, ReturnAbortInv, ReturnDiscardInv, ReturnCbInv DEF Loop
<1>3. ASSUME NEW t \in Task, Client(t)
      PROVE  IInv'
  <2>1. CASE StartInMain(t) \/ RunInThread(t) \/ Drop(t)
    BY <2>1, StartInMainInv, RunInThreadInv, DropInv
  <2>2. CASE \E p \in Task : Chain(p, t)
    BY <2>2, ChainStepInv
  <2>3. CASE \E x \in {"value", "error"} : ReturnInMain(t, x)
    BY <2>3, ReturnInMainInv
  <2>4. CASE Propagate(t) \/ PropagateWait(t) \/ Cancel(t)
    BY <2>4, PropagateInv, PropagateWaitInv, CancelInv
  <2> QED BY <1>3, <2>1, <2>2, <2>3, <2>4 DEF Client
<1>4. ASSUME NEW t \in Task, Worker(t)
      PROVE  IInv'
  <2>1. CASE ThreadBegin(t) \/ ThreadEnd(t)
    BY <2>1, ThreadBeginInv, ThreadEndInv
  <2>2. CASE \E x \in {"value", "error"} : ThreadReturn(t, x)
    BY <2>2, ThreadReturnInv
  <2> QED BY <1>4, <2>1, <2>2 DEF Worker
<1>5. ASSUME NEW t \in Task, Dispose(t)
      PROVE  IInv'
  BY <1>5, DisposeInv
<1>6. CASE UNCHANGED vars
  <2>1. AbortsOnlyChained'
    BY <1>6 DEF IInv, AbortsOnlyChained, vars
  <2>2. aborted' \in BOOLEAN
    BY <1>6 DEF IInv, TypeOK, vars
  <2> QED BY <1>6, <2>1, <2>2, StillInv DEF vars
<1> QED BY <1>1, <1>2, <1>3, <1>4, <1>5, <1>6 DEF Next

\* The inductive invariant: where the result of every task is, whatever the
\* main loop, the workers, the cancellables and the clients have done.
THEOREM Invariant == Spec => []IInv
<1>1. Init => IInv
  BY InitInv
<1>2. IInv /\ [Next]_vars => IInv'
  BY StepInv
<1> QED BY <1>1, <1>2, PTL DEF Spec

\* The type invariant of the module.
THEOREM TypeCorrect == Spec => []TypeOK
<1>1. IInv => TypeOK
  BY DEF IInv
<1> QED BY <1>1, Invariant, PTL

\* However a result of the worker, a cancellation and the result of a chained
\* task race, ide_task_return_cb calls the callback of a task at most once.
THEOREM AnsweredOnce == Spec => []CalledOnce
<1>1. IInv => CalledOnce
  <2> SUFFICES ASSUME IInv, NEW t \in Task
               PROVE  Len(answers[t]) <= 1
    BY DEF CalledOnce
  <2>1. Placed(task[t], answers[t], onto[t], Waiting(t))
    BY DEF IInv, SoundInv, Sound
  <2>2. \/ answers[t] = <<>>
        \/ \E x \in Results : answers[t] = <<x>>
        \/ answers[t] = <<"cancelled">>
    BY <2>1 DEF Placed
  <2>3. ASSUME NEW x, answers[t] = <<x>>
        PROVE  Len(answers[t]) <= 1
    BY <2>3
  <2>4. CASE answers[t] = <<>>
    BY <2>4
  <2> QED BY <2>2, <2>3, <2>4
<1> QED BY <1>1, Invariant, PTL

WaitsEnd == \A t \in Task : task[t].returnSource => task[t].sources # <<>>

\* A propagate that spins on return_source has a source to wait for.
THEOREM WaitsAreEnded == Spec => []WaitsEnd
<1>1. IInv => WaitsEnd
  BY DEF IInv, SoundInv, Sound, Kept, WaitsEnd
<1> QED BY <1>1, Invariant, PTL

\* A result that ide_task_return accepted is with a source of the main loop,
\* or with a worker still to end, until the callback gets it.
THEOREM NothingIsLost == Spec => []NothingLost
<1>1. IInv => NothingLost
  BY DEF IInv, SoundInv, Sound, Kept, NothingLost
<1> QED BY <1>1, Invariant, PTL

\* The callback gets no result of a worker whose thread function still runs.
THEOREM NeverInTheThread == Spec => []OffTheThread
<1>1. IInv => OffTheThread
  <2> SUFFICES ASSUME IInv, NEW t \in Task, NEW i \in DOMAIN answers[t],
                      answers[t][i] \in {"value", "error"}
               PROVE  task[t].worker \in {"none", "ended"}
    BY DEF OffTheThread
  <2>1. task[t] \in Record
    BY DEF IInv, TypeOK
  <2>2. task[t].worker \in {"none", "queued", "running", "ended"}
    BY <2>1 DEF Record
  <2>3. Behind(task[t], answers[t])
    BY DEF IInv, SoundInv, Sound
  <2>4. answers[t] # <<>> /\ answers[t] # <<"cancelled">>
    OBVIOUS
  <2> QED BY <2>2, <2>3, <2>4 DEF Behind
<1> QED BY <1>1, Invariant, PTL

\* A task chained to another one gets the answer of that one, or "cancelled" if
\* it was cancelled itself, or the error ide_task_release gives when it is
\* still chained as the other one is released.
THEOREM ChainedAgree == Spec => []SameAnswer
<1>1. IInv => SameAnswer
  <2> SUFFICES ASSUME IInv, NEW t \in Task, onto[t] # NoTask, answers[t] # <<>>
               PROVE  answers[t][1] \in {"cancelled", "orphaned"} \cup Given(onto[t])
    BY DEF SameAnswer, Given
  <2>1. answers[t] \in Seq(Results)
    BY DEF IInv, TypeOK
  <2>2. 1 \in DOMAIN answers[t]
    BY <2>1
  <2>3. Given(t) \subseteq {"cancelled", "orphaned"} \cup Given(onto[t])
    BY DEF IInv, AnswerInv
  <2>4. answers[t][1] \in Given(t)
    BY <2>2 DEF Given
  <2> QED BY <2>3, <2>4
<1> QED BY <1>1, Invariant, PTL

FinalizedClean ==
    \A t \in Task : task[t].disposed =>
        /\ task[t].chained = {} /\ ~task[t].returnSource
        /\ task[t].threadResult = NoResult
        /\ \/ task[t].completed
           \/ ~task[t].returnCalled /\ task[t].worker = "ended"

\* ide_task_finalize warns of nothing, but that the thread function of a task
\* ended without a result.
THEOREM LeftClean == Spec => []FinalizedClean
<1>1. IInv => FinalizedClean
  <2> SUFFICES ASSUME IInv, NEW t \in Task, task[t].disposed
               PROVE  /\ task[t].chained = {} /\ ~task[t].returnSource
                      /\ task[t].threadResult = NoResult
                      /\ \/ task[t].completed
                         \/ ~task[t].returnCalled /\ task[t].worker = "ended"
    BY DEF FinalizedClean
  <2>1. Ends(task[t], answers[t], Waiting(t), InCallback(t)) /\ Kept(task[t], answers[t])
    BY DEF IInv, SoundInv, Sound
  <2> QED BY <2>1 DEF Ends, Kept
<1> QED BY <1>1, Invariant, PTL

\* The assertions of ide_task_return_cb can fail only for a chained task that
\* is set to return on cancel.
THEOREM AssertsFailOnlyChained == Spec => []AbortsOnlyChained
<1>1. IInv => AbortsOnlyChained
  BY DEF IInv
<1> QED BY <1>1, Invariant, PTL


-----------------------------------------------------------------------------
(***************************************************************************)
(* A task keeps its promise: every step of Task is a step of Promise, or   *)
(* none.  For this it has to be known, besides, that the callback of a     *)
(* task is in the stack once and before the task is complete, and that     *)
(* nobody is chained to a task which is complete or keeps its result.      *)
(***************************************************************************)

WatchInv == \A t \in Task : task[t].cancelSource => task[t].cancelled

CallInv ==
    /\ \A i, j \in DOMAIN stack :
         stack[i].kind = "callback" /\ stack[j].kind = "callback" /\ stack[i].task = stack[j].task
            => i = j
    /\ \A i \in DOMAIN stack : stack[i].kind = "callback" => ~task[stack[i].task].completed

\* r is the record of a task, a its answers.
Over(r, a, keeps) ==
    /\ r.completed => a # <<>>
    /\ a # <<>> /\ keeps /\ ~r.disposed => r.result # NoResult
    /\ a # <<>> /\ (keeps \/ r.completed) => r.chained = {}

OverInv == \A t \in Task : Over(task[t], answers[t], t \in Keeping)

PInv == IInv /\ WatchInv /\ CallInv /\ OverInv

LEMMA PInvInit == Init => PInv
<1> SUFFICES ASSUME Init
             PROVE  PInv
  OBVIOUS
<1>1. IInv
  BY InitInv
<1>2. WatchInv /\ OverInv
  BY DEF Init, WatchInv, OverInv, Over
<1>3. CallInv
  BY DEF Init, CallInv
<1> QED BY <1>1, <1>2, <1>3 DEF PInv

\* One task moves, and nobody's callback is called or ends.
LEMMA OneKeeps ==
    ASSUME PInv, IInv', NEW t \in Task, NEW new \in Record,
           task' = [task EXCEPT ![t] = new], UNCHANGED answers, OnlyWaits,
           new.cancelSource => new.cancelled,
           new.completed = task[t].completed, new.disposed = task[t].disposed,
           new.chained = task[t].chained,
           new.result = task[t].result \/ t \notin Keeping
    PROVE  PInv'
<1>1. task \in [Task -> Record]
  BY DEF PInv, IInv, TypeOK
<1>2. /\ task'[t] = new
      /\ \A o \in Task \ {t} : task'[o] = task[o]
  BY <1>1
<1>3. WatchInv'
  BY <1>2 DEF PInv, WatchInv
<1>4. OverInv'
  <2>1. \A o \in Task : Over(task[o], answers[o], o \in Keeping)
    BY DEF PInv, OverInv
  <2>2. Over(new, answers[t], t \in Keeping)
    BY <2>1 DEF Over
  <2> QED BY <1>2, <2>1, <2>2 DEF OverInv
<1>5. \A i \in DOMAIN stack' : stack'[i].kind = "callback" => i \in DOMAIN stack /\ stack'[i] = stack[i]
  BY DEF OnlyWaits
<1>6. \A o \in Task : task'[o].completed = task[o].completed
  BY <1>2
<1>7. \A i \in DOMAIN stack : stack[i].task \in Task
  BY FrameType DEF PInv, IInv
<1>8. CallInv'
  BY <1>5, <1>6, <1>7 DEF PInv, CallInv
<1> QED BY <1>3, <1>4, <1>8 DEF PInv

\* Nothing happens to the record of a task that changes its place.
StaysPut(r, s) ==
    /\ s.job = "new" <=> r.job = "new"
    /\ s.returnCalled = r.returnCalled /\ s.completed = r.completed /\ s.disposed = r.disposed

\* How the tasks look after one of them has moved.
LEMMA OneLooks ==
    ASSUME IInv, NEW t \in Task, NEW new \in Record,
           task' = [task EXCEPT ![t] = new], UNCHANGED <<answers, onto>>,
           new.chained = task[t].chained
    PROVE  /\ \A o \in Task \ {t} : Place(o)' = Place(o) /\ Value(o)' = Value(o)
           /\ StaysPut(task[t], new) => Place(t)' = Place(t)
           /\ new.sources = task[t].sources /\ new.threadResult = task[t].threadResult
                => Value(t)' = Value(t)
<1>1. task \in [Task -> Record]
  BY DEF IInv, TypeOK
<1>2. /\ task'[t] = new
      /\ \A o \in Task \ {t} : task'[o] = task[o]
      /\ \A o \in Task : task'[o].chained = task[o].chained
  BY <1>1
<1>3. \A o \in Task \ {t} : Place(o)' = Place(o)
  BY <1>2 DEF Place
<1>4. \A o \in Task \ {t} : Value(o)' = Value(o)
  BY <1>2 DEF Value
<1>5. ASSUME StaysPut(task[t], new)
      PROVE  Place(t)' = Place(t)
  BY <1>2, <1>5 DEF Place, StaysPut
<1>6. ASSUME new.sources = task[t].sources, new.threadResult = task[t].threadResult
      PROVE  Value(t)' = Value(t)
  BY <1>2, <1>6 DEF Value
<1> QED BY <1>3, <1>4, <1>5, <1>6

\* A step after which every task looks as it did.
Unseen == /\ \A o \in Task : /\ Place(o)' = Place(o) /\ Value(o)' = Value(o)
                             /\ task'[o].cancelled = task[o].cancelled
          /\ onto' = onto

LEMMA UnseenStutters == ASSUME Unseen PROVE UNCHANGED Future!vars
<1>1. [o \in Task |-> Place(o)]' = [o \in Task |-> Place(o)]
  BY DEF Unseen
<1>2. [o \in Task |-> Value(o)]' = [o \in Task |-> Value(o)]
  BY DEF Unseen
<1>3. {o \in Task : task[o].cancelled}' = {o \in Task : task[o].cancelled}
  BY DEF Unseen
<1> QED BY <1>1, <1>2, <1>3 DEF Unseen, Future!vars

\* A step that settles one task.
Settles(t, x) ==
    /\ \A o \in Task \ {t} : Place(o)' = Place(o) /\ Value(o)' = Value(o)
    /\ Place(t)' = "settled" /\ Value(t)' = x

LEMMA SettlesOne == ASSUME NEW t \in Task, NEW x, Settles(t, x) PROVE Future!Settle(t, x)
<1>1. [o \in Task |-> Place(o)]' = [[o \in Task |-> Place(o)] EXCEPT ![t] = "settled"]
  BY DEF Settles
<1>2. [o \in Task |-> Value(o)]' = [[o \in Task |-> Value(o)] EXCEPT ![t] = x]
  BY DEF Settles
<1> QED BY <1>1, <1>2 DEF Future!Settle

LEMMA SameCancelled ==
    ASSUME \A o \in Task : task'[o].cancelled = task[o].cancelled
    PROVE  {o \in Task : task[o].cancelled}' = {o \in Task : task[o].cancelled}
  OBVIOUS

\* One task moves and the callbacks stay.
Moves(t, new) ==
    /\ IInv' /\ new \in Record /\ task' = [task EXCEPT ![t] = new]
    /\ UNCHANGED <<answers, onto>> /\ OnlyWaits
    /\ new.cancelSource => new.cancelled
    /\ new.completed = task[t].completed /\ new.disposed = task[t].disposed
    /\ new.chained = task[t].chained
    /\ new.result = task[t].result \/ t \notin Keeping

LEMMA QuietStep ==
    ASSUME PInv, NEW t \in Task, NEW new, Moves(t, new),
           StaysPut(task[t], new), new.cancelled = task[t].cancelled,
           (new.sources = task[t].sources /\ new.threadResult = task[t].threadResult)
             \/ Value(t)' = Value(t)
    PROVE  PInv' /\ UNCHANGED Future!vars
<1>1. PInv'
  BY OneKeeps DEF Moves
<1>2. IInv
  BY DEF PInv
<1>3. \A o \in Task : Place(o)' = Place(o) /\ Value(o)' = Value(o)
  BY <1>2, OneLooks DEF Moves
<1>4. \A o \in Task : task'[o].cancelled = task[o].cancelled
  BY <1>2 DEF Moves, IInv, TypeOK
<1>5. Unseen
  BY <1>3, <1>4 DEF Unseen, Moves
<1> QED BY <1>1, <1>5, UnseenStutters

LEMMA SameStack == ASSUME UNCHANGED stack PROVE OnlyWaits
  BY DEF OnlyWaits

LEMMA DropKeeps == ASSUME PInv, NEW t \in Task, Drop(t) PROVE PInv' /\ UNCHANGED Future!vars
<1> DEFINE r == task[t]
           new == [r EXCEPT !.held = FALSE]
<1>1. /\ r \in Record /\ task' = [task EXCEPT ![t] = new]
      /\ UNCHANGED <<stack, answers, onto>>
  BY DEF PInv, IInv, TypeOK, Drop
<1>2. r.cancelSource => r.cancelled
  BY DEF PInv, WatchInv
<1> HIDE DEF r
<1>3. new \in Record
  BY <1>1 DEF Record
<1>4. /\ new.job = r.job /\ new.returnCalled = r.returnCalled /\ new.cancelled = r.cancelled
      /\ new.cancelSource = r.cancelSource /\ new.threadResult = r.threadResult
      /\ new.sources = r.sources /\ new.result = r.result /\ new.chained = r.chained
      /\ new.completed = r.completed /\ new.disposed = r.disposed
  BY <1>1 DEF Record
<1> HIDE DEF new
<1>5. IInv'
  BY DropInv DEF PInv
<1>6. Moves(t, new) /\ StaysPut(task[t], new)
  BY <1>1, <1>2, <1>3, <1>4, <1>5, SameStack DEF Moves, StaysPut, r
<1> QED BY <1>4, <1>6, QuietStep DEF r

LEMMA ThreadBeginKeeps ==
    ASSUME PInv, NEW t \in Task, ThreadBegin(t) PROVE PInv' /\ UNCHANGED Future!vars
<1> DEFINE r == task[t]
           new == [r EXCEPT !.worker = "running"]
<1>1. /\ r \in Record /\ task' = [task EXCEPT ![t] = new]
      /\ UNCHANGED <<stack, answers, onto>>
  BY DEF PInv, IInv, TypeOK, ThreadBegin
<1>2. r.cancelSource => r.cancelled
  BY DEF PInv, WatchInv
<1> HIDE DEF r
<1>3. new \in Record
  BY <1>1 DEF Record
<1>4. /\ new.job = r.job /\ new.returnCalled = r.returnCalled /\ new.cancelled = r.cancelled
      /\ new.cancelSource = r.cancelSource /\ new.threadResult = r.threadResult
      /\ new.sources = r.sources /\ new.result = r.result /\ new.chained = r.chained
      /\ new.completed = r.completed /\ new.disposed = r.disposed
  BY <1>1 DEF Record
<1> HIDE DEF new
<1>5. IInv'
  BY ThreadBeginInv DEF PInv
<1>6. Moves(t, new) /\ StaysPut(task[t], new)
  BY <1>1, <1>2, <1>3, <1>4, <1>5, SameStack DEF Moves, StaysPut, r
<1> QED BY <1>4, <1>6, QuietStep DEF r

\* A propagate takes the result of a task that does not keep it.
LEMMA PropagatedKeeps ==
    ASSUME PInv, IInv', NEW t \in Task, task' = Propagated(t),
           UNCHANGED <<answers, onto>>, OnlyWaits
    PROVE  PInv' /\ UNCHANGED Future!vars
<1> DEFINE r == task[t]
           taken == [r EXCEPT !.result = NoResult]
<1>1. r \in Record /\ task \in [Task -> Record]
  BY DEF PInv, IInv, TypeOK
<1>2. r.cancelSource => r.cancelled
  BY DEF PInv, WatchInv
<1>3. CASE task' = task
  <2>1. task' = [task EXCEPT ![t] = r]
    BY <1>1, <1>3
  <2>2. Moves(t, r) /\ StaysPut(task[t], r)
    BY <1>1, <1>2, <2>1 DEF Moves, StaysPut
  <2> QED BY <2>2, QuietStep
<1>4. CASE task' # task
  <2>1. t \notin Keeping /\ task' = [task EXCEPT ![t] = taken]
    BY <1>4 DEF Propagated
  <2> HIDE DEF r
  <2>2. taken \in Record
    BY <1>1 DEF Record
  <2>3. /\ taken.job = r.job /\ taken.returnCalled = r.returnCalled
        /\ taken.cancelled = r.cancelled /\ taken.cancelSource = r.cancelSource
        /\ taken.threadResult = r.threadResult /\ taken.sources = r.sources
        /\ taken.chained = r.chained /\ taken.completed = r.completed
        /\ taken.disposed = r.disposed
    BY <1>1 DEF Record
  <2> HIDE DEF taken
  <2>4. Moves(t, taken) /\ StaysPut(task[t], taken)
    BY <1>2, <2>1, <2>2, <2>3 DEF Moves, StaysPut, r
  <2> QED BY <2>3, <2>4, QuietStep DEF r
<1> QED BY <1>3, <1>4

\* The stack as a wait begins or ends.
LEMMA PropagateKeeps ==
    ASSUME PInv, NEW t \in Task, Propagate(t) PROVE PInv' /\ UNCHANGED Future!vars
<1>1. IInv'
  BY PropagateInv DEF PInv
<1>2. task' = Propagated(t) /\ UNCHANGED <<stack, answers, onto>>
  BY DEF Propagate
<1> QED BY <1>1, <1>2, SameStack, PropagatedKeeps

LEMMA PropagateEndKeeps ==
    ASSUME PInv, PropagateEnd PROVE PInv' /\ UNCHANGED Future!vars
<1> DEFINE t == Top.task
<1>1. /\ task' = Propagated(t) /\ UNCHANGED <<answers, onto>>
      /\ stack' = Pop /\ stack # <<>> /\ Top.kind = "wait"
  BY DEF PropagateEnd
<1>2. stack \in Seq(Frame) /\ Len(stack) \in Nat \ {0} /\ DOMAIN stack = 1..Len(stack)
  BY <1>1 DEF PInv, IInv, TypeOK
<1>3. t \in Task
  BY <1>2, FrameType DEF Top, PInv, IInv
<1>4. /\ DOMAIN stack' = 1..(Len(stack) - 1)
      /\ \A i \in 1..(Len(stack) - 1) : stack'[i] = stack[i]
  BY <1>1, <1>2 DEF Pop
<1>5. OnlyWaits
  BY <1>1, <1>2, <1>4 DEF OnlyWaits, Top
<1>6. IInv'
  BY PropagateEndInv DEF PInv
<1> HIDE DEF t
<1> QED BY <1>1, <1>3, <1>5, <1>6, PropagatedKeeps

LEMMA PropagateWaitKeeps ==
    ASSUME PInv, NEW t \in Task, PropagateWait(t) PROVE PInv' /\ UNCHANGED Future!vars
<1> DEFINE new == task[t]
           frame == [kind |-> "wait", task |-> t, copy |-> "error", chained |-> {}]
<1>1. /\ UNCHANGED <<task, answers, onto>>
      /\ stack' = Append(stack, frame) /\ ~task[t].disposed
  BY DEF PropagateWait, Propagates
<1>2. stack \in Seq(Frame) /\ Len(stack) \in Nat /\ DOMAIN stack = 1..Len(stack)
  BY DEF PInv, IInv, TypeOK
<1>3. frame \in Frame /\ frame.kind = "wait" /\ frame.chained = {} /\ frame.task = t
  BY DEF Frame, Results
<1> HIDE DEF frame
<1>4. /\ DOMAIN stack' = 1..(Len(stack) + 1)
      /\ \A i \in 1..Len(stack) : stack'[i] = stack[i]
      /\ stack'[Len(stack) + 1] = frame
  BY <1>1, <1>2, <1>3
<1>5. OnlyWaits
  <2>1. ASSUME NEW i \in DOMAIN stack'
        PROVE  \/ i \in DOMAIN stack /\ stack'[i] = stack[i]
               \/ stack'[i] = frame
    BY <1>2, <1>4
  <2>2. \A i \in DOMAIN stack : i \in DOMAIN stack' /\ stack'[i] = stack[i]
    BY <1>2, <1>4
  <2> QED BY <1>1, <1>3, <2>1, <2>2 DEF OnlyWaits
<1>6. new \in Record /\ task' = [task EXCEPT ![t] = new]
  BY <1>1 DEF PInv, IInv, TypeOK
<1>7. IInv'
  BY PropagateWaitInv DEF PInv
<1>8. new.cancelSource => new.cancelled
  BY DEF PInv, WatchInv
<1>9. Moves(t, new) /\ StaysPut(task[t], new)
  BY <1>1, <1>5, <1>6, <1>7, <1>8 DEF Moves, StaysPut
<1> QED BY <1>9, QuietStep

LEMMA CreatedWatch ==
    ASSUME NEW t \in Task, NEW watch \in BOOLEAN, task[t] \in Record,
           task[t].cancelSource => task[t].cancelled
    PROVE  LET s == Created(t, watch)
           IN  s.cancelled = task[t].cancelled /\ (s.cancelSource => s.cancelled)
<1> DEFINE r == task[t]
           h == [r EXCEPT !.held = TRUE]
           s == [h EXCEPT !.returnOnCancel = TRUE, !.cancelHandler = ~h.cancelled,
                          !.cancelSource = h.cancelled]
<1>1. h \in Record /\ h.cancelled = r.cancelled /\ h.cancelSource = r.cancelSource
  BY DEF Record
<1> HIDE DEF h
<1>2. s.cancelled = h.cancelled /\ s.cancelSource = h.cancelled
  BY <1>1 DEF Record
<1>3. Created(t, watch) = IF watch THEN s ELSE h
  BY DEF Created, Watch, h
<1> HIDE DEF s
<1> QED BY <1>1, <1>2, <1>3

\* The task of an operation that does its own work.
LEMMA StartedKeeps ==
    ASSUME PInv, IInv', NEW t \in Task, NEW watch \in BOOLEAN, NEW new \in Record,
           task[t].job = "new", task' = [task EXCEPT ![t] = new],
           UNCHANGED <<stack, answers, onto>>,
           new.job # "new",
           /\ new.returnCalled = Created(t, watch).returnCalled
           /\ new.cancelled = Created(t, watch).cancelled
           /\ new.cancelSource = Created(t, watch).cancelSource
           /\ new.threadResult = Created(t, watch).threadResult
           /\ new.sources = Created(t, watch).sources
           /\ new.result = Created(t, watch).result
           /\ new.chained = Created(t, watch).chained
           /\ new.completed = Created(t, watch).completed
           /\ new.disposed = Created(t, watch).disposed
    PROVE  PInv' /\ Future!Make(t)
<1> DEFINE r == task[t]
           s == Created(t, watch)
<1>1. r \in Record /\ task \in [Task -> Record]
  BY DEF PInv, IInv, TypeOK
<1>2. Sound(r, answers[t], onto[t], Waiting(t), InCallback(t))
  BY DEF PInv, IInv, SoundInv
<1>3. r.cancelHandler \/ r.cancelSource => r.returnOnCancel
  BY <1>2 DEF Sound, Jobs
<1>4. r.cancelSource => r.cancelled
  BY DEF PInv, WatchInv
<1>5. s.cancelled = r.cancelled /\ (s.cancelSource => s.cancelled)
  BY <1>1, <1>4, CreatedWatch
<1>6. /\ s.returnCalled = r.returnCalled /\ s.threadResult = r.threadResult
      /\ s.sources = r.sources /\ s.result = r.result /\ s.chained = r.chained
      /\ s.completed = r.completed /\ s.disposed = r.disposed
  BY <1>1, <1>3, CreatedEffect
<1>7. /\ new.returnCalled = r.returnCalled /\ new.threadResult = r.threadResult
      /\ new.sources = r.sources /\ new.result = r.result /\ new.chained = r.chained
      /\ new.completed = r.completed /\ new.disposed = r.disposed
      /\ new.cancelled = r.cancelled /\ (new.cancelSource => new.cancelled)
  BY <1>5, <1>6
<1>8. Moves(t, new)
  BY <1>7, SameStack DEF Moves
<1>9. PInv'
  BY <1>7, <1>8, OneKeeps DEF Moves
<1>10. IInv
  BY DEF PInv
<1>11. /\ \A o \in Task \ {t} : Place(o)' = Place(o)
       /\ \A o \in Task : Value(o)' = Value(o)
  BY <1>7, <1>10, OneLooks
<1>12. ~r.returnCalled /\ ~r.disposed /\ answers[t] = <<>> /\ onto[t] = NoTask
  BY <1>2 DEF Sound, Jobs, Kept
<1>13. Place(t) = "new"
  BY DEF Place
<1>14. Place(t)' = "pending"
  <2>1. task'[t] = new
    BY <1>1
  <2> QED BY <1>7, <1>12, <2>1 DEF Place
<1>15. {o \in Task : task[o].cancelled}' = {o \in Task : task[o].cancelled}
  <2>1. \A o \in Task : task'[o].cancelled = task[o].cancelled
    BY <1>1, <1>7
  <2> QED BY <2>1, SameCancelled
<1>16. [o \in Task |-> Place(o)]' = [[o \in Task |-> Place(o)] EXCEPT ![t] = "pending"]
  BY <1>11, <1>14
<1>17. [o \in Task |-> Value(o)]' = [o \in Task |-> Value(o)]
  BY <1>11
<1> QED BY <1>9, <1>13, <1>15, <1>16, <1>17 DEF Future!Make

LEMMA StartInMainKeeps ==
    ASSUME PInv, NEW t \in Task, StartInMain(t) PROVE PInv' /\ Future!Make(t)
<1>1. PICK watch \in BOOLEAN :
        task' = [task EXCEPT ![t] = [Created(t, watch) EXCEPT !.job = "main"]]
  BY DEF StartInMain, Watches
<1> DEFINE s == Created(t, watch)
           new == [s EXCEPT !.job = "main"]
<1>2. task[t] \in Record /\ (task[t].cancelHandler \/ task[t].cancelSource => task[t].returnOnCancel)
  BY DEF PInv, IInv, TypeOK, SoundInv, Sound, Jobs
<1>3. s \in Record
  BY <1>2, CreatedEffect
<1>4. IInv' /\ task[t].job = "new" /\ UNCHANGED <<stack, answers, onto>>
  BY StartInMainInv DEF PInv, StartInMain
<1>5. task' = [task EXCEPT ![t] = new]
  BY <1>1
<1> HIDE DEF s
<1>6. new \in Record
  BY <1>3 DEF Record
<1>7. /\ new.job = "main" /\ new.returnCalled = s.returnCalled /\ new.cancelled = s.cancelled
      /\ new.cancelSource = s.cancelSource /\ new.threadResult = s.threadResult
      /\ new.sources = s.sources /\ new.result = s.result /\ new.chained = s.chained
      /\ new.completed = s.completed /\ new.disposed = s.disposed
  BY <1>3 DEF Record
<1> HIDE DEF new
<1> QED BY <1>4, <1>5, <1>6, <1>7, StartedKeeps DEF s

LEMMA RunInThreadKeeps ==
    ASSUME PInv, NEW t \in Task, RunInThread(t) PROVE PInv' /\ Future!Make(t)
<1>1. PICK watch \in BOOLEAN :
        task' = [task EXCEPT ![t] = [Created(t, watch) EXCEPT !.job = "thread", !.worker = "queued"]]
  BY DEF RunInThread, Watches
<1> DEFINE s == Created(t, watch)
           new == [s EXCEPT !.job = "thread", !.worker = "queued"]
<1>2. task[t] \in Record /\ (task[t].cancelHandler \/ task[t].cancelSource => task[t].returnOnCancel)
  BY DEF PInv, IInv, TypeOK, SoundInv, Sound, Jobs
<1>3. s \in Record
  BY <1>2, CreatedEffect
<1>4. IInv' /\ task[t].job = "new" /\ UNCHANGED <<stack, answers, onto>>
  BY RunInThreadInv DEF PInv, RunInThread
<1>5. task' = [task EXCEPT ![t] = new]
  BY <1>1
<1> HIDE DEF s
<1>6. new \in Record
  BY <1>3 DEF Record
<1>7. /\ new.job = "thread" /\ new.returnCalled = s.returnCalled /\ new.cancelled = s.cancelled
      /\ new.cancelSource = s.cancelSource /\ new.threadResult = s.threadResult
      /\ new.sources = s.sources /\ new.result = s.result /\ new.chained = s.chained
      /\ new.completed = s.completed /\ new.disposed = s.disposed
  BY <1>3 DEF Record
<1> HIDE DEF new
<1> QED BY <1>4, <1>5, <1>6, <1>7, StartedKeeps DEF s

LEMMA CancelKeeps == ASSUME PInv, NEW t \in Task, Cancel(t) PROVE PInv' /\ Future!Cancel(t)
<1> DEFINE r == task[t]
           new == [r EXCEPT !.cancelled = TRUE, !.cancelSource = @ \/ r.cancelHandler]
<1>1. /\ r \in Record /\ task' = [task EXCEPT ![t] = new] /\ ~r.cancelled
      /\ UNCHANGED <<stack, answers, onto>> /\ task \in [Task -> Record]
  BY DEF PInv, IInv, TypeOK, Cancel
<1>2. IInv /\ IInv'
  BY CancelInv DEF PInv
<1> HIDE DEF r
<1>3. new \in Record
  BY <1>1, ZenonT(60) DEF Record
<1>4. /\ new.job = r.job /\ new.returnCalled = r.returnCalled /\ new.cancelled = TRUE
      /\ new.threadResult = r.threadResult
      /\ new.sources = r.sources /\ new.result = r.result /\ new.chained = r.chained
      /\ new.completed = r.completed /\ new.disposed = r.disposed
  BY <1>1 DEF Record
<1> HIDE DEF new
<1>5. PInv'
  BY <1>1, <1>2, <1>3, <1>4, SameStack, OneKeeps DEF r
<1>6. \A o \in Task : Place(o)' = Place(o) /\ Value(o)' = Value(o)
  BY <1>1, <1>2, <1>3, <1>4, OneLooks DEF StaysPut, r
<1>7. [o \in Task |-> Place(o)]' = [o \in Task |-> Place(o)]
  BY <1>6
<1>8. [o \in Task |-> Value(o)]' = [o \in Task |-> Value(o)]
  BY <1>6
<1>9. \A o \in Task : task'[o].cancelled <=> (task[o].cancelled \/ o = t)
  BY <1>1, <1>4
<1>10. {o \in Task : task[o].cancelled}' = {o \in Task : task[o].cancelled} \cup {t}
  BY <1>9
<1>11. t \notin {o \in Task : task[o].cancelled}
  BY <1>1 DEF r
<1> QED BY <1>1, <1>5, <1>7, <1>8, <1>10, <1>11 DEF Future!Cancel

\* A result that is returned in time settles the task ...
LEMMA SettlingStep ==
    ASSUME PInv, NEW t \in Task, NEW new, NEW x \in Results, Moves(t, new),
           task[t].job # "new", ~task[t].returnCalled, ~task[t].disposed,
           new.job # "new", new.returnCalled, new.cancelled = task[t].cancelled,
           new.sources = <<x>> \/ (new.sources = <<>> /\ new.threadResult = x)
    PROVE  /\ PInv' /\ Settles(t, x)
           /\ Place(t) \in {"pending", "late"}
           /\ {o \in Task : task[o].cancelled}' = {o \in Task : task[o].cancelled}
<1>1. PInv'
  BY OneKeeps DEF Moves
<1>2. IInv /\ task \in [Task -> Record]
  BY DEF PInv, IInv, TypeOK
<1>3. \A o \in Task \ {t} : Place(o)' = Place(o) /\ Value(o)' = Value(o)
  BY <1>2, OneLooks DEF Moves
<1>4. answers[t] = <<>>
  BY <1>2 DEF IInv, SoundInv, Sound, Kept
<1>5. task'[t] = new /\ answers' = answers
  BY <1>2 DEF Moves
<1>6. Place(t)' = "settled"
  BY <1>4, <1>5 DEF Place
<1>7. Value(t)' = x
  <2>1. <<x>> # <<>> /\ Head(<<x>>) = x
    BY Short
  <2> QED BY <1>4, <1>5, <2>1 DEF Value
<1>8. Place(t) \in {"pending", "late"}
  BY <1>4 DEF Place
<1>9. \A o \in Task : task'[o].cancelled = task[o].cancelled
  BY <1>2 DEF Moves
<1> QED BY <1>1, <1>3, <1>6, <1>7, <1>8, <1>9, SameCancelled DEF Settles

\* ... and one that is returned too late is not seen.
LEMMA ReturnInMainKeeps ==
    ASSUME PInv, NEW t \in Task, NEW x \in {"value", "error"}, ReturnInMain(t, x)
    PROVE  PInv' /\ [Future!Next]_(Future!vars)
<1> DEFINE r == task[t]
           ret == Return(r, x, TRUE)
           new == [ret EXCEPT !.job = "returned"]
<1>1. r \in Record /\ x \in Results
  BY DEF PInv, IInv, TypeOK, Results
<1>2. Sound(r, answers[t], onto[t], Waiting(t), InCallback(t))
  BY DEF PInv, IInv, SoundInv
<1>3. /\ task' = [task EXCEPT ![t] = new]
      /\ UNCHANGED <<stack, answers, onto>>
  BY DEF ReturnInMain
<1>4. r.job = "main" /\ ~r.disposed /\ onto[t] = NoTask
  BY <1>2 DEF ReturnInMain, Sound, Jobs, Ends
<1>5. r.cancelSource => r.cancelled
  BY DEF PInv, WatchInv
<1>6. IInv'
  BY ReturnInMainInv DEF PInv
<1> HIDE DEF r
<1>7. /\ ret \in Record
      /\ ret.cancelled = r.cancelled /\ ret.cancelSource = r.cancelSource
      /\ ret.result = r.result /\ ret.chained = r.chained
      /\ ret.completed = r.completed /\ ret.disposed = r.disposed
      /\ ret.returnCalled
  BY <1>1, ReturnFields
<1>8. r.returnCalled => ret.threadResult = r.threadResult /\ ret.sources = r.sources
  BY <1>1, ReturnLate
<1>9. ~r.returnCalled => ret.sources = Append(r.sources, x)
  BY <1>1, ReturnInTime
<1> HIDE DEF ret
<1>10. new \in Record
  BY <1>7 DEF Record
<1>11. /\ new.job = "returned" /\ new.returnCalled = ret.returnCalled
       /\ new.cancelled = ret.cancelled /\ new.cancelSource = ret.cancelSource
       /\ new.threadResult = ret.threadResult /\ new.sources = ret.sources
       /\ new.result = ret.result /\ new.chained = ret.chained
       /\ new.completed = ret.completed /\ new.disposed = ret.disposed
  BY <1>7 DEF Record
<1> HIDE DEF new
<1>12. Moves(t, new)
  BY <1>3, <1>5, <1>6, <1>7, <1>10, <1>11, SameStack DEF Moves, r
<1>13. CASE r.returnCalled
  <2>1. StaysPut(task[t], new)
    BY <1>4, <1>7, <1>11, <1>13 DEF StaysPut, r
  <2> QED BY <1>7, <1>8, <1>11, <1>12, <1>13, <2>1, QuietStep DEF r
<1>14. CASE ~r.returnCalled
  <2>1. r.sources = <<>>
    BY <1>2, <1>14 DEF Sound, Kept
  <2>2. new.sources = <<x>>
    BY <1>1, <1>9, <1>11, <1>14, <2>1, Short
  <2>3. /\ PInv' /\ Settles(t, x)
        /\ Place(t) \in {"pending", "late"}
        /\ {o \in Task : task[o].cancelled}' = {o \in Task : task[o].cancelled}
    BY <1>1, <1>4, <1>7, <1>11, <1>12, <1>14, <2>2, SettlingStep DEF r
  <2>4. Future!Return(t)
    BY <1>3, <1>4, <2>3, SettlesOne DEF Future!Return, Future!Open
  <2> QED BY <2>3, <2>4 DEF Future!Next
<1> QED BY <1>13, <1>14

LEMMA ThreadReturnKeeps ==
    ASSUME PInv, NEW t \in Task, NEW x \in {"value", "error"}, ThreadReturn(t, x)
    PROVE  PInv' /\ [Future!Next]_(Future!vars)
<1> DEFINE r == task[t]
           ret == Return(r, x, FALSE)
           new == [ret EXCEPT !.job = "returned"]
<1>1. r \in Record /\ x \in Results /\ x # "cancelled"
  BY DEF PInv, IInv, TypeOK, Results
<1>2. Sound(r, answers[t], onto[t], Waiting(t), InCallback(t))
  BY DEF PInv, IInv, SoundInv
<1>3. /\ task' = [task EXCEPT ![t] = new]
      /\ UNCHANGED <<stack, answers, onto>>
  BY DEF ThreadReturn
<1>4. r.job = "thread" /\ r.worker = "running" /\ ~r.disposed /\ onto[t] = NoTask
  BY <1>2 DEF ThreadReturn, Sound, Jobs, Ends
<1>5. r.cancelSource => r.cancelled
  BY DEF PInv, WatchInv
<1>6. IInv'
  BY ThreadReturnInv DEF PInv
<1> HIDE DEF r
<1>7. /\ ret \in Record
      /\ ret.cancelled = r.cancelled /\ ret.cancelSource = r.cancelSource
      /\ ret.result = r.result /\ ret.chained = r.chained
      /\ ret.completed = r.completed /\ ret.disposed = r.disposed
      /\ ret.returnCalled
  BY <1>1, ReturnFields
<1>8. r.returnCalled => ret.threadResult = r.threadResult /\ ret.sources = r.sources
  BY <1>1, ReturnLate
<1>9. ~r.returnCalled => ret.sources = r.sources /\ ret.threadResult = x
  BY <1>1, <1>4, ReturnEffect
<1> HIDE DEF ret
<1>10. new \in Record
  BY <1>7 DEF Record
<1>11. /\ new.job = "returned" /\ new.returnCalled = ret.returnCalled
       /\ new.cancelled = ret.cancelled /\ new.cancelSource = ret.cancelSource
       /\ new.threadResult = ret.threadResult /\ new.sources = ret.sources
       /\ new.result = ret.result /\ new.chained = ret.chained
       /\ new.completed = ret.completed /\ new.disposed = ret.disposed
  BY <1>7 DEF Record
<1> HIDE DEF new
<1>12. Moves(t, new)
  BY <1>3, <1>5, <1>6, <1>7, <1>10, <1>11, SameStack DEF Moves, r
<1>13. CASE r.returnCalled
  <2>1. StaysPut(task[t], new)
    BY <1>4, <1>7, <1>11, <1>13 DEF StaysPut, r
  <2> QED BY <1>7, <1>8, <1>11, <1>12, <1>13, <2>1, QuietStep DEF r
<1>14. CASE ~r.returnCalled
  <2>1. r.sources = <<>>
    BY <1>2, <1>14 DEF Sound, Kept
  <2>2. new.sources = <<>> /\ new.threadResult = x
    BY <1>9, <1>11, <1>14, <2>1
  <2>3. /\ PInv' /\ Settles(t, x)
        /\ Place(t) \in {"pending", "late"}
        /\ {o \in Task : task[o].cancelled}' = {o \in Task : task[o].cancelled}
    BY <1>1, <1>4, <1>7, <1>11, <1>12, <1>14, <2>2, SettlingStep DEF r
  <2>4. Future!Return(t)
    BY <1>3, <1>4, <2>3, SettlesOne DEF Future!Return, Future!Open
  <2> QED BY <2>3, <2>4 DEF Future!Next
<1> QED BY <1>13, <1>14

LEMMA CancelCbKeeps ==
    ASSUME PInv, NEW t \in Task, CancelCb(t)
    PROVE  PInv' /\ [Future!Next]_(Future!vars)
<1> DEFINE r == task[t]
           told == [r EXCEPT !.cancelSource = FALSE]
           x == "cancelled"
           new == Return(told, x, TRUE)
<1>1. r \in Record /\ x \in Results
  BY DEF PInv, IInv, TypeOK, Results
<1>2. Sound(r, answers[t], onto[t], Waiting(t), InCallback(t))
  BY DEF PInv, IInv, SoundInv
<1>3. /\ task' = [task EXCEPT ![t] = new]
      /\ UNCHANGED <<stack, answers, onto>>
  BY DEF CancelCb
<1>4. r.cancelSource /\ r.cancelled /\ r.returnOnCancel /\ r.job # "new" /\ ~r.disposed
  BY <1>2 DEF CancelCb, Sound, Jobs, Ends, PInv, WatchInv
<1>5. IInv'
  BY CancelCbInv DEF PInv
<1> HIDE DEF r, x
<1>6. told \in Record
  BY <1>1 DEF Record
<1>7. /\ told.job = r.job /\ told.returnCalled = r.returnCalled
      /\ told.cancelled = r.cancelled /\ told.cancelSource = FALSE
      /\ told.threadResult = r.threadResult /\ told.sources = r.sources
      /\ told.result = r.result /\ told.chained = r.chained
      /\ told.completed = r.completed /\ told.disposed = r.disposed
  BY <1>1 DEF Record
<1> HIDE DEF told
<1>8. /\ new \in Record
      /\ new.job = told.job /\ new.cancelled = told.cancelled
      /\ new.cancelSource = told.cancelSource
      /\ new.result = told.result /\ new.chained = told.chained
      /\ new.completed = told.completed /\ new.disposed = told.disposed
      /\ new.returnCalled
  BY <1>1, <1>6, ReturnFields
<1>9. told.returnCalled => new.threadResult = told.threadResult /\ new.sources = told.sources
  BY <1>1, <1>6, ReturnLate
<1>10. ~told.returnCalled => new.sources = Append(told.sources, x)
  BY <1>1, <1>6, ReturnInTime
<1> HIDE DEF new
<1>11. Moves(t, new)
  BY <1>3, <1>5, <1>7, <1>8, SameStack DEF Moves, r
<1>12. CASE r.returnCalled
  <2>1. StaysPut(task[t], new)
    BY <1>7, <1>8, <1>12 DEF StaysPut, r
  <2> QED BY <1>7, <1>8, <1>9, <1>11, <1>12, <2>1, QuietStep DEF r
<1>13. CASE ~r.returnCalled
  <2>1. r.sources = <<>>
    BY <1>2, <1>13 DEF Sound, Kept
  <2>2. new.sources = <<x>>
    BY <1>1, <1>7, <1>10, <1>13, <2>1, Short
  <2>3. /\ PInv' /\ Settles(t, x)
        /\ Place(t) \in {"pending", "late"}
        /\ {o \in Task : task[o].cancelled}' = {o \in Task : task[o].cancelled}
    BY <1>1, <1>4, <1>7, <1>8, <1>11, <1>13, <2>2, SettlingStep DEF r
  <2>4. t \in {o \in Task : task[o].cancelled}
    BY <1>4 DEF r
  <2>5. Future!Settle(t, "cancelled")
    BY <2>3, SettlesOne DEF x
  <2>6. Future!Withdraw(t)
    BY <1>3, <2>3, <2>4, <2>5 DEF Future!Withdraw, Future!Open
  <2> QED BY <2>3, <2>6 DEF Future!Next
<1> QED BY <1>12, <1>13

\* The result of a thread that has ended is handed on as it is.
LEMMA ThreadEndKeeps ==
    ASSUME PInv, NEW t \in Task, ThreadEnd(t) PROVE PInv' /\ UNCHANGED Future!vars
<1> DEFINE r == task[t]
           ended == [r EXCEPT !.worker = "ended", !.job = "returned", !.threadResult = NoResult]
           new == IF r.threadResult = NoResult THEN ended ELSE Complete(ended, r.threadResult)
<1>1. /\ r \in Record /\ task' = [task EXCEPT ![t] = new]
      /\ UNCHANGED <<stack, answers, onto>> /\ task \in [Task -> Record]
  BY DEF PInv, IInv, TypeOK, ThreadEnd
<1>2. Sound(r, answers[t], onto[t], Waiting(t), InCallback(t))
  BY DEF PInv, IInv, SoundInv
<1>3. r.job # "new"
  BY <1>2 DEF ThreadEnd, Sound, Jobs
<1>4. r.cancelSource => r.cancelled
  BY DEF PInv, WatchInv
<1>5. IInv'
  BY ThreadEndInv DEF PInv
<1> HIDE DEF r
<1>6. ended \in Record
  BY <1>1 DEF Record
<1>7. /\ ended.job = "returned" /\ ended.returnCalled = r.returnCalled
      /\ ended.cancelled = r.cancelled /\ ended.cancelSource = r.cancelSource
      /\ ended.threadResult = NoResult /\ ended.sources = r.sources
      /\ ended.result = r.result /\ ended.chained = r.chained
      /\ ended.completed = r.completed /\ ended.disposed = r.disposed
  BY <1>1 DEF Record
<1> HIDE DEF ended
<1>8. CASE r.threadResult = NoResult
  <2>1. task' = [task EXCEPT ![t] = ended]
    BY <1>1, <1>8
  <2>2. Moves(t, ended) /\ StaysPut(task[t], ended)
    BY <1>1, <1>3, <1>4, <1>5, <1>6, <1>7, <2>1, SameStack DEF Moves, StaysPut, r
  <2> QED BY <1>7, <1>8, <2>2, QuietStep DEF r
<1>9. CASE r.threadResult # NoResult
  <2> DEFINE x == r.threadResult
             late == Complete(ended, x)
  <2>1. x \in Results
    BY <1>1, <1>9 DEF Record
  <2>2. task' = [task EXCEPT ![t] = late]
    BY <1>1, <1>9
  <2>3. r.sources = <<>> /\ answers[t] = <<>>
    BY <1>2, <1>9 DEF Sound, Kept
  <2>4. /\ late \in Record
        /\ late.job = ended.job /\ late.returnCalled = ended.returnCalled
        /\ late.cancelled = ended.cancelled /\ late.cancelSource = ended.cancelSource
    BY <1>6, <2>1, CompleteEffect
  <2>5. /\ late.sources = Append(ended.sources, x)
        /\ late.result = ended.result /\ late.chained = ended.chained
        /\ late.completed = ended.completed /\ late.disposed = ended.disposed
    BY <1>6, <2>1, CompleteEffect
  <2> HIDE DEF late
  <2>6. late.sources = <<x>>
    <3>1. Append(<<>>, x) = <<x>>
      BY <2>1, Short
    <3> HIDE DEF x
    <3> QED BY <1>7, <2>3, <2>5, <3>1
  <2>7. Moves(t, late) /\ StaysPut(task[t], late)
    BY <1>1, <1>3, <1>4, <1>5, <1>7, <2>2, <2>4, <2>5, SameStack DEF Moves, StaysPut, r
  <2>8. Value(t) = x
    BY <2>3 DEF Value, r
  <2>9. Value(t)' = x
    <3>1. task'[t] = late /\ answers' = answers
      BY <1>1, <2>2
    <3>2. <<x>> # <<>> /\ Head(<<x>>) = x
      BY <2>1, Short
    <3> HIDE DEF x
    <3> QED BY <2>3, <2>6, <3>1, <3>2 DEF Value
  <2> QED BY <1>7, <2>4, <2>7, <2>8, <2>9, QuietStep DEF r
<1> QED BY <1>8, <1>9

LEMMA ReturnDiscardKeeps ==
    ASSUME PInv, NEW t \in Task, ReturnDiscard(t) PROVE PInv' /\ UNCHANGED Future!vars
<1> DEFINE r == task[t]
           new == Dispatched(t)
<1>1. /\ r \in Record /\ r.sources # <<>> /\ task' = [task EXCEPT ![t] = new]
      /\ UNCHANGED <<stack, answers, onto>> /\ task \in [Task -> Record]
  BY DEF PInv, IInv, TypeOK, ReturnDiscard
<1>2. r.result # NoResult
  BY DEF ReturnDiscard, Discards
<1>3. answers[t] # <<>>
  BY <1>2 DEF PInv, IInv, SoundInv, Sound, Kept
<1>4. r.cancelSource => r.cancelled
  BY DEF PInv, WatchInv
<1>5. IInv'
  BY ReturnDiscardInv DEF PInv
<1>6. /\ new \in Record
      /\ new.job = r.job /\ new.returnCalled = r.returnCalled
      /\ new.cancelled = r.cancelled /\ new.cancelSource = r.cancelSource
      /\ new.threadResult = r.threadResult
  BY <1>1, DispatchedEffect
<1>7. /\ new.result = r.result /\ new.chained = r.chained
      /\ new.completed = r.completed /\ new.disposed = r.disposed
  BY <1>1, DispatchedEffect
<1> HIDE DEF new
<1>8. Moves(t, new) /\ StaysPut(task[t], new)
  BY <1>1, <1>4, <1>5, <1>6, <1>7, SameStack DEF Moves, StaysPut
<1>9. Value(t)' = Value(t)
  BY <1>1, <1>3 DEF Value
<1> QED BY <1>6, <1>8, <1>9, QuietStep

\* Nothing moves but the process, which may abort.
LEMMA NobodyMoves ==
    ASSUME PInv, IInv', UNCHANGED <<task, stack, answers, onto>>
    PROVE  PInv' /\ UNCHANGED Future!vars
<1>1. WatchInv' /\ CallInv' /\ OverInv'
  BY DEF PInv, WatchInv, CallInv, OverInv
<1>2. \A o \in Task : Place(o)' = Place(o)
  BY DEF Place
<1>3. \A o \in Task : Value(o)' = Value(o)
  BY DEF Value
<1>4. Unseen
  BY <1>2, <1>3 DEF Unseen
<1> QED BY <1>1, <1>4, UnseenStutters DEF PInv

LEMMA ReturnAbortKeeps ==
    ASSUME PInv, NEW t \in Task, ReturnAbort(t) PROVE PInv' /\ UNCHANGED Future!vars
<1>1. IInv'
  BY ReturnAbortInv DEF PInv
<1>2. UNCHANGED <<task, stack, answers, onto>>
  BY DEF ReturnAbort
<1> QED BY <1>1, <1>2, NobodyMoves

\* The answer is what the task was settled with.
LEMMA ReturnCbKeeps ==
    ASSUME PInv, NEW t \in Task, ReturnCb(t) PROVE PInv' /\ Future!Call(t)
<1> DEFINE r == task[t]
           x == Head(r.sources)
           fired == Dispatched(t)
           new == [fired EXCEPT !.result = x, !.chained = {}]
           frame == [kind |-> "callback", task |-> t, copy |-> x, chained |-> r.chained]
           n == Len(stack)
<1>1. /\ r \in Record /\ r.sources # <<>> /\ r.sources \in Seq(Results) /\ x \in Results
      /\ task \in [Task -> Record] /\ answers \in [Task -> Seq(Results)]
  <2>1. r \in Record /\ r.sources # <<>> /\ task \in [Task -> Record] /\ answers \in [Task -> Seq(Results)]
    BY DEF PInv, IInv, TypeOK, ReturnCb
  <2>2. r.sources \in Seq(Results)
    BY <2>1 DEF Record
  <2> QED BY <2>1, <2>2
<1>2. Sound(r, answers[t], onto[t], Waiting(t), InCallback(t))
  BY DEF PInv, IInv, SoundInv
<1>3. /\ task' = [task EXCEPT ![t] = new] /\ stack' = Append(stack, frame)
      /\ answers' = [answers EXCEPT ![t] = Append(@, x)]
      /\ UNCHANGED onto
  BY DEF ReturnCb
<1>4. ~(r.gotCancel /\ r.result # NoResult)
  BY DEF ReturnCb, Discards
<1>5. IInv'
  BY ReturnCbInv DEF PInv
<1>6. answers[t] = <<>> /\ r.returnCalled /\ r.job # "new"
  <2>1. "cancelled" # NoResult /\ r.returnCalled
    BY <1>1, <1>2 DEF Results, Sound, Kept
  <2>2. answers[t] = <<>>
    BY <1>1, <1>2, <1>4, <2>1 DEF Sound, Placed
  <2> QED BY <1>2, <2>1, <2>2 DEF Sound, Jobs
<1>7. ~r.completed
  BY <1>6 DEF PInv, OverInv, Over
<1>8. answers'[t] = <<x>> /\ \A o \in Task \ {t} : answers'[o] = answers[o]
  BY <1>1, <1>3, <1>6, Short
<1>9. <<x>> # <<>> /\ Head(<<x>>) = x
  BY <1>1, Short
<1> HIDE DEF x
<1>10. /\ fired \in Record /\ fired.job = r.job /\ fired.returnCalled = r.returnCalled
       /\ fired.cancelled = r.cancelled /\ fired.cancelSource = r.cancelSource
       /\ fired.completed = r.completed /\ fired.disposed = r.disposed
  BY <1>1, DispatchedEffect
<1> HIDE DEF fired
<1>11. /\ new.job = r.job /\ new.returnCalled = r.returnCalled
       /\ new.cancelled = r.cancelled /\ new.cancelSource = r.cancelSource
       /\ new.completed = r.completed /\ new.disposed = r.disposed
       /\ new.result = x /\ new.chained = {}
  BY <1>10 DEF Record
<1> HIDE DEF new
<1>12. task'[t] = new /\ \A o \in Task \ {t} : task'[o] = task[o]
  BY <1>1, <1>3
<1>13. WatchInv'
  BY <1>11, <1>12 DEF PInv, WatchInv
<1>14. OverInv'
  <2>1. \A o \in Task : Over(task[o], answers[o], o \in Keeping)
    BY DEF PInv, OverInv
  <2>2. x # NoResult
    BY <1>1
  <2>3. Over(new, answers'[t], t \in Keeping)
    BY <1>8, <1>9, <1>11, <2>2 DEF Over
  <2> QED BY <1>8, <1>12, <2>1, <2>3 DEF OverInv
<1>15. CallInv'
  <2>1. /\ stack \in Seq(Frame) /\ n \in Nat /\ DOMAIN stack = 1..n
        /\ \A i \in 1..n : stack[i].task \in Task
    <3>1. stack \in Seq(Frame) /\ n \in Nat /\ DOMAIN stack = 1..n
      BY DEF PInv, IInv, TypeOK
    <3> QED BY <3>1, FrameType DEF PInv, IInv
  <2>2. frame.kind = "callback" /\ frame.task = t
    OBVIOUS
  <2>3. frame \in Frame
    <3>1. r.chained \in SUBSET Task
      BY <1>1 DEF Record
    <3> QED BY <1>1, <3>1 DEF Frame
  <2> HIDE DEF frame, n
  <2>4. /\ DOMAIN stack' = 1..(n + 1)
        /\ \A i \in 1..n : stack'[i] = stack[i]
        /\ stack'[n + 1] = frame
    BY <1>3, <2>1, <2>3 DEF n
  <2>5. \A i \in 1..n : stack[i].kind = "callback" => stack[i].task # t
    <3> SUFFICES ASSUME NEW i \in 1..n, stack[i].kind = "callback", stack[i].task = t
                 PROVE  FALSE
      OBVIOUS
    <3>1. stack[i].copy \in Given(t)
      BY <2>1 DEF PInv, IInv, AnswerInv
    <3> QED BY <1>6, <3>1 DEF Given
  <2>6. \A i \in DOMAIN stack' : i \in 1..n \/ i = n + 1
    BY <2>1, <2>4
  <2>7. \A i \in DOMAIN stack' : stack'[i].kind = "callback" => ~task'[stack'[i].task].completed
    BY <1>7, <1>11, <1>12, <2>1, <2>2, <2>4, <2>5, <2>6 DEF PInv, CallInv
  <2>8. \A i, j \in DOMAIN stack' :
          stack'[i].kind = "callback" /\ stack'[j].kind = "callback" /\ stack'[i].task = stack'[j].task
            => i = j
    BY <2>1, <2>2, <2>4, <2>5, <2>6 DEF PInv, CallInv
  <2> QED BY <2>7, <2>8 DEF CallInv
<1>16. Place(t) = "settled"
  BY <1>6 DEF Place
<1>17. Place(t)' = "called"
  BY <1>6, <1>7, <1>8, <1>9, <1>11, <1>12 DEF Place
<1>18. \A o \in Task \ {t} : Place(o)' = Place(o)
  BY <1>6, <1>8, <1>11, <1>12, <1>3 DEF Place
<1>19. \A o \in Task : Value(o)' = Value(o)
  <2>1. \A o \in Task \ {t} : Value(o)' = Value(o)
    BY <1>8, <1>12 DEF Value
  <2>2. Value(t) = x
    BY <1>1, <1>6 DEF Value, x
  <2>3. Value(t)' = x
    BY <1>8, <1>9 DEF Value
  <2> QED BY <2>1, <2>2, <2>3
<1>20. \A o \in Task : task'[o].cancelled = task[o].cancelled
  BY <1>11, <1>12
<1>21. [o \in Task |-> Place(o)]' = [[o \in Task |-> Place(o)] EXCEPT ![t] = "called"]
  BY <1>17, <1>18
<1>22. [o \in Task |-> Value(o)]' = [o \in Task |-> Value(o)]
  BY <1>19
<1>23. PInv'
  BY <1>5, <1>13, <1>14, <1>15 DEF PInv
<1> QED BY <1>3, <1>16, <1>20, <1>21, <1>22, <1>23, SameCancelled DEF Future!Call

\* There is one answer.
LEMMA OneAnswer ==
    ASSUME IInv, NEW t \in Task, answers[t] # <<>>
    PROVE  /\ Given(t) = {Head(answers[t])} /\ Head(answers[t]) \in Results
           /\ task[t].job # "new" /\ task[t].returnCalled
<1>1. Sound(task[t], answers[t], onto[t], Waiting(t), InCallback(t))
  BY DEF IInv, SoundInv
<1>2. "cancelled" \in Results
  BY DEF Results
<1>3. PICK y \in Results : answers[t] = <<y>>
  BY <1>1, <1>2 DEF Sound, Placed
<1>4. Head(answers[t]) = y
  BY <1>3, Short
<1>5. Given(t) = {y}
  BY <1>3 DEF Given
<1>6. task[t].job # "new" /\ task[t].returnCalled
  BY <1>1 DEF Sound, Kept, Jobs
<1> QED BY <1>4, <1>5, <1>6

\* A task that is chained looks for a result first, and waits otherwise.
LEMMA ChainKeeps ==
    ASSUME PInv, NEW p \in Task, NEW t \in Task, Chain(p, t)
    PROVE  PInv' /\ Future!Follow(t, p)
<1> DEFINE old == task[t]
           x == task[p].result
<1>1. /\ UNCHANGED <<stack, answers>>
      /\ onto' = [onto EXCEPT ![t] = p]
      /\ old.job = "new" /\ task[p].job # "new" /\ task[p].held
      /\ ~task[p].completed \/ p \in Keeping
  BY DEF Chain
<1>2. PICK watch \in BOOLEAN :
        LET r == [Created(t, watch) EXCEPT !.job = "chained"]
        IN  IF x # NoResult
            THEN task' = [task EXCEPT ![t] = Deliver(r, x)]
            ELSE task' = [task EXCEPT ![t] = r, ![p].chained = @ \cup {t}]
  BY DEF Chain, Watches
<1> DEFINE fresh == Created(t, watch)
           r == [fresh EXCEPT !.job = "chained"]
           joined == [task[p] EXCEPT !.chained = @ \cup {t}]
<1>3. /\ task \in [Task -> Record] /\ old \in Record /\ task[p] \in Record
      /\ onto \in [Task -> Task \cup {NoTask}] /\ p # t
  BY <1>1 DEF PInv, IInv, TypeOK
<1>4. \/ x # NoResult /\ task' = [task EXCEPT ![t] = Deliver(r, x)]
      \/ x = NoResult /\ task' = [task EXCEPT ![t] = r, ![p] = joined]
  <2>1. CASE x # NoResult
    BY <1>2, <2>1
  <2>2. CASE x = NoResult
    BY <1>2, <1>3, <2>2
  <2> QED BY <2>1, <2>2
<1>5. \A o \in Task : Sound(task[o], answers[o], onto[o], Waiting(o), InCallback(o))
  BY DEF PInv, IInv, SoundInv
<1>6. /\ ~Waiting(t) /\ ~old.returnCalled /\ ~old.disposed /\ old.chained = {} /\ ~old.completed
      /\ ~old.cancelHandler /\ ~old.cancelSource /\ ~task[p].disposed
      /\ answers[p] = <<>> => x = NoResult
  BY <1>1, <1>5 DEF Sound, Waits, Jobs, Ends, Kept
<1>7. old.sources = <<>> /\ answers[t] = <<>> /\ old.threadResult = NoResult /\ old.result = NoResult
  BY <1>5, <1>6 DEF Sound, Kept
<1>8. fresh.cancelled = old.cancelled /\ (fresh.cancelSource => fresh.cancelled)
  BY <1>3, <1>6, CreatedWatch
<1>9. /\ fresh \in Record
      /\ fresh.returnCalled = old.returnCalled /\ fresh.threadResult = old.threadResult
      /\ fresh.sources = old.sources /\ fresh.result = old.result
      /\ fresh.chained = old.chained /\ fresh.completed = old.completed
      /\ fresh.disposed = old.disposed
  BY <1>3, <1>6, CreatedEffect
<1>10. IInv /\ IInv'
  BY ChainStepInv DEF PInv
<1>11. Place(t) = "new"
  BY <1>1 DEF Place
<1>12. x # NoResult => x \in Results /\ answers[p] # <<>> /\ x = Head(answers[p])
  <2>1. x # NoResult => x \in Given(p) /\ answers[p] # <<>>
    BY <1>6, <1>10 DEF IInv, AnswerInv
  <2> QED BY <1>10, <2>1, OneAnswer
<1>13. p \in Keeping /\ answers[p] # <<>> => x # NoResult
  BY <1>6 DEF PInv, OverInv, Over
<1> HIDE DEF fresh, old, x
<1>14. r \in Record
  BY <1>9 DEF Record
<1>15. /\ r.job = "chained" /\ r.returnCalled = fresh.returnCalled
       /\ r.cancelled = fresh.cancelled /\ r.cancelSource = fresh.cancelSource
       /\ r.threadResult = fresh.threadResult /\ r.sources = fresh.sources
       /\ r.result = fresh.result /\ r.chained = fresh.chained
       /\ r.completed = fresh.completed /\ r.disposed = fresh.disposed
  BY <1>9 DEF Record
<1>16. /\ joined.job = task[p].job /\ joined.returnCalled = task[p].returnCalled
       /\ joined.cancelled = task[p].cancelled /\ joined.cancelSource = task[p].cancelSource
       /\ joined.threadResult = task[p].threadResult /\ joined.sources = task[p].sources
       /\ joined.result = x /\ joined.completed = task[p].completed
       /\ joined.disposed = task[p].disposed
       /\ joined.chained = (task[p].chained \cup {t})
  BY <1>3 DEF Record, x
<1> HIDE DEF r, joined
<1>17. onto'[t] = p /\ \A o \in Task \ {t} : onto'[o] = onto[o]
  BY <1>1, <1>3
<1>18. \A i \in DOMAIN stack : stack[i].task \in Task
  BY <1>10, FrameType DEF IInv
<1>19. CASE x # NoResult
  <2> DEFINE new == Deliver(r, x)
  <2>1. x \in Results /\ task' = [task EXCEPT ![t] = new]
    BY <1>4, <1>12, <1>19
  <2>2. /\ new.job = r.job /\ new.returnCalled /\ new.cancelled = r.cancelled
        /\ new.cancelSource = r.cancelSource /\ new.sources = Append(r.sources, x)
    BY <1>14, <2>1, DeliverEffect
  <2>3. new.result = r.result /\ new.chained = r.chained /\ new.completed = r.completed
    BY <1>14, <2>1, DeliverEffect
  <2> HIDE DEF new
  <2>4. new.sources = <<x>>
    <3>1. Append(<<>>, x) = <<x>>
      BY <2>1, Short
    <3> QED BY <1>7, <1>9, <1>15, <2>2, <3>1
  <2>5. task'[t] = new /\ \A o \in Task \ {t} : task'[o] = task[o]
    BY <1>3, <2>1
  <2>6. /\ \A o \in Task : task'[o].chained = task[o].chained
        /\ \A o \in Task : task'[o].completed = task[o].completed
        /\ \A o \in Task : task'[o].cancelled = task[o].cancelled
    BY <1>8, <1>9, <1>15, <2>2, <2>3, <2>5 DEF old
  <2>7. WatchInv'
    BY <1>8, <1>15, <2>2, <2>5 DEF PInv, WatchInv
  <2>8. CallInv'
    BY <1>1, <1>18, <2>6 DEF PInv, CallInv
  <2>9. OverInv'
    <3>1. Over(new, answers[t], t \in Keeping)
      BY <1>6, <1>7, <1>9, <1>15, <2>3 DEF Over
    <3> QED BY <1>1, <2>5, <3>1 DEF PInv, OverInv
  <2>10. Place(p) \in {"called", "complete"} /\ Value(p) = x
    BY <1>1, <1>12, <1>19 DEF Place, Value
  <2>11. \A o \in Task \ {t} : Place(o)' = Place(o)
    BY <1>1, <1>17, <2>5, <2>6 DEF Place
  <2>12. \A o \in Task \ {t} : Value(o)' = Value(o)
    BY <1>1, <2>5 DEF Value
  <2>13. Place(t)' = "settled"
    BY <1>1, <1>7, <1>15, <2>2, <2>5 DEF Place
  <2>14. Value(t)' = x
    <3>1. <<x>> # <<>> /\ Head(<<x>>) = x
      BY <2>1, Short
    <3> QED BY <1>1, <1>7, <2>4, <2>5, <3>1 DEF Value
  <2>15. Settles(t, x)
    BY <2>11, <2>12, <2>13, <2>14 DEF Settles
  <2>16. Future!Settle(t, x)
    BY <2>15, SettlesOne
  <2>17. PInv'
    BY <1>10, <2>7, <2>8, <2>9 DEF PInv
  <2>18. {o \in Task : task[o].cancelled}' = {o \in Task : task[o].cancelled}
    BY <2>6, SameCancelled
  <2> QED BY <1>1, <1>11, <2>10, <2>16, <2>17, <2>18 DEF Future!Follow
<1>20. CASE x = NoResult
  <2>1. task' = [task EXCEPT ![t] = r, ![p] = joined]
    BY <1>4, <1>20
  <2>2. /\ task'[t] = r /\ task'[p] = joined
        /\ \A o \in Task \ {t, p} : task'[o] = task[o]
    BY <1>3, <2>1
  <2>3. /\ \A o \in Task : task'[o].completed = task[o].completed
        /\ \A o \in Task : task'[o].cancelled = task[o].cancelled
    BY <1>8, <1>9, <1>15, <1>16, <2>2 DEF old
  <2>4. WatchInv'
    BY <1>8, <1>15, <1>16, <2>2 DEF PInv, WatchInv
  <2>5. CallInv'
    BY <1>1, <1>18, <2>3 DEF PInv, CallInv
  <2>6. OverInv'
    <3>1. Over(r, answers[t], t \in Keeping)
      BY <1>6, <1>7, <1>9, <1>15 DEF Over
    <3>2. Over(task[p], answers[p], p \in Keeping)
      BY DEF PInv, OverInv
    <3>3. Over(joined, answers[p], p \in Keeping)
      BY <1>1, <1>13, <1>16, <1>20, <3>2 DEF Over
    <3> QED BY <1>1, <2>2, <3>1, <3>3 DEF PInv, OverInv
  <2>7. \A o \in Task \ {t}, q \in Task : o \in task'[q].chained <=> o \in task[q].chained
    <3>1. r.chained = {} /\ task[t].chained = {}
      BY <1>6, <1>9, <1>15 DEF old
    <3> QED BY <1>16, <2>2, <3>1
  <2>8. \A o \in Task \ {t} : Place(o)' = Place(o)
    <3>1. \A o \in Task \ {t} : /\ task'[o].job = task[o].job
                                /\ task'[o].returnCalled = task[o].returnCalled
                                /\ task'[o].completed = task[o].completed
                                /\ task'[o].disposed = task[o].disposed
      BY <1>16, <2>2
    <3> QED BY <1>1, <1>17, <2>7, <3>1 DEF Place
  <2>9. \A o \in Task : Value(o)' = Value(o)
    <3>1. \A o \in Task : /\ task'[o].sources = task[o].sources
                          /\ task'[o].threadResult = task[o].threadResult
      BY <1>9, <1>15, <1>16, <2>2 DEF old
    <3> QED BY <1>1, <3>1 DEF Value
  <2>10. Place(t)' = IF answers[p] = <<>> THEN "pending" ELSE "late"
    <3>1. t \in task'[p].chained
      BY <1>16, <2>2
    <3>2. task'[t].job # "new" /\ ~task'[t].returnCalled /\ ~task'[t].disposed
      BY <1>6, <1>9, <1>15, <2>2
    <3> QED BY <1>1, <1>7, <1>17, <3>1, <3>2 DEF Place
  <2>11. IF answers[p] = <<>> THEN Place(p) \in {"pending", "late", "settled"} ELSE Place(p) = "called"
    <3>1. answers[p] # <<>> => ~task[p].completed
      BY <1>1, <1>13, <1>20
    <3> QED BY <1>1, <1>6, <3>1 DEF Place
  <2>12. [o \in Task |-> Place(o)]' =
           [[o \in Task |-> Place(o)] EXCEPT ![t] = IF answers[p] = <<>> THEN "pending" ELSE "late"]
    BY <2>8, <2>10
  <2>13. [o \in Task |-> Value(o)]' = [o \in Task |-> Value(o)]
    BY <2>9
  <2>14. PInv'
    BY <1>10, <2>4, <2>5, <2>6 DEF PInv
  <2>15. {o \in Task : task[o].cancelled}' = {o \in Task : task[o].cancelled}
    BY <2>3, SameCancelled
  <2> QED BY <1>1, <1>11, <2>11, <2>12, <2>13, <2>14, <2>15 DEF Future!Follow
<1> QED BY <1>19, <1>20

\* What a result does to a task that waits for it: it settles the task, unless
\* that was cancelled before.
LEMMA FollowerSettles ==
    ASSUME IInv, NEW o \in Task, Waiting(o), NEW x \in Results,
           task'[o] = Deliver(task[o], x) \/ task'[o] = Return(task[o], x, TRUE),
           answers'[o] = answers[o]
    PROVE  /\ IF task[o].returnCalled
              THEN /\ Place(o) \notin {"pending", "late"}
                   /\ Place(o)' = Place(o) /\ Value(o)' = Value(o)
              ELSE /\ Place(o) \in {"pending", "late"}
                   /\ Place(o)' = "settled" /\ Value(o)' = x
           /\ task'[o].cancelled = task[o].cancelled
           /\ task'[o].cancelSource = task[o].cancelSource
           /\ task'[o].completed = task[o].completed /\ task'[o].disposed = task[o].disposed
           /\ task'[o].result = task[o].result /\ task'[o].chained = task[o].chained
<1> DEFINE r == task[o]
           s == task'[o]
<1>1. r \in Record /\ r.sources \in Seq(Results)
  <2>1. r \in Record
    BY DEF IInv, TypeOK
  <2> QED BY <2>1 DEF Record
<1>2. Sound(r, answers[o], onto[o], TRUE, InCallback(o))
  <2>1. Sound(r, answers[o], onto[o], Waiting(o), InCallback(o))
    BY DEF IInv, SoundInv
  <2>2. Waiting(o) \in BOOLEAN /\ InCallback(o) \in BOOLEAN
    BY DEF Waiting, InCallback
  <2> QED BY <2>1, <2>2, SoundSame
<1>3. r.job = "chained" /\ ~r.disposed
  BY <1>2 DEF Sound, Waits, Ends
<1>4. Append(<<>>, x) = <<x>> /\ <<x>> # <<>> /\ Head(<<x>>) = x
  BY Short
<1>5. r.returnCalled /\ answers[o] = <<>> =>
         /\ r.sources = <<"cancelled">> /\ r.sources # <<>>
         /\ Append(r.sources, x) # <<>> /\ Head(Append(r.sources, x)) = Head(r.sources)
  <2>1. "cancelled" \in Results /\ <<"cancelled">> # <<>>
    BY Short DEF Results
  <2>2. Append(<<"cancelled">>, x) = <<"cancelled", x>> /\ <<"cancelled", x>> # <<>>
    BY <2>1, Short
  <2>3. Head(<<"cancelled", x>>) = "cancelled" /\ Head(<<"cancelled">>) = "cancelled"
    BY <2>1, Short
  <2>4. ASSUME r.returnCalled, answers[o] = <<>>
        PROVE  r.sources = <<"cancelled">>
    BY <1>2, <2>1, <2>4 DEF Sound, Waits
  <2> HIDE DEF r
  <2> QED BY <2>1, <2>2, <2>3, <2>4
<1>6. ~r.returnCalled => r.sources = <<>> /\ answers[o] = <<>>
  BY <1>2 DEF Sound, Kept
<1>7. /\ s.job = r.job /\ s.returnCalled
      /\ s.cancelled = r.cancelled /\ s.cancelSource = r.cancelSource
      /\ s.completed = r.completed /\ s.disposed = r.disposed
      /\ s.result = r.result /\ s.chained = r.chained
  <2>1. CASE s = Deliver(r, x)
    <3> HIDE DEF r, s
    <3> QED BY <1>1, <2>1, DeliverEffect
  <2>2. CASE s = Return(r, x, TRUE)
    <3> HIDE DEF r, s
    <3> QED BY <1>1, <2>2, ReturnFields
  <2> QED BY <2>1, <2>2
<1>8. \/ s.sources = Append(r.sources, x)
      \/ r.returnCalled /\ s.sources = r.sources
  <2>1. CASE s = Deliver(r, x)
    <3> HIDE DEF r, s
    <3> QED BY <1>1, <2>1, DeliverEffect
  <2>2. CASE s = Return(r, x, TRUE)
    <3> HIDE DEF r, s
    <3>1. CASE r.returnCalled
      BY <1>1, <2>2, <3>1, ReturnLate
    <3>2. CASE ~r.returnCalled
      BY <1>1, <2>2, <3>2, ReturnInTime
    <3> QED BY <3>1, <3>2
  <2> QED BY <2>1, <2>2
<1>9. CASE r.returnCalled
  <2>1. Place(o) \notin {"pending", "late"}
    BY <1>3, <1>9 DEF Place
  <2>2. Place(o)' = Place(o)
    BY <1>3, <1>7, <1>9 DEF Place
  <2>3. Value(o)' = Value(o)
    <3>1. CASE answers[o] = <<>>
      <4>1. s.sources # <<>> /\ Head(s.sources) = Head(r.sources)
        BY <1>5, <1>8, <1>9, <3>1
      <4> QED BY <1>5, <1>9, <3>1, <4>1 DEF Value
    <3>2. CASE answers[o] # <<>>
      BY <3>2 DEF Value
    <3> QED BY <3>1, <3>2
  <2> QED BY <1>7, <1>9, <2>1, <2>2, <2>3
<1>10. CASE ~r.returnCalled
  <2>1. Place(o) \in {"pending", "late"}
    BY <1>3, <1>6, <1>10 DEF Place
  <2>2. Place(o)' = "settled"
    BY <1>3, <1>6, <1>7, <1>10 DEF Place
  <2>3. s.sources = <<x>>
    BY <1>4, <1>6, <1>8, <1>10
  <2>4. Value(o)' = x
    BY <1>4, <1>6, <1>10, <2>3 DEF Value
  <2> QED BY <1>7, <1>10, <2>1, <2>2, <2>4
<1> QED BY <1>9, <1>10

\* One that does not wait for t, or not with t.
LEMMA BystanderStays ==
    ASSUME NEW o \in Task, task'[o] = task[o], UNCHANGED <<answers, onto>>,
           \A q \in Task : o \in task'[q].chained <=> o \in task[q].chained
    PROVE  Place(o)' = Place(o) /\ Value(o)' = Value(o)
<1>1. Place(o)' = Place(o)
  BY DEF Place
<1>2. Value(o)' = Value(o)
  BY DEF Value
<1> QED BY <1>1, <1>2

\* t ends and all who still follow it are settled.
LEMMA EndsAll ==
    ASSUME NEW t \in Task, NEW end, NEW x, onto[t] # t, UNCHANGED onto,
           Place(t)' = end, Value(t)' = Value(t),
           \A o \in Task \ {t} :
              /\ onto[o] = t /\ Place(o) = "pending" => Place(o)' = "settled" /\ Value(o)' = x
              /\ onto[o] = t /\ Place(o) = "late" => Place(o)' = "settled" /\ Value(o)' = "orphaned"
              /\ onto[o] # t \/ Place(o) \notin {"pending", "late"}
                   => Place(o)' = Place(o) /\ Value(o)' = Value(o),
           \A o \in Task : task'[o].cancelled = task[o].cancelled
    PROVE  Future!End(t, end, x)
<1> DEFINE place == [o \in Task |-> Place(o)]
           value == [o \in Task |-> Value(o)]
<1>1. [o \in Task |-> Place(o)]' =
        [o \in Task |-> IF o = t THEN end
                        ELSE IF onto[o] = t /\ place[o] \in {"pending", "late"} THEN "settled"
                        ELSE place[o]]
  <2>1. \A o \in Task : Place(o)' = IF o = t THEN end
                                    ELSE IF onto[o] = t /\ Place(o) \in {"pending", "late"} THEN "settled"
                                    ELSE Place(o)
    OBVIOUS
  <2> QED BY <2>1
<1>2. [o \in Task |-> Value(o)]' =
        [o \in Task |-> IF onto[o] = t /\ place[o] = "pending" THEN x
                        ELSE IF onto[o] = t /\ place[o] = "late" THEN "orphaned"
                        ELSE value[o]]
  <2>1. \A o \in Task : Value(o)' = IF onto[o] = t /\ Place(o) = "pending" THEN x
                                    ELSE IF onto[o] = t /\ Place(o) = "late" THEN "orphaned"
                                    ELSE Value(o)
    OBVIOUS
  <2> QED BY <2>1
<1>3. {o \in Task : task[o].cancelled}' = {o \in Task : task[o].cancelled}
  BY SameCancelled
<1> QED BY <1>1, <1>2, <1>3 DEF Future!End, Future!Open

\* When the callback returns, those that were chained in time get its result
\* and those that came later are orphaned.
LEMMA ReturnCbEndKeeps == ASSUME PInv, ReturnCbEnd PROVE PInv' /\ Future!Next
<1> DEFINE n == Len(stack)
           p == Top.task
           x == Top.copy
           L == Top.chained
           R == Orphans(p)
           r == task[p]
           last == [r EXCEPT !.completed = TRUE, !.chained = @ \ R]
<1>1. /\ stack # <<>> /\ Top.kind = "callback" /\ stack' = Pop
      /\ UNCHANGED <<answers, onto>>
  BY DEF ReturnCbEnd
<1>2. task' = [o \in Task |-> IF o = p THEN last
                            ELSE IF o \in L THEN Deliver(task[o], x)
                            ELSE IF o \in R THEN Return(task[o], "orphaned", TRUE)
                            ELSE task[o]]
  <2>1. task' = [o \in Task |-> IF o = p THEN [task[o] EXCEPT !.completed = TRUE, !.chained = @ \ Orphans(o)]
                              ELSE IF o \in L THEN Deliver(task[o], x)
                              ELSE IF o \in R THEN Return(task[o], "orphaned", TRUE)
                              ELSE task[o]]
    BY DEF ReturnCbEnd
  <2>2. \A o \in Task : o = p => [task[o] EXCEPT !.completed = TRUE, !.chained = @ \ Orphans(o)] = last
    OBVIOUS
  <2> HIDE DEF p, last, L, R, x
  <2> QED BY <2>1, <2>2
<1>3. IInv /\ IInv'
  BY ReturnCbEndInv DEF PInv
<1>4. /\ stack \in Seq(Frame) /\ n \in Nat \ {0} /\ DOMAIN stack = 1..n /\ n \in DOMAIN stack
      /\ Top = stack[n] /\ task \in [Task -> Record]
  BY <1>1, <1>3 DEF IInv, TypeOK, Top
<1>5. \A i \in DOMAIN stack : stack[i].task \in Task /\ stack[i].chained \subseteq Task
  BY <1>3, FrameType DEF IInv
<1>6. p \in Task /\ x \in Given(p) /\ ~task[p].completed
  BY <1>1, <1>3, <1>4, <1>5 DEF IInv, AnswerInv, PInv, CallInv
<1>7. /\ answers[p] # <<>> /\ x = Head(answers[p]) /\ x \in Results /\ r.job # "new"
  <2>1. answers[p] # <<>>
    BY <1>6 DEF Given
  <2> QED BY <1>3, <1>6, <2>1, OneAnswer
<1>8. /\ DOMAIN stack' = 1..(n - 1)
      /\ \A i \in 1..(n - 1) : stack'[i] = stack[i]
  BY <1>1, <1>4 DEF Pop
<1>9. \A i \in DOMAIN stack : stack[i].kind = "callback" /\ stack[i].task = p => i = n
  BY <1>1, <1>4 DEF PInv, CallInv
<1>10. \A o, q \in Task : o \in task[q].chained => onto[o] = q
  BY <1>3 DEF IInv, ChainInv
<1>11. \A i \in DOMAIN stack : \A o \in stack[i].chained : onto[o] = stack[i].task
  BY <1>3 DEF IInv, ChainInv
<1>12. \A i \in DOMAIN stack : stack[i].chained # {} => stack[i].kind = "callback"
  <2>1. \A i \in DOMAIN stack : stack[i].kind \in {"callback", "wait"}
    BY <1>3, FrameType DEF IInv, Frame
  <2> QED BY <1>3, <2>1 DEF IInv, StackInv
<1>13. \A o \in Task : onto[o] # o
  BY <1>3 DEF IInv, ChainInv
<1>14. \A o \in L : o \in Task /\ onto[o] = p /\ o # p /\ Waiting(o) /\ \A q \in Task : o \notin task[q].chained
  BY <1>3, <1>4, <1>5, <1>11, <1>13 DEF IInv, ChainInv, Waiting
<1>15. r \in Record /\ r.chained \subseteq Task
  <2>1. r \in Record
    BY <1>4, <1>6
  <2> QED BY <2>1 DEF Record
<1>16. R \subseteq r.chained /\ \A o \in R : o \in Task /\ onto[o] = p /\ o # p /\ Waiting(o) /\ o \notin L
  <2>1. R \subseteq r.chained
    BY DEF Orphans
  <2> QED BY <1>6, <1>10, <1>13, <1>14, <1>15, <2>1 DEF Waiting
\* A task that keeps its result has nobody left.
<1>17. R = r.chained
  <2>1. p \in Keeping => r.chained = {}
    BY <1>6, <1>7 DEF PInv, OverInv, Over
  <2> QED BY <2>1 DEF Orphans
<1>18. /\ task'[p] = last
       /\ \A o \in L : task'[o] = Deliver(task[o], x)
       /\ \A o \in R : task'[o] = Return(task[o], "orphaned", TRUE)
       /\ \A o \in Task : o # p /\ o \notin L /\ o \notin R => task'[o] = task[o]
  <2> HIDE DEF p, x, L, R, last
  <2> QED BY <1>2, <1>6, <1>14, <1>16
\* Who follows p and is open waits in its frame or with p itself.
<1>19. ASSUME NEW o \in Task, onto[o] = p, Place(o) = "pending"
       PROVE  o \in L
  <2>1. task[o].job # "new" /\ ~task[o].returnCalled
    BY <1>3, <1>19, OneAnswer DEF Place
  <2>2. Waiting(o)
    BY <1>3, <1>6, <1>19, <2>1 DEF IInv, SoundInv, Sound, Jobs
  <2>3. ASSUME NEW q \in Task, o \in task[q].chained
        PROVE  FALSE
    <3>1. q = p
      BY <1>10, <1>19, <2>3
    <3> QED BY <1>7, <1>19, <2>1, <2>3, <3>1 DEF Place
  <2>4. PICK i \in DOMAIN stack : o \in stack[i].chained
    BY <2>2, <2>3 DEF Waiting
  <2>5. stack[i].task = p /\ stack[i].kind = "callback"
    BY <1>11, <1>12, <1>19, <2>4
  <2> QED BY <1>4, <1>9, <2>4, <2>5
<1>20. ASSUME NEW o \in Task, onto[o] = p, Place(o) = "late"
       PROVE  o \in R
  <2>1. \E q \in Task : onto[o] = q /\ o \in task[q].chained
    BY <1>20 DEF Place
  <2> QED BY <1>17, <1>20, <2>1
<1> HIDE DEF r, p, x, L, R, n
<1>21. /\ last.job = r.job /\ last.returnCalled = r.returnCalled
       /\ last.cancelled = r.cancelled /\ last.cancelSource = r.cancelSource
       /\ last.threadResult = r.threadResult /\ last.sources = r.sources
       /\ last.result = r.result /\ last.chained = {}
       /\ last.completed = TRUE /\ last.disposed = r.disposed
  <2>1. /\ last.job = r.job /\ last.returnCalled = r.returnCalled
        /\ last.cancelled = r.cancelled /\ last.cancelSource = r.cancelSource
        /\ last.threadResult = r.threadResult /\ last.sources = r.sources
        /\ last.result = r.result /\ last.chained = (r.chained \ R)
        /\ last.completed = TRUE /\ last.disposed = r.disposed
    BY <1>15 DEF Record
  <2> QED BY <1>17, <2>1
<1> HIDE DEF last
<1>22. "orphaned" \in Results
  BY DEF Results
<1>23. \A o \in L \cup R :
          /\ task'[o].cancelled = task[o].cancelled /\ task'[o].cancelSource = task[o].cancelSource
          /\ task'[o].completed = task[o].completed /\ task'[o].disposed = task[o].disposed
          /\ task'[o].result = task[o].result /\ task'[o].chained = task[o].chained
  <2>1. ASSUME NEW o \in L
        PROVE  /\ task'[o].cancelled = task[o].cancelled /\ task'[o].cancelSource = task[o].cancelSource
               /\ task'[o].completed = task[o].completed /\ task'[o].disposed = task[o].disposed
               /\ task'[o].result = task[o].result /\ task'[o].chained = task[o].chained
    BY <1>1, <1>3, <1>7, <1>14, <1>18, FollowerSettles
  <2>2. ASSUME NEW o \in R
        PROVE  /\ task'[o].cancelled = task[o].cancelled /\ task'[o].cancelSource = task[o].cancelSource
               /\ task'[o].completed = task[o].completed /\ task'[o].disposed = task[o].disposed
               /\ task'[o].result = task[o].result /\ task'[o].chained = task[o].chained
    BY <1>1, <1>3, <1>16, <1>18, <1>22, FollowerSettles
  <2> QED BY <2>1, <2>2
<1>24. \A o \in Task \ {p} :
          /\ task'[o].cancelled = task[o].cancelled /\ task'[o].cancelSource = task[o].cancelSource
          /\ task'[o].completed = task[o].completed /\ task'[o].disposed = task[o].disposed
          /\ task'[o].result = task[o].result /\ task'[o].chained = task[o].chained
  BY <1>18, <1>23
<1>25. WatchInv'
  <2>1. \A o \in Task : task[o].cancelSource => task[o].cancelled
    BY DEF PInv, WatchInv
  <2>2. task'[p].cancelSource => task'[p].cancelled
    BY <1>6, <1>18, <1>21, <2>1 DEF r
  <2> QED BY <1>24, <2>1, <2>2 DEF WatchInv
<1>26. CallInv'
  <2>1. \A i \in DOMAIN stack' : /\ i \in DOMAIN stack /\ stack'[i] = stack[i] /\ i # n
    BY <1>4, <1>8
  <2>2. \A i \in DOMAIN stack' : stack'[i].kind = "callback" => stack'[i].task \in Task \ {p}
    BY <1>5, <1>9, <2>1
  <2> QED BY <1>24, <2>1, <2>2 DEF PInv, CallInv
<1>27. OverInv'
  <2>1. \A o \in Task : Over(task[o], answers[o], o \in Keeping)
    BY DEF PInv, OverInv
  <2>2. Over(last, answers[p], p \in Keeping)
    BY <1>6, <1>7, <1>21, <2>1 DEF Over, r
  <2>3. \A o \in Task \ {p} : Over(task'[o], answers[o], o \in Keeping)
    BY <1>24, <2>1 DEF Over
  <2> QED BY <1>1, <1>18, <2>2, <2>3 DEF OverInv
<1>28. PICK t \in Task, v \in Results : t = p /\ v = x
  BY <1>6, <1>7
<1>29. Place(t) = "called" /\ Value(t) = v
  BY <1>6, <1>7, <1>28 DEF Place, Value, r
<1>30. Place(t)' = "complete" /\ Value(t)' = v
  <2>1. task'[t].job # "new" /\ task'[t].completed
    BY <1>7, <1>18, <1>21, <1>28
  <2>2. answers'[t] # <<>> /\ Head(answers'[t]) = v
    BY <1>1, <1>7, <1>28
  <2> QED BY <2>1, <2>2 DEF Place, Value
<1>31. \A o \in L : IF task[o].returnCalled
                    THEN /\ Place(o) \notin {"pending", "late"}
                         /\ Place(o)' = Place(o) /\ Value(o)' = Value(o)
                    ELSE /\ Place(o) \in {"pending", "late"}
                         /\ Place(o)' = "settled" /\ Value(o)' = x
  BY <1>1, <1>3, <1>7, <1>14, <1>18, FollowerSettles
<1>32. \A o \in R : IF task[o].returnCalled
                    THEN /\ Place(o) \notin {"pending", "late"}
                         /\ Place(o)' = Place(o) /\ Value(o)' = Value(o)
                    ELSE /\ Place(o) \in {"pending", "late"}
                         /\ Place(o)' = "settled" /\ Value(o)' = "orphaned"
  BY <1>1, <1>3, <1>16, <1>18, <1>22, FollowerSettles
<1>33. \A o \in Task \ {p} : o \notin L \cup R => Place(o)' = Place(o) /\ Value(o)' = Value(o)
  <2>1. ASSUME NEW o \in Task \ {p}, o \notin L \cup R, NEW q \in Task
        PROVE  o \in task'[q].chained <=> o \in task[q].chained
    BY <1>17, <1>18, <1>21, <1>24, <2>1 DEF r
  <2> QED BY <1>1, <1>18, <2>1, BystanderStays
<1>34. \A o \in Task \ {p} :
          /\ onto[o] = p /\ Place(o) = "pending" => Place(o)' = "settled" /\ Value(o)' = x
          /\ onto[o] = p /\ Place(o) = "late" => Place(o)' = "settled" /\ Value(o)' = "orphaned"
          /\ onto[o] # p \/ Place(o) \notin {"pending", "late"}
               => Place(o)' = Place(o) /\ Value(o)' = Value(o)
  <2> SUFFICES ASSUME NEW o \in Task \ {p}
               PROVE  /\ onto[o] = p /\ Place(o) = "pending" => Place(o)' = "settled" /\ Value(o)' = x
                      /\ onto[o] = p /\ Place(o) = "late" => Place(o)' = "settled" /\ Value(o)' = "orphaned"
                      /\ onto[o] # p \/ Place(o) \notin {"pending", "late"}
                           => Place(o)' = Place(o) /\ Value(o)' = Value(o)
    OBVIOUS
  <2>1. CASE onto[o] = p /\ Place(o) = "pending"
    BY <1>19, <1>31, <2>1
  <2>2. CASE onto[o] = p /\ Place(o) = "late"
    BY <1>20, <1>32, <2>2
  <2>3. CASE onto[o] # p \/ Place(o) \notin {"pending", "late"}
    BY <1>14, <1>16, <1>31, <1>32, <1>33, <2>3
  <2> QED BY <2>1, <2>2, <2>3
<1>35. \A o \in Task : task'[o].cancelled = task[o].cancelled
  BY <1>18, <1>21, <1>24 DEF r
<1>36. Future!End(t, "complete", v)
  <2>1. \A o \in Task \ {t} :
          /\ onto[o] = t /\ Place(o) = "pending" => Place(o)' = "settled" /\ Value(o)' = v
          /\ onto[o] = t /\ Place(o) = "late" => Place(o)' = "settled" /\ Value(o)' = "orphaned"
          /\ onto[o] # t \/ Place(o) \notin {"pending", "late"}
               => Place(o)' = Place(o) /\ Value(o)' = Value(o)
    BY <1>28, <1>34
  <2>2. Value(t)' = Value(t)
    BY <1>30, <1>29
  <2>3. onto[t] # t /\ UNCHANGED onto
    BY <1>1, <1>13
  <2> QED BY <1>30, <1>35, <2>1, <2>2, <2>3, EndsAll
<1>37. Future!Complete(t)
  BY <1>36, <1>29 DEF Future!Complete
<1>38. PInv'
  BY <1>3, <1>25, <1>26, <1>27 DEF PInv
<1> QED BY <1>37, <1>38 DEF Future!Next

\* A task that is disposed of is complete, or will have no result.
LEMMA DisposeKeeps ==
    ASSUME PInv, NEW t \in Task, Dispose(t) PROVE PInv' /\ [Future!Next]_(Future!vars)
<1> DEFINE r == task[t]
           gone == [r EXCEPT !.chained = {}, !.result = NoResult, !.disposed = TRUE]
<1>1. /\ task' = [o \in Task |-> IF o = t THEN gone
                                ELSE IF o \in r.chained THEN Return(task[o], "orphaned", TRUE)
                                ELSE task[o]]
      /\ UNCHANGED <<stack, answers, onto>>
  BY DEF Dispose
<1>2. /\ r.job # "new" /\ r.job # "main" /\ r.sources = <<>> /\ ~r.disposed
      /\ r.worker \notin {"queued", "running"}
  BY DEF Dispose, Doomed, Referenced, References
<1>3. ~Waiting(t) /\ ~InCallback(t) /\ \A i \in DOMAIN stack : stack[i].task # t
  BY DEF Dispose, Doomed, Referenced, References, Waiting, InCallback
<1>4. IInv /\ IInv' /\ task \in [Task -> Record]
  BY DisposeInv DEF PInv, IInv, TypeOK
<1>5. r \in Record /\ r.chained \subseteq Task
  <2>1. r \in Record
    BY <1>4
  <2> QED BY <2>1 DEF Record
<1>6. Sound(r, answers[t], onto[t], Waiting(t), InCallback(t))
  BY <1>4 DEF IInv, SoundInv
<1>7. \/ r.returnCalled /\ answers[t] # <<>> /\ r.completed
      \/ ~r.returnCalled /\ answers[t] = <<>> /\ onto[t] = NoTask
  <2>1. CASE r.returnCalled
    BY <1>2, <1>3, <1>6, <2>1 DEF Sound, Kept, Ends
  <2>2. CASE ~r.returnCalled
    BY <1>3, <1>6, <2>2 DEF Sound, Kept, Jobs
  <2> QED BY <2>1, <2>2
<1>8. \A o, q \in Task : o \in task[q].chained => onto[o] = q
  BY <1>4 DEF IInv, ChainInv
<1>9. \A o \in Task : onto[o] # o
  BY <1>4 DEF IInv, ChainInv
<1>10. \A o \in r.chained : o \in Task /\ o # t /\ onto[o] = t /\ Waiting(o)
  BY <1>5, <1>8, <1>9 DEF Waiting
<1>11. /\ task'[t] = gone
       /\ \A o \in r.chained : task'[o] = Return(task[o], "orphaned", TRUE)
       /\ \A o \in Task : o # t /\ o \notin r.chained => task'[o] = task[o]
  <2> HIDE DEF r, gone
  <2> QED BY <1>1, <1>10
\* Who follows t and is open waits with t.
<1>12. ASSUME NEW o \in Task, onto[o] = t, Place(o) \in {"pending", "late"}
       PROVE  o \in r.chained
  <2>1. task[o].job # "new" /\ ~task[o].returnCalled
    BY <1>4, <1>12, OneAnswer DEF Place
  <2>2. Waiting(o)
    BY <1>4, <1>12, <2>1 DEF IInv, SoundInv, Sound, Jobs
  <2>3. \A i \in DOMAIN stack : o \in stack[i].chained => onto[o] = stack[i].task
    BY <1>4 DEF IInv, ChainInv
  <2> QED BY <1>3, <1>8, <1>12, <2>2, <2>3 DEF Waiting
<1> HIDE DEF r
<1>13. /\ gone.job = r.job /\ gone.returnCalled = r.returnCalled
       /\ gone.cancelled = r.cancelled /\ gone.cancelSource = r.cancelSource
       /\ gone.threadResult = r.threadResult /\ gone.sources = r.sources
       /\ gone.chained = {} /\ gone.completed = r.completed /\ gone.disposed = TRUE
  BY <1>5 DEF Record
<1> HIDE DEF gone
<1>14. "orphaned" \in Results
  BY DEF Results
<1>15. \A o \in r.chained :
          /\ task'[o].cancelled = task[o].cancelled /\ task'[o].cancelSource = task[o].cancelSource
          /\ task'[o].completed = task[o].completed /\ task'[o].disposed = task[o].disposed
          /\ task'[o].result = task[o].result /\ task'[o].chained = task[o].chained
  BY <1>1, <1>4, <1>10, <1>11, <1>14, FollowerSettles
<1>16. \A o \in Task \ {t} :
          /\ task'[o].cancelled = task[o].cancelled /\ task'[o].cancelSource = task[o].cancelSource
          /\ task'[o].completed = task[o].completed /\ task'[o].disposed = task[o].disposed
          /\ task'[o].result = task[o].result /\ task'[o].chained = task[o].chained
  BY <1>11, <1>15
<1>17. WatchInv'
  <2>1. \A o \in Task : task[o].cancelSource => task[o].cancelled
    BY DEF PInv, WatchInv
  <2>2. task'[t].cancelSource => task'[t].cancelled
    BY <1>11, <1>13, <2>1 DEF r
  <2> QED BY <1>16, <2>1, <2>2 DEF WatchInv
<1>18. CallInv'
  <2>1. \A o \in Task : task'[o].completed = task[o].completed
    BY <1>11, <1>13, <1>16 DEF r
  <2>2. \A i \in DOMAIN stack : stack[i].task \in Task
    BY <1>4, FrameType DEF IInv
  <2> QED BY <1>1, <2>1, <2>2 DEF PInv, CallInv
<1>19. OverInv'
  <2>1. \A o \in Task : Over(task[o], answers[o], o \in Keeping)
    BY DEF PInv, OverInv
  <2>2. Over(gone, answers[t], t \in Keeping)
    BY <1>13, <2>1 DEF Over, r
  <2>3. \A o \in Task \ {t} : Over(task'[o], answers[o], o \in Keeping)
    BY <1>16, <2>1 DEF Over
  <2> QED BY <1>1, <1>11, <2>2, <2>3 DEF OverInv
<1>20. PInv'
  BY <1>4, <1>17, <1>18, <1>19 DEF PInv
<1>21. \A o \in r.chained : IF task[o].returnCalled
                            THEN /\ Place(o) \notin {"pending", "late"}
                                 /\ Place(o)' = Place(o) /\ Value(o)' = Value(o)
                            ELSE /\ Place(o) \in {"pending", "late"}
                                 /\ Place(o)' = "settled" /\ Value(o)' = "orphaned"
  BY <1>1, <1>4, <1>10, <1>11, <1>14, FollowerSettles
<1>22. \A o \in Task \ {t} : o \notin r.chained => Place(o)' = Place(o) /\ Value(o)' = Value(o)
  <2>1. ASSUME NEW o \in Task \ {t}, o \notin r.chained, NEW q \in Task
        PROVE  o \in task'[q].chained <=> o \in task[q].chained
    BY <1>11, <1>13, <1>16, <2>1 DEF r
  <2> QED BY <1>1, <1>11, <2>1, BystanderStays
<1>23. Value(t)' = Value(t)
  BY <1>1, <1>11, <1>13 DEF Value, r
<1>24. \A o \in Task : task'[o].cancelled = task[o].cancelled
  BY <1>11, <1>13, <1>16 DEF r
<1>25. CASE r.returnCalled
  <2>1. answers[t] # <<>> /\ r.completed
    BY <1>7, <1>25
  <2>2. r.chained = {}
    BY <2>1 DEF PInv, OverInv, Over, r
  <2>3. Place(t)' = Place(t)
    BY <1>1, <1>11, <1>13, <2>1 DEF Place, r
  <2>4. Unseen
    BY <1>1, <1>22, <1>23, <1>24, <2>2, <2>3 DEF Unseen
  <2> QED BY <1>20, <2>4, UnseenStutters
<1>26. CASE ~r.returnCalled
  <2>1. answers[t] = <<>> /\ onto[t] = NoTask
    BY <1>7, <1>26
  <2>2. Place(t) = "pending"
    BY <1>2, <1>26, <2>1 DEF Place, r
  <2>3. Place(t)' = "gone"
    BY <1>1, <1>2, <1>11, <1>13, <1>26, <2>1 DEF Place
  <2>4. \A o \in Task \ {t} :
          /\ onto[o] = t /\ Place(o) = "pending" => Place(o)' = "settled" /\ Value(o)' = "orphaned"
          /\ onto[o] = t /\ Place(o) = "late" => Place(o)' = "settled" /\ Value(o)' = "orphaned"
          /\ onto[o] # t \/ Place(o) \notin {"pending", "late"}
               => Place(o)' = Place(o) /\ Value(o)' = Value(o)
    <3> SUFFICES ASSUME NEW o \in Task \ {t}
                 PROVE  /\ onto[o] = t /\ Place(o) \in {"pending", "late"}
                             => Place(o)' = "settled" /\ Value(o)' = "orphaned"
                        /\ onto[o] # t \/ Place(o) \notin {"pending", "late"}
                             => Place(o)' = Place(o) /\ Value(o)' = Value(o)
      OBVIOUS
    <3>1. CASE onto[o] = t /\ Place(o) \in {"pending", "late"}
      BY <1>12, <1>21, <3>1
    <3>2. CASE onto[o] # t \/ Place(o) \notin {"pending", "late"}
      BY <1>10, <1>21, <1>22, <3>2
    <3> QED BY <3>1, <3>2
  <2>5. Future!End(t, "gone", "orphaned")
    BY <1>1, <1>9, <1>23, <1>24, <2>3, <2>4, EndsAll
  <2>6. Future!Abandon(t)
    BY <2>1, <2>2, <2>5 DEF Future!Abandon, Future!Open
  <2> QED BY <1>20, <2>6 DEF Future!Next
<1> QED BY <1>25, <1>26

LEMMA PromiseStep == PInv /\ [Next]_vars => PInv' /\ [Future!Next]_(Future!vars)
<1> SUFFICES ASSUME PInv, [Next]_vars
             PROVE  PInv' /\ [Future!Next]_(Future!vars)
  OBVIOUS
<1>1. CASE Unwind
  BY <1>1, ReturnCbEndKeeps, PropagateEndKeeps DEF Unwind
<1>2. ASSUME NEW t \in Task, Loop(t)
      PROVE  PInv' /\ [Future!Next]_(Future!vars)
  <2>1. CASE ReturnCb(t)
    BY <2>1, ReturnCbKeeps DEF Future!Next
  <2> QED BY <1>2, <2>1, CancelCbKeeps, ReturnAbortKeeps, ReturnDiscardKeeps DEF Loop
<1>3. ASSUME NEW t \in Task, Client(t)
      PROVE  PInv' /\ [Future!Next]_(Future!vars)
  <2>1. CASE StartInMain(t) \/ RunInThread(t)
    BY <2>1, StartInMainKeeps, RunInThreadKeeps DEF Future!Next
  <2>2. CASE \E p \in Task : Chain(p, t)
    BY <2>2, ChainKeeps DEF Future!Next
  <2>3. CASE \E x \in {"value", "error"} : ReturnInMain(t, x)
    BY <2>3, ReturnInMainKeeps
  <2>4. CASE Propagate(t) \/ PropagateWait(t) \/ Drop(t)
    BY <2>4, PropagateKeeps, PropagateWaitKeeps, DropKeeps
  <2>5. CASE Cancel(t)
    BY <2>5, CancelKeeps DEF Future!Next
  <2> QED BY <1>3, <2>1, <2>2, <2>3, <2>4, <2>5 DEF Client
<1>4. ASSUME NEW t \in Task, Worker(t)
      PROVE  PInv' /\ [Future!Next]_(Future!vars)
  <2>1. CASE ThreadBegin(t) \/ ThreadEnd(t)
    BY <2>1, ThreadBeginKeeps, ThreadEndKeeps
  <2>2. CASE \E x \in {"value", "error"} : ThreadReturn(t, x)
    BY <2>2, ThreadReturnKeeps
  <2> QED BY <1>4, <2>1, <2>2 DEF Worker
<1>5. ASSUME NEW t \in Task, Dispose(t)
      PROVE  PInv' /\ [Future!Next]_(Future!vars)
  BY <1>5, DisposeKeeps
<1>6. CASE UNCHANGED vars
  <2>1. IInv'
    BY <1>6, StepInv DEF PInv
  <2> QED BY <1>6, <2>1, NobodyMoves DEF vars
<1> QED BY <1>1, <1>2, <1>3, <1>4, <1>5, <1>6 DEF Next

\* A task implements a promise: it is settled by the first result and answered
\* with that, whatever races with it; who was chained to it in time shares its
\* answer, and nobody waits for a task that is complete or was given up.
THEOREM PromiseIsKept == Spec => KeepsItsPromise
<1>1. Init => PInv /\ Future!Init
  <2> SUFFICES ASSUME Init
               PROVE  PInv /\ Future!Init
    OBVIOUS
  <2>1. \A t \in Task : Place(t) = "new" /\ Value(t) = NoResult
    BY DEF Init, Place, Value
  <2>2. [t \in Task |-> Place(t)] = [t \in Task |-> "new"]
    BY <2>1
  <2>3. [t \in Task |-> Value(t)] = [t \in Task |-> NoResult]
    BY <2>1
  <2>4. {t \in Task : task[t].cancelled} = {}
    BY DEF Init
  <2>5. onto = [t \in Task |-> NoTask]
    BY DEF Init
  <2> QED BY <2>2, <2>3, <2>4, <2>5, PInvInit DEF Future!Init
<1>2. PInv /\ [Next]_vars => PInv' /\ [Future!Next]_(Future!vars)
  BY PromiseStep
<1> QED BY <1>1, <1>2, PTL DEF Spec, KeepsItsPromise, Future!Spec

=============================================================================

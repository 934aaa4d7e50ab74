---------------------------- MODULE RequestQueue ----------------------------
(***************************************************************************)
(* What the queue of an IdePipeline promises to those who call its build,  *)
(* clean and rebuild: a request is answered at once or waits in line; the  *)
(* head of the line is taken when the pipeline is not busy, and it alone;  *)
(* the request that is served may meet others that wait, and these are     *)
(* answered before their turn; an answer is given once and never changed.  *)
(*                                                                         *)
(* A pipeline in which a stage has failed refuses requests that configure  *)
(* until another one is taken.  A head that is refused is answered without *)
(* making the pipeline busy, and its completion, like any other, ends the  *)
(* busy period, so that two may run: one that does not fail while the      *)
(* other one does may have no answer at all.                               *)
(***************************************************************************)
EXTENDS Lines

CONSTANT Requests

VARIABLES
    call,   \* where each request stands, and its answer
    line,   \* those that wait
    busy, failed,
    configures  \* the builds of a phase up to CONFIGURE

vars == <<call, line, busy, failed, configures>>

Call == [place: {"idle", "waiting", "running", "lost", "returned", "answered"},
         answer: {"none", "done", "error", "refused"}]

At(place, answer) == [place |-> place, answer |-> answer]

Init ==
    /\ call = [r \in Requests |-> At("idle", "none")]
    /\ line = << >>
    /\ busy = FALSE /\ failed = FALSE
    /\ configures = {}

\* The caller says what r is.
Says(r) == configures' \in {configures \cup {r}, configures \ {r}}

Ask(r) ==
    /\ call[r].place = "idle"
    /\ Says(r)
    /\ call' = [call EXCEPT ![r] = At("waiting", "none")]
    /\ line' = Append(line, r)
    /\ UNCHANGED <<busy, failed>>

Reply(r) ==
    /\ call[r].place = "idle"
    /\ Says(r)
    /\ \E answer \in {"done", "error"} : call' = [call EXCEPT ![r] = At("answered", answer)]
    /\ UNCHANGED <<line, busy, failed>>

\* What becomes of a request that is served: it runs on or it returns.
Outcomes == {At("running", "none"), At("returned", "done"), At("returned", "error")}

\* r comes out of it while those of rest wait; some of them are met.
Moves(r, outcome, rest, met) ==
    /\ met \subseteq {rest[i] : i \in DOMAIN rest}
    /\ call' = [x \in Requests |-> IF x = r THEN outcome
                                   ELSE IF x \in met THEN At("answered", "done")
                                   ELSE call[x]]
    /\ line' = Keep(rest, Requests \ met)

Refuses(r) == failed /\ r \in configures

Take ==
    /\ ~busy /\ line # << >>
    /\ LET r == Head(line)
       IN  IF Refuses(r)
           THEN Moves(r, At("returned", "refused"), Tail(line), {}) /\ UNCHANGED <<busy, failed>>
           ELSE /\ \E outcome \in Outcomes, met \in SUBSET Requests : Moves(r, outcome, Tail(line), met)
                /\ busy' = TRUE /\ failed' = FALSE
    /\ UNCHANGED configures

\* Nothing can be served: all that wait are told so.
Fail ==
    /\ ~busy /\ line # << >>
    /\ call' = [r \in Requests |-> IF call[r].place = "waiting"
                                   THEN At("answered", "error") ELSE call[r]]
    /\ line' = << >>
    /\ UNCHANGED <<busy, failed, configures>>

\* A stage of r has finished.
Advance(r) ==
    /\ call[r].place = "running"
    /\ \E outcome \in Outcomes, met \in SUBSET Requests : Moves(r, outcome, line, met)
    /\ UNCHANGED <<busy, failed, configures>>

\* It has failed, or it finds that another one has.
Break(r) ==
    /\ call[r].place = "running"
    /\ \/ Moves(r, At("returned", "error"), line, {}) /\ failed' = TRUE
       \/ Moves(r, At("lost", "none"), line, {}) /\ failed /\ UNCHANGED failed
    /\ UNCHANGED <<busy, configures>>

Complete(r) ==
    /\ call[r].place = "returned"
    /\ call' = [call EXCEPT ![r].place = "answered"]
    /\ busy' = FALSE
    /\ UNCHANGED <<line, failed, configures>>

Next ==
    \/ \E r \in Requests : Ask(r) \/ Reply(r) \/ Advance(r) \/ Break(r) \/ Complete(r)
    \/ Take \/ Fail

Spec == Init /\ [][Next]_vars

=============================================================================

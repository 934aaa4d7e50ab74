------------------------------ MODULE Promise ------------------------------
(***************************************************************************)
(* What an IdeTask promises to the operation that waits for it: it is      *)
(* settled by the first result that is returned for it, and its callback   *)
(* is called once, with that result.                                       *)
(*                                                                         *)
(* A promise may follow another one.  When the callback of that has        *)
(* returned, those that followed it before its callback was called are     *)
(* settled with its result; those that came during the callback, after it  *)
(* had taken the result, are orphaned.  Nobody follows a complete promise  *)
(* in wait.  Only who was cancelled is told so, or who follows him.        *)
(***************************************************************************)
CONSTANTS Promises, NoPromise, NoResult

VARIABLES
    place,      \* how far each promise is
    value,      \* what it was settled with
    follows,    \* the promise it follows
    revoked     \* the promises whose operation was cancelled

vars == <<place, value, follows, revoked>>

\* One that is late follows one whose callback was called before.
Open(t) == place[t] \in {"pending", "late"}

Init ==
    /\ place = [t \in Promises |-> "new"]
    /\ value = [t \in Promises |-> NoResult]
    /\ follows = [t \in Promises |-> NoPromise]
    /\ revoked = {}

Settle(t, x) ==
    /\ place' = [place EXCEPT ![t] = "settled"]
    /\ value' = [value EXCEPT ![t] = x]

Make(t) ==
    /\ place[t] = "new"
    /\ place' = [place EXCEPT ![t] = "pending"]
    /\ UNCHANGED <<value, follows, revoked>>

Follow(t, p) ==
    /\ place[t] = "new"
    /\ follows' = [follows EXCEPT ![t] = p]
    /\ \/ /\ place[p] \in {"pending", "late", "settled"}
          /\ place' = [place EXCEPT ![t] = "pending"] /\ UNCHANGED value
       \/ /\ place[p] = "called"
          /\ place' = [place EXCEPT ![t] = "late"] /\ UNCHANGED value
       \/ place[p] \in {"called", "complete"} /\ Settle(t, value[p])
    /\ UNCHANGED revoked

Cancel(t) == t \notin revoked /\ revoked' = revoked \cup {t} /\ UNCHANGED <<place, value, follows>>

\* By whoever the promise was made by ...
Return(t) ==
    /\ Open(t) /\ follows[t] = NoPromise
    /\ \E x \in {"value", "error"} : Settle(t, x)
    /\ UNCHANGED <<follows, revoked>>

\* ... or by the cancellation, which does not wait for anybody.
Withdraw(t) ==
    /\ Open(t) /\ t \in revoked
    /\ Settle(t, "cancelled")
    /\ UNCHANGED <<follows, revoked>>

Call(t) ==
    /\ place[t] = "settled"
    /\ place' = [place EXCEPT ![t] = "called"]
    /\ UNCHANGED <<value, follows, revoked>>

\* t comes to its end and settles all that still follow it.
End(t, end, x) ==
    /\ place' = [o \in Promises |-> IF o = t THEN end
                                    ELSE IF follows[o] = t /\ Open(o) THEN "settled"
                                    ELSE place[o]]
    /\ value' = [o \in Promises |-> IF follows[o] = t /\ place[o] = "pending" THEN x
                                    ELSE IF follows[o] = t /\ place[o] = "late" THEN "orphaned"
                                    ELSE value[o]]
    /\ UNCHANGED <<follows, revoked>>

\* The callback has returned.
Complete(t) == place[t] = "called" /\ End(t, "complete", value[t])

\* Nobody will return a result any more.
Abandon(t) == Open(t) /\ follows[t] = NoPromise /\ End(t, "gone", "orphaned")

Next ==
    \E t \in Promises :
        \/ Make(t) \/ Cancel(t) \/ Return(t) \/ Withdraw(t)
        \/ Call(t) \/ Complete(t) \/ Abandon(t)
        \/ \E p \in Promises : Follow(t, p)

Spec == Init /\ [][Next]_vars

=============================================================================

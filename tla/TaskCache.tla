------------------------------ MODULE TaskCache ------------------------------
(***************************************************************************)
(* IdeTaskCache (src/libide/io/ide-task-cache.c): a cache that is filled   *)
(* on demand.  A get of a key that is not cached is queued; the first one  *)
(* starts a fetch, the others wait for the same fetch.  Items leave the    *)
(* cache when they are evicted or when their time to live is over.         *)
(*                                                                         *)
(* Everything runs on one main loop, but not in one piece.  A GTask that   *)
(* is returned may run its callback at once, so the program can call back  *)
(* into the cache in the middle of a handler: "handler" is the handler     *)
(* that is on the stack, and only calls of the program, never another      *)
(* source of the main loop, can step in while it is not idle.              *)
(***************************************************************************)
EXTENDS Naturals, FiniteSets

CONSTANTS
    Keys,           \* the keys of the cache
    Gets,           \* calls of ide_task_cache_get_async, one task each
    TimeToLive,     \* time_to_live_usec, 0 when items do not expire
    MaxTime,        \* bound on the clock
    MaxFetches,     \* bound on the fetches that are ever started
    NoKey           \* the key of a get that was not called yet

ASSUME BoundsAssumption ==
    /\ TimeToLive \in Nat
    /\ MaxTime \in Nat
    /\ MaxFetches \in Nat

ASSUME NoKeyAssumption == NoKey \notin Keys

VARIABLES
    now,        \* g_get_monotonic_time
    cache,      \* the items of the hash table "cache"
    evictHeap,  \* the items of evict_heap
    readyTime,  \* ready time of evict_source; 0 is "never" (-1 in the code)
    queued,     \* the waiting gets in the array under each key of "queued"
    hasQueue,   \* the keys "queued" has an array for, empty or not
    inFlight,   \* the fetch "in_flight" holds for each key; 0 is no entry
    fetches,    \* every fetch task: its key, its state, its cancellable
    lastFetch,  \* the number of fetches started
    gets,       \* every get: its state, key, answer and how it was made
    cancelled,  \* the gets whose cancellable is cancelled
    watched,    \* the gets whose cancellable is connected to cancelled_cb
    idles,      \* the gets with a pending ide_task_cache_cancel_in_idle
    handler     \* the handler that is on the stack of the main loop

vars == <<now, cache, evictHeap, readyTime, queued, hasQueue, inFlight,
          fetches, lastFetch, gets, cancelled, watched, idles, handler>>

cacheVars == <<cache, evictHeap, readyTime>>
fetchVars == <<inFlight, fetches, lastFetch>>

FetchId == 1..MaxFetches

\* A cached value is named by the fetch that produced it.
Item == [key: Keys, value: FetchId, evictAt: Nat]

Answer == [kind: {"none", "value", "error", "cancelled"}, value: 0..MaxFetches]

NoAnswer  == [kind |-> "none", value |-> 0]
Cancelled == [kind |-> "cancelled", value |-> 0]

GetState == {"new", "waiting", "returned", "done"}

\* joined: the fetch that was in flight when the get was queued;
\* late: that fetch had been cancelled before the get joined it.
Get == [state: GetState, key: Keys \cup {NoKey}, answer: Answer,
        force: BOOLEAN, joined: 0..MaxFetches, late: BOOLEAN]

NewGet == [state |-> "new", key |-> NoKey, answer |-> NoAnswer,
           force |-> FALSE, joined |-> 0, late |-> FALSE]

Fetch == [state: {"none", "running", "value", "error", "done"},
          key: Keys \cup {NoKey}, cancelled: BOOLEAN]

NoFetch == [state |-> "none", key |-> NoKey, cancelled |-> FALSE]

\* left: the waiters propagate_pointer or propagate_error still has to
\* answer, or the one waiter cancel_in_idle has answered but not unqueued.
Handler == [op: {"idle", "deliver", "cancel"}, key: Keys \cup {NoKey},
            answer: Answer, left: SUBSET Gets]

Idle == [op |-> "idle", key |-> NoKey, answer |-> NoAnswer, left |-> {}]

Waiting(g) == gets[g].state = "waiting"
Live(f) == fetches[f].state \in {"running", "value", "error"}
CachedItems(c) == UNION {c[k] : k \in Keys}

-----------------------------------------------------------------------------

\* Mutant: the source is never armed.
RearmNever(heap) == heap = heap /\ UNCHANGED readyTime

\* evict_source_rearm: wake up at the head of the heap, the earliest item.
Rearm(heap) ==
    readyTime' =
        IF TimeToLive = 0 \/ heap = {} THEN 0
        ELSE CHOOSE t \in {i.evictAt : i \in heap} :
                 \A i \in heap : t <= i.evictAt

Init ==
    /\ now = 1
    /\ cache = [k \in Keys |-> {}]
    /\ evictHeap = {}
    /\ readyTime = 0
    /\ queued = [k \in Keys |-> {}]
    /\ hasQueue = {}
    /\ inFlight = [k \in Keys |-> 0]
    /\ fetches = [f \in FetchId |-> NoFetch]
    /\ lastFetch = 0
    /\ gets = [g \in Gets |-> NewGet]
    /\ cancelled = {}
    /\ watched = {}
    /\ idles = {}
    /\ handler = Idle

\* ide_task_cache_get_async when ide_task_cache_peek finds the key.
GetCached(g, k, already) ==
    /\ gets[g].state = "new"
    /\ \E i \in cache[k] :
          gets' = [gets EXCEPT ![g] =
                     [@ EXCEPT !.state = "returned", !.key = k,
                               !.answer = [kind |-> "value", value |-> i.value]]]
    /\ cancelled' = IF already THEN cancelled \cup {g} ELSE cancelled
    /\ UNCHANGED <<now, cacheVars, queued, hasQueue, fetchVars, watched, idles,
                   handler>>

\* Mutant: in_flight is not looked at before a fetch is started.
StartAnotherFetch(k) ==
    /\ lastFetch < MaxFetches
    /\ lastFetch' = lastFetch + 1
    /\ inFlight' = [inFlight EXCEPT ![k] = lastFetch + 1]
    /\ fetches' = [fetches EXCEPT ![lastFetch + 1] =
                     [state |-> "running", key |-> k, cancelled |-> FALSE]]

\* The fetch a get of k waits for: the one in flight, or a new one.
StartFetch(k) ==
    IF inFlight[k] # 0
    THEN UNCHANGED fetchVars
    ELSE /\ lastFetch < MaxFetches
         /\ lastFetch' = lastFetch + 1
         /\ inFlight' = [inFlight EXCEPT ![k] = lastFetch + 1]
         /\ fetches' = [fetches EXCEPT ![lastFetch + 1] =
                          [state |-> "running", key |-> k, cancelled |-> FALSE]]

\* The array of the key, created by the first get, takes the new task.
Enqueue(g, k) ==
    /\ queued' = [queued EXCEPT ![k] = @ \cup {g}]
    /\ hasQueue' = hasQueue \cup {k}

\* ide_task_cache_get_async otherwise.  When the cancellable is cancelled
\* already, g_cancellable_connect runs cancelled_cb at once and connects
\* nothing; the task has no task data yet and g_assert (data != NULL) fails,
\* which does not stop a build without assertions.
GetQueued(g, k, force, already) ==
    /\ gets[g].state = "new"
    /\ force \/ cache[k] = {}
    /\ Enqueue(g, k)
    /\ StartFetch(k)
    /\ gets' = [gets EXCEPT ![g] =
                  [state |-> "waiting", key |-> k, answer |-> NoAnswer,
                   force |-> force, joined |-> inFlight'[k],
                   late |-> fetches'[inFlight'[k]].cancelled]]
    /\ IF already
       THEN /\ cancelled' = cancelled \cup {g}
            /\ idles' = idles \cup {g}
            /\ UNCHANGED watched
       ELSE /\ watched' = watched \cup {g}
            /\ UNCHANGED <<cancelled, idles>>
    /\ UNCHANGED <<now, cacheVars, handler>>

\* ide_task_cache_cancelled_cb, when it is connected.
Notice(g) == idles' = IF g \in watched THEN idles \cup {g} ELSE idles

\* The caller cancels its cancellable; ide_task_cache_cancelled_cb, when it
\* is connected, adds an idle source.
Cancel(g) ==
    /\ gets[g].state \in {"waiting", "returned"}
    /\ g \notin cancelled
    /\ cancelled' = cancelled \cup {g}
    /\ Notice(g)
    /\ UNCHANGED <<now, cacheVars, queued, hasQueue, fetchVars, gets, watched,
                   handler>>

\* The populate callback, which is not part of the cache, returns a task.
PopulateReturn(f, outcome) ==
    /\ fetches[f].state = "running"
    /\ outcome \in {"value", "error"}
    /\ fetches' = [fetches EXCEPT ![f].state = outcome]
    /\ UNCHANGED <<now, cacheVars, queued, hasQueue, inFlight, lastFetch, gets,
                   cancelled, watched, idles, handler>>

\* Mutant: the item that is replaced stays in the heap (check_heap is FALSE).
PopulateOverHeap(k, f) ==
    LET item == [key |-> k, value |-> f,
                 evictAt |-> IF TimeToLive > 0 THEN now + TimeToLive ELSE 0]
        heap == evictHeap \cup {item}
    IN /\ cache' = [cache EXCEPT ![k] = {item}]
       /\ evictHeap' = heap
       /\ Rearm(heap)

\* ide_task_cache_populate, with the eviction of the item it replaces.
Populate(k, f) ==
    LET item == [key |-> k, value |-> f,
                 evictAt |-> IF TimeToLive > 0 THEN now + TimeToLive ELSE 0]
        heap == (evictHeap \ cache[k]) \cup {item}
    IN /\ cache' = [cache EXCEPT ![k] = {item}]
       /\ evictHeap' = heap
       /\ Rearm(heap)

\* Mutant: the key stays in in_flight.
StayInFlight(k) == k \in Keys /\ UNCHANGED inFlight

\* The fetch of k has landed: in_flight forgets it.
Land(k) == inFlight' = [inFlight EXCEPT ![k] = 0]

\* ide_task_cache_fetch_cb up to the first waiter it answers.  A value that
\* was returned to a cancelled fetch is propagated as G_IO_ERROR_CANCELLED.
FetchDone(f) ==
    LET k  == fetches[f].key
        ok == fetches[f].state = "value" /\ ~fetches[f].cancelled
    IN /\ handler.op = "idle"
       /\ fetches[f].state \in {"value", "error"}
       /\ Land(k)
       /\ fetches' = [fetches EXCEPT ![f].state = "done"]
       /\ IF ok THEN Populate(k, f) ELSE UNCHANGED cacheVars
       /\ hasQueue' = hasQueue \ {k}
       /\ queued' = [queued EXCEPT ![k] = {}]
       /\ handler' =
            IF queued[k] = {} THEN Idle
            ELSE [op |-> "deliver", key |-> k, left |-> queued[k],
                  answer |-> CASE ok -> [kind |-> "value", value |-> f]
                               [] fetches[f].cancelled -> Cancelled
                               [] OTHER -> [kind |-> "error", value |-> 0]]
       /\ UNCHANGED <<now, lastFetch, gets, cancelled, watched, idles>>

\* What the caller sees of an answer: GTask checks the cancellable again.
Seen(g, answer) == IF g \in cancelled THEN Cancelled ELSE answer

\* g_task_return_*: the callback runs at once (sync) or from an idle later.
Return(g, answer, sync) ==
    gets' = [gets EXCEPT ![g] =
               [@ EXCEPT !.state  = IF sync THEN "done" ELSE "returned",
                         !.answer = IF sync THEN Seen(g, answer) ELSE answer]]

\* One turn of the loop in propagate_pointer or propagate_error.
Deliver(g, sync) ==
    /\ handler.op = "deliver"
    /\ g \in handler.left
    /\ Return(g, handler.answer, sync)
    /\ handler' = IF handler.left = {g} THEN Idle
                  ELSE [handler EXCEPT !.left = @ \ {g}]
    /\ UNCHANGED <<now, cacheVars, queued, hasQueue, fetchVars, cancelled,
                   watched, idles>>

\* The callback of a task that was returned runs from the main loop.
Finish(g) ==
    /\ handler.op = "idle"
    /\ gets[g].state = "returned"
    /\ Return(g, gets[g].answer, TRUE)
    /\ UNCHANGED <<now, cacheVars, queued, hasQueue, fetchVars, cancelled,
                   watched, idles, handler>>

\* Mutant: the fetch is cancelled with every waiter that leaves.
CancelFetchAlways(k, left) ==
    fetches' = IF left = left /\ inFlight[k] # 0
               THEN [fetches EXCEPT ![inFlight[k]].cancelled = TRUE]
               ELSE fetches

\* The fetch of k is cancelled once nobody waits in the array "left" of k.
CancelFetch(k, left) ==
    fetches' = IF left = {} /\ inFlight[k] # 0
               THEN [fetches EXCEPT ![inFlight[k]].cancelled = TRUE]
               ELSE fetches

\* ide_task_cache_cancel_in_idle when the task is in the queue of its key, up
\* to the return of the task, whose callback may run at once.
CancelWaiter(g, sync) ==
    /\ handler.op = "idle"
    /\ g \in idles
    /\ gets[g].key \in hasQueue
    /\ g \in queued[gets[g].key]
    /\ idles' = idles \ {g}
    /\ Return(g, Cancelled, sync)
    /\ handler' = [op |-> "cancel", key |-> gets[g].key, answer |-> Cancelled,
                   left |-> {g}]
    /\ UNCHANGED <<now, cacheVars, queued, hasQueue, fetchVars, cancelled,
                   watched>>

\* Mutant: the answered task stays in the array.
KeepQueued(k, left) == left = left /\ UNCHANGED queued

\* g_ptr_array_remove_index_fast on the array of k.
Unqueue(k, left) == queued' = [queued EXCEPT ![k] = left]

\* The rest of it: the task leaves the queue, and the last one to leave
\* cancels the fetch.
CancelUnqueue ==
    LET k    == handler.key
        left == queued[k] \ handler.left
    IN /\ handler.op = "cancel"
       /\ Unqueue(k, left)
       /\ CancelFetch(k, left)
       /\ handler' = Idle
       /\ UNCHANGED <<now, cacheVars, hasQueue, inFlight, lastFetch, gets,
                      cancelled, watched, idles>>

\* ide_task_cache_cancel_in_idle when the task is not in the queue: there is
\* no queue, or it is a later one and g_return_val_if_fail (cancelled) fails.
CancelMissed(g) ==
    LET k == gets[g].key
    IN /\ handler.op = "idle"
       /\ g \in idles
       /\ g \notin queued[k]
       /\ idles' = idles \ {g}
       /\ IF k \in hasQueue
          THEN CancelFetch(k, queued[k])
          ELSE UNCHANGED fetches
       /\ UNCHANGED <<now, cacheVars, queued, hasQueue, inFlight, lastFetch,
                      gets, cancelled, watched, handler>>

\* ide_task_cache_evict of a key that is cached.
Evict(k) ==
    LET heap == evictHeap \ cache[k]
    IN /\ cache[k] # {}
       /\ cache' = [cache EXCEPT ![k] = {}]
       /\ evictHeap' = heap
       /\ Rearm(heap)
       /\ UNCHANGED <<now, queued, hasQueue, fetchVars, gets, cancelled,
                      watched, idles, handler>>

\* ide_task_cache_evict_all.
EvictAll ==
    /\ evictHeap # {}
    /\ evictHeap' = {}
    /\ cache' = [k \in Keys |-> {}]
    /\ Rearm({})
    /\ UNCHANGED <<now, queued, hasQueue, fetchVars, gets, cancelled, watched,
                   idles, handler>>

\* The eviction source is dispatched: ide_task_cache_do_eviction pops every
\* item whose time has come and removes what the cache has for its key.
EvictExpired ==
    LET expired == {i \in evictHeap : i.evictAt <= now}
        heap    == evictHeap \ expired
    IN /\ handler.op = "idle"
       /\ readyTime # 0
       /\ readyTime <= now
       /\ evictHeap' = heap
       /\ cache' = [k \in Keys |->
                      IF \E i \in expired : i.key = k THEN {} ELSE cache[k]]
       /\ Rearm(heap)
       /\ UNCHANGED <<now, queued, hasQueue, fetchVars, gets, cancelled,
                      watched, idles, handler>>

Tick ==
    /\ now < MaxTime
    /\ now' = now + 1
    /\ UNCHANGED <<cacheVars, queued, hasQueue, fetchVars, gets, cancelled,
                   watched, idles, handler>>

\* Steps the cache takes on its own: sources of the main loop and the rest of
\* a handler.
LoopStep ==
    \/ \E f \in FetchId : FetchDone(f)
    \/ \E g \in Gets, sync \in BOOLEAN : Deliver(g, sync)
    \/ \E g \in Gets, sync \in BOOLEAN : CancelWaiter(g, sync)
    \/ \E g \in Gets : CancelMissed(g)
    \/ CancelUnqueue
    \/ \E g \in Gets : Finish(g)
    \/ EvictExpired

\* Calls of the program, possible while a handler is on the stack as well.
Call ==
    \/ \E g \in Gets, k \in Keys, already \in BOOLEAN : GetCached(g, k, already)
    \/ \E g \in Gets, k \in Keys, force, already \in BOOLEAN :
          GetQueued(g, k, force, already)
    \/ \E g \in Gets : Cancel(g)
    \/ \E k \in Keys : Evict(k)
    \/ EvictAll

PopulateStep == \E f \in FetchId, o \in {"value", "error"} : PopulateReturn(f, o)

Next == LoopStep \/ Call \/ PopulateStep \/ Tick

Spec == Init /\ [][Next]_vars

\* The main loop dispatches every ready source, and a handler that is on the
\* stack goes on.
LoopFairness == WF_vars(LoopStep)

\* Nothing is said of the populate callback, which is not in this file.
FairSpec == Spec /\ LoopFairness /\ WF_vars(Tick)

-----------------------------------------------------------------------------

\* The gets that were called.
Called == {g \in Gets : gets[g].state # "new"}

CacheType ==
    /\ now \in Nat
    /\ cache \in [Keys -> SUBSET Item]
    /\ evictHeap \in SUBSET Item
    /\ readyTime \in Nat

FetchType ==
    /\ inFlight \in [Keys -> 0..MaxFetches]
    /\ fetches \in [FetchId -> Fetch]
    /\ \A f \in FetchId : fetches[f].state # "none" => fetches[f].key \in Keys
    /\ lastFetch \in 0..MaxFetches

QueueType ==
    /\ queued \in [Keys -> SUBSET Called]
    /\ hasQueue \in SUBSET Keys
    /\ \A k \in Keys : queued[k] # {} => k \in hasQueue

GetType ==
    /\ gets \in [Gets -> Get]
    /\ \A g \in Called : gets[g].key \in Keys
    /\ cancelled \in SUBSET Called
    /\ watched \in SUBSET Called
    /\ idles \in SUBSET Called

HandlerType ==
    /\ handler \in Handler
    /\ handler.op # "idle" => handler.key \in Keys
    /\ handler.left \in SUBSET Called

\* The types, that only arrays of the table "queued" hold tasks, and that what
\* was started has a key.
TypeOK ==
    /\ CacheType
    /\ FetchType
    /\ QueueType
    /\ GetType
    /\ HandlerType

\* No task is returned twice: the gets that are still to be answered have no
\* answer, but for the one cancel_in_idle has just answered.
AnsweredOnce ==
    /\ \A k \in Keys : \A g \in queued[k] :
          \/ Waiting(g)
          \/ handler.op = "cancel" /\ g \in handler.left
    /\ handler.op = "deliver" => \A g \in handler.left : Waiting(g)

\* Nobody waits for a fetch that is over: while a get is queued, in_flight
\* names a fetch of its key whose callback has not run.
NobodyStranded ==
    \A k \in Keys :
        queued[k] # {} => /\ inFlight[k] # 0
                          /\ Live(inFlight[k])
                          /\ fetches[inFlight[k]].key = k

\* Requests are coalesced: a key has one fetch at a time, the one in_flight
\* knows and can cancel.
OneFetchPerKey ==
    \A f \in FetchId : Live(f) => inFlight[fetches[f].key] = f

\* The heap holds the items of the hash table and no freed one, whatever the
\* order of replacing, evicting and expiring.
HeapMatchesCache == evictHeap = CachedItems(cache)

\* A get that was queued is answered by the fetch it joined, never by an
\* older one: a forced update does not see the value it wants to replace.
AnswerOfJoinedFetch ==
    \A g \in Gets :
        gets[g].answer.kind = "value" /\ gets[g].joined # 0
            => gets[g].answer.value = gets[g].joined

\* A caller that did not cancel sees G_IO_ERROR_CANCELLED only when it joined
\* a fetch its last waiter had cancelled: one caller that gives up does not
\* take the answer from those that waited with it.
CancelIsNotShared ==
    \A g \in Gets :
        gets[g].answer.kind = "cancelled" /\ g \notin cancelled
            => gets[g].late

\* No get waits for ever if the populate callback returns its tasks, so that no
\* fetch runs for ever, and one that is cancelled even if it never does.
EveryGetAnswered ==
    /\ (\A f \in FetchId : []<>(fetches[f].state # "running"))
          => \A g \in Gets : []<>~Waiting(g)
    /\ \A g \in Gets : []<>~(Waiting(g) /\ g \in cancelled)

\* No key has an item whose time is over for ever.
ExpiredItemsLeave ==
    TimeToLive > 0 => \A k \in Keys : []<>(\A i \in cache[k] : i.evictAt > now)

=============================================================================

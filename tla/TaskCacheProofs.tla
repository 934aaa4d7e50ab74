--------------------------- MODULE TaskCacheProofs ---------------------------
(***************************************************************************)
(* TLAPS proofs about TaskCache, for every set of keys and gets, every     *)
(* time to live and every bound.                                           *)
(***************************************************************************)
EXTENDS TaskCache, SharedLemmas

USE BoundsAssumption, NoKeyAssumption

\* evict_source_rearm arms the source for the item that expires first, and
\* for none when there is none or items do not expire.
LEMMA RearmIsLeast ==
    ASSUME NEW heap \in SUBSET Item, Rearm(heap)
    PROVE  /\ readyTime' \in Nat
           /\ (heap = {} \/ TimeToLive = 0) => readyTime' = 0
           /\ (heap # {} /\ TimeToLive > 0) =>
                 /\ \E i \in heap : readyTime' = i.evictAt
                 /\ \A i \in heap : readyTime' <= i.evictAt
<1>1. CASE heap = {} \/ TimeToLive = 0
  BY <1>1 DEF Rearm
<1>2. CASE heap # {} /\ TimeToLive # 0
  <2> DEFINE T == {i.evictAt : i \in heap}
  <2>1. T \in SUBSET Nat /\ T # {}
    BY <1>2 DEF Item
  <2>2. \E m \in T : \A t \in T : m <= t
    BY <2>1, LeastNat
  <2>3. \E m \in T : \A i \in heap : m <= i.evictAt
    BY <2>2
  <2>4. readyTime' = CHOOSE t \in T : \A i \in heap : t <= i.evictAt
    BY <1>2 DEF Rearm
  <2>5. readyTime' \in T /\ \A i \in heap : readyTime' <= i.evictAt
    BY <2>3, <2>4
  <2> QED BY <1>2, <2>1, <2>5
<1> QED BY <1>1, <1>2

-----------------------------------------------------------------------------
(***************************************************************************)
(* Type correctness.                                                       *)
(***************************************************************************)

LEMMA AnswerTypes ==
    /\ NoAnswer \in Answer
    /\ Cancelled \in Answer
    /\ [kind |-> "error", value |-> 0] \in Answer
    /\ \A f \in FetchId : [kind |-> "value", value |-> f] \in Answer
BY DEF Answer, NoAnswer, Cancelled, FetchId

LEMMA InitType == Init => TypeOK
<1> SUFFICES ASSUME Init PROVE TypeOK
  OBVIOUS
<1>1. CacheType
  BY DEF Init, CacheType
<1>2. FetchType
  BY DEF Init, FetchType, NoFetch, Fetch, FetchId
<1>3. NewGet \in Get
  BY AnswerTypes DEF NewGet, Get, GetState
<1>4. QueueType /\ GetType
  BY <1>3 DEF Init, QueueType, GetType, Called, NewGet
<1>5. HandlerType
  BY AnswerTypes DEF Init, HandlerType, Handler, Idle
<1> QED BY <1>1, <1>2, <1>4, <1>5 DEF Init, TypeOK

\* What a step has to keep of the gets for the types of everything that holds
\* gets: none is forgotten.
GetsGrow ==
    /\ gets' \in [Gets -> Get]
    /\ \A h \in Gets : gets'[h].state # "new" => gets'[h].key \in Keys
    /\ \A h \in Gets : gets[h].state # "new" => gets'[h].state # "new"

LEMMA CalledGrows ==
    ASSUME GetsGrow
    PROVE  Called \subseteq Called' /\ \A g \in Called' : gets'[g].key \in Keys
BY DEF GetsGrow, Called

LEMMA QueueTypeKept ==
    ASSUME GetsGrow, QueueType, UNCHANGED <<queued, hasQueue>>
    PROVE  QueueType'
BY CalledGrows DEF QueueType

LEMMA GetTypeKept ==
    ASSUME GetsGrow, GetType, cancelled' \in SUBSET Called',
           watched' \in SUBSET Called', idles' \in SUBSET Called'
    PROVE  GetType'
BY CalledGrows DEF GetsGrow, GetType

LEMMA HandlerTypeKept ==
    ASSUME GetsGrow, HandlerType, UNCHANGED handler
    PROVE  HandlerType'
BY CalledGrows DEF HandlerType

\* g_task_return_* keeps the type of the gets.
LEMMA ReturnType ==
    ASSUME GetType, NEW g \in Called, NEW a \in Answer, NEW sync \in BOOLEAN,
           Return(g, a, sync)
    PROVE  GetsGrow
<1>1. Seen(g, a) \in Answer
  BY AnswerTypes DEF Seen
<1>2. g \in Gets /\ gets[g] \in Get /\ gets[g].key \in Keys
  BY DEF GetType, Called
<1> DEFINE new == [gets[g] EXCEPT !.state  = IF sync THEN "done" ELSE "returned",
                                  !.answer = IF sync THEN Seen(g, a) ELSE a]
<1>3. new \in Get /\ new.key = gets[g].key /\ new.state # "new"
  BY <1>1, <1>2 DEF Get, GetState
<1>4. gets' = [gets EXCEPT ![g] = new]
  BY DEF Return
<1> HIDE DEF new
<1> QED BY <1>2, <1>3, <1>4 DEF GetType, GetsGrow, Called

LEMMA GetCachedType ==
    ASSUME TypeOK, NEW g \in Gets, NEW k \in Keys, NEW already \in BOOLEAN,
           GetCached(g, k, already)
    PROVE  TypeOK'
<1>1. PICK i \in cache[k] :
        gets' = [gets EXCEPT ![g] =
                   [@ EXCEPT !.state = "returned", !.key = k,
                             !.answer = [kind |-> "value", value |-> i.value]]]
  BY DEF GetCached
<1>2. i \in Item
  BY DEF TypeOK, CacheType
<1>3. [kind |-> "value", value |-> i.value] \in Answer
  BY <1>2, AnswerTypes DEF Item
<1>4. gets \in [Gets -> Get] /\ gets[g] \in Get
  BY DEF TypeOK, GetType
<1> DEFINE new == [gets[g] EXCEPT !.state = "returned", !.key = k,
                                  !.answer = [kind |-> "value", value |-> i.value]]
<1>5. new \in Get /\ new.key = k /\ new.state # "new"
  BY <1>3, <1>4 DEF Get, GetState
<1>6. gets' = [gets EXCEPT ![g] = new]
  BY <1>1
<1> HIDE DEF new
<1>7. GetsGrow /\ g \in Called'
  BY <1>4, <1>5, <1>6 DEF GetsGrow, TypeOK, GetType, Called
<1>8. GetType'
  BY <1>7, CalledGrows, GetTypeKept DEF GetCached, TypeOK, GetType
<1> QED
  BY <1>7, <1>8, QueueTypeKept, HandlerTypeKept
     DEF GetCached, TypeOK, CacheType, FetchType, cacheVars, fetchVars

LEMMA StartFetchType ==
    ASSUME FetchType, NEW k \in Keys, StartFetch(k)
    PROVE  FetchType' /\ inFlight'[k] \in FetchId
<1>1. CASE inFlight[k] # 0
  BY <1>1 DEF FetchType, StartFetch, fetchVars, FetchId
<1>2. CASE inFlight[k] = 0
  <2> DEFINE f == lastFetch + 1
             new == [state |-> "running", key |-> k, cancelled |-> FALSE]
  <2>1. f \in FetchId /\ f \in 0..MaxFetches
    BY <1>2 DEF FetchType, StartFetch, FetchId
  <2>2. new \in Fetch /\ new.key = k
    BY DEF Fetch
  <2>3. /\ inFlight' = [inFlight EXCEPT ![k] = f]
        /\ fetches' = [fetches EXCEPT ![f] = new]
        /\ lastFetch' = f
    BY <1>2 DEF StartFetch
  <2> HIDE DEF f, new
  <2> QED BY <2>1, <2>2, <2>3 DEF FetchType
<1> QED BY <1>1, <1>2

LEMMA GetQueuedType ==
    ASSUME TypeOK, NEW g \in Gets, NEW k \in Keys, NEW force \in BOOLEAN,
           NEW already \in BOOLEAN, GetQueued(g, k, force, already)
    PROVE  TypeOK'
<1>1. FetchType' /\ inFlight'[k] \in FetchId
  BY StartFetchType DEF GetQueued, TypeOK
<1>2. /\ inFlight'[k] \in 0..MaxFetches
      /\ fetches'[inFlight'[k]].cancelled \in BOOLEAN
  BY <1>1 DEF FetchType, Fetch, FetchId
<1> DEFINE new == [state |-> "waiting", key |-> k, answer |-> NoAnswer,
                   force |-> force, joined |-> inFlight'[k],
                   late |-> fetches'[inFlight'[k]].cancelled]
<1>3. new \in Get /\ new.key = k /\ new.state # "new"
  BY <1>2, AnswerTypes DEF Get, GetState
<1>4. gets' = [gets EXCEPT ![g] = new]
  BY DEF GetQueued
<1> HIDE DEF new
<1>5. GetsGrow /\ g \in Called'
  BY <1>3, <1>4 DEF GetsGrow, TypeOK, GetType, Called
<1>6. GetType'
  BY <1>5, CalledGrows, GetTypeKept DEF GetQueued, TypeOK, GetType
<1>7. QueueType'
  <2>1. queued' \in [Keys -> SUBSET Called']
    BY <1>5, CalledGrows DEF GetQueued, Enqueue, TypeOK, QueueType
  <2> QED BY <2>1 DEF GetQueued, Enqueue, TypeOK, QueueType
<1> QED
  BY <1>1, <1>5, <1>6, <1>7, HandlerTypeKept
     DEF GetQueued, TypeOK, CacheType, cacheVars

LEMMA PopulateType ==
    ASSUME CacheType, NEW k \in Keys, NEW f \in FetchId, Populate(k, f),
           UNCHANGED now
    PROVE  CacheType'
<1> DEFINE item == [key |-> k, value |-> f,
                    evictAt |-> IF TimeToLive > 0 THEN now + TimeToLive ELSE 0]
           heap == (evictHeap \ cache[k]) \cup {item}
<1>1. item \in Item
  BY DEF CacheType, Item
<1>2. heap \in SUBSET Item
  BY <1>1 DEF CacheType
<1>3. /\ cache' = [cache EXCEPT ![k] = {item}]
      /\ evictHeap' = heap
      /\ Rearm(heap)
  BY DEF Populate
<1>4. readyTime' \in Nat
  <2> HIDE DEF heap
  <2> QED BY <1>2, <1>3, RearmIsLeast
<1> HIDE DEF item
<1> QED BY <1>1, <1>2, <1>3, <1>4 DEF CacheType

\* The state of one fetch changes.
FetchStateSet(f, state) == fetches' = [fetches EXCEPT ![f].state = state]

LEMMA FetchStateType ==
    ASSUME FetchType, NEW f \in FetchId, fetches[f].key \in Keys,
           NEW state \in {"value", "error", "done"}, FetchStateSet(f, state)
    PROVE  /\ fetches' \in [FetchId -> Fetch]
           /\ \A x \in FetchId : fetches'[x].state # "none" => fetches'[x].key \in Keys
           /\ \A x \in FetchId : fetches'[x].key = fetches[x].key
<1> DEFINE new == [fetches[f] EXCEPT !.state = state]
<1>1. fetches[f] \in Fetch
  BY DEF FetchType
<1>2. new \in Fetch /\ new.key = fetches[f].key /\ new.state # "none"
  BY <1>1 DEF Fetch
<1>3. fetches' = [fetches EXCEPT ![f] = new]
  BY DEF FetchStateSet
<1> HIDE DEF new
<1> QED BY <1>2, <1>3 DEF FetchType

LEMMA FetchDoneType ==
    ASSUME TypeOK, NEW f \in FetchId, FetchDone(f)
    PROVE  TypeOK'
<1> DEFINE k  == fetches[f].key
           ok == fetches[f].state = "value" /\ ~fetches[f].cancelled
           answer == CASE ok -> [kind |-> "value", value |-> f]
                       [] fetches[f].cancelled -> Cancelled
                       [] OTHER -> [kind |-> "error", value |-> 0]
<1>1. k \in Keys
  BY DEF FetchDone, TypeOK, FetchType
<1>2. CacheType'
  <2>1. CASE ok
    BY <1>1, <2>1, PopulateType DEF FetchDone, TypeOK
  <2>2. CASE ~ok
    BY <2>2 DEF FetchDone, cacheVars, TypeOK, CacheType
  <2> QED BY <2>1, <2>2
<1>3. FetchType'
  <2>1. FetchStateSet(f, "done")
    BY DEF FetchDone, FetchStateSet
  <2>2. /\ fetches' \in [FetchId -> Fetch]
        /\ \A x \in FetchId : fetches'[x].state # "none" => fetches'[x].key \in Keys
    BY <1>1, <2>1, FetchStateType DEF TypeOK
  <2>3. inFlight' \in [Keys -> 0..MaxFetches] /\ lastFetch' \in 0..MaxFetches
    <3>1. inFlight' = [inFlight EXCEPT ![k] = 0] /\ lastFetch' = lastFetch
      BY DEF FetchDone, Land
    <3>2. 0 \in 0..MaxFetches
      OBVIOUS
    <3>3. inFlight \in [Keys -> 0..MaxFetches] /\ lastFetch \in 0..MaxFetches
      BY DEF TypeOK, FetchType
    <3> QED BY <3>1, <3>2, <3>3
  <2> QED BY <2>2, <2>3 DEF FetchType
<1>4. QueueType'
  BY DEF FetchDone, TypeOK, QueueType, Called
<1>5. HandlerType'
  <2>1. answer \in Answer
    BY AnswerTypes
  <2>2. handler' = IF queued[k] = {} THEN Idle
                   ELSE [op |-> "deliver", key |-> k, left |-> queued[k],
                         answer |-> answer]
    BY DEF FetchDone
  <2>3. queued[k] \in SUBSET Gets /\ queued[k] \in SUBSET Called'
    BY <1>1 DEF FetchDone, TypeOK, QueueType, Called
  <2> HIDE DEF answer, k
  <2> QED BY <1>1, <2>1, <2>2, <2>3, AnswerTypes DEF HandlerType, Handler, Idle
<1> QED
  BY <1>2, <1>3, <1>4, <1>5 DEF FetchDone, TypeOK, GetType, Called

LEMMA DeliverType ==
    ASSUME TypeOK, NEW g \in Gets, NEW sync \in BOOLEAN, Deliver(g, sync)
    PROVE  TypeOK'
<1>1. g \in Called /\ handler.answer \in Answer
  BY DEF Deliver, TypeOK, HandlerType, Handler
<1>2. GetsGrow
  BY <1>1, ReturnType DEF Deliver, TypeOK
<1>3. handler' = IF handler.left = {g} THEN Idle
                 ELSE [handler EXCEPT !.left = @ \ {g}]
  BY DEF Deliver
<1>4. HandlerType'
  BY <1>2, <1>3, CalledGrows, AnswerTypes DEF Handler, Idle, TypeOK, HandlerType
<1>5. GetType'
  BY <1>2, CalledGrows, GetTypeKept DEF Deliver, TypeOK, GetType
<1> QED
  BY <1>2, <1>4, <1>5, QueueTypeKept
     DEF Deliver, TypeOK, CacheType, FetchType, cacheVars, fetchVars

LEMMA FinishType ==
    ASSUME TypeOK, NEW g \in Gets, Finish(g)
    PROVE  TypeOK'
<1>1. g \in Called /\ gets[g].answer \in Answer
  BY DEF Finish, TypeOK, GetType, Get, Called
<1>2. GetsGrow
  BY <1>1, ReturnType DEF Finish, TypeOK
<1>3. GetType'
  BY <1>2, CalledGrows, GetTypeKept DEF Finish, TypeOK, GetType
<1> QED
  BY <1>2, <1>3, QueueTypeKept, HandlerTypeKept
     DEF Finish, TypeOK, CacheType, FetchType, cacheVars, fetchVars

LEMMA CancelWaiterType ==
    ASSUME TypeOK, NEW g \in Gets, NEW sync \in BOOLEAN, CancelWaiter(g, sync)
    PROVE  TypeOK'
<1>1. g \in Called /\ gets[g].key \in Keys
  BY DEF CancelWaiter, TypeOK, GetType
<1>2. GetsGrow
  BY <1>1, ReturnType, AnswerTypes DEF CancelWaiter, TypeOK
<1>3. GetType'
  BY <1>2, CalledGrows, GetTypeKept DEF CancelWaiter, TypeOK, GetType
<1>4. HandlerType'
  BY <1>1, <1>2, CalledGrows, AnswerTypes DEF CancelWaiter, HandlerType, Handler
<1> QED
  BY <1>2, <1>3, <1>4, QueueTypeKept
     DEF CancelWaiter, TypeOK, CacheType, FetchType, cacheVars, fetchVars

\* Cancelling the fetch of a key keeps the types of the fetches.
LEMMA CancelFetchType ==
    ASSUME FetchType, NEW k \in Keys, NEW left, CancelFetch(k, left),
           UNCHANGED <<inFlight, lastFetch>>
    PROVE  FetchType'
<1>1. CASE fetches' = fetches
  BY <1>1 DEF FetchType
<1>2. CASE fetches' # fetches
  <2> DEFINE f == inFlight[k]
             new == [fetches[f] EXCEPT !.cancelled = TRUE]
  <2>1. f \in FetchId /\ fetches' = [fetches EXCEPT ![f] = new]
    BY <1>2 DEF CancelFetch, FetchType, FetchId
  <2>2. fetches[f] \in Fetch
    BY <2>1 DEF FetchType
  <2>3. new \in Fetch /\ new.key = fetches[f].key /\ new.state = fetches[f].state
    BY <2>2 DEF Fetch
  <2> HIDE DEF f, new
  <2> QED BY <2>1, <2>2, <2>3 DEF FetchType
<1> QED BY <1>1, <1>2

LEMMA CancelUnqueueType == TypeOK /\ CancelUnqueue => TypeOK'
<1> SUFFICES ASSUME TypeOK, CancelUnqueue PROVE TypeOK'
  OBVIOUS
<1>1. handler.key \in Keys
  BY DEF CancelUnqueue, TypeOK, HandlerType
<1>2. FetchType'
  BY <1>1, CancelFetchType DEF CancelUnqueue, TypeOK
<1>3. Called' = Called
  BY DEF CancelUnqueue, Called
<1>4. QueueType'
  BY <1>1, <1>3 DEF CancelUnqueue, Unqueue, TypeOK, QueueType
<1>5. HandlerType'
  BY AnswerTypes DEF CancelUnqueue, HandlerType, Handler, Idle
<1> QED
  BY <1>2, <1>3, <1>4, <1>5
     DEF CancelUnqueue, TypeOK, CacheType, GetType, cacheVars

LEMMA CancelMissedType ==
    ASSUME TypeOK, NEW g \in Gets, CancelMissed(g)
    PROVE  TypeOK'
<1>1. gets[g].key \in Keys
  BY DEF CancelMissed, TypeOK, GetType
<1>2. FetchType'
  <2>1. CASE gets[g].key \in hasQueue
    BY <1>1, <2>1, CancelFetchType DEF CancelMissed, TypeOK
  <2>2. CASE gets[g].key \notin hasQueue
    BY <2>2 DEF CancelMissed, TypeOK, FetchType
  <2> QED BY <2>1, <2>2
<1>3. Called' = Called
  BY DEF CancelMissed, Called
<1> QED
  BY <1>2, <1>3
     DEF CancelMissed, TypeOK, CacheType, QueueType, GetType, HandlerType, cacheVars

\* Steps that change nothing but the items and the clock.
LEMMA ItemStepType ==
    ASSUME TypeOK, CacheType',
           UNCHANGED <<queued, hasQueue, fetchVars, gets, cancelled, watched,
                       idles, handler>>
    PROVE  TypeOK'
<1>1. Called' = Called
  BY DEF Called
<1> QED
  BY <1>1 DEF TypeOK, QueueType, FetchType, GetType, HandlerType, fetchVars

LEMMA EvictType ==
    ASSUME TypeOK, NEW k \in Keys, Evict(k)
    PROVE  TypeOK'
<1> DEFINE heap == evictHeap \ cache[k]
<1>1. heap \in SUBSET Item
  BY DEF TypeOK, CacheType
<1>2. evictHeap' = heap /\ Rearm(heap) /\ cache' = [cache EXCEPT ![k] = {}]
  BY DEF Evict
<1> HIDE DEF heap
<1>3. CacheType'
  BY <1>1, <1>2, RearmIsLeast DEF TypeOK, CacheType, Evict
<1> QED BY <1>3, ItemStepType DEF Evict

LEMMA EvictAllType == TypeOK /\ EvictAll => TypeOK'
<1> SUFFICES ASSUME TypeOK, EvictAll PROVE TypeOK'
  OBVIOUS
<1>1. CacheType'
  BY RearmIsLeast DEF TypeOK, CacheType, EvictAll
<1> QED BY <1>1, ItemStepType DEF EvictAll

LEMMA EvictExpiredType == TypeOK /\ EvictExpired => TypeOK'
<1> SUFFICES ASSUME TypeOK, EvictExpired PROVE TypeOK'
  OBVIOUS
<1> DEFINE expired == {i \in evictHeap : i.evictAt <= now}
           heap == evictHeap \ expired
<1>1. heap \in SUBSET Item
  BY DEF TypeOK, CacheType
<1>2. evictHeap' = heap /\ Rearm(heap)
  BY DEF EvictExpired
<1>3. cache' \in [Keys -> SUBSET Item]
  BY DEF EvictExpired, TypeOK, CacheType
<1> HIDE DEF heap
<1>4. CacheType'
  BY <1>1, <1>2, <1>3, RearmIsLeast DEF TypeOK, CacheType, EvictExpired
<1> QED BY <1>4, ItemStepType DEF EvictExpired

LEMMA OtherTypes ==
    ASSUME TypeOK
    PROVE  /\ \A g \in Gets : Cancel(g) => TypeOK'
           /\ PopulateStep => TypeOK'
           /\ Tick => TypeOK'
           /\ UNCHANGED vars => TypeOK'
<1>1. ASSUME NEW g \in Gets, Cancel(g)
      PROVE  TypeOK'
  <2>1. Called' = Called /\ g \in Called
    BY <1>1 DEF Cancel, Called
  <2>2. GetType'
    BY <1>1, <2>1 DEF Cancel, Notice, TypeOK, GetType
  <2> QED
    BY <1>1, <2>1, <2>2
       DEF Cancel, TypeOK, CacheType, FetchType, QueueType, HandlerType,
           cacheVars, fetchVars
<1>2. ASSUME NEW f \in FetchId, NEW o \in {"value", "error"}, PopulateReturn(f, o)
      PROVE  TypeOK'
  <2>1. FetchType'
    <3>1. /\ FetchStateSet(f, o)
          /\ fetches[f].key \in Keys
          /\ o \in {"value", "error", "done"}
      BY <1>2 DEF PopulateReturn, FetchStateSet, TypeOK, FetchType
    <3>2. /\ fetches' \in [FetchId -> Fetch]
          /\ \A x \in FetchId : fetches'[x].state # "none" => fetches'[x].key \in Keys
      BY <1>2, <3>1, FetchStateType DEF TypeOK
    <3> QED BY <1>2, <3>2 DEF PopulateReturn, TypeOK, FetchType
  <2>2. Called' = Called
    BY <1>2 DEF PopulateReturn, Called
  <2> QED
    BY <1>2, <2>1, <2>2
       DEF PopulateReturn, TypeOK, CacheType, QueueType, GetType, HandlerType,
           cacheVars
<1>3. ASSUME Tick
      PROVE  TypeOK'
  <2>1. CacheType'
    <3>1. now' = now + 1 /\ UNCHANGED <<cache, evictHeap, readyTime>>
      BY <1>3 DEF Tick, cacheVars
    <3>2. now \in Nat
      BY DEF TypeOK, CacheType
    <3>3. now' \in Nat
      BY <3>1, <3>2
    <3> QED BY <3>1, <3>3 DEF TypeOK, CacheType
  <2> QED BY <1>3, <2>1, ItemStepType DEF Tick
<1>4. ASSUME UNCHANGED vars
      PROVE  TypeOK'
  <2>1. CacheType'
    BY <1>4 DEF vars, TypeOK, CacheType
  <2> QED BY <1>4, <2>1, ItemStepType DEF vars, fetchVars
<1> QED BY <1>1, <1>2, <1>3, <1>4 DEF PopulateStep

LEMMA NextType == TypeOK /\ [Next]_vars => TypeOK'
<1> SUFFICES ASSUME TypeOK, [Next]_vars PROVE TypeOK'
  OBVIOUS
<1>1. CASE LoopStep
  BY <1>1, FetchDoneType, DeliverType, CancelWaiterType, CancelMissedType,
     CancelUnqueueType, FinishType, EvictExpiredType DEF LoopStep
<1>2. CASE Call
  BY <1>2, GetCachedType, GetQueuedType, OtherTypes, EvictType, EvictAllType
     DEF Call
<1>3. CASE PopulateStep \/ Tick \/ UNCHANGED vars
  BY <1>3, OtherTypes
<1> QED BY <1>1, <1>2, <1>3 DEF Next

\* Type correctness of the cache, for every instance.
THEOREM TypeCorrect == Spec => []TypeOK
BY InitType, NextType, PTL DEF Spec
-----------------------------------------------------------------------------
(***************************************************************************)
(* Fetches: in_flight knows every fetch that runs, and everybody who waits *)
(* waits for one of them.                                                  *)
(***************************************************************************)

\* The strengthening of OneFetchPerKey and NobodyStranded that is inductive:
\* in_flight names only live fetches of its key, unused fetch numbers are
\* unused, and a queue has a fetch.
FetchOfKey(k) ==
    /\ inFlight[k] \in FetchId
    /\ fetches[inFlight[k]].state \in {"running", "value", "error"}
    /\ fetches[inFlight[k]].key = k

FetchInv ==
    /\ OneFetchPerKey
    /\ \A k \in Keys : inFlight[k] # 0 => FetchOfKey(k)
    /\ \A f \in FetchId : f > lastFetch => fetches[f].state = "none"
    /\ \A k \in Keys : queued[k] # {} => inFlight[k] # 0

LEMMA FetchInvInit == Init => FetchInv
BY DEF Init, FetchInv, FetchOfKey, OneFetchPerKey, Live, NoFetch, FetchId

\* Nothing about fetches and queues changes, or queues shrink.
LEMMA FetchInvShrink ==
    ASSUME FetchInv, UNCHANGED <<inFlight, lastFetch>>,
           \A f \in FetchId : /\ fetches'[f].state = fetches[f].state
                              /\ fetches'[f].key = fetches[f].key,
           \A k \in Keys : queued'[k] \subseteq queued[k]
    PROVE  FetchInv'
<1>1. \A f \in FetchId : Live(f)' <=> Live(f)
  BY DEF Live
<1>2. OneFetchPerKey'
  BY <1>1 DEF FetchInv, OneFetchPerKey
<1>3. \A k \in Keys : inFlight'[k] # 0 => FetchOfKey(k)'
  BY DEF FetchInv, FetchOfKey
<1>4. \A f \in FetchId : f > lastFetch' => fetches'[f].state = "none"
  BY DEF FetchInv
<1>5. \A k \in Keys : queued'[k] # {} => inFlight'[k] # 0
  BY DEF FetchInv
<1> QED BY <1>2, <1>3, <1>4, <1>5 DEF FetchInv

LEMMA FetchInvCancel ==
    ASSUME FetchType, FetchInv, NEW k \in Keys, NEW left, CancelFetch(k, left),
           UNCHANGED <<inFlight, lastFetch>>,
           \A x \in Keys : queued'[x] \subseteq queued[x]
    PROVE  FetchInv'
<1>1. \A f \in FetchId : /\ fetches'[f].state = fetches[f].state
                         /\ fetches'[f].key = fetches[f].key
  BY DEF CancelFetch, FetchType, Fetch
<1> QED BY <1>1, FetchInvShrink

LEMMA FetchInvPopulate ==
    ASSUME FetchType, FetchInv, NEW f \in FetchId, NEW o \in {"value", "error"},
           PopulateReturn(f, o)
    PROVE  FetchInv'
<1>1. /\ \A x \in FetchId : fetches'[x].key = fetches[x].key
      /\ \A x \in FetchId : x # f => fetches'[x].state = fetches[x].state
      /\ fetches'[f].state = o /\ fetches[f].state = "running"
  BY DEF PopulateReturn, FetchType, Fetch
<1>2. \A x \in FetchId : Live(x)' <=> Live(x)
  BY <1>1 DEF Live
<1>3. UNCHANGED <<inFlight, lastFetch, queued>>
  BY DEF PopulateReturn
<1>4. OneFetchPerKey'
  BY <1>1, <1>2, <1>3 DEF FetchInv, OneFetchPerKey
<1>5. \A k \in Keys : inFlight'[k] # 0 => FetchOfKey(k)'
  BY <1>1, <1>3 DEF FetchInv, FetchOfKey
<1>6. \A x \in FetchId : x > lastFetch' => fetches'[x].state = "none"
  BY <1>1, <1>3 DEF FetchInv
<1> QED BY <1>3, <1>4, <1>5, <1>6 DEF FetchInv

LEMMA FetchInvDone ==
    ASSUME TypeOK, FetchInv, NEW f \in FetchId, FetchDone(f)
    PROVE  FetchInv'
<1> DEFINE k == fetches[f].key
<1>1. k \in Keys /\ Live(f) /\ inFlight[k] = f
  BY DEF FetchDone, TypeOK, FetchType, Live, FetchInv, OneFetchPerKey
<1>2. /\ inFlight' = [inFlight EXCEPT ![k] = 0]
      /\ queued' = [queued EXCEPT ![k] = {}]
      /\ lastFetch' = lastFetch
  BY DEF FetchDone, Land
<1>3. /\ \A x \in FetchId : fetches'[x].key = fetches[x].key
      /\ \A x \in FetchId : x # f => fetches'[x].state = fetches[x].state
      /\ fetches'[f].state = "done"
  BY DEF FetchDone, TypeOK, FetchType, Fetch
<1>4. inFlight \in [Keys -> 0..MaxFetches] /\ queued \in [Keys -> SUBSET Called]
  BY DEF TypeOK, FetchType, QueueType
<1> HIDE DEF k
<1>5. OneFetchPerKey'
  <2> SUFFICES ASSUME NEW x \in FetchId, Live(x)'
               PROVE  inFlight'[fetches'[x].key] = x
    BY DEF OneFetchPerKey
  <2>1. x # f /\ Live(x)
    BY <1>3 DEF Live
  <2>2. inFlight[fetches[x].key] = x
    BY <2>1 DEF FetchInv, OneFetchPerKey
  <2>3. fetches[x].key \in Keys /\ fetches[x].key # k
    BY <1>1, <2>1, <2>2 DEF Live, TypeOK, FetchType
  <2> QED BY <1>2, <1>3, <1>4, <2>2, <2>3
<1>6. ASSUME NEW x \in Keys, inFlight'[x] # 0
      PROVE  FetchOfKey(x)'
  <2>1. x # k /\ inFlight'[x] = inFlight[x]
    BY <1>1, <1>2, <1>4, <1>6
  <2>2. FetchOfKey(x)
    BY <1>6, <2>1 DEF FetchInv
  <2>3. inFlight[x] # f
    BY <2>1, <2>2 DEF k, FetchOfKey
  <2> QED BY <1>3, <2>1, <2>2, <2>3 DEF FetchOfKey
<1>7. \A x \in FetchId : x > lastFetch' => fetches'[x].state = "none"
  BY <1>1, <1>2, <1>3 DEF FetchInv, Live
<1>8. \A x \in Keys : queued'[x] # {} => inFlight'[x] # 0
  BY <1>1, <1>2, <1>4 DEF FetchInv
<1> QED BY <1>5, <1>6, <1>7, <1>8 DEF FetchInv

LEMMA FetchInvQueued ==
    ASSUME TypeOK, FetchInv, NEW g \in Gets, NEW k \in Keys, NEW force \in BOOLEAN,
           NEW already \in BOOLEAN, GetQueued(g, k, force, already)
    PROVE  FetchInv'
<1>1. queued' = [queued EXCEPT ![k] = @ \cup {g}]
  BY DEF GetQueued, Enqueue
<1>2. /\ inFlight \in [Keys -> 0..MaxFetches]
      /\ fetches \in [FetchId -> Fetch]
      /\ queued \in [Keys -> SUBSET Called]
  BY DEF TypeOK, FetchType, QueueType
<1>3. CASE inFlight[k] # 0
  <2>1. UNCHANGED <<inFlight, fetches, lastFetch>>
    BY <1>3 DEF GetQueued, StartFetch, fetchVars
  <2>2. \A x \in Keys : queued'[x] # {} => inFlight'[x] # 0
    BY <1>1, <1>2, <1>3, <2>1 DEF FetchInv
  <2> QED BY <2>1, <2>2 DEF FetchInv, FetchOfKey, OneFetchPerKey, Live
<1>4. CASE inFlight[k] = 0
  <2> DEFINE n == lastFetch + 1
  <2>1. n \in FetchId /\ n > lastFetch /\ n # 0 /\ n \in Nat
    <3>1. lastFetch \in 0..MaxFetches /\ lastFetch < MaxFetches
      BY <1>4 DEF GetQueued, StartFetch, TypeOK, FetchType
    <3> QED BY <3>1 DEF FetchId
  <2>2. /\ inFlight' = [inFlight EXCEPT ![k] = n]
        /\ fetches' = [fetches EXCEPT ![n] =
                         [state |-> "running", key |-> k, cancelled |-> FALSE]]
        /\ lastFetch' = n
    BY <1>4 DEF GetQueued, StartFetch
  <2>3. fetches[n].state = "none"
    BY <2>1 DEF FetchInv
  <2>4. \A x \in FetchId : x > n => x > lastFetch /\ x # n
    <3>1. lastFetch \in 0..MaxFetches
      BY DEF TypeOK, FetchType
    <3> QED BY <3>1 DEF FetchId
  <2> HIDE DEF n
  <2>5. /\ \A x \in FetchId : x # n => fetches'[x] = fetches[x]
        /\ fetches'[n].state = "running" /\ fetches'[n].key = k
    BY <1>2, <2>1, <2>2
  <2>6. OneFetchPerKey'
    <3> SUFFICES ASSUME NEW x \in FetchId, Live(x)'
                 PROVE  inFlight'[fetches'[x].key] = x
      BY DEF OneFetchPerKey
    <3>1. CASE x = n
      BY <1>2, <2>2, <2>5, <3>1
    <3>2. CASE x # n
      <4>1. fetches'[x] = fetches[x] /\ Live(x)
        BY <2>5, <3>2 DEF Live
      <4>2. inFlight[fetches[x].key] = x /\ fetches[x].key \in Keys
        BY <4>1 DEF FetchInv, OneFetchPerKey, Live, TypeOK, FetchType
      <4>3. fetches[x].key # k
        BY <1>4, <4>2 DEF FetchId
      <4> QED BY <1>2, <2>2, <4>1, <4>2, <4>3
    <3> QED BY <3>1, <3>2
  <2>7. ASSUME NEW x \in Keys, inFlight'[x] # 0
        PROVE  FetchOfKey(x)'
    <3>1. CASE x = k
      BY <1>2, <2>1, <2>2, <2>5, <3>1 DEF FetchOfKey
    <3>2. CASE x # k
      <4>1. inFlight'[x] = inFlight[x]
        BY <1>2, <2>2, <3>2
      <4>2. FetchOfKey(x)
        BY <2>7, <4>1 DEF FetchInv
      <4>3. inFlight[x] # n
        BY <2>3, <4>2 DEF FetchOfKey
      <4> QED BY <2>5, <4>1, <4>2, <4>3 DEF FetchOfKey
    <3> QED BY <3>1, <3>2
  <2>8. \A x \in FetchId : x > lastFetch' => fetches'[x].state = "none"
    BY <2>2, <2>4, <2>5 DEF FetchInv
  <2>9. \A x \in Keys : queued'[x] # {} => inFlight'[x] # 0
    BY <1>1, <1>2, <2>1, <2>2 DEF FetchInv
  <2> QED BY <2>6, <2>7, <2>8, <2>9 DEF FetchInv
<1> QED BY <1>3, <1>4

LEMMA FetchInvNext == TypeOK /\ FetchInv /\ [Next]_vars => FetchInv'
<1> SUFFICES ASSUME TypeOK, FetchInv, [Next]_vars PROVE FetchInv'
  OBVIOUS
<1>1. ASSUME UNCHANGED <<inFlight, fetches, lastFetch, queued>>
      PROVE  FetchInv'
  BY <1>1, FetchInvShrink
<1>2. ASSUME NEW g \in Gets, NEW k \in Keys, NEW already \in BOOLEAN,
             GetCached(g, k, already)
      PROVE  FetchInv'
  BY <1>1, <1>2 DEF GetCached, fetchVars
<1>3. ASSUME NEW g \in Gets, Cancel(g) \/ Finish(g)
      PROVE  FetchInv'
  BY <1>1, <1>3 DEF Cancel, Finish, fetchVars
<1>4. ASSUME NEW g \in Gets, NEW sync \in BOOLEAN,
             Deliver(g, sync) \/ CancelWaiter(g, sync)
      PROVE  FetchInv'
  BY <1>1, <1>4 DEF Deliver, CancelWaiter, fetchVars
<1>5. ASSUME NEW k \in Keys, Evict(k)
      PROVE  FetchInv'
  BY <1>1, <1>5 DEF Evict, fetchVars
<1>6. CASE EvictAll \/ EvictExpired \/ Tick
  BY <1>1, <1>6 DEF EvictAll, EvictExpired, Tick, fetchVars
<1>7. CASE CancelUnqueue
  <2>1. handler.key \in Keys /\ queued \in [Keys -> SUBSET Called]
    BY <1>7 DEF CancelUnqueue, TypeOK, HandlerType, QueueType
  <2>2. \A x \in Keys : queued'[x] \subseteq queued[x]
    BY <1>7, <2>1 DEF CancelUnqueue, Unqueue
  <2> QED BY <1>7, <2>1, <2>2, FetchInvCancel DEF CancelUnqueue, TypeOK
<1>8. ASSUME NEW g \in Gets, CancelMissed(g)
      PROVE  FetchInv'
  <2>1. gets[g].key \in Keys
    BY <1>8 DEF CancelMissed, TypeOK, GetType
  <2>2. CASE gets[g].key \in hasQueue
    BY <1>8, <2>1, <2>2, FetchInvCancel DEF CancelMissed, TypeOK
  <2>3. CASE gets[g].key \notin hasQueue
    BY <1>1, <1>8, <2>3 DEF CancelMissed
  <2> QED BY <2>2, <2>3
<1>9. CASE UNCHANGED vars
  BY <1>1, <1>9 DEF vars
<1> QED
  BY <1>2, <1>3, <1>4, <1>5, <1>6, <1>7, <1>8, <1>9, FetchInvPopulate,
     FetchInvDone, FetchInvQueued
     DEF Next, LoopStep, Call, PopulateStep, TypeOK

\* Requests are coalesced: a key never has two fetches, and in_flight knows
\* the one it has.
THEOREM Coalesced == Spec => []OneFetchPerKey
<1>1. Spec => []FetchInv
  BY TypeCorrect, FetchInvInit, FetchInvNext, PTL DEF Spec
<1>2. FetchInv => OneFetchPerKey
  BY DEF FetchInv
<1> QED BY <1>1, <1>2, PTL

\* Nobody waits for a fetch that is over.
THEOREM NoOneStranded == Spec => []NobodyStranded
<1>1. Spec => []FetchInv
  BY TypeCorrect, FetchInvInit, FetchInvNext, PTL DEF Spec
<1>2. FetchInv => NobodyStranded
  BY DEF FetchInv, FetchOfKey, NobodyStranded, Live
<1> QED BY <1>1, <1>2, PTL

-----------------------------------------------------------------------------
(***************************************************************************)
(* Items: the heap and the table.                                          *)
(***************************************************************************)

\* An item is in the table under its key, which has one at most.
ItemInv ==
    /\ HeapMatchesCache
    /\ \A k \in Keys : \A i \in cache[k] : i.key = k
    /\ \A k \in Keys : \A i, j \in cache[k] : i = j

LEMMA ItemInvInit == Init => ItemInv
BY DEF Init, ItemInv, HeapMatchesCache, CachedItems

\* The items of one key are replaced, with the heap in step.
LEMMA ItemInvReplace ==
    ASSUME CacheType, ItemInv, NEW k \in Keys, NEW items,
           \A i \in items : i.key = k, \A i, j \in items : i = j,
           cache' = [cache EXCEPT ![k] = items],
           evictHeap' = (evictHeap \ cache[k]) \cup items
    PROVE  ItemInv'
<1>1. cache'[k] = items /\ \A x \in Keys : x # k => cache'[x] = cache[x]
  BY DEF CacheType
<1>2. evictHeap' = CachedItems(cache')
  <2>1. ASSUME NEW i, i \in evictHeap'
        PROVE  \E x \in Keys : i \in cache'[x]
    <3>1. CASE i \in items
      BY <1>1, <3>1
    <3>2. CASE i \notin items
      <4>1. i \in evictHeap /\ i \notin cache[k]
        BY <2>1, <3>2
      <4>2. PICK x \in Keys : i \in cache[x]
        BY <4>1 DEF ItemInv, HeapMatchesCache, CachedItems
      <4> QED BY <1>1, <4>1, <4>2
    <3> QED BY <3>1, <3>2
  <2>2. ASSUME NEW x \in Keys, NEW i \in cache'[x]
        PROVE  i \in evictHeap'
    <3>1. CASE x = k
      BY <1>1, <2>2, <3>1
    <3>2. CASE x # k
      <4>1. i \in cache[x] /\ i.key = x
        BY <1>1, <2>2, <3>2 DEF ItemInv
      <4>2. i \in evictHeap
        BY <4>1 DEF ItemInv, HeapMatchesCache, CachedItems
      <4>3. i \notin cache[k]
        BY <3>2, <4>1 DEF ItemInv
      <4> QED BY <4>2, <4>3
    <3> QED BY <3>1, <3>2
  <2> QED BY <2>1, <2>2 DEF CachedItems
<1>3. \A x \in Keys : \A i \in cache'[x] : i.key = x
  BY <1>1 DEF ItemInv
<1>4. \A x \in Keys : \A i, j \in cache'[x] : i = j
  BY <1>1 DEF ItemInv
<1> QED BY <1>2, <1>3, <1>4 DEF ItemInv, HeapMatchesCache

LEMMA ItemInvExpired ==
    ASSUME CacheType, ItemInv, EvictExpired
    PROVE  ItemInv'
<1> DEFINE expired == {i \in evictHeap : i.evictAt <= now}
<1>1. /\ evictHeap' = evictHeap \ expired
      /\ cache' = [k \in Keys |-> IF \E i \in expired : i.key = k THEN {} ELSE cache[k]]
  BY DEF EvictExpired
<1>2. expired \subseteq evictHeap
  OBVIOUS
<1> HIDE DEF expired
<1>3. \A k \in Keys : cache'[k] \subseteq cache[k]
  BY <1>1
<1>4. ASSUME NEW k \in Keys, NEW i \in cache[k]
      PROVE  i \in cache'[k] <=> i \notin expired
  <2>1. i \in evictHeap /\ i.key = k
    BY <1>4 DEF ItemInv, HeapMatchesCache, CachedItems
  <2>2. ASSUME NEW j \in expired, j.key = k
        PROVE  j = i
    <3>1. PICK x \in Keys : j \in cache[x]
      BY <1>2, <2>2 DEF ItemInv, HeapMatchesCache, CachedItems
    <3> QED BY <2>2, <3>1 DEF ItemInv
  <2> QED BY <1>1, <2>1, <2>2
<1>5. evictHeap' = CachedItems(cache')
  BY <1>1, <1>3, <1>4 DEF ItemInv, HeapMatchesCache, CachedItems
<1> QED BY <1>3, <1>5 DEF ItemInv, HeapMatchesCache

LEMMA ItemInvNext == TypeOK /\ ItemInv /\ [Next]_vars => ItemInv'
<1> SUFFICES ASSUME TypeOK, ItemInv, [Next]_vars PROVE ItemInv'
  OBVIOUS
<1>1. ASSUME UNCHANGED <<cache, evictHeap>>
      PROVE  ItemInv'
  BY <1>1 DEF ItemInv, HeapMatchesCache
<1>2. ASSUME NEW f \in FetchId, FetchDone(f)
      PROVE  ItemInv'
  <2> DEFINE k == fetches[f].key
             item == [key |-> k, value |-> f,
                      evictAt |-> IF TimeToLive > 0 THEN now + TimeToLive ELSE 0]
  <2>1. k \in Keys
    BY <1>2 DEF FetchDone, TypeOK, FetchType
  <2>2. CASE Populate(k, f)
    <3>1. /\ cache' = [cache EXCEPT ![k] = {item}]
          /\ evictHeap' = (evictHeap \ cache[k]) \cup {item}
          /\ item.key = k
      BY <2>2 DEF Populate
    <3> HIDE DEF k, item
    <3> DEFINE items == {item}
    <3>2. /\ \A i \in items : i.key = k
          /\ \A i, j \in items : i = j
          /\ CacheType
      BY <3>1 DEF TypeOK
    <3>3. /\ cache' = [cache EXCEPT ![k] = items]
          /\ evictHeap' = (evictHeap \ cache[k]) \cup items
      BY <3>1
    <3> HIDE DEF items
    <3> QED BY <2>1, <3>2, <3>3, ItemInvReplace
  <2>3. CASE UNCHANGED cacheVars
    BY <1>1, <2>3 DEF cacheVars
  <2> QED BY <1>2, <2>2, <2>3 DEF FetchDone
<1>3. ASSUME NEW k \in Keys, Evict(k)
      PROVE  ItemInv'
  <2> DEFINE items == {}
  <2>1. /\ cache' = [cache EXCEPT ![k] = items]
        /\ evictHeap' = (evictHeap \ cache[k]) \cup items
        /\ \A i \in items : i.key = k
        /\ \A i, j \in items : i = j
        /\ CacheType
    BY <1>3 DEF Evict, TypeOK
  <2> HIDE DEF items
  <2> QED BY <2>1, ItemInvReplace
<1>4. CASE EvictAll
  BY <1>4 DEF EvictAll, ItemInv, HeapMatchesCache, CachedItems
<1>5. CASE EvictExpired
  BY <1>5, ItemInvExpired DEF TypeOK
<1>6. ASSUME NEW g \in Gets, NEW sync \in BOOLEAN,
             \/ Deliver(g, sync) \/ CancelWaiter(g, sync) \/ CancelMissed(g)
             \/ Finish(g) \/ Cancel(g)
      PROVE  ItemInv'
  BY <1>1, <1>6
     DEF Deliver, CancelWaiter, CancelMissed, Finish, Cancel, cacheVars
<1>7. ASSUME NEW g \in Gets, NEW k \in Keys, NEW force \in BOOLEAN, NEW already \in BOOLEAN,
             GetCached(g, k, already) \/ GetQueued(g, k, force, already)
      PROVE  ItemInv'
  BY <1>1, <1>7 DEF GetCached, GetQueued, cacheVars
<1>8. CASE CancelUnqueue \/ PopulateStep \/ Tick \/ UNCHANGED vars
  BY <1>1, <1>8 DEF CancelUnqueue, PopulateStep, PopulateReturn, Tick, vars, cacheVars
<1> QED
  BY <1>2, <1>3, <1>4, <1>5, <1>6, <1>7, <1>8 DEF Next, LoopStep, Call

\* The heap has exactly the items of the table: no eviction finds a freed one
\* and none is forgotten.
THEOREM HeapHolds == Spec => []HeapMatchesCache
<1>1. Spec => []ItemInv
  BY TypeCorrect, ItemInvInit, ItemInvNext, PTL DEF Spec
<1>2. ItemInv => HeapMatchesCache
  BY DEF ItemInv
<1> QED BY <1>1, <1>2, PTL

-----------------------------------------------------------------------------
(***************************************************************************)
(* Waiters: who is in which queue, and what they are answered.             *)
(***************************************************************************)

\* A get is in the queue of its key, for the fetch it joined; when that is
\* cancelled, it was so before.  It waits, but for the one cancel_in_idle has
\* just answered.
QueuedInv ==
    \A k \in Keys : \A g \in queued[k] :
        /\ gets[g].key = k
        /\ gets[g].joined = inFlight[k]
        /\ inFlight[k] # 0 /\ fetches[inFlight[k]].cancelled => gets[g].late
        /\ Waiting(g) \/ (handler.op = "cancel" /\ g \in handler.left)

\* Those a handler has still to answer are in no queue any more, and what it
\* answers them is right; the one it has answered is in the queue it is to leave.
LeftInv ==
    \A g \in handler.left :
        /\ handler.op = "deliver" =>
              /\ Waiting(g)
              /\ \A k \in Keys : g \notin queued[k]
              /\ handler.answer.kind = "value" => handler.answer.value = gets[g].joined
              /\ handler.answer.kind = "cancelled" => gets[g].late
        /\ handler.op = "cancel" => gets[g].key = handler.key

\* The answers that were given, and who is told of a cancellation.
GivenInv ==
    /\ AnswerOfJoinedFetch /\ CancelIsNotShared
    /\ \A g \in Gets : gets[g].state = "new" => gets[g].joined = 0
    /\ idles \subseteq cancelled

WaiterInv == QueuedInv /\ LeftInv /\ GivenInv

LEMMA WaiterInvInit == Init => WaiterInv
BY DEF Init, WaiterInv, QueuedInv, LeftInv, GivenInv, AnswerOfJoinedFetch,
       CancelIsNotShared, NewGet, NoAnswer, Idle

\* A task is returned: it is answered what it is given, or that it was cancelled.
LEMMA ReturnGives ==
    ASSUME GetType, GivenInv, NEW g \in Called, NEW a \in Answer, NEW sync \in BOOLEAN,
           Return(g, a, sync), UNCHANGED <<cancelled>>, idles' \subseteq idles,
           a.kind = "value" /\ gets[g].joined # 0 => a.value = gets[g].joined,
           a.kind = "cancelled" /\ g \notin cancelled => gets[g].late
    PROVE  /\ GivenInv'
           /\ \A h \in Gets : /\ gets'[h].key = gets[h].key
                              /\ gets'[h].joined = gets[h].joined
                              /\ gets'[h].late = gets[h].late
                              /\ h # g => gets'[h] = gets[h]
           /\ gets'[g].state \in {"returned", "done"}
<1> DEFINE b == IF sync THEN Seen(g, a) ELSE a
           step == IF sync THEN "done" ELSE "returned"
           new == [gets[g] EXCEPT !.state = step, !.answer = b]
<1>1. g \in Gets /\ gets \in [Gets -> Get] /\ gets[g] \in Get
  BY DEF GetType, Called
<1>2. /\ b.kind = "value" /\ gets[g].joined # 0 => b.value = gets[g].joined
      /\ b.kind = "cancelled" /\ g \notin cancelled => gets[g].late
  BY DEF Seen, Cancelled
<1>3. gets' = [gets EXCEPT ![g] = new]
  BY DEF Return
<1>4. step \in {"returned", "done"}
  OBVIOUS
<1> HIDE DEF b, step
<1>5. /\ new.key = gets[g].key /\ new.joined = gets[g].joined
      /\ new.late = gets[g].late /\ new.state = step /\ new.answer = b
  BY <1>1 DEF Get
<1> HIDE DEF new
<1>6. gets'[g] = new /\ \A h \in Gets : h # g => gets'[h] = gets[h]
  BY <1>1, <1>3
<1>7. \A h \in Gets : /\ gets'[h].key = gets[h].key
                      /\ gets'[h].joined = gets[h].joined
                      /\ gets'[h].late = gets[h].late
  BY <1>5, <1>6
<1>8. AnswerOfJoinedFetch' /\ CancelIsNotShared'
  BY <1>1, <1>2, <1>5, <1>6 DEF GivenInv, AnswerOfJoinedFetch, CancelIsNotShared
<1>9. \A h \in Gets : gets'[h].state = "new" => gets'[h].joined = 0
  BY <1>1, <1>4, <1>5, <1>6 DEF GivenInv
<1> QED BY <1>1, <1>4, <1>5, <1>6, <1>7, <1>8, <1>9 DEF GivenInv

\* Steps that leave the gets and the handler alone, while queues shrink and a
\* fetch is cancelled that nobody is left in the queue of.
LEMMA WaitersStay ==
    ASSUME WaiterInv, UNCHANGED <<gets, handler, inFlight>>,
           cancelled \subseteq cancelled', idles' \subseteq cancelled',
           \A k \in Keys : queued'[k] \subseteq queued[k],
           \A k \in Keys : queued'[k] # {} /\ inFlight[k] # 0 =>
               fetches'[inFlight[k]].cancelled = fetches[inFlight[k]].cancelled
    PROVE  WaiterInv'
<1>1. QueuedInv'
  BY DEF WaiterInv, QueuedInv, Waiting
<1>2. LeftInv'
  BY DEF WaiterInv, LeftInv, Waiting
<1>3. GivenInv'
  BY DEF WaiterInv, GivenInv, AnswerOfJoinedFetch, CancelIsNotShared
<1> QED BY <1>1, <1>2, <1>3 DEF WaiterInv

\* The fetch of a key whose queue is empty is the fetch of no other key.
LEMMA CancelledFetch ==
    ASSUME TypeOK, FetchInv, NEW k \in Keys, NEW left, CancelFetch(k, left),
           NEW x \in Keys, inFlight[x] # 0, x = k => left # {}
    PROVE  fetches'[inFlight[x]].cancelled = fetches[inFlight[x]].cancelled
<1>1. CASE left # {} \/ inFlight[k] = 0
  BY <1>1 DEF CancelFetch
<1>2. CASE left = {} /\ inFlight[k] # 0
  <2>1. x # k
    BY <1>2
  <2>2. FetchOfKey(x) /\ FetchOfKey(k)
    BY <1>2 DEF FetchInv
  <2>3. inFlight[x] # inFlight[k]
    BY <2>1, <2>2 DEF FetchOfKey
  <2> QED BY <1>2, <2>2, <2>3 DEF CancelFetch, FetchOfKey, TypeOK, FetchType
<1> QED BY <1>1, <1>2


LEMMA WaiterInvQueued ==
    ASSUME TypeOK, FetchInv, WaiterInv, NEW g \in Gets, NEW k \in Keys,
           NEW force \in BOOLEAN, NEW already \in BOOLEAN, GetQueued(g, k, force, already)
    PROVE  WaiterInv'
<1>1. /\ gets \in [Gets -> Get] /\ inFlight \in [Keys -> 0..MaxFetches]
      /\ queued \in [Keys -> SUBSET Called] /\ fetches \in [FetchId -> Fetch]
      /\ handler.left \subseteq Called
  BY DEF TypeOK, GetType, FetchType, QueueType, HandlerType
<1>2. g \notin Called
  BY DEF GetQueued, Called
<1>3. \A h \in Gets : h # g => gets'[h] = gets[h]
  BY <1>1 DEF GetQueued
<1>4. /\ gets'[g].state = "waiting" /\ gets'[g].key = k
      /\ gets'[g].answer = NoAnswer /\ gets'[g].joined = inFlight'[k]
      /\ gets'[g].late = fetches'[inFlight'[k]].cancelled
  BY <1>1 DEF GetQueued
<1>5. queued' = [queued EXCEPT ![k] = @ \cup {g}] /\ UNCHANGED handler
  BY DEF GetQueued, Enqueue
<1>6. ASSUME NEW x \in Keys, queued[x] # {}
      PROVE  /\ inFlight'[x] = inFlight[x]
             /\ inFlight[x] # 0
             /\ fetches'[inFlight[x]] = fetches[inFlight[x]]
  <2>1. FetchOfKey(x) /\ inFlight[x] # 0
    BY <1>6 DEF FetchInv
  <2>2. CASE inFlight[k] # 0
    BY <2>1, <2>2 DEF GetQueued, StartFetch, fetchVars
  <2>3. CASE inFlight[k] = 0
    <3> DEFINE n == lastFetch + 1
    <3>1. lastFetch \in 0..MaxFetches /\ lastFetch < MaxFetches
      BY <2>3 DEF GetQueued, StartFetch, TypeOK, FetchType
    <3>2. n \in FetchId /\ n > lastFetch
      BY <3>1 DEF FetchId
    <3>3. fetches[n].state = "none"
      BY <3>2 DEF FetchInv
    <3>4. /\ inFlight' = [inFlight EXCEPT ![k] = n]
          /\ fetches' = [fetches EXCEPT ![n] =
                           [state |-> "running", key |-> k, cancelled |-> FALSE]]
      BY <2>3 DEF GetQueued, StartFetch
    <3> HIDE DEF n
    <3>5. x # k /\ inFlight[x] # n
      BY <2>1, <2>3, <3>3 DEF FetchOfKey
    <3> QED BY <1>1, <2>1, <3>4, <3>5 DEF FetchOfKey
  <2> QED BY <2>2, <2>3
<1>7. QueuedInv'
  <2> SUFFICES ASSUME NEW x \in Keys, NEW h \in queued'[x]
               PROVE  /\ gets'[h].key = x
                      /\ gets'[h].joined = inFlight'[x]
                      /\ inFlight'[x] # 0 /\ fetches'[inFlight'[x]].cancelled => gets'[h].late
                      /\ Waiting(h)' \/ (handler.op = "cancel" /\ h \in handler.left)
    BY <1>5 DEF QueuedInv
  <2>1. CASE h \in queued[x]
    <3>1. h # g /\ h \in Gets
      BY <1>1, <1>2, <2>1 DEF Called
    <3> QED BY <1>3, <1>6, <2>1, <3>1 DEF WaiterInv, QueuedInv, Waiting
  <2>2. CASE h \notin queued[x]
    <3>1. h = g /\ x = k
      BY <1>1, <1>5, <2>2
    <3> QED BY <1>4, <3>1 DEF Waiting
  <2> QED BY <2>1, <2>2
<1>8. LeftInv'
  <2> SUFFICES ASSUME NEW h \in handler.left
               PROVE  /\ gets'[h] = gets[h]
                      /\ \A x \in Keys : h \notin queued[x] => h \notin queued'[x]
    BY <1>5 DEF WaiterInv, LeftInv, Waiting
  <2>1. h # g /\ h \in Gets
    BY <1>1, <1>2 DEF Called
  <2> QED BY <1>1, <1>3, <1>5, <2>1
<1>9. GivenInv'
  <2>1. AnswerOfJoinedFetch' /\ \A h \in Gets : gets'[h].state = "new" => gets'[h].joined = 0
    BY <1>3, <1>4 DEF WaiterInv, GivenInv, AnswerOfJoinedFetch, NoAnswer
  <2>2. cancelled \subseteq cancelled' /\ idles' \subseteq cancelled'
    BY DEF GetQueued, WaiterInv, GivenInv
  <2>3. CancelIsNotShared'
    BY <1>3, <1>4, <2>2 DEF WaiterInv, GivenInv, CancelIsNotShared, NoAnswer
  <2> QED BY <2>1, <2>2, <2>3 DEF GivenInv
<1> QED BY <1>7, <1>8, <1>9 DEF WaiterInv

LEMMA WaiterInvCached ==
    ASSUME TypeOK, WaiterInv, NEW g \in Gets, NEW k \in Keys,
           NEW already \in BOOLEAN, GetCached(g, k, already)
    PROVE  WaiterInv'
<1>1. /\ gets \in [Gets -> Get] /\ queued \in [Keys -> SUBSET Called]
      /\ handler.left \subseteq Called
  BY DEF TypeOK, GetType, QueueType, HandlerType
<1>2. g \notin Called /\ gets[g].joined = 0
  BY DEF GetCached, Called, WaiterInv, GivenInv
<1>3. PICK i \in cache[k] :
        gets' = [gets EXCEPT ![g] =
                   [@ EXCEPT !.state = "returned", !.key = k,
                             !.answer = [kind |-> "value", value |-> i.value]]]
  BY DEF GetCached
<1>4. /\ \A h \in Gets : h # g => gets'[h] = gets[h]
      /\ gets'[g].state = "returned" /\ gets'[g].answer.kind = "value"
      /\ gets'[g].joined = 0
  BY <1>1, <1>2, <1>3 DEF Get
<1>5. UNCHANGED <<queued, inFlight, fetches, handler, idles>>
  BY DEF GetCached, fetchVars
<1>6. \A h \in Called : gets'[h] = gets[h] /\ h \in Gets
  BY <1>2, <1>4 DEF Called
<1>7. QueuedInv'
  BY <1>1, <1>5, <1>6 DEF WaiterInv, QueuedInv, Waiting
<1>8. LeftInv'
  BY <1>1, <1>5, <1>6 DEF WaiterInv, LeftInv, Waiting
<1>9. GivenInv'
  <2>1. cancelled \subseteq cancelled'
    BY DEF GetCached
  <2> QED
    BY <1>4, <1>5, <2>1 DEF WaiterInv, GivenInv, AnswerOfJoinedFetch, CancelIsNotShared
<1> QED BY <1>7, <1>8, <1>9 DEF WaiterInv

LEMMA WaiterInvDone ==
    ASSUME TypeOK, FetchInv, WaiterInv, NEW f \in FetchId, FetchDone(f)
    PROVE  WaiterInv'
<1> DEFINE k  == fetches[f].key
           ok == fetches[f].state = "value" /\ ~fetches[f].cancelled
           answer == CASE ok -> [kind |-> "value", value |-> f]
                       [] fetches[f].cancelled -> Cancelled
                       [] OTHER -> [kind |-> "error", value |-> 0]
<1>1. k \in Keys /\ inFlight[k] = f /\ f # 0
  <2>1. fetches[f].state \in {"value", "error"}
    BY DEF FetchDone
  <2>2. Live(f) /\ k \in Keys
    BY <2>1 DEF Live, TypeOK, FetchType
  <2>3. f # 0
    BY DEF FetchId
  <2> QED BY <2>2, <2>3 DEF FetchInv, OneFetchPerKey
<1>2. /\ inFlight' = [inFlight EXCEPT ![k] = 0]
      /\ queued' = [queued EXCEPT ![k] = {}]
      /\ UNCHANGED <<gets, cancelled, idles>>
      /\ handler.op = "idle"
  BY DEF FetchDone, Land
<1>3. \A x \in FetchId : fetches'[x].cancelled = fetches[x].cancelled
  BY DEF FetchDone, TypeOK, FetchType, Fetch
<1>4. inFlight \in [Keys -> 0..MaxFetches] /\ queued \in [Keys -> SUBSET Called]
  BY DEF TypeOK, FetchType, QueueType
<1>5. handler' = IF queued[k] = {} THEN Idle
                 ELSE [op |-> "deliver", key |-> k, left |-> queued[k], answer |-> answer]
  BY DEF FetchDone
<1>6. /\ answer.kind = "value" => answer.value = f
      /\ answer.kind = "cancelled" => fetches[f].cancelled
  BY DEF Cancelled
<1> HIDE DEF k, answer
<1>7. QueuedInv'
  <2> SUFFICES ASSUME NEW x \in Keys, NEW h \in queued'[x]
               PROVE  /\ gets[h].key = x
                      /\ gets[h].joined = inFlight'[x]
                      /\ inFlight'[x] # 0 /\ fetches'[inFlight'[x]].cancelled => gets[h].late
                      /\ Waiting(h)
    BY <1>2 DEF QueuedInv, Waiting
  <2>1. x # k /\ h \in queued[x] /\ inFlight'[x] = inFlight[x]
    BY <1>1, <1>2, <1>4
  <2>2. inFlight[x] \in FetchId
    BY <2>1 DEF FetchInv, FetchOfKey
  <2> QED BY <1>2, <1>3, <2>1, <2>2 DEF WaiterInv, QueuedInv
<1>8. LeftInv'
  <2>1. CASE queued[k] = {}
    BY <1>5, <2>1 DEF LeftInv, Idle
  <2>2. CASE queued[k] # {}
    <3>1. /\ handler'.op = "deliver" /\ handler'.left = queued[k]
          /\ handler'.answer = answer
      BY <1>5, <2>2
    <3>2. ASSUME NEW h \in queued[k]
          PROVE  /\ Waiting(h)'
                 /\ \A x \in Keys : h \notin queued'[x]
                 /\ answer.kind = "value" => answer.value = gets'[h].joined
                 /\ answer.kind = "cancelled" => gets'[h].late
      <4>1. /\ gets[h].key = k /\ gets[h].joined = f /\ Waiting(h)
            /\ fetches[f].cancelled => gets[h].late
        BY <1>1, <1>2, <3>2 DEF WaiterInv, QueuedInv
      <4>2. \A x \in Keys : h \notin queued'[x]
        BY <1>1, <1>2, <1>4, <4>1 DEF WaiterInv, QueuedInv
      <4> QED BY <1>2, <1>6, <4>1, <4>2 DEF Waiting
    <3> QED BY <3>1, <3>2 DEF LeftInv
  <2> QED BY <2>1, <2>2
<1>9. GivenInv'
  BY <1>2 DEF WaiterInv, GivenInv, AnswerOfJoinedFetch, CancelIsNotShared
<1> QED BY <1>7, <1>8, <1>9 DEF WaiterInv

LEMMA WaiterInvDeliver ==
    ASSUME TypeOK, WaiterInv, NEW g \in Gets, NEW sync \in BOOLEAN, Deliver(g, sync)
    PROVE  WaiterInv'
<1>1. g \in Called /\ handler \in Handler /\ g \in handler.left /\ handler.op = "deliver"
  BY DEF Deliver, TypeOK, HandlerType
<1>2. handler.answer \in Answer
  BY <1>1 DEF Handler
<1>3. /\ \A k \in Keys : g \notin queued[k]
      /\ handler.answer.kind = "value" => handler.answer.value = gets[g].joined
      /\ handler.answer.kind = "cancelled" => gets[g].late
  BY <1>1 DEF WaiterInv, LeftInv
<1>4. UNCHANGED <<queued, inFlight, fetches, cancelled, idles>>
  BY DEF Deliver, fetchVars
<1>5. /\ GivenInv'
      /\ \A h \in Gets : h # g => gets'[h] = gets[h]
  <2>1. Return(g, handler.answer, sync) /\ idles' \subseteq idles /\ UNCHANGED <<cancelled>>
    BY <1>4 DEF Deliver
  <2>2. GetType /\ GivenInv
    BY DEF TypeOK, WaiterInv
  <2>3. /\ handler.answer.kind = "value" /\ gets[g].joined # 0
              => handler.answer.value = gets[g].joined
        /\ handler.answer.kind = "cancelled" /\ g \notin cancelled => gets[g].late
    BY <1>3
  <2> QED BY <1>1, <1>2, <2>1, <2>2, <2>3, ReturnGives
<1>6. QueuedInv'
  <2> SUFFICES ASSUME NEW k \in Keys, NEW h \in queued[k]
               PROVE  gets'[h] = gets[h] /\ Waiting(h)
    BY <1>4 DEF WaiterInv, QueuedInv, Waiting
  <2>1. h # g /\ h \in Gets
    BY <1>3 DEF TypeOK, QueueType, Called
  <2> QED BY <1>1, <1>5, <2>1 DEF WaiterInv, QueuedInv
<1>7. LeftInv'
  <2>1. CASE handler.left = {g}
    BY <2>1 DEF Deliver, LeftInv, Idle
  <2>2. CASE handler.left # {g}
    <3>1. /\ handler'.op = "deliver" /\ handler'.answer = handler.answer
          /\ handler'.left = handler.left \ {g}
      BY <1>1, <2>2 DEF Deliver, Handler
    <3>2. ASSUME NEW h \in handler'.left
          PROVE  gets'[h] = gets[h] /\ h \in handler.left
      <4>1. h # g /\ h \in handler.left /\ h \in Gets
        BY <3>1, <3>2 DEF TypeOK, HandlerType, Called
      <4> QED BY <1>5, <4>1
    <3> QED BY <1>1, <1>4, <3>1, <3>2 DEF WaiterInv, LeftInv, Waiting
  <2> QED BY <2>1, <2>2
<1> QED BY <1>5, <1>6, <1>7 DEF WaiterInv

LEMMA WaiterInvFinish ==
    ASSUME TypeOK, WaiterInv, NEW g \in Gets, Finish(g)
    PROVE  WaiterInv'
<1>1. /\ g \in Called /\ gets[g].answer \in Answer /\ gets[g].state = "returned"
      /\ handler.op = "idle" /\ UNCHANGED <<queued, inFlight, fetches, cancelled, idles, handler>>
  BY DEF Finish, TypeOK, GetType, Get, Called, fetchVars
<1>2. /\ gets[g].answer.kind = "value" /\ gets[g].joined # 0
            => gets[g].answer.value = gets[g].joined
      /\ gets[g].answer.kind = "cancelled" /\ g \notin cancelled => gets[g].late
  BY DEF WaiterInv, GivenInv, AnswerOfJoinedFetch, CancelIsNotShared
<1>3. /\ GivenInv'
      /\ \A h \in Gets : h # g => gets'[h] = gets[h]
  <2>1. Return(g, gets[g].answer, TRUE) /\ TRUE \in BOOLEAN
    BY DEF Finish
  <2>2. GetType /\ GivenInv
    BY DEF TypeOK, WaiterInv
  <2>3. UNCHANGED <<cancelled>> /\ idles' \subseteq idles
    BY <1>1
  <2> QED BY <1>1, <1>2, <2>1, <2>2, <2>3, ReturnGives
<1>4. QueuedInv'
  <2> SUFFICES ASSUME NEW k \in Keys, NEW h \in queued[k]
               PROVE  gets'[h] = gets[h]
    BY <1>1 DEF WaiterInv, QueuedInv, Waiting
  <2>1. Waiting(h) /\ h \in Gets
    BY <1>1 DEF WaiterInv, QueuedInv, TypeOK, QueueType, Called
  <2> QED BY <1>1, <1>3, <2>1 DEF Waiting
<1>5. LeftInv'
  BY <1>1 DEF LeftInv
<1> QED BY <1>3, <1>4, <1>5 DEF WaiterInv

LEMMA WaiterInvCancelWaiter ==
    ASSUME TypeOK, WaiterInv, NEW g \in Gets, NEW sync \in BOOLEAN, CancelWaiter(g, sync)
    PROVE  WaiterInv'
<1>1. /\ g \in Called /\ g \in cancelled /\ handler.op = "idle"
      /\ UNCHANGED <<queued, inFlight, fetches, cancelled>> /\ idles' = idles \ {g}
  BY DEF CancelWaiter, WaiterInv, GivenInv, TypeOK, GetType, fetchVars
<1>2. Cancelled \in Answer /\ Cancelled.kind = "cancelled"
  BY AnswerTypes DEF Cancelled
<1>3. /\ GivenInv'
      /\ \A h \in Gets : /\ gets'[h].key = gets[h].key
                         /\ gets'[h].joined = gets[h].joined
                         /\ gets'[h].late = gets[h].late
                         /\ h # g => gets'[h] = gets[h]
  <2>1. Return(g, Cancelled, sync) /\ idles' \subseteq idles
    BY <1>1 DEF CancelWaiter
  <2>2. GetType /\ GivenInv
    BY DEF TypeOK, WaiterInv
  <2> QED BY <1>1, <1>2, <2>1, <2>2, ReturnGives
<1>4. handler'.op = "cancel" /\ handler'.left = {g} /\ handler'.key = gets[g].key
  BY DEF CancelWaiter
<1>5. QueuedInv'
  <2> SUFFICES ASSUME NEW k \in Keys, NEW h \in queued[k]
               PROVE  /\ gets'[h].key = k
                      /\ gets'[h].joined = inFlight[k]
                      /\ inFlight[k] # 0 /\ fetches[inFlight[k]].cancelled => gets'[h].late
                      /\ Waiting(h)' \/ h = g
    BY <1>1, <1>4 DEF QueuedInv
  <2>1. h \in Gets
    BY DEF TypeOK, QueueType, Called
  <2> QED BY <1>1, <1>3, <2>1 DEF WaiterInv, QueuedInv, Waiting
<1>6. LeftInv'
  BY <1>3, <1>4 DEF LeftInv
<1> QED BY <1>3, <1>5, <1>6 DEF WaiterInv

LEMMA WaiterInvUnqueue ==
    ASSUME TypeOK, FetchInv, WaiterInv, CancelUnqueue
    PROVE  WaiterInv'
<1> DEFINE k == handler.key
           left == queued[k] \ handler.left
<1>1. /\ k \in Keys /\ queued \in [Keys -> SUBSET Called] /\ handler.op = "cancel"
      /\ UNCHANGED <<gets, inFlight, cancelled, idles>>
      /\ handler' = Idle /\ queued' = [queued EXCEPT ![k] = left]
      /\ CancelFetch(k, left)
  BY DEF CancelUnqueue, Unqueue, TypeOK, HandlerType, QueueType
<1>2. \A x \in Keys : queued'[x] \subseteq queued[x]
  BY <1>1
<1>3. ASSUME NEW x \in Keys, queued'[x] # {}, inFlight[x] # 0
      PROVE  fetches'[inFlight[x]].cancelled = fetches[inFlight[x]].cancelled
  <2>1. x = k => left # {}
    BY <1>1, <1>3
  <2> HIDE DEF k, left
  <2> QED BY <1>1, <1>3, <2>1, CancelledFetch
<1>4. ASSUME NEW x \in Keys, NEW h \in queued'[x]
      PROVE  Waiting(h) /\ h \in queued[x]
  <2>1. h \in queued[x]
    BY <1>2, <1>4
  <2>2. CASE h \in handler.left
    <3>1. gets[h].key = k /\ gets[h].key = x
      BY <1>1, <2>1, <2>2 DEF WaiterInv, LeftInv, QueuedInv
    <3> QED BY <1>1, <1>4, <2>2, <3>1
  <2>3. CASE h \notin handler.left
    BY <2>1, <2>3 DEF WaiterInv, QueuedInv
  <2> QED BY <2>1, <2>2, <2>3
<1>5. QueuedInv'
  BY <1>1, <1>3, <1>4 DEF WaiterInv, QueuedInv, Waiting
<1>6. LeftInv'
  BY <1>1 DEF LeftInv, Idle
<1>7. GivenInv'
  BY <1>1 DEF WaiterInv, GivenInv, AnswerOfJoinedFetch, CancelIsNotShared
<1> QED BY <1>5, <1>6, <1>7 DEF WaiterInv

LEMMA WaiterInvMissed ==
    ASSUME TypeOK, FetchInv, WaiterInv, NEW g \in Gets, CancelMissed(g)
    PROVE  WaiterInv'
<1> DEFINE k == gets[g].key
<1>1. /\ k \in Keys /\ UNCHANGED <<gets, handler, inFlight, queued, cancelled>>
      /\ idles' \subseteq cancelled
  BY DEF CancelMissed, TypeOK, GetType, WaiterInv, GivenInv
<1>2. ASSUME NEW x \in Keys, queued'[x] # {}, inFlight[x] # 0
      PROVE  fetches'[inFlight[x]].cancelled = fetches[inFlight[x]].cancelled
  <2>1. CASE fetches' = fetches
    BY <2>1
  <2>2. CASE CancelFetch(k, queued[k])
    <3>1. x = k => queued[k] # {}
      BY <1>1, <1>2
    <3> HIDE DEF k
    <3> QED BY <1>1, <1>2, <2>2, <3>1, CancelledFetch
  <2> QED BY <2>1, <2>2 DEF CancelMissed
<1> QED BY <1>1, <1>2, WaitersStay

LEMMA WaiterInvNext == TypeOK /\ FetchInv /\ WaiterInv /\ [Next]_vars => WaiterInv'
<1> SUFFICES ASSUME TypeOK, FetchInv, WaiterInv, [Next]_vars PROVE WaiterInv'
  OBVIOUS
<1>1. ASSUME UNCHANGED <<gets, handler, inFlight, queued, fetches>>,
             cancelled \subseteq cancelled', idles' \subseteq cancelled'
      PROVE  WaiterInv'
  BY <1>1, WaitersStay
<1>2. idles \subseteq cancelled
  BY DEF WaiterInv, GivenInv
<1>3. ASSUME NEW g \in Gets, Cancel(g)
      PROVE  WaiterInv'
  BY <1>1, <1>2, <1>3 DEF Cancel, Notice, fetchVars
<1>4. ASSUME NEW k \in Keys, Evict(k)
      PROVE  WaiterInv'
  BY <1>1, <1>2, <1>4 DEF Evict, fetchVars
<1>5. CASE EvictAll \/ EvictExpired \/ Tick \/ UNCHANGED vars
  BY <1>1, <1>2, <1>5 DEF EvictAll, EvictExpired, Tick, vars, fetchVars
<1>6. ASSUME NEW f \in FetchId, NEW o \in {"value", "error"}, PopulateReturn(f, o)
      PROVE  WaiterInv'
  <2>1. /\ UNCHANGED <<gets, handler, inFlight, queued, cancelled, idles>>
        /\ \A x \in FetchId : fetches'[x].cancelled = fetches[x].cancelled
    BY <1>6 DEF PopulateReturn, TypeOK, FetchType, Fetch
  <2>2. \A x \in Keys : inFlight[x] # 0 => inFlight[x] \in FetchId
    BY DEF FetchInv, FetchOfKey
  <2> QED BY <1>2, <2>1, <2>2, WaitersStay
<1> QED
  BY <1>3, <1>4, <1>5, <1>6, WaiterInvQueued, WaiterInvCached, WaiterInvDone,
     WaiterInvDeliver, WaiterInvFinish, WaiterInvCancelWaiter, WaiterInvUnqueue,
     WaiterInvMissed
     DEF Next, LoopStep, Call, PopulateStep

LEMMA WaitersAlways == Spec => []WaiterInv
<1>1. Spec => [](TypeOK /\ FetchInv)
  BY TypeCorrect, FetchInvInit, FetchInvNext, PTL DEF Spec
<1> QED BY <1>1, WaiterInvInit, WaiterInvNext, PTL DEF Spec

\* No get is answered twice, whoever cancels and whatever its callback calls.
THEOREM AnsweredOnceHolds == Spec => []AnsweredOnce
<1>1. WaiterInv => AnsweredOnce
  BY DEF WaiterInv, QueuedInv, LeftInv, AnsweredOnce
<1> QED BY <1>1, WaitersAlways, PTL

\* A forced update is answered by the fetch it joined and by no older one.
THEOREM JoinedFetchAnswers == Spec => []AnswerOfJoinedFetch
<1>1. WaiterInv => AnswerOfJoinedFetch
  BY DEF WaiterInv, GivenInv
<1> QED BY <1>1, WaitersAlways, PTL

\* A caller that gives up does not take the answer from those that wait with it.
THEOREM CancelStaysAlone == Spec => []CancelIsNotShared
<1>1. WaiterInv => CancelIsNotShared
  BY DEF WaiterInv, GivenInv
<1> QED BY <1>1, WaitersAlways, PTL

=============================================================================

SPECIFICATION FairSpec
CONSTANTS
    Keys = {k1, k2}
    Gets = {g1, g2}
    TimeToLive = 1
    MaxTime = 3
    MaxFetches = 2
    NoKey = NoKey
INVARIANTS
    AnsweredOnce
    NobodyStranded
    AnswerOfJoinedFetch
    CancelIsNotShared
    HeapMatchesCache
PROPERTIES
    EveryGetAnswered
    ExpiredItemsLeave
CHECK_DEADLOCK FALSE

CONSTANTS
    t1 = t1
    t2 = t2
    t3 = t3
    NoTask = NoTask
    NoResult = NoResult
    Task <- MCTwoTasks
    Keeping <- MCFirst
    Cancellable <- MCSecond
    Silent <- MCFirst
    MaxNested = 1
SPECIFICATION LiveSpec
INVARIANTS
    TypeOK
    CalledOnce
    NothingLost
    OffTheThread
    AbortsOnlyChained
PROPERTIES
    EveryTaskAnswered
    KeepsItsPromise
CHECK_DEADLOCK FALSE

SPECIFICATION FairSpec
CONSTANTS
    NoRun = NoRun
    Builds = {r1, r2}
    Keeping = {r1, r2}
    Runs = {r1, r2}
    MaxPipelines = 2
INVARIANTS
    TypeOK
    OneRunAtATime
PROPERTIES
    RunIsCurrent
    StopEndsTheRun
CHECK_DEADLOCK FALSE

SPECIFICATION BuildFairSpec
CONSTANTS
    Builds = {b1, b2}
    Keeping = {}
    MaxPipelines = 2
INVARIANTS
    BuildingIsReal
    CanBuildIsSetUp
PROPERTIES
    DoneIsCurrent
    PipelinesServe
    EveryBuildAnswered
CHECK_DEADLOCK FALSE

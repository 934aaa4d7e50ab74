SPECIFICATION Spec
CONSTANTS
    NoRun = NoRun
    Builds = {r1}
    Keeping = {r1}
    Runs = {r1}
    MaxPipelines = 2
INVARIANTS
    ContextIsAlive
CHECK_DEADLOCK FALSE

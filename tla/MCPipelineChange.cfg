SPECIFICATION FairSpec
CONSTANTS
    conf = conf
    make = make
    inst = inst
    extra = extra
    NoStage = NoStage
    Stages = {make, inst, extra}
    Requests = {t1, t2}
    MaxPhase = 3
    Configure = 1
    PhaseOf <- MCPhaseOf
    WhenceOf <- MCWhenceOf
    PriorityOf <- MCPriorityOf
    Loaded <- MCTwo
    Extra = {extra}
    Transients = {extra}
    Queried = {make}
    Chains <- MCChains
    Launchers = {make}
    MaxPauses = 1
    BuildPhases = {3}
    CleanPhases = {2}
    RebuildPhases = {0}
    Changes = {"attach", "invalidate", "disable", "builddir", "broken"}
PROPERTIES
    InOrder
    EveryRequestAnswered
CHECK_DEADLOCK FALSE

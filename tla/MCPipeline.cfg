SPECIFICATION Spec
CONSTANTS
    conf = conf
    make = make
    inst = inst
    extra = extra
    NoStage = NoStage
    Stages = {conf, make}
    Requests = {t1, t2, t3}
    MaxPhase = 3
    Configure = 1
    PhaseOf <- MCPhaseOf
    WhenceOf <- MCWhenceOf
    PriorityOf <- MCPriorityOf
    Loaded <- MCShort
    Extra = {}
    Transients = {}
    Queried = {make}
    Chains <- NoChains
    Launchers = {}
    MaxPauses = 1
    BuildPhases = {1, 2}
    CleanPhases = {}
    RebuildPhases = {1}
    Changes = {"cancel", "request", "unready", "builddir"}
SYMMETRY Interchangeable
INVARIANTS
    OneAtATime
    NobodyForgotten
    CompletedMeansBuilt
PROPERTIES
    DoneMeansBuilt
    EarlyMeansBuilt
    ServesAQueue
CHECK_DEADLOCK FALSE

SPECIFICATION Spec
CONSTANTS
    conf = conf
    make = make
    inst = inst
    extra = extra
    NoStage = NoStage
    Stages = {conf, make}
    Requests = {t1, t2}
    MaxPhase = 3
    Configure = 1
    PhaseOf <- MCPhaseOf
    WhenceOf <- MCWhenceOf
    PriorityOf <- MCPriorityOf
    Loaded <- MCShort
    Extra = {}
    Transients = {}
    Queried = {}
    Chains <- NoChains
    Launchers = {}
    MaxPauses = 1
    BuildPhases = {2}
    CleanPhases = {}
    RebuildPhases = {}
    Changes = {"invalidate"}
SYMMETRY Interchangeable
INVARIANTS
    CompletedMeansBuilt
CHECK_DEADLOCK FALSE

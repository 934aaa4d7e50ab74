SPECIFICATION FairSpec
CONSTANTS
    Processes = {p1, p2}
    NoProcess = NoProcess
    Threshold = 1
    Queries = {q1, q2}
    Files = {f1}
    MaxVersion = 2
INVARIANTS
    NoStrayProcess
    QueryIsFresh
    PeerIsSupervised
PROPERTIES
    RespawnsAreSpaced
    EveryQueryAnswered
CHECK_DEADLOCK FALSE

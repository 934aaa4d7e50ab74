SPECIFICATION FairSpec
CONSTANTS
    Files = {f1, f2}
    Providers = {p1, p2}
    NoFile = NoFile
INVARIANTS
    TypeOK
    Settled
    NoLeftovers
PROPERTIES
    RequestsAreServed
CHECK_DEADLOCK FALSE

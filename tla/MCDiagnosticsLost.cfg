SPECIFICATION FairSpec
CONSTANTS
    Files = {f1}
    Providers = {p1}
    NoFile = NoFile
PROPERTIES
    NextOneIsTickedOff
CHECK_DEADLOCK FALSE

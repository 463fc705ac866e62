SPECIFICATION FairSpec
CONSTANTS
    CallsMayFail = TRUE
INVARIANTS
    TypeOK
    AnyOrder
    JunkExplained
PROPERTIES
    AllUp
CHECK_DEADLOCK FALSE

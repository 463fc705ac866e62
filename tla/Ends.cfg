SPECIFICATION FairSpec
CONSTANTS
    BLOCKSIZE = 2
    MaxLen = 5
    OverRead = {0, 1}
    MayReset = TRUE
INVARIANTS
    TypeOK
    WrittenInOrder
    TextIntact
PROPERTIES
    AllWritten
CHECK_DEADLOCK FALSE

SPECIFICATION FairSpec
CONSTANTS
    CONN_NUMBER = 3
    BLOCKSIZE = 2
    INITIAL_CAPACITY = 1
    PTR_SIZE = 1
    SEQ_MOD = 2
    StreamLen = 7
    NoOwner = free
    Getter = getter
    Faults = {"nfq", "verdict", "nfrecv", "listen", "accept", "connect", "reset", "pollerr", "link"}
    AssertAcceptFails = FALSE
INVARIANTS
    TypeOK
    SlotInBounds
    PacketsCutStream
    EachBlockOnce
    CloseOnlyDrained
PROPERTIES
    AllRelayed
CHECK_DEADLOCK FALSE

SPECIFICATION FairSpec
CONSTANTS
    Conns = {c1, c2}
    Forwarder = fwd
    NoOwner = free
    NBlocks = 3
    SEQ_MOD = 3
    BLOCKSIZE = 1
    PTR_SIZE = 8
    INIT_QUEUE_SIZE = 16
    ShortSends = FALSE
    CutConns = {c1}
INVARIANTS
    TypeOK
    BlocksInPlace
    NothingTwice
    NothingLost
    ExclusiveUntilStolen
    SentCounters
    NoStaleHead
PROPERTIES
    AllForwarded

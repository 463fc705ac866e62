SPECIFICATION FairSpec
CONSTANTS
    Conns = {c1}
    Forwarder = fwd
    NoOwner = free
    NBlocks = 3
    SEQ_MOD = 2
    BLOCKSIZE = 1
    PTR_SIZE = 8
    INIT_QUEUE_SIZE = 16
    ShortSends = FALSE
    CutConns = {}
PROPERTIES
    AllForwarded

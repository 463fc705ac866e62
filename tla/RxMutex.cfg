SPECIFICATION Spec
CONSTANTS
    Conns = {c1, c2}
    Forwarder = fwd
    NoOwner = free
    NBlocks = 2
    SEQ_MOD = 2
    BLOCKSIZE = 1
    PTR_SIZE = 8
    INIT_QUEUE_SIZE = 16
    ShortSends = FALSE
    CutConns = {}
INVARIANTS
    PoolExclusive

SPECIFICATION Spec
CONSTANTS
    Conns = {c1}
    Forwarder = fwd
    NoOwner = free
    NBlocks = 1
    SEQ_MOD = 2
    BLOCKSIZE = 2
    PTR_SIZE = 8
    INIT_QUEUE_SIZE = 16
    ShortSends = TRUE
    CutConns = {}
INVARIANTS
    BytesInOrder
